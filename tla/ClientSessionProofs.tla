-------------------------- MODULE ClientSessionProofs --------------------------
(***************************************************************************)
(* Proofs about ClientSession, for any users, subsidiaries, positions and  *)
(* any number of sign-ins, switches, reloads and ended sessions: types,    *)
(* and the two safety invariants about what the page shows.                *)
(*                                                                         *)
(* The argument.  Requests are numbered in the order they are sent.  Each  *)
(* change of the user or the subsidiary to a pair that is complete sends a *)
(* request for that pair, so the latest request is always about the pair   *)
(* on screen (LatestInv), in whatever order the answers of the others      *)
(* land; and an answer puts on offer the list of the cookie it was asked   *)
(* with (ShownInv).  A flag that says loading has somebody who clears it:  *)
(* any outcome of a request for positions, and the one run of init unless  *)
(* that has rejected (LoadingInHand).                                      *)
(***************************************************************************)
EXTENDS ClientSession, TLAPS

RoleType == [offered : SUBSET (Positions \cup Demo), active : Positions \cup Demo \cup {None},
             demo : BOOLEAN, admin : BOOLEAN, error : BOOLEAN]
FlowType == [n : Nat, by : Users \cup {None}, then : {"boot", "login"},
             stage : {"me", "subs", "rejected"}, at : {"login", "app"}]

\* The requests in flight and the one whose outcome is shown.
Sent == fetches \cup {shownFrom}

LatestInv ==
    /\ \A f \in Sent : f.n <= issued
    /\ user # None /\ subsidiary # None =>
           /\ issued # 0
           /\ \A f \in Sent : f.n = issued => f.for = user /\ f.sub = subsidiary

ShownInv ==
    issued # 0 /\ shownFrom.n = issued =>
        \/ role.demo \/ role.error
        \/ role.offered \ Demo = Held[shownFrom.by][shownFrom.sub]

ScreenInv == ActiveIsOffered /\ LatestInv /\ ShownInv

\* Who is going to clear the two loading flags.  A run of init that has rejected
\* clears nothing: a page load that has come to that is left out by name.
PositionsInHand == posLoading => fetches # {}
BootInHand ==
    authLoading => DeadStart \/ \E f \in flows : f.then = "boot" /\ f.stage # "rejected"
LoadingInHand == PositionsInHand /\ BootInHand

IInv == TypeOK /\ ScreenInv /\ LoadingInHand

-----------------------------------------------------------------------------
(* The operators.                                                          *)

LEMMA FirstIn == \A S : S # {} => First(S) \in S
  BY DEF First

LEMMA PreferredIn == \A S, x : S # {} => Preferred(x, S) \in S
  BY FirstIn DEF Preferred

LEMMA NoRoleTyped == NoRole \in RoleType /\ NoRole.offered = {} /\ NoRole.active = None
  BY DEF NoRole, RoleType

\* What an answer is turned into: something to choose from and a choice, and the
\* list that was answered unless there was none.
LEMMA AdoptEffect ==
    ASSUME TypeOK, NEW list \in SUBSET Positions
    PROVE  /\ Adopt(list) \in RoleType
           /\ Adopt(list).active \in Adopt(list).offered
           /\ Adopt(list).demo \/ Adopt(list).offered \ Demo = list
  <1>1. role.error \in BOOLEAN /\ Demo # {} /\ Positions \cap Demo = {}
    BY SessionAssumption DEF TypeOK
  <1>2. CASE list = {}
    <2>1. First(Demo) \in Demo
      BY <1>1, FirstIn
    <2>. QED
      BY <1>1, <1>2, <2>1 DEF Adopt, RoleType
  <1>3. CASE list # {} /\ list \cap Admin = {}
    <2>1. First(list) \in list
      BY <1>3, FirstIn
    <2>. QED
      BY <1>1, <1>3, <2>1 DEF Adopt, RoleType
  <1>4. CASE list \cap Admin # {}
    <2>1. First(list \cap Admin) \in list
      BY <1>4, FirstIn
    <2> DEFINE choice == IF saved.viewAs \in list \cup Demo THEN saved.viewAs
                         ELSE First(list \cap Admin)
    <2>2. choice \in list \cup Demo
      BY <2>1
    <2>3. Adopt(list) = [offered |-> list \cup Demo, demo |-> FALSE, admin |-> TRUE,
                         error |-> role.error, active |-> choice]
      BY <1>4 DEF Adopt
    <2>. QED
      BY <1>1, <2>2, <2>3 DEF RoleType
  <1>. QED
    BY <1>2, <1>3, <1>4

\* The effect sends at most one request, for the pair it follows, and leaves the
\* choice alone.
LEMMA FollowEffect ==
    ASSUME TypeOK, NEW u \in Users \cup {None}, NEW s \in Subs \cup {None},
           NEW c \in Users \cup {None}, Follow(u, s, c)
    PROVE  /\ role' \in RoleType /\ posLoading' \in BOOLEAN /\ issued' \in Nat
           /\ fetches' \subseteq Fetch /\ shownFrom' = shownFrom
           /\ role'.offered = role.offered /\ role'.active = role.active
           /\ \/ UNCHANGED <<role, issued, fetches>>
                 /\ (<<u, s>> = <<user, subsidiary>> \/ u = None \/ s = None)
              \/ /\ u # None /\ s # None /\ issued' = issued + 1
                 /\ fetches' = fetches \cup
                        {[n |-> issued + 1, by |-> c, for |-> u, sub |-> s]}
  <1>1. role \in RoleType /\ issued \in Nat /\ fetches \subseteq Fetch
        /\ posLoading \in BOOLEAN
    BY DEF TypeOK, RoleType
  <1>2. CASE <<u, s>> = <<user, subsidiary>>
    BY <1>1, <1>2 DEF Follow, posVars
  <1>3. CASE <<u, s>> # <<user, subsidiary>> /\ (u = None \/ s = None)
    BY <1>1, <1>3 DEF Follow
  <1>4. CASE <<u, s>> # <<user, subsidiary>> /\ u # None /\ s # None
    <2>1. [n |-> issued + 1, by |-> c, for |-> u, sub |-> s] \in Fetch
      BY <1>1, <1>4 DEF Fetch
    <2>2. /\ role' = [role EXCEPT !.error = FALSE] /\ posLoading' = TRUE
          /\ issued' = issued + 1 /\ shownFrom' = shownFrom
          /\ fetches' = fetches \cup {[n |-> issued + 1, by |-> c, for |-> u, sub |-> s]}
      BY <1>4 DEF Follow
    <2>3. /\ role' \in RoleType
          /\ role'.offered = role.offered /\ role'.active = role.active
      BY <1>1, <2>2 DEF RoleType
    <2>. QED
      BY <1>1, <1>4, <2>1, <2>2, <2>3
  <1>. QED
    BY <1>2, <1>3, <1>4

LEMMA TypeStep == TypeOK /\ [SessionNext]_sessionVars => TypeOK'
  <1> SUFFICES ASSUME TypeOK, [SessionNext]_sessionVars PROVE TypeOK'
    OBVIOUS
  <1> USE DEF TypeOK
  <1>1. ASSUME NEW f \in fetches, PositionsAnswered(f) PROVE TypeOK'
    <2>1. f \in Fetch /\ f.by \in Users /\ f.sub \in Subs
      BY <1>1 DEF PositionsAnswered, Fetch
    <2>2. role' \in RoleType
      BY <1>1, <2>1, AdoptEffect, SessionAssumption DEF PositionsAnswered
    <2>. QED
      BY <1>1, <2>1, <2>2 DEF PositionsAnswered, Landed, RoleType, authVars, posVars, counts
  <1>2. ASSUME NEW f \in fetches, PositionsRefused(f) PROVE TypeOK'
    <2>1. role' \in RoleType
      BY <1>2, AdoptEffect DEF PositionsRefused
    <2>. QED
      BY <1>2, <2>1 DEF PositionsRefused, Landed, RoleType, authVars, posVars, counts
  <1>3. ASSUME NEW f \in fetches, PositionsFailed(f) PROVE TypeOK'
    <2>1. role' \in RoleType
      BY <1>3, NoRoleTyped DEF PositionsFailed, RoleType
    <2>. QED
      BY <1>3, <2>1 DEF PositionsFailed, Landed, RoleType, authVars, posVars, counts
  <1>4. ASSUME NEW f \in flows, MeAnswered(f) PROVE TypeOK'
    <2>1. /\ f \in FlowType /\ f.by \in Users
          /\ [f EXCEPT !.stage = "subs", !.by = cookie] \in FlowType
      BY <1>4 DEF MeAnswered, FlowType
    <2>2. /\ role' \in RoleType /\ posLoading' \in BOOLEAN /\ issued' \in Nat
          /\ fetches' \subseteq Fetch /\ shownFrom' = shownFrom
      BY <1>4, <2>1, FollowEffect DEF MeAnswered
    <2>3. /\ flows' \subseteq FlowType /\ user' \in Users \cup {None}
          /\ UNCHANGED <<cookie, saved, page, subsidiary, subsidiaries, authLoading, signing,
                         leaving, signIns, switches, faults>>
      BY <1>4, <2>1 DEF MeAnswered, FlowType, counts
    <2>. QED
      BY <2>2, <2>3 DEF RoleType, FlowType
  <1>5. ASSUME NEW f \in flows, MeRefused(f) PROVE TypeOK'
    <2>1. flows \subseteq FlowType
      BY DEF FlowType
    <2>2. /\ flows' \subseteq FlowType /\ authLoading' = FALSE
          /\ page' = IF f.at = "login" THEN page ELSE "login"
          /\ UNCHANGED <<cookie, saved, user, subsidiary, subsidiaries, signing, leaving,
                         role, posLoading, fetches, issued, shownFrom,
                         signIns, switches, faults>>
      BY <1>5, <2>1 DEF MeRefused, posVars, counts
    <2>3. page' \in {"login", "app"} /\ authLoading' \in BOOLEAN
      BY <2>2
    <2>. QED
      BY <2>2, <2>3 DEF FlowType
  <1>6. ASSUME NEW f \in flows, MeFailed(f) PROVE TypeOK'
    <2>1. f \in FlowType /\ [f EXCEPT !.stage = "rejected"] \in FlowType
      BY <1>6 DEF MeFailed, FlowType
    <2>. QED
      BY <1>6, <2>1 DEF MeFailed, FlowType, authVars, posVars, counts
  <1>7. ASSUME NEW f \in flows, NEW subs \in {{}} \cup {Member[u] : u \in Users},
               SubsLand(f, subs)
        PROVE  TypeOK'
    <2>1. subsidiaries' \subseteq Subs /\ subsidiary' \in Subs \cup {None}
      BY <1>7, PreferredIn, SessionAssumption DEF SubsLand
    <2>2. /\ role' \in RoleType /\ posLoading' \in BOOLEAN /\ issued' \in Nat
          /\ fetches' \subseteq Fetch /\ shownFrom' = shownFrom
      BY <1>7, <2>1, FollowEffect DEF SubsLand
    <2>. QED
      BY <1>7, <2>1, <2>2 DEF SubsLand, RoleType, FlowType, counts
  <1>8. ASSUME NEW u \in Users, SignIn(u) PROVE TypeOK'
    BY <1>8 DEF SignIn, authVars, posVars, counts
  <1>9. ASSUME SignOut PROVE TypeOK'
    BY <1>9 DEF SignOut, authVars, posVars, counts
  <1>10. ASSUME NEW s \in Subs, SetSubsidiary(s) PROVE TypeOK'
    <2>1. /\ role' \in RoleType /\ posLoading' \in BOOLEAN /\ issued' \in Nat
          /\ fetches' \subseteq Fetch /\ shownFrom' = shownFrom
      BY <1>10, FollowEffect DEF SetSubsidiary
    <2>2. saved' \in [sub : Subs \cup {None}, viewAs : Positions \cup Demo \cup {None}]
      BY <1>10 DEF SetSubsidiary
    <2>. QED
      BY <1>10, <2>1, <2>2 DEF SetSubsidiary, RoleType
  <1>11. ASSUME NEW p \in Positions \cup Demo, SetActive(p) PROVE TypeOK'
    <2>1. role' \in RoleType
      BY <1>11 DEF SetActive, RoleType
    <2>2. saved' \in [sub : Subs \cup {None}, viewAs : Positions \cup Demo \cup {None}]
      BY <1>11 DEF SetActive
    <2>. QED
      BY <1>11, <2>1, <2>2 DEF SetActive, RoleType, authVars
  <1>12. ASSUME SignInAccepted PROVE TypeOK'
    <2>1. /\ signing \in Users
          /\ [n |-> signIns, by |-> signing, then |-> "login", stage |-> "subs",
              at |-> page] \in FlowType
      BY <1>12 DEF SignInAccepted, FlowType
    <2>2. /\ role' \in RoleType /\ posLoading' \in BOOLEAN /\ issued' \in Nat
          /\ fetches' \subseteq Fetch /\ shownFrom' = shownFrom
      BY <1>12, <2>1, FollowEffect DEF SignInAccepted
    <2>. QED
      BY <1>12, <2>1, <2>2 DEF SignInAccepted, RoleType, FlowType, counts
  <1>13. ASSUME SignInRefused PROVE TypeOK'
    BY <1>13 DEF SignInRefused, authVars, posVars, counts
  <1>14. ASSUME SignOutServed PROVE TypeOK'
    BY <1>14 DEF SignOutServed, authVars, posVars, counts
  <1>15. ASSUME SignOutReturns PROVE TypeOK'
    <2>1. /\ role' \in RoleType /\ posLoading' \in BOOLEAN /\ issued' \in Nat
          /\ fetches' \subseteq Fetch /\ shownFrom' = shownFrom
      BY <1>15, FollowEffect DEF SignOutReturns
    <2>. QED
      BY <1>15, <2>1 DEF SignOutReturns, RoleType, counts
  <1>16. ASSUME SignOutFails PROVE TypeOK'
    BY <1>16 DEF SignOutFails, authVars, posVars, counts
  <1>17. ASSUME Redirect PROVE TypeOK'
    BY <1>17 DEF Redirect, authVars, posVars, counts
  <1>18. ASSUME SessionEnds PROVE TypeOK'
    BY <1>18 DEF SessionEnds, authVars, posVars, counts
  <1>19. ASSUME Reload PROVE TypeOK'
    <2>2. page' \in {"login", "app"} /\ faults' \in Nat
      BY <1>19 DEF Reload
    <2>1. NoRole \in RoleType /\ Booting(cookie, page') \in FlowType
      BY <2>2, NoRoleTyped DEF Booting, FlowType
    <2>3. /\ role' \in RoleType /\ flows' \subseteq FlowType /\ fetches' \subseteq Fetch
          /\ shownFrom' \in Fetch \cup {NoFetch}
      BY <1>19, <2>1 DEF Reload
    <2>4. /\ user' = None /\ subsidiary' = None /\ subsidiaries' = {} /\ authLoading' = TRUE
          /\ signing' = None /\ leaving' = "no" /\ posLoading' = FALSE /\ issued' = 0
          /\ UNCHANGED <<cookie, saved, signIns, switches>>
      BY <1>19 DEF Reload
    <2>. QED
      BY <2>2, <2>3, <2>4 DEF RoleType, FlowType
  <1>20. CASE UNCHANGED sessionVars
    BY <1>20 DEF sessionVars, authVars, posVars, counts
  <1>. QED
    BY <1>1, <1>2, <1>3, <1>4, <1>5, <1>6, <1>7, <1>8, <1>9, <1>10, <1>11, <1>12,
       <1>13, <1>14, <1>15, <1>16, <1>17, <1>18, <1>19, <1>20
       DEF SessionNext, Answers, PositionsLand, Bootstraps, Clicks, Session

-----------------------------------------------------------------------------
(* What is on screen.                                                      *)

\* The invariants look at nothing that the other steps change.
LEMMA Untouched ==
    ASSUME ScreenInv,
           UNCHANGED <<user, subsidiary, role, fetches, issued, shownFrom>>
    PROVE  ScreenInv'
  BY DEF ScreenInv, ActiveIsOffered, LatestInv, ShownInv, Sent

\* The page follows the user and the subsidiary.
LEMMA Followed ==
    ASSUME TypeOK, ScreenInv,
           NEW u \in Users \cup {None}, NEW s \in Subs \cup {None},
           NEW c \in Users \cup {None}, Follow(u, s, c), user' = u, subsidiary' = s
    PROVE  ScreenInv'
  <1>1. issued \in Nat /\ \A f \in Sent : f.n \in Nat
    BY DEF TypeOK, Sent, Fetch, NoFetch
  <1>2. /\ shownFrom' = shownFrom
        /\ role'.offered = role.offered /\ role'.active = role.active
    BY FollowEffect
  <1>3. ActiveIsOffered'
    BY <1>2 DEF ActiveIsOffered, ScreenInv
  <1>4. CASE /\ UNCHANGED <<role, issued, fetches>>
             /\ (<<u, s>> = <<user, subsidiary>> \/ u = None \/ s = None)
    BY <1>2, <1>3, <1>4 DEF ScreenInv, LatestInv, ShownInv, Sent
  <1>5. CASE /\ u # None /\ s # None /\ issued' = issued + 1
             /\ fetches' = fetches \cup {[n |-> issued + 1, by |-> c, for |-> u, sub |-> s]}
    <2>1. \A f \in Sent' : f \in Sent \/ (f.n = issued + 1 /\ f.for = u /\ f.sub = s)
      BY <1>2, <1>5 DEF Sent
    <2>2. \A f \in Sent : f.n <= issued
      BY DEF LatestInv, ScreenInv
    <2>3. LatestInv'
      BY <1>1, <1>5, <2>1, <2>2 DEF LatestInv
    <2>4. shownFrom'.n # issued'
      BY <1>1, <1>2, <1>5, <2>2 DEF Sent
    <2>. QED
      BY <1>3, <2>3, <2>4 DEF ScreenInv, ShownInv
  <1>. QED
    BY <1>4, <1>5, FollowEffect

\* An outcome lands.
LEMMA LandedShows ==
    ASSUME ScreenInv, NEW f \in fetches, Landed(f),
           \/ role' = NoRole \/ role'.active \in role'.offered
           \/ role' = [NoRole EXCEPT !.error = TRUE],
           \/ role'.demo \/ role'.error
           \/ role'.offered \ Demo = Held[f.by][f.sub]
    PROVE  ScreenInv'
  <1>1. /\ shownFrom' = f /\ Sent' \subseteq Sent
        /\ UNCHANGED <<user, subsidiary, issued>>
    BY DEF Landed, Sent, authVars
  <1>2. ActiveIsOffered'
    BY DEF ActiveIsOffered, NoRole
  <1>3. LatestInv'
    BY <1>1 DEF LatestInv, ScreenInv
  <1>. QED
    BY <1>1, <1>2, <1>3 DEF ScreenInv, ShownInv

LEMMA ScreenStep ==
    TypeOK /\ ScreenInv /\ [SessionNext]_sessionVars => ScreenInv'
  <1> SUFFICES ASSUME TypeOK, ScreenInv,
                      [SessionNext]_sessionVars PROVE ScreenInv'
    OBVIOUS
  <1>1. ASSUME NEW f \in fetches, PositionsAnswered(f) PROVE ScreenInv'
    <2>1. f.by \in Users /\ f.sub \in Subs
      BY <1>1 DEF PositionsAnswered, TypeOK, Fetch
    <2>2. Held[f.by][f.sub] \in SUBSET Positions
      BY <2>1, SessionAssumption
    <2>. QED
      BY <1>1, <2>2, AdoptEffect, LandedShows DEF PositionsAnswered
  <1>2. ASSUME NEW f \in fetches, PositionsRefused(f) PROVE ScreenInv'
    <2>1. /\ Adopt({}).active \in Adopt({}).offered
          /\ Adopt({}).demo
      BY AdoptEffect DEF Adopt
    <2>. QED
      BY <1>2, <2>1, LandedShows DEF PositionsRefused
  <1>3. ASSUME NEW f \in fetches, PositionsFailed(f) PROVE ScreenInv'
    <2>1. [NoRole EXCEPT !.error = TRUE].error
      BY DEF NoRole
    <2>. QED
      BY <1>3, <2>1, LandedShows DEF PositionsFailed
  <1>4. ASSUME NEW f \in flows, MeAnswered(f) PROVE ScreenInv'
    <2>1. f.by \in Users
      BY <1>4 DEF MeAnswered, TypeOK
    <2>2. cookie \in Users \cup {None} /\ subsidiary \in Subs \cup {None}
      BY DEF TypeOK
    <2>. QED
      BY <1>4, <2>1, <2>2, Followed DEF MeAnswered
  <1>5. ASSUME NEW f \in flows, MeRefused(f) PROVE ScreenInv'
    BY <1>5, Untouched DEF MeRefused, authVars, posVars
  <1>6. ASSUME NEW f \in flows, MeFailed(f) PROVE ScreenInv'
    BY <1>6, Untouched DEF MeFailed, authVars, posVars
  <1>7. ASSUME NEW f \in flows, NEW subs \in {{}} \cup {Member[u] : u \in Users},
               SubsLand(f, subs)
        PROVE  ScreenInv'
    <2>1. subsidiary' \in Subs \cup {None}
      BY <1>7, TypeStep DEF TypeOK, SessionNext, Answers, Bootstraps
    <2>2. cookie \in Users \cup {None} /\ user \in Users \cup {None}
      BY DEF TypeOK
    <2>. QED
      BY <1>7, <2>1, <2>2, Followed DEF SubsLand
  <1>8. ASSUME NEW u \in Users, SignIn(u) PROVE ScreenInv'
    BY <1>8, Untouched DEF SignIn, authVars, posVars
  <1>9. ASSUME SignOut PROVE ScreenInv'
    BY <1>9, Untouched DEF SignOut, authVars, posVars
  <1>10. ASSUME NEW s \in Subs, SetSubsidiary(s) PROVE ScreenInv'
    <2>1. cookie \in Users \cup {None} /\ user \in Users \cup {None}
      BY DEF TypeOK
    <2>. QED
      BY <1>10, <2>1, Followed DEF SetSubsidiary
  <1>11. ASSUME NEW p \in Positions \cup Demo, SetActive(p) PROVE ScreenInv'
    <2>1. role \in RoleType
      BY DEF TypeOK, RoleType
    <2>2. /\ role'.active = p /\ role'.offered = role.offered
          /\ role'.demo = role.demo /\ role'.error = role.error
      BY <1>11, <2>1 DEF SetActive, RoleType
    <2>3. p \in role.offered
      BY <1>11 DEF SetActive
    <2>4. UNCHANGED <<user, subsidiary, fetches, issued, shownFrom>>
      BY <1>11 DEF SetActive, authVars
    <2>. QED
      BY <2>2, <2>3, <2>4 DEF ScreenInv, ActiveIsOffered, LatestInv, ShownInv, Sent
  <1>12. ASSUME SignInAccepted PROVE ScreenInv'
    <2>1. signing \in Users /\ subsidiary \in Subs \cup {None}
      BY <1>12 DEF SignInAccepted, TypeOK
    <2>. QED
      BY <1>12, <2>1, Followed DEF SignInAccepted
  <1>13. ASSUME SignInRefused PROVE ScreenInv'
    BY <1>13, Untouched DEF SignInRefused, authVars, posVars
  <1>14. ASSUME SignOutServed PROVE ScreenInv'
    BY <1>14, Untouched DEF SignOutServed, authVars, posVars
  <1>15. ASSUME SignOutReturns PROVE ScreenInv'
    BY <1>15, Followed DEF SignOutReturns
  <1>16. ASSUME SignOutFails PROVE ScreenInv'
    BY <1>16, Untouched DEF SignOutFails, authVars, posVars
  <1>17. ASSUME Redirect PROVE ScreenInv'
    BY <1>17, Untouched DEF Redirect, authVars, posVars
  <1>18. ASSUME SessionEnds PROVE ScreenInv'
    BY <1>18, Untouched DEF SessionEnds, authVars, posVars
  <1>19. ASSUME Reload PROVE ScreenInv'
    <2>1. NoFetch.n = 0
      BY DEF NoFetch
    <2>. QED
      BY <1>19, <2>1, NoRoleTyped
         DEF Reload, ScreenInv, ActiveIsOffered, LatestInv, ShownInv, Sent
  <1>20. CASE UNCHANGED sessionVars
    BY <1>20, Untouched DEF sessionVars, authVars, posVars
  <1>. QED
    BY <1>1, <1>2, <1>3, <1>4, <1>5, <1>6, <1>7, <1>8, <1>9, <1>10, <1>11, <1>12,
       <1>13, <1>14, <1>15, <1>16, <1>17, <1>18, <1>19, <1>20
       DEF SessionNext, Answers, PositionsLand, Bootstraps, Clicks, Session

-----------------------------------------------------------------------------
(* The loading flags.                                                      *)

LEMMA FollowLoads ==
    ASSUME TypeOK, PositionsInHand, NEW u, NEW s, NEW c, Follow(u, s, c)
    PROVE  PositionsInHand'
  <1>1. CASE <<u, s>> = <<user, subsidiary>>
    BY <1>1 DEF Follow, posVars, PositionsInHand
  <1>2. CASE <<u, s>> # <<user, subsidiary>> /\ (u = None \/ s = None)
    BY <1>2 DEF Follow, PositionsInHand
  <1>3. CASE <<u, s>> # <<user, subsidiary>> /\ u # None /\ s # None
    BY <1>3 DEF Follow, PositionsInHand
  <1>. QED
    BY <1>1, <1>2, <1>3

\* Every outcome of a request clears the flag, the mirror of Follow.
LEMMA PositionsStep ==
    TypeOK /\ PositionsInHand /\ [SessionNext]_sessionVars => PositionsInHand'
  <1> SUFFICES ASSUME TypeOK, PositionsInHand, [SessionNext]_sessionVars
               PROVE PositionsInHand'
    OBVIOUS
  <1>1. CASE PositionsLand
    BY <1>1 DEF PositionsLand, PositionsAnswered, PositionsRefused, PositionsFailed,
                PositionsInHand
  <1>2. CASE Bootstraps
    BY <1>2, FollowLoads DEF Bootstraps, MeAnswered, MeRefused, MeFailed, SubsLand, posVars,
                             PositionsInHand
  <1>3. CASE Clicks
    BY <1>3, FollowLoads DEF Clicks, SignIn, SignOut, SetSubsidiary, SetActive, posVars,
                             PositionsInHand
  <1>4. CASE Session
    BY <1>4, FollowLoads DEF Session, SignInAccepted, SignInRefused, SignOutServed,
                             SignOutReturns, SignOutFails, posVars, PositionsInHand
  <1>5. CASE Redirect \/ SessionEnds \/ UNCHANGED sessionVars
    BY <1>5 DEF Redirect, SessionEnds, sessionVars, posVars, PositionsInHand
  <1>6. CASE Reload
    BY <1>6 DEF Reload, PositionsInHand
  <1>. QED
    BY <1>1, <1>2, <1>3, <1>4, <1>5, <1>6 DEF SessionNext, Answers

\* The run of init leaves when it clears the flag or rejects; login's leave it alone.
LEMMA BootStep == TypeOK /\ BootInHand /\ [SessionNext]_sessionVars => BootInHand'
  <1> SUFFICES ASSUME TypeOK, BootInHand, [SessionNext]_sessionVars PROVE BootInHand'
    OBVIOUS
  <1> USE DEF BootInHand, DeadStart
  <1>1. ASSUME authLoading' => authLoading, flows \subseteq flows' PROVE BootInHand'
    BY <1>1
  <1>2. CASE PositionsLand
    BY <1>1, <1>2 DEF PositionsLand, PositionsAnswered, PositionsRefused, PositionsFailed,
                      Landed, authVars
  <1>4. ASSUME NEW f \in flows, MeAnswered(f) PROVE BootInHand'
    <2> DEFINE g == [f EXCEPT !.stage = "subs", !.by = cookie]
    <2>1. f \in FlowType /\ f.stage = "me"
      BY <1>4 DEF TypeOK, FlowType, MeAnswered
    <2>2. g.then = f.then /\ g.stage = "subs"
      BY <2>1 DEF FlowType
    <2>3. flows' = (flows \ {f}) \cup {g} /\ authLoading' = authLoading
      BY <1>4 DEF MeAnswered
    <2> HIDE DEF g
    <2>. QED
      BY <2>1, <2>2, <2>3
  <1>5. ASSUME NEW f \in flows, MeRefused(f) PROVE BootInHand'
    BY <1>5 DEF MeRefused
  <1>6. ASSUME NEW f \in flows, MeFailed(f) PROVE BootInHand'
    <2>1. f \in FlowType
      BY DEF TypeOK, FlowType
    <2>2. [f EXCEPT !.stage = "rejected"].stage = "rejected"
      BY <2>1 DEF FlowType
    <2>. QED
      BY <1>6, <2>2 DEF MeFailed, authVars
  <1>7. ASSUME NEW f \in flows, NEW subs, SubsLand(f, subs) PROVE BootInHand'
    BY <1>7 DEF SubsLand
  <1>8. CASE Bootstraps
    BY <1>4, <1>5, <1>6, <1>7, <1>8 DEF Bootstraps
  <1>9. CASE Clicks
    BY <1>1, <1>9 DEF Clicks, SignIn, SignOut, SetSubsidiary, SetActive, authVars
  <1>10. CASE Session
    BY <1>1, <1>10 DEF Session, SignInAccepted, SignInRefused, SignOutServed,
                       SignOutReturns, SignOutFails, authVars
  <1>11. CASE Redirect \/ SessionEnds \/ UNCHANGED sessionVars
    BY <1>1, <1>11 DEF Redirect, SessionEnds, sessionVars, authVars
  <1>12. CASE Reload
    BY <1>12 DEF Reload, Booting
  <1>. QED
    BY <1>2, <1>8, <1>9, <1>10, <1>11, <1>12 DEF SessionNext, Answers

-----------------------------------------------------------------------------
(* The theorems.                                                           *)

LEMMA InitInv == SessionInit => IInv
  <1> SUFFICES ASSUME SessionInit PROVE IInv
    OBVIOUS
  <1> USE DEF SessionInit
  <1>1. NoRole \in RoleType /\ Booting(cookie, page) \in FlowType
    BY NoRoleTyped DEF Booting, FlowType
  <1>2. TypeOK
    BY <1>1 DEF TypeOK, RoleType, FlowType
  <1>3. ActiveIsOffered
    BY NoRoleTyped DEF ActiveIsOffered
  <1>4. LatestInv /\ ShownInv
    BY DEF LatestInv, ShownInv, Sent, NoFetch
  <1>5. LoadingInHand
    BY DEF LoadingInHand, PositionsInHand, BootInHand, Booting
  <1>. QED
    BY <1>2, <1>3, <1>4, <1>5 DEF IInv, ScreenInv

LEMMA InvHolds == Spec => []IInv
  <1>1. IInv /\ [SessionNext]_sessionVars => IInv'
    BY TypeStep, ScreenStep, PositionsStep, BootStep DEF IInv, LoadingInHand
  <1>. QED
    BY InitInv, <1>1, PTL DEF Spec

\* The state of the two providers keeps its types, whatever lands when.
THEOREM TypeCorrect == Spec => []TypeOK
  <1>1. IInv => TypeOK
    BY DEF IInv
  <1>. QED
    BY InvHolds, <1>1, PTL

\* PositionProvider never shows a position as active that it does not offer, with
\* any saved choice of an earlier user and any order of the answers.
THEOREM ActiveOffered == Spec => []ActiveIsOffered
  <1>1. IInv => ActiveIsOffered
    BY DEF IInv, ScreenInv
  <1>. QED
    BY InvHolds, <1>1, PTL

\* Once the latest request has been answered and not overtaken, and if it carried
\* the cookie of the user on screen, the list on offer is what that user holds in the
\* subsidiary on screen, whatever sign-outs, sign-ins and switches came before.
THEOREM LatestFits == Spec => []LatestAnswerFits
  <1>1. ASSUME IInv, user # None, subsidiary # None, ~Awaited, ~Overtaken, ~OthersCookie
        PROVE  role.demo \/ role.error \/ role.offered \ Demo = Held[user][subsidiary]
    <2>1. shownFrom.n = issued /\ shownFrom.by = user
      BY <1>1 DEF Overtaken, OthersCookie
    <2>2. issued # 0 /\ shownFrom.for = user /\ shownFrom.sub = subsidiary
      BY <1>1, <2>1 DEF IInv, ScreenInv, LatestInv, Sent
    <2>. QED
      BY <1>1, <2>1, <2>2 DEF IInv, ScreenInv, ShownInv
  <1>2. IInv => LatestAnswerFits
    BY <1>1 DEF LatestAnswerFits
  <1>. QED
    BY InvHolds, <1>2, PTL

\* The safety half of LoadingEnds and PageSettles: while the page frame waits for
\* positions a request for them is in flight, whichever outcome comes, and while it
\* waits for the user a run of init is at work that will clear the flag.  The one
\* exemption is DeadStart: GET /auth/me found no network, init has rejected before
\* its setIsLoading(false), and the flag stays set till the page is loaded again.
THEOREM LoadingNotForgotten == Spec => []LoadingInHand
  <1>1. IInv => LoadingInHand
    BY DEF IInv
  <1>. QED
    BY InvHolds, <1>1, PTL

=============================================================================

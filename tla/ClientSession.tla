---------------------------- MODULE ClientSession ----------------------------
(***************************************************************************)
(* One browser tab of the web client: AuthProvider (src/web/lib/auth.tsx), *)
(* PositionProvider (src/web/lib/position.tsx) and the parts of the page   *)
(* frame that drive them.                                                  *)
(*                                                                         *)
(* Both providers live as long as the tab: signing out is a navigation     *)
(* within the page and resets only what the code names.  Nothing cancels a *)
(* request, so the answers to requests of an earlier user or subsidiary    *)
(* land at any later time and in any order.  A request carries the session *)
(* cookie of the moment it is sent; the server answers it, refuses it      *)
(* (401, 403, 500) or the network fails.                                   *)
(***************************************************************************)
EXTENDS Naturals

CONSTANTS
    Users,
    Subs,          \* subsidiaries
    Positions,     \* positions users may be assigned
    Demo,          \* DEMO_POSITIONS
    Admin,         \* the positions whose code is GROUP_ADMIN
    Member,        \* GET /org/me/subsidiaries, by user
    Held,          \* GET /org/me/positions, by user and subsidiary
    None,          \* null
    MaxSignIns,    \* bound: sign-ins in the tab
    MaxSwitches,   \* bound: choices of a subsidiary or a role to view as
    MaxFaults      \* bound: reloads and ended sessions

ASSUME SessionAssumption ==
    /\ Positions \cap Demo = {}
    /\ Demo # {}
    /\ Admin \subseteq Positions
    /\ Member \in [Users -> SUBSET Subs]
    /\ Held \in [Users -> [Subs -> SUBSET Positions]]
    /\ None \notin Users \cup Subs \cup Positions \cup Demo
    /\ MaxSignIns \in Nat /\ MaxSwitches \in Nat /\ MaxFaults \in Nat

VARIABLES
    cookie,       \* whose session the browser's cookie stands for
    saved,        \* localStorage: pageos_subsidiary_id and pageos_view_as
    page,         \* "login", or "app" for every other path
    user, subsidiary, subsidiaries, authLoading,     \* AuthProvider
    flows,        \* the runs of init and login that await an answer
    signing,      \* the user whose POST /auth/login is in flight
    leaving,      \* the progress of POST /auth/logout
    role,         \* PositionProvider: what it offers and has chosen
    posLoading,   \* PositionProvider's isLoading
    fetches,      \* its requests in flight
    issued,       \* how many it has sent since the page was loaded
    shownFrom,    \* history: the request whose outcome role shows
    signIns, switches, faults

authVars == <<user, subsidiary, subsidiaries, authLoading>>
posVars == <<role, posLoading, fetches, issued, shownFrom>>
counts == <<signIns, switches, faults>>
sessionVars == <<cookie, saved, page, authVars, flows, signing, leaving, posVars, counts>>

NoRole == [offered |-> {}, active |-> None, demo |-> FALSE, admin |-> FALSE, error |-> FALSE]
NoFetch == [n |-> 0, by |-> None, for |-> None, sub |-> None]

\* The element the code falls back to: the one marked primary, or the first.
First(S) == CHOOSE x \in S : TRUE
Preferred(choice, S) == IF choice \in S THEN choice ELSE First(S)

\* init() has asked GET /auth/me with the cookie of the page load; its closure
\* keeps the path of that moment.
Booting(c, at) == [n |-> 0, by |-> c, then |-> "boot", stage |-> "me", at |-> at]

SessionInit ==
    /\ cookie \in Users \cup {None}
    /\ saved = [sub |-> None, viewAs |-> None]
    /\ page = IF cookie = None THEN "login" ELSE "app"
    /\ user = None /\ subsidiary = None /\ subsidiaries = {} /\ authLoading = TRUE
    /\ flows = {Booting(cookie, page)}
    /\ signing = None /\ leaving = "no"
    /\ role = NoRole /\ posLoading = FALSE /\ fetches = {} /\ issued = 0
    /\ shownFrom = NoFetch
    /\ signIns = 0 /\ switches = 0 /\ faults = 0

-----------------------------------------------------------------------------
(* PositionProvider *)

\* (Mutant: the effect depends on the user alone.)
FollowUser(u, s, c) ==
    IF u = user
    THEN UNCHANGED posVars
    ELSE IF u = None \/ s = None
    THEN /\ posLoading' = FALSE
         /\ UNCHANGED <<role, fetches, issued, shownFrom>>
    ELSE /\ posLoading' = TRUE
         /\ role' = [role EXCEPT !.error = FALSE]
         /\ issued' = issued + 1
         /\ fetches' = fetches \cup {[n |-> issued + 1, by |-> c, for |-> u, sub |-> s]}
         /\ UNCHANGED shownFrom

\* (Mutant: the effect asks without a user or a subsidiary, too.)
FollowAlways(u, s, c) ==
    IF <<u, s>> = <<user, subsidiary>>
    THEN UNCHANGED posVars
    ELSE /\ posLoading' = TRUE
         /\ role' = [role EXCEPT !.error = FALSE]
         /\ issued' = issued + 1
         /\ fetches' = fetches \cup {[n |-> issued + 1, by |-> c, for |-> u, sub |-> s]}
         /\ UNCHANGED shownFrom

\* The effect on [user?.ID, subsidiary?.ID], when they become u and s.  Without
\* either of them it keeps the positions it has.
Follow(u, s, c) ==
    IF <<u, s>> = <<user, subsidiary>>
    THEN UNCHANGED posVars
    ELSE IF u = None \/ s = None
    THEN /\ posLoading' = FALSE
         /\ UNCHANGED <<role, fetches, issued, shownFrom>>
    ELSE /\ posLoading' = TRUE
         /\ role' = [role EXCEPT !.error = FALSE]
         /\ issued' = issued + 1
         /\ fetches' = fetches \cup {[n |-> issued + 1, by |-> c, for |-> u, sub |-> s]}
         /\ UNCHANGED shownFrom

\* (Mutant: the saved choice is restored without looking it up in the list.)
AdoptUnlooked(list) ==
    IF list = {}
    THEN [offered |-> Demo, active |-> First(Demo), demo |-> TRUE, admin |-> FALSE,
          error |-> role.error]
    ELSE IF list \cap Admin = {}
    THEN [offered |-> list, demo |-> FALSE, admin |-> FALSE, error |-> role.error,
          active |-> IF saved.viewAs = None THEN First(list) ELSE saved.viewAs]
    ELSE [offered |-> list \cup Demo, demo |-> FALSE, admin |-> TRUE, error |-> role.error,
          active |-> IF saved.viewAs = None THEN First(list \cap Admin) ELSE saved.viewAs]

\* What an answer is turned into: the list, a GROUP_ADMIN's list with the roles
\* to simulate, or demo mode.  The keys pageos_position_* and pageos_demo_role
\* are read here too, but no part of the client ever writes them.
Adopt(list) ==
    IF list = {}
    THEN [offered |-> Demo, active |-> First(Demo), demo |-> TRUE, admin |-> FALSE,
          error |-> role.error]
    ELSE IF list \cap Admin = {}
    THEN [offered |-> list, active |-> First(list), demo |-> FALSE, admin |-> FALSE,
          error |-> role.error]
    ELSE [offered |-> list \cup Demo, demo |-> FALSE, admin |-> TRUE, error |-> role.error,
          active |-> IF saved.viewAs \in list \cup Demo THEN saved.viewAs
                     ELSE First(list \cap Admin)]

Landed(f) ==
    /\ f \in fetches
    /\ fetches' = fetches \ {f}
    /\ shownFrom' = f
    /\ UNCHANGED <<cookie, saved, page, authVars, flows, signing, leaving, issued, counts>>

\* The server answers a request that carried a session.
PositionsAnswered(f) ==
    /\ f.by # None
    /\ Landed(f)
    /\ role' = Adopt(Held[f.by][f.sub])
    /\ posLoading' = FALSE

\* A status other than 2xx counts as an empty list.
PositionsRefused(f) ==
    /\ Landed(f)
    /\ role' = Adopt({})
    /\ posLoading' = FALSE

\* (Mutant: the error path leaves the spinner on.)
PositionsFailedLoading(f) ==
    /\ Landed(f)
    /\ role' = [NoRole EXCEPT !.error = TRUE]
    /\ UNCHANGED posLoading

PositionsFailed(f) ==
    /\ Landed(f)
    /\ role' = [NoRole EXCEPT !.error = TRUE]
    /\ posLoading' = FALSE

PositionsLand ==
    \E f \in fetches : PositionsAnswered(f) \/ PositionsRefused(f) \/ PositionsFailed(f)

-----------------------------------------------------------------------------
(* AuthProvider *)

\* GET /auth/me names the user of the cookie it was sent with; loadSubsidiaries
\* follows with the cookie of now.
MeAnswered(f) ==
    /\ f \in flows /\ f.stage = "me" /\ f.by # None
    /\ user' = f.by
    /\ flows' = (flows \ {f}) \cup {[f EXCEPT !.stage = "subs", !.by = cookie]}
    /\ Follow(f.by, subsidiary, cookie)
    /\ UNCHANGED <<cookie, saved, page, subsidiary, subsidiaries, authLoading, signing,
                   leaving, counts>>

\* (Mutant: loading ends only for a signed-in user.)
MeRefusedLoading(f) ==
    /\ f \in flows /\ f.stage = "me"
    /\ flows' = flows \ {f}
    /\ page' = IF f.at = "login" THEN page ELSE "login"
    /\ UNCHANGED <<cookie, saved, authVars, signing, leaving, posVars, counts>>

\* Without a user init goes to the login page, unless the page was loaded there.
MeRefused(f) ==
    /\ f \in flows /\ f.stage = "me"
    /\ flows' = flows \ {f}
    /\ page' = IF f.at = "login" THEN page ELSE "login"
    /\ authLoading' = FALSE
    /\ UNCHANGED <<cookie, saved, user, subsidiary, subsidiaries, signing, leaving, posVars,
                   counts>>

\* The network fails: init rejects before setIsLoading(false), which is never
\* called in this page load.
MeFailed(f) ==
    /\ f \in flows /\ f.stage = "me"
    /\ flows' = (flows \ {f}) \cup {[f EXCEPT !.stage = "rejected"]}
    /\ UNCHANGED <<cookie, saved, page, authVars, signing, leaving, posVars, counts>>

\* loadSubsidiaries ends with the list subs (empty if refused or failed), and
\* init or login goes on.
SubsLand(f, subs) ==
    /\ f \in flows /\ f.stage = "subs"
    /\ subs # {} => f.by # None /\ subs = Member[f.by]
    /\ flows' = flows \ {f}
    /\ subsidiaries' = subs
    /\ subsidiary' = IF subs = {} THEN None ELSE Preferred(saved.sub, subs)
    /\ Follow(user, subsidiary', cookie)
    /\ authLoading' = (authLoading /\ f.then # "boot")
    /\ page' = IF f.then = "login" THEN "app" ELSE page
    /\ UNCHANGED <<cookie, saved, user, signing, leaving, counts>>

Bootstraps ==
    \E f \in flows :
        \/ MeAnswered(f) \/ MeRefused(f) \/ MeFailed(f)
        \/ \E subs \in {{}} \cup {Member[u] : u \in Users} : SubsLand(f, subs)

\* The login form is submitted.
SignIn(u) ==
    /\ page = "login" /\ user = None /\ signing = None
    /\ signIns < MaxSignIns
    /\ signing' = u
    /\ signIns' = signIns + 1
    /\ UNCHANGED <<cookie, saved, page, authVars, flows, leaving, posVars, switches, faults>>

SignInAccepted ==
    /\ signing # None
    /\ cookie' = signing
    /\ user' = signing
    /\ flows' = flows \cup {[n |-> signIns, by |-> signing, then |-> "login",
                             stage |-> "subs", at |-> page]}
    /\ Follow(signing, subsidiary, signing)
    /\ signing' = None
    /\ UNCHANGED <<saved, page, subsidiary, subsidiaries, authLoading, leaving, counts>>

SignInRefused ==
    /\ signing # None
    /\ signing' = None
    /\ UNCHANGED <<cookie, saved, page, authVars, flows, leaving, posVars, counts>>

\* AppLayout draws its menus when neither provider is loading.
LayoutShown == page = "app" /\ ~authLoading /\ ~posLoading

SignOut ==
    /\ LayoutShown /\ leaving = "no"
    /\ leaving' = "sent"
    /\ UNCHANGED <<cookie, saved, page, authVars, flows, signing, posVars, counts>>

\* The server revokes the session and clears the cookie.
SignOutServed ==
    /\ leaving = "sent"
    /\ cookie' = None
    /\ leaving' = "served"
    /\ UNCHANGED <<saved, page, authVars, flows, signing, posVars, counts>>

\* logout goes on after its await.
SignOutReturns ==
    /\ leaving = "served"
    /\ user' = None /\ subsidiary' = None /\ subsidiaries' = {}
    /\ Follow(None, None, None)
    /\ saved' = [sub |-> None, viewAs |-> None]
    /\ page' = "login"
    /\ leaving' = "no"
    /\ UNCHANGED <<cookie, authLoading, flows, signing, counts>>

\* The network fails: the await throws and nothing is cleared.
SignOutFails ==
    /\ leaving # "no"
    /\ leaving' = "no"
    /\ UNCHANGED <<cookie, saved, page, authVars, flows, signing, posVars, counts>>

\* The switcher of the sidebar.
SetSubsidiary(s) ==
    /\ LayoutShown /\ subsidiary # None /\ s \in subsidiaries
    /\ switches < MaxSwitches
    /\ subsidiary' = s
    /\ saved' = [saved EXCEPT !.sub = s]
    /\ Follow(user, s, cookie)
    /\ switches' = switches + 1
    /\ UNCHANGED <<cookie, page, user, subsidiaries, authLoading, flows, signing, leaving,
                   signIns, faults>>

\* "View As", offered to a GROUP_ADMIN only.
SetActive(p) ==
    /\ LayoutShown /\ role.active # None /\ role.admin
    /\ p \in role.offered \cap (Admin \cup Demo)
    /\ switches < MaxSwitches
    /\ role' = [role EXCEPT !.active = p]
    /\ saved' = [saved EXCEPT !.viewAs = p]
    /\ switches' = switches + 1
    /\ UNCHANGED <<cookie, page, authVars, flows, signing, leaving, posLoading, fetches,
                   issued, shownFrom, signIns, faults>>

\* The effects of AuthProvider and of the login page that navigate.
Redirect ==
    /\ ~authLoading
    /\ page' = IF user = None THEN "login" ELSE "app"
    /\ page' # page
    /\ UNCHANGED <<cookie, saved, authVars, flows, signing, leaving, posVars, counts>>

-----------------------------------------------------------------------------
\* The session expires, or is revoked, at the server.
SessionEnds ==
    /\ cookie # None /\ faults < MaxFaults
    /\ cookie' = None
    /\ faults' = faults + 1
    /\ UNCHANGED <<saved, page, authVars, flows, signing, leaving, posVars, signIns, switches>>

\* The page is loaded again: the state of the tab is gone, localStorage and the
\* cookie stay, and the middleware sends a request without a cookie to /login.
Reload ==
    /\ faults < MaxFaults
    /\ faults' = faults + 1
    /\ page' = IF cookie = None THEN "login" ELSE page
    /\ user' = None /\ subsidiary' = None /\ subsidiaries' = {} /\ authLoading' = TRUE
    /\ flows' = {Booting(cookie, page')}
    /\ signing' = None /\ leaving' = "no"
    /\ role' = NoRole /\ posLoading' = FALSE /\ fetches' = {} /\ issued' = 0
    /\ shownFrom' = NoFetch
    /\ UNCHANGED <<cookie, saved, signIns, switches>>

Answers == PositionsLand \/ Bootstraps
Clicks ==
    \/ \E u \in Users : SignIn(u)
    \/ SignOut
    \/ \E s \in Subs : SetSubsidiary(s)
    \/ \E p \in Positions \cup Demo : SetActive(p)
Session == SignInAccepted \/ SignInRefused \/ SignOutServed \/ SignOutReturns \/ SignOutFails

SessionNext == Answers \/ Clicks \/ Session \/ Redirect \/ SessionEnds \/ Reload

\* Every request is answered or fails in the end, and effects run.
SessionFairness ==
    /\ WF_sessionVars(PositionsLand)
    /\ WF_sessionVars(Bootstraps)
    /\ WF_sessionVars(Session)
    /\ WF_sessionVars(Redirect)

Spec == SessionInit /\ [][SessionNext]_sessionVars /\ SessionFairness

-----------------------------------------------------------------------------
(* Properties *)

Fetch == [n : Nat \ {0}, by : Users \cup {None}, for : Users, sub : Subs]

TypeOK ==
    /\ cookie \in Users \cup {None}
    /\ saved \in [sub : Subs \cup {None}, viewAs : Positions \cup Demo \cup {None}]
    /\ page \in {"login", "app"}
    /\ user \in Users \cup {None}
    /\ subsidiary \in Subs \cup {None}
    /\ subsidiaries \subseteq Subs
    /\ authLoading \in BOOLEAN /\ posLoading \in BOOLEAN
    /\ flows \subseteq [n : Nat, by : Users \cup {None}, then : {"boot", "login"},
                        stage : {"me", "subs", "rejected"}, at : {"login", "app"}]
    /\ signing \in Users \cup {None}
    /\ leaving \in {"no", "sent", "served"}
    /\ role \in [offered : SUBSET (Positions \cup Demo),
                 active : Positions \cup Demo \cup {None},
                 demo : BOOLEAN, admin : BOOLEAN, error : BOOLEAN]
    /\ fetches \subseteq Fetch
    /\ issued \in Nat
    /\ shownFrom \in Fetch \cup {NoFetch}
    /\ signIns \in Nat /\ switches \in Nat /\ faults \in Nat

\* The active position is one of those on offer, whatever an earlier user or an
\* earlier page load left in localStorage.
ActiveIsOffered ==
    IF role.offered = {} THEN role.active = None ELSE role.active \in role.offered

\* The latest request has not been answered yet.
Awaited == \E f \in fetches : f.n = issued

\* It has, and the answer to an earlier one landed after it and took its place:
\* nothing in position.tsx prevents that, and nothing asks again.
Overtaken == ~Awaited /\ shownFrom.n # issued

\* What is shown was asked for with the cookie of another session than that of
\* the user on screen (another user has signed in since the page was loaded, or
\* the session has ended).
OthersCookie == shownFrom.by # user

\* The positions on offer are those the user on screen holds in the subsidiary on
\* screen, or demo or error mode, once the latest request has been answered.  The
\* two ways in which the code lets another list stay are named: an answer that
\* was overtaken, and a request that carried another session's cookie.  Short of
\* them no sign-out, sign-in or switch leaves the list of the user or of the
\* subsidiary before in place.
LatestAnswerFits ==
    user # None /\ subsidiary # None =>
        \/ Awaited \/ Overtaken \/ OthersCookie
        \/ role.demo \/ role.error
        \/ role.offered \ Demo = Held[user][subsidiary]

\* The spinner of the page frame does not stay because a request failed.
LoadingEnds == posLoading ~> ~posLoading

\* init has rejected (auth.tsx:78), and nothing calls it again: the spinner stays.
DeadStart == \E f \in flows : f.stage = "rejected"

\* No page load ends between two pages: it comes to the login page without a
\* user or into the application with one, unless GET /auth/me found no network.
PageSettles ==
    authLoading ~> \/ DeadStart
                   \/ page = "login" /\ user = None /\ ~authLoading
                   \/ page = "app" /\ user # None /\ ~authLoading

=============================================================================

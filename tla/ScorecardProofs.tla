--------------------------- MODULE ScorecardProofs ---------------------------
(***************************************************************************)
(* Proofs about Scorecard, for any number of handlers, KPIs and calls: the *)
(* four invariants its run checks on an instance.                          *)
(*                                                                         *)
(* The argument.  The lock belongs to the one call between its SELECT FOR  *)
(* UPDATE and the end of its transaction (TypeOK), and whoever else writes *)
(* the row waits for it; hence what that call has read stays current       *)
(* (SeenIsCurrent), hence the checks it made still hold of the row it      *)
(* overwrites (Checked), hence a row at HC keeps the complete ratings it   *)
(* had for a scorecard that has not changed since (AgreedIsComplete).  Scorecards have no lock: as long as no two calls   *)
(* that write them have overlapped, the one writer there may be still sees *)
(* what it saw (CardInv).                                                  *)
(***************************************************************************)
EXTENDS Scorecard, TLAPS

\* What a call that is about to write has checked, and which calls get there.
Checked ==
    \A h \in Handlers :
        /\ call[h].at = "commit" => /\ Permitted(call[h], call[h].seen)
                                   /\ Complete(call[h], call[h].card)
        /\ call[h].at \in {"delete", "replace"} => call[h].op = "save_card"
        /\ call[h].at \in {"target", "update"} => call[h].op \in Answers \cup {"save_card"}

\* While no calls that write scorecards have overlapped: there is one such call
\* at most, one scorecard, and what the call is going to act on is still so.
CardInv ==
    ~overlapped =>
        /\ \A g, h \in Handlers : WritesCard(g) /\ WritesCard(h) => g = h
        /\ \A j, k \in card : j = k
        /\ \A k \in card : weight[k] \in 99 .. 101
        /\ \A h \in Handlers : /\ call[h].at = "replace" => card \subseteq call[h].card
                               /\ call[h].at = "fill" => card = {}

ScoreInv == TypeOK /\ SeenIsCurrent /\ Checked /\ AgreedIsComplete /\ CardInv

CallType == [op : Ops, at : Ats, hr : BOOLEAN, ratings : SUBSET Kpis, seen : Subs,
             card : SUBSET Kpis]

USE ScorecardAssumption

-----------------------------------------------------------------------------
(* What the steps do to the row and to the calls.                          *)

LEMMA NoCallType == NoCall \in CallType
  BY DEF NoCall, NewSub, CallType, Ops, Ats, Subs, Statuses

\* What an action that may write has decided to write is a row.
LEMMA WrittenType ==
    ASSUME NEW c \in CallType, Permitted(c, c.seen) PROVE Written(c) \in Subs
<1>1. Written(c).status \in Statuses
  BY DEF CallType, Written, StatusAfter, SavesNothing, Subs, Statuses, Permitted, SelfOps,
         ManagerOps, HCOps
<1> QED
  BY <1>1 DEF Written, Subs, CallType, SelfOps

\* A call begins as one of its kind, at its first step.
LEMMA Beginning ==
    ASSUME NEW h \in Handlers, Calls(h)
    PROVE  \E op \in Ops \ {"none"}, at \in {"phase", "lock", "look", "delete", "target"},
              hr \in BOOLEAN, R \in SUBSET issued :
              /\ Begin(h, op, at, hr, R)
              /\ at = "delete" => op = "save_card"
              /\ at = "target" => op \in Answers
              /\ at \in {"look", "delete"} => op \in CardOps
<1> USE DEF Ops, SelfOps, ManagerOps, HCOps, CardOps, Answers
<1>0. ASSUME NEW op \in Ops \ {"none"}, NEW at \in {"phase", "lock", "look", "delete", "target"},
             NEW hr \in BOOLEAN, Begin(h, op, at, hr, {}),
             at = "delete" => op = "save_card", at = "target" => op \in Answers,
             at \in {"look", "delete"} => op \in CardOps
      PROVE  \E o \in Ops \ {"none"}, a \in {"phase", "lock", "look", "delete", "target"},
                b \in BOOLEAN, R \in SUBSET issued :
                /\ Begin(h, o, a, b, R)
                /\ a = "delete" => o = "save_card"
                /\ a = "target" => o \in Answers
                /\ a \in {"look", "delete"} => o \in CardOps
  <2> WITNESS op \in Ops \ {"none"}, at \in {"phase", "lock", "look", "delete", "target"},
              hr \in BOOLEAN, {} \in SUBSET issued
  <2> QED
    BY <1>0
<1>1. CASE SelfAction(h)
  BY <1>1 DEF SelfAction
<1>2. CASE ManagerAction(h)
  BY <1>2 DEF ManagerAction
<1>3. CASE HCAction(h)
  BY <1>0, <1>3 DEF HCAction
<1>4. CASE AnswerTargets(h)
  BY <1>0, <1>4 DEF AnswerTargets
<1>5. CASE SaveScorecard(h)
  BY <1>0, <1>5 DEF SaveScorecard
<1>6. CASE GetScorecard(h)
  BY <1>0, <1>6 DEF GetScorecard
<1> QED
  BY <1>1, <1>2, <1>3, <1>4, <1>5, <1>6 DEF Calls

\* A step within a call changes how far it is, and no other call.
LEMMA Going ==
    ASSUME TypeOK, NEW h \in Handlers, NEW at \in Ats, GoTo(h, at)
    PROVE  /\ call' \in [Handlers -> CallType]
           /\ call'[h] = [call[h] EXCEPT !.at = at] /\ call'[h].at = at
           /\ \A g \in Handlers \ {h} : call'[g] = call[g]
  BY DEF TypeOK, CallType, GoTo

\* The end of a call.
LEMMA Returning ==
    ASSUME TypeOK, NEW h \in Handlers, Return(h)
    PROVE  /\ call' \in [Handlers -> CallType]
           /\ call'[h].at = "done"
           /\ \A g \in Handlers \ {h} : call'[g] = call[g]
<1>1. NoCall.at = "done"
  BY DEF NoCall
<1> QED
  BY <1>1, NoCallType DEF TypeOK, CallType, Return

\* A read: the call keeps what it saw, for the step that follows.
LEMMA Reading ==
    ASSUME TypeOK, NEW h \in Handlers, ReadRow(h),
           Permitted(call[h], sub), Complete(call[h], card)
    PROVE  /\ call' \in [Handlers -> CallType]
           /\ call'[h] = [call[h] EXCEPT !.at = "commit", !.seen = sub, !.card = card]
           /\ \A g \in Handlers \ {h} : call'[g] = call[g]
           /\ UNCHANGED lock
<1> DEFINE c == [call[h] EXCEPT !.at = "commit", !.seen = sub, !.card = card]
<1>1. call' = [call EXCEPT ![h] = c] /\ UNCHANGED lock
  BY DEF ReadRow
<1>2. c \in CallType
  BY DEF TypeOK, CallType, Ats
<1> QED
  BY <1>1, <1>2 DEF TypeOK, CallType

\* The initial state satisfies the invariant.
LEMMA InitScoreInv == ScoreInit => ScoreInv
<1> SUFFICES ASSUME ScoreInit PROVE ScoreInv
  OBVIOUS
<1>1. TypeOK
  <2>1. call \in [Handlers -> CallType]
    BY NoCallType DEF ScoreInit
  <2>2. \A h \in Handlers : call[h].at \in {"read", "commit"} <=> lock = h
    BY DEF ScoreInit, NoCall
  <2>3. NewSub \in Subs
    BY DEF NewSub, Subs, Statuses
  <2> QED
    BY <2>1, <2>2, <2>3, 0 \in 0 .. MaxCalls DEF ScoreInit, TypeOK, CallType
<1>2. SeenIsCurrent /\ Checked /\ AgreedIsComplete /\ CardInv
  BY DEF ScoreInit, SeenIsCurrent, Checked, AgreedIsComplete, CardInv, NoCall, NewSub, WritesCard
<1> QED
  BY <1>1, <1>2 DEF ScoreInv

-----------------------------------------------------------------------------
(* TypeOK *)

LEMMA TypeStep ==
    ASSUME ScoreInv, [ScoreNext]_scoreVars PROVE TypeOK'
<1> USE DEF ScoreInv
<1>1. ASSUME NEW h \in Handlers, Calls(h) PROVE TypeOK'
  <2>1. PICK op \in Ops \ {"none"}, at \in {"phase", "lock", "look", "delete", "target"},
             hr \in BOOLEAN, R \in SUBSET issued : Begin(h, op, at, hr, R)
    BY <1>1, Beginning
  <2>2. NewSub \in Subs
    BY DEF NewSub, Subs, Statuses
  <2> QED
    BY <2>1, <2>2 DEF TypeOK, Begin, rowVars, cardVars, Ats
<1>2. ASSUME NEW h \in Handlers,
             \/ \E at \in Ats \ {"read", "commit"} : GoTo(h, at)
             \/ Return(h),
             call[h].at \notin {"read", "commit"}, UNCHANGED <<rowVars, phase, begun>>,
             UNCHANGED <<emptied, overlapped>>, replaced' \in BOOLEAN,
             card' \subseteq issued', issued' \subseteq Kpis, weight' \in [Kpis -> Nat]
      PROVE  TypeOK'
  <2>1. /\ call' \in [Handlers -> CallType] /\ call'[h].at \notin {"read", "commit"}
        /\ \A g \in Handlers \ {h} : call'[g] = call[g]
    BY <1>2, Going, Returning
  <2> QED
    BY <1>2, <2>1 DEF TypeOK, CallType, rowVars, histVars
<1>3. ASSUME NEW h \in Handlers, CheckPhase(h) \/ LookForCard(h) \/ ReadTarget(h) PROVE TypeOK'
  BY <1>2, <1>3 DEF TypeOK, CheckPhase, LookForCard, ReadTarget, cardVars, histVars, Ats
<1>4. ASSUME NEW h \in Handlers, ReplaceCard(h) \/ FillCard(h) PROVE TypeOK'
  <2>1. \A k \in Kpis, w \in 99 .. 101 : [weight EXCEPT ![k] = w] \in [Kpis -> Nat]
    BY DEF TypeOK
  <2>2. 100 \in 99 .. 101
    OBVIOUS
  <2>3. weight' \in [Kpis -> Nat]
    BY <1>4, <2>1, <2>2 DEF ReplaceCard, FillCard
  <2>4. card' \subseteq issued' /\ issued' \subseteq Kpis /\ replaced' \in BOOLEAN
    BY <1>4 DEF TypeOK, ReplaceCard, FillCard
  <2>5. Return(h) \/ GoTo(h, "target")
    BY <1>4 DEF ReplaceCard, FillCard
  <2>. QED
    BY <1>2, <1>4, <2>3, <2>4, <2>5 DEF ReplaceCard, FillCard, Ats
<1>5. ASSUME NEW h \in Handlers, DeleteCard(h) PROVE TypeOK'
  <2>1. /\ call' \in [Handlers -> CallType] /\ call'[h].at = "replace"
        /\ \A g \in Handlers \ {h} : call'[g] = call[g]
    BY <1>5 DEF TypeOK, CallType, DeleteCard, Ats
  <2> QED
    BY <1>5, <2>1 DEF TypeOK, CallType, DeleteCard, rowVars, cardVars, histVars
<1>6. ASSUME NEW h \in Handlers, LockRow(h) PROVE TypeOK'
  BY <1>6, Going DEF TypeOK, CallType, LockRow, cardVars, histVars, Ats
<1>7. ASSUME NEW h \in Handlers, ReadRow(h) PROVE TypeOK'
  <2>1. CASE Permitted(call[h], sub) /\ Complete(call[h], card)
    <3>1. call[h] \in CallType
      BY DEF TypeOK, CallType
    <3>2. call'[h].at = "commit"
      BY <1>7, <2>1, <3>1, Reading DEF CallType
    <3> QED
      BY <1>7, <2>1, <3>2, Reading DEF TypeOK, CallType, ReadRow, cardVars, histVars
  <2>2. CASE ~(Permitted(call[h], sub) /\ Complete(call[h], card))
    BY <1>7, <2>2, Returning DEF TypeOK, CallType, ReadRow, cardVars, histVars
  <2> QED
    BY <2>1, <2>2
<1>8. ASSUME NEW h \in Handlers, Commit(h) PROVE TypeOK'
  <2>1. Written(call[h]) \in Subs
    BY <1>8, WrittenType DEF TypeOK, CallType, Commit, Checked
  <2>2. replaced' \in BOOLEAN
    BY <1>8 DEF TypeOK, Commit
  <2>3. emptied' \in BOOLEAN
    BY <1>8 DEF TypeOK, Commit
  <2> QED
    BY <1>8, <2>1, <2>2, <2>3, Returning DEF TypeOK, CallType, Commit, cardVars
<1>9. ASSUME NEW h \in Handlers, Die(h) PROVE TypeOK'
  BY <1>9, Returning DEF TypeOK, CallType, Die, cardVars, histVars
<1>10. ASSUME NEW h \in Handlers, UpdateTarget(h) PROVE TypeOK'
  <2>1. NewTarget(call[h]) \in {"not_set", "set", "accepted", "rejected"}
    BY <1>10 DEF TypeOK, UpdateTarget, NewTarget, Checked, Answers
  <2> QED
    BY <1>10, <2>1, Returning DEF TypeOK, CallType, UpdateTarget, cardVars, histVars
<1>11. CASE LegacySelf \/ LegacyReview \/ SetCyclePhase
  BY <1>11 DEF TypeOK, LegacySelf, LegacyReview, SetCyclePhase, rowVars, cardVars, histVars, Subs, Statuses
<1>12. CASE UNCHANGED scoreVars
  BY <1>12 DEF TypeOK, scoreVars, rowVars, cardVars, histVars
<1> QED
  BY <1>1, <1>3, <1>4, <1>5, <1>6, <1>7, <1>8, <1>9, <1>10, <1>11, <1>12 DEF ScoreNext, Steps

-----------------------------------------------------------------------------
(* The row: SeenIsCurrent, Checked and AgreedIsComplete *)

\* A step that leaves the row and what calls have read alone, and brings no
\* call to its commit, keeps what those calls rely on.
LEMMA Elsewhere ==
    ASSUME ScoreInv, NEW h \in Handlers, UNCHANGED <<sub, emptied>>,
           UNCHANGED <<card, replaced>> \/ replaced' = TRUE,
           \A g \in Handlers \ {h} : call'[g] = call[g],
           call'[h].at # "commit"
    PROVE  SeenIsCurrent' /\ AgreedIsComplete'
           /\ \A g \in Handlers : call'[g].at = "commit" =>
                  Permitted(call'[g], call'[g].seen) /\ Complete(call'[g], call'[g].card)
  BY DEF ScoreInv, SeenIsCurrent, AgreedIsComplete, Checked

\* Only the owner of the lock is at its commit.
LEMMA OneCommit ==
    ASSUME TypeOK, NEW g \in Handlers, NEW h \in Handlers, lock \in {None, h},
           call[g].at = "commit"
    PROVE  g = h
  BY DEF TypeOK

LEMMA CommitKeeps ==
    ASSUME ScoreInv, NEW h \in Handlers, Commit(h)
    PROVE  SeenIsCurrent' /\ AgreedIsComplete'
<1> USE DEF ScoreInv
<1>1. /\ lock = h /\ call[h] \in CallType /\ call[h].seen = sub
      /\ Permitted(call[h], sub) /\ Complete(call[h], call[h].card)
  BY DEF TypeOK, CallType, Commit, SeenIsCurrent, Checked
<1>2. \A g \in Handlers : call'[g].at # "commit"
  BY <1>1, Returning, OneCommit DEF Commit
<1>3. SeenIsCurrent'
  BY <1>2 DEF SeenIsCurrent
<1>4. AgreedIsComplete'
  <2>1. CASE call[h].op = "submit_manager"
    BY <1>1, <2>1 DEF Commit, Written, AgreedIsComplete, Complete, SelfOps, cardVars
  <2>2. CASE call[h].op = "finalize"
    BY <1>1, <2>2 DEF Commit, Written, AgreedIsComplete, Permitted, SelfOps, ManagerOps, HCOps,
                      cardVars
  <2>3. CASE call[h].op = "save_manager"
    <3>1. CASE SavesNothing(call[h])
      BY <1>1, <2>3, <3>1 DEF Commit, AgreedIsComplete
    <3>2. CASE ~SavesNothing(call[h])
      BY <1>1, <2>3, <3>2 DEF Commit, Written, AgreedIsComplete, StatusAfter
    <3> QED
      BY <3>1, <3>2
  <2>4. CASE call[h].op \in {"save_self", "submit_self", "return_to_employee", "return_to_manager"}
    BY <1>1, <2>4 DEF Commit, Written, AgreedIsComplete, SavesNothing, StatusAfter, Permitted,
                      SelfOps, ManagerOps, HCOps, SelfStage
  <2> QED
    BY <1>1, <2>1, <2>2, <2>3, <2>4 DEF Permitted, SelfOps, ManagerOps, HCOps
<1> QED
  BY <1>3, <1>4

LEMMA RowStep ==
    ASSUME ScoreInv, [ScoreNext]_scoreVars
    PROVE  SeenIsCurrent' /\ AgreedIsComplete'
           /\ \A g \in Handlers : call'[g].at = "commit" =>
                  Permitted(call'[g], call'[g].seen) /\ Complete(call'[g], call'[g].card)
<1> USE DEF ScoreInv
<1>1. ASSUME NEW h \in Handlers, Calls(h) PROVE
             /\ UNCHANGED <<sub, emptied>> /\ call'[h].at # "commit"
             /\ UNCHANGED <<card, replaced>> \/ replaced' = TRUE
             /\ \A g \in Handlers \ {h} : call'[g] = call[g]
  <2>1. PICK op \in Ops \ {"none"}, at \in {"phase", "lock", "look", "delete", "target"},
             hr \in BOOLEAN, R \in SUBSET issued : Begin(h, op, at, hr, R)
    BY <1>1, Beginning
  <2> QED
    BY <2>1 DEF TypeOK, CallType, Begin, rowVars, cardVars
<1>2. ASSUME NEW h \in Handlers,
             CheckPhase(h) \/ LookForCard(h) \/ ReadTarget(h) \/ ReplaceCard(h) \/ FillCard(h)
             \/ DeleteCard(h) \/ LockRow(h) \/ Die(h) \/ UpdateTarget(h) PROVE
             /\ UNCHANGED <<sub, emptied>> /\ call'[h].at # "commit"
             /\ UNCHANGED <<card, replaced>> \/ replaced' = TRUE
             /\ \A g \in Handlers \ {h} : call'[g] = call[g]
  <2>1. UNCHANGED <<sub, emptied>> /\ (UNCHANGED <<card, replaced>> \/ replaced' = TRUE)
    BY <1>2 DEF CheckPhase, LookForCard, ReadTarget, ReplaceCard, FillCard, LockRow, Die,
       UpdateTarget, DeleteCard, rowVars, cardVars, histVars
  <2>2. \/ Return(h) \/ DeleteCard(h)
        \/ \E at \in {"lock", "fill", "update", "target", "read"} : GoTo(h, at)
    BY <1>2 DEF CheckPhase, LookForCard, ReadTarget, ReplaceCard, FillCard, LockRow, Die,
       UpdateTarget
  <2>3. CASE \E at \in {"lock", "fill", "update", "target", "read"} : GoTo(h, at)
    BY <2>1, <2>3, Going DEF Ats
  <2>4. CASE DeleteCard(h)
    BY <2>1, <2>4 DEF DeleteCard, TypeOK, CallType
  <2> QED
    BY <2>1, <2>2, <2>3, <2>4, Returning
<1>3. ASSUME NEW h \in Handlers, ReadRow(h) PROVE
             /\ SeenIsCurrent' /\ AgreedIsComplete'
             /\ \A g \in Handlers : call'[g].at = "commit" =>
                    Permitted(call'[g], call'[g].seen) /\ Complete(call'[g], call'[g].card)
  <2>1. CASE Permitted(call[h], sub) /\ Complete(call[h], card)
    <3>1. call[h] \in CallType
      BY DEF TypeOK, CallType
    <3>2. /\ call'[h].seen = sub /\ call'[h].card = card /\ call'[h].op = call[h].op
          /\ call'[h].hr = call[h].hr /\ call'[h].ratings = call[h].ratings
      BY <1>3, <2>1, <3>1, Reading DEF CallType
    <3>3. Permitted(call'[h], call'[h].seen) /\ Complete(call'[h], call'[h].card)
      BY <2>1, <3>2 DEF Permitted, Complete
    <3> QED
      BY <1>3, <2>1, <3>2, <3>3, Reading DEF ReadRow, SeenIsCurrent, AgreedIsComplete, Checked,
         cardVars, histVars
  <2>2. CASE ~(Permitted(call[h], sub) /\ Complete(call[h], card))
    BY <1>3, <2>2, Returning, Elsewhere DEF ReadRow, cardVars, histVars
  <2> QED
    BY <2>1, <2>2
<1>4. ASSUME NEW h \in Handlers, Commit(h) PROVE
             /\ SeenIsCurrent' /\ AgreedIsComplete'
             /\ \A g \in Handlers : call'[g].at = "commit" =>
                    Permitted(call'[g], call'[g].seen) /\ Complete(call'[g], call'[g].card)
  BY <1>4, CommitKeeps, Returning DEF Commit, Checked
<1>5. CASE LegacySelf \/ LegacyReview
  BY <1>5 DEF LegacySelf, LegacyReview, TypeOK, SeenIsCurrent, AgreedIsComplete, Checked, histVars, Subs
<1>6. CASE SetCyclePhase \/ UNCHANGED scoreVars
  BY <1>6 DEF SetCyclePhase, scoreVars, rowVars, cardVars, histVars, SeenIsCurrent,
                AgreedIsComplete, Checked
<1> QED
  BY <1>1, <1>2, <1>3, <1>4, <1>5, <1>6, Elsewhere DEF ScoreNext, Steps

-----------------------------------------------------------------------------
(* The scorecard: CardInv, and the calls that get to write *)

\* Which calls reach which step.
OpsFit ==
    \A h \in Handlers :
        /\ call[h].at \in {"delete", "replace"} => call[h].op = "save_card"
        /\ call[h].at \in {"target", "update"} => call[h].op \in Answers \cup {"save_card"}

LEMMA OpsFitStep ==
    ASSUME ScoreInv, [ScoreNext]_scoreVars PROVE OpsFit'
<1> USE DEF ScoreInv
<1>0. OpsFit
  BY DEF Checked, OpsFit
<1>1. ASSUME NEW h \in Handlers, Calls(h) PROVE OpsFit'
  <2>1. PICK op \in Ops, at \in {"phase", "lock", "look", "delete", "target"},
             hr \in BOOLEAN, R \in SUBSET issued :
             /\ Begin(h, op, at, hr, R)
             /\ at = "delete" => op = "save_card"
             /\ at = "target" => op \in Answers
    BY <1>1, Beginning
  <2> QED
    BY <1>0, <2>1 DEF OpsFit, Begin, TypeOK, CallType
<1>2. ASSUME NEW h \in Handlers, Return(h) PROVE OpsFit'
  BY <1>0, <1>2, Returning DEF OpsFit
<1>3. ASSUME NEW h \in Handlers, NEW at \in Ats, GoTo(h, at),
             at = "target" => call[h].at = "replace", at = "update" => call[h].at = "target",
             at \notin {"delete", "replace"}
      PROVE  OpsFit'
  <2>1. call[h] \in CallType
    BY DEF TypeOK, CallType
  <2>2. call'[h].op = call[h].op /\ call'[h].at = at
    BY <1>3, <2>1, Going DEF CallType
  <2> QED
    BY <1>0, <1>3, <2>2, Going DEF OpsFit
<1>4. ASSUME NEW h \in Handlers, DeleteCard(h) PROVE OpsFit'
  BY <1>0, <1>4 DEF OpsFit, DeleteCard, TypeOK, CallType
<1>5. ASSUME NEW h \in Handlers, ReadRow(h) PROVE OpsFit'
  <2>1. CASE Permitted(call[h], sub) /\ Complete(call[h], card)
    <3>0. call[h] \in CallType
      BY DEF TypeOK, CallType
    <3>1. call'[h].at = "commit"
      BY <1>5, <2>1, <3>0, Reading DEF CallType
    <3> QED
      BY <1>0, <1>5, <2>1, <3>1, Reading DEF OpsFit
  <2> QED
    BY <1>2, <1>5, <2>1 DEF ReadRow
<1>6. ASSUME NEW h \in Handlers, Steps(h) PROVE OpsFit'
  BY <1>2, <1>3, <1>4, <1>5, <1>6 DEF Steps, CheckPhase, LockRow, Commit, Die, ReplaceCard,
     LookForCard, FillCard, ReadTarget, UpdateTarget, Ats
<1>7. CASE LegacySelf \/ LegacyReview \/ SetCyclePhase \/ UNCHANGED scoreVars
  BY <1>0, <1>7 DEF LegacySelf, LegacyReview, SetCyclePhase, scoreVars, OpsFit
<1> QED
  BY <1>1, <1>6, <1>7 DEF ScoreNext

\* A step after which the call of h is no nearer to writing a scorecard, and
\* which leaves the scorecard alone.
LEMMA CardKept ==
    ASSUME ScoreInv, NEW h \in Handlers, UNCHANGED <<card, weight, overlapped>>,
           \A g \in Handlers \ {h} : call'[g] = call[g],
           call'[h].at \notin {"replace", "fill"}, WritesCard(h)' => WritesCard(h)
    PROVE  CardInv'
  BY DEF ScoreInv, CardInv, WritesCard

LEMMA CardStep ==
    ASSUME ScoreInv, [ScoreNext]_scoreVars PROVE CardInv'
<1> USE DEF ScoreInv
<1>1. ASSUME NEW h \in Handlers, Calls(h) PROVE CardInv'
  <2>1. PICK op \in Ops, at \in {"phase", "lock", "look", "delete", "target"},
             hr \in BOOLEAN, R \in SUBSET issued :
             Begin(h, op, at, hr, R) /\ (at \in {"look", "delete"} => op \in CardOps)
    BY <1>1, Beginning
  <2>2. /\ call'[h].at = at /\ \A g \in Handlers \ {h} : call'[g] = call[g]
        /\ UNCHANGED <<card, weight>>
        /\ overlapped' = (overlapped \/ (op \in CardOps /\ \E g \in Handlers : WritesCard(g)))
    BY <2>1 DEF Begin, TypeOK, CallType, cardVars
  <2>3. ~overlapped' => ~overlapped /\ (op \in CardOps => \A g \in Handlers : ~WritesCard(g))
    BY <2>2
  <2> QED
    BY <2>1, <2>2, <2>3 DEF CardInv, WritesCard
<1>2. ASSUME NEW h \in Handlers, CheckPhase(h) \/ LockRow(h) \/ Commit(h) \/ Die(h) \/ ReadTarget(h)
                                 \/ UpdateTarget(h) PROVE CardInv'
  <2>1. UNCHANGED <<card, weight, overlapped>>
    BY <1>2 DEF CheckPhase, LockRow, Commit, Die, ReadTarget, UpdateTarget, cardVars, histVars
  <2>2. Return(h) \/ \E at \in {"lock", "read", "update"} : GoTo(h, at)
    BY <1>2 DEF CheckPhase, LockRow, Commit, Die, ReadTarget, UpdateTarget
  <2>3. /\ call'[h].at \in {"done", "lock", "read", "update"}
        /\ \A g \in Handlers \ {h} : call'[g] = call[g]
    BY <2>2, Going, Returning DEF Ats
  <2> QED
    BY <2>1, <2>3, CardKept DEF WritesCard
<1>3. ASSUME NEW h \in Handlers, ReadRow(h) PROVE CardInv'
  <2>1. UNCHANGED <<card, weight, overlapped>>
    BY <1>3 DEF ReadRow, cardVars, histVars
  <2>2. call[h] \in CallType
    BY DEF TypeOK, CallType
  <2>3. /\ call'[h].at \in {"commit", "done"}
        /\ \A g \in Handlers \ {h} : call'[g] = call[g]
    BY <1>3, <2>2, Reading, Returning DEF ReadRow, CallType
  <2> QED
    BY <2>1, <2>3, CardKept DEF WritesCard
<1>4. ASSUME NEW h \in Handlers, DeleteCard(h) PROVE CardInv'
  <2>1. /\ call'[h].at = "replace" /\ call'[h].card = card
        /\ \A g \in Handlers \ {h} : call'[g] = call[g]
        /\ UNCHANGED <<card, weight, overlapped>>
    BY <1>4 DEF DeleteCard, TypeOK, CallType, cardVars, histVars
  <2> QED
    BY <1>4, <2>1 DEF CardInv, WritesCard, DeleteCard
<1>5. ASSUME NEW h \in Handlers, ReplaceCard(h) PROVE CardInv'
  <2>1. /\ call'[h].at = "target" /\ \A g \in Handlers \ {h} : call'[g] = call[g]
        /\ UNCHANGED overlapped
    BY <1>5, Going DEF ReplaceCard, histVars, Ats
  <2>2. PICK k \in Kpis : /\ card' = (card \ call[h].card) \cup {k}
                          /\ weight' = [weight EXCEPT ![k] = 100]
    BY <1>5 DEF ReplaceCard
  <2>3. weight'[k] \in 99 .. 101
    BY <2>2 DEF TypeOK
  <2>4. ~overlapped => card' = {k}
    BY <1>5, <2>2 DEF CardInv, ReplaceCard
  <2> QED
    BY <1>5, <2>1, <2>3, <2>4 DEF CardInv, WritesCard, ReplaceCard
<1>6. ASSUME NEW h \in Handlers, LookForCard(h) PROVE CardInv'
  <2>1. UNCHANGED <<card, weight, overlapped>>
    BY <1>6 DEF LookForCard, cardVars, histVars
  <2>2. CASE card = {} /\ GoTo(h, "fill")
    <3>1. /\ call[h].at = "look" /\ call'[h].at = "fill"
          /\ \A g \in Handlers \ {h} : call'[g] = call[g]
      BY <1>6, <2>2, Going DEF LookForCard, Ats
    <3> QED
      BY <2>1, <2>2, <3>1 DEF CardInv, WritesCard
  <2>3. CASE Return(h)
    BY <2>1, <2>3, Returning, CardKept DEF WritesCard
  <2> QED
    BY <1>6, <2>2, <2>3 DEF LookForCard
<1>7. ASSUME NEW h \in Handlers, FillCard(h) PROVE CardInv'
  <2>1. /\ call'[h].at = "done" /\ \A g \in Handlers \ {h} : call'[g] = call[g]
        /\ UNCHANGED overlapped
    BY <1>7, Returning DEF FillCard, histVars
  <2>2. PICK k \in Kpis, w \in 99 .. 101 : /\ card' = card \cup {k}
                                           /\ weight' = [weight EXCEPT ![k] = w]
    BY <1>7 DEF FillCard
  <2>3. weight'[k] \in 99 .. 101
    BY <2>2 DEF TypeOK
  <2>4. ~overlapped => card' = {k}
    BY <1>7, <2>2 DEF CardInv, FillCard
  <2> QED
    BY <1>7, <2>1, <2>3, <2>4 DEF CardInv, WritesCard, FillCard
<1>8. CASE LegacySelf \/ LegacyReview \/ SetCyclePhase \/ UNCHANGED scoreVars
  BY <1>8 DEF LegacySelf, LegacyReview, SetCyclePhase, scoreVars, cardVars, histVars, CardInv, WritesCard
<1> QED
  BY <1>1, <1>2, <1>3, <1>4, <1>5, <1>6, <1>7, <1>8 DEF ScoreNext, Steps

-----------------------------------------------------------------------------
(* The theorems *)

LEMMA ScoreInvStep == ScoreInv /\ [ScoreNext]_scoreVars => ScoreInv'
<1> SUFFICES ASSUME ScoreInv, [ScoreNext]_scoreVars PROVE ScoreInv'
  OBVIOUS
<1>1. Checked'
  BY RowStep, OpsFitStep DEF Checked, OpsFit
<1> QED
  BY <1>1, TypeStep, RowStep, CardStep DEF ScoreInv

LEMMA ScoreInvHolds == Spec => []ScoreInv
  BY InitScoreInv, ScoreInvStep, PTL DEF Spec

\* The values have their types, and the row is locked by just the call between
\* its SELECT FOR UPDATE and the end of its transaction.
THEOREM TypeCorrect == Spec => []TypeOK
<1>1. ScoreInv => TypeOK
  BY DEF ScoreInv
<1> QED
  BY <1>1, ScoreInvHolds, PTL

\* ApplyBSCAction writes back what is still there: no update of another call is
\* lost, although the read goes around the transaction that has the lock.
THEOREM NoUpdateLost == Spec => []SeenIsCurrent
<1>1. ScoreInv => SeenIsCurrent
  BY DEF ScoreInv
<1> QED
  BY <1>1, ScoreInvHolds, PTL

\* What lies with HC or is final has an agreed rating for every KPI of the scorecard,
\* unless HR emptied the ratings or the scorecard was replaced since it was submitted.
THEOREM AgreedStaysComplete == Spec => []AgreedIsComplete
<1>1. ScoreInv => AgreedIsComplete
  BY DEF ScoreInv
<1> QED
  BY <1>1, ScoreInvHolds, PTL

\* The weights of a scorecard total 99 to 101, and there is one scorecard at most,
\* unless calls that write it overlapped.
THEOREM OneScorecard == Spec => []WeightsTotalAbout100
<1>1. ScoreInv => WeightsTotalAbout100
  BY DEF ScoreInv, CardInv, WeightsTotalAbout100
<1> QED
  BY <1>1, ScoreInvHolds, PTL

=============================================================================

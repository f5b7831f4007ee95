------------------------------ MODULE Scorecard ------------------------------
(***************************************************************************)
(* One employee's appraisal in one cycle: the row of appraisal.submission, *)
(* the individual scorecard beside it and the handlers of                  *)
(* internal/appraisal that change them (bsc.go, http/bsc.go, service.go).  *)
(*                                                                         *)
(* ApplyBSCAction holds the row's lock (SELECT ... FOR UPDATE) in a        *)
(* transaction, but reads the row on another connection and writes all of  *)
(* it back.  Everything else runs beside it: target status and scorecard   *)
(* are read first and written later, without a lock, and the question-     *)
(* based self-assessment and review that came before the scorecards write  *)
(* the same row with no look at its stage.  A handler may die, or lose its *)
(* client and with it its context, at any point.                           *)
(*                                                                         *)
(* A KPI stands for the rows of a scorecard saved or seeded at once and    *)
(* weight for their total, rounded to a percent; ratings are the set of    *)
(* the KPIs rated from 1 to 5, whichever scorecard they come from: pages   *)
(* send back ratings of rows that are gone.                                *)
(***************************************************************************)
EXTENDS Naturals

CONSTANTS
    Handlers,  \* calls that run at a time
    Kpis,      \* bound: ids appraisal.individual_kpi ever gets
    None,      \* no handler
    MaxCalls   \* bound: calls begun

ASSUME ScorecardAssumption == None \notin Handlers /\ MaxCalls \in Nat

VARIABLES
    sub,         \* submission: status, self_json, agreed_json
    target,      \* submission.target_status
    card,        \* the employee's rows of individual_kpi
    issued,      \* every id it ever had
    weight,      \* what the weights of the rows total
    phase,       \* cycle.phase; the cycle stays open
    lock,        \* the transaction that has the row locked
    call,        \* the call of each handler and its locals
    begun,       \* calls begun
    emptied,     \* history: HR has saved no agreed ratings since the last submit-manager
    replaced,    \* history: the scorecard has changed since that call read it
    overlapped   \* history: two calls that write scorecards overlapped

rowVars == <<sub, target, lock>>
cardVars == <<card, issued, weight>>
histVars == <<emptied, replaced, overlapped>>
scoreVars == <<rowVars, cardVars, phase, call, begun, histVars>>

NewSub == [status |-> "pending", self |-> {}, agreed |-> {}]
NoCall == [op |-> "none", at |-> "done", hr |-> FALSE, ratings |-> {}, seen |-> NewSub, card |-> {}]

ScoreInit ==
    /\ sub = NewSub /\ target = "not_set"
    /\ card = {} /\ issued = {} /\ weight = [k \in Kpis |-> 0]
    /\ phase \in {"target", "appraisal"}
    /\ lock = None
    /\ call = [h \in Handlers |-> NoCall] /\ begun = 0
    /\ emptied = FALSE /\ replaced = FALSE /\ overlapped = FALSE

-----------------------------------------------------------------------------
(* Calls.  The employee saves and submits the self-assessment, accepts and *)
(* rejects targets; the line manager (or HR, at any stage) the agreed      *)
(* scores and the scorecard; HR decides what is submitted.                 *)

SelfOps == {"save_self", "submit_self"}
ManagerOps == {"save_manager", "submit_manager", "return_to_employee"}
HCOps == {"finalize", "return_to_manager"}
CardOps == {"save_card", "seed"}
Answers == {"accepted", "rejected"}

WritesCard(h) == call[h].at \in {"delete", "replace", "look", "fill"}

Begin(h, op, at, hr, ratings) ==
    /\ call[h].at = "done"
    /\ begun < MaxCalls /\ begun' = begun + 1
    /\ call' = [call EXCEPT ![h] = [op |-> op, at |-> at, hr |-> hr, ratings |-> ratings,
                                    seen |-> NewSub, card |-> {}]]
    /\ overlapped' = (overlapped \/ (op \in CardOps /\ \E g \in Handlers : WritesCard(g)))
    /\ UNCHANGED <<rowVars, cardVars, phase, emptied, replaced>>

SelfAction(h) == \E op \in SelfOps, R \in SUBSET issued : Begin(h, op, "phase", FALSE, R)
ManagerAction(h) ==
    \E op \in ManagerOps, hr \in BOOLEAN :
        \E R \in IF op = "return_to_employee" THEN {{}} ELSE SUBSET issued :
            Begin(h, op, "lock", hr, R)
HCAction(h) == \E op \in HCOps : Begin(h, op, "lock", TRUE, {})
AnswerTargets(h) == \E op \in Answers : Begin(h, op, "target", FALSE, {})
SaveScorecard(h) == Begin(h, "save_card", "delete", FALSE, {})
GetScorecard(h) == Begin(h, "seed", "look", FALSE, {})

GoTo(h, at) == call' = [call EXCEPT ![h].at = at]
Return(h) == call' = [call EXCEPT ![h] = NoCall]

-----------------------------------------------------------------------------
(* bscAction and ApplyBSCAction *)

\* The phase is looked at before the transaction, and for the employee only; when
\* the look fails the call goes on.
CheckPhase(h) ==
    /\ call[h].at = "phase"
    /\ GoTo(h, "lock") \/ (phase # "appraisal" /\ Return(h))
    /\ UNCHANGED <<rowVars, cardVars, phase, begun, histVars>>

\* (Mutant: the SELECT is not FOR UPDATE.)
LockRowFreely(h) ==
    /\ call[h].at = "lock"
    /\ lock' = h
    /\ GoTo(h, "read")
    /\ UNCHANGED <<sub, target, cardVars, phase, begun, histVars>>

LockRow(h) ==
    /\ call[h].at = "lock"
    /\ lock = None
    /\ lock' = h
    /\ GoTo(h, "read")
    /\ UNCHANGED <<sub, target, cardVars, phase, begun, histVars>>

SelfStage == {"pending", "self_draft"}
ManagerStage == {"self_submitted", "manager_scoring"}

Permitted(c, s) ==
    \/ c.op \in SelfOps /\ s.status \in SelfStage
    \/ c.op \in ManagerOps /\ (c.hr \/ s.status \in ManagerStage)
    \/ c.op \in HCOps /\ s.status = "submitted_to_hc"

AllRated(kpis, ratings) == kpis # {} /\ kpis \subseteq ratings

\* (Mutant: only the self-assessment has to be complete.)
SelfComplete(c, kpis) == c.op = "submit_self" => AllRated(kpis, c.ratings)

Complete(c, kpis) == c.op \in {"submit_self", "submit_manager"} => AllRated(kpis, c.ratings)

\* (Mutant: a refusal leaves the transaction open.)
ReadRowAndKeep(h) ==
    /\ call[h].at = "read"
    /\ IF Permitted(call[h], sub) /\ Complete(call[h], card)
       THEN call' = [call EXCEPT ![h] = [@ EXCEPT !.at = "commit", !.seen = sub, !.card = card]]
       ELSE Return(h)
    /\ UNCHANGED <<rowVars, cardVars, phase, begun, histVars>>

\* GetBSCSubmission, by way of the pool, and the checks of the action.
ReadRow(h) ==
    /\ call[h].at = "read"
    /\ IF Permitted(call[h], sub) /\ Complete(call[h], card)
       THEN /\ call' = [call EXCEPT ![h] = [@ EXCEPT !.at = "commit", !.seen = sub, !.card = card]]
            /\ UNCHANGED lock
       ELSE /\ Return(h)
            /\ lock' = None
    /\ UNCHANGED <<sub, target, cardVars, phase, begun, histVars>>

StatusAfter ==
    [save_self |-> "self_draft", submit_self |-> "self_submitted",
     save_manager |-> "manager_scoring", submit_manager |-> "submitted_to_hc",
     return_to_employee |-> "self_draft", finalize |-> "finalized",
     return_to_manager |-> "manager_scoring"]

SavesNothing(c) == c.op \in {"save_self", "save_manager"} /\ c.ratings = {}

\* The row an action writes, from the one it has read; saving no ratings wipes
\* the old ones and keeps the status.
Written(c) ==
    [status |-> IF SavesNothing(c) THEN c.seen.status ELSE StatusAfter[c.op],
     self |-> IF c.op \in SelfOps THEN c.ratings ELSE c.seen.self,
     agreed |-> IF c.op \in {"save_manager", "submit_manager"} THEN c.ratings ELSE c.seen.agreed]

Commit(h) ==
    /\ call[h].at = "commit"
    /\ sub' = Written(call[h])
    /\ lock' = None
    /\ replaced' = IF call[h].op = "submit_manager" THEN card # call[h].card ELSE replaced
    /\ emptied' = IF call[h].op = "submit_manager" THEN FALSE
                  ELSE emptied \/ (call[h].op = "save_manager" /\ SavesNothing(call[h]))
    /\ Return(h)
    /\ UNCHANGED <<target, cardVars, phase, begun, overlapped>>

\* An error, a lost connection or a death; PostgreSQL rolls back.
Die(h) ==
    /\ call[h].at # "done"
    /\ lock' = IF lock = h THEN None ELSE lock
    /\ Return(h)
    /\ UNCHANGED <<sub, target, cardVars, phase, begun, histVars>>

-----------------------------------------------------------------------------
(* The scorecard *)

\* SaveIndividualScorecard: the DELETE sees the rows committed before it ...
DeleteCard(h) ==
    /\ call[h].at = "delete"
    /\ call' = [call EXCEPT ![h] = [@ EXCEPT !.at = "replace", !.card = card]]
    /\ UNCHANGED <<rowVars, cardVars, phase, begun, histVars>>

\* ... and with the INSERTs and the COMMIT they go and rows with new ids come,
\* which total 100 when rounded (bsc.go:328).
ReplaceCard(h) ==
    /\ call[h].at = "replace"
    /\ \E k \in Kpis \ issued :
           /\ card' = (card \ call[h].card) \cup {k}
           /\ issued' = issued \cup {k}
           /\ weight' = [weight EXCEPT ![k] = 100]
    /\ replaced' = TRUE
    /\ GoTo(h, "target")
    /\ UNCHANGED <<rowVars, phase, begun, emptied, overlapped>>

\* (Mutant: the scorecard is copied whether or not there is one.)
LookForNothing(h) ==
    /\ call[h].at = "look"
    /\ GoTo(h, "fill")
    /\ UNCHANGED <<rowVars, cardVars, phase, begun, histVars>>

\* SeedIndividualFromDept: HasIndividualScorecard ...
LookForCard(h) ==
    /\ call[h].at = "look"
    /\ IF card = {} THEN GoTo(h, "fill") ELSE Return(h)
    /\ UNCHANGED <<rowVars, cardVars, phase, begun, histVars>>

\* ... and the copy of the department's KPIs, whose weights saveKPIs accepts when
\* they total 99 to 101 (http/bsc.go:180).
FillCard(h) ==
    /\ call[h].at = "fill"
    /\ \E k \in Kpis \ issued, w \in 99 .. 101 :
           /\ card' = card \cup {k}
           /\ issued' = issued \cup {k}
           /\ weight' = [weight EXCEPT ![k] = w]
    /\ replaced' = TRUE
    /\ Return(h)
    /\ UNCHANGED <<rowVars, phase, begun, emptied, overlapped>>

-----------------------------------------------------------------------------
(* SetTargetStatus, for accept and reject and after a save *)

NewTarget(c) == IF c.op = "save_card" THEN "set" ELSE c.op

validTargetTransitions ==
    [not_set |-> {"set"}, set |-> Answers, rejected |-> {"set"}, accepted |-> {}]

\* A save only logs that its transition was refused.
ReadTarget(h) ==
    /\ call[h].at = "target"
    /\ IF NewTarget(call[h]) \in validTargetTransitions[target] THEN GoTo(h, "update") ELSE Return(h)
    /\ UNCHANGED <<rowVars, cardVars, phase, begun, histVars>>

\* The UPDATE waits for the row; it does not look at the old status again.
UpdateTarget(h) ==
    /\ call[h].at = "update"
    /\ lock = None
    /\ target' = NewTarget(call[h])
    /\ Return(h)
    /\ UNCHANGED <<sub, lock, cardVars, phase, begun, histVars>>

-----------------------------------------------------------------------------
\* UpsertSelfResponses and SubmitSelf, by the employee.  Both look at the phase
\* before, as CheckPhase does, and at the stage not at all.
LegacySelf ==
    /\ lock = None
    /\ \E s \in {"self_draft", "self_submitted"} : sub' = [sub EXCEPT !.status = s]
    /\ UNCHANGED <<target, lock, cardVars, phase, call, begun, histVars>>

\* UpsertManagerResponses and SubmitManagerReview, by the assigned reviewer.
LegacyReview ==
    /\ lock = None
    /\ \E s \in {"manager_scoring", "completed"} : sub' = [sub EXCEPT !.status = s]
    /\ UNCHANGED <<target, lock, cardVars, phase, call, begun, histVars>>

SetCyclePhase ==
    /\ \E p \in {"target", "appraisal"} : phase' = p
    /\ UNCHANGED <<rowVars, cardVars, call, begun, histVars>>

Calls(h) == SelfAction(h) \/ ManagerAction(h) \/ HCAction(h) \/ AnswerTargets(h)
            \/ SaveScorecard(h) \/ GetScorecard(h)

Steps(h) == CheckPhase(h) \/ LockRow(h) \/ ReadRow(h) \/ Commit(h) \/ Die(h)
            \/ DeleteCard(h) \/ ReplaceCard(h) \/ LookForCard(h) \/ FillCard(h)
            \/ ReadTarget(h) \/ UpdateTarget(h)

ScoreNext == (\E h \in Handlers : Calls(h) \/ Steps(h))
             \/ LegacySelf \/ LegacyReview \/ SetCyclePhase

Spec == ScoreInit /\ [][ScoreNext]_scoreVars

-----------------------------------------------------------------------------
(* Properties *)

Statuses == {"pending", "self_draft", "self_submitted", "manager_scoring", "submitted_to_hc",
             "finalized", "completed"}
Subs == [status : Statuses, self : SUBSET Kpis, agreed : SUBSET Kpis]
Ats == {"done", "phase", "lock", "read", "commit", "delete", "replace", "look", "fill", "target",
        "update"}
Ops == SelfOps \cup ManagerOps \cup HCOps \cup CardOps \cup Answers \cup {"none"}

\* The values, and who has the row locked: just the call between its SELECT
\* FOR UPDATE and the end of its transaction.
TypeOK ==
    /\ sub \in Subs
    /\ target \in {"not_set", "set", "accepted", "rejected"}
    /\ card \subseteq issued /\ issued \subseteq Kpis /\ weight \in [Kpis -> Nat]
    /\ phase \in {"target", "appraisal"}
    /\ lock \in Handlers \cup {None}
    /\ call \in [Handlers -> [op : Ops, at : Ats, hr : BOOLEAN, ratings : SUBSET Kpis,
                              seen : Subs, card : SUBSET Kpis]]
    /\ \A h \in Handlers : call[h].at \in {"read", "commit"} <=> lock = h
    /\ begun \in 0 .. MaxCalls
    /\ emptied \in BOOLEAN /\ replaced \in BOOLEAN /\ overlapped \in BOOLEAN

\* bsc.go:889: the lock is there "to prevent race conditions on concurrent
\* actions".  An action writes the whole row back, from what it read on a
\* connection that does not hold the lock; nothing another call did to the row
\* in between is lost.
SeenIsCurrent == \A h \in Handlers : call[h].at = "commit" => call[h].seen = sub

\* What HC is asked to finalise, and what it has finalised, carries an agreed
\* rating for every KPI on the scorecard, though rows are returned and sent on, by
\* calls that race.  There are two exceptions: HR saves an empty form, which it may
\* at every stage and which leaves the stage; and the scorecard is replaced after
\* the submission has read it, which SaveIndividualScorecard does without a lock
\* and at every stage, so that the ratings are for KPIs that are gone.
AgreedIsComplete ==
    sub.status \in {"submitted_to_hc", "finalized"} /\ ~emptied /\ ~replaced
        => AllRated(card, sub.agreed)

\* The weights on a scorecard total 99 to 101 and never twice that, so that a score,
\* which is a sum over the weights, stays on its scale of 1 to 5 up to a percent.
\* (The comment at bsc.go:323 has them total 100.)  Calls that write scorecards and
\* overlap are the exception: two seedings that both find no scorecard both insert
\* one, for all that the comment at bsc.go:283 says "Idempotent".
WeightsTotalAbout100 ==
    ~overlapped => \A k \in card : card = {k} /\ weight[k] \in 99 .. 101

==============================================================================

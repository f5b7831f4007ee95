--------------------------- MODULE ApprovalProofs ---------------------------
(***************************************************************************)
(* Proofs about Approval, for every number of requests, steps, positions,  *)
(* users and workers: type correctness, the two safety invariants and the  *)
(* action property that the run approval checks on a small instance.       *)
(* Of the liveness property DecidedIsAnnounced the safety half is proved:  *)
(* a decided request is announced or in somebody's hands (DecisionInHand). *)
(***************************************************************************)
EXTENDS Approval, TLAPS

\* What a worker's locals are while it is inside a call.
WorkerOK ==
    \A w \in Workers :
        /\ call[w].pc # "idle" => call[w].step \in StepIds
        /\ call[w].pc \notin {"idle", "insert"} => call[w].user \in Users

TypeInv == TypeOK /\ WorkerOK

-----------------------------------------------------------------------------
(* Facts about steps and records of calls.                                 *)

\* A step id is a request and an order inside its route.
LEMMA StepIdFacts ==
    ASSUME NEW s \in StepIds
    PROVE  /\ s[1] \in Requests
           /\ s[2] \in 1 .. Len(Route[s[1]])
           /\ s = <<s[1], s[2]>>
           /\ Len(Route[s[1]]) \in Nat
<1>1. PICK r \in Requests : s \in {r} \X DOMAIN Route[r]
  BY DEF StepIds
<1>2. Route[r] \in Seq(Positions)
  BY RouteAssumption
<1>3. Len(Route[r]) \in Nat /\ DOMAIN Route[r] = 1 .. Len(Route[r])
  BY <1>2
<1>4. s[1] = r /\ s[2] \in DOMAIN Route[r] /\ s = <<s[1], s[2]>>
  BY <1>1
<1> QED
  BY <1>3, <1>4

\* Every order inside a request's route names a step.
LEMMA StepIdIntro ==
    ASSUME NEW r \in Requests, NEW i \in 1 .. Len(Route[r])
    PROVE  <<r, i>> \in StepIds
<1>1. Route[r] \in Seq(Positions)
  BY RouteAssumption
<1>2. i \in DOMAIN Route[r]
  BY <1>1
<1> QED
  BY <1>2 DEF StepIds

\* Every request has a first step: no caller routes an empty chain.
LEMMA FirstStep ==
    ASSUME NEW r \in Requests
    PROVE  <<r, 1>> \in StepIds
<1>1. Route[r] \in Seq(Positions) /\ Route[r] # <<>>
  BY RouteAssumption
<1>2. 1 \in 1 .. Len(Route[r])
  BY <1>1
<1> QED
  BY <1>2, StepIdIntro

\* The locals of a worker at rest are well typed.
LEMMA NoCallTyped == NoCall \in Calls
  BY DEF NoCall, Calls, Actions, Outcomes

\* RecordDecision only ever stores a status of a decided step.
LEMMA StatusAfterTyped ==
    ASSUME NEW a \in Actions
    PROVE  StatusAfter(a) \in Decided
  BY DEF Actions, StatusAfter, Decided

-----------------------------------------------------------------------------
\* Type correctness holds initially.
LEMMA InitTypeInv == ApprovalInit => TypeInv
<1> SUFFICES ASSUME ApprovalInit PROVE TypeInv
  OBVIOUS
<1>1. TypeOK
  BY NoCallTyped DEF ApprovalInit, TypeOK
<1>2. WorkerOK
  BY DEF ApprovalInit, WorkerOK, NoCall
<1> QED
  BY <1>1, <1>2 DEF TypeInv

\* Moving on inside a call keeps the locals; returning clears them.
LEMMA GotoKeeps ==
    ASSUME TypeOK, WorkerOK,
           NEW w \in Workers, call[w].pc \notin {"idle", "insert"},
           NEW label \in {"record", "next", "progress", "finalise", "handlers"},
           Goto(w, label)
    PROVE  call' \in [Workers -> Calls] /\ WorkerOK'
<1> DEFINE new == [call[w] EXCEPT !.pc = label]
<1>1. call' = [call EXCEPT ![w] = new]
  BY DEF Goto
<1>2. call[w] \in Calls
  BY DEF TypeOK
<1>3. new \in Calls /\ new.step = call[w].step /\ new.user = call[w].user
  BY <1>2 DEF Calls
<1>4. call' \in [Workers -> Calls]
  BY <1>1, <1>3 DEF TypeOK
<1>5. WorkerOK'
  BY <1>1, <1>3 DEF WorkerOK, TypeOK
<1> QED
  BY <1>4, <1>5

\* Returning from a call keeps the types and clears the locals.
LEMMA ReturnKeeps ==
    ASSUME TypeOK, WorkerOK, NEW w \in Workers, Return(w)
    PROVE  call' \in [Workers -> Calls] /\ WorkerOK'
<1>1. call' = [call EXCEPT ![w] = NoCall] /\ NoCall.pc = "idle"
  BY DEF Return, NoCall
<1>2. call' \in [Workers -> Calls]
  BY <1>1, NoCallTyped DEF TypeOK
<1>3. WorkerOK'
  BY <1>1 DEF WorkerOK, TypeOK
<1> QED
  BY <1>2, <1>3

\* Every statement of every handler keeps the types.
LEMMA NextTypeInv == TypeInv /\ [Next]_approvalVars => TypeInv'
<1> SUFFICES ASSUME TypeOK, WorkerOK, [Next]_approvalVars PROVE TypeInv'
  BY DEF TypeInv
<1>1. ASSUME UNCHANGED approvalVars PROVE TypeInv'
  BY <1>1 DEF TypeInv, TypeOK, WorkerOK, approvalVars, Calls
<1>2. ASSUME NEW w \in Workers, NEW r \in Requests, CreateRequest(w, r) PROVE TypeInv'
  <2> DEFINE new == [NoCall EXCEPT !.pc = "insert", !.step = <<r, 1>>]
  <2>1. new \in Calls /\ new.pc = "insert" /\ new.step = <<r, 1>>
    BY FirstStep DEF NoCall, Calls, Actions, Outcomes
  <2>2. call' = [call EXCEPT ![w] = new]
    BY <1>2 DEF CreateRequest
  <2>3. TypeOK'
    BY <1>2, <2>1, <2>2 DEF CreateRequest, TypeOK
  <2>4. WorkerOK'
    BY <2>1, <2>2, FirstStep DEF WorkerOK, TypeOK
  <2> QED
    BY <2>3, <2>4 DEF TypeInv
<1>3. ASSUME NEW w \in Workers, InsertStep(w) PROVE TypeInv'
  <2> DEFINE s == call[w].step
  <2>1. s \in StepIds /\ call[w] \in Calls
    BY <1>3 DEF InsertStep, At, WorkerOK, TypeOK
  <2>2. step' = [step EXCEPT ![s] = IF s[2] \in Skipped[s[1]] THEN "skipped" ELSE "pending"]
    BY <1>3 DEF InsertStep
  <2>3. step' \in [StepIds -> {"absent", "pending", "skipped"} \cup Decided]
    BY <2>1, <2>2 DEF TypeOK
  <2>4. UNCHANGED <<reqStatus, decidedBy, decisions, announced, died>>
    BY <1>3 DEF InsertStep
  <2>5. CASE s[2] = Len(Route[s[1]])
    <3>1. Return(w)
      BY <1>3, <2>5 DEF InsertStep
    <3> QED
      BY <3>1, <2>3, <2>4, ReturnKeeps DEF TypeInv, TypeOK
  <2>6. CASE s[2] # Len(Route[s[1]])
    <3> DEFINE new == [call[w] EXCEPT !.step = <<s[1], s[2] + 1>>]
    <3>1. call' = [call EXCEPT ![w] = new]
      BY <1>3, <2>6 DEF InsertStep
    <3>2. s[1] \in Requests /\ s[2] + 1 \in 1 .. Len(Route[s[1]])
      BY <2>1, <2>6, StepIdFacts
    <3>3. <<s[1], s[2] + 1>> \in StepIds
      BY <3>2, StepIdIntro
    <3>4. new \in Calls /\ new.step \in StepIds /\ new.pc = "insert"
      BY <1>3, <2>1, <3>3 DEF Calls, InsertStep, At
    <3>5. TypeOK'
      BY <2>3, <2>4, <3>1, <3>4 DEF TypeOK
    <3>6. WorkerOK'
      BY <3>1, <3>4 DEF WorkerOK, TypeOK
    <3> QED
      BY <3>5, <3>6 DEF TypeInv
  <2> QED
    BY <2>5, <2>6
<1>4. ASSUME NEW w \in Workers, Decide(w) PROVE TypeInv'
  <2>1. PICK s \in StepIds, u \in Users, a \in Actions : ReadStep(w, s, u, a)
    BY <1>4 DEF Decide
  <2> DEFINE new == [NoCall EXCEPT !.pc = "authorise", !.step = s, !.user = u, !.act = a]
  <2>2. new \in Calls /\ new.step = s /\ new.user = u
    BY DEF NoCall, Calls, Actions, Outcomes
  <2>3. call' = [call EXCEPT ![w] = new]
    BY <2>1 DEF ReadStep
  <2>4. TypeOK'
    BY <2>1, <2>2, <2>3 DEF ReadStep, TypeOK
  <2>5. WorkerOK'
    BY <2>2, <2>3 DEF WorkerOK, TypeOK
  <2> QED
    BY <2>4, <2>5 DEF TypeInv
<1>5. ASSUME NEW w \in Workers, Authorise(w) PROVE TypeInv'
  <2>1. Goto(w, "record") /\ call[w].pc \notin {"idle", "insert"}
    BY <1>5 DEF Authorise, At
  <2>2. call' \in [Workers -> Calls] /\ WorkerOK'
    BY <2>1, GotoKeeps
  <2> QED
    BY <1>5, <2>2 DEF Authorise, TypeInv, TypeOK
<1>6. ASSUME NEW w \in Workers, Refuse(w) PROVE TypeInv'
  <2>1. call' \in [Workers -> Calls] /\ WorkerOK'
    BY <1>6, ReturnKeeps DEF Refuse
  <2> QED
    BY <1>6, <2>1 DEF Refuse, TypeInv, TypeOK
<1>7. ASSUME NEW w \in Workers, RecordStepDecision(w) PROVE TypeInv'
  <2> DEFINE c == call[w]
             out == IF c.act = "reject" THEN "rejected"
                    ELSE IF c.act = "return" THEN "returned" ELSE "approved"
             new == [c EXCEPT !.pc = IF c.act = "approve" THEN "next" ELSE "finalise",
                              !.out = out]
  <2>1. c \in Calls /\ c.step \in StepIds /\ c.user \in Users /\ c.act \in Actions
    BY <1>7 DEF RecordStepDecision, At, WorkerOK, TypeOK, Calls
  <2>2. new \in Calls /\ new.step \in StepIds /\ new.user \in Users
    BY <2>1 DEF Calls, Outcomes
  <2>3. call' = [call EXCEPT ![w] = new]
    BY <1>7 DEF RecordStepDecision
  <2>4. WorkerOK'
    BY <2>2, <2>3 DEF WorkerOK, TypeOK
  <2>5. StatusAfter(c.act) \in Decided
    BY <2>1, StatusAfterTyped
  <2>6. /\ step' = [step EXCEPT ![c.step] = StatusAfter(c.act)]
        /\ decidedBy' = [decidedBy EXCEPT ![c.step] = c.user]
        /\ decisions' = decisions \cup {[step |-> c.step, user |-> c.user, act |-> c.act]}
        /\ UNCHANGED <<reqStatus, announced, died>>
    BY <1>7 DEF RecordStepDecision
  <2>7. TypeOK'
    BY <2>1, <2>2, <2>3, <2>5, <2>6 DEF TypeOK
  <2> QED
    BY <2>4, <2>7 DEF TypeInv
<1>8. ASSUME NEW w \in Workers, NextPendingStep(w) PROVE TypeInv'
  <2>1. PICK label \in {"progress", "finalise"} : Goto(w, label)
    BY <1>8 DEF NextPendingStep
  <2>2. call' \in [Workers -> Calls] /\ WorkerOK'
    BY <1>8, <2>1, GotoKeeps DEF NextPendingStep, At
  <2> QED
    BY <1>8, <2>2 DEF NextPendingStep, TypeInv, TypeOK
<1>9. ASSUME NEW w \in Workers, MarkInProgress(w) PROVE TypeInv'
  <2>1. call' \in [Workers -> Calls] /\ WorkerOK'
    BY <1>9, ReturnKeeps DEF MarkInProgress
  <2> QED
    BY <1>9, <2>1 DEF MarkInProgress, TypeInv, TypeOK
<1>10. ASSUME NEW w \in Workers, Finalise(w) PROVE TypeInv'
  <2>1. call' \in [Workers -> Calls] /\ WorkerOK'
    BY <1>10, GotoKeeps DEF Finalise, At
  <2>2. call[w].out \in Outcomes
    BY DEF TypeOK, Calls
  <2> QED
    BY <1>10, <2>1, <2>2 DEF Finalise, TypeInv, TypeOK
<1>11. ASSUME NEW w \in Workers, FireHandlers(w) PROVE TypeInv'
  <2>1. call' \in [Workers -> Calls] /\ WorkerOK'
    BY <1>11, ReturnKeeps DEF FireHandlers
  <2>2. call[w].out \in Outcomes /\ call[w].step[1] \in Requests
    BY <1>11, StepIdFacts DEF FireHandlers, At, WorkerOK, TypeOK, Calls
  <2> QED
    BY <1>11, <2>1, <2>2 DEF FireHandlers, TypeInv, TypeOK
<1>12. ASSUME NEW w \in Workers, Abort(w) PROVE TypeInv'
  <2>1. call' \in [Workers -> Calls] /\ WorkerOK'
    BY <1>12, ReturnKeeps DEF Abort
  <2>2. call[w].step[1] \in Requests
    BY <1>12, StepIdFacts DEF Abort, Idle, WorkerOK
  <2> QED
    BY <1>12, <2>1, <2>2 DEF Abort, TypeInv, TypeOK
<1> QED
  BY <1>1, <1>2, <1>3, <1>4, <1>5, <1>6, <1>7, <1>8, <1>9, <1>10, <1>11, <1>12
  DEF Next, Continue

\* Every reachable state is well typed, and a worker inside a call works on a
\* step of an existing chain for a known user.
THEOREM TypeInvariant == Spec => []TypeInv
<1> QED
  BY InitTypeInv, NextTypeInv, PTL DEF Spec

\* Type correctness (the run approval checks it on a small instance).  It also
\* says that no status outside the code's vocabulary is ever stored.
THEOREM TypeCorrect == Spec => []TypeOK
<1>1. TypeInv => TypeOK
  BY DEF TypeInv
<1> QED
  BY <1>1, TypeInvariant, PTL

-----------------------------------------------------------------------------
(* The story a decided step's row tells.                                   *)

\* The check that Authorise made still holds when the decision is written: the
\* positions' holders do not change while a call runs.
Authorised ==
    \A w \in Workers :
        call[w].pc = "record" => call[w].user \in Holders[PositionOf(call[w].step)]

RowInv == RowShowsOneDecision /\ Authorised

\* No step is decided initially.
LEMMA InitRowInv == ApprovalInit => RowInv
  BY DEF ApprovalInit, RowInv, RowShowsOneDecision, Authorised, NoCall, Decided

\* A step that writes no row and begins no record keeps the invariant.
LEMMA RowInvKept ==
    ASSUME RowInv, UNCHANGED <<step, decidedBy, decisions>>,
           \A v \in Workers : call'[v].pc = "record" => call'[v] = call[v]
    PROVE  RowInv'
<1>1. RowShowsOneDecision'
  BY DEF RowInv, RowShowsOneDecision
<1>2. Authorised'
  BY DEF RowInv, Authorised, PositionOf
<1> QED
  BY <1>1, <1>2 DEF RowInv

\* Every statement keeps the story of every row: RecordStepDecision writes the
\* decision and the decider of its own call together.
LEMMA NextRowInv == TypeInv /\ RowInv /\ [Next]_approvalVars => RowInv'
<1> SUFFICES ASSUME TypeOK, WorkerOK, RowInv, [Next]_approvalVars PROVE RowInv'
  BY DEF TypeInv
<1> USE DEF TypeOK
<1>1. ASSUME UNCHANGED approvalVars PROVE RowInv'
  BY <1>1, RowInvKept DEF approvalVars
<1>2. ASSUME NEW w \in Workers, NEW r \in Requests, CreateRequest(w, r) PROVE RowInv'
  BY <1>2, RowInvKept DEF CreateRequest, NoCall
<1>3. ASSUME NEW w \in Workers, InsertStep(w) PROVE RowInv'
  <2> DEFINE s == call[w].step
             new == IF s[2] \in Skipped[s[1]] THEN "skipped" ELSE "pending"
  <2>1. /\ step' = [step EXCEPT ![s] = new]
        /\ UNCHANGED <<decidedBy, decisions>>
    BY <1>3 DEF InsertStep
  <2>2. new \notin Decided
    BY DEF Decided
  <2>3. RowShowsOneDecision'
    BY <2>1, <2>2 DEF RowInv, RowShowsOneDecision
  <2>4. call' = [call EXCEPT ![w] = call'[w]] /\ call'[w].pc # "record"
    <3>1. CASE s[2] = Len(Route[s[1]])
      BY <1>3, <3>1 DEF InsertStep, Return, NoCall
    <3>2. CASE s[2] # Len(Route[s[1]])
      <4> DEFINE next == [call[w] EXCEPT !.step = <<s[1], s[2] + 1>>]
      <4>1. call' = [call EXCEPT ![w] = next]
        BY <1>3, <3>2 DEF InsertStep
      <4>2. next.pc = "insert"
        BY <1>3 DEF InsertStep, At, Calls
      <4> QED
        BY <4>1, <4>2
    <3> QED
      BY <3>1, <3>2
  <2>5. Authorised'
    BY <2>4 DEF RowInv, Authorised, PositionOf
  <2> QED
    BY <2>3, <2>5 DEF RowInv
<1>4. ASSUME NEW w \in Workers, Decide(w) PROVE RowInv'
  <2>1. PICK s \in StepIds, u \in Users, a \in Actions : ReadStep(w, s, u, a)
    BY <1>4 DEF Decide
  <2> QED
    BY <2>1, RowInvKept DEF ReadStep, NoCall
<1>5. ASSUME NEW w \in Workers, Authorise(w) PROVE RowInv'
  <2> DEFINE new == [call[w] EXCEPT !.pc = "record"]
  <2>1. call' = [call EXCEPT ![w] = new] /\ new.user = call[w].user /\ new.step = call[w].step
    BY <1>5 DEF Authorise, Goto, Calls
  <2>2. Authorised'
    BY <1>5, <2>1 DEF Authorise, RowInv, Authorised, PositionOf
  <2>3. RowShowsOneDecision'
    BY <1>5 DEF Authorise, RowInv, RowShowsOneDecision
  <2> QED
    BY <2>2, <2>3 DEF RowInv
<1>6. ASSUME NEW w \in Workers, Refuse(w) PROVE RowInv'
  BY <1>6, RowInvKept DEF Refuse, Return, NoCall
<1>7. ASSUME NEW w \in Workers, RecordStepDecision(w) PROVE RowInv'
  <2> DEFINE c == call[w]
             d == [step |-> c.step, user |-> c.user, act |-> c.act]
             out == IF c.act = "reject" THEN "rejected"
                    ELSE IF c.act = "return" THEN "returned" ELSE "approved"
             label == IF c.act = "approve" THEN "next" ELSE "finalise"
  <2>1. c \in Calls /\ c.pc = "record" /\ c.step \in StepIds
    BY <1>7 DEF RecordStepDecision, At, WorkerOK
  <2>2. /\ step' = [step EXCEPT ![c.step] = StatusAfter(c.act)]
        /\ decidedBy' = [decidedBy EXCEPT ![c.step] = c.user]
        /\ decisions' = decisions \cup {d}
        /\ call' = [call EXCEPT ![w] = [c EXCEPT !.pc = label, !.out = out]]
    BY <1>7 DEF RecordStepDecision
  <2>3. RowShowsOneDecision'
    <3> SUFFICES ASSUME NEW s \in StepIds, step'[s] \in Decided
                 PROVE  \E e \in decisions' : /\ e.step = s
                                              /\ e.user = decidedBy'[s]
                                              /\ e.user \in Holders[PositionOf(s)]
                                              /\ StatusAfter(e.act) = step'[s]
      BY DEF RowShowsOneDecision, PositionOf, StatusAfter
    <3>1. CASE s = c.step
      <4>1. d.step = s /\ d.user = decidedBy'[s] /\ StatusAfter(d.act) = step'[s]
        BY <2>1, <2>2, <3>1
      <4>2. d.user \in Holders[PositionOf(s)]
        BY <2>1, <3>1 DEF RowInv, Authorised
      <4> QED
        BY <2>2, <4>1, <4>2
    <3>2. CASE s # c.step
      BY <2>2, <3>2 DEF RowInv, RowShowsOneDecision
    <3> QED
      BY <3>1, <3>2
  <2>4. [c EXCEPT !.pc = label, !.out = out].pc # "record"
    BY <2>1 DEF Calls
  <2>5. Authorised'
    BY <2>2, <2>4 DEF RowInv, Authorised, PositionOf
  <2> QED
    BY <2>3, <2>5 DEF RowInv
<1>8. ASSUME NEW w \in Workers, NextPendingStep(w) PROVE RowInv'
  <2>1. PICK label \in {"progress", "finalise"} : Goto(w, label)
    BY <1>8 DEF NextPendingStep
  <2> QED
    BY <1>8, <2>1, RowInvKept DEF NextPendingStep, Goto, Calls
<1>9. ASSUME NEW w \in Workers, MarkInProgress(w) PROVE RowInv'
  BY <1>9, RowInvKept DEF MarkInProgress, Return, NoCall
<1>10. ASSUME NEW w \in Workers, Finalise(w) PROVE RowInv'
  BY <1>10, RowInvKept DEF Finalise, Goto, Calls
<1>11. ASSUME NEW w \in Workers, FireHandlers(w) PROVE RowInv'
  BY <1>11, RowInvKept DEF FireHandlers, Return, NoCall
<1>12. ASSUME NEW w \in Workers, Abort(w) PROVE RowInv'
  BY <1>12, RowInvKept DEF Abort, Return, NoCall
<1> QED
  BY <1>1, <1>2, <1>3, <1>4, <1>5, <1>6, <1>7, <1>8, <1>9, <1>10, <1>11, <1>12
  DEF Next, Continue

\* Whatever calls race on a step, its row shows the decision and the decider of
\* one and the same call, by a holder of the step's position, although the
\* UPDATE in RecordDecision overwrites what it finds.
THEOREM RowShowsOneDecisionHolds == Spec => []RowShowsOneDecision
<1>1. RowInv => RowShowsOneDecision
  BY DEF RowInv
<1> QED
  BY <1>1, InitRowInv, NextRowInv, TypeInvariant, PTL DEF Spec

-----------------------------------------------------------------------------
(* Every outcome rests on a decision of its kind.                          *)

\* What every statement of a call does to the workers' locals.
LEMMA GotoEffect ==
    ASSUME TypeOK, NEW w \in Workers, NEW label, Goto(w, label)
    PROVE  /\ call'[w].pc = label
           /\ call'[w].step = call[w].step
           /\ call'[w].out = call[w].out
           /\ \A v \in Workers \ {w} : call'[v] = call[v]
<1> DEFINE new == [call[w] EXCEPT !.pc = label]
<1>1. call[w] \in Calls
  BY DEF TypeOK
<1>2. new.pc = label /\ new.step = call[w].step /\ new.out = call[w].out
  BY <1>1 DEF Calls
<1>3. call' = [call EXCEPT ![w] = new]
  BY DEF Goto
<1> QED
  BY <1>2, <1>3 DEF TypeOK

\* What returning does to the workers' locals.
LEMMA ReturnEffect ==
    ASSUME TypeOK, NEW w \in Workers, Return(w)
    PROVE  /\ call'[w].pc = "idle"
           /\ \A v \in Workers \ {w} : call'[v] = call[v]
  BY DEF Return, NoCall, TypeOK

\* The kind of decision an outcome follows from.
ActFor(o) == CASE o = "approved" -> "approve"
               [] o = "rejected" -> "reject"
               [] o = "returned" -> "return"

\* The outcomes a committed decision justifies, for every request.
Backed == {p \in Requests \X Outcomes :
              \E d \in decisions : d.step[1] = p[1] /\ d.act = ActFor(p[2])}

\* Statuses, events and the workers past their UPDATE are backed by decisions.
OutcomeInv ==
    /\ \A r \in Requests :
           /\ reqStatus[r] \in Outcomes => <<r, reqStatus[r]>> \in Backed
           /\ reqStatus[r] = "in_progress" => <<r, "approved">> \in Backed
    /\ announced \subseteq Backed
    /\ \A w \in Workers :
           /\ call[w].pc \in {"next", "progress"} => call[w].out = "approved"
           /\ call[w].pc \in {"next", "progress", "finalise", "handlers"} =>
                 <<call[w].step[1], call[w].out>> \in Backed

\* Initially there is no outcome to be backed.
LEMMA InitOutcomeInv == ApprovalInit => OutcomeInv
  BY DEF ApprovalInit, OutcomeInv, NoCall, Outcomes

\* What the decisions back is what OutcomeHasDecision asks for.
LEMMA OutcomeInvSuffices == OutcomeInv => OutcomeHasDecision
<1> SUFFICES ASSUME OutcomeInv, NEW r \in Requests
             PROVE  /\ reqStatus[r] \in {"approved", "in_progress"} => HasDecision(r, "approve")
                    /\ reqStatus[r] = "rejected" => HasDecision(r, "reject")
                    /\ reqStatus[r] = "returned" => HasDecision(r, "return")
                    /\ <<r, "approved">> \in announced => HasDecision(r, "approve")
                    /\ <<r, "rejected">> \in announced => HasDecision(r, "reject")
                    /\ <<r, "returned">> \in announced => HasDecision(r, "return")
  BY DEF OutcomeHasDecision
<1>1. \A o \in Outcomes : <<r, o>> \in Backed => HasDecision(r, ActFor(o))
  BY DEF Backed, HasDecision
<1>2. ActFor("approved") = "approve" /\ ActFor("rejected") = "reject" /\ ActFor("returned") = "return"
  BY DEF ActFor
<1> QED
  BY <1>1, <1>2 DEF OutcomeInv, Outcomes

\* Decisions are never forgotten.
LEMMA BackedGrows ==
    ASSUME decisions \subseteq decisions'
    PROVE  Backed \subseteq Backed'
  BY DEF Backed, ActFor

\* A step that changes no outcome and enters none of the statements after the
\* UPDATE keeps the invariant.
LEMMA OutcomeInvKept ==
    ASSUME OutcomeInv, UNCHANGED <<reqStatus, announced>>, decisions \subseteq decisions',
           \A v \in Workers :
               call'[v].pc \in {"next", "progress", "finalise", "handlers"} =>
                   call'[v] = call[v]
    PROVE  OutcomeInv'
  BY BackedGrows DEF OutcomeInv

\* Every statement keeps the outcomes backed: only RecordStepDecision starts a
\* worker on its way to an outcome, and it records the decision in the same step.
LEMMA NextOutcomeInv == TypeInv /\ OutcomeInv /\ [Next]_approvalVars => OutcomeInv'
<1> SUFFICES ASSUME TypeOK, WorkerOK, OutcomeInv, [Next]_approvalVars PROVE OutcomeInv'
  BY DEF TypeInv
<1>1. ASSUME UNCHANGED approvalVars PROVE OutcomeInv'
  BY <1>1, OutcomeInvKept DEF approvalVars
<1>2. ASSUME NEW w \in Workers, NEW r \in Requests, CreateRequest(w, r) PROVE OutcomeInv'
  <2> DEFINE new == [NoCall EXCEPT !.pc = "insert", !.step = <<r, 1>>]
  <2>1. call' = [call EXCEPT ![w] = new] /\ new.pc = "insert"
    BY <1>2 DEF CreateRequest, NoCall
  <2>2. reqStatus' = [reqStatus EXCEPT ![r] = "pending"] /\ UNCHANGED <<announced, decisions>>
    BY <1>2 DEF CreateRequest
  <2>3. Backed \subseteq Backed'
    BY <2>2, BackedGrows
  <2> QED
    BY <2>1, <2>2, <2>3 DEF OutcomeInv, TypeOK, Outcomes
<1>3. ASSUME NEW w \in Workers, InsertStep(w) PROVE OutcomeInv'
  <2> DEFINE s == call[w].step
             next == [call[w] EXCEPT !.step = <<s[1], s[2] + 1>>]
  <2>1. CASE s[2] = Len(Route[s[1]])
    BY <1>3, <2>1, OutcomeInvKept, ReturnEffect DEF InsertStep
  <2>2. CASE s[2] # Len(Route[s[1]])
    <3>1. call' = [call EXCEPT ![w] = next]
      BY <1>3, <2>2 DEF InsertStep
    <3>2. next.pc = "insert"
      BY <1>3 DEF InsertStep, At, Calls, TypeOK
    <3>3. UNCHANGED <<reqStatus, announced, decisions>>
      BY <1>3 DEF InsertStep
    <3> QED
      BY <3>1, <3>2, <3>3, OutcomeInvKept DEF TypeOK
  <2> QED
    BY <2>1, <2>2
<1>4. ASSUME NEW w \in Workers, Decide(w) PROVE OutcomeInv'
  <2>1. PICK s \in StepIds, u \in Users, a \in Actions : ReadStep(w, s, u, a)
    BY <1>4 DEF Decide
  <2> QED
    BY <2>1, OutcomeInvKept DEF ReadStep, NoCall, TypeOK
<1>5. ASSUME NEW w \in Workers, Authorise(w) PROVE OutcomeInv'
  BY <1>5, OutcomeInvKept, GotoEffect DEF Authorise
<1>6. ASSUME NEW w \in Workers, Refuse(w) PROVE OutcomeInv'
  BY <1>6, OutcomeInvKept, ReturnEffect DEF Refuse
<1>7. ASSUME NEW w \in Workers, RecordStepDecision(w) PROVE OutcomeInv'
  <2> DEFINE c == call[w]
             d == [step |-> c.step, user |-> c.user, act |-> c.act]
             out == IF c.act = "reject" THEN "rejected"
                    ELSE IF c.act = "return" THEN "returned" ELSE "approved"
             label == IF c.act = "approve" THEN "next" ELSE "finalise"
             new == [c EXCEPT !.pc = label, !.out = out]
  <2>1. c \in Calls /\ c.act \in Actions /\ c.step[1] \in Requests
    BY <1>7, StepIdFacts DEF RecordStepDecision, At, WorkerOK, TypeOK, Calls
  <2>2. /\ decisions' = decisions \cup {d}
        /\ call' = [call EXCEPT ![w] = new]
        /\ UNCHANGED <<reqStatus, announced>>
    BY <1>7 DEF RecordStepDecision
  <2>3. new.pc = label /\ new.step = c.step /\ new.out = out
    BY <2>1 DEF Calls
  <2>4. out \in Outcomes /\ ActFor(out) = c.act
    BY <2>1 DEF ActFor, Actions, Outcomes
  <2>5. d \in decisions' /\ d.step[1] = c.step[1] /\ d.act = ActFor(out)
    BY <2>2, <2>4
  <2>6. <<c.step[1], out>> \in Backed'
    <3> SUFFICES \E e \in decisions' : e.step[1] = c.step[1] /\ e.act = ActFor(out)
      BY <2>1, <2>4 DEF Backed, ActFor
    <3> QED
      BY <2>5
  <2>7. Backed \subseteq Backed'
    BY <2>2, BackedGrows
  <2>8. label = "next" => out = "approved"
    OBVIOUS
  <2>9. label \notin {"progress"}
    OBVIOUS
  <2> HIDE DEF label, out, new
  <2> QED
    BY <2>2, <2>3, <2>6, <2>7, <2>8, <2>9 DEF OutcomeInv, TypeOK
<1>8. ASSUME NEW w \in Workers, NextPendingStep(w) PROVE OutcomeInv'
  <2>1. PICK label \in {"progress", "finalise"} : Goto(w, label)
    BY <1>8 DEF NextPendingStep
  <2>2. UNCHANGED <<reqStatus, decisions, announced>> /\ call[w].pc = "next"
    BY <1>8 DEF NextPendingStep, At
  <2>3. Backed \subseteq Backed'
    BY <2>2, BackedGrows
  <2> QED
    BY <2>1, <2>2, <2>3, GotoEffect DEF OutcomeInv
<1>9. ASSUME NEW w \in Workers, MarkInProgress(w) PROVE OutcomeInv'
  <2>1. /\ reqStatus' = [reqStatus EXCEPT ![call[w].step[1]] = "in_progress"]
        /\ UNCHANGED <<decisions, announced>>
        /\ Return(w)
        /\ call[w].pc = "progress"
    BY <1>9 DEF MarkInProgress, At
  <2>2. <<call[w].step[1], "approved">> \in Backed
    BY <2>1 DEF OutcomeInv
  <2>3. Backed \subseteq Backed'
    BY <2>1, BackedGrows
  <2> QED
    BY <2>1, <2>2, <2>3, ReturnEffect DEF OutcomeInv, TypeOK, Outcomes
<1>10. ASSUME NEW w \in Workers, Finalise(w) PROVE OutcomeInv'
  <2>1. /\ reqStatus' = [reqStatus EXCEPT ![call[w].step[1]] = call[w].out]
        /\ UNCHANGED <<decisions, announced>>
        /\ Goto(w, "handlers")
        /\ call[w].pc = "finalise"
        /\ call[w].out \in Outcomes
    BY <1>10 DEF Finalise, At, TypeOK, Calls
  <2>2. Backed \subseteq Backed'
    BY <2>1, BackedGrows
  <2>3. call[w].out # "in_progress"
    BY <2>1 DEF Outcomes
  <2> QED
    BY <2>1, <2>2, <2>3, GotoEffect DEF OutcomeInv, TypeOK
<1>11. ASSUME NEW w \in Workers, FireHandlers(w) PROVE OutcomeInv'
  <2>1. /\ announced' = announced \cup {<<call[w].step[1], call[w].out>>}
        /\ UNCHANGED <<decisions, reqStatus>>
        /\ Return(w)
        /\ call[w].pc = "handlers"
    BY <1>11 DEF FireHandlers, At
  <2>2. Backed \subseteq Backed'
    BY <2>1, BackedGrows
  <2> QED
    BY <2>1, <2>2, ReturnEffect DEF OutcomeInv
<1>12. ASSUME NEW w \in Workers, Abort(w) PROVE OutcomeInv'
  BY <1>12, OutcomeInvKept, ReturnEffect DEF Abort
<1> QED
  BY <1>1, <1>2, <1>3, <1>4, <1>5, <1>6, <1>7, <1>8, <1>9, <1>10, <1>11, <1>12
  DEF Next, Continue

\* No status of a request and no announced event is ahead of the decisions:
\* each rests on a committed decision of its kind on that request.
THEOREM OutcomeHasDecisionHolds == Spec => []OutcomeHasDecision
<1> QED
  BY InitOutcomeInv, NextOutcomeInv, OutcomeInvSuffices, TypeInvariant, PTL DEF Spec

-----------------------------------------------------------------------------
(* No step is ever reopened.                                               *)

\* The chain a worker is inserting belongs to it alone, from the current order
\* on none of its steps exists, and a decision is only ever under way on a step
\* that was pending.
ChainInv ==
    /\ \A s \in StepIds : reqStatus[s[1]] = "none" => step[s] = "absent"
    /\ \A w \in Workers : call[w].pc = "insert" =>
           /\ reqStatus[call[w].step[1]] # "none"
           /\ \A s \in StepIds :
                  s[1] = call[w].step[1] /\ s[2] >= call[w].step[2] => step[s] = "absent"
    /\ \A v, w \in Workers :
           call[v].pc = "insert" /\ call[w].pc = "insert" /\ v # w =>
               call[v].step[1] # call[w].step[1]
    /\ \A w \in Workers : call[w].pc \in {"authorise", "record"} =>
           step[call[w].step] \in Decided \cup {"pending"}

\* Initially no chain exists.
LEMMA InitChainInv == ApprovalInit => ChainInv
<1> SUFFICES ASSUME ApprovalInit PROVE ChainInv
  OBVIOUS
<1>1. \A w \in Workers : call[w].pc = "idle"
  BY DEF ApprovalInit, NoCall
<1> QED
  BY <1>1 DEF ApprovalInit, ChainInv

\* A step that writes no chain and enters none of the labels keeps it.
LEMMA ChainInvKept ==
    ASSUME ChainInv, UNCHANGED step,
           \A r \in Requests : reqStatus'[r] = "none" <=> reqStatus[r] = "none",
           TypeOK, WorkerOK, WorkerOK',
           \A v \in Workers :
               call'[v].pc \in {"insert", "authorise", "record"} => call'[v] = call[v]
    PROVE  ChainInv'
<1>1. \A s \in StepIds : s[1] \in Requests
  BY StepIdFacts
<1> QED
  BY <1>1 DEF ChainInv, WorkerOK

\* Every statement keeps the chains apart: CreateRequest takes a fresh request,
\* InsertStep an absent step, RecordStepDecision a step that exists.
LEMMA NextChainInv ==
    TypeInv /\ TypeInv' /\ ChainInv /\ [Next]_approvalVars => ChainInv'
<1> SUFFICES ASSUME TypeOK, WorkerOK, TypeOK', WorkerOK', ChainInv, [Next]_approvalVars
             PROVE  ChainInv'
  BY DEF TypeInv
<1>0. \A s \in StepIds : s[1] \in Requests /\ s[2] \in Nat
  BY StepIdFacts
<1>1. ASSUME UNCHANGED approvalVars PROVE ChainInv'
  BY <1>1, ChainInvKept DEF approvalVars
<1>2. ASSUME NEW w \in Workers, NEW r \in Requests, CreateRequest(w, r) PROVE ChainInv'
  <2> DEFINE new == [NoCall EXCEPT !.pc = "insert", !.step = <<r, 1>>]
  <2>1. /\ call' = [call EXCEPT ![w] = new]
        /\ new.pc = "insert" /\ new.step[1] = r /\ new.step[2] = 1
    BY <1>2 DEF CreateRequest, NoCall
  <2>2. /\ reqStatus' = [reqStatus EXCEPT ![r] = "pending"]
        /\ reqStatus[r] = "none"
        /\ UNCHANGED step
    BY <1>2 DEF CreateRequest
  <2>3. \A s \in StepIds : s[1] = r => step[s] = "absent"
    BY <2>2 DEF ChainInv
  <2>4. \A v \in Workers \ {w} : call'[v] = call[v]
    BY <2>1 DEF TypeOK
  <2>5. call'[w].pc = "insert" /\ call'[w].step[1] = r
    BY <2>1 DEF TypeOK
  <2>6. \A v \in Workers : call[v].pc = "insert" => call[v].step[1] # r
    BY <2>2 DEF ChainInv
  <2> HIDE DEF new
  <2> QED
    BY <1>0, <2>2, <2>3, <2>4, <2>5, <2>6 DEF ChainInv, TypeOK
<1>3. ASSUME NEW w \in Workers, InsertStep(w) PROVE ChainInv'
  <2> DEFINE s == call[w].step
             written == IF s[2] \in Skipped[s[1]] THEN "skipped" ELSE "pending"
             next == [call[w] EXCEPT !.step = <<s[1], s[2] + 1>>]
  <2>1. /\ call[w].pc = "insert"
        /\ s \in StepIds
        /\ step' = [step EXCEPT ![s] = written]
        /\ UNCHANGED reqStatus
    BY <1>3 DEF InsertStep, At, WorkerOK
  <2>2. step[s] = "absent" /\ reqStatus[s[1]] # "none"
    BY <1>0, <2>1 DEF ChainInv
  <2>3. \A u \in StepIds : u # s => step'[u] = step[u]
    BY <2>1 DEF TypeOK
  <2>4. /\ \A v \in Workers \ {w} : call'[v] = call[v]
        /\ \/ call'[w].pc = "idle"
           \/ /\ call'[w].pc = "insert"
              /\ call'[w].step[1] = s[1]
              /\ call'[w].step[2] = s[2] + 1
    <3>1. CASE s[2] = Len(Route[s[1]])
      BY <1>3, <3>1, ReturnEffect DEF InsertStep
    <3>2. CASE s[2] # Len(Route[s[1]])
      <4>1. call' = [call EXCEPT ![w] = next]
        BY <1>3, <3>2 DEF InsertStep
      <4>2. next.pc = "insert" /\ next.step = <<s[1], s[2] + 1>>
        BY <2>1 DEF Calls, TypeOK
      <4>3. call'[w] = next /\ \A v \in Workers \ {w} : call'[v] = call[v]
        BY <4>1 DEF TypeOK
      <4> QED
        BY <4>2, <4>3
    <3> QED
      BY <3>1, <3>2
  <2>5. \A v \in Workers \ {w} : call[v].pc = "insert" => call[v].step[1] # s[1]
    BY <2>1 DEF ChainInv
  <2>6. \A v \in Workers : call[v].pc \in {"authorise", "record"} => call[v].step # s
    BY <2>2 DEF ChainInv, Decided
  <2> HIDE DEF s, written, next
  <2>7. \A u \in StepIds : reqStatus'[u[1]] = "none" => step'[u] = "absent"
    BY <2>1, <2>2, <2>3 DEF ChainInv
  <2>8. \A v \in Workers : call'[v].pc = "insert" =>
            /\ reqStatus'[call'[v].step[1]] # "none"
            /\ \A u \in StepIds :
                   u[1] = call'[v].step[1] /\ u[2] >= call'[v].step[2] => step'[u] = "absent"
    <3> SUFFICES ASSUME NEW v \in Workers, call'[v].pc = "insert"
                 PROVE  /\ reqStatus'[call'[v].step[1]] # "none"
                        /\ \A u \in StepIds :
                              u[1] = call'[v].step[1] /\ u[2] >= call'[v].step[2] =>
                                  step'[u] = "absent"
      OBVIOUS
    <3>1. CASE v # w
      BY <2>1, <2>3, <2>4, <2>5, <3>1 DEF ChainInv
    <3>2. CASE v = w
      <4>1. call'[w].step[1] = s[1] /\ call'[w].step[2] = s[2] + 1
        BY <2>4, <3>2
      <4>2. \A u \in StepIds : u[1] = s[1] /\ u[2] >= s[2] => step[u] = "absent"
        BY <2>1 DEF ChainInv, s
      <4>3. \A u \in StepIds : u[2] >= s[2] + 1 => u # s /\ u[2] >= s[2]
        BY <1>0, <2>1
      <4> QED
        BY <2>1, <2>2, <2>3, <3>2, <4>1, <4>2, <4>3
    <3> QED
      BY <3>1, <3>2
  <2>9. \A u, v \in Workers :
            call'[u].pc = "insert" /\ call'[v].pc = "insert" /\ u # v =>
                call'[u].step[1] # call'[v].step[1]
    BY <2>4, <2>5 DEF ChainInv
  <2>10. \A v \in Workers : call'[v].pc \in {"authorise", "record"} =>
            step'[call'[v].step] \in Decided \cup {"pending"}
    <3> SUFFICES ASSUME NEW v \in Workers, call'[v].pc \in {"authorise", "record"}
                 PROVE  step'[call'[v].step] \in Decided \cup {"pending"}
      OBVIOUS
    <3>1. v # w /\ call'[v] = call[v]
      BY <2>4
    <3>2. call[v].step \in StepIds /\ call[v].step # s
      BY <2>6, <3>1 DEF WorkerOK
    <3> QED
      BY <2>3, <3>1, <3>2 DEF ChainInv
  <2> QED
    BY <2>7, <2>8, <2>9, <2>10 DEF ChainInv
<1>4. ASSUME NEW w \in Workers, Decide(w) PROVE ChainInv'
  <2>1. PICK s \in StepIds, u \in Users, a \in Actions : ReadStep(w, s, u, a)
    BY <1>4 DEF Decide
  <2> DEFINE new == [NoCall EXCEPT !.pc = "authorise", !.step = s, !.user = u, !.act = a]
  <2>2. /\ call' = [call EXCEPT ![w] = new]
        /\ new.pc = "authorise" /\ new.step = s
        /\ step[s] = "pending"
        /\ UNCHANGED <<reqStatus, step>>
    BY <2>1 DEF ReadStep, NoCall
  <2>3. call'[w].pc = "authorise" /\ call'[w].step = s
    BY <2>2 DEF TypeOK
  <2>4. \A v \in Workers \ {w} : call'[v] = call[v]
    BY <2>2 DEF TypeOK
  <2> HIDE DEF new
  <2> QED
    BY <2>2, <2>3, <2>4 DEF ChainInv
<1>5. ASSUME NEW w \in Workers, Authorise(w) PROVE ChainInv'
  <2>1. Goto(w, "record") /\ call[w].pc = "authorise" /\ UNCHANGED <<reqStatus, step>>
    BY <1>5 DEF Authorise, At
  <2> QED
    BY <2>1, GotoEffect DEF ChainInv
<1>6. ASSUME NEW w \in Workers, Refuse(w) PROVE ChainInv'
  BY <1>6, ChainInvKept, ReturnEffect DEF Refuse
<1>7. ASSUME NEW w \in Workers, RecordStepDecision(w) PROVE ChainInv'
  <2> DEFINE c == call[w]
             label == IF c.act = "approve" THEN "next" ELSE "finalise"
             new == [c EXCEPT !.pc = label,
                              !.out = IF c.act = "reject" THEN "rejected"
                                      ELSE IF c.act = "return" THEN "returned"
                                      ELSE "approved"]
  <2>1. c \in Calls /\ c.pc = "record" /\ c.step \in StepIds /\ StatusAfter(c.act) \in Decided
    BY <1>7, StatusAfterTyped DEF RecordStepDecision, At, WorkerOK, TypeOK, Calls
  <2>2. /\ step' = [step EXCEPT ![c.step] = StatusAfter(c.act)]
        /\ call' = [call EXCEPT ![w] = new]
        /\ UNCHANGED reqStatus
    BY <1>7 DEF RecordStepDecision
  <2>3. new.pc \in {"next", "finalise"}
    BY <2>1 DEF Calls
  <2>4. /\ call'[w].pc \in {"next", "finalise"}
        /\ \A v \in Workers \ {w} : call'[v] = call[v]
    BY <2>2, <2>3 DEF TypeOK
  <2>5. step[c.step] \in Decided \cup {"pending"} /\ "absent" \notin Decided
    BY <2>1 DEF ChainInv, Decided
  <2>6. /\ step'[c.step] \in Decided
        /\ \A u \in StepIds : u # c.step => step'[u] = step[u]
    BY <2>1, <2>2 DEF TypeOK
  <2> HIDE DEF c, new, label
  <2>7. \A u \in StepIds : step[u] = "absent" => step'[u] = "absent"
    BY <2>5, <2>6
  <2>8. \A u \in StepIds :
            step[u] \in Decided \cup {"pending"} => step'[u] \in Decided \cup {"pending"}
    BY <2>6
  <2> QED
    BY <2>2, <2>4, <2>7, <2>8 DEF ChainInv, WorkerOK
<1>8. ASSUME NEW w \in Workers, NextPendingStep(w) PROVE ChainInv'
  <2>1. PICK label \in {"progress", "finalise"} : Goto(w, label)
    BY <1>8 DEF NextPendingStep
  <2> QED
    BY <1>8, <2>1, ChainInvKept, GotoEffect DEF NextPendingStep
<1>9. ASSUME NEW w \in Workers, MarkInProgress(w) PROVE ChainInv'
  <2>1. /\ reqStatus' = [reqStatus EXCEPT ![call[w].step[1]] = "in_progress"]
        /\ UNCHANGED step /\ Return(w)
    BY <1>9 DEF MarkInProgress
  <2> QED
    BY <1>0, <2>1, ReturnEffect DEF ChainInv, TypeOK, WorkerOK
<1>10. ASSUME NEW w \in Workers, Finalise(w) PROVE ChainInv'
  <2>1. /\ reqStatus' = [reqStatus EXCEPT ![call[w].step[1]] = call[w].out]
        /\ UNCHANGED step /\ Goto(w, "handlers")
        /\ call[w].out # "none"
    BY <1>10 DEF Finalise, TypeOK, Calls, Outcomes
  <2> QED
    BY <1>0, <2>1, GotoEffect DEF ChainInv, TypeOK, WorkerOK
<1>11. ASSUME NEW w \in Workers, FireHandlers(w) PROVE ChainInv'
  BY <1>11, ChainInvKept, ReturnEffect DEF FireHandlers
<1>12. ASSUME NEW w \in Workers, Abort(w) PROVE ChainInv'
  BY <1>12, ChainInvKept, ReturnEffect DEF Abort
<1> QED
  BY <1>1, <1>2, <1>3, <1>4, <1>5, <1>6, <1>7, <1>8, <1>9, <1>10, <1>11, <1>12
  DEF Next, Continue

\* Which steps of the program write a step's row, and over what.
LEMMA ReopenStep ==
    ASSUME TypeOK, WorkerOK, ChainInv, [Next]_approvalVars, NEW s \in StepIds
    PROVE  /\ step[s] \in Decided => step'[s] \in Decided
           /\ step[s] = "skipped" => step'[s] = "skipped"
<1>1. ASSUME NEW w \in Workers, InsertStep(w)
      PROVE  step[s] # "absent" => step'[s] = step[s]
  <2>1. step[call[w].step] = "absent"
    <3>1. call[w].step \in StepIds /\ call[w].pc = "insert"
      BY <1>1 DEF InsertStep, At, WorkerOK
    <3>2. call[w].step[2] >= call[w].step[2]
      BY <3>1, StepIdFacts
    <3> QED
      BY <3>1, <3>2 DEF ChainInv
  <2> QED
    BY <1>1, <2>1 DEF InsertStep, TypeOK
<1>2. ASSUME NEW w \in Workers, RecordStepDecision(w)
      PROVE  \/ step'[s] = step[s]
             \/ step'[s] \in Decided /\ step[s] \in Decided \cup {"pending"}
  <2>1. /\ call[w].step \in StepIds /\ call[w].pc = "record"
        /\ StatusAfter(call[w].act) \in Decided
    BY <1>2, StatusAfterTyped DEF RecordStepDecision, At, WorkerOK, TypeOK, Calls
  <2>2. step[call[w].step] \in Decided \cup {"pending"}
    BY <2>1 DEF ChainInv
  <2>3. step' = [step EXCEPT ![call[w].step] = StatusAfter(call[w].act)]
    BY <1>2 DEF RecordStepDecision
  <2> QED
    BY <2>1, <2>2, <2>3 DEF TypeOK
<1>3. \/ UNCHANGED step
      \/ \E w \in Workers : InsertStep(w)
      \/ \E w \in Workers : RecordStepDecision(w)
  BY DEF Next, Continue, Decide, CreateRequest, ReadStep, Authorise, Refuse,
         NextPendingStep, MarkInProgress, Finalise, FireHandlers, Abort, approvalVars
<1>4. "absent" \notin Decided /\ "skipped" \notin Decided
  BY DEF Decided
<1> QED
  BY <1>1, <1>2, <1>3, <1>4

\* However calls interleave, a decided step never becomes pending again, and a
\* skipped one is never decided: RecordDecision's unguarded UPDATE can only
\* replace one decision by another.
THEOREM StepsNeverReopenHolds == Spec => StepsNeverReopen
<1> DEFINE Keeps == \A s \in StepIds :
                        /\ step[s] \in Decided => step'[s] \in Decided
                        /\ step[s] = "skipped" => step'[s] = "skipped"
<1>1. TypeInv /\ ChainInv /\ [Next]_approvalVars => [Keeps]_approvalVars
  BY ReopenStep DEF TypeInv
<1>2. Spec => []ChainInv
  BY InitChainInv, NextChainInv, TypeInvariant, PTL DEF Spec
<1>3. Spec => [][Keeps]_approvalVars
  BY <1>1, <1>2, TypeInvariant, PTL DEF Spec
<1> QED
  BY <1>3 DEF StepsNeverReopen

-----------------------------------------------------------------------------
(* No decision is forgotten.                                               *)

\* A worker that is going to announce an outcome of request r: past the UPDATE
\* of a decision, it finds no step pending, finalises, and calls the handlers.
Reporting(w, r) == call[w].pc \in {"next", "finalise", "handlers"} /\ call[w].step[1] = r

Announced(r) == \E o \in Outcomes : <<r, o>> \in announced

\* A request that someone has decided on and that nothing is pending for.
Exhausted(r) == ~HasPendingStep(r) /\ \E s \in StepsOf(r) : step[s] \in Decided

ReportInv ==
    \A r \in Requests :
        Exhausted(r) => r \in died \/ Announced(r) \/ \E w \in Workers : Reporting(w, r)

\* Only a step that CreateRequest was told to skip is skipped.
SkipInv == \A s \in StepIds : step[s] = "skipped" => s[2] \in Skipped[s[1]]

\* Once no step of a request waits for its decision, the owner has heard of it,
\* or a worker is on the way to tell it, or a handler has died: the safety half
\* of DecidedIsAnnounced.
DecisionInHand ==
    \A r \in Requests :
        (\A s \in StepsOf(r) : step[s] \notin {"absent", "pending"}) =>
            r \in died \/ Announced(r) \/ \E w \in Workers : Reporting(w, r)

LEMMA InitReportInv == ApprovalInit => ReportInv /\ SkipInv
<1> SUFFICES ASSUME ApprovalInit PROVE ReportInv /\ SkipInv
  OBVIOUS
<1>1. \A s \in StepIds : step[s] = "absent"
  BY DEF ApprovalInit
<1> QED
  BY <1>1 DEF ReportInv, SkipInv, Exhausted, StepsOf, Decided

\* A step that exhausts no request keeps the invariant, when whoever was going
\* to announce an outcome goes on, has announced it or dies.
LEMMA ReportInvKept ==
    ASSUME ReportInv, died \subseteq died', announced \subseteq announced',
           \A r \in Requests : Exhausted(r)' => Exhausted(r),
           \A w \in Workers, r \in Requests :
               Exhausted(r)' /\ Reporting(w, r) =>
                   Reporting(w, r)' \/ r \in died' \/ Announced(r)'
    PROVE  ReportInv'
<1> SUFFICES ASSUME NEW r \in Requests, Exhausted(r)'
             PROVE  (r \in died \/ Announced(r) \/ \E w \in Workers : Reporting(w, r))'
  BY DEF ReportInv
<1>1. r \in died \/ Announced(r) \/ \E w \in Workers : Reporting(w, r)
  BY DEF ReportInv
<1>2. Announced(r) => Announced(r)'
  BY DEF Announced
<1> QED
  BY <1>1, <1>2

\* Nothing is exhausted by a step that leaves the rows of the steps alone.
LEMMA ExhaustedKept ==
    ASSUME UNCHANGED step, NEW r \in Requests
    PROVE  Exhausted(r)' <=> Exhausted(r)
  BY DEF Exhausted, HasPendingStep, StepsOf

\* A worker outside the three statements leaves the ones inside alone.
LEMMA ReportInvUntouched ==
    ASSUME ReportInv, UNCHANGED <<step, died, announced>>, NEW w \in Workers,
           call[w].pc \notin {"next", "finalise", "handlers"},
           \A v \in Workers \ {w} : call'[v] = call[v]
    PROVE  ReportInv'
<1>1. \A v \in Workers, r \in Requests : Reporting(v, r) => Reporting(v, r)'
  BY DEF Reporting
<1> QED
  BY <1>1, ExhaustedKept, ReportInvKept

LEMMA NextReportInv ==
    TypeInv /\ ChainInv /\ ReportInv /\ [Next]_approvalVars => ReportInv'
<1> SUFFICES ASSUME TypeOK, WorkerOK, ChainInv, ReportInv, [Next]_approvalVars
             PROVE  ReportInv'
  BY DEF TypeInv
<1>1. ASSUME UNCHANGED approvalVars PROVE ReportInv'
  BY <1>1 DEF approvalVars, ReportInv, Reporting, Announced, Exhausted, HasPendingStep,
              StepsOf
<1>2. ASSUME NEW w \in Workers, NEW r \in Requests, CreateRequest(w, r) PROVE ReportInv'
  BY <1>2, ReportInvUntouched DEF CreateRequest, Idle, TypeOK
<1>3. ASSUME NEW w \in Workers, InsertStep(w) PROVE ReportInv'
  <2> DEFINE s == call[w].step
  <2>1. s \in StepIds /\ call[w].pc = "insert"
    BY <1>3 DEF InsertStep, At, WorkerOK
  <2>2. step[s] = "absent"
    BY <2>1, StepIdFacts DEF ChainInv
  <2>3. /\ step'[s] \in {"pending", "skipped"}
        /\ \A t \in StepIds \ {s} : step'[t] = step[t]
    BY <1>3, <2>1 DEF InsertStep, TypeOK
  <2>4. \A r \in Requests : Exhausted(r)' => Exhausted(r)
    BY <2>2, <2>3 DEF Exhausted, HasPendingStep, StepsOf, Decided
  <2>5. \A v \in Workers \ {w} : call'[v] = call[v]
    BY <1>3 DEF InsertStep, Return, TypeOK
  <2>6. \A v \in Workers, r \in Requests : Reporting(v, r) => Reporting(v, r)'
    BY <2>1, <2>5 DEF Reporting
  <2>7. UNCHANGED <<died, announced>>
    BY <1>3 DEF InsertStep
  <2> QED
    BY <2>4, <2>6, <2>7, ReportInvKept
<1>4. ASSUME NEW w \in Workers, Decide(w) PROVE ReportInv'
  BY <1>4, ReportInvUntouched DEF Decide, ReadStep, Idle, TypeOK
<1>5. ASSUME NEW w \in Workers, Authorise(w) PROVE ReportInv'
  BY <1>5, ReportInvUntouched, GotoEffect DEF Authorise, At
<1>6. ASSUME NEW w \in Workers, Refuse(w) PROVE ReportInv'
  BY <1>6, ReportInvUntouched, ReturnEffect DEF Refuse, At
<1>7. ASSUME NEW w \in Workers, RecordStepDecision(w) PROVE ReportInv'
  <2> DEFINE s == call[w].step
  <2>1. s \in StepIds /\ s[1] \in Requests /\ call[w].pc = "record"
    BY <1>7, StepIdFacts DEF RecordStepDecision, At, WorkerOK
  <2>2. \A r \in Requests : r = s[1] => Reporting(w, r)'
    BY <1>7 DEF RecordStepDecision, Reporting, TypeOK, Calls
  <2>3. \A v \in Workers \ {w} : call'[v] = call[v]
    BY <1>7 DEF RecordStepDecision, TypeOK
  <2>4. UNCHANGED <<died, announced>>
    BY <1>7 DEF RecordStepDecision
  <2>5. \A t \in StepIds \ {s} : step'[t] = step[t]
    BY <1>7 DEF RecordStepDecision, TypeOK
  <2>6. \A r \in Requests \ {s[1]} : Exhausted(r)' => Exhausted(r)
    BY <2>5 DEF Exhausted, HasPendingStep, StepsOf
  <2>7. ASSUME NEW r \in Requests, Exhausted(r)', r # s[1]
        PROVE  (r \in died \/ Announced(r) \/ \E v \in Workers : Reporting(v, r))'
    <3>1. CASE r \in died \/ Announced(r)
      BY <2>4, <3>1 DEF Announced
    <3>2. CASE \E v \in Workers : Reporting(v, r)
      <4>1. PICK v \in Workers : Reporting(v, r)
        BY <3>2
      <4>2. v # w
        BY <2>1, <4>1 DEF Reporting
      <4> QED
        BY <2>3, <4>1, <4>2 DEF Reporting
    <3> QED
      BY <2>6, <2>7, <3>1, <3>2 DEF ReportInv
  <2>8. ASSUME NEW r \in Requests, Exhausted(r)', r = s[1]
        PROVE  (r \in died \/ Announced(r) \/ \E v \in Workers : Reporting(v, r))'
    BY <2>2, <2>8
  <2> SUFFICES ASSUME NEW r \in Requests, Exhausted(r)'
               PROVE  (r \in died \/ Announced(r) \/ \E v \in Workers : Reporting(v, r))'
    BY DEF ReportInv
  <2>9. CASE r = s[1]
    BY <2>8, <2>9
  <2>10. CASE r # s[1]
    BY <2>7, <2>10
  <2> QED
    BY <2>9, <2>10
<1>8. ASSUME NEW w \in Workers, NextPendingStep(w) PROVE ReportInv'
  <2>1. /\ UNCHANGED <<step, died, announced>>
        /\ call[w].pc = "next"
        /\ Goto(w, IF HasPendingStep(call[w].step[1]) THEN "progress" ELSE "finalise")
    BY <1>8 DEF NextPendingStep, At
  <2>2. \A v \in Workers, r \in Requests :
            Exhausted(r) /\ Reporting(v, r) => Reporting(v, r)'
    BY <2>1, GotoEffect DEF Reporting, Exhausted
  <2> QED
    BY <2>1, <2>2, ExhaustedKept, ReportInvKept
<1>9. ASSUME NEW w \in Workers, MarkInProgress(w) PROVE ReportInv'
  BY <1>9, ReportInvUntouched, ReturnEffect DEF MarkInProgress, At
<1>10. ASSUME NEW w \in Workers, Finalise(w) PROVE ReportInv'
  <2>1. UNCHANGED <<step, died, announced>> /\ Goto(w, "handlers")
    BY <1>10 DEF Finalise
  <2>2. \A v \in Workers, r \in Requests : Reporting(v, r) => Reporting(v, r)'
    BY <2>1, GotoEffect DEF Reporting
  <2> QED
    BY <2>1, <2>2, ExhaustedKept, ReportInvKept
<1>11. ASSUME NEW w \in Workers, FireHandlers(w) PROVE ReportInv'
  <2>1. /\ UNCHANGED <<step, died>>
        /\ announced' = announced \cup {<<call[w].step[1], call[w].out>>}
        /\ Return(w)
        /\ call[w].out \in Outcomes
    BY <1>11 DEF FireHandlers, TypeOK, Calls
  <2>2. \A v \in Workers, r \in Requests :
            Reporting(v, r) => Reporting(v, r)' \/ Announced(r)'
    BY <2>1, ReturnEffect DEF Reporting, Announced
  <2> QED
    BY <2>1, <2>2, ExhaustedKept, ReportInvKept
<1>12. ASSUME NEW w \in Workers, Abort(w) PROVE ReportInv'
  <2>1. /\ UNCHANGED <<step, announced>>
        /\ died' = died \cup {call[w].step[1]}
        /\ Return(w)
    BY <1>12 DEF Abort
  <2>2. \A v \in Workers, r \in Requests :
            Reporting(v, r) => Reporting(v, r)' \/ r \in died'
    BY <2>1, ReturnEffect DEF Reporting
  <2> QED
    BY <2>1, <2>2, ExhaustedKept, ReportInvKept
<1> QED
  BY <1>1, <1>2, <1>3, <1>4, <1>5, <1>6, <1>7, <1>8, <1>9, <1>10, <1>11, <1>12
  DEF Next, Continue

LEMMA NextSkipInv == TypeInv /\ SkipInv /\ [Next]_approvalVars => SkipInv'
<1> SUFFICES ASSUME TypeOK, WorkerOK, SkipInv, [Next]_approvalVars, NEW s \in StepIds,
                    step'[s] = "skipped"
             PROVE  s[2] \in Skipped[s[1]]
  BY DEF TypeInv, SkipInv
<1>1. ASSUME NEW w \in Workers, InsertStep(w) PROVE s[2] \in Skipped[s[1]]
  BY <1>1 DEF InsertStep, SkipInv, TypeOK
<1>2. ASSUME NEW w \in Workers, RecordStepDecision(w) PROVE s[2] \in Skipped[s[1]]
  <2>1. StatusAfter(call[w].act) \in Decided
    BY StatusAfterTyped DEF TypeOK, Calls
  <2>2. step[s] = "skipped"
    BY <1>2, <2>1 DEF RecordStepDecision, TypeOK, Decided
  <2> QED
    BY <2>2 DEF SkipInv
<1>3. \/ UNCHANGED step
      \/ \E w \in Workers : InsertStep(w)
      \/ \E w \in Workers : RecordStepDecision(w)
  BY DEF Next, Continue, Decide, CreateRequest, ReadStep, Authorise, Refuse,
         NextPendingStep, MarkInProgress, Finalise, FireHandlers, Abort, approvalVars
<1> QED
  BY <1>1, <1>2, <1>3 DEF SkipInv

\* A request of which no step is absent or pending has a decided one, for no
\* caller skips all of them.
LEMMA AllDecidedExhausted ==
    ASSUME TypeOK, SkipInv, NEW r \in Requests,
           \A s \in StepsOf(r) : step[s] \notin {"absent", "pending"}
    PROVE  Exhausted(r)
<1>1. PICK i \in DOMAIN Route[r] : i \notin Skipped[r]
  BY RouteAssumption
<1>2. Route[r] \in Seq(Positions)
  BY RouteAssumption
<1>3. <<r, i>> \in StepIds
  BY <1>1, <1>2, StepIdIntro
<1>4. step[<<r, i>>] \notin {"absent", "pending", "skipped"}
  BY <1>1, <1>3 DEF StepsOf, SkipInv
<1>5. step[<<r, i>>] \in Decided
  BY <1>3, <1>4 DEF TypeOK
<1> QED
  BY <1>3, <1>5 DEF Exhausted, HasPendingStep, StepsOf

LEMMA ChainHolds == Spec => []ChainInv
<1> QED
  BY InitChainInv, NextChainInv, TypeInvariant, PTL DEF Spec

\* When all steps of a request are decided, its outcome has been announced, or
\* a worker that will announce it is at work, or a handler has died.  Of two
\* approvers who decide the last two steps at once neither can leave it to the
\* other, for each writes its own step before it looks for pending ones.
THEOREM DecisionNotForgotten == Spec => []DecisionInHand
<1>1. TypeInv /\ SkipInv /\ ReportInv => DecisionInHand
  BY AllDecidedExhausted DEF TypeInv, ReportInv, DecisionInHand
<1> QED
  BY InitReportInv, NextReportInv, NextSkipInv, ChainHolds, TypeInvariant, <1>1, PTL
  DEF Spec

=============================================================================

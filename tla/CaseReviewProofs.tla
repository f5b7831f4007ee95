-------------------------- MODULE CaseReviewProofs --------------------------
(***************************************************************************)
(* Proofs about CaseReview, for any number of cases, requests, approvers,  *)
(* workers and calls of compliance and finance.                            *)
(*                                                                         *)
(* The argument.  A step of the composition is a step of the approval core *)
(* or leaves the core alone (RefinesCore), so what ApprovalProofs proves   *)
(* holds here too; the invariants below say what the case adds.  A client  *)
(* is activated by the core's terminal event, which an approval backs      *)
(* (OutcomeInv), or by FinalizeCase, whose read needs pending_finance,     *)
(* and that compliance alone writes (FinanceInv).  The state in_review is  *)
(* written after CreateRequest has returned, and a step row never goes     *)
(* away (AdvanceInv).  The handlers lose nothing but by dying:             *)
(* a submitted case is in a submission's hands (SubmittedInHand) and a     *)
(* fully approved request in an approver's (ApprovalInHand).               *)
(***************************************************************************)
EXTENDS CaseReview, ApprovalProofs

\* A submission knows the request it opens.
Submitting(w) == Doing(w, "open") \/ Doing(w, "advance")

TaskInv ==
    \A w \in Workers :
        Submitting(w) => task[w].req \in Requests /\ CaseOf[task[w].req] = task[w].case

\* Decisions are made on requests that have been opened.
OpenedInv == \A d \in decisions : reqStatus[d.step[1]] # "none"

\* Between CreateRequest and UpdateCaseState: the rows inserted so far.
ChainSoFar(w, r) ==
    \A s \in StepsOf(r) : step[s] # "absent" \/ (~Idle(w) /\ s[2] >= call[w].step[2])

AdvanceInv ==
    \A w \in Workers : Doing(w, "advance") =>
        /\ reqStatus[task[w].req] # "none"
        /\ ~Idle(w) => At(w, "insert") /\ call[w].step[1] = task[w].req
        /\ ChainSoFar(w, task[w].req)

\* Finance finalises what compliance has approved.
FinanceInv ==
    /\ \A c \in Cases :
           caseState[c] = "pending_finance" => "compliance_approved" \in chronicle[c]
    /\ \A w \in Workers :
           Doing(w, "finalise") => "compliance_approved" \in chronicle[task[w].case]

\* What the core has announced as approved has activated the client.
EventInv ==
    \A r \in Requests : <<r, "approved">> \in announced => client[CaseOf[r]] = "active"

\* A case does not wait in "submitted" unless a submission is at work on it or
\* stalled.
SubmittedInHand ==
    \A c \in Cases : caseState[c] = "submitted" =>
        c \in stalled \/ \E w \in Workers : Submitting(w) /\ task[w].case = c

AllApproved(r) == \A s \in StepsOf(r) : step[s] = "approved"

\* A request of which every step is approved has activated its client, or a
\* worker that will do so is at work, or a handler has died.
ApprovalInHand ==
    \A r \in Requests : AllApproved(r) =>
        \/ client[CaseOf[r]] = "active" \/ r \in died
        \/ \E w \in Workers : Reporting(w, r) /\ call[w].out = "approved"

\* The types of the case's own variables.
CaseStates == Reviewable \cup {"draft", "pending_finance", "approved", "rejected"}
CaseEvents == {"compliance_approved", "rejected", "reopened", "finalized"}
TaskLabels == {"idle", "open", "advance", "flag", "approve", "reject", "reopen", "finalise"}
TaskType == [pc : TaskLabels, case : Cases, req : Requests \cup {NoRequest}]

CaseTypes ==
    /\ caseState \in [Cases -> CaseStates]
    /\ riskFlag \in [Cases -> BOOLEAN]
    /\ check \in [Cases -> [CheckTypes -> {"none", "pass", "fail", "needs_info"}]]
    /\ client \in [Cases -> {"prospect", "active"}]
    /\ task \in [Workers -> TaskType]
    /\ chronicle \in [Cases -> SUBSET CaseEvents]
    /\ stalled \subseteq Cases
    /\ reviews \in 0 .. MaxReviews

CoreInv == TypeInv /\ ChainInv /\ OutcomeInv

CaseInv ==
    /\ ReviewTypeOK /\ TaskInv /\ OpenedInv
    /\ AdvanceInv /\ InReviewHasChain
    /\ FinanceInv /\ ActivationHasCause /\ EventInv
    /\ SubmittedInHand /\ ApprovalInHand

-----------------------------------------------------------------------------
\* The four handlers that begin with a read of the state.
Reads(w, c) ==
    \/ ReadForApprove(w, c) \/ ReadForReject(w, c)
    \/ ReadForReopen(w, c) \/ ReadForFinalize(w, c)

\* What a worker is busy with when it holds a task or a call.
LEMMA NoTaskTyped == NoTask.pc = "idle" /\ NoTask.case \in Cases /\ NoTask.req = NoRequest
  BY ReviewAssumption DEF NoTask

LEMMA TaskLocals ==
    ASSUME ReviewTypeOK, NEW w \in Workers
    PROVE  task[w].case \in Cases /\ task[w].req \in Requests \cup {NoRequest}
  BY DEF ReviewTypeOK

LEMMA CallLocals ==
    ASSUME TypeInv, NEW w \in Workers, ~Idle(w)
    PROVE  /\ call[w].step \in StepIds /\ call[w].step[1] \in Requests
           /\ CaseOf[call[w].step[1]] \in Cases /\ call[w].out \in Outcomes
  BY StepIdFacts, ReviewAssumption DEF TypeInv, TypeOK, WorkerOK, Idle, Calls

\* Beginning and finishing keep a task's type, and SetState the state's.
LEMMA TaskTyped ==
    ASSUME CaseTypes, NEW w \in Workers
    PROVE  /\ Finish(w) => task' \in [Workers -> TaskType]
           /\ \A label \in TaskLabels, c \in Cases, r \in Requests \cup {NoRequest} :
                  Begin(w, label, c, r) => task' \in [Workers -> TaskType]
           /\ task[w].case \in Cases /\ task[w].req \in Requests \cup {NoRequest}
  <1>1. NoTask \in TaskType
    BY NoTaskTyped DEF NoTask, TaskType, TaskLabels
  <1>2. Finish(w) => task' \in [Workers -> TaskType]
    BY <1>1 DEF CaseTypes, Finish
  <1>3. ASSUME NEW label \in TaskLabels, NEW c \in Cases,
               NEW r \in Requests \cup {NoRequest}, Begin(w, label, c, r)
        PROVE  task' \in [Workers -> TaskType]
    <2>1. [pc |-> label, case |-> c, req |-> r] \in TaskType
      BY DEF TaskType
    <2>. QED
      BY <1>3, <2>1 DEF CaseTypes, Begin
  <1>4. task[w].case \in Cases /\ task[w].req \in Requests \cup {NoRequest}
    BY DEF CaseTypes, TaskType
  <1>. QED
    BY <1>2, <1>3, <1>4

LEMMA StateTyped ==
    ASSUME CaseTypes, NEW c \in Cases, NEW x \in CaseStates, SetState(c, x)
    PROVE  caseState' \in [Cases -> CaseStates]
  BY DEF CaseTypes, SetState

LEMMA CountTyped == CaseTypes /\ CountReview => reviews' \in 0 .. MaxReviews
  BY ReviewAssumption DEF CaseTypes, CountReview

\* How a worker's task changes.
LEMMA TaskMoves ==
    ASSUME ReviewTypeOK, NEW w \in Workers
    PROVE  /\ Finish(w) => \A v \in Workers : task'[v] = IF v = w THEN NoTask ELSE task[v]
           /\ \A label, c, r : Begin(w, label, c, r) =>
                  \A v \in Workers : task'[v] = IF v = w
                                                THEN [pc |-> label, case |-> c, req |-> r]
                                                ELSE task[v]
  BY DEF ReviewTypeOK, Finish, Begin

-----------------------------------------------------------------------------
(* The composition and the approval core.                                  *)

\* Every step of the composition is a step of the core or leaves the core alone.
LEMMA RefinesCore == TaskInv /\ [ReviewNext]_reviewVars => [Next]_approvalVars
  <1> SUFFICES ASSUME TaskInv, [ReviewNext]_reviewVars PROVE [Next]_approvalVars
    OBVIOUS
  <1>1. ASSUME NEW w \in Workers, CoreStep(w) PROVE Next
    BY <1>1 DEF CoreStep, Next
  <1>2. ASSUME NEW w \in Workers, TerminalEvent(w) PROVE Next
    BY <1>2 DEF TerminalEvent, Next
  <1>3. ASSUME NEW w \in Workers, OpenRequest(w) PROVE Next
    BY <1>3 DEF OpenRequest, TaskInv, Submitting, Next
  <1>4. ASSUME NEW w \in Workers,
               \/ RoutingFails(w) \/ AdvanceToReview(w) \/ RaiseRiskFlag(w)
               \/ ApproveCase(w) \/ RejectCase(w) \/ ReopenCase(w) \/ FinalizeCase(w)
        PROVE  UNCHANGED approvalVars
    BY <1>4 DEF RoutingFails, AdvanceToReview, RaiseRiskFlag, ApproveCase, RejectCase,
                ReopenCase, FinalizeCase, WriteState
  <1>5. ASSUME NEW w \in Workers, NEW r \in Requests, SubmitCase(w, r)
        PROVE  UNCHANGED approvalVars
    BY <1>5 DEF SubmitCase
  <1>6. ASSUME NEW w \in Workers, NEW c \in Cases, ReviewCall(w, c)
        PROVE  UNCHANGED approvalVars
    BY <1>6 DEF ReviewCall, RecordCheck, ReadForApprove, ReadForReject, ReadForReopen,
                ReadForFinalize, ReadState, ReturnCaseToWM
  <1>7. ASSUME NEW w \in Workers, Die(w) PROVE [Next]_approvalVars
    BY <1>7 DEF Die, Next
  <1>8. CASE UNCHANGED reviewVars
    BY <1>8 DEF reviewVars
  <1>. QED
    BY <1>1, <1>2, <1>3, <1>4, <1>5, <1>6, <1>7, <1>8 DEF ReviewNext, Run

LEMMA CoreStepInv ==
    CoreInv /\ TaskInv /\ [ReviewNext]_reviewVars => CoreInv'
  BY RefinesCore, NextTypeInv, NextChainInv, NextOutcomeInv DEF CoreInv

LEMMA CoreTypes ==
    ASSUME CoreInv, [Next]_approvalVars
    PROVE  TypeOK' /\ WorkerOK'
  BY NextTypeInv DEF CoreInv, TypeInv

\* What the core never takes back.
LEMMA CoreGrows ==
    ASSUME CoreInv, [Next]_approvalVars
    PROVE  /\ decisions \subseteq decisions' /\ announced \subseteq announced'
           /\ died \subseteq died'
           /\ \A r \in Requests : reqStatus[r] # "none" => reqStatus'[r] # "none"
           /\ \A x \in StepIds : step[x] # "absent" => step'[x] # "absent"
  <1> USE DEF CoreInv, TypeInv, TypeOK
  <1>1. ASSUME NEW w \in Workers, NEW r \in Requests, CreateRequest(w, r)
        PROVE  \A q \in Requests : reqStatus[q] # "none" => reqStatus'[q] # "none"
    BY <1>1 DEF CreateRequest
  <1>2. ASSUME NEW w \in Workers, MarkInProgress(w)
        PROVE  \A q \in Requests : reqStatus[q] # "none" => reqStatus'[q] # "none"
    BY <1>2 DEF MarkInProgress
  <1>3. ASSUME NEW w \in Workers, Finalise(w)
        PROVE  \A q \in Requests : reqStatus[q] # "none" => reqStatus'[q] # "none"
    <2>1. call[w].out # "none"
      BY DEF Calls, Outcomes
    <2>. QED
      BY <1>3, <2>1 DEF Finalise
  <1>4. ASSUME NEW w \in Workers, InsertStep(w)
        PROVE  \A x \in StepIds : step[x] # "absent" => step'[x] # "absent"
    BY <1>4 DEF InsertStep
  <1>5. ASSUME NEW w \in Workers, RecordStepDecision(w)
        PROVE  \A x \in StepIds : step[x] # "absent" => step'[x] # "absent"
    <2>1. StatusAfter(call[w].act) # "absent"
      BY StatusAfterTyped DEF Calls, Decided
    <2>. QED
      BY <1>5, <2>1 DEF RecordStepDecision
  <1>6. \/ UNCHANGED reqStatus
        \/ \E w \in Workers : \/ \E r \in Requests : CreateRequest(w, r)
                              \/ MarkInProgress(w) \/ Finalise(w)
    BY DEF Next, Continue, Decide, InsertStep, ReadStep, Authorise, Refuse,
           RecordStepDecision, NextPendingStep, FireHandlers, Abort, approvalVars
  <1>7. UNCHANGED step \/ \E w \in Workers : InsertStep(w) \/ RecordStepDecision(w)
    BY DEF Next, Continue, Decide, CreateRequest, ReadStep, Authorise, Refuse,
           NextPendingStep, MarkInProgress, Finalise, FireHandlers, Abort, approvalVars
  <1>8. /\ decisions \subseteq decisions' /\ announced \subseteq announced'
        /\ died \subseteq died'
    BY DEF Next, Continue, Decide, CreateRequest, InsertStep, ReadStep, Authorise, Refuse,
           RecordStepDecision, NextPendingStep, MarkInProgress, Finalise, FireHandlers,
           Abort, approvalVars
  <1>. QED
    BY <1>1, <1>2, <1>3, <1>4, <1>5, <1>6, <1>7, <1>8

-----------------------------------------------------------------------------
(* One lemma per conjunct of the invariant.                                *)

LEMMA TaskStep == ReviewTypeOK /\ TaskInv /\ [ReviewNext]_reviewVars => TaskInv'
  <1> SUFFICES ASSUME ReviewTypeOK, TaskInv, [ReviewNext]_reviewVars PROVE TaskInv'
    OBVIOUS
  <1> USE DEF ReviewTypeOK, TaskInv, Submitting, Doing
  <1>1. ASSUME NEW w \in Workers, CoreStep(w) PROVE TaskInv'
    BY <1>1 DEF CoreStep, caseVars
  <1>2. ASSUME NEW w \in Workers, TerminalEvent(w) PROVE TaskInv'
    BY <1>2 DEF TerminalEvent, HandleApprovalEvent, SetState
  <1>3. ASSUME NEW w \in Workers, OpenRequest(w) PROVE TaskInv'
    BY <1>3 DEF OpenRequest, Begin
  <1>4. ASSUME NEW w \in Workers, RoutingFails(w) PROVE TaskInv'
    BY <1>4, NoTaskTyped DEF RoutingFails, Finish
  <1>5. ASSUME NEW w \in Workers, AdvanceToReview(w) PROVE TaskInv'
    BY <1>5, NoTaskTyped DEF AdvanceToReview, SetState, Finish
  <1>6. ASSUME NEW w \in Workers, RaiseRiskFlag(w) PROVE TaskInv'
    BY <1>6, NoTaskTyped DEF RaiseRiskFlag, Finish
  <1>7. ASSUME NEW w \in Workers, ApproveCase(w) \/ RejectCase(w) \/ ReopenCase(w)
        PROVE  TaskInv'
    BY <1>7, NoTaskTyped
       DEF ApproveCase, RejectCase, ReopenCase, WriteState, SetState, Finish
  <1>8. ASSUME NEW w \in Workers, FinalizeCase(w) PROVE TaskInv'
    BY <1>8, NoTaskTyped DEF FinalizeCase, WriteState, SetState, Finish
  <1>9. ASSUME NEW w \in Workers, NEW r \in Requests, SubmitCase(w, r) PROVE TaskInv'
    BY <1>9 DEF SubmitCase, SetState, Begin
  <1>10. ASSUME NEW w \in Workers, NEW c \in Cases, NEW t \in CheckTypes,
                NEW outcome \in CheckOutcomes, RecordCheck(w, c, t, outcome)
        PROVE  TaskInv'
    <2>1. CASE Begin(w, "flag", c, NoRequest)
      BY <2>1 DEF Begin
    <2>2. CASE UNCHANGED task
      BY <2>2
    <2>. QED
      BY <1>10, <2>1, <2>2 DEF RecordCheck
  <1>11. ASSUME NEW w \in Workers, NEW c \in Cases, Reads(w, c) PROVE TaskInv'
    BY <1>11
       DEF Reads, ReadForApprove, ReadForReject, ReadForReopen, ReadForFinalize,
           ReadState, Begin
  <1>12. ASSUME NEW w \in Workers, NEW c \in Cases, ReturnCaseToWM(w, c) PROVE TaskInv'
    BY <1>12 DEF ReturnCaseToWM, SetState
  <1>13. ASSUME NEW w \in Workers, Die(w) PROVE TaskInv'
    BY <1>13, NoTaskTyped DEF Die, Finish
  <1>14. CASE UNCHANGED reviewVars
    BY <1>14 DEF reviewVars, caseVars, approvalVars
  <1>. QED
    BY <1>1, <1>2, <1>3, <1>4, <1>5, <1>6, <1>7, <1>8, <1>9, <1>10, <1>11, <1>12,
       <1>13, <1>14
       DEF ReviewNext, Run, ReviewCall, Reads

LEMMA CaseTypesStep == CaseTypes /\ CoreInv /\ [ReviewNext]_reviewVars => CaseTypes'
  <1> SUFFICES ASSUME CaseTypes, CoreInv, [ReviewNext]_reviewVars PROVE CaseTypes'
    OBVIOUS
  <1> USE DEF CaseTypes
  <1>1. ASSUME NEW w \in Workers, CoreStep(w) PROVE CaseTypes'
    BY <1>1 DEF CoreStep, caseVars
  <1>2. ASSUME NEW w \in Workers, TerminalEvent(w) PROVE CaseTypes'
    <2>1. call[w].step[1] \in Requests /\ CaseOf[call[w].step[1]] \in Cases
      BY <1>2, CallLocals DEF TerminalEvent, FireHandlers, At, Idle, CoreInv
    <2>2. call[w].out \in {"approved", "rejected", "returned"}
      BY <1>2, CallLocals DEF TerminalEvent, FireHandlers, At, Idle, CoreInv, Outcomes
    <2>3. caseState' \in [Cases -> CaseStates]
      BY <1>2, <2>1, <2>2, StateTyped
         DEF TerminalEvent, HandleApprovalEvent, CaseStates, Reviewable
    <2>4. client' \in [Cases -> {"prospect", "active"}]
      BY <1>2, <2>1 DEF TerminalEvent, HandleApprovalEvent
    <2>. QED
      BY <1>2, <2>1, <2>2, <2>3, <2>4 DEF TerminalEvent
  <1>3. ASSUME NEW w \in Workers, OpenRequest(w) PROVE CaseTypes'
    <2>1. task' \in [Workers -> TaskType]
      BY <1>3, TaskTyped DEF OpenRequest, TaskLabels
    <2>. QED
      BY <1>3, <2>1 DEF OpenRequest
  <1>4. ASSUME NEW w \in Workers, RoutingFails(w) PROVE CaseTypes'
    <2>1. task' \in [Workers -> TaskType]
      BY <1>4, TaskTyped DEF RoutingFails
    <2>2. stalled' \subseteq Cases
      BY <1>4, TaskTyped DEF RoutingFails
    <2>. QED
      BY <1>4, <2>1, <2>2 DEF RoutingFails
  <1>5. ASSUME NEW w \in Workers, AdvanceToReview(w) PROVE CaseTypes'
    <2>1. task' \in [Workers -> TaskType]
      BY <1>5, TaskTyped DEF AdvanceToReview
    <2>2. caseState' \in [Cases -> CaseStates]
      BY <1>5, TaskTyped, StateTyped
         DEF AdvanceToReview, CaseStates, Reviewable
    <2>. QED
      BY <1>5, <2>1, <2>2 DEF AdvanceToReview
  <1>6. ASSUME NEW w \in Workers, RaiseRiskFlag(w) PROVE CaseTypes'
    <2>1. task' \in [Workers -> TaskType]
      BY <1>6, TaskTyped DEF RaiseRiskFlag
    <2>2. riskFlag' \in [Cases -> BOOLEAN]
      BY <1>6, TaskTyped DEF RaiseRiskFlag
    <2>. QED
      BY <1>6, <2>1, <2>2 DEF RaiseRiskFlag
  <1>7. ASSUME NEW w \in Workers, ApproveCase(w) \/ RejectCase(w) \/ ReopenCase(w)
        PROVE  CaseTypes'
    <2>1. task' \in [Workers -> TaskType]
      BY <1>7, TaskTyped DEF ApproveCase, RejectCase, ReopenCase, WriteState
    <2>2. caseState' \in [Cases -> CaseStates]
      BY <1>7, TaskTyped, StateTyped
         DEF ApproveCase, RejectCase, ReopenCase, WriteState, CaseStates, Reviewable
    <2>3. chronicle' \in [Cases -> SUBSET CaseEvents]
      BY <1>7, TaskTyped DEF ApproveCase, RejectCase, ReopenCase, WriteState, CaseEvents
    <2>. QED
      BY <1>7, <2>1, <2>2, <2>3 DEF ApproveCase, RejectCase, ReopenCase, WriteState
  <1>8. ASSUME NEW w \in Workers, FinalizeCase(w) PROVE CaseTypes'
    <2>1. task' \in [Workers -> TaskType]
      BY <1>8, TaskTyped DEF FinalizeCase, WriteState
    <2>2. caseState' \in [Cases -> CaseStates]
      BY <1>8, TaskTyped, StateTyped
         DEF FinalizeCase, WriteState, CaseStates, Reviewable
    <2>3. chronicle' \in [Cases -> SUBSET CaseEvents]
      BY <1>8, TaskTyped DEF FinalizeCase, WriteState, CaseEvents
    <2>4. client' \in [Cases -> {"prospect", "active"}]
      BY <1>8, TaskTyped DEF FinalizeCase
    <2>. QED
      BY <1>8, <2>1, <2>2, <2>3, <2>4 DEF FinalizeCase, WriteState
  <1>9. ASSUME NEW w \in Workers, NEW r \in Requests, SubmitCase(w, r) PROVE CaseTypes'
    <2>1. task' \in [Workers -> TaskType]
      BY <1>9, TaskTyped, ReviewAssumption DEF SubmitCase, TaskLabels
    <2>2. caseState' \in [Cases -> CaseStates]
      BY <1>9, ReviewAssumption, StateTyped DEF SubmitCase, CaseStates, Reviewable
    <2>. QED
      BY <1>9, <2>1, <2>2 DEF SubmitCase
  <1>10. ASSUME NEW w \in Workers, NEW c \in Cases, NEW t \in CheckTypes,
                NEW outcome \in CheckOutcomes, RecordCheck(w, c, t, outcome)
        PROVE  CaseTypes'
    <2>1. task' \in [Workers -> TaskType]
      BY <1>10, TaskTyped DEF RecordCheck, TaskLabels
    <2>2. reviews' \in 0 .. MaxReviews
      BY <1>10, CountTyped DEF RecordCheck
    <2>3. check' \in [Cases -> [CheckTypes -> {"none", "pass", "fail", "needs_info"}]]
      BY <1>10, ReviewAssumption DEF RecordCheck
    <2>. QED
      BY <1>10, <2>1, <2>2, <2>3 DEF RecordCheck
  <1>11. ASSUME NEW w \in Workers, NEW c \in Cases, Reads(w, c) PROVE CaseTypes'
    <2>1. task' \in [Workers -> TaskType]
      BY <1>11, TaskTyped DEF Reads, ReadForApprove, ReadForReject, ReadForReopen,
             ReadForFinalize, ReadState, TaskLabels
    <2>2. reviews' \in 0 .. MaxReviews
      BY <1>11, CountTyped DEF Reads, ReadForApprove, ReadForReject, ReadForReopen,
             ReadForFinalize, ReadState
    <2>. QED
      BY <1>11, <2>1, <2>2 DEF Reads, ReadForApprove, ReadForReject, ReadForReopen,
             ReadForFinalize, ReadState
  <1>12. ASSUME NEW w \in Workers, NEW c \in Cases, ReturnCaseToWM(w, c) PROVE CaseTypes'
    <2>1. caseState' \in [Cases -> CaseStates]
      BY <1>12, TaskTyped, StateTyped
         DEF ReturnCaseToWM, CaseStates, Reviewable
    <2>2. reviews' \in 0 .. MaxReviews
      BY <1>12, CountTyped DEF ReturnCaseToWM
    <2>. QED
      BY <1>12, <2>1, <2>2 DEF ReturnCaseToWM
  <1>13. ASSUME NEW w \in Workers, Die(w) PROVE CaseTypes'
    <2>1. task' \in [Workers -> TaskType]
      BY <1>13, TaskTyped DEF Die
    <2>2. stalled' \subseteq Cases
      BY <1>13, TaskTyped DEF Die
    <2>. QED
      BY <1>13, <2>1, <2>2 DEF Die
  <1>14. CASE UNCHANGED reviewVars
    BY <1>14 DEF reviewVars, caseVars, approvalVars
  <1>. QED
    BY <1>1, <1>2, <1>3, <1>4, <1>5, <1>6, <1>7, <1>8, <1>9, <1>10, <1>11, <1>12,
       <1>13, <1>14
       DEF ReviewNext, Run, ReviewCall, Reads

LEMMA FinanceStep ==
    ReviewTypeOK /\ CoreInv /\ FinanceInv /\ [ReviewNext]_reviewVars => FinanceInv'
  <1> SUFFICES ASSUME ReviewTypeOK, CoreInv, FinanceInv, [ReviewNext]_reviewVars
               PROVE  FinanceInv'
    OBVIOUS
  <1> USE DEF ReviewTypeOK, FinanceInv, Doing
  <1>1. ASSUME NEW w \in Workers, CoreStep(w) PROVE FinanceInv'
    BY <1>1 DEF CoreStep, caseVars
  <1>2. ASSUME NEW w \in Workers, TerminalEvent(w) PROVE FinanceInv'
    BY <1>2, CallLocals
       DEF TerminalEvent, HandleApprovalEvent, SetState, CoreInv, FireHandlers, At,
           Idle, Outcomes
  <1>3. ASSUME NEW w \in Workers, OpenRequest(w) PROVE FinanceInv'
    BY <1>3 DEF OpenRequest, Begin
  <1>4. ASSUME NEW w \in Workers, RoutingFails(w) PROVE FinanceInv'
    BY <1>4, NoTaskTyped DEF RoutingFails, Finish
  <1>5. ASSUME NEW w \in Workers, AdvanceToReview(w) PROVE FinanceInv'
    BY <1>5, NoTaskTyped DEF AdvanceToReview, SetState, Finish
  <1>6. ASSUME NEW w \in Workers, RaiseRiskFlag(w) PROVE FinanceInv'
    BY <1>6, NoTaskTyped DEF RaiseRiskFlag, Finish
  <1>7. ASSUME NEW w \in Workers, ApproveCase(w) \/ RejectCase(w) \/ ReopenCase(w)
        PROVE  FinanceInv'
    <2>1. CASE ApproveCase(w)
      BY <2>1, NoTaskTyped DEF ApproveCase, WriteState, SetState, Finish
    <2>2. CASE RejectCase(w)
      BY <2>2, NoTaskTyped DEF RejectCase, WriteState, SetState, Finish
    <2>3. CASE ReopenCase(w)
      BY <2>3, NoTaskTyped DEF ReopenCase, WriteState, SetState, Finish
    <2>. QED
      BY <1>7, <2>1, <2>2, <2>3
  <1>8. ASSUME NEW w \in Workers, FinalizeCase(w) PROVE FinanceInv'
    BY <1>8, NoTaskTyped DEF FinalizeCase, WriteState, SetState, Finish
  <1>9. ASSUME NEW w \in Workers, NEW r \in Requests, SubmitCase(w, r) PROVE FinanceInv'
    BY <1>9 DEF SubmitCase, SetState, Begin
  <1>10. ASSUME NEW w \in Workers, NEW c \in Cases, NEW t \in CheckTypes,
                NEW outcome \in CheckOutcomes, RecordCheck(w, c, t, outcome)
        PROVE  FinanceInv'
    <2>1. UNCHANGED <<caseState, chronicle>>
      BY <1>10 DEF RecordCheck
    <2>2. CASE Begin(w, "flag", c, NoRequest)
      BY <2>1, <2>2 DEF Begin
    <2>3. CASE UNCHANGED task
      BY <2>1, <2>3
    <2>. QED
      BY <1>10, <2>2, <2>3 DEF RecordCheck
  <1>11. ASSUME NEW w \in Workers, NEW c \in Cases, Reads(w, c) PROVE FinanceInv'
    <2>1. UNCHANGED <<caseState, chronicle>>
      BY <1>11 DEF Reads, ReadForApprove, ReadForReject, ReadForReopen, ReadForFinalize,
               ReadState
    <2>2. CASE ReadForFinalize(w, c)
      BY <2>1, <2>2 DEF ReadForFinalize, ReadState, Begin
    <2>3. CASE ReadForApprove(w, c)
      BY <2>1, <2>3 DEF ReadForApprove, ReadState, Begin
    <2>4. CASE ReadForReject(w, c)
      BY <2>1, <2>4 DEF ReadForReject, ReadState, Begin
    <2>5. CASE ReadForReopen(w, c)
      BY <2>1, <2>5 DEF ReadForReopen, ReadState, Begin
    <2>. QED
      BY <1>11, <2>2, <2>3, <2>4, <2>5 DEF Reads
  <1>12. ASSUME NEW w \in Workers, NEW c \in Cases, ReturnCaseToWM(w, c)
        PROVE  FinanceInv'
    BY <1>12 DEF ReturnCaseToWM, SetState
  <1>13. ASSUME NEW w \in Workers, Die(w) PROVE FinanceInv'
    BY <1>13, NoTaskTyped DEF Die, Finish
  <1>14. CASE UNCHANGED reviewVars
    BY <1>14 DEF reviewVars, caseVars, approvalVars
  <1>. QED
    BY <1>1, <1>2, <1>3, <1>4, <1>5, <1>6, <1>7, <1>8, <1>9, <1>10, <1>11, <1>12,
       <1>13, <1>14
       DEF ReviewNext, Run, ReviewCall, Reads

LEMMA ReviewTypes == ReviewTypeOK <=> TypeOK /\ CaseTypes
  BY DEF ReviewTypeOK, CaseTypes, CaseStates, CaseEvents, TaskType, TaskLabels

LEMMA OpenedStep == CoreInv /\ OpenedInv /\ [Next]_approvalVars => OpenedInv'
  <1> SUFFICES ASSUME CoreInv, OpenedInv, [Next]_approvalVars PROVE OpenedInv'
    OBVIOUS
  <1> USE DEF CoreInv, TypeInv, TypeOK
  <1>1. \A d \in decisions : d.step[1] \in Requests
    BY StepIdFacts
  <1>2. ASSUME NEW w \in Workers, RecordStepDecision(w)
        PROVE  \A d \in decisions' : d \in decisions \/ reqStatus[d.step[1]] # "none"
    <2>1. call[w].step \in StepIds /\ call[w].pc = "record"
      BY <1>2 DEF RecordStepDecision, At, WorkerOK
    <2>2. step[call[w].step] # "absent"
      BY <2>1 DEF ChainInv, Decided
    <2>3. reqStatus[call[w].step[1]] # "none"
      BY <2>1, <2>2 DEF ChainInv
    <2>. QED
      BY <1>2, <2>3 DEF RecordStepDecision
  <1>3. UNCHANGED decisions \/ \E w \in Workers : RecordStepDecision(w)
    BY DEF Next, Continue, Decide, CreateRequest, InsertStep, ReadStep, Authorise, Refuse,
           NextPendingStep, MarkInProgress, Finalise, FireHandlers, Abort, approvalVars
  <1>4. \A d \in decisions' : d \in decisions \/ reqStatus[d.step[1]] # "none"
    BY <1>2, <1>3
  <1>5. \A d \in decisions' : d.step[1] \in Requests
    BY <1>4, CoreTypes, StepIdFacts
  <1>. QED
    BY <1>4, <1>5, CoreGrows DEF OpenedInv

\* What is said of one submission, and that other workers leave it true.
AdvanceAt(w) ==
    Doing(w, "advance") =>
        /\ reqStatus[task[w].req] # "none"
        /\ ~Idle(w) => At(w, "insert") /\ call[w].step[1] = task[w].req
        /\ ChainSoFar(w, task[w].req)

LEMMA AdvanceOthers ==
    ASSUME CoreInv, TaskInv, [Next]_approvalVars, AdvanceInv, NEW v \in Workers,
           call'[v] = call[v], task'[v] = task[v]
    PROVE  AdvanceAt(v)'
  <1> SUFFICES ASSUME Doing(v, "advance")'
               PROVE  /\ reqStatus'[task'[v].req] # "none"
                      /\ ~Idle(v)' => At(v, "insert")' /\ call'[v].step[1] = task'[v].req
                      /\ ChainSoFar(v, task[v].req)'
    BY DEF AdvanceAt
  <1>1. Doing(v, "advance") /\ task[v].req \in Requests
    BY DEF Doing, TaskInv, Submitting
  <1>2. AdvanceAt(v)
    BY DEF AdvanceInv, AdvanceAt
  <1>3. reqStatus'[task'[v].req] # "none"
    BY <1>1, <1>2, CoreGrows DEF AdvanceAt
  <1>4. ~Idle(v)' => At(v, "insert")' /\ call'[v].step[1] = task'[v].req
    BY <1>1, <1>2 DEF AdvanceAt, Idle, At
  <1>5. ChainSoFar(v, task[v].req)'
    BY <1>1, <1>2, CoreGrows DEF AdvanceAt, ChainSoFar, StepsOf, Idle
  <1>. QED
    BY <1>3, <1>4, <1>5
\* A step of worker w needs to be looked at for w only.
LEMMA AdvanceBy ==
    ASSUME CoreInv, TaskInv, [ReviewNext]_reviewVars, AdvanceInv, NEW w \in Workers,
           \A v \in Workers \ {w} : call'[v] = call[v] /\ task'[v] = task[v],
           AdvanceAt(w)'
    PROVE  AdvanceInv'
  <1>1. [Next]_approvalVars
    BY RefinesCore
  <1>2. ASSUME NEW v \in Workers PROVE AdvanceAt(v)'
    <2>1. CASE v = w
      BY <2>1
    <2>2. CASE v # w
      BY <1>1, <2>2, AdvanceOthers
    <2>. QED
      BY <2>1, <2>2
  <1>. QED
    BY <1>2 DEF AdvanceInv, AdvanceAt

\* The creator of a request inserts the rows in order and returns after the last.
LEMMA InsertAdvances ==
    ASSUME CoreInv, TaskInv, AdvanceInv, NEW w \in Workers, Doing(w, "advance"),
           InsertStep(w), UNCHANGED task
    PROVE  AdvanceAt(w)'
  <1> USE DEF CoreInv, TypeInv, TypeOK
  <1> DEFINE r == task[w].req
             s == call[w].step
  <1>1. /\ s \in StepIds /\ s[1] = r /\ r \in Requests
        /\ reqStatus[r] # "none" /\ call[w].pc = "insert"
        /\ \A x \in StepsOf(r) : step[x] # "absent" \/ x[2] >= s[2]
    BY DEF InsertStep, At, Idle, WorkerOK, AdvanceInv, ChainSoFar, TaskInv, Submitting
  <1>2. /\ s[2] \in 1 .. Len(Route[r]) /\ Len(Route[r]) \in Nat /\ s = <<r, s[2]>>
        /\ \A x \in StepsOf(r) : x[2] \in 1 .. Len(Route[r]) /\ x = <<r, x[2]>>
    BY <1>1, StepIdFacts DEF StepsOf
  <1>3. step'[s] # "absent" /\ \A x \in StepIds \ {s} : step'[x] = step[x]
    BY <1>1 DEF InsertStep
  <1>4. \A x \in StepsOf(r) : step'[x] # "absent" \/ x[2] >= s[2] + 1
    BY <1>1, <1>2, <1>3 DEF StepsOf
  <1>5. reqStatus'[r] # "none" /\ task'[w].req = r
    BY <1>1 DEF InsertStep
  <1>6. CASE s[2] = Len(Route[s[1]])
    <2>1. call'[w].pc = "idle"
      BY <1>6, ReturnEffect DEF InsertStep
    <2>2. \A x \in StepsOf(r) : step'[x] # "absent"
      BY <1>1, <1>2, <1>4, <1>6
    <2>. QED
      BY <1>5, <2>1, <2>2 DEF AdvanceAt, Idle, ChainSoFar, StepsOf
  <1>7. CASE s[2] # Len(Route[s[1]])
    <2>1. call'[w].pc = "insert" /\ call'[w].step = <<r, s[2] + 1>>
      BY <1>1, <1>7 DEF InsertStep, Calls
    <2>. QED
      BY <1>4, <1>5, <2>1 DEF AdvanceAt, Idle, At, ChainSoFar, StepsOf
  <1>. QED
    BY <1>6, <1>7

LEMMA AdvanceStep ==
    ReviewTypeOK /\ CoreInv /\ TaskInv /\ AdvanceInv /\ [ReviewNext]_reviewVars
        => AdvanceInv'
  <1> SUFFICES ASSUME ReviewTypeOK, CoreInv, TaskInv, AdvanceInv,
                      [ReviewNext]_reviewVars PROVE AdvanceInv'
    OBVIOUS
  <1> USE DEF ReviewTypeOK, CoreInv
  <1>1. ASSUME NEW w \in Workers, CoreStep(w) PROVE AdvanceInv'
    <2>1. \A v \in Workers \ {w} : call'[v] = call[v] /\ task'[v] = task[v]
      <3>1. \A v \in Workers \ {w} : call'[v] = call[v]
        BY <1>1 DEF CoreStep, Decide, ReadStep, Continue, InsertStep, Authorise, Refuse,
                 RecordStepDecision, NextPendingStep, MarkInProgress, Finalise, Goto,
                 Return, TypeInv, TypeOK
      <3>. QED
        BY <1>1, <3>1 DEF CoreStep, caseVars
    <2>2. CASE ~Doing(w, "advance")
      <3>1. ~Doing(w, "advance")'
        BY <1>1, <2>2 DEF CoreStep, caseVars, Doing
      <3>. QED
        BY <2>1, <3>1, AdvanceBy DEF AdvanceAt
    <2>3. CASE Doing(w, "advance")
      <3>1. InsertStep(w)
        BY <1>1, <2>3 DEF CoreStep, Free, Doing, AdvanceInv, Continue, InsertStep,
                       Authorise, Refuse, RecordStepDecision, NextPendingStep,
                       MarkInProgress, Finalise, At, Idle
      <3>2. AdvanceAt(w)'
        BY <1>1, <2>3, <3>1, InsertAdvances DEF CoreStep, caseVars
      <3>. QED
        BY <2>1, <3>2, AdvanceBy
    <2>. QED
      BY <2>2, <2>3
  <1>2. ASSUME NEW w \in Workers, TerminalEvent(w) PROVE AdvanceInv'
    <2>1. \A v \in Workers \ {w} : call'[v] = call[v] /\ task'[v] = task[v]
      BY <1>2 DEF TerminalEvent, FireHandlers, Return
    <2>2. ~Doing(w, "advance")
      BY <1>2 DEF TerminalEvent, FireHandlers, At, Idle, AdvanceInv
    <2>3. ~Doing(w, "advance")'
      BY <1>2, <2>2 DEF TerminalEvent, Doing
    <2>. QED
      BY <2>1, <2>3, AdvanceBy DEF AdvanceAt
  <1>3. ASSUME NEW w \in Workers, OpenRequest(w) PROVE AdvanceInv'
    <2> DEFINE r == task[w].req
               new == [NoCall EXCEPT !.pc = "insert", !.step = <<r, 1>>]
    <2>1. r \in Requests
      BY <1>3 DEF OpenRequest, TaskInv, Submitting
    <2>2. /\ call' = [call EXCEPT ![w] = new]
          /\ task' = [task EXCEPT ![w] = [pc |-> "advance", case |-> task[w].case,
                                          req |-> r]]
          /\ reqStatus' = [reqStatus EXCEPT ![r] = "pending"]
      BY <1>3 DEF OpenRequest, CreateRequest, Begin
    <2>3. \A v \in Workers \ {w} : call'[v] = call[v] /\ task'[v] = task[v]
      BY <2>2
    <2>4. new.pc = "insert" /\ new.step[1] = r /\ new.step[2] = 1
      BY DEF NoCall
    <2>5. \A q \in StepIds : q[2] >= 1
      BY StepIdFacts
    <2>6. AdvanceAt(w)'
      BY <2>1, <2>2, <2>4, <2>5
         DEF AdvanceAt, Idle, At, ChainSoFar, StepsOf, TypeInv, TypeOK
    <2>. QED
      BY <2>3, <2>6, AdvanceBy
  <1>4. ASSUME NEW w \in Workers, RoutingFails(w) PROVE AdvanceInv'
    <2>1. \A v \in Workers \ {w} : call'[v] = call[v] /\ task'[v] = task[v]
      BY <1>4, NoTaskTyped DEF RoutingFails, Finish, approvalVars
    <2>2. ~Doing(w, "advance")'
      BY <1>4, NoTaskTyped DEF RoutingFails, Finish, Doing
    <2>. QED
      BY <2>1, <2>2, AdvanceBy DEF AdvanceAt
  <1>5. ASSUME NEW w \in Workers, AdvanceToReview(w) PROVE AdvanceInv'
    <2>1. \A v \in Workers \ {w} : call'[v] = call[v] /\ task'[v] = task[v]
      BY <1>5, NoTaskTyped DEF AdvanceToReview, Finish, approvalVars
    <2>2. ~Doing(w, "advance")'
      BY <1>5, NoTaskTyped DEF AdvanceToReview, Finish, Doing
    <2>. QED
      BY <2>1, <2>2, AdvanceBy DEF AdvanceAt
  <1>6. ASSUME NEW w \in Workers, RaiseRiskFlag(w) PROVE AdvanceInv'
    <2>1. \A v \in Workers \ {w} : call'[v] = call[v] /\ task'[v] = task[v]
      BY <1>6, NoTaskTyped DEF RaiseRiskFlag, Finish, approvalVars
    <2>2. ~Doing(w, "advance")'
      BY <1>6, NoTaskTyped DEF RaiseRiskFlag, Finish, Doing
    <2>. QED
      BY <2>1, <2>2, AdvanceBy DEF AdvanceAt
  <1>7. ASSUME NEW w \in Workers, ApproveCase(w) \/ RejectCase(w) \/ ReopenCase(w)
        PROVE  AdvanceInv'
    <2>1. \A v \in Workers \ {w} : call'[v] = call[v] /\ task'[v] = task[v]
      BY <1>7, NoTaskTyped DEF ApproveCase, RejectCase, ReopenCase,
             WriteState, Finish, approvalVars
    <2>2. ~Doing(w, "advance")'
      BY <1>7, NoTaskTyped DEF ApproveCase, RejectCase, ReopenCase,
             WriteState, Finish, Doing
    <2>. QED
      BY <2>1, <2>2, AdvanceBy DEF AdvanceAt
  <1>8. ASSUME NEW w \in Workers, FinalizeCase(w) PROVE AdvanceInv'
    <2>1. \A v \in Workers \ {w} : call'[v] = call[v] /\ task'[v] = task[v]
      BY <1>8, NoTaskTyped DEF FinalizeCase, WriteState, Finish, approvalVars
    <2>2. ~Doing(w, "advance")'
      BY <1>8, NoTaskTyped DEF FinalizeCase, WriteState, Finish, Doing
    <2>. QED
      BY <2>1, <2>2, AdvanceBy DEF AdvanceAt
  <1>9. ASSUME NEW w \in Workers, NEW r \in Requests, SubmitCase(w, r) PROVE AdvanceInv'
    <2>1. \A v \in Workers \ {w} : call'[v] = call[v] /\ task'[v] = task[v]
      BY <1>9 DEF SubmitCase, Begin, approvalVars
    <2>2. ~Doing(w, "advance")'
      BY <1>9 DEF SubmitCase, Begin, Doing
    <2>. QED
      BY <2>1, <2>2, AdvanceBy DEF AdvanceAt
  <1>10. ASSUME NEW w \in Workers, NEW c \in Cases, NEW t \in CheckTypes,
                NEW outcome \in CheckOutcomes, RecordCheck(w, c, t, outcome)
        PROVE  AdvanceInv'
    <2>1. \A v \in Workers \ {w} : call'[v] = call[v] /\ task'[v] = task[v]
      BY <1>10 DEF RecordCheck, Begin, approvalVars
    <2>2. ~Doing(w, "advance")'
      <3>1. CASE Begin(w, "flag", c, NoRequest)
        BY <3>1 DEF Begin, Doing
      <3>2. CASE UNCHANGED task
        BY <1>10, <3>2 DEF RecordCheck, Free, Doing
      <3>. QED
        BY <1>10, <3>1, <3>2 DEF RecordCheck
    <2>. QED
      BY <2>1, <2>2, AdvanceBy DEF AdvanceAt
  <1>11. ASSUME NEW w \in Workers, NEW c \in Cases, Reads(w, c) PROVE AdvanceInv'
    <2>1. \A v \in Workers \ {w} : call'[v] = call[v] /\ task'[v] = task[v]
      BY <1>11 DEF Reads, ReadForApprove, ReadForReject, ReadForReopen,
             ReadForFinalize, ReadState, Begin, approvalVars
    <2>2. ~Doing(w, "advance")'
      BY <1>11 DEF Reads, ReadForApprove, ReadForReject, ReadForReopen,
             ReadForFinalize, ReadState, Begin, Doing
    <2>. QED
      BY <2>1, <2>2, AdvanceBy DEF AdvanceAt
  <1>12. ASSUME NEW w \in Workers, NEW c \in Cases, ReturnCaseToWM(w, c)
        PROVE  AdvanceInv'
    <2>1. call' = call /\ task' = task /\ ~Doing(w, "advance")
      BY <1>12 DEF ReturnCaseToWM, Free, Doing, approvalVars
    <2>2. ~Doing(w, "advance")'
      BY <2>1 DEF Doing
    <2>. QED
      BY <2>1, <2>2, AdvanceBy DEF AdvanceAt
  <1>13. ASSUME NEW w \in Workers, Die(w) PROVE AdvanceInv'
    <2>1. \A v \in Workers \ {w} : call'[v] = call[v] /\ task'[v] = task[v]
      BY <1>13, NoTaskTyped DEF Die, Finish, Abort, Return, TypeInv, TypeOK, approvalVars
    <2>2. ~Doing(w, "advance")'
      BY <1>13, NoTaskTyped DEF Die, Finish, Abort, Return, TypeInv, TypeOK, Doing
    <2>. QED
      BY <2>1, <2>2, AdvanceBy DEF AdvanceAt
  <1>14. CASE UNCHANGED reviewVars
    <2>1. \A v \in Workers : call'[v] = call[v] /\ task'[v] = task[v]
      BY <1>14 DEF reviewVars, caseVars, approvalVars
    <2>. QED
      BY <2>1, AdvanceOthers, RefinesCore DEF AdvanceInv, AdvanceAt
  <1>. QED
    BY <1>1, <1>2, <1>3, <1>4, <1>5, <1>6, <1>7, <1>8, <1>9, <1>10, <1>11, <1>12,
       <1>13, <1>14
       DEF ReviewNext, Run, ReviewCall, Reads

-----------------------------------------------------------------------------
(* What a step does to a case.                                             *)

\* Events, stalls and activations stay; a client is activated by a terminal
\* event or by FinalizeCase; the two states that InReviewHasChain and
\* SubmittedInHand speak of are written by one statement each.
Effects ==
    /\ \A c \in Cases : chronicle[c] \subseteq chronicle'[c]
    /\ stalled \subseteq stalled'
    /\ \A c \in Cases : client[c] = "active" => client'[c] = "active"
    /\ \/ \E w \in Workers : TerminalEvent(w)
       \/ announced' = announced /\ client' = client
       \/ announced' = announced /\ \E w \in Workers : FinalizeCase(w)
    /\ \A c \in Cases : caseState'[c] = "in_review" =>
           \/ caseState[c] = "in_review"
           \/ \E w \in Workers : AdvanceToReview(w) /\ task[w].case = c
    /\ \A c \in Cases : caseState'[c] = "submitted" =>
           \/ caseState[c] = "submitted"
           \/ \E w \in Workers, r \in Requests : SubmitCase(w, r) /\ CaseOf[r] = c

LEMMA EffectsStep == CaseTypes /\ CoreInv /\ [ReviewNext]_reviewVars => Effects
  <1> SUFFICES ASSUME CaseTypes, CoreInv, [ReviewNext]_reviewVars PROVE Effects
    OBVIOUS
  <1> USE DEF CaseTypes, Effects
  <1>1. ASSUME NEW w \in Workers, CoreStep(w) PROVE Effects
    BY <1>1, TaskTyped, ReviewAssumption DEF CoreStep, caseVars, Decide, ReadStep,
                                          Continue, InsertStep, Authorise, Refuse,
                                          RecordStepDecision, NextPendingStep,
                                          MarkInProgress, Finalise, approvalVars
  <1>2. ASSUME NEW w \in Workers, TerminalEvent(w) PROVE Effects
    <2>1. /\ call[w].step[1] \in Requests /\ CaseOf[call[w].step[1]] \in Cases
          /\ call[w].out \in {"approved", "rejected", "returned"}
      BY <1>2, CallLocals DEF TerminalEvent, FireHandlers, At, Idle, CoreInv, Outcomes
    <2>2. \A c \in Cases : caseState'[c] \in {"approved", "rejected", "draft", caseState[c]}
      BY <1>2, <2>1 DEF TerminalEvent, HandleApprovalEvent, SetState
    <2>3. \A c \in Cases : client[c] = "active" => client'[c] = "active"
      BY <1>2, <2>1 DEF TerminalEvent, HandleApprovalEvent
    <2>. QED
      BY <1>2, <2>2, <2>3 DEF TerminalEvent
  <1>3. ASSUME NEW w \in Workers, OpenRequest(w) PROVE Effects
    BY <1>3, TaskTyped, ReviewAssumption DEF OpenRequest, CreateRequest, approvalVars
  <1>4. ASSUME NEW w \in Workers, RoutingFails(w) PROVE Effects
    BY <1>4, TaskTyped, ReviewAssumption DEF RoutingFails, approvalVars
  <1>5. ASSUME NEW w \in Workers, AdvanceToReview(w) PROVE Effects
    BY <1>5, TaskTyped, ReviewAssumption DEF AdvanceToReview, SetState, approvalVars
  <1>6. ASSUME NEW w \in Workers, RaiseRiskFlag(w) PROVE Effects
    BY <1>6, TaskTyped, ReviewAssumption DEF RaiseRiskFlag, approvalVars
  <1>7. ASSUME NEW w \in Workers, ApproveCase(w) \/ RejectCase(w) \/ ReopenCase(w)
        PROVE  Effects
    BY <1>7, TaskTyped, ReviewAssumption DEF ApproveCase, RejectCase, ReopenCase,
                                          WriteState, SetState, approvalVars
  <1>8. ASSUME NEW w \in Workers, FinalizeCase(w) PROVE Effects
    BY <1>8, TaskTyped, ReviewAssumption DEF FinalizeCase, WriteState, SetState,
                                          approvalVars
  <1>9. ASSUME NEW w \in Workers, NEW r \in Requests, SubmitCase(w, r) PROVE Effects
    BY <1>9, TaskTyped, ReviewAssumption DEF SubmitCase, SetState, approvalVars
  <1>10. ASSUME NEW w \in Workers, NEW c \in Cases, NEW t \in CheckTypes,
                NEW outcome \in CheckOutcomes, RecordCheck(w, c, t, outcome)
        PROVE  Effects
    BY <1>10, TaskTyped, ReviewAssumption DEF RecordCheck, approvalVars
  <1>11. ASSUME NEW w \in Workers, NEW c \in Cases, Reads(w, c) PROVE Effects
    BY <1>11, TaskTyped, ReviewAssumption DEF Reads, ReadForApprove, ReadForReject,
                                          ReadForReopen, ReadForFinalize, ReadState,
                                          approvalVars
  <1>12. ASSUME NEW w \in Workers, NEW c \in Cases, ReturnCaseToWM(w, c) PROVE Effects
    BY <1>12, TaskTyped, ReviewAssumption DEF ReturnCaseToWM, SetState, approvalVars
  <1>13. ASSUME NEW w \in Workers, Die(w) PROVE Effects
    BY <1>13, TaskTyped, ReviewAssumption DEF Die, Abort, approvalVars
  <1>14. CASE UNCHANGED reviewVars
    BY <1>14 DEF reviewVars, caseVars, approvalVars
  <1>. QED
    BY <1>1, <1>2, <1>3, <1>4, <1>5, <1>6, <1>7, <1>8, <1>9, <1>10, <1>11, <1>12,
       <1>13, <1>14
       DEF ReviewNext, Run, ReviewCall, Reads

-----------------------------------------------------------------------------
(* The properties, conjunct by conjunct.                                   *)

\* A request that has been opened and has all its rows keeps them.
HasChain(r) == reqStatus[r] # "none" /\ \A s \in StepsOf(r) : step[s] # "absent"

LEMMA InReviewStep ==
    ASSUME ReviewTypeOK, CoreInv, TaskInv, AdvanceInv, InReviewHasChain,
           [ReviewNext]_reviewVars
    PROVE  InReviewHasChain'
  <1>1. Effects
    BY EffectsStep, ReviewTypes
  <1>2. \A r \in Requests : HasChain(r) => HasChain(r)'
    BY RefinesCore, CoreGrows DEF HasChain, StepsOf
  <1>3. InReviewHasChain <=> \A c \in Cases : caseState[c] = "in_review" =>
                                 \E r \in Requests : CaseOf[r] = c /\ HasChain(r)
    BY DEF InReviewHasChain, Opened, HasChain
  <1>4. InReviewHasChain' <=> \A c \in Cases : caseState'[c] = "in_review" =>
                                  \E r \in Requests : CaseOf[r] = c /\ HasChain(r)'
    BY DEF InReviewHasChain, Opened, HasChain
  <1>5. ASSUME NEW w \in Workers, AdvanceToReview(w)
        PROVE  \E r \in Requests : CaseOf[r] = task[w].case /\ HasChain(r)
    <2>1. Doing(w, "advance") /\ Idle(w)
      BY <1>5 DEF AdvanceToReview
    <2>2. task[w].req \in Requests /\ CaseOf[task[w].req] = task[w].case
      BY <2>1 DEF TaskInv, Submitting
    <2>3. HasChain(task[w].req)
      BY <2>1 DEF AdvanceInv, ChainSoFar, HasChain
    <2>. QED
      BY <2>2, <2>3
  <1>6. ASSUME NEW c \in Cases, caseState'[c] = "in_review"
        PROVE  \E r \in Requests : CaseOf[r] = c /\ HasChain(r)
    BY <1>1, <1>3, <1>5, <1>6 DEF Effects
  <1>. QED
    BY <1>2, <1>4, <1>6

\* What an active client rests on: the two disjuncts of ActivationHasCause.
Cause(c) ==
    \/ \E r \in Requests : /\ CaseOf[r] = c /\ reqStatus[r] # "none"
                           /\ <<r, "approved">> \in announced /\ HasDecision(r, "approve")
    \/ {"compliance_approved", "finalized"} \subseteq chronicle[c]

\* A cause stays, and each of the two statements that activate a client has one.
LEMMA CauseStep ==
    ASSUME ReviewTypeOK, CoreInv, TaskInv, OpenedInv, FinanceInv, ActivationHasCause,
           [ReviewNext]_reviewVars
    PROVE  ActivationHasCause'
  <1>1. Effects /\ [Next]_approvalVars /\ CaseTypes
    BY EffectsStep, ReviewTypes, RefinesCore
  <1>2. ASSUME NEW c \in Cases, Cause(c) PROVE Cause(c)'
    <2>1. chronicle[c] \subseteq chronicle'[c]
      BY <1>1 DEF Effects
    <2>2. /\ decisions \subseteq decisions' /\ announced \subseteq announced'
          /\ \A r \in Requests : reqStatus[r] # "none" => reqStatus'[r] # "none"
      BY <1>1, CoreGrows
    <2>. QED
      BY <1>2, <2>1, <2>2 DEF Cause, HasDecision
  <1>3. ActivationHasCause <=> \A c \in Cases : client[c] = "active" => Cause(c)
    BY DEF ActivationHasCause, Opened, Cause
  <1>4. ActivationHasCause' <=> \A c \in Cases : client'[c] = "active" => Cause(c)'
    BY DEF ActivationHasCause, Opened, Cause
  <1>5. ASSUME NEW w \in Workers, TerminalEvent(w), NEW c \in Cases,
               client[c] # "active", client'[c] = "active"
        PROVE  Cause(c)'
    <2> DEFINE r == call[w].step[1]
    <2>1. /\ call[w].pc = "handlers" /\ call[w].out = "approved" /\ c = CaseOf[r]
          /\ announced' = announced \cup {<<r, "approved">>}
          /\ decisions' = decisions /\ reqStatus' = reqStatus
      BY <1>1, <1>5
         DEF TerminalEvent, FireHandlers, At, HandleApprovalEvent, CaseTypes
    <2>2. <<r, "approved">> \in Backed
      BY <2>1 DEF CoreInv, OutcomeInv
    <2>3. PICK d \in decisions : d.step[1] = r /\ d.act = "approve"
      BY <2>2 DEF Backed, ActFor
    <2>4. r \in Requests /\ reqStatus[r] # "none"
      BY <2>2, <2>3 DEF Backed, OpenedInv
    <2>. QED
      BY <2>1, <2>3, <2>4 DEF Cause, HasDecision
  <1>6. ASSUME NEW w \in Workers, FinalizeCase(w), NEW c \in Cases,
               client[c] # "active", client'[c] = "active"
        PROVE  Cause(c)'
    <2>1. c = task[w].case /\ Doing(w, "finalise")
      BY <1>1, <1>6 DEF FinalizeCase, WriteState, CaseTypes
    <2>2. "compliance_approved" \in chronicle[c]
      BY <2>1 DEF FinanceInv
    <2>3. chronicle'[c] = chronicle[c] \cup {"finalized"}
      BY <1>1, <1>6, <2>1 DEF FinalizeCase, WriteState, CaseTypes
    <2>. QED
      BY <2>2, <2>3 DEF Cause
  <1>7. ASSUME NEW c \in Cases, client'[c] = "active" PROVE Cause(c)'
    <2>1. CASE client[c] = "active"
      BY <1>2, <1>3, <2>1
    <2>2. CASE client[c] # "active"
      BY <1>1, <1>5, <1>6, <1>7, <2>2 DEF Effects
    <2>. QED
      BY <2>1, <2>2
  <1>. QED
    BY <1>4, <1>7

\* An approval is announced by the statement that activates the client.
LEMMA EventStep ==
    ASSUME ReviewTypeOK, CoreInv, EventInv, [ReviewNext]_reviewVars
    PROVE  EventInv'
  <1>1. Effects /\ CaseTypes
    BY EffectsStep, ReviewTypes
  <1>2. SUFFICES ASSUME NEW r \in Requests, <<r, "approved">> \in announced'
                 PROVE  client'[CaseOf[r]] = "active"
    BY DEF EventInv
  <1>3. CaseOf[r] \in Cases
    BY ReviewAssumption
  <1>4. CASE <<r, "approved">> \in announced
    BY <1>1, <1>3, <1>4 DEF Effects, EventInv
  <1>5. CASE <<r, "approved">> \notin announced
    <2>1. PICK w \in Workers : TerminalEvent(w)
      BY <1>1, <1>2, <1>5 DEF Effects
    <2>2. call[w].step[1] = r /\ call[w].out = "approved"
      BY <1>2, <1>5, <2>1 DEF TerminalEvent, FireHandlers
    <2>. QED
      BY <1>1, <1>3, <2>1, <2>2 DEF TerminalEvent, HandleApprovalEvent, CaseTypes
  <1>. QED
    BY <1>4, <1>5

-----------------------------------------------------------------------------
(* No submission and no approval is forgotten.                             *)

\* A submission goes on, moves the case out of "submitted" or stalls it.
HandedOn ==
    \A v \in Workers : Submitting(v) =>
        \/ Submitting(v)' /\ task'[v].case = task[v].case
        \/ task[v].case \in stalled'
        \/ caseState'[task[v].case] # "submitted"

LEMMA HandedOnStep == CaseTypes /\ TaskInv /\ [ReviewNext]_reviewVars => HandedOn
  <1> SUFFICES ASSUME CaseTypes, TaskInv, [ReviewNext]_reviewVars PROVE HandedOn
    OBVIOUS
  <1> USE DEF CaseTypes, HandedOn, Submitting, Doing
  <1>1. ASSUME NEW w \in Workers, CoreStep(w) PROVE HandedOn
    BY <1>1 DEF CoreStep, caseVars
  <1>2. ASSUME NEW w \in Workers, TerminalEvent(w) PROVE HandedOn
    BY <1>2 DEF TerminalEvent
  <1>3. ASSUME NEW w \in Workers, OpenRequest(w) PROVE HandedOn
    BY <1>3 DEF OpenRequest, Begin
  <1>4. ASSUME NEW w \in Workers, RoutingFails(w) PROVE HandedOn
    BY <1>4 DEF RoutingFails, Finish
  <1>5. ASSUME NEW w \in Workers, AdvanceToReview(w) PROVE HandedOn
    BY <1>5, TaskTyped DEF AdvanceToReview, SetState, Finish
  <1>6. ASSUME NEW w \in Workers, RaiseRiskFlag(w) PROVE HandedOn
    <2>1. ~Submitting(w) /\ \A v \in Workers \ {w} : task'[v] = task[v]
      BY <1>6 DEF RaiseRiskFlag, Finish
    <2>. QED
      BY <2>1
  <1>7. ASSUME NEW w \in Workers, ApproveCase(w) \/ RejectCase(w) \/ ReopenCase(w)
        PROVE  HandedOn
    <2>1. ~Submitting(w) /\ \A v \in Workers \ {w} : task'[v] = task[v]
      BY <1>7 DEF ApproveCase, RejectCase, ReopenCase, WriteState, Finish
    <2>. QED
      BY <2>1
  <1>8. ASSUME NEW w \in Workers, FinalizeCase(w) PROVE HandedOn
    <2>1. ~Submitting(w) /\ \A v \in Workers \ {w} : task'[v] = task[v]
      BY <1>8 DEF FinalizeCase, WriteState, Finish
    <2>. QED
      BY <2>1
  <1>9. ASSUME NEW w \in Workers, NEW r \in Requests, SubmitCase(w, r) PROVE HandedOn
    <2>1. ~Submitting(w) /\ \A v \in Workers \ {w} : task'[v] = task[v]
      BY <1>9 DEF SubmitCase, Free, Begin
    <2>. QED
      BY <2>1
  <1>10. ASSUME NEW w \in Workers, NEW c \in Cases, NEW t \in CheckTypes,
                NEW outcome \in CheckOutcomes, RecordCheck(w, c, t, outcome)
        PROVE  HandedOn
    <2>1. ~Submitting(w) /\ \A v \in Workers \ {w} : task'[v] = task[v]
      BY <1>10 DEF RecordCheck, Free, Begin
    <2>. QED
      BY <2>1
  <1>11. ASSUME NEW w \in Workers, NEW c \in Cases, Reads(w, c) PROVE HandedOn
    <2>1. ~Submitting(w) /\ \A v \in Workers \ {w} : task'[v] = task[v]
      BY <1>11 DEF Reads, ReadForApprove, ReadForReject, ReadForReopen, ReadForFinalize,
                ReadState, Free, Begin
    <2>. QED
      BY <2>1
  <1>12. ASSUME NEW w \in Workers, NEW c \in Cases, ReturnCaseToWM(w, c) PROVE HandedOn
    <2>1. ~Submitting(w) /\ \A v \in Workers \ {w} : task'[v] = task[v]
      BY <1>12 DEF ReturnCaseToWM, Free
    <2>. QED
      BY <2>1
  <1>13. ASSUME NEW w \in Workers, Die(w) PROVE HandedOn
    <2>1. \A v \in Workers \ {w} : task'[v] = task[v]
      BY <1>13 DEF Die, Finish
    <2>2. CASE Submitting(w)
      <3>1. task[w].req # NoRequest
        BY <2>2, ReviewAssumption DEF TaskInv
      <3>2. task[w].case \in stalled'
        BY <1>13, <3>1 DEF Die
      <3>. QED
        BY <2>1, <3>2
    <2>3. CASE ~Submitting(w)
      BY <2>1, <2>3
    <2>. QED
      BY <2>2, <2>3
  <1>14. CASE UNCHANGED reviewVars
    BY <1>14 DEF reviewVars, caseVars, approvalVars
  <1>. QED
    BY <1>1, <1>2, <1>3, <1>4, <1>5, <1>6, <1>7, <1>8, <1>9, <1>10, <1>11, <1>12,
       <1>13, <1>14
       DEF ReviewNext, Run, ReviewCall, Reads

LEMMA SubmittedStep ==
    ASSUME ReviewTypeOK, CoreInv, TaskInv, SubmittedInHand, [ReviewNext]_reviewVars
    PROVE  SubmittedInHand'
  <1>1. Effects /\ HandedOn /\ CaseTypes
    BY EffectsStep, HandedOnStep, ReviewTypes
  <1>2. SUFFICES ASSUME NEW c \in Cases, caseState'[c] = "submitted"
                 PROVE  c \in stalled' \/ \E w \in Workers : Submitting(w)' /\ task'[w].case = c
    BY DEF SubmittedInHand
  <1>3. CASE caseState[c] = "submitted"
    <2>1. c \in stalled => c \in stalled'
      BY <1>1 DEF Effects
    <2>2. ASSUME NEW w \in Workers, Submitting(w), task[w].case = c
          PROVE  c \in stalled' \/ (Submitting(w)' /\ task'[w].case = c)
      BY <1>1, <1>2, <2>2 DEF HandedOn
    <2>. QED
      BY <1>3, <2>1, <2>2 DEF SubmittedInHand
  <1>4. CASE caseState[c] # "submitted"
    <2>1. PICK w \in Workers, r \in Requests : SubmitCase(w, r) /\ CaseOf[r] = c
      BY <1>1, <1>2, <1>4 DEF Effects
    <2>2. Submitting(w)' /\ task'[w].case = c
      BY <1>1, <2>1 DEF SubmitCase, Begin, Submitting, Doing, CaseTypes
    <2>. QED
      BY <2>2
  <1>. QED
    BY <1>3, <1>4

\* A worker on its way to announce that request r is approved.
ReportsApproval(w, r) == Reporting(w, r) /\ call[w].out = "approved"

\* It goes on: no step of the request waits, so NextPendingStep leads to finalise.
LEMMA ReportGoesOn ==
    ASSUME CoreInv, [Next]_approvalVars, NEW r \in Requests, AllApproved(r),
           NEW w \in Workers, ReportsApproval(w, r)
    PROVE  ReportsApproval(w, r)' \/ r \in died' \/ <<r, "approved">> \in announced'
  <1> USE DEF CoreInv, TypeInv, ReportsApproval, Reporting
  <1>1. ASSUME NEW v \in Workers,
               \/ \E q \in Requests : CreateRequest(v, q)
               \/ Decide(v) \/ InsertStep(v) \/ Authorise(v) \/ Refuse(v)
               \/ RecordStepDecision(v) \/ MarkInProgress(v)
        PROVE  v # w /\ call'[w] = call[w]
    <2>1. v # w
      BY <1>1 DEF CreateRequest, Decide, ReadStep, InsertStep, Authorise, Refuse,
                  RecordStepDecision, MarkInProgress, At, Idle
    <2>. QED
      BY <1>1, <2>1 DEF CreateRequest, Decide, ReadStep, InsertStep, Authorise, Refuse,
                        RecordStepDecision, MarkInProgress, Goto, Return, TypeOK
  <1>2. ASSUME NEW v \in Workers, NextPendingStep(v) PROVE ReportsApproval(w, r)'
    <2>1. ~HasPendingStep(r)
      BY DEF AllApproved, HasPendingStep
    <2>. QED
      BY <1>2, <2>1, GotoEffect DEF NextPendingStep
  <1>3. ASSUME NEW v \in Workers, Finalise(v) PROVE ReportsApproval(w, r)'
    BY <1>3, GotoEffect DEF Finalise
  <1>4. ASSUME NEW v \in Workers, FireHandlers(v)
        PROVE  ReportsApproval(w, r)' \/ <<r, "approved">> \in announced'
    BY <1>4, ReturnEffect DEF FireHandlers
  <1>5. ASSUME NEW v \in Workers, Abort(v)
        PROVE  ReportsApproval(w, r)' \/ r \in died'
    BY <1>5, ReturnEffect DEF Abort
  <1>6. CASE UNCHANGED approvalVars
    BY <1>6 DEF approvalVars
  <1>. QED
    BY <1>1, <1>2, <1>3, <1>4, <1>5, <1>6 DEF Next, Continue

\* The last step is approved by a worker that then reports it.
LEMMA LastApprovalReports ==
    ASSUME CoreInv, [Next]_approvalVars, NEW r \in Requests, AllApproved(r)',
           ~AllApproved(r)
    PROVE  \E w \in Workers : ReportsApproval(w, r)'
  <1> USE DEF CoreInv, TypeInv, TypeOK
  <1>1. \/ UNCHANGED step
        \/ \E w \in Workers : InsertStep(w) \/ RecordStepDecision(w)
    BY DEF Next, Continue, Decide, CreateRequest, ReadStep, Authorise, Refuse,
           NextPendingStep, MarkInProgress, Finalise, FireHandlers, Abort, approvalVars
  <1>2. ~ UNCHANGED step
    BY DEF AllApproved, StepsOf
  <1>3. ASSUME NEW w \in Workers, InsertStep(w) PROVE FALSE
    <2> DEFINE s == call[w].step
    <2>1. s \in StepIds
      BY <1>3 DEF InsertStep, At, WorkerOK
    <2>2. step'[s] # "approved" /\ \A x \in StepIds \ {s} : step'[x] = step[x]
      BY <1>3, <2>1 DEF InsertStep
    <2>. QED
      BY <2>1, <2>2 DEF AllApproved, StepsOf
  <1>4. ASSUME NEW w \in Workers, RecordStepDecision(w) PROVE ReportsApproval(w, r)'
    <2> DEFINE s == call[w].step
               a == call[w].act
    <2>1. s \in StepIds /\ call[w] \in Calls
      BY <1>4 DEF RecordStepDecision, At, WorkerOK
    <2>2. step'[s] = StatusAfter(a) /\ \A x \in StepIds \ {s} : step'[x] = step[x]
      BY <1>4, <2>1 DEF RecordStepDecision
    <2>3. s[1] = r /\ StatusAfter(a) = "approved"
      BY <2>1, <2>2 DEF AllApproved, StepsOf
    <2>4. a = "approve"
      BY <2>1, <2>3 DEF StatusAfter, Calls, Actions
    <2>5. call'[w].pc = "next" /\ call'[w].step = s /\ call'[w].out = "approved"
      BY <1>4, <2>1, <2>4 DEF RecordStepDecision, Calls
    <2>. QED
      BY <2>3, <2>5 DEF ReportsApproval, Reporting
  <1>. QED
    BY <1>1, <1>2, <1>3, <1>4

LEMMA ApprovalStep ==
    ASSUME ReviewTypeOK, CoreInv, TaskInv, ApprovalInHand, EventInv',
           [ReviewNext]_reviewVars
    PROVE  ApprovalInHand'
  <1>1. Effects /\ [Next]_approvalVars
    BY EffectsStep, ReviewTypes, RefinesCore
  <1>2. SUFFICES ASSUME NEW r \in Requests, AllApproved(r)'
                 PROVE  \/ client'[CaseOf[r]] = "active" \/ r \in died'
                        \/ \E w \in Workers : ReportsApproval(w, r)'
    BY DEF ApprovalInHand, ReportsApproval
  <1>3. CaseOf[r] \in Cases
    BY ReviewAssumption
  <1>4. CASE ~AllApproved(r)
    BY <1>1, <1>2, <1>4, LastApprovalReports
  <1>5. CASE AllApproved(r)
    <2>1. CASE client[CaseOf[r]] = "active" \/ r \in died
      BY <1>1, <1>3, <2>1, CoreGrows DEF Effects
    <2>2. ASSUME NEW w \in Workers, ReportsApproval(w, r)
          PROVE  ReportsApproval(w, r)' \/ r \in died' \/ client'[CaseOf[r]] = "active"
      BY <1>1, <1>5, <2>2, ReportGoesOn DEF EventInv
    <2>. QED
      BY <1>5, <2>1, <2>2 DEF ApprovalInHand, ReportsApproval
  <1>. QED
    BY <1>4, <1>5

-----------------------------------------------------------------------------
(* The theorems.                                                           *)

LEMMA InitCaseInv == ReviewInit => CoreInv /\ CaseInv
  <1> SUFFICES ASSUME ReviewInit PROVE CoreInv /\ CaseInv
    OBVIOUS
  <1>1. ApprovalInit
    BY DEF ReviewInit
  <1>2. CoreInv
    BY <1>1, InitTypeInv, InitChainInv, InitOutcomeInv DEF CoreInv
  <1>3. CaseTypes
    <2>1. NoTask \in TaskType
      BY NoTaskTyped DEF NoTask, TaskType, TaskLabels
    <2>. QED
      BY <2>1, ReviewAssumption DEF ReviewInit, CaseTypes, CaseStates
  <1>4. ReviewTypeOK
    BY <1>2, <1>3, ReviewTypes DEF CoreInv, TypeInv
  <1>5. \A w \in Workers : task[w].pc = "idle"
    BY NoTaskTyped DEF ReviewInit
  <1>6. TaskInv /\ AdvanceInv /\ FinanceInv /\ SubmittedInHand /\ InReviewHasChain
    BY <1>5 DEF ReviewInit, TaskInv, AdvanceInv, FinanceInv, SubmittedInHand,
                InReviewHasChain, Submitting, Doing
  <1>7. OpenedInv /\ EventInv /\ ActivationHasCause
    BY <1>1 DEF ReviewInit, ApprovalInit, OpenedInv, EventInv, ActivationHasCause
  <1>8. ApprovalInHand
    BY <1>1, FirstStep DEF ApprovalInit, ApprovalInHand, AllApproved, StepsOf
  <1>. QED
    BY <1>2, <1>4, <1>6, <1>7, <1>8 DEF CaseInv

LEMMA NextCaseInv == CoreInv /\ CaseInv /\ [ReviewNext]_reviewVars => CoreInv' /\ CaseInv'
  <1> SUFFICES ASSUME CoreInv, CaseInv, [ReviewNext]_reviewVars PROVE CoreInv' /\ CaseInv'
    OBVIOUS
  <1> USE DEF CaseInv
  <1>1. CoreInv' /\ [Next]_approvalVars
    BY CoreStepInv, RefinesCore
  <1>2. ReviewTypeOK'
    <2>1. CaseTypes'
      BY CaseTypesStep, ReviewTypes
    <2>. QED
      BY <1>1, <2>1 DEF CoreInv, TypeInv, ReviewTypeOK, CaseTypes, CaseStates,
                        CaseEvents, TaskType, TaskLabels
  <1>3. TaskInv' /\ OpenedInv' /\ AdvanceInv' /\ FinanceInv'
    BY <1>1, TaskStep, OpenedStep, AdvanceStep, FinanceStep
  <1>4. EventInv'
    BY EventStep
  <1>5. InReviewHasChain' /\ ActivationHasCause' /\ SubmittedInHand'
    BY InReviewStep, CauseStep, SubmittedStep
  <1>6. ApprovalInHand'
    BY <1>4, ApprovalStep
  <1>. QED
    BY <1>1, <1>2, <1>3, <1>4, <1>5, <1>6

LEMMA CaseInvHolds == ReviewSpec => [](CoreInv /\ CaseInv)
  <1>. QED
    BY InitCaseInv, NextCaseInv, PTL DEF ReviewSpec

\* Every variable of the composition keeps its type: no handler writes a state,
\* a client status or a check outcome that the tables' columns do not know.
THEOREM ReviewTypeCorrect == ReviewSpec => []ReviewTypeOK
  <1>1. CaseInv => ReviewTypeOK
    BY DEF CaseInv
  <1>. QED
    BY CaseInvHolds, <1>1, PTL

\* No client becomes active without a cause: HandleApprovalEvent and FinalizeCase
\* are the only statements that activate it, and each rests on a recorded
\* approval of its own kind, whatever rejections and returns race with it.
THEOREM ActivationHasCauseHolds == ReviewSpec => []ActivationHasCause
  <1>1. CaseInv => ActivationHasCause
    BY DEF CaseInv
  <1>. QED
    BY CaseInvHolds, <1>1, PTL

\* SubmitCase makes a case visible as in review only after CreateRequest has
\* inserted the last step of the request.
THEOREM InReviewHasChainHolds == ReviewSpec => []InReviewHasChain
  <1>1. CaseInv => InReviewHasChain
    BY DEF CaseInv
  <1>. QED
    BY CaseInvHolds, <1>1, PTL

\* The composition drives the approval core only by the core's own operations, so
\* everything proved of Approval holds of the requests of onboarding cases.
THEOREM ReviewRunsCore == ReviewSpec => Spec
  <1>1. CaseInv => TaskInv
    BY DEF CaseInv
  <1>2. ReviewInit => ApprovalInit
    BY DEF ReviewInit
  <1>. QED
    BY CaseInvHolds, RefinesCore, <1>1, <1>2, PTL DEF ReviewSpec, Spec

\* A case is never left in "submitted" with nobody at work on it, unless its
\* submission died or found no position: the safety half of SubmittedMovesOn.
THEOREM SubmittedNotForgotten == ReviewSpec => []SubmittedInHand
  <1>1. CaseInv => SubmittedInHand
    BY DEF CaseInv
  <1>. QED
    BY CaseInvHolds, <1>1, PTL

\* A request of which every step is approved has activated its client, or an
\* approver's call is on the way to do so, or a handler of it has died: the safety
\* half of FullApprovalActivates.
THEOREM ApprovalNotForgotten == ReviewSpec => []ApprovalInHand
  <1>1. CaseInv => ApprovalInHand
    BY DEF CaseInv
  <1>. QED
    BY CaseInvHolds, <1>1, PTL

=============================================================================

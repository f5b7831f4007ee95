----------------------------- MODULE CaseReview -----------------------------
(***************************************************************************)
(* The review half of an onboarding case (internal/onboarding/service.go)  *)
(* composed with the approval core it drives and is driven by: SubmitCase  *)
(* opens an approval request, and the core's terminal event comes back     *)
(* through HandleApprovalEvent.  Compliance and finance move the same case *)
(* by calls of their own (ApproveCase, RejectCase, ReturnCaseToWM,         *)
(* ReopenCase, FinalizeCase) that know nothing of the request.             *)
(*                                                                         *)
(* As in Approval, a worker runs one statement at a time.  The requirement *)
(* gate in front of SubmitCase is the subject of CaseIntake; here a draft  *)
(* may be filed at any time.                                               *)
(***************************************************************************)
EXTENDS Approval

CONSTANTS
    Cases,      \* onboarding cases
    CaseOf,     \* CaseOf[r]: the case whose filing may open request r
    PlainChain, \* WEALTH_MANAGER, COMPLIANCE_MANAGER
    RiskChain,  \* ... with MANAGING_DIRECTOR between them
    CheckTypes, \* compliance_check.check_type
    CheckOutcomes, \* the outcomes compliance records, of pass, fail, needs_info
    NoRequest,  \* a task that opens no request
    MaxReviews  \* bound: how many calls compliance and finance make

ASSUME ReviewAssumption ==
    /\ Cases # {}
    /\ CaseOf \in [Requests -> Cases]
    /\ \A r \in Requests : Route[r] \in {PlainChain, RiskChain} /\ Skipped[r] = {}
    /\ CheckOutcomes \subseteq {"pass", "fail", "needs_info"}
    /\ NoRequest \notin Requests
    /\ MaxReviews \in Nat

VARIABLES
    caseState,  \* onboarding_case.state
    riskFlag,   \* onboarding_case.risk_flag
    check,      \* compliance_check.outcome ("none": no row)
    client,     \* onboarding.client.status of the case's client
    task,       \* the onboarding statement each worker is about to run
    chronicle,  \* history: what compliance and finance did to the case
    stalled,    \* history: cases whose submission died or found no position
    reviews     \* how many calls compliance and finance have made

caseVars == <<caseState, riskFlag, check, client, task, chronicle, stalled, reviews>>
reviewVars == <<approvalVars, caseVars>>

NoTask == [pc |-> "idle", case |-> CHOOSE c \in Cases : TRUE, req |-> NoRequest]

Doing(w, label) == task[w].pc = label
Free(w) == Idle(w) /\ Doing(w, "idle")
Begin(w, label, c, r) == task' = [task EXCEPT ![w] = [pc |-> label, case |-> c, req |-> r]]
Finish(w) == task' = [task EXCEPT ![w] = NoTask]
SetState(c, s) == caseState' = [caseState EXCEPT ![c] = s]

Reviewable == {"submitted", "in_review", "compliance_review"}

\* resolveApprovalSteps: the managing director reviews flagged cases only.
ChainFor(risk) == IF risk THEN RiskChain ELSE PlainChain

\* The draft may have been flagged for a PEP already (CaseIntake).
ReviewInit ==
    /\ ApprovalInit
    /\ caseState = [c \in Cases |-> "draft"]
    /\ riskFlag \in [Cases -> BOOLEAN]
    /\ check = [c \in Cases |-> [t \in CheckTypes |-> "none"]]
    /\ client = [c \in Cases |-> "prospect"]
    /\ task = [w \in Workers |-> NoTask]
    /\ chronicle = [c \in Cases |-> {}]
    /\ stalled = {}
    /\ reviews = 0

-----------------------------------------------------------------------------
(* SubmitCase after its gate.                                              *)

\* Requests that no submission has opened or is about to open.
Unclaimed == {r \in Requests : reqStatus[r] = "none" /\ \A w \in Workers : task[w].req # r}

\* UPDATE ... WHERE state = 'draft' RETURNING the risk flag, which decides the
\* chain of the request r that the call will open.
SubmitCase(w, r) ==
    /\ Free(w)
    /\ r \in Unclaimed
    /\ caseState[CaseOf[r]] = "draft"
    /\ Route[r] = ChainFor(riskFlag[CaseOf[r]])
    /\ SetState(CaseOf[r], "submitted")
    /\ Begin(w, "open", CaseOf[r], r)
    /\ UNCHANGED <<approvalVars, riskFlag, check, client, chronicle, stalled, reviews>>

OpenRequest(w) ==
    /\ Doing(w, "open")
    /\ CreateRequest(w, task[w].req)
    /\ Begin(w, "advance", task[w].case, task[w].req)
    /\ UNCHANGED <<caseState, riskFlag, check, client, chronicle, stalled, reviews>>

\* GetPositionByCode finds no position: the call succeeds and the case stays
\* submitted without a request.
RoutingFails(w) ==
    /\ Doing(w, "open")
    /\ stalled' = stalled \cup {task[w].case}
    /\ Finish(w)
    /\ UNCHANGED <<approvalVars, caseState, riskFlag, check, client, chronicle, reviews>>

\* (Mutant: the case advances as soon as the request row is there.)
AdvanceEarly(w) ==
    /\ Doing(w, "advance")
    /\ caseState[task[w].case] # "in_review"
    /\ SetState(task[w].case, "in_review")
    /\ IF Idle(w) THEN Finish(w) ELSE UNCHANGED task
    /\ UNCHANGED <<approvalVars, riskFlag, check, client, chronicle, stalled, reviews>>

\* (Mutant: the request is opened and the case left where it is.)
AdvanceNothing(w) ==
    /\ Doing(w, "advance")
    /\ Idle(w)
    /\ Finish(w)
    /\ UNCHANGED <<approvalVars, caseState, riskFlag, check, client, chronicle, stalled, reviews>>

\* CreateRequest has returned: UpdateCaseState, whatever the state is by now.
AdvanceToReview(w) ==
    /\ Doing(w, "advance")
    /\ Idle(w)
    /\ SetState(task[w].case, "in_review")
    /\ Finish(w)
    /\ UNCHANGED <<approvalVars, riskFlag, check, client, chronicle, stalled, reviews>>

-----------------------------------------------------------------------------
(* Compliance and finance.  Each handler reads the state, checks it, and   *)
(* writes the new state with an UPDATE that names the case's id only.      *)

CountReview == reviews < MaxReviews /\ reviews' = reviews + 1

\* RecordComplianceCheck upserts the check ...
RecordCheck(w, c, t, outcome) ==
    /\ Free(w)
    /\ CountReview
    /\ check' = [check EXCEPT ![c][t] = outcome]
    /\ IF outcome = "fail" THEN Begin(w, "flag", c, NoRequest) ELSE UNCHANGED task
    /\ UNCHANGED <<approvalVars, caseState, riskFlag, client, chronicle, stalled>>

\* ... and raises the flag in a second statement when it failed.
RaiseRiskFlag(w) ==
    /\ Doing(w, "flag")
    /\ riskFlag' = [riskFlag EXCEPT ![task[w].case] = TRUE]
    /\ Finish(w)
    /\ UNCHANGED <<approvalVars, caseState, check, client, chronicle, stalled, reviews>>

ReadState(w, c, label, states) ==
    /\ Free(w)
    /\ CountReview
    /\ caseState[c] \in states
    /\ Begin(w, label, c, NoRequest)
    /\ UNCHANGED <<approvalVars, caseState, riskFlag, check, client, chronicle, stalled>>

ReadForApprove(w, c) == ReadState(w, c, "approve", Reviewable)
ReadForReject(w, c) == ReadState(w, c, "reject", Reviewable)
ReadForReopen(w, c) == ReadState(w, c, "reopen", {"rejected", "approved"})

\* FinalizeCase reads inside its transaction, which is READ COMMITTED and takes
\* no lock: the state it read may be gone when it writes.
\* (Mutant: the state is read and not compared.)
ReadForFinalizeAny(w, c) == ReadState(w, c, "finalise", Reviewable \cup {"pending_finance"})

ReadForFinalize(w, c) == ReadState(w, c, "finalise", {"pending_finance"})

WriteState(w, label, newState, event) ==
    /\ Doing(w, label)
    /\ SetState(task[w].case, newState)
    /\ chronicle' = [chronicle EXCEPT ![task[w].case] = @ \cup {event}]
    /\ Finish(w)
    /\ UNCHANGED <<approvalVars, riskFlag, check, stalled, reviews>>

ApproveCase(w) ==
    WriteState(w, "approve", "pending_finance", "compliance_approved") /\ UNCHANGED client
RejectCase(w) == WriteState(w, "reject", "rejected", "rejected") /\ UNCHANGED client
ReopenCase(w) ==
    WriteState(w, "reopen", "compliance_review", "reopened") /\ UNCHANGED client

\* The transaction commits the case and the client together.
FinalizeCase(w) ==
    /\ WriteState(w, "finalise", "approved", "finalized")
    /\ client' = [client EXCEPT ![task[w].case] = "active"]

\* ReturnCaseToWM reads the case only to see that it exists.
ReturnCaseToWM(w, c) ==
    /\ Free(w)
    /\ CountReview
    /\ SetState(c, "draft")
    /\ UNCHANGED <<approvalVars, riskFlag, check, client, task, chronicle, stalled>>

-----------------------------------------------------------------------------
\* (Mutant: the client's status is forgotten.)
HandleWithoutClient(c, outcome) ==
    /\ SetState(c, CASE outcome = "approved" -> "approved"
                     [] outcome = "rejected" -> "rejected"
                     [] outcome = "returned" -> "draft")
    /\ UNCHANGED client

\* (Mutant: the outcome is taken for a state.)
HandleOutcomeAsState(c, outcome) ==
    /\ SetState(c, outcome)
    /\ client' = IF outcome = "approved" THEN [client EXCEPT ![c] = "active"] ELSE client

\* HandleApprovalEvent: one transaction, no look at the case's state.
HandleApprovalEvent(c, outcome) ==
    /\ SetState(c, CASE outcome = "approved" -> "approved"
                     [] outcome = "rejected" -> "rejected"
                     [] outcome = "returned" -> "draft")
    /\ client' = IF outcome = "approved" THEN [client EXCEPT ![c] = "active"] ELSE client

\* finalise calls the handler synchronously.
TerminalEvent(w) ==
    /\ FireHandlers(w)
    /\ HandleApprovalEvent(CaseOf[call[w].step[1]], call[w].out)
    /\ UNCHANGED <<riskFlag, check, task, chronicle, stalled, reviews>>

\* A step of the approval core that touches no case.
CoreStep(w) ==
    /\ \/ Free(w) /\ Decide(w)
       \/ Continue(w)
    /\ UNCHANGED caseVars

\* A handler dies in the approval core or between two onboarding statements.
Die(w) ==
    /\ \/ Abort(w)
       \/ CanAbort /\ Idle(w) /\ ~Doing(w, "idle") /\ UNCHANGED approvalVars
    /\ stalled' = IF task[w].req # NoRequest THEN stalled \cup {task[w].case} ELSE stalled
    /\ Finish(w)
    /\ UNCHANGED <<caseState, riskFlag, check, client, chronicle, reviews>>

Run(w) ==
    \/ CoreStep(w)
    \/ TerminalEvent(w)
    \/ OpenRequest(w)
    \/ RoutingFails(w)
    \/ AdvanceToReview(w)
    \/ RaiseRiskFlag(w)
    \/ ApproveCase(w)
    \/ RejectCase(w)
    \/ ReopenCase(w)
    \/ FinalizeCase(w)

ReviewCall(w, c) ==
    \/ \E t \in CheckTypes, outcome \in CheckOutcomes :
           RecordCheck(w, c, t, outcome)
    \/ ReadForApprove(w, c)
    \/ ReadForReject(w, c)
    \/ ReadForReopen(w, c)
    \/ ReadForFinalize(w, c)
    \/ ReturnCaseToWM(w, c)

ReviewNext ==
    \E w \in Workers :
        \/ Run(w)
        \/ \E r \in Requests : SubmitCase(w, r)
        \/ \E c \in Cases : ReviewCall(w, c)
        \/ Die(w)

ReviewSpec == ReviewInit /\ [][ReviewNext]_reviewVars

\* Fair for a worker that is in the middle of a call.
FairReviewSpec ==
    ReviewSpec /\ \A w \in Workers : WF_reviewVars(~Free(w) /\ Run(w))

-----------------------------------------------------------------------------
ReviewTypeOK ==
    /\ TypeOK
    /\ caseState \in [Cases -> Reviewable \cup
                          {"draft", "pending_finance", "approved", "rejected"}]
    /\ riskFlag \in [Cases -> BOOLEAN]
    /\ check \in [Cases -> [CheckTypes -> {"none", "pass", "fail", "needs_info"}]]
    /\ client \in [Cases -> {"prospect", "active"}]
    /\ task \in [Workers ->
           [pc : {"idle", "open", "advance", "flag", "approve", "reject", "reopen",
                  "finalise"},
            case : Cases, req : Requests \cup {NoRequest}]]
    /\ chronicle \in [Cases -> SUBSET {"compliance_approved", "rejected", "reopened",
                                       "finalized"}]
    /\ stalled \subseteq Cases
    /\ reviews \in 0 .. MaxReviews

Opened(c) == {r \in Requests : CaseOf[r] = c /\ reqStatus[r] # "none"}

\* A client becomes active for a reason: an approver approved a step of one of
\* its case's requests, or compliance approved the case and finance finalised
\* it.  Neither path can be started by the other's rejections and returns.
ActivationHasCause ==
    \A c \in Cases : client[c] = "active" =>
        \/ \E r \in Opened(c) : <<r, "approved">> \in announced /\ HasDecision(r, "approve")
        \/ {"compliance_approved", "finalized"} \subseteq chronicle[c]

\* A case in review has a request whose chain is complete: the state is never
\* visible before the last step is inserted.
InReviewHasChain ==
    \A c \in Cases : caseState[c] = "in_review" =>
        \E r \in Opened(c) : \A s \in StepsOf(r) : step[s] # "absent"

\* A case does not remain "submitted" unless its submission died or found no
\* position to route to.
SubmittedMovesOn ==
    \A c \in Cases : caseState[c] = "submitted" ~> (caseState[c] # "submitted" \/ c \in stalled)

\* When every step of a request has been approved the client is activated,
\* unless a handler of the request died.
FullApprovalActivates ==
    \A r \in Requests :
        (\A s \in StepsOf(r) : step[s] = "approved")
            ~> (client[CaseOf[r]] = "active" \/ r \in died)

=============================================================================

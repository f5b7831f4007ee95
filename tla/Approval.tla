------------------------------ MODULE Approval ------------------------------
(***************************************************************************)
(* The shared approval core: internal/approval/approval.go over the tables *)
(* of db/migrations/00010_approval.sql.                                    *)
(*                                                                         *)
(* A request carries an ordered chain of steps, each routed to a position. *)
(* Every store call of the Go service commits on its own: there is no      *)
(* transaction around CreateRequest, RecordDecision or finalise.  Each     *)
(* HTTP request is therefore a worker that walks through the statements of *)
(* its handler one at a time (call[w].pc is the next statement), and the   *)
(* statements of different workers interleave freely.  A worker may also   *)
(* die between two statements: the process restarts, the client goes away  *)
(* and cancels the request's context, or the database refuses a statement. *)
(***************************************************************************)
EXTENDS Naturals, FiniteSets, Sequences

CONSTANTS
    Requests,   \* approval_request rows that may be opened
    Positions,  \* organization.position rows
    Users,      \* staff accounts
    Workers,    \* HTTP requests the API serves at the same time
    Route,      \* Route[r]: the positions of r's steps, in step_order
    Skipped,    \* Skipped[r]: the orders created with Skip = true
    Holders,    \* Holders[p]: the users who hold position p
    CanAbort,   \* may a handler die between two of its statements?
    Nobody,     \* decided_by IS NULL
    NoStep      \* a worker that works on no step

\* A step is named by its request and its order in the chain.
StepIds == UNION {{r} \X DOMAIN Route[r] : r \in Requests}

\* Every caller routes at least one step that is not skipped: the only caller,
\* onboarding's resolveApprovalSteps, never sets Skip at all.
ASSUME RouteAssumption ==
    /\ Route \in [Requests -> Seq(Positions)]
    /\ Holders \in [Positions -> SUBSET Users]
    /\ \A r \in Requests : /\ Route[r] # <<>>
                           /\ DOMAIN Route[r] \ Skipped[r] # {}
ASSUME SentinelAssumption ==
    /\ CanAbort \in BOOLEAN
    /\ Nobody \notin Users
    /\ NoStep \notin StepIds

VARIABLES
    reqStatus,  \* approval_request.status ("none": no row yet)
    step,       \* approval_step.status ("absent": no row yet)
    decidedBy,  \* approval_step.decided_by
    decisions,  \* history: every decision UPDATE that was committed
    announced,  \* <<request, outcome>> pairs the terminal handlers received
    call,       \* the statement each worker is about to run, and its locals
    died        \* requests for which some handler died half-way

approvalVars == <<reqStatus, step, decidedBy, decisions, announced, call, died>>

Actions == {"approve", "reject", "return"}
Outcomes == {"approved", "rejected", "returned"}
Decided == {"approved", "rejectd", "returned"}

\* The position a step is routed to, and the steps of one request.
PositionOf(s) == Route[s[1]][s[2]]
StepsOf(r) == {s \in StepIds : s[1] = r}

NoCall == [pc |-> "idle", step |-> NoStep, user |-> Nobody, act |-> "approve",
           out |-> "approved"]

Idle(w) == call[w].pc = "idle"
At(w, label) == call[w].pc = label
Goto(w, label) == call' = [call EXCEPT ![w].pc = label]
Return(w) == call' = [call EXCEPT ![w] = NoCall]

\* (Mutant: the action is stored as it came.)
StatusIsAction(act) == act

\* RecordDecision's newStatus: the action plus "d", with one special case.
StatusAfter(act) ==
    CASE act = "approve" -> "approved"
      [] act = "reject"  -> "rejectd"
      [] act = "return"  -> "returned"

\* GetNextPendingStep finds a row.
HasPendingStep(r) == \E s \in StepsOf(r) : step[s] = "pending"

ApprovalInit ==
    /\ reqStatus = [r \in Requests |-> "none"]
    /\ step = [s \in StepIds |-> "absent"]
    /\ decidedBy = [s \in StepIds |-> Nobody]
    /\ decisions = {}
    /\ announced = {}
    /\ call = [w \in Workers |-> NoCall]
    /\ died = {}

-----------------------------------------------------------------------------
(***************************************************************************)
(* CreateRequest: the request row, then one INSERT per step.               *)
(***************************************************************************)
CreateRequest(w, r) ==
    /\ Idle(w)
    /\ reqStatus[r] = "none"
    /\ reqStatus' = [reqStatus EXCEPT ![r] = "pending"]
    /\ call' = [call EXCEPT ![w] = [NoCall EXCEPT !.pc = "insert",
                                                  !.step = <<r, 1>>]]
    /\ UNCHANGED <<step, decidedBy, decisions, announced, died>>

InsertStep(w) ==
    /\ At(w, "insert")
    /\ LET s == call[w].step
           status == IF s[2] \in Skipped[s[1]] THEN "skipped" ELSE "pending"
       IN  /\ step' = [step EXCEPT ![s] = status]
           /\ IF s[2] = Len(Route[s[1]])
              THEN Return(w)
              ELSE call' = [call EXCEPT ![w].step = <<s[1], s[2] + 1>>]
    /\ UNCHANGED <<reqStatus, decidedBy, decisions, announced, died>>

(***************************************************************************)
(* RecordDecision.  The web client posts a step under its own request      *)
(* (GetQueue hands it both ids), so a call names one step.                 *)
(***************************************************************************)
\* (Mutant: the status is not looked at.)
ReadAnyStep(w, s, u, a) ==
    /\ Idle(w)
    /\ step[s] # "absent"
    /\ call' = [call EXCEPT ![w] = [NoCall EXCEPT !.pc = "authorise", !.step = s,
                                                  !.user = u, !.act = a]]
    /\ UNCHANGED <<reqStatus, step, decidedBy, decisions, announced, died>>

\* SELECT the step; any other status ends the call with ErrStepNotPending.
ReadStep(w, s, u, a) ==
    /\ Idle(w)
    /\ step[s] = "pending"
    /\ call' = [call EXCEPT ![w] = [NoCall EXCEPT !.pc = "authorise", !.step = s,
                                                  !.user = u, !.act = a]]
    /\ UNCHANGED <<reqStatus, step, decidedBy, decisions, announced, died>>

\* (Mutant: the positions are fetched and not compared.)
AuthoriseAnyone(w) ==
    /\ At(w, "authorise")
    /\ Goto(w, "record")
    /\ UNCHANGED <<reqStatus, step, decidedBy, decisions, announced, died>>

\* GetActivePositionsForUser contains the step's position.
Authorise(w) ==
    /\ At(w, "authorise")
    /\ call[w].user \in Holders[PositionOf(call[w].step)]
    /\ Goto(w, "record")
    /\ UNCHANGED <<reqStatus, step, decidedBy, decisions, announced, died>>

\* ErrUnauthorized.
Refuse(w) ==
    /\ At(w, "authorise")
    /\ call[w].user \notin Holders[PositionOf(call[w].step)]
    /\ Return(w)
    /\ UNCHANGED <<reqStatus, step, decidedBy, decisions, announced, died>>

\* (Mutant: the switch has no case for a rejection and falls into approve.)
RecordWithoutReject(w) ==
    /\ At(w, "record")
    /\ LET c == call[w]
       IN  /\ step' = [step EXCEPT ![c.step] = StatusAfter(c.act)]
           /\ decidedBy' = [decidedBy EXCEPT ![c.step] = c.user]
           /\ decisions' = decisions \cup
                  {[step |-> c.step, user |-> c.user, act |-> c.act]}
           /\ call' = [call EXCEPT
                  ![w].pc = IF c.act = "return" THEN "finalise" ELSE "next",
                  ![w].out = IF c.act = "return" THEN "returned" ELSE "approved"]
    /\ UNCHANGED <<reqStatus, announced, died>>

\* The UPDATE names the step's id and nothing else: it overwrites whatever a
\* concurrent call has decided since ReadStep.
RecordStepDecision(w) ==
    /\ At(w, "record")
    /\ LET c == call[w]
       IN  /\ step' = [step EXCEPT ![c.step] = StatusAfter(c.act)]
           /\ decidedBy' = [decidedBy EXCEPT ![c.step] = c.user]
           /\ decisions' = decisions \cup
                  {[step |-> c.step, user |-> c.user, act |-> c.act]}
           /\ call' = [call EXCEPT
                  ![w].pc = IF c.act = "approve" THEN "next" ELSE "finalise",
                  ![w].out = IF c.act = "reject" THEN "rejected"
                             ELSE IF c.act = "return" THEN "returned" ELSE "approved"]
    /\ UNCHANGED <<reqStatus, announced, died>>

\* (Mutant: ErrNoRows is an error like any other.)
NextPendingStepFails(w) ==
    /\ At(w, "next")
    /\ IF HasPendingStep(call[w].step[1]) THEN Goto(w, "progress") ELSE Return(w)
    /\ UNCHANGED <<reqStatus, step, decidedBy, decisions, announced, died>>

\* GetNextPendingStep after an approval: another step waits, or all are decided.
NextPendingStep(w) ==
    /\ At(w, "next")
    /\ Goto(w, IF HasPendingStep(call[w].step[1]) THEN "progress" ELSE "finalise")
    /\ UNCHANGED <<reqStatus, step, decidedBy, decisions, announced, died>>

MarkInProgress(w) ==
    /\ At(w, "progress")
    /\ reqStatus' = [reqStatus EXCEPT ![call[w].step[1]] = "in_progress"]
    /\ Return(w)
    /\ UNCHANGED <<step, decidedBy, decisions, announced, died>>

\* finalise sets the status whatever it is by now ...
Finalise(w) ==
    /\ At(w, "finalise")
    /\ reqStatus' = [reqStatus EXCEPT ![call[w].step[1]] = call[w].out]
    /\ Goto(w, "handlers")
    /\ UNCHANGED <<step, decidedBy, decisions, announced, died>>

\* ... and calls the registered terminal handlers.
FireHandlers(w) ==
    /\ At(w, "handlers")
    /\ announced' = announced \cup {<<call[w].step[1], call[w].out>>}
    /\ Return(w)
    /\ UNCHANGED <<reqStatus, step, decidedBy, decisions, died>>

\* The handler dies: what it has committed stays, the rest never happens.
Abort(w) ==
    /\ CanAbort
    /\ ~Idle(w)
    /\ died' = died \cup {call[w].step[1]}
    /\ Return(w)
    /\ UNCHANGED <<reqStatus, step, decidedBy, decisions, announced>>

-----------------------------------------------------------------------------
\* The statements that follow once a call has begun, the handlers excepted.
Continue(w) ==
    \/ InsertStep(w)
    \/ Authorise(w)
    \/ Refuse(w)
    \/ RecordStepDecision(w)
    \/ NextPendingStep(w)
    \/ MarkInProgress(w)
    \/ Finalise(w)

Decide(w) == \E s \in StepIds, u \in Users, a \in Actions : ReadStep(w, s, u, a)

Next ==
    \E w \in Workers :
        \/ \E r \in Requests : CreateRequest(w, r)
        \/ Decide(w)
        \/ Continue(w)
        \/ FireHandlers(w)
        \/ Abort(w)

Spec == ApprovalInit /\ [][Next]_approvalVars

\* A goroutine that serves a request runs to its end unless it dies.
FairSpec ==
    /\ Spec
    /\ \A w \in Workers : WF_approvalVars(Continue(w) \/ FireHandlers(w))

-----------------------------------------------------------------------------
Calls == [pc : {"idle", "insert", "authorise", "record", "next", "progress",
                "finalise", "handlers"},
          step : StepIds \cup {NoStep},
          user : Users \cup {Nobody},
          act : Actions,
          out : Outcomes]

\* The values the code stores.  For a rejected step that is "rejectd": RecordDecision
\* appends a "d" to the action (approval.go:286), although its comment on that line,
\* approval.go:44 and migration 00010:28 name the status "rejected", and the page of a
\* request (web/app/approvals/[id]/page.tsx:516) looks for that.  The invariant says
\* what is stored, not that the two agree; the server compares a step's status with
\* "pending" alone, so the other properties do not depend on the difference.
TypeOK ==
    /\ reqStatus \in [Requests -> {"none", "pending", "in_progress"} \cup Outcomes]
    /\ step \in [StepIds -> {"absent", "pending", "skipped"} \cup Decided]
    /\ decidedBy \in [StepIds -> Users \cup {Nobody}]
    /\ decisions \subseteq [step : StepIds, user : Users, act : Actions]
    /\ announced \subseteq Requests \X Outcomes
    /\ call \in [Workers -> Calls]
    /\ died \subseteq Requests

\* A step's row tells a true story even when two calls decide it at once
\* (RecordDecision overwrites): the decision and the decider it shows are those
\* of one and the same call, made by a user who holds the step's position.
RowShowsOneDecision ==
    \A s \in StepIds : step[s] \in Decided =>
        \E d \in decisions : /\ d.step = s
                         /\ d.user = decidedBy[s]
                         /\ d.user \in Holders[PositionOf(s)]
                         /\ StatusAfter(d.act) = step[s]

\* The decision that explains an outcome of request r.
HasDecision(r, act) == \E d \in decisions : d.step[1] = r /\ d.act = act

\* No request reaches an outcome, and no terminal event is announced to the
\* owning module, without a recorded decision of that kind on the request.
OutcomeHasDecision ==
    \A r \in Requests :
        /\ reqStatus[r] \in {"approved", "in_progress"} => HasDecision(r, "approve")
        /\ reqStatus[r] = "rejected" => HasDecision(r, "reject")
        /\ reqStatus[r] = "returned" => HasDecision(r, "return")
        /\ <<r, "approved">> \in announced => HasDecision(r, "approve")
        /\ <<r, "rejected">> \in announced => HasDecision(r, "reject")
        /\ <<r, "returned">> \in announced => HasDecision(r, "return")

\* A decided step never becomes pending again and a skipped step is never
\* decided, however the calls that race on it interleave.
StepsNeverReopen ==
    [][\A s \in StepIds :
          /\ step[s] \in Decided => step'[s] \in Decided
          /\ step[s] = "skipped" => step'[s] = "skipped"]_approvalVars

\* Once every step of a request is decided its owner hears of it, unless a
\* handler died: RecordDecision writes its own step before it looks for
\* others, so of two approvers who decide the last two steps at once at least
\* one sees that nothing is pending.
DecidedIsAnnounced ==
    \A r \in Requests :
        (\A s \in StepsOf(r) : step[s] \notin {"absent", "pending"})
            ~> (r \in died \/ \E o \in Outcomes : <<r, o>> \in announced)

\* "No more pending steps - all approved", says the comment at approval.go:322 of
\* the branch that finalises "approved".  The branch looks for a pending step and
\* not at how the others were decided, nor at the status the request has by then.
ApprovedMeansAllApproved ==
    \A r \in Requests : reqStatus[r] = "approved" =>
        \A s \in StepsOf(r) : step[s] \in {"approved", "skipped"}

=============================================================================

# PageOS: models, checks and proofs

PageOS is the operations platform of a wealth manager: one Go API
(`src/cmd/api`, `src/internal/...`) over PostgreSQL (`src/db`), and a web client
in TypeScript (`src/web`). This directory holds TLA+ models of the parts whose
correctness depends on the order in which things happen, the TLC configurations
that check them, and TLAPS proofs of every safety property they check.

Two facts about the code shape every model.

* Apart from a few places that open a transaction, **each store call commits on
  its own**. An HTTP handler is a little sequential program of SQL statements, any
  number of handlers run at the same time, and each may end after any statement
  (the process restarts, the client goes away and cancels the request's context,
  the database refuses a statement). The models give each handler in progress a
  *worker* with a program counter; an action is one statement, with the Go code up
  to the next one.
* The pages of the web client **read, show and send back**: what a click asks for
  rests on an answer of any age, two tabs or users click at once, and no request
  is ever cancelled. Where a call's inputs come from a page, the model lets them be
  whatever such a page may hold.

## 1. Inventory

| Component | State | Operations | Talks to | What is hard |
|---|---|---|---|---|
| Approval core (`internal/approval`) | `approval_request`, `approval_step` | CreateRequest, RecordDecision, finalise | asks organization for a user's positions; calls the owning module's terminal handler synchronously | no transaction; decisions on one step race; the UPDATE names the id only; a handler may die before finalise |
| Onboarding, drafting (`internal/onboarding`) | `onboarding_case`, `application_data`, `requirement_instance` | CreateCase, SaveApplicationData, AttachDocument, SubmitCase (gate) | documents (attach), web client | rows are rewritten one at a time while documents are attached; check-then-act in SubmitCase |
| Onboarding, review | the case's state and flag, `compliance_check`, `client.status` | SubmitCase (rest), HandleApprovalEvent, RecordComplianceCheck, ApproveCase, RejectCase, ReturnCaseToWM, ReopenCase, FinalizeCase | opens requests in the approval core and is called back by it; queues e-mail | two independent authorities (approvers; compliance and finance) move one state variable with unguarded UPDATEs |
| Onboarding, RM assignment | `rm_assignment` links | AssignRM, UnassignRM | — | two statements under a partial unique index |
| Notification outbox (`internal/notification`) | `outbox` rows | Enqueue, ClaimPending, Send, MarkSent/MarkFailed, ResetStuck | SMTP server | several instances; crashes between claim, send and mark; claims that expire |
| In-app notices, reminder scheduler | `inapp` rows | insert, mark read, daily reminders | approval core, onboarding | duplicates with two instances |
| General ledger and periods (`internal/finance/service.go`) | `journal_header`, `journal_line`, `period`, chart of accounts | create, post, submit, approve, reject, reverse, delete a journal; create a period, set its status | payables, receivables, assets, payroll, portfolio post through it | reads outside the transaction that writes; a period shut between check and UPDATE; several period rows for a month |
| Payables, receivables, fixed assets (`internal/finance`), payroll (`internal/payroll`) | `payable`, `receivable`, `receivable_receipt`, `asset`, `asset_dep_run`, `payroll.run` | approve, pay, raise, receive, register, depreciate, dispose, approve a run | the ledger: CreateJournal, then PostJournal, then their own UPDATE; CreateAsset inserts a posted journal itself | a journal and a document change in separate transactions; statuses and amounts derived from stale reads; the journal page can post, reject or delete the draft in between |
| Reconciliation (`internal/reconciliation`) | `reconciliation_run`, `reconciliation_match` | AutoMatch, manual match, mark, unmatch, payout check, submit, review, close, auto-close; imports of lines and transactions | bank statements, ledger | items imported after AutoMatch has read; delete-then-insert on rows that stand for two items; a gate that counts rows; two status columns written by two UPDATEs |
| Appraisal (`internal/appraisal`) | `submission` (status, ratings, target status), `individual_kpi`, the cycle's phase | ApplyBSCAction, SaveIndividualScorecard, SeedIndividualFromDept, SetTargetStatus, SetCyclePhase, the legacy review | web client | the lock is held by one connection and the row read by another; the scorecard has no lock; a GET seeds it |
| Identity, positions (`internal/identity`, `internal/organization`) | users, sessions, positions, capabilities | login, logout, /me, /me/positions, administration | read by everybody | — |
| Session state of the web client (`web/lib/auth.tsx`, `position.tsx`) | user, subsidiary, positions, active position, two loading flags, localStorage | boot, login, logout, choice of a subsidiary and of a role to view as | identity, organization | answers in any order; saved choices of an earlier user; flags cleared by callbacks only |
| Payout (`internal/payout`) | `payment_request`, steps, instalments | create, submit, act on a step, e-mail poller, scheduler | organization, mail | (nothing after the draft can run, see "Not modelled") |
| Portfolio (`internal/portfolio`) | holdings, orders, corporate actions | trades, liquidation, NAV | ledger | multi-statement updates; create-then-post as in the sub-ledgers |
| HR and leave | requests, balances | status sequences | organization | balance check then act |
| Budget, FX, cash flow, reports; CRM, brokers, internal audit | single rows | upserts, queries | ledger (reads) | nothing beyond one statement |
| Documents, Microsoft Graph, audit | objects, mails, audit rows | upload, proxy, append | external services | audit uses a second pool connection inside transactions |
| API process (`cmd/api`, `internal/platform`) | connection pool, tickers | wiring, shutdown | everything | handlers that hold one connection and wait for another |
| Other pages of the web client | react-query caches | presentation | API | — |

What makes the modelled components correct:

* *Approval core.* A step's row tells one true story (who decided what, and was
  entitled to); an outcome or a terminal event never exists without a decision of
  that kind; a decided step is never reopened; when all steps are decided the
  owner hears of it, unless a handler died.
* *Case intake.* A filed case rests on evidence for every required item; one
  draft is filed once; a PEP declaration raises the flag that routes the case to
  the managing director.
* *Case review.* A client becomes active for a reason; a case in review has a
  complete chain; a submitted case moves on; full approval activates the client.
* *Outbox.* The claim is exclusive until it lapses; a final status is true; every
  committed message is handed to the mail server or its failure recorded.
* *Ledger.* The booked journals are an append-only book of balanced or mirrored
  entries; the mark "reversed" is exact.
* *Sub-ledgers.* The books stay append-only with balanced or mirrored entries, though
  CreateAsset books past PostJournal's checks; what a document says happened has been
  posted; documents never claim more than was posted for them, and exactly that (entries
  reversed by hand included) until two calls on one document overlap, one dies half-way
  or somebody posts its draft by hand.
* *Reconciliation run.* No row open means that nothing AutoMatch has read is
  unresolved, unless a call tore a pair or a statement failed; a run that waits for
  review can be reviewed. (Items imported later are not counted: `recon_closed`.)
* *Scorecard.* No update of the appraisal row is lost; what HC is asked to finalise is
  rated for every KPI, unless HR emptied the form or the scorecard was replaced since;
  the weights total 99 to 101, unless two calls that write a scorecard overlap.
* *Web session.* The position in use is one on offer; once the latest request is
  answered what is on offer is the list of the user and subsidiary on screen, unless an
  earlier answer overtook it or it carried another session's cookie; loading ends,
  unless the page was loaded without a network.

`PROJECT.json` lists every component with its status, and the hazards of the
code at their lines with the properties that cover them.

## 2. Modules

| Module | Models | Correspondence |
|---|---|---|
| `Approval` | `internal/approval/approval.go` over migration 00010 | `call[w].pc` is the next statement of worker `w`: `insert` (CreateRequest's loop), `authorise` (GetActivePositionsForUser), `record` (RecordStepDecision), `next` (GetNextPendingStep), `progress` (MarkInProgress), `finalise` and `handlers` (finalise). `ReadStep` is the SELECT at the start of RecordDecision. `Abort` is a death between statements. `decisions`, `announced`, `died` are history variables. |
| `CaseIntake` | the drafting half of `internal/onboarding/service.go`, `domain/requirements.go` | `op[w].pc`: `materialise` (one upsert per item of materialiseRequirements), `save` and `flag` (SaveApplicationData), `attach` (AttachDocument), `file` (SubmitCase's guarded UPDATE). The form is a model value; what the code reads of it is `Accepts`, `Pep` and `Triggered`. |
| `CaseReview` | the reviewing half, EXTENDS `Approval` | `task[w]` is the onboarding side of a worker, `call[w]` its approval side: SubmitCase calls CreateRequest and goes on when that has returned; `TerminalEvent` is `FireHandlers` and `HandleApprovalEvent` in one step, since finalise calls the handler synchronously and the handler is one transaction. |
| `Outbox` | outbox.go, dispatcher.go, sender.go, the outbox queries | `pc[d]` is dispatcher `d`'s loop: `idle` (ResetStuck next), `claim`, `send`, `mark`. The five-minute age of a claim is the flag `stale`, which may come up at any time. |
| `MailPromise` | abstract specification of the outbox | accepted, handed over, given up; every message is settled. |
| `Ledger` | journals and periods of internal/finance/service.go | `op[w]` is a worker between its read and its write (`post`, `approve`, `reverse`); all other operations are one statement or one transaction. Totals are integers in kobo; the float comparison with 0.01 accepts or refuses a difference of one kobo. |
| `Book` | abstract specification of the ledger | a set of entries that only grows by balanced or mirrored ones. |
| `SubLedger` | payable.go, receivable.go, asset.go, payroll ApproveRun; EXTENDS `Ledger` | `call[w].stage`: `read` (CreateJournal next), `drafted` (PostJournal's reads), `checked` (its UPDATE), `booked` and `wrote` (the document's own statements). The journal is an operation of `Ledger`: `Draft` is CreateJournal, `Check` and `PostMade` are the two halves of PostJournal. `CreateAsset` is one transaction and writes the ledger's tables itself; `ThroughLedger` is everything else. `PageStep` is everything the journal and period pages do meanwhile, to the drafts of these calls too. `madeFor` (which call a journal is for) and `disturbed` (documents with overlapping or dying calls) are history variables. |
| `ReconRun` | one run of internal/reconciliation and the buttons of its pages | `call[c].at` is the next statement of the call of tab `c`: `clear`, `record` (RecordManualMatch), `list`, `delete`, `bank`, `internal` (UnmatchRecord), `stamp`, `expose` (CrossCheckPayoutInstructions, line after line), `count`, `ask`, `status`, `review` (SubmitRun, ReviewRun, CloseRun, TryAutoClose). `arrived` holds the items in the database, which `Import` adds to at any time, and `read` those AutoMatch has read. `plan` holds the rows AutoMatch has still to insert; it is any one-to-one pairing of lines and transactions. |
| `Scorecard` | one employee's appraisal in one cycle | `call[h].at` is the next statement of handler `h`: `phase` (the check in bscAction), `lock`, `read`, `commit` (ApplyBSCAction), `delete`, `replace` (SaveIndividualScorecard), `look`, `fill` (SeedIndividualFromDept), `target`, `update` (SetTargetStatus). `LegacySelf` and `LegacyReview` are the question-based pages, which set the status at any stage. `lock` is PostgreSQL's row lock. A KPI id stands for all KPIs inserted by one save or seeding and `weight` for their total: 100 when saved, 99 to 101 when seeded from a department's. |
| `ClientSession` | auth.tsx, position.tsx, the page frame, the login page, middleware.ts | `flows` are the runs of `init` and `login` that await an answer (`at` is the path `init`'s closure keeps), `fetches` the requests for positions in flight; `Follow` is the effect of position.tsx that runs when the user or the subsidiary changes, taken with the step that changes them; `saved` is localStorage, `cookie` the session the browser sends. |
| `MCApproval`, `MCCaseIntake`, `MCCaseReview`, `MCLedger`, `MCSubLedger`, `MCReconRun`, `MCScorecard`, `MCClientSession` | instances for TLC | constants, symmetry sets and, in `MCSubLedger`, the constraint `Bounded`. (`Outbox` needs no such module.) |
| `ApprovalProofs`, `CaseIntakeProofs`, `CaseReviewProofs`, `OutboxProofs`, `FinanceProofs` (of `Ledger` and `SubLedger`), `ReconRunProofs`, `ScorecardProofs`, `ClientSessionProofs` | theorems and proofs | see section 5. |

`SubLedger` and `CaseReview` are the compositions: the first EXTENDS `Ledger`, drives
it, and is shown to implement `Book` with it; the second EXTENDS `Approval` and drives
that.

Definitions commented "(Mutant: ...)" are plausible bugs; nothing in the
specifications uses them. `PROJECT.json` names, for each property, the one that
breaks it.

## 3. Runs

| Run | Instance and bounds | Shows |
|---|---|---|
| `approval` | one request, three steps (one skipped), two users, two workers, deaths | the invariants and action property of the approval core, and under fairness `DecidedIsAnnounced`. Two workers are all that a race on one step or on the last two steps needs; the skipped step in the middle makes "all decided" differ from "all approved". |
| `approval_all_approved` | the same chain, one worker, no deaths | **violated**: finalise with "approved" does not mean that all steps are approved, as the comment there says. The trace needs no race: step 1 is rejected, which finalises the request "rejected" and leaves step 3 pending; step 3 is approved, nothing is pending, and the request becomes "approved". |
| `intake` | one case, two workers, items of all three kinds (document, conditional document, consent), a plain form and one of a PEP who meets the condition, one return | the evidence behind a filed case, one filing per draft, the PEP flag. |
| `review` | one case, one request over a two-step chain, two workers, two compliance or finance calls, deaths | activation has a cause; a case in review has its chain. Two calls are what the shortest path through finance takes (approve, finalise) and leave room for one call that undoes another. |
| `review_live` | the same with a chain of one step | under fairness, a submitted case moves on and a fully approved request activates the client. |
| `outbox` | two messages, two dispatchers, batches of two, two attempts, one fault (crash or failed mark) | exclusive claims, true statuses, refinement of `MailPromise` with its liveness. One fault reaches each point between claim, send and mark; the lapsing of claims is not bounded. |
| `ledger_shut` | three journals (an original and two reversals, or three originals), two workers, two months, a seeded closed period and a second row for the same month | **violated**: a posting reaches a month whose period is shut. |
| `subledger` | a payable, a payroll run, an invoice of 6 kobo of which 2 are withheld, an asset of cost 5 and salvage value 1 with a charge of 3 a month (a whole charge and a cut-off one), registered in the run; journals users enter, one kobo out of balance or two; two workers, three journals, amounts of 4, a month that may get a period row and have it closed | what documents say was posted, is not more than that, and exactly that while undisturbed; what is shown paid is cleared; the mark "reversed" is exact; refinement of `Book`, for the ledger alone and with the sub-ledgers at work. The amounts are the smallest that tell apart paid, partial and one kobo short, a whole charge and a cut-off one, gain and loss. |
| `recon` | two lines, one transaction, both lines naming a payout instruction, two tabs, three calls, one fault, at most one item imported late | the type of the rows, the gate and the sign-off. One line can be paired and the other not; a pair that a call tears apart needs one more; three calls are a submission, a review and one that interferes; one fault stops a call between any two statements or makes one INSERT fail. |
| `recon_closed` | one tab, no faults, calls after AutoMatch is through, at least one item read | **violated**: a close seals a run with items unresolved (a line that was imported after AutoMatch), which the comment at CloseRun excludes. |
| `scorecard` | two handlers, two scorecards, four calls | no lost update, complete agreed ratings with the two named exceptions, the total of the weights. Four calls are a seeding and the path through self, manager and HC; HR's actions and the legacy pages, which are not counted, leave out steps of it and so make room for a call that interferes. |
| `session` | two users, one of them the group administrator of one subsidiary and the other a member of two; lists that differ by user and subsidiary; two sign-ins, one switch of subsidiary or of role, one reload or expired session | the three invariants and two liveness properties of the client's session state. Two sign-ins are a sign-in after another user's sign-out. |

Bounds that are guards in the models: `MaxReturns` (how often a case comes back,
CaseIntake), `MaxReviews` (calls of compliance and finance, CaseReview),
`MaxFaults` (Outbox: crashes and failed marks; ReconRun: failed statements and
dead handlers; ClientSession: reloads and ended sessions), `MaxCalls` (calls begun,
ReconRun and Scorecard), `MaxSignIns` and `MaxSwitches` (ClientSession), `Dates`
and `Kpis` (marked as bounds where they are declared). The other bounds are the
sizes of the constant sets, and the constraints of `MCReconRun` (`OneLate`: how many
items are imported late; `MatchedFirst` and `SomethingRead` pick the behaviours of
`recon_closed`) and of `MCSubLedger`. That one, `Bounded`, has a behaviour's calls be
about one document, or have users enter journals of their own: calls on different
documents share no row of their own, only the ledger. With a document the clock stands
(a call is given its month), a month is shut by closing it (a locked one is treated
alike by every check), and a draft is sent to approval by hand, and the month closed, in
the behaviours about payables and payroll runs only (`Draft`, `Check` and `PostMade` are
the same for a call of any kind). Symmetry is used in `recon`, `scorecard`, `subledger`
and `ledger_shut`, which check no liveness.

Deadlock is checked for the outbox, whose dispatchers never stop, and for the
scorecard, whose cycle may change its phase at any time. The other systems really
stop: all rows that may exist are in a final state, or the bounded calls, clicks and
sign-ins are used up; their configurations say `CHECK_DEADLOCK FALSE`.

The three violated properties are quotations: PROJECT.json gives for each the line
of the comment or migration and the line of code that disagrees.

### Disagreements without a run of their own

The code and what the repository says of it also differ in these places. The
models do what the code does.

* A rejected step is stored as `rejectd` (approval.go:286 appends "d" to the action;
  the documented values are at approval.go:44 and in migration 00010:28, and
  approvals/[id]/page.tsx:516 asks for "rejected"). `Approval!TypeOK` lists what the
  code stores.
* The first step of a request may be decided while CreateRequest is still inserting the
  others (approval.go:153), and the request finalised "approved" before its chain
  exists. What does hold is that a case in review has its chain (`InReviewHasChain`).
* SubmitCase may file an incomplete case (onboarding/service.go:488 reads the
  requirement rows before the UPDATE; onboarding-slice-plan.md:160 demands that all
  required and triggered items are satisfied). What does hold is
  `FiledRestsOnEvidence`.
* Compliance can approve a case that has no compliance check (service.go:763;
  onboarding-slice-plan.md:204).
* A failed send is never tried again (dispatcher.go:61 marks it "failed", which no
  query claims; outbox.go:3 says "At least once"). What does hold is `KeepsPromise`.
* SubmitRun "fails if genuine unmatched items remain" (reconciliation.go:557, and
  CloseRun and TryAutoClose say the like), but all three count rows. A manual match that
  takes one item out of a pair leaves the other in no row; a line imported after
  AutoMatch has none, or one of status "exception" after a payout check; and a row that
  is opened between the count and the UPDATE is not looked at again.
  `ZeroCountMeansResolved` says what the count is worth, `recon_closed` what it is not.
* "exception" and "pending_review" are stored (reconciliation.go:1654, :568), and the
  comments in migration 00008 (lines 90 and 75) list neither.
* The table of target transitions calls "accepted" terminal (bsc.go:500), but is checked
  against a status read before the UPDATE (SetTargetStatus, :520): of an acceptance and
  a rejection that overlap, the second to write wins, and a save that has read the
  status before sets an accepted target again.
* Seeding a scorecard is called idempotent (bsc.go:283); two seedings that overlap
  insert it twice, and the weights total about 200. The weights are to total 100
  (bsc.go:323); those of a department's KPIs, which seeding copies, are accepted from 99
  to 101 (http/bsc.go:180).
* SaveIndividualScorecard replaces the KPIs at every stage and without the row's lock
  (bsc.go:341), so a submission to HC may carry ratings for KPIs that are gone.
* The pages say that submitting locks the agreed scores ([cycleId]/page.tsx:430) and
  finalising locks the appraisal (hc/page.tsx:453); the legacy self-assessment and
  review pages and an HR user who saves scores still change the row at every stage.
* Every receipt of an invoice posts the whole withholding tax, and an invoice whose
  gross is cleared by a net receipt and the tax stays partial (receivable.go:250-255
  says the client pays net of the tax and the gross "should be fully cleared"; the status
  compares the cash only). What does hold is the converse, `PaidMeansCleared`.
* position.tsx:142 describes a load error for a failed request; an answer with an
  error status is turned into an empty list (position.tsx:203), which is demo mode.
* After a logout the client keeps the positions of the user before until the next
  list arrives (auth.tsx:122 clears localStorage so that no stale role is left). Two
  sequences leave a wrong list for good, for nothing asks again: an answer to an earlier
  request that lands last (`Overtaken`), and the answer to the GET /auth/me of a page
  load that lands after another user has signed in (`OthersCookie`).

## 4. Fairness

* `Approval`, `CaseIntake`, `CaseReview`: weak fairness for a worker that is in
  the middle of a call. A goroutine that serves a request is scheduled and its
  statements return; if it dies, `died` (or `stalled`) records it, and the
  liveness properties make an exception for exactly those requests. Starting a
  call is never fair: nobody has to approve anything.
* `Outbox`: weak fairness for each dispatcher's loop (the ticker keeps ticking,
  SMTP sends and SQL statements return) and for the passing of five minutes over
  a claim. `net/smtp.SendMail` sets no timeout, so that a send returns is an
  assumption about the server. Crashes and failed marks are not fair; a crashed
  dispatcher is restarted by the container's policy.
* `ClientSession`: weak fairness for the answers to the client's requests (an answer
  or a failure comes for every fetch: browsers give up on a connection in the end)
  and for React's effects. The kind of outcome is not fair, nor are clicks, reloads
  and the end of a session. `PageSettles` makes one exception: when GET /auth/me
  finds no network, `init` rejects, nobody calls it again, and the page stays blank
  until it is reloaded (`DeadStart`).
* `Ledger`, `SubLedger`, `ReconRun` and `Scorecard` state safety only, without
  fairness.

## 5. Proofs

`tlapm` proves, for all values of the constants under the named assumptions of the
modules, every invariant and every safety action property that a passing run checks. TLC
evaluates the assumptions for the constants of each run, and found each inductive
invariant below to hold on the run's instance before it was proved. The assumptions say
what kind of value a constant is (`Route` is a non-empty chain of positions for each
request, `Items` a sequence of different item keys) and that there is at least one case;
none bounds the number of cases, requests, workers, documents, calls or faults.

The argument has the same shape everywhere. A property relates rows that different
statements write, so it is not inductive: between two statements of a handler the truth
is split between a row and a handler's locals. The strengthening says what a handler
at each statement may rely on, and the hard step is always that the *other* handlers'
statements do not take it away.

**`ApprovalProofs`**

* `TypeCorrect`. `TypeOK` is not inductive: `WorkerOK` adds that a worker inside a
  call works on an existing step id and, past CreateRequest, for a known user.
* `RowShowsOneDecisionHolds`. The strengthening `Authorised` says that the check
  made at `authorise` still holds at `record`; `RecordStepDecision` then writes a
  row and the decision that explains it in one step.
* `OutcomeHasDecisionHolds`. `Backed` is the set of (request, outcome) pairs some
  committed decision justifies. It only grows; `OutcomeInv` says that statuses,
  events *and the workers on their way to them* are inside it. The last part is
  the strengthening: between the UPDATE and finalise the outcome exists only in a
  worker's locals.
* `StepsNeverReopenHolds`. `ChainInv` says that the worker inserting a chain is the
  only one for that request, that from its order on no step exists, and that a
  decision under way is about a step that was pending. Without it InsertStep could
  overwrite a decided step.
* `DecisionNotForgotten`: the safety half of `DecidedIsAnnounced`. Of the two approvers
  who decide the last two steps, the later UPDATE sees the earlier one, so one of them
  finds no pending step (`DecisionInHand`). What fairness adds is that it goes on.

**`CaseIntakeProofs`**

* `TypeCorrect`. The locals are typed and the loop's index stays within `Items`.
* `FiledOnEvidence` (`FiledRestsOnEvidence`). A row's status is no invariant, since each
  save computes it anew; the evidence for it is. `EvidenceInv` says that a satisfied row
  has it, `ConsentInv` that a save which writes rows has stored its form first,
  `GateInv` that a submission past the gate has it for everything required.
* `FiledOnce` (`OneFilingPerDraft`). `FilingInv` counts: filings are returns, and one
  more while the case is filed.
* `PepNotForgotten`: the safety half of `PepRaisesFlag` (`PepInv`).

**`CaseReviewProofs`** (EXTENDS `ApprovalProofs`)

* `ReviewRunsCore`: each step of the composition is a step of `Approval` or leaves its
  variables alone, so `ReviewSpec => Spec` and every theorem of `ApprovalProofs` holds of
  the requests of onboarding cases; the invariants below use them.
* `ActivationHasCauseHolds`. The terminal event rests on `OutcomeInv` of the core;
  `FinanceInv` says that a case in pending_finance, and a finalisation that has read that
  state, has been approved by compliance.
* `InReviewHasChainHolds`. `AdvanceInv` says which rows CreateRequest has inserted when
  its caller is about to go on; rows never go away.
* `SubmittedNotForgotten` and `ApprovalNotForgotten`: the safety halves of
  `SubmittedMovesOn` and `FullApprovalActivates`, from `EventInv` (what is announced as
  approved has activated its client, for the handler is part of finalise) and the
  argument of `DecisionInHand` for the last approval.
* `ReviewTypeCorrect`, from the types of the core and of the case's variables.

**`OutboxProofs`**

* `Exclusive` (`ExclusiveUnlessLapsed`). `LeaseInv`: a row that has never gone stale and
  is in somebody's hands is in processing, in one dispatcher's hands, and has been
  delivered at most once, not at all while it waits in a batch. It is preserved because
  ClaimPending takes pending rows only and ResetStuck stale ones only.
* `StatusTrue` (`StatusIsTrue`), from `ReportInv`: who is about to mark a success has
  seen the delivery.
* `ImplementsPromise`: the initial states and steps of the outbox are those of
  `MailPromise` or stutter; `PromiseSafety` is that specification without its fairness.
* `TypeCorrect`.

**`FinanceProofs`, the general ledger**

* `LedgerTypeCorrect`, `ReversedIffMirroredHolds`. `ReversalInv` ties each
  `reversal_of` to a booked journal and a marked original; `WorkerInv` says what
  survives between a worker's read and its write: the original of a reversal stays
  booked, since no operation leaves "posted" but for "reversed".
* `LedgerImplementsBook`: initial states map to the empty book and every step
  appends or stutters. A posting relies on `WorkerInv` (totals were checked and do
  not change once the journal exists), a reversal on the original being booked.

**`FinanceProofs`, the sub-ledgers** (with `AnyTotals`: journals may have any totals in
kobo. TLC needs a finite `Totals`, so its instance lists those that can occur.)

* `SubLedgerImplementsBook`. A step of `ThroughLedger` creates a journal, checks or posts
  one, is a step of the journal or period page, or leaves the ledger's variables alone; so
  it is a step of `Ledger` or a stutter, and the ledger's lemmas carry `LedgerInv` and the
  refinement over. `CreateAsset` is no step of `Ledger`, and gets its own argument: what it
  does to the tables (`CreateEffect`) keeps `LedgerInv`, and the entry it appends balances,
  for its two sides are the one cost (`CreateAppends`). `SubReversedIffMirrored` follows
  from the same invariant.
* `StatusIsBookedHolds`. `Linked` is the strengthening: a call that is past its
  posting holds a booked journal, made for its document. It is preserved because
  a journal gets its purpose only when it is created (`PurposeKept`) and what is
  booked stays booked (`MadeGrows`, from the ledger's invariant), whatever the other
  pages do to it.
* `PaidMeansClearedHolds`. `InvoiceInv` says that the amount a receipt call has read is
  covered by what was received since, which `NothingUnbooked` bounds by what the receipt
  journals credit; this needs in turn that the row of an invoice is inserted once (the
  one `raise` call of an invoice).
* `SubTypeCorrect`, from `Shape` (which kinds of call are about which documents, and
  that a charge never exceeds the book value it was computed from) and `DocBounds`.
* `SubLedgerInvariant` is the conjunction `SubInv` they are all drawn from.
* `NothingUnbookedHolds` and `UndisturbedMatchesPostingsHolds`, with `ReconciliationInvariant`
  (`RecInv`). Both compare amounts on a document with sums over the journals made for it,
  which agree only when no call is between its posting and its last statement. `RecInv`
  therefore sums over the *settled* journals (`Settled`: those no such call holds), so
  that each statement moves one journal in or out of the sum together with the amount
  it writes (`ReceiptSums`, `DepSums`). This needs that no two calls hold one journal
  (`JournalOwn`), that the totals posted are those the call computed (`Priced`) and that
  the sets are finite (`FiniteRows`; the set of journals itself may be infinite). The
  equalities hold while a document has had one call at a time (`Alone`); `BillTidy`,
  `InvoiceTidy` and `AssetTidy` say that such a call has seen the row as it is, that each
  status the row has been through has its one journal, and that an asset's runs and
  journals are equally many.
* The sums are folds over finite sets (`SumOf`). Their laws (`SumWith`, `SumWithout`,
  `SumPart`, `SumShift`: adding or removing an element, a part, a constant added to every
  value) are proved in the same module, from the least element of a set of numbers
  (`Least`): the induction is an argument about the smallest set that is a counterexample,
  which needs no theorem with an operator parameter.

**`ScorecardProofs`**

* `TypeCorrect`, which includes that the lock belongs to exactly the call between its
  SELECT ... FOR UPDATE and the end of its transaction.
* `NoUpdateLost` (`SeenIsCurrent`): whoever writes the row waits for the lock, the
  legacy review included, since an UPDATE waits for a row lock as well; so what the
  owner has read through another connection stays current.
* `AgreedStaysComplete` (`AgreedIsComplete`): `Checked` carries what a call has
  checked up to its commit, and by `SeenIsCurrent` it is still true of the row then; that
  it is true of the scorecard, too, is what `replaced` records the end of.
* `OneScorecard` (`WeightsTotalAbout100`): `CardInv` says that while no two scorecard
  calls have overlapped there is one such call at most, that what it saw is still so, and
  that the one entry there is weighs what it was given.

**`ReconRunProofs`**

* `ZeroCountTrue` (`ZeroCountMeansResolved`). `KeptInv`: unless a call has torn a pair
  or a statement failed, every line and transaction AutoMatch has read is held by a row,
  by a row AutoMatch has still to insert, or by a call between its DELETE and its
  INSERT. `NamesInv`: what UnmatchRecord re-opens is what its DELETE removes, for ids
  are never given twice.
* `PendingReviewable` (`PendingIsReviewable`). `ColumnsInv`: of the calls that write the
  two status columns one at most is between them, unless they crossed.
* `TypeCorrect`. A row's shape follows from its status (`RowShape`), and the ids are
  different; the rows of the payout check hold the lines it has read.

**`ClientSessionProofs`**

* `LatestFits` (`LatestAnswerFits`). `LatestInv`: each change of the user or subsidiary to
  a complete pair sends a request for it, and requests are numbered, so the latest one
  is about the pair on screen whatever is still in flight. `ShownInv`: what is on offer
  is what the request it came from was answered, by the holder of its cookie. The two
  give the list of the user on screen wherever that request is the latest (not
  `Overtaken`) and the cookie is that user's (not `OthersCookie`).
* `ActiveOffered` (`ActiveIsOffered`): each branch of `Adopt` that sets the active
  position takes it from what it offers, also when a saved choice is another user's.
* `LoadingNotForgotten`: the safety half of `LoadingEnds` and `PageSettles`. While the
  positions are loading, a request for them is in flight, each outcome of which clears
  the flag; while the session is loading, a run of `init` is at work, or it has rejected
  and the start is dead (`DeadStart`, named in the theorem: auth.tsx:78 is not excluded).
* `TypeCorrect`.

Only model-checked: liveness (`DecidedIsAnnounced`, `PepRaisesFlag`, `SubmittedMovesOn`,
`FullApprovalActivates`, `LoadingEnds`, `PageSettles`, the settling of messages in
`KeepsPromise`), since fairness and ENABLED are out of the prover's reach. The safety
half of each is proved: of `KeepsPromise` that it is implemented up to the fairness, of
the others that what must still happen is in somebody's hands, or a death is on record.
That those hands go on is what TLC checks.

## 6. Abstractions to know about

* `Approval`: RecordDecision is called with a step of the request it names
  (GetQueue hands the client both ids; the code does not compare them). Holders of
  positions are constant. In-app notices and audit entries are best effort and left
  out. MarkInProgress after a finalisation is in the model and leaves a finalised
  request `in_progress`; no text of the repository says otherwise, so no property
  does.
* `CaseIntake`: the review's way back is one action (`ReturnCase`); `CaseReview`
  files a draft without looking at its rows. The two halves meet in
  `onboarding_case.state` only.
* `CaseReview`: e-mails are the subject of `Outbox`; notes and audit are left out.
* `Outbox`: the sender that runs without SMTP settings reports success and delivers
  nothing; it is a development aid and not modelled. A failing ResetStuck is a tick
  that resets nothing.
* `Ledger`: SetPeriodStatus may be refused by PostgreSQL for the type of a
  parameter in a CASE; the model lets it happen or not. The chart of accounts and
  the reports are left out. A worker that dies between read and write leaves no
  trace and needs no action.
* `SubLedger`: the lines of a journal are their totals, so withholding tax on a payable
  and the parts of a payroll are one even amount. Payables and payroll runs exist from
  the start: CreatePayable and InitiateRun are one transaction each and touch no
  journal. CreateAsset posts without a look at the period (asset.go:241), a further way
  into a shut month; the run `ledger_shut` is of the ledger alone. A client invoice is
  named before its row exists, since only the journal of a CreateReceivable that dies
  tells of it. What an asset's registration leaves to a form (its life and method) is in
  the constants `Cost`, `Salvage` and `Charge`. RecordRemittance and the portfolio's
  postings are the same create-and-post and are not instances of their own.
* `ReconRun`: which pairs the matcher finds is left open, and so are suggestions, scores
  and names. The payout check is a read of the lines and a statement or two for each, in
  any order; the columns it stamps on rows that exist are left out. Lines and
  transactions are never deleted by the code. ClassifyBankLine and
  CreateJournalFromBankLine (one row's posting data; two calls of the second book two
  journals, as two approvals of a payable do) are left out. Two runs over one period
  share no rows.
* `Scorecard`: ratings are the set of rated KPIs; scores, bands and comments are left
  out, and weights are one total per save or seeding, rounded to a percent (a seeding of
  a department without KPIs inserts nothing and is a `Die`). Ratings keep the ids of
  KPIs a save has replaced, as in the code. The cycle's own status is left out:
  bscAction never looks at it. The scorecard page reads `data.kpis` where the server
  answers `scorecard`, and asks for a DELETE route that the server does not have
  (resetToStandard); the model calls the handlers there are.
* `ClientSession`: the list of positions is a set, and which member is first is a
  fixed choice. The keys `pageos_position_*` and `pageos_demo_role` are read by the
  code and written by branches of setActive that no caller reaches, so they are never
  there. The tab starts on the page the middleware allows; a login page with a session is
  reached by a reload. The page frame shows no controls while either flag says loading, so
  out-of-order answers arise around sign-in, boot and sign-out only. React-query's
  caches are not cleared on logout and not modelled.

### Not modelled

* *Payout.* A draft's `instruction_id` is NULL and is scanned into a Go string
  (payout.go:125, store.go:45), which the driver refuses: creating a request ends in
  an error after its row is inserted, and reading it back does too. Whatever follows
  the draft cannot run, and a model of it would be a model of code nobody executes.
* *Portfolio.* Its postings repeat the pattern of `SubLedger`; NAV, performance and
  rebalancing are numerical.
* *HR and leave, RM assignment, documents, in-app notices and reminders, the
  connection pool:* candidates, in the plan.
* *CRM, brokers, internal audit, budget, FX, cash flow, Microsoft Graph, the HTTP
  layers:* single-row operations, proxies, decoding and permission checks.
* *The pages of the web client* (about 92,000 lines of TypeScript, the larger part of
  this repository by length) are layout and forms over cached queries. What they do to
  shared state is calling the handlers modelled above; what they keep themselves,
  beyond a form's fields, is `ClientSession`. The rules of the program live in the Go
  services, so the mapped lines are mostly Go, and only a small share of the
  TypeScript is mapped.

## 7. Plan

Done: `Approval`, `CaseIntake`, `CaseReview`, `Outbox` with `MailPromise`, `Ledger`
with `Book`, `SubLedger` over `Ledger`, `ReconRun`, `Scorecard`, `ClientSession`; proofs
of all their safety properties.

Next, in this order:

1. Action properties of the review (which events may move a case back), with their
   mutants and proofs.
2. `ConnectionPool`: transactions that ask the pool for a second connection while
   they hold one; property: somebody can always go on.
3. `RMAssignment` (one active manager per client, and never none without an
   unassignment) and the leave balances of HR.

------------------------------- MODULE ReconRun -------------------------------
(***************************************************************************)
(* One reconciliation run: the rows of reconciliation.reconciliation_match *)
(* and the sign-off of reconciliation.reconciliation_run, as the handlers  *)
(* of internal/reconciliation change them when pages of the web client     *)
(* call them.                                                              *)
(*                                                                         *)
(* No handler runs in a transaction and none looks at the status of the    *)
(* run, so every SQL statement is a step and the statements of different   *)
(* calls interleave.  A page offers the lines, transactions and buttons of *)
(* the answer it read last, which may be of any age: the unmatched list    *)
(* holds every line and transaction while AutoMatch has not written its    *)
(* row, and so a call may name any of them at any time.                    *)
(*                                                                         *)
(* AutoMatch runs once, when the run is created.  Statements uploaded, GL  *)
(* entries synchronised and lines pulled from the bank afterwards belong   *)
(* to the run by their account and date, and have no row in it.            *)
(***************************************************************************)
EXTENDS Naturals, FiniteSets

CONSTANTS
    Lines,       \* bank statement lines of the account and period, sooner or later
    Txns,        \* internal transactions of the account and period, likewise
    PayoutLines, \* the debits among the lines that name a payout instruction
    Tabs,        \* pages that call the handlers, one call at a time each
    None,        \* NULL
    MaxCalls,    \* bound: calls begun
    MaxFaults    \* bound: statements that fail and handlers that die

ASSUME ReconAssumption ==
    /\ None \notin Lines \cup Txns /\ Lines \cap Txns = {}
    /\ PayoutLines \subseteq Lines
    /\ MaxCalls \in Nat /\ MaxFaults \in Nat

VARIABLES
    arrived,    \* the lines and transactions that are in the database
    rows,       \* reconciliation_match
    nextId,     \* the id the next row gets
    status,     \* reconciliation_run.status
    review,     \* reconciliation_run.review_status
    plan,       \* the rows AutoMatch has still to insert
    call,       \* the call of each tab and how far its handler is
    begun, faults,
    read,       \* history: the lines and transactions AutoMatch has read
    torn,       \* history: a call deleted the row of an item it did not name
    crossed     \* history: two calls wrote the two status columns in turns

runVars == <<status, review>>
histVars == <<read, torn, crossed>>
reconVars == <<arrived, rows, nextId, runVars, plan, call, begun, faults, histVars>>

NoCall == [op |-> "none", at |-> "done", line |-> None, txn |-> None, row |-> 0, todo |-> {}]

-----------------------------------------------------------------------------
(* The table of matches *)

Row(id, l, t, s) == [id |-> id, line |-> l, txn |-> t, status |-> s]

\* (Mutant: the branch on a missing transaction is dropped.)
AutoRowsMatched(items, pairs) ==
    {[line |-> p[1], txn |-> p[2], status |-> "matched"] : p \in pairs}
    \cup {[line |-> l, txn |-> None, status |-> "matched"] :
             l \in {k \in Lines \cap items : \A p \in pairs : p[1] # k}}
    \cup {[line |-> None, txn |-> t, status |-> "unmatched_internal"] :
             t \in {k \in Txns \cap items : \A p \in pairs : p[2] # k}}

\* What AutoMatch records for a result of the matcher on the items it has read: a
\* row for each line, matched or not, and one for each transaction left over.
AutoRows(items, pairs) ==
    LET matched == {[line |-> p[1], txn |-> p[2], status |-> "matched"] : p \in pairs}
        lonely == {l \in Lines \cap items : \A p \in pairs : p[1] # l}
        left == {t \in Txns \cap items : \A p \in pairs : p[2] # t}
    IN  matched
        \cup {[line |-> l, txn |-> None, status |-> "unmatched_bank"] : l \in lonely}
        \cup {[line |-> None, txn |-> t, status |-> "unmatched_internal"] : t \in left}

\* The matcher pairs each line with at most one transaction that no earlier
\* line has taken; which ones score highest is left open.
OneToOne(pairs) ==
    \A p, q \in pairs : p # q => p[1] # q[1] /\ p[2] # q[2]

\* GetRunSummary counts rows, by status: an item without a row does not count, nor
\* does one whose only row has status "exception".
OpenRows == {r \in rows : r.status \in {"unmatched_bank", "unmatched_internal"}}

Holds(r, l, t) == (l # None /\ r.line = l) \/ (t # None /\ r.txn = t)

-----------------------------------------------------------------------------
\* CreateRun has inserted the run and AutoMatch has read what there is and matched.
ReconInit ==
    /\ arrived \in SUBSET (Lines \cup Txns)
    /\ read = arrived
    /\ \E pairs \in SUBSET ((Lines \cap read) \X (Txns \cap read)) :
           OneToOne(pairs) /\ plan = AutoRows(read, pairs)
    /\ rows = {} /\ nextId = 1
    /\ status = "draft" /\ review = "null"
    /\ call = [c \in Tabs |-> NoCall]
    /\ begun = 0 /\ faults = 0
    /\ torn = FALSE /\ crossed = FALSE

\* One INSERT of UploadStatement, UploadLedger, SyncFromJournals,
\* CreateInternalTransaction or PullStatementFromMono, which ask for no run.
Import(i) ==
    /\ i \notin arrived
    /\ arrived' = arrived \cup {i}
    /\ UNCHANGED <<rows, nextId, runVars, plan, call, begun, faults, histVars>>

\* One CreateMatch of AutoMatch, the rows of lines first.
AutoMatch(r) ==
    /\ r \in plan
    /\ r.line = None => \A q \in plan : q.line = None
    /\ rows' = rows \cup {Row(nextId, r.line, r.txn, r.status)}
    /\ nextId' = nextId + 1
    /\ plan' = plan \ {r}
    /\ UNCHANGED <<arrived, runVars, call, begun, faults, histVars>>

\* It fails: CreateRun records that in the audit trail and returns the run.
AutoMatchFails ==
    /\ plan # {}
    /\ faults < MaxFaults
    /\ plan' = {}
    /\ faults' = faults + 1
    /\ UNCHANGED <<arrived, rows, nextId, runVars, call, begun, histVars>>

-----------------------------------------------------------------------------
(* A page begins a call *)

Begin(c, op, at, l, t, id, todo) ==
    /\ call[c] = NoCall
    /\ begun < MaxCalls
    /\ begun' = begun + 1
    /\ call' = [call EXCEPT ![c] = [op |-> op, at |-> at, line |-> l, txn |-> t, row |-> id,
                                   todo |-> todo]]
    /\ UNCHANGED <<arrived, rows, nextId, runVars, plan, faults, histVars>>

MatchSelected(c) == \E l \in Lines \cap arrived, t \in Txns \cap arrived :
                        Begin(c, "matched", "clear", l, t, 0, {})
MarkBank(c) == \E l \in Lines \cap arrived : Begin(c, "adjustment", "clear", l, None, 0, {})
MarkInternal(c) == \E t \in Txns \cap arrived : Begin(c, "adjustment", "clear", None, t, 0, {})
Unmatch(c) == \E r \in rows : Begin(c, "unmatch", "list", None, None, r.id, {})
Submit(c) == Begin(c, "submit", "count", None, None, 0, {})
Review(c) == \E d \in {"approve", "reject"} : Begin(c, d, "ask", None, None, 0, {})
AutoClose(c) == Begin(c, "close", "count", None, None, 0, {})

\* CrossCheckPayoutInstructions begins with its read of the lines that name a payout.
PayoutCheck(c) ==
    /\ PayoutLines \cap arrived # {}
    /\ Begin(c, "check", "stamp", None, None, 0, PayoutLines \cap arrived)

GoTo(c, at) == call' = [call EXCEPT ![c].at = at]
Return(c) == call' = [call EXCEPT ![c] = NoCall]

-----------------------------------------------------------------------------
(* RecordManualMatch, MarkBankLineUnmatched, MarkInternalTxnUnmatched *)

\* The DELETE of every row that holds the line or the transaction.
Clear(c) ==
    /\ call[c].at = "clear"
    /\ LET l == call[c].line
           t == call[c].txn
           gone == {r \in rows : Holds(r, l, t)}
       IN  /\ rows' = rows \ gone
           /\ torn' = (torn \/ \E r \in gone : r.line \notin {None, l} \/ r.txn \notin {None, t})
    /\ GoTo(c, "record")
    /\ UNCHANGED <<arrived, nextId, runVars, plan, begun, faults, read, crossed>>

\* The INSERT of the row of the call.
Record(c) ==
    /\ call[c].at = "record"
    /\ rows' = rows \cup {Row(nextId, call[c].line, call[c].txn, call[c].op)}
    /\ nextId' = nextId + 1
    /\ Return(c)
    /\ UNCHANGED <<arrived, runVars, plan, begun, faults, histVars>>

-----------------------------------------------------------------------------
(* UnmatchRecord *)

\* ListMatches: the items of the row, if it is still there.
ListForUnmatch(c) ==
    /\ call[c].at = "list"
    /\ IF \E r \in rows : r.id = call[c].row
       THEN \E r \in rows :
                /\ r.id = call[c].row
                /\ call' = [call EXCEPT ![c] = [@ EXCEPT !.at = "delete", !.line = r.line,
                                                         !.txn = r.txn]]
       ELSE Return(c)
    /\ UNCHANGED <<arrived, rows, nextId, runVars, plan, begun, faults, histVars>>

DeleteForUnmatch(c) ==
    /\ call[c].at = "delete"
    /\ rows' = {r \in rows : r.id # call[c].row}
    /\ GoTo(c, "bank")
    /\ UNCHANGED <<arrived, nextId, runVars, plan, begun, faults, histVars>>

\* (Mutant: the transaction of the pair is forgotten.)
ReopenBankOnly(c) ==
    /\ call[c].at = "bank"
    /\ IF call[c].line = None
       THEN UNCHANGED <<rows, nextId>>
       ELSE /\ rows' = rows \cup {Row(nextId, call[c].line, None, "unmatched_bank")}
            /\ nextId' = nextId + 1
    /\ Return(c)
    /\ UNCHANGED <<arrived, runVars, plan, begun, faults, histVars>>

\* A row for the line, if there was one; then one for the transaction.
ReopenBank(c) ==
    /\ call[c].at = "bank"
    /\ IF call[c].line = None
       THEN UNCHANGED <<rows, nextId>>
       ELSE /\ rows' = rows \cup {Row(nextId, call[c].line, None, "unmatched_bank")}
            /\ nextId' = nextId + 1
    /\ GoTo(c, "internal")
    /\ UNCHANGED <<arrived, runVars, plan, begun, faults, histVars>>

ReopenInternal(c) ==
    /\ call[c].at = "internal"
    /\ IF call[c].txn = None
       THEN UNCHANGED <<rows, nextId>>
       ELSE /\ rows' = rows \cup {Row(nextId, None, call[c].txn, "unmatched_internal")}
            /\ nextId' = nextId + 1
    /\ Return(c)
    /\ UNCHANGED <<arrived, runVars, plan, begun, faults, histVars>>

\* The errors of the two INSERTs are ignored.
ReopenFails(c) ==
    /\ call[c].at \in {"bank", "internal"}
    /\ faults < MaxFaults
    /\ faults' = faults + 1
    /\ IF call[c].at = "bank" THEN GoTo(c, "internal") ELSE Return(c)
    /\ UNCHANGED <<arrived, rows, nextId, runVars, plan, begun, histVars>>

-----------------------------------------------------------------------------
(* CrossCheckPayoutInstructions: stampMatch for line after line, in any order *)

Expose(c, l) == call' = [call EXCEPT ![c] = [@ EXCEPT !.at = "expose", !.line = l,
                                                      !.todo = call[c].todo \ {l}]]
NextLine(c, left) == IF left = {} THEN Return(c)
                     ELSE call' = [call EXCEPT ![c] = [@ EXCEPT !.at = "stamp", !.todo = left]]

\* The UPDATE of the rows of a line, in columns left out here; without a row it
\* goes on to an INSERT.
StampRow(c) ==
    /\ call[c].at = "stamp"
    /\ \E l \in call[c].todo :
           IF \E r \in rows : r.line = l THEN NextLine(c, call[c].todo \ {l}) ELSE Expose(c, l)
    /\ UNCHANGED <<arrived, rows, nextId, runVars, plan, begun, faults, histVars>>

\* The INSERT of the line, with a status that no other handler knows.
ExposeRow(c) ==
    /\ call[c].at = "expose"
    /\ rows' = rows \cup {Row(nextId, call[c].line, None, "exception")}
    /\ nextId' = nextId + 1
    /\ NextLine(c, call[c].todo)
    /\ UNCHANGED <<arrived, runVars, plan, begun, faults, histVars>>

\* The errors of both are ignored: a failed UPDATE has affected no row.
StampFails(c) ==
    /\ faults < MaxFaults
    /\ faults' = faults + 1
    /\ \/ call[c].at = "stamp" /\ \E l \in call[c].todo : Expose(c, l)
       \/ call[c].at = "expose" /\ NextLine(c, call[c].todo)
    /\ UNCHANGED <<arrived, rows, nextId, runVars, plan, begun, histVars>>

-----------------------------------------------------------------------------
(* SubmitRun, ReviewRun, CloseRun and TryAutoClose *)

\* GetRunSummary; an open row ends the call.
Count(c) ==
    /\ call[c].at = "count"
    /\ IF OpenRows = {} THEN GoTo(c, "status") ELSE Return(c)
    /\ UNCHANGED <<arrived, rows, nextId, runVars, plan, begun, faults, histVars>>

\* ReviewRun reads review_status first.
AskReview(c) ==
    /\ call[c].at = "ask"
    /\ IF review = "pending" THEN GoTo(c, "status") ELSE Return(c)
    /\ UNCHANGED <<arrived, rows, nextId, runVars, plan, begun, faults, histVars>>

NewStatus == [submit |-> "pending_review", approve |-> "closed", reject |-> "in_progress",
              close |-> "closed"]
NewReview == [submit |-> "pending", approve |-> "approved", reject |-> "rejected"]

Writing(c) == call[c].at \in {"status", "review"} /\ call[c].op # "close"

\* UpdateRunStatus, whatever the status was.
WriteStatus(c) ==
    /\ call[c].at = "status"
    /\ status' = NewStatus[call[c].op]
    /\ crossed' = (crossed \/ (Writing(c) /\ \E d \in Tabs \ {c} : Writing(d)))
    /\ IF call[c].op = "close" THEN Return(c) ELSE GoTo(c, "review")
    /\ UNCHANGED <<arrived, rows, nextId, review, plan, begun, faults, read, torn>>

\* (Mutant: a submission keeps a review_status that is already there.)
WriteFirstReview(c) ==
    /\ call[c].at = "review"
    /\ review' = IF call[c].op = "submit" /\ review # "null" THEN review
                 ELSE NewReview[call[c].op]
    /\ Return(c)
    /\ UNCHANGED <<arrived, rows, nextId, status, plan, begun, faults, histVars>>

\* The second UPDATE, of review_status and its names and times.
WriteReview(c) ==
    /\ call[c].at = "review"
    /\ review' = NewReview[call[c].op]
    /\ Return(c)
    /\ UNCHANGED <<arrived, rows, nextId, status, plan, begun, faults, histVars>>

\* A statement fails or the handler dies before it: what was done stays.  The
\* error of the second UPDATE is ignored, which comes to the same.
Die(c) ==
    /\ call[c] # NoCall
    /\ faults < MaxFaults
    /\ faults' = faults + 1
    /\ Return(c)
    /\ UNCHANGED <<arrived, rows, nextId, runVars, plan, begun, histVars>>

-----------------------------------------------------------------------------
Calls(c) == MatchSelected(c) \/ MarkBank(c) \/ MarkInternal(c) \/ Unmatch(c)
            \/ PayoutCheck(c) \/ Submit(c) \/ Review(c) \/ AutoClose(c)

Steps(c) == Clear(c) \/ Record(c)
            \/ ListForUnmatch(c) \/ DeleteForUnmatch(c) \/ ReopenBank(c) \/ ReopenInternal(c)
            \/ StampRow(c) \/ ExposeRow(c)
            \/ Count(c) \/ AskReview(c) \/ WriteStatus(c) \/ WriteReview(c)

Faults(c) == ReopenFails(c) \/ StampFails(c) \/ Die(c)

ReconNext ==
    \/ \E i \in Lines \cup Txns : Import(i)
    \/ \E r \in plan : AutoMatch(r)
    \/ AutoMatchFails
    \/ \E c \in Tabs : Calls(c) \/ Steps(c) \/ Faults(c)

Spec == ReconInit /\ [][ReconNext]_reconVars

-----------------------------------------------------------------------------
(* Properties *)

Quiet == plan = {} /\ \A c \in Tabs : call[c] = NoCall

Settled(r) == r.status \in {"matched", "adjustment"}

\* The lines and transactions that no matched or adjustment row holds: what
\* GetUnmatchedBankLines and GetUnmatchedInternalTxns show as still to be done.
Unresolved ==
    {l \in Lines \cap arrived : \A r \in rows : Settled(r) => r.line # l}
    \cup {t \in Txns \cap arrived : \A r \in rows : Settled(r) => r.txn # t}

\* Rows have the shape of their status: pages read a matched row as a pair and
\* an unmatched one as a single item.  The five statuses of a row and the four of
\* the run are those the code stores; the comments on the two columns in migration
\* 00008 (lines 90 and 75) know neither "exception" nor "pending_review".
TypeOK ==
    /\ \A r \in rows :
        /\ r.id \in 1 .. nextId - 1
        /\ r.line \in Lines \cup {None} /\ r.txn \in Txns \cup {None}
        /\ \/ r.status = "matched" /\ r.line # None /\ r.txn # None
           \/ r.status = "unmatched_bank" /\ r.line # None /\ r.txn = None
           \/ r.status = "unmatched_internal" /\ r.line = None /\ r.txn # None
           \/ r.status = "adjustment" /\ (r.line = None <=> r.txn # None)
           \/ r.status = "exception" /\ r.line # None /\ r.txn = None
    /\ \A r, s \in rows : r.id = s.id => r = s
    /\ status \in {"draft", "in_progress", "pending_review", "closed"}
    /\ review \in {"null", "pending", "approved", "rejected"}
    /\ read \subseteq arrived /\ arrived \subseteq Lines \cup Txns
    /\ torn \in BOOLEAN /\ crossed \in BOOLEAN

\* The gate of SubmitRun, CloseRun and TryAutoClose counts rows and not items.
\* When nothing is going on, no row open means that nothing AutoMatch has read is
\* unresolved, except after a call that tore a pair apart and after a failure.
\* What is imported later has no row and is not counted: of that the property says
\* nothing, and ClosesOnlyResolved shows what comes of it.
ZeroCountMeansResolved ==
    Quiet /\ ~torn /\ faults = 0 /\ OpenRows = {} => Unresolved \cap read = {}

\* A run that waits for its review can be reviewed: ReviewRun asks for the
\* second column and the page for the first, and but for a close, which asks for
\* neither, nothing else leads on from there.  Two calls that write the columns in
\* turns, and a failure, are the exceptions.
PendingIsReviewable ==
    Quiet /\ ~crossed /\ faults = 0 /\ status = "pending_review" => review = "pending"

\* "CloseRun seals the run. Fails if any items remain genuinely unresolved"
\* (reconciliation.go:1354; TryAutoClose, balance.go:125, says the like): when the
\* UPDATE closes the run every line and transaction of its account and period is
\* matched or adjusted.  The code does not do that.
ClosesOnlyResolved ==
    [][status # "closed" /\ status' = "closed" => Unresolved = {}]_reconVars

=============================================================================

------------------------------- MODULE Ledger -------------------------------
(***************************************************************************)
(* The general ledger of internal/finance/service.go: journals with their  *)
(* approval workflow, reversals, and the accounting periods that are meant *)
(* to stop postings into closed months.                                    *)
(*                                                                         *)
(* PostJournal and ApproveJournal read the journal and the period first    *)
(* and update the journal afterwards; ReverseJournal reads the original    *)
(* outside the transaction that writes the reversal.  A worker is an HTTP  *)
(* request between its read and its write.  All other operations are one   *)
(* statement or one transaction.  A worker that dies leaves no trace, like *)
(* one that is never scheduled again.                                      *)
(*                                                                         *)
(* A journal's totals are in kobo and do not change once it is inserted.   *)
(***************************************************************************)
EXTENDS Integers, FiniteSets

CONSTANTS
    Journals,   \* journal_header rows that may be inserted
    NoJournal,  \* reversal_of IS NULL; a worker at rest
    Totals,     \* the [debit, credit] totals of the journals users enter
    Months,     \* calendar months, 1 .. n
    Periods,    \* finance.period rows
    MonthOf,    \* MonthOf[p]: the month period row p is for
    Seeded,     \* Seeded[p]: its status after migration 00028, or "none"
    Workers     \* HTTP requests served at the same time

ASSUME LedgerAssumption ==
    /\ NoJournal \notin Journals
    /\ Totals \subseteq [debit : Nat, credit : Nat]
    /\ Months \subseteq Nat
    /\ MonthOf \in [Periods -> Months]
    /\ Seeded \in [Periods -> {"none", "open", "closed"}]

VARIABLES
    status,     \* journal_header.status ("none": not there yet, "deleted")
    totals,     \* journal_header.debit_total and credit_total
    month,      \* the month of journal_header.date
    reversalOf, \* journal_header.reversal_of
    period,     \* finance.period.status ("none": no row)
    today,      \* the current month
    op,         \* what each worker is about to write
    late        \* history: journals posted into a month with a shut period

ledgerVars == <<status, totals, month, reversalOf, period, today, op, late>>

NoOp == [pc |-> "idle", journal |-> NoJournal]

Init ==
    /\ status = [j \in Journals |-> "none"]
    /\ totals = [j \in Journals |-> [debit |-> 0, credit |-> 0]]
    /\ month = [j \in Journals |-> 0]
    /\ reversalOf = [j \in Journals |-> NoJournal]
    /\ period = Seeded
    /\ today \in Months
    /\ op = [w \in Workers |-> NoOp]
    /\ late = {}

Free(w) == op[w].pc = "idle"
Begin(w, label, j) == op' = [op EXCEPT ![w] = [pc |-> label, journal |-> j]]
Finish(w) == op' = [op EXCEPT ![w] = NoOp]

\* |debit - credit| > 0.01 in float64: a difference of one kobo may or may not
\* exceed the literal, depending on the magnitude of the totals.
MayBalance(t) == t.debit - t.credit \in -1 .. 1

\* periodStatusForDate takes any one of the month's rows (LIMIT 1 without an
\* order), and CreatePeriod can insert several: UNIQUE (subsidiary_id, year,
\* month) never conflicts on the NULL subsidiary of group-wide periods.
PeriodStatusForMonth(m) ==
    LET rows == {p \in Periods : MonthOf[p] = m /\ period[p] # "none"}
    IN  IF rows = {} THEN {"none"} ELSE {period[p] : p \in rows}

Shut == {"closed", "locked"}
ShutMonth(m) == \E p \in Periods : MonthOf[p] = m /\ period[p] \in Shut
BookedLate(j, m) == IF ShutMonth(m) THEN late \cup {j} ELSE late

-----------------------------------------------------------------------------
(* Journals.                                                               *)

\* One transaction: reference counter, header, lines.
CreateJournal(j, t, m) ==
    /\ status[j] = "none"
    /\ status' = [status EXCEPT ![j] = "draft"]
    /\ totals' = [totals EXCEPT ![j] = t]
    /\ month' = [month EXCEPT ![j] = m]
    /\ UNCHANGED <<reversalOf, period, today, op, late>>

\* PostJournal and ApproveJournal up to their UPDATE.
CheckJournal(w, j, label) ==
    /\ Free(w)
    /\ status[j] \notin {"none", "deleted"}
    /\ MayBalance(totals[j])
    /\ \E s \in PeriodStatusForMonth(month[j]) : s \notin Shut
    /\ Begin(w, label, j)
    /\ UNCHANGED <<status, totals, month, reversalOf, period, today, late>>

\* UPDATE ... WHERE status IN from; zero rows end the call with an error.
Post(w, label, from) ==
    /\ op[w].pc = label
    /\ LET j == op[w].journal
       IN  IF status[j] \in from
           THEN /\ status' = [status EXCEPT ![j] = "posted"]
                /\ late' = BookedLate(j, month[j])
           ELSE UNCHANGED <<status, late>>
    /\ Finish(w)
    /\ UNCHANGED <<totals, month, reversalOf, period, today>>

PostJournal(w) == Post(w, "post", {"draft", "pending_approval"})
ApproveJournal(w) == Post(w, "approve", {"pending_approval"})

SubmitForApproval(j) ==
    /\ status[j] = "draft"
    /\ status' = [status EXCEPT ![j] = "pending_approval"]
    /\ UNCHANGED <<totals, month, reversalOf, period, today, op, late>>

\* (Mutant: the UPDATE forgets "AND status = 'pending_approval'".)
RejectAnyJournal(j) ==
    /\ status[j] \notin {"none", "deleted"}
    /\ status' = [status EXCEPT ![j] = "draft"]
    /\ UNCHANGED <<totals, month, reversalOf, period, today, op, late>>

RejectJournal(j) ==
    /\ status[j] = "pending_approval"
    /\ status' = [status EXCEPT ![j] = "draft"]
    /\ UNCHANGED <<totals, month, reversalOf, period, today, op, late>>

\* The lines go with the header (ON DELETE CASCADE).
DeleteDraft(j) ==
    /\ status[j] = "draft"
    /\ status' = [status EXCEPT ![j] = "deleted"]
    /\ UNCHANGED <<totals, month, reversalOf, period, today, op, late>>

\* ReverseJournal reads the original ...
ReadOriginal(w, j) ==
    /\ Free(w)
    /\ status[j] = "posted"
    /\ Begin(w, "reverse", j)
    /\ UNCHANGED <<status, totals, month, reversalOf, period, today, late>>

\* (Mutant: the original is not marked.)
ReverseUnmarked(w, k) ==
    /\ op[w].pc = "reverse"
    /\ status[k] = "none"
    /\ LET j == op[w].journal
       IN  /\ status' = [status EXCEPT ![k] = "posted"]
           /\ totals' = [totals EXCEPT ![k] = [debit |-> totals[j].credit,
                                               credit |-> totals[j].debit]]
           /\ reversalOf' = [reversalOf EXCEPT ![k] = j]
    /\ month' = [month EXCEPT ![k] = today]
    /\ late' = BookedLate(k, today)
    /\ Finish(w)
    /\ UNCHANGED <<period, today>>

\* ... and in one transaction inserts the mirrored journal k, posted, with
\* today's date, and marks the original whatever its status is by now.
ReverseJournal(w, k) ==
    /\ op[w].pc = "reverse"
    /\ status[k] = "none"
    /\ LET j == op[w].journal
       IN  /\ status' = [status EXCEPT ![k] = "posted", ![j] = "reversed"]
           /\ totals' = [totals EXCEPT ![k] = [debit |-> totals[j].credit,
                                               credit |-> totals[j].debit]]
           /\ reversalOf' = [reversalOf EXCEPT ![k] = j]
    /\ month' = [month EXCEPT ![k] = today]
    /\ late' = BookedLate(k, today)
    /\ Finish(w)
    /\ UNCHANGED <<period, today>>

-----------------------------------------------------------------------------
(* Periods.                                                                *)

CreatePeriod(p) ==
    /\ period[p] = "none"
    /\ period' = [period EXCEPT ![p] = "open"]
    /\ UNCHANGED <<status, totals, month, reversalOf, today, op, late>>

\* A locked row is final; a closed one may be opened again.
SetPeriodStatus(p, s) ==
    /\ period[p] \notin {"none", "locked"}
    /\ period' = [period EXCEPT ![p] = s]
    /\ UNCHANGED <<status, totals, month, reversalOf, today, op, late>>

NextMonth ==
    /\ today + 1 \in Months
    /\ today' = today + 1
    /\ UNCHANGED <<status, totals, month, reversalOf, period, op, late>>

-----------------------------------------------------------------------------
JournalCall(j) ==
    \/ \E t \in Totals, m \in Months : CreateJournal(j, t, m)
    \/ SubmitForApproval(j)
    \/ RejectJournal(j)
    \/ DeleteDraft(j)

WorkerStep(w) ==
    \/ \E j \in Journals : CheckJournal(w, j, "post")
    \/ \E j \in Journals : CheckJournal(w, j, "approve")
    \/ PostJournal(w)
    \/ ApproveJournal(w)
    \/ \E j \in Journals : ReadOriginal(w, j)
    \/ \E k \in Journals : ReverseJournal(w, k)

PeriodCall(p) ==
    \/ CreatePeriod(p)
    \/ \E s \in {"open", "closed", "locked"} : SetPeriodStatus(p, s)

Next ==
    \/ \E j \in Journals : JournalCall(j)
    \/ \E w \in Workers : WorkerStep(w)
    \/ \E p \in Periods : PeriodCall(p)
    \/ NextMonth

Spec == Init /\ [][Next]_ledgerVars

-----------------------------------------------------------------------------
Statuses == {"none", "draft", "pending_approval", "posted", "reversed", "deleted"}

TypeOK ==
    /\ status \in [Journals -> Statuses]
    /\ totals \in [Journals -> [debit : Nat, credit : Nat]]
    /\ month \in [Journals -> Months \cup {0}]
    /\ reversalOf \in [Journals -> Journals \cup {NoJournal}]
    /\ period \in [Periods -> {"none", "open", "closed", "locked"}]
    /\ today \in Months
    /\ op \in [Workers -> [pc : {"idle", "post", "approve", "reverse"},
                           journal : Journals \cup {NoJournal}]]
    /\ late \subseteq Journals

Booked == {j \in Journals : status[j] \in {"posted", "reversed"}}

\* A journal is marked "reversed" exactly when a posted journal reverses it,
\* although the mark is an UPDATE that does not ask for the status and the
\* original was read before the transaction began.
ReversedIffMirrored ==
    \A j \in Journals :
        status[j] = "reversed" <=> \E k \in Booked : reversalOf[k] = j

\* What the book shows of a booked journal.
EntryOf(j) == [id |-> j, debit |-> totals[j].debit, credit |-> totals[j].credit,
               mirrors |-> reversalOf[j]]
Entries == {EntryOf(j) : j \in Booked}

B == INSTANCE Book WITH entries <- Entries, NoEntry <- NoJournal

\* The booked journals form an append-only book: under every interleaving of
\* postings, approvals, rejections, deletions and reversals what is posted
\* stays as it is, balances up to a kobo or mirrors an earlier entry.
ImplementsBook == B!BookSpec

\* Migration 00028: "open = accepting new journals, closed = reporting only,
\* locked = immutable", enforced by PostJournal under the comment "Enforce
\* period: reject if the period is closed or locked": nothing is posted into a
\* month while its period is shut.
ShutMonthsTakeNoPosting == late = {}

=============================================================================

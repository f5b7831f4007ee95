----------------------------- MODULE SubLedger -----------------------------
(***************************************************************************)
(* The sub-ledgers beside the general ledger: vendor invoices              *)
(* (internal/finance/payable.go), client invoices (receivable.go), fixed   *)
(* assets (asset.go) and the approval of payroll runs                      *)
(* (internal/payroll/service.go).                                          *)
(*                                                                         *)
(* All their calls are built alike and run without a transaction: read the *)
(* document, CreateJournal, PostJournal, then update the document by its   *)
(* id.  Other calls, the journal page and the period page run in between,  *)
(* and a call ends wherever an error, a closed connection (the request's   *)
(* context) or a death of the process meets it.  Only CreateAsset is one   *)
(* transaction; it writes the ledger's tables itself.                      *)
(*                                                                         *)
(* Amounts are in kobo.                                                    *)
(***************************************************************************)
EXTENDS Ledger, FiniteSetsExt

CONSTANTS
    Payables,   \* finance.payable rows
    PayRuns,    \* payroll.run rows
    Due,        \* net_payable of a payable, total_gross of a payroll run
    Invoices,   \* client invoices users raise: finance.receivable
    Gross,      \* their gross_amount
    Withheld,   \* their wht_deducted
    Assets,     \* assets users register: finance.asset
    Cost,       \* their acquisition_cost
    Salvage,    \* their salvage_value
    Charge,     \* Charge[a][v]: a month's depreciation at book value v
    Amounts,    \* what users enter as received, or as proceeds of a disposal
    Dates       \* bound: the months they date payments and invoices in

Bills == Payables \cup PayRuns
Docs == Bills \cup Invoices \cup Assets

ASSUME SubLedgerAssumption ==
    /\ NoJournal \notin Docs
    /\ Payables \cap PayRuns = {} /\ Bills \cap Invoices = {}
    /\ Assets \cap (Bills \cup Invoices) = {}
    /\ Due \in [Bills -> Nat]
    /\ Gross \in [Invoices -> Nat] /\ Withheld \in [Invoices -> Nat]
    /\ Cost \in [Assets -> Nat] /\ Salvage \in [Assets -> Nat]
    /\ \A a \in Assets : Salvage[a] <= Cost[a] /\ Charge[a] \in [0 .. Cost[a] -> Nat]
    /\ Amounts \subseteq Nat /\ Dates \subseteq Months

VARIABLES
    bill,      \* payable: status, amount_paid, journal_id, payment_journal_id
    invoice,   \* receivable: status, amount_received, journal_id
    receipts,  \* finance.receivable_receipt rows
    asset,     \* asset: status, book_value, accum_depreciation, last_dep_period
    depRuns,   \* finance.asset_dep_run rows
    call,      \* the locals of the calls in progress
    madeFor,   \* history: the call a journal was created by
    disturbed  \* history: documents whose calls overlapped, died after the
               \* posting, or whose journal the journal page posted

docVars == <<bill, invoice, receipts, asset, depRuns>>
subVars == <<ledgerVars, docVars, call, madeFor, disturbed>>

NoPurpose == [kind |-> "none", doc |-> NoJournal]
NoCall == [stage |-> "idle", kind |-> "none", doc |-> NoJournal, at |-> 0, amount |-> 0,
           totals |-> [debit |-> 0, credit |-> 0], seen |-> 0, journal |-> NoJournal]

SubInit ==
    /\ Init
    /\ bill = [b \in Bills |-> [status |-> "pending", paid |-> 0,
                                journal |-> NoJournal, payment |-> NoJournal]]
    /\ invoice = [i \in Invoices |-> [status |-> "none", received |-> 0, journal |-> NoJournal]]
    /\ receipts = {}
    /\ asset = [a \in Assets |-> [status |-> "none", book |-> Cost[a], accum |-> 0, last |-> 0]]
    /\ depRuns = {}
    /\ call = [w \in Workers |-> NoCall]
    /\ madeFor = [j \in Journals |-> NoPurpose]
    /\ disturbed = {}

Busy(d) == \E w \in Workers : call[w].doc = d
Even(x) == [debit |-> x, credit |-> x]
Ended(w) == call' = [call EXCEPT ![w] = NoCall]

-----------------------------------------------------------------------------
(* The reads and checks each call begins with.                             *)

\* A call of some kind on document d, with the month and the totals of the
\* journal it is going to create and what it will use after the posting.
Start(w, kind, d, m, t, amount, seen) ==
    /\ call[w].stage = "idle" /\ Free(w)
    /\ call' = [call EXCEPT ![w] = [stage |-> "read", kind |-> kind, doc |-> d, at |-> m,
                                    amount |-> amount, totals |-> t, seen |-> seen,
                                    journal |-> NoJournal]]
    /\ disturbed' = IF Busy(d) THEN disturbed \cup {d} ELSE disturbed
    /\ UNCHANGED <<ledgerVars, docVars, madeFor>>

\* (Mutant: the status is not looked at.)
ApprovePayableAgain(w, b) ==
    Start(w, "approve", b, today, Even(Due[b]), Due[b], 0)

\* The journal is dated today.
ApprovePayable(w, b) ==
    /\ bill[b].status = "pending"
    /\ Start(w, "approve", b, today, Even(Due[b]), Due[b], 0)

\* The payroll journal is dated the last day of the run's month; the status
\* the code calls "draft" is called "pending" here as for the payables.
ApproveRun(w, b, m) ==
    /\ bill[b].status = "pending"
    /\ Start(w, "approve", b, m, Even(Due[b]), Due[b], 0)

PayPayable(w, b, m) ==
    /\ bill[b].status = "approved"
    /\ LET outstanding == Due[b] - bill[b].paid
       IN  Start(w, "pay", b, m, Even(outstanding), outstanding, 0)

\* The row comes last; the form is shut while its call is in progress.
CreateReceivable(w, i, m) ==
    /\ invoice[i].status = "none" /\ ~Busy(i)
    /\ Start(w, "raise", i, m, Even(Gross[i]), 0, 0)

\* The whole of wht_deducted goes with every receipt: Dr Bank amount, Dr WHT
\* credit, Cr Receivable the two together.
RecordReceipt(w, i, m, x) ==
    /\ invoice[i].status \notin {"none", "paid"}
    /\ x > 0
    /\ Start(w, "receive", i, m, Even(x + Withheld[i]), x, invoice[i].received)

\* A month's charge, cut off at the salvage value.
DepAmount(a, v) ==
    IF v - Charge[a][v] < Salvage[a] THEN v - Salvage[a] ELSE Charge[a][v]

DepreciateAsset(w, a, m) ==
    /\ asset[a].status = "active"
    /\ m > asset[a].last
    /\ LET x == DepAmount(a, asset[a].book)
       IN  x > 0 /\ Start(w, "depreciate", a, m, Even(x), x, asset[a].book)

\* Dr accumulated depreciation, proceeds and a loss; Cr cost and a gain.
DisposeAsset(w, a, m, proceeds) ==
    /\ asset[a].status \notin {"none", "disposed"}
    /\ LET book == asset[a].book
           loss == IF proceeds < book THEN book - proceeds ELSE 0
           gain == IF proceeds > book THEN proceeds - book ELSE 0
       IN  Start(w, "dispose", a, m, [debit |-> asset[a].accum + proceeds + loss,
                                      credit |-> Cost[a] + gain], proceeds, book)

-----------------------------------------------------------------------------
(* The journal every call makes.                                           *)

Draft(w, j) ==
    /\ call[w].stage = "read"
    /\ CreateJournal(j, call[w].totals, call[w].at)
    /\ madeFor' = [madeFor EXCEPT ![j] = [kind |-> call[w].kind, doc |-> call[w].doc]]
    /\ call' = [call EXCEPT ![w].stage = "drafted", ![w].journal = j]
    /\ UNCHANGED <<docVars, disturbed>>

\* PostJournal's reads ...
Check(w) ==
    /\ call[w].stage = "drafted"
    /\ CheckJournal(w, call[w].journal, "post")
    /\ call' = [call EXCEPT ![w].stage = "checked"]
    /\ UNCHANGED <<docVars, madeFor, disturbed>>

\* (Mutant: its error is dropped.)
PostUnheeded(w) ==
    /\ call[w].stage = "checked"
    /\ PostJournal(w)
    /\ call' = [call EXCEPT ![w].stage = "booked"]
    /\ UNCHANGED <<docVars, madeFor, disturbed>>

\* ... and its UPDATE; no row, no posting, and the call ends with the error.
PostMade(w) ==
    /\ call[w].stage = "checked"
    /\ PostJournal(w)
    /\ IF status[call[w].journal] \in {"draft", "pending_approval"}
       THEN call' = [call EXCEPT ![w].stage = "booked"]
       ELSE Ended(w)
    /\ UNCHANGED <<docVars, madeFor, disturbed>>

\* The call ends before its posting: CreateJournal failed, the period is shut,
\* the totals do not balance, or the process died.  At most a draft is left.
GiveUp(w) ==
    /\ call[w].stage \in {"read", "drafted"}
    /\ Ended(w)
    /\ UNCHANGED <<ledgerVars, docVars, madeFor, disturbed>>

\* The call ends between its posting and its last statement.
Die(w) ==
    /\ call[w].stage \in {"booked", "wrote"}
    /\ Ended(w)
    /\ disturbed' = disturbed \cup {call[w].doc}
    /\ UNCHANGED <<ledgerVars, docVars, madeFor>>

-----------------------------------------------------------------------------
(* The statements after the posting; each finds its row by the id alone.   *)

Writing(w, kind, stage) ==
    /\ call[w].kind = kind /\ call[w].stage = stage
    /\ UNCHANGED <<ledgerVars, madeFor, disturbed>>

\* (Mutant: the row keeps the id of no journal, and a status of its own.)
WriteApprovalUnlinked(w) ==
    /\ Writing(w, "approve", "booked")
    /\ bill' = [bill EXCEPT ![call[w].doc].status = "posted"]
    /\ Ended(w)
    /\ UNCHANGED <<invoice, receipts, asset, depRuns>>

WriteApproval(w) ==
    /\ Writing(w, "approve", "booked")
    /\ bill' = [bill EXCEPT ![call[w].doc].status = "approved",
                            ![call[w].doc].journal = call[w].journal]
    /\ Ended(w)
    /\ UNCHANGED <<invoice, receipts, asset, depRuns>>

WritePayment(w) ==
    /\ Writing(w, "pay", "booked")
    /\ LET b == call[w].doc
       IN  bill' = [bill EXCEPT ![b].status = "paid", ![b].paid = Due[b],
                                ![b].payment = call[w].journal]
    /\ Ended(w)
    /\ UNCHANGED <<invoice, receipts, asset, depRuns>>

InsertInvoice(w) ==
    /\ Writing(w, "raise", "booked")
    /\ invoice' = [invoice EXCEPT ![call[w].doc] =
                       [status |-> "outstanding", received |-> 0, journal |-> call[w].journal]]
    /\ Ended(w)
    /\ UNCHANGED <<bill, receipts, asset, depRuns>>

\* x >= limit - 0.01 in float64: one kobo short may count as enough or not.
AtLeast(x, limit) == IF x = limit - 1 THEN BOOLEAN ELSE {x >= limit}

\* (Mutant: the tax withheld counts as received, too.)
AddReceiptAndTax(w) ==
    /\ Writing(w, "receive", "booked")
    /\ LET i == call[w].doc
           credit == call[w].amount + Withheld[i]
       IN  \E paid \in AtLeast(call[w].seen + credit, Gross[i]) :
               invoice' = [invoice EXCEPT ![i].received = @ + credit,
                                          ![i].status = IF paid THEN "paid" ELSE "partial"]
    /\ call' = [call EXCEPT ![w].stage = "wrote"]
    /\ UNCHANGED <<bill, receipts, asset, depRuns>>

\* amount_received grows in SQL; the status comes from the amount read before.
AddReceipt(w) ==
    /\ Writing(w, "receive", "booked")
    /\ LET i == call[w].doc
       IN  \E paid \in AtLeast(call[w].seen + call[w].amount, Gross[i]) :
               invoice' = [invoice EXCEPT ![i].received = @ + call[w].amount,
                                          ![i].status = IF paid THEN "paid" ELSE "partial"]
    /\ call' = [call EXCEPT ![w].stage = "wrote"]
    /\ UNCHANGED <<bill, receipts, asset, depRuns>>

InsertReceipt(w) ==
    /\ Writing(w, "receive", "wrote")
    /\ receipts' = receipts \cup {[invoice |-> call[w].doc, amount |-> call[w].amount,
                                   journal |-> call[w].journal]}
    /\ Ended(w)
    /\ UNCHANGED <<bill, invoice, asset, depRuns>>

RunsOf(a) == {r \in depRuns : r.asset = a}

\* UNIQUE (asset_id, period): the second run of a month ends with an error,
\* its journal posted.
InsertDepRun(w) ==
    /\ Writing(w, "depreciate", "booked")
    /\ IF \E r \in RunsOf(call[w].doc) : r.period = call[w].at
       THEN /\ Ended(w)
            /\ UNCHANGED depRuns
       ELSE /\ depRuns' = depRuns \cup {[asset |-> call[w].doc, period |-> call[w].at,
                                         amount |-> call[w].amount,
                                         journal |-> call[w].journal]}
            /\ call' = [call EXCEPT ![w].stage = "wrote"]
    /\ UNCHANGED <<bill, invoice, receipts, asset>>

\* The book value comes from the one read before, accum_depreciation grows.
UpdateAsset(w) ==
    /\ Writing(w, "depreciate", "wrote")
    /\ LET a == call[w].doc
           new == call[w].seen - call[w].amount
       IN  \E spent \in AtLeast(Salvage[a], new) :
               asset' = [asset EXCEPT ![a] =
                             [status |-> IF spent THEN "fully_depreciated" ELSE "active",
                              book |-> new, accum |-> @.accum + call[w].amount,
                              last |-> call[w].at]]
    /\ Ended(w)
    /\ UNCHANGED <<bill, invoice, receipts, depRuns>>

\* The asset_disposal row, which only reports read, and the asset.
WriteDisposal(w) ==
    /\ Writing(w, "dispose", "booked")
    /\ asset' = [asset EXCEPT ![call[w].doc].status = "disposed", ![call[w].doc].book = 0]
    /\ Ended(w)
    /\ UNCHANGED <<bill, invoice, receipts, depRuns>>

-----------------------------------------------------------------------------
(* The one call that does not go through PostJournal.                      *)

\* One transaction inserts a journal of the cost, already posted, and the asset,
\* whatever the period of its month is.  (The row's book_value is the cost.)
CreateAsset(a, j, m) ==
    /\ asset[a].status = "none" /\ status[j] = "none"
    /\ status' = [status EXCEPT ![j] = "posted"]
    /\ totals' = [totals EXCEPT ![j] = Even(Cost[a])]
    /\ month' = [month EXCEPT ![j] = m]
    /\ late' = BookedLate(j, m)
    /\ madeFor' = [madeFor EXCEPT ![j] = [kind |-> "register", doc |-> a]]
    /\ asset' = [asset EXCEPT ![a].status = "active"]
    /\ UNCHANGED <<reversalOf, period, today, op, bill, invoice, receipts, depRuns, call,
                   disturbed>>

-----------------------------------------------------------------------------
(* The journal page and the period page, on the journals of the calls too. *)

\* Documents one of whose journals this step books for a caller of its own.
BookedByHand ==
    {madeFor[j].doc : j \in {k \in Journals : /\ madeFor[k] # NoPurpose
                                              /\ status[k] \in {"draft", "pending_approval"}
                                              /\ status'[k] = "posted"}}

PageStep ==
    /\ \/ \E w \in Workers : call[w].stage = "idle" /\ WorkerStep(w)
       \/ \E j \in Journals : JournalCall(j)
       \/ \E p \in Periods : PeriodCall(p)
       \/ NextMonth
    /\ disturbed' = disturbed \cup BookedByHand
    /\ UNCHANGED <<docVars, call, madeFor>>

BillCall(w, b) ==
    \/ b \in Payables /\ ApprovePayable(w, b)
    \/ \E m \in Dates : \/ b \in PayRuns /\ ApproveRun(w, b, m)
                        \/ b \in Payables /\ PayPayable(w, b, m)

InvoiceCall(w, i) ==
    \E m \in Dates : \/ CreateReceivable(w, i, m)
                     \/ \E x \in Amounts : RecordReceipt(w, i, m, x)

AssetCall(w, a) ==
    \/ \E m \in Months : DepreciateAsset(w, a, m)
    \/ \E m \in Dates, x \in Amounts : DisposeAsset(w, a, m, x)

CallStep(w) ==
    \/ \E j \in Journals : Draft(w, j)
    \/ Check(w) \/ PostMade(w) \/ GiveUp(w) \/ Die(w)
    \/ WriteApproval(w) \/ WritePayment(w)
    \/ InsertInvoice(w) \/ AddReceipt(w) \/ InsertReceipt(w)
    \/ InsertDepRun(w) \/ UpdateAsset(w) \/ WriteDisposal(w)

\* What reaches the ledger through its own operations.
ThroughLedger ==
    \/ \E w \in Workers : \/ \E b \in Bills : BillCall(w, b)
                          \/ \E i \in Invoices : InvoiceCall(w, i)
                          \/ \E a \in Assets : AssetCall(w, a)
                          \/ CallStep(w)
    \/ PageStep

SubNext ==
    \/ ThroughLedger
    \/ \E a \in Assets, j \in Journals, m \in Dates : CreateAsset(a, j, m)

SubSpec == SubInit /\ [][SubNext]_subVars

-----------------------------------------------------------------------------
Kinds == {"approve", "pay", "raise", "receive", "depreciate", "dispose"}
Ref == Journals \cup {NoJournal}

SubTypeOK ==
    /\ TypeOK
    /\ bill \in [Bills -> [status : {"pending", "approved", "paid"}, paid : Nat,
                           journal : Ref, payment : Ref]]
    /\ invoice \in [Invoices -> [status : {"none", "outstanding", "partial", "paid"},
                                 received : Nat, journal : Ref]]
    /\ receipts \subseteq [invoice : Invoices, amount : Nat, journal : Journals]
    /\ asset \in [Assets -> [status : {"none", "active", "fully_depreciated", "disposed"},
                             book : Nat, accum : Nat, last : Months \cup {0}]]
    /\ depRuns \subseteq [asset : Assets, period : Months, amount : Nat, journal : Journals]
    /\ call \in [Workers -> [stage : {"idle", "read", "drafted", "checked", "booked", "wrote"},
                             kind : Kinds \cup {"none"}, doc : Docs \cup {NoJournal},
                             at : Months \cup {0}, amount : Nat,
                             totals : [debit : Nat, credit : Nat], seen : Nat, journal : Ref]]
    /\ madeFor \in [Journals -> [kind : Kinds \cup {"register", "none"},
                                 doc : Docs \cup {NoJournal}]]
    /\ disturbed \subseteq Docs

\* The booked journals a kind of call made for a document, reversed since or not:
\* ReverseJournal leaves the document alone, and so do the properties below.
Made(kind, d) == {j \in Booked : madeFor[j] = [kind |-> kind, doc |-> d]}

\* PostJournal's callers give up on its error before they touch the document
\* (payable.go:302, receivable.go:178 and :288, asset.go:332 and :445,
\* payroll/service.go:316): whatever a document says happened has its journal
\* in the books, though the journal page may post, reject or delete the draft
\* and the period page shut the month between any two statements.
StatusIsBooked ==
    /\ \A b \in Bills : /\ bill[b].status # "pending" => bill[b].journal \in Made("approve", b)
                        /\ bill[b].paid > 0 => bill[b].payment \in Made("pay", b)
    /\ \A i \in Invoices : invoice[i].status # "none" => invoice[i].journal \in Made("raise", i)
    /\ \A r \in receipts : r.journal \in Made("receive", r.invoice)
    /\ \A r \in depRuns : r.journal \in Made("depreciate", r.asset)
    /\ \A a \in Assets : /\ asset[a].status # "none" => Made("register", a) # {}
                         /\ asset[a].status = "disposed" => Made("dispose", a) # {}

\* The sum of the values a function has on a set; what rows and journals add.
SumOf(S, F) == MapThenSumSet(LAMBDA x : F[x], S)
Amount(rows) == [r \in rows |-> r.amount]
Credit == [j \in Journals |-> totals[j].credit]
Credited(kind, d) == SumOf(Made(kind, d), Credit)
ReceiptsOf(i) == {r \in receipts : r.invoice = i}

\* "the gross receivable should be fully cleared" (receivable.go:255): what is
\* shown paid is cleared in the books, but for a kobo, although the status comes
\* from an amount that may be stale by then (receivable.go:292) and is not taken
\* from the postings.  (The converse fails: the status counts the cash alone, so
\* that a client who pays net of the tax and clears the gross stays "partial".)
PaidMeansCleared ==
    \A i \in Invoices : invoice[i].status = "paid" => Credited("receive", i) >= Gross[i] - 1

\* However calls overlap, and wherever they die, the sub-ledger never claims
\* more than was booked for it: the receipts listed are part of the amount
\* received, which is part of what the receipt journals credit besides the tax,
\* and the accumulated depreciation is part of the depreciation booked.
NothingUnbooked ==
    /\ \A i \in Invoices :
           LET listed == SumOf(ReceiptsOf(i), Amount(receipts))
               booked == Made("receive", i)
           IN  /\ listed <= invoice[i].received
               /\ invoice[i].received + Cardinality(booked) * Withheld[i] <= Credited("receive", i)
    /\ \A a \in Assets :
           /\ asset[a].accum <= SumOf(RunsOf(a), Amount(depRuns))
           /\ asset[a].accum <= Credited("depreciate", a)

Undisturbed(d) ==
    d \notin disturbed /\ \A w \in Workers : call[w].doc = d => call[w].stage \in {"read", "drafted", "checked"}

Times(kind, d, n) == Cardinality(Made(kind, d)) = n
If(c) == IF c THEN 1 ELSE 0

\* The calls are no transactions and do not lock (payable.go:255, asset.go:286,
\* receivable.go:219, payroll/service.go:279), yet a document is posted twice,
\* or differently from what it says, only if two of its calls overlapped, one
\* of them died after its posting, or someone posted the draft one left behind.
\* Till then it tells of exactly what was posted for it, and an asset can be
\* disposed of: its disposal journal balances.  (The net of the general ledger is
\* less by what the journal page reverses, for no document hears of that.)
UndisturbedMatchesPostings ==
    /\ \A b \in Bills : Undisturbed(b) =>
           /\ Times("approve", b, If(bill[b].status # "pending"))
           /\ Times("pay", b, If(bill[b].status = "paid"))
    /\ \A i \in Invoices : Undisturbed(i) =>
           /\ Times("raise", i, If(invoice[i].status # "none"))
           /\ Credited("receive", i) = invoice[i].received
                                       + Withheld[i] * Cardinality(Made("receive", i))
    /\ \A a \in Assets : Undisturbed(a) =>
           /\ Times("dispose", a, If(asset[a].status = "disposed"))
           /\ Times("depreciate", a, Cardinality(RunsOf(a)))
           /\ asset[a].accum = Credited("depreciate", a)
           /\ asset[a].status # "disposed" => asset[a].book + asset[a].accum = Cost[a]

=============================================================================

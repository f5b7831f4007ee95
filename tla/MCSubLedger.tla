----------------------------- MODULE MCSubLedger -----------------------------
(* Instances of SubLedger for TLC: a payable, a payroll run, a client      *)
(* invoice of 6 kobo with 2 withheld, an asset of 5 that is worth 1 in the *)
(* end, two journals users may enter, of which one balances up to a kobo,  *)
(* and a month without a period row that may get one.                      *)
EXTENDS SubLedger, TLC

CONSTANTS b1, r1, i1, a1, p1, w1, w2, j1, j2, j3, j4

MCTotals == {[debit |-> 5, credit |-> 4], [debit |-> 5, credit |-> 3]}
MCMonthOf == [p \in Periods |-> 1]
MCSeeded == [p \in Periods |-> "none"]
MCDue == [b \in Bills |-> 3]
MCGross == [i \in Invoices |-> 6]
MCWithheld == [i \in Invoices |-> 2]
MCCost == [a \in Assets |-> 5]
MCSalvage == [a \in Assets |-> 1]
MCCharge == [a \in Assets |-> [v \in 0 .. 5 |-> 3]]

\* Bounds: calls on different documents share no row, and a journal users enter
\* is no document's, so one document, or the journals users enter, is enough in
\* a behaviour; which is left open.  With a document the clock stands, for calls
\* are given their month, and a month is shut by closing it; and since a shut month
\* and the approval of a draft by hand meet a call of any kind alike, they are in
\* the behaviours about payables and payroll runs alone.
Touched == (disturbed \cup {madeFor[j].doc : j \in Journals} \cup {call[w].doc : w \in Workers})
               \ {NoJournal}
Entered == {j \in Journals : status[j] # "none" /\ madeFor[j] = NoPurpose
                                               /\ reversalOf[j] = NoJournal}
Bounded ==
    /\ Cardinality(Touched) <= 1
    /\ Touched # {} =>
           /\ Entered = {}
           /\ today = 1
           /\ "locked" \notin {period[p] : p \in Periods}
    /\ Touched \cap (Assets \cup Invoices) # {} =>
           /\ period = Seeded
           /\ \A j \in Journals : status[j] # "pending_approval"

Symmetric == Permutations({w1, w2}) \cup Permutations(Journals)

=============================================================================

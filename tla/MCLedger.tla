------------------------------ MODULE MCLedger ------------------------------
(* Instances of Ledger for TLC: a month with a period row that is seeded   *)
(* closed and one CreatePeriod may add, and a month without any row.       *)
EXTENDS Ledger, TLC

CONSTANTS p1, p2, w1, w2, j1, j2, j3

MCTotals == {[debit |-> 5, credit |-> 4], [debit |-> 5, credit |-> 3]}
MCMonthOf == (p1 :> 1) @@ (p2 :> 1)
MCSeeded == (p1 :> "closed") @@ (p2 :> "none")

Symmetric == Permutations({w1, w2}) \cup Permutations({j1, j2, j3})

=============================================================================

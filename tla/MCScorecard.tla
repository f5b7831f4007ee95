------------------------------ MODULE MCScorecard ------------------------------
(* Instances of Scorecard for TLC. *)
EXTENDS Scorecard, TLC

CONSTANTS h1, h2, k1, k2

Symmetric == Permutations({h1, h2}) \cup Permutations({k1, k2})

================================================================================

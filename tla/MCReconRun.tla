------------------------------ MODULE MCReconRun ------------------------------
(* Instances of ReconRun for TLC. *)
EXTENDS ReconRun, TLC

CONSTANTS l1, l2, t1, c1, c2

Symmetric == Permutations({l1, l2}) \cup Permutations({c1, c2})

\* Bound: items that are imported after AutoMatch has read.
OneLate == Cardinality(arrived \ read) <= 1

\* A run that had something to match.
SomethingRead == Spec /\ read # {}

\* Pages call once AutoMatch is through.
MatchedFirst == plan # {} => \A c \in Tabs : call[c] = NoCall

===============================================================================

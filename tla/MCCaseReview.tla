---------------------------- MODULE MCCaseReview ----------------------------
(* Instances of CaseReview for TLC: one case with one approval request.    *)
EXTENDS CaseReview, TLC

CONSTANTS c1, r1, wm, md, cm, ann, w1, w2

MCCaseOf == (r1 :> c1)
MCPlain == <<wm, cm>>
MCRisk == <<wm, md, cm>>
MCRoutePlain == (r1 :> MCPlain)
\* The liveness run has a chain of one step.
MCShort == <<cm>>
MCRouteShort == (r1 :> MCShort)

MCSkipped == (r1 :> {})
MCHolders == (wm :> {ann}) @@ (md :> {ann}) @@ (cm :> {ann})

Symmetric == Permutations({w1, w2})

=============================================================================

----------------------------- MODULE MCApproval -----------------------------
(* Instances of Approval for TLC: one request routed over three steps. *)
EXTENDS Approval, TLC

CONSTANTS r1, wm, cm, ann, bob, w1, w2

\* Wealth manager, a skipped step, compliance: bob holds only the last one.
MCRoute == (r1 :> <<wm, wm, cm>>)
MCSkipped == (r1 :> {2})
MCHolders == (wm :> {ann}) @@ (cm :> {bob})

=============================================================================

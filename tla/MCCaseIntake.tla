---------------------------- MODULE MCCaseIntake ----------------------------
(* Instances of CaseIntake for TLC: one case, three requirement items of   *)
(* the three kinds, a plain form and one of a politically exposed minor.   *)
EXTENDS CaseIntake, TLC

CONSTANTS photo, cert, tnc, plain, risky

MCItems == <<photo, cert, tnc>>
MCTriggered == (plain :> {}) @@ (risky :> {cert})

=============================================================================

-------------------------- MODULE CaseIntakeProofs --------------------------
(***************************************************************************)
(* Proofs about CaseIntake, for any requirement set, any set of forms and  *)
(* any number of cases, requests in parallel, returns and deaths.          *)
(*                                                                         *)
(* The argument.  The rows' statuses come and go, for every save computes  *)
(* them anew; what never goes is the reason for which a row became         *)
(* satisfied, a linked document or a form that accepted the terms          *)
(* (EvidenceInv).  A form is upserted before its rows are, so the reason   *)
(* is there when MaterialiseRow writes the consent row (ConsentInv).       *)
(* SubmitCase may therefore file on an evaluation of any age: what it has  *)
(* seen satisfied has lost its status at most (GateInv).                   *)
(* For OneFilingPerDraft the count is exact: the UPDATE asks for the draft *)
(* in the statement that files it (FilingInv).                             *)
(* A PEP declaration is upserted by a handler that still has to raise the  *)
(* flag, and that handler raises it or dies (PepInv).                      *)
(***************************************************************************)
EXTENDS CaseIntake, TLAPS

\* What stands behind item i of case c.
Evidence(c, i) == i \in linked[c] \/ (i = Tnc /\ c \in accepted)

\* A row that says satisfied has it.
EvidenceInv ==
    \A c \in Cases, i \in Keys : row[c][i] = "satisfied" => Evidence(c, i)

\* A save that is writing the rows of a consenting form has stored the form.
ConsentInv ==
    \A w \in Workers :
        At(w, "materialise") /\ op[w].form \in Accepts => op[w].case \in accepted

\* A submission that is past the gate, and a case that is filed, have evidence
\* for everything required.
Evident(c) == c \in early \/ \A i \in Required : Evidence(c, i)

GateInv ==
    /\ \A w \in Workers : At(w, "file") => Evident(op[w].case)
    /\ \A c \in Cases : caseState[c] = "submitted" => Evident(c)

\* Each filing but the last has been followed by a return.
FilingInv ==
    \A c \in Cases :
        filings[c] = returns[c] + (IF caseState[c] = "submitted" THEN 1 ELSE 0)

\* A PEP declaration that is stored raises the flag, unless its handler died.
Flagging(w, c) ==
    op[w].case = c /\ op[w].form \in Pep /\ (At(w, "materialise") \/ At(w, "flag"))

PepInv ==
    \A c \in Cases :
        form[c] \in Pep =>
            riskFlag[c] \/ c \in died \/ \E w \in Workers : Flagging(w, c)

IInv == TypeOK /\ EvidenceInv /\ ConsentInv /\ GateInv /\ FilingInv /\ PepInv

-----------------------------------------------------------------------------
\* The requirement set.

LEMMA ItemsFacts ==
    /\ Len(Items) \in Nat \ {0}
    /\ DOMAIN Items = 1 .. Len(Items)
    /\ \A n \in DOMAIN Items : Items[n] \in Keys
    /\ Required \subseteq Keys
  BY RequirementAssumption DEF Keys

\* A worker at rest is well typed, and so is one that begins a statement.
LEMMA NoOpTyped == NoOp \in Ops /\ NoOp.pc = "idle"
  BY ItemsFacts, IntakeBoundAssumption DEF NoOp, Ops

LEMMA StatusTyped ==
    ASSUME NEW i, NEW f
    PROVE  StatusFor(i, f) \in {"pending", "satisfied", "not_applicable"}
  BY DEF StatusFor

\* The locals of a worker, and what becomes of them in the loop.
LEMMA Locals ==
    ASSUME TypeOK, NEW w \in Workers
    PROVE  /\ op[w].case \in Cases /\ op[w].form \in Forms \cup {NoForm}
           /\ op[w].n \in DOMAIN Items /\ Items[op[w].n] \in Keys
  BY ItemsFacts DEF TypeOK, Ops

LEMMA MaterialiseMoves ==
    ASSUME TypeOK, NEW w \in Workers, MaterialiseRow(w)
    PROVE  /\ \A v \in Workers \ {w} : op'[v] = op[v]
           /\ \/ /\ op'[w].pc = "materialise"
                 /\ op'[w].form = op[w].form /\ op'[w].case = op[w].case
              \/ op'[w].pc \in {"flag", "idle"}
  <1>1. CASE op[w].n < Len(Items)
    BY <1>1 DEF TypeOK, MaterialiseRow, Begin
  <1>2. CASE ~(op[w].n < Len(Items)) /\ op[w].form \in Pep
    BY <1>2 DEF TypeOK, MaterialiseRow, Begin
  <1>3. CASE ~(op[w].n < Len(Items)) /\ op[w].form \notin Pep
    BY <1>3, NoOpTyped DEF TypeOK, MaterialiseRow, Return
  <1>. QED
    BY <1>1, <1>2, <1>3

\* What MaterialiseRow and SatisfyWithDocument write.
LEMMA RowWritten ==
    ASSUME TypeOK, NEW w \in Workers, NEW s,
           row' = [row EXCEPT ![op[w].case][Items[op[w].n]] = s]
    PROVE  \A c \in Cases, i \in Keys :
               row'[c][i] = IF c = op[w].case /\ i = Items[op[w].n] THEN s ELSE row[c][i]
  BY Locals DEF TypeOK

LEMMA RowTyped ==
    ASSUME TypeOK, NEW w \in Workers,
           NEW s \in {"none", "pending", "satisfied", "not_applicable"},
           row' = [row EXCEPT ![op[w].case][Items[op[w].n]] = s]
    PROVE  row' \in [Cases -> [Keys -> {"none", "pending", "satisfied", "not_applicable"}]]
  BY Locals DEF TypeOK

\* The consent item alone can become satisfied by a form.
LEMMA StatusSatisfied ==
    ASSUME NEW i, NEW f, StatusFor(i, f) = "satisfied"
    PROVE  i = Tnc /\ f \in Accepts
  BY DEF StatusFor

-----------------------------------------------------------------------------
\* Typing and the initial state.

LEMMA InitInv == IntakeInit => IInv
  <1> SUFFICES ASSUME IntakeInit PROVE IInv
    OBVIOUS
  <1>1. TypeOK
    BY NoOpTyped, IntakeBoundAssumption DEF IntakeInit, TypeOK
  <1>2. \A w \in Workers : op[w] = NoOp /\ NoOp.pc = "idle"
    BY DEF IntakeInit, NoOp
  <1>3. EvidenceInv /\ ConsentInv /\ GateInv
    BY <1>2 DEF IntakeInit, EvidenceInv, ConsentInv, GateInv, At
  <1>4. FilingInv
    <2> SUFFICES ASSUME NEW c \in Cases
                 PROVE  filings[c]
                            = returns[c] + (IF caseState[c] = "submitted" THEN 1 ELSE 0)
      BY DEF FilingInv
    <2>1. filings[c] = 0 /\ returns[c] = 0 /\ caseState[c] # "submitted"
      BY DEF IntakeInit
    <2>. QED
      BY <2>1
  <1>5. PepInv
    BY IntakeBoundAssumption, RequirementAssumption DEF IntakeInit, PepInv
  <1>. QED
    BY <1>1, <1>3, <1>4, <1>5 DEF IInv

LEMMA TypeStep == TypeOK /\ [Next]_intakeVars => TypeOK'
  <1> SUFFICES ASSUME TypeOK, [Next]_intakeVars PROVE TypeOK'
    OBVIOUS
  <1> USE DEF TypeOK
  <1>1. ASSUME NEW w \in Workers, NEW c \in Cases, CreateCase(w, c) PROVE TypeOK'
    BY <1>1, ItemsFacts DEF CreateCase, Begin, Ops
  <1>2. ASSUME NEW w \in Workers, NEW c \in Cases, NEW f \in Forms,
               ReadForSave(w, c, f)
        PROVE  TypeOK'
    BY <1>2, ItemsFacts DEF ReadForSave, Begin, Ops
  <1>3. ASSUME NEW w \in Workers, NEW c \in Cases, NEW n \in DOMAIN Items,
               ReadForAttach(w, c, n)
        PROVE  TypeOK'
    BY <1>3 DEF ReadForAttach, Begin, Ops
  <1>4. ASSUME NEW w \in Workers, NEW c \in Cases, EvaluateRequirements(w, c)
        PROVE  TypeOK'
    BY <1>4, ItemsFacts DEF EvaluateRequirements, Begin, Ops
  <1>5. ASSUME NEW w \in Workers, MaterialiseRow(w) PROVE TypeOK'
    <2> DEFINE o == op[w]
    <2>1. row' \in [Cases -> [Keys -> {"none", "pending", "satisfied", "not_applicable"}]]
      BY <1>5, RowTyped, StatusTyped DEF MaterialiseRow
    <2>2. /\ o \in Ops /\ o.n \in Nat
          /\ DOMAIN Items = 1 .. Len(Items) /\ Len(Items) \in Nat \ {0}
      BY ItemsFacts DEF Ops
    <2>3. op' \in [Workers -> Ops]
      <3>1. CASE o.n < Len(Items)
        <4>1. [pc |-> "materialise", case |-> o.case, form |-> o.form, n |-> o.n + 1]
                  \in Ops
          BY <2>2, <3>1 DEF Ops
        <4>. QED
          BY <1>5, <3>1, <4>1 DEF MaterialiseRow, Begin
      <3>2. CASE ~(o.n < Len(Items)) /\ o.form \in Pep
        <4>1. [pc |-> "flag", case |-> o.case, form |-> o.form, n |-> 1] \in Ops
          BY <2>2 DEF Ops
        <4>. QED
          BY <1>5, <3>2, <4>1 DEF MaterialiseRow, Begin
      <3>3. CASE ~(o.n < Len(Items)) /\ o.form \notin Pep
        BY <1>5, <3>3, NoOpTyped DEF MaterialiseRow, Return
      <3>. QED
        BY <3>1, <3>2, <3>3
    <2>. QED
      BY <1>5, <2>1, <2>3 DEF MaterialiseRow
  <1>6. ASSUME NEW w \in Workers, UpsertApplicationData(w) PROVE TypeOK'
    BY <1>6, ItemsFacts DEF UpsertApplicationData, Begin, At, Ops
  <1>7. ASSUME NEW w \in Workers, SetCaseRiskFlag(w) PROVE TypeOK'
    BY <1>7, NoOpTyped DEF SetCaseRiskFlag, Return, Ops
  <1>8. ASSUME NEW w \in Workers, SatisfyWithDocument(w) PROVE TypeOK'
    <2>1. row' \in [Cases -> [Keys -> {"none", "pending", "satisfied", "not_applicable"}]]
      BY <1>8, RowTyped DEF SatisfyWithDocument
    <2>2. linked' \in [Cases -> SUBSET Keys]
      BY <1>8, Locals DEF SatisfyWithDocument
    <2>3. op' \in [Workers -> Ops]
      BY <1>8, NoOpTyped DEF SatisfyWithDocument, Return
    <2>. QED
      BY <1>8, <2>1, <2>2, <2>3 DEF SatisfyWithDocument
  <1>9. ASSUME NEW w \in Workers, FileCase(w) PROVE TypeOK'
    <2>1. op' \in [Workers -> Ops]
      BY <1>9, NoOpTyped DEF FileCase, Return
    <2>2. /\ caseState' \in [Cases -> {"none", "draft", "submitted"}]
          /\ filings' \in [Cases -> Nat]
      <3> DEFINE c == op[w].case
      <3>1. CASE caseState[c] = "draft"
        <4>1. filings[c] + 1 \in Nat /\ c \in Cases
          BY Locals
        <4>. QED
          BY <1>9, <3>1, <4>1 DEF FileCase
      <3>2. CASE caseState[c] # "draft"
        BY <1>9, <3>2 DEF FileCase
      <3>. QED
        BY <3>1, <3>2
    <2>. QED
      BY <1>9, <2>1, <2>2 DEF FileCase
  <1>10. ASSUME NEW w \in Workers, Abort(w) PROVE TypeOK'
    BY <1>10, NoOpTyped DEF Abort, Return, Ops
  <1>11. ASSUME NEW c \in Cases, ReturnCase(c) PROVE TypeOK'
    BY <1>11, IntakeBoundAssumption DEF ReturnCase
  <1>12. CASE UNCHANGED intakeVars
    BY <1>12 DEF intakeVars
  <1>. QED
    BY <1>1, <1>2, <1>3, <1>4, <1>5, <1>6, <1>7, <1>8, <1>9, <1>10, <1>11, <1>12
       DEF Next, Start, Continue

-----------------------------------------------------------------------------
\* One lemma per conjunct of the invariant.

LEMMA EvidenceStep ==
    TypeOK /\ ConsentInv /\ EvidenceInv /\ [Next]_intakeVars => EvidenceInv'
  <1> SUFFICES ASSUME TypeOK, ConsentInv, EvidenceInv, [Next]_intakeVars
               PROVE  EvidenceInv'
    OBVIOUS
  <1> USE DEF TypeOK, ConsentInv, EvidenceInv, Evidence, At
  <1>1. ASSUME NEW w \in Workers, NEW c \in Cases, CreateCase(w, c) PROVE EvidenceInv'
    BY <1>1 DEF CreateCase, Begin
  <1>2. ASSUME NEW w \in Workers, NEW c \in Cases, NEW f \in Forms,
               ReadForSave(w, c, f)
        PROVE  EvidenceInv'
    BY <1>2 DEF ReadForSave, Begin
  <1>3. ASSUME NEW w \in Workers, NEW c \in Cases, NEW n \in DOMAIN Items,
               ReadForAttach(w, c, n)
        PROVE  EvidenceInv'
    BY <1>3 DEF ReadForAttach, Begin
  <1>4. ASSUME NEW w \in Workers, NEW c \in Cases, EvaluateRequirements(w, c)
        PROVE  EvidenceInv'
    BY <1>4 DEF EvaluateRequirements, Begin
  <1>5. ASSUME NEW w \in Workers, MaterialiseRow(w) PROVE EvidenceInv'
    <2> DEFINE o == op[w]
    <2>1. \A c \in Cases, i \in Keys :
              row'[c][i] = IF c = o.case /\ i = Items[o.n]
                           THEN StatusFor(Items[o.n], o.form) ELSE row[c][i]
      BY <1>5, RowWritten DEF MaterialiseRow
    <2>2. UNCHANGED <<linked, accepted>>
      BY <1>5 DEF MaterialiseRow
    <2>3. o.form \in Accepts => o.case \in accepted
      BY <1>5 DEF MaterialiseRow
    <2>. QED
      BY <2>1, <2>2, <2>3, StatusSatisfied
  <1>6. ASSUME NEW w \in Workers, UpsertApplicationData(w) PROVE EvidenceInv'
    BY <1>6 DEF UpsertApplicationData, Begin, At
  <1>7. ASSUME NEW w \in Workers, SetCaseRiskFlag(w) PROVE EvidenceInv'
    BY <1>7 DEF SetCaseRiskFlag, Return
  <1>8. ASSUME NEW w \in Workers, SatisfyWithDocument(w) PROVE EvidenceInv'
    <2> DEFINE o == op[w]
    <2>1. CASE row[o.case][Items[o.n]] = "none"
      BY <1>8, <2>1 DEF SatisfyWithDocument
    <2>2. CASE row[o.case][Items[o.n]] # "none"
      <3>1. \A c \in Cases, i \in Keys :
                row'[c][i] = IF c = o.case /\ i = Items[o.n] THEN "satisfied" ELSE row[c][i]
        BY <1>8, <2>2, RowWritten DEF SatisfyWithDocument
      <3>2. /\ linked' = [linked EXCEPT ![o.case] = @ \cup {Items[o.n]}]
             /\ accepted' = accepted
        BY <1>8, <2>2 DEF SatisfyWithDocument
      <3>. QED
        BY <3>1, <3>2, Locals
    <2>. QED
      BY <2>1, <2>2
  <1>9. ASSUME NEW w \in Workers, FileCase(w) PROVE EvidenceInv'
    BY <1>9 DEF FileCase, Return, At
  <1>10. ASSUME NEW w \in Workers, Abort(w) PROVE EvidenceInv'
    BY <1>10 DEF Abort, Return
  <1>11. ASSUME NEW c \in Cases, ReturnCase(c) PROVE EvidenceInv'
    BY <1>11 DEF ReturnCase
  <1>12. CASE UNCHANGED intakeVars
    BY <1>12 DEF intakeVars
  <1>. QED
    BY <1>1, <1>2, <1>3, <1>4, <1>5, <1>6, <1>7, <1>8, <1>9, <1>10, <1>11, <1>12
       DEF Next, Start, Continue

LEMMA ConsentStep == TypeOK /\ ConsentInv /\ [Next]_intakeVars => ConsentInv'
  <1> SUFFICES ASSUME TypeOK, ConsentInv, [Next]_intakeVars PROVE ConsentInv'
    OBVIOUS
  <1> USE DEF TypeOK, ConsentInv, At
  <1>1. ASSUME NEW w \in Workers, NEW c \in Cases, CreateCase(w, c) PROVE ConsentInv'
    BY <1>1, RequirementAssumption, IntakeBoundAssumption
       DEF CreateCase, Begin, NoOp, Ops
  <1>2. ASSUME NEW w \in Workers, NEW c \in Cases, NEW f \in Forms,
               ReadForSave(w, c, f)
        PROVE  ConsentInv'
    BY <1>2 DEF ReadForSave, Begin, NoOp, Ops
  <1>3. ASSUME NEW w \in Workers, NEW c \in Cases, NEW n \in DOMAIN Items,
               ReadForAttach(w, c, n)
        PROVE  ConsentInv'
    BY <1>3 DEF ReadForAttach, Begin, NoOp, Ops
  <1>4. ASSUME NEW w \in Workers, NEW c \in Cases, EvaluateRequirements(w, c)
        PROVE  ConsentInv'
    BY <1>4 DEF EvaluateRequirements, Begin, NoOp, Ops
  <1>5. ASSUME NEW w \in Workers, MaterialiseRow(w) PROVE ConsentInv'
    <2>1. UNCHANGED accepted /\ At(w, "materialise")
      BY <1>5 DEF MaterialiseRow
    <2>2. \A v \in Workers \ {w} : op'[v] = op[v]
      BY <1>5, MaterialiseMoves
    <2>3. op'[w].pc # "materialise"
          \/ (op'[w].form = op[w].form /\ op'[w].case = op[w].case)
      BY <1>5, MaterialiseMoves
    <2>. QED
      BY <2>1, <2>2, <2>3
  <1>6. ASSUME NEW w \in Workers, UpsertApplicationData(w) PROVE ConsentInv'
    BY <1>6 DEF UpsertApplicationData, Begin, At, NoOp, Ops
  <1>7. ASSUME NEW w \in Workers, SetCaseRiskFlag(w) PROVE ConsentInv'
    BY <1>7 DEF SetCaseRiskFlag, Return, NoOp, Ops
  <1>8. ASSUME NEW w \in Workers, SatisfyWithDocument(w) PROVE ConsentInv'
    BY <1>8 DEF SatisfyWithDocument, Return, At, NoOp, Ops
  <1>9. ASSUME NEW w \in Workers, FileCase(w) PROVE ConsentInv'
    BY <1>9 DEF FileCase, Return, At, NoOp, Ops
  <1>10. ASSUME NEW w \in Workers, Abort(w) PROVE ConsentInv'
    BY <1>10 DEF Abort, Return, NoOp, Ops
  <1>11. ASSUME NEW c \in Cases, ReturnCase(c) PROVE ConsentInv'
    BY <1>11 DEF ReturnCase, NoOp, Ops
  <1>12. CASE UNCHANGED intakeVars
    BY <1>12 DEF intakeVars
  <1>. QED
    BY <1>1, <1>2, <1>3, <1>4, <1>5, <1>6, <1>7, <1>8, <1>9, <1>10, <1>11, <1>12
       DEF Next, Start, Continue

LEMMA GateStep == TypeOK /\ EvidenceInv /\ GateInv /\ [Next]_intakeVars => GateInv'
  <1> SUFFICES ASSUME TypeOK, EvidenceInv, GateInv, [Next]_intakeVars PROVE GateInv'
    OBVIOUS
  <1> USE DEF TypeOK, GateInv, Evident, Evidence, At
  <1>1. ASSUME NEW w \in Workers, NEW c \in Cases, CreateCase(w, c) PROVE GateInv'
    BY <1>1 DEF CreateCase, Begin, NoOp, Ops
  <1>2. ASSUME NEW w \in Workers, NEW c \in Cases, NEW f \in Forms,
               ReadForSave(w, c, f)
        PROVE  GateInv'
    BY <1>2 DEF ReadForSave, Begin, NoOp, Ops
  <1>3. ASSUME NEW w \in Workers, NEW c \in Cases, NEW n \in DOMAIN Items,
               ReadForAttach(w, c, n)
        PROVE  GateInv'
    BY <1>3 DEF ReadForAttach, Begin, NoOp, Ops
  <1>4. ASSUME NEW w \in Workers, NEW c \in Cases, EvaluateRequirements(w, c)
        PROVE  GateInv'
    BY <1>4, ItemsFacts
       DEF EvaluateRequirements, Begin, NoOp, Ops, EvidenceInv, AllRequiredSatisfied
  <1>5. ASSUME NEW w \in Workers, MaterialiseRow(w) PROVE GateInv'
    <2>1. UNCHANGED <<caseState, early, linked, accepted>>
      BY <1>5 DEF MaterialiseRow
    <2>2. \A v \in Workers \ {w} : op'[v] = op[v]
      BY <1>5, MaterialiseMoves
    <2>3. op'[w].pc # "file"
      BY <1>5, MaterialiseMoves
    <2>. QED
      BY <2>1, <2>2, <2>3
  <1>6. ASSUME NEW w \in Workers, UpsertApplicationData(w) PROVE GateInv'
    BY <1>6 DEF UpsertApplicationData, Begin, At, NoOp, Ops
  <1>7. ASSUME NEW w \in Workers, SetCaseRiskFlag(w) PROVE GateInv'
    BY <1>7 DEF SetCaseRiskFlag, Return, NoOp, Ops
  <1>8. ASSUME NEW w \in Workers, SatisfyWithDocument(w) PROVE GateInv'
    <2>1. UNCHANGED <<caseState, early, accepted>>
          /\ \A c \in Cases : linked[c] \subseteq linked'[c]
      BY <1>8, Locals DEF SatisfyWithDocument
    <2>2. \A v \in Workers \ {w} : op'[v] = op[v]
      BY <1>8 DEF SatisfyWithDocument, Return
    <2>3. op'[w].pc # "file"
      BY <1>8, NoOpTyped DEF SatisfyWithDocument, Return
    <2>4. \A c \in Cases : Evident(c) => Evident(c)'
      BY <2>1
    <2>5. \A v \in Workers : op'[v].pc = "file" => op'[v] = op[v]
      BY <2>2, <2>3
    <2>6. \A v \in Workers : op[v].case \in Cases
      BY Locals
    <2>. QED
      BY <2>1, <2>4, <2>5, <2>6
  <1>9. ASSUME NEW w \in Workers, FileCase(w) PROVE GateInv'
    BY <1>9 DEF FileCase, Return, At, NoOp, Ops
  <1>10. ASSUME NEW w \in Workers, Abort(w) PROVE GateInv'
    BY <1>10 DEF Abort, Return, NoOp, Ops
  <1>11. ASSUME NEW c \in Cases, ReturnCase(c) PROVE GateInv'
    BY <1>11 DEF ReturnCase, NoOp, Ops
  <1>12. CASE UNCHANGED intakeVars
    BY <1>12 DEF intakeVars
  <1>. QED
    BY <1>1, <1>2, <1>3, <1>4, <1>5, <1>6, <1>7, <1>8, <1>9, <1>10, <1>11, <1>12
       DEF Next, Start, Continue

LEMMA FilingStep == TypeOK /\ FilingInv /\ [Next]_intakeVars => FilingInv'
  <1> SUFFICES ASSUME TypeOK, FilingInv, [Next]_intakeVars PROVE FilingInv'
    OBVIOUS
  <1> USE DEF TypeOK, FilingInv
  <1>1. ASSUME NEW w \in Workers, NEW c \in Cases, CreateCase(w, c) PROVE FilingInv'
    BY <1>1 DEF CreateCase, Begin, Ops
  <1>2. ASSUME NEW w \in Workers, NEW c \in Cases, NEW f \in Forms,
               ReadForSave(w, c, f)
        PROVE  FilingInv'
    BY <1>2 DEF ReadForSave, Begin, Ops
  <1>3. ASSUME NEW w \in Workers, NEW c \in Cases, NEW n \in DOMAIN Items,
               ReadForAttach(w, c, n)
        PROVE  FilingInv'
    BY <1>3 DEF ReadForAttach, Begin, Ops
  <1>4. ASSUME NEW w \in Workers, NEW c \in Cases, EvaluateRequirements(w, c)
        PROVE  FilingInv'
    BY <1>4 DEF EvaluateRequirements, Begin, Ops
  <1>5. ASSUME NEW w \in Workers, MaterialiseRow(w) PROVE FilingInv'
    BY <1>5 DEF MaterialiseRow, Begin, Return, At, Ops
  <1>6. ASSUME NEW w \in Workers, UpsertApplicationData(w) PROVE FilingInv'
    BY <1>6 DEF UpsertApplicationData, Begin, At, Ops
  <1>7. ASSUME NEW w \in Workers, SetCaseRiskFlag(w) PROVE FilingInv'
    BY <1>7 DEF SetCaseRiskFlag, Return, Ops
  <1>8. ASSUME NEW w \in Workers, SatisfyWithDocument(w) PROVE FilingInv'
    BY <1>8 DEF SatisfyWithDocument, Return, At, Ops
  <1>9. ASSUME NEW w \in Workers, FileCase(w) PROVE FilingInv'
    BY <1>9 DEF FileCase, Return, At, Ops
  <1>10. ASSUME NEW w \in Workers, Abort(w) PROVE FilingInv'
    BY <1>10 DEF Abort, Return, Ops
  <1>11. ASSUME NEW c \in Cases, ReturnCase(c) PROVE FilingInv'
    BY <1>11 DEF ReturnCase, Ops
  <1>12. CASE UNCHANGED intakeVars
    BY <1>12 DEF intakeVars
  <1>. QED
    BY <1>1, <1>2, <1>3, <1>4, <1>5, <1>6, <1>7, <1>8, <1>9, <1>10, <1>11, <1>12
       DEF Next, Start, Continue

\* A worker that stops no flagging of its own disturbs PepInv by no write of op.
LEMMA FlaggingKept ==
    ASSUME TypeOK, PepInv, NEW w \in Workers,
           UNCHANGED <<form, riskFlag, died>>,
           \A v \in Workers \ {w} : op'[v] = op[v],
           \A c \in Cases : Flagging(w, c) => Flagging(w, c)'
    PROVE  PepInv'
  <1> SUFFICES ASSUME NEW c \in Cases, form[c] \in Pep, ~riskFlag[c], c \notin died
               PROVE  \E v \in Workers : Flagging(v, c)'
    BY DEF PepInv
  <1>1. PICK v \in Workers : Flagging(v, c)
    BY DEF PepInv
  <1>2. CASE v = w
    BY <1>1, <1>2
  <1>3. CASE v # w
    BY <1>1, <1>3 DEF Flagging, At
  <1>. QED
    BY <1>2, <1>3

LEMMA PepStep == TypeOK /\ PepInv /\ [Next]_intakeVars => PepInv'
  <1> SUFFICES ASSUME TypeOK, PepInv, [Next]_intakeVars PROVE PepInv'
    OBVIOUS
  <1> USE DEF TypeOK, PepInv, Flagging, At
  <1>1. ASSUME NEW w \in Workers, NEW c \in Cases, CreateCase(w, c) PROVE PepInv'
    <2>1. \A v \in Workers \ {w} : op'[v] = op[v]
      BY <1>1 DEF CreateCase, Begin
    <2>2. \A k \in Cases : ~Flagging(w, k)
      BY <1>1 DEF CreateCase, Free
    <2>. QED
      BY <1>1, <2>1, <2>2, FlaggingKept DEF CreateCase
  <1>2. ASSUME NEW w \in Workers, NEW c \in Cases, NEW f \in Forms,
               ReadForSave(w, c, f)
        PROVE  PepInv'
    <2>1. \A v \in Workers \ {w} : op'[v] = op[v]
      BY <1>2 DEF ReadForSave, Begin
    <2>2. \A k \in Cases : ~Flagging(w, k)
      BY <1>2 DEF ReadForSave, Free
    <2>. QED
      BY <1>2, <2>1, <2>2, FlaggingKept DEF ReadForSave
  <1>3. ASSUME NEW w \in Workers, NEW c \in Cases, NEW n \in DOMAIN Items,
               ReadForAttach(w, c, n)
        PROVE  PepInv'
    <2>1. \A v \in Workers \ {w} : op'[v] = op[v]
      BY <1>3 DEF ReadForAttach, Begin
    <2>2. \A k \in Cases : ~Flagging(w, k)
      BY <1>3 DEF ReadForAttach, Free
    <2>. QED
      BY <1>3, <2>1, <2>2, FlaggingKept DEF ReadForAttach
  <1>4. ASSUME NEW w \in Workers, NEW c \in Cases, EvaluateRequirements(w, c)
        PROVE  PepInv'
    <2>1. \A v \in Workers \ {w} : op'[v] = op[v]
      BY <1>4 DEF EvaluateRequirements, Begin
    <2>2. \A k \in Cases : ~Flagging(w, k)
      BY <1>4 DEF EvaluateRequirements, Free
    <2>. QED
      BY <1>4, <2>1, <2>2, FlaggingKept DEF EvaluateRequirements
  <1>5. ASSUME NEW w \in Workers, MaterialiseRow(w) PROVE PepInv'
    <2>1. UNCHANGED <<form, riskFlag, died>>
      BY <1>5 DEF MaterialiseRow
    <2>2. \A c \in Cases : Flagging(w, c) => Flagging(w, c)'
      BY <1>5, RequirementAssumption, IntakeBoundAssumption
         DEF MaterialiseRow, Begin, Return
    <2>. QED
      BY <1>5, <2>1, <2>2, MaterialiseMoves, FlaggingKept
  <1>6. ASSUME NEW w \in Workers, UpsertApplicationData(w) PROVE PepInv'
    BY <1>6, NoOpTyped DEF UpsertApplicationData, Begin, At, Ops
  <1>7. ASSUME NEW w \in Workers, SetCaseRiskFlag(w) PROVE PepInv'
    BY <1>7, NoOpTyped DEF SetCaseRiskFlag, Return, Ops
  <1>8. ASSUME NEW w \in Workers, SatisfyWithDocument(w) PROVE PepInv'
    BY <1>8, NoOpTyped DEF SatisfyWithDocument, Return, At, Ops
  <1>9. ASSUME NEW w \in Workers, FileCase(w) PROVE PepInv'
    BY <1>9, NoOpTyped DEF FileCase, Return, At, Ops
  <1>10. ASSUME NEW w \in Workers, Abort(w) PROVE PepInv'
    BY <1>10, NoOpTyped DEF Abort, Return, Ops
  <1>11. ASSUME NEW c \in Cases, ReturnCase(c) PROVE PepInv'
    BY <1>11, NoOpTyped DEF ReturnCase, Ops
  <1>12. CASE UNCHANGED intakeVars
    BY <1>12 DEF intakeVars
  <1>. QED
    BY <1>1, <1>2, <1>3, <1>4, <1>5, <1>6, <1>7, <1>8, <1>9, <1>10, <1>11, <1>12
       DEF Next, Start, Continue

-----------------------------------------------------------------------------
\* The invariant holds in every behaviour.

LEMMA InvHolds == Spec => []IInv
  <1>1. IInv /\ [Next]_intakeVars => IInv'
    BY TypeStep, EvidenceStep, ConsentStep, GateStep, FilingStep, PepStep DEF IInv
  <1>. QED
    BY InitInv, <1>1, PTL DEF Spec

\* Every worker's locals and every table stay in their types: a save never
\* walks past the last item of the requirement set.
THEOREM TypeCorrect == Spec => []TypeOK
  <1>1. IInv => TypeOK
    BY DEF IInv
  <1>. QED
    BY InvHolds, <1>1, PTL

\* A filed case whose rows were complete when it was evaluated rests on a
\* linked document, or for the consent item on a form that accepted the terms,
\* for everything that is required, in whatever order saves, attachments and
\* submissions of the case run their statements.
THEOREM FiledOnEvidence == Spec => []FiledRestsOnEvidence
  <1>1. IInv => FiledRestsOnEvidence
    BY DEF IInv, GateInv, Evident, Evidence, FiledRestsOnEvidence
  <1>. QED
    BY InvHolds, <1>1, PTL

\* However many submissions of a draft have passed the gate, one files it.
THEOREM FiledOnce == Spec => []OneFilingPerDraft
  <1>1. IInv => OneFilingPerDraft
    <2> SUFFICES ASSUME IInv, NEW c \in Cases PROVE filings[c] <= returns[c] + 1
      BY DEF OneFilingPerDraft
    <2>1. returns[c] \in Nat
      BY IntakeBoundAssumption DEF IInv, TypeOK
    <2>2. filings[c] = returns[c] \/ filings[c] = returns[c] + 1
      <3>1. CASE caseState[c] = "submitted"
        BY <3>1 DEF IInv, FilingInv
      <3>2. CASE caseState[c] # "submitted"
        BY <2>1, <3>2 DEF IInv, FilingInv
      <3>. QED
        BY <3>1, <3>2
    <2>. QED
      BY <2>1, <2>2
  <1>. QED
    BY InvHolds, <1>1, PTL

\* The safety half of PepRaisesFlag: a PEP declaration that is stored and has
\* not raised the flag is in the hands of a handler that is going to raise it,
\* or that has died.  Nothing but the death of a handler loses it.
THEOREM PepNotForgotten == Spec => []PepInv
  <1>1. IInv => PepInv
    BY DEF IInv
  <1>. QED
    BY InvHolds, <1>1, PTL

=============================================================================

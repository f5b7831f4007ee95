----------------------------- MODULE CaseIntake -----------------------------
(***************************************************************************)
(* The drafting half of an onboarding case: CreateCase,                    *)
(* SaveApplicationData, AttachDocument and the requirement gate of         *)
(* SubmitCase (internal/onboarding/service.go), over the requirement sets  *)
(* of internal/onboarding/domain/requirements.go.                          *)
(*                                                                         *)
(* None of these handlers opens a transaction.  Each statement commits on  *)
(* its own, so a handler is a worker that runs one statement at a time     *)
(* between those of the others and may die between two of them.            *)
(* What happens to a case after it is filed is the module CaseReview; here *)
(* it can only come back as a draft.                                       *)
(***************************************************************************)
EXTENDS Naturals, Sequences

CONSTANTS
    Cases,      \* onboarding_case rows that may be opened
    Workers,    \* HTTP requests served at the same time
    Items,      \* the keys of the client type's requirement set, in order
    Required,   \* items with obligation Required; the others are Conditional
    Tnc,        \* the consent item tnc_acceptance
    Forms,      \* the application forms a wealth manager may save
    Triggered,  \* Triggered[f]: the conditional items whose condition f meets
    Accepts,    \* forms with declaration_tnc_accepted
    Pep,        \* forms that declare a politically exposed person
    NoForm,     \* no application_data row; the empty ApplicationFields
    MaxReturns, \* bound: how often a case comes back as a draft
    CanAbort    \* may a handler die between two statements?

Keys == {Items[n] : n \in DOMAIN Items}

ASSUME RequirementAssumption ==
    /\ Items \in Seq(Keys)
    /\ Items # <<>>
    /\ \A m, n \in DOMAIN Items : Items[m] = Items[n] => m = n
    /\ Required \subseteq Keys
    /\ Tnc \in Required
    /\ Accepts \subseteq Forms
    /\ Pep \subseteq Forms
    /\ Triggered \in [Forms -> SUBSET (Keys \ Required)]
ASSUME IntakeBoundAssumption ==
    /\ Cases # {}
    /\ NoForm \notin Forms
    /\ MaxReturns \in Nat
    /\ CanAbort \in BOOLEAN

VARIABLES
    caseState,  \* onboarding_case.state ("none": no row yet)
    riskFlag,   \* onboarding_case.risk_flag
    form,       \* the application_data row
    row,        \* requirement_instance.status ("none": no row yet)
    linked,     \* the items whose requirement_instance has a document_id
    op,         \* the statement each worker is about to run, and its locals
    accepted,   \* history: cases of which some saved form accepted the T&C
    early,      \* history: cases evaluated before all their rows existed
    filings,    \* history: how often the case was filed
    returns,    \* history: how often it came back
    died        \* history: cases for which some handler died half-way

intakeVars == <<caseState, riskFlag, form, row, linked, op, accepted, early,
                filings, returns, died>>

NoOp == [pc |-> "idle", case |-> CHOOSE c \in Cases : TRUE, form |-> NoForm, n |-> 1]

Free(w) == op[w].pc = "idle"
At(w, label) == op[w].pc = label
Return(w) == op' = [op EXCEPT ![w] = NoOp]
Begin(w, label, c, f, n) ==
    op' = [op EXCEPT ![w] = [pc |-> label, case |-> c, form |-> f, n |-> n]]

\* The status materialiseRequirements computes for item i from the form.
StatusFor(i, f) ==
    IF i = Tnc /\ f \in Accepts THEN "satisfied"
    ELSE IF i \in Required \/ (f # NoForm /\ i \in Triggered[f]) THEN "pending"
    ELSE "not_applicable"

\* (Mutant: the gate looks at the conditional items only.)
ConditionalsSatisfied(c) ==
    \A i \in Keys : row[c][i] = "pending" => i \in Required

\* allRequiredSatisfied over the rows there are: none at all passes the gate.
AllRequiredSatisfied(c) ==
    \A i \in Keys :
        /\ row[c][i] # "none" /\ i \in Required => row[c][i] = "satisfied"
        /\ row[c][i] # "none" /\ i \notin Required => row[c][i] # "pending"

IntakeInit ==
    /\ caseState = [c \in Cases |-> "none"]
    /\ riskFlag = [c \in Cases |-> FALSE]
    /\ form = [c \in Cases |-> NoForm]
    /\ row = [c \in Cases |-> [i \in Keys |-> "none"]]
    /\ linked = [c \in Cases |-> {}]
    /\ op = [w \in Workers |-> NoOp]
    /\ accepted = {}
    /\ early = {}
    /\ filings = [c \in Cases |-> 0]
    /\ returns = [c \in Cases |-> 0]
    /\ died = {}

-----------------------------------------------------------------------------
(* CreateCase, and the loop of materialiseRequirements it shares with      *)
(* SaveApplicationData: one upsert per item, which overwrites the status   *)
(* of a row that exists, document or not.                                  *)

CreateCase(w, c) ==
    /\ Free(w)
    /\ caseState[c] = "none"
    /\ caseState' = [caseState EXCEPT ![c] = "draft"]
    /\ Begin(w, "materialise", c, NoForm, 1)
    /\ UNCHANGED <<riskFlag, form, row, linked, accepted, early, filings, returns, died>>

\* (Mutant: SaveApplicationData returns when the rows are written.)
MaterialiseOnly(w) ==
    /\ At(w, "materialise")
    /\ LET o == op[w]
       IN  /\ row' = [row EXCEPT ![o.case][Items[o.n]] = StatusFor(Items[o.n], o.form)]
           /\ IF o.n < Len(Items)
              THEN Begin(w, "materialise", o.case, o.form, o.n + 1)
              ELSE Return(w)
    /\ UNCHANGED <<caseState, riskFlag, form, linked, accepted, early, filings, returns, died>>

MaterialiseRow(w) ==
    /\ At(w, "materialise")
    /\ LET o == op[w]
       IN  /\ row' = [row EXCEPT ![o.case][Items[o.n]] = StatusFor(Items[o.n], o.form)]
           /\ IF o.n < Len(Items)
              THEN Begin(w, "materialise", o.case, o.form, o.n + 1)
              ELSE IF o.form \in Pep
              THEN Begin(w, "flag", o.case, o.form, 1)
              ELSE Return(w)
    /\ UNCHANGED <<caseState, riskFlag, form, linked, accepted, early, filings, returns, died>>

(* SaveApplicationData: read the state, upsert the form, materialise, and  *)
(* raise the risk flag when the form declares a PEP.                       *)

ReadForSave(w, c, f) ==
    /\ Free(w)
    /\ caseState[c] = "draft"
    /\ Begin(w, "save", c, f, 1)
    /\ UNCHANGED <<caseState, riskFlag, form, row, linked, accepted, early, filings, returns, died>>

UpsertApplicationData(w) ==
    /\ At(w, "save")
    /\ LET o == op[w]
       IN  /\ form' = [form EXCEPT ![o.case] = o.form]
           /\ accepted' = IF o.form \in Accepts THEN accepted \cup {o.case} ELSE accepted
           /\ Begin(w, "materialise", o.case, o.form, 1)
    /\ UNCHANGED <<caseState, riskFlag, row, linked, early, filings, returns, died>>

SetCaseRiskFlag(w) ==
    /\ At(w, "flag")
    /\ riskFlag' = [riskFlag EXCEPT ![op[w].case] = TRUE]
    /\ Return(w)
    /\ UNCHANGED <<caseState, form, row, linked, accepted, early, filings, returns, died>>

(* AttachDocument: read the state, then satisfy the row, if there is one.  *)

ReadForAttach(w, c, n) ==
    /\ Free(w)
    /\ caseState[c] = "draft"
    /\ Begin(w, "attach", c, NoForm, n)
    /\ UNCHANGED <<caseState, riskFlag, form, row, linked, accepted, early, filings, returns, died>>

SatisfyWithDocument(w) ==
    /\ At(w, "attach")
    /\ LET c == op[w].case
           i == Items[op[w].n]
       IN  IF row[c][i] = "none"
           THEN UNCHANGED <<row, linked>>
           ELSE /\ row' = [row EXCEPT ![c][i] = "satisfied"]
                /\ linked' = [linked EXCEPT ![c] = @ \cup {i}]
    /\ Return(w)
    /\ UNCHANGED <<caseState, riskFlag, form, accepted, early, filings, returns, died>>

(* SubmitCase: evaluate the rows, then UPDATE ... WHERE state = 'draft'.   *)

EvaluateRequirements(w, c) ==
    /\ Free(w)
    /\ caseState[c] # "none"
    /\ AllRequiredSatisfied(c)
    /\ early' = IF \E i \in Keys : row[c][i] = "none" THEN early \cup {c} ELSE early
    /\ Begin(w, "file", c, NoForm, 1)
    /\ UNCHANGED <<caseState, riskFlag, form, row, linked, accepted, filings, returns, died>>

\* (Mutant: the UPDATE forgets "AND state = 'draft'".)
FileAnyCase(w) ==
    /\ At(w, "file")
    /\ LET c == op[w].case
       IN  /\ caseState' = [caseState EXCEPT ![c] = "submitted"]
           /\ filings' = [filings EXCEPT ![c] = @ + 1]
    /\ Return(w)
    /\ UNCHANGED <<riskFlag, form, row, linked, accepted, early, returns, died>>

FileCase(w) ==
    /\ At(w, "file")
    /\ LET c == op[w].case
       IN  IF caseState[c] = "draft"
           THEN /\ caseState' = [caseState EXCEPT ![c] = "submitted"]
                /\ filings' = [filings EXCEPT ![c] = @ + 1]
           ELSE UNCHANGED <<caseState, filings>>
    /\ Return(w)
    /\ UNCHANGED <<riskFlag, form, row, linked, accepted, early, returns, died>>

\* (Mutant: the state is "returned", as the migration's diagram has it.)
ReturnAsReturned(c) ==
    /\ caseState[c] = "submitted"
    /\ returns[c] < MaxReturns
    /\ caseState' = [caseState EXCEPT ![c] = "returned"]
    /\ returns' = [returns EXCEPT ![c] = @ + 1]
    /\ UNCHANGED <<riskFlag, form, row, linked, op, accepted, early, filings, died>>

\* ReturnCase: the review sends the case back.
ReturnCase(c) ==
    /\ caseState[c] = "submitted"
    /\ returns[c] < MaxReturns
    /\ caseState' = [caseState EXCEPT ![c] = "draft"]
    /\ returns' = [returns EXCEPT ![c] = @ + 1]
    /\ UNCHANGED <<riskFlag, form, row, linked, op, accepted, early, filings, died>>

\* The handler dies: what it has committed stays.
Abort(w) ==
    /\ CanAbort
    /\ ~Free(w)
    /\ died' = died \cup {op[w].case}
    /\ Return(w)
    /\ UNCHANGED <<caseState, riskFlag, form, row, linked, accepted, early, filings, returns>>

-----------------------------------------------------------------------------
Continue(w) ==
    \/ MaterialiseRow(w)
    \/ UpsertApplicationData(w)
    \/ SetCaseRiskFlag(w)
    \/ SatisfyWithDocument(w)
    \/ FileCase(w)

Start(w, c) ==
    \/ CreateCase(w, c)
    \/ \E f \in Forms : ReadForSave(w, c, f)
    \/ \E n \in DOMAIN Items : ReadForAttach(w, c, n)
    \/ EvaluateRequirements(w, c)

Next ==
    \/ \E w \in Workers, c \in Cases : Start(w, c)
    \/ \E w \in Workers : Continue(w) \/ Abort(w)
    \/ \E c \in Cases : ReturnCase(c)

Spec == IntakeInit /\ [][Next]_intakeVars

\* A goroutine that serves a request runs to its end unless it dies.
FairSpec == Spec /\ \A w \in Workers : WF_intakeVars(Continue(w))

-----------------------------------------------------------------------------
Ops == [pc : {"idle", "materialise", "save", "flag", "attach", "file"},
        case : Cases, form : Forms \cup {NoForm}, n : DOMAIN Items]

TypeOK ==
    /\ caseState \in [Cases -> {"none", "draft", "submitted"}]
    /\ riskFlag \in [Cases -> BOOLEAN]
    /\ form \in [Cases -> Forms \cup {NoForm}]
    /\ row \in [Cases -> [Keys -> {"none", "pending", "satisfied", "not_applicable"}]]
    /\ linked \in [Cases -> SUBSET Keys]
    /\ op \in [Workers -> Ops]
    /\ accepted \subseteq Cases
    /\ early \subseteq Cases
    /\ filings \in [Cases -> Nat]
    /\ returns \in [Cases -> 0 .. MaxReturns]
    /\ died \subseteq Cases

\* What a filed case rests on although saves reset statuses, attachments race
\* with them and the gate is evaluated before the UPDATE: for every required
\* item a document was linked or, for the consent item, some saved form
\* accepted the terms.  The exception is a case that was evaluated while its
\* rows were not all there (CreateCase still running, or dead half-way).
FiledRestsOnEvidence ==
    \A c \in Cases : caseState[c] = "submitted" /\ c \notin early =>
        \A i \in Required : i \in linked[c] \/ (i = Tnc /\ c \in accepted)

\* Concurrent SubmitCase calls file a draft once: a case is filed at most once
\* more often than it came back.
OneFilingPerDraft == \A c \in Cases : filings[c] <= returns[c] + 1

\* A PEP declaration that is saved raises the case's risk flag sooner or later,
\* the flag that routes the case to the managing director, unless the handler
\* dies between the two.
PepRaisesFlag ==
    \A c \in Cases : form[c] \in Pep ~> (riskFlag[c] \/ c \in died)

=============================================================================

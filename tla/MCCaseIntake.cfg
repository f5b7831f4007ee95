SPECIFICATION FairSpec
CONSTANTS
    photo = photo
    cert = cert
    tnc = tnc
    plain = plain
    risky = risky
    Cases = {c1}
    Workers = {w1, w2}
    Items <- MCItems
    Required = {photo, tnc}
    Tnc = tnc
    Forms = {plain, risky}
    Triggered <- MCTriggered
    Accepts = {plain}
    Pep = {risky}
    NoForm = NoForm
    MaxReturns = 1
    CanAbort = TRUE
INVARIANTS
    TypeOK
    FiledRestsOnEvidence
    OneFilingPerDraft
PROPERTIES
    PepRaisesFlag
CHECK_DEADLOCK FALSE

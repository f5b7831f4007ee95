SPECIFICATION ReviewSpec
CONSTANTS
    c1 = c1
    r1 = r1
    wm = wm
    md = md
    cm = cm
    ann = ann
    w1 = w1
    w2 = w2
    Cases = {c1}
    CaseOf <- MCCaseOf
    PlainChain <- MCPlain
    RiskChain <- MCRisk
    CheckTypes = {pep}
    CheckOutcomes = {"fail"}
    NoRequest = NoRequest
    MaxReviews = 2
    Requests = {r1}
    Positions = {wm, md, cm}
    Users = {ann}
    Workers = {w1, w2}
    Route <- MCRoutePlain
    Skipped <- MCSkipped
    Holders <- MCHolders
    CanAbort = TRUE
    Nobody = Nobody
    NoStep = NoStep
SYMMETRY Symmetric
INVARIANTS
    ReviewTypeOK
    ActivationHasCause
    InReviewHasChain
CHECK_DEADLOCK FALSE

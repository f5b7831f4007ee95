SPECIFICATION FairReviewSpec
CONSTANTS
    c1 = c1
    r1 = r1
    wm = wm
    md = md
    cm = cm
    ann = ann
    w1 = w1
    w2 = w2
    Cases = {c1}
    CaseOf <- MCCaseOf
    PlainChain <- MCShort
    RiskChain <- MCRisk
    CheckTypes = {pep}
    CheckOutcomes = {"pass", "fail"}
    NoRequest = NoRequest
    MaxReviews = 2
    Requests = {r1}
    Positions = {wm, md, cm}
    Users = {ann}
    Workers = {w1, w2}
    Route <- MCRouteShort
    Skipped <- MCSkipped
    Holders <- MCHolders
    CanAbort = TRUE
    Nobody = Nobody
    NoStep = NoStep
PROPERTIES
    SubmittedMovesOn
    FullApprovalActivates
CHECK_DEADLOCK FALSE

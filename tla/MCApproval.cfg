SPECIFICATION FairSpec
CONSTANTS
    r1 = r1
    wm = wm
    cm = cm
    ann = ann
    bob = bob
    w1 = w1
    w2 = w2
    Requests = {r1}
    Positions = {wm, cm}
    Users = {ann, bob}
    Workers = {w1, w2}
    Route <- MCRoute
    Skipped <- MCSkipped
    Holders <- MCHolders
    CanAbort = TRUE
    Nobody = Nobody
    NoStep = NoStep
INVARIANTS
    TypeOK
    RowShowsOneDecision
    OutcomeHasDecision
PROPERTIES
    StepsNeverReopen
    DecidedIsAnnounced
CHECK_DEADLOCK FALSE

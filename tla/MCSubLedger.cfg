SPECIFICATION SubSpec
CONSTANTS
    b1 = b1
    i1 = i1
    a1 = a1
    p1 = p1
    r1 = r1
    w1 = w1
    w2 = w2
    j1 = j1
    j2 = j2
    j3 = j3
    j4 = j4
    Journals = {j1, j2, j3}
    NoJournal = NoJournal
    Totals <- MCTotals
    Months = {1, 2}
    Periods = {p1}
    MonthOf <- MCMonthOf
    Seeded <- MCSeeded
    Workers = {w1, w2}
    Payables = {b1}
    PayRuns = {r1}
    Due <- MCDue
    Invoices = {i1}
    Gross <- MCGross
    Withheld <- MCWithheld
    Assets = {a1}
    Cost <- MCCost
    Salvage <- MCSalvage
    Charge <- MCCharge
    Amounts = {4}
    Dates = {1}
SYMMETRY Symmetric
CONSTRAINT Bounded
INVARIANTS
    SubTypeOK
    StatusIsBooked
    ReversedIffMirrored
    PaidMeansCleared
    NothingUnbooked
    UndisturbedMatchesPostings
PROPERTIES
    ImplementsBook
CHECK_DEADLOCK FALSE

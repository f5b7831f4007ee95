SPECIFICATION Spec
CONSTANTS
    p1 = p1
    p2 = p2
    w1 = w1
    w2 = w2
    j1 = j1
    j2 = j2
    j3 = j3
    Journals = {j1, j2, j3}
    NoJournal = NoJournal
    Totals <- MCTotals
    Months = {1, 2}
    Periods = {p1, p2}
    MonthOf <- MCMonthOf
    Seeded <- MCSeeded
    Workers = {w1, w2}
SYMMETRY Symmetric
INVARIANTS
    ShutMonthsTakeNoPosting
CHECK_DEADLOCK FALSE

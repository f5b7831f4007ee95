SPECIFICATION Spec
CONSTANTS
    h1 = h1
    h2 = h2
    k1 = k1
    k2 = k2
    None = None
    Handlers = {h1, h2}
    Kpis = {k1, k2}
    MaxCalls = 4
SYMMETRY Symmetric
INVARIANTS
    TypeOK
    SeenIsCurrent
    AgreedIsComplete
    

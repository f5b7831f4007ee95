SPECIFICATION Spec
CONSTANTS
    alice = alice
    bob = bob
    s1 = s1
    s2 = s2
    officer = officer
    analyst = analyst
    chief = chief
    preview = preview
    None = None
    Users = {alice, bob}
    Subs = {s1, s2}
    Positions = {officer, analyst, chief}
    Demo = {preview}
    Admin = {chief}
    Member <- MCMember
    Held <- MCHeld
    MaxSignIns = 2
    MaxSwitches = 1
    MaxFaults = 1
INVARIANTS
    TypeOK
    ActiveIsOffered
    LatestAnswerFits
PROPERTIES
    LoadingEnds
    PageSettles
CHECK_DEADLOCK FALSE

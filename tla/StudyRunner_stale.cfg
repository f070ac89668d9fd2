SPECIFICATION Spec
CONSTANTS
    p1 = p1
    p2 = p2
    i1 = i1
    i2 = i2
    c1 = c1
    c2 = c2
    Procs = {p1, p2}
    Identities = {i1, i2}
    Cells = {c1, c2}
    RunNames <- MCRunNames
    ConfirmAbove = 2
    NoProc = NoProc
    NoIdentity = NoIdentity
    Absent = Absent
    Torn = Torn
    MaxFaults = 1
PROPERTIES FinishedIndexIsHonest

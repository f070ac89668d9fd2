SPECIFICATION Spec
CONSTANTS
    s1 = s1
    s2 = s2
    u1 = u1
    u2 = u2
    r1 = r1
    r2 = r2
    Sessions = {s1, s2}
    Cancellers = {u1, u2}
    RunSpecs = {r1, r2}
    NoSpec = NoSpec
    NoRun = NoRun
    MaxFaults = 1
SYMMETRY Symmetry
INVARIANTS ReportsAgree NothingIsLost RunsWhatWasConfirmed
PROPERTIES CancelSticksApart
CHECK_DEADLOCK FALSE

SPECIFICATION Spec
CONSTANTS
    l1 = l1
    l2 = l2
    v1 = v1
    v2 = v2
    Loaders = {l1, l2}
    Versions = {v1, v2}
    MaxEntries = 1
    EditMidLoad = TRUE
    NoLoader = NoLoader
    Nothing = Nothing
    Absent = Absent
    Torn = Torn
    MaxLoads = 3
    MaxEdits = 2
    MaxFaults = 0
SYMMETRY Symmetric
INVARIANTS LoadsAreCurrent

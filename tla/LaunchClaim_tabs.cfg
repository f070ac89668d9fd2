SPECIFICATION LaunchSpec
CONSTANTS
    t1 = t1
    t2 = t2
    pid1 = pid1
    pid2 = pid2
    pid3 = pid3
    Tabs = {t1, t2}
    Children = {pid1, pid2, pid3}
    Server = Server
    Missing = Missing
    Empty = Empty
    NoOne = NoOne
    MaxFailures = 2
INVARIANTS   RestAllowsLaunch
CHECK_DEADLOCK FALSE

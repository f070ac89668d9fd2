SPECIFICATION FairSpec
CONSTANTS
    t1 = t1
    s1 = s1
    sc = sc
    Tabs = {t1}
    Sidecar = sc
    Sockets = {s1}
    MaxTurns = 1
    MaxEvents = 2
    MaxFaults = 1
INVARIANTS RegistryMatchesRecord FlushKeepsOrder NothingIsLostQuietly AnswersFollowQuestions
PROPERTIES ClosingEndsOnceSpoken
CHECK_DEADLOCK FALSE

SPECIFICATION FairSpec
CONSTANTS
    c1 = c1
    c2 = c2
    ka = ka
    kb = kb
    Calls = {c1, c2}
    Menu <- MCMenu
    Limits = {"u"}
    MaxAttempts = 2
    MaxStale = 1
    Faults <- MCFaults
    Outlived = FALSE
    MaxFaults = 2
    MaxInc = 2
    None = None
INVARIANTS TypeOK AnswerTruthful RunningIsObserved
PROPERTIES OneFate VersionedEnds
CHECK_DEADLOCK FALSE

SPECIFICATION Spec
CONSTANTS
    Market = {1, 2}
    Horizon = {1, 2}
    OpensAt <- MCOpensAt
    SettlesAt <- MCSettlesAt
    Lively = {1}
    Warmup = 1
    MaxSessions = 1
    Jitter = 1
    PassTime = 1
    Tolerance = 0
    MaxWait = 0
    MaxErrors = 2
    MaxTime = 3
    MaxFaults = 2
    Course <- MCCourse
INVARIANT
    NothingFromLater

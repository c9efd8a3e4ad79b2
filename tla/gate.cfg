SPECIFICATION Spec
CONSTANTS
    Market = {1, 2}
    Hash = {h1, h2, h3}
    Sound = {h1, h2}
    NoHash = NoHash
    OpensAt <- MCOpensAt
    SettlesAt <- MCSettlesAt
    SafetyWindow = 1
    MaxTime = 2
    MaxListed = 2
    MaxAmends = 1
    MaxFailed = 1
    MaxCrashes = 1
INVARIANTS
    HistoriesAreSound
PROPERTIES
    ChangeIsRefusedAtSight
SYMMETRY Alike
CHECK_DEADLOCK FALSE

SPECIFICATION ReplaySpec
CONSTANTS
    Unit = 20
    Logit <- MCLogit
    Configs <- MCConfigs
    Window = 4
    Market = {1, 2, 3}
    Settle <- MCSettle
    Horizons = {1, 2, 3}
    RowKind <- MCRows
    Lookbacks <- MCLookbacks
    Bar <- MCBar
    MaxTime = 12
    Start = 1000
    MaxStake = 88
    MaxFee = 2
    MaxDailyLoss = 150
    DailyPct = 50
    WeeklyPct = 60
    MaxExposure = 200
    MaxConcurrent = 1
    MaxLosses = 2
    Cooldown = 3
    DayOf <- MCDayOf
    WeekOf <- MCWeekOf
INVARIANTS
    NoLookahead
    MirrorImage
    TradesAreJustified
    ReportsAddUp
CHECK_DEADLOCK FALSE

SPECIFICATION Spec
CONSTANTS
    Market = {1, 2}
    Side = {"UP"}
    MaxTime = 3
    Horizon = 1
    Start = 6
    MaxStake = 2
    MaxFee = 0
    MaxDailyLoss = 4
    DailyPct = 80
    WeeklyPct = 100
    MaxExposure = 3
    MaxConcurrent = 2
    MaxLosses = 2
    Cooldown = 1
    MaxCrashes = 1
    MaxWriteErrors = 1
    MaxShares = 3
    MaxCloses = 2
    DayOf <- MCDayOf
    WeekOf <- MCWeekOf
    SettleAt <- MCSettleAt
    Fill <- MCFill
INVARIANTS
    JournalIsSound
    LossIsBounded
CHECK_DEADLOCK FALSE

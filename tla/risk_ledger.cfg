SPECIFICATION Spec
CONSTANTS
    Position = {p1, p2}
    p1 = p1
    p2 = p2
    MaxTime = 5
    Start = 8
    MaxStake = 2
    MaxFee = 1
    MaxDailyLoss = 2
    DailyPct = 60
    WeeklyPct = 80
    MaxExposure = 5
    MaxConcurrent = 2
    MaxLosses = 2
    Cooldown = 1
    MaxPayoff = 4
    MaxTrades = 4
    DayOf <- MCDayOf
    WeekOf <- MCWeekOf
SYMMETRY Interchangeable
INVARIANTS
    BooksAreRight
    DailyLossBound
PROPERTIES
    AccountSpec
    HaltLastsItsDay
    StreakPausesTrading

SPECIFICATION Spec
CONSTANTS
    References = {"clob", "binance"}
    Grain <- MCGrain
    Skews = {0, 5}
    Halves = {1, 4, 5}
    MaxSampleRtt = 8
    MaxDrift = 6
    MaxUncertainty = 3
    StaleAfter = 2
    MinSamples = 1
    OrderSafety = 2
    Settlements = {4, 7}
    MaxUtc = 4
    Conditions = {"stopped"}
    Regressed = "readiness"
    RestartFailing = "restarts"
    MaxCount = 1
    MaxDisturbed = 1
    MaxAtWork = 2
    HourOf <- MCHourOf
    DayOf <- MCDayOf
    BufferFrames = 3
    MaxKills = 2
    MaxFaults = 1
    Stamps = {1, 2, 3, 4, 5, 6}
    Signed <- MCSigned
    MaxWindow = 3
    MaxTrades = 4
    Supports <- MCSupports
    DefaultPair <- MCDefault
    ExpectedSource = "chainlink"
    ExpectedPair = 1
    WindowSeconds = 5
    MinConfidence = 10
    Payloads <- MCPayloads
    MaxRetries = 2
    Markets = {1}
    Forms = {1, 2}
    Endpoints = {1, 2}
    Days = {1, 2}
    Moments = {1, 2}
    Readings = {0, 1, 2}
    NoReading = 0
    MaxCaptures = 2
    MaxParsers = 1
    Contract <- MCContract
    Documents <- MCDocuments
    Checkers = {1, 2}
    Strict = TRUE
    MaxChecks = 3
    WindowOpen = 4
    Warmup = 1
    Instants = {4, 6}
    Bar = 2
    History = 1
    LastMoment = 6
    MaxOutages = 1
INVARIANTS
    ClockIsHonest
    NotifiesOnce
    RecordsAreWhole
    SettlesBeyondDoubt
    GammaIsReadRight
    PricesOfTheirTime
CHECK_DEADLOCK FALSE

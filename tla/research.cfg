SPECIFICATION Spec
CONSTANTS
    Budgets <- MCBudgets
    Unregistered <- MCUnregistered
    Grid = {8, 3}
    WindowLen = 10
    LabelGrace = 25
    GuardTolerance = 1
    Provider = "chainlink"
    Forbidden = {"winner"}
    Engineered = {"mid", "price", "depth"}
    Gates <- MCGates
    Datasets <- AllDatasets
    Plans <- MCPlans
    HoldoutPct = 20
    ModelIds = {1, 2}
    Evaluations <- MCEvaluations
    Margin = 1
    MinImprovement = 2
    MaxEce = 2
    Declarations <- MCDeclarations
    Sources = {"book", "quote", "clock"}
    Readings = {0, 1, 2}
    Broken = 0
    MaxPasses = 2
    Benches <- MCBenches
    VotePercent = 50
    One = 6
    Scans <- MCScans
    EmbargoWindows = 3
    ShareUnit = 8
    Tickets <- MCTickets
    Prices = {3, 6}
    PaperBar <- MCPaperBar
    MaxRuns = 3
INVARIANTS
    FoldsAreClean
    HoldoutUntouched
    SoundRows
    ProductionLoads
    RecomputingLessChangesNothing
    ChoicesAreSound
    EvidenceIsForward
    RecordPromotesOnlyResults
PROPERTIES
    ChampionYieldsToBetter
CHECK_DEADLOCK FALSE

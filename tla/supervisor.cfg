SPECIFICATION LiveSpec
CONSTANTS
    Run = {r1, r2}
    Proc = {p1, p2, p3}
    Nobody = Nobody
    Unparsable = Unparsable
    Probe = Probe
    Budget = 1
    Grace = 1
    HealthyRun = 2
    MaxErrors = 1
INVARIANTS
    OneCollector
PROPERTIES
    StopsOnlySilent
    CollectionGoesOn
CHECK_DEADLOCK FALSE

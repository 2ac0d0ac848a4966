SPECIFICATION Spec
CONSTANTS
    w1 = w1
    w2 = w2
    Workers <- TwoWorkers
    Records <- MCRecords
    NoRecord = NoRecord
    NoLabel = NoLabel
    LatencyMs = 20
    CostLimit = 3
    MinCost = 2
    FloorPercent = 80
    StuckWindow = 2
    HistoryRows = 2
    Heartbeat = 1
    MaxRecords = 4
SYMMETRY Symmetry
INVARIANTS
    HeartbeatExact
    StuckStreak
    DriftHasCause
    CostAgainstHistory
CHECK_DEADLOCK FALSE

SPECIFICATION Spec
CONSTANTS
    w1 = w1
    w2 = w2
    m1 = m1
    m2 = m2
    k1 = k1
    NoReceipt = NoReceipt
    Workers <- TwoWorkers
    Messages <- TwoMessages
    Keys = {k1}
    KeyOf <- SameKey
    Malformed = {}
    Rules = {1, 2}
    Verdicts <- Either
    Partners = {"slack", "pagerduty"}
    Investigate = FALSE
    MaxReceive = 2
    MaxBatch = 1
    MaxRestarts = 1
SYMMETRY Symmetry
VIEW WithoutLogs
INVARIANTS
    NoLostEvent
    NoDuplicateAlerts
    AuditComplete
PROPERTIES
    RecordedIsFinal
    ImplementsIngestOnce

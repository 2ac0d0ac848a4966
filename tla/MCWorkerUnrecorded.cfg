SPECIFICATION Spec
CONSTANTS
    w1 = w1
    w2 = w2
    m1 = m1
    m2 = m2
    k1 = k1
    NoReceipt = NoReceipt
    Workers <- OneWorker
    Messages <- OneMessage
    Keys = {k1}
    KeyOf <- SameKey
    Malformed = {}
    Rules = {1, 2}
    Verdicts <- Several
    Partners = {"slack", "pagerduty"}
    Investigate = TRUE
    MaxReceive = 2
    MaxBatch = 2
    MaxRestarts = 0
SYMMETRY Symmetry
INVARIANTS
    PagesRecorded

SPECIFICATION FairSpec
CONSTANTS
    w1 = w1
    w2 = w2
    m1 = m1
    m2 = m2
    k1 = k1
    NoReceipt = NoReceipt
    Workers <- TwoWorkers
    Messages <- TwoMessages
    Keys = {k1}
    KeyOf <- SameKey
    Malformed = {m2}
    Rules = {1, 2}
    Verdicts <- Both
    Partners = {"pagerduty"}
    Investigate = TRUE
    MaxReceive = 2
    MaxBatch = 2
    MaxRestarts = 1
INVARIANTS
    DeliveriesAccounted
    InvestigationsAccounted
PROPERTIES
    EventuallySettled
    PoisonDeadLettered
    EventuallyRecorded

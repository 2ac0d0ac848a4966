SPECIFICATION FairSpec
CONSTANTS
    i1 = i1
    i2 = i2
    a1 = a1
    NoReceipt = NoReceipt
    Investigators <- TwoInvestigators
    Alerts = {a1}
    Gone = {a1}
    MaxReceive = 2
    MaxLoops = 2
    MaxRestarts = 1
INVARIANTS
    NoLostInvestigation
    LowConfidenceEarned
    ReportsAccounted
PROPERTIES
    ImplementsReportKept
    EventuallySettled
    EventuallyInvestigated

SPECIFICATION Spec
CONSTANTS
    i1 = i1
    i2 = i2
    a1 = a1
    NoReceipt = NoReceipt
    Investigators <- OneInvestigator
    Alerts = {a1}
    Gone = {}
    MaxReceive = 2
    MaxLoops = 2
    MaxRestarts = 1
INVARIANTS
    DeltasMerged

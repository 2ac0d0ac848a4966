SPECIFICATION Spec
CONSTANTS
    la = la
    lb = lb
    e1 = e1
    e2 = e2
    Labels = {la, lb, Undetermined}
    EvidenceIds = {e1, e2}
    Datasets <- MCDatasets
    Script <- MCScript
    Answers <- MCAnswers
    Undetermined = Undetermined
    NoLabel = NoLabel
    Skip = Skip
    NoBackend = NoBackend
    NoSummary = NoSummary
    MaxConfidence = 1
    MaxRuns = 2
INVARIANTS
    BackendAsReported
CHECK_DEADLOCK FALSE

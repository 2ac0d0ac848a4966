SPECIFICATION FairDashboardSpec
CONSTANTS
    i1 = i1
    s1 = s1
    s2 = s2
    text1 = text1
    None = None
    NoFile = NoFile
    Empty = Empty
    Torn = Torn
    NoEntry = NoEntry
    Investigations = {i1}
    Submissions = {s1, s2}
    Payloads <- TwoPayloads
    Texts = {text1}
    MaxRestarts = 1
INVARIANTS
    SerialIsExact
    StagedIsCommitted
    NegativeAccounted
    ClearedIsShown
    OverviewConsistent
PROPERTIES
    EventuallyShown

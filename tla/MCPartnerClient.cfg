SPECIFICATION FairSpec
CONSTANTS
    slack = slack
    pagerduty = pagerduty
    Partners <- MCPartners
    NoPartner = NoPartner
    MaxAttempts = 3
    FailMax = 5
    MaxChanges = 2
    MaxRestarts = 1
INVARIANTS
    OutageBounded
    HealthyNeverRefused
    ResultHonest
PROPERTIES
    BreakerRecovers

SPECIFICATION MCSpec
CONSTANTS
    p1 = p1
    p2 = p2
    Pattern = {p1, p2}
    MaxRuleGrowth = 1
    NoPattern = NoPattern
    NoRequest = NoRequest
    r1 = r1
    r2 = r2
    Requests = {r1, r2}
    Inputs <- MCInputs
    Configs <- MCConfigs
    SelfHealing = TRUE
    KeepLast = 1
    MaxChanges = 1
    MaxFaults = 1
INVARIANTS
    OneConfiguration
    TrailInOrder
    RecordsAreNewest
    RulesAreFresh
PROPERTY
    Answers

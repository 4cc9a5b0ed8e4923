SPECIFICATION FairSpec
CONSTANTS
    a = a
    b = b
    c = c
    none = none
    Regex = {a, b, c}
    NoRegex = none
    Requests = {r1, r2}
    Incidents <- MCIncidents
    MaxRuleGrowth = 2
    MaxTries = 2
    MaxFaults = 1
INVARIANTS
    TypeOK
    AppliedVersionsUnique
    RetriesPaidFor
    AppliedStoredOrFull
PROPERTIES
    RefinesLedger
    Terminates

SPECIFICATION Spec
CONSTANTS
    Hosts = {"a", "b"}
    Subjects <- MCSubjects
    KindOf <- MCKindOf
    Conditions <- MCConditions
    Initially <- MCInitially
    Setups <- MCSetups
    Oversized = {"payload"}
    Limits <- DefaultThresholds
    MaxFindings = 2
    MaxPasses <- MCMaxPasses
    MaxMishaps = 1
    Polls = {1, 2}
INVARIANTS
    TypeOK
    SteadyIsExact
    StatusKeepsAnswered
    GraveFindingsEscalate
    LastingThreatIsDecided
PROPERTY
    DashboardCatchesUp

SPECIFICATION DecisionSpec
CONSTANTS
    AgentSignals <- MCSignals
    ConfiguredLimits <- MCLimits
    MaxSignals = 4
INVARIANTS
    ThreatsNeverAllowed
PROPERTIES
    EvidenceNeverWeakens
CHECK_DEADLOCK FALSE

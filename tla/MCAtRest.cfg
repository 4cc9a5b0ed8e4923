SPECIFICATION MCSpec
CONSTANTS
    p = p
    q = q
    Backends = {p, q}
    Settings <- MCSettings
    Keys = {1, 2}
    Items = {"x", "y"}
    Legacy <- MCLegacy
    MaxRuleGrowth = 1
    MaxVersion = 3
    MaxStarts = 2
    MaxEpoch = 1
INVARIANTS
    KeyKeepsData
    AnnouncedIsStored
PROPERTIES
    SavesBuildOnStored
    UnreadableIsKept
SYMMETRY Symmetry
CHECK_DEADLOCK FALSE

SPECIFICATION Spec
CONSTANTS
    Admins = {a1, a2}
    Patterns = {p}
    NoConfig = NoConfig
    Limits <- MCLimits
    DefaultContent <- MCDefaultContent
    MaxVersion = 3
    MaxFaults = 1
INVARIANTS
    UndisturbedSaveAdvances
    PanelIsCurrent
SYMMETRY Symmetry

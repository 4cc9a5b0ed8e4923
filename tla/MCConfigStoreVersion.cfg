SPECIFICATION Spec
CONSTANTS
    Admins = {a1, a2}
    Patterns = {p}
    NoConfig = NoConfig
    Limits <- MCLimits
    DefaultContent <- MCDefaultContent
    MaxVersion = 3
    MaxFaults = 0
PROPERTY
    VersionIncremented

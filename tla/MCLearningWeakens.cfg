SPECIFICATION LoopSpec
CONSTANTS
    NoRegex = "none"
    Regex <- MCRegex
    Phrase <- MCPhrase
    Matching <- MCMatching
    BaseInjection <- MCBaseInjection
    BaseJailbreak <- MCBaseJailbreak
    BaseExfil <- MCBaseExfil
    SuggestInjection <- MCSuggestInjection
    SuggestJailbreak <- MCSuggestJailbreak
    SuggestExfil <- MCSuggestExfil
    SuggestToolAbuse <- MCSuggestToolAbuse
    Policy <- MCPolicy
    Inputs <- MCInputs
    MaxRuleGrowth = 3
    MaxVersion = 4
PROPERTY
    LearningNeverWeakens
CHECK_DEADLOCK FALSE

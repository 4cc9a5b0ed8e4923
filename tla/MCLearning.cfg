SPECIFICATION LoopSpec
CONSTANTS
    NoRegex = "none"
    Regex <- MCRegex
    Phrase <- MCPhrase
    Matching <- MCMatching
    BaseInjection <- MCBaseInjection
    BaseJailbreak <- MCBaseJailbreak
    BaseExfil <- MCBaseExfil
    SuggestInjection <- MCSuggestInjection
    SuggestJailbreak <- MCSuggestJailbreak
    SuggestExfil <- MCSuggestExfil
    SuggestToolAbuse <- MCSuggestToolAbuse
    Policy <- MCPolicy
    Inputs <- MCInputs
    MaxRuleGrowth = 3
    MaxVersion = 5
INVARIANTS
    LoopTypeOK
    LearnedNeverAllowed
    AnalyzeAtLeastScan
PROPERTIES
    RepeatTeachesNothing
    LearningWeakensOnlyByHiding
    OnlyFlaggedTeach
\* The version bound stops the machine.
CHECK_DEADLOCK FALSE

SPECIFICATION FairSpec
CONSTANTS
    MaxLen = 3
    Patterns <- MCPatterns
    OptionSet <- MCOptions
INVARIANTS
    TypeOK
    HiddenMeansErased
    DurablePasses
    CancelPrompt
    ConsistentPrefix
    OutcomeHonest
    NoFalseAlarm
PROPERTIES
    EveryCallReturns
    Refines

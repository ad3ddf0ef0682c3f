SPECIFICATION Spec
CONSTANTS
    MaxLen = 3
    Patterns <- MCPatterns
    OptionSet <- MCOptions
INVARIANT BarFullOnlyWhenWritten

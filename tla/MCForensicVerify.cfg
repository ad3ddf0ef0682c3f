SPECIFICATION Spec
CONSTANTS
    Byte <- MCByte
    Printable <- MCPrintable
    Magic <- MCMagic
    MinLen = 2
    SomeStrings = 0
    ManyStrings = 1
    MaxLen = 6
    Contents <- MCContents
CHECK_DEADLOCK FALSE
INVARIANTS
    StringsAreRuns
    HighMeansRemnants
    ScoreFollowsVerdict

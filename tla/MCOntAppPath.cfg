SPECIFICATION Spec
CONSTANTS
    known = known
    unknown = unknown
    broken = broken
    hidden = hidden
    good = good
    foreign = foreign
    cut = cut
    none = none
    Symbols <- MCSymbols
    Declared <- MCDeclared
    Verdict <- MCVerdict
    Displayable <- MCDisplayable
    MAX_TRANSACTION_LEN = 3
    MAX_MESSAGE_LEN = 2
    MaxLc = 2
    P1_MAX = 2
    Paths <- MCPaths
    ValidPrefix <- MCValidPrefix
    CutPaths <- MCCutPaths
    Derivable <- MCDerivable
    NoPath = none
INVARIANT SignsOnlyOnParsedPath

SPECIFICATION FairSpec
CONSTANTS
    known = known
    unknown = unknown
    broken = broken
    hidden = hidden
    good = good
    foreign = foreign
    cut = cut
    none = none
    Symbols <- MCSymbols
    Declared <- MCDeclared
    Verdict <- MCVerdict
    Displayable <- MCDisplayable
    MAX_TRANSACTION_LEN = 3
    MAX_MESSAGE_LEN = 2
    MaxLc = 2
    P1_MAX = 2
    Paths <- MCPaths
    ValidPrefix <- MCValidPrefix
    CutPaths <- MCCutPaths
    Derivable <- MCDerivable
    NoPath = none
INVARIANTS
    TypeOK
    AnswerOwed
    ReviewMatchesContext
    UnionMemberMatches
    NoStaleParameters
    BlindReviewAllowed
    SwitchShowsSetting
PROPERTIES
    SettingOnlyByUser
    SigningContract
    EveryCommandAnswered

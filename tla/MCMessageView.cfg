SPECIFICATION Spec

\* 0, x, backslash, blank, line feed, a control character and a byte beyond ASCII
CONSTANTS
    Messages <- MCMessages
    OutLen = 9
    EthLen = 3
    Bytes = {48, 120, 92, 32, 10, 7, 171}
    ShortLen = 3
    LongLen = 10

CHECK_DEADLOCK FALSE

INVARIANTS
    TypeOK
    FullyShown
    RefusedOnlyIfTooLong
    ViewIdentifies

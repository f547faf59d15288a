SPECIFICATION Spec

CONSTANTS
    Requests <- MCRequests
    token_decimals <- MCDecimals
    ticker_length <- MCTickerLength
    U64 = 1
    UINT64 = 256
    P64_Q = 25
    P64_R = 6
    UINT128_MAX_LENGTH = 7
    V2_DECIMALS = 3
    buffer_len = 15

CHECK_DEADLOCK FALSE

INVARIANTS
    TypeOK
    NoneLost
    ShowsTokens
    NothingCutOff
    RefusedOnlyIfMismatched

SPECIFICATION Spec

CONSTANTS
    Buffers <- MCBuffers
    AddressOf <- MCAddressOf
    NameOf <- MCNameOf
    KnownCalls <- MCKnownCalls
    BlindCalls <- MCBlindCalls
    NATIVE_INVOKE <- MCNativeInvoke
    U16 = 1
    U32 = 2
    U64 = 3
    UINT64 = 16777216
    SIZE_T = 65536
    ADDRESS_SCRIPT_HASH_LEN = 2
    COMPRESSED_KEY_LEN = 6
    MAX_TRANSACTION_LEN = 111
    PARAMETERS_MAX_NUM = 9
    GAS_PRICE_MIN = 2
    GAS_LIMIT_MIN = 3
    TOKEN_AMOUNT = 1000
    OddBytes = {0, 1, 2, 3, 81, 103, 107, 108, 193, 200, 255}

INVARIANTS
    TypeOK
    ApartAndInOrder
    FeeFitsWord
    Explained
    EntriesAsTable
    FeedsReviewPages
    AmountsReadable
    KnownCallsAccepted
    BlindCallsRecognised

PROPERTY ParsingEnds

SPECIFICATION Spec

CONSTANTS
    Transactions <- MCTransactions
    PARAMETERS_MAX_NUM = 15
    FeeSizes = {9, 24}
    WordSize = 4
    Amounts = {1, 3}

CHECK_DEADLOCK FALSE

INVARIANT TransfersReadInArray

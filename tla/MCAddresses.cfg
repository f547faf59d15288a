SPECIFICATION Spec

CONSTANTS
    Keys <- MCKeys
    ScriptHashes <- MCScriptHashes
    OutLengths <- MCOutLengths

CHECK_DEADLOCK FALSE

INVARIANTS
    WholeOrNone
    Recognisable
    TellsKeysApart
    NothingLeft

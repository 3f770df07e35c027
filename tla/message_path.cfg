SPECIFICATION Spec
CONSTANTS
    n1 = n1
    n2 = n2
    Node       <- Two
    Key        = {k1, k2}
    BootKey    = k1
    Foreign    <- First
    MAX_BLOCKS = 4
    COUNTER    = 4
    BLOCK      = 64
    SEEN_SIZE  = 32
    NodeId     <- Ids
    FirstId    <- LongUp
    Texts      <- MCTexts
    ForeignData <- Short
    Garbage    = {82}
    RelayIds   <- Relays
    MAX_OUT    = 240
    MAX_MSGS   = 2
    MAX_KEYS   = 2
INVARIANTS TypeOK TextArrives BlocksReadable PayloadInData
PROPERTY DecoderAdvances
CHECK_DEADLOCK FALSE

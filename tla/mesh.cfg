SPECIFICATION FairSpec
CONSTANTS
    a = a
    b = b
    SEEN_SIZE  = 3
    Device     <- Pair2
    Hear       <- HearP2
    BootId     <- IdsPair
    NoFrame    = NoFrame
    BROADCAST  = 255
    Text       <- TextLong
    LongText   <- LongOnly
    PACKET_IDS = 8
    NewIds     <- SetOne
    MAX_LINES  = 2
    MAX_SETS   = 1
    MAX_BOOTS  = 1
INVARIANTS TypeOK PacketIdentity PongAnswersText
PROPERTIES NoEcho Quiesces
CHECK_DEADLOCK FALSE

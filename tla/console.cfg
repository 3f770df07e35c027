SPECIFICATION FairSpec
CONSTANTS
    Byte = {"N", "2", "3", "CR"}
    ZeroByte = "N"
    RX_RING_SIZE = 4
    Reports <- MCReports
    LINE_BUF_SIZE = 5
    MAX_TEXT = 3
    BootId = 1
    MAX_TYPED = 6
INVARIANTS TypeOK SentAreTheTextLines LastNodeIdCounts
PROPERTIES ImplementsFifo Drained
CHECK_DEADLOCK FALSE

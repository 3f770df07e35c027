SPECIFICATION Spec
CONSTANTS
    BUF_SIZE   = 8
    RX_BASE    = 4
    FrameLens  <- OneLen
    TxLens     <- TxLong
    WIO_E5_RF_SWAP = FALSE
    Signal     <- OneSignal
    Failing    <- NoFailure
    MAX_FRAMES = 1
    MAX_TX     = 1
    MAX_LATE   = 1
INVARIANTS ReturnsThePacket
CHECK_DEADLOCK FALSE

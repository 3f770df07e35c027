SPECIFICATION FairSpec
CONSTANTS
    BUF_SIZE   = 8
    RX_BASE    = 4
    FrameLens  <- AirLens
    TxLens     <- TxHalf
    WIO_E5_RF_SWAP = FALSE
    Signal     <- ThreeSignals
    Failing    <- AnyTwo
    MAX_FRAMES = 3
    MAX_TX     = 2
    MAX_LATE   = 1
INVARIANTS TypeOK NoReentry TxTrueMeansSent Listening IntactFromBase SignalOfFrame
PROPERTIES NoReplay CallsReturn FrameIsReturned
CHECK_DEADLOCK FALSE

SPECIFICATION Spec
CONSTANTS
    SEEN_SIZE = 3
    NodeIds   <- MCNodeIds
    PacketIds <- MCPacketIds
    FlagBytes <- MCFlagBytes
    Lengths   <- MCLengths
    MyNodeId  = 1
INVARIANTS TypeOK RingIsWindow
PROPERTIES NoEarlyRepeat FreshIsRelayed ImplementsWindow

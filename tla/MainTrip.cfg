SPECIFICATION Spec
CONSTANTS
    MainQueueLen = 2
    PacketBufferNum = 2
    UartQueueLen = 1
    TssQueueLen = 2
    HeaderMax = 0
    MaxTicks = 0
    Voltages = {TRUE}
    Resets = FALSE
    Tracked <- Nothing
    Frames <- NoFrames
    Requests <- TripRequests
INVARIANTS
    ResetsAsAsked

SPECIFICATION Spec
CONSTANTS
    MainQueueLen = 2
    PacketBufferNum = 2
    UartQueueLen = 1
    TssQueueLen = 1
    HeaderMax = 0
    MaxTicks = 2
    Voltages <- Power
    Resets = FALSE
    Tracked <- DataTracked
    Frames <- DataFrames
    Requests <- DataRequests
INVARIANTS
    TypeOK
    PacketBuffersIntact
    UpdatesAreSent
PROPERTIES
    UpdatesArrive

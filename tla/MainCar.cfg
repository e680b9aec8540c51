SPECIFICATION Spec
CONSTANTS
    MainQueueLen = 1
    PacketBufferNum = 1
    UartQueueLen = 1
    TssQueueLen = 1
    HeaderMax = 0
    MaxTicks = 0
    Voltages = {TRUE, FALSE}
    Resets = TRUE
    Tracked <- Nothing
    Frames <- CarFrames
    Requests <- NoRequests
PROPERTIES
    PresetsKept

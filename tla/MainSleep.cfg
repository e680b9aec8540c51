SPECIFICATION Spec
CONSTANTS
    MainQueueLen = 2
    PacketBufferNum = 2
    UartQueueLen = 1
    TssQueueLen = 1
    HeaderMax = 0
    MaxTicks = 0
    Voltages = {TRUE, FALSE}
    Resets = FALSE
    Tracked <- Nothing
    Frames <- MenuFrames
    Requests <- NoRequests
PROPERTIES
    WithoutPowerSleeps

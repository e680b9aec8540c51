SPECIFICATION Spec
CONSTANTS
    MainQueueLen = 2
    PacketBufferNum = 2
    UartQueueLen = 1
    TssQueueLen = 1
    HeaderMax = 0
    MaxTicks = 1
    Voltages = {TRUE, FALSE}
    Resets = TRUE
    Tracked <- Nothing
    Frames <- MenuFrames
    Requests <- DataRequests
INVARIANTS
    MenuWillClose
    MenuShown
    MeasurementGoesOn
PROPERTIES
    MenuCloses
    SleepsUnlessLost

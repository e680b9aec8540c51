SPECIFICATION Spec
CONSTANTS
    BuffersNum = 4
    QueueLen = 2
    ReceiveQueueLen = 2
    MaxParts = 2
    Kinds <- MCKinds
    MaxFrames = 4
INVARIANTS TypeOK NeverOlder OnceEach FramesSurvive FramesInOrder
PROPERTIES LastFrameArrives
CHECK_DEADLOCK FALSE

SPECIFICATION Spec
CONSTANTS
    BuffersNum = 1
    QueueLen = 1
    Kinds <- MCKinds
    Heap <- MCHeap
    Checksum <- PsaCrc8
    MaxPackets = 2
    MaxLost = 1
INVARIANTS TypeOK InTimeAsSent LateIsARepeat InStepAgain QueuedUntilOverrun
PROPERTIES SilenceResynchronises
CHECK_DEADLOCK FALSE

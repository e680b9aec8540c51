SPECIFICATION Spec
CONSTANTS
    BuffersNum = 4
    QueueLen = 2
    MaxSends = 9
INVARIANTS TypeOK QueuedIntact HeldIntact Fifo
CHECK_DEADLOCK FALSE

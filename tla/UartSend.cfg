SPECIFICATION Spec
CONSTANTS
    BuffersNum = 3
    QueueLen = 2
    Idents <- MCIdents
    MaxSends = 4
    MaxCommands = 2
INVARIANTS TypeOK WireFaithful CommandAtMostOnce CommandAccounted
PROPERTIES AcceptedIsWritten ImplementsChannel
CHECK_DEADLOCK FALSE

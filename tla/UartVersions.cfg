SPECIFICATION Spec
CONSTANTS
    BuffersNum = 3
    QueueLen = 2
    Idents <- MCIdentsVersions
    MaxSends = 2
    MaxCommands = 0
PROPERTY VersionsAreSent
CHECK_DEADLOCK FALSE

SPECIFICATION Spec
CONSTANTS
    QueueLen = 2
    MaxChanges <- MCMaxChanges
    MaxUnanswered = 2
    MaxSleeps = 1
INVARIANTS TypeOK CaughtUp
PROPERTIES HeaderIsFooter OnlyThisBoot TripArrives
CHECK_DEADLOCK FALSE

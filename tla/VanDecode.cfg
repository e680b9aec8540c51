SPECIFICATION Spec
CONSTANTS
    Buses <- MCBuses
    Jitters <- MCJitters
    Crc15 <- VanCrc15
INVARIANTS TypeOK DecodesWhatWasSent AcceptedIsSent
CHECK_DEADLOCK FALSE

SPECIFICATION EarSpec
CONSTANT Hardware <- MCHardware
INVARIANT FaultIsTold
CHECK_DEADLOCK FALSE

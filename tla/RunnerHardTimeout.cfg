SPECIFICATION HangingFairSpec
CONSTANTS
    MaxChanges = 0
    MetricsEnabled = FALSE
    Faults = {"stop"}
PROPERTY HardTimeoutIsFinal
CHECK_DEADLOCK FALSE

SPECIFICATION Spec
CONSTANTS
    Events = {e1, e2}
    QueueSize <- MCSizes
    BatchSize <- MCSizes
    HasDefaultOutput = TRUE
    HasErrorOutput = TRUE
    Stop = Stop
    Disruptions = {"stop"}
INVARIANT NoFlushAfterShutdown
CHECK_DEADLOCK FALSE

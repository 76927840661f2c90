SPECIFICATION FairSpec
CONSTANTS
    Events = {e1, e2}
    QueueSize <- MCSizes
    BatchSize <- MCSizes
    HasDefaultOutput = TRUE
    HasErrorOutput = FALSE
    Stop = Stop
    Disruptions = {"stop"}
PROPERTIES
    EveryEventFinishes
    ShutdownEnds
CHECK_DEADLOCK FALSE

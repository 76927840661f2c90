\* The broker has deleted the first message and nothing is committed yet.
SPECIFICATION Spec
CONSTANTS
    Partitions = {p0}
    EndOffset = 3
    LowWatermark <- MCRetention
    EmptyMessages <- MCNone
    ConsumeNumMessage = 2
    MaxWorkers = 2
    MaxDisruptions = 1
    MaxFaults = 0
INVARIANT TrackerStartsAtFirstMessage
CHECK_DEADLOCK FALSE

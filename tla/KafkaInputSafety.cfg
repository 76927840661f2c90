\* One partition of four messages, the third without a value; the threads of
\* the executor may reorder store calls.
SPECIFICATION FairSpec
CONSTANTS
    Partitions = {p0}
    EndOffset = 4
    LowWatermark <- MCNothingDeleted
    EmptyMessages <- MCThirdEmpty
    ConsumeNumMessage = 2
    MaxWorkers = 2
    MaxDisruptions = 2
    MaxFaults = 1
INVARIANTS
    TypeOK
    CommitSafe
    TrackerIsExact
    DeliveredIsTracked
PROPERTY EverythingCommitted
CHECK_DEADLOCK FALSE

\* Two overlapping batches, one of them with a chunk of two events.
SPECIFICATION FairSpec
CONSTANTS
    c1 = c1
    c2 = c2
    e1 = e1
    e2 = e2
    e3 = e3
    Callers = {c1, c2}
    Events = {e1, e2, e3}
    ChunkOf <- MCChunkOf
    BatchOf <- MCTwoBatches
    Concurrency = 1
    MaxRetries = 1
    MaxFailures = 2
    MaxItemRetries = 1
    MaxUnclear = 1
    MaxCancels = 1
INVARIANTS
    OutputTypeOK
    NoInvariantBroken
    StoredXorFailed
    OneDocumentPerStoredEvent
PROPERTY StoreEnds
CHECK_DEADLOCK FALSE

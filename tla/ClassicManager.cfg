SPECIFICATION FairSpec
CONSTANTS
    ProcessCount = 1
    EventCount = 2
    ErrorQueueSize = 2
    PipeSize = 1
    MaxDisruptions = 1
    BacklogSize = 2
    RestartLimit = 1
    MetricsEnabled = TRUE
INVARIANTS
    ClassicTypeOK
    CommittedIsAccountedFor
    NoErrorLeftBehind
PROPERTIES
    StopEndsOrHangs
    EndedIsReplaced
CHECK_DEADLOCK FALSE

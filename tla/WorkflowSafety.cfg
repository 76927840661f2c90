SPECIFICATION Spec
CONSTANTS
    Events = {e1, e2}
    QueueSize <- MCSizes
    BatchSize <- MCSizes
    HasDefaultOutput = TRUE
    HasErrorOutput = TRUE
    Stop = Stop
    Disruptions = {"stop", "timeout", "crash"}
SYMMETRY EventSymmetry
INVARIANTS
    TypeOK
    AckedIsSettled
    ExactlyOnePlace
    TimerGuardsBuffer
    UpstreamEndsFirst
    DrainedButForLateFlushes
PROPERTY ImplementsLifecycle
CHECK_DEADLOCK FALSE

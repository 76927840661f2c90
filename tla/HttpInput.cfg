SPECIFICATION HttpFairSpec
CONSTANTS
    MaxChanges = 1
    MetricsEnabled = TRUE
    Faults = {"stop", "fail", "quit"}
    Requests = {r}
    EventsIn <- MCEventsIn
    BacklogSize = 1
INVARIANTS
    TypeOK
    OneManagerAtATime
    ComponentsReleased
    CurrentVersionOrRestart
    AnsweredIsQueued
PROPERTIES
    RunnerEnds
    EveryRequestEnds
CHECK_DEADLOCK FALSE

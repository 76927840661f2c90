\* A send that was under way when the outage began fails after a probe.
SPECIFICATION BreakerSpec
CONSTANTS
    Callers = {c1, c2, c3}
    Concurrency = 2
    MaxRetries = 1
    MaxFailures = 4
PROPERTY OnlyProbesGiveUp

\* Three callers, two slots, one retry.
SPECIFICATION FairBreakerSpec
CONSTANTS
    Callers = {c1, c2, c3}
    Concurrency = 2
    MaxRetries = 1
    MaxFailures = 4
INVARIANTS
    TypeOK
    SingleProbe
    ConcurrencyBounded
    OneRequestPerOutage
    CountsConsecutiveFailures
PROPERTY CallsEnd

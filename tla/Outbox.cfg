\* Four rows: the oldest malformed, the next of a foreign type.  Batches of two
\* that the limit cuts, two fair pollers, fewer faults than attempts.
CONSTANTS
    p1 = p1  p2 = p2
    Rows = {1, 2, 3, 4}
    Routable = {1, 3, 4}
    WellFormed = {3, 4}
    Pollers <- MCPollers2
    BatchSize = 2
    RetryBase = 1
    MaxAttempts = 3
    MaxClock = 14
    MaxFaults = 1
SPECIFICATION HistoryFairSpec
INVARIANTS PublishedWasSent DuplicatesNeedFaults RetriesAreSpread
PROPERTIES EveryRowSettles

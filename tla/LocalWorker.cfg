\* Two processes, batches of two, an event that ends its process.
CONSTANTS
    w1 = w1  w2 = w2  s1 = s1  s2 = s2
    Workers = {w1, w2}
    Events = {1, 2, 3}
    Sources = {s1, s2}
    KindOf <- MCKinds
    SourceOf <- MCSources
    MaxAttempts = 2
    LockSeconds = 1
    MaxClock = 2
    MaxFaults = 1
    Commands = {1, 2}
    RecordedRow <- MCRecorded
    NoticeRow <- MCNoNotice
    BatchSize = 2
    RetryBase = 1
    OutboxAttempts = 2
SPECIFICATION LocalFairSpec
INVARIANTS HandedOverOnce LossesNeedDeaths
PROPERTIES LocalEventsSettle

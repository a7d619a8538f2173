\* One process, batches of two, fewer faults than attempts.
CONSTANTS
    w1 = w1  w2 = w2  s1 = s1
    Workers <- MCWorkers1
    Events = {1, 2}
    Sources = {s1}
    KindOf <- MCKinds
    SourceOf <- MCSources
    MaxAttempts = 2
    LockSeconds = 1
    MaxClock = 20
    MaxFaults = 1
    Commands = {1}
    RecordedRow <- MCRecorded
    NoticeRow <- MCNoNotice
    BatchSize = 2
    RetryBase = 1
    OutboxAttempts = 2
    Visibility = 2
    MaxReceives = 3
SPECIFICATION FairSpec
PROPERTIES EveryEventAccountedFor FewFaultsLoseNothing

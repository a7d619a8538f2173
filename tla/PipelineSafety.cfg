\* A gift and the events that follow it, two processes.
CONSTANTS
    w1 = w1  w2 = w2  s1 = s1
    Workers <- MCWorkers2
    Events = {1, 2, 3}
    Sources = {s1}
    KindOf <- MCGiftKinds
    SourceOf <- MCSources
    MaxAttempts = 1
    LockSeconds = 1
    MaxClock = 3
    MaxFaults = 1
    Commands = {1}
    RecordedRow <- MCGiftRecorded
    NoticeRow <- MCGiftNotice
    BatchSize = 1
    RetryBase = 1
    OutboxAttempts = 2
    Visibility = 1
    MaxReceives = 2
SPECIFICATION Spec
SYMMETRY MCSymmetry
INVARIANTS NothingLost OutcomeAnnounced

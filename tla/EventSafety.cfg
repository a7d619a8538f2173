\* Two events of one gift and a free subscription, two workers: every step refines the
\* promise.
CONSTANTS
    w1 = w1  w2 = w2  e1 = e1  e2 = e2  e3 = e3  s1 = s1  s2 = s2
    Workers <- MCWorkers
    Events <- MCEvents
    Sources = {s1, s2}
    KindOf <- MCKinds
    SourceOf <- MCSources
    MaxAttempts = 2
    LockSeconds = 1
    MaxClock = 3
    MaxFaults = 1
SPECIFICATION StoredSpec
SYMMETRY MCSymmetry
INVARIANTS EffectsExactlyOnce OneLedgerTransactionPerSource ReceiptBeforeLedger OneNoticePerTerminalEvent DeletedOnlyAfterSuccess
PROPERTIES OutcomeSpec TakeoverOnlyAfterLease StoresKeepPromise

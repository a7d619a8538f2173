\* Two users take turns in one tab with two documents.
CONSTANTS
    alice = alice  bob = bob  d1 = d1  d2 = d2
    Users = {alice, bob}
    Docs = {d1, d2}
    MaxCalls = 2
    Nobody = Nobody
SPECIFICATION FairSpec
INVARIANTS TokenIsUsed
PROPERTIES OnlyLateAnswersHaunt SpinnerEnds

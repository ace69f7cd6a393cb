SPECIFICATION FairSpec
CONSTANTS
    None = None
    Msgs = {m1, m2}
    Stamps = {1, 2}
    Relays = {r1, r2}
    BatchSize = 2
    MaxAttempts = 3
    Backoffs <- MCBackoffs
    MaxCrashes = 1
    MaxRequeues = 1
INVARIANTS
    TypeOK
    EveryCopyAccountedFor
    DeadAtLimit
PROPERTIES
    SentIsFinal
    EventuallyResolved

SPECIFICATION FairSpec
CONSTANTS
    None = None
    m1 = m1
    m2 = m2
    Msgs = {m1, m2}
    Key <- MCKey
    Workers = {w1, w2}
    Lease = 2
    MaxAttempts = 3
    Backoffs <- MCBackoffs
    MaxSkew = 1
INVARIANTS
    TypeOK
    OnlyLatestClaimCurrent
    SentWasMailed
    RecordsMatch
PROPERTIES
    SentIsFinal
    EventuallySettled

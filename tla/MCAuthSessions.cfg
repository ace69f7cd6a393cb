SPECIFICATION Spec
CONSTANTS
    None = None
    r1 = r1
    Users = {u1}
    Workers = {w1, w2}
    Replicas = {r1}
    Host <- MCHost
    MaxTokens = 3
    Bearers = {1}
    MaxTime = 1
    AccessTTL = 1
    RefreshTTL = 1
    GuardMax = 1
    GuardWindow = 0
INVARIANTS
    TypeOK
    OneLivePerFamily
    RevocationEndsFamily
    LogoutEndsAccess
PROPERTIES
    EveryRequestEnds

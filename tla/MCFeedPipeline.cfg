SPECIFICATION PipelineSpec
CONSTANTS
    None = None
    org = org
    Events = {e1}
    Users = {org, u1}
    Role <- MCRole
    Workers = {w1}
    Capacities = {1, 2}
    StartTimes = {9}
    MaxTime = 0
    MaxWrites = 4
    Readers = {r1}
INVARIANTS
    FeedConvergesInOrder
    CountNeverTooLow
PROPERTIES
    CacheCatchesUp

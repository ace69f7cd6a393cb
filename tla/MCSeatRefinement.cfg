SPECIFICATION Spec
CONSTANTS
    None = None
    org = org
    u1 = u1
    u2 = u2
    w1 = w1
    w2 = w2
    Events = {e1}
    Users = {org, u1, u2}
    Role <- MCRole
    Workers = {w1, w2}
    Capacities = {0, 1, 2}
    StartTimes = {1}
    MaxTime = 0
    MaxWrites = 5
SYMMETRY Symmetry
INVARIANTS
    TypeOK
    CapacityRespected
    OneActive
    WaitlistInArrivalOrder
    CanceledEventEmpty
    SnapshotsCurrent
    OutboxTellsState
    OutboxCountsSeats
    CancellationAuditedOnce
PROPERTIES
    SeatsKeptWhileQueued
    ImplementsSeatAllocation

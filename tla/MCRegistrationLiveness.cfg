SPECIFICATION FairSpec
CONSTANTS
    None = None
    org = org
    u1 = u1
    u2 = u2
    w1 = w1
    w2 = w2
    Events = {e1, e2}
    Users = {org, u1}
    Role <- MCRole
    Workers = {w1, w2}
    Capacities = {1}
    StartTimes = {1}
    MaxTime = 1
    MaxWrites = 3
PROPERTIES
    RequestsFinish

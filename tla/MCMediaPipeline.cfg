SPECIFICATION FairSpec
CONSTANTS
    None = None
    org = org
    usr = usr
    e1 = e1
    e2 = e2
    Assets = {a1, a2}
    Users = {org, usr}
    Role <- MCRole
    Events = {e1, e2}
    Organizer <- MCOrganizer
    Sizes = {0, 1, 2, 3}
    MaxUploadSize = 2
    Requests = {r1, r2}
    Workers = {w1, w2}
INVARIANTS
    TypeOK
    OneWorkerPerAsset
    ReadyWasWhole
PROPERTIES
    StatusMovesForward
    EventuallyProcessed

SPECIFICATION MCSpec
CONSTANTS
    admin = admin
    bob = bob
    r1 = r1
    r2 = r2
    worker = worker
    blue = blue
    green = green
    User = {admin, bob}
    Admin = admin
    Request = {r1, r2}
    MaxRequests = 3
    MaxIds = 3
    MaxFaults = 1
    Container = {worker, blue, green}
    Project <- ProjectOf
    Base <- BaseOf
    Color <- ColorOf
    Published = {worker, blue}
    ProjectId <- ProjectIdOf
    JoinedId <- JoinedIdOf
    MaxDrafts = 2
    MaxChanges = 1
INVARIANTS
    AdminRemains
    ChangesLast
    HighDraftsOwnAlone
CHECK_DEADLOCK FALSE

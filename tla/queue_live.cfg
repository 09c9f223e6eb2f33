CONSTANTS
    Jobs = {1, 2, 3, 4, 5}
    Workers = {w1}
    Resolvers = {r1, r2}
    Clients = {c1}
    Requests = {"add", "cancel", "retry"}
    Backlog = {}
    MaxRequests = 2
    MaxBoots = 2
    MaxAttempts = 2
    None = None
SPECIFICATION FairSpec
ACTION_CONSTRAINTS NewLinksFit PlaylistsFit
INVARIANTS
    RunningIsOwned
    CheckingIsAttended
    ExpandedOnce
PROPERTY QueueDrains
CHECK_DEADLOCK FALSE

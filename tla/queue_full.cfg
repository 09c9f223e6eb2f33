CONSTANTS
    Jobs = {1}
    Workers = {w1, w2}
    Resolvers = {r1}
    Clients = {c1, c2}
    Requests = {"add", "cancel", "cancelall", "retry", "redownload", "hide", "unhide", "purge", "cleanup"}
    Backlog = {1}
    MaxRequests = 3
    MaxBoots = 2
    MaxAttempts = 2
    None = None
SPECIFICATION Spec
SYMMETRY Processes
INVARIANT StagingIsSwept
PROPERTY DeletedStaysDeleted
CHECK_DEADLOCK FALSE

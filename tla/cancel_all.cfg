CONSTANTS
    Jobs = {1}
    Workers = {w1, w2}
    Resolvers = {r1, r2}
    Clients = {c1, c2}
    Requests = {"cancelall"}
    Backlog = {1}
    MaxRequests = 1
    MaxBoots = 1
    MaxAttempts = 2
    None = None
SPECIFICATION Spec
INVARIANT CancelledMeansStopped
CHECK_DEADLOCK FALSE

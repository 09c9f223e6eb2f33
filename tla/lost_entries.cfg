CONSTANTS
    Jobs = {1, 2, 3}
    Workers = {w1, w2}
    Resolvers = {r1, r2}
    Clients = {c1, c2}
    Requests = {"add"}
    Backlog = {}
    MaxRequests = 1
    MaxBoots = 2
    MaxAttempts = 2
    None = None
SPECIFICATION Spec
PROPERTY ExpansionIsComplete
CHECK_DEADLOCK FALSE

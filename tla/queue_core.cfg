CONSTANTS
    Jobs = {1, 2, 3}
    Workers = {w1, w2}
    Resolvers = {r1, r2}
    Clients = {c1}
    Requests = {"add", "cancel", "retry"}
    Backlog = {}
    MaxRequests = 2
    MaxBoots = 1
    MaxAttempts = 2
    None = None
SPECIFICATION Spec
SYMMETRY Processes
INVARIANTS
    TypeOK
    ExclusiveDownload
    CancelHitsItsJob
    CancelledMeansStopped
    RetriesStayInWindow
PROPERTY FollowsLifecycle
CHECK_DEADLOCK FALSE

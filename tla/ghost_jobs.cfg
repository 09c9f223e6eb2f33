CONSTANTS
    Names = {a}
    Jobs = {j1, j2}
    Items = {i1, i2}
    Downloads = {j1, j2}
    Shelf = {}
    Gone = {}
    Loaders = {l1}
    Clients = {c1}
    Lane = lane
    Checkers = {}
    Scanning = FALSE
    Requests = {"delete"}
    MaxActs = 1
    MaxBoots = 0
    None = None
    Nothing = Nothing
    Part = Part
    Foreign = Foreign
SPECIFICATION Spec
INVARIANTS
    DoneJobsAreReachable
CHECK_DEADLOCK FALSE

CONSTANTS
    Names = {a}
    Jobs = {j1, j2}
    Items = {i1, i2}
    Downloads = {j1}
    Shelf = {}
    Gone = {}
    Loaders = {l1}
    Clients = {}
    Lane = lane
    Checkers = {}
    Scanning = TRUE
    Requests = {}
    MaxActs = 0
    MaxBoots = 0
    None = None
    Nothing = Nothing
    Part = Part
    Foreign = Foreign
SPECIFICATION Spec
PROPERTIES
    ScannerLeavesDownloads
CHECK_DEADLOCK FALSE

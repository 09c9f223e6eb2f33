CONSTANTS
    Names = {a, b}
    Jobs = {j1, j2, j3, j4, j5}
    Items = {i1, i2, i3, i4, i5}
    Downloads = {}
    Shelf = {a}
    Gone = {b}
    Loaders = {l1}
    Clients = {c1}
    Lane = lane
    Checkers = {timer}
    Scanning = TRUE
    Requests = {"delete", "rename", "hide", "retry", "purge", "redownload", "cleanup", "extract", "put", "take"}
    MaxActs = 1
    MaxBoots = 1
    None = None
    Nothing = Nothing
    Part = Part
    Foreign = Foreign
SPECIFICATION FairSpec
INVARIANTS
    TablesAreSound
PROPERTIES
    LibraryHeals
CHECK_DEADLOCK FALSE

CONSTANTS
    Names = {a, b}
    Jobs = {j1, j2, j3, j4}
    Items = {i1, i2, i3, i4}
    Downloads = {j1, j2}
    Shelf = {}
    Gone = {}
    Loaders = {l1, l2}
    Clients = {c1}
    Lane = lane
    Checkers = {}
    Scanning = TRUE
    Requests = {"hide", "retry", "put", "take"}
    MaxActs = 1
    MaxBoots = 1
    None = None
    Nothing = Nothing
    Part = Part
    Foreign = Foreign
SPECIFICATION Spec
SYMMETRY Interchangeable
INVARIANTS
    LibraryTypeOK
    AnnouncedPathsAreHeld
    PartsHaveMakers
PROPERTIES
    NamesakesSurvive
CHECK_DEADLOCK FALSE

CONSTANTS
    Items = {i1, i2}
    Tokens = {t1, t2}
    Clients = {c1, c2}
    NoItem = NoItem
    Files = 3
    PipeSize = 2
    Cap = 1
    Topics = {"library", "queue"}
    Pages = {"tab"}
    ChannelCap = 2
    MaxDrops = 1
    Workers = {w1, w2}
    Base = 1
    Window = 12
    ShiftCap = 2
    MaxAttempts = 5
    Never = Never
SPECIFICATION StreamsSpec
CHECK_DEADLOCK FALSE
INVARIANTS
    RevokedLinksStayDead
    SilenceMeansComplete
    StalePartsAreAnnounced
PROPERTIES
    RunEnds
    PagesCatchUp
    VerdictsFollowWindow

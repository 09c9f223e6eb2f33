CONSTANTS
    NKeys = 2
    Numeric = {2}
    Values = {bad}
    Malformed = bad
    Unset = Unset
    Env = Env
    Procs = {a1, a2, a3}
    Nobody = Nobody
    MaxFaults = 1
    Actors = {a1, a2}
    Things = {x1, x2}
    Mixed = Mixed
    None = None
    Contents = {"text"}
    JarFaults = 2
    LabelledJobs = {"j1", "j2"}
    Tags = {t1, t2}
    Collections = {"k1"}
    LabelRequests = {"tag", "playlist", "untag", "prune", "collection", "purge"}
    ListedJobs = {"j1", "j2"}
    ListedItems = {"f1", "f2"}
    Matching = {"j1", "f2"}
    Tagged = {"j1"}
    Videos = {"f1"}
    PageSize = 1
    Filters = {{"query"}, {"tag", "video"}}
    Links = {"link"}
    Entries = {"entry"}
    Msgs = {"m1", "m2"}
    Workers = {"worker"}
    Clicks = {"click"}
    WebChecks = {"web"}
    BotRequests = {"stop", "cancel"}
    MaxRestarts = 0
SPECIFICATION ServicesSpec
SYMMETRY Interchangeable
CHECK_DEADLOCK FALSE
INVARIANTS
    CopyFollowsTable
    CalmReadersSeeTheTable
    LoneRewriteSettles
    TagsMatchCollections
    PagesMissNothing
    AttemptsUseTheLinksMessage
    SummariesReplaceButtons
    PendingIsTaken
PROPERTY LabelsAreKept

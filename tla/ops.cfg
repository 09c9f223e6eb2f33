CONSTANTS
    Ops = {1, 2}
    Kinds = {"bulk_tag", "cleanup"}
    Clients = {c1}
    MaxBoots = 2
    MaxFaults = 1
    None = None
SPECIFICATION FairSpec
INVARIANTS
    OpsTypeOK
    RunningHasLane
    NoLostWakeup
    CancelHitsItsOperation
    DoneHasEffect
PROPERTIES
    ActiveLeavesByCancel
    LanesAreIndependent
CHECK_DEADLOCK FALSE

SPECIFICATION FairSpec
CONSTANTS
    StopMayFail = FALSE
    StartMayFail = FALSE
    CooldownOutlastsBurst = TRUE
    ImuReady = TRUE
    HostMayNeed = {"wq", "rx"}
    Cooperative = TRUE
INVARIANT
    RadioFollowsState
PROPERTIES
    BurstEnds
    CallsReturn
    ReturnsToSilence
CHECK_DEADLOCK FALSE

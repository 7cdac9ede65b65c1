SPECIFICATION Spec
CONSTANTS
    StopMayFail = FALSE
    StartMayFail = FALSE
    CooldownOutlastsBurst = TRUE
    ImuReady = TRUE
    HostMayNeed = {}
    Cooperative = TRUE
INVARIANT
    ConnectionIsKnown

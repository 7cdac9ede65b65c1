SPECIFICATION Spec
CONSTANTS
    StopMayFail = TRUE
    StartMayFail = TRUE
    CooldownOutlastsBurst = FALSE
    ImuReady = TRUE
    HostMayNeed = {"wq", "rx"}
    Cooperative = FALSE
INVARIANTS
    TypeOK
    BurstWatchdog
    WindowWatchdog
    LedTellsState
PROPERTIES
    ConnectedEndsIdle
CHECK_DEADLOCK FALSE

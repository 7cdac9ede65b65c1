SPECIFICATION FairSpec
CONSTANTS
    Motes = {m1, m2}
    Gateways = {g1, g2}
    PidMod = 8
    MaxMotes = 1
    Ttl = 3
    SeenLimit = 1
    BurstLen = 1
    Latency = 1
    Gap = 3
    MoteReboots = FALSE
    LinksDrop = TRUE
    MaxReboots = 1
    MaxEvents = 2
    MaxTime = 3
INVARIANTS
    FreshIsStored
PROPERTY
    ImplementsDelivery
CHECK_DEADLOCK FALSE

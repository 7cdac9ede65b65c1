SPECIFICATION Spec
CONSTANTS
    Motes = {m1}
    Gateways = {g1, g2}
    PidMod = 2
    MaxMotes = 1
    Ttl = 3
    SeenLimit = 1
    BurstLen = 1
    Latency = 1
    Gap = 3
    MoteReboots = TRUE
    MaxReboots = 1
    LinksDrop = TRUE
    MaxEvents = 3
    MaxTime = 6
SYMMETRY Symmetry
INVARIANTS
    TypeOK
    EachEventOnce
CHECK_DEADLOCK FALSE

SPECIFICATION Spec
CONSTANTS
    Ads <- MCAds
    Name <- MCName
    None = None
INVARIANTS
    TypeOK
    ReadsInBounds
    HeardIsMeant
    MoteIsHeard
PROPERTY
    WalkEnds
CHECK_DEADLOCK FALSE

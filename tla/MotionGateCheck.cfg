SPECIFICATION Spec
CONSTANTS
    Cooldown = 3
    MinScore = 90
    Samples <- MCSamples
    MaxTime = 6
INVARIANTS
    TypeOK
    Spacing
    NoMotionLost
    ScoreSeesMovement
PROPERTY
    ImplementsLimiter

SPECIFICATION FairSpec
CONSTANTS
    Calls = {c1, c2}
    MaxThs = 1
    MaxDur = 1
    DefaultThs = 1
    DefaultDur = 0
    Missing = Missing
    PowerMayFail = TRUE
    FlashMayFail = TRUE
    BusMayFail = TRUE
INVARIANTS
    TypeOK
    ImuMatchesRam
    PageTellsTruth
PROPERTIES
    RebootKeepsConfig
    RebootHappens

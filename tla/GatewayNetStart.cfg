SPECIFICATION Spec
CONSTANTS
    Brokers = {b1, b2}
    None = None
    MaxClients = 3
    MaxEvents = 3
SYMMETRY Symmetry
INVARIANTS
    TypeOK
    WifiKeepsTrying
    StatusIsCurrent
    ScannerStartsOnce
    FlagIsSound
    OneClientOneBroker
    HandleIsSafe

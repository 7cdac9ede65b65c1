SPECIFICATION Spec
CONSTANTS
    NGateways = 1
    NClients = 2
    Churn = TRUE
    Transport = FALSE
    Keep = 0
    MaxEvents = 2
    MaxPending = 2
INVARIANTS
    TypeOK
    OpenIsServed
    PagesCountEvents

SPECIFICATION FairSpec
CONSTANTS
    NGateways = 2
    NClients = 2
    Churn = FALSE
    Transport = TRUE
    Keep = 1
    MaxEvents = 2
    MaxPending = 2
INVARIANTS
    PagesShowStore
PROPERTY
    SilenceIsShown

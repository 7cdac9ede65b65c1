SPECIFICATION FairSpec
CONSTANTS
    NGateways = 1
    NClients = 2
    Churn = TRUE
    Transport = FALSE
    Keep = 0
    MaxEvents = 2
    MaxPending = 1
PROPERTY
    SilentGoesOffline

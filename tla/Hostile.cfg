CONSTANTS
    MaxSessions = 3
    Alerts = {a1}
    Loss = "always"
    EmptyManData = TRUE
    Client = "any"
SPECIFICATION FairSpec
INVARIANTS Inductive OneHeartbeat HeartbeatOwned HeartbeatKeyed AlertsAlive CallbackClearsLostHandle
PROPERTIES HandleIsReleased

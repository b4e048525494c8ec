CONSTANTS
    MaxSessions = 2
    Alerts = {a1}
    Loss = "connected"
    EmptyManData = FALSE
    Client = "any"
SPECIFICATION Spec
INVARIANTS ConnectFindsNoHeartbeat

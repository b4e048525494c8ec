CONSTANTS
    MaxSessions = 1
    Alerts = {a1}
    Loss = "connected"
    EmptyManData = FALSE
    Client = "any"
SPECIFICATION Spec
INVARIANTS DisconnectFindsHeartbeat

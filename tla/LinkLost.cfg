CONSTANTS
    MaxSessions = 3
    Alerts = {a1}
    Loss = "connected"
    EmptyManData = FALSE
    Client = "patient"
SPECIFICATION FairSpec
INVARIANTS ConnectedIsKeptAwake AssertionsHold
PROPERTIES LifecycleSpec LostLinkIsNoticed DisconnectCompletes

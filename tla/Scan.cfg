CONSTANTS
    Callbacks = {c1, c2}
    Devices = {d1, d2, d3}
    Matching = {d1, d2}
    NoDevice = none
    Cancelable = TRUE
\* A canceled scan may wait for ever.
CHECK_DEADLOCK FALSE
SPECIFICATION FairSpec
INVARIANTS Inductive FoundIsComplete NameAndAddrAgree
PROPERTIES FoundEndsScan CancelStopsDiscovery

CONSTANTS
    Callbacks = {c1}
    Devices = {d1, d2}
    Matching = {d1}
    NoDevice = none
    Cancelable = TRUE
CHECK_DEADLOCK FALSE
SPECIFICATION FairSpec
PROPERTIES CanceledScanReturns

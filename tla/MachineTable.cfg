SPECIFICATION TableSpec
CONSTANTS
    BlockLen = 12
    SizeMax = 15
    Files <- MCFiles
INVARIANT TableIsTheFiles
CHECK_DEADLOCK FALSE

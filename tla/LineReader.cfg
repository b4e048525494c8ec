SPECIFICATION Spec
CONSTANTS
    BlockLen = 3
    Files <- MCFiles
INVARIANTS
    Inductive
    StaysInBlocks
    NoRace
PROPERTIES
    LinesAreTheFiles
    CallsReturn
CHECK_DEADLOCK FALSE

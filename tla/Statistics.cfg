CONSTANTS
    MaxRequests = 3
SPECIFICATION FairSpec
INVARIANTS Inductive SuccessIsTheRequests RefusalIsTakenForSuccess
PROPERTIES RequestReturns

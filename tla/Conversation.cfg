SPECIFICATION Spec
CONSTANTS
    Machines <- MCMachines
    Makers <- MCMakers
    Statuses <- MCStatuses
    TxData <- MCTxData
INVARIANTS
    OnlyTheKeyReplaces
    BrewsAsOrdered
    AlertsAreReported
    StatisticsAreMakers
    IdentityIsMakers

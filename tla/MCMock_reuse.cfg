SPECIFICATION Spec
CONSTANTS
    Transactions <- Sent
    GasLimit = 42000
    GenesisFee = 8
    MineCounts = {0, 1, 2}
    MaxBlocks = 3
    MaxTime = 3
    MaxSent = 2
    MaxSnapshots = 2
    MaxObjects = 5
PROPERTIES
    RevertRestores

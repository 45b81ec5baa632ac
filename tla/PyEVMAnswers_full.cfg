SPECIFICATION Spec
CONSTANTS
    Forks = {"cancun"}
    GasUses = {1}
    LogCounts = {1}
    MaxSent = 3
    MaxBlocks = 2
INVARIANTS
    FullBlocksReturned

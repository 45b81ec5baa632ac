SPECIFICATION MCSpec
CONSTANTS
    None = None
    Latest = Latest
    Earliest = Earliest
    Pending = Pending
    Safe = Safe
    Finalized = Finalized
    DefaultQuantity = 1
    GasLimit = 2
    GenesisFee = 16
    DefaultFee = 16
    Added = {}
    Geneses <- AllGeneses
    MockAccounts <- MockDefaults
    Counts = {0}
    Mnemonics = {"none"}
    Paths = {"none"}
    Overrides <- NoOverrides
    Forks = {"none"}
    MaxBlocks = 2
    MaxSnapshots = 0
INVARIANT
    FeeHistoryStartsAtNewest

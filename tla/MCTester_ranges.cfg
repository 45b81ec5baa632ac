SPECIFICATION SpecForward
CONSTANTS
    alice = alice
    bob = bob
    None = None
    Latest = Latest
    Earliest = Earliest
    Pending = Pending
    Safe = Safe
    Finalized = Finalized
    secret = secret
    Accounts = {alice, bob}
    GenesisAccounts = {alice, bob}
    Passwords = {}
    Txs <- TwoSenderTxs
    BlockCapacity = 2
    Ranges <- NumberedAndEarliest
    MineCounts = {0, 1, 2}
    MaxBlocks = 3
    MaxSnapshots = 3
    MaxFilters = 1
    MaxValues = 3
INVARIANTS
    GetLogsExact
    LogFiltersAgreeWithScan

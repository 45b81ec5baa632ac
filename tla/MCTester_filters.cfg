SPECIFICATION Spec
CONSTANTS
    alice = alice
    bob = bob
    None = None
    Latest = Latest
    Earliest = Earliest
    Pending = Pending
    Safe = Safe
    Finalized = Finalized
    secret = secret
    Accounts = {alice}
    GenesisAccounts = {alice}
    Passwords = {}
    Txs <- OneSenderTxs
    BlockCapacity = 2
    Ranges <- LatestAndPending
    MineCounts = {0, 1, 2}
    MaxBlocks = 3
    MaxSnapshots = 2
    MaxFilters = 1
    MaxValues = 3
INVARIANTS
    BlockFiltersFollowChain
    TxFiltersKnown
    LogFiltersKnown
    UnreadIsSuffix
PROPERTIES
    FiltersForgetOnlyInvalid
    RepeatsOnlyPooled
    MiningFeedsBlockFilters

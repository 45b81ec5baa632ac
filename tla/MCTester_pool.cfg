SPECIFICATION Spec
CONSTANTS
    alice = alice
    bob = bob
    None = None
    Latest = Latest
    Earliest = Earliest
    Pending = Pending
    Safe = Safe
    Finalized = Finalized
    secret = secret
    Accounts = {alice, bob}
    GenesisAccounts = {alice}
    Passwords = {secret}
    Txs <- TwoSenderTxs
    BlockCapacity = 2
    Ranges <- NoRange
    MineCounts = {0, 1}
    MaxBlocks = 3
    MaxSnapshots = 3
    MaxFilters = 0
    MaxValues = 3
INVARIANTS
    TypeOK
    NonceUsedOnce
    PoolUniqueNonce
PROPERTIES
    PoolKeepsTransactions
    AddedAccountsStartLocked

SPECIFICATION Spec
CONSTANTS
    alice = alice
    bob = bob
    None = None
    Latest = Latest
    Earliest = Earliest
    Pending = Pending
    Safe = Safe
    Finalized = Finalized
    secret = secret
    Accounts = {alice}
    GenesisAccounts = {alice}
    Passwords = {}
    Txs <- OneTx
    BlockCapacity = 2
    Ranges <- FromBlockOne
    MineCounts = {1}
    MaxBlocks = 3
    MaxSnapshots = 3
    MaxFilters = 1
    MaxValues = 3
INVARIANTS
    MinedEntriesOnChain

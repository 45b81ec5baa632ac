SPECIFICATION MCSpec
CONSTANTS
    None = None
    Latest = Latest
    Earliest = Earliest
    Pending = Pending
    Safe = Safe
    Finalized = Finalized
    DefaultQuantity = 1
    GasLimit = 2
    GenesisFee = 16
    DefaultFee = 16
    Added <- AddedAccounts
    Geneses <- AllGeneses
    MockAccounts <- MockDefaults
    Counts = {0, 1, 2}
    Mnemonics = {"none", "words"}
    Paths = {"none", "m/1"}
    Overrides <- SomeOverrides
    Forks = {"none", "london", "paris"}
    MaxBlocks = 2
    MaxSnapshots = 2
CONSTRAINT
    FewSnapshots
INVARIANTS
    AccountsTypeOK
    GenesisConsistent
    NoncesCountTransactions
    PriorityOnlyRuns
    FeeHistoryFollowsGas
    CallsAgreeWithEstimates
    PasswordsBelongToListed
PROPERTIES
    OnlyReaddedStartUnlocked
    RevertRestoresAnswers
    MinedAnswersStay

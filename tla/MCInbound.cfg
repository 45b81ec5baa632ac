SPECIFICATION InboundSpec
CONSTANTS
    None = None
    Latest = Latest
    Earliest = Earliest
    Pending = Pending
    Safe = Safe
    Finalized = Finalized
    t1 = t1
    t2 = t2
    Topics = {t1, t2}
    Addresses = {}
    LogTopics <- MCLogTopics
    FilterTopics <- MCFilterTopics
    PythonValues <- MCPythonValues
    Arguments <- MCArguments
    MaxLogTopics = 3
    MaxFilterTopics = 2
    OptionalKeys = {"gas", "to", "data", "value", "nonce", "gas_price", "max_fee_per_gas", "max_priority_fee_per_gas", "access_list", "chain_id", "type", "max_fee_per_blob_gas"}
    RawTypes = {0, 1, 2}
    RawVs = {27, 37}
CHECK_DEADLOCK FALSE
INVARIANTS
    PooledCanBeMined
    PendingTypeReported
    TopicsMatchPositionwise
    AcceptedIsCanonical
    RefusedWithValidationError
    AcceptedFilterMatches
    WrongChecksumRefused
    LogEntriesSurviveFacade

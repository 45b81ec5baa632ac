SPECIFICATION Spec
CONSTANTS
    OptionalKeys = {"gas", "to", "data", "value", "nonce", "gas_price", "max_fee_per_gas", "max_priority_fee_per_gas", "access_list", "chain_id", "type", "max_fee_per_blob_gas"}
    RawTypes = {0}
    RawVs = {27, 2709}
INVARIANTS
    PooledCanBeMined

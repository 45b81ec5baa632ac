-------------------------- MODULE TransactionTypes --------------------------
(***************************************************************************)
(* The transaction types, and the way of a transaction through the pool of *)
(* EthereumTester on PyEVMBackend without auto-mining: it is validated,    *)
(* filled up, signed and run by send_transaction (or arrives signed by     *)
(* send_raw_transaction), serialized and stored in _pending_transactions,  *)
(* and later taken out, validated as a "send_signed" transaction, filled   *)
(* up again and run a second time.                                         *)
(*                                                                         *)
(* A dictionary of parameters is a function from keys; its values only say *)
(* where a value comes from: "user", or filled in when it was "sent" or    *)
(* when it was "popped".  A transaction of py-evm is [type, fields, v].    *)
(***************************************************************************)
EXTENDS Inbound, Functions

CONSTANTS
    OptionalKeys,       \* the optional keys that send_transaction may get
    RawTypes,           \* the types and ...
    RawVs               \* ... the v of legacy raw transactions

ASSUME RawAssumption == RawTypes \subseteq 0..3 /\ RawVs \subseteq Nat

DYNAMIC_FEE_TRANSACTION_PARAMS == {"max_fee_per_gas", "max_priority_fee_per_gas"}
BLOB_TRANSACTION_PARAMS == {"max_fee_per_blob_gas", "blob_versioned_hashes"}

(* The signature r, s, v travels next to the dictionaries of this module.  *)
VALID_TRANSACTION_PARAMS == TRANSACTION_KEYS

(* The fields of the transaction classes of py-evm, by type.               *)
LegacyFields == {"nonce", "gas_price", "gas", "to", "value", "data"}
AccessListFields == LegacyFields \cup {"chain_id", "access_list"}
DynamicFeeFields ==
    (AccessListFields \ {"gas_price"}) \cup DYNAMIC_FEE_TRANSACTION_PARAMS
FieldsOf(type) ==
    CASE type = 0 -> LegacyFields
      [] type = 1 -> AccessListFields
      [] type = 2 -> DynamicFeeFields
      [] type = 3 -> DynamicFeeFields \cup BLOB_TRANSACTION_PARAMS

VARIABLES
    tx,                 \* the transaction the chain ran last, or Nothing
    pending             \* its entry of _pending_transactions, or Nothing

Nothing == [nothing |-> TRUE]

-----------------------------------------------------------------------------
(* validate_transaction of the keys of a "send", and the one check that     *)
(* "send_signed" adds.  The values themselves are taken to be well-formed. *)
validate_keys(value) ==
    /\ DOMAIN value \subseteq TRANSACTION_KEYS
    /\ RequiredKeys("send") \subseteq DOMAIN value
    /\ ~MixesFees(value)

validate_signed_keys(value, v) ==
    validate_keys(value) /\ v <= UINT8_MAX

(* PyEVMBackend._normalize_transaction: the keys it adds come from source. *)
_normalize_transaction(transaction, source) ==
    LET keys == DOMAIN transaction
        fees == DYNAMIC_FEE_TRANSACTION_PARAMS \cap keys
        dynamic == fees # {} \/ "gas_price" \notin keys
        typed == dynamic \/ "access_list" \in keys
        added == {"nonce", "data", "value", "to"}
              \cup (IF dynamic /\ fees = {}
                    THEN DYNAMIC_FEE_TRANSACTION_PARAMS ELSE {})
              \cup (IF "max_priority_fee_per_gas" \in fees
                    THEN {"max_fee_per_gas"} ELSE {})
              \cup (IF typed THEN {"access_list", "chain_id"} ELSE {})
        kept == keys \ {"from", "type"}
    IN  [key \in kept \cup added |->
            IF key \in kept THEN transaction[key] ELSE source]

(* _create_type_aware_*_transaction.  The constructors of py-evm take the  *)
(* fields of their type and raise TypeError for any other set of them.     *)
TypeFor(normalized) ==
    IF {"access_list", "gas_price"} \subseteq DOMAIN normalized THEN 1
    ELSE IF DYNAMIC_FEE_TRANSACTION_PARAMS \subseteq DOMAIN normalized THEN 2
    ELSE 0

Creates(normalized) == DOMAIN normalized = FieldsOf(TypeFor(normalized))

(* The signature of a legacy transaction has v 27 or 28, that of another   *)
(* type has the y_parity 0 or 1.                                           *)
Signed(normalized) ==
    LET type == TypeFor(normalized)
    IN  [type |-> type, fields |-> normalized,
         v |-> IF type = 0 THEN 27 ELSE 0]

(* serialize_transaction of a pending transaction.                         *)
serialize_transaction(transaction) ==
    LET fields == transaction.fields
        keys == DOMAIN fields \cup {"gas_price", "type", "from", "hash"}
    IN  [key \in keys |->
            IF key \in DOMAIN fields THEN fields[key]
            ELSE IF key = "gas_price" THEN fields["max_fee_per_gas"]
            ELSE "sent"]

(* A wrong clean-up leaves the gas price of a dynamic fee transaction.     *)
CleanedOfType(transaction) ==
    Restrict(transaction, DOMAIN transaction \ {"type"})

_clean_pending_transaction(transaction) ==
    Restrict(transaction, DOMAIN transaction \
        ({"type"} \cup (IF "max_fee_per_gas" \in DOMAIN transaction
                        THEN {"gas_price"} ELSE {})))

extract_valid_transaction_params(params) ==
    Restrict(params, DOMAIN params \cap VALID_TRANSACTION_PARAMS)

(* A wrong one looks at the access list first.                             *)
TypeByAccessList(transaction) ==
    IF "access_list" \in DOMAIN transaction THEN 1
    ELSE IF "max_fee_per_gas" \in DOMAIN transaction THEN 2 ELSE 0

(* The type that get_transaction_by_hash reports for a pool entry.         *)
extract_transaction_type(transaction) ==
    IF "max_fee_per_gas" \in DOMAIN transaction THEN 2
    ELSE IF "access_list" \in DOMAIN transaction THEN 1 ELSE 0

-----------------------------------------------------------------------------
Init == tx = Nothing /\ pending = Nothing

Enter(transaction) ==
    /\ tx' = transaction
    /\ pending' = _clean_pending_transaction(serialize_transaction(transaction))

SendTransaction(keys) ==
    LET transaction == [key \in keys \cup {"from"} |-> "user"]
        normalized == _normalize_transaction(transaction, "sent")
    IN  /\ validate_keys(transaction)
        /\ Creates(normalized)
        /\ Enter(Signed(normalized))

SendRawTransaction(type, v) ==
    Enter([type |-> type, fields |-> [key \in FieldsOf(type) |-> "user"],
           v |-> IF type = 0 THEN v ELSE 0])

(* The transaction that a pool entry becomes when it is popped.            *)
Popped == _normalize_transaction(extract_valid_transaction_params(pending),
                                 "popped")

(* The chain runs it again only if it is the one that was signed: from any *)
(* other the signature recovers a sender that owns nothing.                *)
PopAccepted ==
    /\ validate_signed_keys(extract_valid_transaction_params(pending), tx.v)
    /\ Creates(Popped)
    /\ [type |-> TypeFor(Popped), fields |-> Popped, v |-> tx.v] = tx

MineBlock ==
    /\ pending # Nothing
    /\ PopAccepted
    /\ pending' = Nothing
    /\ UNCHANGED tx

Next ==
    \/ \E keys \in SUBSET OptionalKeys : SendTransaction(keys)
    \/ \E type \in RawTypes, v \in RawVs : SendRawTransaction(type, v)
    \/ MineBlock

Spec == Init /\ [][Next]_<<tx, pending>>

-----------------------------------------------------------------------------
(* What was accepted into the pool can be mined: the trip through the      *)
(* serializer, the pool, the validator and the defaults ends at the signed *)
(* transaction again.  (handle_auto_mining, _add_all_to_pending_block)     *)
PooledCanBeMined == pending # Nothing => PopAccepted

(* A pending transaction is reported with the type it has on the chain.    *)
(* (_normalize_pending_transaction)                                        *)
PendingTypeReported ==
    pending # Nothing => extract_transaction_type(pending) = tx.type
=============================================================================

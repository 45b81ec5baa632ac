------------------------------- MODULE Outbound -------------------------------
(***************************************************************************)
(* validation/outbound.py and normalization/outbound.py: what the facade   *)
(* demands of a dictionary that a backend returns, before a caller sees    *)
(* it.  A value that fails raises ValidationError (or KeyError, TypeError  *)
(* and ValueError in the normalizer), so the call raises.                  *)
(*                                                                         *)
(* A Python value is [is, val]: is says what kind of value it is, val is a *)
(* number where a property needs one and 0 elsewhere.  A validator and a   *)
(* normalizer are the set of kinds that they accept; a dictionary of them  *)
(* is a function from keys.                                                *)
(***************************************************************************)
EXTENDS Naturals, Sequences

Some(kind) == [is |-> kind, val |-> 0]
Of(kind, val) == [is |-> kind, val |-> val]
Null == Some("None")

(* A dictionary with the keys of two, the first one's values first.        *)
f ++ g == [ key \in DOMAIN f \cup DOMAIN g |->
              IF key \in DOMAIN f THEN f[key] ELSE g[key] ]

Ints == {"int", "type", "bit", "v"}
AnyBytes == {"empty", "bytes8", "address", "bytes32", "data"}
Lists == {"access_list", "bytes32_list", "withdrawals", "logs"}
AnyKind == Ints \cup AnyBytes \cup Lists \cup {"None", "hex_type", "text"}

Each(keys, kinds) == [key \in keys |-> kinds]

if_not_null(kinds) == kinds \cup {"None"}
if_not_create_address(kinds) == kinds \cup {"empty"}

-----------------------------------------------------------------------------
(* validate_dict: the keys are those of the validators, no more, no fewer. *)
validate_dict(value, key_validators) ==
    /\ DOMAIN value = DOMAIN key_validators
    /\ \A key \in DOMAIN value : value[key].is \in key_validators[key]

(* normalize_dict looks up a normalizer for every key there is.            *)
normalize_dict(value, normalizers) ==
    \A key \in DOMAIN value :
        key \in DOMAIN normalizers /\ value[key].is \in normalizers[key]

-----------------------------------------------------------------------------
LOG_ENTRY_VALIDATORS ==
    [type |-> {"text"}, log_index |-> Ints,
     transaction_index |-> if_not_null(Ints),
     transaction_hash |-> {"bytes32"}, block_hash |-> if_not_null({"bytes32"}),
     block_number |-> if_not_null(Ints), address |-> {"address"},
     data |-> AnyBytes, topics |-> {"bytes32_list"}]

LEGACY_TRANSACTION_VALIDATORS ==
    Each({"nonce", "value", "gas", "gas_price", "r", "s"}, Ints)
    ++ [type |-> {"type", "hex_type"}, hash |-> {"bytes32"},
        block_hash |-> if_not_null({"bytes32"}),
        block_number |-> if_not_null(Ints),
        transaction_index |-> if_not_null(Ints), from |-> {"address"},
        to |-> if_not_create_address({"address"}), data |-> AnyBytes,
        v |-> {"bit", "v"}]

ACCESS_LIST_TRANSACTION_VALIDATORS ==
    [v |-> {"bit"}, y_parity |-> {"bit"}, chain_id |-> Ints,
     access_list |-> {"access_list"}] ++ LEGACY_TRANSACTION_VALIDATORS

DYNAMIC_FEE_TRANSACTION_VALIDATORS ==
    [max_fee_per_gas |-> Ints, max_priority_fee_per_gas |-> Ints]
    ++ ACCESS_LIST_TRANSACTION_VALIDATORS

BLOB_TRANSACTION_VALIDATORS ==
    [max_fee_per_blob_gas |-> Ints, blob_versioned_hashes |-> {"bytes32_list"}]
    ++ DYNAMIC_FEE_TRANSACTION_VALIDATORS

TransactionValidators ==
    { LEGACY_TRANSACTION_VALIDATORS, ACCESS_LIST_TRANSACTION_VALIDATORS,
      DYNAMIC_FEE_TRANSACTION_VALIDATORS, BLOB_TRANSACTION_VALIDATORS }

validate_transaction(value) ==
    \E validators \in TransactionValidators : validate_dict(value, validators)

RECEIPT_VALIDATORS ==
    [transaction_hash |-> {"bytes32"}, transaction_index |-> if_not_null(Ints),
     block_number |-> if_not_null(Ints), block_hash |-> if_not_null({"bytes32"}),
     cumulative_gas_used |-> Ints, effective_gas_price |-> if_not_null(Ints),
     from |-> {"address"}, gas_used |-> Ints,
     contract_address |-> if_not_null({"address"}), logs |-> {"logs"},
     state_root |-> AnyBytes, status |-> {"bit"},
     to |-> if_not_create_address({"address"}), type |-> {"type", "hex_type"}]

CANCUN_RECEIPT_VALIDATORS ==
    [blob_gas_used |-> Ints, blob_gas_price |-> Ints] ++ RECEIPT_VALIDATORS

(* The log entries of a receipt come as a sequence next to it.             *)
validate_receipt(value, logs) ==
    /\ \/ validate_dict(value, RECEIPT_VALIDATORS)
       \/ validate_dict(value, CANCUN_RECEIPT_VALIDATORS)
    /\ \A i \in DOMAIN logs : validate_dict(logs[i], LOG_ENTRY_VALIDATORS)

-----------------------------------------------------------------------------
LondonKeys == {"base_fee_per_gas"}
ShanghaiKeys == {"withdrawals", "withdrawals_root"}
CancunKeys == {"parent_beacon_block_root", "blob_gas_used", "excess_blob_gas"}
ForkKeys == LondonKeys \cup ShanghaiKeys \cup CancunKeys

(* All but "transactions", which come as a sequence next to the block.     *)
BLOCK_VALIDATORS ==
    Each({"number", "logs_bloom", "difficulty", "total_difficulty", "size",
          "gas_limit", "gas_used", "timestamp"}, Ints)
    ++ Each({"hash", "parent_hash", "sha3_uncles", "transactions_root",
             "receipts_root", "state_root", "mix_hash", "extra_data"},
            {"bytes32"})
    ++ [nonce |-> {"bytes8"}, coinbase |-> {"address"}, uncles |-> {"bytes32_list"}]
    ++ Each(ForkKeys, AnyKind)

ForkValidators ==
    [base_fee_per_gas |-> Ints, blob_gas_used |-> Ints, excess_blob_gas |-> Ints,
     withdrawals |-> {"withdrawals"}, withdrawals_root |-> {"bytes32"},
     parent_beacon_block_root |-> {"bytes32"}]

(* What is_london_block, is_shanghai_block and is_cancun_block find in a   *)
(* dictionary.                                                             *)
PresentForkKeys(block) ==
    UNION { keys \in {LondonKeys, ShanghaiKeys, CancunKeys} :
              (keys \ {"withdrawals"}) \subseteq DOMAIN block }

(* _validate_fork_specific_fields fills in None for the other ones.        *)
ForkFieldsValid(block) ==
    \A key \in PresentForkKeys(block) :
        key \in DOMAIN block /\ block[key].is \in ForkValidators[key]

ForkFieldsFilled(block) ==
    [key \in ForkKeys \ PresentForkKeys(block) |-> Null] ++ block

(* The items of "transactions" are hashes, or dictionaries that all pass   *)
(* the same validator.                                                     *)
validate_transaction_hashes(items) == \A i \in DOMAIN items : items[i].is = "bytes32"
validate_transaction_objects(items) ==
    \E validators \in TransactionValidators :
        \A i \in DOMAIN items : validate_dict(items[i], validators)

validate_block(block) ==
    /\ ForkFieldsValid(block)
    /\ validate_dict(ForkFieldsFilled(block), BLOCK_VALIDATORS)

-----------------------------------------------------------------------------
(* Normalizers: encode_hex wants bytes, to_checksum_address an address.    *)
TRANSACTION_NORMALIZERS ==
    Each({"type", "chain_id", "nonce", "block_hash", "block_number",
          "transaction_index", "value", "gas", "gas_price",
          "max_fee_per_blob_gas", "max_fee_per_gas",
          "max_priority_fee_per_gas", "r", "s", "v", "y_parity"}, AnyKind)
    ++ [blob_versioned_hashes |-> {"bytes32_list"}, hash |-> AnyBytes,
        data |-> AnyBytes, from |-> {"address"}, to |-> {"address", "empty"},
        access_list |-> {"access_list"}]

LOG_ENTRY_NORMALIZERS ==
    [type |-> AnyKind, log_index |-> AnyKind, transaction_index |-> AnyKind,
     transaction_hash |-> AnyBytes, block_hash |-> AnyKind,
     block_number |-> AnyKind, address |-> {"address"}, data |-> AnyBytes,
     topics |-> {"bytes32_list"}]

RECEIPT_NORMALIZERS ==
    Each({"transaction_index", "block_number", "block_hash",
          "cumulative_gas_used", "effective_gas_price", "gas_used",
          "contract_address", "state_root", "status", "type",
          "base_fee_per_gas", "blob_gas_used", "blob_gas_price"}, AnyKind)
    ++ [transaction_hash |-> AnyBytes, from |-> {"address"},
        to |-> {"address", "empty"}, logs |-> {"logs"}]

(* A failed transaction has created no contract.                           *)
_normalize_contract_address(receipt) ==
    IF receipt["status"].val = 0
    THEN [receipt EXCEPT !["contract_address"] = Null] ELSE receipt

BLOCK_NORMALIZERS ==
    Each({"number", "base_fee_per_gas", "logs_bloom", "difficulty",
          "total_difficulty", "size", "gas_limit", "gas_used", "timestamp",
          "blob_gas_used", "excess_blob_gas"}, AnyKind)
    ++ Each({"hash", "parent_hash", "nonce", "sha3_uncles",
             "transactions_root", "receipts_root", "state_root", "mix_hash",
             "extra_data", "withdrawals_root", "parent_beacon_block_root"},
            AnyBytes)
    ++ [coinbase |-> {"address"}, uncles |-> {"bytes32_list"},
        withdrawals |-> {"withdrawals"}]

_remove_fork_specific_fields_if_none(block) ==
    [key \in { k \in DOMAIN block : block[k] # Null } |-> block[key]]

-----------------------------------------------------------------------------
(* The three answers of the facade: does the call return?                  *)
TransactionReturned(value) ==
    validate_transaction(value) /\ normalize_dict(value, TRANSACTION_NORMALIZERS)

ReceiptReturned(value, logs) ==
    /\ validate_receipt(value, logs)
    /\ normalize_dict(_normalize_contract_address(value), RECEIPT_NORMALIZERS)
    /\ \A i \in DOMAIN logs : normalize_dict(logs[i], LOG_ENTRY_NORMALIZERS)

BlockReturned(block) ==
    LET cleaned == _remove_fork_specific_fields_if_none(ForkFieldsFilled(block))
    IN  /\ validate_block(block)
        /\ normalize_dict(cleaned, BLOCK_NORMALIZERS)
        /\ cleaned = block
=============================================================================

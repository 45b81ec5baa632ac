--------------------------- MODULE Outbound_proofs ---------------------------
(***************************************************************************)
(* Lemmas about the outbound checks: what the dictionaries of validators   *)
(* and normalizers hold, and how a dictionary put together from parts is   *)
(* checked part by part.                                                   *)
(***************************************************************************)
EXTENDS Outbound, TLAPS

-----------------------------------------------------------------------------
(* Dictionaries.                                                           *)

(* f ++ g has the keys of both.                                            *)
LEMMA MergedKeys ==
    ASSUME NEW f, NEW g
    PROVE  DOMAIN (f ++ g) = DOMAIN f \cup DOMAIN g
<1>1. f ++ g = [key \in DOMAIN f \cup DOMAIN g |->
                 IF key \in DOMAIN f THEN f[key] ELSE g[key]]
  BY Zenon DEF ++
<1> QED
  BY <1>1, Zenon

(* It has the values of f,                                                *)
LEMMA MergeLeft ==
    ASSUME NEW f, NEW g, NEW x \in DOMAIN f
    PROVE  x \in DOMAIN (f ++ g) /\ (f ++ g)[x] = f[x]
<1>1. f ++ g = [key \in DOMAIN f \cup DOMAIN g |->
                 IF key \in DOMAIN f THEN f[key] ELSE g[key]]
  BY Zenon DEF ++
<1>2. x \in DOMAIN f \cup DOMAIN g
  OBVIOUS
<1> QED
  BY <1>1, <1>2, Zenon

(* and those of g that f does not have.                                    *)
LEMMA MergeRight ==
    ASSUME NEW f, NEW g, NEW x \in DOMAIN g, x \notin DOMAIN f
    PROVE  x \in DOMAIN (f ++ g) /\ (f ++ g)[x] = g[x]
<1>1. f ++ g = [key \in DOMAIN f \cup DOMAIN g |->
                 IF key \in DOMAIN f THEN f[key] ELSE g[key]]
  BY Zenon DEF ++
<1>2. x \in DOMAIN f \cup DOMAIN g
  OBVIOUS
<1> QED
  BY <1>1, <1>2, Zenon

(* When no key is in both, it has the values of both.                      *)
LEMMA MergeDisjoint ==
    ASSUME NEW f, NEW g, DOMAIN g \cap DOMAIN f = {}
    PROVE  /\ DOMAIN (f ++ g) = DOMAIN f \cup DOMAIN g
           /\ \A x \in DOMAIN f : (f ++ g)[x] = f[x]
           /\ \A x \in DOMAIN g : (f ++ g)[x] = g[x]
<1>1. ASSUME NEW x \in DOMAIN f PROVE (f ++ g)[x] = f[x]
  BY <1>1, MergeLeft
<1>2. ASSUME NEW x \in DOMAIN g PROVE (f ++ g)[x] = g[x]
  <2>1. x \notin DOMAIN f
    OBVIOUS
  <2> QED
    BY <1>2, <2>1, MergeRight
<1> QED
  BY <1>1, <1>2, MergedKeys

(* It has no other values.                                                 *)
LEMMA MergedFunction ==
    ASSUME NEW f, NEW g
    PROVE  f ++ g = [key \in DOMAIN (f ++ g) |-> (f ++ g)[key]]
BY DEF ++

(* One value for all keys.                                                 *)
LEMMA EachKey ==
    ASSUME NEW keys, NEW v
    PROVE  /\ DOMAIN Each(keys, v) = keys
           /\ \A key \in keys : Each(keys, v)[key] = v
BY DEF Each

-----------------------------------------------------------------------------
(* Checking part by part.                                                  *)

(* A dictionary is valid when it has the keys of the validators and every  *)
(* value is of a kind that its validator accepts.                          *)
LEMMA ValidateByKeys ==
    ASSUME NEW value, NEW validators, DOMAIN value = DOMAIN validators,
           normalize_dict(value, validators)
    PROVE  validate_dict(value, validators)
BY DEF normalize_dict, validate_dict

(* What all parts of a dictionary pass, the dictionary passes.             *)
LEMMA NormalizeParts ==
    ASSUME NEW f, NEW g, NEW normalizers,
           normalize_dict(f, normalizers), normalize_dict(g, normalizers)
    PROVE  normalize_dict(f ++ g, normalizers)
<1> SUFFICES ASSUME NEW x \in DOMAIN (f ++ g)
             PROVE  x \in DOMAIN normalizers /\ (f ++ g)[x].is \in normalizers[x]
  BY DEF normalize_dict
<1>1. CASE x \in DOMAIN f
  <2>1. (f ++ g)[x] = f[x]
    BY <1>1, MergeLeft
  <2> QED
    BY <1>1, <2>1 DEF normalize_dict
<1>2. CASE x \notin DOMAIN f
  <2>1. x \in DOMAIN g
    BY <1>2, MergedKeys
  <2>2. (f ++ g)[x] = g[x]
    BY <1>2, <2>1, MergeRight
  <2> QED
    BY <1>2, <2>2, <2>1 DEF normalize_dict
<1> QED
  BY <1>1, <1>2

-----------------------------------------------------------------------------
(* The validators.                                                         *)

LEMMA LegacyValidators ==
    /\ DOMAIN LEGACY_TRANSACTION_VALIDATORS =
         {"type", "hash", "nonce", "value", "gas", "gas_price", "r", "s",
          "block_hash", "block_number", "transaction_index", "from", "to",
          "data", "v"}
    /\ LEGACY_TRANSACTION_VALIDATORS["type"] = {"type", "hex_type"}
    /\ LEGACY_TRANSACTION_VALIDATORS["hash"] = {"bytes32"}
    /\ LEGACY_TRANSACTION_VALIDATORS["nonce"] = Ints
    /\ LEGACY_TRANSACTION_VALIDATORS["block_hash"] = if_not_null({"bytes32"})
    /\ LEGACY_TRANSACTION_VALIDATORS["block_number"] = if_not_null(Ints)
    /\ LEGACY_TRANSACTION_VALIDATORS["transaction_index"] = if_not_null(Ints)
    /\ LEGACY_TRANSACTION_VALIDATORS["from"] = {"address"}
    /\ LEGACY_TRANSACTION_VALIDATORS["to"] = if_not_create_address({"address"})
    /\ LEGACY_TRANSACTION_VALIDATORS["value"] = Ints
    /\ LEGACY_TRANSACTION_VALIDATORS["gas"] = Ints
    /\ LEGACY_TRANSACTION_VALIDATORS["gas_price"] = Ints
    /\ LEGACY_TRANSACTION_VALIDATORS["data"] = AnyBytes
    /\ LEGACY_TRANSACTION_VALIDATORS["v"] = {"bit", "v"}
    /\ LEGACY_TRANSACTION_VALIDATORS["r"] = Ints
    /\ LEGACY_TRANSACTION_VALIDATORS["s"] = Ints
BY SMT DEF LEGACY_TRANSACTION_VALIDATORS, ++, Each

LEMMA AccessListValidators ==
    /\ DOMAIN ACCESS_LIST_TRANSACTION_VALIDATORS =
         DOMAIN LEGACY_TRANSACTION_VALIDATORS
         \cup {"y_parity", "chain_id", "access_list"}
    /\ ACCESS_LIST_TRANSACTION_VALIDATORS["v"] = {"bit"}
    /\ ACCESS_LIST_TRANSACTION_VALIDATORS["y_parity"] = {"bit"}
    /\ ACCESS_LIST_TRANSACTION_VALIDATORS["chain_id"] = Ints
    /\ ACCESS_LIST_TRANSACTION_VALIDATORS["access_list"] = {"access_list"}
    /\ \A key \in DOMAIN LEGACY_TRANSACTION_VALIDATORS \ {"v"} :
          ACCESS_LIST_TRANSACTION_VALIDATORS[key] =
            LEGACY_TRANSACTION_VALIDATORS[key]
BY SMT, LegacyValidators DEF ACCESS_LIST_TRANSACTION_VALIDATORS, ++
LEMMA DynamicFeeValidators ==
    /\ DOMAIN DYNAMIC_FEE_TRANSACTION_VALIDATORS =
         DOMAIN ACCESS_LIST_TRANSACTION_VALIDATORS
         \cup {"max_fee_per_gas", "max_priority_fee_per_gas"}
    /\ DYNAMIC_FEE_TRANSACTION_VALIDATORS["max_fee_per_gas"] = Ints
    /\ DYNAMIC_FEE_TRANSACTION_VALIDATORS["max_priority_fee_per_gas"] = Ints
    /\ \A key \in DOMAIN ACCESS_LIST_TRANSACTION_VALIDATORS :
          DYNAMIC_FEE_TRANSACTION_VALIDATORS[key] =
            ACCESS_LIST_TRANSACTION_VALIDATORS[key]
BY SMT, LegacyValidators, AccessListValidators
   DEF DYNAMIC_FEE_TRANSACTION_VALIDATORS, ++

LEMMA BlobValidators ==
    /\ DOMAIN BLOB_TRANSACTION_VALIDATORS =
         DOMAIN DYNAMIC_FEE_TRANSACTION_VALIDATORS
         \cup {"max_fee_per_blob_gas", "blob_versioned_hashes"}
    /\ BLOB_TRANSACTION_VALIDATORS["max_fee_per_blob_gas"] = Ints
    /\ BLOB_TRANSACTION_VALIDATORS["blob_versioned_hashes"] = {"bytes32_list"}
    /\ \A key \in DOMAIN DYNAMIC_FEE_TRANSACTION_VALIDATORS :
          BLOB_TRANSACTION_VALIDATORS[key] =
            DYNAMIC_FEE_TRANSACTION_VALIDATORS[key]
BY SMT, LegacyValidators, AccessListValidators, DynamicFeeValidators
   DEF BLOB_TRANSACTION_VALIDATORS, ++

LEMMA TransactionNormalizers ==
    /\ DOMAIN TRANSACTION_NORMALIZERS =
         {"type", "chain_id", "nonce", "block_hash", "block_number",
          "transaction_index", "value", "gas", "gas_price",
          "max_fee_per_blob_gas", "max_fee_per_gas",
          "max_priority_fee_per_gas", "r", "s", "v", "y_parity",
          "blob_versioned_hashes", "hash", "data", "from", "to", "access_list"}
    /\ TRANSACTION_NORMALIZERS["blob_versioned_hashes"] = {"bytes32_list"}
    /\ TRANSACTION_NORMALIZERS["hash"] = AnyBytes
    /\ TRANSACTION_NORMALIZERS["data"] = AnyBytes
    /\ TRANSACTION_NORMALIZERS["from"] = {"address"}
    /\ TRANSACTION_NORMALIZERS["to"] = {"address", "empty"}
    /\ TRANSACTION_NORMALIZERS["access_list"] = {"access_list"}
    /\ \A key \in {"type", "chain_id", "nonce", "block_hash", "block_number",
                   "transaction_index", "value", "gas", "gas_price",
                   "max_fee_per_blob_gas", "max_fee_per_gas",
                   "max_priority_fee_per_gas", "r", "s", "v", "y_parity"} :
          TRANSACTION_NORMALIZERS[key] = AnyKind
BY SMT DEF TRANSACTION_NORMALIZERS, ++, Each

(* The answer about a transaction of each type passes the check and the    *)
(* normalizer when its parts pass them.                                    *)
LEMMA ReturnedWhenValid ==
    ASSUME NEW value, NEW validators \in TransactionValidators,
           DOMAIN value = DOMAIN validators, normalize_dict(value, validators),
           normalize_dict(value, TRANSACTION_NORMALIZERS)
    PROVE  TransactionReturned(value)
BY ValidateByKeys DEF TransactionReturned, validate_transaction

-----------------------------------------------------------------------------
(* Receipts.                                                               *)

LEMMA ReceiptValidators ==
    /\ DOMAIN RECEIPT_VALIDATORS =
         {"transaction_hash", "transaction_index", "block_number", "block_hash",
          "cumulative_gas_used", "effective_gas_price", "from", "gas_used",
          "contract_address", "logs", "state_root", "status", "to", "type"}
    /\ DOMAIN CANCUN_RECEIPT_VALIDATORS =
         DOMAIN RECEIPT_VALIDATORS \cup {"blob_gas_used", "blob_gas_price"}
    /\ CANCUN_RECEIPT_VALIDATORS["blob_gas_used"] = Ints
    /\ CANCUN_RECEIPT_VALIDATORS["blob_gas_price"] = Ints
    /\ \A key \in DOMAIN RECEIPT_VALIDATORS :
          CANCUN_RECEIPT_VALIDATORS[key] = RECEIPT_VALIDATORS[key]
BY SMT DEF RECEIPT_VALIDATORS, CANCUN_RECEIPT_VALIDATORS, ++

LEMMA ReceiptNormalizers ==
    /\ DOMAIN RECEIPT_NORMALIZERS =
         {"transaction_index", "block_number", "block_hash",
          "cumulative_gas_used", "effective_gas_price", "gas_used",
          "contract_address", "state_root", "status", "type",
          "base_fee_per_gas", "blob_gas_used", "blob_gas_price",
          "transaction_hash", "from", "to", "logs"}
    /\ RECEIPT_NORMALIZERS["transaction_hash"] = AnyBytes
    /\ RECEIPT_NORMALIZERS["from"] = {"address"}
    /\ RECEIPT_NORMALIZERS["to"] = {"address", "empty"}
    /\ RECEIPT_NORMALIZERS["logs"] = {"logs"}
    /\ \A key \in {"transaction_index", "block_number", "block_hash",
                   "cumulative_gas_used", "effective_gas_price", "gas_used",
                   "contract_address", "state_root", "status", "type",
                   "base_fee_per_gas", "blob_gas_used", "blob_gas_price"} :
          RECEIPT_NORMALIZERS[key] = AnyKind
BY SMT DEF RECEIPT_NORMALIZERS, ++, Each

-----------------------------------------------------------------------------
(* Blocks.                                                                 *)

IntKeys == {"number", "logs_bloom", "difficulty", "total_difficulty", "size",
            "gas_limit", "gas_used", "timestamp"}
HashKeys == {"hash", "parent_hash", "sha3_uncles", "transactions_root",
             "receipts_root", "state_root", "mix_hash", "extra_data"}

LEMMA BlockValidators ==
    /\ DOMAIN BLOCK_VALIDATORS =
         IntKeys \cup HashKeys \cup {"nonce", "coinbase", "uncles"} \cup ForkKeys
    /\ \A key \in IntKeys : BLOCK_VALIDATORS[key] = Ints
    /\ \A key \in HashKeys : BLOCK_VALIDATORS[key] = {"bytes32"}
    /\ BLOCK_VALIDATORS["nonce"] = {"bytes8"}
    /\ BLOCK_VALIDATORS["coinbase"] = {"address"}
    /\ BLOCK_VALIDATORS["uncles"] = {"bytes32_list"}
    /\ \A key \in ForkKeys : BLOCK_VALIDATORS[key] = AnyKind
BY SMT DEF BLOCK_VALIDATORS, ++, Each, IntKeys, HashKeys, ForkKeys,
           LondonKeys, ShanghaiKeys, CancunKeys

LEMMA BlockNormalizers ==
    /\ DOMAIN BLOCK_NORMALIZERS =
         IntKeys \cup HashKeys \cup {"nonce", "coinbase", "uncles"} \cup ForkKeys
    /\ \A key \in IntKeys \cup {"base_fee_per_gas", "blob_gas_used", "excess_blob_gas"} :
          BLOCK_NORMALIZERS[key] = AnyKind
    /\ \A key \in HashKeys \cup {"nonce", "withdrawals_root",
                                 "parent_beacon_block_root"} :
          BLOCK_NORMALIZERS[key] = AnyBytes
    /\ BLOCK_NORMALIZERS["coinbase"] = {"address"}
    /\ BLOCK_NORMALIZERS["uncles"] = {"bytes32_list"}
    /\ BLOCK_NORMALIZERS["withdrawals"] = {"withdrawals"}
BY SMT DEF BLOCK_NORMALIZERS, ++, Each, IntKeys, HashKeys, ForkKeys,
           LondonKeys, ShanghaiKeys, CancunKeys

(* The kinds of the fields that the blocks of each fork may have.          *)
LEMMA ForkValidatorsOf ==
    /\ DOMAIN ForkValidators = ForkKeys
    /\ \A key \in {"base_fee_per_gas", "blob_gas_used", "excess_blob_gas"} :
          ForkValidators[key] = Ints
    /\ ForkValidators["withdrawals"] = {"withdrawals"}
    /\ ForkValidators["withdrawals_root"] = {"bytes32"}
    /\ ForkValidators["parent_beacon_block_root"] = {"bytes32"}
BY SMT DEF ForkValidators, ForkKeys, LondonKeys, ShanghaiKeys, CancunKeys

(* A block with the fields of all forks, with those of some fork and the   *)
(* earlier ones, or with none of them is returned: None is filled in for   *)
(* the others, and taken out again.  (_validate_fork_specific_fields,      *)
(* _remove_fork_specific_fields_if_none)                                   *)
LEMMA BlockPasses ==
    ASSUME NEW block, NEW present,
           present \in {{}, LondonKeys, LondonKeys \cup ShanghaiKeys, ForkKeys},
           block = [key \in DOMAIN block |-> block[key]],
           DOMAIN block = IntKeys \cup HashKeys \cup {"nonce", "coinbase", "uncles"}
                          \cup present,
           \A key \in IntKeys : block[key].is = "int",
           \A key \in HashKeys : block[key].is = "bytes32",
           block["nonce"].is = "bytes8", block["coinbase"].is = "address",
           block["uncles"].is = "bytes32_list",
           \A key \in present : block[key].is \in ForkValidators[key]
    PROVE  BlockReturned(block)
<1> DEFINE blank == [key \in ForkKeys \ present |-> Null]
           filled == ForkFieldsFilled(block)
           cleaned == _remove_fork_specific_fields_if_none(filled)
<1>1. /\ present \subseteq ForkKeys
      /\ ForkKeys \cap (IntKeys \cup HashKeys \cup {"nonce", "coinbase", "uncles"}) = {}
  BY DEF ForkKeys, LondonKeys, ShanghaiKeys, CancunKeys, IntKeys, HashKeys
<1>2. PresentForkKeys(block) = present
  <2>1. /\ (LondonKeys \ {"withdrawals"}) \subseteq DOMAIN block
             <=> LondonKeys \subseteq present
        /\ (ShanghaiKeys \ {"withdrawals"}) \subseteq DOMAIN block
             <=> ShanghaiKeys \subseteq present
        /\ (CancunKeys \ {"withdrawals"}) \subseteq DOMAIN block
             <=> CancunKeys \subseteq present
    BY DEF ForkKeys, LondonKeys, ShanghaiKeys, CancunKeys, IntKeys, HashKeys
  <2>2. PresentForkKeys(block)
          = UNION { keys \in {LondonKeys, ShanghaiKeys, CancunKeys} :
                      keys \subseteq present }
    BY <2>1 DEF PresentForkKeys
  <2>3. present = UNION { keys \in {LondonKeys, ShanghaiKeys, CancunKeys} :
                            keys \subseteq present }
    BY DEF ForkKeys, LondonKeys, ShanghaiKeys, CancunKeys
  <2> QED
    BY <2>2, <2>3
<1>3. ForkFieldsValid(block)
  BY <1>2 DEF ForkFieldsValid
<1>4. \A key \in DOMAIN block : key \notin DOMAIN blank /\ block[key] # Null
  <2>1. \A key \in present : "None" \notin ForkValidators[key]
    BY <1>1, ForkValidatorsOf
       DEF ForkKeys, LondonKeys, ShanghaiKeys, CancunKeys, Ints
  <2>2. \A key \in DOMAIN block : block[key].is # "None"
    BY <2>1
  <2>3. Null.is = "None"
    BY DEF Null, Some
  <2> QED
    BY <1>1, <2>2, <2>3
<1>5. filled = blank ++ block
  BY <1>2 DEF ForkFieldsFilled
<1>6. DOMAIN filled = DOMAIN BLOCK_VALIDATORS
  <2>1. DOMAIN filled = DOMAIN blank \cup DOMAIN block
    BY <1>5, MergedKeys, ZenonT(40)
  <2>2. DOMAIN blank = ForkKeys \ present
    OBVIOUS
  <2> HIDE DEF blank, filled
  <2> QED
    BY <1>1, <2>1, <2>2, BlockValidators
<1>7. /\ \A key \in DOMAIN block : filled[key] = block[key]
      /\ \A key \in ForkKeys \ present : filled[key] = Null
  BY <1>4, <1>5, MergeLeft, MergeRight
<1>8. \A key \in DOMAIN block :
         /\ block[key].is \in BLOCK_VALIDATORS[key]
         /\ key \in DOMAIN BLOCK_NORMALIZERS
         /\ block[key].is \in BLOCK_NORMALIZERS[key]
  <2>1. \A key \in present : /\ block[key].is \in BLOCK_VALIDATORS[key]
                             /\ key \in DOMAIN BLOCK_NORMALIZERS
                             /\ block[key].is \in BLOCK_NORMALIZERS[key]
    BY <1>1, ForkValidatorsOf, BlockValidators, BlockNormalizers
       DEF ForkKeys, LondonKeys, ShanghaiKeys, CancunKeys, Ints, AnyBytes,
           Lists, AnyKind
  <2>2. \A key \in IntKeys \cup HashKeys \cup {"nonce", "coinbase", "uncles"} :
           /\ block[key].is \in BLOCK_VALIDATORS[key]
           /\ key \in DOMAIN BLOCK_NORMALIZERS
           /\ block[key].is \in BLOCK_NORMALIZERS[key]
    BY BlockValidators, BlockNormalizers DEF Ints, AnyBytes, AnyKind
  <2> QED
    BY <2>1, <2>2
<1>9. validate_block(block)
  <2>1. \A key \in ForkKeys \ present : filled[key].is \in BLOCK_VALIDATORS[key]
    BY <1>7, BlockValidators DEF Null, Some, AnyKind
  <2>2. \A key \in DOMAIN filled : filled[key].is \in BLOCK_VALIDATORS[key]
    BY <1>6, <1>7, <1>8, <2>1, BlockValidators
  <2> QED
    BY <1>3, <1>6, <2>2 DEF validate_block, validate_dict
<1>10. cleaned = block
  <2>1. { key \in DOMAIN filled : filled[key] # Null } = DOMAIN block
    <3>1. DOMAIN block \subseteq DOMAIN filled
      BY <1>1, <1>6, BlockValidators
    <3>2. \A key \in DOMAIN filled : key \in DOMAIN block \/ key \in ForkKeys \ present
      BY <1>6, BlockValidators
    <3> HIDE DEF blank, filled
    <3> QED
      BY <1>4, <1>7, <3>1, <3>2
  <2>2. cleaned = [key \in DOMAIN block |-> filled[key]]
    BY <2>1 DEF _remove_fork_specific_fields_if_none
  <2>3. cleaned = [key \in DOMAIN block |-> block[key]]
    BY <1>7, <2>2
  <2> QED
    BY <2>3
<1>11. normalize_dict(cleaned, BLOCK_NORMALIZERS)
  BY <1>8, <1>10 DEF normalize_dict
<1> QED
  BY <1>9, <1>10, <1>11 DEF BlockReturned
=============================================================================

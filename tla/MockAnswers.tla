----------------------------- MODULE MockAnswers -----------------------------
(***************************************************************************)
(* backends/mock/factory.py and serializers.py: the dictionaries that      *)
(* MockBackend answers with.  A transaction of MockBackend is here the set *)
(* of the optional keys it was sent with; all its other contents follow.   *)
(***************************************************************************)
EXTENDS MockHistory, Outbound

DYNAMIC_FEE_TRANSACTION_PARAMS == {"max_fee_per_gas", "max_priority_fee_per_gas"}

(* TRANSACTION_KEYS without the required ones.  The facade refuses others, *)
(* and a gas price next to the parameters of dynamic fees.                 *)
OptionalKeys ==
    {"type", "chain_id", "to", "gas_price", "value", "data", "access_list", "nonce"}
    \cup DYNAMIC_FEE_TRANSACTION_PARAMS

ASSUME SentAssumption ==
    /\ Transactions \subseteq SUBSET OptionalKeys
    /\ \A tx \in Transactions :
          "gas_price" \in tx => DYNAMIC_FEE_TRANSACTION_PARAMS \cap tx = {}

NoFields == [key \in {} |-> Null]

-----------------------------------------------------------------------------
(* create_transaction: the fields of a transaction that was sent with the  *)
(* keys tx.                                                                *)
IsDynamicFee(tx) ==
    DYNAMIC_FEE_TRANSACTION_PARAMS \cap tx # {} \/ "gas_price" \notin tx

(* A wrong one takes any transaction with a gas price for a legacy one.    *)
TypedByFeeOnly(tx) == IsDynamicFee(tx)
TypedFields(tx) == IsDynamicFee(tx) \/ "access_list" \in tx

create_transaction == [tx \in Transactions |->
    [nonce |-> Some("int"), value |-> Some("int"), gas |-> Some("int"),
     r |-> Some("int"), s |-> Some("int"), v |-> Some("bit"),
     from |-> Some("address"), data |-> Some("data"), hash |-> Some("bytes32"),
     to |-> Some(IF "to" \in tx THEN "address" ELSE "empty")]
    ++ Each(IF IsDynamicFee(tx) THEN DYNAMIC_FEE_TRANSACTION_PARAMS
            ELSE {"gas_price"}, Some("int"))
    ++ (IF TypedFields(tx)
        THEN [chain_id |-> Some("int"), access_list |-> Some("access_list")]
        ELSE NoFields)]

(* extract_transaction_type, from the fields.                              *)
TransactionType(fields) ==
    IF "max_fee_per_gas" \in DOMAIN fields THEN 2
    ELSE IF "access_list" \in DOMAIN fields THEN 1 ELSE 0

MockPlace(is_pending) ==
    [block_number |-> IF is_pending THEN Null ELSE Some("int"),
     block_hash |-> IF is_pending THEN Null ELSE Some("bytes32"),
     transaction_index |-> IF is_pending THEN Null ELSE Some("int")]

serialize_full_transaction(tx, is_pending) ==
    LET fields == create_transaction[tx]
        type == TransactionType(fields)
    IN  MockPlace(is_pending)
        ++ [type |-> Of("hex_type", type)]
        ++ (IF type > 0 THEN [y_parity |-> fields["v"]] ELSE NoFields)
        ++ fields ++ [gas_price |-> Some("int")]

(* make_receipt, and what serialize_receipt adds to it.                    *)
make_receipt == [tx \in Transactions |->
    [gas_used |-> Some("int"), cumulative_gas_used |-> Some("int"),
     effective_gas_price |-> Some("int"), logs |-> Some("logs"),
     transaction_hash |-> Some("bytes32"), contract_address |-> Some("address"),
     type |-> Of("hex_type", TransactionType(create_transaction[tx]))]]

serialize_receipt(tx, is_pending) ==
    MockPlace(is_pending)
    ++ [from |-> Some("address"), state_root |-> Some("data"),
        status |-> Of("bit", 0), to |-> create_transaction[tx]["to"]]
    ++ make_receipt[tx]

(* make_genesis_block and make_block_from_parent: only the genesis block   *)
(* has the fields of Cancun.                                               *)
CommonBlockFields ==
    Each({"number", "logs_bloom", "difficulty", "total_difficulty", "size",
          "gas_limit", "gas_used", "timestamp", "base_fee_per_gas"}, Some("int"))
    ++ Each({"hash", "parent_hash", "sha3_uncles", "transactions_root",
             "receipts_root", "state_root", "mix_hash", "extra_data",
             "withdrawals_root"}, Some("bytes32"))
    ++ [nonce |-> Some("bytes8"), coinbase |-> Some("address"),
        uncles |-> Some("bytes32_list"), withdrawals |-> Some("withdrawals")]

GenesisFields ==
    CommonBlockFields
    ++ [parent_beacon_block_root |-> Some("bytes32"),
        blob_gas_used |-> Some("int"), excess_blob_gas |-> Some("int")]

BlockFields(number) == IF number = 0 THEN GenesisFields ELSE CommonBlockFields

-----------------------------------------------------------------------------
(* What get_transaction_by_hash and get_transaction_receipt answer about a *)
(* transaction passes the checks of the facade, has one type, and all the  *)
(* keys that the transaction was sent with; only the chain id of a legacy  *)
(* transaction has no place in an answer.                                  *)
AnswersFor ==
    [tx \in Transactions |-> [is_pending \in BOOLEAN |->
       LET full == serialize_full_transaction(tx, is_pending)
           receipt == serialize_receipt(tx, is_pending)
           left_out == IF full["type"].val = 0 THEN {"chain_id"} ELSE {}
       IN  /\ TransactionReturned(full)
           /\ tx \ left_out \subseteq DOMAIN full
           /\ ReceiptReturned(receipt, << >>)
           /\ receipt["type"] = full["type"]]]

(* Every block, transaction and receipt of MockBackend, mined or pending,  *)
(* passes the outbound checks of the facade and keeps its fields; a        *)
(* transaction is reported with every key it was sent with (the chain id   *)
(* of a legacy transaction excepted), and with one type by all of them.    *)
(* (serialize_block, serialize_full_transaction, serialize_receipt)        *)
MockAnswersReturned ==
    LET all == Append(MinedBlocks, PendingBlock)
        is_pending(b) == b.number = PendingBlock.number
    IN  \A n \in DOMAIN all :
          /\ BlockReturned(BlockFields(all[n].number))
          /\ \A i \in DOMAIN all[n].txs :
                AnswersFor[all[n].txs[i]][is_pending(all[n])]
=============================================================================

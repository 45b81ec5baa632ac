----------------------------- MODULE PyEVMAnswers -----------------------------
(***************************************************************************)
(* backends/pyevm/main.py and serializers.py: what PyEVMBackend answers    *)
(* when it is asked for blocks, transactions and receipts, while           *)
(* transactions of all types are run in the pending block and mined.  The  *)
(* facade's get_block_by_number, get_block_by_hash,                        *)
(* get_transaction_by_hash and get_transaction_receipt pass these answers  *)
(* through the checks of Outbound.                                         *)
(*                                                                         *)
(* A transaction is a record of what its execution by py-evm decides: its  *)
(* hash (a number), its type, whether it creates a contract, the gas it    *)
(* used, how many log entries it wrote, and its status (1 is success).     *)
(***************************************************************************)
EXTENDS Outbound

CONSTANTS
    Forks,              \* the forks that the chain may run
    GasUses,            \* what a transaction may use of the gas
    LogCounts,          \* how many log entries a successful one writes
    MaxSent,            \* bound on the transactions ever sent
    MaxBlocks           \* bound on the blocks mined

ASSUME AnswersAssumption ==
    /\ Forks \subseteq {"berlin", "london", "shanghai", "cancun"}
    /\ GasUses \subseteq Nat \ {0} /\ LogCounts \subseteq Nat
    /\ MaxSent \in Nat /\ MaxBlocks \in Nat

VARIABLES
    fork,               \* the fork whose rules the chain follows
    mined,              \* blocks 1 .. Len(mined): sequences of transactions
    pending,            \* the transactions of the pending block
    sent                \* how many transactions were sent

LEGACY_TX_TYPE == 0
ACCESS_LIST_TX_TYPE == 1
DYNAMIC_FEE_TX_TYPE == 2
BLOB_TX_TYPE == 3

TypesOf(f) ==
    CASE f = "berlin" -> {LEGACY_TX_TYPE, ACCESS_LIST_TX_TYPE}
      [] f = "cancun" -> LEGACY_TX_TYPE..BLOB_TX_TYPE
      [] OTHER -> LEGACY_TX_TYPE..DYNAMIC_FEE_TX_TYPE

Init == fork \in Forks /\ mined = << >> /\ pending = << >> /\ sent = 0

(* A blob transaction cannot create a contract, and a failed one leaves no *)
(* log entries.                                                            *)
SendTransaction(type, creates, gas, logs, status) ==
    /\ sent < MaxSent
    /\ type \in TypesOf(fork)
    /\ type = BLOB_TX_TYPE => ~creates
    /\ pending' = Append(pending, [hash |-> sent + 1, type |-> type,
                                   creates |-> creates, gas |-> gas,
                                   logs |-> status * logs, status |-> status])
    /\ sent' = sent + 1
    /\ UNCHANGED <<fork, mined>>

MineBlock ==
    /\ Len(mined) < MaxBlocks
    /\ mined' = Append(mined, pending)
    /\ pending' = << >>
    /\ UNCHANGED <<fork, sent>>

ResetToGenesis ==
    /\ mined' = << >> /\ pending' = << >> /\ sent' = 0
    /\ UNCHANGED fork

Next ==
    \/ \E type \in LEGACY_TX_TYPE..BLOB_TX_TYPE, creates \in BOOLEAN,
          gas \in GasUses, logs \in LogCounts, status \in {0, 1} :
            SendTransaction(type, creates, gas, logs, status)
    \/ MineBlock
    \/ ResetToGenesis

Spec == Init /\ [][Next]_<<fork, mined, pending, sent>>

-----------------------------------------------------------------------------
(* Finding things.  The head block is the pending one; block 0 is genesis. *)
HeadNumber == Len(mined) + 1

BlockAt(number) ==
    IF number = HeadNumber THEN pending ELSE IF number = 0 THEN << >> ELSE mined[number]

Places ==
    { place \in (0..HeadNumber) \X (0..MaxSent) :
        place[2] < Len(BlockAt(place[1])) }

(* _get_transaction_by_hash: <<number of the block, index in it>>.         *)
(* A wrong one counts the index from the end.                              *)
FoundFromTheEnd(hash) ==
    CHOOSE place \in Places :
        BlockAt(place[1])[Len(BlockAt(place[1])) - place[2]].hash = hash

_get_transaction_by_hash(hash) ==
    CHOOSE place \in Places :
        BlockAt(place[1])[place[2] + 1].hash = hash

-----------------------------------------------------------------------------
(* Serializing.  A block's hash is told by the block's number.             *)
BlockHash(number) == Of("bytes32", number)
TxHash(tx) == Of("bytes32", tx.hash)

(* Where something is: nowhere yet, while the block is pending.            *)
Place(number, index) ==
    LET is_pending == number = HeadNumber
    IN  [block_hash |-> IF is_pending THEN Null ELSE BlockHash(number),
         block_number |-> IF is_pending THEN Null ELSE Of("int", number),
         transaction_index |-> IF is_pending THEN Null ELSE Of("int", index)]

Recipient(tx) == Some(IF tx.creates THEN "empty" ELSE "address")

CommonParams(tx) ==
    [type |-> Of("type", tx.type), hash |-> TxHash(tx), nonce |-> Some("int"),
     from |-> Some("address"), to |-> Recipient(tx), value |-> Some("int"),
     gas |-> Some("int"), data |-> Some("data"), gas_price |-> Some("int")]

TypedParams == [chain_id |-> Some("int"), access_list |-> Some("access_list")]
DynamicFeeParams ==
    [max_fee_per_gas |-> Some("int"), max_priority_fee_per_gas |-> Some("int")]
BlobParams ==
    [max_fee_per_blob_gas |-> Some("int"),
     blob_versioned_hashes |-> Some("bytes32_list")]

NoParams == [key \in {} |-> Null]

(* A wrong one reports the parity as v only.                               *)
SignedByV(tx) ==
    [v |-> Some(IF tx.type = LEGACY_TX_TYPE THEN "v" ELSE "bit"),
     r |-> Some("int"), s |-> Some("int")]

SignedParams(tx) ==
    [v |-> Some(IF tx.type = LEGACY_TX_TYPE THEN "v" ELSE "bit"),
     r |-> Some("int"), s |-> Some("int")]
    ++ (IF tx.type > LEGACY_TX_TYPE THEN [y_parity |-> Some("bit")] ELSE NoParams)

serialize_transaction(number, index) ==
    LET tx == BlockAt(number)[index + 1]
    IN  CommonParams(tx) ++ Place(number, index) ++ SignedParams(tx)
        ++ (IF tx.type > LEGACY_TX_TYPE THEN TypedParams ELSE NoParams)
        ++ (IF tx.type >= DYNAMIC_FEE_TX_TYPE THEN DynamicFeeParams ELSE NoParams)
        ++ (IF tx.type = BLOB_TX_TYPE THEN BlobParams ELSE NoParams)

(* The sums of the first 0 .. Len(s) numbers of s.                         *)
Sums(s) ==
    LET upTo[n \in 0..Len(s)] == IF n = 0 THEN 0 ELSE upTo[n - 1] + s[n]
    IN  upTo

(* The receipts of py-evm count the gas of the block up to a transaction.  *)
CumulativeGas(block, count) == Sums([i \in 1..Len(block) |-> block[i].gas])[count]

(* A wrong one subtracts what the block's first transaction used.          *)
OriginGasOfFirst(block, index) ==
    IF index = 0 THEN 0 ELSE CumulativeGas(block, 1)

OriginGas(block, index) ==
    IF index = 0 THEN 0 ELSE CumulativeGas(block, index)

serialize_transaction_receipt(number, index) ==
    LET block == BlockAt(number)
        tx == block[index + 1]
        cumulative == CumulativeGas(block, index + 1)
    IN  Place(number, index)
        ++ [contract_address |-> IF tx.creates THEN Some("address") ELSE Null,
            cumulative_gas_used |-> Of("int", cumulative),
            effective_gas_price |-> Some("int"), from |-> Some("address"),
            gas_used |-> Of("int", cumulative - OriginGas(block, index)),
            logs |-> Some("logs"), state_root |-> Some("data"),
            status |-> Of("bit", tx.status), to |-> Recipient(tx),
            transaction_hash |-> TxHash(tx), type |-> Of("type", tx.type)]
        ++ (IF tx.type = BLOB_TX_TYPE
            THEN [blob_gas_used |-> Some("int"), blob_gas_price |-> Some("int")]
            ELSE NoParams)

serialize_log(number, index, log_index) ==
    LET tx == BlockAt(number)[index + 1]
    IN  Place(number, index)
        ++ [type |-> Some("text"), log_index |-> Of("int", log_index),
            transaction_hash |-> TxHash(tx), address |-> Some("address"),
            data |-> Some("data"), topics |-> Some("bytes32_list")]

Logs(number, index) ==
    [k \in 1..BlockAt(number)[index + 1].logs |-> serialize_log(number, index, k - 1)]

ForkFields ==
    (IF fork = "berlin" THEN NoParams
     ELSE [base_fee_per_gas |-> Some("int")])
    ++ (IF fork \in {"berlin", "london"} THEN NoParams
        ELSE [withdrawals |-> Some("withdrawals"),
              withdrawals_root |-> Some("bytes32")])
    ++ (IF fork # "cancun" THEN NoParams
        ELSE [parent_beacon_block_root |-> Some("bytes32"),
              blob_gas_used |-> Some("int"), excess_blob_gas |-> Some("int")])

(* serialize_block without its "transactions" ...                          *)
serialize_block(number) ==
    Each({"logs_bloom", "difficulty", "total_difficulty", "size",
          "gas_limit", "gas_used", "timestamp"}, Some("int"))
    ++ Each({"parent_hash", "sha3_uncles", "transactions_root",
             "receipts_root", "state_root", "mix_hash", "extra_data"},
            Some("bytes32"))
    ++ [number |-> Of("int", number), hash |-> BlockHash(number),
        nonce |-> Some("bytes8"), coinbase |-> Some("address"),
        uncles |-> Some("bytes32_list")]
    ++ ForkFields

(* ... which are hashes, or with full_transaction dictionaries.            *)
TransactionHashes(number) ==
    [i \in DOMAIN BlockAt(number) |-> TxHash(BlockAt(number)[i])]
TransactionObjects(number) ==
    [i \in DOMAIN BlockAt(number) |-> serialize_transaction(number, i - 1)]

-----------------------------------------------------------------------------
Numbers == 0..HeadNumber

(* The exact condition under which a block with full transactions passes:  *)
(* one validator has to accept all of them.                                *)
OneType(number) ==
    \A i, j \in DOMAIN BlockAt(number) : BlockAt(number)[i].type = BlockAt(number)[j].type

(* Whatever was sent, run and mined on any fork, the facade returns the    *)
(* backend's answers: no transaction, receipt, log entry or block with     *)
(* hashes fails the outbound checks or loses a field in them.  A block     *)
(* with full transactions is returned exactly when these have one type;    *)
(* for a block of several types get_block_by_number raises instead (see    *)
(* FullBlocksReturned).                                                    *)
(* (get_transaction_by_hash, get_transaction_receipt, get_block_by_number) *)
AnswersReturned ==
    \A n \in Numbers :
        /\ BlockReturned(serialize_block(n))
        /\ validate_transaction_hashes(TransactionHashes(n))
        /\ validate_transaction_objects(TransactionObjects(n)) <=> OneType(n)
        /\ \A i \in 0..(Len(BlockAt(n)) - 1) :
              /\ TransactionReturned(serialize_transaction(n, i))
              /\ ReceiptReturned(serialize_transaction_receipt(n, i), Logs(n, i))

(* The answers about one transaction agree: the transaction, its receipt   *)
(* and its log entries name the same block and index, at which the block   *)
(* lists its hash; none of them names one while it is pending.             *)
(* (_get_transaction_by_hash, serialize_transaction_receipt, serialize_log)*)
AnswersAgree ==
    \A hash \in 1..sent :
        LET found == _get_transaction_by_hash(hash)
            transaction == serialize_transaction(found[1], found[2])
            receipt == serialize_transaction_receipt(found[1], found[2])
            logs == Logs(found[1], found[2])
            number == transaction["block_number"]
            index == transaction["transaction_index"]
        IN  /\ transaction["hash"].val = hash
            /\ receipt["transaction_hash"].val = hash
            /\ \A key \in {"block_hash", "block_number", "transaction_index"} :
                  /\ receipt[key] = transaction[key]
                  /\ \A k \in DOMAIN logs : logs[k][key] = transaction[key]
                  /\ (transaction[key] = Null) <=> (found[1] = HeadNumber)
            /\ number # Null =>
                  /\ transaction["block_hash"] = serialize_block(number.val)["hash"]
                  /\ TransactionHashes(number.val)[index.val + 1].val = hash

(* The gas of a block's receipts adds up: each receipt has what its own    *)
(* transaction used, and the last one's cumulative gas is their sum.       *)
(* (serialize_transaction_receipt)                                         *)
GasAddsUp ==
    \A n \in Numbers :
        LET block == BlockAt(n)
            used == [i \in 1..Len(block) |->
                       serialize_transaction_receipt(n, i - 1)["gas_used"].val]
        IN  /\ \A i \in 1..Len(block) : used[i] = block[i].gas
            /\ block # << >> =>
                  Sums(used)[Len(used)] =
                    serialize_transaction_receipt(n, Len(block) - 1)
                        ["cumulative_gas_used"].val

(* Every block that can be found is returned with full transactions too:   *)
(* the README has get_block_by_number raise BlockNotFound and nothing      *)
(* else.  (get_block_by_number, validate_block)                            *)
FullBlocksReturned ==
    \A n \in Numbers : validate_transaction_objects(TransactionObjects(n))
=============================================================================

------------------------------ MODULE MCInbound ------------------------------
(***************************************************************************)
(* InboundCalls on bounded inputs.                                         *)
(***************************************************************************)
EXTENDS InboundCalls, SequencesExt

CONSTANTS MaxLogTopics, MaxFilterTopics, t1, t2

-----------------------------------------------------------------------------
(* Topics.                                                                 *)
Positions == Wildcards \cup BoundedSeq(Wildcards, 2)
MCLogTopics == BoundedSeq(Topics, MaxLogTopics)
MCFilterTopics == {None} \cup BoundedSeq(Positions, MaxFilterTopics)

(* Arguments.                                                              *)
Hash == Hex(64, 0)
BareHash == Text(TRUE, FALSE, 64, 0, "none")
Account(sum) == [Hex(40, 0) EXCEPT !.sum = sum]
Empty == Text(TRUE, FALSE, 0, 0, "none")
NotHex == Text(FALSE, FALSE, 2, 0, "none")

Accounts == {Account(sum) : sum \in {"none", "right", "wrong"}}
Numbers == {Number(n) : n \in {-1, 0, 3, 4, 255, 256, MAX_TIMESTAMP - 1,
              MAX_TIMESTAMP, UINT64_MAX, UINT64_MAX + 1,
              UINT256_MAX, UINT256_MAX + 1}}
Texts == Accounts \cup {Hash, BareHash, Empty, NotHex, Tag("latest"),
            Hex(0, 0), Hex(1, 1), Hex(2, 4), Hex(66, UINT256_MAX + 1),
            Text(TRUE, FALSE, 1, 1, "none")}
ByteStrings == {Bytes(n) : n \in {0, 2, 20, 32}}
Singles == Numbers \cup Texts \cup ByteStrings
           \cup {NoneValue, Bool, Float, List(<< >>), Dict(<< >>)}

Entry(address, storage_keys) ==
    [address |-> address, storage_keys |-> storage_keys]
AccessListEntries ==
    { Dict(entry) :
        entry \in { Entry(a, k) : a \in Accounts \cup {Bytes(20)},
                                  k \in {List(<<Hash>>), List(<< >>),
                                         List(<<NotHex>>), NoneValue} }
                  \cup { [address |-> Account("none")], << >>,
                         [address |-> Account("none"), more |-> Hash,
                          storage_keys |-> List(<<BareHash>>)] } }
    \cup { List(<<Account("none"), List(<<Hash>>)>>), List(<< >>),
           Bytes(2), NotHex, Number(0), NoneValue }
StorageKeys(entry) ==
    IF entry.kind = "dict" THEN Get(entry, "storage_keys") ELSE NoneValue
AccessLists == { List(<<entry>>) : entry \in AccessListEntries }

Required == [from |-> Account("right"), gas |-> Number(3)]
Signature == [r |-> Number(0), s |-> Number(0), v |-> Number(0)]
Fee == "gas_price" :> Number(3)
Extra == {"gas_price", "max_fee_per_gas", "max_priority_fee_per_gas",
          "max_fee_per_blob_gas", "chain_id"}

Transactions ==
    LET Base == {Required, Required @@ Signature}
        Changed == { (key :> value) @@ base :
                       key \in TRANSACTION_KEYS \cup SIGNED_TRANSACTION_KEYS,
                       value \in Singles, base \in Base }
        Listed == { ("access_list" :> list) @@ base :
                       list \in AccessLists, base \in Base }
        Short == { Restrict(Required @@ Signature, keys) :
                       keys \in SUBSET {"from", "gas", "r", "v"} }
        Fees == { [key \in keys |-> Number(3)] @@ base :
                       keys \in SUBSET Extra, base \in Base }
    IN  { Dict(entries) : entries \in Changed \cup Listed \cup Short \cup Fees }
        \cup {NoneValue, Hash}

FilterBlocks ==
    {NoneValue, Number(-1), Number(0), Bool, Hash, Bytes(2)}
    \cup {Tag(name) : name \in BLOCK_NUMBER_META_VALUES}
FilterAddresses ==
    {NoneValue, Hash, Bytes(20), List(<< >>), List(<<Hash>>),
     List(<<Account("right"), Account("none")>>), List(<<Account("wrong")>>)}
    \cup Accounts
FilterTopicArrays ==
    {NoneValue, Hash, List(<< >>), List(<<Hash, BareHash>>),
     List(<<Bytes(32), NoneValue>>), List(<<Account("none")>>), List(<<List(<< >>)>>),
     List(<<Hash, List(<<Hash, NoneValue>>)>>), List(<<List(<<List(<<Hash>>)>>)>>)}

Filters ==
    [from_block : FilterBlocks, to_block : {NoneValue, Number(0), Bytes(2),
                                            Tag("pending"), Tag("finalized")},
     address : FilterAddresses, topics : FilterTopicArrays]

Withdrawal(index, validator_index, address, amount) ==
    Dict([index |-> index, validator_index |-> validator_index,
             address |-> address, amount |-> amount])
Withdrawals ==
    Singles \cup
    { List(<<Withdrawal(Number(0), index, address, Number(4))>>) :
        index \in Singles, address \in Texts \cup ByteStrings }
    \cup { List(<<entry>>) : entry \in {NotHex, Dict(Required)} }

LogEntries ==
    { Dict([type |-> Text(FALSE, FALSE, 2, 0, "none"), log_index |-> Number(0),
            transaction_index |-> place, transaction_hash |-> Bytes(32),
            block_hash |-> block_hash, block_number |-> place,
            address |-> Bytes(20), data |-> Bytes(length),
            topics |-> List([i \in 1..count |-> Bytes(32)])]) :
        place \in {NoneValue, Number(3)}, length \in {0, 2},
        block_hash \in {NoneValue, Bytes(32)}, count \in 0..2 }

MCArguments ==
    [m \in Methods |->
        CASE m \in ValueMethods -> Singles
          [] m \in InternalTypes -> Transactions
          [] m = "filter_params" -> Filters
          [] m = "withdrawals" -> Withdrawals
          [] m = "log_entry" -> LogEntries]

(* These and what they are made of.                                        *)
MCPythonValues ==
    Singles \cup Transactions \cup AccessLists \cup AccessListEntries
    \cup {StorageKeys(entry) : entry \in AccessListEntries}
    \cup Withdrawals \cup {list.items[1] : list \in Withdrawals \ Singles}
    \cup FilterBlocks \cup FilterAddresses \cup FilterTopicArrays
    \cup {List(<<Hash>>), List(<<List(<<Hash>>)>>), List(<<Hash, NoneValue>>)}
=============================================================================

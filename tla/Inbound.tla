------------------------------- MODULE Inbound -------------------------------
(***************************************************************************)
(* validation/inbound.py and normalization/inbound.py: what the facade     *)
(* makes of an argument before a backend sees it.                          *)
(*                                                                         *)
(* A Python value is a record whose kind is its type.  A text is known by  *)
(* whether it is hexadecimal (hex), whether it starts with "0x" (prefix),  *)
(* how many digits follow, the number they denote (n), whether it obeys    *)
(* the EIP-55 checksum (sum: "right", "wrong", or "none" if it has no      *)
(* mixed case), and the block tag it is, if any.  Bytes are known by their *)
(* length.                                                                 *)
(*                                                                         *)
(* A validator is the exception it raises, or Ok.  A normalizer is the     *)
(* value it returns, or the exception it raises as a value.                *)
(***************************************************************************)
EXTENDS Integers, Sequences

NoneValue == [kind |-> "None"]
Bool == [kind |-> "bool"]
Float == [kind |-> "float"]
Number(n) == [kind |-> "int", n |-> n]
Bytes(length) == [kind |-> "bytes", length |-> length]
List(items) == [kind |-> "list", items |-> items]
Dict(entries) == [kind |-> "dict", entries |-> entries]
Text(hex, prefix, digits, n, sum) ==
    [kind |-> "text", hex |-> hex, prefix |-> prefix, digits |-> digits,
     n |-> n, sum |-> sum, tag |-> "none"]
Hex(digits, n) == Text(TRUE, TRUE, digits, n, "none")
Tag(name) == [Text(FALSE, FALSE, 6, 0, "none") EXCEPT !.tag = name]
Raises(error) == [kind |-> "raises", error |-> error]

(* Numbers that lie in the order of the code's bounds.                     *)
UINT8_MAX == 255
MAX_TIMESTAMP == 1000
UINT64_MAX == 2000
UINT256_MAX == 3000

Ok == "ok"
Unless(condition) == IF condition THEN Ok ELSE "ValidationError"
first ++ next == IF first = Ok THEN next ELSE first

(* The block tags.                                                         *)
BLOCK_NUMBER_META_VALUES ==
    {"latest", "earliest", "pending", "safe", "finalized"}

(* The outcome of checks that are made one after the other: the first      *)
(* exception.                                                              *)
Each(outcomes) ==
    LET failed == { i \in DOMAIN outcomes : outcomes[i] # Ok }
    IN  IF failed = {} THEN Ok
        ELSE outcomes[CHOOSE i \in failed : \A j \in failed : i <= j]

-----------------------------------------------------------------------------
(* The predicates of the library eth-utils that the validators use.        *)
IsText(value) == value.kind = "text"
IsInteger(value) == value.kind = "int"
IsListLike(value) == value.kind = "list"
IsEmptyText(value) == IsText(value) /\ ~value.prefix /\ value.digits = 0
is_hex(value) == IsText(value) /\ value.hex /\ ~IsEmptyText(value)
is_hex_address(value) == is_hex(value) /\ value.digits = 40
is_address(value) ==
    \/ is_hex_address(value) /\ value.sum # "wrong"
    \/ value = Bytes(20)

decode_hex(text) ==
    IF text.digits % 2 = 1 THEN Raises("binascii.Error")
    ELSE Bytes(text.digits \div 2)

(* int(text, 16).                                                          *)
NumberOf(text) == IF text.digits = 0 THEN Raises("ValueError") ELSE Number(text.n)

-----------------------------------------------------------------------------
(* Validation of single values.                                            *)

is_32_bytes(value) == value = Bytes(32)
is_32byte_hex_string(value) == is_hex(value) /\ value.digits = 64
IsTopic(value) ==
    value = NoneValue \/ is_32byte_hex_string(value) \/ is_32_bytes(value)

validate_positive_integer(value) == Unless(IsInteger(value) /\ value.n >= 0)
validate_uint(max_val, value) ==
    validate_positive_integer(value) ++ Unless(value.n <= max_val)
validate_32_byte_hex_value(value) == Unless(is_32byte_hex_string(value))
validate_timestamp(value) ==
    validate_positive_integer(value) ++ Unless(value.n < MAX_TIMESTAMP)

validate_block_number(value) ==
    IF value.kind \in {"text", "bytes"}
    THEN Unless(IsText(value) /\ value.tag \in BLOCK_NUMBER_META_VALUES)
    ELSE Unless(IsInteger(value) /\ value.n >= 0)

(* A wrong one takes any 20 hexadecimal bytes.                             *)
AnyHexAddress(value) == Unless(is_hex_address(value))

validate_account(value) ==
    Unless(is_hex_address(value)) ++ Unless(value.sum # "wrong")

(* A wrong one lets the ValueError of int() through.                       *)
SlotWithoutTry(value) ==
    Unless(is_hex(value) /\ value.prefix)
    ++ (IF NumberOf(value).kind = "raises" THEN "ValueError" ELSE Ok)
    ++ validate_uint(UINT256_MAX, NumberOf(value))

validate_inbound_storage_slot(value) ==
    Unless(is_hex(value) /\ value.prefix)
    ++ Unless(NumberOf(value).kind # "raises")
    ++ validate_uint(UINT256_MAX, NumberOf(value))

validate_raw_transaction(value) == Unless(is_hex(value))

validate_transaction_type(value) ==
    Unless(is_hex(value) \/ IsInteger(value))
    ++ Unless(is_hex(value) => value.prefix)
    ++ (IF is_hex(value) /\ NumberOf(value).kind = "raises" THEN "ValueError"
        ELSE Unless(value.n \in 0..3))

-----------------------------------------------------------------------------
(* Validation of filters, transactions and withdrawals.                    *)

(* A topic array may have topic arrays for items, to any depth; here, to a *)
(* depth of three, and a list below those is no item.                      *)
TopicArray(value, IsItem(_)) ==
    IsListLike(value) /\ \A i \in DOMAIN value.items : IsItem(value.items[i])

InnermostArray(value) == TopicArray(value, IsTopic)
InnerItem(value) == IsTopic(value) \/ InnermostArray(value)
InnerArray(value) == TopicArray(value, InnerItem)
OuterItem(value) == IsTopic(value) \/ InnerArray(value)
is_valid_topic_array(value) == TopicArray(value, OuterItem)

OrNone(value, outcome) == IF value = NoneValue THEN Ok ELSE outcome

validate_address_filter(address) ==
    IF IsListLike(address)
    THEN Unless(address.items # << >>)
         ++ Each([i \in DOMAIN address.items |-> validate_account(address.items[i])])
    ELSE IF is_hex_address(address) THEN Ok ELSE validate_account(address)

validate_filter_params(filter) ==
    OrNone(filter.from_block, validate_block_number(filter.from_block))
    ++ OrNone(filter.to_block, validate_block_number(filter.to_block))
    ++ OrNone(filter.address, validate_address_filter(filter.address))
    ++ OrNone(filter.topics, Unless(is_valid_topic_array(filter.topics)))

TRANSACTION_KEYS ==
    {"type", "chain_id", "from", "to", "gas", "gas_price", "max_fee_per_gas",
     "max_priority_fee_per_gas", "value", "data", "access_list", "nonce"}
SIGNED_TRANSACTION_KEYS == {"r", "s", "v"}
UintKeys == {"gas", "gas_price", "max_fee_per_gas", "max_priority_fee_per_gas",
             "value", "nonce"}

AllowedKeys(txn_internal_type) ==
    TRANSACTION_KEYS \cup
    (IF txn_internal_type = "send_signed" THEN SIGNED_TRANSACTION_KEYS ELSE {})

RequiredKeys(txn_internal_type) ==
    CASE txn_internal_type = "send" -> {"from", "gas"}
      [] txn_internal_type = "send_signed" ->
            {"from", "gas"} \cup SIGNED_TRANSACTION_KEYS
      [] txn_internal_type \in {"estimate", "call"} -> {"from"}

MixesFees(entries) ==
    /\ "gas_price" \in DOMAIN entries
    /\ {"max_fee_per_gas", "max_priority_fee_per_gas"} \cap DOMAIN entries # {}

validate_data(data) ==
    Unless(IsText(data))
    ++ Unless(data.hex \/ data.digits = 0)
    ++ Unless(decode_hex(data).kind # "raises")

(* An entry that is no dictionary is refused unless its length is 2.       *)
Length(entry) ==
    IF IsListLike(entry) THEN Len(entry.items)
    ELSE IF entry.kind = "bytes" THEN entry.length
    ELSE entry.digits + (IF entry.prefix THEN 2 ELSE 0)

Get(entry, key) ==
    IF key \in DOMAIN entry.entries THEN entry.entries[key] ELSE NoneValue

validate_access_list_entry(entry) ==
    IF entry.kind \notin {"dict", "list", "bytes", "text"} THEN "TypeError"
    ELSE IF entry.kind # "dict"
    THEN Unless(Length(entry) = 2) ++ "AttributeError"
    ELSE LET storage_keys == Get(entry, "storage_keys")
         IN  Unless(is_hex_address(Get(entry, "address")))
             ++ Unless(IsListLike(storage_keys))
             ++ Unless(\A i \in DOMAIN storage_keys.items :
                          is_32byte_hex_string(storage_keys.items[i]))

_validate_inbound_access_list(access_list) ==
    Unless(IsListLike(access_list))
    ++ Each([i \in DOMAIN access_list.items |->
               validate_access_list_entry(access_list.items[i])])

(* The check of the value of one key, as far as it has one.                *)
validate_value(key, value) ==
    CASE key = "type" -> validate_transaction_type(value)
      [] key = "from" -> validate_account(value)
      [] key = "to" -> IF IsEmptyText(value) THEN Ok ELSE validate_account(value)
      [] key \in UintKeys \cup {"r", "s"} -> validate_uint(UINT256_MAX, value)
      [] key = "v" -> validate_uint(UINT8_MAX, value)
      [] key = "data" -> validate_data(value)
      [] key = "access_list" -> _validate_inbound_access_list(value)
      [] OTHER -> Ok

EarlierKeys == <<"type", "from", "to", "gas", "gas_price",
                 "max_fee_per_gas", "max_priority_fee_per_gas">>
LaterKeys == <<"value", "nonce", "data", "access_list", "r", "s", "v">>

(* The checks of the keys that are there, in their order.                  *)
CheckKeys(keys, entries) ==
    Each([i \in DOMAIN keys |->
             IF keys[i] \in DOMAIN entries
             THEN validate_value(keys[i], entries[keys[i]]) ELSE Ok])

validate_transaction(value, txn_internal_type) ==
    LET entries == value.entries
    IN  Unless(value.kind = "dict")
        ++ Unless(DOMAIN entries \subseteq AllowedKeys(txn_internal_type))
        ++ Unless(RequiredKeys(txn_internal_type) \subseteq DOMAIN entries)
        ++ CheckKeys(EarlierKeys, entries)
        ++ Unless(~MixesFees(entries))
        ++ CheckKeys(LaterKeys, entries)

WithdrawalKeys == {"index", "validator_index", "address", "amount"}

validate_withdrawal(withdrawal) ==
    Unless(withdrawal.kind = "dict")
    ++ Unless(DOMAIN withdrawal.entries = WithdrawalKeys)
    ++ Unless(\A key \in WithdrawalKeys \ {"address"} :
                 validate_uint(UINT64_MAX, withdrawal.entries[key]) = Ok)
    ++ Unless(is_address(withdrawal.entries["address"]))

validate_inbound_withdrawals(withdrawals_list) ==
    IF withdrawals_list.kind \in {"None", "bool", "int", "float"} THEN "TypeError"
    ELSE Unless(IsListLike(withdrawals_list))
         ++ Unless(withdrawals_list.items # << >>)
         ++ Each([i \in DOMAIN withdrawals_list.items |->
                    validate_withdrawal(withdrawals_list.items[i])])

-----------------------------------------------------------------------------
(* Normalization.  The value of a list is that of its items, or of the     *)
(* first one to raise.                                                     *)
Mapped(results) ==
    LET raised == { i \in DOMAIN results : results[i].kind = "raises" }
    IN  IF raised = {} THEN List(results)
        ELSE results[CHOOSE i \in raised : \A j \in raised : i <= j]

to_canonical_address(value) ==
    IF is_hex_address(value) THEN Bytes(20)
    ELSE IF value = Bytes(20) THEN value ELSE Raises("ValueError")

to_empty_or_canonical_address(value) ==
    IF IsEmptyText(value) THEN Bytes(0) ELSE to_canonical_address(value)

to_integer_if_hex(value) == IF is_hex(value) THEN NumberOf(value) ELSE value

normalize_topic(topic) ==
    IF topic = NoneValue \/ is_32_bytes(topic) THEN topic
    ELSE IF is_32byte_hex_string(topic) THEN decode_hex(topic)
    ELSE Raises("TypeError")

normalize_item(item) ==
    IF IsListLike(item)
    THEN Mapped([i \in DOMAIN item.items |-> normalize_topic(item.items[i])])
    ELSE normalize_topic(item)

normalize_topics(topics) ==
    IF topics = NoneValue THEN topics
    ELSE Mapped([i \in DOMAIN topics.items |-> normalize_item(topics.items[i])])

(* A wrong one knows single addresses only.                                *)
OneAddressOnly(address) ==
    IF address = NoneValue \/ is_address(address)
    THEN IF address = NoneValue THEN address ELSE to_canonical_address(address)
    ELSE Raises("TypeError")

normalize_address_filter(address) ==
    IF address = NoneValue THEN address
    ELSE IF is_address(address) THEN to_canonical_address(address)
    ELSE IF IsListLike(address)
    THEN Mapped([i \in DOMAIN address.items |-> to_canonical_address(address.items[i])])
    ELSE Raises("TypeError")

normalize_access_list_entry(entry) ==
    LET storage_keys == entry.entries["storage_keys"].items
    IN  List(<<Bytes(entry.entries["address"].digits \div 2),
               Mapped([k \in DOMAIN storage_keys |-> NumberOf(storage_keys[k])])>>)

_normalize_inbound_access_list(access_list) ==
    Mapped([i \in DOMAIN access_list.items |->
               normalize_access_list_entry(access_list.items[i])])

(* A wrong one takes "" for an address too.                                *)
NoEmptyAddress(key, value) ==
    CASE key \in {"from", "to"} -> to_canonical_address(value)
      [] key = "data" -> decode_hex(value)
      [] key = "access_list" -> _normalize_inbound_access_list(value)
      [] OTHER -> value

TRANSACTION_NORMALIZERS(key, value) ==
    CASE key = "from" -> to_canonical_address(value)
      [] key = "to" -> to_empty_or_canonical_address(value)
      [] key = "data" -> decode_hex(value)
      [] key = "access_list" -> _normalize_inbound_access_list(value)
      [] OTHER -> value

normalize_transaction(value) ==
    LET entries == value.entries
        results == [key \in DOMAIN entries |->
                       TRANSACTION_NORMALIZERS(key, entries[key])]
        raised == { key \in DOMAIN entries : results[key].kind = "raises" }
    IN  IF raised = {} THEN Dict(results)
        ELSE results[CHOOSE key \in raised : TRUE]

(* The methods of DefaultValidator and DefaultNormalizer for one value,    *)
(* and for a transaction that is sent, sent signed, called or estimated.   *)
InternalTypes == {"send", "send_signed", "call", "estimate"}

validate_inbound(method, value) ==
    CASE method = "account" -> validate_account(value)
      [] method \in {"block_hash", "transaction_hash", "private_key"} ->
            validate_32_byte_hex_value(value)
      [] method = "block_number" -> validate_block_number(value)
      [] method = "filter_id" -> validate_positive_integer(value)
      [] method = "timestamp" -> validate_timestamp(value)
      [] method = "storage_slot" -> validate_inbound_storage_slot(value)
      [] method = "raw_transaction" -> validate_raw_transaction(value)
      [] method \in InternalTypes -> validate_transaction(value, method)

normalize_inbound(method, value) ==
    CASE method = "account" -> to_canonical_address(value)
      [] method \in {"block_hash", "transaction_hash", "private_key",
                     "raw_transaction"} -> decode_hex(value)
      [] method \in {"block_number", "filter_id", "timestamp"} -> value
      [] method = "storage_slot" -> to_integer_if_hex(value)
      [] method \in InternalTypes -> normalize_transaction(value)

-----------------------------------------------------------------------------
(* Log entries, which the backend gives the facade in the canonical form,  *)
(* the facade turns into the normal one (normalization/outbound.py), and   *)
(* back again before it feeds a filter.                                    *)
encode_hex(value) ==
    IF value.kind = "bytes" THEN Hex(2 * value.length, 0)
    ELSE Raises("TypeError")

OutboundLogValue(key, value) ==
    CASE key \in {"transaction_hash", "data"} -> encode_hex(value)
      [] key \in {"block_hash", "transaction_index"} ->
            IF value.kind = "bytes" THEN encode_hex(value) ELSE value
      [] key = "address" -> [Hex(40, 0) EXCEPT !.sum = "right"]
      [] key = "topics" ->
            Mapped([i \in DOMAIN value.items |-> encode_hex(value.items[i])])
      [] OTHER -> value

DecodeIfText(value) == IF IsText(value) THEN decode_hex(value) ELSE Raises("TypeError")

(* A wrong one expects every entry to have a block.                        *)
MinedLogValue(key, value) ==
    CASE key \in {"transaction_hash", "data", "block_hash"} -> DecodeIfText(value)
      [] key = "address" -> to_canonical_address(value)
      [] key = "topics" ->
            Mapped([i \in DOMAIN value.items |-> DecodeIfText(value.items[i])])
      [] OTHER -> value

LOG_ENTRY_NORMALIZERS(key, value) ==
    CASE key \in {"transaction_hash", "data"} -> DecodeIfText(value)
      [] key = "block_hash" ->
            IF value.kind \in {"text", "bytes"} THEN DecodeIfText(value) ELSE value
      [] key = "address" -> to_canonical_address(value)
      [] key = "topics" ->
            Mapped([i \in DOMAIN value.items |-> DecodeIfText(value.items[i])])
      [] OTHER -> value

-----------------------------------------------------------------------------
(* The conversions that utils/filters.py refuses with ValueError when it   *)
(* matches a log entry against a normalized filter.                        *)
IsFlatTopicArray(value) ==
    /\ IsListLike(value)
    /\ \A i \in DOMAIN value.items :
          value.items[i] \in {NoneValue, Bytes(32)}

is_valid_with_nested_topic_array(value) ==
    /\ IsListLike(value) /\ value.items # << >>
    /\ \A i \in DOMAIN value.items :
          \/ IsFlatTopicArray(value.items[i])
          \/ value.items[i] \in {NoneValue, Bytes(32)}

TopicsRecognized(topics) ==
    \/ topics = NoneValue
    \/ IsFlatTopicArray(topics)
    \/ is_valid_with_nested_topic_array(topics)

BlockRecognized(block) ==
    \/ block = NoneValue
    \/ IsText(block) /\ block.tag \in {"latest", "earliest", "pending"}
    \/ IsInteger(block)

AddressRecognized(address) ==
    address = NoneValue \/ IsListLike(address) \/ is_address(address)
=============================================================================

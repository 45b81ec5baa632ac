----------------------------- MODULE InboundCalls -----------------------------
(***************************************************************************)
(* What callers hand in.  A behaviour is about one of                      *)
(*   - the way of a transaction through the pool (TransactionTypes),       *)
(*   - the topics of a log entry and of a filter (LogMatch),               *)
(*   - one argument of a call of the facade (Inbound).                     *)
(***************************************************************************)
EXTENDS TransactionTypes, LogMatch

CONSTANTS
    LogTopics, FilterTopics,    \* the topics of a log entry, and of a filter
    PythonValues,               \* the values that arguments are made of
    Arguments                   \* by method, what callers may hand in

(* The methods of DefaultValidator for a single value, a transaction, a    *)
(* filter and withdrawals, and the way of a log entry through the facade.  *)
ValueMethods ==
    {"account", "block_hash", "transaction_hash", "private_key", "block_number",
     "filter_id", "timestamp", "storage_slot", "raw_transaction"}

Methods == ValueMethods \cup InternalTypes
           \cup {"filter_params", "withdrawals", "log_entry"}

Wildcards == Topics \cup {None}

ASSUME LogsAssumption ==
    /\ LogTopics \subseteq Seq(Topics)
    /\ FilterTopics \subseteq {None} \cup Seq(Wildcards \cup Seq(Wildcards))

(* Values of Python, made of values.                                       *)
ArePythonValues(values) ==
    \A value \in values :
        /\ value.kind \in {"None", "bool", "float", "int", "bytes", "text",
                            "list", "dict"}
        /\ value.kind = "int" => value.n \in Int
        /\ value.kind = "bytes" => value.length \in Nat
        /\ value.kind = "text" =>
              /\ value.digits \in Nat /\ value.n \in Nat
              /\ value.tag \in BLOCK_NUMBER_META_VALUES \cup {"none"}
        /\ value.kind = "list" => value.items \in Seq(values)
        /\ value.kind = "dict" =>
              \A key \in DOMAIN value.entries : value.entries[key] \in values

ASSUME ValuesAssumption == ArePythonValues(PythonValues)

(* The log entries that a backend hands to the facade.                     *)
RawLogEntries ==
    [kind : {"dict"},
     entries : [type : {Text(FALSE, FALSE, 2, 0, "none")},
                log_index : [kind : {"int"}, n : Nat],
                transaction_index : {NoneValue} \cup [kind : {"int"}, n : Nat],
                transaction_hash : {Bytes(32)},
                block_hash : {NoneValue, Bytes(32)},
                block_number : {NoneValue} \cup [kind : {"int"}, n : Nat],
                address : {Bytes(20)},
                data : [kind : {"bytes"}, length : Nat],
                topics : [kind : {"list"}, items : Seq({Bytes(32)})]]]

(* Topic arrays nest as deep as is_valid_topic_array of Inbound follows.   *)
NestAtMostThreeDeep(topics) ==
    IsListLike(topics) => \A i \in DOMAIN topics.items :
        LET outer == topics.items[i]
        IN  IsListLike(outer) => \A j \in DOMAIN outer.items :
                LET inner == outer.items[j]
                IN  IsListLike(inner) => \A k \in DOMAIN inner.items :
                        ~IsListLike(inner.items[k])

ASSUME ArgumentsAssumption ==
    /\ \A m \in ValueMethods \cup InternalTypes \cup {"withdrawals"} :
          Arguments[m] \subseteq PythonValues
    /\ UNION { {filter.from_block, filter.to_block, filter.address, filter.topics} :
                  filter \in Arguments["filter_params"] } \subseteq PythonValues
    /\ \A filter \in Arguments["filter_params"] : NestAtMostThreeDeep(filter.topics)
    /\ Arguments["log_entry"] \subseteq RawLogEntries

VARIABLES
    log_topics, filter_topics,
    method, argument            \* the normalizer and validator at work

topicVars == <<log_topics, filter_topics>>
argumentVars == <<method, argument>>

-----------------------------------------------------------------------------
InboundInit ==
    /\ Init
    /\ log_topics = << >> /\ filter_topics = None
    /\ method = "none" /\ argument = NoneValue

UsePool ==
    /\ method \in {"none", "pool"}
    /\ Next
    /\ method' = "pool"
    /\ UNCHANGED <<topicVars, argument>>

PickTopics ==
    /\ method = "none"
    /\ log_topics' \in LogTopics
    /\ filter_topics' \in FilterTopics
    /\ method' = "topics"
    /\ UNCHANGED <<tx, pending, argument>>

PickArgument(m) ==
    /\ method = "none"
    /\ method' = m
    /\ argument' \in Arguments[m]
    /\ UNCHANGED <<tx, pending, topicVars>>

InboundNext == UsePool \/ PickTopics \/ \E m \in Methods : PickArgument(m)

InboundSpec ==
    InboundInit /\ [][InboundNext]_<<tx, pending, topicVars, argumentVars>>

-----------------------------------------------------------------------------
(* Position i of the filter accepts the topic.                             *)
Accepts(position, topic) ==
    IF position \in Wildcards THEN position \in {None, topic}
    ELSE \E i \in DOMAIN position : position[i] \in {None, topic}

(* A log entry matches iff it has a topic for each position of the filter  *)
(* and that position accepts it: trying all the combinations of the        *)
(* alternatives comes to the same.  (check_if_topics_match)                *)
TopicsMatchPositionwise ==
    check_if_topics_match(log_topics, filter_topics)
      <=> \/ filter_topics = None
          \/ /\ Len(filter_topics) <= Len(log_topics)
             /\ \A i \in DOMAIN filter_topics :
                   Accepts(filter_topics[i], log_topics[i])

-----------------------------------------------------------------------------
Outcome ==
    CASE method = "filter_params" -> validate_filter_params(argument)
      [] method = "withdrawals" -> validate_inbound_withdrawals(argument)
      [] OTHER -> validate_inbound(method, argument)

IsNumber(value) == value.kind = "int" /\ value.n >= 0

(* The canonical formats of the README.                                    *)
CanonicalAccessList(list) ==
    \A i \in DOMAIN list.items :
        LET entry == list.items[i].items
        IN  /\ entry[1] = Bytes(20)
            /\ \A k \in DOMAIN entry[2].items : IsNumber(entry[2].items[k])

CanonicalValue(key, value) ==
    CASE key = "from" -> value = Bytes(20)
      [] key = "to" -> value \in {Bytes(0), Bytes(20)}
      [] key = "data" -> value.kind = "bytes"
      [] key = "access_list" -> CanonicalAccessList(value)
      [] key = "type" -> TRUE
      [] OTHER -> IsNumber(value)

Canonical(value) ==
    CASE method = "account" -> value = Bytes(20)
      [] method \in {"block_hash", "transaction_hash", "private_key"} ->
            value = Bytes(32)
      [] method = "block_number" ->
            \/ IsNumber(value)
            \/ IsText(value) /\ value.tag \in BLOCK_NUMBER_META_VALUES
      [] method \in {"filter_id", "timestamp", "storage_slot"} -> IsNumber(value)
      [] method = "raw_transaction" -> value.kind = "bytes"
      [] method \in InternalTypes ->
            /\ value.kind = "dict"
            /\ \A key \in DOMAIN value.entries :
                  CanonicalValue(key, value.entries[key])

(* What validation lets through and normalization does not make canonical. *)
SlipsThrough ==
    \/ method = "raw_transaction" /\ argument.digits % 2 = 1
    \/ /\ method \in InternalTypes
       /\ "chain_id" \in DOMAIN argument.entries
       /\ ~IsNumber(argument.entries["chain_id"])

(* "All inputs are first validated and then normalized to a canonical      *)
(* format": whatever a validator of inbound.py accepts, the normalizer of  *)
(* the other inbound.py turns into the canonical form, but for raw         *)
(* transactions with half a byte and chain ids, which nobody checks.       *)
AcceptedIsCanonical ==
    method \in ValueMethods \cup InternalTypes =>
        (Outcome = Ok =>
            (Canonical(normalize_inbound(method, argument)) <=> ~SlipsThrough))

(* The arguments at which a validator stumbles itself.                     *)
Stumbles ==
    \/ /\ method = "withdrawals"
       /\ argument.kind \in {"None", "bool", "int", "float"}
    \/ /\ method \in InternalTypes
       /\ LET entries == argument.entries
          IN  \/ /\ "type" \in DOMAIN entries
                 /\ is_hex(entries["type"]) /\ entries["type"].digits = 0
              \/ /\ "access_list" \in DOMAIN entries
                 /\ \E i \in DOMAIN entries["access_list"].items :
                       entries["access_list"].items[i].kind # "dict"

(* An argument is refused with ValidationError and with no other           *)
(* exception, except for withdrawals that are no list, the transaction     *)
(* type "0x", and access lists with an entry that is no dictionary.        *)
RefusedWithValidationError ==
    method \in ValueMethods \cup InternalTypes \cup {"filter_params", "withdrawals"} =>
        (Outcome \in {Ok, "ValidationError"} \/ Stumbles)

WrongChecksum(value) == is_hex_address(value) /\ value.sum = "wrong"

NestedTwice(topics) ==
    /\ IsListLike(topics)
    /\ \E i \in DOMAIN topics.items :
          /\ IsListLike(topics.items[i])
          /\ \E j \in DOMAIN topics.items[i].items :
                IsListLike(topics.items[i].items[j])

(* A filter that was accepted can be normalized and matched against any    *)
(* log entry, unless it has the tags "safe" or "finalized", topics nested  *)
(* twice, or one address with a wrong checksum: then it raises TypeError   *)
(* at once, or ValueError from inside whatever call feeds the filter next. *)
(* (validate_filter_params, normalize_filter_params, check_if_log_matches) *)
AcceptedFilterMatches ==
    method = "filter_params" /\ Outcome = Ok =>
        LET OnlyTag(value) == IsText(value) /\ value.tag \in {"safe", "finalized"}
        IN  (/\ BlockRecognized(argument.from_block)
             /\ BlockRecognized(argument.to_block)
             /\ AddressRecognized(normalize_address_filter(argument.address))
             /\ TopicsRecognized(normalize_topics(argument.topics)))
            <=> ~(\/ OnlyTag(argument.from_block) \/ OnlyTag(argument.to_block)
                  \/ WrongChecksum(argument.address)
                  \/ NestedTwice(argument.topics))

(* An address in mixed case with a wrong checksum goes no further than the *)
(* facade, except inside an access list: validation or, for the address of *)
(* a filter, normalization raises.  (validate_account)                     *)
WrongChecksumRefused ==
    method \in Methods \ {"log_entry"} /\ Outcome = Ok =>
        /\ method = "account" => ~WrongChecksum(argument)
        /\ method \in InternalTypes =>
              \A key \in {"from", "to"} \cap DOMAIN argument.entries :
                  ~WrongChecksum(argument.entries[key])
        /\ method = "filter_params" =>
              LET address == argument.address
              IN  /\ WrongChecksum(address) =>
                        normalize_address_filter(address).kind = "raises"
                  /\ IsListLike(address) =>
                        \A i \in DOMAIN address.items :
                            ~WrongChecksum(address.items[i])
        /\ method = "withdrawals" =>
              \A i \in DOMAIN argument.items :
                  ~WrongChecksum(argument.items[i].entries["address"])

(* A log entry comes back from the normal format as the backend gave it,   *)
(* for a pending entry without a block as for a mined one: what a filter   *)
(* stores is what the backend says.  (normalize_log_entry, in and out)     *)
LogEntriesSurviveFacade ==
    method = "log_entry" =>
        \A key \in DOMAIN argument.entries :
            LOG_ENTRY_NORMALIZERS(key,
                OutboundLogValue(key, argument.entries[key]))
              = argument.entries[key]
=============================================================================

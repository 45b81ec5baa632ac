-------------------------- MODULE InboundCalls_proofs --------------------------
(***************************************************************************)
(* Theorems about InboundCalls and TransactionTypes and their proofs: the  *)
(* way of a transaction through the pool ends where it began, for any set  *)
(* of optional keys; and what becomes of an argument, for any arguments.   *)
(***************************************************************************)
EXTENDS InboundCalls, SequenceTheorems, NaturalsInduction, WellFoundedInduction,
        TLAPS

-----------------------------------------------------------------------------
(* The pool.                                                               *)

(* The values of a dictionary: where they come from.                       *)
Sources == {"user", "sent", "popped"}

(* A transaction as the chain runs it: of the types that the pool takes,   *)
(* with the fields of its type and a v of 8 bits.                          *)
Runnable(transaction) ==
    \E type \in 0..2, v \in 0..UINT8_MAX :
        \E fields \in [FieldsOf(type) -> Sources] :
            transaction = [type |-> type, fields |-> fields, v |-> v]

Stored(transaction) == _clean_pending_transaction(serialize_transaction(transaction))

(* What a pool entry has kept of the transaction.                          *)
Kept(entry) == extract_valid_transaction_params(entry)

-----------------------------------------------------------------------------
(* The types' fields, spelled out.                                         *)
LEMMA FieldsOfTypes ==
    /\ FieldsOf(0) = {"nonce", "gas_price", "gas", "to", "value", "data"}
    /\ FieldsOf(1) = {"nonce", "gas_price", "gas", "to", "value", "data",
                      "chain_id", "access_list"}
    /\ FieldsOf(2) = {"nonce", "gas", "to", "value", "data", "chain_id",
                      "access_list", "max_fee_per_gas", "max_priority_fee_per_gas"}
<1>1. FieldsOf(0) = LegacyFields
  BY DEF FieldsOf
<1>2. FieldsOf(1) = AccessListFields
  BY DEF FieldsOf
<1>3. FieldsOf(2) = DynamicFeeFields
  BY DEF FieldsOf
<1> QED
  BY <1>1, <1>2, <1>3 DEF LegacyFields, AccessListFields, DynamicFeeFields,
     DYNAMIC_FEE_TRANSACTION_PARAMS

(* The pool keeps the fields of the transaction and its sender; the gas    *)
(* price that the serializer adds to a dynamic fee transaction goes again, *)
(* and hash and type do not come back out.                                 *)
LEMMA KeptFields ==
    ASSUME NEW type \in 0..2, NEW fields \in [FieldsOf(type) -> Sources], NEW v
    PROVE  LET kept == Kept(Stored([type |-> type, fields |-> fields, v |-> v]))
           IN  kept = [key \in FieldsOf(type) \cup {"from"} |->
                         IF key = "from" THEN "sent" ELSE fields[key]]
<1> DEFINE entry == serialize_transaction([type |-> type, fields |-> fields, v |-> v])
<1>1. entry = [key \in FieldsOf(type) \cup {"gas_price", "type", "from", "hash"} |->
                 IF key \in FieldsOf(type) THEN fields[key]
                 ELSE IF key = "gas_price" THEN fields["max_fee_per_gas"] ELSE "sent"]
  BY DEF serialize_transaction
<1> HIDE DEF entry
<1>2. DOMAIN entry = FieldsOf(type) \cup {"gas_price", "type", "from", "hash"}
  BY <1>1
<1>3. PICK stored : stored = _clean_pending_transaction(entry)
  OBVIOUS
<1>4. /\ DOMAIN stored = DOMAIN entry \ ({"type"} \cup
            (IF "max_fee_per_gas" \in DOMAIN entry THEN {"gas_price"} ELSE {}))
      /\ \A key \in DOMAIN stored : stored[key] = entry[key]
  BY <1>3 DEF _clean_pending_transaction, Restrict
<1>5. PICK kept : kept = extract_valid_transaction_params(stored)
  OBVIOUS
<1>6. /\ kept = [key \in DOMAIN kept |-> kept[key]]
      /\ DOMAIN kept = DOMAIN stored \cap VALID_TRANSACTION_PARAMS
      /\ \A key \in DOMAIN kept : kept[key] = stored[key]
  BY <1>5 DEF extract_valid_transaction_params, Restrict
<1>7. VALID_TRANSACTION_PARAMS =
        {"max_fee_per_gas", "max_priority_fee_per_gas", "type", "chain_id", "from",
         "to", "gas", "gas_price", "value", "data", "access_list", "nonce"}
  BY DEF VALID_TRANSACTION_PARAMS, TRANSACTION_KEYS, DYNAMIC_FEE_TRANSACTION_PARAMS
<1>8. DOMAIN kept = FieldsOf(type) \cup {"from"}
  <2>1. CASE type = 0
    BY <1>2, <1>4, <1>6, <1>7, <2>1, FieldsOfTypes
  <2>2. CASE type = 1
    BY <1>2, <1>4, <1>6, <1>7, <2>2, FieldsOfTypes
  <2>3. CASE type = 2
    BY <1>2, <1>4, <1>6, <1>7, <2>3, FieldsOfTypes
  <2> QED
    BY <2>1, <2>2, <2>3
<1>9. "from" \notin FieldsOf(type)
  BY FieldsOfTypes
<1>10. \A key \in DOMAIN kept :
         kept[key] = IF key = "from" THEN "sent" ELSE fields[key]
  BY <1>1, <1>4, <1>6, <1>8, <1>9
<1>11. kept = Kept(Stored([type |-> type, fields |-> fields, v |-> v]))
  BY <1>3, <1>5 DEF Kept, Stored, entry
<1> QED
  BY <1>6, <1>8, <1>10, <1>11

(* Filling up what came out of the pool adds nothing: the transaction has  *)
(* all fields of its type already, and its type follows from them.         *)
LEMMA FillingAddsNothing ==
    ASSUME NEW type \in 0..2, NEW fields \in [FieldsOf(type) -> Sources],
           NEW kept, kept = [key \in FieldsOf(type) \cup {"from"} |->
                               IF key = "from" THEN "sent" ELSE fields[key]]
    PROVE  /\ _normalize_transaction(kept, "popped") = fields
           /\ TypeFor(fields) = type
<1> DEFINE keys == DOMAIN kept
<1> DEFINE fees == DYNAMIC_FEE_TRANSACTION_PARAMS \cap keys
<1> DEFINE dynamic == fees # {} \/ "gas_price" \notin keys
<1> DEFINE typed == dynamic \/ "access_list" \in keys
<1> DEFINE added == {"nonce", "data", "value", "to"}
                 \cup (IF dynamic /\ fees = {}
                       THEN DYNAMIC_FEE_TRANSACTION_PARAMS ELSE {})
                 \cup (IF "max_priority_fee_per_gas" \in fees
                       THEN {"max_fee_per_gas"} ELSE {})
                 \cup (IF typed THEN {"access_list", "chain_id"} ELSE {})
<1> DEFINE rest == keys \ {"from", "type"}
<1>1. _normalize_transaction(kept, "popped")
        = [key \in rest \cup added |-> IF key \in rest THEN kept[key] ELSE "popped"]
  BY DEF _normalize_transaction
<1>2. keys = FieldsOf(type) \cup {"from"}
  OBVIOUS
<1>3. \A key \in FieldsOf(type) :
         key # "from" /\ key # "type" /\ kept[key] = fields[key]
  BY FieldsOfTypes
<1> HIDE DEF keys
<1>4. rest = FieldsOf(type)
  BY <1>2, <1>3
<1>5. added \subseteq FieldsOf(type)
  <2>1. CASE type = 0
    <3>1. fees = {} /\ ~dynamic /\ ~typed
      BY <1>2, <2>1, FieldsOfTypes DEF DYNAMIC_FEE_TRANSACTION_PARAMS
    <3> QED
      BY <2>1, <3>1, FieldsOfTypes
  <2>2. CASE type = 1
    <3>1. fees = {} /\ ~dynamic
      BY <1>2, <2>2, FieldsOfTypes DEF DYNAMIC_FEE_TRANSACTION_PARAMS
    <3> QED
      BY <2>2, <3>1, FieldsOfTypes
  <2>3. CASE type = 2
    BY <2>3, FieldsOfTypes DEF DYNAMIC_FEE_TRANSACTION_PARAMS
  <2> QED
    BY <2>1, <2>2, <2>3
<1> HIDE DEF added, rest
<1>6. _normalize_transaction(kept, "popped")
        = [key \in FieldsOf(type) |-> fields[key]]
  BY <1>1, <1>3, <1>4, <1>5
<1>7. TypeFor(fields) = type
  <2>1. CASE type = 0
    BY <2>1, FieldsOfTypes DEF TypeFor, DYNAMIC_FEE_TRANSACTION_PARAMS
  <2>2. CASE type = 1
    BY <2>2, FieldsOfTypes DEF TypeFor
  <2>3. CASE type = 2
    BY <2>3, FieldsOfTypes DEF TypeFor, DYNAMIC_FEE_TRANSACTION_PARAMS
  <2> QED
    BY <2>1, <2>2, <2>3
<1> QED
  BY <1>6, <1>7

(* What came out of the pool passes the validator of signed transactions.  *)
LEMMA KeptIsValid ==
    ASSUME NEW type \in 0..2, NEW v \in 0..UINT8_MAX, NEW kept,
           DOMAIN kept = FieldsOf(type) \cup {"from"}
    PROVE  validate_signed_keys(kept, v)
<1>1. v <= UINT8_MAX
  BY DEF UINT8_MAX
<1>2. DOMAIN kept \subseteq TRANSACTION_KEYS
  BY FieldsOfTypes DEF TRANSACTION_KEYS, DYNAMIC_FEE_TRANSACTION_PARAMS
<1>3. RequiredKeys("send") \subseteq DOMAIN kept
  <2>1. RequiredKeys("send") = {"from", "gas"}
    BY DEF RequiredKeys
  <2> QED
    BY <2>1, FieldsOfTypes
<1>4. ~MixesFees(kept)
  BY FieldsOfTypes DEF MixesFees, DYNAMIC_FEE_TRANSACTION_PARAMS
<1> QED
  BY <1>1, <1>2, <1>3, <1>4 DEF validate_signed_keys, validate_keys

-----------------------------------------------------------------------------
(* The pool's entry is that of the transaction that was run.               *)
PoolInv == pending # Nothing => Runnable(tx) /\ pending = Stored(tx)

(* A transaction that could be created has the fields of its type.         *)
LEMMA SignedIsRunnable ==
    ASSUME NEW keys, LET normalized == _normalize_transaction(
                             [key \in keys \cup {"from"} |-> "user"], "sent")
                     IN  Creates(normalized)
    PROVE  Runnable(Signed(_normalize_transaction(
                             [key \in keys \cup {"from"} |-> "user"], "sent")))
<1> DEFINE given == [key \in keys \cup {"from"} |-> "user"]
<1>1. PICK fields : fields = _normalize_transaction(given, "sent")
  OBVIOUS
<1>2. fields \in [DOMAIN fields -> Sources]
  <2>1. \A key \in DOMAIN given : given[key] \in Sources
    BY DEF Sources
  <2> HIDE DEF given
  <2>2. "sent" \in Sources
    BY DEF Sources
  <2> QED
    BY <1>1, <2>1, <2>2 DEF _normalize_transaction
<1>3. PICK type \in 0..2 : type = TypeFor(fields)
  BY DEF TypeFor
<1>4. DOMAIN fields = FieldsOf(type)
  BY <1>1, <1>3 DEF Creates
<1>5. PICK v \in 0..UINT8_MAX : v = (IF type = 0 THEN 27 ELSE 0)
  BY DEF UINT8_MAX
<1>6. Signed(fields) = [type |-> type, fields |-> fields, v |-> v]
  BY <1>3, <1>5 DEF Signed
<1> QED
  BY <1>1, <1>2, <1>4, <1>6 DEF Runnable

(* Every step keeps the pool's entry in line with the transaction.         *)
LEMMA PoolStep ==
    ASSUME RawTypes \subseteq 0..2, RawVs \subseteq 0..UINT8_MAX,
           PoolInv, [Next]_<<tx, pending>>
    PROVE  PoolInv'
<1>1. ASSUME NEW keys \in SUBSET OptionalKeys, SendTransaction(keys)
      PROVE  PoolInv'
  <2>1. PICK sent : sent = Signed(_normalize_transaction(
                                    [key \in keys \cup {"from"} |-> "user"], "sent"))
    OBVIOUS
  <2>2. Runnable(sent)
    BY <1>1, <2>1, SignedIsRunnable DEF SendTransaction
  <2>3. tx' = sent /\ pending' = Stored(sent)
    BY <1>1, <2>1 DEF SendTransaction, Enter, Stored
  <2> QED
    BY <2>2, <2>3 DEF PoolInv
<1>2. ASSUME NEW type \in RawTypes, NEW v \in RawVs, SendRawTransaction(type, v)
      PROVE  PoolInv'
  <2>1. PICK fields : fields = [key \in FieldsOf(type) |-> "user"]
    OBVIOUS
  <2>2. fields \in [FieldsOf(type) -> Sources]
    BY <2>1 DEF Sources
  <2>3. PICK w \in 0..UINT8_MAX : w = (IF type = 0 THEN v ELSE 0)
    BY DEF UINT8_MAX
  <2>4. PICK sent : sent = [type |-> type, fields |-> fields, v |-> w]
    OBVIOUS
  <2>5. Runnable(sent)
    BY <2>2, <2>4 DEF Runnable
  <2>6. tx' = sent /\ pending' = Stored(sent)
    BY <1>2, <2>1, <2>3, <2>4 DEF SendRawTransaction, Enter, Stored
  <2> QED
    BY <2>5, <2>6 DEF PoolInv
<1>3. CASE MineBlock
  BY <1>3 DEF MineBlock, PoolInv
<1>4. CASE UNCHANGED <<tx, pending>>
  BY <1>4 DEF PoolInv
<1> QED
  BY <1>1, <1>2, <1>3, <1>4 DEF Next

(* The pool's entry of a runnable transaction becomes this transaction.    *)
LEMMA RoundTrip ==
    ASSUME Runnable(tx), pending = Stored(tx)
    PROVE  PopAccepted
<1> PICK type \in 0..2, v \in 0..UINT8_MAX :
        \E fields \in [FieldsOf(type) -> Sources] :
            tx = [type |-> type, fields |-> fields, v |-> v]
  BY DEF Runnable
<1>1. PICK fields \in [FieldsOf(type) -> Sources] :
        tx = [type |-> type, fields |-> fields, v |-> v]
  OBVIOUS
<1>2. PICK kept : kept = Kept(pending)
  OBVIOUS
<1>3. kept = [key \in FieldsOf(type) \cup {"from"} |->
                IF key = "from" THEN "sent" ELSE fields[key]]
  BY <1>1, <1>2, KeptFields, ZenonT(40)
<1>4. DOMAIN kept = FieldsOf(type) \cup {"from"}
  BY <1>3
<1>5. validate_signed_keys(kept, v)
  BY <1>4, KeptIsValid
<1>6. _normalize_transaction(kept, "popped") = fields /\ TypeFor(fields) = type
  BY <1>3, FillingAddsNothing
<1>7. Popped = fields
  BY <1>2, <1>6 DEF Popped, Kept
<1>8. Creates(fields)
  BY <1>6 DEF Creates
<1>9. tx.v = v
  BY <1>1
<1> QED
  BY <1>1, <1>2, <1>5, <1>6, <1>7, <1>8, <1>9 DEF PopAccepted, Kept

(* Whatever optional keys the callers give, a transaction that entered the *)
(* pool can be mined: what comes out of the pool is the signed transaction *)
(* again.  It takes that raw transactions are of the types 0 to 2 and have *)
(* a v of 8 bits; with a larger v the pool gets stuck.                     *)
(* (handle_auto_mining, _add_all_to_pending_block, _normalize_transaction) *)
THEOREM PoolCanBeMined ==
    ASSUME RawTypes \subseteq 0..2, RawVs \subseteq 0..UINT8_MAX
    PROVE  Spec => []PooledCanBeMined
<1>1. Init => PoolInv
  BY DEF Init, PoolInv
<1>2. PoolInv /\ [Next]_<<tx, pending>> => PoolInv'
  BY PoolStep
<1>3. PoolInv => PooledCanBeMined
  BY RoundTrip DEF PoolInv, PooledCanBeMined
<1> QED
  BY <1>1, <1>2, <1>3, PTL DEF Spec

(* The type reported for a pending transaction, which is guessed from its  *)
(* keys, is the one it has on the chain.  (extract_transaction_type)       *)
THEOREM PendingTypeAlwaysReported ==
    ASSUME RawTypes \subseteq 0..2, RawVs \subseteq 0..UINT8_MAX
    PROVE  Spec => []PendingTypeReported
<1>1. Init => PoolInv
  BY DEF Init, PoolInv
<1>2. PoolInv /\ [Next]_<<tx, pending>> => PoolInv'
  BY PoolStep
<1>3. ASSUME Runnable(tx), pending = Stored(tx)
      PROVE  extract_transaction_type(pending) = tx.type
  <2> PICK type \in 0..2, v \in 0..UINT8_MAX :
          \E fields \in [FieldsOf(type) -> Sources] :
              tx = [type |-> type, fields |-> fields, v |-> v]
    BY <1>3 DEF Runnable
  <2>1. PICK fields \in [FieldsOf(type) -> Sources] :
          tx = [type |-> type, fields |-> fields, v |-> v]
    OBVIOUS
  <2>2. PICK kept : kept = Kept(pending)
    OBVIOUS
  <2>3. kept = [key \in FieldsOf(type) \cup {"from"} |->
                  IF key = "from" THEN "sent" ELSE fields[key]]
    <3>1. pending = Stored([type |-> type, fields |-> fields, v |-> v])
      BY <1>3, <2>1
    <3> QED
      BY <2>2, <3>1, KeptFields
  <2>4. DOMAIN kept = DOMAIN pending \cap VALID_TRANSACTION_PARAMS
    BY <2>2 DEF Kept, extract_valid_transaction_params, Restrict
  <2>5. {"max_fee_per_gas", "access_list"} \subseteq VALID_TRANSACTION_PARAMS
    BY DEF VALID_TRANSACTION_PARAMS, TRANSACTION_KEYS, DYNAMIC_FEE_TRANSACTION_PARAMS
  <2>6. DOMAIN kept = FieldsOf(type) \cup {"from"}
    BY <2>3
  <2>7. /\ "max_fee_per_gas" \in DOMAIN pending <=> "max_fee_per_gas" \in FieldsOf(type)
        /\ "access_list" \in DOMAIN pending <=> "access_list" \in FieldsOf(type)
    BY <2>4, <2>5, <2>6
  <2>8. tx.type = type
    BY <2>1
  <2> QED
    BY <2>7, <2>8, FieldsOfTypes DEF extract_transaction_type
<1>4. PoolInv => PendingTypeReported
  BY <1>3 DEF PoolInv, PendingTypeReported
<1> QED
  BY <1>1, <1>2, <1>4, PTL DEF Spec

-----------------------------------------------------------------------------
(* The first of several outcomes or values.                                *)

(* A set of natural numbers that is not empty has a least element.         *)
LEMMA LeastExists ==
    ASSUME NEW S \in SUBSET Nat, S # {}
    PROVE  \E i \in S : \A j \in S : i <= j
<1>1. IsWellFoundedOn(OpToRel(<, Nat), Nat)
  BY NatLessThanWellFounded
<1>2. PICK i \in S : \A j \in S : ~(<<j, i>> \in OpToRel(<, Nat))
  BY <1>1, WFMin
<1>3. ASSUME NEW j \in S PROVE i <= j
  <2>1. ASSUME j < i PROVE FALSE
    <3>1. <<j, i>> \in Nat \X Nat /\ j < i
      BY <2>1
    <3>2. <<j, i>> \in OpToRel(<, Nat)
      BY <3>1 DEF OpToRel
    <3> QED
      BY <1>2, <3>2
  <2> QED
    BY <2>1
<1> QED
  BY <1>2, <1>3

LEMMA EachFirst ==
    ASSUME NEW outcomes, DOMAIN outcomes \subseteq Nat
    PROVE  \/ Each(outcomes) = Ok /\ \A i \in DOMAIN outcomes : outcomes[i] = Ok
           \/ \E i \in DOMAIN outcomes :
                 outcomes[i] # Ok /\ Each(outcomes) = outcomes[i]
<1> DEFINE failed == { i \in DOMAIN outcomes : outcomes[i] # Ok }
<1>1. CASE failed = {}
  BY <1>1 DEF Each
<1>2. CASE failed # {}
  <2>1. failed \in SUBSET Nat
    OBVIOUS
  <2>2. \E i \in failed : \A j \in failed : i <= j
    <3> HIDE DEF failed
    <3> QED
      BY <1>2, <2>1, LeastExists
  <2>3. PICK first : first = CHOOSE i \in failed : \A j \in failed : i <= j
    OBVIOUS
  <2>4. first \in failed
    <3> HIDE DEF failed
    <3> QED
      BY <2>2, <2>3
  <2>5. Each(outcomes) = outcomes[first]
    BY <1>2, <2>3 DEF Each
  <2> QED
    BY <2>4, <2>5
<1> QED
  BY <1>1, <1>2

LEMMA MappedFirst ==
    ASSUME NEW results, DOMAIN results \subseteq Nat
    PROVE  \/ /\ Mapped(results) = List(results)
              /\ \A i \in DOMAIN results : results[i].kind # "raises"
           \/ \E i \in DOMAIN results :
                 results[i].kind = "raises" /\ Mapped(results) = results[i]
<1> DEFINE raised == { i \in DOMAIN results : results[i].kind = "raises" }
<1>1. CASE raised = {}
  BY <1>1 DEF Mapped
<1>2. CASE raised # {}
  <2>1. raised \in SUBSET Nat
    OBVIOUS
  <2>2. \E i \in raised : \A j \in raised : i <= j
    <3> HIDE DEF raised
    <3> QED
      BY <1>2, <2>1, LeastExists
  <2>3. PICK first : first = CHOOSE i \in raised : \A j \in raised : i <= j
    OBVIOUS
  <2>4. first \in raised
    <3> HIDE DEF raised
    <3> QED
      BY <2>2, <2>3
  <2>5. Mapped(results) = results[first]
    BY <1>2, <2>3 DEF Mapped
  <2> QED
    BY <2>4, <2>5
<1> QED
  BY <1>1, <1>2

(* Checks in a row pass if each of them does, and raise ValidationError    *)
(* where each of them raises nothing else.                                 *)
Checked == {Ok, "ValidationError"}

LEMMA EachChecked ==
    ASSUME NEW outcomes, DOMAIN outcomes \subseteq Nat,
           \A i \in DOMAIN outcomes : outcomes[i] \in Checked
    PROVE  Each(outcomes) \in Checked
BY EachFirst DEF Checked

LEMMA Sequenced ==
    ASSUME NEW a, NEW b
    PROVE  /\ a ++ b = Ok <=> a = Ok /\ b = Ok
           /\ a \in Checked /\ (a = Ok => b \in Checked) => a ++ b \in Checked
BY DEF ++, Checked, Ok

LEMMA UnlessOutcome ==
    ASSUME NEW condition \in BOOLEAN
    PROVE  /\ Unless(condition) = Ok <=> condition
           /\ Unless(condition) \in Checked
BY DEF Unless, Checked, Ok

-----------------------------------------------------------------------------
(* What is at hand in a reachable state.                                   *)
ArgumentInv ==
    /\ method \in Methods => argument \in Arguments[method]
    /\ log_topics \in Seq(Topics)
    /\ filter_topics \in {None} \cup Seq(Wildcards \cup Seq(Wildcards))

LEMMA ArgumentsInvariant == InboundSpec => []ArgumentInv
<1>1. InboundInit => ArgumentInv
  BY DEF InboundInit, ArgumentInv, Methods, ValueMethods, InternalTypes
<1>2. ASSUME ArgumentInv, [InboundNext]_<<tx, pending, topicVars, argumentVars>>
      PROVE  ArgumentInv'
  <2>1. CASE UsePool
    BY <1>2, <2>1 DEF UsePool, ArgumentInv, Methods, ValueMethods, InternalTypes,
       topicVars
  <2>2. CASE PickTopics
    BY <1>2, <2>2, LogsAssumption
       DEF PickTopics, ArgumentInv, Methods, ValueMethods, InternalTypes
  <2>3. ASSUME NEW m \in Methods, PickArgument(m) PROVE ArgumentInv'
    BY <1>2, <2>3 DEF PickArgument, ArgumentInv, topicVars
  <2>4. CASE UNCHANGED <<tx, pending, topicVars, argumentVars>>
    BY <1>2, <2>4 DEF ArgumentInv, topicVars, argumentVars
  <2> QED
    BY <1>2, <2>1, <2>2, <2>3, <2>4 DEF InboundNext
<1> QED
  BY <1>1, <1>2, PTL DEF InboundSpec

-----------------------------------------------------------------------------
(* Log entries.                                                            *)

(* What a backend says in bytes comes back from hexadecimal as it was.     *)
LEMMA BytesSurvive ==
    ASSUME NEW length \in Nat
    PROVE  /\ encode_hex(Bytes(length)).kind = "text"
           /\ DecodeIfText(encode_hex(Bytes(length))) = Bytes(length)
<1>1. encode_hex(Bytes(length)) = Hex(2 * length, 0)
  BY DEF encode_hex, Bytes
<1>2. Hex(2 * length, 0).kind = "text" /\ Hex(2 * length, 0).digits = 2 * length
  BY DEF Hex, Text
<1>3. (2 * length) % 2 = 0 /\ (2 * length) \div 2 = length
  OBVIOUS
<1> QED
  BY <1>1, <1>2, <1>3 DEF DecodeIfText, decode_hex, IsText

(* Every entry of RawLogEntries survives the facade.                       *)
THEOREM LogEntriesAlwaysSurvive == InboundSpec => []LogEntriesSurviveFacade
<1>1. ASSUME ArgumentInv PROVE LogEntriesSurviveFacade
  <2> SUFFICES ASSUME method = "log_entry", NEW key \in DOMAIN argument.entries
               PROVE  LOG_ENTRY_NORMALIZERS(key,
                          OutboundLogValue(key, argument.entries[key]))
                        = argument.entries[key]
    BY DEF LogEntriesSurviveFacade
  <2> DEFINE value == argument.entries[key]
  <2>1. argument \in RawLogEntries
    BY <1>1, ArgumentsAssumption DEF ArgumentInv, Methods
  <2>2. key \in {"type", "log_index", "transaction_index", "transaction_hash",
                 "block_hash", "block_number", "address", "data", "topics"}
    BY <2>1 DEF RawLogEntries
  <2>3. CASE key \in {"type", "log_index", "block_number"}
    BY <2>3 DEF LOG_ENTRY_NORMALIZERS, OutboundLogValue
  <2>4. CASE key = "transaction_index"
    <3>1. value.kind # "bytes"
      BY <2>1, <2>4 DEF RawLogEntries, NoneValue
    <3> QED
      BY <2>4, <3>1 DEF LOG_ENTRY_NORMALIZERS, OutboundLogValue
  <2>5. CASE key = "transaction_hash"
    <3>1. value = Bytes(32)
      BY <2>1, <2>5 DEF RawLogEntries
    <3> QED
      BY <2>5, <3>1, BytesSurvive DEF LOG_ENTRY_NORMALIZERS, OutboundLogValue
  <2>6. CASE key = "block_hash"
    <3>1. value = NoneValue \/ value = Bytes(32)
      BY <2>1, <2>6 DEF RawLogEntries
    <3>2. CASE value = NoneValue
      BY <2>6, <3>2 DEF LOG_ENTRY_NORMALIZERS, OutboundLogValue, NoneValue
    <3>3. CASE value = Bytes(32)
      <4>1. value.kind = "bytes"
        BY <3>3 DEF Bytes
      <4> QED
        BY <2>6, <3>3, <4>1, BytesSurvive DEF LOG_ENTRY_NORMALIZERS, OutboundLogValue
    <3> QED
      BY <3>1, <3>2, <3>3
  <2>7. CASE key = "address"
    <3>1. value = Bytes(20)
      BY <2>1, <2>7 DEF RawLogEntries
    <3>2. OutboundLogValue(key, value) = [Hex(40, 0) EXCEPT !.sum = "right"]
      BY <2>7 DEF OutboundLogValue
    <3>3. is_hex_address([Hex(40, 0) EXCEPT !.sum = "right"])
      BY DEF is_hex_address, is_hex, IsText, IsEmptyText, Hex, Text
    <3> QED
      BY <2>7, <3>1, <3>2, <3>3 DEF LOG_ENTRY_NORMALIZERS, to_canonical_address
  <2>8. CASE key = "data"
    <3>1. PICK length \in Nat : value = Bytes(length)
      BY <2>1, <2>8 DEF RawLogEntries, Bytes
    <3> QED
      BY <2>8, <3>1, BytesSurvive DEF LOG_ENTRY_NORMALIZERS, OutboundLogValue
  <2>9. CASE key = "topics"
    <3>1. /\ value = List(value.items)
          /\ value.items \in Seq({Bytes(32)})
      BY <2>1, <2>9 DEF RawLogEntries, List
    <3>2. PICK topics \in Seq({Bytes(32)}) : topics = value.items
      BY <3>1
    <3>3. /\ DOMAIN topics \subseteq Nat
          /\ \A i \in DOMAIN topics : topics[i] = Bytes(32)
          /\ topics = [i \in DOMAIN topics |-> topics[i]]
      BY <3>2
    <3>4. PICK encoded : encoded = [i \in DOMAIN topics |-> encode_hex(topics[i])]
      OBVIOUS
    <3>5. /\ DOMAIN encoded = DOMAIN topics
          /\ \A i \in DOMAIN topics : encoded[i].kind = "text"
          /\ \A i \in DOMAIN topics : DecodeIfText(encoded[i]) = topics[i]
      BY <3>3, <3>4, BytesSurvive
    <3>6. Mapped(encoded) = List(encoded)
      BY <3>3, <3>5, MappedFirst
    <3>7. OutboundLogValue(key, value) = List(encoded)
      BY <2>9, <3>2, <3>4, <3>6 DEF OutboundLogValue
    <3>8. PICK decoded : decoded = [i \in DOMAIN encoded |-> DecodeIfText(encoded[i])]
      OBVIOUS
    <3>9. decoded = topics
      BY <3>3, <3>5, <3>8
    <3>10. \A i \in DOMAIN topics : topics[i].kind = "bytes"
      BY <3>3 DEF Bytes
    <3>11. Mapped(decoded) = List(topics)
      BY <3>3, <3>9, <3>10, MappedFirst
    <3>12. LOG_ENTRY_NORMALIZERS(key, List(encoded)) = Mapped(decoded)
      BY <2>9, <3>8 DEF LOG_ENTRY_NORMALIZERS, List
    <3> QED
      BY <3>1, <3>2, <3>7, <3>11, <3>12
  <2> QED
    BY <2>2, <2>3, <2>4, <2>5, <2>6, <2>7, <2>8, <2>9
<1> QED
  BY <1>1, ArgumentsInvariant, PTL

-----------------------------------------------------------------------------
(* Topics.                                                                 *)

(* A single topic of a log entry matches one of a filter iff that one is   *)
(* the same or a wildcard.                                                 *)
LEMMA FlatMatch ==
    ASSUME NEW log \in Seq(Topics), NEW S, NEW flat \in Seq(S)
    PROVE  check_if_log_matches_flat_topics(log, flat)
             <=> /\ Len(flat) <= Len(log)
                 /\ \A i \in DOMAIN flat : flat[i] \in {None, log[i]}
<1>1. CASE flat = << >>
  <2>1. Len(flat) = 0 /\ DOMAIN flat = {} /\ Len(log) \in Nat
    BY <1>1
  <2> QED
    BY <1>1, <2>1 DEF check_if_log_matches_flat_topics
<1>2. CASE flat # << >>
  <2>1. Len(flat) \in Nat /\ Len(log) \in Nat
    OBVIOUS
  <2> QED
    BY <1>2, <2>1 DEF check_if_log_matches_flat_topics, check_single_topic_match
<1> QED
  BY <1>1, <1>2

(* A position accepts a topic iff one of its alternatives does.            *)
LEMMA AcceptsByAlternative ==
    ASSUME NEW position, NEW topic
    PROVE  Accepts(position, topic)
             <=> \E alternative \in Alternatives(position) :
                    alternative \in {None, topic}
BY DEF Accepts, Alternatives, is_topic, Wildcards

(* Trying all combinations of alternatives comes to the same as asking     *)
(* each position on its own, for filters and log entries of any length.    *)
THEOREM TopicsAlwaysPositionwise == InboundSpec => []TopicsMatchPositionwise
<1>1. ASSUME ArgumentInv PROVE TopicsMatchPositionwise
  <2>1. CASE filter_topics = None
    BY <2>1 DEF TopicsMatchPositionwise, check_if_topics_match
  <2>2. CASE filter_topics # None
    <3>1. PICK log : log = log_topics
      OBVIOUS
    <3>2. PICK filter : filter = filter_topics
      OBVIOUS
    <3>3. /\ log \in Seq(Topics)
          /\ filter \in Seq(Wildcards \cup Seq(Wildcards))
      BY <1>1, <2>2, <3>1, <3>2 DEF ArgumentInv
    <3>4. /\ Len(filter) \in Nat /\ Len(log) \in Nat
          /\ DOMAIN filter = 1..Len(filter)
      BY <3>3
    <3> DEFINE Fits == /\ Len(filter) <= Len(log)
                       /\ \A i \in DOMAIN filter : Accepts(filter[i], log[i])
    <3>5. check_if_topics_match(log, filter) <=> Fits
      <4>1. CASE is_flat_topic_array(filter)
        <5>1. check_if_topics_match(log, filter)
                <=> check_if_log_matches_flat_topics(log, filter)
          BY <2>2, <3>2, <4>1 DEF check_if_topics_match
        <5>2. \A i \in DOMAIN filter : filter[i] \in Wildcards
          BY <4>1 DEF is_flat_topic_array, is_topic, Wildcards
        <5>3. \A i \in DOMAIN filter :
                 Accepts(filter[i], log[i]) <=> filter[i] \in {None, log[i]}
          BY <5>2 DEF Accepts
        <5> QED
          BY <3>3, <5>1, <5>3, FlatMatch
      <4>2. CASE ~is_flat_topic_array(filter)
        <5> DEFINE combinations == extrapolate_flat_topic_from_topic_list(filter)
                   alternatives == UNION { Alternatives(filter[i]) : i \in DOMAIN filter }
        <5>1. check_if_topics_match(log, filter)
                <=> \E pick \in combinations :
                       check_if_log_matches_flat_topics(log, pick)
          BY <2>2, <3>2, <4>2 DEF check_if_topics_match
        <5>2. \A pick : pick \in combinations
                 <=> /\ pick \in [DOMAIN filter -> alternatives]
                     /\ \A i \in DOMAIN filter : pick[i] \in Alternatives(filter[i])
          BY DEF extrapolate_flat_topic_from_topic_list
        <5> HIDE DEF combinations, alternatives
        <5>3. ASSUME NEW pick \in combinations
              PROVE  check_if_log_matches_flat_topics(log, pick)
                       <=> /\ Len(filter) <= Len(log)
                           /\ \A i \in DOMAIN filter : pick[i] \in {None, log[i]}
          <6>1. pick \in [1..Len(filter) -> alternatives]
            BY <3>4, <5>2, <5>3
          <6>2. pick \in Seq(alternatives) /\ Len(pick) = Len(filter)
            BY <3>4, <6>1
          <6>3. DOMAIN pick = DOMAIN filter
            BY <3>4, <6>1
          <6> QED
            BY <3>3, <6>2, <6>3, FlatMatch
        <5>4. ASSUME check_if_topics_match(log, filter) PROVE Fits
          <6>1. PICK pick \in combinations : check_if_log_matches_flat_topics(log, pick)
            BY <5>1, <5>4
          <6>2. \A i \in DOMAIN filter :
                   pick[i] \in Alternatives(filter[i]) /\ pick[i] \in {None, log[i]}
            BY <5>2, <5>3, <6>1
          <6>3. \A i \in DOMAIN filter : Accepts(filter[i], log[i])
            BY <6>2, AcceptsByAlternative
          <6> QED
            BY <5>3, <6>1, <6>3
        <5>5. ASSUME Fits PROVE check_if_topics_match(log, filter)
          <6> DEFINE Chosen(i) == CHOOSE alternative \in Alternatives(filter[i]) :
                                      alternative \in {None, log[i]}
                     pick == [i \in DOMAIN filter |-> Chosen(i)]
          <6>1. \A i \in DOMAIN filter :
                   Chosen(i) \in Alternatives(filter[i]) /\ Chosen(i) \in {None, log[i]}
            BY <5>5, AcceptsByAlternative
          <6>2. \A i \in DOMAIN filter : Chosen(i) \in alternatives
            BY <6>1 DEF alternatives
          <6> HIDE DEF Chosen
          <6>3. pick \in [DOMAIN filter -> alternatives]
            BY <6>2
          <6>4. \A i \in DOMAIN filter : pick[i] = Chosen(i)
            OBVIOUS
          <6> HIDE DEF pick
          <6>5. pick \in combinations
            BY <5>2, <6>1, <6>3, <6>4
          <6>6. check_if_log_matches_flat_topics(log, pick)
            BY <5>3, <5>5, <6>1, <6>4, <6>5
          <6> QED
            BY <5>1, <6>5, <6>6
        <5> QED
          BY <5>4, <5>5
      <4> QED
        BY <4>1, <4>2
    <3> QED
      BY <2>2, <3>1, <3>2, <3>5 DEF TopicsMatchPositionwise
  <2> QED
    BY <2>1, <2>2
<1> QED
  BY <1>1, ArgumentsInvariant, PTL

-----------------------------------------------------------------------------
(* The exceptions of the validators.                                       *)

(* The validators of single values raise nothing but ValidationError,      *)
(* whatever they are given.                                                *)
LEMMA SinglesChecked ==
    ASSUME NEW value
    PROVE  /\ validate_positive_integer(value) \in Checked
           /\ \A max_val : validate_uint(max_val, value) \in Checked
           /\ validate_32_byte_hex_value(value) \in Checked
           /\ validate_timestamp(value) \in Checked
           /\ validate_block_number(value) \in Checked
           /\ validate_account(value) \in Checked
           /\ validate_raw_transaction(value) \in Checked
           /\ validate_data(value) \in Checked
<1>1. validate_positive_integer(value) \in Checked
  BY DEF validate_positive_integer, Unless, Checked, Ok
<1>2. \A max_val : validate_uint(max_val, value) \in Checked
  BY <1>1 DEF validate_uint, ++, Unless, Checked, Ok
<1>3. validate_32_byte_hex_value(value) \in Checked
  BY DEF validate_32_byte_hex_value, Unless, Checked, Ok
<1>4. validate_timestamp(value) \in Checked
  BY <1>1 DEF validate_timestamp, ++, Unless, Checked, Ok
<1>5. validate_block_number(value) \in Checked
  BY DEF validate_block_number, Unless, Checked, Ok
<1>6. validate_account(value) \in Checked
  BY DEF validate_account, ++, Unless, Checked, Ok
<1>7. validate_raw_transaction(value) \in Checked
  BY DEF validate_raw_transaction, Unless, Checked, Ok
<1>8. validate_data(value) \in Checked
  BY DEF validate_data, ++, Unless, Checked, Ok
<1> QED
  BY <1>1, <1>2, <1>3, <1>4, <1>5, <1>6, <1>7, <1>8

LEMMA SlotChecked ==
    ASSUME NEW value
    PROVE  validate_inbound_storage_slot(value) \in Checked
<1>1. PICK number : number = NumberOf(value)
  OBVIOUS
<1>2. validate_uint(UINT256_MAX, number) \in Checked
  BY SinglesChecked
<1> QED
  BY <1>1, <1>2 DEF validate_inbound_storage_slot, ++, Unless, Checked, Ok

LEMMA TypeChecked ==
    ASSUME NEW value, ~(is_hex(value) /\ value.digits = 0)
    PROVE  validate_transaction_type(value) \in Checked
<1>1. ~(is_hex(value) /\ NumberOf(value).kind = "raises")
  BY DEF NumberOf, Number
<1> QED
  BY <1>1 DEF validate_transaction_type, ++, Unless, Checked, Ok

LEMMA AccessListChecked ==
    ASSUME NEW list \in PythonValues,
           \A i \in DOMAIN list.items : list.items[i].kind = "dict"
    PROVE  _validate_inbound_access_list(list) \in Checked
<1>1. CASE ~IsListLike(list)
  BY <1>1 DEF _validate_inbound_access_list, ++, Unless, Checked, Ok
<1>2. CASE IsListLike(list)
  <2>1. list.items \in Seq(PythonValues)
    BY <1>2, ValuesAssumption DEF ArePythonValues, IsListLike
  <2>2. PICK items \in Seq(PythonValues) : items = list.items
    BY <2>1
  <2>3. PICK outcomes :
           outcomes = [i \in DOMAIN items |-> validate_access_list_entry(items[i])]
    OBVIOUS
  <2>4. DOMAIN outcomes = DOMAIN items /\ DOMAIN items \subseteq Nat
    BY <2>2, <2>3
  <2>5. \A i \in DOMAIN items : outcomes[i] \in Checked
    <3> SUFFICES ASSUME NEW i \in DOMAIN items
                 PROVE  validate_access_list_entry(items[i]) \in Checked
      BY <2>3
    <3>1. items[i].kind = "dict"
      BY <2>2
    <3> QED
      BY <3>1 DEF validate_access_list_entry, ++, Unless, Checked, Ok
  <2>6. Each(outcomes) \in Checked
    BY <2>4, <2>5, EachChecked
  <2>7. _validate_inbound_access_list(list) = Unless(IsListLike(list)) ++ Each(outcomes)
    BY <2>2, <2>3 DEF _validate_inbound_access_list
  <2> QED
    BY <1>2, <2>6, <2>7 DEF ++, Unless, Checked, Ok
<1> QED
  BY <1>1, <1>2

LEMMA ValueChecked ==
    ASSUME NEW key, NEW value \in PythonValues,
           key = "type" => ~(is_hex(value) /\ value.digits = 0),
           key = "access_list" =>
               \A i \in DOMAIN value.items : value.items[i].kind = "dict"
    PROVE  validate_value(key, value) \in Checked
<1>1. Ok \in Checked
  BY DEF Checked
<1>2. CASE key = "type"
  <2>1. validate_transaction_type(value) \in Checked
    BY <1>2, TypeChecked
  <2> QED
    BY <1>2, <2>1 DEF validate_value, UintKeys
<1>3. CASE key = "access_list"
  <2>1. _validate_inbound_access_list(value) \in Checked
    BY <1>3, AccessListChecked
  <2> QED
    BY <1>3, <2>1 DEF validate_value, UintKeys
<1>4. CASE key \notin {"type", "access_list"}
  BY <1>1, <1>4, SinglesChecked DEF validate_value
<1> QED
  BY <1>2, <1>3, <1>4

LEMMA KeysOfBoth ==
    /\ DOMAIN EarlierKeys = 1..7 /\ DOMAIN LaterKeys = 1..7
    /\ EarlierKeys[1] = "type" /\ EarlierKeys[2] = "from" /\ EarlierKeys[3] = "to"
    /\ EarlierKeys[4] = "gas" /\ EarlierKeys[5] = "gas_price"
    /\ EarlierKeys[6] = "max_fee_per_gas"
    /\ EarlierKeys[7] = "max_priority_fee_per_gas"
    /\ LaterKeys[1] = "value" /\ LaterKeys[2] = "nonce" /\ LaterKeys[3] = "data"
    /\ LaterKeys[4] = "access_list" /\ LaterKeys[5] = "r" /\ LaterKeys[6] = "s"
    /\ LaterKeys[7] = "v"
BY DEF EarlierKeys, LaterKeys

LEMMA CheckKeysChecked ==
    ASSUME NEW keys, DOMAIN keys \subseteq Nat, NEW entries,
           \A key \in DOMAIN entries : validate_value(key, entries[key]) \in Checked
    PROVE  CheckKeys(keys, entries) \in Checked
<1>1. PICK outcomes :
        outcomes = [i \in DOMAIN keys |->
                       IF keys[i] \in DOMAIN entries
                       THEN validate_value(keys[i], entries[keys[i]]) ELSE Ok]
  OBVIOUS
<1>2. \A i \in DOMAIN keys : outcomes[i] \in Checked
  BY <1>1 DEF Checked
<1>3. DOMAIN outcomes = DOMAIN keys
  BY <1>1
<1>4. Each(outcomes) \in Checked
  BY <1>2, <1>3, EachChecked
<1> QED
  BY <1>1, <1>4 DEF CheckKeys

LEMMA TransactionChecked ==
    ASSUME NEW value \in PythonValues, NEW type,
           \A key \in DOMAIN value.entries :
               validate_value(key, value.entries[key]) \in Checked
    PROVE  validate_transaction(value, type) \in Checked
<1>1. CheckKeys(EarlierKeys, value.entries) \in Checked
  <2>1. DOMAIN EarlierKeys \subseteq Nat
    BY KeysOfBoth
  <2> QED
    BY <2>1, CheckKeysChecked
<1>2. CheckKeys(LaterKeys, value.entries) \in Checked
  <2>1. DOMAIN LaterKeys \subseteq Nat
    BY KeysOfBoth
  <2> QED
    BY <2>1, CheckKeysChecked
<1> QED
  BY <1>1, <1>2 DEF validate_transaction, ++, Unless, Checked, Ok

LEMMA WithdrawalsChecked ==
    ASSUME NEW list \in PythonValues,
           list.kind \notin {"None", "bool", "int", "float"}
    PROVE  validate_inbound_withdrawals(list) \in Checked
<1>1. CASE ~IsListLike(list)
  BY <1>1 DEF validate_inbound_withdrawals, ++, Unless, Checked, Ok
<1>2. CASE IsListLike(list)
  <2>1. PICK items \in Seq(PythonValues) : items = list.items
    BY <1>2, ValuesAssumption DEF ArePythonValues, IsListLike
  <2>2. PICK outcomes : outcomes = [i \in DOMAIN items |-> validate_withdrawal(items[i])]
    OBVIOUS
  <2>3. DOMAIN outcomes = DOMAIN items /\ DOMAIN items \subseteq Nat
    BY <2>1, <2>2
  <2>4. \A i \in DOMAIN items : outcomes[i] \in Checked
    BY <2>2 DEF validate_withdrawal, ++, Unless, Checked, Ok
  <2>5. Each(outcomes) \in Checked
    BY <2>3, <2>4, EachChecked
  <2>6. validate_inbound_withdrawals(list)
          = Unless(IsListLike(list)) ++ Unless(items # << >>) ++ Each(outcomes)
    BY <2>1, <2>2 DEF validate_inbound_withdrawals
  <2> QED
    BY <2>5, <2>6 DEF ++, Unless, Checked, Ok
<1> QED
  BY <1>1, <1>2

LEMMA AddressFilterChecked ==
    ASSUME NEW address \in PythonValues
    PROVE  validate_address_filter(address) \in Checked
<1>1. CASE ~IsListLike(address)
  BY <1>1, SinglesChecked DEF validate_address_filter, Checked
<1>2. CASE IsListLike(address)
  <2>1. PICK items \in Seq(PythonValues) : items = address.items
    BY <1>2, ValuesAssumption DEF ArePythonValues, IsListLike
  <2>2. PICK outcomes : outcomes = [i \in DOMAIN items |-> validate_account(items[i])]
    OBVIOUS
  <2>3. DOMAIN outcomes = DOMAIN items /\ DOMAIN items \subseteq Nat
    BY <2>1, <2>2
  <2>4. \A i \in DOMAIN items : outcomes[i] \in Checked
    BY <2>2, SinglesChecked
  <2>5. Each(outcomes) \in Checked
    BY <2>3, <2>4, EachChecked
  <2>6. validate_address_filter(address) = Unless(items # << >>) ++ Each(outcomes)
    BY <1>2, <2>1, <2>2 DEF validate_address_filter
  <2> QED
    BY <2>5, <2>6 DEF ++, Unless, Checked, Ok
<1> QED
  BY <1>1, <1>2

LEMMA FilterParamsChecked ==
    ASSUME NEW filter, filter.address \in PythonValues
    PROVE  validate_filter_params(filter) \in Checked
<1>1. PICK from_block : from_block = validate_block_number(filter.from_block)
  OBVIOUS
<1>2. PICK to_block : to_block = validate_block_number(filter.to_block)
  OBVIOUS
<1>3. PICK address : address = validate_address_filter(filter.address)
  OBVIOUS
<1>4. PICK topics : topics = Unless(is_valid_topic_array(filter.topics))
  OBVIOUS
<1>5. /\ from_block \in Checked /\ to_block \in Checked
      /\ address \in Checked /\ topics \in Checked
  <2>1. topics \in Checked
    BY <1>4 DEF Unless, Checked
  <2> QED
    BY <1>1, <1>2, <1>3, <2>1, SinglesChecked, AddressFilterChecked
<1>6. validate_filter_params(filter)
        = OrNone(filter.from_block, from_block) ++ OrNone(filter.to_block, to_block)
          ++ OrNone(filter.address, address) ++ OrNone(filter.topics, topics)
  BY <1>1, <1>2, <1>3, <1>4 DEF validate_filter_params
<1> QED
  BY <1>5, <1>6 DEF OrNone, ++, Checked, Ok

(* The parts of an argument are values.                                    *)
LEMMA ArgumentParts ==
    ASSUME ArgumentInv
    PROVE  /\ method \in ValueMethods \cup InternalTypes \cup {"withdrawals"} =>
                 argument \in PythonValues
           /\ method = "filter_params" =>
                 /\ argument.from_block \in PythonValues
                 /\ argument.to_block \in PythonValues
                 /\ argument.address \in PythonValues
                 /\ argument.topics \in PythonValues
<1>1. method \in ValueMethods \cup InternalTypes \cup {"withdrawals"} =>
         argument \in PythonValues
  BY ArgumentsAssumption DEF ArgumentInv, Methods
<1>2. ASSUME method = "filter_params"
      PROVE  /\ argument.from_block \in PythonValues
             /\ argument.to_block \in PythonValues
             /\ argument.address \in PythonValues
             /\ argument.topics \in PythonValues
  <2>1. argument \in Arguments["filter_params"]
    BY <1>2 DEF ArgumentInv, Methods
  <2>2. {argument.from_block, argument.to_block, argument.address, argument.topics}
          \subseteq PythonValues
    BY <2>1, ArgumentsAssumption
  <2> QED
    BY <2>2
<1> QED
  BY <1>1, <1>2

(* No argument makes a validator of a single value, a transaction, a       *)
(* filter or withdrawals raise anything but ValidationError, but for the   *)
(* three that Stumbles names.                                              *)
THEOREM RefusedAlwaysWithValidationError == InboundSpec => []RefusedWithValidationError
<1>1. ASSUME ArgumentInv PROVE RefusedWithValidationError
  <2> SUFFICES ASSUME method \in ValueMethods \cup InternalTypes
                                 \cup {"filter_params", "withdrawals"},
                      ~Stumbles
               PROVE  Outcome \in Checked
    BY DEF RefusedWithValidationError, Checked
  <2>1. CASE method = "filter_params"
    BY <1>1, <2>1, ArgumentParts, FilterParamsChecked DEF Outcome
  <2>2. CASE method = "withdrawals"
    <3>1. argument.kind \notin {"None", "bool", "int", "float"}
      BY <2>2 DEF Stumbles
    <3>2. validate_inbound_withdrawals(argument) \in Checked
      BY <1>1, <2>2, <3>1, ArgumentParts, WithdrawalsChecked
    <3> QED
      BY <2>2, <3>2 DEF Outcome
  <2>3. CASE method \in ValueMethods
    <3>1. Outcome = validate_inbound(method, argument)
      BY <2>3 DEF Outcome, ValueMethods
    <3> QED
      BY <2>3, <3>1, SinglesChecked, SlotChecked
         DEF ValueMethods, InternalTypes, validate_inbound
  <2>4. CASE method \in InternalTypes
    <3>1. Outcome = validate_transaction(argument, method)
      BY <2>4 DEF Outcome, validate_inbound, InternalTypes
    <3>2. CASE argument.kind # "dict"
      BY <3>1, <3>2 DEF validate_transaction, ++, Unless, Checked, Ok
    <3>3. CASE argument.kind = "dict"
      <4>1. argument \in PythonValues
        BY <1>1, <2>4, ArgumentParts
      <4>2. ASSUME NEW key \in DOMAIN argument.entries
            PROVE  validate_value(key, argument.entries[key]) \in Checked
        <5>1. argument.entries[key] \in PythonValues
          BY <3>3, <4>1, ValuesAssumption DEF ArePythonValues
        <5>2. key = "type" =>
                ~(is_hex(argument.entries[key]) /\ argument.entries[key].digits = 0)
          BY <2>4 DEF Stumbles
        <5>3. key = "access_list" =>
                \A i \in DOMAIN argument.entries[key].items :
                    argument.entries[key].items[i].kind = "dict"
          BY <2>4 DEF Stumbles
        <5> QED
          BY <5>1, <5>2, <5>3, ValueChecked
      <4> QED
        BY <3>1, <4>1, <4>2, TransactionChecked
    <3> QED
      BY <3>2, <3>3
  <2> QED
    BY <2>1, <2>2, <2>3, <2>4
<1> QED
  BY <1>1, ArgumentsInvariant, PTL

-----------------------------------------------------------------------------
(* What the validators accept.                                             *)

LEMMA AccountAccepted ==
    ASSUME NEW value
    PROVE  validate_account(value) = Ok <=> is_hex_address(value) /\ value.sum # "wrong"
BY DEF validate_account, ++, Unless, Ok

LEMMA CheckKeysAccepts ==
    ASSUME NEW keys, DOMAIN keys \subseteq Nat, NEW entries,
           CheckKeys(keys, entries) = Ok, NEW i \in DOMAIN keys,
           keys[i] \in DOMAIN entries
    PROVE  validate_value(keys[i], entries[keys[i]]) = Ok
<1>1. PICK outcomes :
        outcomes = [k \in DOMAIN keys |->
                       IF keys[k] \in DOMAIN entries
                       THEN validate_value(keys[k], entries[keys[k]]) ELSE Ok]
  OBVIOUS
<1>2. Each(outcomes) = Ok
  BY <1>1 DEF CheckKeys
<1>3. DOMAIN outcomes = DOMAIN keys
  BY <1>1
<1>4. outcomes[i] = Ok
  BY <1>2, <1>3, EachFirst
<1> QED
  BY <1>1, <1>4

LEMMA TransactionAccepted ==
    ASSUME NEW value, NEW type \in InternalTypes,
           validate_transaction(value, type) = Ok
    PROVE  /\ value.kind = "dict"
           /\ DOMAIN value.entries \subseteq AllowedKeys(type)
           /\ \A key \in DOMAIN value.entries :
                 validate_value(key, value.entries[key]) = Ok
<1>1. PICK earlier : earlier = CheckKeys(EarlierKeys, value.entries)
  OBVIOUS
<1>2. PICK later : later = CheckKeys(LaterKeys, value.entries)
  OBVIOUS
<1>3. PICK required : required = Unless(RequiredKeys(type) \subseteq DOMAIN value.entries)
  OBVIOUS
<1>4. PICK mixes : mixes = Unless(~MixesFees(value.entries))
  OBVIOUS
<1>5. /\ value.kind = "dict" /\ DOMAIN value.entries \subseteq AllowedKeys(type)
      /\ earlier = Ok /\ later = Ok
  <2>1. Unless(value.kind = "dict")
          ++ Unless(DOMAIN value.entries \subseteq AllowedKeys(type))
          ++ required ++ earlier ++ mixes ++ later = Ok
    BY <1>1, <1>2, <1>3, <1>4 DEF validate_transaction
  <2> QED
    BY <2>1 DEF ++, Unless, Ok
<1>6. ASSUME NEW key \in DOMAIN value.entries
      PROVE  validate_value(key, value.entries[key]) = Ok
  <2>1. key \in {"type", "chain_id", "from", "to", "gas", "gas_price",
                 "max_fee_per_gas", "max_priority_fee_per_gas", "value", "data",
                 "access_list", "nonce", "r", "s", "v"}
    BY <1>5, <1>6 DEF AllowedKeys, TRANSACTION_KEYS, SIGNED_TRANSACTION_KEYS
  <2>2. CASE key = "chain_id"
    BY <2>2 DEF validate_value, UintKeys
  <2>3. CASE \E i \in 1..7 : EarlierKeys[i] = key
    <3>1. PICK i \in 1..7 : EarlierKeys[i] = key
      BY <2>3
    <3>2. DOMAIN EarlierKeys \subseteq Nat /\ i \in DOMAIN EarlierKeys
      BY KeysOfBoth
    <3>3. CheckKeys(EarlierKeys, value.entries) = Ok
      BY <1>1, <1>5
    <3>4. EarlierKeys[i] \in DOMAIN value.entries
      BY <1>6, <3>1
    <3>5. validate_value(EarlierKeys[i], value.entries[EarlierKeys[i]]) = Ok
      BY <3>2, <3>3, <3>4, CheckKeysAccepts
    <3> QED
      BY <3>1, <3>5
  <2>4. CASE \E i \in 1..7 : LaterKeys[i] = key
    <3>1. PICK i \in 1..7 : LaterKeys[i] = key
      BY <2>4
    <3>2. DOMAIN LaterKeys \subseteq Nat /\ i \in DOMAIN LaterKeys
      BY KeysOfBoth
    <3>3. CheckKeys(LaterKeys, value.entries) = Ok
      BY <1>2, <1>5
    <3>4. LaterKeys[i] \in DOMAIN value.entries
      BY <1>6, <3>1
    <3>5. validate_value(LaterKeys[i], value.entries[LaterKeys[i]]) = Ok
      BY <3>2, <3>3, <3>4, CheckKeysAccepts
    <3> QED
      BY <3>1, <3>5
  <2>5. /\ key \in {"type", "from", "to", "gas", "gas_price", "max_fee_per_gas",
                    "max_priority_fee_per_gas"} => \E i \in 1..7 : EarlierKeys[i] = key
        /\ key \in {"value", "nonce", "data", "access_list", "r", "s", "v"} =>
              \E i \in 1..7 : LaterKeys[i] = key
    BY KeysOfBoth
  <2> QED
    BY <2>1, <2>2, <2>3, <2>4, <2>5
<1> QED
  BY <1>5, <1>6

LEMMA WithdrawalsAccepted ==
    ASSUME NEW list \in PythonValues, validate_inbound_withdrawals(list) = Ok
    PROVE  /\ IsListLike(list)
           /\ \A i \in DOMAIN list.items : validate_withdrawal(list.items[i]) = Ok
<1>1. IsListLike(list)
  BY DEF validate_inbound_withdrawals, ++, Unless, Ok
<1>2. PICK items \in Seq(PythonValues) : items = list.items
  BY <1>1, ValuesAssumption DEF ArePythonValues, IsListLike
<1>3. PICK outcomes : outcomes = [i \in DOMAIN items |-> validate_withdrawal(items[i])]
  OBVIOUS
<1>4. DOMAIN outcomes = DOMAIN items /\ DOMAIN items \subseteq Nat
  BY <1>2, <1>3
<1>5. Each(outcomes) = Ok
  BY <1>2, <1>3 DEF validate_inbound_withdrawals, ++, Unless, Ok
<1>6. \A i \in DOMAIN items : outcomes[i] = Ok
  BY <1>4, <1>5, EachFirst
<1> QED
  BY <1>1, <1>2, <1>3, <1>6

LEMMA AddressFilterAccepted ==
    ASSUME NEW address \in PythonValues, validate_address_filter(address) = Ok
    PROVE  \/ IsText(address) /\ is_hex_address(address)
           \/ /\ IsListLike(address)
              /\ \A i \in DOMAIN address.items : validate_account(address.items[i]) = Ok
<1>1. CASE ~IsListLike(address)
  BY <1>1, AccountAccepted DEF validate_address_filter, is_hex_address, is_hex
<1>2. CASE IsListLike(address)
  <2>1. PICK items \in Seq(PythonValues) : items = address.items
    BY <1>2, ValuesAssumption DEF ArePythonValues, IsListLike
  <2>2. PICK outcomes : outcomes = [i \in DOMAIN items |-> validate_account(items[i])]
    OBVIOUS
  <2>3. DOMAIN outcomes = DOMAIN items /\ DOMAIN items \subseteq Nat
    BY <2>1, <2>2
  <2>4. Each(outcomes) = Ok
    BY <1>2, <2>1, <2>2 DEF validate_address_filter, ++, Unless, Ok
  <2>5. \A i \in DOMAIN items : outcomes[i] = Ok
    BY <2>3, <2>4, EachFirst
  <2> QED
    BY <1>2, <2>1, <2>2, <2>5
<1> QED
  BY <1>1, <1>2

LEMMA FilterParamsAccepted ==
    ASSUME NEW filter, validate_filter_params(filter) = Ok
    PROVE  /\ \/ filter.from_block = NoneValue
              \/ validate_block_number(filter.from_block) = Ok
           /\ \/ filter.to_block = NoneValue
              \/ validate_block_number(filter.to_block) = Ok
           /\ \/ filter.address = NoneValue
              \/ validate_address_filter(filter.address) = Ok
           /\ filter.topics = NoneValue \/ is_valid_topic_array(filter.topics)
<1>1. PICK from_block : from_block = validate_block_number(filter.from_block)
  OBVIOUS
<1>2. PICK to_block : to_block = validate_block_number(filter.to_block)
  OBVIOUS
<1>3. PICK address : address = validate_address_filter(filter.address)
  OBVIOUS
<1>4. PICK topics : topics = Unless(is_valid_topic_array(filter.topics))
  OBVIOUS
<1>5. OrNone(filter.from_block, from_block) ++ OrNone(filter.to_block, to_block)
        ++ OrNone(filter.address, address) ++ OrNone(filter.topics, topics) = Ok
  BY <1>1, <1>2, <1>3, <1>4 DEF validate_filter_params
<1>6. /\ filter.from_block = NoneValue \/ from_block = Ok
      /\ filter.to_block = NoneValue \/ to_block = Ok
      /\ filter.address = NoneValue \/ address = Ok
      /\ filter.topics = NoneValue \/ topics = Ok
  BY <1>5 DEF OrNone, ++, Ok
<1>7. topics = Ok => is_valid_topic_array(filter.topics)
  BY <1>4 DEF Unless, Ok
<1> QED
  BY <1>1, <1>2, <1>3, <1>6, <1>7

-----------------------------------------------------------------------------
(* Checksums.                                                              *)

(* An address with a wrong checksum is a text, and nothing but that.       *)
LEMMA WrongIsRefused ==
    ASSUME NEW value, WrongChecksum(value)
    PROVE  /\ validate_account(value) # Ok /\ ~is_address(value)
           /\ value.kind = "text" /\ value # NoneValue
           /\ ~IsListLike(value) /\ ~IsEmptyText(value)
<1>1. value.kind = "text"
  BY DEF WrongChecksum, is_hex_address, is_hex, IsText
<1>2. value # NoneValue /\ value # Bytes(20)
  BY <1>1 DEF NoneValue, Bytes
<1> QED
  BY <1>1, <1>2, AccountAccepted
     DEF WrongChecksum, is_address, IsListLike, IsEmptyText, is_hex_address, is_hex

(* No call takes an address with a wrong checksum, for any argument.       *)
THEOREM WrongChecksumAlwaysRefused == InboundSpec => []WrongChecksumRefused
<1>1. ASSUME ArgumentInv PROVE WrongChecksumRefused
  <2> SUFFICES ASSUME method \in Methods \ {"log_entry"}, Outcome = Ok
               PROVE  /\ method = "account" => ~WrongChecksum(argument)
                      /\ method \in InternalTypes =>
                            \A key \in {"from", "to"} \cap DOMAIN argument.entries :
                                ~WrongChecksum(argument.entries[key])
                      /\ method = "filter_params" =>
                            /\ WrongChecksum(argument.address) =>
                                  normalize_address_filter(argument.address).kind
                                    = "raises"
                            /\ IsListLike(argument.address) =>
                                  \A i \in DOMAIN argument.address.items :
                                      ~WrongChecksum(argument.address.items[i])
                      /\ method = "withdrawals" =>
                            \A i \in DOMAIN argument.items :
                                ~WrongChecksum(argument.items[i].entries["address"])
    BY DEF WrongChecksumRefused
  <2>1. method = "account" => ~WrongChecksum(argument)
    <3>1. method = "account" => Outcome = validate_account(argument)
      BY DEF Outcome, validate_inbound, InternalTypes
    <3> QED
      BY <3>1, WrongIsRefused
  <2>2. ASSUME method \in InternalTypes,
               NEW key \in {"from", "to"} \cap DOMAIN argument.entries
        PROVE  ~WrongChecksum(argument.entries[key])
    <3>1. validate_transaction(argument, method) = Ok
      BY <2>2 DEF Outcome, validate_inbound, InternalTypes
    <3>2. validate_value(key, argument.entries[key]) = Ok
      BY <2>2, <3>1, TransactionAccepted
    <3>3. \/ validate_account(argument.entries[key]) = Ok
          \/ IsEmptyText(argument.entries[key])
      <4> DEFINE value == argument.entries[key]
      <4>1. key = "from" \/ key = "to"
        BY <2>2
      <4>2. key = "from" => validate_value(key, value) = validate_account(value)
        BY DEF validate_value, UintKeys
      <4>3. key = "to" => validate_value(key, value) =
               IF IsEmptyText(value) THEN Ok ELSE validate_account(value)
        BY DEF validate_value, UintKeys
      <4> QED
        BY <3>2, <4>1, <4>2, <4>3
    <3> QED
      BY <3>3, WrongIsRefused
  <2>3. ASSUME method = "filter_params"
        PROVE  /\ WrongChecksum(argument.address) =>
                     normalize_address_filter(argument.address).kind = "raises"
               /\ IsListLike(argument.address) =>
                     \A i \in DOMAIN argument.address.items :
                         ~WrongChecksum(argument.address.items[i])
    <3>1. validate_filter_params(argument) = Ok
      BY <2>3 DEF Outcome
    <3>2. WrongChecksum(argument.address) =>
             normalize_address_filter(argument.address).kind = "raises"
      BY WrongIsRefused DEF normalize_address_filter, Raises
    <3>3. ASSUME IsListLike(argument.address)
          PROVE  \A i \in DOMAIN argument.address.items :
                     ~WrongChecksum(argument.address.items[i])
      <4>1. argument.address # NoneValue /\ ~IsText(argument.address)
        BY <3>3 DEF IsListLike, NoneValue, IsText
      <4>2. argument.address \in PythonValues
        BY <1>1, <2>3, ArgumentParts
      <4>3. validate_address_filter(argument.address) = Ok
        BY <3>1, <4>1, FilterParamsAccepted
      <4>4. \A i \in DOMAIN argument.address.items :
               validate_account(argument.address.items[i]) = Ok
        BY <4>1, <4>2, <4>3, AddressFilterAccepted
      <4> QED
        BY <4>4, WrongIsRefused
    <3> QED
      BY <3>2, <3>3
  <2>4. ASSUME method = "withdrawals"
        PROVE  \A i \in DOMAIN argument.items :
                   ~WrongChecksum(argument.items[i].entries["address"])
    <3>1. validate_inbound_withdrawals(argument) = Ok
      BY <2>4 DEF Outcome
    <3>2. argument \in PythonValues
      BY <1>1, <2>4, ArgumentParts
    <3>3. \A i \in DOMAIN argument.items : validate_withdrawal(argument.items[i]) = Ok
      BY <3>1, <3>2, WithdrawalsAccepted
    <3>4. \A withdrawal : validate_withdrawal(withdrawal) = Ok =>
             is_address(withdrawal.entries["address"])
      BY DEF validate_withdrawal, ++, Unless, Ok
    <3> QED
      BY <3>3, <3>4, WrongIsRefused
  <2> QED
    BY <2>1, <2>2, <2>3, <2>4
<1> QED
  BY <1>1, ArgumentsInvariant, PTL

-----------------------------------------------------------------------------
(* Canonical forms.                                                        *)

LEMMA UintAccepted ==
    ASSUME NEW max_val, NEW value
    PROVE  /\ validate_uint(max_val, value) = Ok => IsNumber(value)
           /\ validate_positive_integer(value) = Ok => IsNumber(value)
BY DEF validate_uint, validate_positive_integer, ++, Unless, Ok, IsNumber, IsInteger

LEMMA HashNormalized ==
    ASSUME NEW value, is_32byte_hex_string(value)
    PROVE  decode_hex(value) = Bytes(32)
BY DEF is_32byte_hex_string, decode_hex

LEMMA AddressNormalized ==
    ASSUME NEW value, validate_account(value) = Ok
    PROVE  to_canonical_address(value) = Bytes(20)
BY AccountAccepted DEF to_canonical_address

LEMMA DataNormalized ==
    ASSUME NEW value, validate_data(value) = Ok
    PROVE  decode_hex(value).kind = "bytes"
<1>1. decode_hex(value).kind # "raises"
  BY DEF validate_data, ++, Unless, Ok
<1> QED
  BY <1>1 DEF decode_hex, Raises, Bytes

(* An entry of an access list becomes an address and numbers.              *)
LEMMA EntryNormalized ==
    ASSUME NEW entry \in PythonValues, validate_access_list_entry(entry) = Ok
    PROVE  \E numbers :
              /\ normalize_access_list_entry(entry) = List(<<Bytes(20), List(numbers)>>)
              /\ \A k \in DOMAIN numbers : IsNumber(numbers[k])
<1>1. entry.kind = "dict"
  BY DEF validate_access_list_entry, ++, Unless, Ok
<1>2. /\ is_hex_address(Get(entry, "address"))
      /\ IsListLike(Get(entry, "storage_keys"))
      /\ \A i \in DOMAIN Get(entry, "storage_keys").items :
            is_32byte_hex_string(Get(entry, "storage_keys").items[i])
  <2>1. PICK address : address = Get(entry, "address")
    OBVIOUS
  <2>2. PICK storage_keys : storage_keys = Get(entry, "storage_keys")
    OBVIOUS
  <2>3. Unless(is_hex_address(address)) ++ Unless(IsListLike(storage_keys))
          ++ Unless(\A i \in DOMAIN storage_keys.items :
                       is_32byte_hex_string(storage_keys.items[i])) = Ok
    BY <1>1, <2>1, <2>2 DEF validate_access_list_entry
  <2> QED
    BY <2>1, <2>2, <2>3 DEF ++, Unless, Ok
<1>3. /\ "address" \in DOMAIN entry.entries
      /\ "storage_keys" \in DOMAIN entry.entries
  <2>1. ~is_hex_address(NoneValue) /\ ~IsListLike(NoneValue)
    BY DEF is_hex_address, is_hex, IsText, IsListLike, NoneValue
  <2> QED
    BY <1>2, <2>1 DEF Get
<1>4. PICK address : address = entry.entries["address"]
  OBVIOUS
<1>5. PICK storage_keys : storage_keys = entry.entries["storage_keys"]
  OBVIOUS
<1>6. /\ Get(entry, "address") = address
      /\ Get(entry, "storage_keys") = storage_keys
  BY <1>3, <1>4, <1>5 DEF Get
<1>7. address.digits \div 2 = 20
  <2>1. address.digits = 40
    BY <1>2, <1>6 DEF is_hex_address
  <2> QED
    BY <2>1
<1>8. storage_keys \in PythonValues
  BY <1>1, <1>3, <1>5, ValuesAssumption DEF ArePythonValues
<1>9. storage_keys.items \in Seq(PythonValues)
  BY <1>2, <1>6, <1>8, ValuesAssumption DEF ArePythonValues, IsListLike
<1>10. PICK items \in Seq(PythonValues) : items = storage_keys.items
  BY <1>9
<1>11. PICK numbers : numbers = [k \in DOMAIN items |-> NumberOf(items[k])]
  OBVIOUS
<1>12. DOMAIN numbers = DOMAIN items /\ DOMAIN items \subseteq Nat
  BY <1>10, <1>11
<1>13. ASSUME NEW k \in DOMAIN items
       PROVE  IsNumber(numbers[k]) /\ numbers[k].kind # "raises"
  <2>1. is_32byte_hex_string(items[k])
    BY <1>2, <1>6, <1>10
  <2>2. items[k] \in PythonValues
    BY <1>10
  <2>3. items[k].kind = "text" /\ items[k].digits = 64
    BY <2>1 DEF is_32byte_hex_string, is_hex, IsText
  <2>4. items[k].n \in Nat
    BY <2>2, <2>3, ValuesAssumption DEF ArePythonValues
  <2>5. numbers[k] = Number(items[k].n)
    BY <1>11, <2>3 DEF NumberOf
  <2> QED
    BY <2>4, <2>5 DEF IsNumber, Number
<1>14. Mapped(numbers) = List(numbers)
  BY <1>12, <1>13, MappedFirst
<1>15. normalize_access_list_entry(entry) = List(<<Bytes(20), List(numbers)>>)
  BY <1>4, <1>5, <1>7, <1>10, <1>11, <1>14 DEF normalize_access_list_entry
<1> QED
  BY <1>12, <1>13, <1>15

LEMMA AccessListNormalized ==
    ASSUME NEW list \in PythonValues, _validate_inbound_access_list(list) = Ok
    PROVE  /\ _normalize_inbound_access_list(list).kind = "list"
           /\ CanonicalAccessList(_normalize_inbound_access_list(list))
<1>1. IsListLike(list)
  BY DEF _validate_inbound_access_list, ++, Unless, Ok
<1>2. PICK items \in Seq(PythonValues) : items = list.items
  BY <1>1, ValuesAssumption DEF ArePythonValues, IsListLike
<1>3. PICK outcomes :
         outcomes = [i \in DOMAIN items |-> validate_access_list_entry(items[i])]
  OBVIOUS
<1>4. /\ DOMAIN outcomes = DOMAIN items /\ DOMAIN items \subseteq Nat
      /\ \A i \in DOMAIN items : items[i] \in PythonValues
  BY <1>2, <1>3
<1>5. Each(outcomes) = Ok
  BY <1>2, <1>3 DEF _validate_inbound_access_list, ++, Unless, Ok
<1>6. \A i \in DOMAIN items : validate_access_list_entry(items[i]) = Ok
  BY <1>3, <1>4, <1>5, EachFirst
<1>7. PICK results :
         results = [i \in DOMAIN items |-> normalize_access_list_entry(items[i])]
  OBVIOUS
<1>8. \A i \in DOMAIN items : \E numbers :
         /\ results[i] = List(<<Bytes(20), List(numbers)>>)
         /\ \A k \in DOMAIN numbers : IsNumber(numbers[k])
  BY <1>4, <1>6, <1>7, EntryNormalized
<1>9. DOMAIN results = DOMAIN items
  BY <1>7
<1>10. \A i \in DOMAIN results : results[i].kind # "raises"
  BY <1>8, <1>9 DEF List
<1>11. Mapped(results) = List(results)
  BY <1>4, <1>9, <1>10, MappedFirst
<1>12. _normalize_inbound_access_list(list) = List(results)
  BY <1>2, <1>7, <1>11 DEF _normalize_inbound_access_list
<1>13. ASSUME NEW i \in DOMAIN results
       PROVE  /\ results[i].items[1] = Bytes(20)
              /\ \A k \in DOMAIN results[i].items[2].items :
                    IsNumber(results[i].items[2].items[k])
  <2>1. PICK numbers : /\ results[i] = List(<<Bytes(20), List(numbers)>>)
                       /\ \A k \in DOMAIN numbers : IsNumber(numbers[k])
    BY <1>8, <1>9
  <2>2. results[i].items = <<Bytes(20), List(numbers)>>
    BY <2>1 DEF List
  <2>3. results[i].items[1] = Bytes(20) /\ results[i].items[2] = List(numbers)
    BY <2>2
  <2>4. List(numbers).items = numbers
    BY DEF List
  <2> QED
    BY <2>1, <2>3, <2>4
<1>14. List(results).kind = "list" /\ List(results).items = results
  BY DEF List
<1> QED
  BY <1>12, <1>13, <1>14 DEF CanonicalAccessList

(* The value of each key of a transaction, which the validator has let     *)
(* through, becomes canonical, but for a chain id.                         *)
LEMMA ValueNormalized ==
    ASSUME NEW type \in InternalTypes, NEW key \in AllowedKeys(type),
           NEW value \in PythonValues, validate_value(key, value) = Ok
    PROVE  /\ TRANSACTION_NORMALIZERS(key, value).kind # "raises"
           /\ key # "chain_id" =>
                 CanonicalValue(key, TRANSACTION_NORMALIZERS(key, value))
           /\ key = "chain_id" => TRANSACTION_NORMALIZERS(key, value) = value
<1>1. key \in {"type", "chain_id", "from", "to", "gas", "gas_price",
               "max_fee_per_gas", "max_priority_fee_per_gas", "value", "data",
               "access_list", "nonce", "r", "s", "v"}
  BY DEF AllowedKeys, TRANSACTION_KEYS, SIGNED_TRANSACTION_KEYS
<1>2. value.kind # "raises"
  BY ValuesAssumption DEF ArePythonValues
<1>3. CASE key \in {"type", "chain_id"}
  <2>1. TRANSACTION_NORMALIZERS(key, value) = value
    BY <1>3 DEF TRANSACTION_NORMALIZERS
  <2> QED
    BY <1>2, <1>3, <2>1 DEF CanonicalValue
<1>4. CASE key = "from"
  <2>1. validate_account(value) = Ok
    BY <1>4 DEF validate_value, UintKeys
  <2>2. TRANSACTION_NORMALIZERS(key, value) = Bytes(20)
    BY <1>4, <2>1, AddressNormalized DEF TRANSACTION_NORMALIZERS
  <2> QED
    BY <1>4, <2>2 DEF CanonicalValue, Bytes
<1>5. CASE key = "to"
  <2>1. IsEmptyText(value) \/ validate_account(value) = Ok
    <3>1. validate_value(key, value) =
            IF IsEmptyText(value) THEN Ok ELSE validate_account(value)
      BY <1>5 DEF validate_value, UintKeys
    <3> QED
      BY <3>1
  <2>2. TRANSACTION_NORMALIZERS(key, value) = to_empty_or_canonical_address(value)
    BY <1>5 DEF TRANSACTION_NORMALIZERS
  <2>3. to_empty_or_canonical_address(value) \in {Bytes(0), Bytes(20)}
    BY <2>1, AddressNormalized DEF to_empty_or_canonical_address
  <2> QED
    BY <1>5, <2>2, <2>3 DEF CanonicalValue, Bytes
<1>6. CASE key = "data"
  <2>1. validate_data(value) = Ok
    BY <1>6 DEF validate_value, UintKeys
  <2>2. TRANSACTION_NORMALIZERS(key, value) = decode_hex(value)
    BY <1>6 DEF TRANSACTION_NORMALIZERS
  <2> QED
    BY <1>6, <2>1, <2>2, DataNormalized DEF CanonicalValue
<1>7. CASE key = "access_list"
  <2>1. _validate_inbound_access_list(value) = Ok
    BY <1>7 DEF validate_value, UintKeys
  <2>2. TRANSACTION_NORMALIZERS(key, value) = _normalize_inbound_access_list(value)
    BY <1>7 DEF TRANSACTION_NORMALIZERS
  <2> QED
    BY <1>7, <2>1, <2>2, AccessListNormalized DEF CanonicalValue
<1>8. CASE key \in UintKeys \cup {"r", "s", "v"}
  <2>1. \E max_val : validate_value(key, value) = validate_uint(max_val, value)
    BY <1>8 DEF validate_value, UintKeys
  <2>2. IsNumber(value)
    BY <2>1, UintAccepted
  <2>3. TRANSACTION_NORMALIZERS(key, value) = value
    BY <1>8 DEF TRANSACTION_NORMALIZERS, UintKeys
  <2> QED
    BY <1>2, <1>8, <2>2, <2>3 DEF CanonicalValue, UintKeys
<1> QED
  BY <1>1, <1>3, <1>4, <1>5, <1>6, <1>7, <1>8 DEF UintKeys

(* An accepted transaction becomes a dictionary of canonical values iff    *)
(* its chain id, which nobody checks, is a number.                         *)
LEMMA TransactionNormalized ==
    ASSUME NEW value \in PythonValues, NEW type \in InternalTypes,
           validate_transaction(value, type) = Ok
    PROVE  LET result == normalize_transaction(value)
           IN  /\ result.kind = "dict"
               /\ (\A key \in DOMAIN result.entries :
                      CanonicalValue(key, result.entries[key]))
                    <=> ("chain_id" \in DOMAIN value.entries =>
                            IsNumber(value.entries["chain_id"]))
<1>1. PICK entries : entries = value.entries
  OBVIOUS
<1>2. /\ value.kind = "dict"
      /\ DOMAIN entries \subseteq AllowedKeys(type)
      /\ \A key \in DOMAIN entries : validate_value(key, entries[key]) = Ok
  BY <1>1, TransactionAccepted
<1>3. \A key \in DOMAIN entries : entries[key] \in PythonValues
  BY <1>1, <1>2, ValuesAssumption DEF ArePythonValues
<1>4. PICK results :
        results = [key \in DOMAIN entries |-> TRANSACTION_NORMALIZERS(key, entries[key])]
  OBVIOUS
<1>5. ASSUME NEW key \in DOMAIN entries
      PROVE  /\ results[key].kind # "raises"
             /\ key # "chain_id" => CanonicalValue(key, results[key])
             /\ key = "chain_id" => results[key] = entries[key]
  BY <1>2, <1>3, <1>4, ValueNormalized
<1>6. normalize_transaction(value) = Dict(results)
  <2>1. { key \in DOMAIN entries : results[key].kind = "raises" } = {}
    BY <1>5
  <2> QED
    BY <1>1, <1>4, <2>1 DEF normalize_transaction
<1>7. Dict(results).kind = "dict" /\ Dict(results).entries = results
  BY DEF Dict
<1>8. DOMAIN results = DOMAIN entries
  BY <1>4
<1>9. \A number : CanonicalValue("chain_id", number) <=> IsNumber(number)
  BY DEF CanonicalValue
<1>10. (\A key \in DOMAIN results : CanonicalValue(key, results[key]))
          <=> ("chain_id" \in DOMAIN entries => IsNumber(entries["chain_id"]))
  <2>1. ASSUME \A key \in DOMAIN results : CanonicalValue(key, results[key]),
               "chain_id" \in DOMAIN entries
        PROVE  IsNumber(entries["chain_id"])
    BY <1>5, <1>8, <1>9, <2>1
  <2>2. ASSUME "chain_id" \in DOMAIN entries => IsNumber(entries["chain_id"]),
               NEW key \in DOMAIN results
        PROVE  CanonicalValue(key, results[key])
    <3>1. CASE key = "chain_id"
      <4>1. CanonicalValue("chain_id", entries["chain_id"])
        BY <1>8, <1>9, <2>2, <3>1
      <4> QED
        BY <1>5, <1>8, <3>1, <4>1
    <3>2. CASE key # "chain_id"
      BY <1>5, <1>8, <3>2
    <3> QED
      BY <3>1, <3>2
  <2> QED
    BY <2>1, <2>2
<1> QED
  BY <1>1, <1>6, <1>7, <1>10

(* Whatever is accepted becomes canonical, for any single value and any    *)
(* transaction, but for what SlipsThrough names.                           *)
THEOREM AcceptedAlwaysCanonical == InboundSpec => []AcceptedIsCanonical
<1>1. ASSUME ArgumentInv PROVE AcceptedIsCanonical
  <2> SUFFICES ASSUME method \in ValueMethods \cup InternalTypes, Outcome = Ok
               PROVE  Canonical(normalize_inbound(method, argument)) <=> ~SlipsThrough
    BY DEF AcceptedIsCanonical
  <2>1. argument \in PythonValues
    BY <1>1, ArgumentParts
  <2>2. Outcome = validate_inbound(method, argument)
    BY DEF Outcome, ValueMethods, InternalTypes
  <2>3. CASE method = "account"
    <3>1. validate_account(argument) = Ok
      BY <2>2, <2>3 DEF InternalTypes, validate_inbound
    <3>2. normalize_inbound(method, argument) = Bytes(20)
      BY <2>3, <3>1, AddressNormalized DEF InternalTypes, normalize_inbound
    <3> QED
      BY <2>3, <3>2 DEF Canonical, SlipsThrough, InternalTypes
  <2>4. CASE method \in {"block_hash", "transaction_hash", "private_key"}
    <3>1. is_32byte_hex_string(argument)
      BY <2>2, <2>4
         DEF InternalTypes, validate_inbound, validate_32_byte_hex_value, Unless, Ok
    <3>2. normalize_inbound(method, argument) = Bytes(32)
      BY <2>4, <3>1, HashNormalized DEF InternalTypes, normalize_inbound
    <3> QED
      BY <2>4, <3>2 DEF Canonical, SlipsThrough, InternalTypes
  <2>5. CASE method = "block_number"
    <3>1. validate_block_number(argument) = Ok
      BY <2>2, <2>5 DEF InternalTypes, validate_inbound
    <3>2. normalize_inbound(method, argument) = argument
      BY <2>5 DEF InternalTypes, normalize_inbound
    <3>3. \/ IsNumber(argument)
          \/ IsText(argument) /\ argument.tag \in BLOCK_NUMBER_META_VALUES
      BY <3>1 DEF validate_block_number, Unless, Ok, IsNumber, IsInteger
    <3> QED
      BY <2>5, <3>2, <3>3 DEF Canonical, SlipsThrough, InternalTypes
  <2>6. CASE method \in {"filter_id", "timestamp"}
    <3>1. validate_positive_integer(argument) = Ok
      BY <2>2, <2>6 DEF InternalTypes, validate_inbound, validate_timestamp, ++, Ok
    <3>2. normalize_inbound(method, argument) = argument
      BY <2>6 DEF InternalTypes, normalize_inbound
    <3>3. IsNumber(argument)
      BY <3>1, UintAccepted
    <3> QED
      BY <2>6, <3>2, <3>3 DEF Canonical, SlipsThrough, InternalTypes
  <2>7. CASE method = "storage_slot"
    <3>1. PICK number : number = NumberOf(argument)
      OBVIOUS
    <3>2. is_hex(argument) /\ validate_uint(UINT256_MAX, number) = Ok
      BY <2>2, <2>7, <3>1
         DEF InternalTypes, validate_inbound, validate_inbound_storage_slot, ++,
             Unless, Ok
    <3>3. normalize_inbound(method, argument) = number
      BY <2>7, <3>1, <3>2 DEF InternalTypes, normalize_inbound, to_integer_if_hex
    <3>4. IsNumber(number)
      BY <3>2, UintAccepted
    <3> QED
      BY <2>7, <3>3, <3>4 DEF Canonical, SlipsThrough, InternalTypes
  <2>8. CASE method = "raw_transaction"
    <3>1. normalize_inbound(method, argument) = decode_hex(argument)
      BY <2>8 DEF InternalTypes, normalize_inbound
    <3>2. decode_hex(argument).kind = "bytes" <=> argument.digits % 2 # 1
      BY DEF decode_hex, Raises, Bytes
    <3>3. Canonical(decode_hex(argument)) <=> decode_hex(argument).kind = "bytes"
      BY <2>8 DEF Canonical, InternalTypes
    <3>4. SlipsThrough <=> argument.digits % 2 = 1
      BY <2>8 DEF SlipsThrough, InternalTypes
    <3> QED
      BY <3>1, <3>2, <3>3, <3>4
  <2>9. CASE method \in InternalTypes
    <3>1. validate_transaction(argument, method) = Ok
      BY <2>2, <2>9 DEF validate_inbound, InternalTypes
    <3>2. normalize_inbound(method, argument) = normalize_transaction(argument)
      BY <2>9 DEF normalize_inbound, InternalTypes
    <3>3. PICK result : result = normalize_transaction(argument)
      OBVIOUS
    <3>4. /\ result.kind = "dict"
          /\ (\A key \in DOMAIN result.entries :
                 CanonicalValue(key, result.entries[key]))
               <=> ("chain_id" \in DOMAIN argument.entries =>
                       IsNumber(argument.entries["chain_id"]))
      BY <2>1, <2>9, <3>1, <3>3, TransactionNormalized
    <3>5. Canonical(result) <=> /\ result.kind = "dict"
                                /\ \A key \in DOMAIN result.entries :
                                      CanonicalValue(key, result.entries[key])
      BY <2>9 DEF Canonical, InternalTypes
    <3>6. SlipsThrough <=> /\ "chain_id" \in DOMAIN argument.entries
                           /\ ~IsNumber(argument.entries["chain_id"])
      BY <2>9 DEF SlipsThrough, InternalTypes
    <3> QED
      BY <3>2, <3>3, <3>4, <3>5, <3>6
  <2> QED
    BY <2>3, <2>4, <2>5, <2>6, <2>7, <2>8, <2>9 DEF ValueMethods
<1> QED
  BY <1>1, ArgumentsInvariant, PTL

-----------------------------------------------------------------------------
(* Accepted filters.                                                       *)

(* An accepted bound of the block range is recognized but for two tags.    *)
LEMMA BlockAccepted ==
    ASSUME NEW block, block = NoneValue \/ validate_block_number(block) = Ok
    PROVE  BlockRecognized(block)
             <=> ~(IsText(block) /\ block.tag \in {"safe", "finalized"})
<1>1. CASE block = NoneValue
  BY <1>1 DEF NoneValue, BlockRecognized, IsText
<1>2. CASE IsText(block) /\ validate_block_number(block) = Ok
  <2>1. block.tag \in BLOCK_NUMBER_META_VALUES
    BY <1>2 DEF validate_block_number, IsText, Unless, Ok
  <2> QED
    BY <1>2, <2>1
       DEF BlockRecognized, BLOCK_NUMBER_META_VALUES, IsText, IsInteger, NoneValue
<1>3. CASE ~IsText(block) /\ validate_block_number(block) = Ok
  <2>1. IsInteger(block)
    BY <1>3 DEF validate_block_number, IsText, Unless, Ok
  <2> QED
    BY <1>3, <2>1 DEF BlockRecognized
<1> QED
  BY <1>1, <1>2, <1>3

(* An accepted address filter is recognized but for a wrong checksum.      *)
LEMMA AddressRecognizedUnlessWrong ==
    ASSUME NEW address \in PythonValues,
           address = NoneValue \/ validate_address_filter(address) = Ok
    PROVE  AddressRecognized(normalize_address_filter(address))
             <=> ~WrongChecksum(address)
<1>1. CASE address = NoneValue
  BY <1>1, WrongIsRefused DEF normalize_address_filter, AddressRecognized
<1>2. CASE IsText(address) /\ is_hex_address(address)
  <2>1. address # NoneValue /\ ~IsListLike(address) /\ address # Bytes(20)
    BY <1>2 DEF IsText, IsListLike, NoneValue, Bytes
  <2>2. CASE address.sum = "wrong"
    <3>1. normalize_address_filter(address) = Raises("TypeError")
      BY <2>1, <2>2 DEF normalize_address_filter, is_address
    <3>2. ~AddressRecognized(Raises("TypeError"))
      BY DEF AddressRecognized, Raises, NoneValue, IsListLike, is_address,
         is_hex_address, is_hex, IsText, Bytes
    <3> QED
      BY <1>2, <2>2, <3>1, <3>2 DEF WrongChecksum
  <2>3. CASE address.sum # "wrong"
    <3>1. normalize_address_filter(address) = Bytes(20)
      BY <1>2, <2>1, <2>3
         DEF normalize_address_filter, is_address, to_canonical_address
    <3> QED
      BY <2>3, <3>1 DEF AddressRecognized, is_address, WrongChecksum
  <2> QED
    BY <2>2, <2>3
<1>3. CASE /\ IsListLike(address)
           /\ \A i \in DOMAIN address.items : validate_account(address.items[i]) = Ok
  <2>1. PICK items \in Seq(PythonValues) : items = address.items
    BY <1>3, ValuesAssumption DEF ArePythonValues, IsListLike
  <2>2. PICK results : results = [i \in DOMAIN items |-> to_canonical_address(items[i])]
    OBVIOUS
  <2>3. DOMAIN results = DOMAIN items /\ DOMAIN results \subseteq Nat
    BY <2>1, <2>2
  <2>4. \A i \in DOMAIN results : results[i] = Bytes(20)
    BY <1>3, <2>1, <2>2, AddressNormalized
  <2>5. \A i \in DOMAIN results : results[i].kind # "raises"
    BY <2>4 DEF Bytes
  <2>6. Mapped(results) = List(results)
    BY <2>3, <2>5, MappedFirst
  <2>7. address # NoneValue /\ ~is_address(address) /\ ~WrongChecksum(address)
    BY <1>3 DEF IsListLike, NoneValue, is_address, is_hex_address, is_hex, IsText,
       Bytes, WrongChecksum
  <2>8. normalize_address_filter(address) = List(results)
    BY <1>3, <2>1, <2>2, <2>6, <2>7 DEF normalize_address_filter
  <2> QED
    BY <2>7, <2>8 DEF AddressRecognized, IsListLike, List
<1> QED
  BY <1>1, <1>2, <1>3, AddressFilterAccepted

(* A topic has a normal form; a list in the place of a topic has none.     *)
LEMMA TopicNormalized ==
    ASSUME NEW topic
    PROVE  /\ IsTopic(topic) =>
                 /\ normalize_topic(topic) \in {NoneValue, Bytes(32)}
                 /\ normalize_topic(topic).kind # "raises"
           /\ IsListLike(topic) =>
                 ~IsTopic(topic) /\ normalize_topic(topic) = Raises("TypeError")
<1>1. ASSUME IsTopic(topic)
      PROVE  normalize_topic(topic) \in {NoneValue, Bytes(32)}
  BY <1>1, HashNormalized DEF IsTopic, normalize_topic, is_32_bytes
<1>2. NoneValue.kind # "raises" /\ Bytes(32).kind # "raises"
  BY DEF NoneValue, Bytes
<1>3. ASSUME IsListLike(topic)
      PROVE  ~IsTopic(topic) /\ normalize_topic(topic) = Raises("TypeError")
  BY <1>3 DEF IsListLike, IsTopic, normalize_topic, NoneValue, is_32_bytes, Bytes,
     is_32byte_hex_string, is_hex, IsText
<1> QED
  BY <1>1, <1>2, <1>3

(* One item of an accepted topic array.                                    *)
HasList(item) ==
    IsListLike(item) /\ \E j \in DOMAIN item.items : IsListLike(item.items[j])

LEMMA ItemNormalized ==
    ASSUME NEW item \in PythonValues, OuterItem(item)
    PROVE  /\ HasList(item) => normalize_item(item).kind = "raises"
           /\ ~HasList(item) =>
                 /\ normalize_item(item).kind # "raises"
                 /\ \/ IsFlatTopicArray(normalize_item(item))
                    \/ normalize_item(item) \in {NoneValue, Bytes(32)}
<1>1. CASE ~IsListLike(item)
  <2>1. IsTopic(item)
    BY <1>1 DEF OuterItem, InnerArray, TopicArray
  <2>2. normalize_item(item) = normalize_topic(item) /\ ~HasList(item)
    BY <1>1 DEF normalize_item, HasList
  <2> QED
    BY <2>1, <2>2, TopicNormalized
<1>2. CASE IsListLike(item)
  <2>1. PICK items \in Seq(PythonValues) : items = item.items
    BY <1>2, ValuesAssumption DEF ArePythonValues, IsListLike
  <2>2. PICK results : results = [j \in DOMAIN items |-> normalize_topic(items[j])]
    OBVIOUS
  <2>3. DOMAIN results = DOMAIN items /\ DOMAIN results \subseteq Nat
    BY <2>1, <2>2
  <2>4. normalize_item(item) = Mapped(results)
    BY <1>2, <2>1, <2>2 DEF normalize_item
  <2>5. CASE HasList(item)
    <3>1. PICK j \in DOMAIN items : IsListLike(items[j])
      BY <2>1, <2>5 DEF HasList
    <3>2. results[j] = Raises("TypeError")
      BY <2>2, <3>1, TopicNormalized
    <3>3. results[j].kind = "raises"
      BY <3>2 DEF Raises
    <3>4. Mapped(results).kind = "raises"
      BY <2>3, <3>1, <3>3, MappedFirst
    <3> QED
      BY <2>4, <2>5, <3>4
  <2>6. CASE ~HasList(item)
    <3>1. \A j \in DOMAIN items : InnerItem(items[j]) /\ ~IsListLike(items[j])
      <4>1. InnerArray(item)
        BY <1>2, TopicNormalized DEF OuterItem
      <4> QED
        BY <1>2, <2>1, <2>6, <4>1 DEF InnerArray, TopicArray, HasList
    <3>2. \A j \in DOMAIN items : IsTopic(items[j])
      BY <3>1 DEF InnerItem, InnermostArray, TopicArray
    <3>3. \A j \in DOMAIN results : /\ results[j] \in {NoneValue, Bytes(32)}
                                    /\ results[j].kind # "raises"
      BY <2>2, <2>3, <3>2, TopicNormalized
    <3>4. Mapped(results) = List(results)
      BY <2>3, <3>3, MappedFirst
    <3>5. IsFlatTopicArray(List(results)) /\ List(results).kind # "raises"
      BY <3>3 DEF IsFlatTopicArray, List, IsListLike
    <3> QED
      BY <2>4, <2>6, <3>4, <3>5
  <2> QED
    BY <2>5, <2>6
<1> QED
  BY <1>1, <1>2

(* An accepted topic array is recognized unless it is nested twice.        *)
LEMMA TopicsAccepted ==
    ASSUME NEW topics \in PythonValues,
           topics = NoneValue \/ is_valid_topic_array(topics)
    PROVE  TopicsRecognized(normalize_topics(topics)) <=> ~NestedTwice(topics)
<1>1. CASE topics = NoneValue
  BY <1>1 DEF normalize_topics, TopicsRecognized, NestedTwice, IsListLike, NoneValue
<1>2. CASE is_valid_topic_array(topics)
  <2>1. IsListLike(topics) /\ topics # NoneValue
    BY <1>2 DEF is_valid_topic_array, TopicArray, IsListLike, NoneValue
  <2>2. PICK items \in Seq(PythonValues) : items = topics.items
    BY <2>1, ValuesAssumption DEF ArePythonValues, IsListLike
  <2>3. PICK results : results = [i \in DOMAIN items |-> normalize_item(items[i])]
    OBVIOUS
  <2>4. DOMAIN results = DOMAIN items /\ DOMAIN results \subseteq Nat
    BY <2>2, <2>3
  <2>5. normalize_topics(topics) = Mapped(results)
    BY <2>1, <2>2, <2>3 DEF normalize_topics
  <2>6. \A i \in DOMAIN items : items[i] \in PythonValues /\ OuterItem(items[i])
    BY <1>2, <2>2 DEF is_valid_topic_array, TopicArray
  <2>7. NestedTwice(topics) <=> \E i \in DOMAIN items : HasList(items[i])
    BY <2>1, <2>2 DEF NestedTwice, HasList
  <2>8. CASE NestedTwice(topics)
    <3>1. PICK i \in DOMAIN items : HasList(items[i])
      BY <2>7, <2>8
    <3>2. results[i].kind = "raises"
      BY <2>3, <2>6, <3>1, ItemNormalized
    <3>3. Mapped(results).kind = "raises"
      BY <2>4, <3>1, <3>2, MappedFirst
    <3>4. ASSUME NEW value, value.kind = "raises" PROVE ~TopicsRecognized(value)
      BY <3>4 DEF TopicsRecognized, IsFlatTopicArray, is_valid_with_nested_topic_array,
         IsListLike, NoneValue
    <3> QED
      BY <2>5, <2>8, <3>3, <3>4
  <2>9. CASE ~NestedTwice(topics)
    <3>1. \A i \in DOMAIN results :
             /\ results[i].kind # "raises"
             /\ \/ IsFlatTopicArray(results[i])
                \/ results[i] \in {NoneValue, Bytes(32)}
      BY <2>3, <2>4, <2>6, <2>7, <2>9, ItemNormalized
    <3>2. Mapped(results) = List(results)
      BY <2>4, <3>1, MappedFirst
    <3>3. IsListLike(List(results)) /\ List(results).items = results
      BY DEF List, IsListLike
    <3>4. CASE results = << >>
      <4>1. IsFlatTopicArray(List(results))
        BY <3>3, <3>4 DEF IsFlatTopicArray
      <4> QED
        BY <2>5, <2>9, <3>2, <4>1 DEF TopicsRecognized
    <3>5. CASE results # << >>
      <4>1. is_valid_with_nested_topic_array(List(results))
        BY <3>1, <3>3, <3>5 DEF is_valid_with_nested_topic_array
      <4> QED
        BY <2>5, <2>9, <3>2, <4>1 DEF TopicsRecognized
    <3> QED
      BY <3>4, <3>5
  <2> QED
    BY <2>8, <2>9
<1> QED
  BY <1>1, <1>2

(* Whatever filter is accepted can be matched against any log entry, but   *)
(* for the three that AcceptedFilterMatches names.                         *)
THEOREM AcceptedFilterAlwaysMatches == InboundSpec => []AcceptedFilterMatches
<1>1. ASSUME ArgumentInv PROVE AcceptedFilterMatches
  <2>1. ASSUME method = "filter_params", Outcome = Ok
        PROVE  /\ BlockRecognized(argument.from_block) <=>
                     ~(/\ IsText(argument.from_block)
                       /\ argument.from_block.tag \in {"safe", "finalized"})
               /\ BlockRecognized(argument.to_block) <=>
                     ~(/\ IsText(argument.to_block)
                       /\ argument.to_block.tag \in {"safe", "finalized"})
               /\ AddressRecognized(normalize_address_filter(argument.address))
                    <=> ~WrongChecksum(argument.address)
               /\ TopicsRecognized(normalize_topics(argument.topics))
                    <=> ~NestedTwice(argument.topics)
    <3>1. validate_filter_params(argument) = Ok
      BY <2>1 DEF Outcome
    <3>2. argument.address \in PythonValues /\ argument.topics \in PythonValues
      BY <1>1, <2>1, ArgumentParts
    <3> QED
      BY <3>1, <3>2, FilterParamsAccepted, BlockAccepted,
         AddressRecognizedUnlessWrong, TopicsAccepted
  <2> QED
    BY <2>1 DEF AcceptedFilterMatches
<1> QED
  BY <1>1, ArgumentsInvariant, PTL
=============================================================================

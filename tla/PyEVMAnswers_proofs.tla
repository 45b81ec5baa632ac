------------------------- MODULE PyEVMAnswers_proofs -------------------------
(***************************************************************************)
(* Theorems about PyEVMBackend's answers and their proofs, for all forks,  *)
(* all gas that transactions use and all bounds.                           *)
(***************************************************************************)
EXTENDS PyEVMAnswers, Outbound_proofs, Filter_proofs

Types == LEGACY_TX_TYPE..BLOB_TX_TYPE

Executed == [hash : Nat, type : Types, creates : BOOLEAN, gas : Nat,
             logs : Nat, status : {0, 1}]

(* Every hash that was given to a transaction is that of a transaction in  *)
(* some block, and no transaction is further from the start of its block   *)
(* than its hash says, so that the search meets it.                        *)
AnswersInv ==
    /\ fork \in Forks
    /\ sent \in Nat /\ sent <= MaxSent
    /\ mined \in Seq(Seq(Executed))
    /\ pending \in Seq(Executed)
    /\ Len(pending) <= sent
    /\ \A n \in Numbers : \A i \in 1..Len(BlockAt(n)) :
          BlockAt(n)[i].hash >= i /\ BlockAt(n)[i].hash <= sent
    /\ \A hash \in 1..sent : \E n \in Numbers : \E i \in 1..Len(BlockAt(n)) :
          BlockAt(n)[i].hash = hash

-----------------------------------------------------------------------------
(* Blocks.                                                                 *)

(* A sequence with an item added.                                          *)
LEMMA AppendedTo ==
    ASSUME NEW S, NEW s \in Seq(S), NEW x \in S
    PROVE  /\ Append(s, x) \in Seq(S)
           /\ Len(Append(s, x)) = Len(s) + 1
           /\ Append(s, x)[Len(s) + 1] = x
           /\ \A j \in 1..Len(s) : Append(s, x)[j] = s[j]
OBVIOUS

(* The blocks that can be found.                                           *)
LEMMA BlockType ==
    ASSUME mined \in Seq(Seq(Executed)), pending \in Seq(Executed), NEW n \in Numbers
    PROVE  BlockAt(n) \in Seq(Executed)
<1>1. PICK length \in Nat : length = Len(mined)
  OBVIOUS
<1>2. CASE n = HeadNumber
  BY <1>2 DEF BlockAt
<1>3. CASE n # HeadNumber /\ n = 0
  <2>1. << >> \in Seq(Executed)
    OBVIOUS
  <2> QED
    BY <1>3, <2>1 DEF BlockAt
<1>4. CASE n # HeadNumber /\ n # 0
  <2>1. n \in 1..length
    BY <1>1, <1>4 DEF Numbers, HeadNumber
  <2>2. mined[n] \in Seq(Executed)
    BY <1>1, <2>1
  <2> QED
    BY <1>4, <2>2 DEF BlockAt
<1> QED
  BY <1>2, <1>3, <1>4

(* Nothing was sent yet, or everything was forgotten.                      *)
LEMMA EmptyInv ==
    ASSUME fork \in Forks, mined = << >>, pending = << >>, sent = 0
    PROVE  AnswersInv
<1>1. mined \in Seq(Seq(Executed)) /\ pending \in Seq(Executed) /\ Len(pending) = 0
  OBVIOUS
<1>2. HeadNumber = 1
  BY DEF HeadNumber
<1>3. ASSUME NEW n \in Numbers
      PROVE  BlockAt(n) = << >>
  BY <1>2 DEF Numbers, BlockAt
<1>4. \A n \in Numbers : 1..Len(BlockAt(n)) = {}
  BY <1>3
<1>5. 1..sent = {}
  OBVIOUS
<1>6. sent \in Nat /\ sent <= MaxSent
  BY AnswersAssumption
<1> QED
  BY <1>1, <1>4, <1>5, <1>6 DEF AnswersInv

(* The first blocks have no transactions.                                  *)
LEMMA InitInv == Init => AnswersInv
BY EmptyInv DEF Init

(* A transaction joins the pending block.                                  *)
LEMMA SendKeepsInv ==
    ASSUME AnswersInv, NEW type \in Types, NEW creates \in BOOLEAN,
           NEW gas \in GasUses, NEW logs \in LogCounts, NEW status \in {0, 1},
           SendTransaction(type, creates, gas, logs, status)
    PROVE  AnswersInv'
<1>1. /\ sent \in Nat /\ Len(pending) <= sent /\ sent + 1 <= MaxSent
      /\ mined \in Seq(Seq(Executed)) /\ pending \in Seq(Executed)
  BY AnswersAssumption DEF AnswersInv, SendTransaction
<1>2. PICK tx : tx = [hash |-> sent + 1, type |-> type, creates |-> creates,
                      gas |-> gas, logs |-> status * logs, status |-> status]
  OBVIOUS
<1>3. tx \in Executed /\ tx.hash = sent + 1
  <2>1. gas \in Nat /\ logs \in Nat
    BY AnswersAssumption
  <2>2. status * logs \in Nat
    <3>1. CASE status = 0
      BY <2>1, <3>1
    <3>2. CASE status = 1
      BY <2>1, <3>2
    <3> QED
      BY <3>1, <3>2
  <2>3. sent + 1 \in Nat
    BY <1>1
  <2>4. PICK written \in Nat, hash \in Nat : written = status * logs /\ hash = sent + 1
    BY <2>2, <2>3
  <2>5. tx = [hash |-> hash, type |-> type, creates |-> creates,
              gas |-> gas, logs |-> written, status |-> status]
    BY <1>2, <2>4
  <2> QED
    BY <2>1, <2>4, <2>5 DEF Executed
<1>4. /\ pending' = Append(pending, tx) /\ sent' = sent + 1 /\ mined' = mined
  BY <1>2 DEF SendTransaction
<1>5. PICK k \in Nat : k = Len(pending)
  BY <1>1
<1>6. /\ pending' \in Seq(Executed) /\ Len(pending') = k + 1
      /\ pending'[k + 1] = tx
      /\ \A i \in 1..k : pending'[i] = pending[i]
  BY <1>1, <1>3, <1>4, <1>5, AppendedTo
<1>7. PICK head \in Nat : /\ head = HeadNumber /\ head = HeadNumber'
                         /\ Numbers = 0..head /\ Numbers' = 0..head
  <2>1. HeadNumber \in Nat
    BY <1>1 DEF HeadNumber
  <2>2. HeadNumber' = HeadNumber
    BY <1>4 DEF HeadNumber
  <2> QED
    BY <2>1, <2>2 DEF Numbers
<1>8. ASSUME NEW n \in 0..head, n # head
      PROVE  BlockAt(n)' = BlockAt(n)
  BY <1>4, <1>7, <1>8 DEF BlockAt
<1>9. BlockAt(head) = pending /\ BlockAt(head)' = pending'
  BY <1>7 DEF BlockAt
<1>10. head \in 0..head
  OBVIOUS
<1>11. ASSUME NEW n \in 0..head, NEW i \in 1..Len(BlockAt(n)')
       PROVE  BlockAt(n)'[i].hash >= i /\ BlockAt(n)'[i].hash <= sent + 1
  <2>1. CASE n = head /\ i = k + 1
    <3>1. BlockAt(n)'[i].hash = sent + 1
      BY <1>3, <1>6, <1>9, <2>1
    <3> QED
      BY <1>1, <1>5, <2>1, <3>1
  <2>2. CASE n = head /\ i # k + 1
    <3>1. i \in 1..k
      BY <1>6, <1>9, <2>2
    <3>2. BlockAt(n)'[i] = BlockAt(n)[i] /\ i \in 1..Len(BlockAt(n))
      BY <1>5, <1>6, <1>9, <2>2, <3>1
    <3>3. PICK tx1 \in Executed : tx1 = BlockAt(n)[i]
      BY <1>1, <1>5, <1>9, <2>2, <3>1
    <3>4. tx1.hash >= i /\ tx1.hash <= sent /\ tx1.hash \in Nat
      BY <1>7, <3>2, <3>3 DEF AnswersInv, Executed
    <3> QED
      BY <1>1, <3>2, <3>3, <3>4
  <2>3. CASE n # head
    <3>1. BlockAt(n)'[i] = BlockAt(n)[i] /\ i \in 1..Len(BlockAt(n))
      BY <1>8, <2>3
    <3>2. BlockAt(n)[i] \in Executed
      BY <1>1, <1>7, <3>1, BlockType
    <3>3. BlockAt(n)[i].hash >= i /\ BlockAt(n)[i].hash <= sent
          /\ BlockAt(n)[i].hash \in Nat
      BY <1>7, <3>1, <3>2 DEF AnswersInv, Executed
    <3> QED
      BY <1>1, <3>1, <3>3
  <2> QED
    BY <2>1, <2>2, <2>3
<1>12. ASSUME NEW hash \in 1..(sent + 1)
       PROVE  \E n \in 0..head : \E i \in 1..Len(BlockAt(n)') :
                 BlockAt(n)'[i].hash = hash
  <2>1. CASE hash = sent + 1
    <3>1. k + 1 \in 1..Len(BlockAt(head)')
      BY <1>6, <1>9
    <3>2. BlockAt(head)'[k + 1].hash = hash
      BY <1>3, <1>6, <1>9, <2>1
    <3> QED
      BY <1>10, <3>1, <3>2
  <2>2. CASE hash # sent + 1
    <3>1. hash \in 1..sent
      BY <1>1, <2>2
    <3>2. PICK n \in 0..head : \E i \in 1..Len(BlockAt(n)) : BlockAt(n)[i].hash = hash
      BY <1>7, <3>1 DEF AnswersInv
    <3>4. PICK i \in 1..Len(BlockAt(n)) : BlockAt(n)[i].hash = hash
      BY <3>2
    <3>3. i \in 1..Len(BlockAt(n)') /\ BlockAt(n)'[i] = BlockAt(n)[i]
      <4>1. CASE n = head
        <5>1. i \in 1..k
          BY <1>5, <1>9, <3>4, <4>1
        <5>2. i \in 1..(k + 1) /\ pending'[i] = pending[i]
          BY <1>6, <5>1
        <5> QED
          BY <1>6, <1>9, <4>1, <5>2
      <4>2. CASE n # head
        BY <1>8, <3>4, <4>2
      <4> QED
        BY <4>1, <4>2
    <3> QED
      BY <3>3, <3>4
  <2> QED
    BY <2>1, <2>2
<1>13. /\ sent' \in Nat /\ sent' <= MaxSent /\ Len(pending') <= sent'
  BY <1>1, <1>4, <1>5, <1>6
<1>14. fork' \in Forks
  BY DEF AnswersInv, SendTransaction
<1> QED
  BY <1>1, <1>4, <1>6, <1>7, <1>11, <1>12, <1>13, <1>14 DEF AnswersInv

(* The pending block is mined where it was, and an empty one follows.      *)
LEMMA MineKeepsInv ==
    ASSUME AnswersInv, MineBlock
    PROVE  AnswersInv'
<1>1. /\ mined \in Seq(Seq(Executed)) /\ pending \in Seq(Executed) /\ sent \in Nat
  BY DEF AnswersInv
<1>2. mined' = Append(mined, pending) /\ pending' = << >> /\ sent' = sent
  BY DEF MineBlock
<1>3. PICK k \in Nat : k = Len(mined)
  BY <1>1
<1>4. /\ mined' \in Seq(Seq(Executed)) /\ Len(mined') = k + 1
      /\ mined'[k + 1] = pending
      /\ \A n \in 1..k : mined'[n] = mined[n]
  BY <1>1, <1>2, <1>3, AppendedTo
<1>5. /\ HeadNumber = k + 1 /\ HeadNumber' = k + 2
      /\ Numbers = 0..(k + 1) /\ Numbers' = 0..(k + 2)
  <2>1. HeadNumber = k + 1
    BY <1>3 DEF HeadNumber
  <2>2. HeadNumber' = k + 2
    BY <1>4 DEF HeadNumber
  <2> QED
    BY <2>1, <2>2 DEF Numbers
<1>6. ASSUME NEW n \in 0..(k + 1)
      PROVE  BlockAt(n)' = BlockAt(n)
  <2>1. n # k + 2
    OBVIOUS
  <2>2. CASE n = 0
    BY <1>5, <2>1, <2>2 DEF BlockAt
  <2>3. CASE n = k + 1
    BY <1>4, <1>5, <2>1, <2>3 DEF BlockAt
  <2>4. CASE n # 0 /\ n # k + 1
    <3>1. n \in 1..k
      BY <2>4
    <3> QED
      BY <1>4, <1>5, <2>1, <2>4, <3>1 DEF BlockAt
  <2> QED
    BY <2>2, <2>3, <2>4
<1>7. BlockAt(k + 2)' = << >>
  BY <1>2, <1>5 DEF BlockAt
<1>8. ASSUME NEW n \in 0..(k + 2), NEW i \in 1..Len(BlockAt(n)')
      PROVE  BlockAt(n)'[i].hash >= i /\ BlockAt(n)'[i].hash <= sent
  <2>1. CASE n = k + 2
    <3>1. 1..Len(BlockAt(n)') = {}
      BY <1>7, <2>1
    <3> QED
      BY <3>1
  <2>2. CASE n # k + 2
    <3>1. n \in 0..(k + 1)
      BY <2>2
    <3>2. BlockAt(n)' = BlockAt(n)
      BY <1>6, <3>1
    <3> QED
      BY <1>5, <3>1, <3>2 DEF AnswersInv
  <2> QED
    BY <2>1, <2>2
<1>9. ASSUME NEW hash \in 1..sent
      PROVE  \E n \in 0..(k + 2) : \E i \in 1..Len(BlockAt(n)') :
                BlockAt(n)'[i].hash = hash
  <2>1. PICK n \in 0..(k + 1) : \E i \in 1..Len(BlockAt(n)) :
          BlockAt(n)[i].hash = hash
    BY <1>5 DEF AnswersInv
  <2>2. n \in 0..(k + 2) /\ BlockAt(n)' = BlockAt(n)
    BY <1>6
  <2> QED
    BY <2>1, <2>2
<1>10. << >> \in Seq(Executed) /\ Len(<< >>) = 0
  OBVIOUS
<1>11. sent <= MaxSent /\ 0 <= sent
  BY <1>1 DEF AnswersInv
<1>12. fork' \in Forks
  BY DEF AnswersInv, MineBlock
<1> QED
  BY <1>1, <1>2, <1>4, <1>5, <1>8, <1>9, <1>10, <1>11, <1>12 DEF AnswersInv

(* Every step keeps the invariant.                                         *)
LEMMA AnswersStep ==
    AnswersInv /\ [Next]_<<fork, mined, pending, sent>> => AnswersInv'
<1> SUFFICES ASSUME AnswersInv, [Next]_<<fork, mined, pending, sent>>
             PROVE  AnswersInv'
  OBVIOUS
<1>1. ASSUME NEW type \in LEGACY_TX_TYPE..BLOB_TX_TYPE, NEW creates \in BOOLEAN,
             NEW gas \in GasUses, NEW logs \in LogCounts, NEW status \in {0, 1},
             SendTransaction(type, creates, gas, logs, status)
      PROVE  AnswersInv'
  BY <1>1, SendKeepsInv DEF Types
<1>2. ASSUME MineBlock PROVE AnswersInv'
  BY <1>2, MineKeepsInv
<1>3. ASSUME ResetToGenesis PROVE AnswersInv'
  <2>1. mined' = << >> /\ pending' = << >> /\ sent' = 0
    BY <1>3 DEF ResetToGenesis
  <2>2. mined' \in Seq(Seq(Executed)) /\ pending' \in Seq(Executed) /\ Len(pending') = 0
    BY <2>1
  <2>3. HeadNumber' = 1
    BY <2>1 DEF HeadNumber
  <2>4. ASSUME NEW n \in Numbers'
        PROVE  BlockAt(n)' = << >>
    BY <2>1, <2>3 DEF Numbers, BlockAt
  <2>5. \A n \in Numbers' : 1..Len(BlockAt(n)') = {}
    BY <2>4
  <2>6. 1..sent' = {} /\ sent' \in Nat /\ sent' <= MaxSent
    BY <2>1, AnswersAssumption
  <2>7. \A n \in Numbers' : \A i \in 1..Len(BlockAt(n)') :
           BlockAt(n)'[i].hash >= i /\ BlockAt(n)'[i].hash <= sent'
    BY <2>5
  <2>8. \A hash \in 1..sent' : \E n \in Numbers' : \E i \in 1..Len(BlockAt(n)') :
           BlockAt(n)'[i].hash = hash
    BY <2>6
  <2>9. Len(pending') <= sent'
    BY <2>1, <2>2
  <2>10. fork' \in Forks
    BY <1>3 DEF AnswersInv, ResetToGenesis
  <2> QED
    BY <2>2, <2>6, <2>7, <2>8, <2>9, <2>10 DEF AnswersInv
<1>4. ASSUME UNCHANGED <<fork, mined, pending, sent>> PROVE AnswersInv'
  BY <1>4 DEF AnswersInv, Numbers, HeadNumber, BlockAt
<1> QED
  BY <1>1, <1>2, <1>3, <1>4 DEF Next

(* Every transaction that was sent is in one of the blocks, where the      *)
(* search looks.  (_get_transaction_by_hash)                               *)
THEOREM AnswersInvariant == Spec => []AnswersInv
<1> QED
  BY InitInv, AnswersStep, PTL DEF Spec

-----------------------------------------------------------------------------
(* What is found.                                                          *)

PlaceKeys == {"block_hash", "block_number", "transaction_index"}

(* The search finds a place that holds a transaction of the hash.          *)
LEMMA FoundPlace ==
    ASSUME AnswersInv, NEW hash \in 1..sent
    PROVE  \E n \in Numbers, i \in Nat :
              /\ _get_transaction_by_hash(hash) = <<n, i>>
              /\ i + 1 \in 1..Len(BlockAt(n))
              /\ BlockAt(n)[i + 1].hash = hash
<1>1. /\ sent \in Nat /\ sent <= MaxSent /\ MaxSent \in Nat
      /\ mined \in Seq(Seq(Executed)) /\ pending \in Seq(Executed)
  BY AnswersAssumption DEF AnswersInv
<1>2. PICK n \in Numbers : \E i \in 1..Len(BlockAt(n)) : BlockAt(n)[i].hash = hash
  BY DEF AnswersInv
<1>3. PICK i \in 1..Len(BlockAt(n)) : BlockAt(n)[i].hash = hash
  BY <1>2
<1>4. PICK length \in Nat : length = Len(BlockAt(n))
  BY <1>1, BlockType
<1>5. BlockAt(n)[i].hash >= i /\ BlockAt(n)[i].hash <= sent
  BY DEF AnswersInv
<1>6. i \in 1..length /\ i <= hash /\ hash <= sent /\ hash \in Nat
  BY <1>1, <1>3, <1>4, <1>5
<1>7. i - 1 \in 0..MaxSent /\ i - 1 < Len(BlockAt(n)) /\ (i - 1) + 1 = i
  BY <1>1, <1>4, <1>6
<1>8. PICK index \in 0..MaxSent : index = i - 1
  BY <1>7
<1>9. <<n, index>> \in Places
  BY <1>7, <1>8 DEF Places, Numbers
<1>10. BlockAt(<<n, index>>[1])[<<n, index>>[2] + 1].hash = hash
  BY <1>3, <1>7, <1>8
<1>11. /\ _get_transaction_by_hash(hash) \in Places
       /\ BlockAt(_get_transaction_by_hash(hash)[1])
            [_get_transaction_by_hash(hash)[2] + 1].hash = hash
  BY <1>9, <1>10 DEF _get_transaction_by_hash
<1>12. PICK place \in Places : place = _get_transaction_by_hash(hash)
  BY <1>11
<1>13. PICK m \in Numbers, j \in 0..MaxSent : place = <<m, j>> /\ j < Len(BlockAt(m))
  BY DEF Places, Numbers
<1>14. j + 1 \in 1..Len(BlockAt(m)) /\ j \in Nat
  <2>1. Len(BlockAt(m)) \in Nat
    BY <1>1, BlockType
  <2> QED
    BY <1>1, <1>13, <2>1
<1>15. BlockAt(m)[j + 1].hash = hash
  BY <1>11, <1>12, <1>13
<1> QED
  BY <1>12, <1>13, <1>14, <1>15

(* A transaction's dictionary has its hash and its place.                  *)
LEMMA TransactionKeys ==
    ASSUME NEW n, NEW i
    PROVE  /\ serialize_transaction(n, i)["hash"] = TxHash(BlockAt(n)[i + 1])
           /\ \A key \in PlaceKeys :
                 serialize_transaction(n, i)[key] = Place(n, i)[key]
<1>1. PICK common, place, signed, typed, dynamic, blob :
         /\ serialize_transaction(n, i)
              = common ++ place ++ signed ++ typed ++ dynamic ++ blob
         /\ common = CommonParams(BlockAt(n)[i + 1])
         /\ place = Place(n, i)
  BY DEF serialize_transaction
<1>2. /\ "hash" \in DOMAIN common
      /\ common["hash"] = TxHash(BlockAt(n)[i + 1])
      /\ \A key \in PlaceKeys : key \notin DOMAIN common
  BY <1>1 DEF CommonParams, PlaceKeys
<1>3. \A key \in PlaceKeys : key \in DOMAIN place
  BY <1>1 DEF Place, PlaceKeys
<1>4. ASSUME NEW key \in DOMAIN (common ++ place)
      PROVE  serialize_transaction(n, i)[key] = (common ++ place)[key]
  <2>1. PICK two : two = common ++ place
    OBVIOUS
  <2>2. key \in DOMAIN (two ++ signed) /\ (two ++ signed)[key] = two[key]
    BY <1>4, <2>1, MergeLeft
  <2>3. /\ key \in DOMAIN (two ++ signed ++ typed)
        /\ (two ++ signed ++ typed)[key] = two[key]
    BY <2>2, MergeLeft
  <2>4. /\ key \in DOMAIN (two ++ signed ++ typed ++ dynamic)
        /\ (two ++ signed ++ typed ++ dynamic)[key] = two[key]
    BY <2>3, MergeLeft
  <2>5. (two ++ signed ++ typed ++ dynamic ++ blob)[key] = two[key]
    BY <2>4, MergeLeft
  <2> QED
    BY <1>1, <2>1, <2>5
<1>5. "hash" \in DOMAIN (common ++ place) /\ (common ++ place)["hash"] = common["hash"]
  BY <1>2, MergeLeft
<1>6. ASSUME NEW key \in PlaceKeys
      PROVE  key \in DOMAIN (common ++ place) /\ (common ++ place)[key] = place[key]
  BY <1>2, <1>3, MergeRight
<1> QED
  BY <1>1, <1>2, <1>4, <1>5, <1>6

(* A receipt has its transaction's hash and place.                         *)
LEMMA ReceiptKeys ==
    ASSUME NEW n, NEW i
    PROVE  /\ serialize_transaction_receipt(n, i)["transaction_hash"]
                = TxHash(BlockAt(n)[i + 1])
           /\ \A key \in PlaceKeys :
                 serialize_transaction_receipt(n, i)[key] = Place(n, i)[key]
<1>1. PICK place, own, blob :
         /\ serialize_transaction_receipt(n, i) = place ++ own ++ blob
         /\ place = Place(n, i)
         /\ "transaction_hash" \in DOMAIN own
         /\ own["transaction_hash"] = TxHash(BlockAt(n)[i + 1])
  BY DEF serialize_transaction_receipt
<1>2. /\ \A key \in PlaceKeys : key \in DOMAIN place
      /\ "transaction_hash" \notin DOMAIN place
  BY <1>1 DEF Place, PlaceKeys
<1>3. ASSUME NEW key \in DOMAIN (place ++ own)
      PROVE  serialize_transaction_receipt(n, i)[key] = (place ++ own)[key]
  BY <1>1, <1>3, MergeLeft
<1>4. /\ "transaction_hash" \in DOMAIN (place ++ own)
      /\ (place ++ own)["transaction_hash"] = own["transaction_hash"]
  BY <1>1, <1>2, MergeRight
<1>5. ASSUME NEW key \in PlaceKeys
      PROVE  key \in DOMAIN (place ++ own) /\ (place ++ own)[key] = place[key]
  BY <1>2, MergeLeft
<1> QED
  BY <1>1, <1>3, <1>4, <1>5

(* So has each of its log entries.                                         *)
LEMMA LogKeys ==
    ASSUME NEW n, NEW i, NEW k \in DOMAIN Logs(n, i), NEW key \in PlaceKeys
    PROVE  Logs(n, i)[k][key] = Place(n, i)[key]
<1>1. Logs(n, i)[k] = serialize_log(n, i, k - 1)
  BY DEF Logs
<1>2. PICK own : serialize_log(n, i, k - 1) = Place(n, i) ++ own
  BY DEF serialize_log
<1>3. key \in DOMAIN Place(n, i)
  BY DEF Place, PlaceKeys
<1> QED
  BY <1>1, <1>2, <1>3, MergeLeft

(* A block names itself by its hash.                                       *)
LEMMA BlockKeys ==
    ASSUME NEW n
    PROVE  serialize_block(n)["hash"] = BlockHash(n)
<1> DEFINE Ints0 == Each({"logs_bloom", "difficulty", "total_difficulty", "size",
                         "gas_limit", "gas_used", "timestamp"}, Some("int"))
           Hashes0 == Each({"parent_hash", "sha3_uncles", "transactions_root",
                            "receipts_root", "state_root", "mix_hash", "extra_data"},
                           Some("bytes32"))
           Own0 == [number |-> Of("int", n), hash |-> BlockHash(n),
                    nonce |-> Some("bytes8"), coinbase |-> Some("address"),
                    uncles |-> Some("bytes32_list")]
<1>1. PICK ints, hashes, own, others :
         /\ ints = Ints0 /\ hashes = Hashes0 /\ own = Own0 /\ others = ForkFields
  OBVIOUS
<1>2. serialize_block(n) = ints ++ hashes ++ own ++ others
  BY <1>1 DEF serialize_block
<1>3. "hash" \notin DOMAIN ints /\ "hash" \notin DOMAIN hashes
  BY <1>1 DEF Each
<1>4. "hash" \in DOMAIN own /\ own["hash"] = BlockHash(n)
  BY <1>1
<1>5. "hash" \notin DOMAIN (ints ++ hashes)
  BY <1>3, MergedKeys
<1>6. PICK two : two = ints ++ hashes
  OBVIOUS
<1>7. "hash" \in DOMAIN (two ++ own) /\ (two ++ own)["hash"] = BlockHash(n)
  BY <1>4, <1>5, <1>6, MergeRight
<1>8. (two ++ own ++ others)["hash"] = BlockHash(n)
  BY <1>7, MergeLeft
<1> QED
  BY <1>2, <1>6, <1>8

(* The answers about one transaction agree: the transaction, its receipt   *)
(* and its log entries name the same block and index, at which the block   *)
(* lists its hash.  (_get_transaction_by_hash,                             *)
(* serialize_transaction_receipt, serialize_log)                           *)
THEOREM AnswersAlwaysAgree == Spec => []AnswersAgree
<1>1. AnswersInv => AnswersAgree
  <2> SUFFICES ASSUME AnswersInv, NEW hash \in 1..sent
               PROVE  LET found == _get_transaction_by_hash(hash)
                          transaction == serialize_transaction(found[1], found[2])
                          receipt == serialize_transaction_receipt(found[1], found[2])
                          logs == Logs(found[1], found[2])
                          number == transaction["block_number"]
                          index == transaction["transaction_index"]
                      IN  /\ transaction["hash"].val = hash
                          /\ receipt["transaction_hash"].val = hash
                          /\ \A key \in {"block_hash", "block_number", "transaction_index"} :
                                /\ receipt[key] = transaction[key]
                                /\ \A k \in DOMAIN logs : logs[k][key] = transaction[key]
                                /\ (transaction[key] = Null) <=> (found[1] = HeadNumber)
                          /\ number # Null =>
                                /\ transaction["block_hash"] = serialize_block(number.val)["hash"]
                                /\ TransactionHashes(number.val)[index.val + 1].val = hash
    BY DEF AnswersAgree
  <2>1. PICK n \in Numbers, i \in Nat :
              /\ _get_transaction_by_hash(hash) = <<n, i>>
              /\ i + 1 \in 1..Len(BlockAt(n))
              /\ BlockAt(n)[i + 1].hash = hash
    BY FoundPlace
  <2>2. PICK transaction : transaction = serialize_transaction(n, i)
    OBVIOUS
  <2>3. PICK receipt : receipt = serialize_transaction_receipt(n, i)
    OBVIOUS
  <2>4. PICK logs : logs = Logs(n, i)
    OBVIOUS
  <2>5. PICK place : place = Place(n, i)
    OBVIOUS
  <2>6. /\ transaction["hash"] = TxHash(BlockAt(n)[i + 1])
        /\ receipt["transaction_hash"] = TxHash(BlockAt(n)[i + 1])
    BY <2>2, <2>3, TransactionKeys, ReceiptKeys
  <2>7. transaction["hash"].val = hash /\ receipt["transaction_hash"].val = hash
    BY <2>1, <2>6 DEF TxHash, Of
  <2>8. ASSUME NEW key \in PlaceKeys
        PROVE  /\ transaction[key] = place[key] /\ receipt[key] = place[key]
               /\ \A k \in DOMAIN logs : logs[k][key] = place[key]
    BY <2>2, <2>3, <2>4, <2>5, TransactionKeys, ReceiptKeys, LogKeys
  <2>9. /\ \A number : Of("int", number) # Null /\ Of("bytes32", number) # Null
        /\ \A number : Of("int", number).val = number
    BY DEF Of, Null, Some
  <2>10. /\ n = HeadNumber => \A key \in PlaceKeys : place[key] = Null
         /\ n # HeadNumber => /\ place["block_hash"] = BlockHash(n)
                              /\ place["block_number"] = Of("int", n)
                              /\ place["transaction_index"] = Of("int", i)
    BY <2>5 DEF Place, PlaceKeys
  <2>11. \A key \in PlaceKeys : (place[key] = Null) <=> (n = HeadNumber)
    BY <2>9, <2>10 DEF BlockHash, PlaceKeys
  <2>12. ASSUME place["block_number"] # Null
         PROVE  /\ place["block_hash"] = serialize_block(place["block_number"].val)["hash"]
                /\ TransactionHashes(place["block_number"].val)
                     [place["transaction_index"].val + 1].val = hash
    <3>1. n # HeadNumber
      BY <2>10, <2>12 DEF PlaceKeys
    <3>2. place["block_number"].val = n /\ place["transaction_index"].val = i
      BY <2>9, <2>10, <3>1
    <3>3. place["block_hash"] = serialize_block(n)["hash"]
      BY <2>10, <3>1, BlockKeys
    <3>4. i + 1 \in DOMAIN BlockAt(n)
      <4>1. BlockAt(n) \in Seq(Executed)
        BY BlockType DEF AnswersInv
      <4> QED
        BY <2>1, <4>1
    <3>5. TransactionHashes(n)[i + 1].val = hash
      BY <2>1, <3>4 DEF TransactionHashes, TxHash, Of
    <3> QED
      BY <3>2, <3>3, <3>5
  <2>13. <<n, i>>[1] = n /\ <<n, i>>[2] = i
    OBVIOUS
  <2>14. "block_hash" \in PlaceKeys /\ "block_number" \in PlaceKeys
         /\ "transaction_index" \in PlaceKeys
    BY DEF PlaceKeys
  <2>15. /\ transaction["block_hash"] = place["block_hash"]
         /\ transaction["block_number"] = place["block_number"]
         /\ transaction["transaction_index"] = place["transaction_index"]
    BY <2>8, <2>14
  <2>16. \A key \in PlaceKeys :
            /\ receipt[key] = transaction[key]
            /\ \A k \in DOMAIN logs : logs[k][key] = transaction[key]
            /\ (transaction[key] = Null) <=> (n = HeadNumber)
    BY <2>8, <2>11
  <2>17. transaction["block_number"] # Null =>
            /\ transaction["block_hash"]
                 = serialize_block(transaction["block_number"].val)["hash"]
            /\ TransactionHashes(transaction["block_number"].val)
                 [transaction["transaction_index"].val + 1].val = hash
    BY <2>12, <2>15
  <2> QED
    BY <2>1, <2>2, <2>3, <2>4, <2>7, <2>13, <2>16, <2>17 DEF PlaceKeys
<1> QED
  BY AnswersInvariant, <1>1, PTL

-----------------------------------------------------------------------------
(* What is answered passes the outbound checks, part by part.              *)

(* The parts of a transaction's dictionary, for each type of transaction.  *)
LEMMA TransactionParts ==
    ASSUME NEW n, NEW i, NEW tx \in Executed, tx = BlockAt(n)[i + 1],
           NEW part \in {CommonParams(tx), Place(n, i)}
    PROVE  /\ normalize_dict(part, TRANSACTION_NORMALIZERS)
           /\ normalize_dict(part, LEGACY_TRANSACTION_VALIDATORS)
           /\ normalize_dict(part, ACCESS_LIST_TRANSACTION_VALIDATORS)
           /\ normalize_dict(part, DYNAMIC_FEE_TRANSACTION_VALIDATORS)
           /\ normalize_dict(part, BLOB_TRANSACTION_VALIDATORS)
<1>1. \A key \in DOMAIN part :
         /\ key \in DOMAIN LEGACY_TRANSACTION_VALIDATORS \ {"v"}
         /\ part[key].is \in LEGACY_TRANSACTION_VALIDATORS[key]
         /\ key \in DOMAIN TRANSACTION_NORMALIZERS
         /\ part[key].is \in TRANSACTION_NORMALIZERS[key]
  <2>1. CASE part = CommonParams(tx)
    BY <2>1, LegacyValidators, TransactionNormalizers
       DEF CommonParams, Recipient, TxHash, Some, Of, if_not_create_address,
           Ints, AnyBytes, AnyKind
  <2>2. CASE part = Place(n, i)
    <3>1. CASE n = HeadNumber
      <4>1. part = [block_hash |-> Null, block_number |-> Null,
                    transaction_index |-> Null]
        BY <2>2, <3>1 DEF Place
      <4> QED
        BY <4>1, LegacyValidators, TransactionNormalizers
           DEF Null, Some, if_not_null, Ints, AnyKind
    <3>2. CASE n # HeadNumber
      <4>1. part = [block_hash |-> BlockHash(n), block_number |-> Of("int", n),
                    transaction_index |-> Of("int", i)]
        BY <2>2, <3>2 DEF Place
      <4> QED
        BY <4>1, LegacyValidators, TransactionNormalizers
           DEF BlockHash, Of, if_not_null, Ints, AnyBytes, AnyKind
    <3> QED
      BY <3>1, <3>2
  <2> QED
    BY <2>1, <2>2
<1> QED
  BY <1>1, AccessListValidators, DynamicFeeValidators, BlobValidators
     DEF normalize_dict

(* The validators that were written for a type.                            *)
ValidatorsOf(type) ==
    CASE type = LEGACY_TX_TYPE -> LEGACY_TRANSACTION_VALIDATORS
      [] type = ACCESS_LIST_TX_TYPE -> ACCESS_LIST_TRANSACTION_VALIDATORS
      [] type = DYNAMIC_FEE_TX_TYPE -> DYNAMIC_FEE_TRANSACTION_VALIDATORS
      [] OTHER -> BLOB_TRANSACTION_VALIDATORS

LEMMA ValidatorsByType ==
    /\ ValidatorsOf(0) = LEGACY_TRANSACTION_VALIDATORS
    /\ ValidatorsOf(1) = ACCESS_LIST_TRANSACTION_VALIDATORS
    /\ ValidatorsOf(2) = DYNAMIC_FEE_TRANSACTION_VALIDATORS
    /\ ValidatorsOf(3) = BLOB_TRANSACTION_VALIDATORS
    /\ TransactionValidators = { ValidatorsOf(type) : type \in 0..3 }
<1>1. /\ ValidatorsOf(0) = LEGACY_TRANSACTION_VALIDATORS
      /\ ValidatorsOf(1) = ACCESS_LIST_TRANSACTION_VALIDATORS
      /\ ValidatorsOf(2) = DYNAMIC_FEE_TRANSACTION_VALIDATORS
      /\ ValidatorsOf(3) = BLOB_TRANSACTION_VALIDATORS
  BY DEF ValidatorsOf, LEGACY_TX_TYPE, ACCESS_LIST_TX_TYPE, DYNAMIC_FEE_TX_TYPE
<1>2. 0..3 = {0, 1, 2, 3}
  OBVIOUS
<1> QED
  BY <1>1, <1>2 DEF TransactionValidators

(* No two types have validators of the same keys.                          *)
LEMMA ValidatorKeysDiffer ==
    ASSUME NEW a \in 0..3, NEW b \in 0..3,
           DOMAIN ValidatorsOf(a) = DOMAIN ValidatorsOf(b)
    PROVE  a = b
<1>1. /\ {"y_parity", "max_fee_per_gas", "max_fee_per_blob_gas"}
            \cap DOMAIN ValidatorsOf(0) = {}
      /\ {"y_parity", "max_fee_per_gas", "max_fee_per_blob_gas"}
            \cap DOMAIN ValidatorsOf(1) = {"y_parity"}
      /\ {"y_parity", "max_fee_per_gas", "max_fee_per_blob_gas"}
            \cap DOMAIN ValidatorsOf(2) = {"y_parity", "max_fee_per_gas"}
      /\ {"y_parity", "max_fee_per_gas", "max_fee_per_blob_gas"}
            \cap DOMAIN ValidatorsOf(3)
           = {"y_parity", "max_fee_per_gas", "max_fee_per_blob_gas"}
  BY ValidatorsByType, LegacyValidators, AccessListValidators,
     DynamicFeeValidators, BlobValidators
<1>2. a \in {0, 1, 2, 3} /\ b \in {0, 1, 2, 3}
  OBVIOUS
<1> QED
  BY <1>1, <1>2

(* The dictionary of a transaction has the keys of its type's validators,  *)
(* passes them and the normalizers.                                        *)
(* (serialize_transaction, validate_transaction, normalize_transaction)    *)
LEMMA TransactionPassesItsType ==
    ASSUME NEW n, NEW i, BlockAt(n)[i + 1] \in Executed
    PROVE  LET validators == ValidatorsOf(BlockAt(n)[i + 1].type)
               value == serialize_transaction(n, i)
           IN  /\ DOMAIN value = DOMAIN validators
               /\ normalize_dict(value, validators)
               /\ normalize_dict(value, TRANSACTION_NORMALIZERS)
<1>1. PICK tx \in Executed : tx = BlockAt(n)[i + 1]
  OBVIOUS
<1>2. PICK common, place, signed, typed, dynamic, blob :
         /\ serialize_transaction(n, i)
              = common ++ place ++ signed ++ typed ++ dynamic ++ blob
         /\ common = CommonParams(tx)
         /\ place = Place(n, i)
         /\ signed = SignedParams(tx)
         /\ typed = IF tx.type > LEGACY_TX_TYPE THEN TypedParams ELSE NoParams
         /\ dynamic = IF tx.type >= DYNAMIC_FEE_TX_TYPE
                      THEN DynamicFeeParams ELSE NoParams
         /\ blob = IF tx.type = BLOB_TX_TYPE THEN BlobParams ELSE NoParams
  BY <1>1 DEF serialize_transaction
<1>3. DOMAIN serialize_transaction(n, i)
        = DOMAIN common \cup DOMAIN place \cup DOMAIN signed
          \cup DOMAIN typed \cup DOMAIN dynamic \cup DOMAIN blob
  <2>1. DOMAIN (common ++ place) = DOMAIN common \cup DOMAIN place
    BY MergedKeys
  <2>2. DOMAIN (common ++ place ++ signed)
          = DOMAIN (common ++ place) \cup DOMAIN signed
    BY MergedKeys
  <2>3. DOMAIN (common ++ place ++ signed ++ typed)
          = DOMAIN (common ++ place ++ signed) \cup DOMAIN typed
    BY MergedKeys
  <2>4. DOMAIN (common ++ place ++ signed ++ typed ++ dynamic)
          = DOMAIN (common ++ place ++ signed ++ typed) \cup DOMAIN dynamic
    BY MergedKeys
  <2>5. DOMAIN (common ++ place ++ signed ++ typed ++ dynamic ++ blob)
          = DOMAIN (common ++ place ++ signed ++ typed ++ dynamic)
            \cup DOMAIN blob
    BY MergedKeys
  <2> QED
    BY <1>2, <2>1, <2>2, <2>3, <2>4, <2>5
<1>4. /\ DOMAIN common = {"type", "hash", "nonce", "from", "to", "value", "gas",
                          "data", "gas_price"}
      /\ DOMAIN place = {"block_hash", "block_number", "transaction_index"}
  BY <1>2 DEF CommonParams, Place
<1>5. /\ DOMAIN NoParams = {}
      /\ DOMAIN TypedParams = {"chain_id", "access_list"}
      /\ DOMAIN DynamicFeeParams = {"max_fee_per_gas", "max_priority_fee_per_gas"}
      /\ DOMAIN BlobParams = {"max_fee_per_blob_gas", "blob_versioned_hashes"}
  BY DEF NoParams, TypedParams, DynamicFeeParams, BlobParams
<1>6. tx.type \in 0..3
  BY DEF Executed, Types, LEGACY_TX_TYPE, BLOB_TX_TYPE
<1>7. /\ DOMAIN signed = IF tx.type = 0 THEN {"v", "r", "s"}
                         ELSE {"v", "r", "s", "y_parity"}
      /\ signed["v"] = Some(IF tx.type = 0 THEN "v" ELSE "bit")
      /\ signed["r"] = Some("int") /\ signed["s"] = Some("int")
      /\ tx.type # 0 => signed["y_parity"] = Some("bit")
  <2>1. signed = SignedParams(tx)
    BY <1>2
  <2>2. CASE tx.type = 0
    <3>1. signed = [v |-> Some("v"), r |-> Some("int"), s |-> Some("int")] ++ NoParams
      BY <2>1, <2>2 DEF SignedParams, LEGACY_TX_TYPE
    <3> QED
      BY <2>2, <3>1 DEF ++, NoParams
  <2>3. CASE tx.type # 0
    <3>1. signed = [v |-> Some("bit"), r |-> Some("int"), s |-> Some("int")]
                   ++ [y_parity |-> Some("bit")]
      BY <1>6, <2>1, <2>3 DEF SignedParams, LEGACY_TX_TYPE
    <3> QED
      BY <2>3, <3>1 DEF ++, NoParams
  <2> QED
    BY <2>2, <2>3
<1>8. ASSUME NEW validators,
             normalize_dict(common, validators), normalize_dict(place, validators),
             normalize_dict(signed, validators), normalize_dict(typed, validators),
             normalize_dict(dynamic, validators), normalize_dict(blob, validators)
      PROVE  normalize_dict(serialize_transaction(n, i), validators)
  <2>1. normalize_dict(common ++ place, validators)
    BY <1>8, NormalizeParts
  <2>2. normalize_dict(common ++ place ++ signed, validators)
    BY <1>8, <2>1, NormalizeParts
  <2>3. normalize_dict(common ++ place ++ signed ++ typed, validators)
    BY <1>8, <2>2, NormalizeParts
  <2>4. normalize_dict(common ++ place ++ signed ++ typed ++ dynamic, validators)
    BY <1>8, <2>3, NormalizeParts
  <2> QED
    BY <1>2, <1>8, <2>4, NormalizeParts
<1>9. normalize_dict(serialize_transaction(n, i), TRANSACTION_NORMALIZERS)
  <2>1. /\ normalize_dict(common, TRANSACTION_NORMALIZERS)
        /\ normalize_dict(place, TRANSACTION_NORMALIZERS)
    BY <1>1, <1>2, TransactionParts
  <2>2. normalize_dict(signed, TRANSACTION_NORMALIZERS)
    BY <1>7, TransactionNormalizers DEF normalize_dict, Some, AnyKind, Ints
  <2>3. /\ normalize_dict(NoParams, TRANSACTION_NORMALIZERS)
        /\ normalize_dict(TypedParams, TRANSACTION_NORMALIZERS)
        /\ normalize_dict(DynamicFeeParams, TRANSACTION_NORMALIZERS)
        /\ normalize_dict(BlobParams, TRANSACTION_NORMALIZERS)
    BY TransactionNormalizers
       DEF normalize_dict, NoParams, TypedParams, DynamicFeeParams, BlobParams,
           Some, AnyKind, Ints
  <2> QED
    BY <1>2, <1>8, <2>1, <2>2, <2>3
<1>10. CASE tx.type = 0
  <2>1. typed = NoParams /\ dynamic = NoParams /\ blob = NoParams
    BY <1>2, <1>10 DEF LEGACY_TX_TYPE, DYNAMIC_FEE_TX_TYPE, BLOB_TX_TYPE
  <2>2. DOMAIN serialize_transaction(n, i) = DOMAIN LEGACY_TRANSACTION_VALIDATORS
    BY <1>3, <1>4, <1>5, <1>7, <1>10, <2>1, LegacyValidators
  <2>3. normalize_dict(signed, LEGACY_TRANSACTION_VALIDATORS)
    BY <1>7, <1>10, LegacyValidators DEF normalize_dict, Some, Ints
  <2>4. normalize_dict(NoParams, LEGACY_TRANSACTION_VALIDATORS)
    BY DEF normalize_dict, NoParams
  <2>5. normalize_dict(serialize_transaction(n, i), LEGACY_TRANSACTION_VALIDATORS)
    BY <1>1, <1>2, <1>8, <2>1, <2>3, <2>4, TransactionParts
  <2> QED
    BY <1>1, <1>9, <2>2, <2>5, <1>10, ValidatorsByType
<1>11. CASE tx.type = 1
  <2>1. typed = TypedParams /\ dynamic = NoParams /\ blob = NoParams
    BY <1>2, <1>11 DEF LEGACY_TX_TYPE, DYNAMIC_FEE_TX_TYPE, BLOB_TX_TYPE
  <2>2. DOMAIN serialize_transaction(n, i)
          = DOMAIN ACCESS_LIST_TRANSACTION_VALIDATORS
    BY <1>3, <1>4, <1>5, <1>7, <1>11, <2>1, LegacyValidators, AccessListValidators
  <2>3. /\ normalize_dict(signed, ACCESS_LIST_TRANSACTION_VALIDATORS)
        /\ normalize_dict(typed, ACCESS_LIST_TRANSACTION_VALIDATORS)
        /\ normalize_dict(NoParams, ACCESS_LIST_TRANSACTION_VALIDATORS)
    BY <1>7, <1>11, <2>1, LegacyValidators, AccessListValidators
       DEF normalize_dict, Some, Ints, TypedParams, NoParams
  <2>4. normalize_dict(serialize_transaction(n, i),
                       ACCESS_LIST_TRANSACTION_VALIDATORS)
    BY <1>1, <1>2, <1>8, <2>1, <2>3, TransactionParts
  <2> QED
    BY <1>1, <1>9, <2>2, <2>4, <1>11, ValidatorsByType
<1>12. CASE tx.type = 2
  <2>1. typed = TypedParams /\ dynamic = DynamicFeeParams /\ blob = NoParams
    BY <1>2, <1>12 DEF LEGACY_TX_TYPE, DYNAMIC_FEE_TX_TYPE, BLOB_TX_TYPE
  <2>2. DOMAIN serialize_transaction(n, i)
          = DOMAIN DYNAMIC_FEE_TRANSACTION_VALIDATORS
    BY <1>3, <1>4, <1>5, <1>7, <1>12, <2>1, LegacyValidators,
       AccessListValidators, DynamicFeeValidators
  <2>3. /\ normalize_dict(signed, DYNAMIC_FEE_TRANSACTION_VALIDATORS)
        /\ normalize_dict(typed, DYNAMIC_FEE_TRANSACTION_VALIDATORS)
        /\ normalize_dict(dynamic, DYNAMIC_FEE_TRANSACTION_VALIDATORS)
        /\ normalize_dict(NoParams, DYNAMIC_FEE_TRANSACTION_VALIDATORS)
    BY <1>7, <1>12, <2>1, LegacyValidators, AccessListValidators,
       DynamicFeeValidators
       DEF normalize_dict, Some, Ints, TypedParams, DynamicFeeParams, NoParams
  <2>4. normalize_dict(serialize_transaction(n, i),
                       DYNAMIC_FEE_TRANSACTION_VALIDATORS)
    BY <1>1, <1>2, <1>8, <2>1, <2>3, TransactionParts
  <2> QED
    BY <1>1, <1>9, <2>2, <2>4, <1>12, ValidatorsByType
<1>13. CASE tx.type = 3
  <2>1. typed = TypedParams /\ dynamic = DynamicFeeParams /\ blob = BlobParams
    BY <1>2, <1>13 DEF LEGACY_TX_TYPE, DYNAMIC_FEE_TX_TYPE, BLOB_TX_TYPE
  <2>2. DOMAIN serialize_transaction(n, i) = DOMAIN BLOB_TRANSACTION_VALIDATORS
    BY <1>3, <1>4, <1>5, <1>7, <1>13, <2>1, LegacyValidators,
       AccessListValidators, DynamicFeeValidators, BlobValidators
  <2>3. /\ normalize_dict(signed, BLOB_TRANSACTION_VALIDATORS)
        /\ normalize_dict(typed, BLOB_TRANSACTION_VALIDATORS)
        /\ normalize_dict(dynamic, BLOB_TRANSACTION_VALIDATORS)
        /\ normalize_dict(blob, BLOB_TRANSACTION_VALIDATORS)
    BY <1>7, <1>13, <2>1, LegacyValidators, AccessListValidators,
       DynamicFeeValidators, BlobValidators
       DEF normalize_dict, Some, Ints, TypedParams, DynamicFeeParams, BlobParams
  <2>4. normalize_dict(serialize_transaction(n, i), BLOB_TRANSACTION_VALIDATORS)
    BY <1>1, <1>2, <1>8, <2>1, <2>3, TransactionParts
  <2> QED
    BY <1>1, <1>9, <2>2, <2>4, <1>13, ValidatorsByType
<1> QED
  BY <1>6, <1>10, <1>11, <1>12, <1>13

(* The answer about a transaction is returned, whatever its type.          *)
LEMMA TransactionPasses ==
    ASSUME NEW n, NEW i, BlockAt(n)[i + 1] \in Executed
    PROVE  TransactionReturned(serialize_transaction(n, i))
<1>1. BlockAt(n)[i + 1].type \in 0..3
  BY DEF Executed, Types, LEGACY_TX_TYPE, BLOB_TX_TYPE
<1>2. PICK validators : validators = ValidatorsOf(BlockAt(n)[i + 1].type)
  OBVIOUS
<1>3. validators \in TransactionValidators
  BY <1>1, <1>2, ValidatorsByType
<1> QED
  BY <1>2, <1>3, TransactionPassesItsType, ReturnedWhenValid

(* One validator accepts all transactions of a block exactly when they     *)
(* have one type: the keys of a transaction are those of its own type's    *)
(* validators and of no other's.                                           *)
(* (validate_any over the tuple of "transactions" in outbound.py)          *)
LEMMA FullTransactionsPassByType ==
    ASSUME NEW n, BlockAt(n) \in Seq(Executed)
    PROVE  validate_transaction_objects(TransactionObjects(n)) <=> OneType(n)
<1> DEFINE items == TransactionObjects(n)
           type(i) == BlockAt(n)[i].type
<1>1. /\ DOMAIN items = DOMAIN BlockAt(n)
      /\ \A i \in DOMAIN BlockAt(n) : items[i] = serialize_transaction(n, i - 1)
  BY DEF TransactionObjects
<1>2. ASSUME NEW i \in DOMAIN BlockAt(n)
      PROVE  /\ type(i) \in 0..3
             /\ DOMAIN items[i] = DOMAIN ValidatorsOf(type(i))
             /\ normalize_dict(items[i], ValidatorsOf(type(i)))
  <2>1. BlockAt(n)[i] \in Executed /\ (i - 1) + 1 = i
    OBVIOUS
  <2>2. type(i) \in 0..3
    BY <2>1 DEF Executed, Types, LEGACY_TX_TYPE, BLOB_TX_TYPE
  <2>3. BlockAt(n)[(i - 1) + 1] \in Executed
    BY <2>1
  <2>4. PICK k : k = i - 1
    OBVIOUS
  <2>5. BlockAt(n)[k + 1] = BlockAt(n)[i]
    BY <2>1, <2>4
  <2>6. /\ DOMAIN serialize_transaction(n, k) = DOMAIN ValidatorsOf(type(i))
        /\ normalize_dict(serialize_transaction(n, k), ValidatorsOf(type(i)))
    BY <2>1, <2>5, TransactionPassesItsType
  <2> QED
    BY <1>1, <2>2, <2>4, <2>6
<1>3. ASSUME OneType(n)
      PROVE  validate_transaction_objects(items)
  <2>1. CASE DOMAIN BlockAt(n) = {}
    <3>1. ValidatorsOf(0) \in TransactionValidators
      BY ValidatorsByType
    <3> QED
      BY <1>1, <2>1, <3>1 DEF validate_transaction_objects
  <2>2. CASE DOMAIN BlockAt(n) # {}
    <3>1. PICK j : j \in DOMAIN BlockAt(n)
      BY <2>2
    <3>2. PICK validators : validators = ValidatorsOf(type(j))
      OBVIOUS
    <3>3. validators \in TransactionValidators
      BY <1>2, <3>1, <3>2, ValidatorsByType
    <3>4. ASSUME NEW i \in DOMAIN items
          PROVE  validate_dict(items[i], validators)
      <4>1. i \in DOMAIN BlockAt(n)
        BY <1>1
      <4>2. type(i) = type(j)
        BY <1>3, <3>1, <4>1 DEF OneType
      <4>3. ValidatorsOf(type(i)) = validators
        BY <3>2, <4>2
      <4>4. /\ DOMAIN items[i] = DOMAIN validators
            /\ normalize_dict(items[i], validators)
        BY <1>2, <4>1, <4>3
      <4> QED
        BY <4>4, ValidateByKeys
    <3> QED
      BY <3>3, <3>4 DEF validate_transaction_objects
  <2> QED
    BY <2>1, <2>2
<1>4. ASSUME validate_transaction_objects(items)
      PROVE  OneType(n)
  <2>1. PICK validators \in TransactionValidators :
           \A i \in DOMAIN items : validate_dict(items[i], validators)
    BY <1>4 DEF validate_transaction_objects
  <2>2. ASSUME NEW i \in DOMAIN BlockAt(n)
        PROVE  DOMAIN ValidatorsOf(type(i)) = DOMAIN validators
    <3>1. validate_dict(items[i], validators)
      BY <1>1, <2>1
    <3>2. DOMAIN items[i] = DOMAIN validators
      BY <3>1 DEF validate_dict
    <3> QED
      BY <1>2, <3>2
  <2>3. ASSUME NEW i \in DOMAIN BlockAt(n), NEW j \in DOMAIN BlockAt(n)
        PROVE  BlockAt(n)[i].type = BlockAt(n)[j].type
    <3>1. DOMAIN ValidatorsOf(type(i)) = DOMAIN ValidatorsOf(type(j))
      BY <2>2
    <3>2. type(i) \in 0..3 /\ type(j) \in 0..3
      BY <1>2
    <3> QED
      BY <3>1, <3>2, ValidatorKeysDiffer
  <2> QED
    BY <2>3 DEF OneType
<1> QED
  BY <1>3, <1>4

(* Every log entry of a receipt is returned.  (serialize_log)              *)
LEMMA LogPasses ==
    ASSUME NEW n, NEW i, NEW k \in DOMAIN Logs(n, i)
    PROVE  /\ validate_dict(Logs(n, i)[k], LOG_ENTRY_VALIDATORS)
           /\ normalize_dict(Logs(n, i)[k], LOG_ENTRY_NORMALIZERS)
<1>1. PICK place, own :
         /\ Logs(n, i)[k] = place ++ own
         /\ place = Place(n, i)
         /\ own = [type |-> Some("text"), log_index |-> Of("int", k - 1),
                   transaction_hash |-> TxHash(BlockAt(n)[i + 1]),
                   address |-> Some("address"), data |-> Some("data"),
                   topics |-> Some("bytes32_list")]
  BY DEF Logs, serialize_log
<1>2. DOMAIN (place ++ own) = DOMAIN LOG_ENTRY_VALIDATORS
  <2>1. DOMAIN (place ++ own) = DOMAIN place \cup DOMAIN own
    BY MergedKeys
  <2> QED
    BY <1>1, <2>1 DEF Place, LOG_ENTRY_VALIDATORS
<1>3. /\ normalize_dict(place, LOG_ENTRY_VALIDATORS)
      /\ normalize_dict(place, LOG_ENTRY_NORMALIZERS)
  <2>1. CASE n = HeadNumber
    <3>1. place = [block_hash |-> Null, block_number |-> Null,
                   transaction_index |-> Null]
      BY <1>1, <2>1 DEF Place
    <3> QED
      BY <3>1 DEF normalize_dict, LOG_ENTRY_VALIDATORS, LOG_ENTRY_NORMALIZERS,
                  Null, Some, if_not_null, AnyKind
  <2>2. CASE n # HeadNumber
    <3>1. place = [block_hash |-> BlockHash(n), block_number |-> Of("int", n),
                   transaction_index |-> Of("int", i)]
      BY <1>1, <2>2 DEF Place
    <3> QED
      BY <3>1 DEF normalize_dict, LOG_ENTRY_VALIDATORS, LOG_ENTRY_NORMALIZERS,
                  BlockHash, Of, if_not_null, Ints, AnyBytes, AnyKind
  <2> QED
    BY <2>1, <2>2
<1>4. /\ normalize_dict(own, LOG_ENTRY_VALIDATORS)
      /\ normalize_dict(own, LOG_ENTRY_NORMALIZERS)
  BY <1>1 DEF normalize_dict, LOG_ENTRY_VALIDATORS, LOG_ENTRY_NORMALIZERS,
              TxHash, Some, Of, Ints, AnyBytes, AnyKind
<1>5. /\ normalize_dict(place ++ own, LOG_ENTRY_VALIDATORS)
      /\ normalize_dict(place ++ own, LOG_ENTRY_NORMALIZERS)
  BY <1>3, <1>4, NormalizeParts
<1> QED
  BY <1>1, <1>2, <1>5, ValidateByKeys

(* The receipt of a transaction is returned, whatever its type and status. *)
(* (serialize_transaction_receipt, validate_receipt, normalize_receipt)    *)
LEMMA ReceiptPasses ==
    ASSUME NEW n, NEW i, BlockAt(n)[i + 1] \in Executed
    PROVE  ReceiptReturned(serialize_transaction_receipt(n, i), Logs(n, i))
<1>1. PICK tx \in Executed : tx = BlockAt(n)[i + 1]
  OBVIOUS
<1>2. PICK place, own, blob, cumulative, used :
         /\ serialize_transaction_receipt(n, i) = place ++ own ++ blob
         /\ place = Place(n, i)
         /\ own = [contract_address |-> IF tx.creates THEN Some("address") ELSE Null,
                   cumulative_gas_used |-> Of("int", cumulative),
                   effective_gas_price |-> Some("int"), from |-> Some("address"),
                   gas_used |-> Of("int", used),
                   logs |-> Some("logs"), state_root |-> Some("data"),
                   status |-> Of("bit", tx.status), to |-> Recipient(tx),
                   transaction_hash |-> TxHash(tx), type |-> Of("type", tx.type)]
         /\ blob = IF tx.type = BLOB_TX_TYPE
                   THEN [blob_gas_used |-> Some("int"), blob_gas_price |-> Some("int")]
                   ELSE NoParams
  BY <1>1 DEF serialize_transaction_receipt
<1>3. PICK receipt : receipt = serialize_transaction_receipt(n, i)
  OBVIOUS
<1>4. DOMAIN receipt = DOMAIN place \cup DOMAIN own \cup DOMAIN blob
  <2>1. DOMAIN (place ++ own) = DOMAIN place \cup DOMAIN own
    BY MergedKeys
  <2>2. DOMAIN (place ++ own ++ blob) = DOMAIN (place ++ own) \cup DOMAIN blob
    BY MergedKeys
  <2> QED
    BY <1>2, <1>3, <2>1, <2>2
<1>5. /\ DOMAIN place = {"block_hash", "block_number", "transaction_index"}
      /\ DOMAIN own = {"contract_address", "cumulative_gas_used",
                       "effective_gas_price", "from", "gas_used", "logs",
                       "state_root", "status", "to", "transaction_hash", "type"}
  BY <1>2 DEF Place
<1>6. /\ normalize_dict(place, RECEIPT_VALIDATORS)
      /\ normalize_dict(place, RECEIPT_NORMALIZERS)
  <2>1. CASE n = HeadNumber
    <3>1. place = [block_hash |-> Null, block_number |-> Null,
                   transaction_index |-> Null]
      BY <1>2, <2>1 DEF Place
    <3> QED
      BY <3>1, ReceiptNormalizers
         DEF normalize_dict, RECEIPT_VALIDATORS, Null, Some, if_not_null, AnyKind
  <2>2. CASE n # HeadNumber
    <3>1. place = [block_hash |-> BlockHash(n), block_number |-> Of("int", n),
                   transaction_index |-> Of("int", i)]
      BY <1>2, <2>2 DEF Place
    <3> QED
      BY <3>1, ReceiptNormalizers
         DEF normalize_dict, RECEIPT_VALIDATORS, BlockHash, Of, if_not_null,
             Ints, AnyBytes, AnyKind
  <2> QED
    BY <2>1, <2>2
<1>7. /\ normalize_dict(own, RECEIPT_VALIDATORS)
      /\ normalize_dict(own, RECEIPT_NORMALIZERS)
  BY <1>2, ReceiptNormalizers
     DEF normalize_dict, RECEIPT_VALIDATORS, Recipient, TxHash, Null, Some, Of,
         if_not_null, if_not_create_address, Ints, AnyBytes, AnyKind
<1>8. ASSUME NEW validators,
             normalize_dict(place, validators), normalize_dict(own, validators),
             normalize_dict(blob, validators)
      PROVE  normalize_dict(receipt, validators)
  <2>1. normalize_dict(place ++ own, validators)
    BY <1>8, NormalizeParts
  <2> QED
    BY <1>2, <1>3, <1>8, <2>1, NormalizeParts
<1>9. /\ \/ validate_dict(receipt, RECEIPT_VALIDATORS)
         \/ validate_dict(receipt, CANCUN_RECEIPT_VALIDATORS)
      /\ normalize_dict(receipt, RECEIPT_NORMALIZERS)
  <2>1. CASE tx.type = BLOB_TX_TYPE
    <3>1. blob = [blob_gas_used |-> Some("int"), blob_gas_price |-> Some("int")]
      BY <1>2, <2>1
    <3>2. DOMAIN receipt = DOMAIN CANCUN_RECEIPT_VALIDATORS
      BY <1>4, <1>5, <3>1, ReceiptValidators
    <3>3. /\ normalize_dict(place, CANCUN_RECEIPT_VALIDATORS)
          /\ normalize_dict(own, CANCUN_RECEIPT_VALIDATORS)
      BY <1>6, <1>7, ReceiptValidators DEF normalize_dict
    <3>4. /\ normalize_dict(blob, CANCUN_RECEIPT_VALIDATORS)
          /\ normalize_dict(blob, RECEIPT_NORMALIZERS)
      BY <3>1, ReceiptValidators, ReceiptNormalizers
         DEF normalize_dict, Some, Ints, AnyKind
    <3> QED
      BY <1>6, <1>7, <1>8, <3>2, <3>3, <3>4, ValidateByKeys
  <2>2. CASE tx.type # BLOB_TX_TYPE
    <3>1. blob = NoParams /\ DOMAIN blob = {}
      BY <1>2, <2>2 DEF NoParams
    <3>2. DOMAIN receipt = DOMAIN RECEIPT_VALIDATORS
      BY <1>4, <1>5, <3>1, ReceiptValidators
    <3>3. /\ normalize_dict(blob, RECEIPT_VALIDATORS)
          /\ normalize_dict(blob, RECEIPT_NORMALIZERS)
      BY <3>1 DEF normalize_dict
    <3> QED
      BY <1>6, <1>7, <1>8, <3>2, <3>3, ValidateByKeys
  <2> QED
    BY <2>1, <2>2
<1>10. normalize_dict(_normalize_contract_address(receipt), RECEIPT_NORMALIZERS)
  <2>1. CASE _normalize_contract_address(receipt) = receipt
    BY <1>9, <2>1
  <2>2. CASE _normalize_contract_address(receipt)
               = [receipt EXCEPT !["contract_address"] = Null]
    BY <1>9, <2>2, ReceiptNormalizers DEF normalize_dict, Null, Some, AnyKind
  <2> QED
    BY <2>1, <2>2 DEF _normalize_contract_address
<1>11. \A k \in DOMAIN Logs(n, i) :
          /\ validate_dict(Logs(n, i)[k], LOG_ENTRY_VALIDATORS)
          /\ normalize_dict(Logs(n, i)[k], LOG_ENTRY_NORMALIZERS)
  BY LogPasses
<1> QED
  BY <1>3, <1>9, <1>10, <1>11 DEF ReceiptReturned, validate_receipt

(* The answer about a block, with the hashes of its transactions, is       *)
(* returned on every fork.  (serialize_block, validate_block)              *)
LEMMA BlockWithHashesPasses ==
    ASSUME fork \in Forks, NEW n
    PROVE  BlockReturned(serialize_block(n))
<1> DEFINE IntFields == IntKeys \ {"number"}
           HashFields == HashKeys \ {"hash"}
<1>1. PICK ints, hashes, own, others :
         /\ serialize_block(n) = ints ++ hashes ++ own ++ others
         /\ ints = Each(IntFields, Some("int"))
         /\ hashes = Each(HashFields, Some("bytes32"))
         /\ own = [number |-> Of("int", n), hash |-> BlockHash(n),
                   nonce |-> Some("bytes8"), coinbase |-> Some("address"),
                   uncles |-> Some("bytes32_list")]
         /\ others = ForkFields
  <2>1. /\ IntFields = {"logs_bloom", "difficulty", "total_difficulty", "size",
                        "gas_limit", "gas_used", "timestamp"}
        /\ HashFields = {"parent_hash", "sha3_uncles", "transactions_root",
                         "receipts_root", "state_root", "mix_hash", "extra_data"}
    BY DEF IntKeys, HashKeys
  <2> HIDE DEF IntFields, HashFields
  <2> QED
    BY <2>1 DEF serialize_block
<1>2. PICK block : block = serialize_block(n)
  OBVIOUS
<1>3. DOMAIN block = DOMAIN ints \cup DOMAIN hashes \cup DOMAIN own \cup DOMAIN others
  <2>1. DOMAIN (ints ++ hashes) = DOMAIN ints \cup DOMAIN hashes
    BY MergedKeys
  <2>2. DOMAIN (ints ++ hashes ++ own) = DOMAIN (ints ++ hashes) \cup DOMAIN own
    BY MergedKeys
  <2>3. DOMAIN (ints ++ hashes ++ own ++ others)
          = DOMAIN (ints ++ hashes ++ own) \cup DOMAIN others
    BY MergedKeys
  <2> QED
    BY <1>1, <1>2, <2>1, <2>2, <2>3
<1>4. /\ DOMAIN ints = IntFields /\ \A key \in IntFields : ints[key] = Some("int")
      /\ DOMAIN hashes = HashFields
      /\ \A key \in HashFields : hashes[key] = Some("bytes32")
  <2> HIDE DEF IntFields, HashFields
  <2> QED
    BY <1>1, EachKey
<1>5. DOMAIN own = {"number", "hash", "nonce", "coinbase", "uncles"}
  BY <1>1
<1>6. PICK present \in {{}, LondonKeys, LondonKeys \cup ShanghaiKeys, ForkKeys} :
         /\ DOMAIN others = present
         /\ \A key \in present : others[key].is \in ForkValidators[key]
  <2>1. fork \in {"berlin", "london", "shanghai", "cancun"}
    BY AnswersAssumption
  <2>2. PICK london, shanghai, cancun :
           /\ others = london ++ shanghai ++ cancun
           /\ london = IF fork = "berlin" THEN NoParams
                       ELSE [base_fee_per_gas |-> Some("int")]
           /\ shanghai = IF fork \in {"berlin", "london"} THEN NoParams
                         ELSE [withdrawals |-> Some("withdrawals"),
                               withdrawals_root |-> Some("bytes32")]
           /\ cancun = IF fork # "cancun" THEN NoParams
                       ELSE [parent_beacon_block_root |-> Some("bytes32"),
                             blob_gas_used |-> Some("int"),
                             excess_blob_gas |-> Some("int")]
    BY <1>1 DEF ForkFields
  <2>3. /\ DOMAIN london = IF fork = "berlin" THEN {} ELSE LondonKeys
        /\ DOMAIN shanghai = IF fork \in {"berlin", "london"} THEN {}
                             ELSE ShanghaiKeys
        /\ DOMAIN cancun = IF fork # "cancun" THEN {} ELSE CancunKeys
    BY <2>2 DEF NoParams, LondonKeys, ShanghaiKeys, CancunKeys
  <2>4. DOMAIN others = DOMAIN london \cup DOMAIN shanghai \cup DOMAIN cancun
    <3>1. DOMAIN (london ++ shanghai) = DOMAIN london \cup DOMAIN shanghai
      BY MergedKeys
    <3>2. DOMAIN (london ++ shanghai ++ cancun)
            = DOMAIN (london ++ shanghai) \cup DOMAIN cancun
      BY MergedKeys
    <3> QED
      BY <2>2, <3>1, <3>2
  <2>5. DOMAIN others
          \in {{}, LondonKeys, LondonKeys \cup ShanghaiKeys, ForkKeys}
    BY <2>1, <2>3, <2>4 DEF ForkKeys
  <2>6. /\ normalize_dict(london, ForkValidators)
        /\ normalize_dict(shanghai, ForkValidators)
        /\ normalize_dict(cancun, ForkValidators)
    BY <2>2, ForkValidatorsOf
       DEF normalize_dict, NoParams, Some, Ints, ForkKeys, LondonKeys,
           ShanghaiKeys, CancunKeys
  <2>7. normalize_dict(london ++ shanghai, ForkValidators)
    BY <2>6, NormalizeParts
  <2>8. normalize_dict(others, ForkValidators)
    BY <2>2, <2>6, <2>7, NormalizeParts
  <2> QED
    BY <2>5, <2>8 DEF normalize_dict
<1>7. DOMAIN block = IntKeys \cup HashKeys \cup {"nonce", "coinbase", "uncles"}
                     \cup present
  BY <1>3, <1>4, <1>5, <1>6 DEF IntKeys, HashKeys
<1>8. /\ \A key \in DOMAIN ints : block[key] = ints[key]
      /\ \A key \in DOMAIN hashes : block[key] = hashes[key]
      /\ \A key \in DOMAIN own : block[key] = own[key]
      /\ \A key \in DOMAIN others : block[key] = others[key]
  <2>1. /\ DOMAIN hashes \cap DOMAIN ints = {}
        /\ DOMAIN own \cap (DOMAIN ints \cup DOMAIN hashes) = {}
        /\ DOMAIN others \cap (DOMAIN ints \cup DOMAIN hashes \cup DOMAIN own) = {}
    BY <1>4, <1>5, <1>6
       DEF IntKeys, HashKeys, ForkKeys, LondonKeys, ShanghaiKeys, CancunKeys
  <2>2. PICK two, three : two = ints ++ hashes /\ three = two ++ own
    OBVIOUS
  <2>3. /\ DOMAIN two = DOMAIN ints \cup DOMAIN hashes
        /\ \A key \in DOMAIN ints : two[key] = ints[key]
        /\ \A key \in DOMAIN hashes : two[key] = hashes[key]
    <3>1. DOMAIN hashes \cap DOMAIN ints = {}
      BY <2>1
    <3>2. /\ DOMAIN (ints ++ hashes) = DOMAIN ints \cup DOMAIN hashes
          /\ \A key \in DOMAIN ints : (ints ++ hashes)[key] = ints[key]
          /\ \A key \in DOMAIN hashes : (ints ++ hashes)[key] = hashes[key]
      BY <3>1, MergeDisjoint
    <3> QED
      BY <2>2, <3>2
  <2>4. /\ DOMAIN three = DOMAIN two \cup DOMAIN own
        /\ \A key \in DOMAIN two : three[key] = two[key]
        /\ \A key \in DOMAIN own : three[key] = own[key]
    BY <2>1, <2>2, <2>3, MergeDisjoint
  <2>5. /\ \A key \in DOMAIN three : block[key] = three[key]
        /\ \A key \in DOMAIN others : block[key] = others[key]
    <3>1. block = three ++ others
      BY <1>1, <1>2, <2>2
    <3>2. DOMAIN others \cap DOMAIN three = {}
      BY <2>1, <2>3, <2>4
    <3>3. /\ \A key \in DOMAIN three : (three ++ others)[key] = three[key]
          /\ \A key \in DOMAIN others : (three ++ others)[key] = others[key]
      BY <3>2, MergeDisjoint
    <3> QED
      BY <3>1, <3>3
  <2> QED
    BY <2>3, <2>4, <2>5
<1>9. /\ \A key \in IntKeys : block[key].is = "int"
      /\ \A key \in HashKeys : block[key].is = "bytes32"
  <2>1. /\ \A key \in IntFields : block[key].is = "int"
        /\ \A key \in HashFields : block[key].is = "bytes32"
    BY <1>4, <1>8 DEF Some
  <2>2. block["number"].is = "int" /\ block["hash"].is = "bytes32"
    BY <1>1, <1>5, <1>8 DEF Of, BlockHash
  <2> QED
    BY <2>1, <2>2
<1>10. /\ block["nonce"].is = "bytes8" /\ block["coinbase"].is = "address"
       /\ block["uncles"].is = "bytes32_list"
  BY <1>1, <1>5, <1>8 DEF Some
<1>11. \A key \in present : block[key].is \in ForkValidators[key]
  BY <1>6, <1>8
<1>12. block = [key \in DOMAIN block |-> block[key]]
  BY <1>1, <1>2, MergedFunction
<1> QED
  BY <1>2, <1>6, <1>7, <1>9, <1>10, <1>11, <1>12, BlockPasses

(* Whatever was sent, run and mined on any fork, the facade returns the    *)
(* backend's answers: no transaction, receipt, log entry or block with     *)
(* hashes fails the outbound checks or loses a field in them, and a block  *)
(* with full transactions passes exactly when its transactions have one    *)
(* type.                                                                   *)
(* (get_transaction_by_hash, get_transaction_receipt, get_block_by_number) *)
THEOREM AnswersAlwaysReturned == Spec => []AnswersReturned
<1>1. AnswersInv => AnswersReturned
  <2> SUFFICES ASSUME AnswersInv, NEW n \in Numbers
               PROVE  /\ BlockReturned(serialize_block(n))
                      /\ validate_transaction_hashes(TransactionHashes(n))
                      /\ validate_transaction_objects(TransactionObjects(n))
                           <=> OneType(n)
                      /\ \A i \in 0..(Len(BlockAt(n)) - 1) :
                            /\ TransactionReturned(serialize_transaction(n, i))
                            /\ ReceiptReturned(serialize_transaction_receipt(n, i),
                                               Logs(n, i))
    BY DEF AnswersReturned
  <2>1. BlockReturned(serialize_block(n))
    BY BlockWithHashesPasses DEF AnswersInv
  <2>2. BlockAt(n) \in Seq(Executed)
    BY BlockType DEF AnswersInv
  <2>3. validate_transaction_hashes(TransactionHashes(n))
    BY DEF validate_transaction_hashes, TransactionHashes, TxHash, Of
  <2>4. ASSUME NEW i \in 0..(Len(BlockAt(n)) - 1)
        PROVE  BlockAt(n)[i + 1] \in Executed
    BY <2>2
  <2>5. validate_transaction_objects(TransactionObjects(n)) <=> OneType(n)
    BY <2>2, FullTransactionsPassByType
  <2> QED
    BY <2>1, <2>3, <2>4, <2>5, TransactionPasses, ReceiptPasses
<1> QED
  BY AnswersInvariant, <1>1, PTL

-----------------------------------------------------------------------------
(* Gas.                                                                    *)

(* The functions with the recursion of Sums, up to n.                      *)
PartialSums(s, n) ==
    { f \in [0..n -> Nat] : /\ f[0] = 0
                            /\ \A k \in 1..n : f[k] = f[k - 1] + s[k] }

(* There is one, for every sequence of numbers.                            *)
LEMMA PartialSumsExist ==
    ASSUME NEW N \in Nat, NEW s \in [1..N -> Nat]
    PROVE  PartialSums(s, N) # {}
<1> DEFINE T == { n \in 0..N : PartialSums(s, n) # {} }
<1>1. 0 \in T
  <2>1. PICK f : f = [k \in 0..0 |-> 0]
    OBVIOUS
  <2>2. f \in [0..0 -> Nat] /\ f[0] = 0 /\ \A k \in 1..0 : f[k] = f[k - 1] + s[k]
    BY <2>1
  <2> QED
    BY <2>2 DEF PartialSums
<1>2. ASSUME NEW n \in 0..(N - 1), n \in T
      PROVE  n + 1 \in T
  <2>1. PICK f \in [0..n -> Nat] :
           f[0] = 0 /\ \A k \in 1..n : f[k] = f[k - 1] + s[k]
    BY <1>2 DEF PartialSums
  <2>2. PICK x \in Nat : x = f[n] + s[n + 1]
    <3>1. f[n] \in Nat /\ s[n + 1] \in Nat
      OBVIOUS
    <3> QED
      BY <3>1
  <2>3. PICK g : g = [k \in 0..(n + 1) |-> IF k = n + 1 THEN x ELSE f[k]]
    OBVIOUS
  <2>4. g \in [0..(n + 1) -> Nat] /\ g[0] = 0
    BY <2>1, <2>2, <2>3
  <2>5. ASSUME NEW k \in 1..(n + 1)
        PROVE  g[k] = g[k - 1] + s[k]
    <3>1. CASE k = n + 1
      BY <2>2, <2>3, <3>1
    <3>2. CASE k # n + 1
      <4>1. k \in 1..n /\ g[k] = f[k] /\ g[k - 1] = f[k - 1]
        BY <2>3, <3>2
      <4> QED
        BY <2>1, <4>1
    <3> QED
      BY <3>1, <3>2
  <2>6. g \in PartialSums(s, n + 1)
    BY <2>4, <2>5 DEF PartialSums
  <2> QED
    BY <2>6
<1>3. \A n \in 0..N : n \in T
  <2> HIDE DEF T
  <2> QED
    BY <1>1, <1>2, UpToInduction
<1>4. N \in T
  BY <1>3
<1> QED
  BY <1>4

(* So Sums is one of them.                                                 *)
LEMMA SumsAdd ==
    ASSUME NEW N \in Nat, NEW s \in [1..N -> Nat]
    PROVE  /\ Sums(s)[0] = 0
           /\ \A n \in 0..N : Sums(s)[n] \in Nat
           /\ \A n \in 1..N : Sums(s)[n] = Sums(s)[n - 1] + s[n]
<1>1. s \in Seq(Nat) /\ Len(s) = N
  OBVIOUS
<1>2. PICK f \in [0..N -> Nat] :
         f[0] = 0 /\ \A k \in 1..N : f[k] = f[k - 1] + s[k]
  BY PartialSumsExist DEF PartialSums
<1>3. ASSUME NEW n \in 0..N
      PROVE  f[n] = IF n = 0 THEN 0 ELSE f[n - 1] + s[n]
  BY <1>2
<1>4. f = [n \in 0..N |-> IF n = 0 THEN 0 ELSE f[n - 1] + s[n]]
  BY <1>2, <1>3
<1>5. Sums(s) = CHOOSE u : u = [n \in 0..N |-> IF n = 0 THEN 0 ELSE u[n - 1] + s[n]]
  BY <1>1 DEF Sums
<1>6. Sums(s) = [n \in 0..N |-> IF n = 0 THEN 0 ELSE Sums(s)[n - 1] + s[n]]
  BY <1>4, <1>5
<1>7. PICK u : u = Sums(s)
  OBVIOUS
<1>8. u = [n \in 0..N |-> IF n = 0 THEN 0 ELSE u[n - 1] + s[n]]
  BY <1>6, <1>7
<1>9. u[0] = 0 /\ \A n \in 1..N : u[n] = u[n - 1] + s[n]
  <2>1. u[0] = 0
    BY <1>8
  <2>2. ASSUME NEW n \in 1..N PROVE u[n] = u[n - 1] + s[n]
    <3>1. n \in 0..N /\ n # 0
      OBVIOUS
    <3> QED
      BY <1>8, <3>1
  <2> QED
    BY <2>1, <2>2
<1> DEFINE T == { n \in 0..N : u[n] \in Nat }
<1>10. 0 \in T
  BY <1>9
<1>11. ASSUME NEW n \in 0..(N - 1), n \in T
       PROVE  n + 1 \in T
  <2>1. n + 1 \in 1..N /\ u[n + 1] = u[n] + s[n + 1]
    <3>1. n + 1 \in 1..N /\ (n + 1) - 1 = n
      OBVIOUS
    <3> QED
      BY <1>9, <3>1
  <2>2. u[n] \in Nat /\ s[n + 1] \in Nat
    BY <1>11, <2>1
  <2> QED
    BY <2>1, <2>2
<1>12. \A n \in 0..N : n \in T
  <2> HIDE DEF T
  <2> QED
    BY <1>10, <1>11, UpToInduction
<1> QED
  BY <1>7, <1>9, <1>12

(* What a receipt says of gas.                                             *)
LEMMA ReceiptGas ==
    ASSUME NEW n, NEW i
    PROVE  /\ serialize_transaction_receipt(n, i)["cumulative_gas_used"].val
                = CumulativeGas(BlockAt(n), i + 1)
           /\ serialize_transaction_receipt(n, i)["gas_used"].val
                = CumulativeGas(BlockAt(n), i + 1) - OriginGas(BlockAt(n), i)
<1>1. PICK place, own, blob, cumulative, used :
         /\ serialize_transaction_receipt(n, i) = place ++ own ++ blob
         /\ place = Place(n, i)
         /\ cumulative = CumulativeGas(BlockAt(n), i + 1)
         /\ used = cumulative - OriginGas(BlockAt(n), i)
         /\ "cumulative_gas_used" \in DOMAIN own /\ "gas_used" \in DOMAIN own
         /\ own["cumulative_gas_used"] = Of("int", cumulative)
         /\ own["gas_used"] = Of("int", used)
  BY DEF serialize_transaction_receipt
<1>2. DOMAIN place = {"block_hash", "block_number", "transaction_index"}
  BY <1>1 DEF Place
<1>3. ASSUME NEW key \in {"cumulative_gas_used", "gas_used"}
      PROVE  serialize_transaction_receipt(n, i)[key] = own[key]
  <2>1. key \in DOMAIN own /\ key \notin DOMAIN place
    BY <1>1, <1>2
  <2>2. key \in DOMAIN (place ++ own) /\ (place ++ own)[key] = own[key]
    BY <2>1, MergeRight
  <2>3. (place ++ own ++ blob)[key] = (place ++ own)[key]
    BY <2>2, MergeLeft
  <2> QED
    BY <1>1, <2>2, <2>3
<1> QED
  BY <1>1, <1>3 DEF Of

(* The gas of a block's receipts adds up: each receipt has what its own    *)
(* transaction used, and the last one's cumulative gas is their sum.       *)
(* (serialize_transaction_receipt)                                         *)
THEOREM GasAlwaysAddsUp == Spec => []GasAddsUp
<1>1. AnswersInv => GasAddsUp
  <2> SUFFICES ASSUME AnswersInv, NEW n \in Numbers, NEW block, NEW used,
                      block = BlockAt(n),
                      used = [i \in 1..Len(block) |->
                                serialize_transaction_receipt(n, i - 1)
                                  ["gas_used"].val]
               PROVE  /\ \A i \in 1..Len(block) : used[i] = block[i].gas
                      /\ block # << >> =>
                            Sums(used)[Len(used)] =
                              serialize_transaction_receipt(n, Len(block) - 1)
                                ["cumulative_gas_used"].val
    BY DEF GasAddsUp
  <2>1. block \in Seq(Executed)
    BY BlockType DEF AnswersInv
  <2>2. PICK N \in Nat : N = Len(block)
    BY <2>1
  <2>3. PICK gas : gas = [i \in 1..N |-> block[i].gas]
    OBVIOUS
  <2>4. gas \in [1..N -> Nat]
    <3>1. \A i \in 1..N : block[i] \in Executed
      BY <2>1, <2>2
    <3> QED
      BY <2>3, <3>1 DEF Executed
  <2>5. \A count \in 0..N : CumulativeGas(block, count) = Sums(gas)[count]
    BY <2>2, <2>3 DEF CumulativeGas
  <2>6. ASSUME NEW i \in 1..N
        PROVE  OriginGas(block, i - 1) = Sums(gas)[i - 1]
    <3>1. CASE i = 1
      BY <2>4, <3>1, SumsAdd DEF OriginGas
    <3>2. CASE i # 1
      BY <2>5, <3>2 DEF OriginGas
    <3> QED
      BY <3>1, <3>2
  <2>7. ASSUME NEW i \in 1..N
        PROVE  used[i] = gas[i]
    <3>1. used[i] = CumulativeGas(block, (i - 1) + 1) - OriginGas(block, i - 1)
      BY <2>2, ReceiptGas
    <3>2. (i - 1) + 1 = i /\ i \in 0..N /\ i - 1 \in 0..N
      OBVIOUS
    <3>3. used[i] = Sums(gas)[i] - Sums(gas)[i - 1]
      BY <2>5, <2>6, <3>1, <3>2
    <3>4. /\ Sums(gas)[i] = Sums(gas)[i - 1] + gas[i]
          /\ Sums(gas)[i - 1] \in Nat /\ gas[i] \in Nat
      BY <2>4, <3>2, SumsAdd
    <3> QED
      BY <3>3, <3>4
  <2>8. used = gas
    BY <2>2, <2>3, <2>7
  <2>9. \A i \in 1..N : used[i] = block[i].gas
    BY <2>3, <2>8
  <2>10. ASSUME block # << >>
         PROVE  Sums(used)[Len(used)] =
                  serialize_transaction_receipt(n, Len(block) - 1)
                    ["cumulative_gas_used"].val
    <3>1. Len(used) = N
      BY <2>4, <2>8
    <3>2. serialize_transaction_receipt(n, Len(block) - 1)
            ["cumulative_gas_used"].val = CumulativeGas(block, (N - 1) + 1)
      BY <2>2, ReceiptGas
    <3>3. (N - 1) + 1 = N /\ N \in 0..N
      OBVIOUS
    <3> QED
      BY <2>5, <2>8, <3>1, <3>2, <3>3
  <2> QED
    BY <2>2, <2>9, <2>10
<1> QED
  BY AnswersInvariant, <1>1, PTL
=============================================================================

------------------------- MODULE TesterFilters_proofs -------------------------
(***************************************************************************)
(* Theorems about the block, pending-transaction and log filters of        *)
(* EthereumTester, for all values of the constants.                        *)
(***************************************************************************)
EXTENDS EthereumTester_proofs

-----------------------------------------------------------------------------
(* What polling reports: the unread items of a filter are its last values. *)

(* The filters of S are those that hold items of S.                        *)
FiltersIn(S, filters) ==
    \A id \in DOMAIN filters :
        \/ filters[id] \in FilterOf(S)
        \/ S = LogEntries /\ filters[id] \in LogFilters

(* In every filter the unread items are the last of the values.            *)
Unread(S, filters) ==
    \A id \in DOMAIN filters : EndsWith(S, filters[id].values, filters[id].queue)

(* What the operations of a filter do to its two lists.                    *)
LEMMA FilterFields ==
    ASSUME NEW S, NEW f, f \in FilterOf(S) \/ (S = LogEntries /\ f \in LogFilters),
           NEW items, NEW gone
    PROVE  /\ f.values \in Seq(S) /\ f.queue \in Seq(S)
           /\ Add(f, items).values = f.values \o items
           /\ Add(f, items).queue = f.queue \o items
           /\ Drained(f).values = f.values /\ Drained(f).queue = << >>
           /\ Remove(f, gone).values = Without(f.values, gone)
           /\ Remove(f, gone).queue = Without(f.queue, gone)
BY DEF FilterOf, LogFilters, Add, Drained, Remove

(* Every operation of a dictionary of filters keeps it so.                 *)
LEMMA UnreadOperations ==
    ASSUME NEW S, NEW filters, FiltersIn(S, filters), Unread(S, filters)
    PROVE  /\ \A items \in [DOMAIN filters -> Seq(S)] :
                 Unread(S, [id \in DOMAIN filters |-> Add(filters[id], items[id])])
           /\ \A valid : Unread(S, RetainInAll(filters, valid))
           /\ \A key : Unread(S, Minus(filters, key))
           /\ \A key : Unread(S, DrainedAt(filters, key))
           /\ \A key, f : EndsWith(S, f.values, f.queue)
                            => Unread(S, With(filters, key, f))
<1>1. ASSUME NEW id \in DOMAIN filters
      PROVE  /\ filters[id].values \in Seq(S) /\ filters[id].queue \in Seq(S)
             /\ EndsWith(S, filters[id].values, filters[id].queue)
  BY FilterFields DEF FiltersIn, Unread
<1>2. << >> \in Seq(S)
  OBVIOUS
<1>3. ASSUME NEW id \in DOMAIN filters, NEW items \in Seq(S)
      PROVE  EndsWith(S, Add(filters[id], items).values, Add(filters[id], items).queue)
  <2>1. EndsWith(S, filters[id].values \o items, filters[id].queue \o items)
    BY <1>1, EndsWithOperations
  <2>2. PICK f : f = filters[id]
    OBVIOUS
  <2>3. f \in FilterOf(S) \/ (S = LogEntries /\ f \in LogFilters)
    BY <2>2 DEF FiltersIn
  <2>4. Add(f, items).values = f.values \o items /\ Add(f, items).queue = f.queue \o items
    BY <2>3 DEF FilterOf, LogFilters, Add
  <2> QED
    BY <2>1, <2>2, <2>4
<1>4. ASSUME NEW id \in DOMAIN filters, NEW gone
      PROVE  EndsWith(S, Remove(filters[id], gone).values, Remove(filters[id], gone).queue)
  <2>1. EndsWith(S, Without(filters[id].values, gone), Without(filters[id].queue, gone))
    BY <1>1, <1>2, EndsWithOperations
  <2>2. PICK f : f = filters[id]
    OBVIOUS
  <2>3. f \in FilterOf(S) \/ (S = LogEntries /\ f \in LogFilters)
    BY <2>2 DEF FiltersIn
  <2>4. /\ Remove(f, gone).values = Without(f.values, gone)
        /\ Remove(f, gone).queue = Without(f.queue, gone)
    BY <2>3, FilterFields
  <2> QED
    BY <2>1, <2>2, <2>4
<1>5. ASSUME NEW id \in DOMAIN filters
      PROVE  EndsWith(S, Drained(filters[id]).values, Drained(filters[id]).queue)
  <2>1. EndsWith(S, filters[id].values, << >>)
    BY <1>1, <1>2, EndsWithOperations
  <2> QED
    BY <2>1, FilterFields DEF FiltersIn
<1>6. ASSUME NEW items \in [DOMAIN filters -> Seq(S)]
      PROVE  Unread(S, [id \in DOMAIN filters |-> Add(filters[id], items[id])])
  BY <1>3 DEF Unread
<1>7. ASSUME NEW valid
      PROVE  Unread(S, RetainInAll(filters, valid))
  BY <1>4 DEF Unread, RetainInAll, Retain
<1>8. ASSUME NEW key
      PROVE  Unread(S, Minus(filters, key))
  BY <1>1 DEF Unread, Minus
<1>9. ASSUME NEW key
      PROVE  Unread(S, DrainedAt(filters, key))
  BY <1>1, <1>5 DEF Unread, DrainedAt
<1>10. ASSUME NEW key, NEW f, EndsWith(S, f.values, f.queue)
       PROVE  Unread(S, With(filters, key, f))
  BY <1>1, <1>10 DEF Unread, With
<1> QED
  BY <1>6, <1>7, <1>8, <1>9, <1>10

(* Adding the same items to all filters.                                   *)
LEMMA UnreadAddToAll ==
    ASSUME NEW S, NEW filters, FiltersIn(S, filters), Unread(S, filters),
           NEW items \in Seq(S)
    PROVE  Unread(S, AddToAll(filters, items))
<1> DEFINE all == [id \in DOMAIN filters |-> items]
<1>1. all \in [DOMAIN filters -> Seq(S)]
  OBVIOUS
<1>2. AddToAll(filters, items)
        = [id \in DOMAIN filters |-> Add(filters[id], all[id])]
  BY DEF AddToAll
<1> HIDE DEF all
<1> QED
  BY <1>1, <1>2, UnreadOperations

(* The three dictionaries of filters.                                      *)
UnreadInv ==
    /\ Unread(Nat, blockFilters)
    /\ Unread(Txs, txFilters)
    /\ Unread(LogEntries, logFilters)

(* The dictionaries hold filters of what they are for.                     *)
LEMMA FiltersTyped ==
    /\ \A filters, S : DictOf(filters, FilterOf(S)) => FiltersIn(S, filters)
    /\ \A filters : DictOf(filters, LogFilters) => FiltersIn(LogEntries, filters)
BY DEF DictOf, FiltersIn

(* Announcing transactions.                                                *)
LEMMA UnreadFed ==
    ASSUME TypeOK, UnreadInv, NEW txs \in Seq(Txs)
    PROVE  /\ Unread(Txs, TxFiltersFed(txs))
           /\ Unread(LogEntries, LogFiltersFed(txs))
<1>1. FiltersIn(Txs, txFilters) /\ FiltersIn(LogEntries, logFilters)
  BY FiltersTyped DEF TypeOK, FiltersTypeOK
<1>2. Unread(Txs, TxFiltersFed(txs))
  BY <1>1, UnreadAddToAll DEF UnreadInv, TxFiltersFed
<1> DEFINE items == [id \in DOMAIN logFilters |-> PendingLogs(logFilters[id], txs)]
<1>3. items \in [DOMAIN logFilters -> Seq(LogEntries)]
  BY PendingLogsType
<1>4. LogFiltersFed(txs)
        = [id \in DOMAIN logFilters |-> Add(logFilters[id], items[id])]
  BY DEF LogFiltersFed
<1> HIDE DEF items
<1>5. Unread(LogEntries, LogFiltersFed(txs))
  BY <1>1, <1>3, <1>4, UnreadOperations DEF UnreadInv
<1> QED
  BY <1>2, <1>5

(* Mining.                                                                 *)
LEMMA UnreadMineAndFeed ==
    ASSUME TypeOK, UnreadInv, NEW newBlock \in Seq(Txs), NEW count \in Nat,
           NEW fed, DictOf(fed, LogFilters), Unread(LogEntries, fed),
           MineAndFeed(newBlock, count, fed)
    PROVE  Unread(Nat, blockFilters') /\ Unread(LogEntries, logFilters')
<1> DEFINE blocks == Mined(chain, newBlock, count, nextId)
<1> DEFINE items == [id \in DOMAIN fed |->
                       LogsOfBlocks(fed[id], blocks, Len(chain) + 1, Len(blocks))]
<1>1. chain \in Seq(Blocks) /\ nextId \in Nat \ {0}
  BY DEF TypeOK, ChainTypeOK
<1>2. /\ blockFilters' = AddToAll(blockFilters, MinedIds(count))
      /\ logFilters' = [id \in DOMAIN fed |-> Add(fed[id], items[id])]
  BY DEF MineAndFeed, AddBlockLogs
<1>3. MinedIds(count) \in Seq(Nat)
  <2>1. \A i \in 1..count : nextId + i - 1 \in Nat
    BY <1>1
  <2> QED
    BY <2>1 DEF MinedIds
<1>4. FiltersIn(Nat, blockFilters) /\ FiltersIn(LogEntries, fed)
  BY FiltersTyped DEF TypeOK, FiltersTypeOK
<1>5. Unread(Nat, blockFilters')
  BY <1>2, <1>3, <1>4, UnreadAddToAll DEF UnreadInv
<1>6. items \in [DOMAIN fed -> Seq(LogEntries)]
  <2>1. blocks \in Seq(Blocks)
    BY <1>1, MinedType
  <2> HIDE DEF blocks
  <2>2. Len(chain) + 1 \in Nat \ {0} /\ Len(blocks) \in 0..Len(blocks)
    BY <1>1, <2>1
  <2> QED
    BY <2>1, <2>2, LogsOfBlocksType
<1> HIDE DEF items
<1>7. Unread(LogEntries, logFilters')
  BY <1>2, <1>4, <1>6, UnreadOperations
<1> QED
  BY <1>5, <1>7

(* Reverting.                                                              *)
LEMMA UnreadRevertAndClean ==
    ASSUME TypeOK, UnreadInv, NEW blocks, NEW waiting,
           NEW txFs, DictOf(txFs, FilterOf(Txs)), Unread(Txs, txFs),
           NEW logFs, DictOf(logFs, LogFilters), Unread(LogEntries, logFs),
           RevertAndClean(blocks, waiting, txFs, logFs)
    PROVE  UnreadInv'
<1>1. /\ FiltersIn(Nat, blockFilters) /\ FiltersIn(Txs, txFs)
      /\ FiltersIn(LogEntries, logFs)
  BY FiltersTyped DEF TypeOK, FiltersTypeOK
<1>2. /\ \E valid : blockFilters' = RetainInAll(blockFilters, valid)
      /\ \E valid : txFilters' = RetainInAll(txFs, valid)
      /\ \E valid : logFilters' = RetainInAll(logFs, valid)
  BY DEF RevertAndClean
<1>3. Unread(Nat, blockFilters')
  BY <1>1, <1>2, UnreadOperations DEF UnreadInv
<1>4. Unread(Txs, txFilters')
  BY <1>1, <1>2, UnreadOperations
<1>5. Unread(LogEntries, logFilters')
  BY <1>1, <1>2, UnreadOperations
<1> QED
  BY <1>3, <1>4, <1>5 DEF UnreadInv

(* A filter starts with nothing unread but what create_log_filter found.   *)
LEMMA UnreadCreated ==
    ASSUME TypeOK, UnreadInv
    PROVE  /\ Unread(Nat, With(blockFilters, filterCounter, NewFilter))
           /\ Unread(Txs, With(txFilters, filterCounter, NewFilter))
           /\ \A r \in Ranges : CreateLogFilter(r[1], r[2])
                                  => Unread(LogEntries, logFilters')
<1>1. /\ FiltersIn(Nat, blockFilters) /\ FiltersIn(Txs, txFilters)
      /\ FiltersIn(LogEntries, logFilters)
  BY FiltersTyped DEF TypeOK, FiltersTypeOK
<1>2. ASSUME NEW S, NEW values \in Seq(S)
      PROVE  EndsWith(S, values, values)
  <2>1. << >> \in Seq(S) /\ values = << >> \o values
    OBVIOUS
  <2> QED
    BY <2>1 DEF EndsWith
<1>3. \A S : EndsWith(S, NewFilter.values, NewFilter.queue)
  <2>1. \A S : << >> \in Seq(S)
    OBVIOUS
  <2> QED
    BY <1>2, <2>1 DEF NewFilter
<1>4. Unread(Nat, With(blockFilters, filterCounter, NewFilter))
  BY <1>1, <1>3, UnreadOperations DEF UnreadInv
<1>5. Unread(Txs, With(txFilters, filterCounter, NewFilter))
  BY <1>1, <1>3, UnreadOperations DEF UnreadInv
<1>6. ASSUME NEW r \in Ranges, CreateLogFilter(r[1], r[2])
      PROVE  Unread(LogEntries, logFilters')
  <2> DEFINE empty == [values |-> << >>, queue |-> << >>, from |-> r[1], to |-> r[2]]
  <2> DEFINE logs == LogsOfBlocks(empty, chain, FirstScanned(r[1]), LastScanned(r[2]))
  <2> DEFINE filled == IF r[1] \in Nat
                       THEN AddBlockLogs(empty, chain, FirstScanned(r[1]),
                                         LastScanned(r[2]))
                       ELSE empty
  <2>1. logFilters' = With(logFilters, filterCounter, filled)
    BY <1>6 DEF CreateLogFilter
  <2>2. << >> \in Seq(LogEntries)
    OBVIOUS
  <2>3. CASE r[1] \in Nat
    <3>1. chain \in Seq(Blocks) /\ FirstScanned(r[1]) \in Nat \ {0}
      BY <2>3 DEF TypeOK, ChainTypeOK, FirstScanned
    <3>2. LastScanned(r[2]) \in 0..Len(chain)
      BY <3>1 DEF LastScanned
    <3>3. logs \in Seq(LogEntries)
      BY <3>1, <3>2, LogsOfBlocksType
    <3>4. filled = Add(empty, logs)
      BY <2>3 DEF AddBlockLogs
    <3>5. /\ Add(empty, logs).values = << >> \o logs
          /\ Add(empty, logs).queue = << >> \o logs
      BY DEF Add
    <3> HIDE DEF logs, filled, empty
    <3>6. << >> \o logs \in Seq(LogEntries)
      BY <3>3
    <3>7. EndsWith(LogEntries, filled.values, filled.queue)
      BY <1>2, <3>4, <3>5, <3>6
    <3> QED
      BY <1>1, <2>1, <3>7, UnreadOperations DEF UnreadInv
  <2>4. CASE r[1] \notin Nat
    <3>1. filled = empty /\ empty.values = << >> /\ empty.queue = << >>
      BY <2>4
    <3> HIDE DEF filled, empty
    <3>2. EndsWith(LogEntries, filled.values, filled.queue)
      BY <1>2, <2>2, <3>1
    <3> QED
      BY <1>1, <2>1, <3>2, UnreadOperations DEF UnreadInv
  <2> QED
    BY <2>3, <2>4
<1> QED
  BY <1>4, <1>5, <1>6

(* Every call preserves it.                                                *)
LEMMA UnreadStep == TypeOK /\ UnreadInv /\ [Next]_vars => UnreadInv'
<1> SUFFICES ASSUME TypeOK, UnreadInv, [Next]_vars
             PROVE  UnreadInv'
  OBVIOUS
<1> USE DEF chainVars, filterVars
<1>1. pool \in Seq(Txs) /\ block \in Seq(Txs)
  BY DEF TypeOK, ChainTypeOK
<1>2. /\ DictOf(txFilters, FilterOf(Txs)) /\ DictOf(logFilters, LogFilters)
      /\ FiltersIn(Nat, blockFilters) /\ FiltersIn(Txs, txFilters)
      /\ FiltersIn(LogEntries, logFilters)
  BY FiltersTyped DEF TypeOK, FiltersTypeOK
<1>3. /\ Unread(Nat, blockFilters) /\ Unread(Txs, txFilters)
      /\ Unread(LogEntries, logFilters)
  BY DEF UnreadInv
<1>4. ASSUME NEW tx \in Txs, NEW raw \in BOOLEAN, SendAutoMined(tx, raw)
      PROVE  UnreadInv'
  <2>1. Append(block, tx) \in Seq(Txs) /\ <<tx>> \in Seq(Txs)
    BY PoolType
  <2>2. /\ Unread(Txs, TxFiltersFed(<<tx>>)) /\ Unread(LogEntries, LogFiltersFed(<<tx>>))
        /\ DictOf(LogFiltersFed(<<tx>>), LogFilters)
    BY <2>1, UnreadFed, FedType
  <2>3. /\ txFilters' = TxFiltersFed(<<tx>>)
        /\ MineAndFeed(Append(block, tx), 1, LogFiltersFed(<<tx>>))
    BY <1>4 DEF SendAutoMined
  <2>4. Unread(Nat, blockFilters') /\ Unread(LogEntries, logFilters')
    BY <2>1, <2>2, <2>3, UnreadMineAndFeed
  <2> QED
    BY <2>2, <2>3, <2>4 DEF UnreadInv
<1>5. ASSUME NEW tx \in Txs, NEW raw \in BOOLEAN, SendToPool(tx, raw)
      PROVE  UnreadInv'
  <2>1. <<tx>> \in Seq(Txs)
    BY PoolType
  <2>2. /\ Unread(Txs, TxFiltersFed(<<tx>>)) /\ Unread(LogEntries, LogFiltersFed(<<tx>>))
        /\ DictOf(TxFiltersFed(<<tx>>), FilterOf(Txs))
        /\ DictOf(LogFiltersFed(<<tx>>), LogFilters)
    BY <2>1, UnreadFed, FedType
  <2>3. RevertAndClean(chain, PoolWith(tx),
                       TxFiltersFed(<<tx>>), LogFiltersFed(<<tx>>))
    BY <1>5 DEF SendToPool
  <2> QED
    BY <2>2, <2>3, UnreadRevertAndClean
<1>6. ASSUME NEW tx \in Txs, NEW raw \in BOOLEAN, SendToPoolFails(tx, raw)
      PROVE  UnreadInv'
  BY <1>2, <1>3, <1>6, UnreadRevertAndClean DEF SendToPoolFails
<1>7. ASSUME NEW s \in 1..MaxSnapshots, RevertToSnapshot(s)
      PROVE  UnreadInv'
  BY <1>2, <1>3, <1>7, UnreadRevertAndClean DEF RevertToSnapshot
<1>8. ASSUME NEW count \in Nat, PopAndMine(count)
      PROVE  UnreadInv'
  <2>1. block \o pool \in Seq(Txs)
    BY <1>1
  <2>2. /\ Unread(Txs, TxFiltersFed(pool)) /\ Unread(LogEntries, LogFiltersFed(pool))
        /\ DictOf(LogFiltersFed(pool), LogFilters)
    BY <1>1, UnreadFed, FedType
  <2>3. /\ txFilters' = TxFiltersFed(pool)
        /\ MineAndFeed(block \o pool, count, LogFiltersFed(pool))
    BY <1>8 DEF PopAndMine
  <2>4. Unread(Nat, blockFilters') /\ Unread(LogEntries, logFilters')
    BY <2>1, <2>2, <2>3, UnreadMineAndFeed
  <2> QED
    BY <2>2, <2>3, <2>4 DEF UnreadInv
<1>9. CASE PopFails
  <2>1. PICK k \in 0..(Len(pool) - 1) :
          /\ txFilters' = TxFiltersFed(SubSeq(pool, 1, k))
          /\ logFilters' = LogFiltersFed(SubSeq(pool, 1, k))
          /\ UNCHANGED blockFilters
    BY <1>9 DEF PopFails
  <2>2. SubSeq(pool, 1, k) \in Seq(Txs)
    BY <1>1
  <2> QED
    BY <1>3, <2>1, <2>2, UnreadFed DEF UnreadInv
<1>10. ASSUME NEW count \in MineCounts, MineBlocks(count)
       PROVE  UnreadInv'
  <2>1. count \in Nat
    BY TesterAssumption
  <2>2. CASE MineAndFeed(block, count, logFilters) /\ UNCHANGED txFilters
    BY <1>1, <1>2, <1>3, <2>1, <2>2, UnreadMineAndFeed DEF UnreadInv
  <2> QED
    BY <1>8, <1>10, <2>1, <2>2 DEF MineBlocks
<1>11. CASE EnableAutoMine
  BY <1>8, <1>9, <1>11 DEF EnableAutoMine
<1>12. CASE ResetToGenesis
  BY <1>12 DEF ResetToGenesis, NoFilters, UnreadInv, Unread
<1>13. CASE CreateBlockFilter
  BY <1>3, <1>13, UnreadCreated DEF CreateBlockFilter, UnreadInv
<1>14. CASE CreatePendingTransactionFilter
  BY <1>3, <1>14, UnreadCreated DEF CreatePendingTransactionFilter, UnreadInv
<1>15. ASSUME NEW r \in Ranges, CreateLogFilter(r[1], r[2])
       PROVE  UnreadInv'
  <2>1. UNCHANGED <<blockFilters, txFilters>>
    BY <1>15 DEF CreateLogFilter
  <2>2. Unread(LogEntries, logFilters')
    BY <1>15, UnreadCreated
  <2> QED
    BY <1>3, <2>1, <2>2 DEF UnreadInv
<1>16. ASSUME NEW id \in 0..(MaxFilters - 1), DeleteFilter(id)
       PROVE  UnreadInv'
  BY <1>2, <1>3, <1>16, UnreadOperations DEF DeleteFilter, UnreadInv
<1>17. ASSUME NEW id \in 0..(MaxFilters - 1), GetOnlyFilterChanges(id)
       PROVE  UnreadInv'
  BY <1>2, <1>3, <1>17, UnreadOperations DEF GetOnlyFilterChanges, UnreadInv
<1>18. ASSUME UNCHANGED <<blockFilters, txFilters, logFilters>>
       PROVE  UnreadInv'
  BY <1>3, <1>18 DEF UnreadInv
<1> QED
  BY <1>4, <1>5, <1>6, <1>7, <1>9, <1>10, <1>11, <1>12, <1>13, <1>14, <1>15,
     <1>16, <1>17, <1>18
     DEF Next, NextFed, vars, MineBlocksFails, DisableAutoMine, TimeTravel, TakeSnapshot,
         ChangeAccounts

(***************************************************************************)
(* In every filter the unread items are the most recent of all its items,  *)
(* whatever was fed, polled and withdrawn in between, so that polling      *)
(* reports what was added in order and nothing that was read; an item that *)
(* was added twice counts as two.  The invariant says it without           *)
(* positions: values are what was read followed by the queue; remove()     *)
(* keeps that because removing from both parts is removing from the whole. *)
(***************************************************************************)
THEOREM PollingInOrder == Spec => []UnreadIsSuffix
<1>1. Init => UnreadInv
  BY DEF Init, NoFilters, UnreadInv, Unread
<1>2. TypeOK /\ UnreadInv => UnreadIsSuffix
  <2> SUFFICES ASSUME TypeOK, UnreadInv
               PROVE  UnreadIsSuffix
    OBVIOUS
  <2>1. /\ FiltersIn(Nat, blockFilters) /\ FiltersIn(Txs, txFilters)
        /\ FiltersIn(LogEntries, logFilters)
    BY FiltersTyped DEF TypeOK, FiltersTypeOK
  <2>2. ASSUME NEW S, NEW filters, FiltersIn(S, filters), Unread(S, filters),
               NEW id \in DOMAIN filters
        PROVE  QueueIsSuffix(filters[id])
    <3>1. PICK f : f = filters[id]
      OBVIOUS
    <3>2. f.values \in Seq(S) /\ f.queue \in Seq(S)
      BY <2>2, <3>1, FilterFields DEF FiltersIn
    <3>3. EndsWith(S, f.values, f.queue)
      BY <2>2, <3>1 DEF Unread
    <3> QED
      BY <3>1, <3>2, <3>3, EndsWithIsSuffix
  <2> QED
    BY <2>1, <2>2 DEF UnreadInv, UnreadIsSuffix
<1> QED
  BY <1>1, <1>2, UnreadStep, TypeCorrect, PTL DEF Spec

-----------------------------------------------------------------------------
(* Block filters and the canonical chain.                                  *)

(* count blocks are mined, which all block filters learn unless it is      *)
(* time_travel that mines.                                                 *)
MineForFilters(txs, count) ==
    /\ chain' = Mined(chain, txs, count, nextId)
    /\ nextId' = nextId + count
    /\ UNCHANGED snapshots
    /\ \/ blockFilters' = AddToAll(blockFilters, MinedIds(count))
       \/ TimeTravel /\ UNCHANGED blockFilters

(* The chain stays, goes back or forward to that of a snapshot, and the    *)
(* block filters forget the blocks that are not on it.                     *)
RevertForFilters ==
    /\ UNCHANGED chain \/ \E s \in DOMAIN snapshots : chain' = snapshots[s]
    /\ UNCHANGED nextId
    /\ snapshots' \in {snapshots, Append(snapshots, chain)}
    /\ blockFilters' = RetainInAll(blockFilters, BlockIds(chain'))

(* The blocks stay; a block filter may come, go or be polled.              *)
KeepForFilters ==
    /\ UNCHANGED <<chain, nextId>>
    /\ snapshots' \in {snapshots, Append(snapshots, chain)}
    /\ \/ UNCHANGED blockFilters
       \/ blockFilters' = With(blockFilters, filterCounter, NewFilter)
       \/ \E id : blockFilters' = Minus(blockFilters, id)
       \/ \E id : blockFilters' = DrainedAt(blockFilters, id)

(* Everything is forgotten.                                                *)
ResetForFilters ==
    /\ chain' = << >> /\ snapshots' = << >> /\ blockFilters' = NoFilters
    /\ UNCHANGED nextId

(* Every call does one of the four.                                        *)
LEMMA BlockFilterCases ==
    ASSUME TypeOK, [Next]_vars
    PROVE  \/ \E txs \in Seq(Txs), count \in Nat : MineForFilters(txs, count)
           \/ RevertForFilters
           \/ KeepForFilters
           \/ ResetForFilters
<1> USE DEF chainVars, filterVars
<1>1. pool \in Seq(Txs) /\ block \in Seq(Txs)
  BY DEF TypeOK, ChainTypeOK
<1>2. ASSUME NEW txs \in Seq(Txs), NEW count \in Nat, NEW fed,
             MineAndFeed(txs, count, fed), UNCHANGED snapshots
      PROVE  MineForFilters(txs, count)
  BY <1>2 DEF MineAndFeed, MineForFilters
<1>3. ASSUME NEW tx \in Txs, NEW raw \in BOOLEAN, SendAutoMined(tx, raw)
      PROVE  MineForFilters(Append(block, tx), 1) /\ Append(block, tx) \in Seq(Txs)
  <2>1. Append(block, tx) \in Seq(Txs)
    BY <1>1
  <2> QED
    BY <1>2, <1>3, <2>1 DEF SendAutoMined
<1>4. ASSUME NEW count \in Nat, PopAndMine(count), UNCHANGED snapshots
      PROVE  \E txs \in Seq(Txs), n \in Nat : MineForFilters(txs, n)
  <2>1. block \o pool \in Seq(Txs)
    BY <1>1
  <2> QED
    BY <1>2, <1>4, <2>1 DEF PopAndMine
<1>5. ASSUME PopFails, UNCHANGED snapshots
      PROVE  KeepForFilters
  BY <1>5 DEF PopFails, KeepForFilters
<1>6. ASSUME NEW count \in MineCounts, MineBlocks(count)
      PROVE  \E txs \in Seq(Txs), n \in Nat : MineForFilters(txs, n)
  <2>1. count \in Nat
    BY TesterAssumption
  <2> QED
    BY <1>1, <1>2, <1>4, <1>6, <2>1 DEF MineBlocks
<1>7. CASE EnableAutoMine
  BY <1>4, <1>5, <1>7 DEF EnableAutoMine
<1>8. CASE MineBlocksFails
  BY <1>5, <1>8 DEF MineBlocksFails
<1>9. CASE TimeTravel
  <2>1. MineForFilters(block, 1)
    BY <1>9 DEF TimeTravel, MineForFilters
  <2> QED
    BY <1>1, <2>1
<1>10. ASSUME NEW tx \in Txs, NEW raw \in BOOLEAN,
              SendToPool(tx, raw) \/ SendToPoolFails(tx, raw)
       PROVE  RevertForFilters
  BY <1>10 DEF SendToPool, SendToPoolFails, RevertAndClean, RevertForFilters
<1>11. ASSUME NEW s \in 1..MaxSnapshots, RevertToSnapshot(s)
       PROVE  RevertForFilters
  BY <1>11 DEF RevertToSnapshot, RevertAndClean, RevertForFilters
<1>12. CASE ResetToGenesis
  BY <1>12 DEF ResetToGenesis, ResetForFilters
<1>13. CASE TakeSnapshot
  BY <1>13 DEF TakeSnapshot, KeepForFilters
<1>14. CASE CreateBlockFilter
  BY <1>14 DEF CreateBlockFilter, KeepForFilters
<1>15. ASSUME NEW id \in 0..(MaxFilters - 1),
              DeleteFilter(id) \/ GetOnlyFilterChanges(id)
       PROVE  KeepForFilters
  BY <1>15 DEF DeleteFilter, GetOnlyFilterChanges, KeepForFilters
<1>16. ASSUME UNCHANGED <<chain, nextId, snapshots, blockFilters>>
       PROVE  KeepForFilters
  BY <1>16 DEF KeepForFilters
<1> QED
  BY <1>3, <1>6, <1>7, <1>8, <1>9, <1>10, <1>11, <1>12, <1>13, <1>14, <1>15, <1>16
     DEF Next, NextFed, vars, DisableAutoMine, CreatePendingTransactionFilter,
         CreateLogFilter, ChangeAccounts

(* Block ids grow along the chain and are below the next one.              *)
IdsAscend(blocks, next) ==
    /\ \A n \in DOMAIN blocks : blocks[n].id < next
    /\ \A m, n \in DOMAIN blocks : m < n => blocks[m].id < blocks[n].id

(* So they do after mining, which adds the next count ids.                 *)
LEMMA MinedIdsAscend ==
    ASSUME NEW blocks \in Seq(Blocks), NEW txs \in Seq(Txs), NEW count \in Nat,
           NEW next \in Nat \ {0}, IdsAscend(blocks, next)
    PROVE  /\ IdsAscend(Mined(blocks, txs, count, next), next + count)
           /\ BlockIds(Mined(blocks, txs, count, next))
                = BlockIds(blocks) \cup (next..(next + count - 1))
<1> DEFINE mined == Mined(blocks, txs, count, next)
<1>1. mined \in Seq(Blocks) /\ Len(mined) = Len(blocks) + count
  BY MinedType
<1>2. \A n \in 1..Len(blocks) : mined[n] = blocks[n]
  BY MinedType
<1>3. \A n \in (Len(blocks) + 1)..(Len(blocks) + count) :
         mined[n] = MinedBlock(txs, next, n - Len(blocks))
  BY MinedType
<1> HIDE DEF mined
<1>4. PICK N \in Nat : N = Len(blocks) /\ DOMAIN blocks = 1..N
  OBVIOUS
<1>5. DOMAIN mined = 1..(N + count)
  BY <1>1, <1>4
<1>6. ASSUME NEW n \in (N + 1)..(N + count)
      PROVE  mined[n].id = next + (n - N) - 1
  <2>1. mined[n] = MinedBlock(txs, next, n - N)
    BY <1>3, <1>4
  <2>2. PICK k : k = n - N
    OBVIOUS
  <2>3. mined[n].id = next + k - 1
    BY <2>1, <2>2 DEF MinedBlock
  <2> QED
    BY <2>2, <2>3
<1>7. ASSUME NEW n \in 1..N
      PROVE  mined[n].id = blocks[n].id /\ blocks[n].id \in Nat /\ blocks[n].id < next
  <2>1. blocks[n] \in Blocks
    BY <1>4
  <2>2. blocks[n].id \in Nat
    BY <2>1 DEF Blocks
  <2> QED
    BY <1>2, <1>4, <2>2 DEF IdsAscend
<1>8. 1..(N + count) = (1..N) \cup ((N + 1)..(N + count))
  BY <1>4
<1>9. IdsAscend(mined, next + count)
  <2>1. ASSUME NEW n \in 1..(N + count)
        PROVE  mined[n].id < next + count
    <3>1. CASE n \in 1..N
      <4>1. PICK id \in Nat : mined[n].id = id /\ id < next
        BY <1>7, <3>1
      <4> QED
        BY <4>1
    <3>2. CASE n \in (N + 1)..(N + count)
      BY <1>6, <3>2
    <3> QED
      BY <1>8, <3>1, <3>2
  <2>2. ASSUME NEW m \in 1..(N + count), NEW n \in 1..(N + count), m < n
        PROVE  mined[m].id < mined[n].id
    <3>1. CASE n \in 1..N
      <4>1. m \in 1..N
        BY <2>2, <3>1
      <4> QED
        BY <1>4, <1>7, <2>2, <3>1, <4>1 DEF IdsAscend
    <3>2. CASE m \in 1..N /\ n \in (N + 1)..(N + count)
      <4>1. PICK id \in Nat : mined[m].id = id /\ id < next
        BY <1>7, <3>2
      <4>2. mined[n].id = next + (n - N) - 1 /\ next <= next + (n - N) - 1
        BY <1>6, <3>2
      <4> QED
        BY <3>2, <4>1, <4>2
    <3>3. CASE m \in (N + 1)..(N + count) /\ n \in (N + 1)..(N + count)
      BY <1>6, <2>2, <3>3
    <3> QED
      BY <1>8, <2>2, <3>1, <3>2, <3>3
  <2> QED
    BY <1>5, <2>1, <2>2 DEF IdsAscend
<1>10. BlockIds(mined) = BlockIds(blocks) \cup (next..(next + count - 1))
  <2>1. BlockIds(mined) = { mined[n].id : n \in 1..N }
                            \cup { mined[n].id : n \in (N + 1)..(N + count) }
    BY <1>5, <1>8 DEF BlockIds
  <2>2. { mined[n].id : n \in 1..N } = BlockIds(blocks)
    BY <1>4, <1>7 DEF BlockIds
  <2>3. ASSUME NEW id \in next..(next + count - 1)
        PROVE  \E n \in (N + 1)..(N + count) : mined[n].id = id
    <3>1. /\ id - next + N + 1 \in (N + 1)..(N + count)
          /\ next + ((id - next + N + 1) - N) - 1 = id
      OBVIOUS
    <3> QED
      BY <1>6, <3>1
  <2>4. \A n \in (N + 1)..(N + count) : mined[n].id \in next..(next + count - 1)
    BY <1>6
  <2>5. { mined[n].id : n \in (N + 1)..(N + count) } = next..(next + count - 1)
    BY <2>3, <2>4
  <2> QED
    BY <2>1, <2>2, <2>5
<1> QED
  BY <1>9, <1>10 DEF mined

(* The ids that mining announces are the ids of the blocks it mines.       *)
LEMMA MinedIdsAre ==
    ASSUME nextId \in Nat \ {0}, NEW count \in Nat
    PROVE  /\ MinedIds(count) \in Seq(Nat) /\ Len(MinedIds(count)) = count
           /\ \A i \in 1..count : MinedIds(count)[i] = nextId + i - 1
           /\ Elements(MinedIds(count)) = nextId..(nextId + count - 1)
<1>1. \A i \in 1..count : nextId + i - 1 \in Nat
  OBVIOUS
<1>2. MinedIds(count) \in Seq(Nat) /\ Len(MinedIds(count)) = count
  BY <1>1 DEF MinedIds
<1>3. /\ DOMAIN MinedIds(count) = 1..count
      /\ \A i \in 1..count : MinedIds(count)[i] = nextId + i - 1
  BY DEF MinedIds
<1>4. ASSUME NEW id \in nextId..(nextId + count - 1)
      PROVE  \E i \in 1..count : nextId + i - 1 = id
  <2>1. id - nextId + 1 \in 1..count /\ nextId + (id - nextId + 1) - 1 = id
    OBVIOUS
  <2> QED
    BY <2>1
<1>5. \A i \in 1..count : nextId + i - 1 \in nextId..(nextId + count - 1)
  OBVIOUS
<1>6. Elements(MinedIds(count)) = nextId..(nextId + count - 1)
  <2>1. Elements(MinedIds(count)) = { nextId + i - 1 : i \in 1..count }
    BY <1>3 DEF Elements
  <2> QED
    BY <1>4, <1>5, <2>1
<1> QED
  BY <1>2, <1>3, <1>6

(* The values of a block filter grow, and are blocks of the chain.         *)
Increasing(values) == \A i, j \in DOMAIN values : i < j => values[i] < values[j]

FollowIn(filters, blocks) ==
    \A id \in DOMAIN filters :
        /\ Increasing(filters[id].values)
        /\ Elements(filters[id].values) \subseteq BlockIds(blocks)

(* Adding numbers that are greater keeps a sequence increasing.            *)
LEMMA IncreasingConcatenation ==
    ASSUME NEW s \in Seq(Nat), NEW t \in Seq(Nat), Increasing(s), Increasing(t),
           \A x \in Elements(s), y \in Elements(t) : x < y
    PROVE  Increasing(s \o t)
<1> DEFINE M == Len(s)
<1> DEFINE N == Len(t)
<1>1. /\ DOMAIN (s \o t) = 1..(M + N) /\ M \in Nat /\ N \in Nat
      /\ DOMAIN s = 1..M /\ DOMAIN t = 1..N
      /\ \A i \in 1..M : (s \o t)[i] = s[i]
      /\ \A i \in (M + 1)..(M + N) : (s \o t)[i] = t[i - M] /\ i - M \in 1..N
  OBVIOUS
<1> HIDE DEF M, N
<1>2. SUFFICES ASSUME NEW i \in 1..(M + N), NEW j \in 1..(M + N), i < j
               PROVE  (s \o t)[i] < (s \o t)[j]
  BY <1>1 DEF Increasing
<1>3. CASE j \in 1..M
  <2>1. i \in 1..M
    BY <1>1, <1>2, <1>3
  <2> QED
    BY <1>1, <1>2, <1>3, <2>1 DEF Increasing
<1>4. CASE i \in 1..M /\ j \in (M + 1)..(M + N)
  <2>1. s[i] \in Elements(s) /\ t[j - M] \in Elements(t)
    BY <1>1, <1>4 DEF Elements
  <2> QED
    BY <1>1, <1>4, <2>1
<1>5. CASE i \in (M + 1)..(M + N) /\ j \in (M + 1)..(M + N)
  <2>1. i - M \in 1..N /\ j - M \in 1..N /\ i - M < j - M
    BY <1>1, <1>2, <1>5
  <2>2. t[i - M] < t[j - M]
    BY <1>1, <2>1 DEF Increasing
  <2> QED
    BY <1>1, <1>5, <2>2
<1> QED
  BY <1>1, <1>2, <1>3, <1>4, <1>5

(* Removing items keeps a sequence increasing.                             *)
LEMMA IncreasingWithout ==
    ASSUME NEW s \in Seq(Nat), NEW gone, Increasing(s)
    PROVE  Increasing(Without(s, gone))
<1>1. InOrder(Without(s, gone), s, Len(s)) /\ Without(s, gone) \in Seq(Nat)
  BY WithoutOrder, WithoutType
<1>2. PICK w \in Seq(Nat) : w = Without(s, gone)
  BY <1>1
<1>3. ASSUME NEW i \in 1..Len(w), NEW j \in 1..Len(w), i < j
      PROVE  w[i] < w[j]
  <2>1. PICK p \in 1..Len(s), q \in 1..Len(s) : p < q /\ w[i] = s[p] /\ w[j] = s[q]
    BY <1>1, <1>2, <1>3 DEF InOrder
  <2>2. p \in DOMAIN s /\ q \in DOMAIN s
    OBVIOUS
  <2> QED
    BY <2>1, <2>2 DEF Increasing
<1>4. DOMAIN w = 1..Len(w)
  OBVIOUS
<1> QED
  BY <1>2, <1>3, <1>4 DEF Increasing

(***************************************************************************)
(* The inductive invariant.  The order of the values in a filter is that   *)
(* of the ids, and ids grow along the chain and along every snapshot: so   *)
(* going back to a snapshot, even forward to an abandoned fork, never puts *)
(* a lower block after a higher one.                                       *)
(***************************************************************************)
FollowInv ==
    /\ IdsAscend(chain, nextId)
    /\ \A s \in DOMAIN snapshots : IdsAscend(snapshots[s], nextId)
    /\ FollowIn(blockFilters, chain)

(* Every call preserves it.                                                *)
LEMMA FollowStep == TypeOK /\ FollowInv /\ [Next]_vars => FollowInv'
<1> SUFFICES ASSUME TypeOK, FollowInv, [Next]_vars
             PROVE  FollowInv'
  OBVIOUS
<1>1. /\ chain \in Seq(Blocks) /\ nextId \in Nat \ {0}
      /\ snapshots \in Seq(Seq(Blocks)) /\ DictOf(blockFilters, FilterOf(Nat))
  BY DEF TypeOK, ChainTypeOK, FiltersTypeOK
<1>2. /\ IdsAscend(chain, nextId) /\ FollowIn(blockFilters, chain)
      /\ \A s \in DOMAIN snapshots : IdsAscend(snapshots[s], nextId)
  BY DEF FollowInv
<1>3. ASSUME NEW id \in DOMAIN blockFilters
      PROVE  /\ blockFilters[id] \in FilterOf(Nat)
             /\ blockFilters[id].values \in Seq(Nat)
             /\ Increasing(blockFilters[id].values)
             /\ Elements(blockFilters[id].values) \subseteq BlockIds(chain)
  BY <1>1, <1>2 DEF DictOf, FilterOf, FollowIn
<1>4. ASSUME snapshots' \in {snapshots, Append(snapshots, chain)}, UNCHANGED nextId
      PROVE  \A s \in DOMAIN snapshots' : IdsAscend(snapshots'[s], nextId')
  <2>1. /\ DOMAIN Append(snapshots, chain) = (DOMAIN snapshots) \cup {Len(snapshots) + 1}
        /\ \A s \in DOMAIN snapshots : Append(snapshots, chain)[s] = snapshots[s]
        /\ Append(snapshots, chain)[Len(snapshots) + 1] = chain
    BY <1>1
  <2>2. \A s \in DOMAIN Append(snapshots, chain) :
           IdsAscend(Append(snapshots, chain)[s], nextId)
    BY <1>2, <2>1
  <2> QED
    BY <1>2, <1>4, <2>2
<1>5. ASSUME NEW txs \in Seq(Txs), NEW count \in Nat, MineForFilters(txs, count)
      PROVE  FollowInv'
  <2>1. /\ IdsAscend(chain', nextId')
        /\ BlockIds(chain') = BlockIds(chain) \cup (nextId..(nextId + count - 1))
    BY <1>1, <1>2, <1>5, MinedIdsAscend DEF MineForFilters
  <2>2. \A s \in DOMAIN snapshots' : IdsAscend(snapshots'[s], nextId')
    <3>1. nextId' = nextId + count /\ UNCHANGED snapshots
      BY <1>5 DEF MineForFilters
    <3>2. ASSUME NEW s \in DOMAIN snapshots, NEW n \in DOMAIN snapshots[s]
          PROVE  snapshots[s][n].id < nextId + count
      <4>1. snapshots[s] \in Seq(Blocks)
        BY <1>1
      <4>2. snapshots[s][n] \in Blocks
        BY <4>1
      <4>3. PICK id \in Nat : id = snapshots[s][n].id
        BY <4>2 DEF Blocks
      <4>4. id < nextId
        BY <1>2, <4>3 DEF IdsAscend
      <4> QED
        BY <1>1, <4>3, <4>4
    <3> QED
      BY <1>2, <3>1, <3>2 DEF IdsAscend
  <2>3. FollowIn(blockFilters', chain')
    <3>1. CASE UNCHANGED blockFilters
      BY <1>2, <2>1, <3>1 DEF FollowIn
    <3>2. CASE blockFilters' = AddToAll(blockFilters, MinedIds(count))
      <4>1. PICK ids \in Seq(Nat) :
              /\ ids = MinedIds(count) /\ Len(ids) = count
              /\ \A i \in 1..count : ids[i] = nextId + i - 1
              /\ Elements(ids) = nextId..(nextId + count - 1)
        BY <1>1, MinedIdsAre
      <4>2. Increasing(ids)
        <5>1. DOMAIN ids = 1..count
          BY <4>1
        <5> QED
          BY <1>1, <4>1, <5>1 DEF Increasing
      <4>3. \A x \in BlockIds(chain), y \in Elements(ids) : x < y
        <5>1. \A n \in DOMAIN chain : chain[n].id \in Nat /\ chain[n].id < nextId
          <6>1. \A n \in DOMAIN chain : chain[n] \in Blocks
            BY <1>1
          <6> QED
            BY <1>2, <6>1 DEF Blocks, IdsAscend
        <5>2. \A x \in BlockIds(chain) : x \in Nat /\ x < nextId
          BY <5>1 DEF BlockIds
        <5> QED
          BY <1>1, <4>1, <5>2
      <4>4. ASSUME NEW id \in DOMAIN blockFilters
            PROVE  LET values == Add(blockFilters[id], ids).values
                   IN  /\ Increasing(values)
                       /\ Elements(values) \subseteq BlockIds(chain')
        <5>1. PICK values \in Seq(Nat) : values = blockFilters[id].values
          BY <1>3
        <5>2. Add(blockFilters[id], ids).values = values \o ids
          BY <1>3, <5>1 DEF Add, FilterOf
        <5>3. Increasing(values \o ids)
          BY <1>3, <4>2, <4>3, <5>1, IncreasingConcatenation
        <5>4. Elements(values \o ids) = Elements(values) \cup Elements(ids)
          BY ElementsOfConcatenation
        <5> QED
          BY <1>3, <2>1, <4>1, <5>1, <5>2, <5>3, <5>4
      <4> QED
        BY <3>2, <4>1, <4>4 DEF FollowIn, AddToAll
    <3> QED
      BY <1>5, <3>1, <3>2 DEF MineForFilters
  <2> QED
    BY <2>1, <2>2, <2>3 DEF FollowInv
<1>6. CASE RevertForFilters
  <2>1. IdsAscend(chain', nextId')
    BY <1>2, <1>6 DEF RevertForFilters
  <2>2. \A s \in DOMAIN snapshots' : IdsAscend(snapshots'[s], nextId')
    BY <1>4, <1>6 DEF RevertForFilters
  <2>3. ASSUME NEW id \in DOMAIN blockFilters
        PROVE  LET values == Retain(blockFilters[id], BlockIds(chain')).values
               IN  /\ Increasing(values)
                   /\ Elements(values) \subseteq BlockIds(chain')
    <3> DEFINE gone == Elements(blockFilters[id].values) \ BlockIds(chain')
    <3>1. Retain(blockFilters[id], BlockIds(chain')).values
            = Without(blockFilters[id].values, gone)
      BY <1>3 DEF Retain, Remove, FilterOf
    <3>2. Increasing(Without(blockFilters[id].values, gone))
      BY <1>3, IncreasingWithout
    <3>3. Elements(Retain(blockFilters[id], BlockIds(chain')).values)
            = Elements(blockFilters[id].values) \cap BlockIds(chain')
      BY <1>3, RetainLeavesValid
    <3> QED
      BY <3>1, <3>2, <3>3
  <2>4. FollowIn(blockFilters', chain')
    BY <1>6, <2>3 DEF RevertForFilters, FollowIn, RetainInAll
  <2> QED
    BY <2>1, <2>2, <2>4 DEF FollowInv
<1>7. CASE KeepForFilters
  <2>1. IdsAscend(chain', nextId') /\ BlockIds(chain') = BlockIds(chain)
    BY <1>2, <1>7 DEF KeepForFilters
  <2>2. \A s \in DOMAIN snapshots' : IdsAscend(snapshots'[s], nextId')
    BY <1>4, <1>7 DEF KeepForFilters
  <2>3. ASSUME UNCHANGED blockFilters
        PROVE  FollowIn(blockFilters', chain')
    BY <1>2, <2>1, <2>3 DEF FollowIn
  <2>4. ASSUME blockFilters' = With(blockFilters, filterCounter, NewFilter)
        PROVE  FollowIn(blockFilters', chain')
    <3>1. Increasing(NewFilter.values) /\ Elements(NewFilter.values) = {}
      BY DEF NewFilter, Increasing, Elements
    <3> QED
      BY <1>3, <2>1, <2>4, <3>1 DEF FollowIn, With
  <2>5. ASSUME NEW id, blockFilters' = Minus(blockFilters, id)
        PROVE  FollowIn(blockFilters', chain')
    BY <1>3, <2>1, <2>5 DEF FollowIn, Minus
  <2>6. ASSUME NEW id, blockFilters' = DrainedAt(blockFilters, id)
        PROVE  FollowIn(blockFilters', chain')
    <3>1. \A i \in DOMAIN blockFilters :
             Drained(blockFilters[i]).values = blockFilters[i].values
      BY <1>3 DEF Drained, FilterOf
    <3> QED
      BY <1>3, <2>1, <2>6, <3>1 DEF FollowIn, DrainedAt
  <2>7. FollowIn(blockFilters', chain')
    BY <1>7, <2>3, <2>4, <2>5, <2>6 DEF KeepForFilters
  <2> QED
    BY <2>1, <2>2, <2>7 DEF FollowInv
<1>8. CASE ResetForFilters
  BY <1>8 DEF ResetForFilters, NoFilters, FollowInv, FollowIn, IdsAscend
<1> QED
  BY <1>5, <1>6, <1>7, <1>8, BlockFilterCases

(* Initially there are no blocks and no filters.                           *)
THEOREM FollowInvariant == Spec => []FollowInv
<1>1. Init => FollowInv
  BY DEF Init, NoFilters, FollowInv, FollowIn, IdsAscend
<1> QED
  BY <1>1, FollowStep, TypeCorrect, PTL DEF Spec

(***************************************************************************)
(* Every block hash in a block filter is a block of the canonical chain,   *)
(* listed from lower to higher blocks and so never twice, whatever was     *)
(* mined and reverted.                                                     *)
(***************************************************************************)
THEOREM BlockFiltersFollow == Spec => []BlockFiltersFollowChain
<1>1. TypeOK /\ FollowInv => BlockFiltersFollowChain
  <2> SUFFICES ASSUME TypeOK, FollowInv, NEW id \in DOMAIN blockFilters
               PROVE  LET values == blockFilters[id].values
                      IN  /\ Elements(values) \subseteq BlockIds(chain)
                          /\ \A i, j \in DOMAIN values :
                                i < j => HeightOf(values[i]) < HeightOf(values[j])
    BY DEF BlockFiltersFollowChain
  <2>1. PICK values \in Seq(Nat) : values = blockFilters[id].values
    BY DEF TypeOK, FiltersTypeOK, DictOf, FilterOf
  <2>2. Increasing(values) /\ Elements(values) \subseteq BlockIds(chain)
    BY <2>1 DEF FollowInv, FollowIn
  <2>3. chain \in Seq(Blocks)
    BY DEF TypeOK, ChainTypeOK
  <2>4. \A n \in DOMAIN chain : chain[n].id \in Nat
    <3>1. \A n \in DOMAIN chain : chain[n] \in Blocks
      BY <2>3
    <3> QED
      BY <3>1 DEF Blocks
  <2>5. ASSUME NEW i \in DOMAIN values
        PROVE  /\ HeightOf(values[i]) \in DOMAIN chain
               /\ chain[HeightOf(values[i])].id = values[i]
    <3>1. values[i] \in BlockIds(chain)
      BY <2>2 DEF Elements
    <3>2. \E n \in DOMAIN chain : chain[n].id = values[i]
      BY <3>1 DEF BlockIds
    <3> QED
      BY <3>2 DEF HeightOf
  <2>6. ASSUME NEW i \in DOMAIN values, NEW j \in DOMAIN values, i < j
        PROVE  HeightOf(values[i]) < HeightOf(values[j])
    <3>1. PICK m \in DOMAIN chain, n \in DOMAIN chain :
            /\ m = HeightOf(values[i]) /\ chain[m].id = values[i]
            /\ n = HeightOf(values[j]) /\ chain[n].id = values[j]
      BY <2>5
    <3>2. chain[m].id < chain[n].id
      BY <2>2, <2>6, <3>1 DEF Increasing
    <3>3. m \in Int /\ n \in Int
      BY <2>3
    <3>4. ~(n < m) /\ n # m
      BY <2>4, <3>2 DEF FollowInv, IdsAscend
    <3> QED
      BY <3>1, <3>3, <3>4
  <2> QED
    BY <2>1, <2>2, <2>6
<1> QED
  BY <1>1, FollowInvariant, TypeCorrect, PTL

(***************************************************************************)
(* Every block mined by any call but time_travel reaches every block       *)
(* filter, to be read by the next poll.  The blocks that a call mines are  *)
(* those with the new ids: the chain and the snapshots, which a revert     *)
(* goes back or forward to, have only ids below nextId.                    *)
(***************************************************************************)
THEOREM MiningIsAnnounced == Spec => MiningFeedsBlockFilters
<1>1. ASSUME TypeOK, FollowInv, [Next]_vars, ~TimeTravel,
             NEW id \in DOMAIN blockFilters'
      PROVE  NewlyMined \subseteq Elements(blockFilters'[id].queue)
  <2>1. /\ chain \in Seq(Blocks) /\ nextId \in Nat \ {0}
        /\ snapshots \in Seq(Seq(Blocks)) /\ DictOf(blockFilters, FilterOf(Nat))
    BY <1>1 DEF TypeOK, ChainTypeOK, FiltersTypeOK
  <2>2. ASSUME NEW blocks \in Seq(Blocks), IdsAscend(blocks, nextId)
        PROVE  \A x \in BlockIds(blocks) : x \in Nat /\ ~(x >= nextId)
    <3>1. \A n \in DOMAIN blocks : blocks[n] \in Blocks
      OBVIOUS
    <3>2. \A n \in DOMAIN blocks : blocks[n].id \in Nat /\ blocks[n].id < nextId
      BY <2>2, <3>1 DEF Blocks, IdsAscend
    <3>3. \A x \in BlockIds(blocks) : x \in Nat /\ x < nextId
      BY <3>2 DEF BlockIds
    <3> QED
      BY <2>1, <3>3
  <2>3. /\ IdsAscend(chain, nextId)
        /\ \A s \in DOMAIN snapshots :
              snapshots[s] \in Seq(Blocks) /\ IdsAscend(snapshots[s], nextId)
    BY <1>1, <2>1 DEF FollowInv
  <2>4. ASSUME NEW txs \in Seq(Txs), NEW count \in Nat, MineForFilters(txs, count)
        PROVE  NewlyMined \subseteq Elements(blockFilters'[id].queue)
    <3>1. BlockIds(chain') = BlockIds(chain) \cup (nextId..(nextId + count - 1))
      BY <2>1, <2>3, <2>4, MinedIdsAscend DEF MineForFilters
    <3>2. NewlyMined \subseteq nextId..(nextId + count - 1)
      BY <2>1, <2>2, <2>3, <3>1 DEF NewlyMined
    <3>3. blockFilters' = AddToAll(blockFilters, MinedIds(count))
      BY <1>1, <2>4 DEF MineForFilters
    <3>4. PICK ids \in Seq(Nat) :
            ids = MinedIds(count) /\ Elements(ids) = nextId..(nextId + count - 1)
      BY <2>1, MinedIdsAre
    <3>5. id \in DOMAIN blockFilters /\ blockFilters'[id] = Add(blockFilters[id], ids)
      BY <1>1, <3>3, <3>4 DEF AddToAll
    <3>6. PICK queue \in Seq(Nat) :
            queue = blockFilters[id].queue /\ blockFilters[id] \in FilterOf(Nat)
      BY <2>1, <3>5 DEF DictOf, FilterOf
    <3>7. blockFilters'[id].queue = queue \o ids
      BY <3>5, <3>6 DEF Add, FilterOf
    <3>8. Elements(queue \o ids) = Elements(queue) \cup Elements(ids)
      BY ElementsOfConcatenation
    <3> QED
      BY <3>2, <3>4, <3>7, <3>8
  <2>5. CASE RevertForFilters
    <3>1. chain' \in Seq(Blocks) /\ IdsAscend(chain', nextId)
      BY <2>1, <2>3, <2>5 DEF RevertForFilters
    <3> QED
      BY <2>2, <3>1 DEF NewlyMined
  <2>6. CASE KeepForFilters
    <3>1. chain' = chain
      BY <2>6 DEF KeepForFilters
    <3> QED
      BY <2>1, <2>2, <2>3, <3>1 DEF NewlyMined
  <2>7. CASE ResetForFilters
    BY <1>1, <2>7 DEF ResetForFilters, NoFilters
  <2> QED
    BY <1>1, <2>4, <2>5, <2>6, <2>7, BlockFilterCases
<1>2. TypeOK /\ FollowInv /\ [Next]_vars =>
        [TimeTravel \/ \A id \in DOMAIN blockFilters' :
           NewlyMined \subseteq Elements(blockFilters'[id].queue)]_vars
  BY <1>1
<1> QED
  BY <1>2, FollowInvariant, TypeCorrect, PTL DEF Spec, MiningFeedsBlockFilters

-----------------------------------------------------------------------------
(* What filters remember.                                                  *)

(* No filter has the id that the next one gets.                            *)
CounterAhead ==
    /\ \A id \in DOMAIN blockFilters : id < filterCounter
    /\ \A id \in DOMAIN txFilters : id < filterCounter
    /\ \A id \in DOMAIN logFilters : id < filterCounter

(* Every call preserves it.                                                *)
LEMMA CounterStep == TypeOK /\ CounterAhead /\ [Next]_vars => CounterAhead'
<1> SUFFICES ASSUME TypeOK, CounterAhead, [Next]_vars
             PROVE  CounterAhead'
  OBVIOUS
<1> USE DEF chainVars, filterVars
<1>1. /\ filterCounter \in Nat
      /\ DOMAIN blockFilters \subseteq Nat /\ DOMAIN txFilters \subseteq Nat
      /\ DOMAIN logFilters \subseteq Nat
  BY DEF TypeOK, FiltersTypeOK, DictOf
<1>2. ASSUME UNCHANGED filterCounter,
             DOMAIN blockFilters' \subseteq DOMAIN blockFilters,
             DOMAIN txFilters' \subseteq DOMAIN txFilters,
             DOMAIN logFilters' \subseteq DOMAIN logFilters
      PROVE  CounterAhead'
  BY <1>2 DEF CounterAhead
<1>3. ASSUME filterCounter' = filterCounter + 1,
             DOMAIN blockFilters' \subseteq DOMAIN blockFilters \cup {filterCounter},
             DOMAIN txFilters' \subseteq DOMAIN txFilters \cup {filterCounter},
             DOMAIN logFilters' \subseteq DOMAIN logFilters \cup {filterCounter}
      PROVE  CounterAhead'
  <2>1. \A id \in Nat : id < filterCounter \/ id = filterCounter => id < filterCounter'
    BY <1>1, <1>3
  <2> QED
    BY <1>1, <1>3, <2>1 DEF CounterAhead
<1>4. \A newBlock, count, fed :
         MineAndFeed(newBlock, count, fed) =>
            DOMAIN blockFilters' = DOMAIN blockFilters /\ DOMAIN logFilters' = DOMAIN fed
  BY DEF MineAndFeed, AddToAll
<1>5. \A txs : /\ DOMAIN TxFiltersFed(txs) = DOMAIN txFilters
               /\ DOMAIN LogFiltersFed(txs) = DOMAIN logFilters
  BY DEF TxFiltersFed, LogFiltersFed, AddToAll
<1>6. \A blocks, waiting, txFs, logFs :
         RevertAndClean(blocks, waiting, txFs, logFs) =>
            /\ DOMAIN blockFilters' = DOMAIN blockFilters
            /\ DOMAIN txFilters' = DOMAIN txFs /\ DOMAIN logFilters' = DOMAIN logFs
  BY DEF RevertAndClean, RetainInAll
<1>7. ASSUME NEW tx \in Txs, NEW raw \in BOOLEAN,
             \/ SendAutoMined(tx, raw) \/ SendToPool(tx, raw)
             \/ SendToPoolFails(tx, raw)
      PROVE  CounterAhead'
  <2>1. CASE SendAutoMined(tx, raw)
    BY <1>2, <1>4, <1>5, <2>1 DEF SendAutoMined
  <2>2. CASE SendToPool(tx, raw)
    BY <1>2, <1>5, <1>6, <2>2 DEF SendToPool
  <2>3. CASE SendToPoolFails(tx, raw)
    BY <1>2, <1>6, <2>3 DEF SendToPoolFails
  <2> QED
    BY <1>7, <2>1, <2>2, <2>3
<1>8. ASSUME NEW s, RevertToSnapshot(s)
      PROVE  CounterAhead'
  BY <1>2, <1>6, <1>8 DEF RevertToSnapshot
<1>9. ASSUME NEW count, PopAndMine(count), UNCHANGED filterCounter
      PROVE  CounterAhead'
  BY <1>2, <1>4, <1>5, <1>9 DEF PopAndMine
<1>10. ASSUME PopFails, UNCHANGED filterCounter
       PROVE  CounterAhead'
  BY <1>2, <1>5, <1>10 DEF PopFails
<1>11. ASSUME NEW count, MineBlocks(count)
       PROVE  CounterAhead'
  BY <1>2, <1>4, <1>9, <1>11 DEF MineBlocks
<1>12. CASE MineBlocksFails \/ EnableAutoMine
  BY <1>9, <1>10, <1>12 DEF MineBlocksFails, EnableAutoMine
<1>13. CASE ResetToGenesis
  BY <1>13 DEF ResetToGenesis, NoFilters, CounterAhead
<1>14. CASE CreateBlockFilter \/ CreatePendingTransactionFilter
  BY <1>3, <1>14
     DEF CreateBlockFilter, CreatePendingTransactionFilter, TakeFilterId, With
<1>15. ASSUME NEW from, NEW to, CreateLogFilter(from, to)
       PROVE  CounterAhead'
  BY <1>3, <1>15 DEF CreateLogFilter, TakeFilterId, With
<1>16. ASSUME NEW id, DeleteFilter(id) \/ GetOnlyFilterChanges(id)
       PROVE  CounterAhead'
  BY <1>2, <1>16 DEF DeleteFilter, GetOnlyFilterChanges, Minus, DrainedAt
<1>17. ASSUME UNCHANGED <<filterCounter, blockFilters, txFilters, logFilters>>
       PROVE  CounterAhead'
  BY <1>2, <1>17
<1> QED
  BY <1>7, <1>8, <1>11, <1>12, <1>13, <1>14, <1>15, <1>16, <1>17
     DEF Next, NextFed, vars, DisableAutoMine, TimeTravel, TakeSnapshot, ChangeAccounts

(* Filter ids count up from 0 and are only used again after a reset.       *)
THEOREM CounterInvariant == Spec => []CounterAhead
<1>1. Init => CounterAhead
  BY DEF Init, NoFilters, CounterAhead
<1> QED
  BY <1>1, CounterStep, TypeCorrect, PTL DEF Spec

(* A sequence begins every sequence that continues it.                     *)
LEMMA Begins ==
    ASSUME NEW S, NEW s \in Seq(S), NEW t \in Seq(S)
    PROVE  Len(s) <= Len(s \o t) /\ s = SubSeq(s \o t, 1, Len(s))
<1>1. Len(s) <= Len(s \o t)
  OBVIOUS
<1>2. PICK head \in Seq(S) : head = SubSeq(s \o t, 1, Len(s))
  <2>1. SubSeq(s \o t, 1, Len(s)) \in Seq(S)
    BY <1>1
  <2> QED
    BY <2>1
<1>3. Len(head) = Len(s) /\ \A i \in 1..Len(s) : head[i] = s[i]
  BY <1>1, <1>2
<1>4. head = s
  BY <1>3, SequencesEqual
<1> QED
  BY <1>1, <1>2, <1>4

(* Adding forgets nothing, provided that what was there is valid.          *)
LEMMA KeepsAdded ==
    ASSUME NEW S, NEW before \in Seq(S), NEW more \in Seq(S), NEW valid,
           Elements(before) \subseteq valid
    PROVE  /\ Keeps(before, before \o more, valid)
           /\ Keeps(before, before, valid)
<1>1. Without(before, Elements(before) \ valid) = before
  <2>1. Elements(before) \cap (Elements(before) \ valid) = {}
    OBVIOUS
  <2> QED
    BY <2>1, WithoutNothing
<1>2. Len(before) <= Len(before) /\ before = SubSeq(before, 1, Len(before))
  <2>1. << >> \in Seq(S) /\ before \o << >> = before
    OBVIOUS
  <2>2. /\ Len(before) <= Len(before \o << >>)
        /\ before = SubSeq(before \o << >>, 1, Len(before))
    BY <2>1, Begins
  <2> QED
    BY <2>1, <2>2
<1> QED
  BY <1>1, <1>2, Begins DEF Keeps

(* Retaining what is valid forgets only what is not.                       *)
LEMMA KeepsRetained ==
    ASSUME NEW S, NEW before \in Seq(S), NEW more \in Seq(S), NEW valid
    PROVE  /\ Keeps(before, Without(before, Elements(before) \ valid), valid)
           /\ Keeps(before, Without(before \o more, Elements(before \o more) \ valid),
                    valid)
<1> DEFINE gone == Elements(before) \ valid
<1> DEFINE goneToo == Elements(before \o more) \ valid
<1>1. PICK kept \in Seq(S) : kept = Without(before, gone)
  BY WithoutType
<1>2. PICK added \in Seq(S) : added = Without(more, goneToo)
  BY WithoutType
<1>3. Without(before, goneToo) = kept
  <2>1. \A x \in Elements(before) : x \in goneToo <=> x \in gone
    BY ElementsOfConcatenation
  <2> QED
    BY <1>1, <2>1, WithoutSame
<1>4. Without(before \o more, goneToo) = kept \o added
  <2> HIDE DEF goneToo
  <2>1. Without(before \o more, goneToo)
          = Without(before, goneToo) \o Without(more, goneToo)
    BY WithoutConcatenation
  <2> QED
    BY <1>2, <1>3, <2>1
<1>5. Len(kept) <= Len(kept \o added) /\ kept = SubSeq(kept \o added, 1, Len(kept))
  BY Begins
<1>6. Len(kept) <= Len(kept) /\ kept = SubSeq(kept, 1, Len(kept))
  <2>1. << >> \in Seq(S) /\ kept \o << >> = kept
    OBVIOUS
  <2>2. Len(kept) <= Len(kept \o << >>) /\ kept = SubSeq(kept \o << >>, 1, Len(kept))
    BY <2>1, Begins
  <2> QED
    BY <2>1, <2>2
<1> QED
  BY <1>1, <1>4, <1>5, <1>6 DEF Keeps

(* What the operations of a dictionary keep, for a filter that is there    *)
(* before and after.                                                       *)
LEMMA DictionaryKeeps ==
    ASSUME NEW S, NEW filters, DictOf(filters, FilterOf(S)),
           NEW items \in Seq(S), NEW valid, NEW id \in DOMAIN filters, NEW key
    PROVE  /\ Keeps(filters[id].values,
                    RetainInAll(filters, valid)[id].values, valid)
           /\ Keeps(filters[id].values,
                    RetainInAll(AddToAll(filters, items), valid)[id].values, valid)
           /\ Elements(AddToAll(filters, items)[id].values) \subseteq valid
                => Keeps(filters[id].values,
                         AddToAll(filters, items)[id].values, valid)
           /\ Elements(filters[id].values) \subseteq valid
                => /\ Keeps(filters[id].values, DrainedAt(filters, key)[id].values, valid)
                   /\ Keeps(filters[id].values, filters[id].values, valid)
<1>1. PICK f \in FilterOf(S), values \in Seq(S) :
        f = filters[id] /\ values = f.values
  BY DEF DictOf, FilterOf
<1>2. PICK fed \in FilterOf(S) : fed = Add(f, items) /\ fed.values = values \o items
  <2>1. Add(f, items) \in FilterOf(S) /\ Add(f, items).values = f.values \o items
    BY FilterOperations
  <2> QED
    BY <1>1, <2>1
<1>3. Retain(f, valid).values = Without(values, Elements(values) \ valid)
  BY <1>1 DEF Retain, Remove, FilterOf
<1>4. Retain(fed, valid).values
        = Without(values \o items, Elements(values \o items) \ valid)
  BY <1>2 DEF Retain, Remove, FilterOf
<1>5. /\ RetainInAll(filters, valid)[id] = Retain(f, valid)
      /\ AddToAll(filters, items)[id] = fed
      /\ RetainInAll(AddToAll(filters, items), valid)[id] = Retain(fed, valid)
  BY <1>1, <1>2 DEF RetainInAll, AddToAll
<1>6. DrainedAt(filters, key)[id].values = values
  BY <1>1 DEF DrainedAt, Drained, FilterOf
<1>7. Keeps(values, Retain(f, valid).values, valid)
  BY <1>3, KeepsRetained
<1>8. Keeps(values, Retain(fed, valid).values, valid)
  BY <1>4, KeepsRetained
<1>9. Elements(values \o items) = Elements(values) \cup Elements(items)
  BY ElementsOfConcatenation
<1>10. Elements(values) \subseteq valid
         => Keeps(values, values \o items, valid) /\ Keeps(values, values, valid)
  BY KeepsAdded
<1>11. Elements(values \o items) \subseteq valid => Keeps(values, fed.values, valid)
  BY <1>2, <1>9, <1>10
<1> QED
  BY <1>1, <1>2, <1>5, <1>6, <1>7, <1>8, <1>10, <1>11

(* Transactions that were in the pool, or that run now.                    *)
PooledOrNew(txs) ==
    \A tx \in Elements(txs) : tx \in Elements(pool) \/ Applies(chain, block, tx)

(* What a call does to the pending-transaction filters.                    *)
LEMMA TxFilterCases ==
    ASSUME TypeOK, [Next]_vars
    PROVE  \/ \E txs \in Seq(Txs) :
                 PooledOrNew(txs) /\ txFilters' = AddToAll(txFilters, txs)
           \/ \E txs \in Seq(Txs) :
                 /\ PooledOrNew(txs)
                 /\ txFilters' = RetainInAll(AddToAll(txFilters, txs), Known')
           \/ txFilters' = RetainInAll(txFilters, Known')
           \/ txFilters' = NoFilters
           \/ txFilters' = With(txFilters, filterCounter, NewFilter)
           \/ \E id : txFilters' = Minus(txFilters, id)
           \/ \E id : txFilters' = DrainedAt(txFilters, id)
           \/ UNCHANGED txFilters
<1> USE DEF chainVars, filterVars
<1> DEFINE Fed == \E txs \in Seq(Txs) :
                    PooledOrNew(txs) /\ txFilters' = AddToAll(txFilters, txs)
<1>1. pool \in Seq(Txs) /\ Known' = KnownTxs(chain', block', pool')
  BY DEF TypeOK, ChainTypeOK, Known
<1>2. ASSUME NEW tx \in Txs, NEW raw \in BOOLEAN, Accepts(tx, raw)
      PROVE  <<tx>> \in Seq(Txs) /\ PooledOrNew(<<tx>>)
  BY <1>2 DEF Accepts, PooledOrNew, Elements
<1>3. ASSUME NEW tx \in Txs, NEW raw \in BOOLEAN, SendAutoMined(tx, raw)
      PROVE  Fed
  BY <1>2, <1>3 DEF SendAutoMined, TxFiltersFed
<1>4. ASSUME NEW count, PopAndMine(count)
      PROVE  Fed
  <2>1. PooledOrNew(pool)
    BY DEF PooledOrNew
  <2> QED
    BY <1>1, <1>4, <2>1 DEF PopAndMine, TxFiltersFed
<1>5. ASSUME PopFails
      PROVE  Fed
  <2>1. PICK k \in 0..(Len(pool) - 1) : txFilters' = TxFiltersFed(SubSeq(pool, 1, k))
    BY <1>5 DEF PopFails
  <2>2. SubSeq(pool, 1, k) \in Seq(Txs)
    BY <1>1
  <2>3. Elements(SubSeq(pool, 1, k)) \subseteq Elements(pool)
    BY <1>1 DEF Elements
  <2>4. PooledOrNew(SubSeq(pool, 1, k))
    BY <2>3 DEF PooledOrNew
  <2> QED
    BY <2>1, <2>2, <2>4 DEF TxFiltersFed
<1>6. ASSUME NEW blocks, NEW txFs, NEW logFs, RevertAndClean(blocks, pool', txFs, logFs)
      PROVE  txFilters' = RetainInAll(txFs, Known')
  BY <1>1, <1>6 DEF RevertAndClean
<1>7. ASSUME NEW tx \in Txs, NEW raw \in BOOLEAN, SendToPool(tx, raw)
      PROVE  \E txs \in Seq(Txs) :
                /\ PooledOrNew(txs)
                /\ txFilters' = RetainInAll(AddToAll(txFilters, txs), Known')
  <2>1. RevertAndClean(chain, pool', TxFiltersFed(<<tx>>), LogFiltersFed(<<tx>>))
    BY <1>7 DEF SendToPool
  <2>2. txFilters' = RetainInAll(TxFiltersFed(<<tx>>), Known')
    BY <1>6, <2>1
  <2>3. <<tx>> \in Seq(Txs) /\ PooledOrNew(<<tx>>)
    BY <1>2, <1>7 DEF SendToPool
  <2> QED
    BY <2>2, <2>3 DEF TxFiltersFed
<1>8. ASSUME NEW tx \in Txs, NEW raw \in BOOLEAN, SendToPoolFails(tx, raw)
      PROVE  txFilters' = RetainInAll(txFilters, Known')
  BY <1>6, <1>8 DEF SendToPoolFails
<1>9. ASSUME NEW s, RevertToSnapshot(s)
      PROVE  txFilters' = RetainInAll(txFilters, Known')
  BY <1>6, <1>9 DEF RevertToSnapshot
<1>10. CASE ResetToGenesis
  BY <1>10 DEF ResetToGenesis
<1>11. CASE CreatePendingTransactionFilter
  BY <1>11 DEF CreatePendingTransactionFilter
<1>12. ASSUME NEW id, DeleteFilter(id) \/ GetOnlyFilterChanges(id)
       PROVE  \/ txFilters' = Minus(txFilters, id)
              \/ txFilters' = DrainedAt(txFilters, id)
  BY <1>12 DEF DeleteFilter, GetOnlyFilterChanges
<1>13. ASSUME NEW count, MineBlocks(count)
       PROVE  Fed \/ UNCHANGED txFilters
  BY <1>4, <1>13 DEF MineBlocks
<1>14. CASE MineBlocksFails \/ EnableAutoMine
  BY <1>4, <1>5, <1>14 DEF MineBlocksFails, EnableAutoMine
<1> HIDE DEF Fed
<1> QED
  BY <1>3, <1>7, <1>8, <1>9, <1>10, <1>11, <1>12, <1>13, <1>14
     DEF Next, NextFed, vars, DisableAutoMine, TimeTravel, TakeSnapshot, CreateBlockFilter,
         CreateLogFilter, ChangeAccounts, Fed

(***************************************************************************)
(* A block filter or pending-transaction filter forgets nothing that is    *)
(* still valid and never reorders.                                         *)
(* Three invariants meet here: a filter holds only valid items, so adding  *)
(* to it keeps them all; removing is compatible with the order; and a new  *)
(* filter never takes the id, and with it the values, of another.          *)
(***************************************************************************)
THEOREM FiltersRemember == Spec => FiltersForgetOnlyInvalid
<1>1. ASSUME TypeOK, FollowInv, FollowInv', CounterAhead, [Next]_vars,
             NEW id \in DOMAIN blockFilters \cap DOMAIN blockFilters'
      PROVE  Keeps(blockFilters[id].values, blockFilters'[id].values,
                   BlockIds(chain'))
  <2> DEFINE before == blockFilters[id].values
  <2> DEFINE valid == BlockIds(chain')
  <2>1. /\ DictOf(blockFilters, FilterOf(Nat)) /\ nextId \in Nat \ {0}
        /\ filterCounter \in Nat /\ chain \in Seq(Blocks)
    BY <1>1 DEF TypeOK, ChainTypeOK, FiltersTypeOK
  <2>2. << >> \in Seq(Nat) /\ \A n \in Nat : MinedIds(n) \in Seq(Nat)
    BY <2>1, MinedIdsAre
  <2>3. Elements(blockFilters'[id].values) \subseteq valid
    BY <1>1 DEF FollowInv, FollowIn
  <2>4. Elements(before) \subseteq BlockIds(chain)
    BY <1>1 DEF FollowInv, FollowIn
  <2>5. id # filterCounter
    BY <1>1, <2>1 DEF CounterAhead
  <2>6. ASSUME NEW txs \in Seq(Txs), NEW count \in Nat, MineForFilters(txs, count)
        PROVE  Keeps(before, blockFilters'[id].values, valid)
    <3>1. CASE blockFilters' = AddToAll(blockFilters, MinedIds(count))
      BY <1>1, <2>1, <2>2, <2>3, <3>1, DictionaryKeeps
    <3>2. CASE UNCHANGED blockFilters
      BY <1>1, <2>1, <2>2, <2>3, <3>2, DictionaryKeeps
    <3> QED
      BY <2>6, <3>1, <3>2 DEF MineForFilters
  <2>7. CASE RevertForFilters
    BY <1>1, <2>1, <2>2, <2>7, DictionaryKeeps DEF RevertForFilters
  <2>8. CASE KeepForFilters
    <3>1. chain' = chain
      BY <2>8 DEF KeepForFilters
    <3>2. Elements(before) \subseteq valid
      BY <2>4, <3>1
    <3>3. Keeps(before, before, valid)
      BY <1>1, <2>1, <2>2, <3>2, DictionaryKeeps
    <3>4. \A key : Keeps(before, DrainedAt(blockFilters, key)[id].values, valid)
      BY <1>1, <2>1, <2>2, <3>2, DictionaryKeeps
    <3>5. ASSUME blockFilters' = With(blockFilters, filterCounter, NewFilter)
          PROVE  blockFilters'[id] = blockFilters[id]
      BY <1>1, <2>5, <3>5 DEF With
    <3>6. ASSUME NEW key, blockFilters' = Minus(blockFilters, key)
          PROVE  blockFilters'[id] = blockFilters[id]
      BY <1>1, <3>6 DEF Minus
    <3> QED
      BY <2>8, <3>3, <3>4, <3>5, <3>6 DEF KeepForFilters
  <2>9. CASE ResetForFilters
    BY <1>1, <2>9 DEF ResetForFilters, NoFilters
  <2> QED
    BY <1>1, <2>6, <2>7, <2>8, <2>9, BlockFilterCases
<1>2. ASSUME TypeOK, FiltersKnown', CounterAhead, [Next]_vars,
             NEW id \in DOMAIN txFilters \cap DOMAIN txFilters'
      PROVE  Keeps(txFilters[id].values, txFilters'[id].values,
                   KnownTxs(chain', block', pool'))
  <2> DEFINE before == txFilters[id].values
  <2> DEFINE after == txFilters'[id].values
  <2> DEFINE valid == KnownTxs(chain', block', pool')
  <2>1. /\ DictOf(txFilters, FilterOf(Txs)) /\ filterCounter \in Nat
        /\ << >> \in Seq(Txs)
    BY <1>2 DEF TypeOK, FiltersTypeOK
  <2>2. Known' = valid
    BY DEF Known
  <2>3. Elements(after) \subseteq valid
    BY <1>2, <2>2 DEF FiltersKnown, TxsKnownIn
  <2>4. id # filterCounter
    BY <1>2, <2>1 DEF CounterAhead
  <2>5. ASSUME after = before
        PROVE  Keeps(before, after, valid)
    BY <1>2, <2>1, <2>3, <2>5, DictionaryKeeps
  <2>6. ASSUME NEW txs \in Seq(Txs), txFilters' = AddToAll(txFilters, txs)
        PROVE  Keeps(before, after, valid)
    BY <1>2, <2>1, <2>3, <2>6, DictionaryKeeps
  <2>7. ASSUME NEW txs \in Seq(Txs),
               txFilters' = RetainInAll(AddToAll(txFilters, txs), Known')
        PROVE  Keeps(before, after, valid)
    BY <1>2, <2>1, <2>2, <2>7, DictionaryKeeps
  <2>8. ASSUME txFilters' = RetainInAll(txFilters, Known')
        PROVE  Keeps(before, after, valid)
    BY <1>2, <2>1, <2>2, <2>8, DictionaryKeeps
  <2>9. ASSUME txFilters' = With(txFilters, filterCounter, NewFilter)
        PROVE  after = before
    BY <1>2, <2>4, <2>9 DEF With
  <2>10. ASSUME NEW key, txFilters' = Minus(txFilters, key)
         PROVE  after = before
    BY <1>2, <2>10 DEF Minus
  <2>11. ASSUME NEW key, txFilters' = DrainedAt(txFilters, key)
         PROVE  after = before
    <3>1. txFilters[id] \in FilterOf(Txs)
      BY <1>2, <2>1 DEF DictOf
    <3> QED
      BY <1>2, <2>11, <3>1 DEF DrainedAt, Drained, FilterOf
  <2>12. ASSUME txFilters' = NoFilters
         PROVE  FALSE
    BY <1>2, <2>12 DEF NoFilters
  <2>13. ASSUME UNCHANGED txFilters
         PROVE  after = before
    BY <2>13
  <2> HIDE DEF before, after, valid
  <2>14. Keeps(before, after, valid)
    BY <1>2, <2>5, <2>6, <2>7, <2>8, <2>9, <2>10, <2>11, <2>12, <2>13, TxFilterCases
  <2> QED
    BY <2>14 DEF before, after, valid
<1>3. TypeOK /\ FollowInv /\ FollowInv' /\ FiltersKnown' /\ CounterAhead /\ [Next]_vars =>
        [/\ \A id \in DOMAIN blockFilters \cap DOMAIN blockFilters' :
               Keeps(blockFilters[id].values, blockFilters'[id].values,
                     BlockIds(chain'))
         /\ \A id \in DOMAIN txFilters \cap DOMAIN txFilters' :
               Keeps(txFilters[id].values, txFilters'[id].values,
                     KnownTxs(chain', block', pool'))]_vars
  BY <1>1, <1>2
<1> QED
  BY <1>3, FollowInvariant, FiltersKnownInvariant, CounterInvariant, TypeCorrect,
     PTL DEF Spec, FiltersForgetOnlyInvalid

(* What a feed appends is what it was given.                               *)
LEMMA AppendedByFeeding ==
    ASSUME NEW S, NEW before \in Seq(S), NEW items \in Seq(S), NEW valid
    PROVE  /\ Elements(Appended(before,
                       Without(before \o items, Elements(before \o items) \ valid),
                       valid)) \subseteq Elements(items)
           /\ Elements(before \o items) \subseteq valid
                => Elements(Appended(before, before \o items, valid))
                      \subseteq Elements(items)
<1> DEFINE all == before \o items
<1> DEFINE gone == Elements(all) \ valid
<1>1. PICK kept \in Seq(S) : kept = Without(before, Elements(before) \ valid)
  BY WithoutType
<1>2. PICK added \in Seq(S) : added = Without(items, gone)
  BY WithoutType
<1>3. Without(before, gone) = kept
  <2>1. \A x \in Elements(before) : x \in gone <=> x \in Elements(before) \ valid
    BY ElementsOfConcatenation
  <2> QED
    BY <1>1, <2>1, WithoutSame
<1>4. Without(all, gone) = kept \o added
  <2> HIDE DEF gone
  <2>1. Without(before \o items, gone) = Without(before, gone) \o Without(items, gone)
    BY WithoutConcatenation
  <2> QED
    BY <1>2, <1>3, <2>1
<1>5. Elements(added) \subseteq Elements(items)
  BY <1>2, WithoutElements
<1>6. Elements(SubSeq(kept \o added, Len(kept) + 1, Len(kept \o added)))
        \subseteq Elements(added)
  <2> SUFFICES ASSUME NEW i \in 1..Len(added)
               PROVE  (kept \o added)[Len(kept) + i] \in Elements(added)
    BY DEF Elements
  <2> QED
    BY DEF Elements
<1>7. Elements(Appended(before, Without(all, gone), valid)) \subseteq Elements(items)
  BY <1>1, <1>4, <1>5, <1>6 DEF Appended
<1>8. Elements(all) \subseteq valid => Without(all, gone) = all
  <2>1. all \in Seq(S)
    OBVIOUS
  <2>2. Elements(all) \subseteq valid => Elements(all) \cap gone = {}
    OBVIOUS
  <2> HIDE DEF all, gone
  <2> QED
    BY <2>1, <2>2, WithoutNothing
<1> QED
  BY <1>7, <1>8

(* What runs now is neither on the chain nor in the pending block.         *)
LEMMA WhatAppliesIsNew ==
    ASSUME TypeOK, NonceInv, NEW tx \in Txs, Applies(chain, block, tx)
    PROVE  tx \notin BackendKnows(chain, block)
<1> SUFFICES ASSUME tx \in BackendKnows(chain, block)
             PROVE  FALSE
  OBVIOUS
<1>1. chain \in Seq(Blocks) /\ block \in Seq(Txs)
  BY DEF TypeOK, ChainTypeOK
<1>2. PICK s \in Slots(OnTop(chain, nextId, block)) :
        TxAt(OnTop(chain, nextId, block), s) = tx
  <2>1. CASE tx \in Elements(block)
    <3>1. PICK i \in 1..Len(block) : block[i] = tx
      BY <1>1, <2>1 DEF Elements
    <3>2. /\ <<Len(chain) + 1, i>> \in Slots(OnTop(chain, nextId, block))
          /\ TxAt(OnTop(chain, nextId, block), <<Len(chain) + 1, i>>) = tx
      BY <1>1, <3>1, SlotsOnTop
    <3> QED
      BY <3>2
  <2>2. CASE tx \in MinedTxs(chain)
    BY <1>1, <2>2, SlotsOnTop DEF MinedTxs
  <2> QED
    BY <2>1, <2>2 DEF BackendKnows
<1>3. NoncesInOrder(OnTop(chain, nextId, block))
  BY DEF NonceInv, WithPending, OnTop
<1>4. tx.nonce < NonceOf(chain, block, tx.from)
  BY <1>1, <1>2, <1>3, NonceCounts DEF NoncesInOrder
<1>5. tx.nonce = NonceOf(chain, block, tx.from) /\ tx.nonce \in Nat
  BY ChainAssumption DEF Applies
<1> QED
  BY <1>4, <1>5

(***************************************************************************)
(* A pending-transaction filter gets again, of what it has, only what was  *)
(* in the pool.  A filter has only transactions that can be looked up      *)
(* (FiltersKnown); what runs now is in no block, as its sender's nonces    *)
(* are in order there (NonceInv), so that a filter that has it can only    *)
(* know it from the pool.  The first invariant needs that reverts clean    *)
(* the filters, the second that nothing runs twice.  (handle_auto_mining,  *)
(* _handle_filtering_for_transaction)                                      *)
(***************************************************************************)
THEOREM OnlyPooledIsRepeated == Spec => RepeatsOnlyPooled
<1>1. ASSUME TypeOK, FiltersKnown, FiltersKnown', NonceInv, CounterAhead, [Next]_vars,
             NEW id \in DOMAIN txFilters \cap DOMAIN txFilters'
      PROVE  Elements(Appended(txFilters[id].values, txFilters'[id].values,
                               KnownTxs(chain', block', pool')))
                \cap Elements(txFilters[id].values) \subseteq Elements(pool)
  <2> DEFINE valid == KnownTxs(chain', block', pool')
  <2> DEFINE Good(after) ==
               Elements(Appended(txFilters[id].values, after, valid))
                  \cap Elements(txFilters[id].values) \subseteq Elements(pool)
  <2>1. /\ DictOf(txFilters, FilterOf(Txs)) /\ filterCounter \in Nat
        /\ << >> \in Seq(Txs)
    BY <1>1 DEF TypeOK, FiltersTypeOK
  <2>2. Known' = valid /\ Elements(txFilters'[id].values) \subseteq valid
    BY <1>1 DEF Known, FiltersKnown, TxsKnownIn
  <2>3. PICK f \in FilterOf(Txs), before \in Seq(Txs) :
          f = txFilters[id] /\ before = f.values
    BY <1>1, <2>1 DEF DictOf, FilterOf
  <2>4. Elements(before) \subseteq BackendKnows(chain, block) \cup Elements(pool)
    BY <1>1, <2>3 DEF FiltersKnown, TxsKnownIn, Known, KnownTxs
  <2>5. ASSUME NEW txs \in Seq(Txs), PooledOrNew(txs)
        PROVE  Elements(txs) \cap Elements(before) \subseteq Elements(pool)
    <3>1. Elements(txs) \subseteq Txs
      BY DEF Elements
    <3> QED
      BY <1>1, <2>4, <2>5, <3>1, WhatAppliesIsNew DEF PooledOrNew
  <2>6. PooledOrNew(<< >>)
    BY DEF PooledOrNew, Elements
  <2>7. ASSUME NEW txs \in Seq(Txs), PooledOrNew(txs)
        PROVE  /\ Good(Without(before \o txs, Elements(before \o txs) \ valid))
               /\ Elements(before \o txs) \subseteq valid => Good(before \o txs)
    <3> HIDE DEF valid
    <3> QED
      BY <2>3, <2>5, <2>7, AppendedByFeeding
  <2>8. ASSUME NEW txs \in Seq(Txs)
        PROVE  /\ AddToAll(txFilters, txs)[id].values = before \o txs
               /\ RetainInAll(AddToAll(txFilters, txs), valid)[id].values
                    = Without(before \o txs, Elements(before \o txs) \ valid)
    <3>1. Add(f, txs) \in FilterOf(Txs) /\ Add(f, txs).values = before \o txs
      <4>1. Add(f, txs) \in FilterOf(Txs) /\ Add(f, txs).values = f.values \o txs
        BY FilterOperations
      <4> QED
        BY <2>3, <4>1
    <3>2. Retain(Add(f, txs), valid).values
            = Without(before \o txs, Elements(before \o txs) \ valid)
      BY <3>1 DEF Retain, Remove, FilterOf
    <3> QED
      BY <1>1, <2>3, <3>1, <3>2 DEF RetainInAll, AddToAll
  <2>9. before \o << >> = before
    OBVIOUS
  <2>10. RetainInAll(txFilters, valid)[id].values
           = Without(before, Elements(before) \ valid)
    BY <1>1, <2>3 DEF RetainInAll, Retain, Remove, FilterOf
  <2>11. ASSUME txFilters'[id].values = before
         PROVE  Good(txFilters'[id].values)
    <3> HIDE DEF Good
    <3> QED
      BY <2>1, <2>2, <2>6, <2>7, <2>9, <2>11
  <2>12. ASSUME NEW txs \in Seq(Txs), PooledOrNew(txs),
                txFilters' = AddToAll(txFilters, txs)
         PROVE  Good(txFilters'[id].values)
    <3> HIDE DEF Good
    <3> QED
      BY <2>2, <2>7, <2>8, <2>12
  <2>13. ASSUME NEW txs \in Seq(Txs), PooledOrNew(txs),
                txFilters' = RetainInAll(AddToAll(txFilters, txs), Known')
         PROVE  Good(txFilters'[id].values)
    <3> HIDE DEF Good
    <3> QED
      BY <2>2, <2>7, <2>8, <2>13
  <2>14. ASSUME txFilters' = RetainInAll(txFilters, Known')
         PROVE  Good(txFilters'[id].values)
    <3> HIDE DEF Good
    <3> QED
      BY <2>1, <2>2, <2>6, <2>7, <2>9, <2>10, <2>14
  <2>15. ASSUME txFilters' = With(txFilters, filterCounter, NewFilter)
         PROVE  txFilters'[id].values = before
    <3>1. id # filterCounter
      BY <1>1, <2>1 DEF CounterAhead
    <3> QED
      BY <1>1, <2>3, <2>15, <3>1 DEF With
  <2>16. ASSUME NEW key, txFilters' = Minus(txFilters, key)
         PROVE  txFilters'[id].values = before
    BY <1>1, <2>3, <2>16 DEF Minus
  <2>17. ASSUME NEW key, txFilters' = DrainedAt(txFilters, key)
         PROVE  txFilters'[id].values = before
    BY <1>1, <2>3, <2>17 DEF DrainedAt, Drained, FilterOf
  <2>18. ASSUME txFilters' = NoFilters
         PROVE  FALSE
    BY <1>1, <2>18 DEF NoFilters
  <2>19. ASSUME UNCHANGED txFilters
         PROVE  txFilters'[id].values = before
    BY <2>3, <2>19
  <2>20. Good(txFilters'[id].values)
    <3> HIDE DEF Good, valid
    <3> QED
      BY <1>1, <2>11, <2>12, <2>13, <2>14, <2>15, <2>16, <2>17, <2>18, <2>19,
         TxFilterCases
  <2> QED
    BY <2>20
<1>2. TypeOK /\ FiltersKnown /\ FiltersKnown' /\ NonceInv /\ CounterAhead
        /\ [Next]_vars =>
          [\A id \in DOMAIN txFilters \cap DOMAIN txFilters' :
              LET before == txFilters[id].values
                  new == Appended(before, txFilters'[id].values,
                                  KnownTxs(chain', block', pool'))
              IN  Elements(new) \cap Elements(before) \subseteq Elements(pool)]_vars
  BY <1>1
<1> QED
  BY <1>2, FiltersKnownInvariant, NonceInvariant, CounterInvariant, TypeCorrect,
     PTL DEF Spec, RepeatsOnlyPooled

-----------------------------------------------------------------------------
(* Log filters and scanning the chain.                                     *)

(* Concatenating one more sequence.                                        *)
LEMMA ConcatStep ==
    ASSUME NEW S, NEW N \in Nat, NEW ss \in [1..(N + 1) -> Seq(S)],
           NEW tt \in [1..N -> Seq(S)], \A k \in 1..N : tt[k] = ss[k]
    PROVE  Concat(ss) = Concat(tt) \o ss[N + 1]
<1>1. PICK u : /\ u \in [0..(N + 1) -> Seq(S)]
               /\ u[0] = << >>
               /\ \A n \in 1..(N + 1) : u[n] = u[n - 1] \o ss[n]
               /\ Concat(ss) = u[N + 1]
  <2>1. N + 1 \in Nat
    OBVIOUS
  <2> QED
    BY <2>1, ConcatUpToIs DEF PartialConcats
<1>2. PICK v : /\ v \in [0..N -> Seq(S)]
               /\ v[0] = << >>
               /\ \A n \in 1..N : v[n] = v[n - 1] \o tt[n]
               /\ Concat(tt) = v[N]
  BY ConcatUpToIs DEF PartialConcats
<1> DEFINE T == { n \in 0..N : u[n] = v[n] }
<1>3. 0 \in T
  BY <1>1, <1>2
<1>4. ASSUME NEW n \in 0..(N - 1), n \in T
      PROVE  n + 1 \in T
  <2>1. n + 1 \in 1..N /\ n + 1 \in 1..(N + 1) /\ (n + 1) - 1 = n /\ u[n] = v[n]
    BY <1>4
  <2>2. u[n + 1] = u[n] \o ss[n + 1]
    BY <1>1, <2>1
  <2>3. v[n + 1] = v[n] \o tt[n + 1]
    BY <1>2, <2>1
  <2>4. tt[n + 1] = ss[n + 1] /\ n + 1 \in 0..N
    BY <2>1
  <2>5. u[n + 1] = v[n + 1]
    BY <2>1, <2>2, <2>3, <2>4
  <2> QED
    BY <2>4, <2>5
<1>5. N \in T
  <2> HIDE DEF T
  <2>1. \A n \in 0..N : n \in T
    BY <1>3, <1>4, UpToInduction
  <2> QED
    BY <2>1
<1>6. u[N] = v[N]
  BY <1>5
<1>7. u[N + 1] = u[N] \o ss[N + 1]
  <2>1. N + 1 \in 1..(N + 1) /\ (N + 1) - 1 = N
    OBVIOUS
  <2> QED
    BY <1>1, <2>1
<1> QED
  BY <1>1, <1>2, <1>6, <1>7

(* Reading one more block.                                                 *)
LEMMA LogsStep ==
    ASSUME NEW f, NEW blocks \in Seq(Blocks), NEW first \in Nat \ {0},
           NEW last \in Nat, first <= last + 1, last + 1 <= Len(blocks)
    PROVE  LogsOfBlocks(f, blocks, first, last + 1)
             = LogsOfBlocks(f, blocks, first, last) \o MinedLogs(f, blocks, last + 1)
<1> DEFINE N == last + 1 - first
<1> DEFINE read(k) == MinedLogs(f, blocks, first + k - 1)
<1> DEFINE ss == [k \in 1..(N + 1) |-> read(k)]
<1> DEFINE tt == [k \in 1..N |-> read(k)]
<1>1. N \in Nat /\ (last + 1) + 1 - first = N + 1 /\ first + (N + 1) - 1 = last + 1
  OBVIOUS
<1>2. \A k \in 1..(N + 1) : read(k) \in Seq(LogEntries)
  <2>1. \A k \in 1..(N + 1) : first + k - 1 \in 1..Len(blocks)
    OBVIOUS
  <2> QED
    BY <2>1, MinedLogsType
<1>3. LogsOfBlocks(f, blocks, first, last + 1) = Concat(ss)
  <2>1. ~(last + 1 < first)
    OBVIOUS
  <2> QED
    BY <1>1, <2>1 DEF LogsOfBlocks
<1>4. ss[N + 1] = MinedLogs(f, blocks, last + 1)
  <2>1. N + 1 \in 1..(N + 1)
    BY <1>1
  <2> QED
    BY <1>1, <2>1
<1>5. LogsOfBlocks(f, blocks, first, last) = Concat(tt)
  <2>1. CASE last < first
    <3>1. N = 0
      BY <2>1
    <3>2. tt = [k \in 1..0 |-> << >>]
      BY <3>1
    <3> QED
      BY <2>1, <3>2, ConcatNone DEF LogsOfBlocks
  <2>2. CASE ~(last < first)
    BY <2>2 DEF LogsOfBlocks
  <2> QED
    BY <2>1, <2>2
<1>6. /\ ss \in [1..(N + 1) -> Seq(LogEntries)] /\ tt \in [1..N -> Seq(LogEntries)]
      /\ \A k \in 1..N : tt[k] = ss[k]
  <2>1. \A k \in 1..N : k \in 1..(N + 1)
    BY <1>1
  <2> QED
    BY <1>2, <2>1
<1> HIDE DEF ss, tt, N
<1>7. Concat(ss) = Concat(tt) \o ss[N + 1]
  BY <1>1, <1>6, ConcatStep
<1> QED
  BY <1>3, <1>4, <1>5, <1>7

(* Reading a range of blocks is reading its two parts.                     *)
LEMMA LogsSplit ==
    ASSUME NEW f, NEW blocks \in Seq(Blocks), NEW first \in Nat \ {0},
           NEW mid \in Nat, NEW last \in Nat,
           first <= mid + 1, mid <= last, last <= Len(blocks)
    PROVE  LogsOfBlocks(f, blocks, first, last)
             = LogsOfBlocks(f, blocks, first, mid)
                 \o LogsOfBlocks(f, blocks, mid + 1, last)
<1> DEFINE whole(d) == LogsOfBlocks(f, blocks, first, mid + d)
<1> DEFINE low == LogsOfBlocks(f, blocks, first, mid)
<1> DEFINE high(d) == LogsOfBlocks(f, blocks, mid + 1, mid + d)
<1> DEFINE T == { d \in 0..(last - mid) : whole(d) = low \o high(d) }
<1>1. low \in Seq(LogEntries)
  <2>1. mid \in 0..Len(blocks)
    OBVIOUS
  <2> QED
    BY <2>1, LogsOfBlocksType
<1>2. 0 \in T
  <2>1. mid < mid + 1 /\ mid + 0 = mid
    OBVIOUS
  <2>2. high(0) = << >>
    BY <2>1 DEF LogsOfBlocks
  <2>3. whole(0) = low
    BY <2>1
  <2>4. low \o << >> = low
    BY <1>1
  <2>5. 0 \in 0..(last - mid)
    OBVIOUS
  <2> HIDE DEF whole, low, high
  <2>6. whole(0) = low \o high(0)
    BY <2>2, <2>3, <2>4
  <2> QED
    BY <2>5, <2>6
<1>3. ASSUME NEW d \in 0..((last - mid) - 1), d \in T
      PROVE  d + 1 \in T
  <2>1. PICK n \in Nat : /\ n = mid + d /\ n + 1 = mid + (d + 1)
                         /\ n + 1 <= Len(blocks) /\ mid <= n
    OBVIOUS
  <2>2. whole(d) = low \o high(d)
    BY <1>3
  <2>3. whole(d + 1) = whole(d) \o MinedLogs(f, blocks, n + 1)
    <3>1. first <= n + 1
      BY <2>1
    <3>2. LogsOfBlocks(f, blocks, first, n + 1)
            = LogsOfBlocks(f, blocks, first, n) \o MinedLogs(f, blocks, n + 1)
      BY <2>1, <3>1, LogsStep
    <3> QED
      BY <2>1, <3>2
  <2>4. high(d + 1) = high(d) \o MinedLogs(f, blocks, n + 1)
    <3>1. mid + 1 \in Nat \ {0} /\ mid + 1 <= n + 1
      BY <2>1
    <3>2. LogsOfBlocks(f, blocks, mid + 1, n + 1)
            = LogsOfBlocks(f, blocks, mid + 1, n) \o MinedLogs(f, blocks, n + 1)
      BY <2>1, <3>1, LogsStep
    <3> QED
      BY <2>1, <3>2
  <2>5. high(d) \in Seq(LogEntries) /\ MinedLogs(f, blocks, n + 1) \in Seq(LogEntries)
    <3>1. mid + 1 \in Nat \ {0} /\ n \in 0..Len(blocks) /\ n + 1 \in 1..Len(blocks)
      BY <2>1
    <3>2. LogsOfBlocks(f, blocks, mid + 1, n) \in Seq(LogEntries)
      BY <3>1, LogsOfBlocksType
    <3> QED
      BY <2>1, <3>1, <3>2, MinedLogsType
  <2>6. d + 1 \in 0..(last - mid)
    OBVIOUS
  <2> HIDE DEF whole, low, high
  <2>7. (low \o high(d)) \o MinedLogs(f, blocks, n + 1)
          = low \o (high(d) \o MinedLogs(f, blocks, n + 1))
    BY <1>1, <2>5
  <2> QED
    BY <2>2, <2>3, <2>4, <2>6, <2>7
<1>4. last - mid \in T
  <2>1. last - mid \in Nat /\ last - mid \in 0..(last - mid)
    OBVIOUS
  <2> HIDE DEF T
  <2>2. \A d \in 0..(last - mid) : d \in T
    BY <1>2, <1>3, <2>1, UpToInduction
  <2> QED
    BY <2>1, <2>2
<1>5. mid + (last - mid) = last
  OBVIOUS
<1> QED
  BY <1>4, <1>5

(* Blocks that the filter does not accept add nothing.                     *)
LEMMA LogsNone ==
    ASSUME NEW f, NEW blocks \in Seq(Blocks), NEW first \in Nat \ {0},
           NEW last \in 0..Len(blocks),
           \A n \in first..last : MinedLogs(f, blocks, n) = << >>
    PROVE  LogsOfBlocks(f, blocks, first, last) = << >>
<1>1. CASE last < first
  BY <1>1 DEF LogsOfBlocks
<1>2. CASE ~(last < first)
  <2> DEFINE N == last + 1 - first
  <2> DEFINE ss == [k \in 1..N |-> MinedLogs(f, blocks, first + k - 1)]
  <2>1. N \in Nat /\ \A k \in 1..N : first + k - 1 \in first..last
    BY <1>2
  <2>2. ss \in [1..N -> Seq({})]
    <3>1. << >> \in Seq({})
      OBVIOUS
    <3> QED
      BY <2>1, <3>1
  <2>3. LogsOfBlocks(f, blocks, first, last) = Concat(ss)
    BY <1>2 DEF LogsOfBlocks
  <2> HIDE DEF ss, N
  <2>4. Concat(ss) \in Seq({})
    BY <2>1, <2>2, ConcatType
  <2> QED
    BY <2>3, <2>4
<1> QED
  BY <1>1, <1>2

(* Reading from the first block on is reading its two parts.               *)
LEMMA LogsSplitFromStart ==
    ASSUME NEW f, NEW blocks \in Seq(Blocks), NEW mid \in Nat, NEW last \in Nat,
           mid <= last, last <= Len(blocks)
    PROVE  LogsOfBlocks(f, blocks, 1, last)
             = LogsOfBlocks(f, blocks, 1, mid)
                 \o LogsOfBlocks(f, blocks, mid + 1, last)
<1>1. PICK one \in Nat \ {0} : one = 1
  OBVIOUS
<1>2. one <= mid + 1
  BY <1>1
<1>3. LogsOfBlocks(f, blocks, one, last)
        = LogsOfBlocks(f, blocks, one, mid) \o LogsOfBlocks(f, blocks, mid + 1, last)
  BY <1>2, LogsSplit, ZenonT(30)
<1> QED
  BY <1>1, <1>3

(* The same for blocks that the filter does not accept.                    *)
LEMMA LogsNoneFromStart ==
    ASSUME NEW f, NEW blocks \in Seq(Blocks), NEW last \in 0..Len(blocks),
           \A n \in 1..last : MinedLogs(f, blocks, n) = << >>
    PROVE  LogsOfBlocks(f, blocks, 1, last) = << >>
<1>1. PICK one \in Nat \ {0} : one = 1
  OBVIOUS
<1>2. \A n \in one..last : MinedLogs(f, blocks, n) = << >>
  BY <1>1
<1>3. LogsOfBlocks(f, blocks, one, last) = << >>
  BY <1>2, LogsNone
<1> QED
  BY <1>1, <1>3

(* All blocks of the chain, as the filter accepts them.                    *)
AllLogs(f, blocks) == LogsOfBlocks(f, blocks, 1, Len(blocks))

(* The scan of create_log_filter leaves out only blocks that the filter    *)
(* does not accept.                                                        *)
LEMMA ScanIsAll ==
    ASSUME NEW f, f.from \in Nat,
           f.to \in Nat \cup {None, Latest, Earliest, Pending},
           NEW blocks \in Seq(Blocks), NEW first, first = FirstScanned(f.from),
           NEW last, last = (IF f.to \in Nat /\ f.to < Len(blocks) THEN f.to
                             ELSE Len(blocks))
    PROVE  LogsOfBlocks(f, blocks, first, last) = AllLogs(f, blocks)
<1>1. PICK N \in Nat : N = Len(blocks)
  OBVIOUS
<1>2. first \in Nat \ {0} /\ f.from <= first /\ (first > 1 => first = f.from)
  BY DEF FirstScanned
<1>3. last \in 0..N /\ (last < N => last = f.to /\ f.to \in Nat)
  BY <1>1
<1>4. ASSUME NEW n \in Nat, n < first /\ n # 0
      PROVE  MinedLogs(f, blocks, n) = << >>
  <2>1. n < f.from
    BY <1>2, <1>4
  <2>2. f.from \notin MinedTags
    BY SentinelAssumption DEF MinedTags, BlockTags
  <2>3. ~check_if_from_block_match(n, "mined", f.from)
    BY <2>1, <2>2 DEF check_if_from_block_match
  <2> QED
    BY <2>3 DEF MinedLogs, check_if_blocks_match
<1>5. ASSUME NEW n \in Nat, last < n /\ n <= N
      PROVE  MinedLogs(f, blocks, n) = << >>
  <2>1. f.to \in Nat /\ f.to < n
    BY <1>3, <1>5
  <2>2. f.to \notin MinedTags
    BY <2>1, SentinelAssumption DEF MinedTags, BlockTags
  <2>3. ~check_if_to_block_match(n, "mined", f.to)
    BY <2>1, <2>2 DEF check_if_to_block_match
  <2> QED
    BY <2>3 DEF MinedLogs, check_if_blocks_match
<1>6. CASE first <= last + 1
  <2>1. PICK before \in Nat : before + 1 = first /\ before <= last
    <3>1. first - 1 \in Nat /\ (first - 1) + 1 = first /\ first - 1 <= last
      BY <1>2, <1>3, <1>6
    <3> QED
      BY <3>1
  <2>2. AllLogs(f, blocks)
          = LogsOfBlocks(f, blocks, 1, last) \o LogsOfBlocks(f, blocks, last + 1, N)
    <3>1. last \in Nat
      BY <1>3
    <3>2. last <= N
      BY <1>3
    <3>3. N <= Len(blocks)
      BY <1>1
    <3>4. LogsOfBlocks(f, blocks, 1, N)
            = LogsOfBlocks(f, blocks, 1, last) \o LogsOfBlocks(f, blocks, last + 1, N)
      BY <3>1, <3>2, <3>3, LogsSplitFromStart
    <3> QED
      BY <1>1, <3>4 DEF AllLogs
  <2>3. LogsOfBlocks(f, blocks, 1, last)
          = LogsOfBlocks(f, blocks, 1, before) \o LogsOfBlocks(f, blocks, first, last)
    <3>1. last \in Nat
      BY <1>3
    <3>3. last <= Len(blocks)
      BY <1>1, <1>3
    <3>4. before <= last
      BY <2>1
    <3>2. LogsOfBlocks(f, blocks, 1, last)
            = LogsOfBlocks(f, blocks, 1, before)
                \o LogsOfBlocks(f, blocks, before + 1, last)
      BY <3>1, <3>3, <3>4, LogsSplitFromStart
    <3> QED
      BY <2>1, <3>2
  <2>4. LogsOfBlocks(f, blocks, 1, before) = << >>
    <3>1. before \in 0..Len(blocks)
      BY <1>1, <1>3, <2>1
    <3>2. \A n \in 1..before : n \in Nat /\ n < first /\ n # 0
      BY <2>1
    <3>3. \A n \in 1..before : MinedLogs(f, blocks, n) = << >>
      BY <1>4, <3>2
    <3> QED
      BY <3>1, <3>3, LogsNoneFromStart
  <2>5. LogsOfBlocks(f, blocks, last + 1, N) = << >>
    <3>1. last + 1 \in Nat \ {0} /\ N \in 0..Len(blocks)
      BY <1>1, <1>3
    <3>2. \A n \in (last + 1)..N : n \in Nat /\ last < n /\ n <= N
      BY <1>1, <1>3
    <3>3. \A n \in (last + 1)..N : MinedLogs(f, blocks, n) = << >>
      BY <1>5, <3>2
    <3> QED
      BY <3>1, <3>3, LogsNone
  <2>6. LogsOfBlocks(f, blocks, first, last) \in Seq(LogEntries)
    BY <1>1, <1>2, <1>3, LogsOfBlocksType
  <2>7. PICK logs \in Seq(LogEntries) : logs = LogsOfBlocks(f, blocks, first, last)
    BY <2>6
  <2>8. (<< >> \o logs) \o << >> = logs
    OBVIOUS
  <2> QED
    BY <2>2, <2>3, <2>4, <2>5, <2>7, <2>8
<1>7. CASE ~(first <= last + 1)
  <2>1. last < first
    BY <1>2, <1>3, <1>7
  <2>2. LogsOfBlocks(f, blocks, first, last) = << >>
    BY <2>1 DEF LogsOfBlocks
  <2>3. \A n \in 1..N : n \in Nat /\ ((n < first /\ n # 0) \/ (last < n /\ n <= N))
    BY <1>1, <1>2, <1>3, <2>1
  <2>4. \A n \in 1..N : MinedLogs(f, blocks, n) = << >>
    BY <1>4, <1>5, <2>3
  <2>5. AllLogs(f, blocks) = << >>
    <3>1. N \in 0..Len(blocks)
      BY <1>1
    <3>2. LogsOfBlocks(f, blocks, 1, N) = << >>
      BY <2>4, <3>1, LogsNoneFromStart
    <3> QED
      BY <1>1, <3>2 DEF AllLogs
  <2> QED
    BY <2>2, <2>5
<1> QED
  BY <1>6, <1>7

(* Mining adds what the filter accepts from the new blocks.                *)
LEMMA AllLogsMined ==
    ASSUME NEW f, NEW blocks \in Seq(Blocks), NEW txs \in Seq(Txs),
           NEW count \in Nat, NEW id \in Nat \ {0}
    PROVE  AllLogs(f, Mined(blocks, txs, count, id))
             = AllLogs(f, blocks)
                 \o LogsOfBlocks(f, Mined(blocks, txs, count, id), Len(blocks) + 1,
                                 Len(Mined(blocks, txs, count, id)))
<1>1. PICK N \in Nat : N = Len(blocks)
  OBVIOUS
<1>3. PICK mined : mined = Mined(blocks, txs, count, id)
  OBVIOUS
<1>2. /\ mined \in Seq(Blocks) /\ Len(mined) = N + count
      /\ \A n \in 1..N : mined[n] = blocks[n]
  <2>1. /\ Mined(blocks, txs, count, id) \in Seq(Blocks)
        /\ Len(Mined(blocks, txs, count, id)) = Len(blocks) + count
        /\ \A n \in 1..Len(blocks) : Mined(blocks, txs, count, id)[n] = blocks[n]
    BY MinedType, ZenonT(40)
  <2> QED
    BY <1>1, <1>3, <2>1
<1>4. \A n \in 1..N : MinedLogs(f, mined, n) = MinedLogs(f, blocks, n)
  BY <1>2 DEF MinedLogs
<1>5. LogsOfBlocks(f, mined, 1, N) = AllLogs(f, blocks)
  <2>1. ~(N < 1) => [k \in 1..(N + 1 - 1) |-> MinedLogs(f, mined, 1 + k - 1)]
                      = [k \in 1..(N + 1 - 1) |-> MinedLogs(f, blocks, 1 + k - 1)]
    <3>1. \A k \in 1..(N + 1 - 1) : 1 + k - 1 \in 1..N
      OBVIOUS
    <3> QED
      BY <1>4, <3>1
  <2> QED
    BY <1>1, <2>1 DEF LogsOfBlocks, AllLogs
<1>6. AllLogs(f, mined)
        = LogsOfBlocks(f, mined, 1, N) \o LogsOfBlocks(f, mined, N + 1, N + count)
  <2>1. PICK last \in Nat : last = N + count
    OBVIOUS
  <2>2. N <= last
    BY <2>1
  <2>3. last <= Len(mined)
    BY <1>2, <2>1
  <2>4. LogsOfBlocks(f, mined, 1, last)
          = LogsOfBlocks(f, mined, 1, N) \o LogsOfBlocks(f, mined, N + 1, last)
    <3>1. mined \in Seq(Blocks)
      BY <1>2
    <3> QED
      BY <2>2, <2>3, <3>1, LogsSplitFromStart, ZenonT(30)
  <2> QED
    BY <1>2, <2>1, <2>4 DEF AllLogs
<1> QED
  BY <1>1, <1>2, <1>3, <1>5, <1>6

-----------------------------------------------------------------------------
(* A log filter with a numbered from_block holds what a scan of the whole  *)
(* chain finds.                                                            *)
ScanIn(filters, blocks) ==
    \A id \in DOMAIN filters :
        filters[id].from \in Nat =>
            filters[id].values = AllLogs(filters[id], blocks)

(* What a filter accepts depends on its range only.                        *)
LEMMA LogsByRange ==
    ASSUME NEW f, NEW g, f.from = g.from, f.to = g.to,
           NEW blocks, NEW first, NEW last
    PROVE  LogsOfBlocks(f, blocks, first, last) = LogsOfBlocks(g, blocks, first, last)
<1>1. \A n : MinedLogs(f, blocks, n) = MinedLogs(g, blocks, n)
  BY DEF MinedLogs
<1> QED
  BY <1>1 DEF LogsOfBlocks

(* Announcing transactions adds nothing to such a filter: a number never   *)
(* matches the pending block.                                              *)
LEMMA ScanFed ==
    ASSUME TypeOK, ScanIn(logFilters, chain), NEW txs \in Seq(Txs)
    PROVE  ScanIn(LogFiltersFed(txs), chain)
<1>1. SUFFICES ASSUME NEW id \in DOMAIN logFilters, LogFiltersFed(txs)[id].from \in Nat
               PROVE  LogFiltersFed(txs)[id].values
                        = AllLogs(LogFiltersFed(txs)[id], chain)
  BY DEF ScanIn, LogFiltersFed
<1>2. PICK f \in LogFilters : f = logFilters[id]
  BY DEF TypeOK, FiltersTypeOK, DictOf
<1>3. LogFiltersFed(txs)[id] = Add(f, PendingLogs(f, txs))
  BY <1>2 DEF LogFiltersFed
<1>4. PICK g : g = Add(f, PendingLogs(f, txs))
  OBVIOUS
<1>5. g.from = f.from /\ g.to = f.to /\ g.values = f.values \o PendingLogs(f, txs)
  BY <1>4 DEF Add, LogFilters
<1>6. f.from \in Nat
  BY <1>1, <1>3, <1>4, <1>5
<1>7. PendingLogs(f, txs) = << >>
  <2>1. f.from \notin PendingTags /\ f.from \notin MinedTags /\ None \notin Nat
    BY <1>6, SentinelAssumption DEF PendingTags, MinedTags, BlockTags
  <2> QED
    BY <2>1 DEF PendingLogs, check_if_blocks_match, check_if_from_block_match
<1>8. f.values \in Seq(LogEntries)
  BY DEF LogFilters
<1>9. g.values = f.values
  BY <1>5, <1>7, <1>8
<1>10. f.values = AllLogs(f, chain)
  BY <1>2, <1>6 DEF ScanIn
<1>11. AllLogs(g, chain) = AllLogs(f, chain)
  BY <1>5, LogsByRange DEF AllLogs
<1> QED
  BY <1>3, <1>4, <1>9, <1>10, <1>11

(* Mining adds to every filter what its range accepts of the new blocks.   *)
LEMMA ScanMined ==
    ASSUME TypeOK, NEW txs \in Seq(Txs), NEW count \in Nat, NEW fed,
           DictOf(fed, LogFilters), ScanIn(fed, chain),
           MineAndFeed(txs, count, fed)
    PROVE  ScanIn(logFilters', chain')
<1>1. chain \in Seq(Blocks) /\ nextId \in Nat \ {0}
  BY DEF TypeOK, ChainTypeOK
<1>2. PICK mined : mined = Mined(chain, txs, count, nextId)
  OBVIOUS
<1>3. mined \in Seq(Blocks)
  BY <1>1, <1>2, MinedType
<1>4. /\ chain' = mined
      /\ logFilters' = [id \in DOMAIN fed |->
                          AddBlockLogs(fed[id], mined, Len(chain) + 1, Len(mined))]
  BY <1>2 DEF MineAndFeed
<1>5. SUFFICES ASSUME NEW id \in DOMAIN fed, logFilters'[id].from \in Nat
               PROVE  logFilters'[id].values = AllLogs(logFilters'[id], mined)
  BY <1>4 DEF ScanIn
<1>6. PICK f \in LogFilters : f = fed[id]
  BY DEF DictOf
<1>7. PICK new : new = LogsOfBlocks(f, mined, Len(chain) + 1, Len(mined))
  OBVIOUS
<1>8. PICK g : g = Add(f, new)
  OBVIOUS
<1>9. logFilters'[id] = g
  BY <1>4, <1>6, <1>7, <1>8 DEF AddBlockLogs
<1>10. g.from = f.from /\ g.to = f.to /\ g.values = f.values \o new
  BY <1>8 DEF Add, LogFilters
<1>11. f.values = AllLogs(f, chain)
  BY <1>5, <1>6, <1>9, <1>10 DEF ScanIn
<1>12. AllLogs(f, mined) = AllLogs(f, chain) \o new
  <2>1. chain \in Seq(Blocks)
    BY <1>1
  <2>2. nextId \in Nat \ {0}
    BY <1>1
  <2>3. AllLogs(f, Mined(chain, txs, count, nextId))
          = AllLogs(f, chain)
              \o LogsOfBlocks(f, Mined(chain, txs, count, nextId), Len(chain) + 1,
                              Len(Mined(chain, txs, count, nextId)))
    BY <2>1, <2>2, AllLogsMined, ZenonT(30)
  <2> QED
    BY <1>2, <1>7, <2>3
<1>13. AllLogs(g, mined) = AllLogs(f, mined)
  BY <1>10, LogsByRange DEF AllLogs
<1> QED
  BY <1>9, <1>10, <1>11, <1>12, <1>13

(* A mined transaction can be looked up, so cleaning the filters without   *)
(* leaving the chain removes nothing from such a filter.                   *)
LEMMA ScanCleaned ==
    ASSUME TypeOK, NEW waiting, NEW txFs, NEW logFs, DictOf(logFs, LogFilters),
           ScanIn(logFs, chain), RevertAndClean(chain, waiting, txFs, logFs)
    PROVE  ScanIn(logFilters', chain')
<1>1. chain \in Seq(Blocks)
  BY DEF TypeOK, ChainTypeOK
<1>2. PICK known : known = KnownTxs(chain, << >>, waiting)
  OBVIOUS
<1>3. PICK valid : valid = [tx : known, block : Nat]
  OBVIOUS
<1>4. chain' = chain /\ logFilters' = RetainInAll(logFs, valid)
  BY <1>2, <1>3 DEF RevertAndClean
<1>5. SUFFICES ASSUME NEW id \in DOMAIN logFs, logFilters'[id].from \in Nat
               PROVE  logFilters'[id].values = AllLogs(logFilters'[id], chain)
  BY <1>4 DEF ScanIn, RetainInAll
<1>6. PICK f \in LogFilters : f = logFs[id]
  BY DEF DictOf
<1>7. PICK gone : gone = Elements(f.values) \ valid
  OBVIOUS
<1>8. PICK g : g = Remove(f, gone)
  OBVIOUS
<1>9. logFilters'[id] = g
  BY <1>4, <1>6, <1>7, <1>8 DEF RetainInAll, Retain
<1>10. g.from = f.from /\ g.to = f.to /\ g.values = Without(f.values, gone)
  BY <1>8 DEF Remove, LogFilters
<1>11. f.values = AllLogs(f, chain)
  BY <1>5, <1>6, <1>9, <1>10 DEF ScanIn
<1>12. f.values \in Seq(LogEntries)
  BY DEF LogFilters
<1>13. \A e \in Elements(f.values) : e \in valid
  <2>1. \A e \in Elements(f.values) : e.tx \in MinedTxs(chain)
    <3>1. Len(chain) \in 0..Len(chain) /\ 1 \in Nat \ {0}
      BY <1>1
    <3>2. \A e \in Elements(LogsOfBlocks(f, chain, 1, Len(chain))) :
            e.tx \in MinedTxs(chain)
      BY <1>1, <3>1, LogsOfBlocksType
    <3> QED
      BY <1>11, <3>2 DEF AllLogs
  <2>2. MinedTxs(chain) \subseteq known
    BY <1>2 DEF KnownTxs, BackendKnows
  <2>3. \A e \in Elements(f.values) : e \in LogEntries
    BY <1>12 DEF Elements
  <2>4. \A e \in LogEntries : e.tx \in known => e \in valid
    BY <1>3 DEF LogEntries
  <2> QED
    BY <2>1, <2>2, <2>3, <2>4
<1>14. Elements(f.values) \cap gone = {}
  BY <1>7, <1>13
<1>15. Without(f.values, gone) = f.values
  BY <1>12, <1>14, WithoutNothing
<1>16. AllLogs(g, chain) = AllLogs(f, chain)
  BY <1>10, LogsByRange DEF AllLogs
<1> QED
  BY <1>9, <1>10, <1>11, <1>15, <1>16

(* create_log_filter finds everything with its one scan.                   *)
LEMMA ScanCreated ==
    ASSUME TypeOK, ScanIn(logFilters, chain), NEW r \in Ranges,
           CreateLogFilter(r[1], r[2])
    PROVE  ScanIn(logFilters', chain')
<1> DEFINE empty == [values |-> << >>, queue |-> << >>, from |-> r[1], to |-> r[2]]
<1>1. chain \in Seq(Blocks) /\ chain' = chain
  BY DEF TypeOK, ChainTypeOK, CreateLogFilter, chainVars
<1>2. PICK first, last : first = FirstScanned(r[1]) /\ last = LastScanned(r[2])
  OBVIOUS
<1>3. PICK filled :
        /\ logFilters' = With(logFilters, filterCounter, filled)
        /\ r[1] \in Nat => filled = AddBlockLogs(empty, chain, first, last)
        /\ r[1] \notin Nat => filled = empty
  BY <1>2 DEF CreateLogFilter
<1>4. ASSUME r[1] \in Nat
      PROVE  filled.values = AllLogs(filled, chain)
  <2>1. PICK logs : logs = LogsOfBlocks(empty, chain, first, last)
    OBVIOUS
  <2>2. filled = Add(empty, logs)
    BY <1>3, <1>4, <2>1 DEF AddBlockLogs
  <2>3. /\ filled.values = << >> \o logs
        /\ filled.from = empty.from /\ filled.to = empty.to
    BY <2>2 DEF Add
  <2>4. logs = AllLogs(empty, chain)
    <3>1. empty.from \in Nat /\ first = FirstScanned(empty.from)
      BY <1>2, <1>4
    <3>2. empty.to \in Nat \cup {None, Latest, Earliest, Pending}
      BY TesterAssumption
    <3>3. last = (IF empty.to \in Nat /\ empty.to < Len(chain) THEN empty.to
                  ELSE Len(chain))
      BY <1>2 DEF LastScanned
    <3> HIDE DEF empty
    <3> QED
      BY <1>1, <2>1, <3>1, <3>2, <3>3, ScanIsAll
  <2>5. AllLogs(empty, chain) \in Seq(LogEntries)
    <3>1. Len(chain) \in 0..Len(chain) /\ 1 \in Nat \ {0}
      BY <1>1
    <3> QED
      BY <1>1, <3>1, LogsOfBlocksType DEF AllLogs
  <2> HIDE DEF empty
  <2>6. AllLogs(filled, chain) = AllLogs(empty, chain)
    BY <2>3, LogsByRange DEF AllLogs
  <2>7. << >> \o logs = logs
    BY <2>4, <2>5
  <2> QED
    BY <2>3, <2>4, <2>6, <2>7
<1>5. filled.from \in Nat => r[1] \in Nat
  BY <1>3
<1> HIDE DEF empty
<1> QED
  BY <1>1, <1>3, <1>4, <1>5 DEF ScanIn, With

(* A block without transactions adds nothing.                              *)
LEMMA AllLogsMinedEmpty ==
    ASSUME NEW f, NEW blocks \in Seq(Blocks), NEW id \in Nat \ {0}
    PROVE  AllLogs(f, Mined(blocks, << >>, 1, id)) = AllLogs(f, blocks)
<1>1. PICK txs \in Seq(Txs) : txs = << >>
  <2>1. << >> \in Seq(Txs)
    OBVIOUS
  <2> QED
    BY <2>1
<1>2. PICK count \in Nat : count = 1
  OBVIOUS
<1>3. PICK mined : mined = Mined(blocks, txs, count, id)
  OBVIOUS
<1>4. PICK N \in Nat : N = Len(blocks)
  OBVIOUS
<1>5. AllLogs(f, mined)
        = AllLogs(f, blocks) \o LogsOfBlocks(f, mined, Len(blocks) + 1, Len(mined))
  <2>1. AllLogs(f, Mined(blocks, txs, count, id))
          = AllLogs(f, blocks)
              \o LogsOfBlocks(f, Mined(blocks, txs, count, id), Len(blocks) + 1,
                              Len(Mined(blocks, txs, count, id)))
    BY AllLogsMined, ZenonT(30)
  <2> QED
    BY <1>3, <2>1
<1>6. mined \in Seq(Blocks)
  BY <1>3, MinedType
<1>7. Len(mined) = N + 1 /\ mined[N + 1] = MinedBlock(txs, id, 1)
  <2>1. /\ Len(Mined(blocks, txs, count, id)) = Len(blocks) + count
        /\ \A n \in (Len(blocks) + 1)..(Len(blocks) + count) :
             Mined(blocks, txs, count, id)[n] = MinedBlock(txs, id, n - Len(blocks))
    BY MinedType, ZenonT(40)
  <2>2. N + 1 \in (N + 1)..(N + count) /\ (N + 1) - N = 1
    BY <1>2
  <2> QED
    BY <1>2, <1>3, <1>4, <2>1, <2>2
<1>8. MinedLogs(f, mined, N + 1) = << >>
  <2>1. mined[N + 1].txs = << >>
    BY <1>1, <1>7 DEF MinedBlock
  <2>2. \A x : Entries(<< >>, x) = << >>
    BY DEF Entries
  <2> QED
    BY <2>1, <2>2 DEF MinedLogs
<1>9. PICK first \in Nat \ {0}, last \in 0..Len(mined) : first = N + 1 /\ last = N + 1
  BY <1>7
<1>10. LogsOfBlocks(f, mined, first, last) = << >>
  <2>1. \A n \in first..last : MinedLogs(f, mined, n) = << >>
    BY <1>8, <1>9
  <2> QED
    BY <1>6, <2>1, LogsNone
<1>11. AllLogs(f, mined) = AllLogs(f, blocks) \o << >>
  BY <1>4, <1>5, <1>7, <1>9, <1>10
<1>12. AllLogs(f, blocks) \in Seq(LogEntries)
  <2>1. 1 \in Nat \ {0} /\ Len(blocks) \in 0..Len(blocks)
    OBVIOUS
  <2> QED
    BY <2>1, LogsOfBlocksType DEF AllLogs
<1>13. AllLogs(f, mined) = AllLogs(f, blocks)
  BY <1>11, <1>12
<1> QED
  BY <1>1, <1>2, <1>3, <1>13

(* Such a step keeps the log filters in agreement with the chain.          *)
LEMMA ScanStep ==
    TypeOK /\ ScanIn(logFilters, chain) /\ [NextForward]_vars
        => ScanIn(logFilters', chain')
<1> SUFFICES ASSUME TypeOK, ScanIn(logFilters, chain), [NextForward]_vars
             PROVE  ScanIn(logFilters', chain')
  OBVIOUS
<1> USE DEF chainVars, filterVars
<1>1. /\ chain \in Seq(Blocks) /\ block \in Seq(Txs) /\ nextId \in Nat \ {0}
      /\ pool \in Seq(Txs) /\ DictOf(logFilters, LogFilters)
  BY DEF TypeOK, ChainTypeOK, FiltersTypeOK
<1>2. ASSUME NEW newBlock \in Seq(Txs), NEW txs \in Seq(Txs), NEW count \in Nat,
             MineAndFeed(newBlock, count, LogFiltersFed(txs))
      PROVE  ScanIn(logFilters', chain')
  <2>1. DictOf(LogFiltersFed(txs), LogFilters)
    BY <1>2, FedType
  <2>2. ScanIn(LogFiltersFed(txs), chain)
    BY ScanFed
  <2> QED
    BY <1>2, <2>1, <2>2, ScanMined
<1>3. ASSUME NEW tx \in Txs, NEW raw \in BOOLEAN, SendAutoMined(tx, raw)
      PROVE  ScanIn(logFilters', chain')
  <2>1. Append(block, tx) \in Seq(Txs) /\ <<tx>> \in Seq(Txs)
    BY PoolType
  <2> QED
    BY <1>2, <1>3, <2>1 DEF SendAutoMined
<1>4. ASSUME NEW tx \in Txs, NEW raw \in BOOLEAN, SendToPool(tx, raw)
      PROVE  ScanIn(logFilters', chain')
  <2>1. <<tx>> \in Seq(Txs)
    BY PoolType
  <2>2. DictOf(LogFiltersFed(<<tx>>), LogFilters)
    BY <2>1, FedType
  <2>3. ScanIn(LogFiltersFed(<<tx>>), chain)
    BY <2>1, ScanFed
  <2>4. RevertAndClean(chain, PoolWith(tx), TxFiltersFed(<<tx>>), LogFiltersFed(<<tx>>))
    BY <1>4 DEF SendToPool
  <2> QED
    BY <2>2, <2>3, <2>4, ScanCleaned
<1>5. ASSUME NEW tx \in Txs, NEW raw \in BOOLEAN, SendToPoolFails(tx, raw)
      PROVE  ScanIn(logFilters', chain')
  <2>1. RevertAndClean(chain, pool, txFilters, logFilters)
    BY <1>5 DEF SendToPoolFails
  <2> QED
    BY <1>1, <2>1, ScanCleaned
<1>6. ASSUME NEW count \in Nat, PopAndMine(count)
      PROVE  ScanIn(logFilters', chain')
  <2>1. block \o pool \in Seq(Txs)
    BY <1>1
  <2> QED
    BY <1>1, <1>2, <1>6, <2>1 DEF PopAndMine
<1>7. CASE PopFails
  <2>1. PICK k \in 0..(Len(pool) - 1) :
          logFilters' = LogFiltersFed(SubSeq(pool, 1, k)) /\ chain' = chain
    BY <1>7 DEF PopFails
  <2>2. SubSeq(pool, 1, k) \in Seq(Txs)
    BY <1>1
  <2> QED
    BY <2>1, <2>2, ScanFed
<1>8. ASSUME NEW count \in MineCounts, MineBlocks(count)
      PROVE  ScanIn(logFilters', chain')
  <2>1. count \in Nat
    BY TesterAssumption
  <2>2. CASE MineAndFeed(block, count, logFilters)
    BY <1>1, <2>1, <2>2, ScanMined
  <2>3. CASE PopAndMine(count)
    BY <1>6, <2>1, <2>3
  <2> QED
    BY <1>8, <2>2, <2>3 DEF MineBlocks
<1>9. CASE EnableAutoMine
  BY <1>6, <1>7, <1>9 DEF EnableAutoMine
<1>10. CASE TimeTravel /\ block = << >>
  <2>1. chain' = Mined(chain, << >>, 1, nextId) /\ logFilters' = logFilters
    BY <1>10 DEF TimeTravel
  <2>2. \A f : AllLogs(f, Mined(chain, << >>, 1, nextId)) = AllLogs(f, chain)
    BY <1>1, AllLogsMinedEmpty
  <2>3. \A f : AllLogs(f, chain') = AllLogs(f, chain)
    BY <2>1, <2>2
  <2> QED
    BY <2>1, <2>3 DEF ScanIn
<1>11. CASE ResetToGenesis
  BY <1>11 DEF ResetToGenesis, NoFilters, ScanIn
<1>12. ASSUME NEW r \in Ranges, CreateLogFilter(r[1], r[2])
       PROVE  ScanIn(logFilters', chain')
  BY <1>12, ScanCreated
<1>13. ASSUME NEW id \in 0..(MaxFilters - 1), DeleteFilter(id)
       PROVE  ScanIn(logFilters', chain')
  BY <1>13 DEF DeleteFilter, Minus, ScanIn
<1>14. ASSUME NEW id \in 0..(MaxFilters - 1), GetOnlyFilterChanges(id)
       PROVE  ScanIn(logFilters', chain')
  <2>1. SUFFICES ASSUME NEW i \in DOMAIN logFilters, logFilters'[i].from \in Nat
                 PROVE  logFilters'[i].values = AllLogs(logFilters'[i], chain)
    BY <1>14 DEF GetOnlyFilterChanges, DrainedAt, ScanIn
  <2>2. PICK f \in LogFilters : f = logFilters[i]
    BY <1>1 DEF DictOf
  <2>3. PICK g : g = logFilters'[i]
    OBVIOUS
  <2>4. g = f \/ g = Drained(f)
    BY <1>14, <2>2, <2>3 DEF GetOnlyFilterChanges, DrainedAt
  <2>5. g.from = f.from /\ g.to = f.to /\ g.values = f.values
    BY <2>4 DEF Drained, LogFilters
  <2>6. AllLogs(g, chain) = AllLogs(f, chain)
    BY <2>5, LogsByRange DEF AllLogs
  <2> QED
    BY <2>1, <2>2, <2>3, <2>5, <2>6 DEF ScanIn
<1>15. ASSUME UNCHANGED <<chain, logFilters>>
       PROVE  ScanIn(logFilters', chain')
  BY <1>15
<1>16. CASE UNCHANGED vars
  BY <1>15, <1>16 DEF vars
<1> QED
  BY <1>3, <1>4, <1>5, <1>7, <1>8, <1>9, <1>10, <1>11, <1>12, <1>13, <1>14, <1>15,
     <1>16
     DEF NextForward, NextFed, MineBlocksFails, DisableAutoMine, TakeSnapshot,
         CreateBlockFilter, CreatePendingTransactionFilter, ChangeAccounts

(* A log filter with a numbered from_block holds exactly what creating it  *)
(* anew would find, through pools, failed pops, pending blocks and the     *)
(* reverts that send_transaction makes on its own, as long as the caller   *)
(* goes back to no snapshot and time travel mines empty blocks.            *)
(* (create_log_filter, mine_blocks, _add_log_entries_to_filter)            *)
THEOREM LogFiltersMatchScan == SpecForward => []LogFiltersAgreeWithScan
<1>1. Init => ScanIn(logFilters, chain)
  BY DEF Init, NoFilters, ScanIn
<1>2. TypeOK /\ ScanIn(logFilters, chain) /\ [NextForward]_vars
        => ScanIn(logFilters, chain)'
  BY ScanStep
<1>3. ASSUME TypeOK, ScanIn(logFilters, chain),
             NEW id \in DOMAIN logFilters, logFilters[id].from \in Nat
      PROVE  logFilters[id].values
               = AddBlockLogs([values |-> << >>, queue |-> << >>,
                               from |-> logFilters[id].from,
                               to |-> logFilters[id].to],
                              chain, FirstScanned(logFilters[id].from),
                              LastScanned(logFilters[id].to)).values
  <2>1. chain \in Seq(Blocks)
    BY <1>3 DEF TypeOK, ChainTypeOK
  <2>2. PICK f \in LogFilters : f = logFilters[id]
    BY <1>3 DEF TypeOK, FiltersTypeOK, DictOf
  <2>3. PICK empty : empty = [values |-> << >>, queue |-> << >>,
                              from |-> f.from, to |-> f.to]
    OBVIOUS
  <2>4. empty.from = f.from /\ empty.to = f.to
    BY <2>3
  <2>5. PICK first, last : first = FirstScanned(f.from) /\ last = LastScanned(f.to)
    OBVIOUS
  <2>6. PICK logs : logs = LogsOfBlocks(empty, chain, first, last)
    OBVIOUS
  <2>7. logs = AllLogs(empty, chain)
    <3>1. empty.from \in Nat /\ first = FirstScanned(empty.from)
      BY <1>3, <2>2, <2>4, <2>5
    <3>2. empty.to \in Nat \cup {None, Latest, Earliest, Pending}
      BY <2>4, TesterAssumption DEF LogFilters
    <3>3. last = (IF empty.to \in Nat /\ empty.to < Len(chain) THEN empty.to
                  ELSE Len(chain))
      BY <2>4, <2>5 DEF LastScanned
    <3> QED
      BY <2>1, <2>6, <3>1, <3>2, <3>3, ScanIsAll
  <2>8. AllLogs(empty, chain) = AllLogs(f, chain)
    BY <2>4, LogsByRange DEF AllLogs
  <2>9. f.values = AllLogs(f, chain)
    BY <1>3, <2>2 DEF ScanIn
  <2>10. f.values \in Seq(LogEntries)
    BY DEF LogFilters
  <2>11. << >> \o logs = logs
    BY <2>7, <2>8, <2>9, <2>10
  <2>12. AddBlockLogs(empty, chain, first, last).values = << >> \o logs
    BY <2>3, <2>6 DEF AddBlockLogs, Add
  <2> QED
    BY <2>2, <2>3, <2>5, <2>7, <2>8, <2>9, <2>11, <2>12
<1>4. TypeOK /\ ScanIn(logFilters, chain) => LogFiltersAgreeWithScan
  BY <1>3 DEF LogFiltersAgreeWithScan
<1>5. [NextForward]_vars => [Next]_vars
  BY DEF NextForward, Next
<1> QED
  BY <1>1, <1>2, <1>4, <1>5, TypeCorrect, PTL DEF SpecForward, Spec
=============================================================================

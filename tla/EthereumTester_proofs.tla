------------------------ MODULE EthereumTester_proofs ------------------------
(***************************************************************************)
(* Theorems about EthereumTester and their proofs, for all values of the   *)
(* constants: its filters, and what it does to the chain, the pool and the *)
(* accounts.                                                               *)
(***************************************************************************)
EXTENDS TesterProperties, Filter_proofs, FiniteSetTheorems, TLAPS

-----------------------------------------------------------------------------
(* The helpers that build log entries and blocks are well typed.           *)

(* Adding to a log filter, removing from it and draining it leave a log    *)
(* filter with the same range.                                             *)
LEMMA LogFilterOperations ==
    ASSUME NEW f \in LogFilters, NEW items \in Seq(LogEntries), NEW valid
    PROVE  /\ Add(f, items) \in LogFilters
           /\ Add(f, items).values = f.values \o items
           /\ Drained(f) \in LogFilters
           /\ Drained(f).values = f.values
           /\ Retain(f, valid) \in LogFilters
           /\ Elements(Retain(f, valid).values) = Elements(f.values) \cap valid
<1> DEFINE gone == Elements(f.values) \ valid
<1>1. f.values \in Seq(LogEntries) /\ f.queue \in Seq(LogEntries)
  BY DEF LogFilters
<1>2. /\ Without(f.values, gone) \in Seq(LogEntries)
      /\ Without(f.queue, gone) \in Seq(LogEntries)
  BY <1>1, WithoutType
<1>3. f.values \o items \in Seq(LogEntries) /\ f.queue \o items \in Seq(LogEntries)
  BY <1>1
<1>4. << >> \in Seq(LogEntries)
  OBVIOUS
<1>5. Elements(Without(f.values, gone)) = Elements(f.values) \ gone
  BY <1>1, WithoutElements
<1>6. Add(f, items) \in LogFilters /\ Add(f, items).values = f.values \o items
  BY <1>3 DEF LogFilters, Add
<1>7. Drained(f) \in LogFilters /\ Drained(f).values = f.values
  BY <1>4 DEF LogFilters, Drained
<1>8. Retain(f, valid) \in LogFilters
  BY <1>2 DEF LogFilters, Retain, Remove
<1>9. Elements(Retain(f, valid).values) = Elements(f.values) \cap valid
  BY <1>5 DEF LogFilters, Retain, Remove
<1> QED
  BY <1>6, <1>7, <1>8, <1>9

(* Log entries of a sequence of transactions: their type, and that each    *)
(* names one of the transactions.                                          *)
LEMMA EntriesType ==
    ASSUME NEW txs \in Seq(Txs), NEW id \in Nat
    PROVE  /\ Entries(txs, id) \in Seq(LogEntries)
           /\ \A e \in Elements(Entries(txs, id)) : e.tx \in Elements(txs)
<1>1. DOMAIN txs = 1..Len(txs) /\ Len(txs) \in Nat
  OBVIOUS
<1>2. \A i \in 1..Len(txs) : [tx |-> txs[i], block |-> id] \in LogEntries
  BY DEF LogEntries
<1>3. Entries(txs, id) \in Seq(LogEntries)
  BY <1>1, <1>2 DEF Entries
<1>4. \A e \in Elements(Entries(txs, id)) : e.tx \in Elements(txs)
  BY <1>1 DEF Entries, Elements
<1> QED
  BY <1>3, <1>4

(* What a log filter accepts from the pending block.                       *)
LEMMA PendingLogsType ==
    ASSUME NEW filter, NEW txs \in Seq(Txs)
    PROVE  /\ PendingLogs(filter, txs) \in Seq(LogEntries)
           /\ \A e \in Elements(PendingLogs(filter, txs)) : e.tx \in Elements(txs)
<1>1. 0 \in Nat /\ << >> \in Seq(LogEntries) /\ Elements(<< >>) = {}
  BY DEF Elements
<1> QED
  BY <1>1, EntriesType DEF PendingLogs

(* What a log filter accepts from one mined block.                         *)
LEMMA MinedLogsType ==
    ASSUME NEW filter, NEW blocks \in Seq(Blocks), NEW n \in 1..Len(blocks)
    PROVE  /\ MinedLogs(filter, blocks, n) \in Seq(LogEntries)
           /\ \A e \in Elements(MinedLogs(filter, blocks, n)) :
                 e.tx \in MinedTxs(blocks)
<1>1. blocks[n] \in Blocks
  OBVIOUS
<1>2. blocks[n].txs \in Seq(Txs) /\ blocks[n].id \in Nat
  BY <1>1 DEF Blocks
<1>3. << >> \in Seq(LogEntries) /\ Elements(<< >>) = {}
  BY DEF Elements
<1>4. Elements(blocks[n].txs) \subseteq MinedTxs(blocks)
  <2>1. SUFFICES ASSUME NEW i \in DOMAIN blocks[n].txs
                 PROVE  blocks[n].txs[i] \in MinedTxs(blocks)
    BY DEF Elements
  <2>2. <<n, i>> \in {n} \X DOMAIN blocks[n].txs /\ n \in DOMAIN blocks
    BY <2>1
  <2>3. <<n, i>> \in Slots(blocks)
    BY <2>2 DEF Slots
  <2>4. TxAt(blocks, <<n, i>>) = blocks[n].txs[i]
    BY DEF TxAt
  <2> QED
    BY <2>3, <2>4 DEF MinedTxs
<1> QED
  BY <1>2, <1>3, <1>4, EntriesType DEF MinedLogs

(* What a log filter accepts from a range of blocks.                       *)
LEMMA LogsOfBlocksType ==
    ASSUME NEW filter, NEW blocks \in Seq(Blocks),
           NEW first \in Nat \ {0}, NEW last \in 0..Len(blocks)
    PROVE  /\ LogsOfBlocks(filter, blocks, first, last) \in Seq(LogEntries)
           /\ \A e \in Elements(LogsOfBlocks(filter, blocks, first, last)) :
                 e.tx \in MinedTxs(blocks)
<1>1. CASE last < first
  <2>1. << >> \in Seq(LogEntries) /\ Elements(<< >>) = {}
    BY DEF Elements
  <2> QED
    BY <1>1, <2>1 DEF LogsOfBlocks
<1>2. CASE ~(last < first)
  <2> DEFINE N == last + 1 - first
  <2> DEFINE ss == [k \in 1..N |-> MinedLogs(filter, blocks, first + k - 1)]
  <2>1. N \in Nat
    BY <1>2
  <2>2. \A k \in 1..N : first + k - 1 \in 1..Len(blocks)
    BY <1>2
  <2>3. \A k \in 1..N : /\ MinedLogs(filter, blocks, first + k - 1) \in Seq(LogEntries)
                        /\ \A e \in Elements(MinedLogs(filter, blocks, first + k - 1)) :
                              e.tx \in MinedTxs(blocks)
    BY <2>2, MinedLogsType
  <2>4. ss \in [1..N -> Seq(LogEntries)]
    BY <2>3
  <2>5. LogsOfBlocks(filter, blocks, first, last) = Concat(ss)
    BY <1>2 DEF LogsOfBlocks
  <2>6. \A k \in 1..N : \A e \in Elements(ss[k]) : e.tx \in MinedTxs(blocks)
    BY <2>3
  <2> HIDE DEF N, ss
  <2>7. Concat(ss) \in Seq(LogEntries)
    BY <2>1, <2>4, ConcatType
  <2>8. \A e \in Elements(Concat(ss)) : \E k \in 1..N : e \in Elements(ss[k])
    BY <2>1, <2>4, ConcatElements
  <2> QED
    BY <2>5, <2>6, <2>7, <2>8
<1> QED
  BY <1>1, <1>2

(* Mining appends blocks to the chain and changes none of those before.    *)
LEMMA MinedType ==
    ASSUME NEW blocks \in Seq(Blocks), NEW txs \in Seq(Txs),
           NEW count \in Nat, NEW id \in Nat \ {0}
    PROVE  /\ Mined(blocks, txs, count, id) \in Seq(Blocks)
           /\ Len(Mined(blocks, txs, count, id)) = Len(blocks) + count
           /\ PendingAfterMining(txs, count) \in Seq(Txs)
           /\ \A n \in 1..Len(blocks) : Mined(blocks, txs, count, id)[n] = blocks[n]
           /\ \A n \in (Len(blocks) + 1)..(Len(blocks) + count) :
                 Mined(blocks, txs, count, id)[n] = MinedBlock(txs, id, n - Len(blocks))
<1> DEFINE new == [i \in 1..count |-> MinedBlock(txs, id, i)]
<1>1. << >> \in Seq(Txs)
  OBVIOUS
<1>2. ASSUME NEW i \in 1..count
      PROVE  MinedBlock(txs, id, i) \in Blocks
  <2>1. id + i - 1 \in Nat \ {0}
    OBVIOUS
  <2>2. (IF i = 1 THEN txs ELSE << >>) \in Seq(Txs)
    BY <1>1
  <2> QED
    BY <2>1, <2>2 DEF Blocks, MinedBlock
<1>3. PendingAfterMining(txs, count) \in Seq(Txs)
  BY <1>1 DEF PendingAfterMining
<1>4. Mined(blocks, txs, count, id) = blocks \o new
  BY DEF Mined
<1>5. new \in [1..count -> Blocks] /\ \A i \in 1..count : new[i] = MinedBlock(txs, id, i)
  BY <1>2
<1> HIDE DEF new
<1>6. new \in Seq(Blocks) /\ Len(new) = count
  BY <1>5
<1>7. /\ blocks \o new \in Seq(Blocks) /\ Len(blocks \o new) = Len(blocks) + count
      /\ \A n \in 1..Len(blocks) : (blocks \o new)[n] = blocks[n]
      /\ \A i \in 1..count : (blocks \o new)[Len(blocks) + i] = new[i]
  BY <1>6
<1>8. ASSUME NEW n \in (Len(blocks) + 1)..(Len(blocks) + count)
      PROVE  (blocks \o new)[n] = MinedBlock(txs, id, n - Len(blocks))
  <2>1. n - Len(blocks) \in 1..count /\ n = Len(blocks) + (n - Len(blocks))
    OBVIOUS
  <2> QED
    BY <1>5, <1>7, <2>1
<1> QED
  BY <1>3, <1>4, <1>7, <1>8

-----------------------------------------------------------------------------
(* Type correctness of what several actions share.                         *)

(* mine_blocks: chain, pending block and filters keep their types.         *)
LEMMA MineAndFeedType ==
    ASSUME TypeOK, NEW newBlock \in Seq(Txs), NEW count \in Nat,
           NEW fed, DictOf(fed, LogFilters), MineAndFeed(newBlock, count, fed)
    PROVE  /\ chain' \in Seq(Blocks) /\ block' \in Seq(Txs)
           /\ nextId' \in Nat \ {0}
           /\ DictOf(blockFilters', FilterOf(Nat))
           /\ DictOf(logFilters', LogFilters)
<1> DEFINE ids == MinedIds(count)
<1> DEFINE blocks == Mined(chain, newBlock, count, nextId)
<1>1. /\ chain \in Seq(Blocks) /\ nextId \in Nat \ {0}
      /\ DictOf(blockFilters, FilterOf(Nat))
  BY DEF TypeOK, ChainTypeOK, FiltersTypeOK
<1>2. /\ chain' = blocks
      /\ block' = PendingAfterMining(newBlock, count)
      /\ nextId' = nextId + count
      /\ blockFilters' = AddToAll(blockFilters, ids)
      /\ logFilters' = [id \in DOMAIN fed |->
                          AddBlockLogs(fed[id], blocks, Len(chain) + 1, Len(blocks))]
  BY DEF MineAndFeed
<1>3. blocks \in Seq(Blocks) /\ PendingAfterMining(newBlock, count) \in Seq(Txs)
  BY <1>1, MinedType
<1>4. ids \in Seq(Nat)
  <2>1. \A i \in 1..count : nextId + i - 1 \in Nat
    BY <1>1
  <2> QED
    BY <2>1 DEF MinedIds
<1> HIDE DEF ids, blocks
<1>5. DictOf(blockFilters', FilterOf(Nat))
  BY <1>1, <1>2, <1>4, FilterDictOperations
<1>6. \A f : LogsOfBlocks(f, blocks, Len(chain) + 1, Len(blocks)) \in Seq(LogEntries)
  <2>1. Len(chain) + 1 \in Nat \ {0} /\ Len(blocks) \in 0..Len(blocks)
    BY <1>1, <1>3
  <2> QED
    BY <1>3, <2>1, LogsOfBlocksType
<1>7. \A id \in DOMAIN fed :
         AddBlockLogs(fed[id], blocks, Len(chain) + 1, Len(blocks)) \in LogFilters
  BY <1>6, LogFilterOperations DEF DictOf, AddBlockLogs
<1>8. DictOf(logFilters', LogFilters)
  BY <1>2, <1>7 DEF DictOf
<1>9. nextId' \in Nat \ {0}
  BY <1>1, <1>2
<1> QED
  BY <1>2, <1>3, <1>5, <1>8, <1>9

(* _handle_filtering_for_transaction keeps the types of the filters.       *)
LEMMA FedType ==
    ASSUME TypeOK, NEW txs \in Seq(Txs)
    PROVE  /\ DictOf(TxFiltersFed(txs), FilterOf(Txs))
           /\ DictOf(LogFiltersFed(txs), LogFilters)
<1>1. DictOf(txFilters, FilterOf(Txs)) /\ DictOf(logFilters, LogFilters)
  BY DEF TypeOK, FiltersTypeOK
<1>2. DictOf(TxFiltersFed(txs), FilterOf(Txs))
  BY <1>1, FilterDictOperations DEF TxFiltersFed
<1>3. \A id \in DOMAIN logFilters :
         Add(logFilters[id], PendingLogs(logFilters[id], txs)) \in LogFilters
  BY <1>1, PendingLogsType, LogFilterOperations DEF DictOf
<1>4. DictOf(LogFiltersFed(txs), LogFilters)
  BY <1>1, <1>3 DEF DictOf, LogFiltersFed
<1> QED
  BY <1>2, <1>4

(* revert_to_snapshot keeps the types of the chain and of the filters.     *)
LEMMA RevertAndCleanType ==
    ASSUME TypeOK, NEW blocks \in Seq(Blocks), NEW waiting,
           NEW txFs, DictOf(txFs, FilterOf(Txs)),
           NEW logFs, DictOf(logFs, LogFilters),
           RevertAndClean(blocks, waiting, txFs, logFs)
    PROVE  /\ chain' \in Seq(Blocks) /\ block' \in Seq(Txs)
           /\ DictOf(blockFilters', FilterOf(Nat))
           /\ DictOf(txFilters', FilterOf(Txs))
           /\ DictOf(logFilters', LogFilters)
<1> DEFINE known == KnownTxs(blocks, << >>, waiting)
<1> DEFINE valid == [tx : known, block : Nat]
<1>1. DictOf(blockFilters, FilterOf(Nat))
  BY DEF TypeOK, FiltersTypeOK
<1>2. /\ chain' = blocks /\ block' = << >>
      /\ blockFilters' = RetainInAll(blockFilters, BlockIds(blocks))
      /\ txFilters' = RetainInAll(txFs, known)
      /\ logFilters' = RetainInAll(logFs, valid)
  BY DEF RevertAndClean
<1> HIDE DEF known, valid
<1>3. << >> \in Seq(Txs) /\ << >> \in Seq(Nat) /\ << >> \in Seq(LogEntries)
  OBVIOUS
<1>4. DictOf(blockFilters', FilterOf(Nat)) /\ DictOf(txFilters', FilterOf(Txs))
  BY <1>1, <1>2, <1>3, FilterDictOperations
<1>5. \A id \in DOMAIN logFs : Retain(logFs[id], valid) \in LogFilters
  BY <1>3, LogFilterOperations DEF DictOf
<1>6. DictOf(logFilters', LogFilters)
  BY <1>2, <1>5 DEF DictOf, RetainInAll
<1> QED
  BY <1>2, <1>3, <1>4, <1>6

(* The pool with one more transaction is a sequence of transactions.       *)
LEMMA PoolType ==
    ASSUME TypeOK, NEW tx \in Txs
    PROVE  /\ PoolWith(tx) \in Seq(Txs)
           /\ Append(block, tx) \in Seq(Txs)
           /\ <<tx>> \in Seq(Txs)
<1>1. pool \in Seq(Txs) /\ block \in Seq(Txs)
  BY DEF TypeOK, ChainTypeOK
<1>2. Without(pool, {other \in Txs : SameNonce(tx, other)}) \in Seq(Txs)
  BY <1>1, WithoutType
<1> QED
  BY <1>1, <1>2 DEF PoolWith

(* Adding, unlocking, locking and expiring accounts keeps their types.     *)
LEMMA AccountsType ==
    ASSUME AccountsTypeOK, NextAccounts \/ ResetAccounts \/ UNCHANGED accountVars
    PROVE  AccountsTypeOK'
<1>1. ASSUME NEW account \in Accounts, NEW password \in Passwords \cup {None},
             AddAccount(account, password)
      PROVE  AccountsTypeOK'
  BY <1>1 DEF AddAccount, With, AccountsTypeOK
<1>2. ASSUME NEW account \in Accounts, NEW password \in Passwords,
             NEW mode \in {"until", "forever"}, UnlockAccount(account, password, mode)
      PROVE  AccountsTypeOK'
  BY <1>2 DEF UnlockAccount, AccountsTypeOK, UnlockStates
<1>3. ASSUME NEW account \in Accounts, LockAccount(account) \/ Expire(account)
      PROVE  AccountsTypeOK'
  BY <1>3 DEF LockAccount, Expire, AccountsTypeOK, UnlockStates
<1>4. CASE ResetAccounts
  BY <1>4, ChainAssumption DEF ResetAccounts, AccountsTypeOK, UnlockStates
<1>5. CASE UNCHANGED accountVars
  BY <1>5 DEF accountVars, AccountsTypeOK
<1> QED
  BY <1>1, <1>2, <1>3, <1>4, <1>5 DEF NextAccounts

(* What creating a log filter registers.                                   *)
LEMMA CreatedLogFilterType ==
    ASSUME TypeOK, NEW r \in Ranges, CreateLogFilter(r[1], r[2])
    PROVE  /\ DictOf(logFilters', LogFilters)
           /\ \E filled \in LogFilters :
                 /\ logFilters' = With(logFilters, filterCounter, filled)
                 /\ \A e \in Elements(filled.values) : e.tx \in MinedTxs(chain)
<1> DEFINE empty == [values |-> << >>, queue |-> << >>, from |-> r[1], to |-> r[2]]
<1> DEFINE logs == LogsOfBlocks(empty, chain, FirstScanned(r[1]), LastScanned(r[2]))
<1> DEFINE filled == IF r[1] \in Nat
                     THEN AddBlockLogs(empty, chain, FirstScanned(r[1]),
                                       LastScanned(r[2]))
                     ELSE empty
<1>1. /\ chain \in Seq(Blocks) /\ filterCounter \in Nat
      /\ DictOf(logFilters, LogFilters)
  BY DEF TypeOK, ChainTypeOK, FiltersTypeOK
<1>2. logFilters' = With(logFilters, filterCounter, filled)
  BY DEF CreateLogFilter
<1>3. empty \in LogFilters /\ Elements(empty.values) = {}
  <2>1. << >> \in Seq(LogEntries)
    OBVIOUS
  <2> QED
    BY <2>1 DEF LogFilters, Elements
<1>4. CASE r[1] \in Nat
  <2>1. FirstScanned(r[1]) \in Nat \ {0}
    BY <1>4 DEF FirstScanned
  <2>2. LastScanned(r[2]) \in 0..Len(chain)
    BY <1>1 DEF LastScanned
  <2> HIDE DEF empty
  <2>3. /\ logs \in Seq(LogEntries)
        /\ \A e \in Elements(logs) : e.tx \in MinedTxs(chain)
    BY <1>1, <2>1, <2>2, LogsOfBlocksType
  <2>4. filled = Add(empty, logs)
    BY <1>4 DEF AddBlockLogs
  <2> HIDE DEF filled, logs
  <2>5. filled \in LogFilters /\ filled.values = empty.values \o logs
    BY <1>3, <2>3, <2>4, LogFilterOperations
  <2>6. empty.values \in Seq(LogEntries)
    BY <1>3 DEF LogFilters
  <2>7. Elements(filled.values) = Elements(empty.values) \cup Elements(logs)
    BY <2>3, <2>5, <2>6, ElementsOfConcatenation
  <2>8. DictOf(logFilters', LogFilters)
    BY <1>1, <1>2, <2>5, DictOperations
  <2> QED
    BY <1>2, <1>3, <2>3, <2>5, <2>7, <2>8
<1>5. CASE r[1] \notin Nat
  <2>1. filled = empty
    BY <1>5
  <2> HIDE DEF filled, empty
  <2>2. DictOf(logFilters', LogFilters)
    BY <1>1, <1>2, <1>3, <2>1, DictOperations
  <2> QED
    BY <1>2, <1>3, <2>1, <2>2
<1> QED
  BY <1>4, <1>5

(* Polling one filter keeps the types of all of them.                      *)
LEMMA DrainedAtType ==
    ASSUME TypeOK, NEW id
    PROVE  /\ DictOf(DrainedAt(blockFilters, id), FilterOf(Nat))
           /\ DictOf(DrainedAt(txFilters, id), FilterOf(Txs))
           /\ DictOf(DrainedAt(logFilters, id), LogFilters)
<1>1. /\ DictOf(blockFilters, FilterOf(Nat)) /\ DictOf(txFilters, FilterOf(Txs))
      /\ DictOf(logFilters, LogFilters)
  BY DEF TypeOK, FiltersTypeOK
<1>2. << >> \in Seq(Nat) /\ << >> \in Seq(Txs) /\ << >> \in Seq(LogEntries)
  OBVIOUS
<1>3. \A i \in DOMAIN blockFilters : Drained(blockFilters[i]) \in FilterOf(Nat)
  BY <1>1, <1>2, FilterOperations DEF DictOf
<1>4. \A i \in DOMAIN txFilters : Drained(txFilters[i]) \in FilterOf(Txs)
  BY <1>1, <1>2, FilterOperations DEF DictOf
<1>5. \A i \in DOMAIN logFilters : Drained(logFilters[i]) \in LogFilters
  BY <1>1, <1>2, LogFilterOperations DEF DictOf
<1>6. DictOf(DrainedAt(blockFilters, id), FilterOf(Nat))
  BY <1>1, <1>3 DEF DictOf, DrainedAt
<1>7. DictOf(DrainedAt(txFilters, id), FilterOf(Txs))
  BY <1>1, <1>4 DEF DictOf, DrainedAt
<1>8. DictOf(DrainedAt(logFilters, id), LogFilters)
  BY <1>1, <1>5 DEF DictOf, DrainedAt
<1> QED
  BY <1>6, <1>7, <1>8

(* Popping the whole pool and mining it keeps the types.                   *)
LEMMA PopAndMineType ==
    ASSUME TypeOK, NEW count \in Nat, PopAndMine(count)
    PROVE  /\ chain' \in Seq(Blocks) /\ block' \in Seq(Txs)
           /\ nextId' \in Nat \ {0} /\ pool' \in Seq(Txs)
           /\ DictOf(blockFilters', FilterOf(Nat))
           /\ DictOf(txFilters', FilterOf(Txs))
           /\ DictOf(logFilters', LogFilters)
<1>1. pool \in Seq(Txs) /\ block \o pool \in Seq(Txs) /\ << >> \in Seq(Txs)
  BY DEF TypeOK, ChainTypeOK
<1>2. /\ pool' = << >> /\ txFilters' = TxFiltersFed(pool)
      /\ MineAndFeed(block \o pool, count, LogFiltersFed(pool))
  BY DEF PopAndMine
<1>3. DictOf(TxFiltersFed(pool), FilterOf(Txs)) /\ DictOf(LogFiltersFed(pool), LogFilters)
  BY <1>1, FedType
<1> QED
  BY <1>1, <1>2, <1>3, MineAndFeedType

(* A pop that stops half way keeps the types.                              *)
LEMMA PopFailsType ==
    ASSUME TypeOK, PopFails
    PROVE  /\ block' \in Seq(Txs)
           /\ DictOf(txFilters', FilterOf(Txs))
           /\ DictOf(logFilters', LogFilters)
           /\ UNCHANGED <<chain, nextId, pool, blockFilters>>
<1>1. pool \in Seq(Txs) /\ block \in Seq(Txs)
  BY DEF TypeOK, ChainTypeOK
<1>2. PICK k \in 0..(Len(pool) - 1) :
        /\ block' = block \o SubSeq(pool, 1, k)
        /\ txFilters' = TxFiltersFed(SubSeq(pool, 1, k))
        /\ logFilters' = LogFiltersFed(SubSeq(pool, 1, k))
        /\ UNCHANGED <<chain, nextId, pool, blockFilters>>
  BY DEF PopFails
<1>3. SubSeq(pool, 1, k) \in Seq(Txs)
  BY <1>1
<1>4. block \o SubSeq(pool, 1, k) \in Seq(Txs)
  BY <1>1, <1>3
<1> QED
  BY <1>2, <1>3, <1>4, FedType

(* Every call preserves the type invariant.                                *)
LEMMA TypeStep == TypeOK /\ [Next]_vars => TypeOK'
<1> SUFFICES ASSUME TypeOK, [Next]_vars
             PROVE  TypeOK'
  OBVIOUS
<1> USE DEF chainVars, filterVars
<1>1. /\ chain \in Seq(Blocks) /\ block \in Seq(Txs) /\ nextId \in Nat \ {0}
      /\ pool \in Seq(Txs) /\ autoMine \in BOOLEAN /\ snapshots \in Seq(Seq(Blocks))
  BY DEF TypeOK, ChainTypeOK
<1>2. /\ filterCounter \in Nat
      /\ DictOf(blockFilters, FilterOf(Nat)) /\ DictOf(txFilters, FilterOf(Txs))
      /\ DictOf(logFilters, LogFilters)
  BY DEF TypeOK, FiltersTypeOK
<1>3. AccountsTypeOK
  BY DEF TypeOK
<1>4. UNCHANGED accountVars => AccountsTypeOK'
  BY <1>3, AccountsType
<1>5. Append(snapshots, chain) \in Seq(Seq(Blocks)) /\ << >> \in Seq(Seq(Blocks))
  BY <1>1
<1>6. << >> \in Seq(Blocks) /\ << >> \in Seq(Txs)
  OBVIOUS
<1>7. /\ DictOf(NoFilters, FilterOf(Nat)) /\ DictOf(NoFilters, FilterOf(Txs))
      /\ DictOf(NoFilters, LogFilters)
  BY DEF NoFilters, DictOf
<1>8. ASSUME NEW tx \in Txs, NEW raw \in BOOLEAN, SendAutoMined(tx, raw)
      PROVE  TypeOK'
  <2>1. Append(block, tx) \in Seq(Txs) /\ <<tx>> \in Seq(Txs)
    BY PoolType
  <2>2. /\ DictOf(TxFiltersFed(<<tx>>), FilterOf(Txs))
        /\ DictOf(LogFiltersFed(<<tx>>), LogFilters)
    BY <2>1, FedType
  <2>3. /\ txFilters' = TxFiltersFed(<<tx>>)
        /\ MineAndFeed(Append(block, tx), 1, LogFiltersFed(<<tx>>))
        /\ UNCHANGED <<pool, autoMine, snapshots, filterCounter, accountVars>>
    BY <1>8 DEF SendAutoMined
  <2>4. /\ chain' \in Seq(Blocks) /\ block' \in Seq(Txs) /\ nextId' \in Nat \ {0}
        /\ DictOf(blockFilters', FilterOf(Nat)) /\ DictOf(logFilters', LogFilters)
    BY <2>1, <2>2, <2>3, MineAndFeedType
  <2> QED
    BY <1>1, <1>2, <1>4, <2>2, <2>3, <2>4 DEF TypeOK, ChainTypeOK, FiltersTypeOK
<1>9. ASSUME NEW tx \in Txs, NEW raw \in BOOLEAN, SendToPool(tx, raw)
      PROVE  TypeOK'
  <2>1. PoolWith(tx) \in Seq(Txs) /\ <<tx>> \in Seq(Txs)
    BY PoolType
  <2>2. /\ DictOf(TxFiltersFed(<<tx>>), FilterOf(Txs))
        /\ DictOf(LogFiltersFed(<<tx>>), LogFilters)
    BY <2>1, FedType
  <2>3. /\ snapshots' = Append(snapshots, chain) /\ pool' = PoolWith(tx)
        /\ RevertAndClean(chain, PoolWith(tx),
                          TxFiltersFed(<<tx>>), LogFiltersFed(<<tx>>))
        /\ UNCHANGED <<nextId, autoMine, filterCounter, accountVars>>
    BY <1>9 DEF SendToPool
  <2>4. /\ chain' \in Seq(Blocks) /\ block' \in Seq(Txs)
        /\ DictOf(blockFilters', FilterOf(Nat)) /\ DictOf(txFilters', FilterOf(Txs))
        /\ DictOf(logFilters', LogFilters)
    BY <1>1, <2>2, <2>3, RevertAndCleanType
  <2> QED
    BY <1>1, <1>2, <1>4, <1>5, <2>1, <2>3, <2>4
       DEF TypeOK, ChainTypeOK, FiltersTypeOK
<1>10. ASSUME NEW tx \in Txs, NEW raw \in BOOLEAN, SendToPoolFails(tx, raw)
       PROVE  TypeOK'
  <2>1. /\ snapshots' = Append(snapshots, chain)
        /\ RevertAndClean(chain, pool, txFilters, logFilters)
        /\ UNCHANGED <<nextId, pool, autoMine, filterCounter, accountVars>>
    BY <1>10 DEF SendToPoolFails
  <2>2. /\ chain' \in Seq(Blocks) /\ block' \in Seq(Txs)
        /\ DictOf(blockFilters', FilterOf(Nat)) /\ DictOf(txFilters', FilterOf(Txs))
        /\ DictOf(logFilters', LogFilters)
    BY <1>1, <1>2, <2>1, RevertAndCleanType
  <2> QED
    BY <1>1, <1>2, <1>4, <1>5, <2>1, <2>2 DEF TypeOK, ChainTypeOK, FiltersTypeOK
<1>11. ASSUME NEW count \in MineCounts, MineBlocks(count)
       PROVE  TypeOK'
  <2>1. count \in Nat
    BY TesterAssumption
  <2>2. UNCHANGED <<autoMine, snapshots, filterCounter, accountVars>>
    BY <1>11 DEF MineBlocks
  <2>3. CASE MineAndFeed(block, count, logFilters) /\ UNCHANGED <<pool, txFilters>>
    <3>1. /\ chain' \in Seq(Blocks) /\ block' \in Seq(Txs) /\ nextId' \in Nat \ {0}
          /\ DictOf(blockFilters', FilterOf(Nat)) /\ DictOf(logFilters', LogFilters)
      BY <1>1, <1>2, <2>1, <2>3, MineAndFeedType
    <3> QED
      BY <1>1, <1>2, <1>4, <2>2, <2>3, <3>1 DEF TypeOK, ChainTypeOK, FiltersTypeOK
  <2>4. CASE PopAndMine(count)
    BY <1>1, <1>2, <1>4, <2>1, <2>2, <2>4, PopAndMineType
       DEF TypeOK, ChainTypeOK, FiltersTypeOK
  <2> QED
    BY <1>11, <2>3, <2>4 DEF MineBlocks
<1>12. CASE MineBlocksFails
  BY <1>1, <1>2, <1>4, <1>12, PopFailsType
     DEF MineBlocksFails, TypeOK, ChainTypeOK, FiltersTypeOK
<1>13. CASE EnableAutoMine
  <2>1. autoMine' = TRUE /\ UNCHANGED <<snapshots, filterCounter, accountVars>>
    BY <1>13 DEF EnableAutoMine
  <2>2. CASE PopAndMine(1)
    BY <1>1, <1>2, <1>4, <2>1, <2>2, PopAndMineType
       DEF TypeOK, ChainTypeOK, FiltersTypeOK
  <2>3. CASE PopFails
    BY <1>1, <1>2, <1>4, <2>1, <2>3, PopFailsType
       DEF TypeOK, ChainTypeOK, FiltersTypeOK
  <2> QED
    BY <1>13, <2>2, <2>3 DEF EnableAutoMine
<1>14. CASE DisableAutoMine
  BY <1>1, <1>2, <1>4, <1>14 DEF DisableAutoMine, TypeOK, ChainTypeOK, FiltersTypeOK
<1>15. CASE TimeTravel
  <2>1. Mined(chain, block, 1, nextId) \in Seq(Blocks)
    BY <1>1, MinedType
  <2>2. nextId + 1 \in Nat \ {0}
    BY <1>1
  <2> QED
    BY <1>1, <1>2, <1>4, <1>6, <1>15, <2>1, <2>2
       DEF TimeTravel, TypeOK, ChainTypeOK, FiltersTypeOK
<1>16. CASE TakeSnapshot
  BY <1>1, <1>2, <1>4, <1>5, <1>16
     DEF TakeSnapshot, TypeOK, ChainTypeOK, FiltersTypeOK
<1>17. ASSUME NEW s \in 1..MaxSnapshots, RevertToSnapshot(s)
       PROVE  TypeOK'
  <2>1. /\ RevertAndClean(snapshots[s], pool, txFilters, logFilters)
        /\ UNCHANGED <<nextId, pool, autoMine, snapshots, filterCounter, accountVars>>
        /\ snapshots[s] \in Seq(Blocks)
    BY <1>1, <1>17 DEF RevertToSnapshot
  <2>2. /\ chain' \in Seq(Blocks) /\ block' \in Seq(Txs)
        /\ DictOf(blockFilters', FilterOf(Nat)) /\ DictOf(txFilters', FilterOf(Txs))
        /\ DictOf(logFilters', LogFilters)
    BY <1>2, <2>1, RevertAndCleanType
  <2> QED
    BY <1>1, <1>2, <1>4, <2>1, <2>2 DEF TypeOK, ChainTypeOK, FiltersTypeOK
<1>18. CASE ResetToGenesis
  <2>1. AccountsTypeOK'
    BY <1>3, <1>18, AccountsType DEF ResetToGenesis
  <2> QED
    BY <1>1, <1>5, <1>6, <1>7, <1>18, <2>1
       DEF ResetToGenesis, TypeOK, ChainTypeOK, FiltersTypeOK
<1>19. filterCounter + 1 \in Nat
  BY <1>2
<1>20. CASE CreateBlockFilter
  <2>1. DictOf(With(blockFilters, filterCounter, NewFilter), FilterOf(Nat))
    BY <1>2, NewFilterType, DictOperations
  <2> QED
    BY <1>1, <1>2, <1>4, <1>19, <1>20, <2>1
       DEF CreateBlockFilter, TakeFilterId, TypeOK, ChainTypeOK, FiltersTypeOK
<1>21. CASE CreatePendingTransactionFilter
  <2>1. DictOf(With(txFilters, filterCounter, NewFilter), FilterOf(Txs))
    BY <1>2, NewFilterType, DictOperations
  <2> QED
    BY <1>1, <1>2, <1>4, <1>19, <1>21, <2>1
       DEF CreatePendingTransactionFilter, TakeFilterId, TypeOK, ChainTypeOK,
           FiltersTypeOK
<1>22. ASSUME NEW r \in Ranges, CreateLogFilter(r[1], r[2])
       PROVE  TypeOK'
  <2>1. DictOf(logFilters', LogFilters)
    BY <1>22, CreatedLogFilterType
  <2>2. /\ filterCounter' = filterCounter + 1
        /\ UNCHANGED <<chainVars, pool, autoMine, snapshots, blockFilters,
                       txFilters, accountVars>>
    BY <1>22 DEF CreateLogFilter, TakeFilterId
  <2> QED
    BY <1>1, <1>2, <1>4, <1>19, <2>1, <2>2 DEF TypeOK, ChainTypeOK, FiltersTypeOK
<1>23. ASSUME NEW id \in 0..(MaxFilters - 1), DeleteFilter(id)
       PROVE  TypeOK'
  <2>1. /\ DictOf(blockFilters', FilterOf(Nat)) /\ DictOf(txFilters', FilterOf(Txs))
        /\ DictOf(logFilters', LogFilters)
    BY <1>2, <1>23 DEF DeleteFilter, DictOf, Minus
  <2> QED
    BY <1>1, <1>2, <1>4, <1>23, <2>1
       DEF DeleteFilter, TypeOK, ChainTypeOK, FiltersTypeOK
<1>24. ASSUME NEW id \in 0..(MaxFilters - 1), GetOnlyFilterChanges(id)
       PROVE  TypeOK'
  <2>1. /\ DictOf(blockFilters', FilterOf(Nat)) /\ DictOf(txFilters', FilterOf(Txs))
        /\ DictOf(logFilters', LogFilters)
    BY <1>24, DrainedAtType DEF GetOnlyFilterChanges
  <2> QED
    BY <1>1, <1>2, <1>4, <1>24, <2>1
       DEF GetOnlyFilterChanges, TypeOK, ChainTypeOK, FiltersTypeOK
<1>25. CASE ChangeAccounts
  <2>1. AccountsTypeOK'
    BY <1>3, <1>25, AccountsType DEF ChangeAccounts
  <2> QED
    BY <1>1, <1>2, <1>25, <2>1 DEF ChangeAccounts, TypeOK, ChainTypeOK, FiltersTypeOK
<1>26. CASE UNCHANGED vars
  BY <1>1, <1>2, <1>4, <1>26 DEF vars, TypeOK, ChainTypeOK, FiltersTypeOK
<1> QED
  BY <1>8, <1>9, <1>10, <1>11, <1>12, <1>13, <1>14, <1>15, <1>16, <1>17, <1>18,
     <1>20, <1>21, <1>22, <1>23, <1>24, <1>25, <1>26 DEF Next, NextFed

(***************************************************************************)
(* Every variable keeps its type, whatever calls are made in whatever      *)
(* order: in particular no call leaves a dictionary of filters, the pool   *)
(* or a snapshot in a form that another call cannot handle.                *)
(***************************************************************************)
THEOREM TypeCorrect == Spec => []TypeOK
<1>1. Init => TypeOK
  <2>1. << >> \in Seq(Blocks) /\ << >> \in Seq(Txs) /\ << >> \in Seq(Seq(Blocks))
    OBVIOUS
  <2>2. /\ DictOf(NoFilters, FilterOf(Nat)) /\ DictOf(NoFilters, FilterOf(Txs))
        /\ DictOf(NoFilters, LogFilters)
    BY DEF NoFilters, DictOf
  <2>3. InitAccounts => AccountsTypeOK
    BY ChainAssumption DEF InitAccounts, AccountsTypeOK, UnlockStates
  <2> QED
    BY <2>1, <2>2, <2>3 DEF Init, TypeOK, ChainTypeOK, FiltersTypeOK
<1> QED
  BY <1>1, TypeStep, PTL DEF Spec

-----------------------------------------------------------------------------
(* One transaction per sender and nonce in the pool.                       *)

(* Removing the transactions with the nonce of the new one, before it is   *)
(* appended, leaves one transaction per sender and nonce.                  *)
LEMMA PoolWithUnique ==
    ASSUME TypeOK, PoolUniqueNonce, NEW tx \in Txs
    PROVE  \A i, j \in DOMAIN PoolWith(tx) :
              i # j => ~SameNonce(PoolWith(tx)[i], PoolWith(tx)[j])
<1> DEFINE gone == {other \in Txs : SameNonce(tx, other)}
<1> DEFINE kept == Without(pool, gone)
<1>1. pool \in Seq(Txs)
  BY DEF TypeOK, ChainTypeOK
<1>2. /\ kept \in Seq(Txs)
      /\ Elements(kept) = Elements(pool) \ gone
      /\ InOrder(kept, pool, Len(pool))
  BY <1>1, WithoutType, WithoutElements, WithoutOrder
<1>3. PoolWith(tx) = Append(kept, tx)
  BY DEF PoolWith
<1> HIDE DEF kept
<1>4. ASSUME NEW i \in 1..Len(kept)
      PROVE  ~SameNonce(tx, kept[i])
  <2>1. kept[i] \in Elements(kept) /\ kept[i] \in Txs
    BY <1>2 DEF Elements
  <2>2. kept[i] \notin gone
    BY <1>2, <2>1
  <2> QED
    BY <2>1, <2>2
<1>5. ASSUME NEW i \in 1..Len(kept), NEW j \in 1..Len(kept), i < j
      PROVE  ~SameNonce(kept[i], kept[j])
  <2>1. PICK p \in 1..Len(pool), q \in 1..Len(pool) :
          p < q /\ kept[i] = pool[p] /\ kept[j] = pool[q]
    BY <1>2, <1>5 DEF InOrder
  <2>2. p \in DOMAIN pool /\ q \in DOMAIN pool /\ p # q
    BY <1>1, <2>1
  <2> QED
    BY <2>1, <2>2 DEF PoolUniqueNonce
<1>6. SUFFICES ASSUME NEW i \in 1..(Len(kept) + 1), NEW j \in 1..(Len(kept) + 1),
                      i # j
               PROVE  ~SameNonce(Append(kept, tx)[i], Append(kept, tx)[j])
  <2>1. DOMAIN Append(kept, tx) = 1..(Len(kept) + 1)
    BY <1>2
  <2> QED
    BY <1>3, <2>1
<1>7. \A x, y : SameNonce(x, y) <=> SameNonce(y, x)
  BY DEF SameNonce
<1>8. /\ Append(kept, tx)[Len(kept) + 1] = tx
      /\ \A k \in 1..Len(kept) : Append(kept, tx)[k] = kept[k]
      /\ Len(kept) \in Nat
  BY <1>2
<1>9. CASE i = Len(kept) + 1
  <2>1. j \in 1..Len(kept)
    BY <1>6, <1>8, <1>9
  <2> QED
    BY <1>4, <1>8, <1>9, <2>1
<1>10. CASE j = Len(kept) + 1
  <2>1. i \in 1..Len(kept)
    BY <1>6, <1>8, <1>10
  <2> QED
    BY <1>4, <1>7, <1>8, <1>10, <2>1
<1>11. CASE i # Len(kept) + 1 /\ j # Len(kept) + 1
  <2>1. i \in 1..Len(kept) /\ j \in 1..Len(kept) /\ (i < j \/ j < i)
    BY <1>6, <1>8, <1>11
  <2> QED
    BY <1>5, <1>7, <1>8, <2>1
<1> QED
  BY <1>9, <1>10, <1>11

(***************************************************************************)
(* The pool never holds two transactions with the same sender and nonce.   *)
(* The invariant is inductive given the types: only PoolWith adds to the   *)
(* pool, and it first removes what the new transaction replaces.           *)
(***************************************************************************)
THEOREM PoolHasOnePerNonce == Spec => []PoolUniqueNonce
<1>1. Init => PoolUniqueNonce
  BY DEF Init, PoolUniqueNonce
<1>2. TypeOK /\ PoolUniqueNonce /\ [Next]_vars => PoolUniqueNonce'
  <2> SUFFICES ASSUME TypeOK, PoolUniqueNonce, [Next]_vars
               PROVE  PoolUniqueNonce'
    OBVIOUS
  <2> USE DEF chainVars, filterVars
  <2>1. UNCHANGED pool => PoolUniqueNonce'
    BY DEF PoolUniqueNonce
  <2>2. pool' = << >> => PoolUniqueNonce'
    BY DEF PoolUniqueNonce
  <2>3. ASSUME NEW tx \in Txs, pool' = PoolWith(tx)
        PROVE  PoolUniqueNonce'
    BY <2>3, PoolWithUnique DEF PoolUniqueNonce
  <2>4. \/ UNCHANGED pool
        \/ pool' = << >>
        \/ \E tx \in Txs : pool' = PoolWith(tx)
    BY DEF Next, NextFed, vars, SendAutoMined, SendToPool, SendToPoolFails, MineBlocks,
           MineBlocksFails, EnableAutoMine, PopAndMine, PopFails, DisableAutoMine,
           TimeTravel, TakeSnapshot, RevertToSnapshot, ResetToGenesis,
           CreateBlockFilter, CreatePendingTransactionFilter, CreateLogFilter,
           DeleteFilter, GetOnlyFilterChanges, ChangeAccounts
  <2> QED
    BY <2>1, <2>2, <2>3, <2>4
<1> QED
  BY <1>1, <1>2, TypeCorrect, PTL DEF Spec
-----------------------------------------------------------------------------
(* What filters report can be looked up.                                   *)

TxsKnownIn(filters, known) ==
    \A id \in DOMAIN filters : Elements(filters[id].values) \subseteq known

LogsKnownIn(filters, known) ==
    \A id \in DOMAIN filters :
        \A entry \in Elements(filters[id].values) : entry.tx \in known

(* Mining loses no transaction.                                            *)
LEMMA MiningKeepsKnown ==
    ASSUME NEW blocks \in Seq(Blocks), NEW txs \in Seq(Txs),
           NEW count \in Nat, NEW id \in Nat \ {0}
    PROVE  BackendKnows(blocks, txs)
             \subseteq BackendKnows(Mined(blocks, txs, count, id),
                                    PendingAfterMining(txs, count))
<1> DEFINE mined == Mined(blocks, txs, count, id)
<1> DEFINE m == Len(blocks) + 1
<1>1. /\ mined \in Seq(Blocks) /\ Len(mined) = Len(blocks) + count
      /\ \A n \in 1..Len(blocks) : mined[n] = blocks[n]
      /\ count # 0 => mined[m].txs = txs
  <2>1. /\ mined \in Seq(Blocks) /\ Len(mined) = Len(blocks) + count
        /\ \A n \in 1..Len(blocks) : mined[n] = blocks[n]
    BY MinedType, ZenonT(40)
  <2>2. \A n \in (Len(blocks) + 1)..(Len(blocks) + count) :
           mined[n] = MinedBlock(txs, id, n - Len(blocks))
    BY MinedType
  <2> HIDE DEF mined
  <2>3. ASSUME count # 0
        PROVE  mined[m].txs = txs
    <3>1. mined[m] = MinedBlock(txs, id, 1)
      <4>1. m \in (Len(blocks) + 1)..(Len(blocks) + count) /\ m - Len(blocks) = 1
        BY <2>3
      <4> HIDE DEF m
      <4> QED
        BY <2>2, <4>1
    <3> QED
      BY <3>1 DEF MinedBlock
  <2> QED
    BY <2>1, <2>3
<1> HIDE DEF mined
<1>2. \A n \in DOMAIN blocks : n \in DOMAIN mined /\ mined[n] = blocks[n]
  BY <1>1
<1>3. MinedTxs(blocks) \subseteq MinedTxs(mined)
  <2>1. Slots(blocks) \subseteq Slots(mined)
    BY <1>2 DEF Slots
  <2>2. \A slot \in Slots(blocks) : TxAt(mined, slot) = TxAt(blocks, slot)
    BY <1>2 DEF Slots, TxAt
  <2> QED
    BY <2>1, <2>2 DEF MinedTxs
<1>4. CASE count = 0
  <2>1. PendingAfterMining(txs, count) = txs
    BY <1>4 DEF PendingAfterMining
  <2> QED
    BY <1>3, <2>1 DEF BackendKnows, mined
<1>5. CASE count # 0
  <2>1. m \in DOMAIN mined /\ mined[m].txs = txs
    BY <1>1, <1>5
  <2> HIDE DEF m
  <2>2. Elements(txs) \subseteq MinedTxs(mined)
    <3>1. SUFFICES ASSUME NEW i \in DOMAIN txs
                   PROVE  txs[i] \in MinedTxs(mined)
      BY DEF Elements
    <3>2. <<m, i>> \in {m} \X DOMAIN mined[m].txs
      BY <2>1
    <3>3. <<m, i>> \in Slots(mined)
      BY <2>1, <3>2 DEF Slots
    <3>4. TxAt(mined, <<m, i>>) = txs[i]
      BY <2>1 DEF TxAt
    <3> QED
      BY <3>3, <3>4 DEF MinedTxs
  <2> QED
    BY <1>3, <2>2 DEF BackendKnows, mined
<1> QED
  BY <1>4, <1>5

(* Feeding transactions that are known.                                    *)
LEMMA FedKnown ==
    ASSUME TypeOK, NEW txs \in Seq(Txs), NEW known, Elements(txs) \subseteq known
    PROVE  /\ TxsKnownIn(txFilters, known) => TxsKnownIn(TxFiltersFed(txs), known)
           /\ LogsKnownIn(logFilters, known) => LogsKnownIn(LogFiltersFed(txs), known)
<1>1. DictOf(txFilters, FilterOf(Txs)) /\ DictOf(logFilters, LogFilters)
  BY DEF TypeOK, FiltersTypeOK
<1>2. ASSUME TxsKnownIn(txFilters, known), NEW id \in DOMAIN txFilters
      PROVE  Elements(Add(txFilters[id], txs).values) \subseteq known
  <2>1. txFilters[id] \in FilterOf(Txs) /\ txFilters[id].values \in Seq(Txs)
    BY <1>1 DEF DictOf, FilterOf
  <2>2. Add(txFilters[id], txs).values = txFilters[id].values \o txs
    BY <2>1, FilterOperations
  <2>3. Elements(txFilters[id].values \o txs)
          = Elements(txFilters[id].values) \cup Elements(txs)
    BY <2>1, ElementsOfConcatenation
  <2> QED
    BY <1>2, <2>2, <2>3 DEF TxsKnownIn
<1>3. ASSUME LogsKnownIn(logFilters, known), NEW id \in DOMAIN logFilters,
             NEW e \in Elements(Add(logFilters[id],
                                    PendingLogs(logFilters[id], txs)).values)
      PROVE  e.tx \in known
  <2> DEFINE logs == PendingLogs(logFilters[id], txs)
  <2>1. logFilters[id] \in LogFilters /\ logFilters[id].values \in Seq(LogEntries)
    BY <1>1 DEF DictOf, LogFilters
  <2>2. logs \in Seq(LogEntries) /\ \A x \in Elements(logs) : x.tx \in Elements(txs)
    BY PendingLogsType
  <2> HIDE DEF logs
  <2>3. Add(logFilters[id], logs).values = logFilters[id].values \o logs
    BY <2>1, <2>2, LogFilterOperations
  <2>4. e \in Elements(logFilters[id].values) \cup Elements(logs)
    BY <1>3, <2>1, <2>2, <2>3, ElementsOfConcatenation DEF logs
  <2> QED
    BY <1>3, <2>2, <2>4 DEF LogsKnownIn
<1> QED
  BY <1>2, <1>3 DEF TxsKnownIn, LogsKnownIn, TxFiltersFed, AddToAll, LogFiltersFed

(* Mining: the log filters get entries of transactions that are now mined. *)
LEMMA MineAndFeedKnown ==
    ASSUME TypeOK, NEW newBlock \in Seq(Txs), NEW count \in Nat, NEW waiting,
           NEW fed, DictOf(fed, LogFilters), MineAndFeed(newBlock, count, fed)
    PROVE  /\ KnownTxs(chain, newBlock, waiting)
                \subseteq KnownTxs(chain', block', waiting)
           /\ LogsKnownIn(fed, KnownTxs(chain, newBlock, waiting))
                => LogsKnownIn(logFilters', KnownTxs(chain', block', waiting))
<1> DEFINE blocks == Mined(chain, newBlock, count, nextId)
<1> DEFINE logs(id) == LogsOfBlocks(fed[id], blocks, Len(chain) + 1, Len(blocks))
<1>1. chain \in Seq(Blocks) /\ nextId \in Nat \ {0}
  BY DEF TypeOK, ChainTypeOK
<1>2. /\ chain' = blocks /\ block' = PendingAfterMining(newBlock, count)
      /\ logFilters' = [id \in DOMAIN fed |-> Add(fed[id], logs(id))]
  BY DEF MineAndFeed, AddBlockLogs
<1>3. BackendKnows(chain, newBlock) \subseteq BackendKnows(chain', block')
  BY <1>1, <1>2, MiningKeepsKnown
<1>4. KnownTxs(chain, newBlock, waiting) \subseteq KnownTxs(chain', block', waiting)
  BY <1>3 DEF KnownTxs
<1>5. blocks \in Seq(Blocks)
  BY <1>1, MinedType
<1> HIDE DEF blocks
<1>6. \A id : /\ logs(id) \in Seq(LogEntries)
              /\ \A e \in Elements(logs(id)) : e.tx \in MinedTxs(blocks)
  <2>1. Len(chain) + 1 \in Nat \ {0} /\ Len(blocks) \in 0..Len(blocks)
    BY <1>1, <1>5
  <2> QED
    BY <1>5, <2>1, LogsOfBlocksType
<1>7. MinedTxs(blocks) \subseteq KnownTxs(chain', block', waiting)
  BY <1>2 DEF KnownTxs, BackendKnows
<1> HIDE DEF logs
<1>8. ASSUME LogsKnownIn(fed, KnownTxs(chain, newBlock, waiting)),
             NEW id \in DOMAIN fed, NEW e \in Elements(Add(fed[id], logs(id)).values)
      PROVE  e.tx \in KnownTxs(chain', block', waiting)
  <2>1. fed[id] \in LogFilters /\ fed[id].values \in Seq(LogEntries)
    BY DEF DictOf, LogFilters
  <2>2. Add(fed[id], logs(id)).values = fed[id].values \o logs(id)
    BY <1>6, <2>1, LogFilterOperations
  <2>3. e \in Elements(fed[id].values) \cup Elements(logs(id))
    BY <1>6, <1>8, <2>1, <2>2, ElementsOfConcatenation
  <2> QED
    BY <1>4, <1>6, <1>7, <1>8, <2>3 DEF LogsKnownIn
<1>9. LogsKnownIn(fed, KnownTxs(chain, newBlock, waiting))
        => LogsKnownIn(logFilters', KnownTxs(chain', block', waiting))
  BY <1>2, <1>8 DEF LogsKnownIn
<1> QED
  BY <1>4, <1>9

(* Reverting: the filters keep what can still be looked up.                *)
LEMMA RevertAndCleanKnown ==
    ASSUME TypeOK, NEW blocks \in Seq(Blocks), NEW waiting,
           NEW txFs, DictOf(txFs, FilterOf(Txs)),
           NEW logFs, DictOf(logFs, LogFilters),
           RevertAndClean(blocks, waiting, txFs, logFs)
    PROVE  /\ TxsKnownIn(txFilters', KnownTxs(chain', block', waiting))
           /\ LogsKnownIn(logFilters', KnownTxs(chain', block', waiting))
<1> DEFINE known == KnownTxs(blocks, << >>, waiting)
<1> DEFINE valid == [tx : known, block : Nat]
<1>1. /\ chain' = blocks /\ block' = << >>
      /\ txFilters' = RetainInAll(txFs, known)
      /\ logFilters' = RetainInAll(logFs, valid)
  BY DEF RevertAndClean
<1>2. KnownTxs(chain', block', waiting) = known
  BY <1>1
<1>3. \A e \in valid : e.tx \in known
  OBVIOUS
<1> HIDE DEF known, valid
<1>4. \A id \in DOMAIN txFs : Elements(Retain(txFs[id], known).values) \subseteq known
  BY RetainLeavesValid DEF DictOf
<1>5. << >> \in Seq(LogEntries)
  OBVIOUS
<1>6. \A id \in DOMAIN logFs : Elements(Retain(logFs[id], valid).values) \subseteq valid
  BY <1>5, LogFilterOperations DEF DictOf
<1>7. TxsKnownIn(txFilters', known)
  BY <1>1, <1>4 DEF TxsKnownIn, RetainInAll
<1>8. LogsKnownIn(logFilters', known)
  BY <1>1, <1>3, <1>6 DEF LogsKnownIn, RetainInAll
<1> QED
  BY <1>2, <1>7, <1>8

(* Every filter reports only transactions that can be looked up.           *)
FiltersKnown == TxsKnownIn(txFilters, Known) /\ LogsKnownIn(logFilters, Known)

(* Every call preserves that filters report known transactions.            *)
LEMMA FiltersKnownStep == TypeOK /\ FiltersKnown /\ [Next]_vars => FiltersKnown'
<1> SUFFICES ASSUME TypeOK, FiltersKnown, [Next]_vars
             PROVE  FiltersKnown'
  OBVIOUS
<1> USE DEF chainVars, filterVars
<1>1. /\ chain \in Seq(Blocks) /\ block \in Seq(Txs) /\ nextId \in Nat \ {0}
      /\ pool \in Seq(Txs) /\ snapshots \in Seq(Seq(Blocks))
  BY DEF TypeOK, ChainTypeOK
<1>2. DictOf(txFilters, FilterOf(Txs)) /\ DictOf(logFilters, LogFilters)
  BY DEF TypeOK, FiltersTypeOK
<1>3. Known = KnownTxs(chain, block, pool) /\ Known' = KnownTxs(chain', block', pool')
  BY DEF Known
<1>4. TxsKnownIn(txFilters, Known) /\ LogsKnownIn(logFilters, Known)
  BY DEF FiltersKnown
<1>5. \A known : Known \subseteq known =>
         TxsKnownIn(txFilters, known) /\ LogsKnownIn(logFilters, known)
  BY <1>4 DEF TxsKnownIn, LogsKnownIn

(* Mining newBlock, which includes what was fed before.                    *)
<1>6. ASSUME NEW newBlock \in Seq(Txs), NEW txs \in Seq(Txs), NEW count \in Nat,
             Elements(block) \cup Elements(txs) = Elements(newBlock),
             MineAndFeed(newBlock, count, LogFiltersFed(txs)),
             txFilters' = TxFiltersFed(txs),
             \/ UNCHANGED pool
             \/ pool' = << >> /\ txs = pool
      PROVE  FiltersKnown'
  <2> DEFINE before == KnownTxs(chain, newBlock, pool')
  <2>1. Known \subseteq before /\ Elements(txs) \subseteq before
    BY <1>3, <1>6 DEF KnownTxs, BackendKnows
  <2>2. TxsKnownIn(TxFiltersFed(txs), before) /\ LogsKnownIn(LogFiltersFed(txs), before)
    BY <1>5, <1>6, <2>1, FedKnown
  <2>3. DictOf(LogFiltersFed(txs), LogFilters)
    BY <1>6, FedType
  <2>4. /\ before \subseteq Known'
        /\ LogsKnownIn(LogFiltersFed(txs), before) => LogsKnownIn(logFilters', Known')
    BY <1>3, <1>6, <2>3, MineAndFeedKnown
  <2> QED
    BY <1>6, <2>2, <2>4 DEF FiltersKnown, TxsKnownIn
<1>7. ASSUME NEW tx \in Txs, NEW raw \in BOOLEAN, SendAutoMined(tx, raw)
      PROVE  FiltersKnown'
  <2>1. Append(block, tx) \in Seq(Txs) /\ <<tx>> \in Seq(Txs)
    BY PoolType
  <2>2. Append(block, tx) = block \o <<tx>>
    BY <1>1
  <2>3. Elements(Append(block, tx)) = Elements(block) \cup Elements(<<tx>>)
    BY <1>1, <2>1, <2>2, ElementsOfConcatenation, ZenonT(40)
  <2> QED
    BY <1>6, <1>7, <2>1, <2>3 DEF SendAutoMined
<1>8. ASSUME NEW tx \in Txs, NEW raw \in BOOLEAN, SendToPool(tx, raw)
      PROVE  FiltersKnown'
  <2>1. <<tx>> \in Seq(Txs)
    BY PoolType
  <2>2. /\ DictOf(TxFiltersFed(<<tx>>), FilterOf(Txs))
        /\ DictOf(LogFiltersFed(<<tx>>), LogFilters)
    BY <2>1, FedType
  <2>3. /\ pool' = PoolWith(tx)
        /\ RevertAndClean(chain, PoolWith(tx),
                          TxFiltersFed(<<tx>>), LogFiltersFed(<<tx>>))
    BY <1>8 DEF SendToPool
  <2> QED
    BY <1>1, <1>3, <2>2, <2>3, RevertAndCleanKnown DEF FiltersKnown
<1>9. ASSUME NEW tx \in Txs, NEW raw \in BOOLEAN, SendToPoolFails(tx, raw)
      PROVE  FiltersKnown'
  <2>1. UNCHANGED pool /\ RevertAndClean(chain, pool, txFilters, logFilters)
    BY <1>9 DEF SendToPoolFails
  <2> QED
    BY <1>1, <1>2, <1>3, <2>1, RevertAndCleanKnown DEF FiltersKnown
<1>10. ASSUME NEW count \in Nat, PopAndMine(count)
       PROVE  FiltersKnown'
  <2>1. block \o pool \in Seq(Txs)
    BY <1>1
  <2>2. Elements(block \o pool) = Elements(block) \cup Elements(pool)
    BY <1>1, ElementsOfConcatenation
  <2> QED
    BY <1>1, <1>6, <1>10, <2>1, <2>2 DEF PopAndMine
<1>11. CASE PopFails
  <2>1. PICK k \in 0..(Len(pool) - 1) :
          /\ block' = block \o SubSeq(pool, 1, k)
          /\ txFilters' = TxFiltersFed(SubSeq(pool, 1, k))
          /\ logFilters' = LogFiltersFed(SubSeq(pool, 1, k))
          /\ UNCHANGED <<chain, pool>>
    BY <1>11 DEF PopFails
  <2>2. SubSeq(pool, 1, k) \in Seq(Txs)
    BY <1>1
  <2>3. Elements(block') = Elements(block) \cup Elements(SubSeq(pool, 1, k))
    BY <1>1, <2>1, <2>2, ElementsOfConcatenation, ZenonT(40)
  <2>4. Known \subseteq Known' /\ Elements(SubSeq(pool, 1, k)) \subseteq Known'
    BY <1>3, <2>1, <2>3 DEF KnownTxs, BackendKnows
  <2> QED
    BY <1>5, <2>1, <2>2, <2>4, FedKnown DEF FiltersKnown
<1>12. ASSUME NEW count \in MineCounts, MineBlocks(count)
       PROVE  FiltersKnown'
  <2>1. count \in Nat
    BY TesterAssumption
  <2>2. CASE MineAndFeed(block, count, logFilters) /\ UNCHANGED <<pool, txFilters>>
    <3>1. /\ Known \subseteq Known'
          /\ LogsKnownIn(logFilters, Known) => LogsKnownIn(logFilters', Known')
      BY <1>1, <1>2, <1>3, <2>1, <2>2, MineAndFeedKnown
    <3> QED
      BY <1>4, <1>5, <2>2, <3>1 DEF FiltersKnown
  <2> QED
    BY <1>10, <1>12, <2>1, <2>2 DEF MineBlocks
<1>13. CASE EnableAutoMine
  BY <1>10, <1>11, <1>13 DEF EnableAutoMine
<1>14. CASE TimeTravel
  <2>1. BackendKnows(chain, block) \subseteq BackendKnows(chain', block')
    <3>1. PendingAfterMining(block, 1) = << >>
      BY DEF PendingAfterMining
    <3> QED
      BY <1>1, <1>14, <3>1, MiningKeepsKnown DEF TimeTravel
  <2>2. Known \subseteq Known'
    BY <1>3, <1>14, <2>1 DEF TimeTravel, KnownTxs
  <2> QED
    BY <1>5, <1>14, <2>2 DEF TimeTravel, FiltersKnown
<1>15. ASSUME NEW s \in 1..MaxSnapshots, RevertToSnapshot(s)
       PROVE  FiltersKnown'
  <2>1. /\ RevertAndClean(snapshots[s], pool, txFilters, logFilters)
        /\ UNCHANGED pool /\ snapshots[s] \in Seq(Blocks)
    BY <1>1, <1>15 DEF RevertToSnapshot
  <2> QED
    BY <1>2, <1>3, <2>1, RevertAndCleanKnown DEF FiltersKnown
<1>16. CASE ResetToGenesis
  BY <1>16 DEF ResetToGenesis, NoFilters, FiltersKnown, TxsKnownIn, LogsKnownIn

(* The remaining actions leave chain, block and pool alone.                *)
<1>17. UNCHANGED <<chain, block, pool>> => Known' = Known
  BY <1>3
<1>18. CASE CreatePendingTransactionFilter
  <2>1. Elements(NewFilter.values) = {}
    BY DEF NewFilter, Elements
  <2>2. TxsKnownIn(txFilters', Known)
    BY <1>4, <1>18, <2>1 DEF CreatePendingTransactionFilter, With, TxsKnownIn
  <2> QED
    BY <1>4, <1>17, <1>18, <2>2 DEF CreatePendingTransactionFilter, FiltersKnown
<1>19. ASSUME NEW r \in Ranges, CreateLogFilter(r[1], r[2])
       PROVE  FiltersKnown'
  <2>1. UNCHANGED <<chain, block, pool, txFilters>>
    BY <1>19 DEF CreateLogFilter
  <2>2. PICK filled \in LogFilters :
          /\ logFilters' = With(logFilters, filterCounter, filled)
          /\ \A e \in Elements(filled.values) : e.tx \in MinedTxs(chain)
    BY <1>19, CreatedLogFilterType
  <2>3. MinedTxs(chain) \subseteq Known
    BY <1>3 DEF KnownTxs, BackendKnows
  <2>4. LogsKnownIn(logFilters', Known)
    BY <1>4, <2>2, <2>3 DEF With, LogsKnownIn
  <2> QED
    BY <1>4, <1>17, <2>1, <2>4 DEF FiltersKnown
<1>20. ASSUME NEW id \in 0..(MaxFilters - 1), DeleteFilter(id)
       PROVE  FiltersKnown'
  <2>1. TxsKnownIn(txFilters', Known) /\ LogsKnownIn(logFilters', Known)
    BY <1>4, <1>20 DEF DeleteFilter, Minus, TxsKnownIn, LogsKnownIn
  <2> QED
    BY <1>17, <1>20, <2>1 DEF DeleteFilter, FiltersKnown
<1>21. ASSUME NEW id \in 0..(MaxFilters - 1), GetOnlyFilterChanges(id)
       PROVE  FiltersKnown'
  <2>1. << >> \in Seq(Txs) /\ << >> \in Seq(LogEntries)
    OBVIOUS
  <2>2. \A i \in DOMAIN txFilters : Drained(txFilters[i]).values = txFilters[i].values
    BY <1>2, <2>1, FilterOperations DEF DictOf
  <2>3. \A i \in DOMAIN logFilters :
           Drained(logFilters[i]).values = logFilters[i].values
    BY <1>2, <2>1, LogFilterOperations DEF DictOf
  <2>4. TxsKnownIn(txFilters', Known) /\ LogsKnownIn(logFilters', Known)
    BY <1>4, <1>21, <2>2, <2>3
       DEF GetOnlyFilterChanges, DrainedAt, TxsKnownIn, LogsKnownIn
  <2> QED
    BY <1>17, <1>21, <2>4 DEF GetOnlyFilterChanges, FiltersKnown
<1>22. ASSUME UNCHANGED <<chain, block, pool, txFilters, logFilters>>
       PROVE  FiltersKnown'
  BY <1>4, <1>17, <1>22 DEF FiltersKnown
<1> QED
  BY <1>7, <1>8, <1>9, <1>11, <1>12, <1>13, <1>14, <1>15, <1>16, <1>18, <1>19,
     <1>20, <1>21, <1>22
     DEF Next, NextFed, vars, MineBlocksFails, DisableAutoMine, TakeSnapshot,
         CreateBlockFilter, ChangeAccounts

(* The inductive invariant behind the two theorems below: no filter ever   *)
(* holds a transaction that get_transaction_by_hash does not find.         *)
THEOREM FiltersKnownInvariant == Spec => []FiltersKnown
<1>1. Init => FiltersKnown
  BY DEF Init, NoFilters, FiltersKnown, TxsKnownIn, LogsKnownIn
<1> QED
  BY <1>1, FiltersKnownStep, TypeCorrect, PTL DEF Spec

(***************************************************************************)
(* A pending-transaction filter never reports a hash that                  *)
(* get_transaction_by_hash does not know, whatever is sent, mined or       *)
(* reverted: mining keeps transactions, and a revert withdraws from the    *)
(* filters what it made unknown.                                           *)
(***************************************************************************)
THEOREM TxFiltersReportKnown == Spec => []TxFiltersKnown
<1>1. FiltersKnown => TxFiltersKnown
  BY DEF FiltersKnown, TxsKnownIn, TxFiltersKnown
<1> QED
  BY <1>1, FiltersKnownInvariant, PTL

(***************************************************************************)
(* Neither does a log filter hold an entry of an unknown transaction,      *)
(* wherever the entry comes from: the pending block, a mined block, or the *)
(* scan that create_log_filter does.                                       *)
(***************************************************************************)
THEOREM LogFiltersReportKnown == Spec => []LogFiltersKnown
<1>1. FiltersKnown => LogFiltersKnown
  BY DEF FiltersKnown, LogsKnownIn, LogFiltersKnown
<1> QED
  BY <1>1, FiltersKnownInvariant, PTL

-----------------------------------------------------------------------------
(* The chain: how each call changes it.                                    *)

(* The transactions txs run one after the other in the pending block.      *)
RunInTurn(txs) ==
    \A i \in 1..Len(txs) : Applies(chain, block \o SubSeq(txs, 1, i - 1), txs[i])

(* txs run in the pending block, and count blocks are mined.               *)
RunAndMine(txs, count) ==
    /\ RunInTurn(txs)
    /\ chain' = Mined(chain, block \o txs, count, nextId)
    /\ block' = PendingAfterMining(block \o txs, count)
    /\ nextId' = nextId + count
    /\ UNCHANGED snapshots

(* The chain goes back to a state it was in before.                        *)
GoBack ==
    /\ \/ UNCHANGED chain
       \/ chain' = << >>
       \/ \E s \in DOMAIN snapshots : chain' = snapshots[s]
    /\ block' = << >>
    /\ UNCHANGED nextId
    /\ snapshots' \in {snapshots, Append(snapshots, chain), << >>}

(* Nothing but, perhaps, a new snapshot.                                   *)
KeepChain ==
    /\ UNCHANGED chainVars
    /\ snapshots' \in {snapshots, Append(snapshots, chain)}

(* Mining no block leaves the chain as it is.                              *)
LEMMA MinedNone ==
    ASSUME NEW blocks \in Seq(Blocks), NEW txs \in Seq(Txs), NEW id
    PROVE  /\ Mined(blocks, txs, 0, id) = blocks
           /\ PendingAfterMining(txs, 0) = txs
<1> DEFINE none == [i \in 1..0 |-> MinedBlock(txs, id, i)]
<1>1. none = << >>
  OBVIOUS
<1> HIDE DEF none
<1>2. blocks \o none = blocks
  BY <1>1
<1> QED
  BY <1>2 DEF Mined, PendingAfterMining, none

(* Every call does one of the three.                                       *)
LEMMA ChainCases ==
    ASSUME TypeOK, [Next]_vars
    PROVE  \/ \E txs \in Seq(Txs), count \in Nat : RunAndMine(txs, count)
           \/ GoBack
           \/ KeepChain
<1> USE DEF chainVars, filterVars
<1>1. /\ chain \in Seq(Blocks) /\ block \in Seq(Txs) /\ nextId \in Nat \ {0}
      /\ pool \in Seq(Txs) /\ snapshots \in Seq(Seq(Blocks))
  BY DEF TypeOK, ChainTypeOK
<1>2. block \o << >> = block /\ << >> \in Seq(Txs) /\ RunInTurn(<< >>)
  BY <1>1 DEF RunInTurn
<1>3. ASSUME NEW tx \in Txs, NEW raw \in BOOLEAN, SendAutoMined(tx, raw)
      PROVE  RunAndMine(<<tx>>, 1) /\ <<tx>> \in Seq(Txs)
  <2>1. /\ Applies(chain, block, tx)
        /\ MineAndFeed(Append(block, tx), 1, LogFiltersFed(<<tx>>))
        /\ UNCHANGED snapshots
    BY <1>3 DEF SendAutoMined, Accepts
  <2>2. Append(block, tx) = block \o <<tx>> /\ <<tx>> \in Seq(Txs) /\ Len(<<tx>>) = 1
    BY <1>1
  <2>3. RunInTurn(<<tx>>)
    <3>1. SubSeq(<<tx>>, 1, 0) = << >>
      OBVIOUS
    <3>2. \A i \in 1..Len(<<tx>>) : i - 1 = 0 /\ <<tx>>[i] = tx
      OBVIOUS
    <3> QED
      BY <1>2, <2>1, <3>1, <3>2 DEF RunInTurn
  <2> QED
    BY <2>1, <2>2, <2>3 DEF RunAndMine, MineAndFeed
<1>4. ASSUME NEW count \in Nat, PopAndMine(count), UNCHANGED snapshots
      PROVE  RunAndMine(pool, count)
  <2>1. RunInTurn(pool)
    BY <1>1, <1>4 DEF PopAndMine, PopStopsAt, Pops, RunInTurn
  <2> QED
    BY <1>4, <2>1 DEF PopAndMine, RunAndMine, MineAndFeed
<1>5. ASSUME PopFails, UNCHANGED snapshots
      PROVE  \E txs \in Seq(Txs) : RunAndMine(txs, 0)
  <2>1. PICK k \in 0..(Len(pool) - 1) :
          /\ PopStopsAt(k)
          /\ block' = block \o SubSeq(pool, 1, k)
          /\ UNCHANGED <<chain, nextId>>
    BY <1>5 DEF PopFails
  <2>2. PICK popped \in Seq(Txs) :
          /\ popped = SubSeq(pool, 1, k)
          /\ Len(popped) = k
          /\ \A i \in 1..k : popped[i] = pool[i]
          /\ \A i \in 1..k : SubSeq(popped, 1, i - 1) = SubSeq(pool, 1, i - 1)
    <3>1. SubSeq(pool, 1, k) \in Seq(Txs) /\ Len(SubSeq(pool, 1, k)) = k
      BY <1>1
    <3>2. \A i \in 1..k : SubSeq(pool, 1, k)[i] = pool[i]
      BY <1>1
    <3>3. \A i \in 1..k : SubSeq(SubSeq(pool, 1, k), 1, i - 1) = SubSeq(pool, 1, i - 1)
      BY <1>1
    <3> QED
      BY <3>1, <3>2, <3>3
  <2>3. RunInTurn(popped)
    BY <2>1, <2>2 DEF PopStopsAt, Pops, RunInTurn
  <2>4. block \o popped \in Seq(Txs)
    BY <1>1
  <2>5. /\ Mined(chain, block \o popped, 0, nextId) = chain
        /\ PendingAfterMining(block \o popped, 0) = block \o popped
    BY <1>1, <2>4, MinedNone
  <2>6. nextId' = nextId + 0
    BY <1>1, <2>1
  <2> QED
    BY <1>5, <2>1, <2>2, <2>3, <2>5, <2>6 DEF RunAndMine
<1>6. ASSUME NEW count \in MineCounts, MineBlocks(count)
      PROVE  \E txs \in Seq(Txs), n \in Nat : RunAndMine(txs, n)
  <2>1. count \in Nat
    BY TesterAssumption
  <2>2. CASE MineAndFeed(block, count, logFilters) /\ UNCHANGED snapshots
    BY <1>2, <2>1, <2>2 DEF RunAndMine, MineAndFeed
  <2>3. CASE PopAndMine(count) /\ UNCHANGED snapshots
    BY <1>1, <1>4, <2>1, <2>3
  <2> QED
    BY <1>6, <2>2, <2>3 DEF MineBlocks
<1>7. CASE MineBlocksFails
  BY <1>5, <1>7 DEF MineBlocksFails
<1>8. CASE EnableAutoMine
  BY <1>1, <1>4, <1>5, <1>8 DEF EnableAutoMine
<1>9. CASE TimeTravel
  <2>1. PendingAfterMining(block, 1) = << >>
    BY DEF PendingAfterMining
  <2> QED
    BY <1>2, <1>9, <2>1 DEF TimeTravel, RunAndMine
<1>10. ASSUME NEW tx \in Txs, NEW raw \in BOOLEAN,
              SendToPool(tx, raw) \/ SendToPoolFails(tx, raw)
       PROVE  GoBack
  BY <1>10 DEF SendToPool, SendToPoolFails, RevertAndClean, GoBack
<1>11. ASSUME NEW s \in 1..MaxSnapshots, RevertToSnapshot(s)
       PROVE  GoBack
  BY <1>11 DEF RevertToSnapshot, RevertAndClean, GoBack
<1>12. CASE ResetToGenesis
  BY <1>12 DEF ResetToGenesis, GoBack
<1>13. CASE TakeSnapshot
  BY <1>13 DEF TakeSnapshot, KeepChain
<1>14. ASSUME UNCHANGED <<chain, block, nextId, snapshots>>
       PROVE  KeepChain
  BY <1>14 DEF KeepChain
<1> QED
  BY <1>3, <1>6, <1>7, <1>8, <1>9, <1>10, <1>11, <1>12, <1>13, <1>14
     DEF Next, NextFed, vars, DisableAutoMine, CreateBlockFilter,
         CreatePendingTransactionFilter, CreateLogFilter, DeleteFilter,
         GetOnlyFilterChanges, ChangeAccounts

-----------------------------------------------------------------------------
(* One transaction per sender and nonce on the chain.                      *)

(* Where the transactions of an account are included.                      *)
SentBy(blocks, a) == { slot \in Slots(blocks) : TxAt(blocks, slot).from = a }

(* Every nonce is below the number of transactions the sender has on the   *)
(* chain, and no two of them have the same.                                *)
NoncesInOrder(blocks) ==
    /\ \A s \in Slots(blocks) :
          TxAt(blocks, s).nonce < Cardinality(SentBy(blocks, TxAt(blocks, s).from))
    /\ \A s, t \in Slots(blocks) :
          s # t => ~SameNonce(TxAt(blocks, s), TxAt(blocks, t))

(* The chain with one more block on top.                                   *)
OnTop(blocks, id, txs) == Append(blocks, [id |-> id, txs |-> txs])

(* What holds of the inclusions depends on the slots and on what is there. *)
LEMMA SameSlots ==
    ASSUME NEW blocks, NEW other, Slots(other) = Slots(blocks),
           \A s \in Slots(blocks) : TxAt(other, s) = TxAt(blocks, s)
    PROVE  NoncesInOrder(blocks) => NoncesInOrder(other)
<1>1. \A a : SentBy(other, a) = SentBy(blocks, a)
  BY DEF SentBy
<1> QED
  BY <1>1 DEF NoncesInOrder

(* The slots of a chain are transactions, and finitely many.               *)
LEMMA SlotsOfChain ==
    ASSUME NEW blocks \in Seq(Blocks)
    PROVE  /\ IsFiniteSet(Slots(blocks))
           /\ \A s \in Slots(blocks) :
                 /\ s[1] \in 1..Len(blocks)
                 /\ s[2] \in DOMAIN blocks[s[1]].txs
                 /\ s = <<s[1], s[2]>>
                 /\ TxAt(blocks, s) \in Txs
<1> DEFINE N == Len(blocks)
<1> DEFINE slotsOf(n) == {n} \X DOMAIN blocks[n].txs
<1> DEFINE f == [n \in 1..N |-> slotsOf(n)]
<1>1. \A n \in 1..N : blocks[n].txs \in Seq(Txs)
  <2>1. \A n \in 1..N : blocks[n] \in Blocks
    OBVIOUS
  <2> QED
    BY <2>1 DEF Blocks
<1>2. ASSUME NEW n \in 1..N
      PROVE  IsFiniteSet(slotsOf(n))
  <2>1. PICK k \in Int : DOMAIN blocks[n].txs = 1..k
    BY <1>1
  <2>2. 1 \in Int
    OBVIOUS
  <2>3. IsFiniteSet(1..k)
    BY <2>2, FS_Interval
  <2>4. IsFiniteSet(DOMAIN blocks[n].txs)
    BY <2>1, <2>3
  <2>5. IsFiniteSet({n})
    BY FS_Singleton
  <2> QED
    BY <2>4, <2>5, FS_Product
<1>3. IsFiniteSet(1..N)
  BY FS_Interval
<1>4. Slots(blocks) = UNION { slotsOf(n) : n \in 1..N }
  BY DEF Slots
<1>5. IsFiniteSet({ slotsOf(n) : n \in 1..N })
  <2>1. f \in Surjection(1..N, { slotsOf(n) : n \in 1..N })
    BY DEF Surjection
  <2> HIDE DEF f, slotsOf
  <2> QED
    BY <1>3, <2>1, FS_Surjection
<1>6. IsFiniteSet(Slots(blocks))
  <2> HIDE DEF slotsOf
  <2>1. \A T \in { slotsOf(n) : n \in 1..N } : IsFiniteSet(T)
    BY <1>2
  <2> QED
    BY <1>4, <1>5, <2>1, FS_UNION
<1>7. ASSUME NEW s \in Slots(blocks)
      PROVE  /\ s[1] \in 1..N /\ s[2] \in DOMAIN blocks[s[1]].txs
             /\ s = <<s[1], s[2]>> /\ TxAt(blocks, s) \in Txs
  <2>1. PICK n \in 1..N : s \in {n} \X DOMAIN blocks[n].txs
    BY DEF Slots
  <2>2. PICK i \in DOMAIN blocks[n].txs : s = <<n, i>>
    BY <2>1
  <2>3. blocks[n].txs[i] \in Txs
    BY <1>1, <2>2
  <2> QED
    BY <2>2, <2>3 DEF TxAt
<1> QED
  BY <1>6, <1>7

(* The slots of a chain with one more block.                               *)
LEMMA SlotsOnTop ==
    ASSUME NEW blocks \in Seq(Blocks), NEW txs \in Seq(Txs), NEW id
    PROVE  /\ Slots(OnTop(blocks, id, txs))
                = Slots(blocks) \cup ({Len(blocks) + 1} \X (1..Len(txs)))
           /\ \A s \in Slots(blocks) :
                 TxAt(OnTop(blocks, id, txs), s) = TxAt(blocks, s)
           /\ \A i \in 1..Len(txs) :
                 TxAt(OnTop(blocks, id, txs), <<Len(blocks) + 1, i>>) = txs[i]
<1> DEFINE N == Len(blocks)
<1> DEFINE b == [id |-> id, txs |-> txs]
<1> DEFINE longer == Append(blocks, b)
<1>1. /\ DOMAIN longer = 1..(N + 1)
      /\ \A n \in 1..N : longer[n] = blocks[n]
      /\ longer[N + 1] = b
      /\ N \in Nat /\ DOMAIN blocks = 1..N
  OBVIOUS
<1>2. DOMAIN b.txs = 1..Len(txs)
  OBVIOUS
<1>3. OnTop(blocks, id, txs) = longer
  BY DEF OnTop
<1>4. b.txs = txs
  OBVIOUS
<1> HIDE DEF b, longer, N
<1>5. 1..(N + 1) = (1..N) \cup {N + 1}
  BY <1>1
<1>6. Slots(longer) = UNION { {n} \X DOMAIN longer[n].txs : n \in 1..(N + 1) }
  BY <1>1 DEF Slots
<1>7. Slots(blocks) = UNION { {n} \X DOMAIN blocks[n].txs : n \in 1..N }
  BY <1>1 DEF Slots
<1>8. Slots(longer) = Slots(blocks) \cup ({N + 1} \X (1..Len(txs)))
  <2>1. \A n \in 1..N : {n} \X DOMAIN longer[n].txs = {n} \X DOMAIN blocks[n].txs
    BY <1>1
  <2>2. {N + 1} \X DOMAIN longer[N + 1].txs = {N + 1} \X (1..Len(txs))
    BY <1>1, <1>2
  <2> QED
    BY <1>5, <1>6, <1>7, <2>1, <2>2
<1>9. \A s \in Slots(blocks) : TxAt(longer, s) = TxAt(blocks, s)
  BY <1>1, SlotsOfChain DEF TxAt, N
<1>10. \A i \in 1..Len(txs) : TxAt(longer, <<N + 1, i>>) = txs[i]
  BY <1>1, <1>4 DEF TxAt
<1> QED
  BY <1>3, <1>8, <1>9, <1>10 DEF N

(* The nonce of an account counts what it has sent.                        *)
LEMMA NonceCounts ==
    ASSUME NEW blocks \in Seq(Blocks), NEW txs \in Seq(Txs), NEW id, NEW a
    PROVE  /\ IsFiniteSet(SentBy(OnTop(blocks, id, txs), a))
           /\ NonceOf(blocks, txs, a) = Cardinality(SentBy(OnTop(blocks, id, txs), a))
<1> DEFINE m == Len(blocks) + 1
<1> DEFINE I == { i \in DOMAIN txs : txs[i].from = a }
<1> DEFINE J == { s \in {m} \X (1..Len(txs)) : txs[s[2]].from = a }
<1> DEFINE K == SentBy(blocks, a)
<1> DEFINE f == [i \in I |-> <<m, i>>]
<1>1. DOMAIN txs = 1..Len(txs) /\ Len(txs) \in Int
  OBVIOUS
<1>2. IsFiniteSet(I)
  <2>1. IsFiniteSet(1..Len(txs)) /\ I \in SUBSET (1..Len(txs))
    BY <1>1, FS_Interval
  <2> QED
    BY <2>1, FS_Subset
<1>3. f \in Bijection(I, J)
  <2>1. f \in [I -> J]
    BY <1>1
  <2>2. \A i, j \in I : f[i] = f[j] => i = j
    OBVIOUS
  <2>3. \A s \in J : \E i \in I : f[i] = s
    BY <1>1
  <2> HIDE DEF f, I, J
  <2> QED
    BY <2>1, <2>2, <2>3 DEF Bijection, Injection, Surjection, IsInjective
<1>4. IsFiniteSet(J) /\ Cardinality(J) = Cardinality(I)
  <2> HIDE DEF f, I, J
  <2> QED
    BY <1>2, <1>3, FS_Bijection DEF ExistsBijection
<1>5. IsFiniteSet(K)
  <2>1. K \in SUBSET Slots(blocks)
    BY DEF SentBy
  <2> QED
    BY <2>1, SlotsOfChain, FS_Subset
<1>6. SentBy(OnTop(blocks, id, txs), a) = K \cup J
  BY SlotsOnTop DEF SentBy
<1>7. K \cap J = {}
  <2>1. \A s \in K : s[1] \in 1..Len(blocks)
    BY SlotsOfChain DEF SentBy
  <2>2. \A s \in J : s[1] = m
    OBVIOUS
  <2>3. m \notin 1..Len(blocks)
    OBVIOUS
  <2> QED
    BY <2>1, <2>2, <2>3
<1>8. NonceOf(blocks, txs, a) = Cardinality(K) + Cardinality(I)
  BY DEF NonceOf, SentBy
<1> HIDE DEF K, J, I, m
<1>9. Cardinality({}) = 0
  BY FS_EmptySet
<1>10. Cardinality(K) \in Nat /\ Cardinality(I) \in Nat
  BY <1>2, <1>5, FS_CardinalityType
<1>11. /\ IsFiniteSet(K \cup J)
       /\ Cardinality(K \cup J)
            = Cardinality(K) + Cardinality(J) - Cardinality(K \cap J)
  BY <1>4, <1>5, FS_Union
<1>12. Cardinality(K \cup J) = Cardinality(K) + Cardinality(I)
  <2>1. PICK k \in Nat, i \in Nat : k = Cardinality(K) /\ i = Cardinality(I)
    BY <1>10
  <2>2. Cardinality(K \cup J) = k + i - 0
    BY <1>4, <1>7, <1>9, <1>11, <2>1
  <2> QED
    BY <2>1, <2>2
<1> QED
  BY <1>6, <1>8, <1>11, <1>12

(* Including the next transaction of an account on top of the chain.       *)
LEMMA NonceOnTop ==
    ASSUME NEW blocks \in Seq(Blocks), NEW txs \in Seq(Txs), NEW tx \in Txs,
           NEW id, NoncesInOrder(OnTop(blocks, id, txs)),
           tx.nonce = NonceOf(blocks, txs, tx.from)
    PROVE  NoncesInOrder(OnTop(blocks, id, Append(txs, tx)))
<1> DEFINE before == OnTop(blocks, id, txs)
<1> DEFINE after == OnTop(blocks, id, Append(txs, tx))
<1> DEFINE new == <<Len(blocks) + 1, Len(txs) + 1>>
<1>1. /\ Append(txs, tx) \in Seq(Txs) /\ Len(Append(txs, tx)) = Len(txs) + 1
      /\ \A i \in 1..Len(txs) : Append(txs, tx)[i] = txs[i]
      /\ Append(txs, tx)[Len(txs) + 1] = tx
      /\ Len(txs) \in Nat /\ Len(blocks) \in Nat
  OBVIOUS
<1>2. 1..(Len(txs) + 1) = (1..Len(txs)) \cup {Len(txs) + 1}
  BY <1>1
<1>3. /\ Slots(before) = Slots(blocks) \cup ({Len(blocks) + 1} \X (1..Len(txs)))
      /\ \A s \in Slots(blocks) : TxAt(before, s) = TxAt(blocks, s)
      /\ \A i \in 1..Len(txs) : TxAt(before, <<Len(blocks) + 1, i>>) = txs[i]
  BY SlotsOnTop
<1>4. /\ Slots(after) = Slots(blocks) \cup ({Len(blocks) + 1} \X (1..(Len(txs) + 1)))
      /\ \A s \in Slots(blocks) : TxAt(after, s) = TxAt(blocks, s)
      /\ \A i \in 1..(Len(txs) + 1) :
            TxAt(after, <<Len(blocks) + 1, i>>) = Append(txs, tx)[i]
  <2>1. PICK longer \in Seq(Txs) : longer = Append(txs, tx)
    BY <1>1
  <2>2. /\ Slots(OnTop(blocks, id, longer))
              = Slots(blocks) \cup ({Len(blocks) + 1} \X (1..Len(longer)))
        /\ \A s \in Slots(blocks) :
              TxAt(OnTop(blocks, id, longer), s) = TxAt(blocks, s)
        /\ \A i \in 1..Len(longer) :
              TxAt(OnTop(blocks, id, longer), <<Len(blocks) + 1, i>>) = longer[i]
    BY SlotsOnTop
  <2> QED
    BY <1>1, <2>1, <2>2
<1> HIDE DEF before, after
<1>5. Slots(after) = Slots(before) \cup {new}
  BY <1>2, <1>3, <1>4
<1>6. \A s \in Slots(before) : TxAt(after, s) = TxAt(before, s)
  <2>1. SUFFICES ASSUME NEW i \in 1..Len(txs)
                 PROVE  TxAt(after, <<Len(blocks) + 1, i>>)
                          = TxAt(before, <<Len(blocks) + 1, i>>)
    BY <1>3, <1>4
  <2>2. i \in 1..(Len(txs) + 1)
    BY <1>1
  <2> QED
    BY <1>1, <1>3, <1>4, <2>2
<1>7. TxAt(after, new) = tx
  <2>1. Len(txs) + 1 \in 1..(Len(txs) + 1)
    BY <1>1
  <2> QED
    BY <1>1, <1>4, <2>1
<1>8. new \notin Slots(before)
  <2>1. \A s \in Slots(blocks) : s[1] \in 1..Len(blocks)
    BY SlotsOfChain
  <2>2. new[1] = Len(blocks) + 1 /\ new[2] = Len(txs) + 1
    OBVIOUS
  <2>3. Len(blocks) + 1 \notin 1..Len(blocks) /\ Len(txs) + 1 \notin 1..Len(txs)
    BY <1>1
  <2> QED
    BY <1>3, <2>1, <2>2, <2>3
<1>9. /\ \A a : IsFiniteSet(SentBy(before, a))
      /\ \A a : NonceOf(blocks, txs, a) = Cardinality(SentBy(before, a))
  BY NonceCounts DEF before
<1> HIDE DEF new
<1>10. \A a : SentBy(after, a) = IF a = tx.from THEN SentBy(before, a) \cup {new}
                                 ELSE SentBy(before, a)
  BY <1>5, <1>6, <1>7 DEF SentBy
<1>11. \A a : new \notin SentBy(before, a)
  BY <1>8 DEF SentBy
<1>12. \A a : Cardinality(SentBy(before, a)) \in Nat
  BY <1>9, FS_CardinalityType
<1>13. \A a : Cardinality(SentBy(after, a))
                = IF a = tx.from THEN Cardinality(SentBy(before, a)) + 1
                  ELSE Cardinality(SentBy(before, a))
  BY <1>9, <1>10, <1>11, FS_AddElement
<1>14. tx.nonce = Cardinality(SentBy(before, tx.from)) /\ tx.nonce \in Nat
  BY <1>9, ChainAssumption
<1>15. \A s \in Slots(before) :
          /\ TxAt(before, s).nonce \in Nat
          /\ TxAt(before, s).nonce
               < Cardinality(SentBy(before, TxAt(before, s).from))
  <2>1. ASSUME NEW s \in Slots(before)
        PROVE  TxAt(before, s) \in Txs
    BY <1>3, SlotsOfChain
  <2> QED
    BY <2>1, ChainAssumption DEF NoncesInOrder, before
<1>16. ASSUME NEW s \in Slots(after)
       PROVE  TxAt(after, s).nonce
                < Cardinality(SentBy(after, TxAt(after, s).from))
  <2>1. CASE s \in Slots(before)
    BY <1>6, <1>12, <1>13, <1>15, <2>1
  <2>2. CASE s = new
    BY <1>7, <1>13, <1>14, <2>2
  <2> QED
    BY <1>5, <2>1, <2>2
<1>17. ASSUME NEW s \in Slots(before)
       PROVE  ~SameNonce(TxAt(before, s), tx) /\ ~SameNonce(tx, TxAt(before, s))
  BY <1>12, <1>14, <1>15 DEF SameNonce
<1>18. \A s, t \in Slots(after) :
          s # t => ~SameNonce(TxAt(after, s), TxAt(after, t))
  <2>1. \A s, t \in Slots(before) :
           s # t => ~SameNonce(TxAt(before, s), TxAt(before, t))
    BY DEF NoncesInOrder, before
  <2> QED
    BY <1>5, <1>6, <1>7, <1>17, <2>1
<1> QED
  BY <1>16, <1>18 DEF NoncesInOrder, after

(* An empty block on top changes nothing.                                  *)
LEMMA NoncesOnEmpty ==
    ASSUME NEW blocks \in Seq(Blocks), NEW id, NoncesInOrder(blocks)
    PROVE  NoncesInOrder(OnTop(blocks, id, << >>))
<1>1. PICK none \in Seq(Txs) : none = << >>
  <2>1. << >> \in Seq(Txs)
    OBVIOUS
  <2> QED
    BY <2>1
<1>2. Slots(OnTop(blocks, id, none))
        = Slots(blocks) \cup ({Len(blocks) + 1} \X (1..Len(none)))
  BY SlotsOnTop
<1>3. \A s \in Slots(blocks) : TxAt(OnTop(blocks, id, none), s) = TxAt(blocks, s)
  BY SlotsOnTop
<1>4. Slots(OnTop(blocks, id, none)) = Slots(blocks)
  <2>1. Len(none) = 0 /\ 1..0 = {}
    BY <1>1
  <2> QED
    BY <1>2, <2>1
<1> QED
  BY <1>1, <1>3, <1>4, SameSlots

(* Nor does the number of the block on top.                                *)
LEMMA NoncesOtherId ==
    ASSUME NEW blocks \in Seq(Blocks), NEW txs \in Seq(Txs), NEW id, NEW other,
           NoncesInOrder(OnTop(blocks, id, txs))
    PROVE  NoncesInOrder(OnTop(blocks, other, txs))
<1> DEFINE new == {Len(blocks) + 1} \X (1..Len(txs))
<1> DEFINE one == OnTop(blocks, id, txs)
<1> DEFINE two == OnTop(blocks, other, txs)
<1>1. /\ Slots(one) = Slots(blocks) \cup new
      /\ \A s \in Slots(blocks) : TxAt(one, s) = TxAt(blocks, s)
      /\ \A i \in 1..Len(txs) : TxAt(one, <<Len(blocks) + 1, i>>) = txs[i]
  BY SlotsOnTop
<1>2. /\ Slots(two) = Slots(blocks) \cup new
      /\ \A s \in Slots(blocks) : TxAt(two, s) = TxAt(blocks, s)
      /\ \A i \in 1..Len(txs) : TxAt(two, <<Len(blocks) + 1, i>>) = txs[i]
  BY SlotsOnTop
<1>3. \A s \in new : \E i \in 1..Len(txs) : s = <<Len(blocks) + 1, i>>
  OBVIOUS
<1>4. NoncesInOrder(one)
  OBVIOUS
<1> HIDE DEF new, one, two
<1>5. \A s \in new : TxAt(two, s) = TxAt(one, s)
  BY <1>1, <1>2, <1>3
<1>6. Slots(two) = Slots(one) /\ \A s \in Slots(one) : TxAt(two, s) = TxAt(one, s)
  BY <1>1, <1>2, <1>5
<1>7. NoncesInOrder(two)
  BY <1>4, <1>6, SameSlots
<1> QED
  BY <1>7 DEF two

(* Transactions that run in turn keep the nonces in order.                 *)
LEMMA NoncesRunInTurn ==
    ASSUME TypeOK, NEW txs \in Seq(Txs), RunInTurn(txs), NEW id,
           NoncesInOrder(OnTop(chain, id, block))
    PROVE  NoncesInOrder(OnTop(chain, id, block \o txs))
<1> DEFINE T == { q \in Seq(Txs) : NoncesInOrder(OnTop(chain, id, block \o q)) }
<1>1. chain \in Seq(Blocks) /\ block \in Seq(Txs)
  BY DEF TypeOK, ChainTypeOK
<1>2. << >> \in T
  <2>1. block \o << >> = block /\ << >> \in Seq(Txs)
    BY <1>1
  <2> QED
    BY <2>1
<1>3. ASSUME NEW n \in 0..(Len(txs) - 1), SubSeq(txs, 1, n) \in T
      PROVE  Append(SubSeq(txs, 1, n), txs[n + 1]) \in T
  <2>1. PICK q \in Seq(Txs) :
          q = SubSeq(txs, 1, n) /\ NoncesInOrder(OnTop(chain, id, block \o q))
    BY <1>3
  <2>2. PICK tx \in Txs : tx = txs[n + 1]
    OBVIOUS
  <2>3. Applies(chain, block \o q, tx)
    <3>1. n + 1 \in 1..Len(txs) /\ (n + 1) - 1 = n
      OBVIOUS
    <3> QED
      BY <2>1, <2>2, <3>1 DEF RunInTurn
  <2>4. PICK run \in Seq(Txs) : run = block \o q
    <3>1. block \o q \in Seq(Txs)
      BY <1>1
    <3> QED
      BY <3>1
  <2>5. NoncesInOrder(OnTop(chain, id, Append(run, tx)))
    BY <1>1, <2>1, <2>3, <2>4, NonceOnTop DEF Applies
  <2>6. block \o Append(q, tx) = Append(block \o q, tx) /\ Append(q, tx) \in Seq(Txs)
    BY <1>1, ConcatenationAppend
  <2> QED
    BY <2>1, <2>2, <2>4, <2>5, <2>6
<1>4. txs \in T
  <2> HIDE DEF T
  <2> QED
    BY <1>2, <1>3, PrefixInduction
<1> QED
  BY <1>4

(* Mining the block on top.                                                *)
LEMMA NoncesMined ==
    ASSUME NEW blocks \in Seq(Blocks), NEW txs \in Seq(Txs),
           NEW count \in Nat \ {0}, NEW id \in Nat \ {0},
           NoncesInOrder(OnTop(blocks, id, txs))
    PROVE  NoncesInOrder(Mined(blocks, txs, count, id))
<1> DEFINE N == Len(blocks)
<1> DEFINE mined == Mined(blocks, txs, count, id)
<1>1. /\ N \in Nat
      /\ DOMAIN mined = 1..(N + count)
      /\ \A n \in 1..N : mined[n] = blocks[n]
      /\ \A n \in (N + 1)..(N + count) : mined[n] = MinedBlock(txs, id, n - N)
  <2>1. count \in Nat
    OBVIOUS
  <2>2. mined \in Seq(Blocks) /\ Len(mined) = N + count
    BY <2>1, MinedType
  <2>3. /\ \A n \in 1..N : mined[n] = blocks[n]
        /\ \A n \in (N + 1)..(N + count) : mined[n] = MinedBlock(txs, id, n - N)
    BY <2>1 DEF Mined
  <2> HIDE DEF mined
  <2> QED
    BY <2>2, <2>3
<1> HIDE DEF mined
<1>2. mined[N + 1].txs = txs
  <2>1. N + 1 \in (N + 1)..(N + count) /\ (N + 1) - N = 1
    BY <1>1
  <2> HIDE DEF N
  <2>2. mined[N + 1] = MinedBlock(txs, id, 1)
    BY <1>1, <2>1
  <2> QED
    BY <2>2 DEF MinedBlock
<1>3. \A n \in (N + 2)..(N + count) : mined[n].txs = << >>
  <2> SUFFICES ASSUME NEW n \in (N + 2)..(N + count)
               PROVE  mined[n].txs = << >>
    OBVIOUS
  <2>1. n \in (N + 1)..(N + count) /\ n - N # 1
    BY <1>1
  <2>2. PICK k : k = n - N
    OBVIOUS
  <2>3. mined[n] = MinedBlock(txs, id, k)
    BY <1>1, <2>1, <2>2
  <2> QED
    BY <2>1, <2>2, <2>3 DEF MinedBlock
<1>4. 1..(N + count) = (1..N) \cup {N + 1} \cup ((N + 2)..(N + count))
  BY <1>1
<1>5. DOMAIN txs = 1..Len(txs) /\ DOMAIN << >> = {} /\ DOMAIN blocks = 1..N
  OBVIOUS
<1> HIDE DEF N
<1>6. Slots(mined) = UNION { {n} \X DOMAIN mined[n].txs : n \in 1..(N + count) }
  BY <1>1 DEF Slots
<1>7. Slots(blocks) = UNION { {n} \X DOMAIN blocks[n].txs : n \in 1..N }
  BY <1>5 DEF Slots
<1>8. Slots(mined) = Slots(blocks) \cup ({N + 1} \X (1..Len(txs)))
  <2>1. \A n \in 1..N : {n} \X DOMAIN mined[n].txs = {n} \X DOMAIN blocks[n].txs
    BY <1>1
  <2>2. {N + 1} \X DOMAIN mined[N + 1].txs = {N + 1} \X (1..Len(txs))
    BY <1>2, <1>5
  <2>3. \A n \in (N + 2)..(N + count) : {n} \X DOMAIN mined[n].txs = {}
    BY <1>3, <1>5
  <2> QED
    BY <1>4, <1>6, <1>7, <2>1, <2>2, <2>3
<1>9. /\ Slots(OnTop(blocks, id, txs)) = Slots(mined)
      /\ \A s \in Slots(blocks) : TxAt(OnTop(blocks, id, txs), s) = TxAt(blocks, s)
      /\ \A i \in 1..Len(txs) : TxAt(OnTop(blocks, id, txs), <<N + 1, i>>) = txs[i]
  BY <1>8, SlotsOnTop DEF N
<1>10. \A s \in Slots(blocks) : TxAt(mined, s) = TxAt(blocks, s)
  BY <1>1, SlotsOfChain DEF TxAt, N
<1>11. \A i \in 1..Len(txs) : TxAt(mined, <<N + 1, i>>) = txs[i]
  BY <1>2 DEF TxAt
<1>12. \A s \in Slots(OnTop(blocks, id, txs)) :
          TxAt(mined, s) = TxAt(OnTop(blocks, id, txs), s)
  <2>1. ASSUME NEW s \in Slots(OnTop(blocks, id, txs)), s \notin Slots(blocks)
        PROVE  \E i \in 1..Len(txs) : s = <<N + 1, i>>
    BY <1>8, <1>9, <2>1
  <2> QED
    BY <1>9, <1>10, <1>11, <2>1
<1> QED
  BY <1>9, <1>12, SameSlots DEF mined

(***************************************************************************)
(* The inductive invariant: nonces are in order on the chain with the      *)
(* pending block, on the chain without it, which a revert or a refused     *)
(* transaction goes back to, and in every snapshot.                        *)
(***************************************************************************)
NonceInv ==
    /\ NoncesInOrder(WithPending)
    /\ NoncesInOrder(chain)
    /\ \A s \in DOMAIN snapshots : NoncesInOrder(snapshots[s])

(* Every call preserves it.                                                *)
LEMMA NonceStep == TypeOK /\ NonceInv /\ [Next]_vars => NonceInv'
<1> SUFFICES ASSUME TypeOK, NonceInv, [Next]_vars
             PROVE  NonceInv'
  OBVIOUS
<1>1. /\ chain \in Seq(Blocks) /\ block \in Seq(Txs) /\ nextId \in Nat \ {0}
      /\ snapshots \in Seq(Seq(Blocks))
  BY DEF TypeOK, ChainTypeOK
<1>2. WithPending = OnTop(chain, nextId, block)
  BY DEF WithPending, OnTop
<1>3. WithPending' = OnTop(chain', nextId', block')
  BY DEF WithPending, OnTop
<1>4. /\ NoncesInOrder(OnTop(chain, nextId, block)) /\ NoncesInOrder(chain)
      /\ \A s \in DOMAIN snapshots : NoncesInOrder(snapshots[s])
  BY <1>2 DEF NonceInv
<1>5. \A s \in DOMAIN snapshots : snapshots[s] \in Seq(Blocks)
  BY <1>1
<1>6. NoncesInOrder(<< >>) /\ << >> \in Seq(Blocks)
  BY DEF NoncesInOrder, Slots
<1>7. \A s \in DOMAIN Append(snapshots, chain) :
         NoncesInOrder(Append(snapshots, chain)[s])
  <2>1. /\ DOMAIN Append(snapshots, chain) = (DOMAIN snapshots) \cup {Len(snapshots) + 1}
        /\ \A s \in DOMAIN snapshots : Append(snapshots, chain)[s] = snapshots[s]
        /\ Append(snapshots, chain)[Len(snapshots) + 1] = chain
    BY <1>1
  <2> QED
    BY <1>4, <2>1
<1>8. ASSUME snapshots' \in {snapshots, Append(snapshots, chain), << >>}
      PROVE  \A s \in DOMAIN snapshots' : NoncesInOrder(snapshots'[s])
  BY <1>4, <1>7, <1>8
<1>9. ASSUME NEW txs \in Seq(Txs), NEW count \in Nat, RunAndMine(txs, count)
      PROVE  NonceInv'
  <2>1. PICK run \in Seq(Txs) : run = block \o txs
    <3>1. block \o txs \in Seq(Txs)
      BY <1>1
    <3> QED
      BY <3>1
  <2>2. NoncesInOrder(OnTop(chain, nextId, run))
    BY <1>4, <1>9, <2>1, NoncesRunInTurn DEF RunAndMine
  <2>3. /\ chain' = Mined(chain, run, count, nextId)
        /\ block' = PendingAfterMining(run, count)
        /\ UNCHANGED snapshots
    BY <1>9, <2>1 DEF RunAndMine
  <2>4. CASE count = 0
    <3>1. chain' = chain /\ block' = run
      BY <1>1, <2>3, <2>4, MinedNone
    <3>2. NoncesInOrder(OnTop(chain, nextId', run))
      BY <1>1, <2>2, NoncesOtherId
    <3> QED
      BY <1>3, <1>4, <2>3, <3>1, <3>2 DEF NonceInv
  <2>5. CASE count # 0
    <3>1. NoncesInOrder(chain')
      BY <1>1, <2>2, <2>3, <2>5, NoncesMined
    <3>2. chain' \in Seq(Blocks)
      BY <1>1, <2>3, MinedType
    <3>3. block' = << >>
      BY <2>3, <2>5 DEF PendingAfterMining
    <3>4. NoncesInOrder(OnTop(chain', nextId', << >>))
      BY <3>1, <3>2, NoncesOnEmpty
    <3> QED
      BY <1>3, <1>4, <2>3, <3>1, <3>3, <3>4 DEF NonceInv
  <2> QED
    BY <2>4, <2>5
<1>10. CASE GoBack
  <2>1. chain' \in Seq(Blocks) /\ NoncesInOrder(chain') /\ block' = << >>
    BY <1>1, <1>4, <1>5, <1>6, <1>10 DEF GoBack
  <2>2. NoncesInOrder(OnTop(chain', nextId', << >>))
    BY <2>1, NoncesOnEmpty
  <2>3. \A s \in DOMAIN snapshots' : NoncesInOrder(snapshots'[s])
    BY <1>8, <1>10 DEF GoBack
  <2> QED
    BY <1>3, <2>1, <2>2, <2>3 DEF NonceInv
<1>11. CASE KeepChain
  <2>1. \A s \in DOMAIN snapshots' : NoncesInOrder(snapshots'[s])
    BY <1>8, <1>11 DEF KeepChain
  <2> QED
    BY <1>3, <1>4, <1>11, <2>1 DEF KeepChain, chainVars, NonceInv
<1> QED
  BY <1>9, <1>10, <1>11, ChainCases

(* Nonces are in order in every state that can be reached.                 *)
LEMMA NonceInvariant == Spec => []NonceInv
<1>1. Init => NonceInv
  <2> SUFFICES ASSUME Init
               PROVE  NonceInv
    OBVIOUS
  <2>1. chain = << >> /\ block = << >> /\ snapshots = << >> /\ << >> \in Seq(Blocks)
    BY DEF Init
  <2>2. NoncesInOrder(<< >>)
    BY DEF NoncesInOrder, Slots
  <2>3. NoncesInOrder(OnTop(<< >>, nextId, << >>))
    BY <2>1, <2>2, NoncesOnEmpty
  <2> QED
    BY <2>1, <2>2, <2>3 DEF NonceInv, WithPending, OnTop
<1> QED
  BY <1>1, NonceStep, TypeCorrect, PTL DEF Spec

(***************************************************************************)
(* No execution history has two transactions of a sender with one nonce.   *)
(* A transaction runs only with the number of the transactions that its    *)
(* sender has sent before, and what a revert, a failing pop or a refused   *)
(* transaction goes back to was in order when it was left.                 *)
(***************************************************************************)
THEOREM NoncesUsedOnce == Spec => []NonceUsedOnce
<1>1. NonceInv => NonceUsedOnce
  BY DEF NonceInv, NoncesInOrder, NonceUsedOnce
<1> QED
  BY <1>1, NonceInvariant, PTL

-----------------------------------------------------------------------------
(* What leaves the pool, and how accounts are added.                       *)

(* Every call leaves the pool alone, replaces a transaction of it or moves *)
(* it to the pending block.                                                *)
LEMMA PoolCases ==
    ASSUME TypeOK, [Next]_vars
    PROVE  \/ UNCHANGED pool
           \/ \E tx \in Txs : pool' = PoolWith(tx)
           \/ \E count \in Nat : PopAndMine(count)
<1>1. \A count \in MineCounts : count \in Nat
  BY TesterAssumption
<1> QED
  BY <1>1
     DEF Next, NextFed, vars, SendAutoMined, SendToPool, SendToPoolFails, MineBlocks,
         MineBlocksFails, EnableAutoMine, PopFails, DisableAutoMine,
         TimeTravel, TakeSnapshot, RevertToSnapshot, ResetToGenesis,
         CreateBlockFilter, CreatePendingTransactionFilter, CreateLogFilter,
         DeleteFilter, GetOnlyFilterChanges, ChangeAccounts, filterVars

(***************************************************************************)
(* A transaction leaves the pool only into the pending block or the chain, *)
(* or when another one with the same sender and nonce takes its place: no  *)
(* failing pop, revert or reset drops it.                                  *)
(***************************************************************************)
THEOREM PoolTransactionsKept == Spec => PoolKeepsTransactions
<1> DEFINE Kept(i) == \/ pool[i] \in KnownTxs(chain', block', pool')
                      \/ \E j \in DOMAIN pool' : SameNonce(pool[i], pool'[j])
<1>1. ASSUME TypeOK, [Next]_vars, NEW i \in DOMAIN pool
      PROVE  Kept(i)
  <2>1. /\ pool \in Seq(Txs) /\ block \in Seq(Txs) /\ chain \in Seq(Blocks)
        /\ nextId \in Nat \ {0}
    BY <1>1 DEF TypeOK, ChainTypeOK
  <2>2. CASE UNCHANGED pool
    BY <1>1, <2>2 DEF KnownTxs, Elements
  <2>3. ASSUME NEW tx \in Txs, pool' = PoolWith(tx)
        PROVE  Kept(i)
    <3> DEFINE gone == {other \in Txs : SameNonce(tx, other)}
    <3>1. PICK kept \in Seq(Txs) :
            kept = Without(pool, gone) /\ Elements(kept) = Elements(pool) \ gone
      <4>1. Without(pool, gone) \in Seq(Txs)
        BY <2>1, WithoutType
      <4>2. Elements(Without(pool, gone)) = Elements(pool) \ gone
        BY <2>1, WithoutElements
      <4> QED
        BY <4>1, <4>2
    <3>2. pool' = Append(kept, tx)
      BY <2>3, <3>1 DEF PoolWith
    <3>3. /\ DOMAIN pool' = 1..(Len(kept) + 1)
          /\ pool'[Len(kept) + 1] = tx
          /\ \A j \in 1..Len(kept) : pool'[j] = kept[j]
          /\ DOMAIN kept = 1..Len(kept) /\ Len(kept) \in Nat
      BY <3>2
    <3>4. CASE SameNonce(tx, pool[i])
      <4>1. Len(kept) + 1 \in DOMAIN pool'
        BY <3>3
      <4>2. SameNonce(pool[i], pool'[Len(kept) + 1])
        BY <3>3, <3>4 DEF SameNonce
      <4> QED
        BY <4>1, <4>2
    <3>5. CASE ~SameNonce(tx, pool[i])
      <4>1. pool[i] \in Elements(pool) /\ pool[i] \notin gone
        BY <1>1, <3>5 DEF Elements
      <4>2. PICK j \in 1..Len(kept) : pool[i] = kept[j]
        BY <3>1, <3>3, <4>1 DEF Elements
      <4>3. j \in DOMAIN pool' /\ pool'[j] = pool[i]
        BY <3>3, <4>2
      <4> QED
        BY <4>3 DEF KnownTxs, Elements
    <3> QED
      BY <3>4, <3>5
  <2>4. ASSUME NEW count \in Nat, PopAndMine(count)
        PROVE  Kept(i)
    <3>1. PICK run \in Seq(Txs) :
            /\ run = block \o pool
            /\ pool[i] \in Elements(run)
      <4>1. block \o pool \in Seq(Txs)
        BY <2>1
      <4>2. Elements(block \o pool) = Elements(block) \cup Elements(pool)
        BY <2>1, ElementsOfConcatenation
      <4>3. pool[i] \in Elements(pool)
        BY <1>1 DEF Elements
      <4> QED
        BY <4>1, <4>2, <4>3
    <3>2. /\ chain' = Mined(chain, run, count, nextId)
          /\ block' = PendingAfterMining(run, count)
      BY <2>4, <3>1 DEF PopAndMine, MineAndFeed
    <3>3. BackendKnows(chain, run) \subseteq BackendKnows(chain', block')
      BY <2>1, <3>2, MiningKeepsKnown
    <3> QED
      BY <3>1, <3>3 DEF BackendKnows, KnownTxs
  <2> QED
    BY <1>1, <2>2, <2>3, <2>4, PoolCases
<1>2. TypeOK /\ [Next]_vars =>
        [\A i \in DOMAIN pool :
          \/ pool[i] \in KnownTxs(chain', block', pool')
          \/ \E j \in DOMAIN pool' : SameNonce(pool[i], pool'[j])]_vars
  BY <1>1
<1> QED
  BY <1>2, TypeCorrect, PTL DEF Spec, PoolKeepsTransactions

(* An account without an entry in passwords has never been unlocked since  *)
(* the last reset.                                                         *)
LockedUntilAdded == \A a \in Accounts \ DOMAIN passwords : unlocked[a] = "no"

(* Every call leaves the accounts alone, changes one or resets all.        *)
LEMMA AccountCases ==
    ASSUME [Next]_vars
    PROVE  NextAccounts \/ ResetAccounts \/ UNCHANGED accountVars
BY DEF Next, NextFed, vars, SendAutoMined, SendToPool, SendToPoolFails, MineBlocks,
       MineBlocksFails, EnableAutoMine, DisableAutoMine,
       TimeTravel, TakeSnapshot, RevertToSnapshot, ResetToGenesis,
       CreateBlockFilter, CreatePendingTransactionFilter, CreateLogFilter,
       DeleteFilter, GetOnlyFilterChanges, ChangeAccounts

(***************************************************************************)
(* An account that is added with a password starts locked, also when an    *)
(* account with the same address was unlocked before a reset.  add_account *)
(* does not touch _account_unlock: what makes this true is that only an    *)
(* account with a password is unlocked, and that a reset forgets both.     *)
(***************************************************************************)
THEOREM AddedAccountsLocked == Spec => AddedAccountsStartLocked
<1>1. Init => LockedUntilAdded
  BY DEF Init, InitAccounts, LockedUntilAdded
<1>2. ASSUME TypeOK, LockedUntilAdded, [Next]_vars
      PROVE  /\ LockedUntilAdded'
             /\ \A account \in DOMAIN passwords' \ DOMAIN passwords :
                   unlocked'[account] = "no"
  <2>1. /\ DOMAIN passwords \subseteq Accounts
        /\ unlocked \in [Accounts -> UnlockStates]
    BY <1>2 DEF TypeOK, AccountsTypeOK
  <2>2. ASSUME NEW account \in Accounts, NEW password \in Passwords \cup {None},
               AddAccount(account, password)
        PROVE  /\ DOMAIN passwords' = DOMAIN passwords \cup {account}
               /\ UNCHANGED unlocked
    BY <2>2 DEF AddAccount, With
  <2>3. ASSUME NEW account \in Accounts, NEW password \in Passwords,
               NEW mode \in {"until", "forever"},
               UnlockAccount(account, password, mode)
        PROVE  /\ UNCHANGED passwords
               /\ \A a \in Accounts \ DOMAIN passwords : unlocked'[a] = unlocked[a]
    BY <2>1, <2>3 DEF UnlockAccount, HasPassword
  <2>4. ASSUME NEW account \in Accounts, LockAccount(account) \/ Expire(account)
        PROVE  /\ UNCHANGED passwords
               /\ \A a \in Accounts : unlocked'[a] \in {unlocked[a], "no"}
    BY <2>1, <2>4 DEF LockAccount, Expire
  <2>5. ASSUME ResetAccounts
        PROVE  DOMAIN passwords' = {} /\ \A a \in Accounts : unlocked'[a] = "no"
    BY <2>5 DEF ResetAccounts
  <2>6. ASSUME UNCHANGED accountVars
        PROVE  UNCHANGED <<passwords, unlocked>>
    BY <2>6 DEF accountVars
  <2>7. \/ UNCHANGED passwords
           /\ \A a \in Accounts \ DOMAIN passwords :
                 unlocked'[a] \in {unlocked[a], "no"}
        \/ \E account \in Accounts :
              /\ DOMAIN passwords' = DOMAIN passwords \cup {account}
              /\ UNCHANGED unlocked
        \/ DOMAIN passwords' = {} /\ \A a \in Accounts : unlocked'[a] = "no"
    BY <1>2, <2>2, <2>3, <2>4, <2>5, <2>6, AccountCases DEF NextAccounts
  <2> QED
    BY <1>2, <2>1, <2>7 DEF LockedUntilAdded
<1>3. TypeOK /\ LockedUntilAdded /\ [Next]_vars =>
        [\A account \in DOMAIN passwords' \ DOMAIN passwords :
          HasPassword(account)' => IsLocked(account)']_vars
  BY <1>2 DEF IsLocked, HasPassword
<1>4. TypeOK /\ LockedUntilAdded /\ [Next]_vars => LockedUntilAdded'
  BY <1>2
<1> QED
  BY <1>1, <1>3, <1>4, TypeCorrect, PTL DEF Spec, AddedAccountsStartLocked

-----------------------------------------------------------------------------
(* get_logs.                                                               *)

(* No sequences one after the other are the empty sequence.                *)
LEMMA ConcatNone == Concat([k \in 1..0 |-> << >>]) = << >>
<1> DEFINE none == [k \in 1..0 |-> << >>]
<1>1. none \in [1..0 -> Seq({})]
  OBVIOUS
<1> HIDE DEF none
<1>2. Concat(none) \in Seq({})
  BY <1>1, ConcatType
<1> QED
  BY <1>2 DEF none

(* The filter of get_logs lets through every block that its loop reads:    *)
(* only "earliest" makes the two disagree.                                 *)
LEMMA LoopWithinFilter ==
    ASSUME TypeOK, NEW from \in Nat \cup {None, Latest, Earliest, Pending},
           NEW to \in Nat \cup {None, Latest, Earliest, Pending},
           from # Earliest, ~GetLogsRaises(from, to),
           FirstScanned(NumberOf(from)) <= NumberOf(to)
    PROVE  /\ NumberOf(to) <= Len(chain)
           /\ \A n \in FirstScanned(NumberOf(from))..NumberOf(to) :
                 check_if_blocks_match(n, "mined", from, to)
<1>1. Len(chain) \in Nat
  BY DEF TypeOK, ChainTypeOK
<1>2. NumberOf(from) \in Nat /\ NumberOf(to) \in Nat
  BY <1>1 DEF NumberOf
<1>3. NumberOf(from) <= FirstScanned(NumberOf(from))
  BY <1>2 DEF FirstScanned
<1>4. 1 <= FirstScanned(NumberOf(from)) /\ FirstScanned(NumberOf(from)) \in Nat
  BY <1>2 DEF FirstScanned
<1>5. NumberOf(to) <= Len(chain) /\ NumberOf(from) <= NumberOf(to)
  BY <1>1, <1>2, <1>3, <1>4 DEF GetLogsRaises
<1>6. \A n \in FirstScanned(NumberOf(from))..NumberOf(to) :
         n \in Nat /\ NumberOf(from) <= n /\ n <= NumberOf(to)
  BY <1>2, <1>3, <1>4
<1>7. from = Pending => NumberOf(from) = Len(chain) + 1
  BY SentinelAssumption DEF NumberOf, BlockTags
<1>8. from \in Nat => NumberOf(from) = from
  BY DEF NumberOf
<1>9. from \in Nat \cup MinedTags
  BY <1>1, <1>5, <1>2, <1>7 DEF MinedTags
<1>10. /\ to \in Nat => NumberOf(to) = to
       /\ to = Earliest => NumberOf(to) = 0
       /\ to = Pending => NumberOf(to) \in {0, Len(chain) + 1}
  BY SentinelAssumption DEF NumberOf, BlockTags
<1>11. to \in Nat \cup MinedTags
  <2>1. NumberOf(to) # 0
    BY <1>2, <1>4
  <2>2. NumberOf(to) # Len(chain) + 1
    BY <1>1, <1>2, <1>5
  <2> QED
    BY <1>10, <2>1, <2>2 DEF MinedTags
<1>12. ASSUME NEW n \in FirstScanned(NumberOf(from))..NumberOf(to)
       PROVE  check_if_blocks_match(n, "mined", from, to)
  <2>1. check_if_from_block_match(n, "mined", from)
    BY <1>6, <1>8, <1>9 DEF check_if_from_block_match
  <2>2. check_if_to_block_match(n, "mined", to)
    BY <1>6, <1>10, <1>11 DEF check_if_to_block_match
  <2> QED
    BY <2>1, <2>2 DEF check_if_blocks_match
<1> QED
  BY <1>5, <1>12

(***************************************************************************)
(* get_logs returns the log entries of all the blocks from from_block to   *)
(* to_block, and of no other, in the order they were mined, unless         *)
(* from_block is "earliest": then its loop reads all blocks up to to_block *)
(* and the filter lets none of their entries through.  (get_logs)          *)
(***************************************************************************)
THEOREM GetLogsComplete == Spec => []GetLogsExact
<1>1. ASSUME TypeOK, NEW r \in Ranges, ~GetLogsRaises(r[1], r[2]), r[1] # Earliest
      PROVE  LET wanted == SubSeq(chain, FirstScanned(NumberOf(r[1])),
                                  NumberOf(r[2]))
             IN  GetLogs(r[1], r[2]) =
                   Concat([k \in DOMAIN wanted |->
                             Entries(wanted[k].txs, wanted[k].id)])
  <2> DEFINE tags == Nat \cup {None, Latest, Earliest, Pending}
  <2>1. PICK from \in tags, to \in tags :
          from = r[1] /\ to = r[2] /\ from # Earliest
    BY <1>1, TesterAssumption
  <2>2. chain \in Seq(Blocks) /\ Len(chain) \in Nat
    BY <1>1 DEF TypeOK, ChainTypeOK
  <2>3. NumberOf(from) \in Nat /\ NumberOf(to) \in Nat
    BY <2>2 DEF NumberOf
  <2>4. PICK first \in Nat \ {0}, last \in Nat :
          first = FirstScanned(NumberOf(from)) /\ last = NumberOf(to)
    <3>1. FirstScanned(NumberOf(from)) \in Nat \ {0}
      BY <2>3 DEF FirstScanned
    <3> QED
      BY <2>3, <3>1
  <2> DEFINE filter == [from |-> from, to |-> to]
  <2> DEFINE wanted == SubSeq(chain, first, last)
  <2> DEFINE given == [k \in DOMAIN wanted |->
                         Entries(wanted[k].txs, wanted[k].id)]
  <2>5. GetLogs(from, to) = LogsOfBlocks(filter, chain, first, last)
    BY <2>4 DEF GetLogs
  <2>6. CASE last < first
    <3>1. wanted = << >>
      BY <2>2, <2>6
    <3>2. given = [k \in 1..0 |-> << >>]
      BY <3>1
    <3>3. Concat(given) = << >>
      BY <3>2, ConcatNone
    <3>4. LogsOfBlocks(filter, chain, first, last) = << >>
      BY <2>6 DEF LogsOfBlocks
    <3> QED
      BY <2>1, <2>4, <2>5, <3>3, <3>4
  <2>7. CASE first <= last
    <3>1. /\ last <= Len(chain)
          /\ \A n \in first..last : check_if_blocks_match(n, "mined", from, to)
      BY <1>1, <2>1, <2>4, <2>7, LoopWithinFilter
    <3> DEFINE read == [k \in 1..(last + 1 - first) |->
                          MinedLogs(filter, chain, first + k - 1)]
    <3>2. /\ DOMAIN wanted = 1..(last + 1 - first)
          /\ \A k \in 1..(last + 1 - first) : wanted[k] = chain[first + k - 1]
      BY <2>2, <2>7, <3>1
    <3>3. ASSUME NEW k \in 1..(last + 1 - first)
          PROVE  read[k] = Entries(wanted[k].txs, wanted[k].id)
      <4>1. PICK n \in first..last : n = first + k - 1
        <5>1. first + k - 1 \in first..last
          OBVIOUS
        <5> QED
          BY <5>1
      <4>2. read[k] = MinedLogs(filter, chain, n)
        BY <4>1
      <4>3. wanted[k] = chain[n]
        BY <3>2, <4>1
      <4> QED
        BY <3>1, <4>2, <4>3 DEF MinedLogs
    <3>4. read = given
      BY <3>2, <3>3
    <3>5. LogsOfBlocks(filter, chain, first, last) = Concat(read)
      BY <2>7 DEF LogsOfBlocks
    <3> QED
      BY <2>1, <2>4, <2>5, <3>4, <3>5
  <2>8. last < first \/ first <= last
    OBVIOUS
  <2> HIDE DEF wanted
  <2> QED
    BY <2>6, <2>7, <2>8
<1>2. ASSUME TypeOK, NEW r \in Ranges, r[1] = Earliest
      PROVE  GetLogs(r[1], r[2]) = << >>
  <2>1. PICK first, last \in Nat :
          first = FirstScanned(NumberOf(r[1])) /\ last = NumberOf(r[2])
    <3>1. Len(chain) \in Nat
      BY <1>2 DEF TypeOK, ChainTypeOK
    <3>2. \A tag : NumberOf(tag) \in Nat
      BY <3>1 DEF NumberOf
    <3>3. FirstScanned(NumberOf(r[1])) \in Nat
      BY <3>2 DEF FirstScanned
    <3> QED
      BY <3>2, <3>3
  <2>2. first \in Nat
    BY <2>1
  <2> DEFINE filter == [from |-> r[1], to |-> r[2]]
  <2> DEFINE read == [k \in 1..(last + 1 - first) |->
                        MinedLogs(filter, chain, first + k - 1)]
  <2>3. \A n : MinedLogs(filter, chain, n) = << >>
    <3>1. Earliest \notin Nat /\ Earliest # None /\ Earliest # Latest
      BY SentinelAssumption, TagsAssumption DEF BlockTags
    <3> QED
      BY <1>2, <3>1
         DEF MinedLogs, check_if_blocks_match, check_if_from_block_match,
             MinedTags, PendingTags
  <2>4. GetLogs(r[1], r[2]) = LogsOfBlocks(filter, chain, first, last)
    BY <2>1 DEF GetLogs
  <2>5. LogsOfBlocks(filter, chain, first, last)
          = IF last < first THEN << >> ELSE Concat(read)
    BY DEF LogsOfBlocks
  <2>6. CASE last < first
    BY <2>4, <2>5, <2>6
  <2>7. CASE first <= last
    <3>1. last + 1 - first \in Nat
      BY <2>2, <2>7
    <3>2. read \in [1..(last + 1 - first) -> Seq({})]
      <4>1. << >> \in Seq({})
        OBVIOUS
      <4>2. \A k : MinedLogs(filter, chain, first + k - 1) \in Seq({})
        BY <2>3, <4>1
      <4> HIDE DEF filter
      <4> QED
        BY <4>2
    <3> HIDE DEF read
    <3>3. Concat(read) \in Seq({})
      BY <3>1, <3>2, ConcatType
    <3> QED
      BY <2>2, <2>4, <2>5, <2>7, <3>3
  <2> QED
    BY <2>2, <2>6, <2>7
<1>3. TypeOK => GetLogsExact
  <2> SUFFICES ASSUME TypeOK
               PROVE  GetLogsExact
    OBVIOUS
  <2>1. Concat([k \in DOMAIN << >> |-> Entries(<< >>[k].txs, << >>[k].id)]) = << >>
    <3>1. [k \in DOMAIN << >> |-> Entries(<< >>[k].txs, << >>[k].id)]
            = [k \in 1..0 |-> << >>]
      OBVIOUS
    <3> QED
      BY <3>1, ConcatNone
  <2> QED
    BY <1>1, <1>2, <2>1 DEF GetLogsExact
<1> QED
  BY <1>3, TypeCorrect, PTL
=============================================================================

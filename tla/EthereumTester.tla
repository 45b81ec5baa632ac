--------------------------- MODULE EthereumTester ---------------------------
(***************************************************************************)
(* main.py, class EthereumTester, on top of the PyEVM backend: sending     *)
(* transactions with and without auto-mining, the pool of transactions     *)
(* that wait for a block, mining, time travel, snapshots, and the three    *)
(* kinds of filters.                                                       *)
(*                                                                         *)
(* The library is single-threaded, so each call of the public API is one   *)
(* action.  A call that raises half way is an action of its own, which     *)
(* keeps the effects the code had by then.  Calls that raise or return     *)
(* without any effect are stuttering steps.                                *)
(*                                                                         *)
(* Every transaction emits one log entry.  An entry is [tx, block]: block  *)
(* is the id of the entry's block, 0 for an entry of type "pending".       *)
(***************************************************************************)
EXTENDS TesterAccounts

CONSTANTS
    Ranges,             \* the <<from_block, to_block>> of log filters
    MineCounts,         \* values of num_blocks
    MaxBlocks,          \* bound on the number of blocks ever mined
    MaxSnapshots,       \* bound on snapshot ids
    MaxFilters,         \* bound on filter ids
    MaxValues           \* bound on what a filter holds when a pop fails

ASSUME TesterAssumption ==
    /\ Ranges \subseteq (Nat \cup {None, Latest, Earliest, Pending})
                          \X (Nat \cup {None, Latest, Earliest, Pending})
    /\ MineCounts \subseteq Nat
    /\ MaxBlocks \in Nat /\ MaxSnapshots \in Nat
    /\ MaxFilters \in Nat /\ MaxValues \in Nat

VARIABLES
    chain,              \* the backend's mined blocks
    block,              \* the transactions of the backend's pending block
    nextId,             \* the id of the next block to be mined
    pool,               \* _pending_transactions
    autoMine,           \* auto_mine_transactions
    snapshots,          \* _snapshots: id - 1 |-> the chain up to the snapshot
    filterCounter,      \* _filter_counter
    blockFilters,       \* _block_filters
    txFilters,          \* _pending_transaction_filters
    logFilters          \* _log_filters

chainVars == <<chain, block, nextId>>
filterVars == <<filterCounter, blockFilters, txFilters, logFilters>>
vars == <<chainVars, pool, autoMine, snapshots, filterVars, accountVars>>

LogEntries == [tx : Txs, block : Nat]
LogFilters == [values : Seq(LogEntries), queue : Seq(LogEntries),
               from : {r[1] : r \in Ranges}, to : {r[2] : r \in Ranges}]

ChainTypeOK ==
    /\ chain \in Seq(Blocks)
    /\ block \in Seq(Txs)
    /\ nextId \in Nat \ {0}
    /\ pool \in Seq(Txs)
    /\ autoMine \in BOOLEAN
    /\ snapshots \in Seq(Seq(Blocks))

FiltersTypeOK ==
    /\ filterCounter \in Nat
    /\ DictOf(blockFilters, FilterOf(Nat))
    /\ DictOf(txFilters, FilterOf(Txs))
    /\ DictOf(logFilters, LogFilters)

TypeOK == ChainTypeOK /\ FiltersTypeOK /\ AccountsTypeOK

NoFilters == [id \in {} |-> NewFilter]

Init ==
    /\ chain = << >> /\ block = << >> /\ nextId = 1
    /\ pool = << >>
    /\ autoMine \in BOOLEAN
    /\ snapshots = << >>
    /\ filterCounter = 0
    /\ blockFilters = NoFilters /\ txFilters = NoFilters
    /\ logFilters = NoFilters
    /\ InitAccounts

-----------------------------------------------------------------------------
(* Feeding filters.                                                        *)

Entries(txs, id) == [i \in DOMAIN txs |-> [tx |-> txs[i], block |-> id]]

PendingLogs(filter, txs) ==
    IF check_if_blocks_match(None, "pending", filter.from, filter.to)
    THEN Entries(txs, 0) ELSE << >>

(* The log entries of block n that the filter accepts.                     *)
MinedLogs(filter, blocks, n) ==
    IF check_if_blocks_match(n, "mined", filter.from, filter.to)
    THEN Entries(blocks[n].txs, blocks[n].id) ELSE << >>

(* ... and those of the blocks first .. last.                              *)
LogsOfBlocks(filter, blocks, first, last) ==
    IF last < first THEN << >>
    ELSE Concat([k \in 1..(last + 1 - first) |->
                   MinedLogs(filter, blocks, first + k - 1)])

(* _add_log_entries_to_filter for the blocks first .. last.                *)
AddBlockLogs(filter, blocks, first, last) ==
    Add(filter, LogsOfBlocks(filter, blocks, first, last))

(* _handle_filtering_for_transaction for txs, one after the other.         *)
TxFiltersFed(txs) == AddToAll(txFilters, txs)
LogFiltersFed(txs) ==
    [id \in DOMAIN logFilters |->
        Add(logFilters[id], PendingLogs(logFilters[id], txs))]

(* A wrong mine_blocks tells the filters of the first block only.          *)
FirstMinedId(count) == IF count = 0 THEN << >> ELSE <<nextId>>

MinedIds(count) == [i \in 1..count |-> nextId + i - 1]

(* backend.mine_blocks and the loop of mine_blocks that feeds the filters, *)
(* on a pending block newBlock and log filters fed.                        *)
MineAndFeed(newBlock, count, fed) ==
    LET blocks == Mined(chain, newBlock, count, nextId)
    IN  /\ nextId + count <= MaxBlocks + 1
        /\ chain' = blocks
        /\ block' = PendingAfterMining(newBlock, count)
        /\ nextId' = nextId + count
        /\ blockFilters' = AddToAll(blockFilters, MinedIds(count))
        /\ logFilters' =
              [id \in DOMAIN fed |->
                  AddBlockLogs(fed[id], blocks, Len(chain) + 1, Len(blocks))]

-----------------------------------------------------------------------------
(* Looking things up, and cleaning the filters with it after a revert.     *)

(* get_transaction_by_hash: the pool first, then the backend.              *)
KnownTxs(blocks, pending, waiting) ==
    Elements(waiting) \cup BackendKnows(blocks, pending)

(* A wrong revert cleans the filters before the backend reverts.           *)
CleanAndRevert(blocks, waiting, txFs, logFs) ==
    LET known == KnownTxs(chain, block, waiting)
    IN  /\ chain' = blocks
        /\ block' = << >>
        /\ blockFilters' = RetainInAll(blockFilters, BlockIds(chain))
        /\ txFilters' = RetainInAll(txFs, known)
        /\ logFilters' = RetainInAll(logFs, [tx : known, block : Nat])

(* The end of revert_to_snapshot: the pending block is gone, and every     *)
(* filter forgets what can no longer be looked up.                         *)
RevertAndClean(blocks, waiting, txFs, logFs) ==
    LET known == KnownTxs(blocks, << >>, waiting)
    IN  /\ chain' = blocks
        /\ block' = << >>
        /\ blockFilters' = RetainInAll(blockFilters, BlockIds(blocks))
        /\ txFilters' = RetainInAll(txFs, known)
        /\ logFilters' = RetainInAll(logFs, [tx : known, block : Nat])

-----------------------------------------------------------------------------
(* Sending.  send_transaction needs the sender's key and an unlocked       *)
(* sender; send_raw_transaction brings its own signature and checks no     *)
(* lock.                                                                   *)

SameNonce(tx, other) == tx.from = other.from /\ tx.nonce = other.nonce

Accepts(tx, raw) ==
    /\ Applies(chain, block, tx)
    /\ raw \/ (tx.from \in keys /\ ~IsLocked(tx.from))

SendAutoMined(tx, raw) ==
    /\ autoMine
    /\ Accepts(tx, raw)
    /\ txFilters' = TxFiltersFed(<<tx>>)
    /\ MineAndFeed(Append(block, tx), 1, LogFiltersFed(<<tx>>))
    /\ UNCHANGED <<pool, autoMine, snapshots, filterCounter, accountVars>>

(* Two wrong ones: nothing is removed, or all that the sender sent.        *)
PoolAppended(tx) == Append(pool, tx)
PoolWithOnePerSender(tx) ==
    Append(Without(pool, {other \in Txs : other.from = tx.from}), tx)

(* remove_matching_transaction_from_list, then append.                     *)
PoolWith(tx) ==
    Append(Without(pool, {other \in Txs : SameNonce(tx, other)}), tx)

(* Without auto-mining the transaction runs in the pending block only      *)
(* between a fresh snapshot and the revert to it.                          *)
SendToPool(tx, raw) ==
    /\ ~autoMine
    /\ Accepts(tx, raw)
    /\ Len(snapshots) < MaxSnapshots
    /\ snapshots' = Append(snapshots, chain)
    /\ pool' = PoolWith(tx)
    /\ RevertAndClean(chain, PoolWith(tx),
                      TxFiltersFed(<<tx>>), LogFiltersFed(<<tx>>))
    /\ UNCHANGED <<nextId, autoMine, filterCounter, accountVars>>

(* The same when the transaction is refused: "finally" still reverts.      *)
SendToPoolFails(tx, raw) ==
    /\ ~autoMine
    /\ ~Accepts(tx, raw)
    /\ Len(snapshots) < MaxSnapshots
    /\ snapshots' = Append(snapshots, chain)
    /\ RevertAndClean(chain, pool, txFilters, logFilters)
    /\ UNCHANGED <<nextId, pool, autoMine, filterCounter, accountVars>>

-----------------------------------------------------------------------------
(* Mining.                                                                 *)

(* send_signed of the i-th transaction of the pool succeeds after those    *)
(* before it did.                                                          *)
Pops(i) ==
    /\ ~IsLocked(pool[i].from)
    /\ Applies(chain, block \o SubSeq(pool, 1, i - 1), pool[i])

(* _add_all_to_pending_block gets through the first k transactions.        *)
PopStopsAt(k) ==
    /\ \A i \in 1..k : Pops(i)
    /\ k < Len(pool) => ~Pops(k + 1)

(* A wrong one announces what was in the pending block already.            *)
PopAndAnnounceBlock(count) ==
    /\ PopStopsAt(Len(pool))
    /\ pool' = << >>
    /\ txFilters' = TxFiltersFed(block \o pool)
    /\ MineAndFeed(block \o pool, count, LogFiltersFed(pool))

(* The whole pool moves to the pending block, which is then mined.         *)
PopAndMine(count) ==
    /\ PopStopsAt(Len(pool))
    /\ pool' = << >>
    /\ txFilters' = TxFiltersFed(pool)
    /\ MineAndFeed(block \o pool, count, LogFiltersFed(pool))

(* A transaction of the pool is refused: those before it are in the        *)
(* pending block, the filters know them, and the pool still holds all.     *)
PopFails ==
    \E k \in 0..(Len(pool) - 1) :
        LET popped == SubSeq(pool, 1, k)
        IN  /\ PopStopsAt(k)
            /\ \A id \in DOMAIN txFilters : Len(txFilters[id].values) < MaxValues
            /\ \A id \in DOMAIN logFilters : Len(logFilters[id].values) < MaxValues
            /\ block' = block \o popped
            /\ txFilters' = TxFiltersFed(popped)
            /\ logFilters' = LogFiltersFed(popped)
            /\ UNCHANGED <<chain, nextId, pool, blockFilters>>

MineBlocks(count) ==
    /\ \/ /\ autoMine
          /\ MineAndFeed(block, count, logFilters)
          /\ UNCHANGED <<pool, txFilters>>
       \/ /\ ~autoMine
          /\ PopAndMine(count)
    /\ UNCHANGED <<autoMine, snapshots, filterCounter, accountVars>>

MineBlocksFails ==
    /\ ~autoMine
    /\ PopFails
    /\ UNCHANGED <<autoMine, snapshots, filterCounter, accountVars>>

(* The flag is set before the pool is popped.                              *)
EnableAutoMine ==
    /\ autoMine' = TRUE
    /\ PopAndMine(1) \/ PopFails
    /\ UNCHANGED <<snapshots, filterCounter, accountVars>>

DisableAutoMine ==
    /\ autoMine' = FALSE
    /\ UNCHANGED <<chainVars, pool, snapshots, filterVars, accountVars>>

(* To a later timestamp: the backend mines its pending block, and neither  *)
(* the pool nor the filters take part.                                     *)
TimeTravel ==
    /\ nextId <= MaxBlocks
    /\ chain' = Mined(chain, block, 1, nextId)
    /\ block' = << >>
    /\ nextId' = nextId + 1
    /\ UNCHANGED <<pool, autoMine, snapshots, filterVars, accountVars>>

-----------------------------------------------------------------------------
(* Snapshots.                                                              *)

TakeSnapshot ==
    /\ Len(snapshots) < MaxSnapshots
    /\ snapshots' = Append(snapshots, chain)
    /\ UNCHANGED <<chainVars, pool, autoMine, filterVars, accountVars>>

RevertToSnapshot(s) ==
    /\ s \in DOMAIN snapshots
    /\ RevertAndClean(snapshots[s], pool, txFilters, logFilters)
    /\ UNCHANGED <<nextId, pool, autoMine, snapshots, filterCounter,
                   accountVars>>

(* _reset_local_state leaves the pool and the auto-mining flag alone.      *)
ResetToGenesis ==
    /\ chain' = << >> /\ block' = << >>
    /\ snapshots' = << >>
    /\ filterCounter' = 0
    /\ blockFilters' = NoFilters /\ txFilters' = NoFilters
    /\ logFilters' = NoFilters
    /\ ResetAccounts
    /\ UNCHANGED <<nextId, pool, autoMine>>

-----------------------------------------------------------------------------
(* Filters.                                                                *)

TakeFilterId ==
    /\ filterCounter < MaxFilters
    /\ filterCounter' = filterCounter + 1

CreateBlockFilter ==
    /\ TakeFilterId
    /\ blockFilters' = With(blockFilters, filterCounter, NewFilter)
    /\ UNCHANGED <<chainVars, pool, autoMine, snapshots, txFilters,
                   logFilters, accountVars>>

CreatePendingTransactionFilter ==
    /\ TakeFilterId
    /\ txFilters' = With(txFilters, filterCounter, NewFilter)
    /\ UNCHANGED <<chainVars, pool, autoMine, snapshots, blockFilters,
                   logFilters, accountVars>>

(* The blocks that create_log_filter scans: none unless from_block is a    *)
(* number.  Past the last mined block it raises BlockNotFound, but the     *)
(* filter is registered by then and keeps what the scan found.             *)
FirstScanned(from) == IF from = 0 THEN 1 ELSE from
(* A wrong upper bound stops before the last mined block.                  *)
LastScannedShort(to) ==
    IF to \in Nat /\ to < Len(chain) THEN to
    ELSE IF Len(chain) = 0 THEN 0 ELSE Len(chain) - 1
LastScanned(to) ==
    IF to \in Nat /\ to < Len(chain) THEN to ELSE Len(chain)

CreateLogFilter(from, to) ==
    LET empty == [values |-> << >>, queue |-> << >>, from |-> from, to |-> to]
        filled == IF from \in Nat
                  THEN AddBlockLogs(empty, chain,
                                    FirstScanned(from), LastScanned(to))
                  ELSE empty
    IN  /\ TakeFilterId
        /\ logFilters' = With(logFilters, filterCounter, filled)
        /\ UNCHANGED <<chainVars, pool, autoMine, snapshots, blockFilters,
                       txFilters, accountVars>>

(* get_logs: the numbers its loop runs over (None counts as "latest"), and *)
(* the entries its filter lets through.  The loop asks for every block by  *)
(* number, so it raises BlockNotFound past the last mined block.           *)
NumberOf(identifier) ==
    IF identifier \in Nat THEN identifier
    ELSE IF identifier = Earliest THEN 0
    ELSE IF identifier = Pending THEN Len(chain) + 1 ELSE Len(chain)

GetLogsRaises(from, to) ==
    NumberOf(to) > Len(chain) /\ NumberOf(from) <= NumberOf(to)

GetLogs(from, to) ==
    LogsOfBlocks([from |-> from, to |-> to], chain,
                 FirstScanned(NumberOf(from)), NumberOf(to))

DeleteFilter(id) ==
    /\ id \in DOMAIN blockFilters \cup DOMAIN txFilters \cup DOMAIN logFilters
    /\ blockFilters' = Minus(blockFilters, id)
    /\ txFilters' = Minus(txFilters, id)
    /\ logFilters' = Minus(logFilters, id)
    /\ UNCHANGED <<chainVars, pool, autoMine, snapshots, filterCounter,
                   accountVars>>

DrainedAt(filters, id) ==
    [i \in DOMAIN filters |->
        IF i = id THEN Drained(filters[i]) ELSE filters[i]]

GetOnlyFilterChanges(id) ==
    /\ id \in DOMAIN blockFilters \cup DOMAIN txFilters \cup DOMAIN logFilters
    /\ blockFilters' = DrainedAt(blockFilters, id)
    /\ txFilters' = DrainedAt(txFilters, id)
    /\ logFilters' = DrainedAt(logFilters, id)
    /\ UNCHANGED <<chainVars, pool, autoMine, snapshots, filterCounter,
                   accountVars>>

-----------------------------------------------------------------------------
ChangeAccounts ==
    /\ NextAccounts
    /\ UNCHANGED <<chainVars, pool, autoMine, snapshots, filterVars>>

(* All calls but the two that change the chain without telling the log     *)
(* filters: time travel, which mines, and going back to a snapshot.        *)
NextFed ==
    \/ \E tx \in Txs, raw \in BOOLEAN :
          \/ SendAutoMined(tx, raw)
          \/ SendToPool(tx, raw)
          \/ SendToPoolFails(tx, raw)
    \/ \E count \in MineCounts : MineBlocks(count)
    \/ MineBlocksFails
    \/ EnableAutoMine
    \/ DisableAutoMine
    \/ TakeSnapshot
    \/ ResetToGenesis
    \/ CreateBlockFilter
    \/ CreatePendingTransactionFilter
    \/ \E r \in Ranges : CreateLogFilter(r[1], r[2])
    \/ \E id \in 0..(MaxFilters - 1) :
          DeleteFilter(id) \/ GetOnlyFilterChanges(id)
    \/ ChangeAccounts

Next ==
    \/ NextFed
    \/ TimeTravel
    \/ \E s \in 1..MaxSnapshots : RevertToSnapshot(s)

Spec == Init /\ [][Next]_vars
=============================================================================

-------------------------- MODULE TesterProperties --------------------------
(***************************************************************************)
(* What EthereumTester promises: invariants and action properties of the   *)
(* specification in EthereumTester.                                        *)
(***************************************************************************)
EXTENDS EthereumTester

Known == KnownTxs(chain, block, pool)

(* Included transactions, those of the pending block among them.           *)
WithPending == Append(chain, [id |-> nextId, txs |-> block])

(* No execution history contains two transactions of one sender with one   *)
(* nonce, whatever was popped, reverted or sent again in between.          *)
(* (send_transaction, _pop_pending_transactions_to_pending_block)          *)
NonceUsedOnce ==
    \A s, t \in Slots(WithPending) :
        s # t => ~SameNonce(TxAt(WithPending, s), TxAt(WithPending, t))

(* The pool never holds two transactions for the same sender and nonce:    *)
(* the later one replaces the earlier one.  (handle_auto_mining)           *)
PoolUniqueNonce ==
    \A i, j \in DOMAIN pool : i # j => ~SameNonce(pool[i], pool[j])

(* Every block hash in a block filter is a block of the canonical chain,   *)
(* and the filter lists them from lower to higher blocks, so none twice,   *)
(* after any mixture of mining, reverting and reverting forward to an      *)
(* abandoned fork.  (mine_blocks, _revert_block_filter)                    *)
HeightOf(id) == CHOOSE n \in DOMAIN chain : chain[n].id = id
BlockFiltersFollowChain ==
    \A id \in DOMAIN blockFilters :
        LET values == blockFilters[id].values
        IN  /\ Elements(values) \subseteq BlockIds(chain)
            /\ \A i, j \in DOMAIN values :
                  i < j => HeightOf(values[i]) < HeightOf(values[j])

(* Every transaction hash that a pending-transaction filter still reports  *)
(* can be looked up with get_transaction_by_hash.                          *)
(* (_handle_filtering_for_transaction, _revert_pending_transaction_filter) *)
TxFiltersKnown ==
    \A id \in DOMAIN txFilters : Elements(txFilters[id].values) \subseteq Known

(* Every log entry that a log filter still reports belongs to a            *)
(* transaction that can be looked up.  (_revert_log_filter)                *)
LogFiltersKnown ==
    \A id \in DOMAIN logFilters :
        \A entry \in Elements(logFilters[id].values) : entry.tx \in Known

(* In every filter the unread items are the most recent of all its items,  *)
(* in their order, also when reverts withdraw items between two polls.  An *)
(* item that was added twice counts as two: see RepeatsOnlyPooled.         *)
(* (Filter.remove, Filter.get_changes)                                     *)
UnreadIsSuffix ==
    /\ \A id \in DOMAIN blockFilters : QueueIsSuffix(blockFilters[id])
    /\ \A id \in DOMAIN txFilters : QueueIsSuffix(txFilters[id])
    /\ \A id \in DOMAIN logFilters : QueueIsSuffix(logFilters[id])

(* get_logs returns the log entries of all the blocks from from_block to   *)
(* to_block, and of no other, in the order they were mined; unless         *)
(* from_block is "earliest": README.md:126 says that this is the genesis   *)
(* block, and the code scans from there, but then lets no entry through.   *)
(* (get_logs, check_if_from_block_match)                                   *)
GetLogsExact ==
    \A r \in Ranges : ~GetLogsRaises(r[1], r[2]) =>
        LET first == FirstScanned(NumberOf(r[1]))
            wanted == IF r[1] = Earliest THEN << >>
                      ELSE SubSeq(chain, first, NumberOf(r[2]))
        IN  GetLogs(r[1], r[2]) =
              Concat([k \in DOMAIN wanted |->
                        Entries(wanted[k].txs, wanted[k].id)])

(* The steps of a caller who never goes back to a snapshot and travels in  *)
(* time over an empty pending block only.  The snapshots that              *)
(* send_transaction takes and reverts to on its own are among them, so are *)
(* the pool, failed pops and pending blocks that calls left behind.        *)
NextForward == NextFed \/ (TimeTravel /\ block = << >>)

SpecForward == Init /\ [][NextForward]_vars

(* Under SpecForward, a log filter that starts at a block number holds     *)
(* what a filter created now would find by scanning the chain, whenever it *)
(* was created: what was fed while sending and mining and what             *)
(* create_log_filter scanned overlap nowhere and leave no gap.             *)
(* (create_log_filter, _process_block_logs)                                *)
LogFiltersAgreeWithScan ==
    \A id \in DOMAIN logFilters :
        LET f == logFilters[id]
        IN  f.from \in Nat =>
              f.values = AddBlockLogs([values |-> << >>, queue |-> << >>,
                                       from |-> f.from, to |-> f.to],
                            chain, FirstScanned(f.from), LastScanned(f.to)).values

-----------------------------------------------------------------------------
(* A transaction leaves the pool only into the pending block or the chain, *)
(* or when another one with the same sender and nonce takes its place: no  *)
(* failing pop, revert or reset drops it.                                  *)
(* (_pop_pending_transactions_to_pending_block, handle_auto_mining)        *)
PoolKeepsTransactions ==
    [][ \A i \in DOMAIN pool :
          \/ pool[i] \in KnownTxs(chain', block', pool')
          \/ \E j \in DOMAIN pool' : SameNonce(pool[i], pool'[j]) ]_vars

(* An account that is added with a password starts locked, also when an    *)
(* account with the same address was unlocked before a reset.              *)
(* (add_account, _reset_local_state)                                       *)
AddedAccountsStartLocked ==
    [][ \A account \in DOMAIN passwords' \ DOMAIN passwords :
          HasPassword(account)' => IsLocked(account)' ]_vars

(* before, without what is no longer valid, is the beginning of after.     *)
Keeps(before, after, valid) ==
    LET kept == Without(before, Elements(before) \ valid)
    IN  /\ Len(kept) <= Len(after)
        /\ kept = SubSeq(after, 1, Len(kept))

(* A block filter or a pending-transaction filter forgets nothing that is  *)
(* still valid and never reorders: its values, without the hashes that can *)
(* no longer be looked up, begin its values after any call.                *)
(* (Filter.add, Filter.remove, revert_to_snapshot)                         *)
FiltersForgetOnlyInvalid ==
    [][ /\ \A id \in DOMAIN blockFilters \cap DOMAIN blockFilters' :
              Keeps(blockFilters[id].values, blockFilters'[id].values,
                    BlockIds(chain'))
        /\ \A id \in DOMAIN txFilters \cap DOMAIN txFilters' :
              Keeps(txFilters[id].values, txFilters'[id].values,
                    KnownTxs(chain', block', pool')) ]_vars

(* Blocks the step added to the canonical chain by mining them.            *)
NewlyMined == { id \in BlockIds(chain') : id >= nextId }

(* Every block mined by any call but time_travel reaches every block       *)
(* filter, to be read by the next poll.  (mine_blocks)                     *)
MiningFeedsBlockFilters ==
    [][ TimeTravel \/ \A id \in DOMAIN blockFilters' :
          NewlyMined \subseteq Elements(blockFilters'[id].queue) ]_vars

(* What after has on top of those values of before that are still valid.   *)
Appended(before, after, valid) ==
    LET kept == Without(before, Elements(before) \ valid)
    IN  SubSeq(after, Len(kept) + 1, Len(after))

(* A pending-transaction filter gets a transaction that it already has     *)
(* only if the transaction was in the pool.  README.md:627 promises values *)
(* "that have not previously been returned"; those that go through the     *)
(* pool are the exception: they are announced when they enter it and again *)
(* when they are popped or sent again, and a poll in between makes them    *)
(* reported twice.  (handle_auto_mining,                                   *)
(* _pop_pending_transactions_to_pending_block, _revert_pending_transaction_*)
(* filter)                                                                 *)
RepeatsOnlyPooled ==
    [][ \A id \in DOMAIN txFilters \cap DOMAIN txFilters' :
          LET before == txFilters[id].values
              new == Appended(before, txFilters'[id].values,
                              KnownTxs(chain', block', pool'))
          IN  Elements(new) \cap Elements(before) \subseteq Elements(pool) ]_vars

(* A "mined" log entry names a block of the canonical chain.               *)
MinedEntriesOnChain ==
    \A id \in DOMAIN logFilters :
        \A entry \in Elements(logFilters[id].values) :
            entry.block \in BlockIds(chain) \cup {0}
=============================================================================

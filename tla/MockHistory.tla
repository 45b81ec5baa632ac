----------------------------- MODULE MockHistory -----------------------------
(***************************************************************************)
(* MockBackend with the history that its promises are about: what the      *)
(* chain was when a snapshot was taken, and which snapshots were used.     *)
(***************************************************************************)
EXTENDS MockBackend

VARIABLES
    saved,          \* the chain and the pending block of every snapshot
    reverted        \* the snapshots that revert_to_snapshot was called with

historyVars == <<saved, reverted>>

HInit == Init /\ saved = << >> /\ reverted = {}

HTakeSnapshot ==
    /\ TakeSnapshot
    /\ saved' = Append(saved, [mined |-> MinedBlocks, pending |-> PendingBlock])
    /\ UNCHANGED reverted

HRevertToSnapshot(s) ==
    /\ RevertToSnapshot(s)
    /\ reverted' = reverted \cup {s}
    /\ UNCHANGED saved

HResetToGenesis ==
    /\ ResetToGenesis
    /\ saved' = << >> /\ reverted' = {}

Advance ==
    \/ \E count \in MineCounts : MineBlocks(count)
    \/ \E timestamp \in 1..MaxTime : TimeTravel(timestamp)
    \/ \E tx \in Transactions : SendTransaction(tx)

HNext ==
    \/ Advance /\ UNCHANGED historyVars
    \/ HTakeSnapshot
    \/ \E s \in 1..MaxSnapshots : HRevertToSnapshot(s)
    \/ HResetToGenesis

(* The same for callers that revert to a snapshot at most once.            *)
HNextOnce ==
    \/ Advance /\ UNCHANGED historyVars
    \/ HTakeSnapshot
    \/ \E s \in 1..MaxSnapshots : s \notin reverted /\ HRevertToSnapshot(s)
    \/ HResetToGenesis

Spec == HInit /\ [][HNext]_<<vars, historyVars>>
SpecOnce == HInit /\ [][HNextOnce]_<<vars, historyVars>>

-----------------------------------------------------------------------------
MockTypeOK ==
    /\ blocks \in DOMAIN lists /\ block \in DOMAIN dicts
    /\ receipts \in DOMAIN maps
    /\ \A l \in DOMAIN lists : \A n \in DOMAIN lists[l] :
          lists[l][n] \in [number : Nat, time : Nat, fee : Nat, txs : Seq(Transactions)]
    /\ \A d \in DOMAIN dicts :
          dicts[d] \in [number : Nat, time : Nat, fee : Nat, txs : Seq(Transactions)]
    /\ \A m \in DOMAIN maps : maps[m] \subseteq Transactions
    /\ \A s \in DOMAIN snapshots :
          /\ snapshots[s].blocks \in DOMAIN lists
          /\ snapshots[s].block \in DOMAIN dicts
          /\ snapshots[s].receipts \in DOMAIN maps

(* Asking for the number that a block carries finds this block, mined or   *)
(* pending: the numbers written into the blocks are the positions that the *)
(* list is indexed with, through mining, time travel, reverts and resets.  *)
(* (get_block_by_number, mine_blocks)                                      *)
NumbersFindBlocks ==
    /\ \A n \in DOMAIN MinedBlocks :
          get_block_by_number(MinedBlocks[n].number) = {MinedBlocks[n]}
    /\ get_block_by_number(PendingBlock.number) = {PendingBlock}
    /\ PendingBlock.number = Len(MinedBlocks)

(* The base fee of every block follows the gas that its parent used, as    *)
(* EIP-1559 has it: it stays when the parent met the target, rises by at   *)
(* least 1 above it, never rises below it, and changes by an eighth at     *)
(* most (or by 1).  (make_block_from_parent)                               *)
BaseFeeFollowsGas ==
    LET all == Append(MinedBlocks, PendingBlock)
    IN  \A n \in DOMAIN MinedBlocks :
          LET parent == all[n]
              fee == all[n + 1].fee
          IN  /\ GasUsed(parent) = GasTarget => fee = parent.fee
              /\ GasUsed(parent) > GasTarget => fee > parent.fee
              /\ GasUsed(parent) < GasTarget => fee <= parent.fee
              /\ GasUsed(parent) <= 2 * GasTarget =>
                    /\ 8 * fee <= 9 * parent.fee + 8
                    /\ 8 * fee >= 7 * parent.fee

(* Every block follows its parent, mined or pending: it is found under the *)
(* number after its parent's, and its base fee is the one that EIP-1559    *)
(* gives for the parent's gas - through mining, time travel, reverts and   *)
(* resets, each of which leaves a pending block made from some parent.     *)
(* (get_block_by_number, make_block_from_parent)                           *)
BlocksFollowParents == NumbersFindBlocks /\ BaseFeeFollowsGas

(* get_transaction_receipt finds a receipt for every transaction that      *)
(* get_transaction_by_hash finds.  (send_transaction, take_snapshot)       *)
TransactionsHaveReceipts ==
    LET found == Append(MinedBlocks, PendingBlock)
    IN  \A n \in DOMAIN found :
            \A i \in DOMAIN found[n].txs : found[n].txs[i] \in maps[receipts]

(* MockBackend keeps the promises of a chain backend, as long as no        *)
(* snapshot is reverted to twice.  (class MockBackend)                     *)
Backend == INSTANCE ChainBackend
               WITH mined <- MinedBlocks, pending <- PendingBlock
IsChainBackend == Backend!Spec

(* Reverting to a snapshot, for the first time or again, brings back the   *)
(* chain of the snapshot.  (revert_to_snapshot)                            *)
RevertRestores ==
    [][ \A s \in DOMAIN snapshots :
          HRevertToSnapshot(s) => MinedBlocks' = saved[s].mined ]_<<vars, historyVars>>
=============================================================================

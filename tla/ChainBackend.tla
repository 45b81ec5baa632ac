---------------------------- MODULE ChainBackend ----------------------------
(***************************************************************************)
(* What a chain backend promises (backends/base.py, class                  *)
(* BaseChainBackend, with the README's account of the calls that the       *)
(* facade passes on): a chain of mined blocks, a pending block, and        *)
(* snapshots that stay as they were taken.                                 *)
(*                                                                         *)
(* A block is [time, txs].  How much later than its parent a block is, and *)
(* whether a revert brings back the pending block of the snapshot or an    *)
(* empty one, is left to the implementation.                               *)
(***************************************************************************)
EXTENDS Naturals, Sequences, SequencesExt

CONSTANT Transactions

VARIABLES
    mined,          \* the mined blocks, genesis first
    pending,        \* the pending block
    saved           \* snapshots: [mined, pending] when they were taken

Later(blocks) == \A n \in 2..Len(blocks) : blocks[n - 1].time < blocks[n].time

Init ==
    /\ Len(mined) = 1 /\ mined[1].txs = << >>
    /\ pending.txs = << >>
    /\ Later(Append(mined, pending))
    /\ saved = << >>

SendTransaction(tx) ==
    /\ pending' = [pending EXCEPT !.txs = Append(@, tx)]
    /\ UNCHANGED <<mined, saved>>

(* The pending block is mined, and count - 1 empty ones on top of it.      *)
MineBlocks(count) ==
    /\ IsPrefix(mined, mined')
    /\ Len(mined') = Len(mined) + count
    /\ \A n \in 1..count :
          mined'[Len(mined) + n].txs = IF n = 1 THEN pending.txs ELSE << >>
    /\ IF count = 0 THEN UNCHANGED pending ELSE pending'.txs = << >>
    /\ Later(Append(mined', pending'))
    /\ UNCHANGED saved

TakeSnapshot ==
    /\ saved' = Append(saved, [mined |-> mined, pending |-> pending])
    /\ UNCHANGED <<mined, pending>>

RevertToSnapshot(s) ==
    /\ s \in DOMAIN saved
    /\ mined' = saved[s].mined
    /\ pending'.txs \in {<< >>, saved[s].pending.txs}
    /\ Later(Append(mined', pending'))
    /\ UNCHANGED saved

ResetToGenesis ==
    /\ mined' = SubSeq(mined, 1, 1)
    /\ pending'.txs = << >>
    /\ Later(Append(mined', pending'))
    /\ saved' = << >>

Next ==
    \/ \E tx \in Transactions : SendTransaction(tx)
    \/ MineBlocks(Len(mined') - Len(mined))
    \/ TakeSnapshot
    \/ \E s \in DOMAIN saved : RevertToSnapshot(s)
    \/ ResetToGenesis

Spec == Init /\ [][Next]_<<mined, pending, saved>>
=============================================================================

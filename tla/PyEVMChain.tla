----------------------------- MODULE PyEVMChain -----------------------------
(***************************************************************************)
(* backends/pyevm/main.py: the chain that PyEVMBackend keeps, as operators *)
(* on two values,                                                          *)
(*   chain   the canonical chain after genesis: chain[n] is block n,       *)
(*   block   the transactions of the pending block chain.get_block().      *)
(* What py-evm itself does is modelled from how the backend uses it.       *)
(*                                                                         *)
(* A mined block is [id, txs].  The id stands for the block hash: every    *)
(* mined block gets a random mix_hash, so no two mined blocks share one.   *)
(* A transaction is [from, nonce, note]; its value stands for its hash,    *)
(* and note tells apart transactions with the same sender and nonce.       *)
(***************************************************************************)
EXTENDS Naturals, Sequences, FiniteSets, Filter

CONSTANTS
    Accounts,           \* addresses that may send transactions
    GenesisAccounts,    \* the accounts the backend can sign for at genesis
    Txs,                \* the transactions in play
    BlockCapacity       \* how many of them fit in one block's gas limit

ASSUME ChainAssumption ==
    /\ GenesisAccounts \subseteq Accounts
    /\ \A tx \in Txs : tx.from \in Accounts /\ tx.nonce \in Nat
    /\ BlockCapacity \in Nat

Blocks == [id : Nat \ {0}, txs : Seq(Txs)]

-----------------------------------------------------------------------------
(***************************************************************************)
(* Where a transaction is included: <<n, i>> is position i of block n.     *)
(***************************************************************************)
Slots(chain) == UNION { {n} \X DOMAIN chain[n].txs : n \in DOMAIN chain }

TxAt(chain, slot) == chain[slot[1]].txs[slot[2]]

MinedTxs(chain) == { TxAt(chain, slot) : slot \in Slots(chain) }

BlockIds(chain) == { chain[n].id : n \in DOMAIN chain }

(***************************************************************************)
(* _get_transaction_by_hash: the pending block first, then the canonical   *)
(* chain; TransactionNotFound for every other hash.                        *)
(***************************************************************************)
BackendKnows(chain, block) == Elements(block) \cup MinedTxs(chain)

(***************************************************************************)
(* The account's nonce in the state the pending block is executed on.      *)
(***************************************************************************)
NonceOf(chain, block, account) ==
    LET Sent(tx) == tx.from = account
    IN  Cardinality({slot \in Slots(chain) : Sent(TxAt(chain, slot))})
          + Cardinality({i \in DOMAIN block : Sent(block[i])})

(***************************************************************************)
(* chain.apply_transaction raises unless the nonce is the next one of the  *)
(* sender and the gas fits in what the block has left.                     *)
(***************************************************************************)
Applies(chain, block, tx) ==
    /\ tx.nonce = NonceOf(chain, block, tx.from)
    /\ Len(block) < BlockCapacity

(***************************************************************************)
(* mine_blocks: the pending block becomes a mined one, count - 1 empty     *)
(* blocks follow.  Blocks are numbered from nextId on.                     *)
(***************************************************************************)
MinedBlock(txs, id, i) ==
    [id |-> id + i - 1, txs |-> IF i = 1 THEN txs ELSE << >>]

Mined(chain, block, count, nextId) ==
    chain \o [i \in 1..count |-> MinedBlock(block, nextId, i)]

(* A wrong one: the transactions stay in the pending block.                *)
PendingStays(block, count) == block

PendingAfterMining(block, count) == IF count = 0 THEN block ELSE << >>
=============================================================================

----------------------------- MODULE MockBackend -----------------------------
(***************************************************************************)
(* backends/mock/main.py, class MockBackend, as EthereumTester calls it.   *)
(*                                                                         *)
(* The backend's lists and dictionaries are Python objects that calls      *)
(* change in place, and revert_to_snapshot installs the objects of the     *)
(* snapshot themselves.  So the model keeps objects apart from references  *)
(* to them: blocks, block and receipts are positions in lists, dicts and   *)
(* maps.                                                                   *)
(*                                                                         *)
(* A block is [number, time, fee, txs]; fee is its base_fee_per_gas.  A    *)
(* transaction's value stands for its hash, which depends on nothing but   *)
(* its content.                                                            *)
(***************************************************************************)
EXTENDS Naturals, Sequences

CONSTANTS
    Transactions,
    GasLimit,           \* gas_limit of the genesis block, and of all others
    GenesisFee,         \* base_fee_per_gas of the genesis block
    MineCounts,         \* values of num_blocks
    MaxBlocks,          \* bound on the length of the chain
    MaxTime,            \* bound on timestamps
    MaxSent,            \* bound on the transactions of a block
    MaxSnapshots,       \* bound on snapshot ids
    MaxObjects          \* bound on the dictionaries that were pending blocks

ASSUME FeeAssumption == GasLimit \in Nat /\ GasLimit >= 2 /\ GenesisFee \in Nat

ASSUME BoundsAssumption ==
    MineCounts \subseteq Nat /\ MaxTime \in Nat /\ MaxSnapshots \in Nat

VARIABLES
    blocks, block, receipts,    \* self.blocks, self.block, self.receipts
    lists,              \* list objects: the mined blocks
    dicts,              \* dictionary objects: a pending block
    maps,               \* dictionary objects: the hashes that have a receipt
    snapshots           \* what take_snapshot returned: references

stateVars == <<blocks, block, receipts>>
heapVars == <<lists, dicts, maps>>
vars == <<stateVars, heapVars, snapshots>>

MinedBlocks == lists[blocks]
PendingBlock == dicts[block]

Block(number, time, fee, txs) ==
    [number |-> number, time |-> time, fee |-> fee, txs |-> txs]

(* Every transaction uses 21000 gas.                                       *)
GasUsed(b) == 21000 * Len(b.txs)
GasTarget == GasLimit \div 2

FeeDelta(parent, gas) == ((parent.fee * gas) \div GasTarget) \div 8

(* A wrong one lets a low fee stay where it is in a crowded block.         *)
FeeWithoutFloor(parent) ==
    IF GasUsed(parent) > GasTarget
    THEN parent.fee + FeeDelta(parent, GasUsed(parent) - GasTarget)
    ELSE parent.fee - FeeDelta(parent, GasTarget - GasUsed(parent))

_calculate_expected_base_fee_per_gas(parent) ==
    LET used == GasUsed(parent)
        up == FeeDelta(parent, used - GasTarget)
        down == FeeDelta(parent, GasTarget - used)
    IN  IF used = GasTarget THEN parent.fee
        ELSE IF used > GasTarget
        THEN parent.fee + (IF up > 1 THEN up ELSE 1)
        ELSE IF down > parent.fee THEN 0 ELSE parent.fee - down

(* make_block_from_parent.                                                 *)
Child(parent) ==
    Block(parent.number + 1, parent.time + 1,
          _calculate_expected_base_fee_per_gas(parent), << >>)

(* The answers of get_block_by_number to a number: the pending block, a    *)
(* mined one, or none (BlockNotFound).                                     *)
get_block_by_number(number) ==
    IF number = PendingBlock.number THEN {PendingBlock}
    ELSE IF number < Len(MinedBlocks) THEN {MinedBlocks[number + 1]}
    ELSE {}

(* reset_to_genesis mines the genesis block, which is block 0.             *)
Genesis == Block(0, 0, GenesisFee, << >>)

Init ==
    /\ lists = << <<Genesis>> >> /\ blocks = 1
    /\ dicts = << Child(Genesis) >> /\ block = 1
    /\ maps = << {} >> /\ receipts = 1
    /\ snapshots = << >>

-----------------------------------------------------------------------------
(* mine_blocks on the pending block mining: the list of blocks grows in    *)
(* place, and self.block becomes a dictionary of its own.                  *)
(* A wrong one mines the same transactions into every block.               *)
MinedAgain(mining, count) ==
    LET chain[k \in 1..count] ==
          IF k = 1 THEN mining
          ELSE [Child(chain[k - 1]) EXCEPT !.txs = mining.txs]
    IN  chain

MinedFrom(mining, count) ==
    LET chain[k \in 1..count] == IF k = 1 THEN mining ELSE Child(chain[k - 1])
    IN  chain

MineOn(mining, count) ==
    /\ Len(MinedBlocks) + count <= MaxBlocks
    /\ mining.time + count <= MaxTime
    /\ Len(dicts) < MaxObjects
    /\ lists' = [lists EXCEPT ![blocks] = @ \o MinedFrom(mining, count)]
    /\ IF count = 0
       THEN UNCHANGED <<dicts, block>>
       ELSE /\ dicts' = Append([dicts EXCEPT ![block] = mining],
                               Child(MinedFrom(mining, count)[count]))
            /\ block' = Len(dicts) + 1
    /\ UNCHANGED <<blocks, receipts, maps, snapshots>>

MineBlocks(count) == MineOn(PendingBlock, count)

(* time_travel sets the pending block's timestamp in place.  The facade    *)
(* passes on only timestamps that are later than it.                       *)
TimeTravel(timestamp) ==
    /\ timestamp > PendingBlock.time
    /\ MineOn([PendingBlock EXCEPT !.time = timestamp - 1], 1)

SendTransaction(tx) ==
    /\ Len(PendingBlock.txs) < MaxSent
    /\ maps' = [maps EXCEPT ![receipts] = @ \cup {tx}]
    /\ dicts' = [dicts EXCEPT ![block].txs = Append(@, tx)]
    /\ UNCHANGED <<stateVars, lists, snapshots>>

-----------------------------------------------------------------------------
(* A wrong snapshot leaves the receipts out.                               *)
NoReceipts == {}
Receipts == maps[receipts]

(* A deep copy of everything ...                                           *)
TakeSnapshot ==
    /\ Len(snapshots) < MaxSnapshots
    /\ Len(dicts) < MaxObjects
    /\ lists' = Append(lists, MinedBlocks)
    /\ dicts' = Append(dicts, PendingBlock)
    /\ maps' = Append(maps, Receipts)
    /\ snapshots' = Append(snapshots, [blocks |-> Len(lists) + 1,
                                       block |-> Len(dicts) + 1,
                                       receipts |-> Len(maps) + 1])
    /\ UNCHANGED stateVars

(* A revert takes the objects of the snapshot without copying them.        *)
RevertToSnapshot(s) ==
    /\ s \in DOMAIN snapshots
    /\ blocks' = snapshots[s].blocks
    /\ block' = snapshots[s].block
    /\ receipts' = snapshots[s].receipts
    /\ UNCHANGED <<heapVars, snapshots>>

(* A wrong reset keeps the snapshots of the chain that is gone.            *)
ResetKeepsSnapshots ==
    /\ lists' = << <<Genesis>> >> /\ blocks' = 1
    /\ dicts' = << Child(Genesis) >> /\ block' = 1
    /\ maps' = << {} >> /\ receipts' = 1
    /\ UNCHANGED snapshots

(* The facade forgets its snapshots; their objects are garbage then.       *)
ResetToGenesis ==
    /\ lists' = << <<Genesis>> >> /\ blocks' = 1
    /\ dicts' = << Child(Genesis) >> /\ block' = 1
    /\ maps' = << {} >> /\ receipts' = 1
    /\ snapshots' = << >>
=============================================================================

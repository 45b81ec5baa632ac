----------------------------- MODULE BlockRange -----------------------------
(***************************************************************************)
(* Block identifiers, and the block half of check_if_log_matches           *)
(* (utils/filters.py): does a log entry lie in the from_block .. to_block  *)
(* range of a filter?                                                      *)
(*                                                                         *)
(* number is the entry's block number, or None while its block is pending; *)
(* type is "mined" or "pending".                                           *)
(***************************************************************************)
EXTENDS Naturals

CONSTANTS
    None,                                   \* Python's None
    Latest, Earliest, Pending,              \* block identifiers ...
    Safe, Finalized                         \* ... that are not numbers

BlockTags == {Latest, Earliest, Pending, Safe, Finalized}

ASSUME SentinelAssumption ==
    /\ None \notin Nat \cup BlockTags
    /\ BlockTags \cap Nat = {}

ASSUME TagsAssumption ==
    /\ Pending \notin {Latest, Safe, Finalized, Earliest}
    /\ Earliest \notin {Latest, Safe, Finalized}

(***************************************************************************)
(* The code raises ValueError for the block identifiers it does not know;  *)
(* the two sets below are the identifiers that give an answer.             *)
(***************************************************************************)
MinedTags == {None, Latest}
PendingTags == {Earliest, Pending}

check_if_from_block_match(number, type, from_block) ==
    \/ from_block \in MinedTags /\ type = "mined"
    \/ from_block \in PendingTags /\ type = "pending"
    \/ from_block \in Nat /\ number \in Nat /\ number >= from_block

(* A wrong bound: to_block itself is left out.                             *)
check_if_before_block(number, type, to_block) ==
    \/ to_block \in MinedTags /\ type = "mined"
    \/ to_block \in PendingTags /\ type = "pending"
    \/ to_block \in Nat /\ number \in Nat /\ number < to_block

check_if_to_block_match(number, type, to_block) ==
    \/ to_block \in MinedTags /\ type = "mined"
    \/ to_block \in PendingTags /\ type = "pending"
    \/ to_block \in Nat /\ number \in Nat /\ number <= to_block

check_if_blocks_match(number, type, from_block, to_block) ==
    /\ check_if_from_block_match(number, type, from_block)
    /\ check_if_to_block_match(number, type, to_block)
=============================================================================

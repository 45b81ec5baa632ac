------------------------------- MODULE Filter -------------------------------
(***************************************************************************)
(* utils/filters.py, class Filter: the object behind block filters,        *)
(* pending-transaction filters and log filters.  A filter keeps everything *)
(* it ever accepted in "values" and what was not yet handed out by         *)
(* get_changes in "queue"; remove() withdraws items from both.             *)
(*                                                                         *)
(* The operators are first-order (sets and sequences, no operator          *)
(* arguments) and the only recursion is the function inside Concat, so     *)
(* that Filter_proofs can establish facts about them.                      *)
(***************************************************************************)
EXTENDS Naturals, Sequences

Elements(s) == { s[i] : i \in DOMAIN s }

(***************************************************************************)
(* All the sequences of ss one after the other.                            *)
(***************************************************************************)
ConcatUpTo(ss) ==
    LET upTo[n \in 0..Len(ss)] ==
          IF n = 0 THEN << >> ELSE upTo[n - 1] \o ss[n]
    IN  upTo

Concat(ss) == ConcatUpTo(ss)[Len(ss)]

(***************************************************************************)
(* s without the items of gone; what is left keeps its order.              *)
(***************************************************************************)
Without(s, gone) ==
    Concat([i \in 1..Len(s) |-> IF s[i] \in gone THEN << >> ELSE <<s[i]>>])

-----------------------------------------------------------------------------
FilterOf(Items) == [values : Seq(Items), queue : Seq(Items)]

NewFilter == [values |-> << >>, queue |-> << >>]

(***************************************************************************)
(* Filter.add: items are the values that already passed filter_fn.         *)
(***************************************************************************)
Add(f, items) ==
    [f EXCEPT !.values = @ \o items, !.queue = @ \o items]

(***************************************************************************)
(* Filter.get_changes: drains the queue; the values stay.                  *)
(***************************************************************************)
Drained(f) == [f EXCEPT !.queue = << >>]

(***************************************************************************)
(* A wrong remove, which forgets what waits in the queue.                  *)
(***************************************************************************)
RemoveRead(f, gone) == [f EXCEPT !.values = Without(@, gone)]

(***************************************************************************)
(* Filter.remove: the queue is drained, filtered and filled again.         *)
(***************************************************************************)
Remove(f, gone) ==
    [f EXCEPT !.values = Without(@, gone), !.queue = Without(@, gone)]

(***************************************************************************)
(* A wrong revert, which keeps and removes the wrong way round.            *)
(***************************************************************************)
RetainInvalid(f, valid) == Remove(f, Elements(f.values) \cap valid)

(***************************************************************************)
(* What the three _revert_*_filter methods do with a filter: collect the   *)
(* values that are no longer valid and remove them.                        *)
(***************************************************************************)
Retain(f, valid) == Remove(f, Elements(f.values) \ valid)

(***************************************************************************)
(* The same operations on a dictionary of filters (id |-> filter).         *)
(***************************************************************************)
DictOf(dict, Values) ==
    /\ DOMAIN dict \subseteq Nat
    /\ \A id \in DOMAIN dict : dict[id] \in Values

AddToAll(filters, items) ==
    [id \in DOMAIN filters |-> Add(filters[id], items)]

(* A wrong revert, which leaves the filters alone.                         *)
RetainEverything(filters, valid) == filters

RetainInAll(filters, valid) ==
    [id \in DOMAIN filters |-> Retain(filters[id], valid)]

With(dict, key, value) ==
    [k \in DOMAIN dict \cup {key} |-> IF k = key THEN value ELSE dict[k]]

Minus(dict, key) == [k \in DOMAIN dict \ {key} |-> dict[k]]

(***************************************************************************)
(* The unread items of a filter are the most recent of its values.         *)
(***************************************************************************)
QueueIsSuffix(f) ==
    LET read == Len(f.values) - Len(f.queue)
    IN  /\ read >= 0
        /\ f.queue = SubSeq(f.values, read + 1, Len(f.values))
=============================================================================

-------------------------- MODULE MockHistory_proofs --------------------------
(***************************************************************************)
(* Theorems about MockBackend and their proofs, for all values of the      *)
(* constants and callers that revert to a snapshot at most once.           *)
(*                                                                         *)
(* The invariant says what the objects on the heap have to do with each    *)
(* other: the current state and every snapshot that was not reverted to    *)
(* have lists and dictionaries of their own, and each of them fits         *)
(* together (Fit).  That the answers pass the outbound checks is shown     *)
(* field by field, with the lemmas of Outbound_proofs.  Filter_proofs is   *)
(* extended for its induction lemma.                                       *)
(***************************************************************************)
EXTENDS MockAnswers, Outbound_proofs, Filter_proofs

BlockType == [number : Nat, time : Nat, fee : Nat, txs : Seq(Transactions)]
SnapshotType == [blocks : Nat, block : Nat, receipts : Nat]
SavedType == [mined : Seq(BlockType), pending : BlockType]

-----------------------------------------------------------------------------
(* Base fees.                                                              *)

(* Half of the block's gas.                                                *)
LEMMA GasTargetType == GasTarget \in Nat /\ GasTarget > 0
BY FeeAssumption DEF GasTarget

(* The gas of a block's transactions.                                      *)
LEMMA GasUsedType ==
    ASSUME NEW b \in BlockType
    PROVE  GasUsed(b) \in Nat
<1>1. Len(b.txs) \in Nat
  BY DEF BlockType
<1> QED
  BY <1>1 DEF GasUsed

(* What a fee may change by: the share of the fee that the gas is of the   *)
(* target, divided by 8.                                                   *)
LEMMA FeeDeltaType ==
    ASSUME NEW b \in BlockType, NEW gas \in Nat
    PROVE  /\ FeeDelta(b, gas) \in Nat
           /\ gas <= GasTarget => 8 * FeeDelta(b, gas) <= b.fee
<1>1. PICK T \in Nat : T = GasTarget /\ T > 0
  BY GasTargetType
<1>2. PICK fee \in Nat : fee = b.fee
  BY DEF BlockType
<1>3. PICK product \in Nat : product = fee * gas
  <2>1. fee * gas \in Nat
    OBVIOUS
  <2> QED
    BY <2>1
<1>4. PICK q \in Nat : q = product \div T /\ q * T <= product
  <2>1. product \div T \in Nat /\ (product \div T) * T <= product
    BY <1>1
  <2> QED
    BY <2>1
<1>5. FeeDelta(b, gas) = q \div 8
  BY <1>1, <1>2, <1>3, <1>4 DEF FeeDelta
<1>6. q \div 8 \in Nat /\ 8 * (q \div 8) <= q
  OBVIOUS
<1>7. ASSUME gas <= T
      PROVE  q <= fee
  <2>1. product <= fee * T
    <3>1. PICK rest \in Nat : T = gas + rest
      <4>1. T - gas \in Nat /\ T = gas + (T - gas)
        BY <1>7
      <4> QED
        BY <4>1
    <3>2. fee * T = fee * gas + fee * rest
      BY <3>1
    <3>3. fee * gas \in Nat /\ fee * rest \in Nat
      OBVIOUS
    <3> QED
      BY <1>3, <3>2, <3>3
  <2>2. SUFFICES ASSUME q >= fee + 1 PROVE FALSE
    OBVIOUS
  <2>3. PICK more \in Nat : q = fee + 1 + more
    <3>1. q - (fee + 1) \in Nat /\ q = fee + 1 + (q - (fee + 1))
      BY <2>2
    <3> QED
      BY <3>1
  <2>4. q * T = fee * T + T + more * T
    BY <2>3
  <2>5. more * T \in Nat /\ fee * T \in Nat /\ q * T \in Nat
    OBVIOUS
  <2> QED
    BY <1>1, <1>4, <2>1, <2>4, <2>5
<1> QED
  BY <1>1, <1>2, <1>5, <1>6, <1>7

(* What EIP-1559 says of the next base fee.                                *)
LEMMA ExpectedFee ==
    ASSUME NEW b \in BlockType
    PROVE  LET fee == _calculate_expected_base_fee_per_gas(b)
           IN  /\ fee \in Nat
               /\ GasUsed(b) = GasTarget => fee = b.fee
               /\ GasUsed(b) > GasTarget => fee > b.fee
               /\ GasUsed(b) < GasTarget => fee <= b.fee
               /\ GasUsed(b) <= 2 * GasTarget =>
                     /\ 8 * fee <= 9 * b.fee + 8
                     /\ 8 * fee >= 7 * b.fee
<1>1. PICK T \in Nat, used \in Nat, old \in Nat :
        T = GasTarget /\ used = GasUsed(b) /\ old = b.fee
  BY GasTargetType, GasUsedType DEF BlockType
<1>2. PICK fee : fee = _calculate_expected_base_fee_per_gas(b)
  OBVIOUS
<1>3. CASE used = T
  <2>1. fee = old
    BY <1>1, <1>2, <1>3 DEF _calculate_expected_base_fee_per_gas
  <2> QED
    BY <1>1, <1>2, <1>3, <2>1
<1>4. CASE used > T
  <2>1. PICK up \in Nat : /\ up = FeeDelta(b, used - T)
                          /\ used - T <= T => 8 * up <= old
    <3>1. used - T \in Nat
      BY <1>4
    <3> QED
      BY <1>1, <3>1, FeeDeltaType
  <2>2. fee = old + (IF up > 1 THEN up ELSE 1)
    BY <1>1, <1>2, <1>4, <2>1 DEF _calculate_expected_base_fee_per_gas
  <2> QED
    BY <1>1, <1>2, <1>4, <2>1, <2>2
<1>5. CASE used < T
  <2>1. PICK down \in Nat : /\ down = FeeDelta(b, T - used)
                            /\ 8 * down <= old
    <3>1. T - used \in Nat /\ T - used <= T
      BY <1>5
    <3> QED
      BY <1>1, <3>1, FeeDeltaType
  <2>2. fee = IF down > old THEN 0 ELSE old - down
    BY <1>1, <1>2, <1>5, <2>1 DEF _calculate_expected_base_fee_per_gas
  <2> QED
    BY <1>1, <1>2, <1>5, <2>1, <2>2
<1> QED
  BY <1>3, <1>4, <1>5

-----------------------------------------------------------------------------
(* Blocks.                                                                 *)

(* The block made from a parent.                                           *)
LEMMA ChildType ==
    ASSUME NEW b \in BlockType
    PROVE  /\ Child(b) \in BlockType
           /\ Child(b).number = b.number + 1
           /\ Child(b).time = b.time + 1
           /\ Child(b).fee = _calculate_expected_base_fee_per_gas(b)
           /\ Child(b).txs = << >>
<1>1. _calculate_expected_base_fee_per_gas(b) \in Nat
  BY ExpectedFee
<1>2. b.number + 1 \in Nat /\ b.time + 1 \in Nat
  BY DEF BlockType
<1>3. << >> \in Seq(Transactions)
  OBVIOUS
<1> QED
  BY <1>1, <1>2, <1>3 DEF Child, Block, BlockType

(* The genesis block.                                                      *)
LEMMA GenesisType ==
    /\ Genesis \in BlockType
    /\ Genesis.number = 0 /\ Genesis.txs = << >>
<1>1. << >> \in Seq(Transactions)
  OBVIOUS
<1> QED
  BY <1>1, FeeAssumption DEF Genesis, Block, BlockType

(* The function that MinedFrom recurs with.                                *)
Descendants(mining, count) ==
    { f \in [1..count -> BlockType] :
        \A k \in 1..count : f[k] = IF k = 1 THEN mining ELSE Child(f[k - 1]) }

(* There is one.                                                           *)
LEMMA DescendantsExist ==
    ASSUME NEW mining \in BlockType, NEW count \in Nat
    PROVE  Descendants(mining, count) # {}
<1> DEFINE T == { m \in 0..count : Descendants(mining, m) # {} }
<1>1. 0 \in T
  <2>1. PICK f : f = [k \in 1..0 |-> mining]
    OBVIOUS
  <2>2. f \in Descendants(mining, 0)
    BY <2>1 DEF Descendants
  <2> QED
    BY <2>2
<1>2. ASSUME NEW m \in 0..(count - 1), m \in T
      PROVE  m + 1 \in T
  <2>1. PICK f : f \in Descendants(mining, m)
    BY <1>2
  <2>2. /\ f \in [1..m -> BlockType]
        /\ \A k \in 1..m : f[k] = IF k = 1 THEN mining ELSE Child(f[k - 1])
    BY <2>1 DEF Descendants
  <2>3. PICK x \in BlockType : x = IF m = 0 THEN mining ELSE Child(f[m])
    <3>1. CASE m = 0
      BY <3>1
    <3>2. CASE m # 0
      <4>1. f[m] \in BlockType
        BY <2>2, <3>2
      <4>2. Child(f[m]) \in BlockType
        BY <4>1, ChildType
      <4> QED
        BY <3>2, <4>2
    <3> QED
      BY <3>1, <3>2
  <2>4. PICK g : g = [k \in 1..(m + 1) |-> IF k = m + 1 THEN x ELSE f[k]]
    OBVIOUS
  <2>5. g \in [1..(m + 1) -> BlockType]
    BY <2>2, <2>4
  <2>6. ASSUME NEW k \in 1..(m + 1)
        PROVE  g[k] = IF k = 1 THEN mining ELSE Child(g[k - 1])
    <3>1. CASE k = m + 1
      <4>1. g[k] = x /\ (k # 1 => g[k - 1] = f[m])
        BY <2>4, <3>1
      <4>2. m = 0 <=> k = 1
        BY <3>1
      <4> QED
        BY <2>3, <4>1, <4>2
    <3>2. CASE k # m + 1
      <4>1. k \in 1..m /\ g[k] = f[k] /\ (k # 1 => g[k - 1] = f[k - 1])
        BY <2>4, <3>2
      <4> QED
        BY <2>2, <4>1
    <3> QED
      BY <3>1, <3>2
  <2>7. g \in Descendants(mining, m + 1)
    BY <2>5, <2>6 DEF Descendants
  <2>8. m + 1 \in 0..count
    OBVIOUS
  <2> QED
    BY <2>7, <2>8
<1>3. count \in T
  <2>1. count \in 0..count
    OBVIOUS
  <2> HIDE DEF T
  <2>2. \A n \in 0..count : n \in T
    BY <1>1, <1>2, UpToInduction
  <2> QED
    BY <2>1, <2>2
<1> QED
  BY <1>3

(* MinedFrom satisfies the equations of its recursion: the first block is  *)
(* the one being mined, and every other one the child of its predecessor.  *)
LEMMA MinedFromIs ==
    ASSUME NEW mining \in BlockType, NEW count \in Nat
    PROVE  /\ MinedFrom(mining, count) \in Seq(BlockType)
           /\ Len(MinedFrom(mining, count)) = count
           /\ count > 0 => MinedFrom(mining, count)[1] = mining
           /\ \A k \in 2..count :
                 MinedFrom(mining, count)[k] = Child(MinedFrom(mining, count)[k - 1])
<1>1. PICK f : f \in Descendants(mining, count)
  BY DescendantsExist
<1>2. f = [k \in 1..count |-> IF k = 1 THEN mining ELSE Child(f[k - 1])]
  BY <1>1 DEF Descendants
<1>3. PICK u : u = MinedFrom(mining, count)
  OBVIOUS
<1>4. u = CHOOSE v : v = [k \in 1..count |->
                            IF k = 1 THEN mining ELSE Child(v[k - 1])]
  BY <1>3 DEF MinedFrom
<1>5. u = [k \in 1..count |-> IF k = 1 THEN mining ELSE Child(u[k - 1])]
  BY <1>2, <1>4
<1>6. DOMAIN u = 1..count
  BY <1>5
<1>7. \A k \in 1..count : u[k] = IF k = 1 THEN mining ELSE Child(u[k - 1])
  BY <1>5
<1> DEFINE T == { n \in 0..count : n # 0 => u[n] \in BlockType }
<1>8. \A n \in 0..count : n \in T
  <2>1. 0 \in T
    OBVIOUS
  <2>2. ASSUME NEW n \in 0..(count - 1), n \in T
        PROVE  n + 1 \in T
    <3>1. n + 1 \in 1..count /\ n + 1 \in 0..count
      OBVIOUS
    <3>2. CASE n = 0
      BY <1>7, <3>1, <3>2
    <3>3. CASE n # 0
      <4>1. u[n] \in BlockType
        BY <2>2, <3>3
      <4>2. u[n + 1] = Child(u[n])
        BY <1>7, <3>1, <3>3
      <4> QED
        BY <3>1, <4>1, <4>2, ChildType
    <3> QED
      BY <3>2, <3>3
  <2> HIDE DEF T
  <2> QED
    BY <2>1, <2>2, UpToInduction
<1>9. \A k \in 1..count : u[k] \in BlockType
  BY <1>8
<1>10. u \in [1..count -> BlockType]
  BY <1>5, <1>6, <1>9
<1>11. u \in Seq(BlockType) /\ Len(u) = count
  BY <1>10
<1>12. count > 0 => u[1] = mining
  BY <1>7
<1>13. \A k \in 2..count : u[k] = Child(u[k - 1])
  BY <1>7
<1> QED
  BY <1>3, <1>11, <1>12, <1>13

-----------------------------------------------------------------------------
(* States that fit together.                                               *)
Follows(parent, b) ==
    /\ b.number = parent.number + 1
    /\ b.time > parent.time
    /\ b.fee = _calculate_expected_base_fee_per_gas(parent)

(* A list of mined blocks, a pending block and the transactions that have  *)
(* a receipt: every block follows the one before it and has the number it  *)
(* is found at, and all transactions have their receipts.                  *)
Fit(mined, pending, found) ==
    /\ Len(mined) > 0 /\ mined[1] = Genesis
    /\ \A n \in 1..Len(mined) : mined[n].number = n - 1
    /\ \A n \in 2..Len(mined) : Follows(mined[n - 1], mined[n])
    /\ Follows(mined[Len(mined)], pending)
    /\ \A n \in 1..Len(mined) : Elements(mined[n].txs) \subseteq found
    /\ Elements(pending.txs) \subseteq found

(* The child of a block follows it and has no transactions.                *)
LEMMA ChildFollows ==
    ASSUME NEW b \in BlockType
    PROVE  Follows(b, Child(b)) /\ Elements(Child(b).txs) = {}
<1>1. b.time \in Nat
  BY DEF BlockType
<1>2. Child(b).time > b.time
  BY <1>1, ChildType
<1>3. Elements(<< >>) = {}
  BY DEF Elements
<1> QED
  BY <1>2, <1>3, ChildType DEF Follows

(* A fresh chain fits.                                                     *)
LEMMA FitGenesis == Fit(<<Genesis>>, Child(Genesis), {})
<1>1. PICK mined : mined = <<Genesis>>
  OBVIOUS
<1>2. Len(mined) = 1 /\ mined[1] = Genesis
  BY <1>1
<1>3. Genesis.number = 0 /\ Elements(Genesis.txs) = {}
  BY GenesisType DEF Elements
<1>4. Follows(Genesis, Child(Genesis)) /\ Elements(Child(Genesis).txs) = {}
  BY GenesisType, ChildFollows
<1>5. Fit(mined, Child(Genesis), {})
  BY <1>2, <1>3, <1>4 DEF Fit
<1> QED
  BY <1>1, <1>5

(* The numbers that mining gives.                                          *)
LEMMA MinedNumbers ==
    ASSUME NEW mining \in BlockType, NEW count \in Nat,
           NEW new \in Seq(BlockType), Len(new) = count,
           count > 0 => new[1] = mining,
           \A k \in 2..count : new[k] = Child(new[k - 1])
    PROVE  \A k \in 1..count : new[k].number = mining.number + k - 1
<1> DEFINE T == { n \in 0..count : n # 0 => new[n].number = mining.number + n - 1 }
<1>1. 0 \in T
  OBVIOUS
<1>2. mining.number \in Nat
  BY DEF BlockType
<1>3. ASSUME NEW n \in 0..(count - 1), n \in T
      PROVE  n + 1 \in T
  <2>1. n + 1 \in 0..count
    OBVIOUS
  <2>2. CASE n = 0
    <3>1. new[n + 1] = mining
      BY <2>1, <2>2
    <3>2. mining.number = mining.number + (n + 1) - 1
      BY <1>2, <2>2
    <3> QED
      BY <2>1, <3>1, <3>2
  <2>3. CASE n # 0
    <3>1. new[n].number = mining.number + n - 1
      BY <1>3, <2>3
    <3>2. n + 1 \in 2..count /\ (n + 1) - 1 = n
      BY <2>3
    <3>3. new[n + 1] = Child(new[n])
      BY <3>2
    <3>4. new[n] \in BlockType
      BY <2>3
    <3>5. new[n + 1].number = (mining.number + n - 1) + 1
      BY <3>1, <3>3, <3>4, ChildType
    <3>6. (mining.number + n - 1) + 1 = mining.number + (n + 1) - 1
      <4>1. PICK m \in Nat : m = mining.number
        BY <1>2
      <4>2. (m + n - 1) + 1 = m + (n + 1) - 1
        OBVIOUS
      <4> QED
        BY <4>1, <4>2
    <3> QED
      BY <2>1, <3>5, <3>6
  <2> QED
    BY <2>2, <2>3
<1>4. \A n \in 0..count : n \in T
  <2> HIDE DEF T
  <2> QED
    BY <1>1, <1>3, UpToInduction
<1> QED
  BY <1>4

(* Mining a block that has the number, the fee and the transactions of the *)
(* pending block, and a time not before its: the longer chain fits.        *)
LEMMA FitMined ==
    ASSUME NEW mined \in Seq(BlockType), NEW pending \in BlockType, NEW found,
           Fit(mined, pending, found),
           NEW mining \in BlockType, mining.number = pending.number,
           mining.fee = pending.fee, mining.txs = pending.txs,
           mining.time >= pending.time,
           NEW count \in Nat \ {0}, NEW new, new = MinedFrom(mining, count)
    PROVE  /\ mined \o new \in Seq(BlockType)
           /\ Child(new[count]) \in BlockType
           /\ Fit(mined \o new, Child(new[count]), found)
<1>1. PICK N \in Nat : N = Len(mined) /\ N > 0
  BY DEF Fit
<1>2. /\ new \in Seq(BlockType) /\ Len(new) = count
      /\ new[1] = mining
      /\ \A k \in 2..count : new[k] = Child(new[k - 1])
  <2>1. MinedFrom(mining, count) \in Seq(BlockType)
    BY MinedFromIs
  <2>2. Len(MinedFrom(mining, count)) = count
    BY MinedFromIs
  <2>3. MinedFrom(mining, count)[1] = mining
    <3>1. count \in Nat /\ count > 0
      OBVIOUS
    <3> QED
      BY <3>1, MinedFromIs
  <2>4. \A k \in 2..count :
          MinedFrom(mining, count)[k] = Child(MinedFrom(mining, count)[k - 1])
    BY MinedFromIs
  <2> QED
    BY <2>1, <2>2, <2>3, <2>4
<1>3. PICK all : all = mined \o new
  OBVIOUS
<1>4. /\ all \in Seq(BlockType) /\ Len(all) = N + count
      /\ \A n \in 1..N : all[n] = mined[n]
      /\ \A k \in 1..count : all[N + k] = new[k]
  <2>1. all \in Seq(BlockType)
    BY <1>2, <1>3
  <2>2. Len(all) = N + count
    <3>1. new \in Seq(BlockType)
      BY <1>2
    <3>2. Len(mined \o new) = Len(mined) + Len(new)
      BY <3>1
    <3> QED
      BY <1>1, <1>2, <1>3, <3>2
  <2>3. \A n \in 1..N : all[n] = mined[n]
    BY <1>1, <1>2, <1>3
  <2>4. ASSUME NEW k \in 1..count
        PROVE  all[N + k] = new[k]
    <3>1. N + k \in (Len(mined) + 1)..(Len(mined) + Len(new))
      BY <1>1, <1>2
    <3> QED
      BY <1>1, <1>2, <1>3, <3>1
  <2> QED
    BY <2>1, <2>2, <2>3, <2>4
<1>5. PICK last \in BlockType : last = new[count]
  <2>1. count \in 1..Len(new)
    BY <1>2
  <2> QED
    BY <1>2, <2>1
<1>6. Child(last) \in BlockType
  BY ChildType
<1>7. \A k \in 1..count : new[k] \in BlockType
  BY <1>2
<1>8. Follows(mined[N], pending)
  BY <1>1 DEF Fit
<1>9. pending.number = N
  <2>1. mined[N].number = N - 1
    BY <1>1 DEF Fit
  <2> QED
    BY <1>1, <1>8, <2>1 DEF Follows
<1>10. ASSUME NEW n \in 1..(N + count)
       PROVE  n \in 1..N \/ \E k \in 1..count : n = N + k
  <2>1. CASE n > N
    <3>1. n - N \in 1..count /\ n = N + (n - N)
      BY <2>1
    <3> QED
      BY <3>1
  <2> QED
    BY <2>1
<1>11. Len(all) > 0 /\ all[1] = Genesis
  <2>1. 1 \in 1..N /\ mined[1] = Genesis
    BY <1>1 DEF Fit
  <2> QED
    BY <1>1, <1>4, <2>1
<1>12. ASSUME NEW n \in 1..Len(all)
       PROVE  all[n].number = n - 1
  <2>1. CASE n \in 1..N
    BY <1>1, <1>4, <2>1 DEF Fit
  <2>2. ASSUME NEW k \in 1..count, n = N + k
        PROVE  all[n].number = n - 1
    <3>1. \A i \in 1..count : new[i].number = mining.number + i - 1
      BY <1>2, MinedNumbers
    <3>2. all[n].number = N + k - 1
      BY <1>4, <1>9, <2>2, <3>1
    <3> QED
      BY <2>2, <3>2
  <2> QED
    BY <1>4, <1>10, <2>1, <2>2
<1>13. Follows(mined[N], mining)
  <2>1. mined[N].time \in Nat /\ mining.time \in Nat /\ pending.time \in Nat
    <3>1. mined[N] \in BlockType
      BY <1>1
    <3> QED
      BY <3>1 DEF BlockType
  <2> QED
    BY <1>8, <2>1 DEF Follows
<1>14. ASSUME NEW n \in 2..Len(all)
       PROVE  Follows(all[n - 1], all[n])
  <2>1. CASE n \in 1..N
    <3>1. n - 1 \in 1..N /\ n \in 2..Len(mined)
      BY <1>1, <2>1
    <3>2. Follows(mined[n - 1], mined[n])
      BY <3>1 DEF Fit
    <3> QED
      BY <1>4, <2>1, <3>1, <3>2
  <2>2. ASSUME NEW k \in 1..count, n = N + k
        PROVE  Follows(all[n - 1], all[n])
    <3>1. CASE k = 1
      <4>1. n - 1 = N /\ N \in 1..N
        BY <1>1, <2>2, <3>1
      <4>2. all[n - 1] = mined[N] /\ all[n] = mining
        BY <1>2, <1>4, <2>2, <3>1, <4>1
      <4> QED
        BY <1>13, <4>2
    <3>2. CASE k # 1
      <4>1. k - 1 \in 1..count /\ k \in 2..count /\ n - 1 = N + (k - 1)
        BY <2>2, <3>2
      <4>2. all[n - 1] = new[k - 1] /\ all[n] = Child(new[k - 1])
        BY <1>2, <1>4, <2>2, <4>1
      <4>3. new[k - 1] \in BlockType
        BY <1>7, <4>1
      <4> QED
        BY <4>2, <4>3, ChildFollows
    <3> QED
      BY <3>1, <3>2
  <2> QED
    BY <1>4, <1>10, <2>1, <2>2
<1>15. Follows(all[Len(all)], Child(last))
  <2>1. all[Len(all)] = last
    BY <1>4, <1>5
  <2> QED
    BY <2>1, ChildFollows
<1>16. ASSUME NEW n \in 1..Len(all)
       PROVE  Elements(all[n].txs) \subseteq found
  <2>1. CASE n \in 1..N
    BY <1>1, <1>4, <2>1 DEF Fit
  <2>2. ASSUME NEW k \in 1..count, n = N + k
        PROVE  Elements(all[n].txs) \subseteq found
    <3>1. CASE k = 1
      <4>1. all[n] = mining
        BY <1>2, <1>4, <2>2, <3>1
      <4> QED
        BY <4>1 DEF Fit
    <3>2. CASE k # 1
      <4>1. k - 1 \in 1..count /\ k \in 2..count
        BY <3>2
      <4>2. all[n] = Child(new[k - 1])
        BY <1>2, <1>4, <2>2, <4>1
      <4>3. new[k - 1] \in BlockType
        BY <1>7, <4>1
      <4> QED
        BY <4>2, <4>3, ChildFollows
    <3> QED
      BY <3>1, <3>2
  <2> QED
    BY <1>4, <1>10, <2>1, <2>2
<1>17. Elements(Child(last).txs) \subseteq found
  BY ChildFollows
<1>18. Fit(all, Child(last), found)
  BY <1>11, <1>12, <1>14, <1>15, <1>16, <1>17 DEF Fit
<1> QED
  BY <1>3, <1>4, <1>5, <1>6, <1>18

(* Sending a transaction gives it its receipt.                             *)
LEMMA FitSent ==
    ASSUME NEW mined \in Seq(BlockType), NEW pending \in BlockType, NEW found,
           Fit(mined, pending, found), NEW tx \in Transactions
    PROVE  /\ [pending EXCEPT !.txs = Append(@, tx)] \in BlockType
           /\ Fit(mined, [pending EXCEPT !.txs = Append(@, tx)], found \cup {tx})
<1>1. PICK sent : sent = [pending EXCEPT !.txs = Append(@, tx)]
  OBVIOUS
<1>2. PICK txs \in Seq(Transactions) : txs = pending.txs
  BY DEF BlockType
<1>3. /\ sent.number = pending.number /\ sent.time = pending.time
      /\ sent.fee = pending.fee /\ sent.txs = Append(txs, tx)
      /\ sent \in BlockType
  <2>1. PICK more \in Seq(Transactions) : more = Append(txs, tx)
    <3>1. Append(txs, tx) \in Seq(Transactions)
      OBVIOUS
    <3> QED
      BY <3>1
  <2>2. sent = [pending EXCEPT !.txs = more]
    BY <1>1, <1>2, <2>1
  <2> QED
    BY <2>1, <2>2 DEF BlockType
<1>4. Elements(Append(txs, tx)) \subseteq Elements(txs) \cup {tx}
  BY DEF Elements
<1>5. Elements(txs) \subseteq found
  BY <1>2 DEF Fit
<1>6. Follows(mined[Len(mined)], sent)
  BY <1>3 DEF Fit, Follows
<1>7. Elements(sent.txs) \subseteq found \cup {tx}
  BY <1>3, <1>4, <1>5
<1>8. Fit(mined, sent, found \cup {tx})
  BY <1>6, <1>7 DEF Fit
<1> QED
  BY <1>1, <1>3, <1>8

-----------------------------------------------------------------------------
(* The heap.                                                               *)
HeapTypeOK ==
    /\ lists \in Seq(Seq(BlockType))
    /\ dicts \in Seq(BlockType)
    /\ maps \in Seq(SUBSET Transactions)
    /\ snapshots \in Seq(SnapshotType)
    /\ saved \in Seq(SavedType) /\ Len(saved) = Len(snapshots)
    /\ reverted \subseteq 1..Len(snapshots)
    /\ blocks \in 1..Len(lists)
    /\ block \in 1..Len(dicts)
    /\ receipts \in 1..Len(maps)
    /\ \A s \in 1..Len(snapshots) :
          /\ snapshots[s].blocks \in 1..Len(lists)
          /\ snapshots[s].block \in 1..Len(dicts)
          /\ snapshots[s].receipts \in 1..Len(maps)

(* The snapshots that may still be reverted to.                            *)
Unused == { s \in 1..Len(snapshots) : s \notin reverted }

Apart(one, other) ==
    /\ one.blocks # other.blocks
    /\ one.block # other.block
    /\ one.receipts # other.receipts

CurrentState == [blocks |-> blocks, block |-> block, receipts |-> receipts]

(* They share no object with the current state or with another snapshot,   *)
OwnObjects ==
    \A s \in Unused :
        /\ Apart(snapshots[s], CurrentState)
        /\ \A t \in 1..Len(snapshots) : t # s => Apart(snapshots[s], snapshots[t])

(* so they are as they were taken,                                         *)
SnapshotsKept ==
    \A s \in Unused :
        /\ lists[snapshots[s].blocks] = saved[s].mined
        /\ dicts[snapshots[s].block] = saved[s].pending
        /\ Fit(saved[s].mined, saved[s].pending, maps[snapshots[s].receipts])

(* and the current state fits together.                                    *)
CurrentFits == Fit(MinedBlocks, PendingBlock, Receipts)

HistoryInv == HeapTypeOK /\ OwnObjects /\ SnapshotsKept /\ CurrentFits

(* A sequence with one item replaced, or one added.                        *)
LEMMA ReplacedItem ==
    ASSUME NEW S, NEW s \in Seq(S), NEW i \in 1..Len(s), NEW x \in S
    PROVE  /\ [s EXCEPT ![i] = x] \in Seq(S)
           /\ Len([s EXCEPT ![i] = x]) = Len(s)
           /\ [s EXCEPT ![i] = x][i] = x
           /\ \A j \in 1..Len(s) : j # i => [s EXCEPT ![i] = x][j] = s[j]
OBVIOUS

LEMMA AppendedItem ==
    ASSUME NEW S, NEW s \in Seq(S), NEW x \in S
    PROVE  /\ Append(s, x) \in Seq(S)
           /\ Len(Append(s, x)) = Len(s) + 1
           /\ Append(s, x)[Len(s) + 1] = x
           /\ \A j \in 1..Len(s) : Append(s, x)[j] = s[j]
OBVIOUS

(* What the heap holds of the current state.                               *)
LEMMA CurrentTyped ==
    ASSUME HeapTypeOK
    PROVE  /\ MinedBlocks \in Seq(BlockType) /\ PendingBlock \in BlockType
           /\ Receipts \in SUBSET Transactions
BY DEF HeapTypeOK, MinedBlocks, PendingBlock, Receipts

(* The objects of a new backend.                                           *)
LEMMA FreshHeap ==
    /\ << <<Genesis>> >> \in Seq(Seq(BlockType)) /\ Len(<< <<Genesis>> >>) = 1
    /\ << Child(Genesis) >> \in Seq(BlockType) /\ Len(<< Child(Genesis) >>) = 1
    /\ << {} >> \in Seq(SUBSET Transactions) /\ Len(<< {} >>) = 1
    /\ << >> \in Seq(SnapshotType) /\ << >> \in Seq(SavedType) /\ Len(<< >>) = 0
    /\ Fit(<< <<Genesis>> >>[1], << Child(Genesis) >>[1], << {} >>[1])
<1>1. <<Genesis>> \in Seq(BlockType) /\ Child(Genesis) \in BlockType
  BY GenesisType, ChildType
<1>2. << <<Genesis>> >> \in Seq(Seq(BlockType)) /\ << Child(Genesis) >> \in Seq(BlockType)
  BY <1>1
<1>3. << {} >> \in Seq(SUBSET Transactions)
  OBVIOUS
<1>4. << >> \in Seq(SnapshotType) /\ << >> \in Seq(SavedType)
  OBVIOUS
<1>5. Fit(<< <<Genesis>> >>[1], << Child(Genesis) >>[1], << {} >>[1])
  BY FitGenesis
<1> QED
  BY <1>2, <1>3, <1>4, <1>5

(* A new backend satisfies the invariant,                                  *)
LEMMA InitInv == HInit => HistoryInv
<1> SUFFICES ASSUME HInit PROVE HistoryInv
  OBVIOUS
<1>1. /\ lists = << <<Genesis>> >> /\ blocks = 1
      /\ dicts = << Child(Genesis) >> /\ block = 1
      /\ maps = << {} >> /\ receipts = 1
      /\ snapshots = << >> /\ saved = << >> /\ reverted = {}
  BY DEF HInit, Init
<1>2. HeapTypeOK
  BY <1>1, FreshHeap DEF HeapTypeOK
<1>3. Unused = {}
  BY <1>1 DEF Unused
<1>4. CurrentFits
  BY <1>1, FreshHeap DEF CurrentFits, MinedBlocks, PendingBlock, Receipts
<1> QED
  BY <1>2, <1>3, <1>4 DEF HistoryInv, OwnObjects, SnapshotsKept

(* and so does one that was reset.                                         *)
LEMMA ResetInv == HResetToGenesis => HistoryInv'
<1> SUFFICES ASSUME HResetToGenesis PROVE HistoryInv'
  OBVIOUS
<1>1. /\ lists' = << <<Genesis>> >> /\ blocks' = 1
      /\ dicts' = << Child(Genesis) >> /\ block' = 1
      /\ maps' = << {} >> /\ receipts' = 1
      /\ snapshots' = << >> /\ saved' = << >> /\ reverted' = {}
  BY DEF HResetToGenesis, ResetToGenesis
<1>2. HeapTypeOK'
  BY <1>1, FreshHeap DEF HeapTypeOK
<1>3. Unused' = {}
  BY <1>1 DEF Unused
<1>4. CurrentFits'
  BY <1>1, FreshHeap DEF CurrentFits, MinedBlocks, PendingBlock, Receipts
<1> QED
  BY <1>2, <1>3, <1>4 DEF HistoryInv, OwnObjects, SnapshotsKept

(* Mining changes the objects of the current state only, and makes a new   *)
(* pending block.                                                          *)
LEMMA MineKeepsInv ==
    ASSUME HistoryInv, UNCHANGED historyVars,
           NEW mining \in BlockType, mining.number = PendingBlock.number,
           mining.fee = PendingBlock.fee, mining.txs = PendingBlock.txs,
           mining.time >= PendingBlock.time,
           NEW count \in Nat, MineOn(mining, count)
    PROVE  HistoryInv'
<1> USE DEF historyVars
<1>1. PICK new : new = MinedFrom(mining, count)
  OBVIOUS
<1>2. UNCHANGED <<blocks, receipts, maps, snapshots, saved, reverted>>
  BY DEF MineOn
<1>3. /\ lists \in Seq(Seq(BlockType)) /\ dicts \in Seq(BlockType)
      /\ blocks \in 1..Len(lists) /\ block \in 1..Len(dicts)
  BY DEF HistoryInv, HeapTypeOK
<1>4. MinedBlocks \in Seq(BlockType) /\ PendingBlock \in BlockType
  BY CurrentTyped DEF HistoryInv
<1>5. PICK mined \in Seq(BlockType) : mined = lists[blocks]
  BY <1>4 DEF MinedBlocks
<1>6. lists' = [lists EXCEPT ![blocks] = mined \o new]
  BY <1>1, <1>5 DEF MineOn
<1>7. CASE count = 0
  <2>1. new \in Seq(BlockType)
    BY <1>1, MinedFromIs
  <2>2. Len(new) = 0
    BY <1>1, <1>7, MinedFromIs
  <2>3. new = << >>
    BY <2>1, <2>2
  <2>4. mined \o new = mined
    BY <2>3
  <2>5. lists' = lists
    BY <1>3, <1>5, <1>6, <2>4
  <2>6. UNCHANGED <<dicts, block>>
    BY <1>7 DEF MineOn
  <2> QED
    BY <1>2, <2>5, <2>6
       DEF HistoryInv, HeapTypeOK, OwnObjects, SnapshotsKept, CurrentFits,
           Unused, CurrentState, MinedBlocks, PendingBlock, Receipts
<1>8. CASE count # 0
  <2>1. count \in Nat \ {0}
    BY <1>8
  <2>2. Fit(mined, PendingBlock, Receipts)
    BY <1>5 DEF HistoryInv, CurrentFits, MinedBlocks
  <2>3. /\ mined \o new \in Seq(BlockType)
        /\ Child(new[count]) \in BlockType
        /\ Fit(mined \o new, Child(new[count]), Receipts)
    BY <1>1, <1>4, <2>1, <2>2, FitMined
  <2>4. PICK longer \in Seq(BlockType), child \in BlockType :
          longer = mined \o new /\ child = Child(new[count])
    BY <2>3
  <2>5. /\ lists' \in Seq(Seq(BlockType)) /\ Len(lists') = Len(lists)
        /\ lists'[blocks] = longer
        /\ \A i \in 1..Len(lists) : i # blocks => lists'[i] = lists[i]
    BY <1>3, <1>6, <2>4, ReplacedItem
  <2>6. PICK middle : middle = [dicts EXCEPT ![block] = mining]
    OBVIOUS
  <2>7. /\ middle \in Seq(BlockType) /\ Len(middle) = Len(dicts)
        /\ \A i \in 1..Len(dicts) : i # block => middle[i] = dicts[i]
    BY <1>3, <2>6, ReplacedItem
  <2>8. dicts' = Append(middle, child) /\ block' = Len(dicts) + 1
    BY <1>1, <1>8, <2>4, <2>6 DEF MineOn
  <2>9. /\ dicts' \in Seq(BlockType) /\ Len(dicts') = Len(dicts) + 1
        /\ dicts'[Len(dicts) + 1] = child
        /\ \A i \in 1..Len(dicts) : i # block => dicts'[i] = dicts[i]
    BY <2>7, <2>8, AppendedItem
  <2>10. Len(dicts) \in Nat
    BY <1>3
  <2>11. HeapTypeOK'
    <3>1. blocks' \in 1..Len(lists')
      BY <1>2, <1>3, <2>5
    <3>2. block' \in 1..Len(dicts')
      BY <2>8, <2>9, <2>10
    <3>3. ASSUME NEW s \in 1..Len(snapshots)
          PROVE  /\ snapshots[s].blocks \in 1..Len(lists')
                 /\ snapshots[s].block \in 1..Len(dicts')
                 /\ snapshots[s].receipts \in 1..Len(maps)
      <4>1. PICK i \in 1..Len(lists), j \in 1..Len(dicts) :
              i = snapshots[s].blocks /\ j = snapshots[s].block
        BY DEF HistoryInv, HeapTypeOK
      <4>2. i \in 1..Len(lists')
        BY <2>5
      <4>3. j \in 1..Len(dicts')
        BY <2>9, <2>10
      <4>4. snapshots[s].receipts \in 1..Len(maps)
        BY DEF HistoryInv, HeapTypeOK
      <4> QED
        BY <4>1, <4>2, <4>3, <4>4
    <3>4. /\ maps \in Seq(SUBSET Transactions) /\ snapshots \in Seq(SnapshotType)
          /\ saved \in Seq(SavedType) /\ Len(saved) = Len(snapshots)
          /\ receipts \in 1..Len(maps)
          /\ reverted \subseteq 1..Len(snapshots)
      BY DEF HistoryInv, HeapTypeOK
    <3> QED
      BY <1>2, <2>5, <2>9, <3>1, <3>2, <3>3, <3>4 DEF HeapTypeOK
  <2>12. Unused' = Unused
    BY <1>2 DEF Unused
  <2>13. ASSUME NEW s \in Unused
         PROVE  /\ snapshots[s].blocks \in 1..Len(lists) /\ snapshots[s].blocks # blocks
                /\ snapshots[s].block \in 1..Len(dicts) /\ snapshots[s].block # block
                /\ snapshots[s].receipts # receipts
    BY DEF HistoryInv, HeapTypeOK, Unused, OwnObjects, Apart, CurrentState
  <2>14. ASSUME NEW s \in Unused
         PROVE  /\ lists'[snapshots[s].blocks] = lists[snapshots[s].blocks]
                /\ dicts'[snapshots[s].block] = dicts[snapshots[s].block]
                /\ snapshots[s].block # block'
    <3>1. PICK i \in 1..Len(lists), j \in 1..Len(dicts) :
            /\ i = snapshots[s].blocks /\ i # blocks
            /\ j = snapshots[s].block /\ j # block
      BY <2>13
    <3>2. lists'[i] = lists[i]
      BY <2>5, <3>1
    <3>3. dicts'[j] = dicts[j]
      BY <2>9, <3>1
    <3>4. j # block'
      BY <2>8, <2>10
    <3> QED
      BY <3>1, <3>2, <3>3, <3>4
  <2>15. OwnObjects'
    BY <1>2, <2>12, <2>13, <2>14 DEF HistoryInv, OwnObjects, Apart, CurrentState
  <2>16. SnapshotsKept'
    BY <1>2, <2>12, <2>14 DEF HistoryInv, SnapshotsKept
  <2>17. CurrentFits'
    BY <1>2, <2>3, <2>4, <2>5, <2>8, <2>9
       DEF CurrentFits, MinedBlocks, PendingBlock, Receipts
  <2> QED
    BY <2>11, <2>15, <2>16, <2>17 DEF HistoryInv
<1> QED
  BY <1>7, <1>8

(* Sending changes the pending block and the receipts in place.            *)
LEMMA SendKeepsInv ==
    ASSUME HistoryInv, UNCHANGED historyVars,
           NEW tx \in Transactions, SendTransaction(tx)
    PROVE  HistoryInv'
<1>1. UNCHANGED <<blocks, block, receipts, lists, snapshots, saved, reverted>>
  BY DEF SendTransaction, stateVars, historyVars
<1>2. /\ dicts \in Seq(BlockType) /\ block \in 1..Len(dicts)
      /\ maps \in Seq(SUBSET Transactions) /\ receipts \in 1..Len(maps)
  BY DEF HistoryInv, HeapTypeOK
<1>3. /\ MinedBlocks \in Seq(BlockType) /\ PendingBlock \in BlockType
      /\ Receipts \in SUBSET Transactions
  BY CurrentTyped DEF HistoryInv
<1>4. PICK sent : sent = [PendingBlock EXCEPT !.txs = Append(@, tx)]
  OBVIOUS
<1>5. PICK found \in SUBSET Transactions : found = Receipts \cup {tx}
  BY <1>3
<1>6. /\ sent \in BlockType
      /\ Fit(MinedBlocks, sent, found)
  <2>1. Fit(MinedBlocks, PendingBlock, Receipts)
    BY DEF HistoryInv, CurrentFits
  <2>2. [PendingBlock EXCEPT !.txs = Append(@, tx)] \in BlockType
    BY <1>3, <2>1, FitSent
  <2>3. Fit(MinedBlocks, [PendingBlock EXCEPT !.txs = Append(@, tx)],
            Receipts \cup {tx})
    BY <1>3, <2>1, FitSent
  <2> QED
    BY <1>4, <1>5, <2>2, <2>3
<1>7. dicts' = [dicts EXCEPT ![block] = sent]
  BY <1>4 DEF SendTransaction, PendingBlock
<1>8. maps' = [maps EXCEPT ![receipts] = found]
  BY <1>5 DEF SendTransaction, Receipts
<1>9. /\ dicts' \in Seq(BlockType) /\ Len(dicts') = Len(dicts)
      /\ dicts'[block] = sent
      /\ \A j \in 1..Len(dicts) : j # block => dicts'[j] = dicts[j]
  BY <1>2, <1>6, <1>7, ReplacedItem
<1>10. /\ maps' \in Seq(SUBSET Transactions) /\ Len(maps') = Len(maps)
       /\ maps'[receipts] = found
       /\ \A j \in 1..Len(maps) : j # receipts => maps'[j] = maps[j]
  BY <1>2, <1>8, ReplacedItem
<1>11. HeapTypeOK'
  BY <1>1, <1>9, <1>10 DEF HistoryInv, HeapTypeOK
<1>12. Unused' = Unused
  BY <1>1 DEF Unused
<1>13. OwnObjects'
  BY <1>1, <1>12 DEF HistoryInv, OwnObjects, Apart, CurrentState
<1>14. ASSUME NEW s \in Unused
       PROVE  /\ dicts'[snapshots[s].block] = dicts[snapshots[s].block]
              /\ maps'[snapshots[s].receipts] = maps[snapshots[s].receipts]
  <2>1. PICK j \in 1..Len(dicts), m \in 1..Len(maps) :
          /\ j = snapshots[s].block /\ j # block
          /\ m = snapshots[s].receipts /\ m # receipts
    BY DEF HistoryInv, HeapTypeOK, Unused, OwnObjects, Apart, CurrentState
  <2> QED
    BY <1>9, <1>10, <2>1
<1>15. SnapshotsKept'
  BY <1>1, <1>12, <1>14 DEF HistoryInv, SnapshotsKept
<1>16. CurrentFits'
  BY <1>1, <1>5, <1>6, <1>9, <1>10
     DEF CurrentFits, MinedBlocks, PendingBlock, Receipts
<1> QED
  BY <1>11, <1>13, <1>15, <1>16 DEF HistoryInv

(* A snapshot is a copy of everything.                                     *)
LEMMA SnapshotKeepsInv ==
    ASSUME HistoryInv, HTakeSnapshot
    PROVE  HistoryInv'
<1>1. UNCHANGED <<blocks, block, receipts, reverted>>
  BY DEF HTakeSnapshot, TakeSnapshot, stateVars
<1>2. HeapTypeOK
  BY DEF HistoryInv
<1>3. /\ MinedBlocks \in Seq(BlockType) /\ PendingBlock \in BlockType
      /\ Receipts \in SUBSET Transactions
  BY <1>2, CurrentTyped
<1>4. PICK l \in Nat, d \in Nat, m \in Nat, n \in Nat :
        /\ l = Len(lists) /\ d = Len(dicts) /\ m = Len(maps)
        /\ n = Len(snapshots) /\ n = Len(saved)
  <2>1. Len(lists) \in Nat /\ Len(dicts) \in Nat /\ Len(maps) \in Nat
    BY <1>2 DEF HeapTypeOK
  <2>2. Len(snapshots) \in Nat /\ Len(saved) = Len(snapshots)
    BY <1>2 DEF HeapTypeOK
  <2> QED
    BY <2>1, <2>2
<1>5. PICK new \in SnapshotType :
        new = [blocks |-> l + 1, block |-> d + 1, receipts |-> m + 1]
  <2>1. [blocks |-> l + 1, block |-> d + 1, receipts |-> m + 1] \in SnapshotType
    BY DEF SnapshotType
  <2> QED
    BY <2>1
<1>6. PICK was \in SavedType : was = [mined |-> MinedBlocks, pending |-> PendingBlock]
  <2>1. [mined |-> MinedBlocks, pending |-> PendingBlock] \in SavedType
    BY <1>3 DEF SavedType
  <2> QED
    BY <2>1
<1>7. /\ lists' = Append(lists, MinedBlocks)
      /\ dicts' = Append(dicts, PendingBlock)
      /\ maps' = Append(maps, Receipts)
      /\ snapshots' = Append(snapshots, new)
      /\ saved' = Append(saved, was)
  BY <1>4, <1>5, <1>6 DEF HTakeSnapshot, TakeSnapshot
<1>8. /\ lists' \in Seq(Seq(BlockType)) /\ Len(lists') = l + 1
      /\ lists'[l + 1] = MinedBlocks
      /\ \A i \in 1..l : lists'[i] = lists[i]
  BY <1>2, <1>3, <1>4, <1>7, AppendedItem DEF HeapTypeOK
<1>9. /\ dicts' \in Seq(BlockType) /\ Len(dicts') = d + 1
      /\ dicts'[d + 1] = PendingBlock
      /\ \A i \in 1..d : dicts'[i] = dicts[i]
  BY <1>2, <1>3, <1>4, <1>7, AppendedItem DEF HeapTypeOK
<1>10. /\ maps' \in Seq(SUBSET Transactions) /\ Len(maps') = m + 1
       /\ maps'[m + 1] = Receipts
       /\ \A i \in 1..m : maps'[i] = maps[i]
  BY <1>2, <1>3, <1>4, <1>7, AppendedItem DEF HeapTypeOK
<1>11. /\ snapshots' \in Seq(SnapshotType) /\ Len(snapshots') = n + 1
       /\ snapshots'[n + 1] = new
       /\ \A i \in 1..n : snapshots'[i] = snapshots[i]
  BY <1>2, <1>4, <1>7, AppendedItem DEF HeapTypeOK
<1>12. /\ saved' \in Seq(SavedType) /\ Len(saved') = n + 1
       /\ saved'[n + 1] = was
       /\ \A i \in 1..n : saved'[i] = saved[i]
  BY <1>2, <1>4, <1>7, AppendedItem DEF HeapTypeOK
<1>13. blocks \in 1..l /\ block \in 1..d /\ receipts \in 1..m
  BY <1>2, <1>4 DEF HeapTypeOK
<1>14. ASSUME NEW s \in 1..n
       PROVE  /\ snapshots[s].blocks \in 1..l
              /\ snapshots[s].block \in 1..d
              /\ snapshots[s].receipts \in 1..m
  BY <1>2, <1>4 DEF HeapTypeOK
<1>15. new.blocks = l + 1 /\ new.block = d + 1 /\ new.receipts = m + 1
  BY <1>5
<1>16. reverted \subseteq 1..n
  BY <1>2, <1>4 DEF HeapTypeOK
<1>17. HeapTypeOK'
  <2>1. ASSUME NEW s \in 1..(n + 1)
        PROVE  /\ snapshots'[s].blocks \in 1..(l + 1)
               /\ snapshots'[s].block \in 1..(d + 1)
               /\ snapshots'[s].receipts \in 1..(m + 1)
    <3>1. CASE s = n + 1
      BY <1>11, <1>15, <3>1
    <3>2. CASE s # n + 1
      <4>1. s \in 1..n
        BY <3>2
      <4>2. PICK i \in 1..l, j \in 1..d, k \in 1..m :
              i = snapshots[s].blocks /\ j = snapshots[s].block
              /\ k = snapshots[s].receipts
        BY <1>14, <4>1
      <4> QED
        BY <1>11, <4>1, <4>2
    <3> QED
      BY <3>1, <3>2
  <2>2. blocks' \in 1..(l + 1) /\ block' \in 1..(d + 1) /\ receipts' \in 1..(m + 1)
    BY <1>1, <1>13
  <2>3. reverted' \subseteq 1..(n + 1)
    BY <1>1, <1>16
  <2> QED
    BY <1>8, <1>9, <1>10, <1>11, <1>12, <2>1, <2>2, <2>3 DEF HeapTypeOK
<1>18. Unused' = Unused \cup {n + 1}
  <2>1. n + 1 \notin reverted
    BY <1>16
  <2> QED
    BY <1>1, <1>4, <1>11, <2>1 DEF Unused
<1>19. \A s \in Unused : s \in 1..n
  BY <1>4 DEF Unused
<1>20. ASSUME NEW s \in 1..n
       PROVE  Apart(snapshots[s], new) /\ Apart(new, snapshots[s])
  <2>1. PICK i \in 1..l, j \in 1..d, k \in 1..m :
          i = snapshots[s].blocks /\ j = snapshots[s].block
          /\ k = snapshots[s].receipts
    BY <1>14
  <2>2. i # l + 1 /\ j # d + 1 /\ k # m + 1
    OBVIOUS
  <2> QED
    BY <1>15, <2>1, <2>2 DEF Apart
<1>21. Apart(new, CurrentState)
  <2>1. blocks # l + 1 /\ block # d + 1 /\ receipts # m + 1
    BY <1>13
  <2> QED
    BY <1>15, <2>1 DEF Apart, CurrentState
<1>22. CurrentState' = CurrentState
  BY <1>1 DEF CurrentState
<1>23. OwnObjects'
  <2>1. ASSUME NEW s \in Unused'
        PROVE  /\ Apart(snapshots'[s], CurrentState)
               /\ \A t \in 1..(n + 1) : t # s => Apart(snapshots'[s], snapshots'[t])
    <3>1. CASE s = n + 1
      <4>1. ASSUME NEW t \in 1..(n + 1), t # s
            PROVE  Apart(new, snapshots'[t])
        <5>1. t \in 1..n
          BY <3>1, <4>1
        <5> QED
          BY <1>11, <1>20, <5>1
      <4> QED
        BY <1>11, <1>21, <3>1, <4>1
    <3>2. CASE s \in Unused
      <4>1. s \in 1..n /\ snapshots'[s] = snapshots[s]
        BY <1>11, <1>19, <3>2
      <4>2. ASSUME NEW t \in 1..(n + 1), t # s
            PROVE  Apart(snapshots[s], snapshots'[t])
        <5>1. CASE t = n + 1
          BY <1>11, <1>20, <4>1, <5>1
        <5>2. CASE t # n + 1
          <6>1. t \in 1..n
            BY <5>2
          <6>2. Apart(snapshots[s], snapshots[t])
            BY <1>4, <3>2, <4>2, <6>1 DEF HistoryInv, OwnObjects
          <6> QED
            BY <1>11, <6>1, <6>2
        <5> QED
          BY <5>1, <5>2
      <4>3. Apart(snapshots[s], CurrentState)
        BY <3>2 DEF HistoryInv, OwnObjects
      <4> QED
        BY <4>1, <4>2, <4>3
    <3> QED
      BY <1>18, <3>1, <3>2
  <2> QED
    BY <1>11, <1>22, <2>1 DEF OwnObjects
<1>24. SnapshotsKept'
  <2>1. ASSUME NEW s \in Unused'
        PROVE  /\ lists'[snapshots'[s].blocks] = saved'[s].mined
               /\ dicts'[snapshots'[s].block] = saved'[s].pending
               /\ Fit(saved'[s].mined, saved'[s].pending,
                      maps'[snapshots'[s].receipts])
    <3>1. CASE s = n + 1
      <4>1. was.mined = MinedBlocks /\ was.pending = PendingBlock
        BY <1>6
      <4>2. Fit(MinedBlocks, PendingBlock, Receipts)
        BY DEF HistoryInv, CurrentFits
      <4>3. saved'[s] = was /\ snapshots'[s] = new
        BY <1>11, <1>12, <3>1
      <4> QED
        BY <1>8, <1>9, <1>10, <1>15, <4>1, <4>2, <4>3
    <3>2. CASE s \in Unused
      <4>1. s \in 1..n /\ snapshots'[s] = snapshots[s] /\ saved'[s] = saved[s]
        BY <1>11, <1>12, <1>19, <3>2
      <4>2. PICK i \in 1..l, j \in 1..d, k \in 1..m :
              i = snapshots[s].blocks /\ j = snapshots[s].block
              /\ k = snapshots[s].receipts
        BY <1>14, <4>1
      <4>3. lists'[i] = lists[i] /\ dicts'[j] = dicts[j] /\ maps'[k] = maps[k]
        BY <1>8, <1>9, <1>10
      <4>4. /\ lists[i] = saved[s].mined
            /\ dicts[j] = saved[s].pending
            /\ Fit(saved[s].mined, saved[s].pending, maps[k])
        BY <3>2, <4>2 DEF HistoryInv, SnapshotsKept
      <4> QED
        BY <4>1, <4>2, <4>3, <4>4
    <3> QED
      BY <1>18, <3>1, <3>2
  <2> QED
    BY <2>1 DEF SnapshotsKept
<1>25. CurrentFits'
  <2>1. lists'[blocks'] = lists[blocks] /\ dicts'[block'] = dicts[block]
        /\ maps'[receipts'] = maps[receipts]
    BY <1>1, <1>8, <1>9, <1>10, <1>13
  <2> QED
    BY <2>1 DEF HistoryInv, CurrentFits, MinedBlocks, PendingBlock, Receipts
<1> QED
  BY <1>17, <1>23, <1>24, <1>25 DEF HistoryInv

(* Reverting to a snapshot for the first time makes its objects, which     *)
(* nothing else refers to, the current state.                              *)
LEMMA RevertKeepsInv ==
    ASSUME HistoryInv, NEW s \in Nat, s \notin reverted, HRevertToSnapshot(s)
    PROVE  HistoryInv'
<1>1. UNCHANGED <<lists, dicts, maps, snapshots, saved>>
  BY DEF HRevertToSnapshot, RevertToSnapshot, heapVars
<1>2. HeapTypeOK
  BY DEF HistoryInv
<1>3. s \in 1..Len(snapshots)
  <2>1. s \in DOMAIN snapshots
    BY DEF HRevertToSnapshot, RevertToSnapshot
  <2> QED
    BY <1>2, <2>1 DEF HeapTypeOK
<1>4. s \in Unused
  BY <1>3 DEF Unused
<1>5. /\ blocks' = snapshots[s].blocks /\ block' = snapshots[s].block
      /\ receipts' = snapshots[s].receipts /\ reverted' = reverted \cup {s}
  BY DEF HRevertToSnapshot, RevertToSnapshot
<1>6. HeapTypeOK'
  <2>1. /\ blocks' \in 1..Len(lists) /\ block' \in 1..Len(dicts)
        /\ receipts' \in 1..Len(maps)
    BY <1>2, <1>3, <1>5 DEF HeapTypeOK
  <2>2. reverted' \subseteq 1..Len(snapshots)
    BY <1>2, <1>3, <1>5 DEF HeapTypeOK
  <2> QED
    BY <1>1, <1>2, <2>1, <2>2 DEF HeapTypeOK
<1>7. \A t \in Unused' : t \in Unused /\ t # s
  BY <1>1, <1>5 DEF Unused
<1>8. OwnObjects'
  <2>1. ASSUME NEW t \in Unused'
        PROVE  /\ Apart(snapshots[t], CurrentState')
               /\ \A u \in 1..Len(snapshots) : u # t => Apart(snapshots[t], snapshots[u])
    <3>1. \A u \in 1..Len(snapshots) : u # t => Apart(snapshots[t], snapshots[u])
      BY <1>7 DEF HistoryInv, OwnObjects
    <3>2. Apart(snapshots[t], snapshots[s])
      BY <1>3, <1>7, <3>1
    <3>3. Apart(snapshots[t], CurrentState')
      BY <1>5, <3>2 DEF Apart, CurrentState
    <3> QED
      BY <3>1, <3>3
  <2> QED
    BY <1>1, <2>1 DEF OwnObjects
<1>9. SnapshotsKept'
  BY <1>1, <1>7 DEF HistoryInv, SnapshotsKept
<1>10. CurrentFits'
  BY <1>1, <1>4, <1>5
     DEF HistoryInv, SnapshotsKept, CurrentFits, MinedBlocks, PendingBlock, Receipts
<1> QED
  BY <1>6, <1>8, <1>9, <1>10 DEF HistoryInv

(* Time travel mines the pending block with another time.                  *)
LEMMA Travelled ==
    ASSUME HeapTypeOK, NEW timestamp \in 1..MaxTime, timestamp > PendingBlock.time,
           NEW mining, mining = [PendingBlock EXCEPT !.time = timestamp - 1]
    PROVE  /\ mining \in BlockType /\ mining.number = PendingBlock.number
           /\ mining.fee = PendingBlock.fee /\ mining.txs = PendingBlock.txs
           /\ mining.time >= PendingBlock.time
<1>1. PendingBlock \in BlockType
  BY CurrentTyped
<1>2. PICK time \in Nat : time = timestamp - 1
  <2>1. timestamp - 1 \in Nat
    BY BoundsAssumption
  <2> QED
    BY <2>1
<1>3. time >= PendingBlock.time
  <2>1. PICK old \in Nat : old = PendingBlock.time
    BY <1>1 DEF BlockType
  <2> QED
    BY <1>2, <2>1, BoundsAssumption
<1> QED
  BY <1>1, <1>2, <1>3 DEF BlockType

(* Every step of a caller that reverts to no snapshot twice keeps the      *)
(* invariant.                                                              *)
LEMMA HistoryStep ==
    HistoryInv /\ [HNextOnce]_<<vars, historyVars>> => HistoryInv'
<1> SUFFICES ASSUME HistoryInv, [HNextOnce]_<<vars, historyVars>>
             PROVE  HistoryInv'
  OBVIOUS
<1>1. HeapTypeOK
  BY DEF HistoryInv
<1>2. ASSUME NEW count \in MineCounts, MineBlocks(count), UNCHANGED historyVars
      PROVE  HistoryInv'
  <2>1. PendingBlock \in BlockType /\ PendingBlock.time \in Nat /\ count \in Nat
    BY <1>1, CurrentTyped, BoundsAssumption DEF BlockType
  <2>2. MineOn(PendingBlock, count)
    BY <1>2 DEF MineBlocks
  <2>3. PendingBlock.time >= PendingBlock.time
    BY <2>1
  <2> QED
    BY <1>2, <2>1, <2>2, <2>3, MineKeepsInv
<1>3. ASSUME NEW timestamp \in 1..MaxTime, TimeTravel(timestamp), UNCHANGED historyVars
      PROVE  HistoryInv'
  <2>1. PICK mining : mining = [PendingBlock EXCEPT !.time = timestamp - 1]
    OBVIOUS
  <2>2. MineOn(mining, 1) /\ timestamp > PendingBlock.time
    BY <1>3, <2>1 DEF TimeTravel
  <2>3. /\ mining \in BlockType /\ mining.number = PendingBlock.number
        /\ mining.fee = PendingBlock.fee /\ mining.txs = PendingBlock.txs
        /\ mining.time >= PendingBlock.time
    BY <1>1, <2>1, <2>2, Travelled
  <2> QED
    BY <1>3, <2>2, <2>3, MineKeepsInv
<1>4. ASSUME NEW tx \in Transactions, SendTransaction(tx), UNCHANGED historyVars
      PROVE  HistoryInv'
  BY <1>4, SendKeepsInv
<1>5. ASSUME HTakeSnapshot PROVE HistoryInv'
  BY <1>5, SnapshotKeepsInv
<1>6. ASSUME NEW s \in 1..MaxSnapshots, s \notin reverted, HRevertToSnapshot(s)
      PROVE  HistoryInv'
  <2>1. s \in Nat
    BY BoundsAssumption
  <2> QED
    BY <1>6, <2>1, RevertKeepsInv
<1>7. ASSUME HResetToGenesis PROVE HistoryInv'
  BY <1>7, ResetInv
<1>8. ASSUME UNCHANGED <<vars, historyVars>> PROVE HistoryInv'
  BY <1>8
     DEF vars, stateVars, heapVars, historyVars, HistoryInv, HeapTypeOK, OwnObjects,
         SnapshotsKept, CurrentFits, Unused, CurrentState, MinedBlocks, PendingBlock,
         Receipts
<1> QED
  BY <1>2, <1>3, <1>4, <1>5, <1>6, <1>7, <1>8 DEF HNextOnce, Advance

(* The invariant of MockBackend for callers that revert to a snapshot at   *)
(* most once.  (class MockBackend)                                         *)
THEOREM HistoryInvariant == SpecOnce => []HistoryInv
<1>1. HInit => HistoryInv
  BY InitInv
<1>2. HistoryInv /\ [HNextOnce]_<<vars, historyVars>> => HistoryInv'
  BY HistoryStep
<1> QED
  BY <1>1, <1>2, PTL DEF SpecOnce

-----------------------------------------------------------------------------
(* The properties that the runs check.                                     *)

(* What the invariant says of the current chain, mined and pending.        *)
LEMMA CurrentChain ==
    ASSUME HistoryInv
    PROVE  LET all == Append(MinedBlocks, PendingBlock)
               N == Len(MinedBlocks)
           IN  /\ N \in Nat \ {0}
               /\ all \in Seq(BlockType) /\ Len(all) = N + 1
               /\ all[N + 1] = PendingBlock
               /\ \A n \in 1..N : all[n] = MinedBlocks[n]
               /\ \A n \in 1..N : Follows(all[n], all[n + 1])
               /\ \A n \in 1..(N + 1) : all[n].number = n - 1
               /\ \A n \in 1..(N + 1) : Elements(all[n].txs) \subseteq Receipts
<1>1. MinedBlocks \in Seq(BlockType) /\ PendingBlock \in BlockType
  BY CurrentTyped DEF HistoryInv
<1>2. PICK mined \in Seq(BlockType), pending \in BlockType :
        mined = MinedBlocks /\ pending = PendingBlock
  BY <1>1
<1>3. PICK N \in Nat : N = Len(mined)
  OBVIOUS
<1>4. PICK all : all = Append(mined, pending)
  OBVIOUS
<1>5. /\ all \in Seq(BlockType) /\ Len(all) = N + 1
      /\ all[N + 1] = pending
      /\ \A n \in 1..N : all[n] = mined[n]
  BY <1>3, <1>4, AppendedItem
<1>6. Fit(mined, pending, Receipts)
  BY <1>2 DEF HistoryInv, CurrentFits
<1>7. N \in Nat \ {0}
  BY <1>3, <1>6 DEF Fit
<1>8. Follows(mined[N], pending)
  BY <1>3, <1>6 DEF Fit
<1>9. ASSUME NEW n \in 1..N
      PROVE  Follows(all[n], all[n + 1])
  <2>1. CASE n = N
    BY <1>5, <1>8, <2>1
  <2>2. CASE n # N
    <3>1. n + 1 \in 1..N /\ n + 1 \in 2..N /\ (n + 1) - 1 = n
      BY <2>2
    <3>2. Follows(mined[n], mined[n + 1])
      BY <1>3, <1>6, <3>1 DEF Fit
    <3> QED
      BY <1>5, <3>1, <3>2
  <2> QED
    BY <2>1, <2>2
<1>10. \A n \in 1..N : mined[n].number = n - 1
  BY <1>3, <1>6 DEF Fit
<1>11. pending.number = N
  <2>1. mined[N].number = N - 1
    BY <1>7, <1>10
  <2> QED
    BY <1>7, <1>8, <2>1 DEF Follows
<1>12. ASSUME NEW n \in 1..(N + 1)
       PROVE  all[n].number = n - 1
  <2>1. CASE n = N + 1
    BY <1>5, <1>11, <2>1
  <2>2. CASE n # N + 1
    <3>1. n \in 1..N
      BY <2>2
    <3> QED
      BY <1>5, <1>10, <3>1
  <2> QED
    BY <2>1, <2>2
<1>13. ASSUME NEW n \in 1..(N + 1)
       PROVE  Elements(all[n].txs) \subseteq Receipts
  <2>1. CASE n = N + 1
    BY <1>5, <1>6, <2>1 DEF Fit
  <2>2. CASE n # N + 1
    <3>1. n \in 1..N
      BY <2>2
    <3> QED
      BY <1>3, <1>5, <1>6, <3>1 DEF Fit
  <2> QED
    BY <2>1, <2>2
<1> QED
  BY <1>2, <1>3, <1>4, <1>5, <1>7, <1>9, <1>12, <1>13

(* Every reference of MockBackend and of its snapshots has an object, and  *)
(* all of them are of their types.  (MockBackend, take_snapshot)           *)
THEOREM MockTypes == SpecOnce => []MockTypeOK
<1>1. ASSUME HistoryInv PROVE MockTypeOK
  <2>1. /\ lists \in Seq(Seq(BlockType)) /\ dicts \in Seq(BlockType)
        /\ maps \in Seq(SUBSET Transactions) /\ snapshots \in Seq(SnapshotType)
    BY <1>1 DEF HistoryInv, HeapTypeOK
  <2>2. /\ DOMAIN lists = 1..Len(lists) /\ DOMAIN dicts = 1..Len(dicts)
        /\ DOMAIN maps = 1..Len(maps) /\ DOMAIN snapshots = 1..Len(snapshots)
    BY <2>1
  <2>3. ASSUME NEW l \in DOMAIN lists, NEW n \in DOMAIN lists[l]
        PROVE  lists[l][n] \in BlockType
    <3>1. PICK list \in Seq(BlockType) : list = lists[l]
      BY <2>1
    <3>2. n \in DOMAIN list
      BY <3>1
    <3>3. list[n] \in BlockType
      BY <3>2
    <3> QED
      BY <3>1, <3>3
  <2>4. \A d \in DOMAIN dicts : dicts[d] \in BlockType
    BY <2>1
  <2>5. \A m \in DOMAIN maps : maps[m] \subseteq Transactions
    BY <2>1
  <2>6. /\ blocks \in 1..Len(lists) /\ block \in 1..Len(dicts)
        /\ receipts \in 1..Len(maps)
        /\ \A s \in 1..Len(snapshots) :
              /\ snapshots[s].blocks \in 1..Len(lists)
              /\ snapshots[s].block \in 1..Len(dicts)
              /\ snapshots[s].receipts \in 1..Len(maps)
    BY <1>1 DEF HistoryInv, HeapTypeOK
  <2> QED
    BY <2>2, <2>3, <2>4, <2>5, <2>6 DEF MockTypeOK, BlockType
<1> QED
  BY <1>1, HistoryInvariant, PTL

(* Asking for the number that a block carries finds this block, whatever   *)
(* was mined, reverted and reset before.  (get_block_by_number)            *)
LEMMA NumbersAreIndices == SpecOnce => []NumbersFindBlocks
<1>1. ASSUME HistoryInv PROVE NumbersFindBlocks
  <2>1. PICK N \in Nat \ {0} : N = Len(MinedBlocks)
    BY <1>1, CurrentChain
  <2>2. MinedBlocks \in Seq(BlockType)
    BY <1>1, CurrentTyped DEF HistoryInv
  <2>3. DOMAIN MinedBlocks = 1..N
    BY <2>1, <2>2
  <2>4. ASSUME NEW n \in 1..N
        PROVE  MinedBlocks[n].number = n - 1
    <3>1. n \in 1..(N + 1)
      OBVIOUS
    <3>2. Append(MinedBlocks, PendingBlock)[n].number = n - 1
      BY <1>1, <2>1, <3>1, CurrentChain
    <3>3. Append(MinedBlocks, PendingBlock)[n] = MinedBlocks[n]
      BY <1>1, <2>1, CurrentChain
    <3> QED
      BY <3>2, <3>3
  <2>5. PendingBlock.number = N
    <3>1. N + 1 \in 1..(N + 1) /\ (N + 1) - 1 = N
      OBVIOUS
    <3>2. Append(MinedBlocks, PendingBlock)[N + 1].number = N
      BY <1>1, <2>1, <3>1, CurrentChain
    <3>3. Append(MinedBlocks, PendingBlock)[N + 1] = PendingBlock
      BY <1>1, <2>1, CurrentChain
    <3> QED
      BY <3>2, <3>3
  <2>6. ASSUME NEW n \in 1..N
        PROVE  get_block_by_number(MinedBlocks[n].number) = {MinedBlocks[n]}
    <3>1. n - 1 # N /\ n - 1 < N /\ (n - 1) + 1 = n
      OBVIOUS
    <3> QED
      BY <2>1, <2>4, <2>5, <3>1 DEF get_block_by_number
  <2>7. get_block_by_number(PendingBlock.number) = {PendingBlock}
    BY DEF get_block_by_number
  <2> QED
    BY <2>1, <2>3, <2>5, <2>6, <2>7 DEF NumbersFindBlocks
<1> QED
  BY <1>1, HistoryInvariant, PTL

(* The base fee of every block, mined or pending, follows the gas that its *)
(* parent used as EIP-1559 has it, for all gas limits and all fees of the  *)
(* genesis block.  (_calculate_expected_base_fee_per_gas)                  *)
LEMMA BaseFees == SpecOnce => []BaseFeeFollowsGas
<1>1. ASSUME HistoryInv PROVE BaseFeeFollowsGas
  <2>1. PICK N \in Nat \ {0}, all \in Seq(BlockType) :
          /\ N = Len(MinedBlocks) /\ all = Append(MinedBlocks, PendingBlock)
          /\ Len(all) = N + 1
          /\ \A n \in 1..N : Follows(all[n], all[n + 1])
    BY <1>1, CurrentChain
  <2>2. DOMAIN MinedBlocks = 1..N
    BY <1>1, <2>1, CurrentTyped DEF HistoryInv
  <2>3. ASSUME NEW n \in 1..N
        PROVE  LET parent == all[n]
                   fee == all[n + 1].fee
               IN  /\ GasUsed(parent) = GasTarget => fee = parent.fee
                   /\ GasUsed(parent) > GasTarget => fee > parent.fee
                   /\ GasUsed(parent) < GasTarget => fee <= parent.fee
                   /\ GasUsed(parent) <= 2 * GasTarget =>
                         /\ 8 * fee <= 9 * parent.fee + 8
                         /\ 8 * fee >= 7 * parent.fee
    <3>1. PICK parent \in BlockType : parent = all[n]
      BY <2>1
    <3>2. PICK fee : /\ fee = all[n + 1].fee
                     /\ fee = _calculate_expected_base_fee_per_gas(parent)
      BY <2>1, <3>1 DEF Follows
    <3>3. /\ GasUsed(parent) = GasTarget => fee = parent.fee
          /\ GasUsed(parent) > GasTarget => fee > parent.fee
          /\ GasUsed(parent) < GasTarget => fee <= parent.fee
          /\ GasUsed(parent) <= 2 * GasTarget =>
                /\ 8 * fee <= 9 * parent.fee + 8
                /\ 8 * fee >= 7 * parent.fee
      BY <3>2, ExpectedFee
    <3> QED
      BY <3>1, <3>2, <3>3
  <2> QED
    BY <2>1, <2>2, <2>3 DEF BaseFeeFollowsGas
<1> QED
  BY <1>1, HistoryInvariant, PTL

(* Every block is found under the number after its parent's and has the   *)
(* base fee that the parent's gas asks for, for all gas limits and all     *)
(* fees of the genesis block.  (get_block_by_number,                       *)
(* make_block_from_parent)                                                 *)
THEOREM BlocksAlwaysFollow == SpecOnce => []BlocksFollowParents
BY NumbersAreIndices, BaseFees, PTL DEF BlocksFollowParents

(* Every transaction of the chain and of the pending block has a receipt,  *)
(* after reverts and resets too.  (send_transaction, take_snapshot,        *)
(* revert_to_snapshot)                                                     *)
THEOREM ReceiptsAreKept == SpecOnce => []TransactionsHaveReceipts
<1>1. ASSUME HistoryInv PROVE TransactionsHaveReceipts
  <2>1. PICK N \in Nat \ {0}, all \in Seq(BlockType) :
          /\ N = Len(MinedBlocks) /\ all = Append(MinedBlocks, PendingBlock)
          /\ Len(all) = N + 1
          /\ \A n \in 1..(N + 1) : Elements(all[n].txs) \subseteq Receipts
    BY <1>1, CurrentChain
  <2>2. ASSUME NEW n \in DOMAIN all, NEW i \in DOMAIN all[n].txs
        PROVE  all[n].txs[i] \in Receipts
    <3>1. n \in 1..(N + 1)
      BY <2>1
    <3>2. all[n].txs[i] \in Elements(all[n].txs)
      BY DEF Elements
    <3> QED
      BY <2>1, <3>1, <3>2
  <2> QED
    BY <2>1, <2>2 DEF TransactionsHaveReceipts, Receipts
<1> QED
  BY <1>1, HistoryInvariant, PTL

-----------------------------------------------------------------------------
(* MockBackend implements ChainBackend.                                    *)

(* Blocks that fit are later than their parents.                           *)
LEMMA FitLater ==
    ASSUME NEW mined \in Seq(BlockType), NEW pending \in BlockType, NEW found,
           Fit(mined, pending, found)
    PROVE  Backend!Later(Append(mined, pending))
<1>1. PICK N \in Nat : N = Len(mined)
  OBVIOUS
<1>2. PICK all : all = Append(mined, pending)
  OBVIOUS
<1>3. /\ all \in Seq(BlockType) /\ Len(all) = N + 1
      /\ all[N + 1] = pending
      /\ \A n \in 1..N : all[n] = mined[n]
  BY <1>1, <1>2, AppendedItem
<1>4. ASSUME NEW n \in 2..Len(all)
      PROVE  all[n - 1].time < all[n].time
  <2>1. PICK parent \in BlockType, b \in BlockType : parent = all[n - 1] /\ b = all[n]
    <3>1. n - 1 \in 1..Len(all) /\ n \in 1..Len(all)
      BY <1>3
    <3>2. all[n - 1] \in BlockType /\ all[n] \in BlockType
      BY <1>3, <3>1
    <3> QED
      BY <3>2
  <2>2. Follows(parent, b)
    <3>1. CASE n = N + 1
      <4>1. parent = mined[N] /\ b = pending
        BY <1>3, <2>1, <3>1
      <4> QED
        BY <1>1, <4>1 DEF Fit
    <3>2. CASE n # N + 1
      <4>1. n \in 2..N /\ n - 1 \in 1..N /\ n \in 1..N
        BY <1>3, <3>2
      <4>2. parent = mined[n - 1] /\ b = mined[n]
        BY <1>3, <2>1, <4>1
      <4> QED
        BY <1>1, <4>1, <4>2 DEF Fit
    <3> QED
      BY <3>1, <3>2
  <2>3. parent.time \in Nat /\ b.time \in Nat
    BY DEF BlockType
  <2> QED
    BY <2>1, <2>2, <2>3 DEF Follows
<1>5. Backend!Later(all)
  BY <1>4 DEF Backend!Later
<1> QED
  BY <1>2, <1>5

(* So the chain after a step is, too.                                      *)
LEMMA LaterNext ==
    ASSUME HistoryInv'
    PROVE  Backend!Later(Append(MinedBlocks', PendingBlock'))
<1>1. /\ MinedBlocks' \in Seq(BlockType) /\ PendingBlock' \in BlockType
  BY DEF HistoryInv, HeapTypeOK, MinedBlocks, PendingBlock
<1>2. Fit(MinedBlocks', PendingBlock', Receipts')
  BY DEF HistoryInv, CurrentFits
<1> QED
  BY <1>1, <1>2, FitLater

(* What mining does to the chain.                                          *)
LEMMA MineEffect ==
    ASSUME HistoryInv, NEW mining \in BlockType, mining.txs = PendingBlock.txs,
           NEW count \in Nat, MineOn(mining, count), UNCHANGED historyVars,
           HistoryInv'
    PROVE  [Backend!Next]_<<MinedBlocks, PendingBlock, saved>>
<1>1. PICK new \in Seq(BlockType) : new = MinedFrom(mining, count)
  BY MinedFromIs
<1>2. /\ lists \in Seq(Seq(BlockType)) /\ dicts \in Seq(BlockType)
      /\ blocks \in 1..Len(lists) /\ block \in 1..Len(dicts)
  BY DEF HistoryInv, HeapTypeOK
<1>3. PICK mined \in Seq(BlockType) : mined = MinedBlocks /\ mined = lists[blocks]
  BY <1>2 DEF MinedBlocks
<1>4. lists' = [lists EXCEPT ![blocks] = mined \o new] /\ blocks' = blocks
  BY <1>1, <1>3 DEF MineOn
<1>5. MinedBlocks' = mined \o new
  BY <1>2, <1>4 DEF MinedBlocks
<1>6. saved' = saved
  BY DEF historyVars
<1>7. Len(new) = count
  BY <1>1, MinedFromIs
<1>8. CASE count = 0
  <2>1. new = << >>
    BY <1>7, <1>8
  <2>2. MinedBlocks' = MinedBlocks
    BY <1>3, <1>5, <2>1
  <2>3. PendingBlock' = PendingBlock
    BY <1>8 DEF MineOn, PendingBlock
  <2> QED
    BY <1>6, <2>2, <2>3
<1>9. CASE count # 0
  <2>1. PICK n \in Nat : n = Len(mined)
    OBVIOUS
  <2>2. PICK all : all = mined \o new
    OBVIOUS
  <2>3. all \in Seq(BlockType) /\ Len(all) = n + count
    <3>1. mined \o new \in Seq(BlockType)
      OBVIOUS
    <3>2. Len(mined \o new) = Len(mined) + Len(new)
      OBVIOUS
    <3> QED
      BY <1>7, <2>1, <2>2, <3>1, <3>2
  <2>4. SubSeq(all, 1, n) = mined
    BY <2>1, <2>2
  <2>5. \A k \in 1..count : all[n + k] = new[k]
    <3>1. ASSUME NEW k \in 1..count
          PROVE  all[n + k] = new[k]
      <4>1. n + k \in (Len(mined) + 1)..(Len(mined) + Len(new))
        BY <1>7, <2>1
      <4> QED
        BY <2>1, <2>2, <4>1
    <3> QED
      BY <3>1
  <2>6. ASSUME NEW k \in 1..count
        PROVE  new[k].txs = IF k = 1 THEN mining.txs ELSE << >>
    <3>1. CASE k = 1
      <4>1. new[1] = mining
        BY <1>1, <1>9, MinedFromIs
      <4> QED
        BY <3>1, <4>1
    <3>2. CASE k # 1
      <4>1. k \in 2..count /\ k - 1 \in 1..Len(new)
        BY <1>7, <3>2
      <4>2. new[k] = Child(new[k - 1])
        BY <1>1, <4>1, MinedFromIs
      <4>3. new[k - 1] \in BlockType
        BY <4>1
      <4> QED
        BY <3>2, <4>2, <4>3, ChildType
    <3> QED
      BY <3>1, <3>2
  <2>7. PendingBlock' = Child(new[count])
    <3>1. PICK middle \in Seq(BlockType) :
            middle = [dicts EXCEPT ![block] = mining] /\ Len(middle) = Len(dicts)
      <4>1. [dicts EXCEPT ![block] = mining] \in Seq(BlockType)
        BY <1>2, ReplacedItem
      <4>2. Len([dicts EXCEPT ![block] = mining]) = Len(dicts)
        BY <1>2, ReplacedItem
      <4> QED
        BY <4>1, <4>2
    <3>2. dicts' = Append(middle, Child(new[count])) /\ block' = Len(dicts) + 1
      BY <1>1, <1>9, <3>1 DEF MineOn
    <3>3. new[count] \in BlockType
      BY <1>7, <1>9
    <3>4. Child(new[count]) \in BlockType
      BY <3>3, ChildType
    <3>5. dicts'[Len(dicts) + 1] = Child(new[count])
      BY <3>1, <3>2, <3>4, AppendedItem
    <3> QED
      BY <3>2, <3>5 DEF PendingBlock
  <2>8. PendingBlock'.txs = << >>
    <3>1. new[count] \in BlockType
      BY <1>7, <1>9
    <3> QED
      BY <2>7, <3>1, ChildType
  <2>9. Backend!Later(Append(MinedBlocks', PendingBlock'))
    BY LaterNext
  <2>10. MinedBlocks' = all
    BY <1>5, <2>2
  <2>11. Backend!IsPrefix(MinedBlocks, MinedBlocks')
    <3>1. Len(mined) <= Len(all) /\ SubSeq(mined, 1, Len(mined)) = SubSeq(all, 1, Len(mined))
      BY <2>1, <2>3, <2>4
    <3> QED
      BY <1>3, <2>10, <3>1 DEF Backend!IsPrefix
  <2>12. Len(MinedBlocks) = n /\ Len(MinedBlocks') = n + count
    BY <1>3, <2>1, <2>3, <2>10
  <2>13. ASSUME NEW k \in 1..count
         PROVE  MinedBlocks'[Len(MinedBlocks) + k].txs
                  = IF k = 1 THEN PendingBlock.txs ELSE << >>
    BY <2>5, <2>6, <2>10, <2>12
  <2>14. Backend!MineBlocks(count)
    BY <1>6, <1>9, <2>8, <2>9, <2>11, <2>12, <2>13 DEF Backend!MineBlocks
  <2>15. Len(MinedBlocks') - Len(MinedBlocks) = count
    BY <2>12
  <2>16. Backend!MineBlocks(Len(MinedBlocks') - Len(MinedBlocks))
    BY <2>14, <2>15
  <2> QED
    BY <2>16 DEF Backend!Next
<1> QED
  BY <1>8, <1>9

(* Every step of a caller that reverts to no snapshot twice is one of a    *)
(* chain backend, or changes nothing that its callers can see.             *)
LEMMA BackendStep ==
    HistoryInv /\ HistoryInv' /\ [HNextOnce]_<<vars, historyVars>>
        => [Backend!Next]_<<MinedBlocks, PendingBlock, saved>>
<1> SUFFICES ASSUME HistoryInv, HistoryInv', [HNextOnce]_<<vars, historyVars>>
             PROVE  [Backend!Next]_<<MinedBlocks, PendingBlock, saved>>
  OBVIOUS
<1>1. HeapTypeOK
  BY DEF HistoryInv
<1>2. /\ MinedBlocks \in Seq(BlockType) /\ PendingBlock \in BlockType
      /\ blocks \in 1..Len(lists) /\ block \in 1..Len(dicts)
      /\ lists \in Seq(Seq(BlockType)) /\ dicts \in Seq(BlockType)
  BY <1>1, CurrentTyped DEF HeapTypeOK
<1>3. ASSUME NEW count \in MineCounts, MineBlocks(count), UNCHANGED historyVars
      PROVE  [Backend!Next]_<<MinedBlocks, PendingBlock, saved>>
  <2>1. count \in Nat /\ MineOn(PendingBlock, count)
    BY <1>3, BoundsAssumption DEF MineBlocks
  <2> QED
    BY <1>2, <1>3, <2>1, MineEffect
<1>4. ASSUME NEW timestamp \in 1..MaxTime, TimeTravel(timestamp), UNCHANGED historyVars
      PROVE  [Backend!Next]_<<MinedBlocks, PendingBlock, saved>>
  <2>1. PICK mining : mining = [PendingBlock EXCEPT !.time = timestamp - 1]
    OBVIOUS
  <2>2. MineOn(mining, 1) /\ timestamp > PendingBlock.time
    BY <1>4, <2>1 DEF TimeTravel
  <2>3. mining \in BlockType /\ mining.txs = PendingBlock.txs
    BY <1>1, <2>1, <2>2, Travelled
  <2> QED
    BY <1>4, <2>2, <2>3, MineEffect
<1>5. ASSUME NEW tx \in Transactions, SendTransaction(tx), UNCHANGED historyVars
      PROVE  [Backend!Next]_<<MinedBlocks, PendingBlock, saved>>
  <2>1. MinedBlocks' = MinedBlocks /\ saved' = saved
    BY <1>5 DEF SendTransaction, stateVars, historyVars, MinedBlocks
  <2>2. PICK sent : sent = [dicts[block] EXCEPT !.txs = Append(@, tx)]
    OBVIOUS
  <2>3. dicts' = [dicts EXCEPT ![block] = sent] /\ block' = block
    BY <1>5, <2>2 DEF SendTransaction, stateVars
  <2>4. PendingBlock' = sent
    BY <1>2, <2>3 DEF PendingBlock
  <2>5. Backend!SendTransaction(tx)
    BY <2>1, <2>2, <2>4 DEF Backend!SendTransaction, PendingBlock
  <2> QED
    BY <2>5 DEF Backend!Next
<1>6. ASSUME HTakeSnapshot
      PROVE  [Backend!Next]_<<MinedBlocks, PendingBlock, saved>>
  <2>1. blocks' = blocks /\ block' = block
    BY <1>6 DEF HTakeSnapshot, TakeSnapshot, stateVars
  <2>2. lists' = Append(lists, MinedBlocks) /\ dicts' = Append(dicts, PendingBlock)
    BY <1>6 DEF HTakeSnapshot, TakeSnapshot
  <2>3. lists'[blocks] = lists[blocks]
    BY <1>2, <2>2, AppendedItem
  <2>4. dicts'[block] = dicts[block]
    BY <1>2, <2>2, AppendedItem
  <2>5. MinedBlocks' = MinedBlocks /\ PendingBlock' = PendingBlock
    BY <2>1, <2>3, <2>4 DEF MinedBlocks, PendingBlock
  <2>6. Backend!TakeSnapshot
    BY <1>6, <2>5 DEF HTakeSnapshot, Backend!TakeSnapshot
  <2> QED
    BY <2>6 DEF Backend!Next
<1>7. ASSUME NEW s \in 1..MaxSnapshots, s \notin reverted, HRevertToSnapshot(s)
      PROVE  [Backend!Next]_<<MinedBlocks, PendingBlock, saved>>
  <2>1. s \in DOMAIN snapshots
    BY <1>7 DEF HRevertToSnapshot, RevertToSnapshot
  <2>2. s \in 1..Len(snapshots) /\ s \in DOMAIN saved
    BY <1>1, <2>1 DEF HeapTypeOK
  <2>3. s \in Unused
    BY <1>7, <2>2 DEF Unused
  <2>4. /\ blocks' = snapshots[s].blocks /\ block' = snapshots[s].block
        /\ lists' = lists /\ dicts' = dicts /\ saved' = saved
    BY <1>7 DEF HRevertToSnapshot, RevertToSnapshot, heapVars
  <2>5. MinedBlocks' = saved[s].mined /\ PendingBlock' = saved[s].pending
    BY <2>3, <2>4 DEF HistoryInv, SnapshotsKept, MinedBlocks, PendingBlock
  <2>6. Backend!Later(Append(MinedBlocks', PendingBlock'))
    BY LaterNext
  <2>7. Backend!RevertToSnapshot(s)
    BY <2>2, <2>4, <2>5, <2>6 DEF Backend!RevertToSnapshot
  <2> QED
    BY <2>2, <2>7 DEF Backend!Next
<1>8. ASSUME HResetToGenesis
      PROVE  [Backend!Next]_<<MinedBlocks, PendingBlock, saved>>
  <2>1. MinedBlocks' = <<Genesis>> /\ PendingBlock' = Child(Genesis) /\ saved' = << >>
    BY <1>8 DEF HResetToGenesis, ResetToGenesis, MinedBlocks, PendingBlock
  <2>2. SubSeq(MinedBlocks, 1, 1) = <<Genesis>>
    <3>1. Len(MinedBlocks) > 0 /\ MinedBlocks[1] = Genesis
      BY DEF HistoryInv, CurrentFits, Fit
    <3>2. PICK mined \in Seq(BlockType) : mined = MinedBlocks
      BY <1>2
    <3>3. SubSeq(mined, 1, 1) = <<mined[1]>>
      <4>1. PICK first : first = SubSeq(mined, 1, 1)
        OBVIOUS
      <4>2. 1 \in 1..Len(mined)
        BY <3>1, <3>2
      <4>3. first \in Seq(BlockType)
        BY <4>1, <4>2
      <4>4. Len(first) = 1
        BY <4>1, <4>2
      <4>5. first[1] = mined[1]
        BY <4>1, <4>2
      <4>6. first = <<first[1]>>
        BY <4>3, <4>4
      <4> QED
        BY <4>1, <4>5, <4>6
    <3> QED
      BY <3>1, <3>2, <3>3
  <2>3. Child(Genesis).txs = << >>
    BY GenesisType, ChildType
  <2>4. Backend!Later(Append(MinedBlocks', PendingBlock'))
    BY LaterNext
  <2>5. Backend!ResetToGenesis
    BY <2>1, <2>2, <2>3, <2>4 DEF Backend!ResetToGenesis
  <2> QED
    BY <2>5 DEF Backend!Next
<1>9. ASSUME UNCHANGED <<vars, historyVars>>
      PROVE  [Backend!Next]_<<MinedBlocks, PendingBlock, saved>>
  BY <1>9 DEF vars, stateVars, heapVars, historyVars, MinedBlocks, PendingBlock
<1> QED
  BY <1>3, <1>4, <1>5, <1>6, <1>7, <1>8, <1>9 DEF HNextOnce, Advance

(* A new backend is a chain of one block.                                  *)
LEMMA BackendInit == HInit => Backend!Init
<1> SUFFICES ASSUME HInit PROVE Backend!Init
  OBVIOUS
<1>1. MinedBlocks = <<Genesis>> /\ PendingBlock = Child(Genesis) /\ saved = << >>
  BY DEF HInit, Init, MinedBlocks, PendingBlock
<1>2. <<Genesis>> \in Seq(BlockType) /\ Child(Genesis) \in BlockType
  BY GenesisType, ChildType
<1>3. Genesis.txs = << >> /\ Child(Genesis).txs = << >>
  BY GenesisType, ChildType
<1>4. Backend!Later(Append(<<Genesis>>, Child(Genesis)))
  BY <1>2, FitGenesis, FitLater
<1>5. Len(<<Genesis>>) = 1 /\ <<Genesis>>[1] = Genesis
  OBVIOUS
<1> QED
  BY <1>1, <1>3, <1>4, <1>5 DEF Backend!Init

(* MockBackend keeps what ChainBackend promises: a revert brings back the  *)
(* chain and the pending block of the snapshot, mining extends the chain   *)
(* by the pending block and empty ones, all of them later than their       *)
(* parents - for callers that revert to no snapshot twice, and only for    *)
(* them, as the run mock_reuse shows.  (class MockBackend)          *)
THEOREM MockImplementsChain == SpecOnce => IsChainBackend
<1>1. HInit => Backend!Init
  BY BackendInit
<1>2. HistoryInv /\ HistoryInv' /\ [HNextOnce]_<<vars, historyVars>>
          => [Backend!Next]_<<MinedBlocks, PendingBlock, saved>>
  BY BackendStep
<1> QED
  BY <1>1, <1>2, HistoryInvariant, PTL DEF SpecOnce, IsChainBackend, Backend!Spec

-----------------------------------------------------------------------------
(* Answers.                                                                *)

(* The fields of a transaction, for each type.                             *)
LEMMA FieldsOf ==
    ASSUME NEW tx \in Transactions
    PROVE  LET fields == create_transaction[tx]
               type == TransactionType(fields)
               common == {"nonce", "value", "gas", "r", "s", "v", "from", "data",
                          "hash", "to"}
           IN  /\ \/ /\ type = 0 /\ ~IsDynamicFee(tx) /\ "access_list" \notin tx
                     /\ DOMAIN fields = common \cup {"gas_price"}
                  \/ /\ type = 1 /\ ~IsDynamicFee(tx)
                     /\ DOMAIN fields
                          = common \cup {"gas_price", "chain_id", "access_list"}
                  \/ /\ type = 2 /\ IsDynamicFee(tx)
                     /\ DOMAIN fields
                          = common \cup DYNAMIC_FEE_TRANSACTION_PARAMS
                            \cup {"chain_id", "access_list"}
               /\ \A key \in DOMAIN fields \cap
                     ({"nonce", "value", "gas", "r", "s", "gas_price", "chain_id"}
                      \cup DYNAMIC_FEE_TRANSACTION_PARAMS) : fields[key].is = "int"
               /\ fields["v"] = Some("bit") /\ fields["from"].is = "address"
               /\ fields["data"].is = "data" /\ fields["hash"].is = "bytes32"
               /\ fields["to"].is \in {"address", "empty"}
               /\ "access_list" \in DOMAIN fields =>
                     fields["access_list"].is = "access_list"
<1>1. PICK own, fee, typed, fields :
         /\ fields = create_transaction[tx]
         /\ create_transaction[tx] = own ++ fee ++ typed
         /\ own = [nonce |-> Some("int"), value |-> Some("int"), gas |-> Some("int"),
                   r |-> Some("int"), s |-> Some("int"), v |-> Some("bit"),
                   from |-> Some("address"), data |-> Some("data"),
                   hash |-> Some("bytes32"),
                   to |-> Some(IF "to" \in tx THEN "address" ELSE "empty")]
         /\ fee = Each(IF IsDynamicFee(tx) THEN DYNAMIC_FEE_TRANSACTION_PARAMS
                       ELSE {"gas_price"}, Some("int"))
         /\ typed = IF TypedFields(tx)
                    THEN [chain_id |-> Some("int"), access_list |-> Some("access_list")]
                    ELSE NoFields
  BY DEF create_transaction
<1>2. /\ DOMAIN own = {"nonce", "value", "gas", "r", "s", "v", "from", "data",
                       "hash", "to"}
      /\ \A key \in {"nonce", "value", "gas", "r", "s"} : own[key].is = "int"
      /\ own["v"] = Some("bit") /\ own["from"].is = "address"
      /\ own["data"].is = "data" /\ own["hash"].is = "bytes32"
      /\ own["to"].is \in {"address", "empty"}
  BY <1>1 DEF Some
<1>3. /\ DOMAIN fee = IF IsDynamicFee(tx) THEN DYNAMIC_FEE_TRANSACTION_PARAMS
                      ELSE {"gas_price"}
      /\ \A key \in DOMAIN fee : fee[key].is = "int"
  BY <1>1, EachKey DEF Some
<1>4. /\ TypedFields(tx) => /\ DOMAIN typed = {"chain_id", "access_list"}
                            /\ typed["chain_id"].is = "int"
                            /\ typed["access_list"].is = "access_list"
      /\ ~TypedFields(tx) => DOMAIN typed = {}
  BY <1>1 DEF Some, NoFields
<1>5. /\ DOMAIN fee \cap DOMAIN own = {}
      /\ DOMAIN typed \cap (DOMAIN own \cup DOMAIN fee) = {}
  BY <1>2, <1>3, <1>4 DEF DYNAMIC_FEE_TRANSACTION_PARAMS
<1>6. /\ DOMAIN (own ++ fee) = DOMAIN own \cup DOMAIN fee
      /\ \A key \in DOMAIN own : (own ++ fee)[key] = own[key]
      /\ \A key \in DOMAIN fee : (own ++ fee)[key] = fee[key]
  BY <1>5, MergeDisjoint
<1>7. PICK two : two = own ++ fee
  OBVIOUS
<1>8. DOMAIN typed \cap DOMAIN two = {}
  BY <1>5, <1>6, <1>7
<1>9. /\ DOMAIN (two ++ typed) = DOMAIN two \cup DOMAIN typed
      /\ \A key \in DOMAIN two : (two ++ typed)[key] = two[key]
      /\ \A key \in DOMAIN typed : (two ++ typed)[key] = typed[key]
  BY <1>8, MergeDisjoint
<1>10. /\ DOMAIN fields = DOMAIN own \cup DOMAIN fee \cup DOMAIN typed
       /\ \A key \in DOMAIN own : fields[key] = own[key]
       /\ \A key \in DOMAIN fee : fields[key] = fee[key]
       /\ \A key \in DOMAIN typed : fields[key] = typed[key]
  BY <1>1, <1>6, <1>7, <1>9
<1>11. /\ \A key \in DOMAIN fields \cap
             ({"nonce", "value", "gas", "r", "s", "gas_price", "chain_id"}
              \cup DYNAMIC_FEE_TRANSACTION_PARAMS) : fields[key].is = "int"
       /\ fields["v"] = Some("bit") /\ fields["from"].is = "address"
       /\ fields["data"].is = "data" /\ fields["hash"].is = "bytes32"
       /\ fields["to"].is \in {"address", "empty"}
       /\ "access_list" \in DOMAIN fields =>
             fields["access_list"].is = "access_list"
  BY <1>2, <1>3, <1>4, <1>10 DEF DYNAMIC_FEE_TRANSACTION_PARAMS
<1>12. CASE IsDynamicFee(tx)
  BY <1>1, <1>2, <1>3, <1>4, <1>10, <1>11, <1>12, SMTT(30)
     DEF TypedFields, TransactionType, DYNAMIC_FEE_TRANSACTION_PARAMS
<1>13. CASE ~IsDynamicFee(tx) /\ "access_list" \in tx
  BY <1>1, <1>2, <1>3, <1>4, <1>10, <1>11, <1>13
     DEF TypedFields, TransactionType, DYNAMIC_FEE_TRANSACTION_PARAMS
<1>14. CASE ~IsDynamicFee(tx) /\ "access_list" \notin tx
  BY <1>1, <1>2, <1>3, <1>4, <1>10, <1>11, <1>14
     DEF TypedFields, TransactionType, DYNAMIC_FEE_TRANSACTION_PARAMS
<1> QED
  BY <1>12, <1>13, <1>14

(* Where a transaction is passes all validators of transactions.           *)
LEMMA MockPlacePasses ==
    ASSUME NEW is_pending \in BOOLEAN
    PROVE  /\ DOMAIN MockPlace(is_pending)
                = {"block_number", "block_hash", "transaction_index"}
           /\ normalize_dict(MockPlace(is_pending), TRANSACTION_NORMALIZERS)
           /\ normalize_dict(MockPlace(is_pending), LEGACY_TRANSACTION_VALIDATORS)
           /\ normalize_dict(MockPlace(is_pending), RECEIPT_VALIDATORS)
           /\ normalize_dict(MockPlace(is_pending), RECEIPT_NORMALIZERS)
<1>1. CASE is_pending
  <2>1. MockPlace(is_pending) = [block_number |-> Null, block_hash |-> Null,
                                 transaction_index |-> Null]
    BY <1>1 DEF MockPlace
  <2> QED
    BY <2>1, LegacyValidators, TransactionNormalizers, ReceiptNormalizers
       DEF normalize_dict, RECEIPT_VALIDATORS, Null, Some, if_not_null, AnyKind
<1>2. CASE ~is_pending
  <2>1. MockPlace(is_pending) = [block_number |-> Some("int"),
                                 block_hash |-> Some("bytes32"),
                                 transaction_index |-> Some("int")]
    BY <1>2 DEF MockPlace
  <2> QED
    BY <2>1, LegacyValidators, TransactionNormalizers, ReceiptNormalizers
       DEF normalize_dict, RECEIPT_VALIDATORS, Some, if_not_null, Ints, AnyBytes,
           AnyKind
<1> QED
  BY <1>1, <1>2

(* The answer about a transaction is returned, has the type of its fields, *)
(* and the keys that the transaction was sent with.                        *)
(* (serialize_full_transaction)                                            *)
LEMMA MockTransactionPasses ==
    ASSUME NEW tx \in Transactions, NEW is_pending \in BOOLEAN
    PROVE  LET full == serialize_full_transaction(tx, is_pending)
           IN  /\ TransactionReturned(full)
               /\ full["type"] = Of("hex_type", TransactionType(create_transaction[tx]))
               /\ tx \ (IF full["type"].val = 0 THEN {"chain_id"} ELSE {})
                    \subseteq DOMAIN full
<1>1. PICK place, typed, parity, fields, fee, type, full :
         /\ full = serialize_full_transaction(tx, is_pending)
         /\ full = place ++ typed ++ parity ++ fields ++ fee
         /\ place = MockPlace(is_pending)
         /\ typed = [type |-> Of("hex_type", type)]
         /\ parity = IF type > 0 THEN [y_parity |-> fields["v"]] ELSE NoFields
         /\ fields = create_transaction[tx]
         /\ fee = [gas_price |-> Some("int")]
         /\ type = TransactionType(fields)
  BY DEF serialize_full_transaction
<1> DEFINE common == {"nonce", "value", "gas", "r", "s", "v", "from", "data",
                      "hash", "to"}
<1>2. /\ \/ /\ type = 0 /\ ~IsDynamicFee(tx) /\ "access_list" \notin tx
            /\ DOMAIN fields = common \cup {"gas_price"}
         \/ /\ type = 1 /\ ~IsDynamicFee(tx)
            /\ DOMAIN fields = common \cup {"gas_price", "chain_id", "access_list"}
         \/ /\ type = 2 /\ IsDynamicFee(tx)
            /\ DOMAIN fields = common \cup DYNAMIC_FEE_TRANSACTION_PARAMS
                                 \cup {"chain_id", "access_list"}
      /\ \A key \in DOMAIN fields \cap
            ({"nonce", "value", "gas", "r", "s", "gas_price", "chain_id"}
             \cup DYNAMIC_FEE_TRANSACTION_PARAMS) : fields[key].is = "int"
      /\ fields["v"] = Some("bit") /\ fields["from"].is = "address"
      /\ fields["data"].is = "data" /\ fields["hash"].is = "bytes32"
      /\ fields["to"].is \in {"address", "empty"}
      /\ "access_list" \in DOMAIN fields =>
            fields["access_list"].is = "access_list"
  BY <1>1, FieldsOf
<1>3. /\ DOMAIN place = {"block_number", "block_hash", "transaction_index"}
      /\ DOMAIN typed = {"type"} /\ DOMAIN fee = {"gas_price"}
  BY <1>1, MockPlacePasses
<1>4. /\ type = 0 => DOMAIN parity = {}
      /\ type > 0 => /\ DOMAIN parity = {"y_parity"}
                     /\ parity["y_parity"] = Some("bit")
  BY <1>1, <1>2 DEF NoFields
<1>5. DOMAIN full = DOMAIN place \cup DOMAIN typed \cup DOMAIN parity
                    \cup DOMAIN fields \cup DOMAIN fee
  <2>1. DOMAIN (place ++ typed) = DOMAIN place \cup DOMAIN typed
    BY MergedKeys
  <2>2. DOMAIN (place ++ typed ++ parity)
          = DOMAIN (place ++ typed) \cup DOMAIN parity
    BY MergedKeys
  <2>3. DOMAIN (place ++ typed ++ parity ++ fields)
          = DOMAIN (place ++ typed ++ parity) \cup DOMAIN fields
    BY MergedKeys
  <2>4. DOMAIN (place ++ typed ++ parity ++ fields ++ fee)
          = DOMAIN (place ++ typed ++ parity ++ fields) \cup DOMAIN fee
    BY MergedKeys
  <2> QED
    BY <1>1, <2>1, <2>2, <2>3, <2>4
<1>6. full["type"] = Of("hex_type", type)
  <2>1. typed["type"] = Of("hex_type", type) /\ "type" \in DOMAIN typed
    BY <1>1
  <2>2. "type" \notin DOMAIN place
    BY <1>3
  <2>3. PICK two : two = place ++ typed
    OBVIOUS
  <2>4. "type" \in DOMAIN two /\ two["type"] = typed["type"]
    BY <2>1, <2>2, <2>3, MergeRight
  <2>5. PICK three : three = two ++ parity
    OBVIOUS
  <2>6. "type" \in DOMAIN three /\ three["type"] = two["type"]
    BY <2>4, <2>5, MergeLeft
  <2>7. PICK four : four = three ++ fields
    OBVIOUS
  <2>8. "type" \in DOMAIN four /\ four["type"] = three["type"]
    BY <2>6, <2>7, MergeLeft
  <2>9. full = four ++ fee
    BY <1>1, <2>3, <2>5, <2>7
  <2>10. full["type"] = four["type"]
    BY <2>8, <2>9, MergeLeft
  <2> QED
    BY <2>1, <2>4, <2>6, <2>8, <2>10
<1>7. ASSUME NEW validators,
             normalize_dict(place, validators), normalize_dict(typed, validators),
             normalize_dict(parity, validators), normalize_dict(fields, validators),
             normalize_dict(fee, validators)
      PROVE  normalize_dict(full, validators)
  <2>1. normalize_dict(place ++ typed, validators)
    BY <1>7, NormalizeParts
  <2>2. normalize_dict(place ++ typed ++ parity, validators)
    BY <1>7, <2>1, NormalizeParts
  <2>3. normalize_dict(place ++ typed ++ parity ++ fields, validators)
    BY <1>7, <2>2, NormalizeParts
  <2> QED
    BY <1>1, <1>7, <2>3, NormalizeParts
<1>8. normalize_dict(full, TRANSACTION_NORMALIZERS)
  <2>1. normalize_dict(place, TRANSACTION_NORMALIZERS)
    BY <1>1, MockPlacePasses
  <2>2. /\ normalize_dict(typed, TRANSACTION_NORMALIZERS)
        /\ normalize_dict(fee, TRANSACTION_NORMALIZERS)
    BY <1>1, TransactionNormalizers DEF normalize_dict, Some, Of, AnyKind, Ints
  <2>3. normalize_dict(parity, TRANSACTION_NORMALIZERS)
    BY <1>2, <1>4, TransactionNormalizers DEF normalize_dict, Some, AnyKind, Ints
  <2>4. normalize_dict(fields, TRANSACTION_NORMALIZERS)
    BY <1>2, TransactionNormalizers
       DEF normalize_dict, Some, AnyKind, AnyBytes, Ints,
           DYNAMIC_FEE_TRANSACTION_PARAMS
  <2> QED
    BY <1>7, <2>1, <2>2, <2>3, <2>4
<1>9. \E validators \in TransactionValidators :
         DOMAIN full = DOMAIN validators /\ normalize_dict(full, validators)
  <2>1. /\ normalize_dict(place, LEGACY_TRANSACTION_VALIDATORS)
        /\ normalize_dict(typed, LEGACY_TRANSACTION_VALIDATORS)
        /\ normalize_dict(fee, LEGACY_TRANSACTION_VALIDATORS)
    BY <1>1, MockPlacePasses, LegacyValidators DEF normalize_dict, Some, Of, Ints
  <2>2. "v" \notin DOMAIN place /\ "v" \notin DOMAIN typed /\ "v" \notin DOMAIN fee
    BY <1>3
  <2>3. ASSUME NEW part \in {place, typed, fee}
        PROVE  /\ normalize_dict(part, ACCESS_LIST_TRANSACTION_VALIDATORS)
               /\ normalize_dict(part, DYNAMIC_FEE_TRANSACTION_VALIDATORS)
    BY <2>1, <2>2, AccessListValidators, DynamicFeeValidators DEF normalize_dict
  <2>4. CASE type = 0
    <3>1. DOMAIN full = DOMAIN LEGACY_TRANSACTION_VALIDATORS
      BY <1>2, <1>3, <1>4, <1>5, <2>4, LegacyValidators
    <3>2. normalize_dict(parity, LEGACY_TRANSACTION_VALIDATORS)
      BY <1>4, <2>4 DEF normalize_dict
    <3>3. normalize_dict(fields, LEGACY_TRANSACTION_VALIDATORS)
      BY <1>2, <2>4, LegacyValidators
         DEF normalize_dict, Some, Ints, AnyBytes, if_not_create_address
    <3>4. normalize_dict(full, LEGACY_TRANSACTION_VALIDATORS)
      BY <1>7, <2>1, <3>2, <3>3
    <3> QED
      BY <3>1, <3>4 DEF TransactionValidators
  <2>5. CASE type = 1
    <3>1. DOMAIN full = DOMAIN ACCESS_LIST_TRANSACTION_VALIDATORS
      BY <1>2, <1>3, <1>4, <1>5, <2>5, LegacyValidators, AccessListValidators
    <3>2. normalize_dict(parity, ACCESS_LIST_TRANSACTION_VALIDATORS)
      BY <1>4, <2>5, AccessListValidators DEF normalize_dict, Some
    <3>3. normalize_dict(fields, ACCESS_LIST_TRANSACTION_VALIDATORS)
      BY <1>2, <2>5, LegacyValidators, AccessListValidators
         DEF normalize_dict, Some, Ints, AnyBytes, if_not_create_address
    <3>4. normalize_dict(full, ACCESS_LIST_TRANSACTION_VALIDATORS)
      BY <1>7, <2>3, <3>2, <3>3
    <3> QED
      BY <3>1, <3>4 DEF TransactionValidators
  <2>6. CASE type = 2
    <3>1. DOMAIN full = DOMAIN DYNAMIC_FEE_TRANSACTION_VALIDATORS
      BY <1>2, <1>3, <1>4, <1>5, <2>6, LegacyValidators, AccessListValidators,
         DynamicFeeValidators DEF DYNAMIC_FEE_TRANSACTION_PARAMS
    <3>2. normalize_dict(parity, DYNAMIC_FEE_TRANSACTION_VALIDATORS)
      BY <1>4, <2>6, AccessListValidators, DynamicFeeValidators
         DEF normalize_dict, Some
    <3>3. normalize_dict(fields, DYNAMIC_FEE_TRANSACTION_VALIDATORS)
      BY <1>2, <2>6, LegacyValidators, AccessListValidators, DynamicFeeValidators
         DEF normalize_dict, Some, Ints, AnyBytes, if_not_create_address,
             DYNAMIC_FEE_TRANSACTION_PARAMS
    <3>4. normalize_dict(full, DYNAMIC_FEE_TRANSACTION_VALIDATORS)
      BY <1>7, <2>3, <3>2, <3>3
    <3> QED
      BY <3>1, <3>4 DEF TransactionValidators
  <2> QED
    BY <1>2, <2>4, <2>5, <2>6
<1>10. TransactionReturned(full)
  BY <1>8, <1>9, ReturnedWhenValid
<1>11. tx \ (IF type = 0 THEN {"chain_id"} ELSE {}) \subseteq DOMAIN full
  <2>1. tx \subseteq OptionalKeys
    BY SentAssumption
  <2>2. type # 2 => DYNAMIC_FEE_TRANSACTION_PARAMS \cap tx = {}
    BY <1>2 DEF IsDynamicFee
  <2>3. \A key \in OptionalKeys :
           key \in DOMAIN full \/ (type = 0 /\ key \in {"chain_id", "access_list"})
           \/ (type # 2 /\ key \in DYNAMIC_FEE_TRANSACTION_PARAMS)
    BY <1>2, <1>3, <1>5 DEF OptionalKeys, DYNAMIC_FEE_TRANSACTION_PARAMS
  <2> QED
    BY <1>2, <2>1, <2>2, <2>3
<1>12. full["type"].val = type
  BY <1>6 DEF Of
<1> QED
  BY <1>1, <1>6, <1>10, <1>11, <1>12

(* The receipt of a transaction is returned, with the transaction's type.  *)
(* (make_receipt, serialize_receipt)                                       *)
LEMMA MockReceiptPasses ==
    ASSUME NEW tx \in Transactions, NEW is_pending \in BOOLEAN
    PROVE  LET receipt == serialize_receipt(tx, is_pending)
           IN  /\ ReceiptReturned(receipt, << >>)
               /\ receipt["type"]
                    = Of("hex_type", TransactionType(create_transaction[tx]))
<1>1. PICK place, own, made, receipt, recipient, type :
         /\ receipt = serialize_receipt(tx, is_pending)
         /\ receipt = place ++ own ++ made
         /\ place = MockPlace(is_pending)
         /\ recipient = create_transaction[tx]["to"]
         /\ type = TransactionType(create_transaction[tx])
         /\ own = [from |-> Some("address"), state_root |-> Some("data"),
                   status |-> Of("bit", 0), to |-> recipient]
         /\ made = [gas_used |-> Some("int"), cumulative_gas_used |-> Some("int"),
                    effective_gas_price |-> Some("int"), logs |-> Some("logs"),
                    transaction_hash |-> Some("bytes32"),
                    contract_address |-> Some("address"),
                    type |-> Of("hex_type", type)]
  BY DEF serialize_receipt, make_receipt
<1>2. recipient.is \in {"address", "empty"}
  BY <1>1, FieldsOf
<1>3. /\ DOMAIN place = {"block_number", "block_hash", "transaction_index"}
      /\ DOMAIN own = {"from", "state_root", "status", "to"}
      /\ DOMAIN made = {"gas_used", "cumulative_gas_used", "effective_gas_price",
                        "logs", "transaction_hash", "contract_address", "type"}
  BY <1>1, MockPlacePasses
<1>4. DOMAIN receipt = DOMAIN RECEIPT_VALIDATORS
  <2>1. DOMAIN (place ++ own) = DOMAIN place \cup DOMAIN own
    BY MergedKeys
  <2>2. DOMAIN (place ++ own ++ made) = DOMAIN (place ++ own) \cup DOMAIN made
    BY MergedKeys
  <2> QED
    BY <1>1, <1>3, <2>1, <2>2, ReceiptValidators
<1>5. receipt["type"] = made["type"]
  <2>1. PICK two : two = place ++ own
    OBVIOUS
  <2>2. DOMAIN two = DOMAIN place \cup DOMAIN own
    BY <2>1, MergedKeys
  <2>3. "type" \in DOMAIN made /\ "type" \notin DOMAIN two
    BY <1>3, <2>2
  <2> QED
    BY <1>1, <2>1, <2>3, MergeRight
<1>6. /\ normalize_dict(receipt, RECEIPT_VALIDATORS)
      /\ normalize_dict(receipt, RECEIPT_NORMALIZERS)
  <2>1. /\ normalize_dict(place, RECEIPT_VALIDATORS)
        /\ normalize_dict(place, RECEIPT_NORMALIZERS)
    BY <1>1, MockPlacePasses
  <2>2. /\ normalize_dict(own, RECEIPT_VALIDATORS)
        /\ normalize_dict(own, RECEIPT_NORMALIZERS)
    BY <1>1, <1>2, ReceiptNormalizers
       DEF normalize_dict, RECEIPT_VALIDATORS, Some, Of, if_not_create_address,
           Ints, AnyBytes, AnyKind
  <2>3. /\ normalize_dict(made, RECEIPT_VALIDATORS)
        /\ normalize_dict(made, RECEIPT_NORMALIZERS)
    BY <1>1, ReceiptNormalizers
       DEF normalize_dict, RECEIPT_VALIDATORS, Some, Of, if_not_null,
           Ints, AnyBytes, AnyKind
  <2>4. /\ normalize_dict(place ++ own, RECEIPT_VALIDATORS)
        /\ normalize_dict(place ++ own, RECEIPT_NORMALIZERS)
    BY <2>1, <2>2, NormalizeParts
  <2> QED
    BY <1>1, <2>3, <2>4, NormalizeParts
<1>7. validate_receipt(receipt, << >>)
  <2>1. validate_dict(receipt, RECEIPT_VALIDATORS)
    BY <1>4, <1>6, ValidateByKeys
  <2> QED
    BY <2>1 DEF validate_receipt
<1>8. normalize_dict(_normalize_contract_address(receipt), RECEIPT_NORMALIZERS)
  <2>1. CASE _normalize_contract_address(receipt) = receipt
    BY <1>6, <2>1
  <2>2. CASE _normalize_contract_address(receipt)
               = [receipt EXCEPT !["contract_address"] = Null]
    BY <1>6, <2>2, ReceiptNormalizers DEF normalize_dict, Null, Some, AnyKind
  <2> QED
    BY <2>1, <2>2 DEF _normalize_contract_address
<1>9. ReceiptReturned(receipt, << >>)
  BY <1>7, <1>8 DEF ReceiptReturned
<1> QED
  BY <1>1, <1>5, <1>9

(* Every block is returned: the genesis block with the fields of all       *)
(* forks, the others with those of Shanghai and before.                    *)
(* (make_genesis_block, make_block_from_parent)                            *)
LEMMA MockBlockPasses ==
    ASSUME NEW number \in Nat
    PROVE  BlockReturned(BlockFields(number))
<1> DEFINE Early == LondonKeys \cup ShanghaiKeys
           IntFields == IntKeys \cup {"base_fee_per_gas"}
           HashFields == HashKeys \cup {"withdrawals_root"}
<1>1. PICK ints, hashes, own, blobs, fields :
         /\ CommonBlockFields = ints ++ hashes ++ own
         /\ ints = Each(IntFields, Some("int"))
         /\ hashes = Each(HashFields, Some("bytes32"))
         /\ own = [nonce |-> Some("bytes8"), coinbase |-> Some("address"),
                   uncles |-> Some("bytes32_list"),
                   withdrawals |-> Some("withdrawals")]
         /\ blobs = [parent_beacon_block_root |-> Some("bytes32"),
                     blob_gas_used |-> Some("int"),
                     excess_blob_gas |-> Some("int")]
         /\ fields = ints ++ hashes ++ own
  <2>1. /\ IntFields = {"number", "logs_bloom", "difficulty", "total_difficulty",
                        "size", "gas_limit", "gas_used", "timestamp",
                        "base_fee_per_gas"}
        /\ HashFields = {"hash", "parent_hash", "sha3_uncles", "transactions_root",
                         "receipts_root", "state_root", "mix_hash", "extra_data",
                         "withdrawals_root"}
    BY DEF IntKeys, HashKeys
  <2> HIDE DEF IntFields, HashFields
  <2> QED
    BY <2>1 DEF CommonBlockFields
<1>2. /\ DOMAIN ints = IntFields /\ \A key \in IntFields : ints[key].is = "int"
      /\ DOMAIN hashes = HashFields
      /\ \A key \in HashFields : hashes[key].is = "bytes32"
  <2> HIDE DEF IntFields, HashFields
  <2> QED
    BY <1>1, EachKey DEF Some
<1>3. /\ DOMAIN own = {"nonce", "coinbase", "uncles", "withdrawals"}
      /\ own["nonce"].is = "bytes8" /\ own["coinbase"].is = "address"
      /\ own["uncles"].is = "bytes32_list"
      /\ own["withdrawals"].is = "withdrawals"
  BY <1>1 DEF Some
<1>4. /\ DOMAIN fields = DOMAIN ints \cup DOMAIN hashes \cup DOMAIN own
      /\ \A key \in DOMAIN ints : fields[key] = ints[key]
      /\ \A key \in DOMAIN hashes : fields[key] = hashes[key]
      /\ \A key \in DOMAIN own : fields[key] = own[key]
  <2>1. /\ DOMAIN hashes \cap DOMAIN ints = {}
        /\ DOMAIN own \cap (DOMAIN ints \cup DOMAIN hashes) = {}
    BY <1>2, <1>3 DEF IntKeys, HashKeys
  <2>2. PICK two : two = ints ++ hashes
    OBVIOUS
  <2>3. /\ DOMAIN two = DOMAIN ints \cup DOMAIN hashes
        /\ \A key \in DOMAIN ints : two[key] = ints[key]
        /\ \A key \in DOMAIN hashes : two[key] = hashes[key]
    <3>1. /\ DOMAIN (ints ++ hashes) = DOMAIN ints \cup DOMAIN hashes
          /\ \A key \in DOMAIN ints : (ints ++ hashes)[key] = ints[key]
          /\ \A key \in DOMAIN hashes : (ints ++ hashes)[key] = hashes[key]
      BY <2>1, MergeDisjoint
    <3> QED
      BY <2>2, <3>1
  <2>4. DOMAIN own \cap DOMAIN two = {}
    BY <2>1, <2>3
  <2>5. /\ DOMAIN (two ++ own) = DOMAIN two \cup DOMAIN own
        /\ \A key \in DOMAIN two : (two ++ own)[key] = two[key]
        /\ \A key \in DOMAIN own : (two ++ own)[key] = own[key]
    BY <2>4, MergeDisjoint
  <2>6. fields = two ++ own
    BY <1>1, <2>2
  <2> QED
    BY <2>3, <2>5, <2>6
<1>5. /\ DOMAIN fields = IntKeys \cup HashKeys \cup {"nonce", "coinbase", "uncles"}
                        \cup Early
      /\ \A key \in IntKeys : fields[key].is = "int"
      /\ \A key \in HashKeys : fields[key].is = "bytes32"
      /\ fields["nonce"].is = "bytes8" /\ fields["coinbase"].is = "address"
      /\ fields["uncles"].is = "bytes32_list"
      /\ fields["base_fee_per_gas"].is = "int"
      /\ fields["withdrawals"].is = "withdrawals"
      /\ fields["withdrawals_root"].is = "bytes32"
  BY <1>2, <1>3, <1>4 DEF LondonKeys, ShanghaiKeys
<1>6. \A key \in Early : fields[key].is \in ForkValidators[key]
  BY <1>5, ForkValidatorsOf DEF LondonKeys, ShanghaiKeys, Ints
<1>7. fields = [key \in DOMAIN fields |-> fields[key]]
  BY <1>1, MergedFunction
<1>8. CASE number # 0
  <2>1. BlockFields(number) = fields
    BY <1>1, <1>8 DEF BlockFields
  <2>2. BlockReturned(fields)
    <3> HIDE DEF Early
    <3>1. Early \in {{}, LondonKeys, LondonKeys \cup ShanghaiKeys, ForkKeys}
      BY DEF Early
    <3> QED
      BY <1>5, <1>6, <1>7, <3>1, BlockPasses
  <2> QED
    BY <2>1, <2>2
<1>9. CASE number = 0
  <2>1. PICK full : full = fields ++ blobs
    OBVIOUS
  <2>2. BlockFields(number) = full
    BY <1>1, <1>9, <2>1 DEF BlockFields, GenesisFields
  <2>3. /\ DOMAIN blobs = CancunKeys
        /\ blobs["parent_beacon_block_root"].is = "bytes32"
        /\ blobs["blob_gas_used"].is = "int"
        /\ blobs["excess_blob_gas"].is = "int"
    BY <1>1 DEF CancunKeys, Some
  <2>4. DOMAIN blobs \cap DOMAIN fields = {}
    BY <1>5, <2>3 DEF IntKeys, HashKeys, LondonKeys, ShanghaiKeys, CancunKeys
  <2>5. /\ DOMAIN full = DOMAIN fields \cup CancunKeys
        /\ \A key \in DOMAIN fields : full[key] = fields[key]
        /\ \A key \in CancunKeys : full[key] = blobs[key]
    <3>1. /\ DOMAIN (fields ++ blobs) = DOMAIN fields \cup DOMAIN blobs
          /\ \A key \in DOMAIN fields : (fields ++ blobs)[key] = fields[key]
          /\ \A key \in DOMAIN blobs : (fields ++ blobs)[key] = blobs[key]
      BY <2>4, MergeDisjoint
    <3> QED
      BY <2>1, <2>3, <3>1
  <2>6. DOMAIN full = IntKeys \cup HashKeys \cup {"nonce", "coinbase", "uncles"}
                      \cup ForkKeys
    BY <1>5, <2>5 DEF ForkKeys
  <2>7. /\ \A key \in IntKeys : full[key].is = "int"
        /\ \A key \in HashKeys : full[key].is = "bytes32"
        /\ full["nonce"].is = "bytes8" /\ full["coinbase"].is = "address"
        /\ full["uncles"].is = "bytes32_list"
    BY <1>5, <2>5
  <2>8. \A key \in ForkKeys : full[key].is \in ForkValidators[key]
    <3>1. \A key \in Early : full[key].is \in ForkValidators[key]
      BY <1>5, <1>6, <2>5
    <3>2. \A key \in CancunKeys : full[key].is \in ForkValidators[key]
      BY <2>3, <2>5, ForkValidatorsOf DEF CancunKeys, Ints
    <3> QED
      BY <3>1, <3>2 DEF ForkKeys
  <2>9. full = [key \in DOMAIN full |-> full[key]]
    BY <2>1, MergedFunction
  <2>10. BlockReturned(full)
    <3>1. ForkKeys \in {{}, LondonKeys, LondonKeys \cup ShanghaiKeys, ForkKeys}
      OBVIOUS
    <3> QED
      BY <2>6, <2>7, <2>8, <2>9, <3>1, BlockPasses
  <2> QED
    BY <2>2, <2>10
<1> QED
  BY <1>8, <1>9

(* Every block, transaction and receipt of MockBackend, mined or pending,  *)
(* passes the outbound checks of the facade and keeps its fields; a        *)
(* transaction is reported with every key it was sent with (the chain id   *)
(* of a legacy transaction excepted), and with one type by all of them.    *)
(* (serialize_block, serialize_full_transaction, serialize_receipt)        *)
THEOREM MockAnswersAlwaysReturned == SpecOnce => []MockAnswersReturned
<1>1. HistoryInv => MockAnswersReturned
  <2> SUFFICES ASSUME HistoryInv,
                      NEW all, all = Append(MinedBlocks, PendingBlock),
                      NEW n \in DOMAIN all
               PROVE  /\ BlockReturned(BlockFields(all[n].number))
                      /\ \A i \in DOMAIN all[n].txs :
                            AnswersFor[all[n].txs[i]]
                                      [all[n].number = PendingBlock.number]
    BY DEF MockAnswersReturned
  <2>1. MinedBlocks \in Seq(BlockType) /\ PendingBlock \in BlockType
    BY CurrentTyped DEF HistoryInv
  <2>2. all[n] \in BlockType
    BY <2>1
  <2>3. PICK is_pending \in BOOLEAN :
          is_pending = (all[n].number = PendingBlock.number)
    OBVIOUS
  <2>4. ASSUME NEW i \in DOMAIN all[n].txs
        PROVE  AnswersFor[all[n].txs[i]][is_pending]
    <3>1. PICK tx \in Transactions : tx = all[n].txs[i]
      BY <2>2 DEF BlockType
    <3>2. PICK full, receipt :
            /\ full = serialize_full_transaction(tx, is_pending)
            /\ receipt = serialize_receipt(tx, is_pending)
      OBVIOUS
    <3>3. /\ TransactionReturned(full)
          /\ tx \ (IF full["type"].val = 0 THEN {"chain_id"} ELSE {}) \subseteq DOMAIN full
          /\ ReceiptReturned(receipt, << >>)
          /\ receipt["type"] = full["type"]
      BY <3>2, MockTransactionPasses, MockReceiptPasses
    <3>4. AnswersFor[tx][is_pending]
            = LET f == serialize_full_transaction(tx, is_pending)
                  r == serialize_receipt(tx, is_pending)
                  left_out == IF f["type"].val = 0 THEN {"chain_id"} ELSE {}
              IN  /\ TransactionReturned(f)
                  /\ tx \ left_out \subseteq DOMAIN f
                  /\ ReceiptReturned(r, << >>)
                  /\ r["type"] = f["type"]
      BY Zenon DEF AnswersFor
    <3> QED
      BY <3>1, <3>2, <3>3, <3>4
  <2>5. BlockReturned(BlockFields(all[n].number))
    BY <2>2, MockBlockPasses DEF BlockType
  <2> QED
    BY <2>3, <2>4, <2>5
<1> QED
  BY HistoryInvariant, <1>1, PTL
=============================================================================

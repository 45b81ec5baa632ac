------------------------ MODULE AccountState_proofs ------------------------
(***************************************************************************)
(* Theorems about accounts, for all accounts, genesis states and bounds.   *)
(* Of AccountState: the type invariant, what is true of passwords, that a  *)
(* transaction with a priority fee only runs in the pending block, that a  *)
(* fee history agrees with base fees and gas, and that nonces count the    *)
(* transactions.  Of MCAccounts: that what the reading calls answered      *)
(* about a mined block is answered again until a revert or a reset, and    *)
(* after a revert, and that the genesis state and the keys fit together.   *)
(***************************************************************************)
EXTENDS MCAccounts, SequenceTheorems, FiniteSetTheorems, TLAPS

Accounts == [balance : {0, 1}, nonce : Nat]
States == UNION { [A -> Accounts] : A \in SUBSET Keys }

BlockRecords ==
    [number : Nat, state : States, fee : Nat \ {0},
     senders : Seq(Keys), used : Seq(Keys)]

(* A block lists the transactions whose gas it has used, or none.          *)
Blocks ==
    { b \in BlockRecords :
        Len(b.used) <= GasLimit /\ b.senders \in {<< >>, b.used} }

(* The blocks up to some head: block n is at n + 1.                        *)
Chains ==
    { c \in Seq(Blocks) : Len(c) > 0 /\ \A n \in 1..Len(c) : c[n].number = n - 1 }

Snapshots == [blocks : Chains, keys : Seq(Keys)]

(* What is true of a pending block and the block that it is built on.      *)
Follows(b, parent) ==
    /\ b.number = parent.number + 1
    /\ b.fee = NextFee(parent.fee, Len(parent.used))
    /\ \A a \in Keys :
          /\ NonceIn(b.state, a) >= NonceIn(parent.state, a)
          /\ NonceIn(b.state, a) = NonceIn(parent.state, a)
                <=> a \notin ToSet(b.used)

(* The two halves of the inductive invariant.                              *)
AccountsInv ==
    /\ backend \in {"pyevm", "mock"}
    /\ keys \in Seq(Keys)
    /\ DOMAIN passwords \subseteq Added /\ unlocked \subseteq DOMAIN passwords
    /\ snapshots \in Seq(Snapshots)

ChainInv ==
    /\ canonical \in Chains
    /\ block \in Blocks
    /\ block.number \in 1..Len(canonical)
    /\ block.senders = block.used
    /\ Follows(block, LatestBlock)

-----------------------------------------------------------------------------
(* Base fees.                                                              *)

(* Half the block's gas is at least one transaction's.                     *)
LEMMA GasTargetPositive ==
    GasTarget \in Nat /\ GasTarget > 0 /\ GasLimit = 2 * GasTarget
BY FeeAssumption DEF GasTarget

(* The share of the fee that the next block's fee may differ by.           *)
LEMMA FeeShare ==
    ASSUME NEW fee \in Nat, NEW part \in Nat, part <= GasTarget
    PROVE  (fee * part) \div GasTarget \in Nat /\ (fee * part) \div GasTarget <= fee
<1> DEFINE T == GasTarget
           q == (fee * part) \div T
<1>1. T \in Nat /\ T > 0 /\ part <= T
  BY GasTargetPositive
<1>2. fee * part \in Nat /\ fee * part <= fee * T
  <2> HIDE DEF T
  <2>1. PICK rest \in Nat : T = part + rest
    <3>1. T - part \in Nat /\ T = part + (T - part)
      BY <1>1
    <3> QED
      BY <3>1
  <2>2. fee * T = fee * part + fee * rest
    BY <2>1
  <2>3. fee * part \in Nat /\ fee * rest \in Nat
    OBVIOUS
  <2> QED
    BY <2>2, <2>3
<1>3. q \in Nat /\ q * T <= fee * part
  <2> HIDE DEF T
  <2> QED
    BY <1>1, <1>2
<1>4. q <= fee
  <2>1. SUFFICES ASSUME q >= fee + 1 PROVE FALSE
    BY <1>3
  <2> HIDE DEF T, q
  <2>2. PICK more \in Nat : q = fee + 1 + more
    <3>1. q - (fee + 1) \in Nat /\ q = fee + 1 + (q - (fee + 1))
      BY <1>3, <2>1
    <3> QED
      BY <3>1
  <2>3. q * T = fee * T + T + more * T
    BY <1>1, <2>2
  <2>4. more * T \in Nat /\ fee * T \in Nat /\ q * T \in Nat
    BY <1>1, <1>3
  <2> QED
    BY <1>1, <1>2, <1>3, <2>3, <2>4
<1> QED
  BY <1>3, <1>4

(* A base fee never reaches 0, and at most doubles from block to block.    *)
LEMMA NextFeeBounds ==
    ASSUME NEW fee \in Nat \ {0}, NEW used \in Nat, used <= GasLimit
    PROVE  NextFee(fee, used) \in Nat \ {0} /\ NextFee(fee, used) <= 2 * fee
<1>1. GasTarget \in Nat /\ GasTarget > 0 /\ GasLimit = 2 * GasTarget
  BY GasTargetPositive
<1>2. CASE used = GasTarget
  BY <1>2 DEF NextFee
<1>3. CASE used > GasTarget
  <2> DEFINE q == (fee * (used - GasTarget)) \div GasTarget
  <2>1. q \in Nat /\ q <= fee
    <3>1. used - GasTarget \in Nat /\ used - GasTarget <= GasTarget
      BY <1>1, <1>3
    <3> QED
      BY <3>1, FeeShare
  <2>2. NextFee(fee, used) = fee + (IF q \div 8 > 1 THEN q \div 8 ELSE 1)
    BY <1>1, <1>3 DEF NextFee
  <2> QED
    <3> HIDE DEF q
    <3> QED
      BY <2>1, <2>2
<1>4. CASE used < GasTarget
  <2> DEFINE q == (fee * (GasTarget - used)) \div GasTarget
  <2>1. q \in Nat /\ q <= fee
    <3>1. GasTarget - used \in Nat /\ GasTarget - used <= GasTarget
      BY <1>1, <1>4
    <3> QED
      BY <3>1, FeeShare
  <2>2. NextFee(fee, used) = fee - (q \div 8)
    BY <1>1, <1>4 DEF NextFee
  <2> QED
    <3> HIDE DEF q
    <3> QED
      BY <2>1, <2>2
<1> QED
  BY <1>1, <1>2, <1>3, <1>4

-----------------------------------------------------------------------------
(* Account states and blocks.                                              *)

LEMMA IsStateIsStates ==
    ASSUME NEW state, IsState(state)
    PROVE  state \in States
BY DEF IsState, States, Accounts

(* What a nonce or a balance may be.                                       *)
LEMMA NonceInNat ==
    ASSUME NEW state \in States, NEW a
    PROVE  NonceIn(state, a) \in Nat /\ BalanceIn(state, a) \in {0, 1}
<1>1. PICK A \in SUBSET Keys : state \in [A -> Accounts]
  BY DEF States
<1>2. CASE a \in A
  <2>1. state[a] \in Accounts
    BY <1>1, <1>2
  <2> QED
    BY <1>1, <1>2, <2>1 DEF NonceIn, BalanceIn, Accounts
<1>3. CASE a \notin A
  BY <1>1, <1>3 DEF NonceIn, BalanceIn
<1> QED
  BY <1>2, <1>3

(* Touching one account gives a state, and leaves the nonces of the others *)
LEMMA TouchedState ==
    ASSUME NEW state \in States, NEW account \in Keys,
           NEW balance \in {0, 1}, NEW nonce \in Nat
    PROVE  /\ Touched(state, account, balance, nonce) \in States
           /\ \A a \in Keys :
                 NonceIn(Touched(state, account, balance, nonce), a)
                    = IF a = account THEN nonce ELSE NonceIn(state, a)
<1> DEFINE new == Touched(state, account, balance, nonce)
<1>1. PICK A \in SUBSET Keys : state \in [A -> Accounts]
  BY DEF States
<1>2. new = [ k \in A \cup {account} |->
                IF k = account THEN [balance |-> balance, nonce |-> nonce]
                ELSE state[k] ]
  BY <1>1 DEF Touched, Assigned
<1>3. [balance |-> balance, nonce |-> nonce] \in Accounts
  BY DEF Accounts
<1>4. new \in [A \cup {account} -> Accounts]
  BY <1>1, <1>2, <1>3
<1>5. new \in States
  <2>1. A \cup {account} \in SUBSET Keys
    BY <1>1
  <2> QED
    BY <1>4, <2>1 DEF States
<1>6. ASSUME NEW a \in Keys
      PROVE  NonceIn(new, a) = IF a = account THEN nonce ELSE NonceIn(state, a)
  <2> HIDE DEF new
  <2>1. DOMAIN new = A \cup {account} /\ DOMAIN state = A
    BY <1>1, <1>2
  <2>2. CASE a = account
    BY <1>2, <2>1, <2>2 DEF NonceIn
  <2>3. CASE a # account
    BY <1>2, <2>1, <2>3 DEF NonceIn
  <2> QED
    BY <2>2, <2>3
<1> QED
  BY <1>5, <1>6

(* The empty sequence and Append, for the elements of a sequence.          *)
LEMMA ElementsOfAppend ==
    ASSUME NEW S, NEW s \in Seq(S), NEW x \in S
    PROVE  /\ ToSet(Append(s, x)) = ToSet(s) \cup {x}
           /\ DOMAIN Append(s, x) = 1..Len(s) + 1
<1>1. /\ Append(s, x) \in Seq(S) /\ Len(Append(s, x)) = Len(s) + 1
      /\ \A i \in 1..Len(s) : Append(s, x)[i] = s[i]
      /\ Append(s, x)[Len(s) + 1] = x
      /\ DOMAIN Append(s, x) = 1..Len(s) + 1
      /\ DOMAIN s = 1..Len(s) /\ Len(s) \in Nat
  BY AppendProperties, LenProperties
<1>2. \A i \in 1..Len(s) + 1 : i \in 1..Len(s) \/ i = Len(s) + 1
  BY <1>1
<1>3. \A i \in 1..Len(s) : i \in 1..Len(s) + 1
  BY <1>1
<1>4. Len(s) + 1 \in 1..Len(s) + 1
  BY <1>1
<1> QED
  BY <1>1, <1>2, <1>3, <1>4 DEF ToSet

LEMMA ElementsInSet ==
    ASSUME NEW S, NEW s \in Seq(S)
    PROVE  ToSet(s) \subseteq S
BY LenProperties, ElementOfSeq DEF ToSet

LEMMA NoElements == ToSet(<< >>) = {}
BY DEF ToSet

(* The block that is made from a block follows it.                         *)
LEMMA ChildFollows ==
    ASSUME NEW parent \in Blocks
    PROVE  /\ Child(parent) \in Blocks
           /\ Child(parent).senders = Child(parent).used
           /\ Follows(Child(parent), parent)
<1> DEFINE child == Child(parent)
<1>1. /\ parent.number \in Nat /\ parent.state \in States
      /\ parent.fee \in Nat \ {0} /\ parent.used \in Seq(Keys)
      /\ Len(parent.used) <= GasLimit
  BY DEF Blocks, BlockRecords
<1>2. /\ child = [number |-> parent.number + 1, state |-> parent.state,
                   fee |-> NextFee(parent.fee, Len(parent.used)),
                   senders |-> << >>, used |-> << >>]
  BY DEF Child
<1>3. NextFee(parent.fee, Len(parent.used)) \in Nat \ {0}
  BY <1>1, NextFeeBounds, LenProperties
<1>4. << >> \in Seq(Keys) /\ Len(<< >>) <= GasLimit
  BY EmptySeq, FeeAssumption
<1>5. child \in Blocks
  <2> HIDE DEF child
  <2>1. child \in BlockRecords
    BY <1>1, <1>2, <1>3, <1>4 DEF BlockRecords
  <2> QED
    BY <1>2, <1>4, <2>1 DEF Blocks, BlockRecords
<1>6. Follows(child, parent)
  <2> HIDE DEF child
  <2>1. \A a \in Keys : NonceIn(parent.state, a) \in Nat
    BY <1>1, NonceInNat
  <2> QED
    BY <1>2, <2>1, NoElements DEF Follows
<1> QED
  BY <1>2, <1>5, <1>6

(* The chain of a genesis block.                                           *)
LEMMA GenesisChain ==
    ASSUME NEW state \in States
    PROVE  /\ GenesisBlock(state) \in Blocks
           /\ <<GenesisBlock(state)>> \in Chains
           /\ Child(GenesisBlock(state)).number = 1
<1>1. GenesisBlock(state) \in Blocks
  BY EmptySeq, FeeAssumption DEF GenesisBlock, Blocks, BlockRecords
<1>2. GenesisBlock(state).number = 0
  BY DEF GenesisBlock
<1> QED
  BY <1>1, <1>2 DEF Chains, Child

-----------------------------------------------------------------------------
(* The inductive invariant.                                                *)

LEMMA EmptyState == << >> \in States
<1>1. << >> \in [{} -> Accounts]
  OBVIOUS
<1> QED
  BY <1>1 DEF States

LEMMA GenesisAccounts ==
    ASSUME NEW genesis \in Geneses
    PROVE  genesis.keys \in Seq(Keys) /\ genesis.state \in States
BY AccountsAssumption, IsStateIsStates

(* The latest block is below the pending one, in the table.                *)
LEMMA LatestIsBlock ==
    ASSUME ChainInv
    PROVE  LatestBlock \in Blocks /\ LatestBlock.number + 1 = block.number
<1>1. canonical \in Seq(Blocks) /\ block.number \in 1..Len(canonical)
  BY DEF ChainInv, Chains
<1>2. LatestBlock \in Blocks
  BY <1>1, ElementOfSeq DEF LatestBlock
<1> QED
  BY <1>2 DEF ChainInv, Follows, Blocks, BlockRecords

LEMMA InitInv == Init => AccountsInv /\ ChainInv
<1>1. ASSUME InitLocal PROVE DOMAIN passwords \subseteq Added /\ unlocked \subseteq DOMAIN passwords
                             /\ snapshots \in Seq(Snapshots)
  BY <1>1, EmptySeq DEF InitLocal, NoPasswords
<1>2. ASSUME NEW state \in States,
             canonical = <<GenesisBlock(state)>>, block = Child(GenesisBlock(state))
      PROVE  ChainInv
  <2>1. canonical \in Chains /\ Len(canonical) = 1 /\ block.number = 1
    BY <1>2, GenesisChain
  <2>2. LatestBlock = GenesisBlock(state)
    BY <1>2, <2>1 DEF LatestBlock
  <2>3. /\ block \in Blocks /\ Follows(block, LatestBlock)
        /\ block.senders = block.used
    BY <1>2, <2>2, GenesisChain, ChildFollows
  <2> QED
    BY <2>1, <2>3 DEF ChainInv
<1>3. ASSUME InitLocal, InitMock PROVE AccountsInv /\ ChainInv
  BY <1>1, <1>2, <1>3, EmptyState, AccountsAssumption DEF InitMock, AccountsInv
<1>4. ASSUME InitLocal, NEW genesis \in Geneses, InitPyEVM(genesis)
      PROVE  AccountsInv /\ ChainInv
  BY <1>1, <1>2, <1>4, GenesisAccounts DEF InitPyEVM, AccountsInv
<1> QED
  BY <1>3, <1>4 DEF Init

(* The table once b is mined: b at its number, the others where they were. *)
LEMMA MinedTable ==
    ASSUME ChainInv, NEW b \in Blocks, b.number = block.number, Mine(b)
    PROVE  /\ canonical' \in Seq(Blocks)
           /\ b.number + 1 \in 1..Len(canonical')
           /\ canonical'[b.number + 1] = b
           /\ \A n \in 1..Len(canonical') :
                 n # b.number + 1 => n \in 1..Len(canonical) /\ canonical'[n] = canonical[n]
<1>1. /\ canonical \in Seq(Blocks) /\ Len(canonical) \in Nat
      /\ b.number \in 1..Len(canonical) /\ b.number \in Nat
  BY LenProperties DEF ChainInv, Chains
<1>2. CASE b.number < Len(canonical)
  <2>1. canonical' = [canonical EXCEPT ![b.number + 1] = b]
    BY <1>2 DEF Mine
  <2>2. b.number + 1 \in 1..Len(canonical)
    BY <1>1, <1>2
  <2>3. /\ canonical' \in Seq(Blocks) /\ Len(canonical') = Len(canonical)
        /\ \A n \in 1..Len(canonical) :
              canonical'[n] = IF n = b.number + 1 THEN b ELSE canonical[n]
    BY <1>1, <2>1, <2>2, ExceptSeq
  <2> QED
    BY <2>2, <2>3
<1>3. CASE ~(b.number < Len(canonical))
  <2>1. canonical' = Append(canonical, b)
    BY <1>3 DEF Mine
  <2>2. b.number = Len(canonical)
    BY <1>1, <1>3
  <2>3. /\ canonical' \in Seq(Blocks) /\ Len(canonical') = Len(canonical) + 1
        /\ \A n \in 1..Len(canonical) : canonical'[n] = canonical[n]
        /\ canonical'[Len(canonical) + 1] = b
    BY <1>1, <2>1, AppendProperties
  <2>4. \A n \in 1..Len(canonical) + 1 :
           n # Len(canonical) + 1 => n \in 1..Len(canonical)
    BY <1>1
  <2>5. Len(canonical) + 1 \in 1..Len(canonical) + 1
    BY <1>1
  <2> QED
    BY <2>2, <2>3, <2>4, <2>5
<1> QED
  BY <1>2, <1>3

(* Mining b, which is the pending block or has other balances.             *)
LEMMA MineKeepsChain ==
    ASSUME ChainInv, NEW b \in Blocks, b.number = block.number, Mine(b)
    PROVE  ChainInv'
<1>1. /\ \A n \in 1..Len(canonical) : canonical[n].number = n - 1
      /\ b.number \in Nat
  BY DEF ChainInv, Chains, Blocks, BlockRecords
<1>2. /\ canonical' \in Seq(Blocks) /\ Len(canonical') \in Nat
      /\ b.number + 1 \in 1..Len(canonical')
      /\ canonical'[b.number + 1] = b
      /\ \A n \in 1..Len(canonical') :
            n # b.number + 1 => n \in 1..Len(canonical) /\ canonical'[n] = canonical[n]
  BY MinedTable, LenProperties
<1>3. Len(canonical') > 0
  BY <1>1, <1>2
<1>4. ASSUME NEW n \in 1..Len(canonical')
      PROVE  canonical'[n].number = n - 1
  <2>1. CASE n = b.number + 1
    BY <1>1, <1>2, <2>1
  <2>2. CASE n # b.number + 1
    BY <1>1, <1>2, <2>2
  <2> QED
    BY <2>1, <2>2
<1>5. block' = Child(b)
  BY DEF Mine
<1>6. /\ block' \in Blocks /\ Follows(block', b) /\ block'.number = b.number + 1
      /\ block'.senders = block'.used
  BY <1>5, ChildFollows DEF Follows
<1>7. LatestBlock' = b
  BY <1>2, <1>6 DEF LatestBlock
<1> QED
  BY <1>2, <1>3, <1>4, <1>6, <1>7 DEF ChainInv, Chains

(* Whoever signs it, a transaction that is sent is applied, and its sender *)
(* is an account.                                                          *)
LEMMA SentIsApplied ==
    ASSUME keys \in Seq(Keys), NEW from
    PROVE  /\ from \in Listed \cup Added => from \in Keys
           /\ \A nonces, fees :
                 SendTransaction(from, nonces, fees) =>
                    \E tx : tx.from \in Keys /\ apply_transaction(tx)
           /\ from \in Listed \cup Added /\ SendSignedTransaction(from) =>
                 \E tx : tx.from \in Keys /\ apply_transaction(tx)
<1>1. from \in Listed \cup Added => from \in Keys
  BY ElementsInSet, AccountsAssumption DEF Listed
<1>2. ASSUME NEW nonces, NEW fees, SendTransaction(from, nonces, fees)
      PROVE  \E tx : tx.from \in Keys /\ apply_transaction(tx)
  <2>1. PICK tx \in _normalize_transaction(from, nonces, fees, Latest) :
            apply_transaction(tx)
    BY <1>2, Zenon DEF SendTransaction
  <2>2. tx.from = from
    BY DEF _normalize_transaction
  <2>3. from \in Listed
    BY <1>2 DEF SendTransaction
  <2> QED
    BY <1>1, <2>1, <2>2, <2>3
<1>3. ASSUME from \in Listed \cup Added, SendSignedTransaction(from)
      PROVE  \E tx : tx.from \in Keys /\ apply_transaction(tx)
  <2> DEFINE tx == [from |-> from, nonce |-> NonceIn(block.state, from),
                    max_fee |-> block.fee]
  <2>1. apply_transaction(tx)
    BY <1>3 DEF SendSignedTransaction
  <2>2. tx.from = from
    OBVIOUS
  <2> QED
    BY <1>1, <1>3, <2>1, <2>2
<1> QED
  BY <1>1, <1>2, <1>3

(* A transaction moves the nonce of its sender, and only that.             *)
LEMMA SendEffect ==
    ASSUME ChainInv, NEW tx, tx.from \in Keys, apply_transaction(tx)
    PROVE  /\ Len(block.used) < GasLimit
           /\ block'.number = block.number /\ block'.fee = block.fee
           /\ block'.used = Append(block.used, tx.from)
           /\ block'.senders = block'.used
           /\ block' \in BlockRecords
           /\ \A a \in Keys :
                 NonceIn(block'.state, a)
                    = IF a = tx.from THEN NonceIn(block.state, a) + 1
                      ELSE NonceIn(block.state, a)
<1> DEFINE from == tx.from
<1>1. from \in Keys
  OBVIOUS
<1>2. /\ Applies(tx)
      /\ block' = [block EXCEPT
            !.state = Touched(@, from, BalanceIn(@, from), tx.nonce + 1),
            !.senders = Append(@, from), !.used = Append(@, from)]
  BY DEF apply_transaction
<1> HIDE DEF from
<1>3. from = tx.from
  BY DEF from
<1>4. /\ tx.nonce = NonceIn(block.state, from) /\ Len(block.used) < GasLimit
  BY <1>2, <1>3 DEF Applies, Executes
<1>5. /\ block.number \in Nat /\ block.state \in States /\ block.fee \in Nat \ {0}
      /\ block.used \in Seq(Keys) /\ Len(block.used) \in Nat
      /\ block.senders = block.used
      /\ block \in BlockRecords
  BY LenProperties DEF ChainInv, Blocks, BlockRecords
<1>6. PICK new :
          /\ new = Touched(block.state, from, BalanceIn(block.state, from), tx.nonce + 1)
          /\ tx.nonce \in Nat /\ new \in States
          /\ \A a \in Keys : NonceIn(new, a) = IF a = from THEN tx.nonce + 1
                                               ELSE NonceIn(block.state, a)
  <2>1. ASSUME NEW state \in States, NEW nonce \in Nat,
               nonce = NonceIn(state, from)
        PROVE  \E new :
                  /\ new = Touched(state, from, BalanceIn(state, from), nonce + 1)
                  /\ nonce \in Nat /\ new \in States
                  /\ \A a \in Keys : NonceIn(new, a) = IF a = from THEN nonce + 1
                                                       ELSE NonceIn(state, a)
    <3>1. BalanceIn(state, from) \in {0, 1} /\ nonce + 1 \in Nat
      BY <2>1, NonceInNat
    <3> QED
      BY <1>1, <3>1, TouchedState
  <2>2. tx.nonce \in Nat
    BY <1>4, <1>5, NonceInNat
  <2> QED
    BY <1>4, <1>5, <2>1, <2>2
<1>7. /\ block'.number = block.number /\ block'.fee = block.fee
      /\ block'.state = new /\ block'.used = Append(block.used, from)
      /\ block'.senders = block'.used /\ block' \in BlockRecords
  <2> DEFINE used == Append(block.used, from)
  <2>1. used \in Seq(Keys)
    BY <1>1, <1>5, AppendProperties
  <2>2. block' = [[[block EXCEPT !.state = new] EXCEPT !.senders = used] EXCEPT !.used = used]
    BY <1>2, <1>5, <1>6
  <2>3. block' = [number |-> block.number, state |-> new, fee |-> block.fee,
                  senders |-> used, used |-> used]
    <3> HIDE DEF used
    <3> QED
      BY <1>5, <2>2 DEF BlockRecords
  <2> HIDE DEF used
  <2>4. /\ block'.number = block.number /\ block'.fee = block.fee
        /\ block'.state = new /\ block'.used = used /\ block'.senders = used
    BY <2>3
  <2>5. block' \in BlockRecords
    BY <1>5, <1>6, <2>1, <2>3 DEF BlockRecords
  <2> QED
    BY <2>4, <2>5 DEF used
<1> QED
  BY <1>3, <1>4, <1>6, <1>7

LEMMA SendKeepsChain ==
    ASSUME ChainInv, NEW tx, tx.from \in Keys, apply_transaction(tx)
    PROVE  ChainInv'
<1>1. Len(block.used) < GasLimit
  BY SendEffect
<1>2. /\ block.number \in Nat /\ block.state \in States /\ block.fee \in Nat \ {0}
      /\ block.used \in Seq(Keys) /\ Len(block.used) \in Nat
  BY LenProperties DEF ChainInv, Blocks, BlockRecords
<1>3. /\ block'.number = block.number /\ block'.fee = block.fee
      /\ block'.used = Append(block.used, tx.from)
      /\ block'.senders = block'.used
      /\ block' \in BlockRecords
      /\ \A a \in Keys :
            NonceIn(block'.state, a)
               = IF a = tx.from THEN NonceIn(block.state, a) + 1
                 ELSE NonceIn(block.state, a)
  BY SendEffect
<1>4. block' \in Blocks
  <2>1. Len(block'.used) = Len(block.used) + 1
    BY <1>1, <1>2, <1>3, AppendProperties
  <2>2. Len(block'.used) <= GasLimit
    BY <1>1, <1>2, <2>1, FeeAssumption
  <2> QED
    BY <1>3, <2>2 DEF Blocks
<1>5. canonical' = canonical /\ LatestBlock' = LatestBlock
  BY <1>3 DEF LatestBlock, apply_transaction
<1>6. Follows(block', LatestBlock)
  <2>1. Follows(block, LatestBlock) /\ LatestBlock.state \in States
    BY LatestIsBlock DEF ChainInv, Blocks, BlockRecords
  <2>2. ToSet(block'.used) = ToSet(block.used) \cup {tx.from}
    BY <1>1, <1>2, <1>3, ElementsOfAppend
  <2>3. ASSUME NEW a \in Keys
        PROVE  /\ NonceIn(block'.state, a) >= NonceIn(LatestBlock.state, a)
               /\ NonceIn(block'.state, a) = NonceIn(LatestBlock.state, a)
                     <=> a \notin ToSet(block'.used)
    <3>1. /\ NonceIn(LatestBlock.state, a) \in Nat /\ NonceIn(block.state, a) \in Nat
          /\ NonceIn(block.state, a) >= NonceIn(LatestBlock.state, a)
          /\ NonceIn(block.state, a) = NonceIn(LatestBlock.state, a)
                <=> a \notin ToSet(block.used)
      BY <1>2, <2>1, NonceInNat DEF Follows
    <3>2. CASE a = tx.from
      BY <1>3, <2>2, <3>1, <3>2
    <3>3. CASE a # tx.from
      BY <1>3, <2>2, <3>1, <3>3
    <3> QED
      BY <3>2, <3>3
  <2> QED
    BY <1>3, <2>1, <2>3 DEF Follows
<1> QED
  BY <1>3, <1>4, <1>5, <1>6 DEF ChainInv

(* Reverting to the blocks of a snapshot, with what is above them.         *)
LEMMA RevertKeepsChain ==
    ASSUME ChainInv, NEW blocks \in Chains, RevertPyEVM(blocks)
    PROVE  ChainInv'
<1> DEFINE above == SubSeq(canonical, Len(blocks) + 1, Len(canonical))
<1>1. /\ blocks \in Seq(Blocks) /\ Len(blocks) \in Nat /\ Len(blocks) > 0
      /\ \A n \in 1..Len(blocks) : blocks[n].number = n - 1
      /\ canonical \in Seq(Blocks) /\ Len(canonical) \in Nat
      /\ \A n \in 1..Len(canonical) : canonical[n].number = n - 1
  BY LenProperties DEF ChainInv, Chains
<1>2. /\ above \in Seq(Blocks) /\ Len(above) \in Nat
      /\ \A n \in 1..Len(above) : above[n].number = Len(blocks) + n - 1
  <2>1. \A n \in Len(blocks) + 1..Len(canonical) : canonical[n] \in Blocks
    BY <1>1, ElementOfSeq
  <2>2. /\ above \in Seq(Blocks)
        /\ Len(above) = IF Len(blocks) + 1 <= Len(canonical)
                        THEN Len(canonical) - (Len(blocks) + 1) + 1 ELSE 0
        /\ \A n \in 1..Len(canonical) - (Len(blocks) + 1) + 1 :
              above[n] = canonical[Len(blocks) + 1 + n - 1]
    BY <1>1, <2>1, SubSeqProperties
  <2> HIDE DEF above
  <2>3. PICK m \in Nat, l \in Nat : m = Len(blocks) /\ l = Len(canonical)
    BY <1>1
  <2>4. Len(above) \in Nat /\ Len(above) = IF m + 1 <= l THEN l - m ELSE 0
    BY <2>2, <2>3
  <2>5. ASSUME NEW n \in 1..Len(above)
        PROVE  above[n].number = m + n - 1
    <3>1. n \in 1..l - (m + 1) + 1 /\ m + 1 + n - 1 \in 1..l
      BY <2>3, <2>4
    <3>2. above[n] = canonical[m + 1 + n - 1]
      BY <2>2, <2>3, <3>1
    <3>3. canonical[m + 1 + n - 1].number = (m + 1 + n - 1) - 1
      BY <1>1, <2>3, <3>1
    <3> QED
      BY <2>3, <3>2, <3>3
  <2> QED
    BY <2>2, <2>3, <2>4, <2>5
<1>3. canonical' = blocks \o above /\ block' = Child(Last(blocks))
  BY DEF RevertPyEVM
<1> HIDE DEF above
<1>4. /\ canonical' \in Seq(Blocks) /\ Len(canonical') = Len(blocks) + Len(above)
      /\ \A n \in 1..Len(canonical') :
            canonical'[n] = IF n <= Len(blocks) THEN blocks[n]
                            ELSE above[n - Len(blocks)]
  BY <1>1, <1>2, <1>3, ConcatProperties
<1>5. \A n \in 1..Len(canonical') : canonical'[n].number = n - 1
  <2> TAKE n \in 1..Len(canonical')
  <2>1. CASE n <= Len(blocks)
    BY <1>1, <1>2, <1>4, <2>1
  <2>2. CASE ~(n <= Len(blocks))
    <3>1. n - Len(blocks) \in 1..Len(above)
      BY <1>1, <1>2, <1>4, <2>2
    <3>2. canonical'[n] = above[n - Len(blocks)]
      BY <1>4, <2>2
    <3>3. above[n - Len(blocks)].number = Len(blocks) + (n - Len(blocks)) - 1
      BY <1>2, <3>1
    <3> QED
      BY <1>1, <3>1, <3>2, <3>3
  <2> QED
    BY <2>1, <2>2
<1>6. /\ Last(blocks) = blocks[Len(blocks)] /\ Last(blocks) \in Blocks
      /\ Last(blocks).number = Len(blocks) - 1
  BY <1>1, ElementOfSeq DEF Last
<1>7. /\ block' \in Blocks /\ Follows(block', Last(blocks)) /\ block'.number = Len(blocks)
      /\ block'.senders = block'.used
  BY <1>1, <1>3, <1>6, ChildFollows DEF Follows
<1>8. /\ Len(canonical') > 0 /\ Len(blocks) \in 1..Len(canonical')
      /\ canonical'[Len(blocks)] = Last(blocks)
  BY <1>1, <1>2, <1>4, <1>6
<1>9. LatestBlock' = Last(blocks)
  BY <1>7, <1>8 DEF LatestBlock
<1> QED
  BY <1>4, <1>5, <1>7, <1>8, <1>9 DEF ChainInv, Chains

(* The blocks of a snapshot.                                               *)
LEMMA SnapshotIsChain ==
    ASSUME ChainInv
    PROVE  SubSeq(canonical, 1, LatestBlock.number + 1) \in Chains
<1>1. LatestBlock.number + 1 = block.number
  BY LatestIsBlock
<1>2. /\ canonical \in Seq(Blocks) /\ Len(canonical) \in Nat
      /\ block.number \in 1..Len(canonical)
      /\ \A n \in 1..Len(canonical) : canonical[n].number = n - 1
  BY LenProperties DEF ChainInv, Chains
<1> DEFINE m == block.number
           blocks == SubSeq(canonical, 1, m)
<1>3. \A n \in 1..m : canonical[n] \in Blocks
  BY <1>2, ElementOfSeq
<1>4. /\ blocks \in Seq(Blocks)
      /\ Len(blocks) = IF 1 <= m THEN m - 1 + 1 ELSE 0
      /\ \A n \in 1..m - 1 + 1 : blocks[n] = canonical[1 + n - 1]
  BY <1>2, <1>3, SubSeqProperties
<1> HIDE DEF blocks
<1>5. blocks \in Seq(Blocks) /\ Len(blocks) > 0
      /\ \A n \in 1..Len(blocks) : blocks[n].number = n - 1
  <2>1. m \in Nat /\ m > 0 /\ Len(blocks) = m /\ m - 1 + 1 = m
    BY <1>2, <1>4
  <2>2. ASSUME NEW n \in 1..m
        PROVE  blocks[n].number = n - 1
    <3>1. n \in 1..Len(canonical) /\ n \in 1..m - 1 + 1 /\ 1 + n - 1 = n
      BY <1>2, <2>1
    <3>2. blocks[n] = canonical[n]
      BY <1>4, <3>1
    <3> QED
      BY <1>2, <3>1, <3>2
  <2> QED
    BY <1>4, <2>1, <2>2
<1>6. blocks \in Chains
  BY <1>5 DEF Chains
<1> QED
  BY <1>1, <1>6 DEF blocks

(* What a snapshot holds.                                                  *)
LEMMA SnapshotTyped ==
    ASSUME snapshots \in Seq(Snapshots), NEW s \in DOMAIN snapshots
    PROVE  snapshots[s].blocks \in Chains /\ snapshots[s].keys \in Seq(Keys)
<1>1. snapshots[s] \in Snapshots
  BY LenProperties, ElementOfSeq
<1> QED
  BY <1>1 DEF Snapshots

(* What the table and the pending block are after a revert to blocks.      *)
LEMMA RevertedChain ==
    ASSUME ChainInv, NEW blocks \in Chains, RevertPyEVM(blocks)
    PROVE  /\ blocks[Len(blocks)] \in Blocks /\ Len(blocks) \in Nat \ {0}
           /\ block' = Child(blocks[Len(blocks)]) /\ block'.number = Len(blocks)
           /\ \A n \in 1..Len(blocks) : canonical'[n] = blocks[n]
<1> DEFINE above == SubSeq(canonical, Len(blocks) + 1, Len(canonical))
<1>1. /\ blocks \in Seq(Blocks) /\ Len(blocks) \in Nat /\ Len(blocks) > 0
      /\ canonical \in Seq(Blocks) /\ Len(canonical) \in Nat
  BY LenProperties DEF ChainInv, Chains
<1>2. above \in Seq(Blocks)
  <2>1. \A n \in Len(blocks) + 1..Len(canonical) : canonical[n] \in Blocks
    BY <1>1, ElementOfSeq
  <2> QED
    BY <1>1, <2>1, SubSeqProperties
<1>3. canonical' = blocks \o above /\ block' = Child(Last(blocks))
  BY DEF RevertPyEVM
<1> HIDE DEF above
<1>4. \A n \in 1..Len(blocks) : canonical'[n] = blocks[n]
  <2>1. /\ Len(above) \in Nat
        /\ \A n \in 1..Len(blocks) + Len(above) :
              (blocks \o above)[n] = IF n <= Len(blocks) THEN blocks[n]
                                     ELSE above[n - Len(blocks)]
    BY <1>1, <1>2, ConcatProperties, LenProperties
  <2>2. \A n \in 1..Len(blocks) : n \in 1..Len(blocks) + Len(above) /\ n <= Len(blocks)
    BY <1>1, <2>1
  <2> QED
    BY <1>3, <2>1, <2>2
<1>5. /\ Last(blocks) = blocks[Len(blocks)] /\ blocks[Len(blocks)] \in Blocks
      /\ blocks[Len(blocks)].number = Len(blocks) - 1
  <2>1. Len(blocks) \in 1..Len(blocks)
    BY <1>1
  <2> QED
    BY <1>1, <2>1, ElementOfSeq DEF Last, Chains
<1>6. block'.number = Len(blocks)
  BY <1>1, <1>3, <1>5 DEF Child
<1> QED
  BY <1>1, <1>3, <1>4, <1>5, <1>6

(* What a snapshot is taken of.                                            *)
LEMMA TakenSnapshot ==
    ASSUME AccountsInv, ChainInv, TakeSnapshot
    PROVE  \E taken \in Snapshots :
              /\ taken.keys = keys
              /\ Len(taken.blocks) = block.number
              /\ \A n \in 1..block.number : taken.blocks[n] = canonical[n]
              /\ snapshots' = Append(snapshots, taken)
              /\ UNCHANGED <<accountVars, chainVars, genesisVars>>
<1> DEFINE m == block.number
           blocks == SubSeq(canonical, 1, m)
           taken == [blocks |-> blocks, keys |-> keys]
<1>1. /\ canonical \in Seq(Blocks) /\ m \in 1..Len(canonical)
      /\ m \in Nat /\ Len(canonical) \in Nat
      /\ LatestBlock.number + 1 = m
  BY LatestIsBlock, LenProperties DEF ChainInv, Chains, Blocks, BlockRecords
<1>2. Len(blocks) = m /\ \A n \in 1..m : blocks[n] = canonical[n]
  <2>1. \A n \in 1..m : canonical[n] \in Blocks
    BY <1>1, ElementOfSeq
  <2>2. /\ Len(blocks) = IF 1 <= m THEN m - 1 + 1 ELSE 0
        /\ \A n \in 1..m - 1 + 1 : blocks[n] = canonical[1 + n - 1]
    BY <1>1, <2>1, SubSeqProperties
  <2> HIDE DEF m, blocks
  <2>3. m - 1 + 1 = m /\ \A n \in 1..m : 1 + n - 1 = n
    BY <1>1
  <2> QED
    BY <1>1, <2>2, <2>3
<1>3. blocks \in Chains
  BY <1>1, SnapshotIsChain
<1>4. snapshots' = Append(snapshots, taken) /\ UNCHANGED <<accountVars, chainVars, genesisVars>>
  BY <1>1 DEF TakeSnapshot
<1>5. taken \in Snapshots /\ taken.keys = keys /\ taken.blocks = blocks
  BY <1>3 DEF Snapshots, AccountsInv
<1> HIDE DEF taken, blocks
<1> QED
  BY <1>2, <1>4, <1>5

(* A withdrawal mines the pending block with another balance, its nonces   *)
(* and its gas, and without its transactions.                              *)
LEMMA WithdrawalMines ==
    ASSUME ChainInv, NEW account \in Keys, ApplyWithdrawals(account)
    PROVE  \E b \in Blocks :
              /\ Mine(b) /\ b.number = block.number /\ b.fee = block.fee
              /\ b.used = block.used
              /\ \A a \in Keys : NonceIn(b.state, a) = NonceIn(block.state, a)
<1> DEFINE state == block.state
           new == Touched(state, account, 1, NonceIn(state, account))
           b == [block EXCEPT !.state = new, !.senders = << >>]
<1>1. Mine(b)
  BY DEF ApplyWithdrawals
<1>2. /\ block \in BlockRecords
      /\ Len(block.used) <= GasLimit
  BY DEF ChainInv, Blocks
<1>3. state \in States
  BY <1>2 DEF BlockRecords
<1>4. /\ new \in States
      /\ \A a \in Keys : NonceIn(new, a) = NonceIn(state, a)
  <2> HIDE DEF state
  <2>1. NonceIn(state, account) \in Nat
    BY <1>3, NonceInNat
  <2> QED
    BY <1>3, <2>1, TouchedState
<1>5. /\ b \in Blocks /\ b.number = block.number /\ b.fee = block.fee
      /\ b.used = block.used /\ b.state = new
  <2> HIDE DEF new
  <2>1. PICK c : c = [block EXCEPT !.state = new]
    OBVIOUS
  <2>2. b = [number |-> block.number, state |-> new, fee |-> block.fee,
             senders |-> << >>, used |-> block.used]
    <3>1. c = [number |-> block.number, state |-> new, fee |-> block.fee,
               senders |-> block.senders, used |-> block.used]
      BY <1>2, <2>1 DEF BlockRecords
    <3>2. b = [c EXCEPT !.senders = << >>]
      BY <1>2, <2>1 DEF BlockRecords
    <3> HIDE DEF b
    <3> QED
      BY <3>1, <3>2
  <2> HIDE DEF b
  <2>3. b \in BlockRecords
    BY <1>2, <1>4, <2>2, EmptySeq DEF BlockRecords
  <2> QED
    BY <1>2, <2>2, <2>3 DEF Blocks
<1> HIDE DEF b, new
<1> QED
  BY <1>1, <1>4, <1>5 DEF state

(* No action takes the chain out of its invariant.                         *)
LEMMA ChainStep ==
    ASSUME AccountsInv, ChainInv, [Next]_vars
    PROVE  ChainInv'
<1>1. ASSUME UNCHANGED chainVars PROVE ChainInv'
  BY <1>1 DEF chainVars, ChainInv, LatestBlock
<1>2. CASE \E account \in Added, password \in {"none", "secret"} :
              AddAccount(account, password)
  BY <1>1, <1>2 DEF AddAccount
<1>3. CASE \E account \in Added : UnlockAccount(account) \/ LockAccount(account)
  BY <1>1, <1>3 DEF UnlockAccount, LockAccount
<1>4. ASSUME NEW from \in Listed \cup Added,
             \/ \E nonces, fees : SendTransaction(from, nonces, fees)
             \/ SendSignedTransaction(from)
      PROVE  ChainInv'
  <2>1. PICK tx : tx.from \in Keys /\ apply_transaction(tx)
    BY <1>4, SentIsApplied DEF AccountsInv
  <2> QED
    BY <2>1, SendKeepsChain
<1>5. CASE MineBlock
  BY <1>5, MineKeepsChain DEF MineBlock, ChainInv
<1>6. ASSUME NEW account \in Listed \cup Added, ApplyWithdrawals(account)
      PROVE  ChainInv'
  <2>1. PICK b \in Blocks :
            /\ Mine(b) /\ b.number = block.number
    BY <1>6, SentIsApplied, WithdrawalMines DEF AccountsInv
  <2> QED
    BY <2>1, MineKeepsChain
<1>7. CASE TakeSnapshot
  BY <1>1, <1>7 DEF TakeSnapshot
<1>8. ASSUME NEW s \in 1..MaxSnapshots, RevertToSnapshot(s)
      PROVE  ChainInv'
  <2>1. CASE RevertPyEVM(snapshots[s].blocks)
    BY <1>8, <2>1, SnapshotTyped, RevertKeepsChain DEF RevertToSnapshot, AccountsInv
  <2>2. CASE RevertMock(snapshots[s].keys)
    BY <1>1, <2>2 DEF RevertMock
  <2> QED
    BY <1>8, <2>1, <2>2 DEF RevertToSnapshot
<1>9. CASE ResetToGenesis
  <2>1. ASSUME NEW genesis \in DefaultChain,
               canonical' = <<GenesisBlock(genesis.state)>>,
               block' = Child(GenesisBlock(genesis.state))
        PROVE  ChainInv'
    <3>1. genesis.state \in States
      BY <2>1, GenesisAccounts, AccountsAssumption
    <3>2. canonical' \in Chains /\ Len(canonical') = 1 /\ block'.number = 1
      BY <2>1, <3>1, GenesisChain
    <3>3. LatestBlock' = GenesisBlock(genesis.state)
      BY <2>1, <3>2 DEF LatestBlock
    <3>4. /\ block' \in Blocks /\ Follows(block', LatestBlock')
          /\ block'.senders = block'.used
      BY <2>1, <3>1, <3>3, GenesisChain, ChildFollows
    <3> QED
      BY <3>2, <3>4 DEF ChainInv
  <2>2. CASE UNCHANGED chainVars
    BY <1>1, <2>2
  <2> QED
    BY <1>9, <2>1, <2>2 DEF ResetToGenesis, ResetBackend
<1>10. CASE UNCHANGED vars
  BY <1>1, <1>10 DEF vars
<1> QED
  BY <1>2, <1>3, <1>4, <1>5, <1>6, <1>7, <1>8, <1>9, <1>10 DEF Next

(* Nor what is true of accounts and snapshots.                             *)
LEMMA AccountsStep ==
    ASSUME AccountsInv, ChainInv, [Next]_vars
    PROVE  AccountsInv'
<1>1. ASSUME NEW account \in Added, NEW password, AddAccount(account, password)
      PROVE  AccountsInv'
  <2>1. keys' \in Seq(Keys)
    BY <1>1, AccountsAssumption, AppendProperties DEF AddAccount, AccountsInv
  <2>2. DOMAIN passwords' = DOMAIN passwords \cup {account}
    BY <1>1 DEF AddAccount, Assigned
  <2>3. UNCHANGED <<backend, unlocked, snapshots>>
    BY <1>1 DEF AddAccount, genesisVars
  <2> QED
    BY <1>1, <2>1, <2>2, <2>3 DEF AccountsInv
<1>2. ASSUME NEW account \in Added, UnlockAccount(account) \/ LockAccount(account)
      PROVE  AccountsInv'
  BY <1>2 DEF UnlockAccount, LockAccount, genesisVars, AccountsInv
<1>3. ASSUME NEW tx, apply_transaction(tx)
      PROVE  AccountsInv'
  BY <1>3 DEF apply_transaction, accountVars, genesisVars, AccountsInv
<1>4. ASSUME NEW b, Mine(b)
      PROVE  AccountsInv'
  BY <1>4 DEF Mine, accountVars, genesisVars, AccountsInv
<1>5. CASE TakeSnapshot
  <2> DEFINE taken == [blocks |-> SubSeq(canonical, 1, LatestBlock.number + 1),
                       keys |-> keys]
  <2>1. taken \in Snapshots
    BY SnapshotIsChain DEF Snapshots, AccountsInv
  <2>2. snapshots' = Append(snapshots, taken)
    BY <1>5 DEF TakeSnapshot
  <2> HIDE DEF taken
  <2>3. snapshots' \in Seq(Snapshots)
    BY <2>1, <2>2, AppendProperties DEF AccountsInv
  <2> QED
    BY <1>5, <2>3 DEF TakeSnapshot, accountVars, genesisVars, AccountsInv
<1>6. ASSUME NEW s \in 1..MaxSnapshots, RevertToSnapshot(s)
      PROVE  AccountsInv'
  <2>1. snapshots[s].keys \in Seq(Keys)
    BY <1>6, SnapshotTyped DEF RevertToSnapshot, AccountsInv
  <2>2. CASE RevertPyEVM(snapshots[s].blocks)
    BY <2>2 DEF RevertPyEVM, accountVars, genesisVars, AccountsInv
  <2>3. CASE RevertMock(snapshots[s].keys)
    BY <2>1, <2>3 DEF RevertMock, genesisVars, AccountsInv
  <2> QED
    BY <1>6, <2>2, <2>3 DEF RevertToSnapshot
<1>7. CASE ResetToGenesis
  <2>1. keys' \in Seq(Keys)
    BY <1>7, GenesisAccounts, AccountsAssumption DEF ResetToGenesis, ResetBackend
  <2> QED
    BY <1>7, <2>1, EmptySeq DEF ResetToGenesis, NoPasswords, AccountsInv
<1>8. CASE UNCHANGED vars
  BY <1>8 DEF vars, accountVars, genesisVars, AccountsInv
<1> QED
  BY <1>1, <1>2, <1>3, <1>4, <1>5, <1>6, <1>7, <1>8
     DEF Next, SendTransaction, SendSignedTransaction, MineBlock, ApplyWithdrawals

(* The inductive invariant that the theorems below rest on.                *)
THEOREM InductiveInvariant == Spec => [](AccountsInv /\ ChainInv)
<1>1. AccountsInv /\ ChainInv /\ [Next]_vars => (AccountsInv /\ ChainInv)'
  BY AccountsStep, ChainStep
<1> QED
  BY <1>1, InitInv, PTL DEF Spec

-----------------------------------------------------------------------------
(* What callers see.                                                       *)

(* The chain and the pending block fit together, and accounts that the     *)
(* facade knows were added.  (setup_tester_chain, revert_to_snapshot)      *)
THEOREM AccountsTypeCorrect == Spec => []AccountsTypeOK
<1>1. ASSUME AccountsInv, ChainInv PROVE AccountsTypeOK
  <2>1. DOMAIN canonical = 1..Len(canonical)
        /\ \A n \in 1..Len(canonical) : canonical[n].number = n - 1
    BY <1>1, LenProperties DEF ChainInv, Chains
  <2> QED
    BY <1>1, <2>1 DEF AccountsInv, ChainInv, AccountsTypeOK
<1> QED
  BY <1>1, InductiveInvariant, PTL

(* Passwords and the backend's list of accounts drift apart only by        *)
(* MockBackend's revert, whose snapshot is there to show for it.           *)
LEMMA PasswordsStep ==
    ASSUME AccountsInv, PasswordsBelongToListed, [Next]_vars
    PROVE  PasswordsBelongToListed'
<1>1. ASSUME UNCHANGED <<backend, keys, passwords, snapshots>>
      PROVE  PasswordsBelongToListed'
  BY <1>1 DEF PasswordsBelongToListed, Listed
<1>2. ASSUME NEW account \in Added, NEW password, AddAccount(account, password)
      PROVE  PasswordsBelongToListed'
  <2>1. Listed' = Listed \cup {account}
    BY <1>2, ElementsOfAppend, AccountsAssumption DEF AddAccount, Listed, AccountsInv
  <2>2. DOMAIN passwords' = DOMAIN passwords \cup {account}
    BY <1>2 DEF AddAccount, Assigned
  <2>3. UNCHANGED <<backend, snapshots>>
    BY <1>2 DEF AddAccount, genesisVars
  <2> QED
    BY <2>1, <2>2, <2>3 DEF PasswordsBelongToListed
<1>3. CASE TakeSnapshot
  <2>1. UNCHANGED <<backend, keys, passwords>>
    BY <1>3 DEF TakeSnapshot, accountVars, genesisVars
  <2>2. \A s \in DOMAIN snapshots :
           s \in DOMAIN snapshots' /\ snapshots'[s] = snapshots[s]
    <3> DEFINE taken == [blocks |-> SubSeq(canonical, 1, LatestBlock.number + 1),
                         keys |-> keys]
    <3>1. snapshots' = Append(snapshots, taken)
      BY <1>3 DEF TakeSnapshot
    <3> HIDE DEF taken
    <3>2. snapshots \in Seq(Snapshots \cup {taken}) /\ taken \in Snapshots \cup {taken}
      BY SeqMonotonic DEF AccountsInv
    <3>3. /\ DOMAIN snapshots = 1..Len(snapshots) /\ Len(snapshots) \in Nat
          /\ DOMAIN snapshots' = 1..Len(snapshots) + 1
          /\ \A s \in 1..Len(snapshots) : snapshots'[s] = snapshots[s]
      BY <3>1, <3>2, AppendProperties, LenProperties
    <3> QED
      BY <3>3
  <2> QED
    BY <2>1, <2>2 DEF PasswordsBelongToListed, Listed
<1>4. ASSUME NEW s \in 1..MaxSnapshots, RevertToSnapshot(s)
      PROVE  PasswordsBelongToListed'
  <2>1. CASE RevertPyEVM(snapshots[s].blocks)
    BY <1>1, <2>1 DEF RevertPyEVM, accountVars, genesisVars
  <2>2. CASE RevertMock(snapshots[s].keys)
    <3>1. Listed' = ToSet(snapshots[s].keys) /\ s \in DOMAIN snapshots
          /\ backend = "mock" /\ UNCHANGED <<backend, passwords, snapshots>>
      BY <1>4, <2>2 DEF RevertMock, RevertToSnapshot, genesisVars, Listed
    <3> QED
      BY <3>1 DEF PasswordsBelongToListed
  <2> QED
    BY <1>4, <2>1, <2>2 DEF RevertToSnapshot
<1>5. CASE ResetToGenesis
  BY <1>5 DEF ResetToGenesis, NoPasswords, PasswordsBelongToListed
<1>6. CASE \E account \in Added : UnlockAccount(account) \/ LockAccount(account)
  BY <1>1, <1>6 DEF UnlockAccount, LockAccount, genesisVars
<1>7. ASSUME NEW tx, apply_transaction(tx)
      PROVE  PasswordsBelongToListed'
  BY <1>1, <1>7 DEF apply_transaction, accountVars, genesisVars
<1>8. ASSUME NEW b, Mine(b)
      PROVE  PasswordsBelongToListed'
  BY <1>1, <1>8 DEF Mine, accountVars, genesisVars
<1>9. CASE UNCHANGED vars
  BY <1>1, <1>9 DEF vars, accountVars, genesisVars
<1> QED
  BY <1>2, <1>3, <1>4, <1>5, <1>6, <1>7, <1>8, <1>9
     DEF Next, SendTransaction, SendSignedTransaction, MineBlock, ApplyWithdrawals

(***************************************************************************)
(* An account with a password is listed, unless MockBackend's revert took  *)
(* it away: no other call lets the facade's passwords and the backend's    *)
(* accounts drift apart.  (add_account, revert_to_snapshot,                *)
(* reset_to_genesis)                                                       *)
(***************************************************************************)
THEOREM PasswordsStayListed == Spec => []PasswordsBelongToListed
<1>1. Init => PasswordsBelongToListed
  BY DEF Init, InitLocal, NoPasswords, PasswordsBelongToListed
<1> QED
  BY <1>1, PasswordsStep, InductiveInvariant, PTL DEF Spec

(***************************************************************************)
(* No account that is added with a password starts unlocked, unless        *)
(* MockBackend had dropped it: a lock outlives no account that passwords   *)
(* do not know, so nothing an earlier account left behind opens a new one. *)
(***************************************************************************)
THEOREM AddedStartLocked == Spec => OnlyReaddedStartUnlocked
<1> DEFINE StartsLocked(a) ==
        (/\ a \notin Listed /\ a \in Listed'
         /\ a \in DOMAIN passwords' /\ passwords'[a] # "none")
          => (IsLocked(a)' \/ (backend = "mock" /\ a \in DOMAIN passwords))
<1>1. ASSUME AccountsInv, PasswordsBelongToListed, [Next]_vars, NEW a \in Added
      PROVE  StartsLocked(a)
  <2>1. CASE a \in DOMAIN passwords
    BY <1>1, <2>1 DEF PasswordsBelongToListed
  <2>2. ASSUME a \notin DOMAIN passwords, a \in DOMAIN passwords',
               passwords'[a] # "none"
        PROVE  IsLocked(a)'
    <3>1. a \notin unlocked
      BY <1>1, <2>2 DEF AccountsInv
    <3>2. unlocked' = unlocked
      BY <1>1, <2>2 DEF Next, vars, AddAccount, UnlockAccount, LockAccount,
           SendTransaction, SendSignedTransaction, apply_transaction,
           MineBlock, ApplyWithdrawals, Mine, TakeSnapshot,
           RevertToSnapshot, RevertPyEVM, RevertMock, ResetToGenesis,
           NoPasswords, accountVars
    <3> QED
      BY <2>2, <3>1, <3>2 DEF IsLocked
  <2> QED
    BY <2>1, <2>2
<1>2. AccountsInv /\ PasswordsBelongToListed /\ [Next]_vars
        => [\A a \in Added : StartsLocked(a)]_vars
  BY <1>1
<1> QED
  BY <1>2, InductiveInvariant, PasswordsStayListed, PTL
     DEF Spec, OnlyReaddedStartUnlocked

(* There is gas left iff not all of it is used.                            *)
LEMMA RoomIsGas ==
    ASSUME ChainInv
    PROVE  _max_available_gas > 0 <=> Len(block.used) < GasLimit
<1>1. Len(block.used) \in Nat
  BY LenProperties DEF ChainInv, Blocks, BlockRecords
<1>2. GasLimit \in Nat
  BY FeeAssumption
<1> QED
  BY <1>1, <1>2 DEF _max_available_gas

(***************************************************************************)
(* A transaction with a priority fee only runs in the pending block iff    *)
(* there is room, its sender has money and has sent none in that block:    *)
(* the base fee at most doubles from one block to the next, so that twice  *)
(* the latest one is always enough.  (_normalize_transaction)              *)
(***************************************************************************)
THEOREM PriorityOnlyAlwaysRuns == Spec => []PriorityOnlyRuns
<1>1. ASSUME AccountsInv, ChainInv, backend = "pyevm", NEW a \in ChainAccounts
      PROVE  (\E tx \in _normalize_transaction(a, DefaultNonces(a, Latest),
                                               "priority", Latest) : Applies(tx))
               <=> /\ _max_available_gas > 0
                   /\ get_balance(a, Pending) = {1}
                   /\ a \notin ToSet(block.senders)
  <2>1. a \in Keys
    BY <1>1, ElementsInSet, AccountsAssumption DEF ChainAccounts, Listed, AccountsInv
  <2>2. /\ LatestBlock \in Blocks /\ LatestBlock.state \in States
        /\ LatestBlock.fee \in Nat \ {0} /\ LatestBlock.used \in Seq(Keys)
        /\ Len(LatestBlock.used) \in Nat /\ Len(LatestBlock.used) <= GasLimit
        /\ block.state \in States /\ block.fee \in Nat \ {0}
    BY <1>1, LatestIsBlock, LenProperties DEF ChainInv, Blocks, BlockRecords
  <2>3. block.fee <= 2 * LatestBlock.fee
    BY <1>1, <2>2, NextFeeBounds DEF ChainInv, Follows
  <2>4. NonceIn(block.state, a) = NonceIn(LatestBlock.state, a)
          <=> a \notin ToSet(block.senders)
    BY <1>1, <2>1 DEF ChainInv, Follows
  <2>5. _get_block_by_number(Latest) = {LatestBlock}
    BY DEF _get_block_by_number
  <2>6. _get_block_by_number(Pending) = {block}
    BY TagsAssumption DEF _get_block_by_number
  <2>7. _normalize_transaction(a, DefaultNonces(a, Latest), "priority", Latest)
          = {[from |-> a, nonce |-> NonceIn(LatestBlock.state, a),
              max_fee |-> 2 * LatestBlock.fee]}
    <3>1. DefaultNonces(a, Latest) = {NonceIn(LatestBlock.state, a)}
      BY <1>1, <2>5 DEF DefaultNonces, get_nonce
    <3>2. MaxFee("priority", Latest) = {2 * LatestBlock.fee}
      BY <2>5 DEF MaxFee, get_base_fee
    <3>3. _normalize_transaction(a, DefaultNonces(a, Latest), "priority", Latest)
            = [from : {a}, nonce : {NonceIn(LatestBlock.state, a)},
               max_fee : {2 * LatestBlock.fee}]
      BY <3>1, <3>2 DEF _normalize_transaction
    <3> DEFINE nonce == NonceIn(LatestBlock.state, a)
               fee == 2 * LatestBlock.fee
    <3>4. [from : {a}, nonce : {nonce}, max_fee : {fee}]
            = {[from |-> a, nonce |-> nonce, max_fee |-> fee]}
      <4> HIDE DEF nonce, fee
      <4>1. ASSUME NEW tx \in [from : {a}, nonce : {nonce}, max_fee : {fee}]
            PROVE  tx = [from |-> a, nonce |-> nonce, max_fee |-> fee]
        OBVIOUS
      <4>2. [from |-> a, nonce |-> nonce, max_fee |-> fee]
              \in [from : {a}, nonce : {nonce}, max_fee : {fee}]
        OBVIOUS
      <4> QED
        BY <4>1, <4>2
    <3> QED
      BY <3>3, <3>4
  <2>8. get_balance(a, Pending) = {BalanceIn(block.state, a)}
    BY <1>1, <2>6 DEF get_balance
  <2>9. BalanceIn(block.state, a) \in {0, 1}
    BY <2>2, NonceInNat
  <2>10. BalanceIn(block.state, a) > 0 <=> get_balance(a, Pending) = {1}
    BY <2>8, <2>9
  <2>11. 2 * LatestBlock.fee >= block.fee
    BY <2>2, <2>3
  <2> DEFINE tx == [from |-> a, nonce |-> NonceIn(LatestBlock.state, a),
                    max_fee |-> 2 * LatestBlock.fee]
  <2>12. (\E t \in _normalize_transaction(a, DefaultNonces(a, Latest),
                                          "priority", Latest) : Applies(t))
            <=> Applies(tx)
    BY <2>7
  <2>13. Applies(tx) <=> /\ NonceIn(LatestBlock.state, a) = NonceIn(block.state, a)
                         /\ BalanceIn(block.state, a) > 0
                         /\ Len(block.used) < GasLimit
    BY <2>11 DEF Applies, Executes
  <2>14. _max_available_gas > 0 <=> Len(block.used) < GasLimit
    BY <1>1, RoomIsGas
  <2> HIDE DEF tx
  <2> QED
    BY <2>4, <2>10, <2>12, <2>13, <2>14
<1>2. ASSUME AccountsInv, ChainInv PROVE PriorityOnlyRuns
  BY <1>1, <1>2 DEF PriorityOnlyRuns, OnPyEVM
<1> QED
  BY <1>2, InductiveInvariant, PTL
-----------------------------------------------------------------------------
(* Base fees along the chain.                                              *)

(* The first m blocks of c have the base fees that follow from their gas.  *)
FeesLinked(c, m) ==
    \A n \in 1..m - 1 : c[n + 1].fee = NextFee(c[n].fee, Len(c[n].used))

(* So have the blocks of the chain and of every snapshot.  Nothing is said *)
(* of what a revert has left above the head: those blocks need not follow  *)
(* from what is mined below them.                                          *)
FeesInv ==
    /\ FeesLinked(canonical, block.number)
    /\ \A s \in DOMAIN snapshots :
          FeesLinked(snapshots[s].blocks, Len(snapshots[s].blocks))

(* A mined block has the base fee of the pending one, which follows from   *)
(* the block below it.                                                     *)
LEMMA MineKeepsFees ==
    ASSUME ChainInv, FeesInv, NEW b \in Blocks,
           b.number = block.number, b.fee = block.fee, Mine(b)
    PROVE  FeesInv'
<1>1. /\ b.number \in Nat /\ b.number \in 1..Len(canonical)
      /\ block.fee = NextFee(canonical[b.number].fee, Len(canonical[b.number].used))
  BY DEF ChainInv, Follows, LatestBlock, Blocks, BlockRecords
<1>2. /\ canonical' \in Seq(Blocks) /\ Len(canonical') \in Nat
      /\ b.number + 1 \in 1..Len(canonical')
      /\ canonical'[b.number + 1] = b
      /\ \A n \in 1..Len(canonical') :
            n # b.number + 1 => canonical'[n] = canonical[n]
  BY MinedTable, LenProperties
<1>3. block'.number = b.number + 1 /\ snapshots' = snapshots
  BY ChildFollows DEF Mine, Follows
<1>4. ASSUME NEW n \in 1..b.number
      PROVE  canonical'[n + 1].fee = NextFee(canonical'[n].fee, Len(canonical'[n].used))
  <2>1. n \in 1..Len(canonical') /\ n # b.number + 1 /\ canonical'[n] = canonical[n]
    BY <1>1, <1>2
  <2>2. CASE n = b.number
    BY <1>1, <1>2, <2>1, <2>2
  <2>3. CASE n # b.number
    <3>1. n \in 1..b.number - 1 /\ n + 1 \in 1..Len(canonical') /\ n + 1 # b.number + 1
      BY <1>1, <1>2, <2>3
    <3>2. canonical'[n + 1] = canonical[n + 1]
      BY <1>2, <3>1
    <3>3. canonical[n + 1].fee = NextFee(canonical[n].fee, Len(canonical[n].used))
      BY <3>1 DEF FeesInv, FeesLinked
    <3> QED
      BY <2>1, <3>2, <3>3
  <2> QED
    BY <2>2, <2>3
<1>5. FeesLinked(canonical', block'.number)
  <2>1. block'.number - 1 = b.number
    BY <1>1, <1>3
  <2> QED
    BY <1>4, <2>1 DEF FeesLinked
<1> QED
  BY <1>3, <1>5 DEF FeesInv

(* A revert makes the blocks of a snapshot the chain.                      *)
LEMMA RevertKeepsFees ==
    ASSUME ChainInv, FeesInv, NEW blocks \in Chains,
           FeesLinked(blocks, Len(blocks)), RevertPyEVM(blocks),
           UNCHANGED snapshots
    PROVE  FeesInv'
<1>1. /\ Len(blocks) \in Nat \ {0} /\ block'.number = Len(blocks)
      /\ \A n \in 1..Len(blocks) : canonical'[n] = blocks[n]
  BY RevertedChain
<1>2. ASSUME NEW n \in 1..Len(blocks) - 1
      PROVE  canonical'[n + 1].fee = NextFee(canonical'[n].fee, Len(canonical'[n].used))
  <2>1. n \in 1..Len(blocks) /\ n + 1 \in 1..Len(blocks)
    BY <1>1
  <2>2. canonical'[n] = blocks[n] /\ canonical'[n + 1] = blocks[n + 1]
    BY <1>1, <2>1
  <2> QED
    BY <2>2 DEF FeesLinked
<1>3. FeesLinked(canonical', block'.number)
  BY <1>1, <1>2 DEF FeesLinked
<1> QED
  BY <1>3 DEF FeesInv

(* A snapshot has the blocks of the chain.                                 *)
LEMMA SnapshotKeepsFees ==
    ASSUME AccountsInv, ChainInv, FeesInv, TakeSnapshot
    PROVE  FeesInv'
<1>1. PICK taken \in Snapshots :
          /\ Len(taken.blocks) = block.number
          /\ \A n \in 1..block.number : taken.blocks[n] = canonical[n]
          /\ snapshots' = Append(snapshots, taken) /\ UNCHANGED chainVars
  BY TakenSnapshot
<1>2. FeesLinked(taken.blocks, Len(taken.blocks))
  <2>1. block.number \in Nat
    BY DEF ChainInv, Blocks, BlockRecords
  <2>2. ASSUME NEW n \in 1..block.number - 1
        PROVE  n \in 1..block.number /\ n + 1 \in 1..block.number
    BY <2>1
  <2> QED
    BY <1>1, <2>2 DEF FeesInv, FeesLinked
<1>3. ASSUME NEW s \in DOMAIN snapshots'
      PROVE  FeesLinked(snapshots'[s].blocks, Len(snapshots'[s].blocks))
  <2>1. /\ DOMAIN snapshots = 1..Len(snapshots) /\ Len(snapshots) \in Nat
        /\ DOMAIN snapshots' = 1..Len(snapshots) + 1
        /\ \A t \in 1..Len(snapshots) : snapshots'[t] = snapshots[t]
        /\ snapshots'[Len(snapshots) + 1] = taken
    BY <1>1, AppendProperties, LenProperties DEF AccountsInv
  <2>2. CASE s \in DOMAIN snapshots
    BY <2>1, <2>2 DEF FeesInv
  <2>3. CASE s = Len(snapshots) + 1
    BY <1>2, <2>1, <2>3
  <2> QED
    BY <2>1, <2>2, <2>3
<1> QED
  BY <1>1, <1>3 DEF FeesInv, chainVars

(* No action breaks the links.                                             *)
LEMMA FeesStep ==
    ASSUME AccountsInv, ChainInv, FeesInv, [Next]_vars
    PROVE  FeesInv'
<1>1. ASSUME UNCHANGED <<canonical, snapshots>>, block'.number = block.number
      PROVE  FeesInv'
  BY <1>1 DEF FeesInv
<1>2. ASSUME UNCHANGED <<chainVars, snapshots>> PROVE FeesInv'
  BY <1>1, <1>2 DEF chainVars
<1>3. CASE \/ \E account \in Added, password \in {"none", "secret"} :
                 AddAccount(account, password)
           \/ \E account \in Added : UnlockAccount(account) \/ LockAccount(account)
  BY <1>2, <1>3 DEF AddAccount, UnlockAccount, LockAccount
<1>4. ASSUME NEW tx, tx.from \in Keys, apply_transaction(tx)
      PROVE  FeesInv'
  <2>1. block'.number = block.number
    BY <1>4, SendEffect
  <2> QED
    BY <1>1, <1>4, <2>1 DEF apply_transaction
<1>5. CASE MineBlock
  BY <1>5, MineKeepsFees DEF MineBlock, ChainInv
<1>6. ASSUME NEW account \in Listed \cup Added, ApplyWithdrawals(account)
      PROVE  FeesInv'
  <2>1. PICK b \in Blocks :
            /\ Mine(b) /\ b.number = block.number /\ b.fee = block.fee
    BY <1>6, SentIsApplied, WithdrawalMines DEF AccountsInv
  <2> QED
    BY <2>1, MineKeepsFees
<1>7. CASE TakeSnapshot
  BY <1>7, SnapshotKeepsFees
<1>8. ASSUME NEW s \in 1..MaxSnapshots, RevertToSnapshot(s)
      PROVE  FeesInv'
  <2>1. CASE RevertPyEVM(snapshots[s].blocks)
    <3>1. s \in DOMAIN snapshots
      BY <1>8 DEF RevertToSnapshot
    <3>2. FeesLinked(snapshots[s].blocks, Len(snapshots[s].blocks))
      BY <3>1 DEF FeesInv
    <3>3. snapshots[s].blocks \in Chains
      BY <3>1, SnapshotTyped DEF AccountsInv
    <3>4. UNCHANGED snapshots
      BY <2>1 DEF RevertPyEVM
    <3> QED
      BY <2>1, <3>2, <3>3, <3>4, RevertKeepsFees
  <2>2. CASE RevertMock(snapshots[s].keys)
    BY <1>2, <2>2 DEF RevertMock
  <2> QED
    BY <1>8, <2>1, <2>2 DEF RevertToSnapshot
<1>9. CASE ResetToGenesis
  <2>1. snapshots' = << >>
    BY <1>9 DEF ResetToGenesis
  <2>2. FeesLinked(canonical', block'.number)
    <3>1. CASE UNCHANGED chainVars
      BY <3>1 DEF chainVars, FeesInv
    <3>2. ASSUME NEW genesis \in DefaultChain,
                 block' = Child(GenesisBlock(genesis.state))
          PROVE  FeesLinked(canonical', block'.number)
      BY <3>2 DEF Child, GenesisBlock, FeesLinked
    <3> QED
      BY <1>9, <3>1, <3>2 DEF ResetToGenesis, ResetBackend
  <2> QED
    BY <2>1, <2>2 DEF FeesInv
<1>10. CASE UNCHANGED vars
  BY <1>2, <1>10 DEF vars
<1>11. ASSUME NEW from \in Listed \cup Added,
              \/ \E nonces, fees : SendTransaction(from, nonces, fees)
              \/ SendSignedTransaction(from)
       PROVE  FeesInv'
  BY <1>4, <1>11, SentIsApplied DEF AccountsInv
<1> QED
  BY <1>3, <1>5, <1>6, <1>7, <1>8, <1>9, <1>10, <1>11 DEF Next

LEMMA FeesInvariant == Spec => []FeesInv
<1>1. Init => FeesInv
  <2>1. ASSUME NEW state, block = Child(GenesisBlock(state))
        PROVE  FeesLinked(canonical, block.number)
    BY <2>1 DEF Child, GenesisBlock, FeesLinked
  <2> QED
    BY <2>1 DEF Init, InitLocal, InitMock, InitPyEVM, FeesInv
<1> QED
  BY <1>1, FeesStep, InductiveInvariant, PTL DEF Spec

(***************************************************************************)
(* Every fee history that is answered has, nearest block first, the base   *)
(* fees that get_base_fee answers for those blocks, and each follows from  *)
(* the gas that the history reports of the block before: after any number  *)
(* of reverts, with abandoned blocks above the head or not.                *)
(* (get_fee_history, revert_to_snapshot)                                   *)
(***************************************************************************)
THEOREM FeeHistoryAlwaysFollows == Spec => []FeeHistoryFollowsGas
<1>1. ASSUME ChainInv, FeesInv, backend = "pyevm",
             NEW count \in 1..MaxBlocks, NEW n \in Numbers,
             NEW history \in get_fee_history(count, n)
      PROVE  /\ Len(history) <= count
             /\ \A i \in DOMAIN history :
                   /\ get_base_fee(n - i) = {history[i].fee}
                   /\ i + 1 \in DOMAIN history =>
                         history[i].fee
                           = NextFee(history[i + 1].fee, history[i + 1].used)
  <2>1. count \in Nat /\ n \in Nat /\ block.number \in Nat
    BY <1>1 DEF Numbers, ChainInv, Blocks, BlockRecords
  <2>2. ASSUME NEW id \in Nat
        PROVE  /\ id # Pending
               /\ _get_block_by_number(id)
                     = IF id < block.number THEN {canonical[id + 1]} ELSE {}
    BY <2>2, SentinelAssumption DEF _get_block_by_number, BlockTags
  <2> DEFINE head == canonical[n + 1]
             k == IF count < head.number THEN count ELSE head.number
             line(i) == canonical[head.number - i + 1]
  <2>3. n < block.number /\ history
          = [i \in 1..k |-> [fee |-> line(i).fee, used |-> Len(line(i).used)]]
    <3>1. history \in
            { [i \in DOMAIN Ancestors(count, b) |->
                  LET ancestor == Ancestors(count, b)[i]
                  IN  [fee |-> ancestor.fee, used |-> Len(ancestor.used)]] :
                b \in _get_block_by_number(n) }
      BY <1>1, <2>1, <2>2 DEF get_fee_history
    <3>2. n < block.number /\ history
            = [i \in DOMAIN Ancestors(count, head) |->
                  LET ancestor == Ancestors(count, head)[i]
                  IN  [fee |-> ancestor.fee, used |-> Len(ancestor.used)]]
      BY <2>1, <2>2, <3>1
    <3>3. Ancestors(count, head) = [i \in 1..k |-> line(i)]
      BY DEF Ancestors
    <3> HIDE DEF k, line
    <3> QED
      BY <3>2, <3>3
  <2>4. head.number = n
    <3>1. n + 1 \in 1..Len(canonical)
      BY <1>1, <2>1, <2>3 DEF ChainInv
    <3>2. \A m \in 1..Len(canonical) : canonical[m].number = m - 1
      BY <1>1 DEF ChainInv, Chains
    <3> QED
      BY <2>1, <3>1, <3>2
  <2>5. k \in Nat /\ k <= count /\ k <= n
    BY <2>1, <2>4
  <2>6. DOMAIN history = 1..k /\ \A i \in 1..k :
           /\ history[i].fee = canonical[n - i + 1].fee
           /\ history[i].used = Len(canonical[n - i + 1].used)
    BY <2>3, <2>4
  <2> HIDE DEF k, line, head
  <2>7. Len(history) = k
    <3> DEFINE S == { history[i] : i \in 1..k }
    <3>1. history \in [1..k -> S]
      BY <2>3, <2>6
    <3>2. history \in Seq(S)
      BY <2>5, <3>1, SeqDef
    <3> QED
      BY <2>5, <2>6, <3>2, LenProperties
  <2>8. ASSUME NEW i \in 1..k
        PROVE  get_base_fee(n - i) = {history[i].fee}
    <3>1. n - i \in Nat /\ n - i < block.number
      BY <2>1, <2>3, <2>5
    <3>2. _get_block_by_number(n - i) = {canonical[n - i + 1]}
      BY <2>2, <3>1
    <3> QED
      BY <2>6, <3>2 DEF get_base_fee
  <2>9. ASSUME NEW i \in 1..k, i + 1 \in 1..k
        PROVE  history[i].fee = NextFee(history[i + 1].fee, history[i + 1].used)
    <3>1. n - i \in 1..block.number - 1 /\ n - (i + 1) + 1 = n - i
      BY <2>1, <2>3, <2>5, <2>9
    <3>2. canonical[n - i + 1].fee
            = NextFee(canonical[n - i].fee, Len(canonical[n - i].used))
      BY <1>1, <3>1 DEF FeesInv, FeesLinked
    <3>3. /\ history[i + 1].fee = canonical[n - i].fee
          /\ history[i + 1].used = Len(canonical[n - i].used)
      BY <2>6, <2>9, <3>1
    <3> QED
      BY <2>6, <3>2, <3>3
  <2> QED
    BY <2>1, <2>5, <2>6, <2>7, <2>8, <2>9
<1>2. ASSUME ChainInv, FeesInv PROVE FeeHistoryFollowsGas
  BY <1>1, <1>2 DEF FeeHistoryFollowsGas, OnPyEVM
<1> QED
  BY <1>2, InductiveInvariant, FeesInvariant, PTL

-----------------------------------------------------------------------------
(* call and estimate_gas.                                                  *)

(* Of the blocks that get_block_by_number finds, the table that            *)
(* estimate_gas asks has the same ones.                                    *)
LEMMA FoundInTable ==
    ASSUME ChainInv, NEW id, id # Pending,
           NEW b, _get_block_by_number(id) = {b}, id \in Tags \cup Numbers
    PROVE  AnyCanonicalBlock(id) = {b}
<1>1. canonical \in Seq(Blocks) /\ block.number \in 1..Len(canonical)
  BY DEF ChainInv, Chains
<1>2. CASE id \in {Latest, Safe, Finalized}
  BY <1>2 DEF _get_block_by_number, AnyCanonicalBlock
<1>3. CASE id \notin {Latest, Safe, Finalized} /\ id = Earliest
  BY <1>3 DEF _get_block_by_number, AnyCanonicalBlock
<1>4. CASE id \notin {Latest, Safe, Finalized} /\ id # Earliest
  <2>1. /\ id \in Nat /\ id < block.number
        /\ {canonical[id + 1]} = {b}
    BY <1>4 DEF _get_block_by_number, Tags, Numbers
  <2>2. id < Len(canonical)
    BY <1>1, <2>1
  <2> QED
    BY <1>4, <2>1, <2>2 DEF AnyCanonicalBlock
<1> QED
  BY <1>2, <1>3, <1>4

(* get_block_by_number finds one block or none.                            *)
LEMMA FoundOnce ==
    ASSUME NEW id
    PROVE  \/ _get_block_by_number(id) = {}
           \/ \E b : _get_block_by_number(id) = {b}
BY DEF _get_block_by_number

(***************************************************************************)
(* call and estimate_gas know the same blocks, by number, by tag and after *)
(* reverts, though estimate_gas asks a table that still has the blocks of  *)
(* the abandoned branch; and where estimate_gas answers, call answers too  *)
(* unless the pending block is full or the base fee exceeds the default    *)
(* fee.  (call, estimate_gas)                                              *)
(***************************************************************************)
THEOREM CallsAlwaysAgree == Spec => []CallsAgreeWithEstimates
<1>1. ASSUME ChainInv, backend = "pyevm", NEW a \in ChainAccounts,
             NEW id \in Numbers \cup (Tags \ {Pending})
      PROVE  /\ estimate_gas(a, id) = "BlockNotFound" <=> call(a, id) = "BlockNotFound"
             /\ estimate_gas(a, id) = "answer" =>
                   (call(a, id) = "answer"
                       <=> /\ _max_available_gas > 0
                           /\ \A fee \in get_base_fee(id) : fee <= DefaultFee)
  <2>1. CASE _get_block_by_number(id) = {}
    <3>1. DefaultNonces(a, id) = {}
      BY <1>1, <2>1 DEF DefaultNonces, get_nonce
    <3>2. estimate_gas(a, id) = "BlockNotFound" /\ call(a, id) = "BlockNotFound"
      BY <2>1, <3>1 DEF estimate_gas, call
    <3> QED
      BY <3>2
  <2>2. ASSUME NEW b, _get_block_by_number(id) = {b}
        PROVE  /\ estimate_gas(a, id) = "BlockNotFound" <=> call(a, id) = "BlockNotFound"
               /\ estimate_gas(a, id) = "answer" =>
                     (call(a, id) = "answer"
                         <=> /\ _max_available_gas > 0
                             /\ \A fee \in get_base_fee(id) : fee <= DefaultFee)
    <3>1. DefaultNonces(a, id) = {NonceIn(b.state, a)}
      BY <1>1, <2>2 DEF DefaultNonces, get_nonce
    <3>2. estimate_gas(a, id) # "BlockNotFound"
      BY <3>1 DEF estimate_gas
    <3>3. call(a, id) # "BlockNotFound"
      BY <2>2 DEF call
    <3>4. ASSUME estimate_gas(a, id) = "answer"
          PROVE  call(a, id) = "answer"
                    <=> /\ _max_available_gas > 0
                        /\ \A fee \in get_base_fee(id) : fee <= DefaultFee
      <4>1. id # Pending
        BY <3>1, <3>4 DEF estimate_gas
      <4>2. AnyCanonicalBlock(id) = {b}
        BY <1>1, <2>2, <4>1, FoundInTable
      <4>3. BalanceIn(b.state, a) > 0
        <5>1. \E c \in AnyCanonicalBlock(id) : BalanceIn(c.state, a) > 0
          BY <3>1, <3>4, <4>1 DEF estimate_gas
        <5> QED
          BY <4>2, <5>1
      <4>4. PICK fee : fee = b.fee
        OBVIOUS
      <4>5. get_base_fee(id) = {fee}
        BY <2>2, <4>4 DEF get_base_fee
      <4>6. PICK nonce : nonce = NonceIn(b.state, a)
        OBVIOUS
      <4>7. _normalize_transaction(a, DefaultNonces(a, id), "none", id)
              = [from : {a}, nonce : {nonce}, max_fee : {DefaultFee}]
        BY <3>1, <4>6 DEF _normalize_transaction, MaxFee
      <4>8. ASSUME NEW tx \in [from : {a}, nonce : {nonce}, max_fee : {DefaultFee}]
            PROVE  Executes(tx, b.state, b.fee) <=> DefaultFee >= fee
        <5>1. tx.from = a /\ tx.nonce = nonce /\ tx.max_fee = DefaultFee
          OBVIOUS
        <5> QED
          BY <4>3, <4>4, <4>6, <5>1 DEF Executes
      <4>9. [from |-> a, nonce |-> nonce, max_fee |-> DefaultFee]
              \in [from : {a}, nonce : {nonce}, max_fee : {DefaultFee}]
        OBVIOUS
      <4>10. (\E c \in _get_block_by_number(id) :
                \E tx \in _normalize_transaction(a, DefaultNonces(a, id), "none", id) :
                    Executes(tx, c.state, c.fee))
              <=> DefaultFee >= fee
        BY <2>2, <4>7, <4>8, <4>9
      <4>11. call(a, id) = "answer" <=> _max_available_gas > 0 /\ DefaultFee >= fee
        BY <2>2, <4>10 DEF call
      <4>12. DefaultFee >= fee <=> fee <= DefaultFee
        OBVIOUS
      <4> QED
        BY <4>5, <4>11, <4>12
    <3> QED
      BY <3>2, <3>3, <3>4
  <2> QED
    BY <2>1, <2>2, FoundOnce
<1>2. ASSUME ChainInv PROVE CallsAgreeWithEstimates
  BY <1>1, <1>2 DEF CallsAgreeWithEstimates, OnPyEVM
<1> QED
  BY <1>2, InductiveInvariant, PTL

-----------------------------------------------------------------------------
(* Nonces count transactions.                                              *)

(* The places of a's transactions in the blocks 0 to n of c.               *)
PlacesOf(c, a, n) == UNION { {k} \X SentIn(c[k + 1], a) : k \in 0..n }

(* In the first m blocks of c, the nonce of every account is that of the   *)
(* first one and the number of its transactions so far.                    *)
Counted(c, m) ==
    \A n \in 0..m - 1, a \in Keys :
        /\ IsFiniteSet(PlacesOf(c, a, n))
        /\ NonceIn(c[n + 1].state, a)
              = NonceIn(c[1].state, a) + Cardinality(PlacesOf(c, a, n))

(* A block adds its own transactions to the nonces of its parent.          *)
Adds(b, parent) ==
    \A a \in Keys :
        NonceIn(b.state, a) = NonceIn(parent.state, a) + Cardinality(SentIn(b, a))

(* The chain and every snapshot count.  Nothing is said of what a revert   *)
(* has left above the head.                                                *)
NoncesInv ==
    /\ Counted(canonical, block.number)
    /\ Adds(block, LatestBlock)
    /\ \A s \in DOMAIN snapshots :
          Counted(snapshots[s].blocks, Len(snapshots[s].blocks))

(* The transactions that a block stands for are those whose gas it used.   *)
LEMMA SentOfGas ==
    ASSUME NEW b \in Blocks, NEW a
    PROVE  SentIn(b, a) = { i \in DOMAIN b.used : b.used[i] = a }
<1>1. Ran(b) = b.used
  BY DEF Blocks, Ran
<1> QED
  BY <1>1 DEF SentIn

LEMMA SentInFinite ==
    ASSUME NEW b \in Blocks, NEW a
    PROVE  IsFiniteSet(SentIn(b, a)) /\ Cardinality(SentIn(b, a)) \in Nat
<1>1. b.used \in Seq(Keys) /\ Len(b.used) \in Nat
  BY LenProperties DEF Blocks, BlockRecords
<1>2. SentIn(b, a) \subseteq 1..Len(b.used)
  BY <1>1, LenProperties, SentOfGas
<1>3. IsFiniteSet(1..Len(b.used))
  BY <1>1, FS_Interval
<1>4. IsFiniteSet(SentIn(b, a))
  BY <1>2, <1>3, FS_Subset
<1> QED
  BY <1>4, FS_CardinalityType

(* The places up to block n depend on the blocks 0 to n only.              *)
LEMMA PlacesOfSame ==
    ASSUME NEW c, NEW d, NEW a, NEW n \in Nat,
           \A k \in 0..n : c[k + 1] = d[k + 1]
    PROVE  PlacesOf(c, a, n) = PlacesOf(d, a, n)
BY DEF PlacesOf

LEMMA CountedSame ==
    ASSUME NEW c, NEW d, NEW m \in Nat, Counted(c, m),
           \A k \in 1..m : d[k] = c[k]
    PROVE  Counted(d, m)
<1>1. ASSUME NEW n \in 0..m - 1, NEW a \in Keys
      PROVE  /\ IsFiniteSet(PlacesOf(d, a, n))
             /\ NonceIn(d[n + 1].state, a)
                   = NonceIn(d[1].state, a) + Cardinality(PlacesOf(d, a, n))
  <2>1. c[1] = d[1] /\ \A k \in 0..n : c[k + 1] = d[k + 1]
    OBVIOUS
  <2>2. PlacesOf(c, a, n) = PlacesOf(d, a, n)
    BY <2>1, PlacesOfSame
  <2> QED
    BY <2>1, <2>2 DEF Counted
<1> QED
  BY <1>1 DEF Counted

(* The places up to block n + 1: n + 1 is a place of none of those below.  *)
LEMMA PlacesOfNext ==
    ASSUME NEW c, NEW a, NEW n \in Nat,
           IsFiniteSet(PlacesOf(c, a, n)), IsFiniteSet(SentIn(c[n + 2], a))
    PROVE  /\ IsFiniteSet(PlacesOf(c, a, n + 1))
           /\ Cardinality(PlacesOf(c, a, n + 1))
                 = Cardinality(PlacesOf(c, a, n)) + Cardinality(SentIn(c[n + 2], a))
<1> DEFINE old == PlacesOf(c, a, n)
           own == SentIn(c[n + 2], a)
           new == {n + 1} \X own
<1>1. PlacesOf(c, a, n + 1) = old \cup new
  <2>1. \A k : k \in 0..n + 1 <=> k \in 0..n \/ k = n + 1
    OBVIOUS
  <2>2. (n + 1) + 1 = n + 2
    OBVIOUS
  <2> QED
    BY <2>1, <2>2 DEF PlacesOf
<1>2. \A p \in old : p[1] # n + 1
  BY DEF PlacesOf
<1>3. old \cap new = {}
  BY <1>2
<1>4. IsFiniteSet(new) /\ Cardinality(new) = Cardinality(own)
  <2>1. IsFiniteSet({n + 1}) /\ Cardinality({n + 1}) = 1
    BY FS_Singleton
  <2>2. IsFiniteSet(own) /\ Cardinality(own) \in Nat
    BY FS_CardinalityType
  <2> HIDE DEF own
  <2>3. IsFiniteSet(new) /\ Cardinality(new) = 1 * Cardinality(own)
    BY <2>1, <2>2, FS_Product
  <2> QED
    BY <2>2, <2>3
<1>5. Cardinality(old \cup new)
        = Cardinality(old) + Cardinality(new) - Cardinality(old \cap new)
  BY <1>4, FS_Union
<1>6. IsFiniteSet(old \cup new)
  BY <1>4, FS_Union
<1>7. Cardinality({}) = 0 /\ Cardinality(old) \in Nat /\ Cardinality(own) \in Nat
  BY FS_EmptySet, FS_CardinalityType
<1>8. Cardinality(old \cup new) = Cardinality(old) + Cardinality(own)
  <2> HIDE DEF old, own, new
  <2> QED
    BY <1>3, <1>4, <1>5, <1>7
<1> QED
  BY <1>1, <1>6, <1>8

(* One block more.                                                         *)
LEMMA CountedNext ==
    ASSUME NEW c, NEW m \in Nat \ {0}, Counted(c, m),
           c[1] \in Blocks, c[m] \in Blocks, c[m + 1] \in Blocks, Adds(c[m + 1], c[m])
    PROVE  Counted(c, m + 1)
<1>1. ASSUME NEW n \in 0..m, NEW a \in Keys
      PROVE  /\ IsFiniteSet(PlacesOf(c, a, n))
             /\ NonceIn(c[n + 1].state, a)
                   = NonceIn(c[1].state, a) + Cardinality(PlacesOf(c, a, n))
  <2>1. CASE n \in 0..m - 1
    BY <2>1 DEF Counted
  <2>2. CASE n = m
    <3> DEFINE k == m - 1
    <3>1. k \in Nat /\ k \in 0..m - 1 /\ k + 1 = m /\ k + 2 = m + 1
      OBVIOUS
    <3> HIDE DEF k
    <3>2. /\ IsFiniteSet(PlacesOf(c, a, k))
          /\ NonceIn(c[m].state, a)
                = NonceIn(c[1].state, a) + Cardinality(PlacesOf(c, a, k))
      BY <3>1 DEF Counted
    <3>3. IsFiniteSet(SentIn(c[m + 1], a))
      BY SentInFinite
    <3>4. /\ IsFiniteSet(PlacesOf(c, a, m))
          /\ Cardinality(PlacesOf(c, a, m))
               = Cardinality(PlacesOf(c, a, k)) + Cardinality(SentIn(c[m + 1], a))
      BY <3>1, <3>2, <3>3, PlacesOfNext
    <3>5. NonceIn(c[m + 1].state, a)
            = NonceIn(c[m].state, a) + Cardinality(SentIn(c[m + 1], a))
      BY DEF Adds
    <3>6. /\ NonceIn(c[1].state, a) \in Nat
          /\ Cardinality(PlacesOf(c, a, k)) \in Nat
          /\ Cardinality(SentIn(c[m + 1], a)) \in Nat
      BY <3>2, <3>3, NonceInNat, FS_CardinalityType DEF Blocks, BlockRecords
    <3> QED
      BY <2>2, <3>2, <3>4, <3>5, <3>6
  <2> QED
    BY <2>1, <2>2
<1>2. m + 1 - 1 = m
  OBVIOUS
<1> QED
  BY <1>1, <1>2 DEF Counted

(* A new block adds nothing.                                               *)
LEMMA ChildAdds ==
    ASSUME NEW parent \in Blocks
    PROVE  Adds(Child(parent), parent)
<1>1. Child(parent).used = << >> /\ Child(parent).state = parent.state
  BY DEF Child
<1>2. \A a : SentIn(Child(parent), a) = {}
  BY <1>1, SentOfGas, ChildFollows
<1>3. \A a \in Keys : NonceIn(parent.state, a) \in Nat
  BY NonceInNat DEF Blocks, BlockRecords
<1> QED
  BY <1>1, <1>2, <1>3, FS_EmptySet DEF Adds

(* A genesis block has no transactions.                                    *)
LEMMA GenesisCounts ==
    ASSUME NEW state \in States
    PROVE  /\ Counted(<<GenesisBlock(state)>>, 1)
           /\ Adds(Child(GenesisBlock(state)), GenesisBlock(state))
<1> DEFINE c == <<GenesisBlock(state)>>
<1>1. GenesisBlock(state).used = << >> /\ GenesisBlock(state).state = state
  BY DEF GenesisBlock
<1>2. ASSUME NEW n \in 0..0, NEW a \in Keys
      PROVE  /\ IsFiniteSet(PlacesOf(c, a, n))
             /\ NonceIn(c[n + 1].state, a)
                   = NonceIn(c[1].state, a) + Cardinality(PlacesOf(c, a, n))
  <2>1. n = 0 /\ c[n + 1] = GenesisBlock(state) /\ c[1] = GenesisBlock(state)
    OBVIOUS
  <2>2. SentIn(GenesisBlock(state), a) = {}
    <3>1. GenesisBlock(state) \in Blocks
      BY GenesisChain
    <3>2. SentIn(GenesisBlock(state), a)
            = { i \in DOMAIN GenesisBlock(state).used : GenesisBlock(state).used[i] = a }
      BY <3>1, SentOfGas
    <3> QED
      BY <1>1, <3>2
  <2>3. PlacesOf(c, a, n) = {}
    <3> HIDE DEF c
    <3>1. \A k \in 0..n : c[k + 1] = GenesisBlock(state)
      BY <2>1
    <3> QED
      BY <2>2, <3>1 DEF PlacesOf
  <2>4. NonceIn(state, a) \in Nat
    BY NonceInNat
  <2> QED
    BY <1>1, <2>1, <2>3, <2>4, FS_EmptySet
<1>3. 1 - 1 = 0
  OBVIOUS
<1> QED
  BY <1>2, <1>3, GenesisChain, ChildAdds DEF Counted

(* A mined block is the pending one, perhaps with other balances.          *)
LEMMA MineKeepsNonces ==
    ASSUME ChainInv, NoncesInv, NEW b \in Blocks,
           b.number = block.number, b.used = block.used,
           \A a \in Keys : NonceIn(b.state, a) = NonceIn(block.state, a),
           Mine(b)
    PROVE  NoncesInv'
<1>1. /\ block.number \in Nat \ {0} /\ block.number \in 1..Len(canonical)
      /\ canonical \in Seq(Blocks) /\ canonical[block.number] \in Blocks
      /\ LatestBlock = canonical[block.number]
  <2>1. /\ block.number \in Nat /\ block.number \in 1..Len(canonical)
        /\ canonical \in Seq(Blocks)
    BY DEF ChainInv, Chains, Blocks, BlockRecords
  <2> QED
    BY <2>1, ElementOfSeq DEF LatestBlock
<1>2. /\ canonical' \in Seq(Blocks) /\ Len(canonical') \in Nat
      /\ b.number + 1 \in 1..Len(canonical')
      /\ canonical'[b.number + 1] = b
      /\ \A n \in 1..Len(canonical') :
            n # b.number + 1 => canonical'[n] = canonical[n]
  BY MinedTable, LenProperties
<1>3. block'.number = b.number + 1 /\ snapshots' = snapshots /\ block' = Child(b)
  BY ChildFollows DEF Mine, Follows
<1>4. \A n \in 1..b.number : canonical'[n] = canonical[n]
  BY <1>1, <1>2
<1>5. Counted(canonical', b.number)
  BY <1>1, <1>4, CountedSame DEF NoncesInv
<1>6. Adds(b, canonical[b.number])
  <2>1. ASSUME NEW a PROVE SentIn(b, a) = SentIn(block, a)
    <3>1. SentIn(b, a) = { i \in DOMAIN b.used : b.used[i] = a }
      BY SentOfGas
    <3>2. SentIn(block, a) = { i \in DOMAIN block.used : block.used[i] = a }
      BY SentOfGas DEF ChainInv
    <3> QED
      BY <3>1, <3>2
  <2> QED
    BY <1>1, <2>1 DEF NoncesInv, Adds
<1>7. Counted(canonical', b.number + 1)
  <2>1. canonical'[b.number] = canonical[b.number]
    BY <1>1, <1>4
  <2> QED
    BY <1>1, <1>2, <1>5, <1>6, <2>1, CountedNext
<1>8. LatestBlock' = b
  BY <1>2, <1>3 DEF LatestBlock
<1>9. Adds(block', LatestBlock')
  BY <1>3, <1>8, ChildAdds
<1> QED
  BY <1>3, <1>7, <1>9 DEF NoncesInv

(* A transaction adds one to what its sender has sent.                     *)
LEMMA SendKeepsNonces ==
    ASSUME ChainInv, NoncesInv, NEW tx, tx.from \in Keys, apply_transaction(tx)
    PROVE  NoncesInv'
<1> DEFINE from == tx.from
<1>1. /\ from \in Keys /\ block'.number = block.number
      /\ block'.used = Append(block.used, from)
      /\ \A a \in Keys :
            NonceIn(block'.state, a)
               = IF a = from THEN NonceIn(block.state, a) + 1
                 ELSE NonceIn(block.state, a)
      /\ block' \in Blocks
  BY SendEffect, SendKeepsChain DEF ChainInv
<1> HIDE DEF from
<1>2. canonical' = canonical /\ snapshots' = snapshots
  BY DEF apply_transaction
<1>3. LatestBlock' = LatestBlock
  BY <1>1, <1>2 DEF LatestBlock
<1>4. ASSUME NEW a \in Keys
      PROVE  NonceIn(block'.state, a)
                = NonceIn(LatestBlock.state, a) + Cardinality(SentIn(block', a))
  <2> DEFINE new == Len(block.used) + 1
  <2>1. /\ block.used \in Seq(Keys) /\ Len(block.used) \in Nat
        /\ DOMAIN block.used = 1..Len(block.used)
        /\ DOMAIN block'.used = 1..new
        /\ \A i \in 1..Len(block.used) : block'.used[i] = block.used[i]
        /\ block'.used[new] = from
    BY <1>1, LenProperties, AppendProperties, ElementsOfAppend DEF ChainInv, Blocks, BlockRecords
  <2>2. SentIn(block', a) = SentIn(block, a) \cup IF a = from THEN {new} ELSE {}
    <3>1. \A i : i \in 1..new <=> i \in 1..Len(block.used) \/ i = new
      BY <2>1
    <3> HIDE DEF new
    <3> QED
      BY <1>1, <2>1, <3>1, SentOfGas DEF ChainInv
  <2>3. new \notin SentIn(block, a)
    BY <2>1, SentOfGas DEF ChainInv
  <2>4. IsFiniteSet(SentIn(block, a)) /\ Cardinality(SentIn(block, a)) \in Nat
    BY SentInFinite DEF ChainInv
  <2>5. NonceIn(LatestBlock.state, a) \in Nat
    BY LatestIsBlock, NonceInNat DEF Blocks, BlockRecords
  <2>6. NonceIn(block.state, a)
          = NonceIn(LatestBlock.state, a) + Cardinality(SentIn(block, a))
    BY DEF NoncesInv, Adds
  <2> HIDE DEF new
  <2>7. CASE a = from
    <3>1. Cardinality(SentIn(block', a)) = Cardinality(SentIn(block, a)) + 1
      BY <2>2, <2>3, <2>4, <2>7, FS_AddElement
    <3>2. NonceIn(block'.state, a) = NonceIn(block.state, a) + 1
      BY <1>1, <2>7
    <3> QED
      BY <2>4, <2>5, <2>6, <3>1, <3>2
  <2>8. CASE a # from
    <3>1. SentIn(block', a) = SentIn(block, a)
      BY <2>2, <2>8
    <3>2. NonceIn(block'.state, a) = NonceIn(block.state, a)
      BY <1>1, <2>8
    <3> QED
      BY <2>6, <3>1, <3>2
  <2> QED
    BY <2>7, <2>8
<1>5. Adds(block', LatestBlock')
  BY <1>3, <1>4 DEF Adds
<1> QED
  BY <1>1, <1>2, <1>5 DEF NoncesInv

LEMMA RevertKeepsNonces ==
    ASSUME ChainInv, NoncesInv, NEW blocks \in Chains,
           Counted(blocks, Len(blocks)), RevertPyEVM(blocks),
           UNCHANGED snapshots
    PROVE  NoncesInv'
<1>1. /\ blocks[Len(blocks)] \in Blocks /\ Len(blocks) \in Nat \ {0}
      /\ block' = Child(blocks[Len(blocks)]) /\ block'.number = Len(blocks)
      /\ \A n \in 1..Len(blocks) : canonical'[n] = blocks[n]
  BY RevertedChain
<1>2. Counted(canonical', block'.number)
  BY <1>1, CountedSame
<1>3. LatestBlock' = blocks[Len(blocks)]
  BY <1>1 DEF LatestBlock
<1>4. Adds(block', LatestBlock')
  BY <1>1, <1>3, ChildAdds
<1> QED
  BY <1>2, <1>4 DEF NoncesInv

LEMMA SnapshotKeepsNonces ==
    ASSUME AccountsInv, ChainInv, NoncesInv, TakeSnapshot
    PROVE  NoncesInv'
<1>1. PICK taken \in Snapshots :
          /\ Len(taken.blocks) = block.number
          /\ \A n \in 1..block.number : taken.blocks[n] = canonical[n]
          /\ snapshots' = Append(snapshots, taken) /\ UNCHANGED chainVars
  BY TakenSnapshot
<1>2. block.number \in Nat
  BY DEF ChainInv, Blocks, BlockRecords
<1>3. Counted(taken.blocks, Len(taken.blocks))
  BY <1>1, <1>2, CountedSame DEF NoncesInv
<1>4. ASSUME NEW s \in DOMAIN snapshots'
      PROVE  Counted(snapshots'[s].blocks, Len(snapshots'[s].blocks))
  <2>1. /\ DOMAIN snapshots = 1..Len(snapshots) /\ Len(snapshots) \in Nat
        /\ DOMAIN snapshots' = 1..Len(snapshots) + 1
        /\ \A t \in 1..Len(snapshots) : snapshots'[t] = snapshots[t]
        /\ snapshots'[Len(snapshots) + 1] = taken
    BY <1>1, AppendProperties, LenProperties DEF AccountsInv
  <2>2. CASE s \in DOMAIN snapshots
    BY <2>1, <2>2 DEF NoncesInv
  <2>3. CASE s = Len(snapshots) + 1
    BY <1>3, <2>1, <2>3
  <2> QED
    BY <2>1, <2>2, <2>3
<1> QED
  BY <1>1, <1>4 DEF NoncesInv, chainVars, LatestBlock

(* No action makes a nonce differ from the number of transactions.         *)
LEMMA NoncesStep ==
    ASSUME AccountsInv, ChainInv, NoncesInv, [Next]_vars
    PROVE  NoncesInv'
<1>1. ASSUME UNCHANGED <<chainVars, snapshots>> PROVE NoncesInv'
  BY <1>1 DEF chainVars, NoncesInv, LatestBlock
<1>2. CASE \/ \E account \in Added, password \in {"none", "secret"} :
                 AddAccount(account, password)
           \/ \E account \in Added : UnlockAccount(account) \/ LockAccount(account)
  BY <1>1, <1>2 DEF AddAccount, UnlockAccount, LockAccount
<1>3. ASSUME NEW from \in Listed \cup Added,
             \/ \E nonces, fees : SendTransaction(from, nonces, fees)
             \/ SendSignedTransaction(from)
      PROVE  NoncesInv'
  BY <1>3, SentIsApplied, SendKeepsNonces DEF AccountsInv
<1>4. CASE MineBlock
  BY <1>4, MineKeepsNonces DEF MineBlock, ChainInv
<1>5. ASSUME NEW account \in Listed \cup Added, ApplyWithdrawals(account)
      PROVE  NoncesInv'
  <2>1. PICK b \in Blocks :
            /\ Mine(b) /\ b.number = block.number /\ b.used = block.used
            /\ \A a \in Keys : NonceIn(b.state, a) = NonceIn(block.state, a)
    BY <1>5, SentIsApplied, WithdrawalMines DEF AccountsInv
  <2> QED
    BY <2>1, MineKeepsNonces
<1>6. CASE TakeSnapshot
  BY <1>6, SnapshotKeepsNonces
<1>7. ASSUME NEW s \in 1..MaxSnapshots, RevertToSnapshot(s)
      PROVE  NoncesInv'
  <2>1. CASE RevertPyEVM(snapshots[s].blocks)
    <3>1. s \in DOMAIN snapshots
      BY <1>7 DEF RevertToSnapshot
    <3>2. snapshots[s].blocks \in Chains
      BY <3>1, SnapshotTyped DEF AccountsInv
    <3>3. Counted(snapshots[s].blocks, Len(snapshots[s].blocks))
      BY <3>1 DEF NoncesInv
    <3>4. UNCHANGED snapshots
      BY <2>1 DEF RevertPyEVM
    <3> QED
      BY <2>1, <3>2, <3>3, <3>4, RevertKeepsNonces
  <2>2. CASE RevertMock(snapshots[s].keys)
    BY <1>1, <2>2 DEF RevertMock
  <2> QED
    BY <1>7, <2>1, <2>2 DEF RevertToSnapshot
<1>8. CASE ResetToGenesis
  <2>1. snapshots' = << >>
    BY <1>8 DEF ResetToGenesis
  <2>2. Counted(canonical', block'.number) /\ Adds(block', LatestBlock')
    <3>1. CASE UNCHANGED chainVars
      BY <3>1 DEF chainVars, NoncesInv, LatestBlock
    <3>2. ASSUME NEW genesis \in DefaultChain,
                 canonical' = <<GenesisBlock(genesis.state)>>,
                 block' = Child(GenesisBlock(genesis.state))
          PROVE  Counted(canonical', block'.number) /\ Adds(block', LatestBlock')
      <4>1. genesis \in Geneses
        BY <3>2, AccountsAssumption
      <4>2. genesis.state \in States
        BY <4>1, GenesisAccounts
      <4>3. block'.number = 1 /\ LatestBlock' = GenesisBlock(genesis.state)
        BY <3>2 DEF LatestBlock, Child, GenesisBlock
      <4> QED
        BY <3>2, <4>2, <4>3, GenesisCounts
    <3> QED
      BY <1>8, <3>1, <3>2 DEF ResetToGenesis, ResetBackend
  <2> QED
    BY <2>1, <2>2 DEF NoncesInv
<1>9. CASE UNCHANGED vars
  BY <1>1, <1>9 DEF vars
<1> QED
  BY <1>2, <1>3, <1>4, <1>5, <1>6, <1>7, <1>8, <1>9 DEF Next

LEMMA NoncesInvariant == Spec => []NoncesInv
<1>1. Init => NoncesInv
  <2>1. ASSUME NEW state \in States,
               canonical = <<GenesisBlock(state)>>,
               block = Child(GenesisBlock(state))
        PROVE  Counted(canonical, block.number) /\ Adds(block, LatestBlock)
    <3>1. block.number = 1 /\ LatestBlock = GenesisBlock(state)
      BY <2>1 DEF LatestBlock, Child, GenesisBlock
    <3> QED
      BY <2>1, <3>1, GenesisCounts
  <2>2. DOMAIN << >> = {}
    OBVIOUS
  <2>3. ASSUME InitMock PROVE Counted(canonical, block.number) /\ Adds(block, LatestBlock)
    BY <2>1, <2>2, <2>3, EmptyState DEF InitMock
  <2>4. ASSUME NEW genesis \in Geneses, InitPyEVM(genesis)
        PROVE  Counted(canonical, block.number) /\ Adds(block, LatestBlock)
    BY <2>1, <2>4, GenesisAccounts DEF InitPyEVM
  <2>5. ASSUME InitLocal PROVE DOMAIN snapshots = {}
    BY <2>5 DEF InitLocal
  <2> QED
    BY <2>3, <2>4, <2>5 DEF Init, NoncesInv
<1> QED
  BY <1>1, NoncesStep, InductiveInvariant, PTL DEF Spec

(***************************************************************************)
(* The nonce answered for a block, by its number or by a tag, is that of   *)
(* the genesis block and one for each transaction that the blocks up to it *)
(* stand for, whatever was sent, mined, withdrawn, snapshotted and         *)
(* reverted before: after a revert, nothing of the abandoned branch is     *)
(* counted, though the table has its blocks; after apply_withdrawals, the  *)
(* transactions that were pending still are, though no block lists them.   *)
(* (_get_block_by_number, get_nonce, apply_withdrawals,                    *)
(* revert_to_snapshot)                                                     *)
(***************************************************************************)
THEOREM NoncesAlwaysCount == Spec => []NoncesCountTransactions
<1>1. ASSUME AccountsInv, ChainInv, NoncesInv, backend = "pyevm",
             NEW a \in ChainAccounts
      PROVE  /\ \A n \in Numbers :
                   get_nonce(a, n) = IF n < block.number THEN {NonceAfter(a, n)} ELSE {}
             /\ \A tag \in Tags : get_nonce(a, tag) = {NonceAfter(a, NumberOf(tag))}
  <2>1. a \in Keys
    BY <1>1, AccountsAssumption, ElementsInSet DEF ChainAccounts, Listed, AccountsInv
  <2>2. /\ block.number \in Nat \ {0} /\ block \in Blocks
        /\ canonical \in Seq(Blocks) /\ block.number \in 1..Len(canonical)
        /\ LatestBlock = canonical[block.number]
    BY <1>1 DEF ChainInv, Chains, Blocks, BlockRecords, LatestBlock
  <2>3. ASSUME NEW n \in 0..block.number - 1
        PROVE  NonceIn(canonical[n + 1].state, a) = NonceAfter(a, n)
    <3>1. NonceIn(canonical[n + 1].state, a)
            = NonceIn(canonical[1].state, a) + Cardinality(PlacesOf(canonical, a, n))
      BY <1>1, <2>1, <2>3 DEF NoncesInv, Counted
    <3>2. \A k \in 0..n : BlockAt(k) = canonical[k + 1]
      BY <2>2 DEF BlockAt
    <3> QED
      BY <3>1, <3>2 DEF NonceAfter, SentUpTo, PlacesOf
  <2>4. NonceIn(block.state, a) = NonceAfter(a, block.number)
    <3> DEFINE m == block.number - 1
               c == [k \in 1..block.number + 1 |-> BlockAt(k - 1)]
    <3>1. m \in Nat /\ m + 1 = block.number /\ m + 2 = block.number + 1
          /\ m \in 0..block.number - 1
      BY <2>2
    <3>2. /\ \A k \in 0..block.number : c[k + 1] = BlockAt(k)
          /\ c[block.number + 1] = block
          /\ \A k \in 0..m : c[k + 1] = canonical[k + 1]
      <4>1. \A k \in 0..block.number : k + 1 \in 1..block.number + 1 /\ k + 1 - 1 = k
        BY <2>2
      <4>2. \A k \in 0..m : k \in 0..block.number /\ k < block.number
        BY <2>2
      <4>3. block.number \in 0..block.number /\ ~(block.number < block.number)
        BY <2>2
      <4> QED
        BY <4>1, <4>2, <4>3 DEF BlockAt
    <3> HIDE DEF m, c
    <3>3. PlacesOf(c, a, m) = PlacesOf(canonical, a, m)
      BY <3>1, <3>2, PlacesOfSame
    <3>4. /\ IsFiniteSet(PlacesOf(c, a, m))
          /\ NonceIn(LatestBlock.state, a)
                = NonceIn(canonical[1].state, a) + Cardinality(PlacesOf(c, a, m))
      BY <1>1, <2>1, <2>2, <3>1, <3>3 DEF NoncesInv, Counted
    <3>5. IsFiniteSet(SentIn(block, a))
      BY <2>2, SentInFinite
    <3>6. Cardinality(PlacesOf(c, a, m + 1))
            = Cardinality(PlacesOf(c, a, m)) + Cardinality(SentIn(block, a))
      BY <3>1, <3>2, <3>4, <3>5, PlacesOfNext
    <3>7. PlacesOf(c, a, block.number)
            = UNION { {k} \X SentIn(BlockAt(k), a) : k \in 0..block.number }
      BY <3>2 DEF PlacesOf
    <3>8. NonceIn(block.state, a)
            = NonceIn(LatestBlock.state, a) + Cardinality(SentIn(block, a))
      BY <1>1, <2>1 DEF NoncesInv, Adds
    <3>9. /\ NonceIn(canonical[1].state, a) \in Nat
          /\ Cardinality(PlacesOf(c, a, m)) \in Nat
          /\ Cardinality(SentIn(block, a)) \in Nat
      <4>1. canonical[1] \in Blocks
        BY <2>2, ElementOfSeq
      <4> QED
        BY <2>1, <3>4, <3>5, <4>1, NonceInNat, FS_CardinalityType DEF Blocks, BlockRecords
    <3>10. NonceIn(block.state, a)
             = NonceIn(canonical[1].state, a) + Cardinality(PlacesOf(c, a, block.number))
      <4>1. Cardinality(PlacesOf(c, a, block.number))
              = Cardinality(PlacesOf(c, a, m)) + Cardinality(SentIn(block, a))
        BY <3>1, <3>6
      <4> QED
        BY <3>4, <3>8, <3>9, <4>1
    <3> QED
      BY <3>7, <3>10 DEF NonceAfter, SentUpTo
  <2>5. \A id : get_nonce(a, id) = { NonceIn(b.state, a) : b \in _get_block_by_number(id) }
    BY <1>1 DEF get_nonce
  <2>6. ASSUME NEW n \in Numbers
        PROVE  get_nonce(a, n) = IF n < block.number THEN {NonceAfter(a, n)} ELSE {}
    <3>1. n \in Nat /\ n \notin Tags
      BY SentinelAssumption DEF Numbers, Tags, BlockTags
    <3>2. _get_block_by_number(n) = IF n < block.number THEN {canonical[n + 1]} ELSE {}
      BY <3>1 DEF _get_block_by_number, Tags
    <3>3. CASE n < block.number
      <4>1. NonceIn(canonical[n + 1].state, a) = NonceAfter(a, n)
        BY <2>2, <2>3, <3>1, <3>3
      <4>2. get_nonce(a, n) = {NonceIn(canonical[n + 1].state, a)}
        BY <2>5, <3>2, <3>3
      <4> QED
        BY <3>3, <4>1, <4>2
    <3>4. CASE ~(n < block.number)
      BY <2>5, <3>2, <3>4
    <3> QED
      BY <3>3, <3>4
  <2>7. ASSUME NEW tag \in Tags
        PROVE  get_nonce(a, tag) = {NonceAfter(a, NumberOf(tag))}
    <3>1. CASE tag \in {Latest, Safe, Finalized}
      <4>1. NumberOf(tag) = block.number - 1
        BY <3>1, TagsAssumption DEF NumberOf
      <4>2. get_nonce(a, tag) = {NonceIn(LatestBlock.state, a)}
        BY <2>5, <3>1 DEF _get_block_by_number
      <4>3. block.number - 1 \in 0..block.number - 1 /\ block.number - 1 + 1 = block.number
        BY <2>2
      <4> QED
        BY <2>2, <2>3, <4>1, <4>2, <4>3
    <3>2. CASE tag = Earliest
      <4>1. NumberOf(tag) = 0 /\ 0 \in 0..block.number - 1
        BY <2>2, <3>2, TagsAssumption DEF NumberOf
      <4>2. get_nonce(a, tag) = {NonceIn(canonical[1].state, a)}
        BY <2>5, <3>2, TagsAssumption DEF _get_block_by_number
      <4>3. NonceIn(canonical[0 + 1].state, a) = NonceAfter(a, 0)
        BY <2>3, <4>1
      <4> QED
        BY <4>1, <4>2, <4>3
    <3>3. CASE tag = Pending
      <4>1. NumberOf(tag) = block.number
        BY <3>3, TagsAssumption DEF NumberOf
      <4>2. get_nonce(a, tag) = {NonceIn(block.state, a)}
        BY <2>5, <3>3, TagsAssumption DEF _get_block_by_number
      <4> QED
        BY <2>4, <4>1, <4>2
    <3> QED
      BY <3>1, <3>2, <3>3 DEF Tags
  <2> QED
    BY <2>6, <2>7
<1>2. ASSUME AccountsInv, ChainInv, NoncesInv PROVE NoncesCountTransactions
  BY <1>1, <1>2 DEF NoncesCountTransactions, OnPyEVM
<1> QED
  BY <1>2, InductiveInvariant, NoncesInvariant, PTL

-----------------------------------------------------------------------------
(* Remembered answers.  The variables with those that MCAccounts adds.     *)
allVars == <<vars, arguments, seen>>

(* The accounts that the remembered answers are about.                     *)
Asked == ToSet(get_default_account_keys(0)) \cup Added

(* The answers about block n of c, and those about a block that is not     *)
(* found.                                                                  *)
History(c, n) ==
    [i \in 1..(IF MaxBlocks < n THEN MaxBlocks ELSE n) |->
        [fee |-> c[n - i + 1].fee, used |-> Len(c[n - i + 1].used)]]
Found(c, n) ==
    << [a \in Asked |-> << {NonceIn(c[n + 1].state, a)},
                           {BalanceIn(c[n + 1].state, a)} >>],
       {c[n + 1].fee}, {History(c, n)} >>
NotFound == << [a \in Asked |-> << {}, {} >>], {}, {} >>

(* The answers on a chain whose head is block m - 1.                       *)
AnswersOn(c, m) == [n \in Numbers |-> IF n < m THEN Found(c, n) ELSE NotFound]

Remembered == { AnswersOn(c, Len(c)) : c \in Chains }

(* What was seen at a snapshot are the answers on the snapshot's chain.    *)
SeenInv ==
    backend = "pyevm" =>
        /\ seen \in Seq(Remembered) /\ Len(seen) = Len(snapshots)
        /\ \A s \in DOMAIN snapshots :
              seen[s] = AnswersOn(snapshots[s].blocks, Len(snapshots[s].blocks))

-----------------------------------------------------------------------------
(* Every answer is one about the blocks up to the head.                    *)
AnswersFit ==
    \A n \in Nat :
        AnswersAt(n) = IF n < block.number THEN Found(canonical, n) ELSE NotFound

LEMMA AnswersAlwaysFit == ChainInv /\ backend = "pyevm" => AnswersFit
<1> SUFFICES ASSUME ChainInv, backend = "pyevm", NEW n \in Nat
             PROVE  AnswersAt(n) = IF n < block.number THEN Found(canonical, n)
                                   ELSE NotFound
  BY DEF AnswersFit
<1> DEFINE b == canonical[n + 1]
           count == MaxBlocks
<1>1. _get_block_by_number(n) = IF n < block.number THEN {b} ELSE {}
  BY SentinelAssumption DEF _get_block_by_number, BlockTags
<1>2. get_fee_history(count, n)
        = { [i \in DOMAIN Ancestors(count, p) |->
                LET ancestor == Ancestors(count, p)[i]
                IN  [fee |-> ancestor.fee, used |-> Len(ancestor.used)]] :
              p \in _get_block_by_number(n) }
  BY SentinelAssumption DEF get_fee_history, BlockTags
<1>3. CASE n < block.number
  <2>1. b.number = n
    <3>1. /\ n + 1 \in 1..Len(canonical)
          /\ \A k \in 1..Len(canonical) : canonical[k].number = k - 1
      BY <1>3 DEF ChainInv, Chains
    <3> QED
      BY <3>1
  <2>2. get_fee_history(count, n) = {History(canonical, n)}
    <3>1. Ancestors(count, b)
            = [i \in 1..(IF count < n THEN count ELSE n) |-> canonical[n - i + 1]]
      BY <2>1 DEF Ancestors
    <3>2. [i \in DOMAIN Ancestors(count, b) |->
              LET ancestor == Ancestors(count, b)[i]
              IN  [fee |-> ancestor.fee, used |-> Len(ancestor.used)]]
            = History(canonical, n)
      BY <3>1 DEF History
    <3> HIDE DEF b
    <3> QED
      BY <1>1, <1>2, <1>3, <3>2
  <2>3. ASSUME NEW a
        PROVE  /\ get_nonce(a, n) = {NonceIn(b.state, a)}
               /\ get_balance(a, n) = {BalanceIn(b.state, a)}
    BY <1>1, <1>3 DEF get_nonce, get_balance
  <2>4. get_base_fee(n) = {b.fee}
    BY <1>1, <1>3 DEF get_base_fee
  <2>5. AnswersAt(n) = Found(canonical, n)
    BY <2>2, <2>3, <2>4 DEF AnswersAt, Found, Asked
  <2> QED
    BY <1>3, <2>5
<1>4. CASE ~(n < block.number)
  <2>1. get_fee_history(count, n) = {} /\ get_base_fee(n) = {}
    BY <1>1, <1>2, <1>4 DEF get_base_fee
  <2>2. \A a : get_nonce(a, n) = {} /\ get_balance(a, n) = {}
    BY <1>1, <1>4 DEF get_nonce, get_balance
  <2>3. AnswersAt(n) = NotFound
    BY <2>1, <2>2 DEF AnswersAt, NotFound, Asked
  <2> QED
    BY <1>4, <2>3
<1> QED
  BY <1>3, <1>4

(* Answers about block n depend on the blocks 0 to n only.                 *)
LEMMA FoundSame ==
    ASSUME NEW c, NEW d, NEW n \in Nat, \A k \in 1..n + 1 : d[k] = c[k]
    PROVE  Found(d, n) = Found(c, n)
<1>1. d[n + 1] = c[n + 1]
  OBVIOUS
<1>2. \A i \in 1..(IF MaxBlocks < n THEN MaxBlocks ELSE n) : d[n - i + 1] = c[n - i + 1]
  BY BoundsAssumption
<1>3. History(d, n) = History(c, n)
  BY <1>2 DEF History
<1> QED
  BY <1>1, <1>3 DEF Found

LEMMA AnswersOnSame ==
    ASSUME NEW c, NEW d, NEW m \in Nat, \A k \in 1..m : d[k] = c[k]
    PROVE  AnswersOn(d, m) = AnswersOn(c, m)
<1>1. ASSUME NEW n \in Numbers, n < m PROVE Found(d, n) = Found(c, n)
  <2>1. n \in Nat /\ \A k \in 1..n + 1 : k \in 1..m
    BY <1>1 DEF Numbers
  <2> QED
    BY <2>1, FoundSame
<1> QED
  BY <1>1 DEF AnswersOn

AnswersMatch == Answers = AnswersOn(canonical, block.number)

LEMMA AnswersAlwaysMatch == ChainInv /\ backend = "pyevm" => AnswersMatch
<1> SUFFICES ASSUME ChainInv, backend = "pyevm"
             PROVE  Answers = AnswersOn(canonical, block.number)
  BY DEF AnswersMatch
<1>1. \A n \in Numbers : n \in Nat
  BY DEF Numbers
<1>2. \A n \in Numbers :
         AnswersAt(n) = IF n < block.number THEN Found(canonical, n) ELSE NotFound
  BY <1>1, AnswersAlwaysFit DEF AnswersFit
<1> QED
  BY <1>2 DEF Answers, AnswersOn

-----------------------------------------------------------------------------
(* The specification of the runs is an instance of Spec.                   *)

LEMMA MCInitInv == MCInit => AccountsInv /\ ChainInv /\ SeenInv
<1> SUFFICES ASSUME MCInit PROVE AccountsInv /\ ChainInv /\ SeenInv
  OBVIOUS
<1>1. Init
  <2>1. CASE \E genesis \in Made(arguments) : InitPyEVM(genesis)
    <3>1. Made(arguments) \subseteq Geneses
      BY GenesesAssumption DEF MCInit, AllGeneses
    <3> QED
      BY <2>1, <3>1 DEF MCInit, Init
  <2>2. CASE InitMock
    BY <2>2 DEF MCInit, Init
  <2> QED
    BY <2>1, <2>2 DEF MCInit
<1>2. SeenInv
  <2>1. seen = << >> /\ snapshots = << >>
    BY DEF MCInit, InitLocal
  <2>2. seen \in Seq(Remembered) /\ Len(seen) = Len(snapshots) /\ DOMAIN snapshots = {}
    BY <2>1, EmptySeq
  <2> QED
    BY <2>2 DEF SeenInv
<1> QED
  BY <1>1, <1>2, InitInv

LEMMA MCNextIsNext == [MCNext]_allVars => [Next]_vars
BY DEF MCNext, Next, allVars

(* An action keeps what was seen, or adds to it with a snapshot, or drops  *)
(* it with the snapshots.                                                  *)
LEMMA SnapshotsChange ==
    ASSUME Next
    PROVE  \/ UNCHANGED snapshots
           \/ TakeSnapshot
           \/ snapshots' = << >>
<1>1. ASSUME NEW s, RevertToSnapshot(s) PROVE UNCHANGED snapshots
  BY <1>1 DEF RevertToSnapshot, RevertPyEVM, RevertMock
<1>2. ASSUME NEW from,
             \/ \E nonces, fees : SendTransaction(from, nonces, fees)
             \/ SendSignedTransaction(from)
      PROVE  UNCHANGED snapshots
  BY <1>2 DEF SendTransaction, SendSignedTransaction, apply_transaction
<1>3. ASSUME NEW account, ApplyWithdrawals(account) PROVE UNCHANGED snapshots
  BY <1>3 DEF ApplyWithdrawals, Mine
<1>4. CASE MineBlock
  BY <1>4 DEF MineBlock, Mine
<1>5. CASE ResetToGenesis
  BY <1>5 DEF ResetToGenesis
<1>6. ASSUME NEW account, NEW password,
             \/ AddAccount(account, password)
             \/ UnlockAccount(account) \/ LockAccount(account)
      PROVE  UNCHANGED snapshots
  BY <1>6 DEF AddAccount, UnlockAccount, LockAccount
<1> QED
  BY <1>1, <1>2, <1>3, <1>4, <1>5, <1>6, Zenon DEF Next

LEMMA BackendStays == [Next]_vars => backend' = backend
<1>1. ASSUME NEW s, RevertToSnapshot(s) PROVE backend' = backend
  BY <1>1 DEF RevertToSnapshot, RevertPyEVM, RevertMock, genesisVars
<1>2. ASSUME NEW from,
             \/ \E nonces, fees : SendTransaction(from, nonces, fees)
             \/ SendSignedTransaction(from)
      PROVE  backend' = backend
  BY <1>2 DEF SendTransaction, SendSignedTransaction, apply_transaction, genesisVars
<1>3. ASSUME NEW account, ApplyWithdrawals(account) PROVE backend' = backend
  BY <1>3 DEF ApplyWithdrawals, Mine, genesisVars
<1>4. CASE MineBlock
  BY <1>4 DEF MineBlock, Mine, genesisVars
<1>5. CASE ResetToGenesis
  BY <1>5 DEF ResetToGenesis
<1>6. ASSUME NEW account, NEW password,
             \/ AddAccount(account, password)
             \/ UnlockAccount(account) \/ LockAccount(account)
      PROVE  backend' = backend
  BY <1>6 DEF AddAccount, UnlockAccount, LockAccount, genesisVars
<1>7. CASE TakeSnapshot
  BY <1>7 DEF TakeSnapshot, genesisVars
<1>8. CASE UNCHANGED vars
  BY <1>8 DEF vars, genesisVars
<1> QED
  BY <1>1, <1>2, <1>3, <1>4, <1>5, <1>6, <1>7, <1>8, Zenon DEF Next

LEMMA SeenStep ==
    ASSUME AccountsInv, ChainInv, SeenInv, [MCNext]_allVars
    PROVE  SeenInv'
<1> SUFFICES ASSUME backend' = "pyevm"
             PROVE  /\ seen' \in Seq(Remembered) /\ Len(seen') = Len(snapshots')
                    /\ \A s \in DOMAIN snapshots' :
                          seen'[s] = AnswersOn(snapshots'[s].blocks,
                                               Len(snapshots'[s].blocks))
  BY DEF SeenInv
<1>1. backend = "pyevm"
  BY MCNextIsNext, BackendStays
<1>2. /\ seen \in Seq(Remembered) /\ Len(seen) = Len(snapshots)
      /\ \A s \in DOMAIN snapshots :
            seen[s] = AnswersOn(snapshots[s].blocks, Len(snapshots[s].blocks))
  BY <1>1 DEF SeenInv
<1>3. /\ snapshots \in Seq(Snapshots) /\ Len(snapshots) \in Nat
      /\ DOMAIN snapshots = 1..Len(snapshots)
  BY LenProperties DEF AccountsInv
<1>4. CASE UNCHANGED <<seen, snapshots>>
  BY <1>2, <1>4
<1>5. CASE seen' = << >> /\ snapshots' = << >>
  BY <1>5, EmptySeq
<1>6. CASE TakeSnapshot /\ seen' = Append(seen, Answers)
  <2>1. PICK taken \in Snapshots :
            /\ Len(taken.blocks) = block.number
            /\ \A n \in 1..block.number : taken.blocks[n] = canonical[n]
            /\ snapshots' = Append(snapshots, taken)
    BY <1>6, TakenSnapshot
  <2>2. block.number \in Nat /\ taken.blocks \in Chains
    BY DEF ChainInv, Blocks, BlockRecords, Snapshots
  <2>3. Answers = AnswersOn(taken.blocks, Len(taken.blocks))
    <3>1. AnswersOn(taken.blocks, block.number) = AnswersOn(canonical, block.number)
      BY <2>1, <2>2, AnswersOnSame
    <3> QED
      BY <1>1, <2>1, <3>1, AnswersAlwaysMatch DEF AnswersMatch
  <2>4. Answers \in Remembered
    BY <2>2, <2>3 DEF Remembered
  <2>5. /\ Len(snapshots') = Len(snapshots) + 1 /\ DOMAIN snapshots' = 1..Len(snapshots) + 1
        /\ \A t \in 1..Len(snapshots) : snapshots'[t] = snapshots[t]
        /\ snapshots'[Len(snapshots) + 1] = taken
    BY <1>3, <2>1, AppendProperties, LenProperties
  <2>6. /\ seen' \in Seq(Remembered) /\ Len(seen') = Len(seen) + 1
        /\ \A t \in 1..Len(seen) : seen'[t] = seen[t]
        /\ seen'[Len(seen) + 1] = Answers
    BY <1>2, <1>6, <2>4, AppendProperties
  <2>7. ASSUME NEW s \in DOMAIN snapshots'
        PROVE  seen'[s] = AnswersOn(snapshots'[s].blocks, Len(snapshots'[s].blocks))
    <3>1. CASE s \in 1..Len(snapshots)
      BY <1>2, <1>3, <2>5, <2>6, <3>1
    <3>2. CASE s = Len(snapshots) + 1
      BY <1>2, <2>3, <2>5, <2>6, <3>2
    <3> QED
      BY <1>3, <2>5, <3>1, <3>2
  <2> QED
    BY <1>2, <2>5, <2>6, <2>7
<1>7. ASSUME Next,
             seen' = CASE Len(snapshots') > Len(snapshots) -> Append(seen, Answers)
                       [] snapshots' = << >> -> << >>
                       [] OTHER -> seen
      PROVE  \/ UNCHANGED <<seen, snapshots>>
             \/ seen' = << >> /\ snapshots' = << >>
             \/ TakeSnapshot /\ seen' = Append(seen, Answers)
  <2>1. CASE UNCHANGED snapshots
    <3>1. ~(Len(snapshots') > Len(snapshots))
      BY <1>3, <2>1
    <3> QED
      BY <1>7, <2>1, <3>1
  <2>2. CASE TakeSnapshot
    <3>1. Len(snapshots') = Len(snapshots) + 1
      <4>1. PICK taken \in Snapshots : snapshots' = Append(snapshots, taken)
        BY <2>2, TakenSnapshot
      <4> QED
        BY <1>3, <4>1, AppendProperties
    <3>2. Len(snapshots') > Len(snapshots) /\ snapshots' # << >>
      BY <1>3, <3>1
    <3> QED
      BY <1>7, <2>2, <3>2
  <2>3. CASE snapshots' = << >>
    <3>1. ~(Len(snapshots') > Len(snapshots))
      BY <1>3, <2>3
    <3> QED
      BY <1>7, <2>3, <3>1
  <2> QED
    BY <1>7, <2>1, <2>2, <2>3, SnapshotsChange
<1>8. CASE UNCHANGED allVars
  BY <1>4, <1>8 DEF allVars, vars
<1>9. CASE ResetToGenesis /\ seen' = << >>
  BY <1>5, <1>9 DEF ResetToGenesis
<1> QED
  BY <1>4, <1>5, <1>6, <1>7, <1>8, <1>9 DEF MCNext

(* AccountsInv and ChainInv hold of every chain that a constructor makes,  *)
(* and SeenInv besides.                                                    *)
THEOREM RememberedInvariant == MCSpec => [](AccountsInv /\ ChainInv /\ SeenInv)
<1>1. AccountsInv /\ ChainInv /\ SeenInv /\ [MCNext]_allVars
        => (AccountsInv /\ ChainInv /\ SeenInv)'
  BY MCNextIsNext, AccountsStep, ChainStep, SeenStep
<1> QED
  BY <1>1, MCInitInv, PTL DEF MCSpec, allVars

-----------------------------------------------------------------------------
(* The next state's answers.                                               *)
LEMMA NextAnswers ==
    ASSUME ChainInv', backend' = "pyevm"
    PROVE  AnswersFit' /\ AnswersMatch'
<1>1. ChainInv' /\ (backend = "pyevm")' => AnswersFit'
  BY AnswersAlwaysFit, PTL
<1>2. ChainInv' /\ (backend = "pyevm")' => AnswersMatch'
  BY AnswersAlwaysMatch, PTL
<1> QED
  BY <1>1, <1>2

(***************************************************************************)
(* Reverting to a snapshot, the first time or again, backwards or forwards *)
(* to an abandoned branch, brings back every nonce, balance, base fee and  *)
(* fee history that was answered when it was taken, and the pending block  *)
(* starts from the latest one.  (take_snapshot, revert_to_snapshot,        *)
(* get_nonce, get_balance, get_base_fee, get_fee_history)                  *)
(***************************************************************************)
THEOREM RevertAlwaysRestores == MCSpec => RevertRestoresAnswers
<1>1. ASSUME AccountsInv, ChainInv, SeenInv, [MCNext]_allVars,
             NEW s \in DOMAIN snapshots, RevertToSnapshot(s), backend = "pyevm"
      PROVE  /\ Answers' = seen[s]
             /\ \A a \in Listed :
                   /\ get_nonce(a, Pending)' = get_nonce(a, Latest)'
                   /\ get_balance(a, Pending)' = get_balance(a, Latest)'
  <2> DEFINE blocks == snapshots[s].blocks
  <2>1. ChainInv' /\ backend' = "pyevm"
    BY <1>1, MCNextIsNext, ChainStep, BackendStays
  <2>2. blocks \in Chains
    BY <1>1, SnapshotTyped DEF AccountsInv
  <2>3. RevertPyEVM(blocks)
    BY <1>1 DEF RevertToSnapshot, RevertMock
  <2> HIDE DEF blocks
  <2>4. /\ Len(blocks) \in Nat \ {0} /\ block'.number = Len(blocks)
        /\ block' = Child(blocks[Len(blocks)])
        /\ \A n \in 1..Len(blocks) : canonical'[n] = blocks[n]
    BY <1>1, <2>2, <2>3, RevertedChain
  <2>5. Answers' = seen[s]
    <3>1. Answers' = AnswersOn(canonical', block'.number)
      BY <2>1, NextAnswers DEF AnswersMatch
    <3>2. AnswersOn(canonical', Len(blocks)) = AnswersOn(blocks, Len(blocks))
      BY <2>4, AnswersOnSame
    <3>3. seen[s] = AnswersOn(blocks, Len(blocks))
      BY <1>1 DEF SeenInv, blocks
    <3> QED
      BY <2>4, <3>1, <3>2, <3>3
  <2>6. block'.state = LatestBlock'.state
    BY <2>4 DEF LatestBlock, Child
  <2>7. ASSUME NEW a
        PROVE  /\ get_nonce(a, Pending)' = get_nonce(a, Latest)'
               /\ get_balance(a, Pending)' = get_balance(a, Latest)'
    BY <2>1, <2>6, TagsAssumption DEF get_nonce, get_balance, _get_block_by_number
  <2> QED
    BY <2>5, <2>7
<1>2. AccountsInv /\ ChainInv /\ SeenInv /\ [MCNext]_allVars
        => [ \A s \in DOMAIN snapshots : RevertToSnapshot(s) /\ OnPyEVM =>
                /\ Answers' = seen[s]
                /\ \A a \in Listed :
                      /\ get_nonce(a, Pending)' = get_nonce(a, Latest)'
                      /\ get_balance(a, Pending)' = get_balance(a, Latest)'
           ]_allVars
  BY <1>1 DEF OnPyEVM
<1> QED
  BY <1>2, RememberedInvariant, PTL DEF MCSpec, RevertRestoresAnswers, allVars

-----------------------------------------------------------------------------
(* The table below the head and the head's place when neither is touched,  *)
(* as by a transaction.                                                    *)
LEMMA SameAnswers ==
    ASSUME ChainInv, ChainInv', backend = "pyevm", backend' = "pyevm",
           \A k \in 1..block.number : canonical'[k] = canonical[k],
           block'.number >= block.number, NEW n \in 0..block.number - 1
    PROVE  AnswersAt(n)' = AnswersAt(n)
<1>1. /\ block.number \in Nat /\ block'.number \in Nat
      /\ n \in Nat /\ n < block.number /\ n < block'.number
  BY DEF ChainInv, Blocks, BlockRecords
<1>2. AnswersAt(n) = Found(canonical, n)
  BY <1>1, AnswersAlwaysFit DEF AnswersFit
<1>3. AnswersAt(n)' = Found(canonical', n)
  BY <1>1, NextAnswers DEF AnswersFit
<1>4. Found(canonical', n) = Found(canonical, n)
  <2>1. \A k \in 1..n + 1 : k \in 1..block.number
    BY <1>1
  <2> QED
    BY <1>1, <2>1, FoundSame
<1> QED
  BY <1>2, <1>3, <1>4

(* Mining writes above the head.                                           *)
LEMMA MineWritesAbove ==
    ASSUME ChainInv, NEW b \in Blocks, b.number = block.number, Mine(b)
    PROVE  /\ \A k \in 1..block.number : canonical'[k] = canonical[k]
           /\ block'.number >= block.number
<1>1. /\ block.number \in Nat /\ Len(canonical') \in Nat
      /\ block.number + 1 \in 1..Len(canonical')
      /\ \A k \in 1..Len(canonical') :
            k # block.number + 1 => canonical'[k] = canonical[k]
  <2>1. /\ canonical' \in Seq(Blocks) /\ b.number + 1 \in 1..Len(canonical')
        /\ \A k \in 1..Len(canonical') :
              k # b.number + 1 => canonical'[k] = canonical[k]
    BY MinedTable
  <2>2. block.number \in Nat
    BY DEF ChainInv, Blocks, BlockRecords
  <2> QED
    BY <2>1, <2>2, LenProperties
<1>2. \A k \in 1..block.number : k \in 1..Len(canonical') /\ k # block.number + 1
  BY <1>1
<1>3. block'.number = block.number + 1
  BY DEF Mine, Child
<1> QED
  BY <1>1, <1>2, <1>3

(***************************************************************************)
(* No answer about a mined block changes but by a revert or a reset: not   *)
(* by sending, not by mining, although a mined block replaces one that a   *)
(* revert had left in the table, and not by a withdrawal.  (mine_blocks,   *)
(* apply_withdrawals, send_transaction)                                    *)
(***************************************************************************)
THEOREM MinedAnswersAlwaysStay == MCSpec => MinedAnswersStay
<1>1. ASSUME AccountsInv, ChainInv, [MCNext]_allVars, backend = "pyevm"
      PROVE  \/ \A n \in 0..block.number - 1 : AnswersAt(n)' = AnswersAt(n)
             \/ \E s \in DOMAIN snapshots : RevertToSnapshot(s)
             \/ ResetToGenesis
  <2>1. [Next]_vars /\ ChainInv' /\ backend' = "pyevm"
    BY <1>1, MCNextIsNext, ChainStep, BackendStays
  <2>2. ASSUME \A k \in 1..block.number : canonical'[k] = canonical[k],
               block'.number >= block.number
        PROVE  \A n \in 0..block.number - 1 : AnswersAt(n)' = AnswersAt(n)
    BY <1>1, <2>1, <2>2, SameAnswers
  <2>3. block.number \in Nat /\ block \in Blocks
    BY <1>1 DEF ChainInv, Blocks, BlockRecords
  <2>4. ASSUME UNCHANGED canonical, block'.number = block.number
        PROVE  \A n \in 0..block.number - 1 : AnswersAt(n)' = AnswersAt(n)
    BY <2>2, <2>3, <2>4
  <2>5. ASSUME UNCHANGED chainVars
        PROVE  \A n \in 0..block.number - 1 : AnswersAt(n)' = AnswersAt(n)
    BY <2>4, <2>5 DEF chainVars
  <2>6. ASSUME NEW account, NEW password,
               \/ AddAccount(account, password)
               \/ UnlockAccount(account) \/ LockAccount(account)
        PROVE  UNCHANGED chainVars
    BY <2>6 DEF AddAccount, UnlockAccount, LockAccount
  <2>7. ASSUME NEW from \in Listed \cup Added,
               \/ \E nonces, fees : SendTransaction(from, nonces, fees)
               \/ SendSignedTransaction(from)
        PROVE  \A n \in 0..block.number - 1 : AnswersAt(n)' = AnswersAt(n)
    <3>1. PICK tx : tx.from \in Keys /\ apply_transaction(tx)
      BY <1>1, <2>7, SentIsApplied DEF AccountsInv
    <3> QED
      BY <1>1, <2>4, <3>1, SendEffect DEF apply_transaction
  <2>8. CASE MineBlock
    BY <1>1, <2>2, <2>3, <2>8, MineWritesAbove DEF MineBlock
  <2>9. ASSUME NEW account \in Listed \cup Added, ApplyWithdrawals(account)
        PROVE  \A n \in 0..block.number - 1 : AnswersAt(n)' = AnswersAt(n)
    <3>1. PICK b \in Blocks : b.number = block.number /\ Mine(b)
      BY <1>1, <2>9, SentIsApplied, WithdrawalMines DEF AccountsInv
    <3> QED
      BY <1>1, <2>2, <3>1, MineWritesAbove
  <2>10. CASE TakeSnapshot
    BY <2>5, <2>10 DEF TakeSnapshot
  <2>11. ASSUME NEW s, RevertToSnapshot(s)
         PROVE  \E t \in DOMAIN snapshots : RevertToSnapshot(t)
    BY <2>11 DEF RevertToSnapshot
  <2>12. CASE UNCHANGED vars
    BY <2>5, <2>12 DEF vars
  <2> QED
    BY <2>1, <2>5, <2>6, <2>7, <2>8, <2>9, <2>10, <2>11, <2>12, Zenon DEF Next
<1>2. AccountsInv /\ ChainInv /\ [MCNext]_allVars
        => [ OnPyEVM =>
                \/ \A n \in 0..block.number - 1 : AnswersAt(n)' = AnswersAt(n)
                \/ \E s \in DOMAIN snapshots : RevertToSnapshot(s)
                \/ ResetToGenesis
           ]_allVars
  BY <1>1 DEF OnPyEVM
<1> QED
  BY <1>2, RememberedInvariant, PTL DEF MCSpec, MinedAnswersStay, allVars

-----------------------------------------------------------------------------
(* The genesis chain of each constructor.                                  *)

Funded(state) == { a \in DOMAIN state : state[a].balance > 0 }

NewAccount == [balance |-> 1, nonce |-> 0]

LEMMA DefaultParams ==
    ASSUME NEW p \in get_default_genesis_params(<< >>)
    PROVE  p.difficulty = "post-merge"
<1> DEFINE d == [difficulty |-> "post-merge", mix_hash |-> "post-merge",
                 nonce |-> "post-merge"]
<1>1. DOMAIN << >> = {} /\ "difficulty" \in DOMAIN d
  OBVIOUS
<1>2. p = [field \in DOMAIN d |-> IF field \in {} THEN << >>[field] ELSE d[field]]
  BY <1>1 DEF get_default_genesis_params, merge_genesis_overrides
<1> QED
  BY <1>1, <1>2

LEMMA PreMergeParams ==
    ASSUME NEW p \in get_default_genesis_params(PreMerge)
    PROVE  p.difficulty = "genesis"
<1> DEFINE d == [difficulty |-> "post-merge", mix_hash |-> "post-merge",
                 nonce |-> "post-merge"]
<1>1. /\ DOMAIN PreMerge = {"difficulty", "mix_hash", "nonce"}
      /\ DOMAIN d = DOMAIN PreMerge /\ PreMerge.difficulty = "genesis"
  BY DEF PreMerge
<1>2. p = [field \in DOMAIN d |-> IF field \in DOMAIN PreMerge THEN PreMerge[field]
                                  ELSE d[field]]
  BY DEF get_default_genesis_params, merge_genesis_overrides
<1> QED
  BY <1>1, <1>2

LEMMA CountPositive ==
    ASSUME NEW quantity \in Nat
    PROVE  /\ OrDefault(quantity) \in Nat \ {0}
           /\ OrDefault(OrDefault(quantity)) = OrDefault(quantity)
BY QuantityAssumption DEF OrDefault

(* As many keys as were asked for, all different.                          *)
LEMMA KeysCounted ==
    ASSUME NEW mnemonic, NEW quantity \in Nat, NEW path
    PROVE  /\ Cardinality(ToSet(AccountKeys(mnemonic, quantity, path)))
                 = OrDefault(quantity)
           /\ ToSet(AccountKeys(mnemonic, quantity, path)) # {}
           /\ mnemonic # "none" =>
                 \A k \in ToSet(AccountKeys(mnemonic, quantity, path)) :
                    k.mnemonic = mnemonic
<1> DEFINE n == OrDefault(quantity)
           ks == AccountKeys(mnemonic, quantity, path)
<1>1. n \in Nat \ {0}
  BY CountPositive
<1>2. /\ DOMAIN ks = 1..n
      /\ \A i \in 1..n : ks[i].mnemonic = mnemonic
      /\ \A i, j \in 1..n : ks[i].index = ks[j].index => i = j
  <2>1. CASE mnemonic = "none"
    <3>1. ks = [i \in 1..n |-> Key("none", "none", i)]
      BY <2>1 DEF AccountKeys, get_default_account_keys
    <3> HIDE DEF ks, n
    <3> QED
      BY <2>1, <3>1 DEF Key
  <2>2. CASE mnemonic # "none"
    <3>1. PICK from : ks = [i \in 1..n |-> Key(mnemonic, from, i - 1)]
      BY <2>2 DEF AccountKeys, get_account_keys_from_mnemonic
    <3> HIDE DEF ks, n
    <3> QED
      BY <3>1 DEF Key
  <2> QED
    BY <2>1, <2>2
<1> HIDE DEF ks, n
<1>3. ToSet(ks) = { ks[i] : i \in 1..n }
  BY <1>2 DEF ToSet
<1>4. \A i, j \in 1..n : ks[i] = ks[j] => i = j
  BY <1>2
<1>5. ExistsBijection(1..n, ToSet(ks))
  <2> DEFINE f == [i \in 1..n |-> ks[i]]
  <2>1. f \in [1..n -> ToSet(ks)]
    BY <1>3
  <2>2. \A k \in ToSet(ks) : \E i \in 1..n : f[i] = k
    BY <1>3
  <2>3. \A i, j \in 1..n : f[i] = f[j] => i = j
    BY <1>4
  <2>4. f \in Bijection(1..n, ToSet(ks))
    <3> HIDE DEF f
    <3> QED
      BY <2>1, <2>2, <2>3 DEF Bijection, Injection, Surjection, IsInjective
  <2> QED
    BY <2>4 DEF ExistsBijection
<1>6. Cardinality(ToSet(ks)) = n
  BY <1>1, <1>5, FS_CountingElements
<1>7. 1 \in 1..n
  BY <1>1
<1>8. \A k \in ToSet(ks) : k.mnemonic = mnemonic
  BY <1>2, <1>3
<1> QED
  BY <1>3, <1>6, <1>7, <1>8 DEF ks, n

(* The state that is generated for keys is that of these accounts, and     *)
(* gives them money unless the overrides take it.                          *)
LEMMA GeneratedState ==
    ASSUME NEW ks, NEW overrides \in Overrides,
           NEW state \in generate_genesis_state_for_keys(ks, overrides)
    PROVE  /\ DOMAIN state = ToSet(ks)
           /\ Funded(state) = IF LeavesMoney(overrides) THEN ToSet(ks) ELSE {}
<1> DEFINE values == [field \in DOMAIN NewAccount |->
                        IF field \in DOMAIN overrides THEN overrides[field]
                        ELSE NewAccount[field]]
<1>1. DOMAIN NewAccount = {"balance", "nonce"} /\ NewAccount["balance"] = 1
  BY DEF NewAccount
<1>2. get_default_account_state(overrides) \subseteq {values}
  BY DEF get_default_account_state, merge_genesis_overrides, NewAccount
<1>3. values["balance"] = IF "balance" \in DOMAIN overrides THEN overrides["balance"]
                          ELSE 1
  BY <1>1
<1> HIDE DEF values
<1>4. state = [account \in ToSet(ks) |-> values]
  BY <1>2 DEF generate_genesis_state_for_keys
<1>5. values["balance"] > 0 <=> LeavesMoney(overrides)
  BY <1>3, ArgumentsAssumption DEF LeavesMoney
<1>6. \A a \in ToSet(ks) : state[a]["balance"] = values["balance"]
  BY <1>4
<1> QED
  BY <1>4, <1>5, <1>6 DEF Funded

LEMMA NoOverridesLeaveMoney == << >> \in Overrides /\ LeavesMoney(<< >>)
<1>1. DOMAIN << >> = {}
  OBVIOUS
<1> QED
  BY <1>1, ArgumentsAssumption DEF LeavesMoney

(* What a constructor returns.                                             *)
LEMMA Constructed ==
    ASSUME NEW p, NEW state, NEW vm, NEW mnemonic, NEW path,
           NEW genesis \in PyEVMBackend(p, state, vm, mnemonic, path)
    PROVE  /\ genesis.fork = IF vm = "none" THEN "cancun" ELSE vm
           /\ genesis.params \in GenesisParams(p, genesis.fork)
           /\ genesis.keys
                = AccountKeys(mnemonic,
                     IF state.given THEN Cardinality(DOMAIN state.value) ELSE 0, path)
           /\ IF state.given THEN genesis.state = state.value
              ELSE genesis.state
                     \in generate_genesis_state_for_keys(genesis.keys, << >>)
<1> DEFINE accounts == IF state.given THEN Cardinality(DOMAIN state.value) ELSE 0
           vm_fork == IF vm = "none" THEN "cancun" ELSE vm
           account_keys == AccountKeys(mnemonic, accounts, path)
           states == IF state.given THEN {state.value}
                     ELSE generate_genesis_state_for_keys(account_keys, << >>)
<1>1. ListedCount(state, accounts) = accounts
  BY DEF ListedCount
<1>2. genesis \in { [keys |-> account_keys, state |-> s, params |-> q, fork |-> vm_fork] :
                      s \in states, q \in GenesisParams(p, vm_fork) }
  BY <1>1 DEF PyEVMBackend, setup_tester_chain
<1>3. PICK s \in states, q \in GenesisParams(p, vm_fork) :
          genesis = [keys |-> account_keys, state |-> s, params |-> q, fork |-> vm_fork]
  BY <1>2
<1>4. /\ genesis.keys = account_keys /\ genesis.state = s
      /\ genesis.params = q /\ genesis.fork = vm_fork
  BY <1>3
<1> HIDE DEF account_keys
<1> QED
  BY <1>3, <1>4 DEF account_keys

(* The keys it lists are those that its genesis state funds.               *)
Fits(genesis) == ToSet(genesis.keys) = Funded(genesis.state)

LEMMA OmittedFits ==
    ASSUME NEW p, NEW vm, NEW mnemonic, NEW path,
           NEW genesis \in PyEVMBackend(p, Omitted, vm, mnemonic, path)
    PROVE  Fits(genesis)
<1>1. genesis.state \in generate_genesis_state_for_keys(genesis.keys, << >>)
  BY Constructed DEF Omitted
<1> QED
  BY <1>1, NoOverridesLeaveMoney, GeneratedState DEF Fits

LEMMA EmptyDoesNotFit ==
    ASSUME NEW p, NEW vm, NEW mnemonic, NEW path,
           NEW genesis \in PyEVMBackend(p, Given(<< >>), vm, mnemonic, path)
    PROVE  ~Fits(genesis)
<1>1. Given(<< >>).given /\ Given(<< >>).value = << >>
  BY DEF Given
<1>2. Cardinality(DOMAIN << >>) = 0
  BY FS_EmptySet
<1>3. genesis.state = << >> /\ genesis.keys = AccountKeys(mnemonic, 0, path)
  BY <1>1, <1>2, Constructed
<1>4. Funded(<< >>) = {}
  BY DEF Funded
<1> QED
  BY <1>3, <1>4, KeysCounted DEF Fits

(* With the state of other keys, it is the keys' mnemonic that matters.    *)
LEMMA GivenFits ==
    ASSUME NEW p, NEW vm, NEW mnemonic, NEW path, NEW quantity \in Nat,
           NEW overrides \in Overrides,
           NEW state \in generate_genesis_state(overrides, quantity, mnemonic, path),
           NEW genesis \in PyEVMBackend(p, Given(state), vm, mnemonic, path)
    PROVE  Fits(genesis) <=> LeavesMoney(overrides)
<1> DEFINE ks == AccountKeys(mnemonic, quantity, path)
<1>1. /\ DOMAIN state = ToSet(ks)
      /\ Funded(state) = IF LeavesMoney(overrides) THEN ToSet(ks) ELSE {}
  BY GeneratedState DEF generate_genesis_state
<1>2. Cardinality(ToSet(ks)) = OrDefault(quantity) /\ ToSet(ks) # {}
  BY KeysCounted
<1>3. Given(state).given /\ Given(state).value = state
  BY DEF Given
<1>4. /\ genesis.state = state
      /\ genesis.keys = AccountKeys(mnemonic, OrDefault(quantity), path)
  BY <1>1, <1>2, <1>3, Constructed
<1>5. AccountKeys(mnemonic, OrDefault(quantity), path) = ks
  BY CountPositive
     DEF AccountKeys, get_default_account_keys, get_account_keys_from_mnemonic
<1> QED
  BY <1>1, <1>2, <1>4, <1>5 DEF Fits

LEMMA OtherDoesNotFit ==
    ASSUME NEW p, NEW vm, NEW mnemonic, NEW path, NEW quantity \in Nat,
           mnemonic # "none", NEW overrides \in Overrides,
           NEW state \in generate_genesis_state(overrides, quantity, "none", "none"),
           NEW genesis \in PyEVMBackend(p, Given(state), vm, mnemonic, path)
    PROVE  ~Fits(genesis)
<1> DEFINE ks == AccountKeys("none", quantity, "none")
<1>1. /\ DOMAIN state = ToSet(ks)
      /\ Funded(state) = IF LeavesMoney(overrides) THEN ToSet(ks) ELSE {}
  BY GeneratedState DEF generate_genesis_state
<1>2. /\ Cardinality(ToSet(ks)) = OrDefault(quantity)
      /\ OrDefault(quantity) \in Nat
  <2>1. Cardinality(ToSet(ks)) = OrDefault(quantity)
    BY KeysCounted
  <2> QED
    BY <2>1, CountPositive
<1>3. Given(state).given /\ Given(state).value = state
  BY DEF Given
<1>4. /\ genesis.state = state
      /\ genesis.keys = AccountKeys(mnemonic, OrDefault(quantity), path)
  BY <1>1, <1>2, <1>3, Constructed
<1>5. PICK k \in ToSet(genesis.keys) : k.mnemonic = mnemonic
  BY <1>2, <1>4, KeysCounted
<1>6. \A j \in ToSet(ks) : j.mnemonic = "none"
  BY DEF ToSet, AccountKeys, get_default_account_keys, Key
<1> QED
  BY <1>1, <1>4, <1>5, <1>6 DEF Fits

(* For which arguments the keys are those of the genesis state.            *)
SameKeys(a) ==
    \/ a.state = "none"
    \/ /\ LeavesMoney(a.overrides)
       /\ \/ a.state \in {"same keys", "from_mnemonic"}
          \/ a.state = "default keys" /\ a.mnemonic = "none"

LEMMA MadeFits ==
    ASSUME NEW a \in Arguments, NEW genesis \in Made(a)
    PROVE  Fits(genesis) <=> SameKeys(a)
<1>1. /\ a.state \in {"none", "empty", "default keys", "same keys", "from_mnemonic"}
      /\ a.num \in Nat /\ a.overrides \in Overrides
  BY ArgumentsAssumption DEF Arguments
<1>2. PICK p \in GenesisParameters(a) :
          genesis \in IF a.state = "from_mnemonic"
                      THEN from_mnemonic(a.mnemonic, a.overrides, a.num, p, a.fork, a.hd_path)
                      ELSE UNION { PyEVMBackend(p, state, a.fork, a.mnemonic, a.hd_path) :
                                      state \in GenesisStates(a) }
  BY Zenon DEF Made
<1>3. CASE a.state = "from_mnemonic"
  <2>1. PICK state \in generate_genesis_state(a.overrides, a.num, a.mnemonic, a.hd_path) :
            genesis \in PyEVMBackend(p, Given(state), a.fork, a.mnemonic, a.hd_path)
    BY <1>2, <1>3 DEF from_mnemonic
  <2> QED
    BY <1>1, <1>3, <2>1, GivenFits DEF SameKeys
<1>4. ASSUME a.state # "from_mnemonic"
      PROVE  \E state \in GenesisStates(a) :
                genesis \in PyEVMBackend(p, state, a.fork, a.mnemonic, a.hd_path)
  BY <1>2, <1>4
<1>5. CASE a.state = "none"
  <2>1. GenesisStates(a) = {Omitted}
    BY <1>5 DEF GenesisStates
  <2>2. genesis \in PyEVMBackend(p, Omitted, a.fork, a.mnemonic, a.hd_path)
    BY <1>4, <1>5, <2>1
  <2> QED
    BY <1>5, <2>2, OmittedFits DEF SameKeys
<1>6. CASE a.state = "empty"
  <2>1. GenesisStates(a) = {Given(<< >>)}
    BY <1>6 DEF GenesisStates
  <2>2. genesis \in PyEVMBackend(p, Given(<< >>), a.fork, a.mnemonic, a.hd_path)
    BY <1>4, <1>6, <2>1
  <2> QED
    BY <1>6, <2>2, EmptyDoesNotFit DEF SameKeys
<1>7. CASE a.state = "same keys"
  <2>1. GenesisStates(a)
          = { Given(state) : state \in
                generate_genesis_state(a.overrides, a.num, a.mnemonic, a.hd_path) }
    BY <1>7 DEF GenesisStates
  <2>2. PICK state \in generate_genesis_state(a.overrides, a.num, a.mnemonic, a.hd_path) :
            genesis \in PyEVMBackend(p, Given(state), a.fork, a.mnemonic, a.hd_path)
    BY <1>4, <1>7, <2>1
  <2> QED
    BY <1>1, <1>7, <2>2, GivenFits DEF SameKeys
<1>8. CASE a.state = "default keys"
  <2>1. GenesisStates(a)
          = { Given(state) : state \in
                generate_genesis_state(a.overrides, a.num, "none", "none") }
    BY <1>8 DEF GenesisStates
  <2>2. PICK state \in generate_genesis_state(a.overrides, a.num, "none", "none") :
            genesis \in PyEVMBackend(p, Given(state), a.fork, a.mnemonic, a.hd_path)
    BY <1>4, <1>8, <2>1
  <2>3. CASE a.mnemonic = "none"
    <3>1. state \in generate_genesis_state(a.overrides, a.num, a.mnemonic, a.hd_path)
      BY <2>2, <2>3 DEF generate_genesis_state, AccountKeys
    <3> QED
      BY <1>1, <1>8, <2>2, <2>3, <3>1, GivenFits DEF SameKeys
  <2>4. CASE a.mnemonic # "none"
    BY <1>1, <1>8, <2>2, <2>4, OtherDoesNotFit DEF SameKeys
  <2> QED
    BY <2>3, <2>4
<1> QED
  BY <1>1, <1>3, <1>5, <1>6, <1>7, <1>8

(* For which arguments the parameters fit the fork.                        *)
LEMMA MadeFitsFork ==
    ASSUME NEW a \in Arguments, NEW genesis \in Made(a)
    PROVE  \/ (genesis.params.difficulty = "post-merge"
                 <=> genesis.fork \in PostMergeForks)
           \/ a.params = "default" /\ genesis.fork \notin PostMergeForks
<1>1. a.params \in {"none", "default"}
  BY DEF Arguments
<1>2. PICK p \in GenesisParameters(a) : \E state :
          genesis \in PyEVMBackend(p, state, a.fork, a.mnemonic, a.hd_path)
  <2>1. PICK p \in GenesisParameters(a) :
            genesis \in IF a.state = "from_mnemonic"
                        THEN from_mnemonic(a.mnemonic, a.overrides, a.num, p, a.fork, a.hd_path)
                        ELSE UNION { PyEVMBackend(p, state, a.fork, a.mnemonic, a.hd_path) :
                                        state \in GenesisStates(a) }
    BY Zenon DEF Made
  <2>2. CASE a.state = "from_mnemonic"
    BY <2>1, <2>2 DEF from_mnemonic
  <2>3. CASE a.state # "from_mnemonic"
    BY <2>1, <2>3
  <2> QED
    BY <2>2, <2>3
<1>3. /\ genesis.fork = IF a.fork = "none" THEN "cancun" ELSE a.fork
      /\ genesis.params \in GenesisParams(p, genesis.fork)
  BY <1>2, Constructed
<1>4. CASE a.params = "default"
  <2>1. PICK q \in get_default_genesis_params(<< >>) : p = Given(q)
    BY <1>4 DEF GenesisParameters
  <2>2. genesis.params = q
    BY <1>3, <2>1 DEF GenesisParams, Given
  <2>3. genesis.params.difficulty = "post-merge"
    BY <2>1, <2>2, DefaultParams
  <2> QED
    BY <1>1, <1>3, <1>4, <2>3
<1>5. CASE a.params = "none"
  <2>1. p = Omitted
    BY <1>5 DEF GenesisParameters
  <2>2. genesis.params
          \in get_default_genesis_params(IF genesis.fork \in PostMergeForks THEN << >>
                                         ELSE PreMerge)
    BY <1>3, <2>1 DEF GenesisParams, Omitted
  <2>3. CASE genesis.fork \in PostMergeForks
    <3>1. genesis.params.difficulty = "post-merge"
      BY <2>2, <2>3, DefaultParams
    <3> QED
      BY <2>3, <3>1
  <2>4. CASE genesis.fork \notin PostMergeForks
    <3>1. genesis.params.difficulty = "genesis"
      BY <2>2, <2>4, PreMergeParams
    <3> QED
      BY <2>4, <3>1
  <2> QED
    BY <2>3, <2>4
<1> QED
  BY <1>1, <1>4, <1>5

(* reset_to_genesis makes the chain of a constructor without arguments.    *)
LEMMA DefaultChainIsMade == DefaultChain = Made(NoArguments) /\ NoArguments \in Arguments
<1>1. NoArguments \in Arguments
  BY ArgumentsAssumption DEF NoArguments, Arguments
<1>2. /\ NoArguments.state = "none" /\ NoArguments.params = "none"
      /\ NoArguments.fork = "none" /\ NoArguments.mnemonic = "none"
      /\ NoArguments.hd_path = "none"
  BY DEF NoArguments
<1>3. GenesisParameters(NoArguments) = {Omitted} /\ GenesisStates(NoArguments) = {Omitted}
  BY <1>2 DEF GenesisParameters, GenesisStates
<1>4. Made(NoArguments) = PyEVMBackend(Omitted, Omitted, "none", "none", "none")
  BY <1>2, <1>3 DEF Made
<1>5. Omitted.given = FALSE
  BY DEF Omitted
<1>6. PyEVMBackend(Omitted, Omitted, "none", "none", "none") = DefaultChain
  BY <1>5 DEF PyEVMBackend, DefaultChain
<1> QED
  BY <1>1, <1>4, <1>6

-----------------------------------------------------------------------------
(* What is left of the genesis: the accounts that nobody added, the state  *)
(* of the first block, in the chain and in every snapshot, the fork and    *)
(* the parameters.                                                         *)
MadeFrom(genesis) ==
    /\ Listed \ DOMAIN passwords = ToSet(genesis.keys)
    /\ canonical[1].state = genesis.state
    /\ fork = genesis.fork /\ params = genesis.params
    /\ \A s \in DOMAIN snapshots : snapshots[s].blocks[1].state = genesis.state

GenesisInv ==
    /\ arguments \in Arguments
    /\ backend = "pyevm" => \E genesis \in Made(arguments) : MadeFrom(genesis)

LEMMA GenesisInit == MCInit => GenesisInv
<1>1. ASSUME InitLocal, NEW genesis, InitPyEVM(genesis) PROVE MadeFrom(genesis)
  <2>1. DOMAIN passwords = {} /\ DOMAIN snapshots = {}
    BY <1>1 DEF InitLocal, NoPasswords
  <2>2. canonical[1].state = genesis.state
    BY <1>1 DEF InitPyEVM, GenesisBlock
  <2> QED
    BY <1>1, <2>1, <2>2 DEF InitPyEVM, MadeFrom, Listed
<1> QED
  BY <1>1 DEF MCInit, GenesisInv, InitMock

(* The part of the accounts.                                               *)
LEMMA ListedStay ==
    ASSUME Next, keys \in Seq(Keys), backend = "pyevm"
    PROVE  \/ /\ UNCHANGED <<fork, params>>
              /\ (Listed \ DOMAIN passwords)' = Listed \ DOMAIN passwords
           \/ ResetToGenesis
<1>1. ASSUME UNCHANGED <<accountVars, genesisVars>>
      PROVE  /\ UNCHANGED <<fork, params>>
             /\ (Listed \ DOMAIN passwords)' = Listed \ DOMAIN passwords
  BY <1>1 DEF accountVars, genesisVars, Listed
<1>2. ASSUME NEW account \in Added, NEW password, AddAccount(account, password)
      PROVE  /\ UNCHANGED <<fork, params>>
             /\ (Listed \ DOMAIN passwords)' = Listed \ DOMAIN passwords
  <2>1. /\ keys' = Append(keys, account) /\ account \in Keys /\ account \notin Listed
        /\ DOMAIN passwords' = DOMAIN passwords \cup {account}
    BY <1>2, AccountsAssumption DEF AddAccount, Assigned
  <2>2. ToSet(keys') = ToSet(keys) \cup {account}
    BY <2>1, ElementsOfAppend
  <2> QED
    BY <1>2, <2>1, <2>2 DEF AddAccount, Listed, genesisVars
<1>3. ASSUME NEW account, UnlockAccount(account) \/ LockAccount(account)
      PROVE  /\ UNCHANGED <<fork, params>>
             /\ (Listed \ DOMAIN passwords)' = Listed \ DOMAIN passwords
  BY <1>3 DEF UnlockAccount, LockAccount, Listed, genesisVars
<1>4. ASSUME NEW from,
             \/ \E nonces, fees : SendTransaction(from, nonces, fees)
             \/ SendSignedTransaction(from)
      PROVE  UNCHANGED <<accountVars, genesisVars>>
  BY <1>4 DEF SendTransaction, SendSignedTransaction, apply_transaction
<1>5. ASSUME NEW account, ApplyWithdrawals(account)
      PROVE  UNCHANGED <<accountVars, genesisVars>>
  BY <1>5 DEF ApplyWithdrawals, Mine
<1>6. CASE MineBlock
  BY <1>1, <1>6 DEF MineBlock, Mine
<1>7. CASE TakeSnapshot
  BY <1>1, <1>7 DEF TakeSnapshot
<1>8. ASSUME NEW s, RevertToSnapshot(s)
      PROVE  UNCHANGED <<accountVars, genesisVars>>
  BY <1>8 DEF RevertToSnapshot, RevertPyEVM, RevertMock
<1> QED
  BY <1>1, <1>2, <1>3, <1>4, <1>5, <1>6, <1>7, <1>8, Zenon DEF Next

(* The part of the blocks.                                                 *)
FirstBlocks(state) ==
    /\ canonical[1].state = state
    /\ \A s \in DOMAIN snapshots : snapshots[s].blocks[1].state = state

LEMMA FirstBlocksStay ==
    ASSUME Next, AccountsInv, ChainInv, NEW state, FirstBlocks(state)
    PROVE  FirstBlocks(state)' \/ ResetToGenesis
<1>1. ASSUME canonical'[1] = canonical[1], UNCHANGED snapshots
      PROVE  FirstBlocks(state)'
  BY <1>1 DEF FirstBlocks
<1>2. ASSUME NEW account, NEW password,
             \/ AddAccount(account, password)
             \/ UnlockAccount(account) \/ LockAccount(account)
      PROVE  FirstBlocks(state)'
  BY <1>1, <1>2 DEF AddAccount, UnlockAccount, LockAccount, chainVars
<1>3. ASSUME NEW from,
             \/ \E nonces, fees : SendTransaction(from, nonces, fees)
             \/ SendSignedTransaction(from)
      PROVE  FirstBlocks(state)'
  BY <1>1, <1>3 DEF SendTransaction, SendSignedTransaction, apply_transaction
<1>4. ASSUME NEW b \in Blocks, Mine(b), b.number = block.number
      PROVE  FirstBlocks(state)'
  <2>1. 1 \in 1..block.number
    BY DEF ChainInv
  <2>2. canonical'[1] = canonical[1]
    BY <1>4, <2>1, MineWritesAbove
  <2> QED
    BY <1>1, <1>4, <2>2 DEF Mine
<1>5. CASE MineBlock
  BY <1>4, <1>5 DEF MineBlock, ChainInv
<1>6. ASSUME NEW account \in Listed \cup Added, ApplyWithdrawals(account)
      PROVE  FirstBlocks(state)'
  <2>1. PICK b \in Blocks : b.number = block.number /\ Mine(b)
    BY <1>6, SentIsApplied, WithdrawalMines DEF AccountsInv
  <2> QED
    BY <1>4, <2>1
<1>7. CASE TakeSnapshot
  <2>1. PICK taken \in Snapshots :
            /\ \A n \in 1..block.number : taken.blocks[n] = canonical[n]
            /\ snapshots' = Append(snapshots, taken) /\ UNCHANGED chainVars
    BY <1>7, TakenSnapshot
  <2>2. 1 \in 1..block.number
    BY DEF ChainInv
  <2>3. taken.blocks[1].state = state
    BY <2>1, <2>2 DEF FirstBlocks
  <2>4. /\ DOMAIN snapshots = 1..Len(snapshots) /\ Len(snapshots) \in Nat
        /\ DOMAIN snapshots' = 1..Len(snapshots) + 1
        /\ \A t \in 1..Len(snapshots) : snapshots'[t] = snapshots[t]
        /\ snapshots'[Len(snapshots) + 1] = taken
    BY <2>1, AppendProperties, LenProperties DEF AccountsInv
  <2>5. ASSUME NEW s \in DOMAIN snapshots'
        PROVE  snapshots'[s].blocks[1].state = state
    <3>1. CASE s \in DOMAIN snapshots
      BY <2>4, <3>1 DEF FirstBlocks
    <3>2. CASE s = Len(snapshots) + 1
      BY <2>3, <2>4, <3>2
    <3> QED
      BY <2>4, <3>1, <3>2
  <2> QED
    BY <2>1, <2>5 DEF FirstBlocks, chainVars
<1>8. ASSUME NEW s, RevertToSnapshot(s)
      PROVE  FirstBlocks(state)'
  <2>1. s \in DOMAIN snapshots
    BY <1>8 DEF RevertToSnapshot
  <2>2. CASE RevertPyEVM(snapshots[s].blocks)
    <3> DEFINE blocks == snapshots[s].blocks
    <3>1. blocks \in Chains /\ blocks[1].state = state
      BY <2>1, SnapshotTyped DEF AccountsInv, FirstBlocks
    <3> HIDE DEF blocks
    <3>2. canonical'[1] = blocks[1]
      <4>1. /\ Len(blocks) \in Nat \ {0}
            /\ \A n \in 1..Len(blocks) : canonical'[n] = blocks[n]
        BY <2>2, <3>1, RevertedChain DEF blocks
      <4>2. 1 \in 1..Len(blocks)
        BY <4>1
      <4> QED
        BY <4>1, <4>2
    <3> QED
      BY <2>2, <3>1, <3>2 DEF RevertPyEVM, FirstBlocks
  <2>3. CASE RevertMock(snapshots[s].keys)
    BY <1>1, <2>3 DEF RevertMock, chainVars
  <2> QED
    BY <1>8, <2>2, <2>3 DEF RevertToSnapshot
<1> QED
  BY <1>2, <1>3, <1>5, <1>6, <1>7, <1>8, Zenon DEF Next

LEMMA GenesisStep ==
    ASSUME AccountsInv, ChainInv, GenesisInv, [MCNext]_allVars
    PROVE  GenesisInv'
<1>1. CASE UNCHANGED allVars
  BY <1>1 DEF allVars, vars, accountVars, chainVars, genesisVars, GenesisInv,
              MadeFrom, Listed
<1>2. ASSUME ResetToGenesis, arguments' = NoArguments PROVE GenesisInv'
  <2>1. CASE backend' # "pyevm"
    BY <1>2, <2>1, DefaultChainIsMade DEF GenesisInv
  <2>2. CASE backend' = "pyevm"
    <3>1. backend = "pyevm" /\ DOMAIN passwords' = {} /\ DOMAIN snapshots' = {}
      BY <1>2, <2>2 DEF ResetToGenesis, NoPasswords
    <3>2. PICK genesis \in DefaultChain :
              /\ keys' = genesis.keys /\ fork' = genesis.fork /\ params' = genesis.params
              /\ canonical' = <<GenesisBlock(genesis.state)>>
      BY <1>2, <3>1 DEF ResetToGenesis, ResetBackend
    <3>3. canonical'[1].state = genesis.state
      BY <3>2 DEF GenesisBlock
    <3>4. MadeFrom(genesis)'
      BY <3>1, <3>2, <3>3 DEF MadeFrom, Listed
    <3> QED
      BY <1>2, <3>2, <3>4, DefaultChainIsMade DEF GenesisInv
  <2> QED
    BY <2>1, <2>2
<1>3. ASSUME Next, UNCHANGED arguments, arguments = NoArguments PROVE GenesisInv'
  <2>1. CASE ResetToGenesis
    BY <1>2, <1>3, <2>1
  <2>2. CASE ~ResetToGenesis
    <3>1. backend' = backend
      BY <1>3, BackendStays
    <3>2. ASSUME backend = "pyevm"
          PROVE  \E genesis \in Made(arguments) : MadeFrom(genesis)'
      <4>1. PICK genesis \in Made(arguments) : MadeFrom(genesis)
        BY <3>2 DEF GenesisInv
      <4>2. FirstBlocks(genesis.state)'
        BY <1>3, <2>2, <4>1, FirstBlocksStay DEF MadeFrom, FirstBlocks
      <4>3. /\ UNCHANGED <<fork, params>>
            /\ (Listed \ DOMAIN passwords)' = Listed \ DOMAIN passwords
        BY <1>3, <2>2, <3>2, ListedStay DEF AccountsInv
      <4> QED
        BY <4>1, <4>2, <4>3 DEF MadeFrom, FirstBlocks
    <3> QED
      BY <1>3, <3>1, <3>2 DEF GenesisInv
  <2> QED
    BY <2>1, <2>2
<1> QED
  BY <1>1, <1>2, <1>3 DEF MCNext

(***************************************************************************)
(* Whatever constructor or reset made the chain, for any default number of *)
(* accounts, and after any calls: the backend lists, besides the added     *)
(* accounts, those that its genesis state funds, unless it was given a     *)
(* genesis state that is empty, made for other keys or overridden to have  *)
(* no money; and its parameters suit its fork, unless it was given those   *)
(* of proof of stake for a fork from before the merge.  (PyEVMBackend,     *)
(* from_mnemonic, reset_to_genesis)                                        *)
(***************************************************************************)
THEOREM GenesisAlwaysConsistent == MCSpec => []GenesisConsistent
<1>1. ASSUME GenesisInv PROVE GenesisConsistent
  <2>1. ASSUME backend = "pyevm"
        PROVE  /\ (Listed \ DOMAIN passwords
                     = { a \in DOMAIN canonical[1].state :
                           canonical[1].state[a].balance > 0 })
                  <=> SameKeys(arguments)
               /\ GenesisFitsFork
    <3>1. arguments \in Arguments
      BY <1>1 DEF GenesisInv
    <3>2. PICK genesis \in Made(arguments) : MadeFrom(genesis)
      BY <1>1, <2>1 DEF GenesisInv
    <3>3. Fits(genesis) <=> SameKeys(arguments)
      BY <3>1, MadeFits
    <3>4. GenesisFitsFork
      BY <3>1, <3>2, MadeFitsFork DEF MadeFrom, GenesisFitsFork
    <3> QED
      BY <3>2, <3>3, <3>4 DEF MadeFrom, Fits, Funded
  <2> QED
    BY <2>1 DEF GenesisConsistent, ListedAreFunded, GenesisFitsFork, OnPyEVM, SameKeys
<1>2. AccountsInv /\ ChainInv /\ GenesisInv /\ [MCNext]_allVars => GenesisInv'
  BY GenesisStep
<1> QED
  BY <1>1, <1>2, GenesisInit, RememberedInvariant, PTL DEF MCSpec, allVars
=============================================================================

---------------------------- MODULE AccountState ----------------------------
(***************************************************************************)
(* Accounts and their state, as callers see them: the accounts a backend   *)
(* lists, their passwords and locks in the facade (main.py), and for       *)
(* PyEVMBackend (backends/pyevm/main.py) nonces, balances and base fees at *)
(* every block, through transactions, withdrawals, snapshots and resets.   *)
(* On MockBackend (backends/mock/main.py) an account's state never changes *)
(* and only its list of accounts is followed here.                         *)
(*                                                                         *)
(* A block is [number, state, fee, senders, used]: state is the state of   *)
(* the accounts after the block (see Genesis), fee the base fee, senders   *)
(* the accounts that sent the transactions that it lists, in their order,  *)
(* and used those that sent the transactions whose gas it has used; a      *)
(* block of apply_withdrawals lists none and may have used some.  Every    *)
(* transaction uses one unit of gas.  canonical is py-evm's table from     *)
(* numbers to canonical blocks, block n at n + 1; a revert leaves blocks   *)
(* above the new head in it.                                               *)
(***************************************************************************)
EXTENDS Genesis, BlockRange

CONSTANTS
    GasLimit,           \* gas of a block, in transactions
    GenesisFee,         \* base fee of the genesis block, 1 gwei
    DefaultFee,         \* max_fee_per_gas of a transaction without fees, 1 gwei
    Added,              \* the accounts whose private keys may be added
    Geneses,            \* what setup_tester_chain may have returned
    MockAccounts,       \* the accounts of MockBackend's genesis, as a sequence
    MaxBlocks,          \* bound on the blocks of the chain
    MaxSnapshots        \* bound on the snapshots

ASSUME FeeAssumption ==
    /\ GasLimit \in Nat /\ GasLimit % 2 = 0 /\ GasLimit > 0
    /\ GenesisFee \in Nat \ {0} /\ DefaultFee \in Nat

ASSUME BoundsAssumption == MaxBlocks \in Nat /\ MaxSnapshots \in Nat

IsState(state) ==
    /\ DOMAIN state \subseteq Keys
    /\ state \in [DOMAIN state -> [balance : {0, 1}, nonce : Nat]]

ASSUME AccountsAssumption ==
    /\ Added \subseteq Keys /\ MockAccounts \in Seq(Keys)
    /\ DefaultChain \subseteq Geneses
    /\ \A genesis \in Geneses :
          genesis.keys \in Seq(Keys) /\ IsState(genesis.state)

VARIABLES
    backend,            \* "pyevm" or "mock"
    keys,               \* the accounts that the backend lists
    passwords,          \* accounts that were added |-> "none" or "secret"
    unlocked,           \* the accounts that unlock_account has unlocked
    fork, params,       \* virtual machine and parameters of the chain
    canonical,          \* numbers |-> blocks
    block,              \* the pending block
    snapshots

accountVars == <<keys, passwords, unlocked>>
chainVars == <<canonical, block>>
genesisVars == <<backend, fork, params>>
vars == <<accountVars, chainVars, genesisVars, snapshots>>

Listed == ToSet(keys)
NoPasswords == [account \in {} |-> "none"]

(* dictionary[key] = value.                                                *)
Assigned(dictionary, key, value) ==
    [ k \in DOMAIN dictionary \cup {key} |->
        IF k = key THEN value ELSE dictionary[k] ]

-----------------------------------------------------------------------------
(* Blocks.                                                                 *)
GasTarget == GasLimit \div 2

(* EIP-1559, in py-evm.                                                    *)
NextFee(fee, used) ==
    LET up == ((fee * (used - GasTarget)) \div GasTarget) \div 8
        down == ((fee * (GasTarget - used)) \div GasTarget) \div 8
    IN  IF used = GasTarget THEN fee
        ELSE IF used > GasTarget THEN fee + (IF up > 1 THEN up ELSE 1)
        ELSE fee - down

Child(parent) ==
    [number |-> parent.number + 1, state |-> parent.state,
     fee |-> NextFee(parent.fee, Len(parent.used)),
     senders |-> << >>, used |-> << >>]

GenesisBlock(state) ==
    [number |-> 0, state |-> state, fee |-> GenesisFee,
     senders |-> << >>, used |-> << >>]

LatestBlock == canonical[block.number]

(* A wrong one asks the table only.                                        *)
AnyCanonicalBlock(id) ==
    IF id \in {Latest, Safe, Finalized} THEN {LatestBlock}
    ELSE IF id = Earliest THEN {canonical[1]}
    ELSE IF id = Pending THEN {block}
    ELSE IF id < Len(canonical) THEN {canonical[id + 1]} ELSE {}

(* The block of an identifier, or none (BlockNotFound).                    *)
_get_block_by_number(id) ==
    IF id \in {Latest, Safe, Finalized} THEN {LatestBlock}
    ELSE IF id = Earliest THEN {canonical[1]}
    ELSE IF id = Pending THEN {block}
    ELSE IF id < block.number THEN {canonical[id + 1]} ELSE {}

-----------------------------------------------------------------------------
(* What the reading calls answer, {} if they raise BlockNotFound.          *)
NonceIn(state, account) ==
    IF account \in DOMAIN state THEN state[account].nonce ELSE 0
BalanceIn(state, account) ==
    IF account \in DOMAIN state THEN state[account].balance ELSE 0

get_nonce(account, id) ==
    IF backend = "mock" THEN {0}
    ELSE { NonceIn(b.state, account) : b \in _get_block_by_number(id) }

get_balance(account, id) ==
    IF backend = "mock" THEN {IF account \in Listed THEN 1 ELSE 0}
    ELSE { BalanceIn(b.state, account) : b \in _get_block_by_number(id) }

get_base_fee(id) == { b.fee : b \in _get_block_by_number(id) }

(* py-evm's get_ancestors: the nearest one first, without the block itself *)
Ancestors(count, b) ==
    [i \in 1..(IF count < b.number THEN count ELSE b.number) |->
        canonical[b.number - i + 1]]

(* A wrong history starts with the block itself.                           *)
HistoryWithNewest(block_count, newest_block) ==
    { [i \in 1..(IF block_count < b.number THEN block_count ELSE b.number) |->
          LET ancestor == canonical[b.number - i + 2]
          IN  [fee |-> ancestor.fee, used |-> Len(ancestor.used)]] :
        b \in _get_block_by_number(newest_block) }

get_fee_history(block_count, newest_block) ==
    LET newest == IF newest_block = Pending THEN Latest ELSE newest_block
    IN  { [i \in DOMAIN Ancestors(block_count, b) |->
              LET ancestor == Ancestors(block_count, b)[i]
              IN  [fee |-> ancestor.fee, used |-> Len(ancestor.used)]] :
            b \in _get_block_by_number(newest) }

-----------------------------------------------------------------------------
(* Transactions: [from, nonce, max_fee].  Callers leave out the nonce or   *)
(* not, and fees altogether ("none") or all but the priority fee           *)
(* ("priority", taken to be 0).                                            *)

(* A wrong one leaves no room for the base fee to rise.                    *)
MaxFeeOfLatest(fees, id) ==
    IF fees = "none" THEN {DefaultFee} ELSE get_base_fee(id)

MaxFee(fees, id) ==
    IF fees = "none" THEN {DefaultFee}
    ELSE { 2 * base_fee : base_fee \in get_base_fee(id) }

_normalize_transaction(from, nonces, fees, id) ==
    [from : {from}, nonce : nonces, max_fee : MaxFee(fees, id)]

DefaultNonces(from, id) == get_nonce(from, id)
NextNonces(from) == {NonceIn(block.state, from)}

(* What the executor of py-evm asks of a transaction on top of a state.    *)
Executes(tx, state, fee) ==
    /\ tx.nonce = NonceIn(state, tx.from)
    /\ BalanceIn(state, tx.from) > 0
    /\ tx.max_fee >= fee

Applies(tx) ==
    /\ Executes(tx, block.state, block.fee)
    /\ Len(block.used) < GasLimit

Touched(state, account, balance, nonce) ==
    Assigned(state, account, [balance |-> balance, nonce |-> nonce])

IsLocked(account) ==
    /\ account \in DOMAIN passwords /\ passwords[account] # "none"
    /\ account \notin unlocked

(* _max_available_gas: what the pending block has left.                    *)
_max_available_gas == GasLimit - Len(block.used)

(* The outcome of call for a transaction with nothing but "from".          *)
call(from, id) ==
    IF _get_block_by_number(id) = {} THEN "BlockNotFound"
    ELSE IF /\ _max_available_gas > 0
            /\ \E b \in _get_block_by_number(id) :
                  \E tx \in _normalize_transaction(from, DefaultNonces(from, id),
                                                   "none", id) :
                      Executes(tx, b.state, b.fee)
    THEN "answer" ELSE "raises"

(* A wrong estimate_gas knows a nonce without asking the block.            *)
EstimateOnTable(from, id) ==
    IF id = Pending THEN "NotImplementedError"
    ELSE IF AnyCanonicalBlock(id) = {} THEN "BlockNotFound"
    ELSE IF \E b \in AnyCanonicalBlock(id) : BalanceIn(b.state, from) > 0
    THEN "answer" ELSE "raises"

(* The same for estimate_gas, which looks the block up twice: for the      *)
(* nonce, and in the table.  It runs the transaction for free.             *)
estimate_gas(from, id) ==
    IF DefaultNonces(from, id) = {} THEN "BlockNotFound"
    ELSE IF id = Pending THEN "NotImplementedError"
    ELSE IF \E b \in AnyCanonicalBlock(id) : BalanceIn(b.state, from) > 0
    THEN "answer" ELSE "raises"

-----------------------------------------------------------------------------
InitPyEVM(genesis) ==
    /\ backend = "pyevm"
    /\ keys = genesis.keys
    /\ fork = genesis.fork /\ params = genesis.params
    /\ canonical = <<GenesisBlock(genesis.state)>>
    /\ block = Child(GenesisBlock(genesis.state))

InitMock ==
    /\ backend = "mock"
    /\ keys = MockAccounts
    /\ fork = "none" /\ params = << >>
    /\ canonical = <<GenesisBlock(<< >>)>>
    /\ block = Child(GenesisBlock(<< >>))

(* _reset_local_state.                                                     *)
InitLocal == passwords = NoPasswords /\ unlocked = {} /\ snapshots = << >>

Init ==
    /\ InitLocal
    /\ InitMock \/ \E genesis \in Geneses : InitPyEVM(genesis)

AddAccount(account, password) ==
    /\ account \notin Listed
    /\ keys' = Append(keys, account)
    /\ passwords' = Assigned(passwords, account, password)
    /\ UNCHANGED <<unlocked, chainVars, genesisVars, snapshots>>

UnlockAccount(account) ==
    /\ account \in DOMAIN passwords /\ passwords[account] # "none"
    /\ unlocked' = unlocked \cup {account}
    /\ UNCHANGED <<keys, passwords, chainVars, genesisVars, snapshots>>

LockAccount(account) ==
    /\ account \in DOMAIN passwords /\ passwords[account] # "none"
    /\ unlocked' = unlocked \ {account}
    /\ UNCHANGED <<keys, passwords, chainVars, genesisVars, snapshots>>

apply_transaction(tx) ==
    /\ backend = "pyevm"
    /\ Applies(tx)
    /\ block' = [block EXCEPT
          !.state = Touched(@, tx.from, BalanceIn(@, tx.from), tx.nonce + 1),
          !.senders = Append(@, tx.from), !.used = Append(@, tx.from)]
    /\ UNCHANGED <<canonical, accountVars, genesisVars, snapshots>>

(* The backend signs with the key of from, which the facade lets it do     *)
(* unless the account is locked.                                           *)
SendTransaction(from, nonces, fees) ==
    /\ ~IsLocked(from)
    /\ from \in Listed
    /\ \E tx \in _normalize_transaction(from, nonces, fees, Latest) :
          apply_transaction(tx)

(* send_raw_transaction and send_signed_transaction, for a transaction     *)
(* signed elsewhere: nobody asks whether its sender is listed or locked.   *)
SendSignedTransaction(from) ==
    apply_transaction([from |-> from, nonce |-> NonceIn(block.state, from),
                       max_fee |-> block.fee])

(* A wrong one never replaces a block that a revert has left behind.       *)
MineOnTop(b) ==
    /\ b.number <= MaxBlocks
    /\ canonical' = Append(canonical, b)
    /\ block' = Child(b)
    /\ UNCHANGED <<accountVars, genesisVars, snapshots>>

(* The block becomes the canonical one of its number.                      *)
Mine(b) ==
    /\ b.number <= MaxBlocks
    /\ canonical' = IF b.number < Len(canonical)
                    THEN [canonical EXCEPT ![b.number + 1] = b]
                    ELSE Append(canonical, b)
    /\ block' = Child(b)
    /\ UNCHANGED <<accountVars, genesisVars, snapshots>>

MineBlock == backend = "pyevm" /\ Mine(block)

(* A wrong one credits the account in the latest block.                    *)
WithdrawInPlace(account) ==
    /\ backend = "pyevm" /\ fork \in ShanghaiForks
    /\ canonical' = [canonical EXCEPT ![block.number].state =
                        Touched(@, account, 1, NonceIn(@, account))]
    /\ block' = [block EXCEPT !.state =
                    Touched(@, account, 1, NonceIn(@, account))]
    /\ UNCHANGED <<accountVars, genesisVars, snapshots>>

(* mine_all starts from the pending block as it is and lists what it is    *)
(* given, which is nothing: transactions that are pending leave their      *)
(* state and their gas to the block, and are in no block from now on.      *)
ApplyWithdrawals(account) ==
    /\ backend = "pyevm" /\ fork \in ShanghaiForks
    /\ Mine([block EXCEPT
          !.state = Touched(@, account, 1, NonceIn(@, account)),
          !.senders = << >>])

(* PyEVMBackend's snapshot is the hash of the latest block, and so its     *)
(* ancestors; MockBackend's has the accounts.                              *)
TakeSnapshot ==
    /\ Len(snapshots) < MaxSnapshots
    /\ snapshots' = Append(snapshots,
          [blocks |-> SubSeq(canonical, 1, LatestBlock.number + 1), keys |-> keys])
    /\ UNCHANGED <<accountVars, chainVars, genesisVars>>

(* A wrong revert of PyEVMBackend keeps the pending block.                 *)
RevertKeepsPending(blocks) ==
    /\ backend = "pyevm"
    /\ canonical' = blocks \o SubSeq(canonical, Len(blocks) + 1, Len(canonical))
    /\ block' = [block EXCEPT !.number = Len(blocks)]
    /\ UNCHANGED <<accountVars, genesisVars, snapshots>>

RevertPyEVM(blocks) ==
    /\ backend = "pyevm"
    /\ canonical' = blocks \o SubSeq(canonical, Len(blocks) + 1, Len(canonical))
    /\ block' = Child(Last(blocks))
    /\ UNCHANGED <<accountVars, genesisVars, snapshots>>

RevertMock(accounts) ==
    /\ backend = "mock"
    /\ keys' = accounts
    /\ UNCHANGED <<passwords, unlocked, chainVars, genesisVars, snapshots>>

RevertToSnapshot(s) ==
    /\ s \in DOMAIN snapshots
    /\ RevertPyEVM(snapshots[s].blocks) \/ RevertMock(snapshots[s].keys)

(* PyEVMBackend builds the chain of PyEVMBackend(), whatever it was built  *)
(* with; MockBackend keeps its genesis.                                    *)
ResetBackend ==
    \/ /\ backend = "pyevm"
       /\ \E genesis \in DefaultChain :
             /\ keys' = genesis.keys
             /\ fork' = genesis.fork /\ params' = genesis.params
             /\ canonical' = <<GenesisBlock(genesis.state)>>
             /\ block' = Child(GenesisBlock(genesis.state))
    \/ /\ backend = "mock"
       /\ keys' = MockAccounts
       /\ UNCHANGED <<fork, params, chainVars>>

(* Wrong resets remember the passwords, or who was unlocked.               *)
ResetKeepsPasswords ==
    /\ ResetBackend
    /\ unlocked' = {} /\ snapshots' = << >>
    /\ UNCHANGED <<backend, passwords>>
ResetKeepsUnlocked ==
    /\ ResetBackend
    /\ passwords' = NoPasswords /\ snapshots' = << >>
    /\ UNCHANGED <<backend, unlocked>>

ResetToGenesis ==
    /\ ResetBackend
    /\ passwords' = NoPasswords /\ unlocked' = {} /\ snapshots' = << >>
    /\ UNCHANGED backend

Next ==
    \/ \E account \in Added, password \in {"none", "secret"} :
          AddAccount(account, password)
    \/ \E account \in Added : UnlockAccount(account) \/ LockAccount(account)
    \/ \E from \in Listed, fees \in {"none", "priority"} :
          \/ SendTransaction(from, DefaultNonces(from, Latest), fees)
          \/ SendTransaction(from, NextNonces(from), fees)
    \/ MineBlock
    \/ \E account \in Listed \cup Added :
          SendSignedTransaction(account) \/ ApplyWithdrawals(account)
    \/ TakeSnapshot
    \/ \E s \in 1..MaxSnapshots : RevertToSnapshot(s)
    \/ ResetToGenesis

Spec == Init /\ [][Next]_vars

-----------------------------------------------------------------------------
AccountsTypeOK ==
    /\ backend \in {"pyevm", "mock"}
    /\ DOMAIN passwords \subseteq Added /\ unlocked \subseteq Added
    /\ block.number \in 1..Len(canonical)
    /\ \A n \in DOMAIN canonical : canonical[n].number = n - 1

OnPyEVM == backend = "pyevm"
Tags == {Latest, Safe, Finalized, Earliest, Pending}
Numbers == 0..MaxBlocks + 1
NumberOf(tag) ==
    CASE tag = Earliest -> 0
      [] tag = Pending -> block.number
      [] OTHER -> block.number - 1
ChainAccounts == Listed \cup Added

(* The transactions of a that a block stands for: those it lists, and if   *)
(* it lists none those whose gas it has used; and how many there are up to *)
(* block n, the pending one included.                                      *)
Ran(b) == IF b.senders = << >> THEN b.used ELSE b.senders
SentIn(b, a) == { i \in DOMAIN Ran(b) : Ran(b)[i] = a }
BlockAt(n) == IF n < block.number THEN canonical[n + 1] ELSE block
SentUpTo(a, n) ==
    Cardinality(UNION { {k} \X SentIn(BlockAt(k), a) : k \in 0..n })
NonceAfter(a, n) == NonceIn(canonical[1].state, a) + SentUpTo(a, n)

(* The nonce that get_nonce answers for a block, by number or by tag, is   *)
(* that of the genesis block and one for each of the account's             *)
(* transactions that are listed in the blocks up to it or that             *)
(* apply_withdrawals ran over, whose gas its block has used while it lists *)
(* none; blocks that a revert has left above the head are not found.       *)
(* (_get_block_by_number, get_nonce, apply_withdrawals,                    *)
(* revert_to_snapshot)                                                     *)
NoncesCountTransactions ==
    OnPyEVM => \A a \in ChainAccounts :
        /\ \A n \in Numbers :
              get_nonce(a, n) = IF n < block.number THEN {NonceAfter(a, n)} ELSE {}
        /\ \A tag \in Tags : get_nonce(a, tag) = {NonceAfter(a, NumberOf(tag))}

(* A transaction with a priority fee only, and no nonce, runs in the       *)
(* pending block iff there is room, the sender has money, and the pending  *)
(* block has none of the sender's transactions yet: twice the base fee of  *)
(* the latest block covers that of the next one.  (_normalize_transaction) *)
PriorityOnlyRuns ==
    OnPyEVM => \A a \in ChainAccounts :
        (\E tx \in _normalize_transaction(a, DefaultNonces(a, Latest), "priority", Latest) :
            Applies(tx))
          <=> /\ _max_available_gas > 0
              /\ get_balance(a, Pending) = {1}
              /\ a \notin ToSet(block.senders)

(* The base fees of get_fee_history are those that get_base_fee answers    *)
(* for the blocks before newest_block, the nearest one first: the code     *)
(* starts with the parent (see FeeHistoryStartsAtNewest).  Each follows    *)
(* from the gas that the same answer reports next to the fee before it.    *)
(* (get_fee_history)                                                       *)
FeeHistoryFollowsGas ==
    OnPyEVM => \A count \in 1..MaxBlocks, n \in Numbers :
        \A history \in get_fee_history(count, n) :
            /\ Len(history) <= count
            /\ \A i \in DOMAIN history :
                  /\ get_base_fee(n - i) = {history[i].fee}
                  /\ i + 1 \in DOMAIN history =>
                        history[i].fee
                          = NextFee(history[i + 1].fee, history[i + 1].used)

(* "Return the historical gas information for the number of blocks         *)
(* specified as the `block_count` starting from `newest_block`."           *)
(* (README.md:522, get_fee_history)                                        *)
FeeHistoryStartsAtNewest ==
    OnPyEVM => \A count \in 1..MaxBlocks, n \in Numbers :
        \A history \in get_fee_history(count, n) :
            history # << >> => get_base_fee(n) = {history[1].fee}

(* call and estimate_gas, for a transaction that leaves everything but the *)
(* sender out, know the same blocks; where estimate_gas answers, call      *)
(* answers too unless the pending block is full or the base fee of the     *)
(* block asked for exceeds the default fee.  (call, estimate_gas)          *)
CallsAgreeWithEstimates ==
    OnPyEVM => \A a \in ChainAccounts, id \in Numbers \cup (Tags \ {Pending}) :
        /\ estimate_gas(a, id) = "BlockNotFound" <=> call(a, id) = "BlockNotFound"
        /\ estimate_gas(a, id) = "answer" =>
              (call(a, id) = "answer"
                  <=> /\ _max_available_gas > 0
                      /\ \A fee \in get_base_fee(id) : fee <= DefaultFee)

(* An account with a password is one that the backend lists, except that   *)
(* MockBackend's revert takes accounts away which the facade still knows.  *)
(* (add_account, revert_to_snapshot, reset_to_genesis)                     *)
PasswordsBelongToListed ==
    \A a \in DOMAIN passwords \ Listed :
        /\ backend = "mock"
        /\ \E s \in DOMAIN snapshots : a \notin ToSet(snapshots[s].keys)

(* An account added with a password starts locked, unless the facade knew  *)
(* it before MockBackend's revert took it away.  (add_account)             *)
OnlyReaddedStartUnlocked ==
    [][ \A a \in Added :
          (/\ a \notin Listed /\ a \in Listed'
           /\ a \in DOMAIN passwords' /\ passwords'[a] # "none")
            => (IsLocked(a)' \/ (backend = "mock" /\ a \in DOMAIN passwords))
      ]_vars
=============================================================================

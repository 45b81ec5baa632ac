# A verification project for eth-tester

The repository (published as `raj1000-tester`, Python package `eth_tester`) is a
library that Ethereum tooling uses as a test chain: it runs transactions, mines
blocks on demand, takes and reverts snapshots, and offers filters for blocks,
pending transactions and log entries. This directory holds TLA+ modules that
model its stateful core, TLC configurations that check them on small instances,
and TLAPS proofs of the most important invariants for every instance.

Paths below are relative to `src/eth_tester/`, `README.md` and `CHANGELOG.rst`
of the program to `src/`.

## 1. Inventory

| Component | Code | State | Operations | Correct when |
|---|---|---|---|---|
| Facade | `main.py`, `EthereumTester` | pool `_pending_transactions`, `auto_mine_transactions`, `_snapshots`, `_filter_counter`, three dictionaries of filters | send (raw) transactions, mine, time travel, enable and disable auto-mining, snapshot, revert, reset, create, delete and poll filters, `get_logs` | the pool, the chain and the filters tell one story after any sequence of calls, failing ones included |
| Accounts | `main.py` | `_account_passwords`, `_account_unlock`, the backend's keys | add, lock, unlock (with a deadline), reset | a locked account sends nothing; a new one with a password starts locked; the facade and the backend know the same accounts |
| Account state, fees | `backends/pyevm/main.py` | nonces and balances at every block, base fees | `get_nonce`, `get_balance`, `get_base_fee`, `get_fee_history`, `call`, `estimate_gas`, `apply_withdrawals`, the defaults of a transaction | all answers about one block agree, before and after reverts |
| Genesis | `backends/pyevm/main.py`, `backends/common.py` | genesis state and parameters, the list of keys, the virtual machine | `PyEVMBackend()`, `from_mnemonic`, `reset_to_genesis` | accounts that are listed can pay, parameters suit the fork |
| Filter | `utils/filters.py`, `Filter` | `values` and `queue` | add, remove, get_changes, get_all | queue and values agree on what is still unread |
| Log matching | `utils/filters.py` | none | `check_if_log_matches` and the checks it is made of | ranges, addresses and topics mean what JSON-RPC says |
| Inbound arguments | `validation/inbound.py`, `normalization/inbound.py` | none | one validator and one normalizer for every kind of argument | what is accepted becomes canonical, the rest raises `ValidationError` |
| Transaction parameters | `validation/inbound.py`, `utils/transactions.py`, `backends/pyevm/{main,serializers}.py` | the pool's dictionaries | validate, fill in defaults, serialize, clean, extract | what enters the pool comes out as the same transaction |
| PyEVM backend | `backends/pyevm/main.py` | chain and pending block inside py-evm, keys | mine, send, snapshot, revert, look up | each nonce used once, lookups follow the canonical chain |
| Mock backend | `backends/mock/*.py` | `blocks`, `block`, `receipts`, `alloc` and snapshots of them | the same calls | it behaves as a backend does |
| Backend interface | `backends/base.py` | - | the calls both backends implement | - |
| Serializers | `backends/pyevm/serializers.py`, `backends/mock/serializers.py`, `backends/mock/factory.py` | none | put together the dictionaries for blocks, transactions, receipts, log entries | all answers about one transaction agree |
| Outbound answers | `validation/outbound.py`, `normalization/outbound.py` | none | checks and conversions of what goes out | an answer the backend may give is not refused on its way to the caller |
| Selection of backends, constants, encodings | rest of `backends/`, `utils/` | none of their own | - | - |

**How they interact.** A caller calls the facade. The facade validates and
normalizes the arguments, calls the backend and feeds what happened to the
filters. With auto-mining a transaction is run and its block mined at once.
Without, `handle_auto_mining` takes a snapshot, runs the transaction in the
backend's pending block to learn its hash and its logs, puts it into the pool,
and reverts the snapshot in `finally`; the pool is run a second time when blocks
are mined. A revert goes to the backend first and then asks it, by hash, which
contents of the filters survive.

**What is hard here.** The library is synchronous and starts no thread, so there
are no interleavings inside a call. The difficulty is elsewhere:

* long sequences of legal calls: pool, pending block, chain, snapshots and
  filters are five records of the same transactions, each reset by a different
  set of calls;
* calls that raise half way and roll nothing back (`mine_blocks`,
  `enable_auto_mine_transactions`, `create_log_filter`);
* reverts, backwards and *forwards* to a fork that was abandoned before;
* time, which locks an unlocked account between sending and mining;
* Python references, which make the mock backend's snapshots change;
* the pending block, which defaults of nonce, fee and gas read at one time and
  use at another, or do not read at all;
* two sources for one fact: keys derived twice, a table of canonical blocks next
  to the head of the chain, the facade's passwords next to the backend's accounts;
* conversions that have to be inverse to each other across the pool and across
  a filter;
* boundaries: ranges of blocks, zero blocks to mine, a full block, a `v` of more
  than 8 bits.

Each of them is a line under `hazards` in `PROJECT.json`, with the properties
that would catch it. Nothing *has to happen eventually*: every call is done when
it returns and no call waits. So no specification has fairness and no run checks
liveness.

## 2. The modules

```
Filter ---- PyEVMChain --.
                          >- TesterAccounts - EthereumTester - TesterProperties - MCTester
BlockRange --------------'
   '---- Genesis -- AccountState -- MCAccounts

ChainBackend <- refined by - MockHistory (extends MockBackend) -.
                                                                 >- MockAnswers - MCMock
Outbound --------------------------------------------------------'
   '- PyEVMAnswers

Inbound - TransactionTypes --------.
                                    >- InboundCalls - MCInbound
LogMatch (extends BlockRange) -----'

Theorems:
Filter_proofs - EthereumTester_proofs - TesterFilters_proofs    AccountState_proofs
Filter_proofs, Outbound_proofs - MockHistory_proofs, PyEVMAnswers_proofs
InboundCalls_proofs
```

**`Filter`** - the object behind all filters: a record of `values` and `queue`,
with `Add`, `Drained` (`get_changes`), `Remove` and `Retain` (what the
`_revert_*_filter` methods do), and the same on dictionaries of filters.

**`PyEVMChain`** - operators on a chain (a sequence of mined blocks, genesis left
out, so `chain[n]` is block `n`) and a pending block (a sequence of
transactions). A mined block has an `id` that stands for its hash: the backend
gives each block it mines a random `mix_hash`, so ids are never used twice. A
transaction is its sender, its nonce and a `note` that tells apart transactions
that agree on both. `Applies` is py-evm's `apply_transaction`, modelled from how
the backend relies on it: it raises unless the nonce is the next one and the gas
fits in the block.

**`TesterAccounts`** - keys, passwords and locks. `Expire` is the passing of a
deadline.

**`BlockRange`**, **`LogMatch`** - `check_if_log_matches` as operators.

**`EthereumTester`** - the facade composed with `PyEVMChain`, `TesterAccounts`,
`Filter` and `BlockRange`: one action for each public call that changes state.

| Action | Call |
|---|---|
| `SendAutoMined`, `SendToPool`, `SendToPoolFails` | `send_transaction`, `send_raw_transaction` (`raw`), through `handle_auto_mining` |
| `MineBlocks`, `MineBlocksFails` | `mine_blocks`; the second when a transaction of the pool is refused |
| `EnableAutoMine`, `DisableAutoMine` | the same; enabling covers the pop that fails |
| `TimeTravel` | `time_travel` to a later time |
| `TakeSnapshot`, `RevertToSnapshot`, `ResetToGenesis` | the same |
| `CreateBlockFilter`, `CreatePendingTransactionFilter`, `CreateLogFilter` | the same |
| `DeleteFilter`, `GetOnlyFilterChanges` | the same |
| `AddAccount`, `UnlockAccount`, `LockAccount`, `Expire` | the same, and time |

Calls that raise before they change anything, and calls that only read, are
stuttering steps; `get_logs` is the operator `GetLogs`, because it is a promise
about the state. Every transaction emits one log entry, so the entries of a
block are its transactions.

**`TesterProperties`** - the invariants and action properties of the facade.
`NextFed`, in `EthereumTester`, is every step but `time_travel` and
`revert_to_snapshot`; `SpecForward` adds to it the `time_travel` over an empty
pending block.

**`ChainBackend`** - the abstract specification of a backend: a chain, a pending
block, snapshots that stay as they were taken.

**`MockBackend`**, **`MockHistory`** - the mock backend with its Python objects:
`blocks`, `block` and `receipts` are references into heaps of list and
dictionary objects, `take_snapshot` copies objects, `revert_to_snapshot` installs
references. `MockHistory` adds the history its promises are about and the
refinement mapping to `ChainBackend`.

A block of it also carries its base fee, which follows from the gas its parent
used.

**`Outbound`** - the validators and normalizers that the facade passes the
backend's answers through. A value is known by its kind only ("int", "bytes32",
"address", `None`, ...); a validator is the set of kinds it accepts, a dictionary
of validators a function from keys. `TransactionReturned`, `ReceiptReturned` and
`BlockReturned` say whether `get_transaction_by_hash`, `get_transaction_receipt`
and `get_block_by_number` return or raise.

**`PyEVMAnswers`** - the lookups and serializers of `PyEVMBackend` over a chain
with transactions of all four types, on each of four forks. A transaction is the
outcome of its execution: type, whether it creates a contract, gas, log entries,
status. `SendTransaction` is any of the three `send_*` calls, `MineBlock` one
block of `mine_blocks`; the facade's pool is left to `EthereumTester`.

**`MockAnswers`** - the same for the mock backend, whose transactions are told by
the optional keys they were sent with. A legacy transaction loses the chain id it
was sent with in `create_transaction`.

**`Genesis`** - the constructors of `PyEVMBackend` as operators: which keys are
derived, which genesis state and parameters result. A key is known by its
mnemonic, path and index. `merge_genesis_overrides` and the like return the set
of their results, empty when the code raises.

**`AccountState`** - what callers see of accounts, on both backends: the list of
accounts, passwords and locks, and on `PyEVMBackend` nonces, balances and base
fees at every block. `canonical` is py-evm's table from numbers to canonical
blocks, and `block` the pending one; a revert leaves abandoned blocks in the table
above the new head, which the lookup by number has to hide and which
`estimate_gas` does not hide.

| Action or operator | Call |
|---|---|
| `SendTransaction` | `send_transaction` of the backend, from a listed and unlocked account, after `_normalize_transaction` filled in nonce and fees |
| `SendSignedTransaction` | `send_raw_transaction` and `send_signed_transaction` of the backend: any account that can sign, listed and unlocked or not |
| `MineBlock` | one block of `mine_blocks` |
| `ApplyWithdrawals` | `apply_withdrawals`, on the pending block as it is: the state, nonces and gas of pending transactions go into the new block, which does not list them |
| `TakeSnapshot`, `RevertToSnapshot`, `ResetToGenesis` | the same, on either backend |
| `AddAccount`, `UnlockAccount`, `LockAccount` | the same; an unlock without its deadline, which `TesterAccounts` has |
| `get_nonce`, `get_balance`, `get_base_fee`, `get_fee_history`, `call`, `estimate_gas` | the same: the set of their answers, empty for `BlockNotFound`; the last two say only whether they answer or raise, and with what |

A call of the facade is one or more of these: sending with auto-mining is
`SendTransaction` and `MineBlock`, sending to the pool is `TakeSnapshot`,
`SendTransaction` and a revert. A block keeps two records of its transactions:
`senders`, which it lists, and `used`, which its state has run. Withdrawals make
them differ. `MCAccounts` remembers with each snapshot what the reading calls
answered, and lets every constructor make the first chain; its constants `Counts`,
`Mnemonics`, `Paths`, `Overrides` and `Forks` are the arguments that constructors
are called with.

**`Inbound`** - `validation/inbound.py` and `normalization/inbound.py` as operators
on Python values: a validator returns the exception it raises or `Ok`, a
normalizer the value. A text is known by what the code asks of it: is it
hexadecimal, does it have the prefix, how many digits, which number, which
checksum. A dictionary or a list has values for its items; topic arrays nest three
deep, and what nests deeper is refused, where the code would go on.

**`InboundCalls`** - a caller hands in one argument, or one pair of topics, or sends
transactions through the pool: `Inbound`, `LogMatch` and `TransactionTypes` under
one specification, with the properties of all three. `Arguments` gives the values
for each method; `MCInbound` lists some on both sides of every bound.

**`TransactionTypes`** - the way of one transaction through the pool: a
dictionary is a function whose values only say where a value came from (the
user, a default when sent, a default when popped). All validators, defaults,
serializers and clean-ups that decide which *keys* exist are operators; a
transaction survives when the second signing input is the first one.

Operators and actions whose comment begins with "A wrong ..." are used by no
specification. Each is a plausible bug of the code, and the property it is paired
with under `mutants` in `PROJECT.json` fails when it takes the place of the right
definition.

## 3. The runs

All bounds are CONSTANTs of the `.cfg` files and guards of the actions:
`MaxBlocks` blocks ever mined, `MaxSnapshots` snapshot ids, `MaxFilters` filter
ids, `MaxValues` items in a filter beyond which no pop fails any more,
`BlockCapacity` transactions per block; `MaxTime`, `MaxSent`, `MaxObjects` for the
mock backend; `MaxSent` transactions and `MaxBlocks` blocks between two resets in
`PyEVMAnswers`. No symmetry is used.

| Run | Distinct states | Question |
|---|---|---|
| `pool` | 692 000 | Do pool, chain and accounts agree? Two senders, one with a password, `TypeOK`, `NonceUsedOnce`, `PoolUniqueNonce`, `PoolKeepsTransactions`, `AddedAccountsStartLocked`. |
| `filters` | 448 000 | Do filters follow the chain? `BlockFiltersFollowChain`, `TxFiltersKnown`, `LogFiltersKnown`, `UnreadIsSuffix`, `FiltersForgetOnlyInvalid`, `RepeatsOnlyPooled`, `MiningFeedsBlockFilters`. |
| `ranges` | 1 148 000 | Do `get_logs` and log filters see exactly the blocks of their range, for callers that revert to no snapshot and travel in time over empty pending blocks only? `GetLogsExact`, `LogFiltersAgreeWithScan`. |
| `mock` | 2 447 000 | Does the mock backend implement `ChainBackend`, and are its answers and base fees right? `IsChainBackend`, `BlocksFollowParents` (numbers and base fees), `TransactionsHaveReceipts`, `MockAnswersReturned`, `MockTypeOK`. |
| `answers` | 277 500 | Can everything that was sent and mined be asked for, and do the answers agree? `AnswersReturned`, `AnswersAgree`, `GasAddsUp`. |
| `accounts` | 375 000 | Do nonces, balances, fees, accounts and passwords agree, also after reverts, withdrawals and resets, whatever constructor made the chain? `AccountsTypeOK`, `GenesisConsistent`, `NoncesCountTransactions`, `PriorityOnlyRuns`, `FeeHistoryFollowsGas`, `CallsAgreeWithEstimates`, `PasswordsBelongToListed`, `OnlyReaddedStartUnlocked`, `RevertRestoresAnswers`, `MinedAnswersStay`. |
| `inbound` | 15 000 | Is every accepted argument usable and canonical, and every other one refused as documented? Arguments: `AcceptedIsCanonical`, `RefusedWithValidationError`, `WrongChecksumRefused`, `LogEntriesSurviveFacade`. Filters: `AcceptedFilterMatches`, `TopicsMatchPositionwise`. Keys of pooled transactions: `PooledCanBeMined`, `PendingTypeReported`. |

Why the bounds are enough. In `pool` three transactions give a dependent pair
(nonces 0 and 1 of bob) and an independent one, a block holds two of the three, so
that a pop can fail for a nonce, a lock or a full block after zero, one or two
successes; three snapshots allow a transaction sent to the pool before, between
and after two explicit snapshots. In `filters` two transactions share a nonce
(replacement) and one follows; two snapshots are what reverting back and then
forward to the abandoned fork needs; mining 0, 1 and 2 blocks at a time; one
filter of any kind, which is enough because filters never read each other. In
`ranges` ranges start at `"earliest"` or start and end before, on and after the
blocks that exist and may be empty (from 2 to 1), and blocks have up to two
transactions. It checks `SpecForward`, because a revert may leave a log filter
with other entries than a scan finds (`stale_logs`) and `time_travel` tells the
filters nothing; the snapshots that sending without auto-mining takes and reverts
to are all there, and with them pools, failed pops and what `mine_blocks(0)`
leaves in the pending block. In `mock` two snapshots and four dictionary objects
let a snapshot be taken, changed, reverted to and taken again; a legacy, an access
list and a dynamic fee transaction are sent, at most two to a block, so that a
block uses less gas than the target, exactly the target, or more. The gas limit of
42000 puts the target at one transaction, and the genesis fee of 8 wei makes the
next fees 7 and 8, on both sides of the point where the smallest rise of 1 begins
to matter. In `answers` three transactions fill a mined and a pending block, so that one
is first, in the middle or last in its block, with different gas each; all forks
and types occur, with one log entry for a successful transaction. In `accounts`
gas is counted in transactions, two of which fill a block, so that base fees fall,
stay and rise; fees start at 16, where an eighth is a whole number and a rise
leaves `DefaultFee` behind; `DefaultQuantity` is 1 and stands for the ten default
accounts. Constructors are called with and without mnemonic, path, genesis state
and parameters, with overrides that leave the balance alone, take it away or name
an unknown field, for zero to two accounts, on a fork before and at the merge and
on the default one, after it; chains made with arguments are looked at and then
reset. Two snapshots are what going back, mining another block over an abandoned
one and going forward again needs; once an account was added TLC stops at one
(`FewSnapshots`, a constraint of the configuration that no theorem knows of): what
a revert does to added accounts does not depend on a second. In `inbound` a log
entry has up to three topics and a filter two positions of wildcards, topics and
lists of them; pooled transactions try every subset of the twelve optional keys;
arguments are texts, numbers and bytes on both sides of each bound that a
validator knows, and every other kind of value at every key.

`CHECK_DEADLOCK FALSE` is set for `inbound` only, whose module evaluates one
choice of inputs and stops.

### Disagreements between the code and what is said of it

Five runs check one property that a document or test states and the code breaks;
`findings` in `PROJECT.json` quotes the sentences.

| Run | What happens |
|---|---|
| `stale_logs` | `_revert_log_filter` keeps an entry whose *transaction* can be looked up, though the *block* it names is gone: send to the pool, poll or mine, revert. |
| `mock_reuse` | The mock backend's snapshot is not copied on revert: reverting to it a second time returns to what was done since the first. |
| `full_blocks` | A block that holds transactions of two types cannot be returned with `full_transactions`: the validator wants the whole list to be of one type. The run has the chain on Cancun and stops at a legacy and an access list transaction. |
| `fee_history` | `get_fee_history` starts with the parent of `newest_block` instead of `newest_block` itself (`README.md:522`). |
| `types_eip155` | A replay-protected legacy raw transaction with `v` above 255 enters the pool and makes every later `mine_blocks` raise. The number 2709 in the configuration stands for the `v` of the tester's own chain id, which exceeds TLC's integers. |

Others are named as the exception of a property that a passing run checks:

* without auto-mining, a pending-transaction filter that is polled between sending and
  mining reports the transaction twice (`README.md:627`): `RepeatsOnlyPooled` says that
  nothing else is repeated, and has the pool as its exception;
* `time_travel` mines a block that is added to no filter (`README.md:531`):
  `MiningFeedsBlockFilters`;
* `get_logs(from_block="earliest")` scans from block 0 (`README.md:126`) and then lets
  no mined entry through, since "earliest" only matches pending ones: `GetLogsExact`;
* `MockBackend.revert_to_snapshot` drops accounts whose passwords the facade keeps, and
  one that was unlocked is unlocked when it is added again: `OnlyReaddedStartUnlocked`;
* the checksum of a single filter address is left to the normalizer, which raises
  `TypeError`; topics nested twice and the ranges `"safe"` and `"finalized"`
  (`README.md:127-128`) are accepted and raise later: `AcceptedFilterMatches`;
* a raw transaction may have an odd number of digits, and nobody checks `chain_id`:
  `AcceptedIsCanonical`; the type `"0x"` and access list entries that are no
  dictionaries raise other exceptions than `ValidationError`:
  `RefusedWithValidationError`.

Smaller ones that were met on the way and that no property states:
`mine_blocks(0)` moves the pool into the pending block and mines nothing, and the
revert of the next send without auto-mining drops that block with the transactions
in it; `apply_withdrawals` over transactions in the pending block mines their
state and lists none of them, so that they are found nowhere and the nonces they
used stay used (`NoncesCountTransactions` counts them); the block it mines reaches
no filter, like that of `time_travel`; `enable_auto_mine_transactions` raises on a
transaction it cannot pop with auto-mining already on and the ones before it left
in the pending block, so that the next block has two transactions although
`README.md:198` says at most one; after a failed pop a transaction may be mined
and still be reported as pending, because `get_transaction_by_hash` asks the pool
first; the mock backend returns the pending block for its number
(`backends/mock/main.py:176`, against `CHANGELOG.rst:194`); a blob transaction in
the pool is reported with type `0x2`. That is why pooled transactions of `inbound`
leave type 3 out.

About accounts and fees: `PyEVMBackend.reset_to_genesis` forgets the genesis, the
mnemonic and the fork it was made with, `MockBackend` keeps its genesis;
`get_fee_history` lists the nearest block first and answers a constant
`oldest_block`; a transaction without any fee gets 1 gwei, the genesis base fee,
and stops working as soon as the base fee rises; the default gas of `call` on an
old block is what the *pending* block has left, so that a full one makes it raise;
a second transaction without a nonce in the same pending block has the nonce of
the first.

## 4. The proofs

All theorems hold for every value of the constants that the modules' assumptions
allow: any accounts, transactions, ranges, gas limits, fees, and any bounds. A
`<module>_proofs` module extends the module it is about. Each theorem follows one
pattern: an invariant that `Init` establishes and every action of `Next`
preserves, one step per action, and from it the property that a run checks.

### Facade

`Filter_proofs` has the lemmas about sequences and filters: what `Without` keeps
and in which order, how it distributes over `\o`, the elements of concatenations,
types of `Add`, `Remove`, `Retain` and their dictionary versions. The
concatenation is a recursive function, about which the lemmas argue by a bounded
induction over sets of numbers that is proved in the module (`UpToInduction`): the
library's induction theorems take an operator argument, which the available
provers cannot instantiate.

`EthereumTester_proofs`, about the pool, what filters report, and the chain:

* `TypeCorrect` - `Spec => []TypeOK`, on which everything else rests.
* `PoolHasOnePerNonce` - inductive by itself: the only action that adds to the
  pool removes every match first.
* `FiltersKnownInvariant`, `TxFiltersReportKnown`, `LogFiltersReportKnown` -
  what pending-transaction and log filters report can be looked up. A call that
  mines or pops only *adds* to what can be looked up (`KnownTxs` over chain,
  pending block and pool); a call that reverts takes things away, and then cleans
  with exactly what is left. `SendToPool` needs the order of the two: the pool is
  updated first.
* `NoncesUsedOnce` - from `NonceInv`: in the chain with its pending block, in the
  chain, and *in every snapshot*, the transactions of a sender have the nonces
  0, 1, 2, ... without gaps. "No nonce twice" alone is not inductive: that the
  next nonce is new follows only if a sender's nonces are those below the number
  of its transactions. A snapshot needs it because a revert makes it the chain.
* `PoolTransactionsKept` - an action property: a transaction leaves the pool only
  into the pending block or the chain, or replaced, whichever call fails half way.
* `AddedAccountsLocked` - an action property.
* `GetLogsComplete` - `get_logs` answers exactly the entries of its range, and nothing
  if the range starts at `"earliest"`.

`TesterFilters_proofs`:

* `PollingInOrder` - the queue of a filter is a suffix of its values
  (`UnreadInv`), so polling goes through the values in order. That no value is
  there twice is not said, and not true. The hard case is a revert, which filters
  both: `Without` distributes over concatenation, so that a suffix stays one.
* `OnlyPooledIsRepeated` - an action property: a pending-transaction filter gets again
  only what was in the pool. `WhatAppliesIsNew` is the reason, from `NonceInv`: what
  runs now is in no block, so a filter that has it knows it from the pool, because
  filters hold only what can be looked up (`FiltersKnown`).
* `FollowInvariant`, `BlockFiltersFollow` - ids of blocks ascend along the chain
  and along every snapshot and are below `nextId`, and a block filter's values
  ascend and are on the chain. The order of the ids is what makes it inductive: a
  revert forward to an abandoned fork may bring back blocks that a filter has
  lost, but never puts a lower one after a higher one.
* `MiningIsAnnounced`, `FiltersRemember` - action properties: what is mined
  reaches every block filter (`time_travel` is the exception the property states),
  and a call makes a block filter or a pending-transaction filter forget only what
  can no longer be found. The latter needs `CounterInvariant`: an id that was
  given out is below the counter, so that creating a filter never replaces one.
* `LogFiltersMatchScan` - a log filter with a numbered `from_block` holds exactly
  what a scan of the chain finds, in every behaviour of `SpecForward`: every call but
  `revert_to_snapshot`, and `time_travel` only over an empty pending block. The
  snapshots that sending takes and reverts to are among its steps, and so are pools,
  failed pops and the pending blocks they leave. The invariant says that a filter
  holds what the chain *and the pending block* have in its range. Both conditions are
  needed: with reverts the property is false, as the run `stale_logs` shows, and
  `time_travel` mines a left-over pending block without telling the filters.

### Accounts and fees

`AccountState_proofs`, about `Spec` of `AccountState`:

* `InductiveInvariant` - `AccountsInv /\ ChainInv`. The type invariant is not
  inductive and says nothing that a transaction could use, so `ChainInv` adds that
  the pending block `Follows` the latest one: its number is the next, its fee the
  one that follows from the gas, and an account's nonce in it is at least that in the
  latest block, and equal iff none of the account's transactions is in it.
  `AccountsInv` adds that only known accounts are unlocked and that snapshots hold
  whole chains.
* `AccountsTypeCorrect`, `PasswordsStayListed`, `AddedStartLocked`.
* `PriorityOnlyAlwaysRuns` - by `NextFeeBounds`, a base fee at most doubles from
  block to block, so the default of twice the latest one is enough.
* `FeeHistoryAlwaysFollows` - a history has the fees of the blocks before
  `newest_block`, which it leaves out (see the run `fee_history`), nearest first,
  and each follows from the gas reported of the one before: by `FeesInv`: below
  the head, and in every snapshot, each block's fee follows from the block before.
  Above the head it need not: what a revert leaves there is no continuation of
  what is mined next, and the proof rests on the lookup that hides it.
* `CallsAlwaysAgree` - `call` and `estimate_gas` find a block in different places,
  the first through the lookup that hides what is above the head, the second in the
  table that still has it. They agree because the latter's table is the former's
  up to the head, which `ChainInv` gives.
* `NoncesAlwaysCount` - by `NoncesInv`: in the chain up to the head and *in every
  snapshot*, an account's nonce at a block is its nonce in the genesis block plus
  the number of its transactions that the blocks up to that one have run. Those
  are more than the blocks list: `apply_withdrawals` takes over the state of the
  pending transactions and lists none, which `used` counts and `senders` does not.

and about `MCSpec` of `MCAccounts`, which remembers answers and constructors:

* `RevertAlwaysRestores` - by `SeenInv`: what was remembered at a snapshot are the
  answers on the chain that the snapshot keeps. The link between state and answers is
  the lemma `AnswersAlwaysFit`: every reading call answers from the blocks up to the
  head and from nothing above it. Without that part the property would be false,
  because a revert leaves the abandoned blocks where they are.
* `MinedAnswersAlwaysStay` - an action property, from the same lemma: a step that
  goes on with the chain leaves the blocks below the old head alone.
* `GenesisAlwaysConsistent` - by `GenesisInv`: the accounts nobody added, the
  state of the first block *of the chain and of every snapshot*, fork and
  parameters are those that the constructor made, until a reset makes them those
  of a constructor without arguments. Then it is a fact about the constructors,
  for any sets of numbers, mnemonics, paths, overrides and forks: the keys they
  derive are those that the genesis state funds exactly when the caller gave no
  state, or one made for the same keys whose overrides leave them money; and the
  parameters fit the fork unless the caller gave those of proof of stake to a fork
  from before the merge.

### Arguments

`InboundCalls_proofs`. The first two are about `Spec` of `TransactionTypes`:

* from `PoolInv` - what is pending is the stored form of a transaction that py-evm
  could create - follow `PoolCanBeMined` (what entered the pool is accepted when it
  is popped and signs the same) and `PendingTypeAlwaysReported`. Both assume that
  raw transactions have types 0 to 2 and a `v` of at most 8 bits. A larger `v`
  breaks the first, as the run `types_eip155` shows; a pending blob transaction is
  reported as type 2.

The others are about `InboundSpec`, for *any* set of Python values and any
arguments made of them (`ArePythonValues`), where the run `inbound` has a few
thousand. The invariant is small, `ArgumentInv`: what is at hand is one of the
arguments. The work is in the operators. A validator is a chain of checks that ends
at the first exception, and `EachFirst` and `MappedFirst` say which one that is, for
lists of any length.

* `RefusedAlwaysWithValidationError` - check by check, each evaluated only where the
  earlier ones passed: that a check of a value's length or digits does not stumble
  over a value without them is exactly what the order of the checks is for.
* `AcceptedAlwaysCanonical` - validator and normalizer are different code about the
  same value. Key by key, what the first accepts the second converts without raising,
  and the two exceptions are exact: there the result is *not* canonical.
* `AcceptedFilterAlwaysMatches` - three components in a row: the validator accepts,
  the normalizer converts, `check_if_log_matches` recognizes. `BlockAccepted`,
  `AddressRecognizedUnlessWrong` and `TopicsAccepted` give, for each part of a
  filter, the exact condition under which the last two go through.
* `WrongChecksumAlwaysRefused`.
* `TopicsAlwaysPositionwise` - trying every combination of alternatives comes to
  looking at each position by itself, for filters and entries of any length. From an
  accepting alternative at each position `CHOOSE` builds the combination that
  matches.
* `LogEntriesAlwaysSurvive` - the outbound and the inbound normalizers of a log entry
  are inverse on what a backend says, with any number of topics.

### Mock backend

`MockHistory_proofs` is about `SpecOnce`: callers revert to no snapshot twice.
`handle_auto_mining` uses each of its snapshots once; a caller of the facade's
`revert_to_snapshot` may do otherwise. `HistoryInvariant` is `HistoryInv`:

* `HeapTypeOK` - all references lead to objects of their type;
* `OwnObjects` - no snapshot that was not reverted to shares an object with the
  current state or with another snapshot. This is the reason why anything holds:
  the code changes lists and dictionaries in place;
* `SnapshotsKept` - so the objects of such a snapshot are as they were taken;
* `CurrentFits` - the blocks have the numbers and the fees that follow from one
  another, and the receipts are those of their transactions.

From it follow `MockTypes`, `BlocksAlwaysFollow`, `ReceiptsAreKept`,
and the refinement `MockImplementsChain`: `SpecOnce` implements
`ChainBackend!Spec`, under the mapping from references to the objects they lead
to, each action to the one of its name or to a stutter. Without the restriction to
`SpecOnce` a second revert brings back a changed object; the run `mock_reuse` is
the counterexample.

`MockAnswersAlwaysReturned` adds the dictionaries: whatever optional keys a
transaction was sent with, it and its receipt pass the validators of exactly one type,
pending or mined, and so does every block.

### Answers of PyEVMBackend

`Outbound_proofs` has the lemmas both backends share: the keys and the checks of
every dictionary of validators and normalizers, written out once, and that a
dictionary put together with `++` passes if its parts do.

`PyEVMAnswers_proofs`: `AnswersInvariant` says that every hash given out is that of
a transaction in some block, and that a transaction's index is below its hash. The
second half bounds the search, which the model writes as a choice among the places
up to `MaxSent`: without it the search might not look where the transaction is.

* `AnswersAlwaysAgree` - a transaction, its receipt and its log entries name one
  place, and the block lists the transaction there.
* `AnswersAlwaysReturned` - no lookup of a transaction, a receipt, its log entries or
  a block with hashes raises about what exists: part by part of each serializer, for
  each of the four types, and for the blocks of each fork, whose validators differ in
  the fields they require. A block with full transactions is returned exactly when
  its transactions have one type; that it may have several is the run `full_blocks`.
* `GasAlwaysAddsUp` - the gas of the receipts of a block sums up to its cumulative
  gas. The sums are a recursive function over a block of any length; that there is
  such a function (`PartialSumsExist`) is a bounded induction of its own.

### Assumptions

Each in the module that declares the constants, each evaluated by TLC:

* `ChainAssumption`, `PasswordAssumption`, `TesterAssumption`, both
  `FeeAssumption`s, both `BoundsAssumption`s, `QuantityAssumption`,
  `AccountsAssumption`, `RawAssumption`, `AnswersAssumption`: constants have their
  types, the gas limit is even and positive (for the mock backend at least 2), and
  genesis states map keys to balances and nonces;
* `SentinelAssumption`, `WildcardAssumption`, `TagsAssumption`: Python's `None` and
  the block tags are no numbers, topics or addresses, and neither `"pending"` nor
  `"earliest"` is another tag;
* `GenesesAssumption`: the chains that `AccountState` may begin with include those
  that the constructors make;
* `SentAssumption`: a transaction of the mock backend has keys that the inbound
  validator lets through, and no gas price next to the dynamic fees;
* `ArgumentsAssumption` of `MCAccounts`: constructors may be called without
  arguments, numbers of accounts are natural, and an overridden balance is one;
* `LogsAssumption`, `ValuesAssumption`, `ArgumentsAssumption` of `InboundCalls`:
  topics are sequences of topics and wildcards; a value has the attributes of its
  kind; arguments are values, the topics of a filter nest at most three deep, and
  log entries are what `serialize_log` of a backend writes.

The conditions of the two theorems about pooled transactions are hypotheses of those
theorems. They hold in `inbound` and fail in `types_eip155`.

### Only model-checked

Every property of a passing run is stated by a theorem about the specification of
that run or, as with `LogFiltersAgreeWithScan` and `SpecForward`, under the same
restriction. What the theorems leave to TLC:

* the mock backend's properties for callers that revert to one snapshot twice: the
  run `mock_reuse` shows that they fail;
* that the operators mean what the Python code does. The prover knows nothing of
  that, and neither does TLC, except that each property has a wrong definition under
  `mutants` that breaks it.

What a recursive definition computes for every input is an induction over data, for
which the available provers cannot use the library's theorems. The modules are
written around it: a fold became a recursive function, about which a bounded induction
over sets of numbers is proved where it is needed (`UpToInduction` in `Filter_proofs`,
`PartialSumsExist`); `is_valid_topic_array`, the one recursive predicate of the code,
is unrolled to a depth of three, which is one more than any filter that can be used.
Dictionaries are merged with `++` of `Outbound` instead of `@@` of the module `TLC`,
because the prover knows no definition of the latter. Liveness and `ENABLED` do not
occur.

## 5. What is not modelled

* Execution itself: code and storage of contracts, the amounts of gas and of
  money, the errors execution raises. That is py-evm's work, external to the
  repository; the modules have its guards (nonce, fee, room, an empty account)
  and its effect on nonces. A balance is zero or not, and a transaction does not
  change which.
* Hexadecimal text, signatures and key derivation: a text is known by what the
  validators ask of it, a key by what it is derived from.
* Outbound checks of single values (a balance, a nonce, a byte string), and what
  the outbound normalizers write.
* Feeding log filters on `"safe"` and `"finalized"`: the outcome for one entry is in
  `inbound`, the state of the facade after the exception is not modelled.
* `apply_withdrawals` together with the facade's filters and pool: it is an action of
  `AccountState`; the facade never hears of its block.
* The hashes and indices of `MockBackend`'s transactions, and `make_log`, which
  nothing calls.
* Log entries beyond one per transaction, blob transactions in the pool, the
  withdrawals field of a block.
* Loading of backends by name, the test suite and its contracts: imports and tests,
  with no state of their own.

## 6. Plan

Done: `Filter`, `PyEVMChain`, `TesterAccounts`, `BlockRange`, `EthereumTester`
with its properties and the first theorems; then `LogMatch`, `ChainBackend` with
`MockBackend`, `TransactionTypes`; then `Outbound` with `PyEVMAnswers` and
`MockAnswers`; then `Inbound`, `Genesis` and `AccountState` with its theorems; then
the theorems about the facade's chain and filters, the pooled transactions, the mock
backend and its refinement, and the agreement of answers; then those about remembered
answers, nonces, constructors, the outbound checks of both backends, and arguments of
any shape.

Next, in this order:

1. Raising while feeding: `"safe"` and `"finalized"` ranges, which make
   `send_transaction` and `mine_blocks` raise after the chain changed.
2. `apply_withdrawals` as an action of `EthereumTester` next to `TimeTravel`.
3. The facade over `MockBackend`: nonces that are always 0, hashes equal for equal
   content; transaction indices of the mock backend.
4. A theorem that relates `TransactionTypes` and `Inbound`: the keys of the first are
   those of the second, the values are not yet.

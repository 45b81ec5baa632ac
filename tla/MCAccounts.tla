----------------------------- MODULE MCAccounts -----------------------------
(***************************************************************************)
(* AccountState on small instances: MockBackend, PyEVMBackend as it is     *)
(* built without arguments, and PyEVMBackend as the other constructors     *)
(* build it, which is looked at and reset.                                 *)
(***************************************************************************)
EXTENDS AccountState

CONSTANTS
    Counts, Mnemonics, Paths, Overrides, Forks      \* arguments of constructors

ASSUME ArgumentsAssumption ==
    /\ Counts \subseteq Nat /\ 0 \in Counts
    /\ "none" \in Mnemonics /\ "none" \in Paths /\ "none" \in Forks
    /\ << >> \in Overrides
    /\ \A overrides \in Overrides :
          "balance" \in DOMAIN overrides => overrides["balance"] \in {0, 1}

VARIABLES
    arguments,          \* of the constructor
    seen                \* what the reading calls answered at each snapshot

(* state: genesis_state is None, {}, generate_genesis_state for the default*)
(* keys or for those of the mnemonic; or from_mnemonic is called.  The     *)
(* overrides are those of generate_genesis_state and from_mnemonic.        *)
NoArguments == [state |-> "none", num |-> 0, mnemonic |-> "none",
                hd_path |-> "none", overrides |-> << >>,
                fork |-> "none", params |-> "none"]
Arguments ==
    [state : {"none", "empty", "default keys", "same keys", "from_mnemonic"},
     num : Counts, mnemonic : Mnemonics, hd_path : Paths, overrides : Overrides,
     fork : Forks, params : {"none", "default"}]

GenesisParameters(a) ==
    IF a.params = "none" THEN {Omitted}
    ELSE { Given(p) : p \in get_default_genesis_params(<< >>) }

GenesisStates(a) ==
    CASE a.state = "none" -> {Omitted}
      [] a.state = "empty" -> {Given(<< >>)}
      [] a.state = "default keys" ->
            { Given(state) : state \in
                generate_genesis_state(a.overrides, a.num, "none", "none") }
      [] a.state = "same keys" ->
            { Given(state) : state \in
                generate_genesis_state(a.overrides, a.num, a.mnemonic, a.hd_path) }

Made(a) ==
    UNION { IF a.state = "from_mnemonic"
            THEN from_mnemonic(a.mnemonic, a.overrides, a.num, p, a.fork, a.hd_path)
            ELSE UNION { PyEVMBackend(p, state, a.fork, a.mnemonic, a.hd_path) :
                            state \in GenesisStates(a) } :
            p \in GenesisParameters(a) }

AddedAccounts == {Key("none", "none", DefaultQuantity + 1)}
MockDefaults == <<Key("mock", "none", 0)>>

NoOverrides == {<< >>}

(* None, no money, and a field that accounts do not have.                  *)
SomeOverrides == {<< >>, [balance |-> 0], [gato |-> 1]}

AllGeneses == UNION { Made(a) : a \in Arguments }

ASSUME GenesesAssumption == AllGeneses \subseteq Geneses

(* What the reading calls answer about block n.                            *)
AnswersAt(n) ==
    LET accounts == ToSet(get_default_account_keys(0)) \cup Added
    IN  << [a \in accounts |-> <<get_nonce(a, n), get_balance(a, n)>>],
           get_base_fee(n), get_fee_history(MaxBlocks, n) >>
Answers == [n \in Numbers |-> AnswersAt(n)]

MCInit ==
    /\ InitLocal
    /\ seen = << >>
    /\ arguments \in Arguments
    /\ \/ \E genesis \in Made(arguments) : InitPyEVM(genesis)
       \/ arguments = NoArguments /\ InitMock

MCNext ==
    \/ /\ arguments = NoArguments /\ Next /\ UNCHANGED arguments
       /\ seen' = CASE Len(snapshots') > Len(snapshots) -> Append(seen, Answers)
                    [] snapshots' = << >> -> << >>
                    [] OTHER -> seen
    \/ ResetToGenesis /\ arguments' = NoArguments /\ seen' = << >>

MCSpec == MCInit /\ [][MCNext]_<<vars, arguments, seen>>

(* TLC takes a second snapshot only while no account was added.            *)
FewSnapshots == Len(snapshots) <= 1 \/ passwords = << >>

-----------------------------------------------------------------------------
LeavesMoney(overrides) ==
    "balance" \in DOMAIN overrides => overrides["balance"] > 0

(* The accounts that PyEVMBackend lists, besides the added ones, are just  *)
(* those that its genesis state gives money, unless it was given a genesis *)
(* state that is empty, that is of other keys or whose overrides take the  *)
(* money: keys that are derived twice, from number, mnemonic and path, are *)
(* the same.  (setup_tester_chain, from_mnemonic, generate_genesis_state,  *)
(* reset_to_genesis)                                                       *)
ListedAreFunded ==
    OnPyEVM =>
        ((Listed \ DOMAIN passwords
              = { a \in DOMAIN canonical[1].state : canonical[1].state[a].balance > 0 })
          <=> \/ arguments.state = "none"
              \/ /\ LeavesMoney(arguments.overrides)
                 /\ \/ arguments.state \in {"same keys", "from_mnemonic"}
                    \/ arguments.state = "default keys" /\ arguments.mnemonic = "none")

(* A chain that starts after the merge has the parameters of proof of      *)
(* stake and an older one has not, unless the caller gave parameters of    *)
(* the wrong kind.  (setup_tester_chain, get_default_genesis_params)       *)
GenesisFitsFork ==
    OnPyEVM =>
        \/ params.difficulty = "post-merge" <=> fork \in PostMergeForks
        \/ arguments.params = "default" /\ fork \notin PostMergeForks

(* Whatever constructor or reset made it, the genesis of a chain suits its *)
(* accounts and its fork.  (PyEVMBackend, from_mnemonic, reset_to_genesis) *)
GenesisConsistent == ListedAreFunded /\ GenesisFitsFork

(* Reverting to a snapshot, backwards, forwards or for the second time,    *)
(* brings back every answer about a mined block that was given when it was *)
(* taken, and the next transaction starts from the latest block's state.   *)
(* (revert_to_snapshot, take_snapshot)                                     *)
RevertRestoresAnswers ==
    [][ \A s \in DOMAIN snapshots : RevertToSnapshot(s) /\ OnPyEVM =>
          /\ Answers' = seen[s]
          /\ \A a \in Listed :
                /\ get_nonce(a, Pending)' = get_nonce(a, Latest)'
                /\ get_balance(a, Pending)' = get_balance(a, Latest)'
      ]_<<vars, arguments, seen>>

(* Nothing but a revert or a reset changes an answer about a mined block:  *)
(* not sending, not mining, and no withdrawal.  (mine_blocks,              *)
(* apply_withdrawals, send_transaction)                                    *)
MinedAnswersStay ==
    [][ OnPyEVM =>
          \/ \A n \in 0..block.number - 1 : AnswersAt(n)' = AnswersAt(n)
          \/ \E s \in DOMAIN snapshots : RevertToSnapshot(s)
          \/ ResetToGenesis
      ]_<<vars, arguments, seen>>
=============================================================================

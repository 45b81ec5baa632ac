------------------------------ MODULE Genesis -------------------------------
(***************************************************************************)
(* The genesis of PyEVMBackend (backends/pyevm/main.py): which accounts it *)
(* lists, which state it gives them, and which parameters its first block  *)
(* has.                                                                    *)
(*                                                                         *)
(* An account is the key it comes from: [mnemonic, path, index], where the *)
(* default keys have the mnemonic "none".  An account's state says whether *)
(* it has money (balance) and its nonce.  None and 0 are the same for      *)
(* "quantity or 10", so 0 stands for both; so does "none" for None and "". *)
(***************************************************************************)
EXTENDS Naturals, Sequences, FiniteSets, SequencesExt

CONSTANT DefaultQuantity        \* 10 accounts

ASSUME QuantityAssumption == DefaultQuantity \in Nat \ {0}

Keys == [mnemonic : STRING, path : STRING, index : Nat]
DefaultPath == "m/44'/60'/0'"
Key(mnemonic, path, index) ==
    [mnemonic |-> mnemonic, path |-> path, index |-> index]

OrDefault(quantity) == IF quantity = 0 THEN DefaultQuantity ELSE quantity

get_default_account_keys(quantity) ==
    [i \in 1..OrDefault(quantity) |-> Key("none", "none", i)]

get_account_keys_from_mnemonic(mnemonic, quantity, hd_path) ==
    LET path == IF hd_path = "none" THEN DefaultPath ELSE hd_path
    IN  [i \in 1..OrDefault(quantity) |-> Key(mnemonic, path, i - 1)]

AccountKeys(mnemonic, quantity, hd_path) ==
    IF mnemonic = "none" THEN get_default_account_keys(quantity)
    ELSE get_account_keys_from_mnemonic(mnemonic, quantity, hd_path)

-----------------------------------------------------------------------------
(* The values that a dictionary with these overrides may have: none if     *)
(* ValueError is raised.                                                   *)
merge_genesis_overrides(defaults, overrides) ==
    IF DOMAIN overrides \subseteq DOMAIN defaults
    THEN { [ field \in DOMAIN defaults |->
               IF field \in DOMAIN overrides THEN overrides[field]
               ELSE defaults[field] ] }
    ELSE {}

get_default_account_state(overrides) ==
    merge_genesis_overrides([balance |-> 1, nonce |-> 0], overrides)

(* The genesis states for some keys.                                       *)
generate_genesis_state_for_keys(account_keys, overrides) ==
    { [account \in ToSet(account_keys) |-> state] :
        state \in get_default_account_state(overrides) }

generate_genesis_state(overrides, num_accounts, mnemonic, hd_path) ==
    generate_genesis_state_for_keys(
        AccountKeys(mnemonic, num_accounts, hd_path), overrides)

get_default_genesis_params(overrides) ==
    merge_genesis_overrides(
        [difficulty |-> "post-merge", mix_hash |-> "post-merge",
         nonce |-> "post-merge"], overrides)

-----------------------------------------------------------------------------
(* An argument that is None, or was passed.                                *)
Omitted == [given |-> FALSE]
Given(value) == [given |-> TRUE, value |-> value]

(* ParisVM and its subclasses.                                             *)
PostMergeForks == {"paris", "cancun"}
ShanghaiForks == {"cancun"}

PreMerge == [difficulty |-> "genesis", nonce |-> "genesis", mix_hash |-> "genesis"]

(* A wrong one takes every chain for a post-merge one.                     *)
AlwaysPostMerge(genesis_params, fork) ==
    IF genesis_params.given THEN {genesis_params.value}
    ELSE get_default_genesis_params(<< >>)

GenesisParams(genesis_params, fork) ==
    IF genesis_params.given THEN {genesis_params.value}
    ELSE get_default_genesis_params(IF fork \in PostMergeForks THEN << >>
                                    ELSE PreMerge)

ListedCount(genesis_state, num_accounts) ==
    IF genesis_state.given /\ DOMAIN genesis_state.value # {}
    THEN Cardinality(DOMAIN genesis_state.value) ELSE num_accounts

(* The account_keys and the chain of setup_tester_chain.                   *)
setup_tester_chain(genesis_params, genesis_state, num_accounts, vm, mnemonic, hd_path) ==
    LET fork == IF vm = "none" THEN "cancun" ELSE vm
        account_keys == AccountKeys(mnemonic,
                            ListedCount(genesis_state, num_accounts), hd_path)
        states == IF genesis_state.given THEN {genesis_state.value}
                  ELSE generate_genesis_state_for_keys(account_keys, << >>)
    IN  { [keys |-> account_keys, state |-> state, params |-> params, fork |-> fork] :
            state \in states, params \in GenesisParams(genesis_params, fork) }

(* PyEVMBackend() and reset_to_genesis() without arguments.                *)
DefaultChain == setup_tester_chain(Omitted, Omitted, 0, "none", "none", "none")

PyEVMBackend(genesis_params, genesis_state, vm, mnemonic, hd_path) ==
    LET accounts == IF genesis_state.given
                    THEN Cardinality(DOMAIN genesis_state.value) ELSE 0
    IN  setup_tester_chain(genesis_params, genesis_state, accounts,
                           vm, mnemonic, hd_path)

(* A wrong one does not hand the path on.                                  *)
FromMnemonicWithoutPath(mnemonic, overrides, num_accounts, genesis_params, vm, hd_path) ==
    UNION { PyEVMBackend(genesis_params, Given(state), vm,
                         mnemonic, "none") :
              state \in generate_genesis_state(overrides,
                            num_accounts, mnemonic, hd_path) }

from_mnemonic(mnemonic, overrides, num_accounts, genesis_params, vm, hd_path) ==
    UNION { PyEVMBackend(genesis_params, Given(state), vm,
                         mnemonic, hd_path) :
              state \in generate_genesis_state(overrides,
                            num_accounts, mnemonic, hd_path) }
=============================================================================

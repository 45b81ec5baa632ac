--------------------------- MODULE TesterAccounts ---------------------------
(***************************************************************************)
(* The accounts of EthereumTester (main.py): which accounts the backend    *)
(* can sign for, which of them were added with a password, and whether     *)
(* those are locked.  Genesis accounts have no entry in passwords.         *)
(*                                                                         *)
(* unlocked models _account_unlock, whose entries are False, None or a     *)
(* deadline: "no", "forever" and "until".  A deadline that has passed      *)
(* behaves like False (is_locked treats both the same), so Expire turns    *)
(* "until" into "no".                                                      *)
(***************************************************************************)
EXTENDS PyEVMChain, BlockRange

CONSTANT Passwords

ASSUME PasswordAssumption == None \notin Passwords

VARIABLES
    keys,           \* accounts whose private key the backend holds
    passwords,      \* added account |-> its password or None
    unlocked        \* account |-> "no", "until" or "forever"

accountVars == <<keys, passwords, unlocked>>

UnlockStates == {"no", "until", "forever"}

AccountsTypeOK ==
    /\ keys \subseteq Accounts
    /\ DOMAIN passwords \subseteq Accounts
    /\ \A account \in DOMAIN passwords :
          passwords[account] \in Passwords \cup {None}
    /\ unlocked \in [Accounts -> UnlockStates]

InitAccounts ==
    /\ keys = GenesisAccounts
    /\ passwords = [account \in {} |-> None]
    /\ unlocked = [account \in Accounts |-> "no"]

HasPassword(account) ==
    account \in DOMAIN passwords /\ passwords[account] # None

(***************************************************************************)
(* The lock check of _add_transaction_to_pending_block.                    *)
(***************************************************************************)
IsLocked(account) == HasPassword(account) /\ unlocked[account] = "no"

-----------------------------------------------------------------------------
(* add_account: refused for an account that is already present.  A stale   *)
(* entry of _account_unlock is not touched.                                *)
AddAccount(account, password) ==
    /\ account \notin keys
    /\ keys' = keys \cup {account}
    /\ passwords' = With(passwords, account, password)
    /\ UNCHANGED unlocked

(* unlock_account with unlock_seconds (mode "until") or without.           *)
UnlockAccount(account, password, mode) ==
    /\ HasPassword(account)
    /\ password = passwords[account]
    /\ unlocked' = [unlocked EXCEPT ![account] = mode]
    /\ UNCHANGED <<keys, passwords>>

(* A wrong lock_account, which deletes the entry instead.                  *)
LockAccountDeletes(account) ==
    /\ HasPassword(account)
    /\ unlocked' = Minus(unlocked, account)
    /\ UNCHANGED <<keys, passwords>>

LockAccount(account) ==
    /\ HasPassword(account)
    /\ unlocked' = [unlocked EXCEPT ![account] = "no"]
    /\ UNCHANGED <<keys, passwords>>

(* time.time() moves past the deadline of an unlocked account.             *)
Expire(account) ==
    /\ unlocked[account] = "until"
    /\ unlocked' = [unlocked EXCEPT ![account] = "no"]
    /\ UNCHANGED <<keys, passwords>>

(* A wrong reset, which leaves _account_unlock alone.                      *)
ResetAccountsKeepsUnlocks ==
    /\ keys' = GenesisAccounts
    /\ passwords' = [account \in {} |-> None]
    /\ UNCHANGED unlocked

(* The account half of reset_to_genesis.                                   *)
ResetAccounts ==
    /\ keys' = GenesisAccounts
    /\ passwords' = [account \in {} |-> None]
    /\ unlocked' = [account \in Accounts |-> "no"]

NextAccounts ==
    \E account \in Accounts :
        \/ \E password \in Passwords \cup {None} : AddAccount(account, password)
        \/ \E password \in Passwords, mode \in {"until", "forever"} :
              UnlockAccount(account, password, mode)
        \/ LockAccount(account)
        \/ Expire(account)
=============================================================================

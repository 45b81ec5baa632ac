------------------------------ MODULE MCTester ------------------------------
(***************************************************************************)
(* Small instances of EthereumTester for TLC.                              *)
(***************************************************************************)
EXTENDS TesterProperties

CONSTANTS alice, bob, secret

Tx(from, nonce, note) == [from |-> from, nonce |-> nonce, note |-> note]

OneSenderTxs == { Tx(alice, 0, 1), Tx(alice, 0, 2), Tx(alice, 1, 1) }
OneTx == { Tx(alice, 0, 1) }
TwoSenderTxs == { Tx(alice, 0, 1), Tx(bob, 0, 1), Tx(bob, 1, 1) }

NoRange == {}
LatestAndPending == { <<None, None>>, <<Pending, Pending>> }
Numbered == { <<1, None>>, <<1, 1>>, <<2, Latest>>, <<0, 2>>, <<2, 1>> }
NumberedAndEarliest == Numbered \cup { <<Earliest, Latest>> }
FromBlockOne == { <<1, None>> }
=============================================================================

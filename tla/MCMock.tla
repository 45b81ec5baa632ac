------------------------------- MODULE MCMock -------------------------------
(***************************************************************************)
(* A small instance of MockBackend for TLC: transactions of the three      *)
(* types, each of which may be sent more than once; two of them exceed     *)
(* half of the gas limit, one meets it.                                    *)
(***************************************************************************)
EXTENDS MockAnswers

Sent == { {"to", "gas_price", "chain_id"}, {"gas_price", "access_list"}, {"to"} }
=============================================================================

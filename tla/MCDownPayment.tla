---------------------------- MODULE MCDownPayment ----------------------------
(***************************************************************************)
(* Instances of DownPayment for TLC: the canister deploys and operates the *)
(* escrow, two companies pay into it and the supplier is paid from it.     *)
(***************************************************************************)
EXTENDS DownPayment, TLC

CONSTANTS canister, supplier, alice, bob

MCAccounts == {canister, supplier, alice, bob}

\* alice and bob own tokens; the others start without any.
MCBalance == canister :> 0 @@ supplier :> 0 @@ alice :> 100 @@ bob :> 80

\* The canister may name the supplier as a second admin.
MCOperators == {canister, supplier}
=============================================================================

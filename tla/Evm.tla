-------------------------------- MODULE Evm --------------------------------
(***************************************************************************)
(* The chain as utils/rpc.ts sees it: the account of the canister, which   *)
(* signs the transactions of every shipment, and the escrow of one         *)
(* shipment, which behaves as Escrow says.                                 *)
(*                                                                         *)
(* A client reads the number of mined transactions and signs with it; the  *)
(* number itself is left out, current holds the clients whose number is    *)
(* still the next one.  Since nobody counts pending transactions, at most  *)
(* one transaction of the account is pending.                              *)
(***************************************************************************)
EXTENDS Escrow

CONSTANTS
  Clients,              \* calls of the canister that send transactions
  Faults                \* what the RPC service and other shipments may interfere with

ASSUME FaultsAssumption ==
  Faults \subseteq {"lost reply", "replaced", "no gas", "shared account"}

VARIABLES
  pending,              \* the transaction waiting to be mined, or NoTx
  current,              \* clients whose nonce is the next to be mined
  registered            \* the manager knows an escrow for the shipment

chain   == <<pending, current, registered>>
evmVars == <<chain, escrowVars>>

Operations == {"register", "deposit", "lock", "release", "other"}
Tx     == [op : Operations, to : {"manager", "zero", "escrow"}, amount : Nat]
NoTx   == [op |-> "none"]
Register == [op |-> "register", to |-> "manager", amount |-> 0]
OtherTx  == [op |-> "other", to |-> "manager", amount |-> 0]

\* createShipment has just sent its registration, which may have got lost.
EvmInit ==
  /\ EscrowInit
  /\ pending \in {Register, NoTx}
  /\ current = {}
  /\ registered = FALSE

GetLockedAmount == locked
GetTotalDepositedAmount == held + paid

EthGetTransactionCount(c) ==
  /\ current' = current \cup {c}
  /\ UNCHANGED <<pending, registered, escrowVars>>

\* What may follow from sending tx with the nonce of client c.  The canister takes
\* any reply but Err for a success, NonceTooLow and InsufficientFunds included.
EthSendRawTransaction(c, tx, reply) ==
  /\ \/ /\ c \in current /\ pending = NoTx
        /\ pending' = tx
        /\ reply = "Ok" \/ (reply = "Err" /\ "lost reply" \in Faults)
     \/ /\ c \in current /\ pending # NoTx
        /\ \/ reply = "Err" /\ pending' = pending
           \/ reply = "Ok" /\ pending' = tx /\ "replaced" \in Faults
     \/ c \notin current /\ reply = "Ok" /\ pending' = pending
     \/ reply = "Ok" /\ pending' = pending /\ "no gas" \in Faults
  /\ current' = current \ {c}
  /\ UNCHANGED <<registered, escrowVars>>

\* What the escrow accepts; a transaction to the zero address does nothing.
Succeeds(tx) ==
  /\ tx.to = "escrow"
  /\ \/ tx.op = "deposit" /\ tx.amount \in 1 .. Cap - (held + paid)
     \/ tx.op = "lock"    /\ tx.amount \in 1 .. held - locked
     \/ tx.op = "release" /\ tx.amount \in 1 .. locked

\* A deposit also reverts when the payer lacks the tokens, which nothing here tells.
Mine ==
  /\ pending # NoTx
  /\ pending' = NoTx
  /\ current' = {}
  /\ registered' = (registered \/ pending.op = "register")
  /\ \/ /\ Succeeds(pending)
        /\ \/ pending.op = "deposit" /\ PotDeposit(pending.amount)
           \/ pending.op = "lock"    /\ PotLock(pending.amount)
           \/ pending.op = "release" /\ PotPayOut(pending.amount)
     \/ (Succeeds(pending) => pending.op = "deposit") /\ UNCHANGED escrowVars

\* The canister sends a transaction for another shipment.
OtherShipmentSends ==
  /\ "shared account" \in Faults
  /\ pending = NoTx
  /\ pending' = OtherTx
  /\ UNCHANGED <<current, registered, escrowVars>>

\* A payer takes back deposited tokens that are not locked.
PayerWithdraws(amount) ==
  /\ PotWithdraw(amount)
  /\ UNCHANGED chain
=============================================================================

--------------------------------- MODULE Manager ---------------------------------
(***************************************************************************)
(* DownPaymentManager.sol: it deploys an escrow per registration and pushes*)
(* changed fees to those that have nothing locked.  A call that reverts,   *)
(* its own or one it makes, changes nothing, so it is a disabled action.   *)
(* An escrow is its fees and whether it has something locked: DownPayment  *)
(* is the module about it.  Its administrators are left to the manager.    *)
(***************************************************************************)
EXTENDS Registry

CONSTANTS
  Administrators, Recipients, BaseFees, PercentageFees, ShipmentIds,
  MaxEscrows            \* bound on the registrations

VARIABLES
  managers,             \* who has ADMIN_ROLE
  managerFees,          \* _feeRecipient, _baseFee, _percentageFee
  escrows,              \* _downPayments, numbered from 1
  escrowOf,             \* _downPaymentsByShipmentId: the number of the escrow
  missed                \* history: escrows with something locked during a fee update

managerVars == <<managers, managerFees, escrows, escrowOf, missed>>

Counter == Cardinality(DOMAIN escrows)

RegisterDownPayment(admin, shipment) ==
  /\ admin \in managers
  /\ escrows' = Put(escrows, Counter + 1, [fees |-> managerFees, locked |-> FALSE])
  /\ escrowOf' = Put(escrowOf, shipment, Counter + 1)
  /\ UNCHANGED <<managers, managerFees, missed>>

Unlocked == {i \in DOMAIN escrows : ~ escrows[i].locked}

\* Mutant of Reached: the loop stops before the last escrow.
ReachedButLast == 1 .. Counter - 1

\* The loop of updateFeeRecipient runs from 1 to the counter.
Reached == 1 .. Counter

\* An escrow refuses the recipient it has, which reverts the whole update.
UpdateFeeRecipient(admin, recipient) ==
  /\ admin \in managers /\ recipient # managerFees.recipient
  /\ \A i \in Reached \cap Unlocked : escrows[i].fees.recipient # recipient
  /\ managerFees' = [managerFees EXCEPT !.recipient = recipient]
  /\ escrows' = [i \in DOMAIN escrows |->
       IF i \in Reached \cap Unlocked THEN [escrows[i] EXCEPT !.fees.recipient = recipient]
       ELSE escrows[i]]
  /\ missed' = missed \cup (DOMAIN escrows \ Unlocked)
  /\ UNCHANGED <<managers, escrowOf>>

\* The loops of the other two start at 0, where there is no escrow to call: with an
\* escrow registered they always revert.
LoopFromZero == Counter = 0

UpdateBaseFee(admin, fee) ==
  /\ admin \in managers /\ fee # managerFees.base /\ LoopFromZero
  /\ managerFees' = [managerFees EXCEPT !.base = fee]
  /\ UNCHANGED <<managers, escrows, escrowOf, missed>>

UpdatePercentageFee(admin, fee) ==
  /\ admin \in managers /\ fee # managerFees.percentage /\ fee <= 100 /\ LoopFromZero
  /\ managerFees' = [managerFees EXCEPT !.percentage = fee]
  /\ UNCHANGED <<managers, escrows, escrowOf, missed>>

AddAdmin(admin, other) ==
  /\ admin \in managers /\ managers' = managers \cup {other}
  /\ UNCHANGED <<managerFees, escrows, escrowOf, missed>>

RemoveAdmin(admin, other) ==
  /\ admin \in managers /\ managers' = managers \ {other}
  /\ UNCHANGED <<managerFees, escrows, escrowOf, missed>>

\* Funds are locked and released in an escrow.
EscrowUsed(i) ==
  /\ escrows' = [escrows EXCEPT ![i].locked = ~ @]
  /\ UNCHANGED <<managers, managerFees, escrowOf, missed>>

DownPaymentManager ==
  \/ \E admin \in Administrators :
       \/ Counter < MaxEscrows /\ \E shipment \in ShipmentIds : RegisterDownPayment(admin, shipment)
       \/ \E recipient \in Recipients : UpdateFeeRecipient(admin, recipient)
       \/ \E fee \in BaseFees : UpdateBaseFee(admin, fee)
       \/ \E fee \in PercentageFees : UpdatePercentageFee(admin, fee)
       \/ \E other \in Administrators : AddAdmin(admin, other) \/ RemoveAdmin(admin, other)
  \/ \E i \in DOMAIN escrows : EscrowUsed(i)
================================================================================

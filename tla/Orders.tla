--------------------------------- MODULE Orders ---------------------------------
(***************************************************************************)
(* OrderService, and the part of ShipmentService it calls.  The last       *)
(* signature makes signOrder wait until the down payment of the shipment   *)
(* is registered; then it inserts the shipment and the copy of the order   *)
(* it read before.                                                         *)
(*                                                                         *)
(* The terms of an order are its parties, its deadline, which stands for   *)
(* the four, its other fields as one value, and its lines.                 *)
(***************************************************************************)
EXTENDS Certificates

CONSTANTS
  MaxOrders,            \* bound on the orders
  MaxShipments,         \* bound on the shipments
  Slots                 \* for calls of signOrder that wait

VARIABLES
  orders,               \* [terms, signatures, status, shipment] by id; a signature is
                        \* the company's, with the terms it was given for
  shipments,            \* _shipments: [supplier, commissioner] by id
  signing,              \* calls of signOrder that wait: [id, order, shipment] by slot
  overlapped,           \* history: orders two waiting calls were about
  contested             \* history: shipment ids two waiting calls had taken

orderVars == <<orders, shipments, signing, overlapped, contested>>

NoShipment == 0 - 1

InterestedParties(terms) == {terms.supplier, terms.customer, terms.commissioner}

LineAllowed(line, terms) ==
  /\ line.supplierMaterial \in DOMAIN materials /\ line.commissionerMaterial \in DOMAIN materials
  /\ materials[line.supplierMaterial].owner = terms.supplier
  /\ materials[line.commissionerMaterial].owner = terms.commissioner

RightWay(line) ==
  ~ materials[line.supplierMaterial].isInput /\ materials[line.commissionerMaterial].isInput

\* What createOrder and updateOrder both check.
TermsAllowed(u, terms) ==
  /\ terms.supplier # terms.customer
  /\ GetDelegatorAddress(u) \in InterestedParties(terms)
  /\ terms.deadline >= now
  /\ \A line \in ToSet(terms.lines) : LineAllowed(line, terms)

\* A signer signs what it proposes.
Proposal(u, terms) ==
  [terms |-> terms, status |-> "PENDING", shipment |-> NoShipment,
   signatures |-> [c \in IF sessions[u].role = "Signer" THEN {GetDelegatorAddress(u)} ELSE {} |-> terms]]

CreateOrder(u, terms) ==
  /\ TermsAllowed(u, terms)
  /\ \A line \in ToSet(terms.lines) : RightWay(line)
  /\ orders' = Put(orders, NextId(orders), Proposal(u, terms))
  /\ UNCHANGED <<shipments, signing, overlapped, contested>>

\* The lines are compared column by column, each column sorted.
Columns(lines) ==
  [column \in {"supplierMaterial", "commissionerMaterial", "quantity"} |->
     LET values == [i \in DOMAIN lines |-> lines[i][column]]
     IN  [v \in ToSet(values) |-> Cardinality({i \in DOMAIN values : values[i] = v})]]

NoChanges(old, new) ==
  /\ [old EXCEPT !.lines = <<>>] = [new EXCEPT !.lines = <<>>]
  /\ Columns(old.lines) = Columns(new.lines)

\* Mutant of NewVersion: the signatures of the order before stay.
SignedVersion(u, old, terms) == [old EXCEPT !.terms = terms]

\* An update drops the signatures of the order before.
NewVersion(u, old, terms) == Proposal(u, terms)

\* Mutant of Open: confirmed orders can be changed as well.
AnyOrder(id) == id \in DOMAIN orders

Open(id) == id \in DOMAIN orders /\ orders[id].status = "PENDING"

UpdateOrder(u, id, terms) ==
  /\ Open(id) /\ ~ NoChanges(orders[id].terms, terms)
  /\ TermsAllowed(u, terms)
  /\ orders' = Put(orders, id, NewVersion(u, orders[id], terms))
  /\ UNCHANGED <<shipments, signing, overlapped, contested>>

DeleteOrder(id) ==
  /\ Open(id)
  /\ orders' = Without(orders, id)
  /\ UNCHANGED <<shipments, signing, overlapped, contested>>

-----------------------------------------------------------------------------
Complete(order) == {order.terms.supplier, order.terms.customer} \subseteq DOMAIN order.signatures

\* The first part of createShipment: its id is taken here.
CreateShipment(slot, id, order) ==
  /\ slot \notin DOMAIN signing /\ Cardinality(DOMAIN shipments) < MaxShipments
  /\ order.terms.supplier # order.terms.commissioner
  /\ order.terms.deadline >= now        \* the duration is encoded as an unsigned number
  /\ signing' = Put(signing, slot, [id |-> id, order |-> order, shipment |-> NextId(shipments)])
  /\ overlapped' = overlapped \cup {i \in {id} : \E d \in DOMAIN signing : signing[d].id = i}
  /\ contested' = contested \cup
       {i \in {NextId(shipments)} : \E d \in DOMAIN signing : signing[d].shipment = i}
  /\ UNCHANGED <<orders, shipments>>

SignOrder(u, id, slot) ==
  /\ Open(id) /\ GetDelegatorAddress(u) \notin DOMAIN orders[id].signatures
  /\ LET signed == [orders[id] EXCEPT
                      !.signatures = Put(@, GetDelegatorAddress(u), orders[id].terms)]
     IN  \/ /\ ~ Complete(signed)
            /\ orders' = Put(orders, id, signed)
            /\ UNCHANGED <<shipments, signing, overlapped, contested>>
         \/ Complete(signed) /\ CreateShipment(slot, id, signed)

\* Mutant of Confirmed: the order gets the id the next shipment would have.
ConfirmedWithNext(call) ==
  [call.order EXCEPT !.status = "CONFIRMED", !.shipment = NextId(shipments)]

Confirmed(call) == [call.order EXCEPT !.status = "CONFIRMED", !.shipment = call.shipment]

\* The registration was sent, or its sending threw and nothing is inserted.
RegistrationAnswered(slot, sent) ==
  LET call == signing[slot]
  IN  /\ signing' = Without(signing, slot)
      /\ IF sent
         THEN /\ shipments' = Put(shipments, call.shipment,
                                  [supplier |-> call.order.terms.supplier,
                                   commissioner |-> call.order.terms.commissioner])
              /\ orders' = Put(orders, call.id, Confirmed(call))
         ELSE UNCHANGED <<shipments, orders>>
      /\ UNCHANGED <<overlapped, contested>>

\* deleteOrder does not ask whose order it is.
OrderController(terms) ==
  \/ \E u \in Users : AtLeast(u, "Editor") /\
       \/ /\ Cardinality(DOMAIN orders) < MaxOrders
          /\ \E t \in terms : CreateOrder(u, t)
       \/ \E id \in DOMAIN orders :
            \/ DeleteOrder(id)
            \/ \E t \in terms :
                 OnlyContractParty(u, InterestedParties(orders[id].terms)) /\ UpdateOrder(u, id, t)
            \/ /\ AtLeast(u, "Signer")
               /\ OnlyContractParty(u, InterestedParties(orders[id].terms))
               /\ \E slot \in Slots : SignOrder(u, id, slot)
  \/ \E slot \in DOMAIN signing, sent \in BOOLEAN : RegistrationAnswered(slot, sent)
================================================================================

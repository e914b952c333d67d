----------------------------- MODULE PlatformProofs -----------------------------
(***************************************************************************)
(* The theorems of Platform.tla, for any users, companies, scenarios and   *)
(* bounds: sessions, signatures, confirmed orders and fees; the entries    *)
(* that are numbered by the length of their map, and what other entries    *)
(* and lists say of them (standards, offers, asset operations,             *)
(* certificates, and the shipments of confirmed orders); who may change    *)
(* what; and of what kinds the values of all variables are.                *)
(***************************************************************************)
EXTENDS Platform, FiniteSetTheorems, TLAPS

-----------------------------------------------------------------------------
\* Which service a step is one of.

\* A step is one of the authentication service, the time, or leaves the sessions alone.
LEMMA StepOfSessions ==
  ASSUME Next
  PROVE  \/ AuthenticationController(scenario.proofs)
         \/ TimePasses
         \/ UNCHANGED sessionVars
BY DEF Next, OnlyIn

\* A step is one of the order service or leaves the orders alone.
LEMMA StepOfOrders ==
  ASSUME Next
  PROVE  OrderController(scenario.terms) \/ UNCHANGED orderVars
BY DEF Next, OnlyIn

\* A step is one of the manager contract or leaves it alone.
LEMMA StepOfManager ==
  ASSUME Next
  PROVE  DownPaymentManager \/ UNCHANGED managerVars
BY DEF Next, OnlyIn

-----------------------------------------------------------------------------
\* Sessions.

SessionsFromAttempts ==
  /\ now \in Nat
  /\ \A a \in attempts : a.at \in Nat
  /\ logins \subseteq attempts
  /\ \A u \in DOMAIN sessions : \E a \in attempts :
       a.user = u /\ Genuine(a) /\ sessions[u] = SessionOf(a)

\* The logins before the scenario were genuine.
LEMMA SessionsInit == Init => SessionsFromAttempts
<1> SUFFICES ASSUME Init PROVE SessionsFromAttempts
  OBVIOUS
<1>1. now \in Nat /\ logins = {} /\ \A a \in attempts : a.at = 0 /\ Genuine(a)
  BY ScenarioAssumption DEF Init
<1>2. ASSUME NEW u \in DOMAIN sessions
      PROVE  \E a \in attempts : a.user = u /\ Genuine(a) /\ sessions[u] = SessionOf(a)
  <2> DEFINE b == CHOOSE a \in attempts : a.user = u
  <2>1. u \in {a.user : a \in attempts} /\ sessions[u] = SessionOf(b)
    BY <1>2 DEF Init, SessionsOf
  <2>2. b \in attempts /\ b.user = u
    BY <2>1
  <2> QED BY <1>1, <2>1, <2>2
<1> QED BY <1>1, <1>2 DEF SessionsFromAttempts

\* The session made when the address is known rests on the proof that was presented.
LEMMA LoginKeepsSessions ==
  ASSUME SessionsFromAttempts, NEW login, NEW answered, AddressAnswered(login, answered)
  PROVE  SessionsFromAttempts'
<1>1. /\ login \in attempts /\ logins' \subseteq logins
      /\ now' = now /\ attempts' = attempts
  BY DEF SessionsFromAttempts, AddressAnswered
<1>2. CASE answered /\ HasValidRoleProof(login.proof, login.user, login.at)
  <2>1. sessions' = Put(sessions, login.user, SessionOf(login))
    BY <1>2 DEF AddressAnswered
  <2>2. Genuine(login)
    BY <1>2 DEF HasValidRoleProof, Genuine
  <2>3. ASSUME NEW u \in DOMAIN sessions'
        PROVE  \E a \in attempts : a.user = u /\ Genuine(a) /\ sessions'[u] = SessionOf(a)
    <3>1. CASE u = login.user
      <4>1. sessions'[u] = SessionOf(login)
        BY <2>1, <3>1 DEF Put
      <4> QED BY <1>1, <2>2, <3>1, <4>1
    <3>2. CASE u # login.user
      <4>1. u \in DOMAIN sessions /\ sessions'[u] = sessions[u]
        BY <2>1, <2>3, <3>2 DEF Put
      <4> QED BY <4>1 DEF SessionsFromAttempts
    <3> QED BY <3>1, <3>2
  <2> QED BY <1>1, <2>3 DEF SessionsFromAttempts
<1>3. CASE ~ (answered /\ HasValidRoleProof(login.proof, login.user, login.at))
  <2>1. sessions' = sessions
    BY <1>3 DEF AddressAnswered
  <2> QED BY <1>1, <2>1 DEF SessionsFromAttempts
<1> QED BY <1>2, <1>3

\* Every step keeps the sessions resting on what was presented.
LEMMA SessionsStep == SessionsFromAttempts /\ [Next]_vars => SessionsFromAttempts'
<1> SUFFICES ASSUME SessionsFromAttempts, [Next]_vars PROVE SessionsFromAttempts'
  OBVIOUS
<1>1. ASSUME NEW u \in Users, NEW proof \in scenario.proofs, Authenticate(u, proof)
      PROVE  SessionsFromAttempts'
  BY <1>1 DEF Authenticate, SessionsFromAttempts
<1>2. ASSUME NEW login \in logins, NEW answered \in BOOLEAN, AddressAnswered(login, answered)
      PROVE  SessionsFromAttempts'
  BY <1>2, LoginKeepsSessions
<1>3. ASSUME NEW u \in Users, Logout(u) PROVE SessionsFromAttempts'
  <2>1. /\ now' = now /\ logins' = logins /\ attempts' = attempts
        /\ \A v \in DOMAIN sessions' : v \in DOMAIN sessions /\ sessions'[v] = sessions[v]
    BY <1>3 DEF Logout, Without
  <2> QED BY <2>1 DEF SessionsFromAttempts
<1>4. CASE TimePasses
  BY <1>4 DEF TimePasses, SessionsFromAttempts
<1>5. CASE UNCHANGED sessionVars
  BY <1>5 DEF sessionVars, SessionsFromAttempts
<1>6. CASE UNCHANGED vars
  BY <1>5, <1>6 DEF vars
<1> QED BY <1>1, <1>2, <1>3, <1>4, <1>5, <1>6, StepOfSessions DEF AuthenticationController

(***************************************************************************)
(* Every session in force rests on a proof that was genuine when it was    *)
(* presented, less than a session's length ago: authenticate, logout and   *)
(* the guards, whatever the other services do.                             *)
(***************************************************************************)
THEOREM SessionsStayBacked == Spec => []SessionsBacked
<1>1. SessionsFromAttempts => SessionsBacked
  <2> SUFFICES ASSUME SessionsFromAttempts, NEW u \in Users, IsAuthenticated(u)
               PROVE  \E a \in attempts :
                        /\ a.user = u /\ Genuine(a) /\ now < a.at + LoginDuration
                        /\ a.proof.company = sessions[u].company
                        /\ a.proof.role = sessions[u].role
    BY DEF SessionsBacked
  <2>1. PICK a \in attempts : a.user = u /\ Genuine(a) /\ sessions[u] = SessionOf(a)
    BY DEF IsAuthenticated, SessionsFromAttempts
  <2>2. now \in Nat /\ a.at + LoginDuration \in Nat /\ sessions[u].expiration > now
    BY SessionsAssumption DEF SessionsFromAttempts, IsAuthenticated
  <2>3. /\ sessions[u].expiration = a.at + LoginDuration
        /\ sessions[u].company = a.proof.company /\ sessions[u].role = a.proof.role
    BY <2>1 DEF SessionOf
  <2> QED BY <2>1, <2>2, <2>3
<1> QED BY <1>1, SessionsInit, SessionsStep, PTL DEF Spec

-----------------------------------------------------------------------------
\* Signatures.

\* Every order, also a copy that waits, has signatures for its own terms only.
SoundOrder(order) ==
  /\ DOMAIN order = {"terms", "status", "shipment", "signatures"}
  /\ \A c \in DOMAIN order.signatures : order.signatures[c] = order.terms
  /\ order.status = "CONFIRMED" => Complete(order)

SoundOrders ==
  /\ \A id \in DOMAIN orders : SoundOrder(orders[id])
  /\ \A d \in DOMAIN signing : SoundOrder(signing[d].order) /\ Complete(signing[d].order)

\* What createOrder and updateOrder insert is signed, if at all, with its own terms.
LEMMA ProposalIsSound ==
  ASSUME NEW u, NEW terms
  PROVE  SoundOrder(Proposal(u, terms))
BY DEF Proposal, SoundOrder, Complete

\* The copy that signOrder makes.
Signed(order, c) == [order EXCEPT !.signatures = Put(@, c, order.terms)]

\* One more signature, for the terms of the order.
LEMMA SignedIsSound ==
  ASSUME NEW order, NEW c, SoundOrder(order), order.status = "PENDING"
  PROVE  SoundOrder(Signed(order, c))
<1> DEFINE new == Signed(order, c)
<1>1. /\ DOMAIN new = DOMAIN order /\ new.terms = order.terms /\ new.status = order.status
      /\ new.signatures = Put(order.signatures, c, order.terms)
  BY DEF SoundOrder, Signed
<1>2. \A b \in DOMAIN new.signatures : new.signatures[b] = new.terms
  <2> HIDE DEF new
  <2> QED BY <1>1 DEF SoundOrder, Put
<1> SUFFICES SoundOrder(new)
  OBVIOUS
<1> HIDE DEF new
<1> QED BY <1>1, <1>2 DEF SoundOrder

\* Inserting a sound order keeps all of them sound.
LEMMA PutKeepsSound ==
  ASSUME SoundOrders, NEW id, NEW order, SoundOrder(order),
         orders' = Put(orders, id, order), signing' = signing
  PROVE  SoundOrders'
<1>1. \A i \in DOMAIN orders' : SoundOrder(orders'[i])
  BY DEF SoundOrders, Put
<1> QED BY <1>1 DEF SoundOrders, SoundOrder, Complete

\* signOrder inserts a signed copy, or lets it wait with both signatures.
LEMMA SignOrderKeepsSound ==
  ASSUME SoundOrders, NEW u, NEW id, NEW slot, SignOrder(u, id, slot)
  PROVE  SoundOrders'
<1> DEFINE c == GetDelegatorAddress(u)
           signed == Signed(orders[id], c)
<1>1. SoundOrder(signed)
  <2>1. SoundOrder(orders[id]) /\ orders[id].status = "PENDING"
    BY DEF SignOrder, Open, SoundOrders
  <2> QED BY <2>1, SignedIsSound
<1>2. \/ orders' = Put(orders, id, signed) /\ signing' = signing
      \/ Complete(signed) /\ CreateShipment(slot, id, signed)
  BY DEF SignOrder, Signed
<1> HIDE DEF signed
<1>3. CASE orders' = Put(orders, id, signed) /\ signing' = signing
  BY <1>1, <1>3, PutKeepsSound
<1>4. CASE Complete(signed) /\ CreateShipment(slot, id, signed)
  <2>1. /\ orders' = orders
        /\ signing' = Put(signing, slot,
                          [id |-> id, order |-> signed, shipment |-> NextId(shipments)])
    BY <1>4 DEF CreateShipment
  <2>2. \A d \in DOMAIN signing' : SoundOrder(signing'[d].order) /\ Complete(signing'[d].order)
    BY <1>1, <1>4, <2>1 DEF Put, SoundOrders
  <2> QED BY <2>1, <2>2 DEF SoundOrders, SoundOrder, Complete
<1> QED BY <1>2, <1>3, <1>4

\* The copy that waited is confirmed, or dropped when the registration throws.
LEMMA AnswerKeepsSound ==
  ASSUME SoundOrders, NEW slot \in DOMAIN signing, NEW sent, RegistrationAnswered(slot, sent)
  PROVE  SoundOrders'
<1> DEFINE call == signing[slot]
<1>1. /\ DOMAIN signing' \subseteq DOMAIN signing
      /\ \A d \in DOMAIN signing' : signing'[d] = signing[d]
  BY DEF RegistrationAnswered, Without
<1>2. \A id \in DOMAIN orders' : SoundOrder(orders'[id])
  <2>1. CASE sent
    <3>1. orders' = Put(orders, call.id, Confirmed(call))
      BY <2>1 DEF RegistrationAnswered
    <3>2. SoundOrder(call.order) /\ Complete(call.order)
      BY DEF SoundOrders
    <3>3. SoundOrder(Confirmed(call))
      BY <3>2 DEF SoundOrder, Confirmed, Complete
    <3> QED BY <3>1, <3>3 DEF Put, SoundOrders
  <2>2. CASE ~ sent
    BY <2>2 DEF RegistrationAnswered, SoundOrders
  <2> QED BY <2>1, <2>2
<1> QED BY <1>1, <1>2 DEF SoundOrders, SoundOrder, Complete

\* Every step keeps the signatures with their terms.
LEMMA SoundOrdersStep == SoundOrders /\ [Next]_vars => SoundOrders'
<1> SUFFICES ASSUME SoundOrders, [Next]_vars PROVE SoundOrders'
  OBVIOUS
<1>1. ASSUME NEW u, NEW t, CreateOrder(u, t) PROVE SoundOrders'
  BY <1>1, PutKeepsSound, ProposalIsSound DEF CreateOrder
<1>2. ASSUME NEW u, NEW id, NEW t, UpdateOrder(u, id, t) PROVE SoundOrders'
  BY <1>2, PutKeepsSound, ProposalIsSound DEF UpdateOrder, NewVersion
<1>3. ASSUME NEW id, DeleteOrder(id) PROVE SoundOrders'
  <2>1. /\ signing' = signing
        /\ \A i \in DOMAIN orders' : i \in DOMAIN orders /\ orders'[i] = orders[i]
    BY <1>3 DEF DeleteOrder, Without
  <2> QED BY <2>1 DEF SoundOrders, SoundOrder, Complete
<1>4. CASE UNCHANGED orderVars
  BY <1>4 DEF orderVars, SoundOrders, SoundOrder, Complete
<1>5. CASE UNCHANGED vars
  BY <1>4, <1>5 DEF vars
<1> QED
  BY <1>1, <1>2, <1>3, <1>4, <1>5, SignOrderKeepsSound, AnswerKeepsSound, StepOfOrders
  DEF OrderController

(***************************************************************************)
(* A company that has signed an order signed the terms it has now, and a   *)
(* confirmed order is signed by both sides: createOrder, updateOrder and   *)
(* signOrder, whose copy waits for the registration of the shipment.       *)
(***************************************************************************)
THEOREM SignaturesAlwaysMatch == Spec => []SignaturesMatchTerms
<1>1. Init => SoundOrders
  BY DEF Init, SoundOrders
<1>2. SoundOrders => SignaturesMatchTerms
  BY DEF SoundOrders, SoundOrder, SignaturesMatchTerms
<1> QED BY <1>1, <1>2, SoundOrdersStep, PTL DEF Spec

-----------------------------------------------------------------------------
\* Confirmed orders.

\* What a waiting call will insert is no news about a confirmed order, unless
\* another call waited at the same time.
CallsApart ==
  /\ IsFiniteSet(DOMAIN orders)
  /\ "orders" \notin gapped => Gapless(orders)
  /\ \A d, e \in DOMAIN signing :
       d # e /\ signing[d].id = signing[e].id => signing[d].id \in overlapped
  /\ \A d \in DOMAIN signing :
       signing[d].id \in DOMAIN orders /\ orders[signing[d].id].status = "CONFIRMED"
       => signing[d].id \in overlapped

\* The step changes this order only, leaves the calls alone and confirms nothing.
ChangesOnly(id) ==
  /\ signing' = signing /\ overlapped' = overlapped
  /\ IsFiniteSet(DOMAIN orders')
  /\ \A i \in DOMAIN orders \ {id} : i \in DOMAIN orders' /\ orders'[i] = orders[i]
  /\ \A i \in DOMAIN orders' : i \in DOMAIN orders \/ i = id
  /\ id \in DOMAIN orders => orders[id].status = "PENDING"
  /\ id \in DOMAIN orders' => orders'[id].status = "PENDING"

\* Inserting a pending order over a pending one, or at a free id, changes that order only.
LEMMA PutChangesOnly ==
  ASSUME CallsApart, NEW id, NEW order, order.status = "PENDING",
         orders' = Put(orders, id, order), signing' = signing, overlapped' = overlapped,
         id \in DOMAIN orders => orders[id].status = "PENDING"
  PROVE  ChangesOnly(id)
<1>1. DOMAIN orders' = DOMAIN orders \cup {id}
  BY DEF Put
<1>2. IsFiniteSet(DOMAIN orders')
  BY <1>1, FS_AddElement DEF CallsApart
<1> QED BY <1>1, <1>2 DEF ChangesOnly, Put

\* Without a gap the length of the map is a free id.
LEMMA CreationIsAtFreeId ==
  ASSUME CallsApart, "orders" \notin gapped
  PROVE  NextId(orders) \notin DOMAIN orders
BY FS_CardinalityType DEF CallsApart, Gapless, NextId

\* Every step of the orders changes one order, starts a call or ends one.
LEMMA OrderSteps ==
  ASSUME CallsApart, SoundOrders, Next
  PROVE  \/ UNCHANGED <<orders, signing, overlapped>>
         \/ "orders" \in gapped /\ \E u, t : CreateOrder(u, t)
         \/ \E id : ChangesOnly(id)
         \/ \E slot, id, order : Open(id) /\ CreateShipment(slot, id, order)
         \/ \E slot \in DOMAIN signing : \E sent : RegistrationAnswered(slot, sent)
<1>1. ASSUME NEW u, NEW t, CreateOrder(u, t), "orders" \notin gapped
      PROVE  \E id : ChangesOnly(id)
  <2>1. Proposal(u, t).status = "PENDING"
    BY DEF Proposal
  <2>2. ChangesOnly(NextId(orders))
    BY <1>1, <2>1, CreationIsAtFreeId, PutChangesOnly DEF CreateOrder
  <2> QED BY <2>2
<1>2. ASSUME NEW u, NEW id, NEW t, UpdateOrder(u, id, t)
      PROVE  ChangesOnly(id)
  <2>1. NewVersion(u, orders[id], t).status = "PENDING"
    BY DEF NewVersion, Proposal
  <2> QED BY <1>2, <2>1, PutChangesOnly DEF UpdateOrder, Open
<1>3. ASSUME NEW id, DeleteOrder(id)
      PROVE  ChangesOnly(id)
  <2>1. DOMAIN orders' = DOMAIN orders \ {id} /\ \A i \in DOMAIN orders' : orders'[i] = orders[i]
    BY <1>3 DEF DeleteOrder, Without
  <2>2. IsFiniteSet(DOMAIN orders')
    BY <2>1, FS_RemoveElement DEF CallsApart
  <2> QED BY <1>3, <2>1, <2>2 DEF DeleteOrder, Open, ChangesOnly
<1>4. ASSUME NEW u, NEW id, NEW slot, SignOrder(u, id, slot)
      PROVE  \/ ChangesOnly(id)
             \/ \E order : Open(id) /\ CreateShipment(slot, id, order)
  <2> DEFINE signed == Signed(orders[id], GetDelegatorAddress(u))
  <2>1. signed.status = "PENDING"
    BY <1>4 DEF SignOrder, Open, SoundOrders, SoundOrder, Signed
  <2>2. \/ /\ orders' = Put(orders, id, signed)
           /\ signing' = signing /\ overlapped' = overlapped
        \/ CreateShipment(slot, id, signed)
    BY <1>4 DEF SignOrder, Signed
  <2>3. Open(id)
    BY <1>4 DEF SignOrder
  <2> HIDE DEF signed
  <2> QED BY <2>1, <2>2, <2>3, PutChangesOnly DEF Open
<1>5. CASE UNCHANGED orderVars
  BY <1>5 DEF orderVars
<1> QED BY <1>1, <1>2, <1>3, <1>4, <1>5, StepOfOrders DEF OrderController

\* Every step keeps the waiting calls apart from confirmed orders.
LEMMA CallsApartStep == CallsApart /\ SoundOrders /\ [Next]_vars => CallsApart'
<1> SUFFICES ASSUME CallsApart, SoundOrders, [Next]_vars PROVE CallsApart'
  OBVIOUS
<1> DEFINE Waits == /\ IsFiniteSet(DOMAIN orders)
                    /\ \A d, e \in DOMAIN signing :
                         d # e /\ signing[d].id = signing[e].id => signing[d].id \in overlapped
                    /\ \A d \in DOMAIN signing :
                         signing[d].id \in DOMAIN orders
                         /\ orders[signing[d].id].status = "CONFIRMED"
                         => signing[d].id \in overlapped
<1>1. CASE UNCHANGED vars
  BY <1>1 DEF vars, orderVars, CallsApart, Gapless
<1>2. CASE Next
  <2>1. "orders" \notin gapped' => Gapless(orders')
    BY <1>2 DEF Next, NoteGaps
  <2>2. ASSUME NEW id, ChangesOnly(id) PROVE Waits'
    BY <2>2 DEF ChangesOnly, CallsApart
  <2>3. ASSUME NEW u, NEW t, CreateOrder(u, t) PROVE Waits'
    <3>1. /\ orders' = Put(orders, NextId(orders), Proposal(u, t))
          /\ signing' = signing /\ overlapped' = overlapped
      BY <2>3 DEF CreateOrder
    <3>2. /\ DOMAIN orders' = DOMAIN orders \cup {NextId(orders)}
          /\ \A i \in DOMAIN orders' :
               (i \in DOMAIN orders /\ orders'[i] = orders[i]) \/ orders'[i] = Proposal(u, t)
      BY <3>1 DEF Put
    <3>3. IsFiniteSet(DOMAIN orders')
      BY <3>2, FS_AddElement DEF CallsApart
    <3>4. Proposal(u, t).status = "PENDING"
      BY DEF Proposal
    <3> QED BY <3>1, <3>2, <3>3, <3>4 DEF CallsApart
  <2>4. ASSUME NEW slot, NEW id, NEW order, Open(id), CreateShipment(slot, id, order)
        PROVE  Waits'
    <3> DEFINE call == [id |-> id, order |-> order, shipment |-> NextId(shipments)]
    <3>1. /\ orders' = orders /\ signing' = Put(signing, slot, call)
          /\ slot \notin DOMAIN signing /\ overlapped \subseteq overlapped'
          /\ (\E d \in DOMAIN signing : signing[d].id = id) => id \in overlapped'
      BY <2>4 DEF CreateShipment
    <3>2. /\ DOMAIN signing' = DOMAIN signing \cup {slot} /\ signing'[slot].id = id
          /\ \A d \in DOMAIN signing : signing'[d] = signing[d]
      BY <3>1 DEF Put
    <3>3. orders[id].status # "CONFIRMED"
      BY <2>4 DEF Open
    <3> QED BY <3>1, <3>2, <3>3 DEF CallsApart
  <2>5. ASSUME NEW slot \in DOMAIN signing, NEW sent, RegistrationAnswered(slot, sent)
        PROVE  Waits'
    <3> DEFINE call == signing[slot]
    <3>1. /\ DOMAIN signing' = DOMAIN signing \ {slot} /\ overlapped' = overlapped
          /\ \A d \in DOMAIN signing' : signing'[d] = signing[d]
      BY <2>5 DEF RegistrationAnswered, Without
    <3>2. CASE sent
      <4>1. orders' = Put(orders, call.id, Confirmed(call))
        BY <2>5, <3>2 DEF RegistrationAnswered
      <4>2. /\ DOMAIN orders' = DOMAIN orders \cup {call.id}
            /\ \A i \in DOMAIN orders \ {call.id} : orders'[i] = orders[i]
        BY <4>1 DEF Put
      <4>3. IsFiniteSet(DOMAIN orders')
        BY <4>2, FS_AddElement DEF CallsApart
      <4> QED BY <3>1, <4>2, <4>3 DEF CallsApart
    <3>3. CASE ~ sent
      <4>1. orders' = orders
        BY <2>5, <3>3 DEF RegistrationAnswered
      <4> QED BY <3>1, <4>1 DEF CallsApart
    <3> QED BY <3>2, <3>3
  <2>6. ASSUME UNCHANGED <<orders, signing, overlapped>> PROVE Waits'
    BY <2>6 DEF CallsApart
  <2>7. Waits'
    BY <1>2, <2>2, <2>3, <2>4, <2>5, <2>6, OrderSteps
  <2> QED BY <2>1, <2>7 DEF CallsApart
<1> QED BY <1>1, <1>2

\* No step touches a confirmed order.
LEMMA CallsLeaveConfirmed ==
  ASSUME CallsApart, SoundOrders, [Next]_vars,
         NEW id \in DOMAIN orders, orders[id].status = "CONFIRMED",
         "orders" \notin gapped, id \notin overlapped
  PROVE  id \in DOMAIN orders' /\ orders'[id] = orders[id]
<1>1. CASE UNCHANGED vars
  BY <1>1 DEF vars, orderVars
<1>2. ASSUME NEW i, ChangesOnly(i)
      PROVE  id \in DOMAIN orders' /\ orders'[id] = orders[id]
  BY <1>2 DEF ChangesOnly
<1>3. ASSUME NEW slot \in DOMAIN signing, NEW sent, RegistrationAnswered(slot, sent)
      PROVE  id \in DOMAIN orders' /\ orders'[id] = orders[id]
  <2>1. signing[slot].id # id
    BY DEF CallsApart
  <2> QED BY <1>3, <2>1 DEF RegistrationAnswered, Put
<1>4. ASSUME NEW slot, NEW i, NEW order, CreateShipment(slot, i, order)
      PROVE  orders' = orders
  BY <1>4 DEF CreateShipment
<1> QED BY <1>1, <1>2, <1>3, <1>4, OrderSteps

(***************************************************************************)
(* A confirmed order never changes nor disappears, unless the ids of the   *)
(* orders had a gap or two of its last signatures overlapped: the handlers *)
(* of OrderService, and the copy signOrder inserts after its await.        *)
(***************************************************************************)
THEOREM ConfirmedAlwaysStand == Spec => ConfirmedOrdersStand
<1>1. Init => CallsApart /\ SoundOrders
  <2> SUFFICES ASSUME Init PROVE CallsApart /\ SoundOrders
    OBVIOUS
  <2>1. DOMAIN orders = {} /\ DOMAIN signing = {}
    BY DEF Init
  <2>2. DOMAIN orders = 0 .. Cardinality(DOMAIN orders) - 1
    BY <2>1, FS_EmptySet
  <2> QED BY <2>1, <2>2, FS_EmptySet DEF CallsApart, SoundOrders, Gapless
<1>2. CallsApart /\ SoundOrders /\ [Next]_vars =>
        [\A id \in DOMAIN orders :
           orders[id].status = "CONFIRMED" /\ "orders" \notin gapped /\ id \notin overlapped
           => id \in DOMAIN orders' /\ orders'[id] = orders[id]]_vars
  BY CallsLeaveConfirmed
<1> QED
  BY <1>1, <1>2, SoundOrdersStep, CallsApartStep, PTL DEF Spec, ConfirmedOrdersStand

-----------------------------------------------------------------------------
\* Fees.

Fees == [recipient : Recipients, base : BaseFees, percentage : PercentageFees]

FeesFollow ==
  /\ managerFees \in Fees
  /\ \E n \in Nat : escrows \in [1 .. n -> [fees : Fees, locked : BOOLEAN]]
  /\ FeesReachEscrows

\* The escrows are numbered up to the counter.
LEMMA CounterIsLast ==
  ASSUME NEW n \in Nat, DOMAIN escrows = 1 .. n
  PROVE  Counter = n
BY FS_Interval DEF Counter

\* A new escrow has the fees of the manager.
LEMMA RegistrationKeepsFees ==
  ASSUME FeesFollow, NEW admin, NEW shipment, RegisterDownPayment(admin, shipment)
  PROVE  FeesFollow'
<1>1. PICK n \in Nat : escrows \in [1 .. n -> [fees : Fees, locked : BOOLEAN]]
  BY DEF FeesFollow
<1>2. /\ escrows' = Put(escrows, n + 1, [fees |-> managerFees, locked |-> FALSE])
      /\ managerFees' = managerFees /\ missed' = missed /\ managerFees \in Fees
  BY <1>1, CounterIsLast DEF RegisterDownPayment, FeesFollow
<1>3. escrows' \in [1 .. (n + 1) -> [fees : Fees, locked : BOOLEAN]]
  <2>1. [fees |-> managerFees, locked |-> FALSE] \in [fees : Fees, locked : BOOLEAN]
    BY <1>2
  <2>2. (1 .. n) \cup {n + 1} = 1 .. (n + 1)
    OBVIOUS
  <2> QED BY <1>1, <1>2, <2>1, <2>2 DEF Put
<1>4. \A i \in DOMAIN escrows' :
        (i \in DOMAIN escrows /\ escrows'[i] = escrows[i]) \/ escrows'[i].fees = managerFees
  BY <1>2 DEF Put
<1>5. FeesReachEscrows'
  BY <1>2, <1>4 DEF FeesFollow, FeesReachEscrows
<1>6. n + 1 \in Nat
  OBVIOUS
<1> QED BY <1>2, <1>3, <1>5, <1>6 DEF FeesFollow

\* The loop reaches every escrow that has nothing locked.
LEMMA RecipientUpdateKeepsFees ==
  ASSUME FeesFollow, NEW admin, NEW recipient \in Recipients,
         UpdateFeeRecipient(admin, recipient)
  PROVE  FeesFollow'
<1>1. PICK n \in Nat : escrows \in [1 .. n -> [fees : Fees, locked : BOOLEAN]]
  BY DEF FeesFollow
<1>2. /\ managerFees \in Fees
      /\ managerFees' = [managerFees EXCEPT !.recipient = recipient]
  BY DEF UpdateFeeRecipient, FeesFollow
<1>3. Reached = DOMAIN escrows
  BY <1>1, CounterIsLast DEF Reached
<1>4. /\ DOMAIN escrows' = DOMAIN escrows
      /\ \A i \in DOMAIN escrows :
           escrows'[i] = IF i \in Unlocked THEN [escrows[i] EXCEPT !.fees.recipient = recipient]
                         ELSE escrows[i]
      /\ missed' = missed \cup (DOMAIN escrows \ Unlocked)
  BY <1>3 DEF UpdateFeeRecipient
<1>5. ASSUME NEW i \in 1 .. n
      PROVE  /\ escrows'[i] \in [fees : Fees, locked : BOOLEAN]
             /\ escrows'[i].fees.base = escrows[i].fees.base
             /\ escrows'[i].fees.percentage = escrows[i].fees.percentage
             /\ i \in Unlocked => escrows'[i].fees.recipient = recipient
  <2>1. escrows[i] \in [fees : Fees, locked : BOOLEAN]
    BY <1>1
  <2>2. CASE i \in Unlocked
    <3>1. escrows'[i] = [escrows[i] EXCEPT !.fees.recipient = recipient]
      BY <1>1, <1>4, <2>2
    <3> QED BY <2>1, <3>1 DEF Fees
  <2>3. CASE i \notin Unlocked
    BY <1>1, <1>4, <2>1, <2>3
  <2> QED BY <2>2, <2>3
<1>6. escrows' \in [1 .. n -> [fees : Fees, locked : BOOLEAN]]
  <2>1. escrows' = [i \in 1 .. n |-> escrows'[i]]
    BY <1>1, <1>3 DEF UpdateFeeRecipient
  <2> QED BY <1>5, <2>1
<1>7. FeesReachEscrows'
  BY <1>1, <1>2, <1>4, <1>5 DEF FeesFollow, FeesReachEscrows, Fees
<1>8. managerFees' \in Fees
  BY <1>2 DEF Fees
<1> QED BY <1>6, <1>7, <1>8 DEF FeesFollow

\* The other two updates succeed only while there is no escrow.
LEMMA OtherUpdatesKeepFees ==
  ASSUME FeesFollow, NEW admin, NEW fee,
         \/ fee \in BaseFees /\ UpdateBaseFee(admin, fee)
         \/ fee \in PercentageFees /\ UpdatePercentageFee(admin, fee)
  PROVE  FeesFollow'
<1>1. PICK n \in Nat : escrows \in [1 .. n -> [fees : Fees, locked : BOOLEAN]]
  BY DEF FeesFollow
<1>2. n = 0
  BY <1>1, CounterIsLast DEF UpdateBaseFee, UpdatePercentageFee, LoopFromZero
<1>3. managerFees' \in Fees /\ escrows' = escrows
  BY DEF UpdateBaseFee, UpdatePercentageFee, FeesFollow, Fees
<1>4. DOMAIN escrows' = {}
  BY <1>1, <1>2, <1>3
<1> QED BY <1>1, <1>3, <1>4 DEF FeesFollow, FeesReachEscrows

\* Locking and releasing funds leaves the fees alone.
LEMMA UseKeepsFees ==
  ASSUME FeesFollow, NEW i \in DOMAIN escrows, EscrowUsed(i)
  PROVE  FeesFollow'
<1>1. PICK n \in Nat : escrows \in [1 .. n -> [fees : Fees, locked : BOOLEAN]]
  BY DEF FeesFollow
<1>2. /\ escrows' \in [1 .. n -> [fees : Fees, locked : BOOLEAN]]
      /\ \A j \in 1 .. n : escrows'[j].fees = escrows[j].fees
  BY <1>1 DEF EscrowUsed
<1>3. managerFees' = managerFees /\ missed' = missed
  BY DEF EscrowUsed
<1> QED BY <1>1, <1>2, <1>3 DEF FeesFollow, FeesReachEscrows

\* Every step keeps the fees of the escrows with those of the manager.
LEMMA FeesStep == FeesFollow /\ [Next]_vars => FeesFollow'
<1> SUFFICES ASSUME FeesFollow, [Next]_vars PROVE FeesFollow'
  OBVIOUS
<1>1. CASE UNCHANGED <<managerFees, escrows, missed>>
  BY <1>1 DEF FeesFollow, FeesReachEscrows
<1>2. CASE UNCHANGED managerVars
  BY <1>1, <1>2 DEF managerVars
<1>3. CASE UNCHANGED vars
  BY <1>2, <1>3 DEF vars
<1>4. ASSUME NEW admin, NEW other, AddAdmin(admin, other) \/ RemoveAdmin(admin, other)
      PROVE  FeesFollow'
  BY <1>1, <1>4 DEF AddAdmin, RemoveAdmin
<1> QED
  BY <1>2, <1>3, <1>4, StepOfManager, RegistrationKeepsFees, RecipientUpdateKeepsFees,
     OtherUpdatesKeepFees, UseKeepsFees
  DEF DownPaymentManager

(***************************************************************************)
(* The fees of every escrow are those of the manager that registered it,   *)
(* except for the recipient of one that had something locked during an     *)
(* update: registerDownPayment and the loops of the three fee updates.     *)
(***************************************************************************)
THEOREM FeesAlwaysReach == Spec => []FeesReachEscrows
<1>1. Init => FeesFollow
  <2> SUFFICES ASSUME Init PROVE FeesFollow
    OBVIOUS
  <2>1. managerFees \in Fees
    BY DEF Init, Fees
  <2>2. escrows \in [1 .. 0 -> [fees : Fees, locked : BOOLEAN]] /\ DOMAIN escrows = {}
    BY DEF Init
  <2> QED BY <2>1, <2>2 DEF FeesFollow, FeesReachEscrows
<1>2. FeesFollow => FeesReachEscrows
  BY DEF FeesFollow
<1> QED BY <1>1, <1>2, FeesStep, PTL DEF Spec

-----------------------------------------------------------------------------
\* Standards.

\* A step is one of the service of the standards or leaves them alone.
LEMMA StepOfStandards ==
  ASSUME Next
  PROVE  AssessmentReferenceStandardController \/ UNCHANGED standardVars
BY DEF Next, OnlyIn

StandardsKept ==
  /\ IsFiniteSet(DOMAIN standards)
  /\ DOMAIN listed = Sectors
  /\ ListedStandardsExist
  /\ "standards" \notin gapped => DOMAIN standards = 1 .. Cardinality(DOMAIN standards)

\* The ids that are in some list.
InSome(lists, S) == UNION {lists[s] : s \in S}

\* What some list has.
LEMMA InSomeList ==
  ASSUME NEW lists, NEW S
  PROVE  \A x : x \in InSome(lists, S) <=> \E s \in S : x \in lists[s]
BY DEF InSome

\* An id added to one list is added to the ids listed.
LEMMA AddedToSome ==
  ASSUME NEW sector \in Sectors, NEW id,
         \A s \in Sectors : listed'[s] = IF s = sector THEN listed[s] \cup {id} ELSE listed[s]
  PROVE  InSome(listed', Sectors) = InSome(listed, Sectors) \cup {id}
<1>1. \A x : (\E s \in Sectors : x \in listed'[s])
             <=> (\E s \in Sectors : x \in listed[s]) \/ x = id
  OBVIOUS
<1>2. \A x : x \in InSome(listed', Sectors) <=> x \in InSome(listed, Sectors) \cup {id}
  BY <1>1, InSomeList
<1> QED BY <1>2

\* An id removed from the lists that have it is removed from the ids listed.
LEMMA RemovedFromAll ==
  ASSUME NEW id, \A s \in Sectors : listed'[s] = listed[s] \ {id}
  PROVE  InSome(listed', Sectors) = InSome(listed, Sectors) \ {id}
<1>1. \A x : (\E s \in Sectors : x \in listed'[s])
             <=> (\E s \in Sectors : x \in listed[s]) /\ x # id
  OBVIOUS
<1>2. \A x : x \in InSome(listed', Sectors) <=> x \in InSome(listed, Sectors) \ {id}
  BY <1>1, InSomeList
<1> QED BY <1>2

\* An entry inserted into a finite map leaves it finite.
LEMMA PutIsFinite ==
  ASSUME NEW reg, IsFiniteSet(DOMAIN reg), NEW id, NEW entry
  PROVE  /\ IsFiniteSet(DOMAIN Put(reg, id, entry))
         /\ DOMAIN Put(reg, id, entry) = DOMAIN reg \cup {id}
         /\ Put(reg, id, entry)[id] = entry
         /\ \A i \in DOMAIN reg : i # id => Put(reg, id, entry)[i] = reg[i]
<1>1. DOMAIN Put(reg, id, entry) = DOMAIN reg \cup {id}
  BY DEF Put
<1> QED BY <1>1, FS_AddElement DEF Put

\* An entry removed from a finite map leaves it finite, and the others as they are.
LEMMA WithoutIsFinite ==
  ASSUME NEW reg, IsFiniteSet(DOMAIN reg), NEW id
  PROVE  /\ IsFiniteSet(DOMAIN Without(reg, id))
         /\ DOMAIN Without(reg, id) = DOMAIN reg \ {id}
         /\ \A i \in DOMAIN reg : i # id => Without(reg, id)[i] = reg[i]
<1>1. DOMAIN Without(reg, id) = DOMAIN reg \ {id}
  BY DEF Without
<1> QED BY <1>1, FS_RemoveElement DEF Without

\* Adding and removing keep the standards those that are listed.
LEMMA ListsKeepStandards ==
  ASSUME StandardsKept, AssessmentReferenceStandardController
  PROVE  /\ IsFiniteSet(DOMAIN standards') /\ DOMAIN listed' = Sectors
         /\ ListedStandardsExist'
<1> DEFINE Goal == /\ IsFiniteSet(DOMAIN standards') /\ DOMAIN listed' = Sectors
                   /\ DOMAIN standards' = InSome(listed', Sectors)
<1>1. ASSUME NEW sector \in Sectors, NEW id \in DOMAIN standards, AddKnown(id, sector)
      PROVE  Goal
  <2>1. /\ listed' = [listed EXCEPT ![sector] = listed[sector] \cup {id}]
        /\ standards' = standards
    BY <1>1 DEF AddKnown
  <2>2. DOMAIN listed' = Sectors
    BY <2>1 DEF StandardsKept
  <2>3. \A s \in Sectors : listed'[s] = IF s = sector THEN listed[s] \cup {id} ELSE listed[s]
    BY <2>1 DEF StandardsKept
  <2>4. InSome(listed', Sectors) = InSome(listed, Sectors) \cup {id}
    BY <2>3, AddedToSome
  <2> QED BY <2>1, <2>2, <2>4 DEF StandardsKept, ListedStandardsExist, InSome
<1>2. ASSUME NEW sector \in Sectors, NEW name, NEW criterion, AddNew(name, criterion, sector)
      PROVE  Goal
  <2> DEFINE id == NextId(standards) + 1
             entry == [name |-> name, criterion |-> criterion]
  <2>1. /\ listed' = [listed EXCEPT ![sector] = listed[sector] \cup {id}]
        /\ standards' = Put(standards, id, entry)
    BY <1>2 DEF AddNew
  <2> HIDE DEF id, entry
  <2>2. DOMAIN listed' = Sectors
    BY <2>1 DEF StandardsKept
  <2>3. \A s \in Sectors : listed'[s] = IF s = sector THEN listed[s] \cup {id} ELSE listed[s]
    BY <2>1 DEF StandardsKept
  <2>4. InSome(listed', Sectors) = InSome(listed, Sectors) \cup {id}
    BY <2>3, AddedToSome
  <2>5. IsFiniteSet(DOMAIN standards') /\ DOMAIN standards' = DOMAIN standards \cup {id}
    BY <2>1, PutIsFinite DEF StandardsKept
  <2> QED BY <2>2, <2>4, <2>5 DEF StandardsKept, ListedStandardsExist, InSome
<1>3. ASSUME NEW sector \in Sectors, NEW u, NEW id, RemoveStandard(u, id, sector)
      PROVE  Goal
  <2>1. /\ listed' = [listed EXCEPT ![sector] = listed[sector] \ {id}]
        /\ standards' = IF \E s \in Sectors : id \in listed'[s] THEN standards
                        ELSE Without(standards, id)
    BY <1>3 DEF RemoveStandard, KeptStandards
  <2>2. DOMAIN listed' = Sectors
    BY <2>1 DEF StandardsKept
  <2>3. \A s \in Sectors : listed'[s] = IF s = sector THEN listed[s] \ {id} ELSE listed[s]
    BY <2>1 DEF StandardsKept
  <2>4. DOMAIN standards = InSome(listed, Sectors)
    BY DEF StandardsKept, ListedStandardsExist, InSome
  <2>5. CASE \E s \in Sectors : id \in listed'[s]
    <3>1. \A x : (\E s \in Sectors : x \in listed'[s]) <=> (\E s \in Sectors : x \in listed[s])
      BY <2>3, <2>5
    <3>2. \A x : x \in InSome(listed', Sectors) <=> x \in InSome(listed, Sectors)
      BY <3>1, InSomeList
    <3>3. InSome(listed', Sectors) = InSome(listed, Sectors)
      BY <3>2
    <3> QED BY <2>1, <2>2, <2>4, <2>5, <3>3 DEF StandardsKept
  <2>6. CASE ~ \E s \in Sectors : id \in listed'[s]
    <3>1. /\ IsFiniteSet(DOMAIN standards') /\ DOMAIN standards' = DOMAIN standards \ {id}
      BY <2>1, <2>6, WithoutIsFinite DEF StandardsKept
    <3>2. InSome(listed', Sectors) = InSome(listed, Sectors) \ {id}
      <4>1. \A s \in Sectors : listed'[s] = listed[s] \ {id}
        BY <2>3, <2>6
      <4> QED BY <4>1, RemovedFromAll
    <3> QED BY <2>2, <2>4, <3>1, <3>2
  <2> QED BY <2>5, <2>6
<1> HIDE DEF Goal
<1>4. Goal
  BY <1>1, <1>2, <1>3 DEF AssessmentReferenceStandardController, AddStandard, Known
<1> QED BY <1>4 DEF Goal, ListedStandardsExist, InSome

\* Every step keeps the standards those that are listed.
LEMMA StandardsStep == StandardsKept /\ [Next]_vars => StandardsKept'
<1> SUFFICES ASSUME StandardsKept, [Next]_vars PROVE StandardsKept'
  OBVIOUS
<1>1. CASE UNCHANGED vars
  BY <1>1 DEF vars, standardVars, StandardsKept, ListedStandardsExist
<1>2. CASE Next
  <2>1. "standards" \notin gapped' => DOMAIN standards' = 1 .. Cardinality(DOMAIN standards')
    BY <1>2 DEF Next, NoteGaps
  <2>2. CASE UNCHANGED standardVars
    BY <2>1, <2>2 DEF standardVars, StandardsKept, ListedStandardsExist
  <2>3. CASE AssessmentReferenceStandardController
    BY <2>1, <2>3, ListsKeepStandards DEF StandardsKept
  <2> QED BY <1>2, <2>2, <2>3, StepOfStandards
<1> QED BY <1>1, <1>2

\* The standards before the scenario are listed and numbered without a gap.
LEMMA StandardsInit == Init => StandardsKept
BY RecordedAssumption DEF Init, StandardsKept, ListedStandardsExist

(***************************************************************************)
(* The standards that are kept are those some sector lists, however often  *)
(* one is added and removed in how many sectors: add and remove of         *)
(* AssessmentReferenceStandardService.                                     *)
(***************************************************************************)
THEOREM StandardsStayListed == Spec => []ListedStandardsExist
<1>1. StandardsKept => ListedStandardsExist
  BY DEF StandardsKept
<1> QED BY <1>1, StandardsInit, StandardsStep, PTL DEF Spec

-----------------------------------------------------------------------------
\* Offers.

\* A step is one of the services of the catalogue or leaves it alone.
LEMMA StepOfCatalogue ==
  ASSUME Next
  PROVE  \/ ProductCategoryController \/ MaterialController
         \/ OfferController \/ AssetOperationController
         \/ UNCHANGED catalogueVars
BY DEF Next, OnlyIn

OffersKept ==
  /\ IsFiniteSet(DOMAIN offers)
  /\ "offers" \notin gapped => Gapless(offers)

\* The offers change by the creation of one or the removal of one.
LEMMA OfferSteps ==
  ASSUME Next
  PROVE  \/ UNCHANGED offers
         \/ \E entry : offers' = Put(offers, NextId(offers), entry)
         \/ \E id : offers' = Without(offers, id)
BY StepOfCatalogue
DEF ProductCategoryController, CreateProductCategory, UpdateProductCategory,
    DeleteProductCategory, MaterialController, CreateMaterial, UpdateMaterial,
    OfferController, CreateOffer, DeleteOffer,
    AssetOperationController, CreateAssetOperation, UpdateAssetOperation,
    DeleteAssetOperation, catalogueVars

\* Every step keeps the offers finite and notes a gap.
LEMMA OffersStep == OffersKept /\ [Next]_vars => OffersKept'
<1> SUFFICES ASSUME OffersKept, [Next]_vars PROVE OffersKept'
  OBVIOUS
<1>1. CASE UNCHANGED vars
  BY <1>1 DEF vars, catalogueVars, OffersKept, Gapless
<1>2. CASE Next
  <2>1. "offers" \notin gapped' => Gapless(offers)'
    BY <1>2 DEF Next, NoteGaps
  <2>2. IsFiniteSet(DOMAIN offers')
    <3>1. ASSUME NEW entry, offers' = Put(offers, NextId(offers), entry)
          PROVE  IsFiniteSet(DOMAIN offers')
      BY <3>1, PutIsFinite DEF OffersKept
    <3>2. ASSUME NEW id, offers' = Without(offers, id)
          PROVE  IsFiniteSet(DOMAIN offers')
      BY <3>2, WithoutIsFinite DEF OffersKept
    <3> QED BY <1>2, <3>1, <3>2, OfferSteps DEF OffersKept
  <2> QED BY <2>1, <2>2 DEF OffersKept
<1> QED BY <1>1, <1>2

\* The length of a map without a gap is a free id, and for standards the one after it.
LEMMA LengthIsFree ==
  ASSUME NEW reg, IsFiniteSet(DOMAIN reg)
  PROVE  /\ Gapless(reg) => NextId(reg) \notin DOMAIN reg
         /\ DOMAIN reg = 1 .. Cardinality(DOMAIN reg) => NextId(reg) + 1 \notin DOMAIN reg
<1>1. Cardinality(DOMAIN reg) \in Nat
  BY FS_CardinalityType
<1>2. \A n \in Nat : n \notin 0 .. n - 1 /\ n + 1 \notin 1 .. n
  OBVIOUS
<1> QED BY <1>1, <1>2 DEF Gapless, NextId

\* Without a gap a step leaves the offers and the standards it does not remove alone.
LEMMA EntriesStandStep ==
  ASSUME StandardsKept, OffersKept, [Next]_vars
  PROVE  /\ "offers" \notin gapped =>
              \A id \in DOMAIN offers \cap DOMAIN offers' : offers'[id] = offers[id]
         /\ "standards" \notin gapped =>
              \A id \in DOMAIN standards \cap DOMAIN standards' : standards'[id] = standards[id]
<1>1. CASE UNCHANGED vars
  BY <1>1 DEF vars, catalogueVars, standardVars
<1>2. CASE Next
  <2>1. ASSUME "offers" \notin gapped
        PROVE  \A id \in DOMAIN offers \cap DOMAIN offers' : offers'[id] = offers[id]
    <3>1. NextId(offers) \notin DOMAIN offers
      BY <2>1, LengthIsFree DEF OffersKept
    <3>2. ASSUME NEW entry, offers' = Put(offers, NextId(offers), entry), NEW id \in DOMAIN offers
          PROVE  offers'[id] = offers[id]
      BY <3>1, <3>2 DEF Put
    <3>3. ASSUME NEW removed, offers' = Without(offers, removed), NEW id \in DOMAIN offers'
          PROVE  offers'[id] = offers[id]
      BY <3>3 DEF Without
    <3> QED BY <1>2, <3>2, <3>3, OfferSteps
  <2>2. ASSUME "standards" \notin gapped, NEW id \in DOMAIN standards \cap DOMAIN standards'
        PROVE  standards'[id] = standards[id]
    <3>1. NextId(standards) + 1 \notin DOMAIN standards
      BY <2>2, LengthIsFree DEF StandardsKept
    <3>2. ASSUME NEW sector, NEW name, NEW criterion, AddNew(name, criterion, sector)
          PROVE  standards'[id] = standards[id]
      <4> DEFINE entry == [name |-> name, criterion |-> criterion]
      <4>1. standards' = Put(standards, NextId(standards) + 1, entry)
        BY <3>2 DEF AddNew
      <4> HIDE DEF entry
      <4> QED BY <2>2, <3>1, <4>1 DEF Put
    <3>3. ASSUME NEW sector, NEW u, NEW i, RemoveStandard(u, i, sector)
          PROVE  standards'[id] = standards[id]
      <4>1. standards' = standards \/ standards' = Without(standards, i)
        BY <3>3 DEF RemoveStandard, KeptStandards
      <4> QED BY <2>2, <4>1 DEF Without
    <3> QED
      BY <1>2, <3>2, <3>3, StepOfStandards
      DEF AssessmentReferenceStandardController, AddStandard, AddKnown, standardVars
  <2> QED BY <2>1, <2>2
<1> QED BY <1>1, <1>2

(***************************************************************************)
(* Offers and standards stay what they are until they are removed, unless  *)
(* a removal left a gap in their ids: the length of the map is then an id  *)
(* that may be in use, and otherwise it is free.                           *)
(***************************************************************************)
THEOREM EntriesAlwaysStand == Spec => EntriesStand
<1>1. Init => OffersKept
  <2> SUFFICES ASSUME Init PROVE OffersKept
    OBVIOUS
  <2>1. DOMAIN offers = {}
    BY DEF Init
  <2>2. DOMAIN offers = 0 .. Cardinality(DOMAIN offers) - 1
    BY <2>1, FS_EmptySet
  <2> QED BY <2>1, <2>2, FS_EmptySet DEF OffersKept, Gapless
<1>2. StandardsKept /\ OffersKept /\ [Next]_vars =>
        [/\ "offers" \notin gapped =>
              \A id \in DOMAIN offers \cap DOMAIN offers' : offers'[id] = offers[id]
         /\ "standards" \notin gapped =>
              \A id \in DOMAIN standards \cap DOMAIN standards' :
                standards'[id] = standards[id]]_vars
  BY EntriesStandStep
<1> QED
  BY <1>1, <1>2, StandardsInit, StandardsStep, OffersStep, PTL DEF Spec, EntriesStand

-----------------------------------------------------------------------------
\* Asset operations.

\* The companies' lists and the operations, id by id.
OperationsKept ==
  /\ \A id \in DOMAIN operations : \E c \in DOMAIN operationIds : id \in operationIds[c]
  /\ \A c \in DOMAIN operationIds : operationIds[c] \subseteq DOMAIN operations \cup orphaned

\* The same in terms of all the ids that are listed.
LEMMA OperationsKeptIsListed == OperationsKept <=> ListedOperationsExist
<1> DEFINE all == InSome(operationIds, DOMAIN operationIds)
<1>1. \A x : x \in all <=> \E c \in DOMAIN operationIds : x \in operationIds[c]
  BY InSomeList
<1>2. ListedOperationsExist <=>
        DOMAIN operations \subseteq all /\ all \subseteq DOMAIN operations \cup orphaned
  BY DEF ListedOperationsExist, InSome
<1> HIDE DEF all
<1> QED BY <1>1, <1>2 DEF OperationsKept

\* A new operation, also one that takes an id in use, is in its company's list.
LEMMA CreationKeepsLists ==
  ASSUME OperationsKept, NEW u, NEW inputs, NEW output, CreateAssetOperation(u, inputs, output)
  PROVE  OperationsKept'
<1> DEFINE id == NextId(operations)
           company == GetDelegatorAddress(u)
           entry == Operation(inputs, output)
<1>1. /\ operationIds' = Put(operationIds, company, ListedBy(company) \cup {id})
      /\ operations' = Put(operations, id, entry)
      /\ orphaned' = orphaned \ {id}
  BY DEF CreateAssetOperation
<1> HIDE DEF id, company, entry
<1>2. DOMAIN operations' = DOMAIN operations \cup {id}
  BY <1>1 DEF Put
<1>3. /\ DOMAIN operationIds' = DOMAIN operationIds \cup {company}
      /\ operationIds'[company] = ListedBy(company) \cup {id}
      /\ \A c \in DOMAIN operationIds \ {company} : operationIds'[c] = operationIds[c]
  BY <1>1 DEF Put
<1>4. \A c \in DOMAIN operationIds : operationIds[c] \subseteq operationIds'[c]
  BY <1>3 DEF ListedBy
<1>5. ASSUME NEW c \in DOMAIN operationIds'
      PROVE  operationIds'[c] \subseteq DOMAIN operations' \cup orphaned'
  BY <1>1, <1>2, <1>3 DEF OperationsKept, ListedBy
<1>6. ASSUME NEW i \in DOMAIN operations'
      PROVE  \E c \in DOMAIN operationIds' : i \in operationIds'[c]
  BY <1>2, <1>3, <1>4 DEF OperationsKept
<1> QED BY <1>5, <1>6 DEF OperationsKept

\* A deletion leaves the id in the lists of the other companies.
LEMMA DeletionKeepsLists ==
  ASSUME OperationsKept, NEW u, NEW id, DeleteAssetOperation(u, id)
  PROVE  OperationsKept'
<1> DEFINE company == GetDelegatorAddress(u)
<1>1. /\ operationIds' = Put(operationIds, company, ListedBy(company) \ {id})
      /\ operations' = Without(operations, id)
      /\ orphaned' = orphaned \cup
           {i \in {id} : \E c \in DOMAIN operationIds \ {company} : id \in operationIds[c]}
  BY DEF DeleteAssetOperation, Unlisted
<1> HIDE DEF company
<1>2. DOMAIN operations' = DOMAIN operations \ {id}
  BY <1>1 DEF Without
<1>3. /\ DOMAIN operationIds' = DOMAIN operationIds \cup {company}
      /\ operationIds'[company] = ListedBy(company) \ {id}
      /\ \A c \in DOMAIN operationIds \ {company} : operationIds'[c] = operationIds[c]
  BY <1>1 DEF Put
<1>4. /\ orphaned \subseteq orphaned'
      /\ \A c \in DOMAIN operationIds \ {company} : id \in operationIds[c] => id \in orphaned'
  BY <1>1
<1>5. \A c \in DOMAIN operationIds : operationIds[c] \ {id} \subseteq operationIds'[c]
  BY <1>3 DEF ListedBy
<1>6. ASSUME NEW c \in DOMAIN operationIds'
      PROVE  operationIds'[c] \subseteq DOMAIN operations' \cup orphaned'
  <2>1. CASE c = company
    BY <1>2, <1>3, <1>4, <2>1 DEF OperationsKept, ListedBy
  <2>2. CASE c # company
    BY <1>2, <1>3, <1>4, <2>2 DEF OperationsKept
  <2> QED BY <2>1, <2>2
<1>7. ASSUME NEW i \in DOMAIN operations'
      PROVE  \E c \in DOMAIN operationIds' : i \in operationIds'[c]
  BY <1>2, <1>3, <1>5 DEF OperationsKept
<1> QED BY <1>6, <1>7 DEF OperationsKept

\* Every step keeps the lists and the operations together.
LEMMA OperationsStep == OperationsKept /\ [Next]_vars => OperationsKept'
<1> SUFFICES ASSUME OperationsKept, [Next]_vars PROVE OperationsKept'
  OBVIOUS
<1>1. CASE UNCHANGED <<operations, operationIds, orphaned>>
  BY <1>1 DEF OperationsKept
<1>2. ASSUME NEW id, NEW inputs, NEW output, UpdateAssetOperation(id, inputs, output)
      PROVE  OperationsKept'
  <2>1. DOMAIN operations' = DOMAIN operations
    BY <1>2 DEF UpdateAssetOperation, Put
  <2>2. operationIds' = operationIds /\ orphaned' = orphaned
    BY <1>2 DEF UpdateAssetOperation
  <2> QED BY <2>1, <2>2 DEF OperationsKept
<1>3. CASE AssetOperationController
  BY <1>2, <1>3, CreationKeepsLists, DeletionKeepsLists DEF AssetOperationController
<1>4. CASE Next
  <2>1. \/ AssetOperationController
        \/ UNCHANGED <<operations, operationIds, orphaned>>
    BY <1>4, StepOfCatalogue
    DEF ProductCategoryController, CreateProductCategory, UpdateProductCategory,
        DeleteProductCategory, MaterialController, CreateMaterial, UpdateMaterial,
        OfferController, CreateOffer, DeleteOffer, catalogueVars
  <2> QED BY <1>1, <1>3, <2>1
<1>5. CASE UNCHANGED vars
  BY <1>1, <1>5 DEF vars, catalogueVars
<1> QED BY <1>4, <1>5

(***************************************************************************)
(* Every operation is listed by a company, and what a company lists exists *)
(* unless another company deleted it, also when ids are given again:       *)
(* create, update and delete of AssetOperationService.                     *)
(***************************************************************************)
THEOREM OperationsStayListed == Spec => []ListedOperationsExist
<1>1. Init => OperationsKept
  BY DEF Init, OperationsKept
<1>2. OperationsKept => ListedOperationsExist
  BY OperationsKeptIsListed
<1> QED BY <1>1, <1>2, OperationsStep, PTL DEF Spec

-----------------------------------------------------------------------------
\* Certificates.

\* A step is one of the service of the certificates or leaves them alone.
LEMMA StepOfCertificates ==
  ASSUME Next
  PROVE  CertificationController \/ UNCHANGED certificateVars
BY DEF Next, OnlyIn

IsSequence(s) == Len(s) \in Nat /\ s = [i \in 1 .. Len(s) |-> s[i]]

\* What Append does to a sequence of anything.
LEMMA Appended ==
  ASSUME NEW s, NEW e, IsSequence(s)
  PROVE  /\ IsSequence(Append(s, e)) /\ DOMAIN s = 1 .. Len(s)
         /\ DOMAIN Append(s, e) = DOMAIN s \cup {Len(s) + 1} /\ Len(s) + 1 \notin DOMAIN s
         /\ Append(s, e)[Len(s) + 1] = e
         /\ \A i \in DOMAIN s : Append(s, e)[i] = s[i]
<1> DEFINE S == {s[i] : i \in 1 .. Len(s)} \cup {e}
           n == Len(s)
<1>1. n \in Nat /\ DOMAIN s = 1 .. n
  BY DEF IsSequence
<1>2. s \in [1 .. n -> S]
  BY DEF IsSequence
<1>3. s \in Seq(S) /\ e \in S
  BY <1>1, <1>2
<1> HIDE DEF S
<1>4. Append(s, e) \in Seq(S)
  BY <1>3
<1>5. Len(Append(s, e)) = n + 1 /\ DOMAIN Append(s, e) = 1 .. n + 1
  BY <1>3
<1>6. Append(s, e)[n + 1] = e /\ \A i \in 1 .. n : Append(s, e)[i] = s[i]
  BY <1>3
<1>7. Append(s, e) = [i \in 1 .. n + 1 |-> Append(s, e)[i]]
  <2>1. \A t \in Seq(S) : t = [i \in 1 .. Len(t) |-> t[i]]
    OBVIOUS
  <2> QED BY <1>4, <1>5, <2>1
<1>8. 1 .. n + 1 = (1 .. n) \cup {n + 1} /\ n + 1 \notin 1 .. n /\ n + 1 \in Nat
  BY <1>1
<1> QED BY <1>1, <1>5, <1>6, <1>7, <1>8 DEF IsSequence

CertificateFields ==
  {"id", "uploadedBy", "standard", "level", "document", "evaluation", "material"}

\* The place a record leads to is the only one with its id.
LeadsTo(id) ==
  /\ records[id] \in Lists
  /\ \E i \in DOMAIN certificates[records[id]] : PlacesIn(records[id], id) = {i}

\* A certificate in a list has a record that says so.
Recorded(list, i) ==
  LET c == certificates[list][i]
  IN  DOMAIN c = CertificateFields /\ c.id \in DOMAIN records /\ records[c.id] = list

CertificatesKept ==
  /\ IsFiniteSet(DOMAIN records) /\ DOMAIN records = 1 .. Cardinality(DOMAIN records)
  /\ DOMAIN certificates = Lists
  /\ \A list \in Lists :
       /\ IsSequence(certificates[list])
       /\ \A i \in DOMAIN certificates[list] : Recorded(list, i)
  /\ \A id \in DOMAIN records : LeadsTo(id)

\* The records of the certificates there are lead to them.
LEMMA KeptCertificatesAreFound == CertificatesKept => RecordsFindCertificates
<1> SUFFICES ASSUME CertificatesKept PROVE RecordsFindCertificates
  OBVIOUS
<1>1. ASSUME NEW id \in DOMAIN records PROVE Cardinality(PlacesIn(records[id], id)) = 1
  <2>1. PICK i : PlacesIn(records[id], id) = {i}
    BY DEF CertificatesKept, LeadsTo
  <2> QED BY <2>1, FS_Singleton
<1>2. ASSUME NEW list \in Lists, NEW i \in DOMAIN certificates[list]
      PROVE  LET id == certificates[list][i].id IN id \in DOMAIN records /\ records[id] = list
  BY DEF CertificatesKept, Recorded
<1> QED BY <1>1, <1>2 DEF RecordsFindCertificates

\* A new certificate is appended with the next number, which no other has.
LEMMA RegisterKeepsRecords ==
  ASSUME CertificatesKept, NEW u, NEW list \in Lists, NEW standard, NEW level, NEW document,
         NEW material, Register(u, list, standard, level, document, material)
  PROVE  /\ CertificatesKept'
         /\ DOMAIN records \subseteq DOMAIN records'
         /\ \A id \in DOMAIN records : /\ records'[id] = records[id]
                                       /\ Certificate(id)' = Certificate(id)
<1>n. PICK n \in Nat : n = Cardinality(DOMAIN records)
  BY FS_CardinalityType DEF CertificatesKept
<1> DEFINE old == certificates[list]
           new == [id |-> n + 1, uploadedBy |-> GetDelegatorAddress(u),
                   standard |-> standards[standard], level |-> level, document |-> document,
                   evaluation |-> "NOT_EVALUATED", material |-> material]
<1>1. /\ certificates' = [certificates EXCEPT ![list] = Append(old, new)]
      /\ records' = Put(records, n + 1, list)
  BY <1>n DEF Register, NextCertificateId, NextId
<1>2. DOMAIN new = CertificateFields /\ new.id = n + 1
  BY DEF CertificateFields
<1> HIDE DEF new
<1>3. DOMAIN records = 1 .. n /\ n + 1 \notin DOMAIN records
  BY <1>n DEF CertificatesKept
<1>4. /\ IsFiniteSet(DOMAIN records') /\ DOMAIN records' = DOMAIN records \cup {n + 1}
      /\ records'[n + 1] = list
      /\ \A id \in DOMAIN records : records'[id] = records[id]
  <2>1. IsFiniteSet(DOMAIN records)
    BY DEF CertificatesKept
  <2> DEFINE next == Put(records, n + 1, list)
  <2>2. /\ IsFiniteSet(DOMAIN next) /\ DOMAIN next = DOMAIN records \cup {n + 1}
        /\ next[n + 1] = list
        /\ \A i \in DOMAIN records : i # n + 1 => next[i] = records[i]
    <3>1. \A id : IsFiniteSet(DOMAIN records \cup {id})
      BY <2>1, FS_AddElement
    <3> QED BY <3>1 DEF Put
  <2>3. records' = next
    BY <1>1
  <2> HIDE DEF next
  <2> QED BY <1>3, <2>2, <2>3
<1>5. DOMAIN records' = 1 .. Cardinality(DOMAIN records')
  <2>1. Cardinality(DOMAIN records') = n + 1
    BY <1>n, <1>3, <1>4, FS_AddElement DEF CertificatesKept
  <2> QED BY <1>3, <1>4, <2>1
<1>6. DOMAIN certificates' = Lists
  BY <1>1 DEF CertificatesKept
<1>7. \A l \in Lists : certificates'[l] = IF l = list THEN Append(old, new) ELSE certificates[l]
  BY <1>1 DEF CertificatesKept
<1>8. /\ IsSequence(old) /\ IsSequence(Append(old, new))
      /\ DOMAIN Append(old, new) = DOMAIN old \cup {Len(old) + 1} /\ Len(old) + 1 \notin DOMAIN old
      /\ Append(old, new)[Len(old) + 1] = new
      /\ \A i \in DOMAIN old : Append(old, new)[i] = old[i]
  BY Appended DEF CertificatesKept
<1>k. PICK k : k = Len(old) + 1
  OBVIOUS
<1> HIDE DEF old
<1>9. ASSUME NEW l \in Lists
      PROVE  /\ IsSequence(certificates'[l])
             /\ \A i \in DOMAIN certificates'[l] : Recorded(l, i)'
  <2>1. CASE l # list
    BY <1>4, <1>7, <2>1 DEF CertificatesKept, Recorded
  <2>2. CASE l = list
    <3>1. certificates'[l] = Append(old, new)
      BY <1>7, <2>2
    <3>2. ASSUME NEW i \in DOMAIN old PROVE Recorded(l, i)'
      <4>1. Recorded(l, i)
        BY <2>2 DEF CertificatesKept, old
      <4>2. certificates'[l][i] = certificates[l][i]
        BY <1>8, <2>2, <3>1 DEF old
      <4> QED BY <1>4, <4>1, <4>2 DEF Recorded
    <3>3. Recorded(l, k)'
      <4>1. certificates'[l][k] = new
        BY <1>k, <1>8, <3>1
      <4> QED BY <1>2, <1>4, <2>2, <4>1 DEF Recorded
    <3> QED BY <1>k, <1>8, <3>1, <3>2, <3>3
  <2> QED BY <2>1, <2>2
<1>10. ASSUME NEW id \in DOMAIN records
       PROVE  Certificate(id)' = Certificate(id) /\ LeadsTo(id)'
  <2>1. records[id] \in Lists /\ records'[id] = records[id]
    BY <1>4 DEF CertificatesKept, LeadsTo
  <2>2. n + 1 # id
    BY <1>3
  <2>3. PlacesIn(records[id], id)' = PlacesIn(records[id], id)
    <3>1. CASE records[id] # list
      BY <1>7, <2>1, <3>1 DEF PlacesIn
    <3>2. CASE records[id] = list
      <4>1. certificates'[list] = Append(old, new)
        BY <1>7
      <4>2. \A i \in DOMAIN old \cup {Len(old) + 1} :
              Append(old, new)[i].id = id <=> i \in DOMAIN old /\ old[i].id = id
        BY <1>2, <1>8, <2>2
      <4>3. PlacesIn(list, id)' = {i \in DOMAIN old : old[i].id = id}
        BY <1>8, <4>1, <4>2 DEF PlacesIn
      <4> QED BY <2>1, <3>2, <4>3 DEF PlacesIn, old
    <3> QED BY <3>1, <3>2
  <2>4. DOMAIN certificates[records[id]] \subseteq DOMAIN certificates'[records[id]]
    BY <1>7, <1>8, <2>1 DEF old
  <2>5. LeadsTo(id)'
    BY <2>1, <2>3, <2>4 DEF LeadsTo, CertificatesKept, PlacesIn
  <2>6. PICK i : i \in DOMAIN certificates[records[id]] /\ PlacesIn(records[id], id) = {i}
    BY DEF CertificatesKept, LeadsTo
  <2>7. (CHOOSE j \in {i} : TRUE) = i
    OBVIOUS
  <2>8. certificates'[records[id]][i] = certificates[records[id]][i]
    BY <1>7, <1>8, <2>1, <2>6 DEF old
  <2>9. Certificate(id)' = Certificate(id)
    BY <2>1, <2>3, <2>6, <2>7, <2>8 DEF Certificate
  <2> QED BY <2>5, <2>9
<1>11. LeadsTo(n + 1)'
  <2>1. certificates'[list] = Append(old, new)
    BY <1>7
  <2>2. \A i \in DOMAIN old : old[i].id # n + 1
    BY <1>3 DEF CertificatesKept, Recorded, old
  <2>3. \A i \in DOMAIN old \cup {Len(old) + 1} :
          Append(old, new)[i].id = n + 1 <=> i = Len(old) + 1
    BY <1>2, <1>8, <2>2
  <2>4. PlacesIn(list, n + 1)' = {k}
    BY <1>k, <1>8, <2>1, <2>3 DEF PlacesIn
  <2>5. k \in DOMAIN certificates'[list]
    BY <1>k, <1>8, <2>1
  <2>6. records'[n + 1] = list
    BY <1>4
  <2>7. PlacesIn(records[n + 1], n + 1)' = {k}
    BY <2>4, <2>6 DEF PlacesIn
  <2> QED BY <2>5, <2>6, <2>7 DEF LeadsTo
<1>12. \A id \in DOMAIN records' : LeadsTo(id)'
  BY <1>4, <1>10, <1>11
<1> QED BY <1>4, <1>5, <1>6, <1>9, <1>10, <1>12 DEF CertificatesKept

\* The place of a certificate is where its record leads.
LEMMA PlaceIsFound ==
  ASSUME CertificatesKept, NEW id \in DOMAIN records
  PROVE  /\ records[id] \in Lists
         /\ Place(id) \in DOMAIN certificates[records[id]]
         /\ PlacesIn(records[id], id) = {Place(id)}
         /\ CertificateWith(id) = certificates[records[id]][Place(id)]
         /\ CertificateWith(id).id = id /\ DOMAIN CertificateWith(id) = CertificateFields
         /\ Certificate(id) = CertificateWith(id)
<1> DEFINE list == records[id]
<1>1. list \in Lists
  BY DEF CertificatesKept, LeadsTo
<1>2. PICK i \in DOMAIN certificates[list] : PlacesIn(list, id) = {i}
  BY DEF CertificatesKept, LeadsTo
<1>3. DOMAIN certificates[list] = 1 .. Len(certificates[list])
  BY <1>1, Appended DEF CertificatesKept
<1>4. certificates[list][i].id = id
  BY <1>2 DEF PlacesIn
<1>5. \A j \in DOMAIN certificates[list] : certificates[list][j].id = id => j = i
  BY <1>2 DEF PlacesIn
<1>6. Place(id) = i
  <2> DEFINE I == {j \in 1 .. Len(certificates[list]) : certificates[list][j].id = id}
  <2>1. I = {i}
    BY <1>2, <1>3, <1>4, <1>5
  <2>2. i \in Nat
    BY <1>1, <1>2, <1>3 DEF CertificatesKept, IsSequence
  <2>3. (CHOOSE x \in {i} : \A y \in {i} : x =< y) = i
    BY <2>2
  <2> QED BY <2>1, <2>3 DEF Place, SelectInSeq, Min
<1>7. CertificateWith(id) = certificates[list][i]
  BY <1>6 DEF CertificateWith
<1>8. DOMAIN certificates[list][i] = CertificateFields
  BY <1>1, <1>2 DEF CertificatesKept, Recorded
<1>9. (CHOOSE j \in PlacesIn(list, id) : TRUE) = i
  BY <1>2
<1>10. Certificate(id) = certificates[list][i]
  BY <1>9 DEF Certificate
<1> QED BY <1>1, <1>2, <1>4, <1>6, <1>7, <1>8, <1>10

\* Replacing an element leaves the places of a sequence.
LEMMA Replaced ==
  ASSUME NEW s, NEW p, NEW e, IsSequence(s), p \in DOMAIN s
  PROVE  /\ IsSequence([s EXCEPT ![p] = e])
         /\ DOMAIN [s EXCEPT ![p] = e] = DOMAIN s
         /\ [s EXCEPT ![p] = e][p] = e
         /\ \A i \in DOMAIN s : i # p => [s EXCEPT ![p] = e][i] = s[i]
<1> DEFINE S == {s[i] : i \in 1 .. Len(s)} \cup {e}
           t == [s EXCEPT ![p] = e]
<1>1. Len(s) \in Nat /\ DOMAIN s = 1 .. Len(s) /\ s \in [1 .. Len(s) -> S] /\ e \in S
  BY DEF IsSequence
<1> HIDE DEF S
<1>2. t \in [1 .. Len(s) -> S]
  BY <1>1
<1>3. Len(t) = Len(s)
  BY <1>1, <1>2
<1>4. t = [i \in 1 .. Len(t) |-> t[i]]
  BY <1>2, <1>3
<1>5. DOMAIN t = DOMAIN s /\ t[p] = e /\ \A i \in DOMAIN s : i # p => t[i] = s[i]
  OBVIOUS
<1> QED BY <1>1, <1>3, <1>4, <1>5 DEF IsSequence

\* An update of a certificate that keeps its id keeps what leads to it.
LEMMA UpdateKeepsRecords ==
  ASSUME CertificatesKept, NEW id \in DOMAIN records, NEW new,
         DOMAIN new = CertificateFields, new.id = id, UpdateCertificate(id, new)
  PROVE  /\ CertificatesKept'
         /\ records' = records
         /\ \A j \in DOMAIN records : Certificate(j)' = IF j = id THEN new ELSE Certificate(j)
<1>l. PICK list \in Lists : list = records[id]
  BY DEF CertificatesKept, LeadsTo
<1>p. PICK p : p = Place(id)
  OBVIOUS
<1>s. PICK old : old = certificates[list]
  OBVIOUS
<1>1. /\ p \in DOMAIN old /\ PlacesIn(list, id) = {p} /\ old[p].id = id
      /\ IsSequence(old)
  BY <1>l, <1>p, <1>s, PlaceIsFound DEF CertificatesKept
<1>2. certificates' = [certificates EXCEPT ![list] = [old EXCEPT ![p] = new]]
  BY <1>l, <1>p, <1>s DEF UpdateCertificate
<1>3. records' = records
  BY DEF UpdateCertificate
<1> DEFINE next == [old EXCEPT ![p] = new]
<1>4. /\ IsSequence(next) /\ DOMAIN next = DOMAIN old
      /\ next[p] = new /\ \A i \in DOMAIN old : i # p => next[i] = old[i]
  BY <1>1, Replaced
<1>5. /\ DOMAIN certificates' = Lists
      /\ \A l \in Lists : certificates'[l] = IF l = list THEN next ELSE certificates[l]
  BY <1>2 DEF CertificatesKept
<1> HIDE DEF next
<1>6. \A i \in DOMAIN old : next[i].id = old[i].id
  BY <1>1, <1>4
<1>7. ASSUME NEW l \in Lists
      PROVE  /\ IsSequence(certificates'[l])
             /\ DOMAIN certificates'[l] = DOMAIN certificates[l]
             /\ \A i \in DOMAIN certificates[l] :
                  certificates'[l][i].id = certificates[l][i].id /\ Recorded(l, i)'
  <2>1. CASE l # list
    BY <1>3, <1>5, <2>1 DEF CertificatesKept, Recorded
  <2>2. CASE l = list
    <3>1. certificates'[l] = next /\ certificates[l] = old
      BY <1>s, <1>5, <2>2
    <3>2. ASSUME NEW i \in DOMAIN old PROVE Recorded(l, i)'
      <4>1. Recorded(l, i)
        BY <3>1 DEF CertificatesKept
      <4>2. DOMAIN next[i] = CertificateFields /\ next[i].id = old[i].id
        BY <1>4, <1>6, <3>1, <4>1 DEF Recorded
      <4> QED BY <1>3, <3>1, <4>1, <4>2 DEF Recorded
    <3> QED BY <1>4, <1>6, <3>1, <3>2
  <2> QED BY <2>1, <2>2
<1>8. ASSUME NEW j \in DOMAIN records
      PROVE  PlacesIn(records[j], j)' = PlacesIn(records[j], j) /\ LeadsTo(j)'
  <2>1. records[j] \in Lists
    BY DEF CertificatesKept, LeadsTo
  <2>2. PlacesIn(records[j], j)' = PlacesIn(records[j], j)
    BY <1>3, <1>7, <2>1 DEF PlacesIn
  <2> QED BY <1>3, <1>7, <2>1, <2>2 DEF LeadsTo, CertificatesKept
<1>9. CertificatesKept'
  BY <1>3, <1>5, <1>7, <1>8 DEF CertificatesKept
<1>10. ASSUME NEW j \in DOMAIN records
       PROVE  Certificate(j)' = IF j = id THEN new ELSE Certificate(j)
  <2>1. PICK i : i = Place(j)
    OBVIOUS
  <2>2. PlacesIn(records[j], j) = {i} /\ records[j] \in Lists /\ i \in DOMAIN certificates[records[j]]
    BY <2>1, PlaceIsFound
  <2>3. (CHOOSE k \in {i} : TRUE) = i
    OBVIOUS
  <2>4. Certificate(j) = certificates[records[j]][i] /\ Certificate(j)' = certificates'[records[j]][i]
    BY <1>3, <1>8, <2>2, <2>3 DEF Certificate
  <2>5. CASE j = id
    BY <1>l, <1>p, <1>4, <1>5, <2>1, <2>4, <2>5
  <2>6. CASE j # id
    <3>1. CASE records[j] # list
      BY <1>5, <2>2, <2>4, <2>6, <3>1
    <3>2. CASE records[j] = list
      <4>1. certificates[list][i].id = j
        BY <2>2, <3>2 DEF PlacesIn
      <4>2. i # p
        BY <1>s, <1>1, <2>6, <4>1
      <4> QED BY <1>s, <1>4, <1>5, <2>2, <2>4, <2>6, <3>2, <4>2
    <3> QED BY <3>1, <3>2
  <2> QED BY <2>5, <2>6
<1> QED BY <1>3, <1>9, <1>10

\* The update of a certificate keeps its id; what it attests is changed by its uploader.
Revision(u, id, new) ==
  /\ DOMAIN new = CertificateFields /\ new.id = id
  /\ UpdateCertificate(id, new)
  /\ \/ CertificateWith(id).uploadedBy = GetDelegatorAddress(u)
     \/ /\ new.standard = CertificateWith(id).standard
        /\ new.material = CertificateWith(id).material

\* The operations on a certificate that exists are such updates.
LEMMA UpdatesAreRevisions ==
  ASSUME CertificatesKept, NEW u, NEW id \in DOMAIN records, NEW standard, NEW level,
         NEW material, NEW document, NEW evaluation,
         \/ UpdateCompanyCertificate(u, id, standard, level)
         \/ UpdateScopeCertificate(u, id, standard, level)
         \/ UpdateMaterialCertificate(u, id, standard, level, material)
         \/ UpdateDocument(id, document)
         \/ EvaluateDocument(id, evaluation)
  PROVE  \E new : Revision(u, id, new)
<1> DEFINE old == CertificateWith(id)
<1>1. DOMAIN old = CertificateFields /\ old.id = id
  BY PlaceIsFound
<1>2. CASE \/ UpdateCompanyCertificate(u, id, standard, level)
           \/ UpdateScopeCertificate(u, id, standard, level)
           \/ UpdateMaterialCertificate(u, id, standard, level, material)
  <2> DEFINE updated == [old EXCEPT !.standard = standards[standard], !.level = level]
  <2>1. /\ DOMAIN updated = CertificateFields /\ updated.id = id
        /\ DOMAIN [updated EXCEPT !.material = material] = CertificateFields
        /\ [updated EXCEPT !.material = material].id = id
    <3> HIDE DEF old
    <3> QED BY <1>1 DEF CertificateFields
  <2>2. /\ old.uploadedBy = GetDelegatorAddress(u)
        /\ \/ UpdateCertificate(id, updated)
           \/ UpdateCertificate(id, [updated EXCEPT !.material = material])
    BY <1>2 DEF UpdateCompanyCertificate, UpdateScopeCertificate, UpdateMaterialCertificate,
                MayUpdate, Updated
  <2> HIDE DEF updated
  <2> QED BY <2>1, <2>2 DEF Revision
<1>3. CASE UpdateDocument(id, document)
  <2> DEFINE new == [old EXCEPT !.document = document]
  <2>1. /\ DOMAIN new = CertificateFields /\ new.id = id
        /\ new.standard = old.standard /\ new.material = old.material
    <3> HIDE DEF old
    <3> QED BY <1>1 DEF CertificateFields
  <2>2. UpdateCertificate(id, new)
    BY <1>3 DEF UpdateDocument
  <2> HIDE DEF new
  <2> QED BY <2>1, <2>2 DEF Revision
<1>4. CASE EvaluateDocument(id, evaluation)
  <2> DEFINE new == [old EXCEPT !.evaluation = evaluation]
  <2>1. /\ DOMAIN new = CertificateFields /\ new.id = id
        /\ new.standard = old.standard /\ new.material = old.material
    <3> HIDE DEF old
    <3> QED BY <1>1 DEF CertificateFields
  <2>2. UpdateCertificate(id, new)
    BY <1>4 DEF EvaluateDocument
  <2> HIDE DEF new
  <2> QED BY <2>1, <2>2 DEF Revision
<1> QED BY <1>2, <1>3, <1>4

\* A step of the service registers a certificate or is such an update.
LEMMA CertificateSteps ==
  ASSUME CertificatesKept, CertificationController
  PROVE  \E u \in Users :
           /\ AtLeast(u, "Editor")
           /\ \/ \E list \in Lists : \E standard, level, document, material :
                   Register(u, list, standard, level, document, material)
              \/ \E id \in DOMAIN records : \E new : Revision(u, id, new)
<1>1. PICK u \in Users :
        /\ AtLeast(u, "Editor")
        /\ \/ \E subject \in Companies : \E standard, level, document, material :
                \/ RegisterCompanyCertificate(u, subject, standard, level, document)
                \/ RegisterScopeCertificate(u, subject, standard, level, document)
                \/ RegisterMaterialCertificate(u, subject, standard, level, document, material)
           \/ \E id \in DOMAIN records : \E standard, level, material, document, evaluation :
                \/ UpdateCompanyCertificate(u, id, standard, level)
                \/ UpdateScopeCertificate(u, id, standard, level)
                \/ UpdateMaterialCertificate(u, id, standard, level, material)
                \/ UpdateDocument(id, document)
                \/ EvaluateDocument(id, evaluation)
  BY DEF CertificationController
<1>2. \A kind \in Kinds, subject \in Companies : [kind |-> kind, subject |-> subject] \in Lists
  BY DEF Lists
<1>3. ASSUME NEW subject \in Companies, NEW standard, NEW level, NEW document, NEW material,
             \/ RegisterCompanyCertificate(u, subject, standard, level, document)
             \/ RegisterScopeCertificate(u, subject, standard, level, document)
             \/ RegisterMaterialCertificate(u, subject, standard, level, document, material)
      PROVE  \E list \in Lists : \E m : Register(u, list, standard, level, document, m)
  BY <1>2, <1>3
  DEF RegisterCompanyCertificate, RegisterScopeCertificate, RegisterMaterialCertificate, Kinds
<1> QED BY <1>1, <1>3, UpdatesAreRevisions

\* Every step keeps what leads to the certificates.
LEMMA CertificatesStep == CertificatesKept /\ [Next]_vars => CertificatesKept'
<1> SUFFICES ASSUME CertificatesKept, [Next]_vars PROVE CertificatesKept'
  OBVIOUS
<1>1. CASE UNCHANGED certificateVars
  BY <1>1 DEF certificateVars, CertificatesKept, Recorded, LeadsTo, PlacesIn
<1>2. CASE CertificationController
  BY <1>2, CertificateSteps, RegisterKeepsRecords, UpdateKeepsRecords DEF Revision
<1> QED BY <1>1, <1>2, StepOfCertificates DEF vars

\* There is no certificate before the scenario.
LEMMA CertificatesInit == Init => CertificatesKept
<1> SUFFICES ASSUME Init PROVE CertificatesKept
  OBVIOUS
<1>1. DOMAIN records = {} /\ certificates = [list \in Lists |-> <<>>]
  BY DEF Init
<1>2. DOMAIN records = 1 .. Cardinality(DOMAIN records) /\ IsFiniteSet(DOMAIN records)
  BY <1>1, FS_EmptySet
<1>3. IsSequence(<<>>) /\ DOMAIN <<>> = {}
  BY DEF IsSequence
<1>4. \A list \in Lists : certificates[list] = <<>>
  BY <1>1
<1> QED BY <1>1, <1>2, <1>3, <1>4 DEF CertificatesKept

(***************************************************************************)
(* The record of every certificate leads to it, and to one only, and no    *)
(* certificate is without a record, although both the lists and the        *)
(* records are changed by every registration: CertificationService.        *)
(***************************************************************************)
THEOREM RecordsAlwaysFind == Spec => []RecordsFindCertificates
BY CertificatesInit, CertificatesStep, KeptCertificatesAreFound, PTL DEF Spec

-----------------------------------------------------------------------------
\* Shipments of confirmed orders.

Parties(order) ==
  [supplier |-> order.terms.supplier, commissioner |-> order.terms.commissioner]

\* A waiting call has the id of the next shipment, or one another call waited for too.
ShipmentsApart ==
  /\ IsFiniteSet(DOMAIN shipments) /\ Gapless(shipments)
  /\ \A d \in DOMAIN signing :
       /\ signing[d].shipment \in 0 .. Cardinality(DOMAIN shipments)
       /\ signing[d].shipment \in DOMAIN shipments => signing[d].shipment \in contested
  /\ \A d, e \in DOMAIN signing :
       d # e /\ signing[d].shipment = signing[e].shipment => signing[d].shipment \in contested

\* An order has no shipment until it is confirmed, and then one of its own.
HasOwnShipment(id) ==
  /\ orders[id].status \in {"PENDING", "CONFIRMED"}
  /\ orders[id].status = "PENDING" => orders[id].shipment = NoShipment
  /\ orders[id].status = "CONFIRMED" =>
       /\ orders[id].shipment \in DOMAIN shipments
       /\ orders[id].shipment \notin contested =>
            shipments[orders[id].shipment] = Parties(orders[id])

ShipmentsKept ==
  /\ ShipmentsApart
  /\ \A id \in DOMAIN orders : HasOwnShipment(id)
  /\ \A id, other \in DOMAIN orders :
       /\ id # other /\ orders[id].status = "CONFIRMED" /\ orders[other].status = "CONFIRMED"
       /\ orders[id].shipment = orders[other].shipment
       => orders[id].shipment \in contested

\* The ids of shipments are natural numbers.
LEMMA ShipmentNumbers ==
  ASSUME ShipmentsApart
  PROVE  /\ Cardinality(DOMAIN shipments) \in Nat
         /\ DOMAIN shipments = 0 .. Cardinality(DOMAIN shipments) - 1
         /\ NoShipment \notin DOMAIN shipments
         /\ NextId(shipments) = Cardinality(DOMAIN shipments)
<1>1. /\ Cardinality(DOMAIN shipments) \in Nat
      /\ DOMAIN shipments = 0 .. Cardinality(DOMAIN shipments) - 1
  BY FS_CardinalityType DEF ShipmentsApart, Gapless
<1>2. \A n \in Nat : 0 - 1 \notin 0 .. n - 1
  OBVIOUS
<1> QED BY <1>1, <1>2 DEF NoShipment, NextId

\* So that the confirmed orders have a shipment each.
LEMMA KeptShipmentsAreOwn == ShipmentsKept => ConfirmedOwnShipment
<1> SUFFICES ASSUME ShipmentsKept, NEW id \in DOMAIN orders, orders[id].status = "CONFIRMED"
             PROVE  LET s == orders[id].shipment
                    IN  /\ s \in DOMAIN shipments
                        /\ s \notin contested =>
                             /\ shipments[s] = Parties(orders[id])
                             /\ \A other \in DOMAIN orders \ {id} : orders[other].shipment # s
  BY DEF ConfirmedOwnShipment, Parties
<1>1. /\ orders[id].shipment \in DOMAIN shipments
      /\ orders[id].shipment \notin contested =>
           shipments[orders[id].shipment] = Parties(orders[id])
  BY DEF ShipmentsKept, HasOwnShipment
<1>2. ASSUME NEW other \in DOMAIN orders \ {id}, orders[id].shipment \notin contested
      PROVE  orders[other].shipment # orders[id].shipment
  <2>1. CASE orders[other].status = "CONFIRMED"
    BY <1>2, <2>1 DEF ShipmentsKept
  <2>2. CASE orders[other].status # "CONFIRMED"
    BY <1>1, <1>2, <2>2, ShipmentNumbers DEF ShipmentsKept, HasOwnShipment
  <2> QED BY <2>1, <2>2
<1> QED BY <1>1, <1>2

\* Inserting or removing an order that is not confirmed.
LEMMA OpenOrdersKeepShipments ==
  ASSUME ShipmentsKept, UNCHANGED <<shipments, signing, contested>>,
         \A id \in DOMAIN orders' :
           \/ id \in DOMAIN orders /\ orders'[id] = orders[id]
           \/ orders'[id].status = "PENDING" /\ orders'[id].shipment = NoShipment
  PROVE  ShipmentsKept'
<1>1. ShipmentsApart'
  BY DEF ShipmentsKept, ShipmentsApart, Gapless
<1>2. \A id \in DOMAIN orders' : HasOwnShipment(id)'
  BY DEF ShipmentsKept, HasOwnShipment, Parties
<1>3. \A id \in DOMAIN orders' :
        orders'[id].status = "CONFIRMED" => id \in DOMAIN orders /\ orders'[id] = orders[id]
  OBVIOUS
<1> QED BY <1>1, <1>2, <1>3 DEF ShipmentsKept

\* A call that starts to wait takes the next id, which another call may have taken.
LEMMA WaitingKeepsShipments ==
  ASSUME ShipmentsKept, NEW slot, NEW id, NEW order, CreateShipment(slot, id, order)
  PROVE  ShipmentsKept'
<1>n. PICK n \in Nat : n = Cardinality(DOMAIN shipments)
  BY ShipmentNumbers DEF ShipmentsKept
<1>1. /\ slot \notin DOMAIN signing
      /\ signing' = Put(signing, slot, [id |-> id, order |-> order, shipment |-> n])
      /\ contested' = contested \cup {i \in {n} : \E d \in DOMAIN signing : signing[d].shipment = i}
      /\ orders' = orders /\ shipments' = shipments
  BY <1>n DEF CreateShipment, NextId
<1>2. /\ DOMAIN signing' = DOMAIN signing \cup {slot} /\ signing'[slot].shipment = n
      /\ \A d \in DOMAIN signing : signing'[d] = signing[d]
  BY <1>1 DEF Put
<1>3. /\ contested \subseteq contested'
      /\ (\E d \in DOMAIN signing : signing[d].shipment = n) => n \in contested'
  BY <1>1
<1>4. n \in 0 .. n /\ n \notin DOMAIN shipments
  <2>1. DOMAIN shipments = 0 .. n - 1
    BY <1>n, ShipmentNumbers DEF ShipmentsKept
  <2> QED BY <2>1
<1>5. ShipmentsApart'
  <2>1. IsFiniteSet(DOMAIN shipments') /\ Gapless(shipments)'
    BY <1>1 DEF ShipmentsKept, ShipmentsApart, Gapless
  <2>2. ASSUME NEW d \in DOMAIN signing'
        PROVE  /\ signing'[d].shipment \in 0 .. Cardinality(DOMAIN shipments')
               /\ signing'[d].shipment \in DOMAIN shipments' => signing'[d].shipment \in contested'
    <3>1. CASE d = slot
      BY <1>n, <1>1, <1>2, <1>4, <3>1
    <3>2. CASE d # slot
      BY <1>1, <1>2, <1>3, <3>2 DEF ShipmentsKept, ShipmentsApart
    <3> QED BY <3>1, <3>2
  <2>3. ASSUME NEW d \in DOMAIN signing', NEW e \in DOMAIN signing', d # e,
               signing'[d].shipment = signing'[e].shipment
        PROVE  signing'[d].shipment \in contested'
    BY <1>2, <1>3, <2>3 DEF ShipmentsKept, ShipmentsApart
  <2> QED BY <2>1, <2>2, <2>3 DEF ShipmentsApart
<1>6. \A i \in DOMAIN orders' : HasOwnShipment(i)'
  BY <1>1, <1>3 DEF ShipmentsKept, HasOwnShipment, Parties
<1> QED BY <1>1, <1>3, <1>5, <1>6 DEF ShipmentsKept

\* A call that ends gives its order the shipment it inserts.
LEMMA AnswerKeepsShipments ==
  ASSUME ShipmentsKept, SoundOrders, NEW slot \in DOMAIN signing, NEW sent,
         RegistrationAnswered(slot, sent)
  PROVE  ShipmentsKept'
<1>c. PICK call : call = signing[slot]
  OBVIOUS
<1>n. PICK n \in Nat : n = Cardinality(DOMAIN shipments) /\ DOMAIN shipments = 0 .. n - 1
  BY ShipmentNumbers DEF ShipmentsKept
<1>1. /\ DOMAIN signing' = DOMAIN signing \ {slot} /\ contested' = contested
      /\ \A d \in DOMAIN signing' : signing'[d] = signing[d]
  BY DEF RegistrationAnswered, Without
<1>2. CASE ~ sent
  <2>1. shipments' = shipments /\ orders' = orders
    BY <1>2 DEF RegistrationAnswered
  <2>2. ShipmentsApart'
    BY <1>1, <2>1 DEF ShipmentsKept, ShipmentsApart, Gapless
  <2>3. \A i \in DOMAIN orders' : HasOwnShipment(i)'
    BY <1>1, <2>1 DEF ShipmentsKept, HasOwnShipment, Parties
  <2> QED BY <1>1, <2>1, <2>2, <2>3 DEF ShipmentsKept
<1>3. CASE sent
  <2>s. PICK s \in 0 .. n : s = call.shipment
    BY <1>c, <1>n DEF ShipmentsKept, ShipmentsApart
  <2> DEFINE confirmed == Confirmed(call)
             made == Parties(call.order)
  <2>1. /\ shipments' = Put(shipments, s, made)
        /\ orders' = Put(orders, call.id, confirmed)
    BY <1>c, <1>3, <2>s DEF RegistrationAnswered, Parties
  <2>2. /\ confirmed.status = "CONFIRMED" /\ confirmed.shipment = s
        /\ Parties(confirmed) = made
    <3>1. SoundOrder(call.order)
      BY <1>c DEF SoundOrders
    <3> QED BY <2>s, <3>1 DEF SoundOrder, Confirmed, Parties
  <2> HIDE DEF confirmed, made
  <2>3. /\ DOMAIN shipments' = DOMAIN shipments \cup {s} /\ shipments'[s] = made
        /\ \A i \in DOMAIN shipments : i # s => shipments'[i] = shipments[i]
    BY <2>1 DEF Put
  <2>4. /\ DOMAIN orders' = DOMAIN orders \cup {call.id} /\ orders'[call.id] = confirmed
        /\ \A i \in DOMAIN orders : i # call.id => orders'[i] = orders[i]
    BY <2>1 DEF Put
  <2>5. s \in DOMAIN shipments => s \in contested
    BY <1>c, <2>s DEF ShipmentsKept, ShipmentsApart
  <2>6. \A d \in DOMAIN signing' : signing'[d].shipment = s => s \in contested
    BY <1>c, <1>1, <2>s DEF ShipmentsKept, ShipmentsApart
  <2>7. ShipmentsApart'
    <3>1. PICK m \in Nat : /\ DOMAIN shipments' = 0 .. m - 1 /\ n <= m
                           /\ Cardinality(DOMAIN shipments') = m
      <4>1. CASE s = n
        <5>1. 0 .. (n + 1) - 1 = (0 .. n - 1) \cup {n} /\ n + 1 \in Nat /\ n <= n + 1
          OBVIOUS
        <5>2. DOMAIN shipments' = 0 .. (n + 1) - 1
          BY <1>n, <2>3, <4>1, <5>1
        <5>3. s \notin DOMAIN shipments
          BY <1>n, <4>1
        <5>4. Cardinality(DOMAIN shipments') = n + 1
          BY <1>n, <2>3, <5>3, FS_AddElement DEF ShipmentsKept, ShipmentsApart
        <5> QED BY <5>1, <5>2, <5>4
      <4>2. CASE s # n
        <5>1. s \in 0 .. n - 1
          BY <2>s, <4>2
        <5>2. DOMAIN shipments' = DOMAIN shipments
          BY <1>n, <2>3, <5>1
        <5> QED BY <1>n, <5>2
      <4> QED BY <4>1, <4>2
    <3>2. IsFiniteSet(DOMAIN shipments') /\ Gapless(shipments)'
      <4>1. IsFiniteSet(DOMAIN shipments')
        BY <2>3, FS_AddElement DEF ShipmentsKept, ShipmentsApart
      <4> QED BY <3>1, <4>1 DEF Gapless
    <3>3. \A i \in 0 .. n : i \in 0 .. m
      BY <3>1
    <3>4. ASSUME NEW d \in DOMAIN signing'
          PROVE  /\ signing'[d].shipment \in 0 .. m
                 /\ signing'[d].shipment \in DOMAIN shipments' =>
                      signing'[d].shipment \in contested
      BY <1>n, <1>1, <2>3, <2>6, <3>3 DEF ShipmentsKept, ShipmentsApart
    <3>5. \A d, e \in DOMAIN signing' :
            d # e /\ signing'[d].shipment = signing'[e].shipment
            => signing'[d].shipment \in contested
      BY <1>1 DEF ShipmentsKept, ShipmentsApart
    <3> QED BY <1>1, <3>1, <3>2, <3>4, <3>5 DEF ShipmentsApart
  <2>8. ASSUME NEW i \in DOMAIN orders' PROVE HasOwnShipment(i)'
    <3>1. CASE i = call.id
      BY <2>2, <2>3, <2>4, <3>1 DEF HasOwnShipment, Parties
    <3>2. CASE i # call.id
      <4>1. HasOwnShipment(i) /\ orders'[i] = orders[i]
        BY <2>4, <3>2 DEF ShipmentsKept
      <4> QED BY <1>1, <2>3, <2>5, <4>1 DEF HasOwnShipment, Parties
    <3> QED BY <3>1, <3>2
  <2>9. ASSUME NEW i \in DOMAIN orders', i # call.id, orders'[i].status = "CONFIRMED",
               orders'[i].shipment = s
        PROVE  s \in contested
    BY <2>4, <2>5, <2>9 DEF ShipmentsKept, HasOwnShipment
  <2>10. \A i, j \in DOMAIN orders' :
           /\ i # j /\ orders'[i].status = "CONFIRMED" /\ orders'[j].status = "CONFIRMED"
           /\ orders'[i].shipment = orders'[j].shipment
           => orders'[i].shipment \in contested
    BY <2>2, <2>4, <2>9 DEF ShipmentsKept
  <2> QED BY <1>1, <2>7, <2>8, <2>10 DEF ShipmentsKept
<1> QED BY <1>2, <1>3

\* Inserting one order that is not confirmed is such a step.
LEMMA PutOpenKeepsShipments ==
  ASSUME ShipmentsKept, NEW id, NEW order, orders' = Put(orders, id, order),
         order.status = "PENDING", order.shipment = NoShipment,
         UNCHANGED <<shipments, signing, contested>>
  PROVE  ShipmentsKept'
<1>1. \A i \in DOMAIN orders' :
        (i \in DOMAIN orders /\ orders'[i] = orders[i]) \/ orders'[i] = order
  BY DEF Put
<1> QED BY <1>1, OpenOrdersKeepShipments

\* Every step keeps the shipments with their orders.
LEMMA ShipmentsStep == ShipmentsKept /\ SoundOrders /\ [Next]_vars => ShipmentsKept'
<1> SUFFICES ASSUME ShipmentsKept, SoundOrders, [Next]_vars PROVE ShipmentsKept'
  OBVIOUS
<1>1. ASSUME NEW u, NEW terms
      PROVE  Proposal(u, terms).status = "PENDING" /\ Proposal(u, terms).shipment = NoShipment
  BY DEF Proposal
<1>2. ASSUME NEW u, NEW terms, CreateOrder(u, terms) PROVE ShipmentsKept'
  BY <1>1, <1>2, PutOpenKeepsShipments DEF CreateOrder
<1>3. ASSUME NEW u, NEW id, NEW terms, UpdateOrder(u, id, terms) PROVE ShipmentsKept'
  BY <1>1, <1>3, PutOpenKeepsShipments DEF UpdateOrder, NewVersion
<1>4. ASSUME NEW id, DeleteOrder(id) PROVE ShipmentsKept'
  <2>1. \A i \in DOMAIN orders' : i \in DOMAIN orders /\ orders'[i] = orders[i]
    BY <1>4 DEF DeleteOrder, Without
  <2> QED BY <1>4, <2>1, OpenOrdersKeepShipments DEF DeleteOrder
<1>5. ASSUME NEW u, NEW id, NEW slot, SignOrder(u, id, slot) PROVE ShipmentsKept'
  <2> DEFINE signed == Signed(orders[id], GetDelegatorAddress(u))
  <2>1. signed.status = "PENDING" /\ signed.shipment = NoShipment
    BY <1>5
    DEF SignOrder, Open, SoundOrders, SoundOrder, Signed, ShipmentsKept, HasOwnShipment
  <2>2. \/ orders' = Put(orders, id, signed) /\ UNCHANGED <<shipments, signing, contested>>
        \/ CreateShipment(slot, id, signed)
    BY <1>5 DEF SignOrder, Signed
  <2> HIDE DEF signed
  <2> QED BY <2>1, <2>2, PutOpenKeepsShipments, WaitingKeepsShipments
<1>6. CASE UNCHANGED orderVars
  BY <1>6, OpenOrdersKeepShipments DEF orderVars
<1>7. CASE UNCHANGED vars
  BY <1>6, <1>7 DEF vars
<1> QED
  BY <1>2, <1>3, <1>4, <1>5, <1>6, <1>7, AnswerKeepsShipments, StepOfOrders DEF OrderController

(***************************************************************************)
(* A confirmed order has a shipment between its parties, and no other      *)
(* order has it, unless two waiting calls had taken the same shipment id:  *)
(* signOrder, which takes the id before its await and inserts after it.    *)
(***************************************************************************)
THEOREM ConfirmedKeepTheirShipment == Spec => []ConfirmedOwnShipment
<1>1. Init => SoundOrders
  BY DEF Init, SoundOrders
<1>2. Init => ShipmentsKept
  <2> SUFFICES ASSUME Init PROVE ShipmentsKept
    OBVIOUS
  <2>1. DOMAIN shipments = {} /\ DOMAIN orders = {} /\ DOMAIN signing = {}
    BY DEF Init
  <2>2. DOMAIN shipments = 0 .. Cardinality(DOMAIN shipments) - 1
    BY <2>1, FS_EmptySet
  <2> QED BY <2>1, <2>2, FS_EmptySet DEF ShipmentsKept, ShipmentsApart, Gapless
<1> QED BY <1>1, <1>2, SoundOrdersStep, ShipmentsStep, KeptShipmentsAreOwn, PTL DEF Spec

-----------------------------------------------------------------------------
\* Owners.

\* The sessions in force have one of the roles of a proof.
RolesRanked ==
  /\ scenario \in Scenarios
  /\ \A a \in attempts : a.proof.role \in DOMAIN Rank

\* Every step keeps the roles those of the proofs that were presented.
LEMMA RolesStep == RolesRanked /\ [Next]_vars => RolesRanked'
<1> SUFFICES ASSUME RolesRanked, [Next]_vars PROVE RolesRanked'
  OBVIOUS
<1>1. scenario' = scenario
  BY DEF Next, OnlyIn, vars
<1>2. ASSUME NEW u \in Users, NEW proof \in scenario.proofs, Authenticate(u, proof)
      PROVE  RolesRanked'
  <2>1. proof.role \in DOMAIN Rank
    BY ScenarioAssumption DEF RolesRanked
  <2>2. attempts' = attempts \cup {[user |-> u, proof |-> proof, at |-> now]}
    BY <1>2 DEF Authenticate
  <2> QED BY <1>1, <2>1, <2>2 DEF RolesRanked
<1>3. CASE UNCHANGED attempts
  BY <1>1, <1>3 DEF RolesRanked
<1>4. CASE AuthenticationController(scenario.proofs)
  BY <1>2, <1>3, <1>4 DEF AuthenticationController, AddressAnswered, Logout
<1>5. CASE TimePasses \/ UNCHANGED sessionVars \/ UNCHANGED vars
  BY <1>3, <1>5 DEF TimePasses, sessionVars, vars
<1> QED BY <1>4, <1>5, StepOfSessions

\* Whoever passes the guard of the editors acts for its company.
LEMMA EditorActs ==
  ASSUME RolesRanked, SessionsFromAttempts, NEW u, AtLeast(u, "Editor")
  PROVE  Acting(GetDelegatorAddress(u))
<1>1. u \in DOMAIN sessions /\ sessions[u].expiration > now
  BY DEF AtLeast, IsAuthenticated
<1>2. sessions[u].role \in {"Viewer", "Editor", "Signer"}
  <2>1. PICK a \in attempts : sessions[u] = SessionOf(a)
    BY <1>1 DEF SessionsFromAttempts
  <2> QED BY <2>1 DEF SessionOf, RolesRanked, Rank
<1>3. sessions[u].role # "Viewer"
  BY DEF AtLeast, Rank
<1> QED BY <1>1, <1>2, <1>3 DEF Acting, GetDelegatorAddress

\* Materials are never removed, so that the next id is free.
MaterialsKept == IsFiniteSet(DOMAIN materials) /\ Gapless(materials)

\* What the materials change by, and who changes them.
LEMMA MaterialSteps ==
  ASSUME Next
  PROVE  \/ UNCHANGED materials
         \/ \E entry : materials' = Put(materials, NextId(materials), entry)
         \/ \E u \in Users : \E id \in DOMAIN materials : \E entry :
              /\ AtLeast(u, "Editor") /\ materials[id].owner = GetDelegatorAddress(u)
              /\ materials' = Put(materials, id, entry)
BY StepOfCatalogue
DEF ProductCategoryController, CreateProductCategory, UpdateProductCategory,
    DeleteProductCategory, MaterialController, CreateMaterial, UpdateMaterial,
    OnlyContractParty, OfferController, CreateOffer, DeleteOffer,
    AssetOperationController, CreateAssetOperation, UpdateAssetOperation,
    DeleteAssetOperation, catalogueVars

\* Every step keeps the materials numbered without a gap.
LEMMA MaterialsStep == MaterialsKept /\ [Next]_vars => MaterialsKept'
<1> SUFFICES ASSUME MaterialsKept, [Next]_vars PROVE MaterialsKept'
  OBVIOUS
<1>1. CASE UNCHANGED materials
  BY <1>1 DEF MaterialsKept, Gapless
<1>2. ASSUME NEW id \in DOMAIN materials, NEW entry, materials' = Put(materials, id, entry)
      PROVE  MaterialsKept'
  <2>1. DOMAIN materials' = DOMAIN materials
    BY <1>2 DEF Put
  <2> QED BY <2>1 DEF MaterialsKept, Gapless
<1>3. ASSUME NEW entry, materials' = Put(materials, NextId(materials), entry)
      PROVE  MaterialsKept'
  <2>n. PICK n \in Nat : n = NextId(materials) /\ DOMAIN materials = 0 .. n - 1
    BY FS_CardinalityType DEF MaterialsKept, Gapless, NextId
  <2>1. DOMAIN materials' = DOMAIN materials \cup {n}
    BY <1>3, <2>n DEF Put
  <2>2. (0 .. n - 1) \cup {n} = 0 .. (n + 1) - 1 /\ n \notin 0 .. n - 1
    OBVIOUS
  <2>3. IsFiniteSet(DOMAIN materials') /\ Cardinality(DOMAIN materials') = n + 1
    <3>1. n \notin DOMAIN materials /\ Cardinality(DOMAIN materials) = n
      BY <2>n, <2>2 DEF NextId
    <3> QED BY <2>1, <3>1, FS_AddElement DEF MaterialsKept
  <2> QED BY <2>n, <2>1, <2>2, <2>3 DEF MaterialsKept, Gapless
<1>4. CASE UNCHANGED vars
  BY <1>1, <1>4 DEF vars, catalogueVars
<1> QED BY <1>1, <1>2, <1>3, <1>4, MaterialSteps

\* A material changes by its owner.
LEMMA MaterialsAreTheirs ==
  ASSUME MaterialsKept, RolesRanked, SessionsFromAttempts, [Next]_vars,
         NEW id \in DOMAIN materials, materials'[id] # materials[id]
  PROVE  Acting(materials[id].owner)
<1>1. NextId(materials) \notin DOMAIN materials
  BY LengthIsFree DEF MaterialsKept
<1>2. materials' # materials
  OBVIOUS
<1>3. Next
  BY <1>2 DEF vars, catalogueVars
<1>4. ASSUME NEW entry, materials' = Put(materials, NextId(materials), entry) PROVE FALSE
  BY <1>1, <1>4 DEF Put
<1>5. PICK u \in Users, i \in DOMAIN materials :
        /\ AtLeast(u, "Editor") /\ materials[i].owner = GetDelegatorAddress(u)
        /\ \E entry : materials' = Put(materials, i, entry)
  BY <1>2, <1>3, <1>4, MaterialSteps
<1>6. i = id
  BY <1>5 DEF Put
<1> QED BY <1>5, <1>6, EditorActs

\* An offer is removed by its owner.
LEMMA OffersAreTheirs ==
  ASSUME RolesRanked, SessionsFromAttempts, [Next]_vars,
         NEW id \in DOMAIN offers, id \notin DOMAIN offers'
  PROVE  Acting(offers[id].owner)
<1>1. offers' # offers
  OBVIOUS
<1>2. Next
  BY <1>1 DEF vars, catalogueVars
<1>3. \/ \E entry : offers' = Put(offers, NextId(offers), entry)
      \/ \E u \in Users : \E i \in DOMAIN offers :
           /\ AtLeast(u, "Editor") /\ offers[i].owner = GetDelegatorAddress(u)
           /\ offers' = Without(offers, i)
  BY <1>1, <1>2, StepOfCatalogue
  DEF ProductCategoryController, CreateProductCategory, UpdateProductCategory,
      DeleteProductCategory, MaterialController, CreateMaterial, UpdateMaterial,
      OnlyContractParty, OfferController, CreateOffer, DeleteOffer,
      AssetOperationController, CreateAssetOperation, UpdateAssetOperation,
      DeleteAssetOperation, catalogueVars
<1>4. ASSUME NEW entry, offers' = Put(offers, NextId(offers), entry) PROVE FALSE
  BY <1>4 DEF Put
<1>5. PICK u \in Users, i \in DOMAIN offers :
        /\ AtLeast(u, "Editor") /\ offers[i].owner = GetDelegatorAddress(u)
        /\ offers' = Without(offers, i)
  BY <1>3, <1>4
<1>6. i = id
  BY <1>5 DEF Without
<1> QED BY <1>5, <1>6, EditorActs

\* What a certificate attests is changed by its uploader.
LEMMA CertificatesAreTheirs ==
  ASSUME CertificatesKept, RolesRanked, SessionsFromAttempts, [Next]_vars,
         NEW id \in DOMAIN records,
         \/ Certificate(id)'.standard # Certificate(id).standard
         \/ Certificate(id)'.material # Certificate(id).material
  PROVE  Acting(Certificate(id).uploadedBy)
<1>1. Certificate(id)' # Certificate(id)
  OBVIOUS
<1>2. CASE UNCHANGED certificateVars
  BY <1>1, <1>2 DEF certificateVars, Certificate, PlacesIn
<1>3. CASE CertificationController
  <2>1. PICK u \in Users :
          /\ AtLeast(u, "Editor")
          /\ \/ \E list \in Lists : \E standard, level, document, material :
                  Register(u, list, standard, level, document, material)
             \/ \E j \in DOMAIN records : \E new : Revision(u, j, new)
    BY <1>3, CertificateSteps
  <2>2. PICK j \in DOMAIN records : \E new : Revision(u, j, new)
    BY <1>1, <2>1, RegisterKeepsRecords
  <2>3. PICK new : Revision(u, j, new)
    BY <2>2
  <2>4. Certificate(id)' = IF id = j THEN new ELSE Certificate(id)
    BY <2>3, UpdateKeepsRecords DEF Revision
  <2>5. id = j /\ Certificate(id)' = new
    BY <1>1, <2>4
  <2>6. Certificate(id) = CertificateWith(id)
    BY PlaceIsFound
  <2>7. Certificate(id).uploadedBy = GetDelegatorAddress(u)
    BY <2>3, <2>5, <2>6 DEF Revision
  <2> QED BY <2>1, <2>7, EditorActs
<1> QED BY <1>2, <1>3, StepOfCertificates DEF vars

\* What a company shows to whom is changed by that company.
LEMMA PresentationsAreTheirs ==
  ASSUME RolesRanked, SessionsFromAttempts, [Next]_vars,
         NEW c \in DOMAIN organizations \cap DOMAIN organizations', NEW viewer \in Companies,
         GetOrganizations(viewer)[c] # GetOrganizations(viewer)'[c]
  PROVE  Acting(c)
<1>1. ~ (<<c, viewer>> \in relations <=> <<c, viewer>> \in relations')
  BY DEF GetOrganizations, IsOrganizationKnown
<1>2. relations' # relations
  BY <1>1
<1>3. Next
  BY <1>2 DEF vars, organizationVars
<1>4. PICK u \in Users, other \in Companies :
        /\ AtLeast(u, "Editor")
        /\ CreateBusinessRelation(u, other) \/ DeleteBusinessRelation(u, other)
  BY <1>2, <1>3
  DEF Next, OnlyIn, organizationVars, OrganizationController, CreateOrganization,
      UpdateOrganization, DeleteOrganization, BusinessRelationController
<1>5. c = GetDelegatorAddress(u)
  BY <1>1, <1>4 DEF CreateBusinessRelation, DeleteBusinessRelation
<1> QED BY <1>4, <1>5, EditorActs

(***************************************************************************)
(* To whom a company shows itself, its materials, its offers and what its  *)
(* certificates attest change only while an editor or signer of that       *)
(* company has a session in force: the decorators of the controllers, the  *)
(* guards inside the services, and the numbering that gives no id twice.   *)
(* Of the data a company shows this says nothing: any editor may change it.*)
(***************************************************************************)
THEOREM OwnersAlwaysDecide == Spec => OwnersDecide
<1>1. Init => RolesRanked
  BY ScenarioAssumption DEF Init, RolesRanked
<1>2. Init => MaterialsKept
  BY RecordedAssumption DEF Init, MaterialsKept
<1>3. RolesRanked /\ SessionsFromAttempts /\ MaterialsKept /\ CertificatesKept /\ [Next]_vars =>
        [/\ \A c \in DOMAIN organizations \cap DOMAIN organizations', viewer \in Companies :
              GetOrganizations(viewer)[c] # GetOrganizations(viewer)'[c] => Acting(c)
         /\ \A id \in DOMAIN materials :
              materials'[id] # materials[id] => Acting(materials[id].owner)
         /\ \A id \in DOMAIN offers \ DOMAIN offers' : Acting(offers[id].owner)
         /\ \A id \in DOMAIN records :
              LET old == Certificate(id) new == Certificate(id)'
              IN  (old.standard # new.standard \/ old.material # new.material)
                  => Acting(old.uploadedBy)]_vars
  BY PresentationsAreTheirs, MaterialsAreTheirs, OffersAreTheirs, CertificatesAreTheirs
<1> QED
  BY <1>1, <1>2, <1>3, RolesStep, MaterialsStep, CertificatesInit, CertificatesStep,
     SessionsInit, SessionsStep, PTL DEF Spec, OwnersDecide

-----------------------------------------------------------------------------
\* Kinds of values.

\* Who presented proofs, and for which companies.
Presented ==
  /\ RolesRanked /\ SessionsFromAttempts
  /\ now \in 0 .. Horizon
  /\ \A a \in attempts : a.user \in Users /\ a.proof.company \in Companies

\* The sessions are of users and companies.
LEMMA SessionsTyped ==
  ASSUME Presented
  PROVE  \A u \in DOMAIN sessions : u \in Users /\ sessions[u].company \in Companies
BY DEF Presented, SessionsFromAttempts, SessionOf

\* The time passes up to the horizon, and users present the proofs of the scenario.
LEMMA PresentedStep == Presented /\ [Next]_vars => Presented'
<1> SUFFICES ASSUME Presented, [Next]_vars PROVE Presented'
  OBVIOUS
<1>1. RolesRanked' /\ SessionsFromAttempts'
  BY RolesStep, SessionsStep DEF Presented
<1>2. ASSUME NEW u \in Users, NEW proof \in scenario.proofs, Authenticate(u, proof)
      PROVE  Presented'
  <2>1. proof.company \in Companies
    BY KindsAssumption DEF Presented, RolesRanked
  <2>2. /\ attempts' = attempts \cup {[user |-> u, proof |-> proof, at |-> now]} /\ now' = now
    BY <1>2 DEF Authenticate
  <2> QED BY <1>1, <2>1, <2>2 DEF Presented
<1>3. CASE TimePasses
  <2>1. now' = now + 1 /\ now < Horizon /\ UNCHANGED attempts
    BY <1>3 DEF TimePasses
  <2> QED BY <1>1, <2>1, SessionsAssumption DEF Presented
<1>4. CASE UNCHANGED <<now, attempts>>
  BY <1>1, <1>4 DEF Presented
<1>5. CASE AuthenticationController(scenario.proofs)
  BY <1>2, <1>4, <1>5 DEF AuthenticationController, AddressAnswered, Logout
<1>6. CASE UNCHANGED sessionVars \/ UNCHANGED vars
  BY <1>4, <1>6 DEF sessionVars, vars
<1> QED BY <1>3, <1>5, <1>6, StepOfSessions

\* Companies have a sector each, and show themselves to companies.
OrganizationsKept ==
  /\ organizations \in [DOMAIN organizations -> Sectors]
  /\ relations \subseteq Companies \X Companies

\* A step is one of the organizations or the relations, or leaves them alone.
LEMMA StepOfOrganizations ==
  ASSUME Next
  PROVE  OrganizationController \/ BusinessRelationController \/ UNCHANGED organizationVars
BY DEF Next, OnlyIn

\* Every step keeps the sectors, and shows companies to companies.
LEMMA OrganizationsStep == OrganizationsKept /\ Presented /\ [Next]_vars => OrganizationsKept'
<1> SUFFICES ASSUME OrganizationsKept, Presented, [Next]_vars PROVE OrganizationsKept'
  OBVIOUS
<1>1. CASE UNCHANGED organizationVars \/ UNCHANGED vars
  BY <1>1 DEF OrganizationsKept, organizationVars, vars
<1>2. ASSUME NEW c, NEW sector \in Sectors, organizations' = Put(organizations, c, sector),
             UNCHANGED relations
      PROVE  OrganizationsKept'
  BY <1>2 DEF OrganizationsKept, Put
<1>3. ASSUME NEW c, organizations' = Without(organizations, c), UNCHANGED relations
      PROVE  OrganizationsKept'
  BY <1>3 DEF OrganizationsKept, Without
<1>4. CASE OrganizationController
  BY <1>2, <1>3, <1>4
  DEF OrganizationController, CreateOrganization, UpdateOrganization, DeleteOrganization
<1>5. CASE BusinessRelationController
  <2>1. PICK u \in Users, other \in Companies :
          /\ AtLeast(u, "Editor")
          /\ CreateBusinessRelation(u, other) \/ DeleteBusinessRelation(u, other)
    BY <1>5 DEF BusinessRelationController
  <2>2. GetDelegatorAddress(u) \in Companies
    BY <2>1, SessionsTyped DEF AtLeast, IsAuthenticated, GetDelegatorAddress
  <2>3. UNCHANGED organizations /\ relations' \subseteq Companies \X Companies
    BY <2>1, <2>2 DEF CreateBusinessRelation, DeleteBusinessRelation, OrganizationsKept
  <2> QED BY <2>3 DEF OrganizationsKept
<1> QED BY <1>1, <1>4, <1>5, StepOfOrganizations

\* Lists of values without a repetition.
ValueLists == {list \in Seq(Values) : IsInjective(list)}

EnumerationsKept == enumerations \in [Enumerated -> [Sectors -> ValueLists]]

\* The elements of two sequences one after the other.
LEMMA Joined ==
  ASSUME NEW S, NEW a \in Seq(S), NEW b \in Seq(S)
  PROVE  /\ a \o b \in Seq(S) /\ Len(a \o b) = Len(a) + Len(b)
         /\ \A i \in 1 .. Len(a) + Len(b) :
              (a \o b)[i] = IF i <= Len(a) THEN a[i] ELSE b[i - Len(a)]
OBVIOUS

\* A value that is not in a list can be added to it, and one can be removed.
LEMMA ListsChange ==
  ASSUME NEW list \in ValueLists, NEW value \in Values
  PROVE  /\ value \notin ToSet(list) => Append(list, value) \in ValueLists
         /\ Filtered(list, value) \in ValueLists
<1>1. list \in Seq(Values) /\ \A i, j \in 1 .. Len(list) : list[i] = list[j] => i = j
  BY DEF ValueLists, IsInjective
<1>2. ToSet(list) = {list[i] : i \in 1 .. Len(list)}
  BY <1>1 DEF ToSet
<1>3. ASSUME value \notin ToSet(list)
      PROVE  Append(list, value) \in ValueLists
  <2>1. PICK new : new = Append(list, value)
    OBVIOUS
  <2>2. /\ new \in Seq(Values) /\ DOMAIN new = 1 .. Len(list) + 1 /\ Len(list) \in Nat
        /\ \A i \in 1 .. Len(list) : new[i] = list[i]
        /\ new[Len(list) + 1] = value
    BY <1>1, <2>1
  <2>3. \A i \in 1 .. Len(list) : new[i] # value
    BY <1>2, <1>3, <2>2
  <2>4. \A i \in DOMAIN new : i \in 1 .. Len(list) \/ i = Len(list) + 1
    BY <2>2
  <2>5. \A i, j \in DOMAIN new : new[i] = new[j] => i = j
    BY <1>1, <2>2, <2>3, <2>4
  <2> QED BY <2>1, <2>2, <2>5 DEF ValueLists, IsInjective
<1>4. ASSUME value \in ToSet(list)
      PROVE  Filtered(list, value) \in ValueLists
  <2>1. PICK at : at = CHOOSE i \in DOMAIN list : list[i] = value
    OBVIOUS
  <2>2. at \in 1 .. Len(list) /\ Len(list) \in Nat
    BY <1>1, <1>2, <1>4, <2>1
  <2>3. PICK new : new = RemoveAt(list, at)
    OBVIOUS
  <2>4. new = SubSeq(list, 1, at - 1) \o SubSeq(list, at + 1, Len(list))
    BY <2>3 DEF RemoveAt
  <2>5. PICK a, b : a = SubSeq(list, 1, at - 1) /\ b = SubSeq(list, at + 1, Len(list))
    OBVIOUS
  <2>6. /\ a \in Seq(Values) /\ Len(a) = at - 1 /\ \A i \in 1 .. at - 1 : a[i] = list[i]
    BY <1>1, <2>2, <2>5
  <2>7. /\ b \in Seq(Values) /\ Len(b) = Len(list) - at
        /\ \A i \in 1 .. Len(list) - at : b[i] = list[at + i]
    BY <1>1, <2>2, <2>5
  <2>8. /\ new \in Seq(Values) /\ Len(new) = Len(list) - 1
        /\ \A i \in 1 .. Len(list) - 1 : new[i] = IF i < at THEN list[i] ELSE list[i + 1]
    <3>1. new = a \o b
      BY <2>4, <2>5
    <3>2. new \in Seq(Values) /\ Len(new) = Len(list) - 1
      <4>1. new \in Seq(Values) /\ Len(new) = Len(a) + Len(b)
        BY <2>6, <2>7, <3>1, Joined
      <4> QED BY <2>2, <2>6, <2>7, <4>1
    <3>3. \A i \in 1 .. Len(list) - 1 : new[i] = IF i <= Len(a) THEN a[i] ELSE b[i - Len(a)]
      <4>1. \A i \in 1 .. Len(a) + Len(b) : (a \o b)[i] = IF i <= Len(a) THEN a[i] ELSE b[i - Len(a)]
        BY <2>6, <2>7, Joined
      <4>2. Len(a) + Len(b) = Len(list) - 1
        BY <2>2, <2>6, <2>7
      <4> QED BY <3>1, <4>1, <4>2
    <3>4. ASSUME NEW i \in 1 .. Len(list) - 1
          PROVE  new[i] = IF i < at THEN list[i] ELSE list[i + 1]
      <4>1. CASE i < at
        BY <2>2, <2>6, <3>3, <4>1
      <4>2. CASE ~ (i < at)
        <5>1. i - Len(a) \in 1 .. Len(list) - at /\ at + (i - Len(a)) = i + 1 /\ ~ (i <= Len(a))
          BY <2>2, <2>6, <4>2
        <5> QED BY <2>7, <3>3, <4>2, <5>1
      <4> QED BY <4>1, <4>2
    <3> QED BY <3>2, <3>4
  <2>9. \A i, j \in 1 .. Len(list) - 1 : new[i] = new[j] => i = j
    BY <1>1, <2>2, <2>8
  <2>10. DOMAIN new = 1 .. Len(list) - 1
    BY <2>8
  <2>11. new \in ValueLists
    BY <2>8, <2>9, <2>10 DEF ValueLists, IsInjective
  <2> QED BY <1>4, <2>1, <2>3, <2>11 DEF Filtered
<1>5. CASE value \notin ToSet(list)
  BY <1>3, <1>5 DEF Filtered
<1> QED BY <1>3, <1>4, <1>5

\* A list without a repetition has as many values as places.
LEMMA ListSize ==
  ASSUME NEW list \in ValueLists
  PROVE  ToSet(list) \subseteq Values /\ Cardinality(ToSet(list)) = Len(list)
<1>1. list \in Seq(Values) /\ IsInjective(list) /\ Len(list) \in Nat
  BY DEF ValueLists
<1>2. ToSet(list) = {list[i] : i \in 1 .. Len(list)} /\ DOMAIN list = 1 .. Len(list)
  BY <1>1 DEF ToSet
<1>3. list \in [1 .. Len(list) -> ToSet(list)]
  BY <1>1, <1>2
<1>4. list \in Injection(1 .. Len(list), ToSet(list)) /\ list \in Surjection(1 .. Len(list), ToSet(list))
  BY <1>1, <1>2, <1>3 DEF Injection, Surjection
<1>5. ExistsBijection(1 .. Len(list), ToSet(list))
  BY <1>4 DEF ExistsBijection, Bijection
<1>6. IsFiniteSet(1 .. Len(list)) /\ Cardinality(1 .. Len(list)) = Len(list)
  <2>1. 1 \in Int /\ Len(list) \in Int
    BY <1>1
  <2> QED BY <1>1, <2>1, FS_Interval
<1>7. Cardinality(ToSet(list)) = Len(list)
  BY <1>5, <1>6, FS_Bijection
<1>8. \A i \in 1 .. Len(list) : list[i] \in Values
  BY <1>1
<1> QED BY <1>2, <1>7, <1>8

\* A step is one of the enumerations or leaves them alone.
LEMMA StepOfEnumerations ==
  ASSUME Next
  PROVE  EnumerationControllers \/ UNCHANGED enumerationVars
BY DEF Next, OnlyIn

\* Every step keeps the lists without a repetition.
LEMMA EnumerationsStep == EnumerationsKept /\ [Next]_vars => EnumerationsKept'
<1> SUFFICES ASSUME EnumerationsKept, [Next]_vars PROVE EnumerationsKept'
  OBVIOUS
<1>1. ASSUME NEW type \in Enumerated, NEW sector \in Sectors, NEW list \in ValueLists,
             enumerations' = [enumerations EXCEPT ![type][sector] = list]
      PROVE  EnumerationsKept'
  BY <1>1 DEF EnumerationsKept
<1>2. ASSUME NEW type \in Enumerated, NEW value \in Values, NEW sector \in Sectors,
             AddValue(type, value, sector) \/ RemoveValue(type, value, sector)
      PROVE  EnumerationsKept'
  <2>1. PICK list : list = enumerations[type][sector]
    OBVIOUS
  <2>2. list \in ValueLists
    BY <2>1 DEF EnumerationsKept
  <2>3. CASE AddValue(type, value, sector)
    <3>1. enumerations' = [enumerations EXCEPT ![type][sector] = Append(list, value)]
      BY <2>1, <2>3 DEF AddValue, EnumerationsKept
    <3>2. value \notin ToSet(list)
      <4>1. value \notin ToSet(GetAllValues(type, sector))
        BY <2>3 DEF AddValue, HasValue
      <4>2. PICK first : first = enumerations[type]["DEFAULT"]
        OBVIOUS
      <4>3. first \in Seq(Values) /\ list \in Seq(Values)
        BY <2>2, <4>2, PlatformAssumption DEF EnumerationsKept, ValueLists
      <4>4. GetAllValues(type, sector) = first \o list
        BY <2>1, <4>2 DEF GetAllValues
      <4>5. \A i \in 1 .. Len(list) :
              /\ Len(first) + i \in DOMAIN (first \o list)
              /\ (first \o list)[Len(first) + i] = list[i]
        BY <4>3
      <4>6. ASSUME NEW i \in DOMAIN list, list[i] = value
            PROVE  FALSE
        <5>1. i \in 1 .. Len(list)
          BY <4>3, <4>6
        <5>2. PICK j \in DOMAIN (first \o list) : (first \o list)[j] = value
          BY <4>5, <4>6, <5>1
        <5>3. value \in ToSet(first \o list)
          BY <5>2 DEF ToSet
        <5> QED BY <4>1, <4>4, <5>3
      <4> QED BY <4>6 DEF ToSet
    <3>3. PICK new : new = Append(list, value)
      OBVIOUS
    <3>4. new \in ValueLists
      BY <2>2, <3>2, <3>3, ListsChange
    <3> QED BY <1>1, <3>1, <3>3, <3>4
  <2>4. CASE RemoveValue(type, value, sector)
    <3>1. enumerations' = [enumerations EXCEPT ![type][sector] = Filtered(list, value)]
      BY <2>1, <2>4 DEF RemoveValue, EnumerationsKept
    <3>2. PICK new : new = Filtered(list, value)
      OBVIOUS
    <3>3. new \in ValueLists
      BY <2>2, <3>2, ListsChange
    <3> QED BY <1>1, <3>1, <3>2, <3>3
  <2> QED BY <1>2, <2>3, <2>4
<1>3. CASE EnumerationControllers
  BY <1>2, <1>3
  DEF EnumerationControllers, FiatController, UnitController, ProcessTypeController,
      AssessmentAssuranceLevelController, SustainabilityCriteriaController, Enumerated
<1>4. CASE UNCHANGED enumerationVars \/ UNCHANGED vars
  BY <1>4 DEF EnumerationsKept, enumerationVars, vars
<1> QED BY <1>3, <1>4, StepOfEnumerations

\* Materials belong to companies, and nobody offers what is an input.
CatalogueKept ==
  /\ \A id \in DOMAIN materials : materials[id].owner \in Companies
  /\ \A id \in DOMAIN offers : ~ offers[id].material.isInput

\* Every step keeps the owners of the materials and the kind of what is offered.
LEMMA CatalogueStep == CatalogueKept /\ Presented /\ [Next]_vars => CatalogueKept'
<1> SUFFICES ASSUME CatalogueKept, Presented, [Next]_vars PROVE CatalogueKept'
  OBVIOUS
<1>1. CASE UNCHANGED <<materials, offers>>
  BY <1>1 DEF CatalogueKept
<1>2. CASE ProductCategoryController
  BY <1>1, <1>2
  DEF ProductCategoryController, CreateProductCategory, UpdateProductCategory,
      DeleteProductCategory
<1>3. CASE MaterialController
  <2>1. ASSUME NEW id, NEW entry, entry.owner \in Companies, UNCHANGED offers,
               materials' = Put(materials, id, entry)
        PROVE  CatalogueKept'
    BY <2>1 DEF CatalogueKept, Put
  <2>2. PICK u \in Users, category \in DOMAIN categories, isInput \in BOOLEAN :
          /\ AtLeast(u, "Editor")
          /\ \/ CreateMaterial(u, category, isInput)
             \/ \E id \in DOMAIN materials : UpdateMaterial(id, category, isInput)
    BY <1>3 DEF MaterialController
  <2>3. GetDelegatorAddress(u) \in Companies
    BY <2>2, SessionsTyped DEF AtLeast, IsAuthenticated, GetDelegatorAddress
  <2>4. \A owner : Material(owner, category, isInput).owner = owner
    BY DEF Material
  <2>5. CASE CreateMaterial(u, category, isInput)
    <3>1. /\ materials' = Put(materials, NextId(materials),
                              Material(GetDelegatorAddress(u), category, isInput))
          /\ UNCHANGED offers
      BY <2>5 DEF CreateMaterial
    <3> QED BY <2>1, <2>3, <2>4, <3>1
  <2>6. ASSUME NEW id \in DOMAIN materials, UpdateMaterial(id, category, isInput)
        PROVE  CatalogueKept'
    <3>1. /\ materials' = Put(materials, id, Material(materials[id].owner, category, isInput))
          /\ UNCHANGED offers
      BY <2>6 DEF UpdateMaterial
    <3>2. materials[id].owner \in Companies
      BY DEF CatalogueKept
    <3> QED BY <2>1, <2>4, <3>1, <3>2
  <2> QED BY <2>2, <2>5, <2>6
<1>4. CASE OfferController
  <2>1. ASSUME NEW u, NEW material, CreateOffer(u, material) PROVE CatalogueKept'
    BY <2>1 DEF CreateOffer, CatalogueKept, Put
  <2>2. ASSUME NEW id, DeleteOffer(id) PROVE CatalogueKept'
    BY <2>2 DEF DeleteOffer, CatalogueKept, Without
  <2> QED BY <1>4, <2>1, <2>2 DEF OfferController
<1>5. CASE AssetOperationController
  BY <1>1, <1>5
  DEF AssetOperationController, CreateAssetOperation, UpdateAssetOperation, DeleteAssetOperation
<1>6. CASE UNCHANGED catalogueVars \/ UNCHANGED vars
  BY <1>1, <1>6 DEF catalogueVars, vars
<1> QED BY <1>2, <1>3, <1>4, <1>5, <1>6, StepOfCatalogue

\* Parties sign, and nobody else.
SignedByParties(order) ==
  /\ order.status \in {"PENDING", "CONFIRMED"}
  /\ DOMAIN order.signatures \subseteq InterestedParties(order.terms)

OrdersKept ==
  /\ \A id \in DOMAIN orders : SignedByParties(orders[id])
  /\ \A d \in DOMAIN signing : SignedByParties(signing[d].order)

\* A signer that proposes is a party of what it proposes.
LEMMA ProposersAreParties ==
  ASSUME NEW u, NEW terms, TermsAllowed(u, terms)
  PROVE  SignedByParties(Proposal(u, terms))
BY DEF TermsAllowed, Proposal, SignedByParties

\* The copy that signOrder makes, by a party.
LEMMA SignersAreParties ==
  ASSUME NEW order, NEW c \in InterestedParties(order.terms),
         SoundOrder(order), SignedByParties(order)
  PROVE  SignedByParties(Signed(order, c))
<1> DEFINE new == Signed(order, c)
<1>1. /\ new.terms = order.terms /\ new.status = order.status
      /\ new.signatures = Put(order.signatures, c, order.terms)
  BY DEF SoundOrder, Signed
<1>2. SignedByParties(new)
  <2> HIDE DEF new
  <2> QED BY <1>1 DEF SignedByParties, Put
<1> QED BY <1>2

\* Inserting an order that is signed by its parties.
LEMMA PutKeepsParties ==
  ASSUME OrdersKept, NEW id, NEW order, SignedByParties(order),
         orders' = Put(orders, id, order), \A d \in DOMAIN signing' :
           d \in DOMAIN signing /\ signing'[d] = signing[d]
  PROVE  OrdersKept'
<1>1. \A i \in DOMAIN orders' : SignedByParties(orders'[i])
  BY DEF OrdersKept, Put
<1> QED BY <1>1 DEF OrdersKept, SignedByParties, InterestedParties

\* Every step keeps the orders signed by their parties.
LEMMA OrdersStep == OrdersKept /\ SoundOrders /\ [Next]_vars => OrdersKept'
<1> SUFFICES ASSUME OrdersKept, SoundOrders, [Next]_vars PROVE OrdersKept'
  OBVIOUS
<1>1. ASSUME NEW u, NEW t, CreateOrder(u, t) PROVE OrdersKept'
  BY <1>1, PutKeepsParties, ProposersAreParties DEF CreateOrder
<1>2. ASSUME NEW u, NEW id, NEW t, UpdateOrder(u, id, t) PROVE OrdersKept'
  BY <1>2, PutKeepsParties, ProposersAreParties DEF UpdateOrder, NewVersion
<1>3. ASSUME NEW id, DeleteOrder(id) PROVE OrdersKept'
  <2>1. /\ signing' = signing
        /\ \A i \in DOMAIN orders' : i \in DOMAIN orders /\ orders'[i] = orders[i]
    BY <1>3 DEF DeleteOrder, Without
  <2> QED BY <2>1 DEF OrdersKept, SignedByParties, InterestedParties
<1>4. ASSUME NEW u, NEW id, NEW slot, SignOrder(u, id, slot),
             OnlyContractParty(u, InterestedParties(orders[id].terms))
      PROVE  OrdersKept'
  <2> DEFINE c == GetDelegatorAddress(u)
             signed == Signed(orders[id], c)
  <2>1. SignedByParties(signed)
    BY <1>4, SignersAreParties DEF SignOrder, Open, SoundOrders, OrdersKept, OnlyContractParty
  <2>2. \/ orders' = Put(orders, id, signed) /\ signing' = signing
        \/ CreateShipment(slot, id, signed)
    BY <1>4 DEF SignOrder, Signed
  <2> HIDE DEF signed
  <2>3. CASE orders' = Put(orders, id, signed) /\ signing' = signing
    BY <2>1, <2>3, PutKeepsParties
  <2>4. CASE CreateShipment(slot, id, signed)
    <3>1. /\ orders' = orders
          /\ \A d \in DOMAIN signing' :
               \/ d \in DOMAIN signing /\ signing'[d] = signing[d]
               \/ signing'[d].order = signed
      BY <2>4 DEF CreateShipment, Put
    <3>2. \A d \in DOMAIN signing' : SignedByParties(signing'[d].order)
      BY <2>1, <3>1 DEF OrdersKept
    <3> QED BY <3>1, <3>2 DEF OrdersKept, SignedByParties, InterestedParties
  <2> QED BY <2>2, <2>3, <2>4
<1>5. ASSUME NEW slot \in DOMAIN signing, NEW sent, RegistrationAnswered(slot, sent)
      PROVE  OrdersKept'
  <2>c. PICK call : call = signing[slot]
    OBVIOUS
  <2>1. \A d \in DOMAIN signing' : d \in DOMAIN signing /\ signing'[d] = signing[d]
    BY <1>5 DEF RegistrationAnswered, Without
  <2>2. SoundOrder(call.order) /\ SignedByParties(call.order)
    BY <2>c DEF SoundOrders, OrdersKept
  <2>3. SignedByParties(Confirmed(call))
    BY <2>2 DEF SoundOrder, SignedByParties, Confirmed
  <2>4. CASE sent
    BY <1>5, <2>c, <2>1, <2>3, <2>4, PutKeepsParties DEF RegistrationAnswered
  <2>5. CASE ~ sent
    BY <1>5, <2>1, <2>5 DEF RegistrationAnswered, OrdersKept, SignedByParties, InterestedParties
  <2> QED BY <2>4, <2>5
<1>6. CASE UNCHANGED orderVars
  BY <1>6 DEF orderVars, OrdersKept, SignedByParties, InterestedParties
<1>7. CASE UNCHANGED vars
  BY <1>6, <1>7 DEF vars
<1> QED BY <1>1, <1>2, <1>3, <1>4, <1>5, <1>6, <1>7, StepOfOrders DEF OrderController

\* The managers are administrators, and no fee is more than the whole.
ManagerKept == managers \subseteq Administrators /\ managerFees.percentage <= 100

\* Every step keeps the managers and the bound of their fee.
LEMMA ManagerStep == ManagerKept /\ FeesFollow /\ [Next]_vars => ManagerKept'
<1> SUFFICES ASSUME ManagerKept, FeesFollow, [Next]_vars PROVE ManagerKept'
  OBVIOUS
<1>1. managerFees \in Fees
  BY DEF FeesFollow
<1>2. CASE UNCHANGED managerVars \/ UNCHANGED vars
  BY <1>2 DEF ManagerKept, managerVars, vars
<1>3. ASSUME NEW admin, NEW fee,
             \/ UpdateFeeRecipient(admin, fee) \/ UpdateBaseFee(admin, fee)
             \/ UpdatePercentageFee(admin, fee)
      PROVE  ManagerKept'
  BY <1>1, <1>3
  DEF UpdateFeeRecipient, UpdateBaseFee, UpdatePercentageFee, ManagerKept, Fees
<1>4. CASE DownPaymentManager
  BY <1>3, <1>4
  DEF DownPaymentManager, RegisterDownPayment, AddAdmin, RemoveAdmin, EscrowUsed, ManagerKept
<1> QED BY <1>2, <1>4, StepOfManager

\* All of them together.
Typed ==
  /\ Presented /\ OrganizationsKept /\ EnumerationsKept /\ CatalogueKept
  /\ SoundOrders /\ OrdersKept /\ FeesFollow /\ ManagerKept

\* A scenario starts with entries of their kinds.
LEMMA TypedInit == Init => Typed
<1> SUFFICES ASSUME Init PROVE Typed
  OBVIOUS
<1>1. Presented
  <2>1. RolesRanked
    BY ScenarioAssumption DEF Init, RolesRanked
  <2>2. now \in 0 .. Horizon /\ \A a \in attempts : a.user \in Users /\ a.proof.company \in Companies
    BY KindsAssumption, SessionsAssumption DEF Init
  <2> QED BY <2>1, <2>2, SessionsInit DEF Presented
<1>2. OrganizationsKept
  BY KindsAssumption DEF Init, OrganizationsKept
<1>3. EnumerationsKept
  <2>1. /\ enumerations \in [Enumerated -> [Sectors -> Seq(Values)]]
        /\ \A type \in Enumerated, sector \in Sectors : IsInjective(enumerations[type][sector])
    BY KindsAssumption DEF Init
  <2> QED BY <2>1 DEF EnumerationsKept, ValueLists
<1>4. CatalogueKept
  BY KindsAssumption DEF Init, CatalogueKept
<1>5. SoundOrders /\ OrdersKept
  BY DEF Init, SoundOrders, OrdersKept
<1>6. FeesFollow
  <2>1. managerFees \in Fees
    BY DEF Init, Fees
  <2>2. escrows \in [1 .. 0 -> [fees : Fees, locked : BOOLEAN]] /\ DOMAIN escrows = {}
    BY DEF Init
  <2> QED BY <2>1, <2>2 DEF FeesFollow, FeesReachEscrows
<1>7. ManagerKept
  <2>1. managerFees.percentage \in 0 .. 100 /\ managers \in SUBSET Administrators \ {{}}
    BY DEF Init
  <2> QED BY <2>1 DEF ManagerKept
<1> QED BY <1>1, <1>2, <1>3, <1>4, <1>5, <1>6, <1>7 DEF Typed

(***************************************************************************)
(* The clock, the sessions, the registers and the manager hold values of   *)
(* their kinds, in every scenario: sessions are of companies, no list of an*)
(* enumeration has a value twice (addValue looks in the list of the sector *)
(* and in that of DEFAULT), no input is offered, and only parties sign an  *)
(* order, also the copy that signOrder inserts after its await.            *)
(***************************************************************************)
THEOREM PlatformTyped == Spec => []TypeOK
<1>1. Typed => TypeOK
  <2> SUFFICES ASSUME Typed PROVE TypeOK
    OBVIOUS
  <2>1. ASSUME NEW type \in Enumerated, NEW sector \in Sectors
        PROVE  LET list == enumerations[type][sector]
               IN  ToSet(list) \subseteq Values /\ Cardinality(ToSet(list)) = Len(list)
    <3>1. enumerations[type][sector] \in ValueLists
      BY DEF Typed, EnumerationsKept
    <3> QED BY <3>1, ListSize
  <2> QED
    BY <2>1, SessionsTyped
    DEF Typed, TypeOK, Presented, OrganizationsKept, CatalogueKept, OrdersKept, SignedByParties,
        ManagerKept
<1>2. Typed /\ [Next]_vars => Typed'
  BY PresentedStep, OrganizationsStep, EnumerationsStep, CatalogueStep, SoundOrdersStep,
     OrdersStep, FeesStep, ManagerStep
  DEF Typed
<1> QED BY <1>1, <1>2, TypedInit, PTL DEF Spec

================================================================================

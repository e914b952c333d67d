------------------------------ MODULE Shipment ------------------------------
(***************************************************************************)
(* services/ShipmentService.ts: one shipment, the calls the canister       *)
(* handles for it and the escrow they drive.                               *)
(*                                                                         *)
(* A handler without an await is one step on the stored record.  Each      *)
(* await ends a step: the call keeps the copy of the record it read,       *)
(* other handlers run, and what it finally inserts is its own copy.  An    *)
(* exception ends the call with nothing inserted.  After a call to the     *)
(* escrow the handlers wait for the transaction to be sent, not mined.     *)
(***************************************************************************)
EXTENDS ShipmentRecord, Evm

CONSTANTS
  Calls,                \* slots for handlers that are suspended at an await
  Uploads,              \* document types that are uploaded
  Uploaders,            \* parties that upload
  Evaluations,          \* verdicts that are given
  Amounts,              \* arguments of depositFunds
  MaxGeneric            \* bound on the generic documents

ASSUME InputsAssumption ==
  /\ Calls = Clients
  /\ Uploads \subseteq DocumentTypes /\ Uploaders \subseteq Parties
  /\ Evaluations \subseteq Verdicts
  /\ Amounts \subseteq Nat /\ MaxGeneric \in Nat

VARIABLES
  shipment,             \* the stored record
  call,                 \* the suspended calls
  peak,                 \* history: the furthest phase of a stored record so far
  stale                 \* history: calls whose copy was read before the last insertion

vars == <<shipment, call, peak, stale, evmVars>>

Idle == [op |-> "none"]
Suspended == [op : {"determine", "deposit", "lock", "release"},
              at : {"address", "locked", "deposited", "nonce", "send"},
              copy : Record, amount : Nat]

Init ==
  /\ shipment = NewRecord
  /\ call = [c \in Calls |-> Idle]
  /\ peak = GetShipmentPhase(NewRecord) /\ stale = {}
  /\ EvmInit

-----------------------------------------------------------------------------
\* Steps of a call.

\* Keeps the history variables.
Observe ==
  /\ LET phase == GetShipmentPhase(shipment')
     IN  peak' = IF phase > peak THEN phase ELSE peak
  /\ stale' = {c \in Calls : call'[c] # Idle /\ (c \in stale \/ shipment' # shipment)}

Suspend(c, op, at, copy, amount) ==
  /\ call[c] = Idle
  /\ call' = [call EXCEPT ![c] = [op |-> op, at |-> at, copy |-> copy, amount |-> amount]]
  /\ UNCHANGED shipment
  /\ Observe

\* The call is suspended at its next await.
Continue(c, next) ==
  /\ call' = [call EXCEPT ![c] = next]
  /\ UNCHANGED shipment
  /\ Observe

InsertAndReturn(c, record) ==
  /\ call' = [call EXCEPT ![c] = Idle]
  /\ shipment' = record
  /\ Observe

Throw(c) ==
  /\ call' = [call EXCEPT ![c] = Idle]
  /\ UNCHANGED shipment
  /\ Observe

At(c, place) == call[c] # Idle /\ call[c].at = place

-----------------------------------------------------------------------------
\* Handlers without an await.

Details == \E price \in Prices :
  /\ SetShipmentDetails(shipment, shipment', price)
  /\ UNCHANGED <<call, evmVars>> /\ Observe

SampleVerdict == \E verdict \in Evaluations :
  /\ EvaluateSample(shipment, shipment', verdict)
  /\ UNCHANGED <<call, evmVars>> /\ Observe

DetailsVerdict == \E verdict \in Evaluations :
  /\ EvaluateShipmentDetails(shipment, shipment', verdict)
  /\ UNCHANGED <<call, evmVars>> /\ Observe

QualityVerdict == \E verdict \in Evaluations :
  /\ EvaluateQuality(shipment, shipment', verdict)
  /\ UNCHANGED <<call, evmVars>> /\ Observe

Upload == \E type \in Uploads, party \in Uploaders, url \in Urls :
  /\ type = Generic => Len(GetDocumentsByType(shipment, type)) < MaxGeneric
  /\ AddDocument(shipment, shipment', type, party, url)
  /\ UNCHANGED <<call, evmVars>> /\ Observe

\* Every id a document of the record has.
DocumentIds(r) == UNION {{d.id : d \in ToSet(t.docs)} : t \in ToSet(r.documents)}

Reupload == \E id \in DocumentIds(shipment), party \in Uploaders, url \in Urls :
  /\ UpdateDocument(shipment, shipment', id, party, url)
  /\ UNCHANGED <<call, evmVars>> /\ Observe

DocumentVerdict ==
  \E id \in DocumentIds(shipment), verdict \in Evaluations, party \in Parties :
    /\ MayEvaluateDocument(shipment, id, party)
    /\ ~ Releases(shipment)
    /\ shipment' = WithVerdict(shipment, id, verdict)
    /\ UNCHANGED <<call, evmVars>> /\ Observe

-----------------------------------------------------------------------------
\* Handlers up to their first await.

DetermineDownPaymentAddress(c) ==
  /\ shipment.downPayment = "none"
  /\ Suspend(c, "determine", "address", shipment, 0)
  /\ UNCHANGED evmVars

\* Mutant of DepositFunds: the address of the escrow is not looked up.
DepositFundsWithoutLookup(c) == \E amount \in Amounts :
  /\ GetShipmentPhase(shipment) = 3
  /\ shipment.funds = "NOT_LOCKED"
  /\ Suspend(c, "deposit", "nonce", shipment, amount)
  /\ UNCHANGED evmVars

DepositFunds(c) == \E amount \in Amounts :
  /\ GetShipmentPhase(shipment) = 3
  /\ shipment.funds = "NOT_LOCKED"
  /\ Suspend(c, "deposit", IF shipment.downPayment = "none" THEN "address" ELSE "nonce",
             shipment, amount)
  /\ UNCHANGED evmVars

\* Mutant of LockFunds: the phase is not checked.
LockFundsInAnyPhase(c) ==
  /\ shipment.funds = "NOT_LOCKED"
  /\ Suspend(c, "lock", IF shipment.downPayment = "none" THEN "address" ELSE "locked",
             shipment, 0)
  /\ UNCHANGED evmVars

LockFunds(c) ==
  /\ GetShipmentPhase(shipment) = 3
  /\ shipment.funds = "NOT_LOCKED"
  /\ Suspend(c, "lock", IF shipment.downPayment = "none" THEN "address" ELSE "locked",
             shipment, 0)
  /\ UNCHANGED evmVars

\* Without a release the record just read is inserted: no step.
UnlockFunds(c) ==
  /\ Releases(shipment)
  /\ shipment.downPayment # "none"
  /\ Suspend(c, "release", "nonce", shipment, 0)
  /\ UNCHANGED evmVars

ReleasingVerdict(c) ==
  \E id \in DocumentIds(shipment), verdict \in Evaluations, party \in Parties :
    /\ MayEvaluateDocument(shipment, id, party)
    /\ Releases(shipment)
    /\ shipment.downPayment # "none"
    /\ Suspend(c, "release", "nonce", WithVerdict(shipment, id, verdict), 0)
    /\ UNCHANGED evmVars

-----------------------------------------------------------------------------
\* What handlers do with the answer to an await.

AddressAnswered(c) ==
  LET address == IF registered THEN "escrow" ELSE "zero"
      found   == [call[c].copy EXCEPT !.downPayment = address]
  IN  /\ At(c, "address")
      /\ \/ call[c].op = "determine" /\ address # "zero" /\ InsertAndReturn(c, found)
         \/ call[c].op = "deposit" /\ Continue(c, [call[c] EXCEPT !.copy = found, !.at = "nonce"])
         \/ call[c].op = "lock" /\ Continue(c, [call[c] EXCEPT !.copy = found, !.at = "locked"])
      /\ UNCHANGED evmVars

\* No contract answers at the zero address, so that the decoding throws.
LockedAnswered(c) ==
  /\ At(c, "locked")
  /\ call[c].copy.downPayment = "escrow"
  /\ Continue(c, [call[c] EXCEPT !.amount = GetLockedAmount, !.at = "deposited"])
  /\ UNCHANGED evmVars

DepositedAnswered(c) ==
  /\ At(c, "deposited")
  /\ IF GetTotalDepositedAmount >= call[c].amount + call[c].copy.price
     THEN Continue(c, [call[c] EXCEPT !.amount = 0, !.at = "nonce"])
     ELSE InsertAndReturn(c, call[c].copy)
  /\ UNCHANGED evmVars

NonceAnswered(c) ==
  /\ At(c, "nonce")
  /\ Continue(c, [call[c] EXCEPT !.at = "send"])
  /\ EthGetTransactionCount(c)

Transaction(c) ==
  [op |-> call[c].op, to |-> call[c].copy.downPayment,
   amount |-> IF call[c].op = "deposit" THEN call[c].amount ELSE call[c].copy.price]

\* Mutant of Outcome: the funds are not marked when they are locked.
OutcomeUnmarked(c) ==
  IF call[c].op = "release" THEN [call[c].copy EXCEPT !.funds = "RELEASED"] ELSE call[c].copy

Outcome(c) ==
  CASE call[c].op = "deposit" -> call[c].copy
    [] call[c].op = "lock"    -> [call[c].copy EXCEPT !.funds = "LOCKED"]
    [] call[c].op = "release" -> [call[c].copy EXCEPT !.funds = "RELEASED"]

SendAnswered(c) ==
  /\ At(c, "send")
  /\ \/ EthSendRawTransaction(c, Transaction(c), "Ok") /\ InsertAndReturn(c, Outcome(c))
     \/ EthSendRawTransaction(c, Transaction(c), "Err") /\ Throw(c)

\* Any other await may be answered by an error, an address lookup by zero.
AwaitFails(c) ==
  /\ call[c] # Idle
  /\ Throw(c)
  /\ current' = current \ {c}
  /\ UNCHANGED <<pending, registered, escrowVars>>

-----------------------------------------------------------------------------
ChainSteps ==
  /\ Mine \/ OtherShipmentSends \/ \E amount \in Amounts : PayerWithdraws(amount)
  /\ UNCHANGED <<shipment, call, peak, stale>>

Next ==
  \/ Details \/ SampleVerdict \/ DetailsVerdict \/ QualityVerdict
  \/ Upload \/ Reupload \/ DocumentVerdict
  \/ \E c \in Calls : DetermineDownPaymentAddress(c)
  \/ \E c \in Calls : DepositFunds(c)
  \/ \E c \in Calls : LockFunds(c)
  \/ \E c \in Calls : UnlockFunds(c)
  \/ \E c \in Calls : ReleasingVerdict(c)
  \/ \E c \in Calls : AddressAnswered(c)
  \/ \E c \in Calls : LockedAnswered(c)
  \/ \E c \in Calls : DepositedAnswered(c)
  \/ \E c \in Calls : NonceAnswered(c)
  \/ \E c \in Calls : SendAnswered(c)
  \/ \E c \in Calls : AwaitFails(c)
  \/ ChainSteps

Spec == Init /\ [][Next]_vars

-----------------------------------------------------------------------------
(***************************************************************************)
(* Every variable has its type.                                            *)
(***************************************************************************)
TypeOK ==
  /\ shipment \in Record
  /\ call \in [Calls -> {Idle} \cup Suspended]
  /\ peak \in Phases /\ stale \subseteq Calls
  /\ pending \in {NoTx} \cup Tx /\ current \subseteq Calls /\ registered \in BOOLEAN
  /\ held \in Nat /\ locked \in Nat /\ paid \in Nat

(***************************************************************************)
(* Whatever overwrites whatever, the stored record is one that handlers    *)
(* taking turns could have left: details are judged after they are set,    *)
(* funds are locked after the details and the documents of phase 2 are     *)
(* approved, in an escrow that exists, they are released in phase 5, and   *)
(* the quality is judged last.                                             *)
(***************************************************************************)
StagesInOrder ==
  LET phase == GetShipmentPhase(shipment)
  IN  /\ shipment.details # "NOT_EVALUATED" => shipment.detailsSet /\ phase >= 2
      /\ shipment.funds # "NOT_LOCKED" => phase >= 3 /\ shipment.downPayment = "escrow"
      /\ shipment.funds = "RELEASED" => phase >= 5
      /\ shipment.quality # "NOT_EVALUATED" => phase >= Confirmed

(***************************************************************************)
(* A type has one entry in the record, and one document unless it is       *)
(* generic: what find and documents[0] in the code rely on.                *)
(***************************************************************************)
OneDocumentPerType ==
  LET tuples == shipment.documents
  IN  /\ \A i, j \in DOMAIN tuples : tuples[i].type = tuples[j].type => i = j
      /\ \A i \in DOMAIN tuples :
           /\ tuples[i].docs # <<>>
           /\ tuples[i].type # Generic => Len(tuples[i].docs) = 1

(***************************************************************************)
(* Money moves only after approval: nothing is ordered locked before the   *)
(* record reached phase 3, nor released before it reached phase 5, in any  *)
(* interleaving of the calls and whatever the RPC service does.            *)
(***************************************************************************)
MoneyFollowsApproval ==
  /\ locked + paid > 0 \/ pending.op \in {"lock", "release"} => peak >= 3
  /\ paid > 0 \/ pending.op = "release" => peak >= 5

\* The step ends a call whose copy was out of date.
StaleInsertion == \E c \in stale : call'[c] = Idle

(***************************************************************************)
(* A shipment never goes back to an earlier phase, but by a call that      *)
(* inserts a copy read before another insertion.                           *)
(***************************************************************************)
PhaseAdvances ==
  [][StaleInsertion \/ GetShipmentPhase(shipment') >= GetShipmentPhase(shipment)]_vars

\* Where the approved documents of a record are.
ApprovedIn(r) ==
  {p \in (DOMAIN r.documents) \X (1 .. MaxGeneric) :
     LET docs == r.documents[p[1]].docs
     IN  p[2] <= Len(docs) /\ docs[p[2]].status = "APPROVED"}

(***************************************************************************)
(* What was approved stays, but for a stale insertion: every approved      *)
(* document that is not generic, and the price once the details are        *)
(* approved, so that the amount released is the amount locked.             *)
(***************************************************************************)
ApprovalsStand ==
  [][StaleInsertion \/
     /\ shipment.details = "APPROVED" =>
          shipment'.details = "APPROVED" /\ shipment'.price = shipment.price
     /\ \A p \in ApprovedIn(shipment) :
          shipment.documents[p[1]].type # Generic =>
            /\ p \in ApprovedIn(shipment')
            /\ shipment'.documents[p[1]] = shipment.documents[p[1]]]_vars

(***************************************************************************)
(* The price is locked or paid once.  It holds when the handlers that      *)
(* await take turns and no reply is lost, however often they are called:   *)
(* otherwise a retry or a second call locks the price again.               *)
(***************************************************************************)
ReservedOnce == locked + paid <= shipment.price

(***************************************************************************)
(* What 'Document already approved' and 'Details already approved' in      *)
(* ShipmentService.ts promise: an approval is final.  It is lost when a    *)
(* call suspended at an await inserts the copy it read before.             *)
(***************************************************************************)
ApprovalsAreFinal ==
  [][\A p \in ApprovedIn(shipment) : p \in ApprovedIn(shipment')]_vars

(***************************************************************************)
(* What 'Caller is the uploader' in evaluateDocument promises: nobody      *)
(* approves a document of its own.  Among generic documents the code looks *)
(* at the uploader of the first one only.                                  *)
(***************************************************************************)
NobodyApprovesItsOwn ==
  [][\A id \in DocumentIds(shipment), party \in Parties :
       (MayEvaluateDocument(shipment, id, party) /\ shipment' = WithVerdict(shipment, id, "APPROVED"))
         => LET place == PlaceOfId(shipment, id)
                docs  == shipment.documents[place].docs
            IN  docs[PlaceInTuple(docs, id)].uploadedBy # party]_vars

(***************************************************************************)
(* What the log 'funds locked' of lockFunds says: with every call answered *)
(* and every transaction mined, a shipment whose funds are locked has its  *)
(* price locked in the escrow.  The transaction is not waited for.         *)
(***************************************************************************)
LockedMeansLocked ==
  (pending = NoTx /\ (\A c \in Calls : call[c] = Idle) /\ shipment.funds = "LOCKED")
    => locked >= shipment.price
=============================================================================

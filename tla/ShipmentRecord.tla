--------------------------- MODULE ShipmentRecord ---------------------------
(***************************************************************************)
(* The record the canister stores for one shipment, and what each handler  *)
(* of services/ShipmentService.ts does with the copy it reads.             *)
(*                                                                         *)
(* A handler is an operator on the record r it read and the record s it    *)
(* inserts: its guards are the exceptions of the code.  Dates and          *)
(* quantities are left out; the price is kept, since funds depend on it.   *)
(***************************************************************************)
EXTENDS Naturals, Sequences, SequencesExt

CONSTANTS
  DocumentTypes,
  Generic,                \* the type of which a shipment may hold many documents
  Required,               \* Required[p]: the types phase p asks for
  SampleApprovalRequired,
  Parties,                \* the supplier and the commissioner
  Urls,                   \* where documents are stored
  Prices                  \* arguments of setShipmentDetails

ASSUME DocumentsAssumption ==
  /\ Generic \in DocumentTypes
  /\ Required \in [1 .. 4 -> SUBSET (DocumentTypes \ {Generic})]
  /\ SampleApprovalRequired \in BOOLEAN

ASSUME PricesAssumption == Prices \subseteq Nat

Verdicts    == {"NOT_EVALUATED", "APPROVED", "NOT_APPROVED"}
FundsStates == {"NOT_LOCKED", "LOCKED", "RELEASED"}
\* The Option<address> of the escrow; the zero address is what an unset entry of the
\* manager's mapping reads as.
Addresses   == {"none", "zero", "escrow"}
Confirmed   == 6
Arbitration == 7
Phases      == 1 .. 7

Document == [id : Nat, externalUrl : Urls, status : Verdicts, uploadedBy : Parties]
Tuple    == [type : DocumentTypes, docs : Seq(Document)]
Record   == [documents : Seq(Tuple),
             sample : Verdicts, details : Verdicts, quality : Verdicts,
             funds : FundsStates, detailsSet : BOOLEAN, price : Nat,
             downPayment : Addresses]

NewRecord == [documents |-> <<>>,
              sample |-> "NOT_EVALUATED", details |-> "NOT_EVALUATED",
              quality |-> "NOT_EVALUATED",
              funds |-> "NOT_LOCKED", detailsSet |-> FALSE, price |-> 0,
              downPayment |-> "none"]

-----------------------------------------------------------------------------
\* Views of a record.

\* Where the documents of a type are, 0 if nowhere.
PlaceOfType(r, type) == SelectInSeq(r.documents, LAMBDA t : t.type = type)

GetDocumentsByType(r, type) ==
  LET place == PlaceOfType(r, type)
  IN  IF place = 0 THEN <<>> ELSE r.documents[place].docs

\* Where the first document with an id is, 0 if nowhere: its tuple, then its
\* place in the tuple.
PlaceOfId(r, id) ==
  SelectInSeq(r.documents, LAMBDA t : \E k \in DOMAIN t.docs : t.docs[k].id = id)
PlaceInTuple(docs, id) == SelectInSeq(docs, LAMBDA d : d.id = id)

AreDocumentsUploadedAndApproved(r, types) ==
  \A type \in types :
    LET docs == GetDocumentsByType(r, type)
    IN  docs # <<>> /\ docs[1].status = "APPROVED"

PhaseDocumentsApproved(r, phase) == AreDocumentsUploadedAndApproved(r, Required[phase])

Phase1Complete(r) ==
  PhaseDocumentsApproved(r, 1) /\ (SampleApprovalRequired => r.sample = "APPROVED")
Phase2Complete(r) == PhaseDocumentsApproved(r, 2) /\ r.details = "APPROVED"
Phase3Complete(r) == PhaseDocumentsApproved(r, 3) /\ r.funds # "NOT_LOCKED"
Phase4Complete(r) == PhaseDocumentsApproved(r, 4)

GetShipmentPhase(r) ==
  IF ~ Phase1Complete(r) THEN 1
  ELSE IF ~ Phase2Complete(r) THEN 2
  ELSE IF ~ Phase3Complete(r) THEN 3
  ELSE IF ~ Phase4Complete(r) THEN 4
  ELSE IF r.quality = "NOT_EVALUATED" THEN 5
  ELSE IF r.quality = "APPROVED" THEN Confirmed
  ELSE Arbitration

-----------------------------------------------------------------------------
\* Handlers without an await.

SetShipmentDetails(r, s, price) ==
  /\ GetShipmentPhase(r) = 2
  /\ r.details # "APPROVED"
  /\ s = [r EXCEPT !.price = price, !.detailsSet = TRUE]

EvaluateSample(r, s, verdict) ==
  /\ GetShipmentPhase(r) = 1
  /\ r.sample # "APPROVED"
  /\ s = [r EXCEPT !.sample = verdict]

\* Mutant of EvaluateShipmentDetails: details may be judged before they are set.
EvaluateDetailsUnset(r, s, verdict) ==
  /\ GetShipmentPhase(r) = 2
  /\ r.details # "APPROVED"
  /\ s = [r EXCEPT !.details = verdict]

EvaluateShipmentDetails(r, s, verdict) ==
  /\ GetShipmentPhase(r) = 2
  /\ r.detailsSet
  /\ r.details # "APPROVED"
  /\ s = [r EXCEPT !.details = verdict]

EvaluateQuality(r, s, verdict) ==
  /\ GetShipmentPhase(r) = 5
  /\ r.quality # "APPROVED"
  /\ s = [r EXCEPT !.quality = verdict]

\* What the record r holds after a document was added to the tuple of its type.
WithTuple(r, type, docs) ==
  LET place == PlaceOfType(r, type)
      tuple == [type |-> type, docs |-> docs]
  IN  [r EXCEPT !.documents =
         IF place = 0 THEN Append(@, tuple) ELSE [@ EXCEPT ![place] = tuple]]

\* The id of a new document is the number of types uploaded so far.
NewDocument(r, party, url) ==
  [id |-> Len(r.documents), externalUrl |-> url, status |-> "NOT_EVALUATED", uploadedBy |-> party]

\* Mutant of AddDocument: any document is appended to those of its type.
AddDocumentAppending(r, s, type, party, url) ==
  LET docs == GetDocumentsByType(r, type)
  IN  /\ (type # Generic /\ docs # <<>>) => docs[1].status # "APPROVED"
      /\ s = WithTuple(r, type, Append(docs, NewDocument(r, party, url)))

\* Mutant of AddDocument: an approved document may be replaced.
AddDocumentOverApproved(r, s, type, party, url) ==
  LET docs == GetDocumentsByType(r, type)
      new  == NewDocument(r, party, url)
  IN  s = WithTuple(r, type, IF type = Generic THEN Append(docs, new) ELSE <<new>>)

\* Mutant of AddDocument: the tuple of another type is replaced.
AddDocumentToFirst(r, s, type, party, url) ==
  LET new == NewDocument(r, party, url)
      tuple == [type |-> type, docs |-> <<new>>]
  IN  s = [r EXCEPT !.documents = IF @ = <<>> THEN <<tuple>> ELSE [@ EXCEPT ![1] = tuple]]

\* A document replaces the one of its type; generic documents are appended.
AddDocument(r, s, type, party, url) ==
  LET docs == GetDocumentsByType(r, type)
      new  == NewDocument(r, party, url)
  IN  /\ (type # Generic /\ docs # <<>>) => docs[1].status # "APPROVED"
      /\ s = WithTuple(r, type, IF type = Generic THEN Append(docs, new) ELSE <<new>>)

\* Mutant of UpdateDocument: an approved document may be changed.
UpdateApprovedDocument(r, s, id, party, url) ==
  LET place == PlaceOfId(r, id)
      docs  == r.documents[place].docs
      k     == PlaceInTuple(docs, id)
  IN  /\ place # 0
      /\ s = [r EXCEPT !.documents[place].docs[k] =
               [@ EXCEPT !.externalUrl = url, !.uploadedBy = party]]

UpdateDocument(r, s, id, party, url) ==
  LET place == PlaceOfId(r, id)
      docs  == r.documents[place].docs
      k     == PlaceInTuple(docs, id)
  IN  /\ place # 0
      /\ docs[k].status # "APPROVED"
      /\ s = [r EXCEPT !.documents[place].docs[k] =
               [@ EXCEPT !.externalUrl = url, !.uploadedBy = party]]

\* evaluateDocument checks the uploader and the status of the first document of the
\* tuple, and gives the verdict to the document with the id.
MayEvaluateDocument(r, id, party) ==
  LET place == PlaceOfId(r, id)
      docs  == r.documents[place].docs
  IN  /\ place # 0
      /\ docs[1].uploadedBy # party
      /\ docs[1].status # "APPROVED"

WithVerdict(r, id, verdict) ==
  LET place == PlaceOfId(r, id)
      k     == PlaceInTuple(r.documents[place].docs, id)
  IN  [r EXCEPT !.documents[place].docs[k].status = verdict]

\* When unlockFunds and evaluateDocument have the escrow release the funds.
Releases(r) == GetShipmentPhase(r) = 5 /\ r.funds = "LOCKED"
=============================================================================

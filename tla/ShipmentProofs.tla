--------------------------- MODULE ShipmentProofs ---------------------------
(***************************************************************************)
(* Proofs about Shipment, for any number of calls, any types of documents  *)
(* and requirements of phases, any prices and any of the faults.           *)
(*                                                                         *)
(* A handler inserts the copy of the record it read before its awaits, so  *)
(* an invariant of the record has to hold of every suspended copy too:     *)
(* Sound is that invariant, IInv states it of the record, of the copies    *)
(* and of what the calls already checked.  That an insertion loses nothing *)
(* is true of copies that are not stale only: FreshCalls says that the     *)
(* record still keeps what those hold.  PriceReservedOnce has an invariant *)
(* of its own, Turns, for calls that take turns.                           *)
(***************************************************************************)
EXTENDS Shipment, FiniteSetTheorems, SequenceTheorems, TLAPS

-----------------------------------------------------------------------------
\* Where something is in a sequence.

(***************************************************************************)
(* Places that are not empty have a first one: among the intervals from 1  *)
(* to a place there is one that includes no other.                         *)
(***************************************************************************)
LEMMA FirstPlace ==
  ASSUME NEW I \in SUBSET Nat, I # {}
  PROVE  Min(I) \in I
<1> DEFINE T == {1 .. i : i \in I}
<1>1. T \subseteq FiniteSubsetsOf(Nat) /\ T # {}
  <2>1. \A i \in Nat : IsFiniteSet(1 .. i)
    BY FS_Interval
  <2>2. \A i \in Nat : 1 .. i \in SUBSET Nat
    OBVIOUS
  <2> QED
    BY <2>1, <2>2 DEF FiniteSubsetsOf
<1>2. PICK X \in T : \A Y \in T : <<Y, X>> \notin StrictSubsetOrdering(Nat)
  <2> HIDE DEF T
  <2> QED
    BY <1>1, FS_StrictSubsetOrderingWellFounded, WFMin
<1>3. PICK x \in I : X = 1 .. x
  BY <1>2
<1>4. \A y \in I : x <= y
  <2> SUFFICES ASSUME NEW y \in I, y < x
               PROVE  FALSE
    OBVIOUS
  <2>1. 1 .. y \subseteq 1 .. x /\ x \in 1 .. x /\ x \notin 1 .. y
    OBVIOUS
  <2>2. <<1 .. y, X>> \in StrictSubsetOrdering(Nat)
    BY <2>1, <1>3 DEF StrictSubsetOrdering
  <2> QED
    BY <2>2, <1>2
<1>5. QED
  BY <1>4 DEF Min

(***************************************************************************)
(* PlaceOfType finds the entry of a type if there is one.                  *)
(***************************************************************************)
LEMMA PlaceOfTypeFinds ==
  ASSUME NEW r \in Record, NEW type
  PROVE  /\ PlaceOfType(r, type) \in 0 .. Len(r.documents)
         /\ PlaceOfType(r, type) # 0 => r.documents[PlaceOfType(r, type)].type = type
         /\ PlaceOfType(r, type) = 0 =>
              \A i \in 1 .. Len(r.documents) : r.documents[i].type # type
<1> DEFINE I == {i \in 1 .. Len(r.documents) : r.documents[i].type = type}
<1>1. PlaceOfType(r, type) = IF I # {} THEN Min(I) ELSE 0
  BY DEF PlaceOfType, SelectInSeq
<1>2. Len(r.documents) \in Nat
  BY DEF Record
<1>3. I # {} => Min(I) \in I
  <2>1. I \subseteq Nat
    OBVIOUS
  <2> HIDE DEF I
  <2> QED
    BY <2>1, FirstPlace
<1>4. QED
  BY <1>1, <1>2, <1>3

(***************************************************************************)
(* PlaceOfId finds an entry with a document of the id, if there is one.    *)
(***************************************************************************)
LEMMA PlaceOfIdFinds ==
  ASSUME NEW r \in Record, NEW id, PlaceOfId(r, id) # 0
  PROVE  /\ PlaceOfId(r, id) \in 1 .. Len(r.documents)
         /\ \E k \in DOMAIN r.documents[PlaceOfId(r, id)].docs :
              r.documents[PlaceOfId(r, id)].docs[k].id = id
<1> DEFINE I == {i \in 1 .. Len(r.documents) :
                   \E k \in DOMAIN r.documents[i].docs : r.documents[i].docs[k].id = id}
<1>1. PlaceOfId(r, id) = IF I # {} THEN Min(I) ELSE 0
  BY DEF PlaceOfId, SelectInSeq
<1>2. Len(r.documents) \in Nat
  BY DEF Record
<1>3. I # {} => Min(I) \in I
  <2>1. I \subseteq Nat
    OBVIOUS
  <2> HIDE DEF I
  <2> QED
    BY <2>1, FirstPlace
<1>4. QED
  BY <1>1, <1>2, <1>3

(***************************************************************************)
(* PlaceInTuple finds a document with the id, if there is one.             *)
(***************************************************************************)
LEMMA PlaceInTupleFinds ==
  ASSUME NEW docs \in Seq(Document), NEW id, \E k \in DOMAIN docs : docs[k].id = id
  PROVE  /\ PlaceInTuple(docs, id) \in 1 .. Len(docs)
         /\ docs[PlaceInTuple(docs, id)].id = id
<1> DEFINE I == {k \in 1 .. Len(docs) : docs[k].id = id}
<1>1. PlaceInTuple(docs, id) = IF I # {} THEN Min(I) ELSE 0
  BY DEF PlaceInTuple, SelectInSeq
<1>2. I # {} /\ Len(docs) \in Nat
  OBVIOUS
<1>3. Min(I) \in I
  <2>1. I \subseteq Nat
    OBVIOUS
  <2> HIDE DEF I
  <2> QED
    BY <2>1, <1>2, FirstPlace
<1>4. QED
  BY <1>1, <1>2, <1>3

-----------------------------------------------------------------------------
\* What is true of every record the canister keeps, stored or copied.

\* One entry for a type, one document in it unless it is generic.
Tidy(r) ==
  /\ \A i, j \in 1 .. Len(r.documents) :
       r.documents[i].type = r.documents[j].type => i = j
  /\ \A i \in 1 .. Len(r.documents) :
       /\ r.documents[i].docs # <<>>
       /\ r.documents[i].type # Generic => Len(r.documents[i].docs) = 1

\* StagesInOrder of one record.
Staged(r) ==
  /\ r.details # "NOT_EVALUATED" => r.detailsSet /\ GetShipmentPhase(r) >= 2
  /\ r.funds # "NOT_LOCKED" => GetShipmentPhase(r) >= 3 /\ r.downPayment = "escrow"
  /\ r.funds = "RELEASED" => GetShipmentPhase(r) >= 5
  /\ r.quality # "NOT_EVALUATED" => GetShipmentPhase(r) >= Confirmed

Sound(r) == r \in Record /\ Tidy(r) /\ Staged(r)

\* The approved documents, by type.
Approves(r, type) ==
  \E i \in 1 .. Len(r.documents) :
    r.documents[i].type = type /\ r.documents[i].docs[1].status = "APPROVED"

\* The record s keeps what is final in r.
Keeps(r, s) ==
  /\ \A i \in 1 .. Len(r.documents) :
       (r.documents[i].type # Generic /\ r.documents[i].docs[1].status = "APPROVED") =>
         i \in 1 .. Len(s.documents) /\ s.documents[i] = r.documents[i]
  /\ r.sample = "APPROVED" => s.sample = "APPROVED"
  /\ r.details = "APPROVED" => s.details = "APPROVED" /\ s.price = r.price
  /\ r.funds # "NOT_LOCKED" => s.funds # "NOT_LOCKED"
  /\ r.quality # "NOT_EVALUATED" => s.quality = r.quality

(***************************************************************************)
(* Tidy is a property of the documents.                                    *)
(***************************************************************************)
LEMMA TidyDocuments ==
  ASSUME NEW s, NEW E, s.documents = E,
         \A i, j \in 1 .. Len(E) : E[i].type = E[j].type => i = j,
         \A i \in 1 .. Len(E) :
           E[i].docs # <<>> /\ (E[i].type # Generic => Len(E[i].docs) = 1)
  PROVE  Tidy(s)
BY DEF Tidy

(***************************************************************************)
(* In a tidy record, the documents asked for are approved when each of     *)
(* their types has an approved document.                                   *)
(***************************************************************************)
LEMMA ApprovedTypes ==
  ASSUME NEW r \in Record, Tidy(r), NEW types
  PROVE  AreDocumentsUploadedAndApproved(r, types) <=> \A type \in types : Approves(r, type)
<1> SUFFICES ASSUME NEW type
             PROVE  LET docs == GetDocumentsByType(r, type)
                    IN  (docs # <<>> /\ docs[1].status = "APPROVED") <=> Approves(r, type)
  BY DEF AreDocumentsUploadedAndApproved
<1> DEFINE p == PlaceOfType(r, type)
<1>1. /\ p \in 0 .. Len(r.documents)
      /\ p # 0 => r.documents[p].type = type
      /\ p = 0 => \A i \in 1 .. Len(r.documents) : r.documents[i].type # type
  BY PlaceOfTypeFinds
<1>2. GetDocumentsByType(r, type) = IF p = 0 THEN <<>> ELSE r.documents[p].docs
  BY DEF GetDocumentsByType
<1>3. Len(r.documents) \in Nat
  BY DEF Record
<1> HIDE DEF p
<1>4. CASE p = 0
  BY <1>1, <1>2, <1>4 DEF Approves
<1>5. CASE p # 0
  <2>1. p \in 1 .. Len(r.documents)
    BY <1>1, <1>3, <1>5
  <2>2. r.documents[p].docs # <<>>
    BY <2>1 DEF Tidy
  <2>3. \A i \in 1 .. Len(r.documents) : r.documents[i].type = type => i = p
    BY <2>1, <1>1, <1>5 DEF Tidy
  <2> QED
    BY <2>1, <2>2, <2>3, <1>1, <1>2, <1>5 DEF Approves
<1> QED
  BY <1>4, <1>5

(***************************************************************************)
(* The phase of a record, read backwards.                                  *)
(***************************************************************************)
LEMMA PhaseReads ==
  ASSUME NEW r \in Record
  PROVE  /\ GetShipmentPhase(r) \in Phases
         /\ GetShipmentPhase(r) >= 2 <=> Phase1Complete(r)
         /\ GetShipmentPhase(r) >= 3 <=> Phase1Complete(r) /\ Phase2Complete(r)
         /\ GetShipmentPhase(r) >= 4 <=>
              Phase1Complete(r) /\ Phase2Complete(r) /\ Phase3Complete(r)
         /\ GetShipmentPhase(r) >= 5 <=>
              Phase1Complete(r) /\ Phase2Complete(r) /\ Phase3Complete(r) /\ Phase4Complete(r)
         /\ GetShipmentPhase(r) >= Confirmed <=>
              GetShipmentPhase(r) >= 5 /\ r.quality # "NOT_EVALUATED"
         /\ GetShipmentPhase(r) >= Confirmed =>
              GetShipmentPhase(r) = (IF r.quality = "APPROVED" THEN Confirmed ELSE Arbitration)
BY DEF GetShipmentPhase, Phases, Confirmed, Arbitration

(***************************************************************************)
(* What keeps a record keeps its phase, or advances it.                    *)
(***************************************************************************)
LEMMA KeepsAdvances ==
  ASSUME NEW r \in Record, NEW s \in Record, Tidy(r), Tidy(s), Keeps(r, s)
  PROVE  GetShipmentPhase(s) >= GetShipmentPhase(r)
<1>1. \A type \in DocumentTypes \ {Generic} : Approves(r, type) => Approves(s, type)
  BY DEF Approves, Keeps
<1>2. ASSUME NEW p \in 1 .. 4, PhaseDocumentsApproved(r, p)
      PROVE  PhaseDocumentsApproved(s, p)
  <2>1. Required[p] \subseteq DocumentTypes \ {Generic}
    BY DocumentsAssumption
  <2>2. \A type \in Required[p] : Approves(r, type)
    BY <1>2, ApprovedTypes DEF PhaseDocumentsApproved
  <2>3. \A type \in Required[p] : Approves(s, type)
    BY <2>1, <2>2, <1>1
  <2> QED
    BY <2>3, ApprovedTypes DEF PhaseDocumentsApproved
<1>3. /\ Phase1Complete(r) => Phase1Complete(s)
      /\ Phase2Complete(r) => Phase2Complete(s)
      /\ Phase3Complete(r) => Phase3Complete(s)
      /\ Phase4Complete(r) => Phase4Complete(s)
  BY <1>2 DEF Keeps, Phase1Complete, Phase2Complete, Phase3Complete, Phase4Complete
<1>4. r.quality # "NOT_EVALUATED" => s.quality = r.quality
  BY DEF Keeps
<1> QED
  BY <1>3, <1>4, PhaseReads DEF Phases, Confirmed, Arbitration

(***************************************************************************)
(* A change of documents that keeps what is approved leaves a record       *)
(* sound.                                                                  *)
(***************************************************************************)
LEMMA DocumentsChange ==
  ASSUME NEW r, Sound(r), NEW s \in Record, Tidy(s), Keeps(r, s),
         s.details = r.details, s.detailsSet = r.detailsSet, s.funds = r.funds,
         s.quality = r.quality, s.downPayment = r.downPayment
  PROVE  Sound(s)
<1>1. GetShipmentPhase(s) >= GetShipmentPhase(r)
  BY KeepsAdvances DEF Sound
<1>2. GetShipmentPhase(r) \in Phases /\ GetShipmentPhase(s) \in Phases
  BY PhaseReads DEF Sound
<1> QED
  BY <1>1, <1>2 DEF Sound, Staged, Phases, Confirmed

-----------------------------------------------------------------------------
\* Every handler leaves a sound record sound, and keeps what is final in it.

(***************************************************************************)
(* setShipmentDetails: the details of a phase 2 record are not approved.   *)
(***************************************************************************)
LEMMA DetailsKeep ==
  ASSUME NEW r, Sound(r), NEW s, NEW price \in Nat, SetShipmentDetails(r, s, price)
  PROVE  Sound(s) /\ Keeps(r, s)
<1>1. s \in Record /\ Tidy(s) /\ s.documents = r.documents
  BY DEF SetShipmentDetails, Sound, Record, Tidy
<1>2. Keeps(r, s)
  BY DEF SetShipmentDetails, Sound, Record, Keeps
<1>3. GetShipmentPhase(s) >= 2 /\ GetShipmentPhase(r) = 2 /\ GetShipmentPhase(s) \in Phases
  BY <1>1, <1>2, KeepsAdvances, PhaseReads DEF SetShipmentDetails, Sound
<1>4. s.detailsSet /\ s.funds = r.funds /\ s.quality = r.quality
  BY DEF SetShipmentDetails, Sound, Record
<1> QED
  BY <1>1, <1>2, <1>3, <1>4 DEF Sound, Staged, Phases, Confirmed

(***************************************************************************)
(* evaluateSample: nothing was judged or locked in phase 1.                *)
(***************************************************************************)
LEMMA SampleKeeps ==
  ASSUME NEW r, Sound(r), NEW s, NEW verdict \in Verdicts, EvaluateSample(r, s, verdict)
  PROVE  Sound(s) /\ Keeps(r, s)
<1>1. s \in Record /\ Tidy(s) /\ s.documents = r.documents
  BY DEF EvaluateSample, Sound, Record, Tidy
<1>2. Keeps(r, s)
  BY DEF EvaluateSample, Sound, Record, Keeps
<1>3. s.details = r.details /\ s.funds = r.funds /\ s.quality = r.quality
  BY DEF EvaluateSample, Sound, Record
<1> QED
  BY <1>1, <1>2, <1>3 DEF EvaluateSample, Sound, Staged, Confirmed

(***************************************************************************)
(* evaluateShipmentDetails: in phase 2 and after the details are set.      *)
(***************************************************************************)
LEMMA DetailsVerdictKeeps ==
  ASSUME NEW r, Sound(r), NEW s, NEW verdict \in Verdicts,
         EvaluateShipmentDetails(r, s, verdict)
  PROVE  Sound(s) /\ Keeps(r, s)
<1>1. s \in Record /\ Tidy(s) /\ s.documents = r.documents
  BY DEF EvaluateShipmentDetails, Sound, Record, Tidy
<1>2. Keeps(r, s)
  BY DEF EvaluateShipmentDetails, Sound, Record, Keeps
<1>3. GetShipmentPhase(s) >= 2 /\ GetShipmentPhase(r) = 2 /\ GetShipmentPhase(s) \in Phases
  BY <1>1, <1>2, KeepsAdvances, PhaseReads DEF EvaluateShipmentDetails, Sound
<1>4. s.detailsSet /\ s.funds = r.funds /\ s.quality = r.quality
  BY DEF EvaluateShipmentDetails, Sound, Record
<1> QED
  BY <1>1, <1>2, <1>3, <1>4 DEF Sound, Staged, Phases, Confirmed

(***************************************************************************)
(* evaluateQuality: in phase 5, which it may only complete.                *)
(***************************************************************************)
LEMMA QualityKeeps ==
  ASSUME NEW r, Sound(r), NEW s, NEW verdict \in Verdicts, EvaluateQuality(r, s, verdict)
  PROVE  Sound(s) /\ Keeps(r, s)
<1>1. s \in Record /\ Tidy(s) /\ s.documents = r.documents
  BY DEF EvaluateQuality, Sound, Record, Tidy
<1>2. GetShipmentPhase(r) = 5 /\ r.quality = "NOT_EVALUATED"
  BY PhaseReads DEF EvaluateQuality, Sound, Confirmed, Phases
<1>3. Keeps(r, s)
  BY <1>2 DEF EvaluateQuality, Sound, Record, Keeps
<1>4. GetShipmentPhase(s) >= 5 /\ GetShipmentPhase(s) \in Phases
  BY <1>1, <1>2, <1>3, KeepsAdvances, PhaseReads DEF Sound
<1>5. s.quality # "NOT_EVALUATED" => GetShipmentPhase(s) >= Confirmed
  BY <1>1, <1>4, PhaseReads
<1>6. /\ s.details = r.details /\ s.detailsSet = r.detailsSet /\ s.funds = r.funds
      /\ s.downPayment = r.downPayment
  BY DEF EvaluateQuality, Sound, Record
<1> QED
  BY <1>1, <1>2, <1>3, <1>4, <1>5, <1>6 DEF Sound, Staged, Phases

(***************************************************************************)
(* addDocument: only a document that is not approved is replaced.          *)
(***************************************************************************)
LEMMA AddDocumentKeeps ==
  ASSUME NEW r, Sound(r), NEW s, NEW type \in DocumentTypes, NEW party \in Parties,
         NEW url \in Urls, AddDocument(r, s, type, party, url)
  PROVE  Sound(s) /\ Keeps(r, s)
<1> DEFINE D == r.documents
           p == PlaceOfType(r, type)
           new == NewDocument(r, party, url)
           old == GetDocumentsByType(r, type)
           docs == IF type = Generic THEN Append(old, new) ELSE <<new>>
           t == [type |-> type, docs |-> docs]
           E == IF p = 0 THEN Append(D, t) ELSE [D EXCEPT ![p] = t]
<1>1. s = [r EXCEPT !.documents = E]
  BY DEF AddDocument, WithTuple
<1>2. D \in Seq(Tuple) /\ Len(D) \in Nat /\ new \in Document /\ r \in Record /\ Tidy(r)
  BY DEF Sound, Record, Document, Verdicts, NewDocument
<1>3. /\ p \in 0 .. Len(D)
      /\ p # 0 => D[p].type = type
      /\ p = 0 => \A i \in 1 .. Len(D) : D[i].type # type
  BY <1>2, PlaceOfTypeFinds
<1>4. (type # Generic /\ p # 0) => D[p].docs[1].status # "APPROVED"
  BY <1>2, <1>3 DEF AddDocument, GetDocumentsByType, Tidy
<1>5. old \in Seq(Document)
  <2>1. p # 0 => D[p] \in Tuple
    BY <1>2, <1>3
  <2> QED
    BY <2>1 DEF GetDocumentsByType, Tuple
<1> HIDE DEF old, new
<1>6. t \in Tuple /\ t.type = type /\ t.docs # <<>> /\ (type # Generic => Len(t.docs) = 1)
  BY <1>2, <1>5 DEF Tuple
<1> HIDE DEF p, docs, t, D
<1>7. /\ E \in Seq(Tuple)
      /\ \A i \in 1 .. Len(D) : i \in 1 .. Len(E) /\ (i # p => E[i] = D[i])
      /\ \A i \in 1 .. Len(E) : i \notin 1 .. Len(D) => i = Len(D) + 1 /\ p = 0 /\ E[i] = t
      /\ p # 0 => E[p] = t
  <2>1. CASE p = 0
    BY <1>2, <1>6, <2>1
  <2>2. CASE p # 0
    BY <1>2, <1>3, <1>6, <2>2
  <2> QED
    BY <2>1, <2>2
<1> HIDE DEF E
<1>8. s \in Record /\ s.documents = E
  BY <1>1, <1>2, <1>7 DEF Record
<1>9. Tidy(s)
  <2>1. \A i, j \in 1 .. Len(E) : E[i].type = E[j].type => i = j
    <3>1. \A i \in 1 .. Len(D) : E[i].type = D[i].type
      BY <1>3, <1>6, <1>7
    <3>2. \A i \in 1 .. Len(E) : i \notin 1 .. Len(D) =>
            i = Len(D) + 1 /\ p = 0 /\ E[i].type = type
      BY <1>6, <1>7
    <3>3. \A i, j \in 1 .. Len(D) : D[i].type = D[j].type => i = j
      BY <1>2 DEF Tidy, D
    <3> QED BY <1>3, <3>1, <3>2, <3>3
  <2>2. \A i \in 1 .. Len(E) :
          E[i].docs # <<>> /\ (E[i].type # Generic => Len(E[i].docs) = 1)
    BY <1>2, <1>3, <1>6, <1>7 DEF Tidy, D
  <2> QED
    BY <2>1, <2>2, <1>8 DEF Tidy
<1>10. Keeps(r, s)
  <2>1. \A i \in 1 .. Len(D) :
         (D[i].type # Generic /\ D[i].docs[1].status = "APPROVED") =>
           i \in 1 .. Len(E) /\ E[i] = D[i]
    BY <1>3, <1>4, <1>7
  <2>2. /\ s.sample = r.sample /\ s.details = r.details /\ s.price = r.price
        /\ s.funds = r.funds /\ s.quality = r.quality
    BY <1>1, <1>2 DEF Record
  <2> QED
    BY <2>1, <2>2, <1>8 DEF Keeps, D
<1> QED
  BY <1>1, <1>2, <1>8, <1>9, <1>10, DocumentsChange DEF Record

(***************************************************************************)
(* A document that is not final may be changed where it is.                *)
(***************************************************************************)
LEMMA ChangedDocumentKeeps ==
  ASSUME NEW r, Sound(r),
         NEW p \in 1 .. Len(r.documents), NEW k \in 1 .. Len(r.documents[p].docs),
         NEW d \in Document,
         r.documents[p].type # Generic => r.documents[p].docs[1].status # "APPROVED"
  PROVE  LET s == [r EXCEPT !.documents =
                     [r.documents EXCEPT ![p] =
                        [r.documents[p] EXCEPT !.docs = [r.documents[p].docs EXCEPT ![k] = d]]]]
         IN  Sound(s) /\ Keeps(r, s)
<1> DEFINE D == r.documents
           docs == [D[p].docs EXCEPT ![k] = d]
           t == [D[p] EXCEPT !.docs = docs]
           E == [D EXCEPT ![p] = t]
           s == [r EXCEPT !.documents = E]
<1>1. D \in Seq(Tuple) /\ Len(D) \in Nat /\ r \in Record /\ Tidy(r)
  BY DEF Sound, Record
<1>2. D[p] \in Tuple /\ D[p].docs \in Seq(Document)
  <2>1. D[p] \in Tuple
    BY <1>1
  <2> QED
    BY <2>1 DEF Tuple
<1>3. docs \in Seq(Document) /\ Len(docs) = Len(D[p].docs) /\ docs # <<>>
  <2>1. docs \in Seq(Document) /\ Len(docs) = Len(D[p].docs)
    BY <1>2
  <2> QED
    BY <2>1, <1>2
<1> HIDE DEF docs
<1>4. t \in Tuple /\ t.type = D[p].type /\ t.docs = docs
  BY <1>2, <1>3 DEF Tuple
<1> HIDE DEF t, D
<1>5. /\ E \in Seq(Tuple) /\ Len(E) = Len(D) /\ E[p] = t
      /\ \A i \in 1 .. Len(D) : i # p => E[i] = D[i]
  BY <1>1, <1>4 DEF D
<1> HIDE DEF E
<1>6. /\ s.sample = r.sample /\ s.details = r.details /\ s.price = r.price
      /\ s.funds = r.funds /\ s.quality = r.quality /\ s.detailsSet = r.detailsSet
      /\ s.downPayment = r.downPayment
  BY <1>1 DEF Record
<1>7. s \in Record /\ s.documents = E
  BY <1>1, <1>5 DEF Record
<1> HIDE DEF s
<1>8. Tidy(s)
  <2>1. \A i \in 1 .. Len(D) : E[i].type = D[i].type
    BY <1>4, <1>5
  <2>2. \A i, j \in 1 .. Len(E) : E[i].type = E[j].type => i = j
    BY <2>1, <1>1, <1>5 DEF Tidy, D
  <2>3. \A i \in 1 .. Len(E) :
          E[i].docs # <<>> /\ (E[i].type # Generic => Len(E[i].docs) = 1)
    <3> SUFFICES ASSUME NEW i \in 1 .. Len(D)
                 PROVE  E[i].docs # <<>> /\ (E[i].type # Generic => Len(E[i].docs) = 1)
      BY <1>5
    <3>1. CASE i = p
      BY <3>1, <1>1, <1>3, <1>4, <1>5 DEF Tidy, D
    <3>2. CASE i # p
      BY <3>2, <1>1, <1>5 DEF Tidy, D
    <3> QED
      BY <3>1, <3>2
  <2>4. s.documents = E
    BY <1>7
  <2> HIDE DEF D
  <2> QED
    BY <2>2, <2>3, <2>4, TidyDocuments
<1>9. Keeps(r, s)
  <2>1. \A i \in 1 .. Len(D) :
         (D[i].type # Generic /\ D[i].docs[1].status = "APPROVED") =>
           i \in 1 .. Len(E) /\ E[i] = D[i]
    BY <1>5 DEF D
  <2> QED
    BY <2>1, <1>6, <1>7 DEF Keeps, D
<1>10. Sound(s)
  BY <1>6, <1>7, <1>8, <1>9, DocumentsChange
<1> QED
  BY <1>9, <1>10 DEF s, E, t, docs, D

(***************************************************************************)
(* updateDocument: not a document that is approved.                        *)
(***************************************************************************)
LEMMA UpdateDocumentKeeps ==
  ASSUME NEW r, Sound(r), NEW s, NEW id, NEW party \in Parties,
         NEW url \in Urls, UpdateDocument(r, s, id, party, url)
  PROVE  Sound(s) /\ Keeps(r, s)
<1> DEFINE p == PlaceOfId(r, id)
           docs == r.documents[p].docs
           k == PlaceInTuple(docs, id)
           d == [docs[k] EXCEPT !.externalUrl = url, !.uploadedBy = party]
<1>1. r \in Record /\ Tidy(r) /\ r.documents \in Seq(Tuple)
  BY DEF Sound, Record
<1>2. p # 0 /\ docs[k].status # "APPROVED"
      /\ s = [r EXCEPT !.documents[p].docs[k] = d]
  BY DEF UpdateDocument
<1>3. p \in 1 .. Len(r.documents) /\ \E j \in DOMAIN docs : docs[j].id = id
  BY <1>1, <1>2, PlaceOfIdFinds
<1>4. docs \in Seq(Document)
  <2>1. r.documents[p] \in Tuple
    BY <1>1, <1>3
  <2> QED
    BY <2>1 DEF Tuple
<1>5. k \in 1 .. Len(docs)
  BY <1>3, <1>4, PlaceInTupleFinds
<1>6. d \in Document
  <2>1. docs[k] \in Document
    BY <1>4, <1>5
  <2> QED
    BY <2>1 DEF Document
<1>7. r.documents[p].type # Generic => docs[1].status # "APPROVED"
  BY <1>1, <1>2, <1>3, <1>5 DEF Tidy
<1>8. s = [r EXCEPT !.documents =
             [r.documents EXCEPT ![p] =
                [r.documents[p] EXCEPT !.docs = [r.documents[p].docs EXCEPT ![k] = d]]]]
  BY <1>2
<1> HIDE DEF p, k, d
<1> QED
  BY <1>3, <1>5, <1>6, <1>7, <1>8, ChangedDocumentKeeps

(***************************************************************************)
(* evaluateDocument: not in a tuple whose first document is approved.      *)
(***************************************************************************)
LEMMA VerdictKeeps ==
  ASSUME NEW r, Sound(r), NEW id, NEW verdict \in Verdicts, NEW party,
         MayEvaluateDocument(r, id, party)
  PROVE  Sound(WithVerdict(r, id, verdict)) /\ Keeps(r, WithVerdict(r, id, verdict))
<1> DEFINE p == PlaceOfId(r, id)
           docs == r.documents[p].docs
           k == PlaceInTuple(docs, id)
           d == [docs[k] EXCEPT !.status = verdict]
           s == WithVerdict(r, id, verdict)
<1>1. r \in Record /\ Tidy(r) /\ r.documents \in Seq(Tuple)
  BY DEF Sound, Record
<1>2. p # 0 /\ docs[1].status # "APPROVED"
      /\ s = [r EXCEPT !.documents[p].docs[k].status = verdict]
  BY DEF MayEvaluateDocument, WithVerdict
<1>3. p \in 1 .. Len(r.documents) /\ \E j \in DOMAIN docs : docs[j].id = id
  BY <1>1, <1>2, PlaceOfIdFinds
<1>4. docs \in Seq(Document)
  <2>1. r.documents[p] \in Tuple
    BY <1>1, <1>3
  <2> QED
    BY <2>1 DEF Tuple
<1>5. k \in 1 .. Len(docs)
  BY <1>3, <1>4, PlaceInTupleFinds
<1>6. d \in Document
  <2>1. docs[k] \in Document
    BY <1>4, <1>5
  <2> QED
    BY <2>1 DEF Document
<1>7. s = [r EXCEPT !.documents =
             [r.documents EXCEPT ![p] =
                [r.documents[p] EXCEPT !.docs = [r.documents[p].docs EXCEPT ![k] = d]]]]
  BY <1>2
<1>8. r.documents[p].type # Generic => r.documents[p].docs[1].status # "APPROVED"
  BY <1>2
<1> HIDE DEF p, k, d, s
<1>9. Sound(s) /\ Keeps(r, s)
  BY <1>3, <1>5, <1>6, <1>7, <1>8, ChangedDocumentKeeps
<1> QED
  BY <1>9 DEF s

(***************************************************************************)
(* A verdict on a document changes nothing but documents.                  *)
(***************************************************************************)
LEMMA VerdictChangesDocuments ==
  ASSUME NEW r \in Record, NEW id, NEW verdict
  PROVE  LET s == WithVerdict(r, id, verdict)
         IN  /\ s.funds = r.funds /\ s.downPayment = r.downPayment
             /\ s.quality = r.quality /\ s.price = r.price /\ s.details = r.details
BY DEF WithVerdict, Record

-----------------------------------------------------------------------------
\* What calls do to their copy while they are suspended.

(***************************************************************************)
(* The address of the escrow is looked up before the funds are locked.     *)
(***************************************************************************)
LEMMA AddressKeeps ==
  ASSUME NEW r, Sound(r), r.funds = "NOT_LOCKED", NEW address \in Addresses
  PROVE  LET s == [r EXCEPT !.downPayment = address]
         IN  Sound(s) /\ Keeps(r, s) /\ GetShipmentPhase(s) = GetShipmentPhase(r)
<1> DEFINE s == [r EXCEPT !.downPayment = address]
<1>1. s \in Record /\ Tidy(s) /\ r \in Record /\ Tidy(r)
  BY DEF Sound, Record, Tidy
<1>2. Keeps(r, s) /\ Keeps(s, r)
  BY <1>1 DEF Record, Keeps
<1>3. /\ s.details = r.details /\ s.detailsSet = r.detailsSet /\ s.funds = r.funds
      /\ s.quality = r.quality
  BY <1>1 DEF Record
<1> HIDE DEF s
<1>4. GetShipmentPhase(s) = GetShipmentPhase(r)
  <2>1. GetShipmentPhase(r) \in Phases /\ GetShipmentPhase(s) \in Phases
    BY <1>1, PhaseReads
  <2>2. GetShipmentPhase(s) >= GetShipmentPhase(r) /\ GetShipmentPhase(r) >= GetShipmentPhase(s)
    BY <1>1, <1>2, KeepsAdvances
  <2> QED
    BY <2>1, <2>2 DEF Phases
<1>5. Sound(s)
  BY <1>1, <1>3, <1>4 DEF Sound, Staged
<1> QED
  BY <1>2, <1>4, <1>5 DEF s

(***************************************************************************)
(* lockFunds marks a record of phase 3.                                    *)
(***************************************************************************)
LEMMA LockedKeeps ==
  ASSUME NEW r, Sound(r), GetShipmentPhase(r) = 3, r.downPayment = "escrow"
  PROVE  LET s == [r EXCEPT !.funds = "LOCKED"]
         IN  Sound(s) /\ Keeps(r, s)
<1> DEFINE s == [r EXCEPT !.funds = "LOCKED"]
<1>1. s \in Record /\ Tidy(s) /\ r \in Record /\ Tidy(r)
  BY DEF Sound, Record, Tidy, FundsStates
<1>2. Keeps(r, s)
  BY <1>1 DEF Record, Keeps
<1>3. /\ s.details = r.details /\ s.detailsSet = r.detailsSet /\ s.funds = "LOCKED"
      /\ s.quality = r.quality /\ s.downPayment = r.downPayment
  BY <1>1 DEF Record
<1> HIDE DEF s
<1>4. GetShipmentPhase(s) \in Phases /\ GetShipmentPhase(s) >= 3
  BY <1>1, <1>2, KeepsAdvances, PhaseReads
<1>5. Sound(s)
  BY <1>1, <1>3, <1>4 DEF Sound, Staged, Phases, Confirmed
<1> QED
  BY <1>2, <1>5 DEF s

(***************************************************************************)
(* The funds of a record of phase 5 are marked released.                   *)
(***************************************************************************)
LEMMA ReleasedKeeps ==
  ASSUME NEW r, Sound(r), GetShipmentPhase(r) >= 5, r.funds # "NOT_LOCKED"
  PROVE  LET s == [r EXCEPT !.funds = "RELEASED"]
         IN  Sound(s) /\ Keeps(r, s)
<1> DEFINE s == [r EXCEPT !.funds = "RELEASED"]
<1>1. s \in Record /\ Tidy(s) /\ r \in Record /\ Tidy(r)
  BY DEF Sound, Record, Tidy, FundsStates
<1>2. Keeps(r, s)
  BY <1>1 DEF Record, Keeps
<1>3. /\ s.details = r.details /\ s.detailsSet = r.detailsSet /\ s.funds = "RELEASED"
      /\ s.quality = r.quality /\ s.downPayment = r.downPayment
  BY <1>1 DEF Record
<1> HIDE DEF s
<1>4. GetShipmentPhase(s) \in Phases /\ GetShipmentPhase(s) >= 5
      /\ GetShipmentPhase(s) >= GetShipmentPhase(r) /\ GetShipmentPhase(r) \in Phases
  BY <1>1, <1>2, KeepsAdvances, PhaseReads DEF Phases
<1>5. Sound(s)
  BY <1>1, <1>3, <1>4 DEF Sound, Staged, Phases, Confirmed
<1> QED
  BY <1>2, <1>5 DEF s

-----------------------------------------------------------------------------
\* The inductive invariant.

\* A suspended call, if the furthest phase so far is top: its copy is sound, and it got
\* where it is through the guards of its handler.
CallFine(x, top) ==
  /\ x \in Suspended /\ Sound(x.copy)
  /\ x.at = "address" => x.op # "release"
  /\ x.at \in {"locked", "deposited"} => x.op = "lock"
  /\ x.at \in {"nonce", "send"} => x.op # "determine" /\ x.copy.downPayment # "none"
  /\ x.op # "release" => x.copy.funds = "NOT_LOCKED"
  /\ x.op = "lock" =>
       /\ GetShipmentPhase(x.copy) = 3 /\ top >= 3
       /\ x.at \in {"deposited", "nonce", "send"} => x.copy.downPayment = "escrow"
  /\ x.op = "release" =>
       GetShipmentPhase(x.copy) >= 5 /\ x.copy.funds = "LOCKED" /\ top >= 5

ChainOK ==
  /\ pending \in {NoTx} \cup Tx /\ current \subseteq Calls /\ registered \in BOOLEAN
  /\ held \in Nat /\ locked \in Nat /\ paid \in Nat
  /\ locked <= held

IInv ==
  /\ TypeOK /\ ChainOK
  /\ Sound(shipment) /\ peak >= GetShipmentPhase(shipment)
  /\ \A c \in Calls : call[c] # Idle => CallFine(call[c], peak)
  /\ MoneyFollowsApproval

\* A call whose copy is not out of date has everything that is final in the record.
FreshCalls ==
  \A c \in Calls \ stale : call[c] # Idle => Keeps(shipment, call[c].copy)

(***************************************************************************)
(* The furthest phase only grows, and the call records change only at c.   *)
(***************************************************************************)
LEMMA ObserveGrows ==
  ASSUME peak \in Phases, GetShipmentPhase(shipment') \in Phases, Observe
  PROVE  /\ peak' \in Phases /\ peak' >= peak /\ peak' >= GetShipmentPhase(shipment')
         /\ stale' \subseteq Calls
BY DEF Observe, Phases

(***************************************************************************)
(* A suspended call is still fine when the furthest phase has grown.       *)
(***************************************************************************)
LEMMA FineGrows ==
  ASSUME NEW x, NEW top \in Phases, NEW next \in Phases, next >= top, CallFine(x, top)
  PROVE  CallFine(x, next)
BY DEF CallFine, Phases

(***************************************************************************)
(* What a step has to show for the invariant: about the record, about the  *)
(* calls it changed, about the chain and about the money.                  *)
(***************************************************************************)
LEMMA StepKeeps ==
  ASSUME IInv, Observe, Sound(shipment'),
         call' \in [Calls -> {Idle} \cup Suspended],
         \A c \in Calls :
           (call'[c] # Idle /\ call'[c] # call[c]) => CallFine(call'[c], peak'),
         ChainOK', MoneyFollowsApproval'
  PROVE  IInv'
<1>1. GetShipmentPhase(shipment') \in Phases /\ shipment' \in Record
  BY PhaseReads DEF Sound
<1>2. /\ peak' \in Phases /\ peak' >= peak /\ peak' >= GetShipmentPhase(shipment')
      /\ stale' \subseteq Calls
  BY <1>1, ObserveGrows DEF IInv, TypeOK
<1>3. ASSUME NEW c \in Calls, call'[c] # Idle
      PROVE  CallFine(call'[c], peak')
  BY <1>2, <1>3, FineGrows DEF IInv, TypeOK
<1>4. TypeOK'
  BY <1>1, <1>2 DEF TypeOK, ChainOK
<1> QED
  BY <1>2, <1>3, <1>4 DEF IInv

(***************************************************************************)
(* The money is where it was: then it followed approval as before.         *)
(***************************************************************************)
LEMMA MoneyStays ==
  ASSUME IInv, Observe, Sound(shipment'), UNCHANGED <<pending, escrowVars>>
  PROVE  MoneyFollowsApproval'
<1>1. GetShipmentPhase(shipment') \in Phases
  BY PhaseReads DEF Sound
<1>2. peak' \in Phases /\ peak' >= peak /\ peak \in Phases
  BY <1>1, ObserveGrows DEF IInv, TypeOK
<1> QED
  BY <1>2 DEF IInv, MoneyFollowsApproval, escrowVars, Phases

(***************************************************************************)
(* A handler without an await.                                             *)
(***************************************************************************)
LEMMA HandlerKeeps ==
  ASSUME IInv, Observe, Sound(shipment'), UNCHANGED <<call, evmVars>>
  PROVE  IInv'
<1>1. MoneyFollowsApproval'
  BY MoneyStays DEF evmVars, chain
<1>2. ChainOK'
  BY DEF IInv, ChainOK, evmVars, chain, escrowVars
<1>3. call' = call /\ call' \in [Calls -> {Idle} \cup Suspended]
  BY DEF IInv, TypeOK
<1> QED
  BY <1>1, <1>2, <1>3, StepKeeps

(***************************************************************************)
(* A step of one call that leaves the escrow and the pending transaction.  *)
(***************************************************************************)
LEMMA CallKeeps ==
  ASSUME IInv, Observe, Sound(shipment'), NEW c \in Calls, NEW x,
         call' = [call EXCEPT ![c] = x],
         x = Idle \/ CallFine(x, peak'),
         current' \subseteq Calls,
         UNCHANGED <<pending, registered, escrowVars>>
  PROVE  IInv'
<1>1. MoneyFollowsApproval'
  BY MoneyStays
<1>2. ChainOK'
  BY DEF IInv, ChainOK, escrowVars
<1>3. x \in {Idle} \cup Suspended
  BY DEF CallFine
<1>4. call' \in [Calls -> {Idle} \cup Suspended] /\ \A k \in Calls : call'[k] # call[k] => call'[k] = x
  BY <1>3 DEF IInv, TypeOK
<1> QED
  BY <1>1, <1>2, <1>4, StepKeeps

(***************************************************************************)
(* The record every handler without an await inserts.                      *)
(***************************************************************************)
LEMMA HandlersKeep ==
  ASSUME Sound(shipment),
         \/ Details \/ SampleVerdict \/ DetailsVerdict \/ QualityVerdict
         \/ Upload \/ Reupload \/ DocumentVerdict
  PROVE  /\ Sound(shipment') /\ Keeps(shipment, shipment')
         /\ Observe /\ UNCHANGED <<call, evmVars>>
<1>1. CASE Details
  BY <1>1, DetailsKeep, PricesAssumption DEF Details
<1>2. CASE SampleVerdict
  BY <1>2, SampleKeeps, InputsAssumption DEF SampleVerdict
<1>3. CASE DetailsVerdict
  BY <1>3, DetailsVerdictKeeps, InputsAssumption DEF DetailsVerdict
<1>4. CASE QualityVerdict
  BY <1>4, QualityKeeps, InputsAssumption DEF QualityVerdict
<1>5. CASE Upload
  BY <1>5, AddDocumentKeeps, InputsAssumption DEF Upload
<1>6. CASE Reupload
  BY <1>6, UpdateDocumentKeeps, InputsAssumption DEF Reupload
<1>7. CASE DocumentVerdict
  BY <1>7, VerdictKeeps, InputsAssumption DEF DocumentVerdict
<1> QED
  BY <1>1, <1>2, <1>3, <1>4, <1>5, <1>6, <1>7

(***************************************************************************)
(* A handler that suspends keeps a copy of the record it read, which the   *)
(* verdict on a document may have changed.                                 *)
(***************************************************************************)
LEMMA SuspendKeeps ==
  ASSUME IInv, NEW c \in Calls,
         \/ DetermineDownPaymentAddress(c) \/ DepositFunds(c) \/ LockFunds(c)
         \/ UnlockFunds(c) \/ ReleasingVerdict(c)
  PROVE  \E x :
           /\ call' = [call EXCEPT ![c] = x] /\ CallFine(x, peak') /\ Keeps(shipment, x.copy)
           /\ Observe /\ UNCHANGED <<shipment, evmVars>>
<1> DEFINE Made(op, at, copy, amount) == [op |-> op, at |-> at, copy |-> copy, amount |-> amount]
<1>1. Sound(shipment) /\ shipment \in Record
  BY DEF IInv, Sound
<1>2. Observe /\ shipment' = shipment => peak' \in Phases /\ peak' >= GetShipmentPhase(shipment)
  BY <1>1, ObserveGrows, PhaseReads DEF IInv, TypeOK
<1>3. Keeps(shipment, shipment)
  BY DEF Keeps
<1>4. shipment.downPayment \in Addresses /\ shipment.funds \in FundsStates
  BY <1>1 DEF Record
<1>5. shipment.downPayment = "none" => shipment.funds = "NOT_LOCKED"
  BY <1>1 DEF Sound, Staged
<1>6. CASE DetermineDownPaymentAddress(c)
  <2> DEFINE x == Made("determine", "address", shipment, 0)
  <2>1. call' = [call EXCEPT ![c] = x] /\ UNCHANGED <<shipment, evmVars>> /\ Observe
    BY <1>6 DEF DetermineDownPaymentAddress, Suspend
  <2>2. CallFine(x, peak')
    BY <1>1, <1>5, <1>6 DEF DetermineDownPaymentAddress, CallFine, Suspended
  <2> QED
    BY <2>1, <2>2, <1>3
<1>7. CASE DepositFunds(c)
  <2>1. PICK amount \in Amounts :
          /\ shipment.funds = "NOT_LOCKED"
          /\ Suspend(c, "deposit", IF shipment.downPayment = "none" THEN "address" ELSE "nonce",
                     shipment, amount)
          /\ UNCHANGED evmVars
    BY <1>7 DEF DepositFunds
  <2> DEFINE at == IF shipment.downPayment = "none" THEN "address" ELSE "nonce"
             x == Made("deposit", at, shipment, amount)
  <2>2. call' = [call EXCEPT ![c] = x] /\ UNCHANGED <<shipment, evmVars>> /\ Observe
    BY <2>1 DEF Suspend
  <2>3. amount \in Nat
    BY InputsAssumption
  <2>4. CallFine(x, peak')
    BY <1>1, <2>1, <2>3 DEF CallFine, Suspended
  <2> QED
    BY <2>2, <2>4, <1>3
<1>8. CASE LockFunds(c)
  <2> DEFINE at == IF shipment.downPayment = "none" THEN "address" ELSE "locked"
             x == Made("lock", at, shipment, 0)
  <2>1. /\ call' = [call EXCEPT ![c] = x] /\ UNCHANGED <<shipment, evmVars>> /\ Observe
        /\ GetShipmentPhase(shipment) = 3 /\ shipment.funds = "NOT_LOCKED"
    BY <1>8 DEF LockFunds, Suspend
  <2>2. CallFine(x, peak')
    BY <1>1, <1>2, <2>1 DEF CallFine, Suspended, Phases
  <2> QED
    BY <2>1, <2>2, <1>3
<1>9. ASSUME NEW copy, Sound(copy), Keeps(shipment, copy), Releases(shipment),
             copy.funds = shipment.funds, copy.downPayment = shipment.downPayment,
             shipment.downPayment # "none",
             Suspend(c, "release", "nonce", copy, 0), UNCHANGED evmVars
      PROVE  \E x :
               /\ call' = [call EXCEPT ![c] = x] /\ CallFine(x, peak') /\ Keeps(shipment, x.copy)
               /\ Observe /\ UNCHANGED <<shipment, evmVars>>
  <2> DEFINE x == Made("release", "nonce", copy, 0)
  <2>1. call' = [call EXCEPT ![c] = x] /\ UNCHANGED <<shipment, evmVars>> /\ Observe
    BY <1>9 DEF Suspend
  <2>2. GetShipmentPhase(copy) >= GetShipmentPhase(shipment) /\ copy \in Record
        /\ GetShipmentPhase(copy) \in Phases
    BY <1>1, <1>9, KeepsAdvances, PhaseReads DEF Sound
  <2>3. GetShipmentPhase(shipment) = 5 /\ shipment.funds = "LOCKED"
    BY <1>9 DEF Releases
  <2>4. CallFine(x, peak')
    BY <1>2, <1>9, <2>1, <2>2, <2>3 DEF CallFine, Suspended, Phases
  <2> QED
    BY <2>1, <2>4, <1>9
<1>10. CASE UnlockFunds(c)
  BY <1>1, <1>3, <1>9, <1>10 DEF UnlockFunds
<1>11. CASE ReleasingVerdict(c)
  <2>1. PICK id \in DocumentIds(shipment), verdict \in Evaluations, party \in Parties :
          /\ MayEvaluateDocument(shipment, id, party) /\ Releases(shipment)
          /\ shipment.downPayment # "none"
          /\ Suspend(c, "release", "nonce", WithVerdict(shipment, id, verdict), 0)
          /\ UNCHANGED evmVars
    BY <1>11 DEF ReleasingVerdict
  <2>2. /\ Sound(WithVerdict(shipment, id, verdict))
        /\ Keeps(shipment, WithVerdict(shipment, id, verdict))
    BY <1>1, <2>1, VerdictKeeps, InputsAssumption
  <2>3. /\ WithVerdict(shipment, id, verdict).funds = shipment.funds
        /\ WithVerdict(shipment, id, verdict).downPayment = shipment.downPayment
    BY <1>1, VerdictChangesDocuments
  <2> QED
    BY <2>1, <2>2, <2>3, <1>9
<1> QED
  BY <1>6, <1>7, <1>8, <1>10, <1>11

(***************************************************************************)
(* What a call does with an answer, but that to a transaction it sent: it  *)
(* goes on with a copy that keeps what its copy had, inserts such a copy,  *)
(* or ends.                                                                *)
(***************************************************************************)
LEMMA AnswerKeeps ==
  ASSUME IInv, NEW c \in Calls,
         \/ AddressAnswered(c) \/ LockedAnswered(c) \/ DepositedAnswered(c)
         \/ NonceAnswered(c) \/ AwaitFails(c)
  PROVE  \E x :
           /\ call[c] # Idle /\ call' = [call EXCEPT ![c] = x]
           /\ x = Idle \/ (CallFine(x, peak') /\ Keeps(call[c].copy, x.copy))
           /\ \/ shipment' = shipment
              \/ x = Idle /\ Sound(shipment') /\ Keeps(call[c].copy, shipment')
           /\ Observe /\ current' \subseteq Calls
           /\ UNCHANGED <<pending, registered, escrowVars>>
<1> DEFINE y == call[c]
<1>1. call[c] # Idle
  BY DEF AddressAnswered, LockedAnswered, DepositedAnswered, NonceAnswered, AwaitFails, At
<1>2. CallFine(y, peak) /\ y \in Suspended /\ Sound(y.copy) /\ y.copy \in Record
  BY <1>1 DEF IInv, CallFine, Sound
<1>3. ASSUME shipment' = shipment, Observe
      PROVE  peak \in Phases /\ peak' \in Phases /\ peak' >= peak
  BY <1>3, ObserveGrows, PhaseReads DEF IInv, TypeOK, Sound
<1>4. /\ current \subseteq Calls /\ locked \in Nat
      /\ Keeps(y.copy, y.copy)
  BY DEF IInv, ChainOK, Keeps
<1>5. CASE AddressAnswered(c)
  <2> DEFINE address == IF registered THEN "escrow" ELSE "zero"
             found == [y.copy EXCEPT !.downPayment = address]
  <2>1. y.at = "address" /\ UNCHANGED evmVars
    BY <1>5 DEF AddressAnswered, At
  <2>2. \/ y.op = "determine" /\ address # "zero" /\ InsertAndReturn(c, found)
        \/ y.op = "deposit" /\ Continue(c, [y EXCEPT !.copy = found, !.at = "nonce"])
        \/ y.op = "lock" /\ Continue(c, [y EXCEPT !.copy = found, !.at = "locked"])
    BY <1>5 DEF AddressAnswered
  <2>3. y.copy.funds = "NOT_LOCKED"
    BY <1>2, <2>1 DEF CallFine
  <2>4. /\ Sound(found) /\ Keeps(y.copy, found)
        /\ GetShipmentPhase(found) = GetShipmentPhase(y.copy)
    BY <1>2, <2>3, AddressKeeps DEF Addresses
  <2>5. found.downPayment = address /\ found.funds = "NOT_LOCKED" /\ found \in Record
    BY <1>2, <2>3, <2>4 DEF Record, Sound
  <2>6. current' \subseteq Calls /\ UNCHANGED <<pending, registered, escrowVars>>
    BY <1>4, <2>1 DEF evmVars, chain, escrowVars
  <2> HIDE DEF found
  <2>7. CASE y.op = "determine" /\ InsertAndReturn(c, found)
    BY <1>1, <2>4, <2>6, <2>7 DEF InsertAndReturn
  <2>8. CASE y.op = "deposit" /\ Continue(c, [y EXCEPT !.copy = found, !.at = "nonce"])
    <3> DEFINE x == [y EXCEPT !.copy = found, !.at = "nonce"]
    <3>1. x \in Suspended /\ x.op = "deposit" /\ x.at = "nonce" /\ x.copy = found
      BY <1>2, <2>5, <2>8 DEF Suspended
    <3>2. call' = [call EXCEPT ![c] = x] /\ shipment' = shipment /\ Observe
      BY <2>8 DEF Continue
    <3> HIDE DEF x
    <3>3. CallFine(x, peak')
      BY <2>4, <2>5, <3>1 DEF CallFine
    <3> QED
      BY <1>1, <2>4, <2>6, <3>1, <3>2, <3>3
  <2>9. CASE y.op = "lock" /\ Continue(c, [y EXCEPT !.copy = found, !.at = "locked"])
    <3> DEFINE x == [y EXCEPT !.copy = found, !.at = "locked"]
    <3>1. x \in Suspended /\ x.op = "lock" /\ x.at = "locked" /\ x.copy = found
      BY <1>2, <2>5, <2>9 DEF Suspended
    <3>2. call' = [call EXCEPT ![c] = x] /\ shipment' = shipment /\ Observe
      BY <2>9 DEF Continue
    <3>3. GetShipmentPhase(found) = 3 /\ peak >= 3
      BY <1>2, <2>4, <2>9 DEF CallFine
    <3> HIDE DEF x
    <3>4. CallFine(x, peak')
      BY <1>3, <2>4, <2>5, <3>1, <3>2, <3>3 DEF CallFine, Phases
    <3> QED
      BY <1>1, <2>4, <2>6, <3>1, <3>2, <3>4
  <2> QED
    BY <2>2, <2>7, <2>8, <2>9
<1>6. ASSUME NEW amount \in Nat, NEW at \in {"deposited", "nonce", "send"},
             Continue(c, [y EXCEPT !.amount = amount, !.at = at]),
             y.op # "determine" /\ y.copy.downPayment # "none",
             at = "deposited" => y.op = "lock",
             y.op = "lock" => y.copy.downPayment = "escrow"
      PROVE  \E x :
               /\ call' = [call EXCEPT ![c] = x]
               /\ CallFine(x, peak') /\ Keeps(call[c].copy, x.copy)
               /\ shipment' = shipment /\ Observe
  <2> DEFINE x == [y EXCEPT !.amount = amount, !.at = at]
  <2>1. x \in Suspended /\ x.op = y.op /\ x.at = at /\ x.copy = y.copy
    BY <1>2, <1>6 DEF Suspended
  <2>2. call' = [call EXCEPT ![c] = x] /\ shipment' = shipment /\ Observe
    BY <1>6 DEF Continue
  <2> HIDE DEF x
  <2>3. CallFine(x, peak')
    BY <1>2, <1>3, <1>6, <2>1, <2>2 DEF CallFine, Phases
  <2> QED
    BY <1>4, <2>1, <2>2, <2>3
<1>7. CASE LockedAnswered(c)
  <2>1. /\ y.at = "locked" /\ y.copy.downPayment = "escrow" /\ y.op = "lock"
        /\ Continue(c, [y EXCEPT !.amount = locked, !.at = "deposited"]) /\ UNCHANGED evmVars
    BY <1>2, <1>7 DEF LockedAnswered, At, CallFine, GetLockedAmount
  <2>2. \E x :
          /\ call' = [call EXCEPT ![c] = x]
          /\ CallFine(x, peak') /\ Keeps(call[c].copy, x.copy)
          /\ shipment' = shipment /\ Observe
    BY <1>4, <1>6, <2>1
  <2> QED
    BY <1>1, <1>4, <2>1, <2>2 DEF evmVars, chain, escrowVars
<1>8. CASE DepositedAnswered(c)
  <2>1. /\ y.at = "deposited" /\ y.copy.downPayment = "escrow" /\ y.op = "lock"
        /\ UNCHANGED evmVars
        /\ \/ Continue(c, [y EXCEPT !.amount = 0, !.at = "nonce"])
           \/ InsertAndReturn(c, y.copy)
    BY <1>2, <1>8 DEF DepositedAnswered, At, CallFine
  <2>2. CASE Continue(c, [y EXCEPT !.amount = 0, !.at = "nonce"])
    <3>1. \E x :
            /\ call' = [call EXCEPT ![c] = x]
            /\ CallFine(x, peak') /\ Keeps(call[c].copy, x.copy)
            /\ shipment' = shipment /\ Observe
      BY <1>6, <2>1, <2>2
    <3> QED
      BY <1>1, <1>4, <2>1, <3>1 DEF evmVars, chain, escrowVars
  <2>3. CASE InsertAndReturn(c, y.copy)
    BY <1>1, <1>2, <1>4, <2>1, <2>3 DEF InsertAndReturn, evmVars, chain, escrowVars
  <2> QED
    BY <2>1, <2>2, <2>3
<1>9. CASE NonceAnswered(c)
  <2>1. /\ y.at = "nonce" /\ Continue(c, [y EXCEPT !.at = "send"])
        /\ current' = current \cup {c} /\ UNCHANGED <<pending, registered, escrowVars>>
    BY <1>9 DEF NonceAnswered, At, EthGetTransactionCount
  <2>2. y.amount \in Nat /\ [y EXCEPT !.at = "send"] = [y EXCEPT !.amount = y.amount, !.at = "send"]
    BY <1>2 DEF Suspended
  <2>3. /\ y.op # "determine" /\ y.copy.downPayment # "none"
        /\ y.op = "lock" => y.copy.downPayment = "escrow"
    BY <1>2, <2>1 DEF CallFine
  <2>4. \E x :
          /\ call' = [call EXCEPT ![c] = x]
          /\ CallFine(x, peak') /\ Keeps(call[c].copy, x.copy)
          /\ shipment' = shipment /\ Observe
    BY <1>6, <2>1, <2>2, <2>3
  <2> QED
    BY <1>1, <1>4, <2>1, <2>4
<1>10. CASE AwaitFails(c)
  BY <1>1, <1>4, <1>10 DEF AwaitFails, Throw
<1> QED
  BY <1>5, <1>7, <1>8, <1>9, <1>10

(***************************************************************************)
(* What a call does with the answer to a transaction: it inserts its copy  *)
(* with the funds marked, or ends; the transaction is pending, or nothing  *)
(* new is.                                                                 *)
(***************************************************************************)
LEMMA SendKeeps ==
  ASSUME IInv, NEW c \in Calls, SendAnswered(c)
  PROVE  /\ call[c] # Idle /\ call[c].at = "send" /\ CallFine(call[c], peak)
         /\ call' = [call EXCEPT ![c] = Idle] /\ Observe
         /\ \/ shipment' = shipment
            \/ shipment' = Outcome(c) /\ Sound(shipment') /\ Keeps(call[c].copy, shipment')
         /\ pending' = pending \/ (pending' = Transaction(c) /\ pending' \in Tx)
         /\ current' = current \ {c} /\ UNCHANGED <<registered, escrowVars>>
<1> DEFINE y == call[c]
<1>1. call[c] # Idle /\ y.at = "send"
  BY DEF SendAnswered, At
<1>2. CallFine(y, peak) /\ y \in Suspended /\ Sound(y.copy) /\ y.copy \in Record
      /\ y.op \in {"deposit", "lock", "release"} /\ y.copy.downPayment # "none"
  BY <1>1 DEF IInv, CallFine, Sound, Suspended
<1>3. Sound(Outcome(c)) /\ Keeps(y.copy, Outcome(c))
  <2>1. CASE y.op = "deposit"
    BY <1>2, <2>1 DEF Outcome, Keeps
  <2>2. CASE y.op = "lock"
    <3>1. GetShipmentPhase(y.copy) = 3 /\ y.copy.downPayment = "escrow"
      BY <1>1, <1>2, <2>2 DEF CallFine
    <3>2. Outcome(c) = [y.copy EXCEPT !.funds = "LOCKED"]
      BY <2>2 DEF Outcome
    <3> QED
      BY <1>2, <3>1, <3>2, LockedKeeps
  <2>3. CASE y.op = "release"
    <3>1. GetShipmentPhase(y.copy) >= 5 /\ y.copy.funds # "NOT_LOCKED"
      BY <1>2, <2>3 DEF CallFine
    <3>2. Outcome(c) = [y.copy EXCEPT !.funds = "RELEASED"]
      BY <2>3 DEF Outcome
    <3> QED
      BY <1>2, <3>1, <3>2, ReleasedKeeps
  <2> QED
    BY <1>2, <2>1, <2>2, <2>3
<1>4. Transaction(c) \in Tx
  BY <1>2 DEF Transaction, Tx, Operations, Suspended, Record, Addresses
<1>5. CASE EthSendRawTransaction(c, Transaction(c), "Ok") /\ InsertAndReturn(c, Outcome(c))
  BY <1>1, <1>2, <1>3, <1>4, <1>5 DEF EthSendRawTransaction, InsertAndReturn
<1>6. CASE EthSendRawTransaction(c, Transaction(c), "Err") /\ Throw(c)
  BY <1>1, <1>2, <1>4, <1>6 DEF EthSendRawTransaction, Throw
<1> QED
  BY <1>5, <1>6 DEF SendAnswered

(***************************************************************************)
(* A transaction is mined, another shipment sends one, or a payer          *)
(* withdraws: the pot never holds less than is locked.                     *)
(***************************************************************************)
LEMMA ChainKeeps ==
  ASSUME IInv, ChainSteps
  PROVE  /\ IInv' /\ UNCHANGED <<shipment, call, peak, stale>>
         /\ \/ /\ pending.op = "lock" /\ pending' = NoTx
               /\ locked' = locked + pending.amount /\ paid' = paid
            \/ /\ pending.op = "release" /\ pending' = NoTx
               /\ locked' + paid' = locked + paid
            \/ locked' = locked /\ paid' = paid /\ pending' \in {pending, NoTx, OtherTx}
<1>1. UNCHANGED <<shipment, call, peak, stale>>
  BY DEF ChainSteps
<1>2. /\ pending \in {NoTx} \cup Tx /\ held \in Nat /\ locked \in Nat /\ paid \in Nat
      /\ locked <= held /\ peak \in Phases /\ MoneyFollowsApproval
  BY DEF IInv, ChainOK, TypeOK
<1>3. ASSUME ChainOK', MoneyFollowsApproval'
      PROVE  IInv'
  <2>1. TypeOK'
    BY <1>1, <1>3 DEF IInv, TypeOK, ChainOK
  <2> QED
    BY <1>1, <1>3, <2>1 DEF IInv
<1>4. CASE Mine
  <2>1. /\ pending # NoTx /\ pending' = NoTx /\ current' = {}
        /\ registered' = (registered \/ pending.op = "register")
        /\ \/ /\ Succeeds(pending)
              /\ \/ pending.op = "deposit" /\ PotDeposit(pending.amount)
                 \/ pending.op = "lock"    /\ PotLock(pending.amount)
                 \/ pending.op = "release" /\ PotPayOut(pending.amount)
           \/ UNCHANGED escrowVars
    BY <1>4 DEF Mine
  <2>2. pending \in Tx /\ pending.amount \in Nat
    BY <1>2, <2>1 DEF Tx
  <2>3. registered' \in BOOLEAN /\ NoTx.op = "none"
    BY <2>1 DEF NoTx
  <2>4. CASE pending.op = "deposit" /\ PotDeposit(pending.amount)
    <3>1. held' = held + pending.amount /\ locked' = locked /\ paid' = paid
      BY <2>4 DEF PotDeposit
    <3>2. ChainOK'
      BY <1>2, <2>1, <2>2, <2>3, <3>1 DEF ChainOK
    <3>3. MoneyFollowsApproval'
      BY <1>1, <1>2, <2>1, <2>3, <3>1 DEF MoneyFollowsApproval
    <3> QED
      BY <1>1, <1>3, <2>1, <3>1, <3>2, <3>3
  <2>5. CASE pending.op = "lock" /\ PotLock(pending.amount)
    <3>1. held' = held /\ locked' = locked + pending.amount /\ paid' = paid
          /\ pending.amount <= held - locked
      BY <1>2, <2>2, <2>5 DEF PotLock
    <3>2. ChainOK'
      BY <1>2, <2>1, <2>2, <2>3, <3>1 DEF ChainOK
    <3>3. MoneyFollowsApproval'
      BY <1>1, <1>2, <2>1, <2>2, <2>3, <2>5, <3>1 DEF MoneyFollowsApproval
    <3> QED
      BY <1>1, <1>3, <2>1, <2>5, <3>1, <3>2, <3>3
  <2>6. CASE pending.op = "release" /\ PotPayOut(pending.amount)
    <3>1. held' = held - pending.amount /\ locked' = locked - pending.amount
          /\ paid' = paid + pending.amount /\ pending.amount <= locked
      BY <1>2, <2>2, <2>6 DEF PotPayOut
    <3>2. ChainOK'
      BY <1>2, <2>1, <2>2, <2>3, <3>1 DEF ChainOK
    <3>3. MoneyFollowsApproval'
      BY <1>1, <1>2, <2>1, <2>2, <2>3, <2>6, <3>1 DEF MoneyFollowsApproval, Phases
    <3>4. locked' + paid' = locked + paid
      BY <1>2, <2>2, <3>1
    <3> QED
      BY <1>1, <1>3, <2>1, <2>6, <3>2, <3>3, <3>4
  <2>7. CASE UNCHANGED escrowVars
    <3>1. held' = held /\ locked' = locked /\ paid' = paid
      BY <2>7 DEF escrowVars
    <3>2. ChainOK'
      BY <1>2, <2>1, <2>2, <2>3, <3>1 DEF ChainOK
    <3>3. MoneyFollowsApproval'
      BY <1>1, <1>2, <2>1, <2>3, <3>1 DEF MoneyFollowsApproval
    <3> QED
      BY <1>1, <1>3, <2>1, <3>1, <3>2, <3>3
  <2> QED
    BY <2>1, <2>4, <2>5, <2>6, <2>7
<1>5. CASE OtherShipmentSends
  <2>1. /\ pending' = OtherTx /\ current' = current /\ registered' = registered
        /\ held' = held /\ locked' = locked /\ paid' = paid
    BY <1>5 DEF OtherShipmentSends, escrowVars
  <2>2. OtherTx \in Tx /\ OtherTx.op = "other"
    BY DEF OtherTx, Tx, Operations
  <2>3. ChainOK'
    BY <2>1, <2>2 DEF IInv, ChainOK
  <2>4. MoneyFollowsApproval'
    BY <1>1, <1>2, <2>1, <2>2 DEF MoneyFollowsApproval
  <2> QED
    BY <1>1, <1>3, <2>1, <2>3, <2>4
<1>6. CASE \E amount \in Amounts : PayerWithdraws(amount)
  <2>1. PICK amount \in Amounts : PayerWithdraws(amount)
    BY <1>6
  <2>2. /\ amount \in Nat /\ amount <= held - locked /\ held' = held - amount
        /\ locked' = locked /\ paid' = paid
        /\ pending' = pending /\ current' = current /\ registered' = registered
    BY <1>2, <2>1, InputsAssumption DEF PayerWithdraws, PotWithdraw, chain
  <2>3. ChainOK'
    BY <1>2, <2>2 DEF IInv, ChainOK
  <2>4. MoneyFollowsApproval'
    BY <1>1, <1>2, <2>2 DEF MoneyFollowsApproval
  <2> QED
    BY <1>1, <1>3, <2>2, <2>3, <2>4
<1> QED
  BY <1>4, <1>5, <1>6 DEF ChainSteps

(***************************************************************************)
(* What is kept by what keeps a record is kept.                            *)
(***************************************************************************)
LEMMA KeepsOn ==
  ASSUME NEW r, NEW s, NEW t, Keeps(r, s), Keeps(s, t)
  PROVE  Keeps(r, t)
<1>1. ASSUME NEW i \in 1 .. Len(r.documents),
             r.documents[i].type # Generic, r.documents[i].docs[1].status = "APPROVED"
      PROVE  i \in 1 .. Len(t.documents) /\ t.documents[i] = r.documents[i]
  <2>1. i \in 1 .. Len(s.documents) /\ s.documents[i] = r.documents[i]
    BY <1>1 DEF Keeps
  <2> QED
    BY <1>1, <2>1 DEF Keeps
<1> QED
  BY <1>1 DEF Keeps

(***************************************************************************)
(* The steps of the canister: a handler without an await, one that         *)
(* suspends, an answer, the answer to a transaction.                       *)
(***************************************************************************)
Handles ==
  \/ Details \/ SampleVerdict \/ DetailsVerdict \/ QualityVerdict
  \/ Upload \/ Reupload \/ DocumentVerdict

Suspends(c) ==
  \/ DetermineDownPaymentAddress(c) \/ DepositFunds(c) \/ LockFunds(c)
  \/ UnlockFunds(c) \/ ReleasingVerdict(c)

Answers(c) ==
  \/ AddressAnswered(c) \/ LockedAnswered(c) \/ DepositedAnswered(c)
  \/ NonceAnswered(c) \/ AwaitFails(c)

(***************************************************************************)
(* Every step is one of these, or one of the chain.                        *)
(***************************************************************************)
LEMMA NextSteps ==
  ASSUME Next
  PROVE  Handles \/ ChainSteps \/ \E c \in Calls : Suspends(c) \/ Answers(c) \/ SendAnswered(c)
BY DEF Next, Handles, Suspends, Answers

(***************************************************************************)
(* The canister starts with a new record and no call.                      *)
(***************************************************************************)
LEMMA InitHolds == Init => IInv /\ FreshCalls
<1> SUFFICES ASSUME Init
             PROVE  IInv /\ FreshCalls
  OBVIOUS
<1>1. shipment \in Record /\ shipment.documents = <<>> /\ shipment = NewRecord
  BY DEF Init, NewRecord, Record, Verdicts, FundsStates, Addresses
<1>2. Sound(shipment)
  <2>1. Tidy(shipment)
    BY <1>1 DEF Tidy
  <2> QED
    BY <1>1, <2>1 DEF Sound, Staged, NewRecord
<1>3. GetShipmentPhase(shipment) \in Phases /\ peak = GetShipmentPhase(shipment)
  BY <1>1, PhaseReads DEF Init
<1>4. \A c \in Calls : call[c] = Idle
  BY DEF Init
<1>5. ChainOK
  <2>1. Register \in Tx
    BY DEF Register, Tx, Operations
  <2>2. pending \in {NoTx} \cup Tx /\ current = {} /\ registered = FALSE
    BY <2>1 DEF Init, EvmInit
  <2>3. held = 0 /\ locked = 0 /\ paid = 0
    BY DEF Init, EvmInit, EscrowInit
  <2>4. held \in Nat /\ locked \in Nat /\ paid \in Nat /\ locked <= held
    BY <2>3
  <2> QED
    BY <2>2, <2>4 DEF ChainOK
<1>6. MoneyFollowsApproval
  BY DEF Init, EvmInit, EscrowInit, MoneyFollowsApproval, Register, NoTx
<1>7. TypeOK
  BY <1>1, <1>3, <1>5 DEF Init, TypeOK, ChainOK
<1> QED
  BY <1>2, <1>3, <1>4, <1>5, <1>6, <1>7 DEF IInv, FreshCalls, Phases

(***************************************************************************)
(* Every step preserves the invariant and the freshness of the copies that *)
(* are not out of date, and keeps what is final unless such a copy is      *)
(* inserted.                                                               *)
(***************************************************************************)
LEMMA NextHolds ==
  ASSUME IInv, FreshCalls, [Next]_vars
  PROVE  IInv' /\ FreshCalls' /\ (StaleInsertion \/ Keeps(shipment, shipment'))
<1>1. Keeps(shipment, shipment) /\ Sound(shipment) /\ stale \subseteq Calls
      /\ call \in [Calls -> {Idle} \cup Suspended]
  BY DEF Keeps, IInv, TypeOK
<1>2. ASSUME Observe
      PROVE  \A c \in Calls \ stale' : call'[c] # Idle => c \notin stale /\ shipment' = shipment
  BY <1>2 DEF Observe
<1>3. CASE Handles
  <2>1. /\ Sound(shipment') /\ Keeps(shipment, shipment')
        /\ Observe /\ UNCHANGED <<call, evmVars>>
    BY <1>1, <1>3, HandlersKeep DEF Handles
  <2>2. IInv'
    BY <2>1, HandlerKeeps
  <2>3. FreshCalls'
    BY <1>2, <2>1 DEF FreshCalls
  <2> QED
    BY <2>1, <2>2, <2>3
<1>4. CASE ChainSteps
  <2>1. IInv' /\ UNCHANGED <<shipment, call, peak, stale>>
    BY <1>4, ChainKeeps
  <2> QED
    BY <1>1, <2>1 DEF FreshCalls
<1>5. ASSUME NEW c \in Calls, Suspends(c)
      PROVE  IInv' /\ FreshCalls' /\ (StaleInsertion \/ Keeps(shipment, shipment'))
  <2>1. PICK x :
           /\ call' = [call EXCEPT ![c] = x] /\ CallFine(x, peak') /\ Keeps(shipment, x.copy)
           /\ Observe /\ UNCHANGED <<shipment, evmVars>>
    BY <1>5, SuspendKeeps DEF Suspends
  <2>2. current' \subseteq Calls /\ UNCHANGED <<pending, registered, escrowVars>>
    BY <2>1 DEF IInv, ChainOK, evmVars, chain
  <2>3. Sound(shipment')
    BY <1>1, <2>1
  <2>4. IInv'
    BY <2>1, <2>2, <2>3, CallKeeps
  <2>5. FreshCalls'
    BY <1>1, <1>2, <2>1 DEF FreshCalls
  <2> QED
    BY <1>1, <2>1, <2>4, <2>5
<1>6. ASSUME NEW c \in Calls, Answers(c)
      PROVE  IInv' /\ FreshCalls' /\ (StaleInsertion \/ Keeps(shipment, shipment'))
  <2>1. PICK x :
           /\ call[c] # Idle /\ call' = [call EXCEPT ![c] = x]
           /\ x = Idle \/ (CallFine(x, peak') /\ Keeps(call[c].copy, x.copy))
           /\ \/ shipment' = shipment
              \/ x = Idle /\ Sound(shipment') /\ Keeps(call[c].copy, shipment')
           /\ Observe /\ current' \subseteq Calls
           /\ UNCHANGED <<pending, registered, escrowVars>>
    BY <1>6, AnswerKeeps DEF Answers
  <2>2. Sound(shipment')
    BY <1>1, <2>1
  <2>3. IInv'
    BY <2>1, <2>2, CallKeeps
  <2>4. FreshCalls'
    BY <1>1, <1>2, <2>1, KeepsOn DEF FreshCalls
  <2>5. StaleInsertion \/ Keeps(shipment, shipment')
    <3>1. CASE c \in stale /\ x = Idle
      BY <1>1, <2>1, <3>1 DEF StaleInsertion
    <3>2. CASE c \notin stale
      BY <1>1, <2>1, <3>2, KeepsOn DEF FreshCalls
    <3>3. CASE x # Idle
      BY <1>1, <2>1, <3>3
    <3> QED
      BY <3>1, <3>2, <3>3
  <2> QED
    BY <2>3, <2>4, <2>5
<1>7. ASSUME NEW c \in Calls, SendAnswered(c)
      PROVE  IInv' /\ FreshCalls' /\ (StaleInsertion \/ Keeps(shipment, shipment'))
  <2>1. /\ call[c] # Idle /\ call[c].at = "send" /\ CallFine(call[c], peak)
        /\ call' = [call EXCEPT ![c] = Idle] /\ Observe
        /\ \/ shipment' = shipment
           \/ Sound(shipment') /\ Keeps(call[c].copy, shipment')
        /\ pending' = pending \/ (pending' = Transaction(c) /\ pending' \in Tx)
        /\ current' = current \ {c} /\ UNCHANGED <<registered, escrowVars>>
    BY <1>7, SendKeeps
  <2>2. Sound(shipment')
    BY <1>1, <2>1
  <2>3. peak \in Phases /\ peak' \in Phases /\ peak' >= peak
    BY <2>1, <2>2, ObserveGrows, PhaseReads DEF IInv, TypeOK, Sound
  <2>4. ChainOK'
    BY <2>1 DEF IInv, ChainOK, escrowVars
  <2>5. MoneyFollowsApproval'
    <3>1. CASE UNCHANGED <<pending, escrowVars>>
      BY <2>1, <2>2, <3>1, MoneyStays
    <3>2. CASE pending' = Transaction(c)
      <4>1. pending'.op = call[c].op /\ locked' = locked /\ paid' = paid
        BY <2>1, <3>2 DEF Transaction, escrowVars
      <4>2. /\ call[c].op = "lock" => peak >= 3
            /\ call[c].op = "release" => peak >= 5
        BY <2>1 DEF CallFine
      <4> QED
        BY <2>3, <4>1, <4>2 DEF IInv, MoneyFollowsApproval, Phases
    <3> QED
      BY <2>1, <3>1, <3>2
  <2>6. /\ call' \in [Calls -> {Idle} \cup Suspended]
        /\ \A k \in Calls : call'[k] # call[k] => call'[k] = Idle
    BY <1>1, <2>1
  <2>7. IInv'
    BY <2>1, <2>2, <2>4, <2>5, <2>6, StepKeeps
  <2>8. FreshCalls'
    BY <1>1, <1>2, <2>1 DEF FreshCalls
  <2>9. StaleInsertion \/ Keeps(shipment, shipment')
    <3>1. CASE c \in stale
      BY <1>1, <2>1, <3>1 DEF StaleInsertion
    <3>2. CASE c \notin stale
      BY <1>1, <2>1, <3>2, KeepsOn DEF FreshCalls
    <3> QED
      BY <3>1, <3>2
  <2> QED
    BY <2>7, <2>8, <2>9
<1>8. CASE UNCHANGED vars
  <2>1. UNCHANGED <<shipment, call, peak, stale>> /\ UNCHANGED <<pending, current, registered>>
        /\ UNCHANGED <<held, locked, paid>>
    BY <1>8 DEF vars, evmVars, chain, escrowVars
  <2>2. TypeOK' /\ ChainOK' /\ MoneyFollowsApproval'
    BY <2>1 DEF IInv, TypeOK, ChainOK, MoneyFollowsApproval
  <2> QED
    BY <1>1, <2>1, <2>2 DEF IInv, FreshCalls
<1> QED
  BY <1>3, <1>4, <1>5, <1>6, <1>7, <1>8, NextSteps

-----------------------------------------------------------------------------
\* What holds whatever the constants are.

(***************************************************************************)
(* The inductive invariant holds in every interleaving of the calls.       *)
(***************************************************************************)
THEOREM InvariantHolds == Spec => [](IInv /\ FreshCalls)
<1>1. Init => IInv /\ FreshCalls
  BY InitHolds
<1>2. (IInv /\ FreshCalls) /\ [Next]_vars => (IInv /\ FreshCalls)'
  BY NextHolds
<1> QED
  BY <1>1, <1>2, PTL DEF Spec

(***************************************************************************)
(* Every variable keeps its type.                                          *)
(***************************************************************************)
THEOREM TypesHold == Spec => []TypeOK
<1>1. IInv => TypeOK
  BY DEF IInv
<1> QED
  BY <1>1, InvariantHolds, PTL

(***************************************************************************)
(* The stored record is one that handlers taking turns could have left,    *)
(* with any number of calls, of document types and of phase requirements.  *)
(***************************************************************************)
THEOREM StagesStayInOrder == Spec => []StagesInOrder
<1>1. IInv => StagesInOrder
  BY DEF IInv, Sound, Staged, StagesInOrder
<1> QED
  BY <1>1, InvariantHolds, PTL

(***************************************************************************)
(* A type keeps one entry, with one document unless it is generic.         *)
(***************************************************************************)
THEOREM DocumentsStayUnique == Spec => []OneDocumentPerType
<1>1. IInv => OneDocumentPerType
  <2> SUFFICES ASSUME Sound(shipment)
               PROVE  OneDocumentPerType
    BY DEF IInv
  <2>1. DOMAIN shipment.documents = 1 .. Len(shipment.documents)
    BY DEF Sound, Record
  <2> QED
    BY <2>1 DEF Sound, Tidy, OneDocumentPerType
<1> QED
  BY <1>1, InvariantHolds, PTL

(***************************************************************************)
(* Nothing is ordered locked before phase 3 nor released before phase 5,   *)
(* whatever the calls, their interleaving and the faults are.              *)
(***************************************************************************)
THEOREM MoneyKeepsToApproval == Spec => []MoneyFollowsApproval
<1>1. IInv => MoneyFollowsApproval
  BY DEF IInv
<1> QED
  BY <1>1, InvariantHolds, PTL

(***************************************************************************)
(* Only the insertion of a copy that is out of date takes a shipment back  *)
(* to an earlier phase.                                                    *)
(***************************************************************************)
THEOREM PhaseOnlyAdvances == Spec => PhaseAdvances
<1>1. IInv /\ FreshCalls /\ IInv' /\ [Next]_vars =>
        [StaleInsertion \/ GetShipmentPhase(shipment') >= GetShipmentPhase(shipment)]_vars
  <2> SUFFICES ASSUME IInv, FreshCalls, [Next]_vars, IInv'
               PROVE  StaleInsertion \/ GetShipmentPhase(shipment') >= GetShipmentPhase(shipment)
    OBVIOUS
  <2>1. StaleInsertion \/ Keeps(shipment, shipment')
    BY NextHolds
  <2>2. Sound(shipment) /\ Sound(shipment')
    BY DEF IInv
  <2> QED
    BY <2>1, <2>2, KeepsAdvances DEF Sound
<1>2. IInv /\ FreshCalls /\ [Next]_vars => IInv'
  BY NextHolds
<1> QED
  BY <1>1, <1>2, InvariantHolds, PTL DEF Spec, PhaseAdvances

(***************************************************************************)
(* What was approved stays, but for such an insertion.                     *)
(***************************************************************************)
THEOREM ApprovalsOnlyGoStale == Spec => ApprovalsStand
<1> DEFINE Stand ==
             /\ shipment.details = "APPROVED" =>
                  shipment'.details = "APPROVED" /\ shipment'.price = shipment.price
             /\ \A p \in ApprovedIn(shipment) :
                  shipment.documents[p[1]].type # Generic =>
                    /\ p \in ApprovedIn(shipment')
                    /\ shipment'.documents[p[1]] = shipment.documents[p[1]]
<1>1. ASSUME IInv, FreshCalls, [Next]_vars, IInv'
      PROVE  [StaleInsertion \/ Stand]_vars
  <2>1. StaleInsertion \/ Keeps(shipment, shipment')
    BY <1>1, NextHolds
  <2>2. Sound(shipment) /\ Sound(shipment')
    BY <1>1 DEF IInv
  <2>3. ASSUME Keeps(shipment, shipment'), NEW p \in ApprovedIn(shipment),
               shipment.documents[p[1]].type # Generic
        PROVE  /\ p \in ApprovedIn(shipment')
               /\ shipment'.documents[p[1]] = shipment.documents[p[1]]
    <3>1. /\ DOMAIN shipment.documents = 1 .. Len(shipment.documents)
          /\ DOMAIN shipment'.documents = 1 .. Len(shipment'.documents)
      BY <2>2 DEF Sound, Record
    <3>2. /\ p \in (1 .. Len(shipment.documents)) \X (1 .. MaxGeneric)
          /\ p[2] <= Len(shipment.documents[p[1]].docs)
          /\ shipment.documents[p[1]].docs[p[2]].status = "APPROVED"
      BY <2>3, <3>1 DEF ApprovedIn
    <3>3. Len(shipment.documents[p[1]].docs) = 1
      BY <2>2, <2>3, <3>2 DEF Sound, Tidy
    <3>4. p[2] = 1
      BY <3>2, <3>3, InputsAssumption
    <3>5. /\ p[1] \in 1 .. Len(shipment'.documents)
          /\ shipment'.documents[p[1]] = shipment.documents[p[1]]
      BY <2>3, <3>2, <3>4 DEF Keeps
    <3> QED
      BY <3>1, <3>2, <3>5 DEF ApprovedIn
  <2>4. Keeps(shipment, shipment') => Stand
    BY <2>3 DEF Keeps
  <2> QED
    BY <2>1, <2>4
<1>2. IInv /\ FreshCalls /\ [Next]_vars => IInv'
  BY NextHolds
<1>3. IInv /\ FreshCalls /\ IInv' /\ [Next]_vars => [StaleInsertion \/ Stand]_vars
  BY <1>1
<1> QED
  BY <1>2, <1>3, InvariantHolds, PTL DEF Spec, ApprovalsStand

-----------------------------------------------------------------------------
\* The price is reserved once when the calls that await take turns.

\* At most one handler is suspended at a time, and the answer to every transaction
\* that was sent arrives.
OneCall   == \A a, b \in Calls : a = b
NoReplyLost == "lost reply" \notin Faults

\* The funds a call saw are the stored ones, and money moved only if they are marked.
SeenFunds ==
  \A c \in Calls : call[c] # Idle =>
    /\ call[c].op # "release" => shipment.funds = "NOT_LOCKED"
    /\ call[c].op = "release" =>
         shipment.funds = "LOCKED" /\ call[c].copy.price = shipment.price

Unmoved ==
  shipment.funds = "NOT_LOCKED" =>
    locked = 0 /\ paid = 0 /\ pending.op \notin {"lock", "release"}

LockWaits ==
  pending.op = "lock" => pending.amount = shipment.price /\ locked = 0 /\ paid = 0

Turns == SeenFunds /\ Unmoved /\ LockWaits /\ ReservedOnce

(***************************************************************************)
(* The handlers without an await leave the funds as they are.              *)
(***************************************************************************)
LEMMA HandlersLeaveFunds ==
  ASSUME Sound(shipment), Handles
  PROVE  shipment'.funds = shipment.funds
<1>1. shipment \in Record
  BY DEF Sound
<1>2. CASE Details
  BY <1>1, <1>2 DEF Details, SetShipmentDetails, Record
<1>3. CASE SampleVerdict
  BY <1>1, <1>3 DEF SampleVerdict, EvaluateSample, Record
<1>4. CASE DetailsVerdict
  BY <1>1, <1>4 DEF DetailsVerdict, EvaluateShipmentDetails, Record
<1>5. CASE QualityVerdict
  BY <1>1, <1>5 DEF QualityVerdict, EvaluateQuality, Record
<1>6. CASE Upload
  BY <1>1, <1>6 DEF Upload, AddDocument, WithTuple, Record
<1>7. CASE Reupload
  BY <1>1, <1>7 DEF Reupload, UpdateDocument, Record
<1>8. CASE DocumentVerdict
  BY <1>1, <1>8, VerdictChangesDocuments DEF DocumentVerdict
<1> QED
  BY <1>2, <1>3, <1>4, <1>5, <1>6, <1>7, <1>8 DEF Handles

(***************************************************************************)
(* The amounts are numbers, and a record whose funds are marked keeps its  *)
(* price.                                                                  *)
(***************************************************************************)
LEMMA MarkedKeepsPrice ==
  ASSUME NEW r, NEW s, Sound(r), r.funds # "NOT_LOCKED", Keeps(r, s)
  PROVE  s.price = r.price /\ r.details = "APPROVED"
<1>1. Phase2Complete(r)
  BY PhaseReads DEF Sound, Staged
<1> QED
  BY <1>1 DEF Phase2Complete, Keeps

(***************************************************************************)
(* With one call at a time and no lost reply, every step keeps Turns.      *)
(***************************************************************************)
LEMMA NextTurns ==
  ASSUME OneCall, NoReplyLost,
         IInv, FreshCalls, Turns, [Next]_vars
  PROVE  Turns'
<1>1. /\ Sound(shipment) /\ shipment \in Record /\ IInv' /\ Sound(shipment')
      /\ shipment' \in Record
      /\ call \in [Calls -> {Idle} \cup Suspended] /\ shipment.price \in Nat
      /\ locked \in Nat /\ paid \in Nat
  BY NextHolds DEF IInv, Sound, TypeOK, Record
<1>2. CASE Handles
  <2>1. /\ Sound(shipment') /\ Keeps(shipment, shipment') /\ call' = call
        /\ pending' = pending /\ locked' = locked /\ paid' = paid
    BY <1>1, <1>2, HandlersKeep DEF Handles, evmVars, chain, escrowVars
  <2>2. shipment'.funds = shipment.funds
    BY <1>1, <1>2, HandlersLeaveFunds
  <2>3. shipment.funds # "NOT_LOCKED" => shipment'.price = shipment.price
    BY <1>1, <2>1, MarkedKeepsPrice
  <2>4. shipment'.price \in Nat
    BY <1>1 DEF Record
  <2> QED
    <3>1. SeenFunds'
      BY <2>1, <2>2, <2>3 DEF Turns, SeenFunds
    <3>2. Unmoved'
      BY <2>1, <2>2 DEF Turns, Unmoved
    <3>3. LockWaits'
      BY <2>1, <2>2, <2>3 DEF Turns, Unmoved, LockWaits
    <3>4. ReservedOnce'
      <4>1. CASE shipment.funds # "NOT_LOCKED"
        <5>1. shipment'.price = shipment.price /\ locked' = locked /\ paid' = paid
          BY <2>1, <2>3, <4>1
        <5>2. ReservedOnce
          BY DEF Turns
        <5> QED
          BY <5>1, <5>2 DEF ReservedOnce
      <4>2. CASE shipment.funds = "NOT_LOCKED"
        <5>1. locked' = 0 /\ paid' = 0
          BY <2>1, <4>2 DEF Turns, Unmoved
        <5> QED
          BY <2>4, <5>1 DEF ReservedOnce
      <4> QED
        BY <4>1, <4>2
    <3> QED
      BY <3>1, <3>2, <3>3, <3>4 DEF Turns
<1>3. CASE ChainSteps
  <2>1. /\ UNCHANGED <<shipment, call, peak, stale>>
        /\ \/ /\ pending.op = "lock" /\ pending' = NoTx
              /\ locked' = locked + pending.amount /\ paid' = paid
           \/ /\ pending.op = "release" /\ pending' = NoTx
              /\ locked' + paid' = locked + paid
           \/ locked' = locked /\ paid' = paid /\ pending' \in {pending, NoTx, OtherTx}
    BY <1>3, ChainKeeps
  <2>2. NoTx.op = "none" /\ OtherTx.op = "other"
    BY DEF NoTx, OtherTx
  <2>3. shipment' = shipment /\ call' = call
    BY <2>1
  <2>4. SeenFunds'
    BY <2>3 DEF Turns, SeenFunds
  <2>5. CASE pending.op = "lock" /\ pending' = NoTx /\ locked' = locked + pending.amount
             /\ paid' = paid
    <3>1. pending.amount = shipment.price /\ locked = 0 /\ paid = 0
          /\ shipment.funds # "NOT_LOCKED"
      BY <2>5 DEF Turns, LockWaits, Unmoved
    <3> QED
      <4>1. Unmoved'
        BY <2>3, <3>1 DEF Unmoved
      <4>2. LockWaits'
        BY <2>2, <2>5 DEF LockWaits
      <4>3. ReservedOnce'
        BY <1>1, <2>3, <2>5, <3>1 DEF ReservedOnce
      <4> QED
        BY <4>1, <4>2, <4>3, <2>4 DEF Turns
  <2>6. CASE pending.op = "release" /\ pending' = NoTx /\ locked' + paid' = locked + paid
    <3>1. shipment.funds # "NOT_LOCKED"
      BY <2>6 DEF Turns, Unmoved
    <3> QED
      BY <2>2, <2>3, <2>4, <2>6, <3>1 DEF Turns, Unmoved, LockWaits, ReservedOnce
  <2>7. CASE locked' = locked /\ paid' = paid /\ pending' \in {pending, NoTx, OtherTx}
    BY <2>2, <2>3, <2>4, <2>7 DEF Turns, Unmoved, LockWaits, ReservedOnce
  <2> QED
    BY <2>1, <2>5, <2>6, <2>7
<1>4. ASSUME NEW c \in Calls, Suspends(c)
      PROVE  Turns'
  <2>1. PICK x :
           /\ call' = [call EXCEPT ![c] = x] /\ CallFine(x, peak') /\ Keeps(shipment, x.copy)
           /\ Observe /\ UNCHANGED <<shipment, evmVars>>
    BY <1>4, SuspendKeeps DEF Suspends
  <2>2. call'[c] = x /\ \A k \in Calls : k # c => call'[k] = call[k]
    BY <1>1, <2>1
  <2>3. pending' = pending /\ locked' = locked /\ paid' = paid /\ shipment' = shipment
    BY <2>1 DEF evmVars, chain, escrowVars
  <2>4. /\ x.op # "release" => shipment.funds = "NOT_LOCKED"
        /\ x.op = "release" => shipment.funds = "LOCKED"
    <3>1. CASE DetermineDownPaymentAddress(c) \/ DepositFunds(c) \/ LockFunds(c)
      <4>1. shipment.downPayment = "none" => shipment.funds = "NOT_LOCKED"
        BY <1>1 DEF Sound, Staged
      <4>2. shipment.funds = "NOT_LOCKED"
        BY <3>1, <4>1 DEF DetermineDownPaymentAddress, DepositFunds, LockFunds
      <4>3. \E y : y.op # "release" /\ call' = [call EXCEPT ![c] = y]
        BY <3>1 DEF DetermineDownPaymentAddress, DepositFunds, LockFunds, Suspend
      <4>4. x.op # "release"
        BY <1>1, <2>1, <4>3
      <4> QED
        BY <4>2, <4>4
    <3>2. CASE UnlockFunds(c) \/ ReleasingVerdict(c)
      <4>1. shipment.funds = "LOCKED"
        BY <3>2 DEF UnlockFunds, ReleasingVerdict, Releases
      <4>2. \E y : y.op = "release" /\ call' = [call EXCEPT ![c] = y]
        BY <3>2 DEF UnlockFunds, ReleasingVerdict, Suspend
      <4>3. x.op = "release"
        BY <1>1, <2>1, <4>2
      <4> QED
        BY <4>1, <4>3
    <3> QED
      BY <1>4, <3>1, <3>2 DEF Suspends
  <2>5. shipment.funds = "LOCKED" => x.copy.price = shipment.price
    BY <1>1, <2>1, MarkedKeepsPrice
  <2> QED
    BY <2>2, <2>3, <2>4, <2>5 DEF Turns, SeenFunds, Unmoved, LockWaits, ReservedOnce
<1>5. ASSUME NEW c \in Calls, Answers(c)
      PROVE  Turns'
  <2>1. PICK x :
           /\ call[c] # Idle /\ call' = [call EXCEPT ![c] = x]
           /\ x = Idle \/ (CallFine(x, peak') /\ Keeps(call[c].copy, x.copy))
           /\ \/ shipment' = shipment
              \/ x = Idle /\ Sound(shipment') /\ Keeps(call[c].copy, shipment')
           /\ Observe /\ current' \subseteq Calls
           /\ UNCHANGED <<pending, registered, escrowVars>>
    BY <1>5, AnswerKeeps DEF Answers
  <2>2. call'[c] = x /\ \A k \in Calls : k = c
    BY <1>1, <2>1 DEF OneCall
  <2>3. pending' = pending /\ locked' = locked /\ paid' = paid
    BY <2>1 DEF escrowVars
  <2>4. CallFine(call[c], peak) /\ Sound(call[c].copy) /\ call[c] \in Suspended
    BY <2>1 DEF IInv, CallFine
  <2>5. x # Idle => x.op = call[c].op /\ shipment' = shipment
    BY <1>1, <1>5, <2>1, <2>2, <2>4
       DEF Answers, AddressAnswered, LockedAnswered, DepositedAnswered, NonceAnswered,
           AwaitFails, Continue, InsertAndReturn, Throw, Suspended
  <2>6. x # Idle /\ x.op = "release" => x.copy.price = shipment.price
    BY <2>1, <2>4, <2>5, MarkedKeepsPrice DEF Turns, SeenFunds, CallFine
  <2>7. shipment' # shipment => call[c].op # "release" /\ shipment'.funds = "NOT_LOCKED"
    BY <1>1, <1>5, <2>1, <2>2, <2>4
       DEF Answers, AddressAnswered, LockedAnswered, DepositedAnswered, NonceAnswered,
           AwaitFails, Continue, InsertAndReturn, Throw, Suspended, CallFine, At, Record, Sound
  <2>8. shipment'.price \in Nat
    BY <1>1 DEF Record
  <2> QED
    <3>1. call[c].op # "release" => shipment.funds = "NOT_LOCKED"
      BY <2>1 DEF Turns, SeenFunds
    <3>2. SeenFunds'
      BY <2>1, <2>2, <2>5, <2>6 DEF Turns, SeenFunds
    <3>3. CASE shipment' = shipment
      BY <2>3, <3>2, <3>3 DEF Turns, Unmoved, LockWaits, ReservedOnce
    <3>4. CASE shipment' # shipment
      <4>1. shipment.funds = "NOT_LOCKED" /\ locked = 0 /\ paid = 0 /\ pending.op \notin {"lock", "release"}
        BY <2>7, <3>1, <3>4 DEF Turns, Unmoved
      <4>2. Unmoved'
        BY <2>3, <4>1 DEF Unmoved
      <4>3. LockWaits'
        BY <2>3, <4>1 DEF LockWaits
      <4>4. ReservedOnce'
        BY <2>3, <2>8, <4>1 DEF ReservedOnce
      <4> QED
        BY <4>2, <4>3, <4>4, <3>2 DEF Turns
    <3> QED
      BY <3>3, <3>4
<1>6. ASSUME NEW c \in Calls, SendAnswered(c)
      PROVE  Turns'
  <2> DEFINE y == call[c]
  <2>1. /\ y # Idle /\ y.at = "send" /\ CallFine(y, peak)
        /\ call' = [call EXCEPT ![c] = Idle]
        /\ shipment' = shipment \/ shipment' = Outcome(c)
        /\ pending' = pending \/ pending' = Transaction(c)
        /\ locked' = locked /\ paid' = paid
    BY <1>6, SendKeeps DEF escrowVars
  <2>2. SeenFunds'
    <3>1. \A k \in Calls : k = c
      BY DEF OneCall
    <3> QED
      BY <1>1, <2>1, <3>1 DEF SeenFunds
  <2>3. \/ shipment' = Outcome(c)
        \/ shipment' = shipment /\ pending' = pending
    BY <1>6 DEF SendAnswered, InsertAndReturn, Throw, EthSendRawTransaction, NoReplyLost
  <2>4. /\ y \in Suspended /\ y.op \in {"deposit", "lock", "release"} /\ y.copy \in Record
        /\ y.copy.price \in Nat
    BY <2>1 DEF CallFine, Suspended, Sound, Record
  <2>5. CASE shipment' = shipment /\ pending' = pending
    BY <2>1, <2>2, <2>5 DEF Turns, Unmoved, LockWaits, ReservedOnce
  <2>6. CASE shipment' = Outcome(c) /\ y.op = "deposit"
    <3>1. shipment'.funds = "NOT_LOCKED"
      BY <2>1, <2>6 DEF Outcome, CallFine
    <3>2. shipment.funds = "NOT_LOCKED"
      BY <2>1, <2>6 DEF Turns, SeenFunds
    <3>3. Transaction(c).op = "deposit"
      BY <2>6 DEF Transaction
    <3>4. shipment'.price \in Nat
      BY <1>1 DEF Record
    <3> QED
      <4>1. locked = 0 /\ paid = 0 /\ pending'.op \notin {"lock", "release"}
        BY <2>1, <3>2, <3>3 DEF Turns, Unmoved
      <4>2. Unmoved'
        BY <2>1, <4>1 DEF Unmoved
      <4>3. LockWaits'
        BY <4>1 DEF LockWaits
      <4>4. ReservedOnce'
        BY <2>1, <3>4, <4>1 DEF ReservedOnce
      <4> QED
        BY <4>2, <4>3, <4>4, <2>2 DEF Turns
  <2>7. CASE shipment' = Outcome(c) /\ y.op = "lock"
    <3>1. shipment'.funds = "LOCKED" /\ shipment'.price = y.copy.price
      BY <2>4, <2>7 DEF Outcome, Record
    <3>2. shipment.funds = "NOT_LOCKED" /\ locked = 0 /\ paid = 0
          /\ pending.op \notin {"lock", "release"}
      BY <2>1, <2>7 DEF Turns, SeenFunds, Unmoved
    <3>3. Transaction(c).op = "lock" /\ Transaction(c).amount = shipment'.price
      BY <2>7, <3>1 DEF Transaction
    <3> QED
      <4>1. Unmoved'
        BY <3>1 DEF Unmoved
      <4>2. LockWaits'
        BY <2>1, <3>2, <3>3 DEF LockWaits
      <4>3. ReservedOnce'
        BY <2>1, <2>4, <3>1, <3>2 DEF ReservedOnce
      <4> QED
        BY <4>1, <4>2, <4>3, <2>2 DEF Turns
  <2>8. CASE shipment' = Outcome(c) /\ y.op = "release"
    <3>1. shipment'.funds = "RELEASED" /\ shipment'.price = y.copy.price
      BY <2>4, <2>8 DEF Outcome, Record
    <3>2. shipment.funds = "LOCKED" /\ y.copy.price = shipment.price
      BY <2>1, <2>8 DEF Turns, SeenFunds
    <3>3. Transaction(c).op = "release"
      BY <2>8 DEF Transaction
    <3> QED
      BY <2>1, <2>2, <3>1, <3>2, <3>3 DEF Turns, Unmoved, LockWaits, ReservedOnce
  <2> QED
    BY <2>3, <2>4, <2>5, <2>6, <2>7, <2>8
<1>7. CASE UNCHANGED vars
  BY <1>7 DEF vars, evmVars, chain, escrowVars, Turns, SeenFunds, Unmoved, LockWaits, ReservedOnce
<1> QED
  BY <1>2, <1>3, <1>4, <1>5, <1>6, <1>7, NextSteps

(***************************************************************************)
(* When the handlers that await take turns and no reply is lost, the price *)
(* is locked or paid once, however often they are called and whatever      *)
(* happens to the transactions.                                            *)
(***************************************************************************)
THEOREM PriceReservedOnce ==
  ASSUME OneCall, NoReplyLost
  PROVE  Spec => []ReservedOnce
<1>1. Init => Turns
  <2> SUFFICES ASSUME Init
               PROVE  Turns
    OBVIOUS
  <2>1. shipment.funds = "NOT_LOCKED" /\ shipment.price = 0
    BY DEF Init, NewRecord
  <2>2. locked = 0 /\ paid = 0 /\ pending.op \in {"register", "none"}
    <3>1. Register.op = "register" /\ NoTx.op = "none"
      BY DEF Register, NoTx
    <3> QED
      BY <3>1 DEF Init, EvmInit, EscrowInit
  <2>3. \A c \in Calls : call[c] = Idle
    BY DEF Init
  <2> QED
    <3>1. SeenFunds
      BY <2>3 DEF SeenFunds
    <3>2. Unmoved /\ LockWaits
      BY <2>1, <2>2 DEF Unmoved, LockWaits
    <3>3. ReservedOnce
      BY <2>1, <2>2 DEF ReservedOnce
    <3> QED
      BY <3>1, <3>2, <3>3 DEF Turns
<1>2. (IInv /\ FreshCalls) /\ Turns /\ [Next]_vars => Turns'
  BY NextTurns
<1>3. Turns => ReservedOnce
  BY DEF Turns
<1> QED
  BY <1>1, <1>2, <1>3, InvariantHolds, PTL DEF Spec
=============================================================================

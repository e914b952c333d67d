----------------------------- MODULE EntitiesProofs -----------------------------
(***************************************************************************)
(* What the SDK reads of what it sent: the values of enumerations and the  *)
(* documents of a shipment as they were, the deadlines of an order to the  *)
(* second; and where the two directions disagree, on the dates of a        *)
(* shipment and on when a certificate was issued.                          *)
(***************************************************************************)
EXTENDS Entities, TLAPS

\* A value is the one field of its variant.
LEMMA NameOfVariant ==
  ASSUME NEW names, NEW name \in names
  PROVE  NameIn(names, Variant(name)) = name
  BY DEF NameIn, Variant

\* Every value of an enumeration that the SDK sends to the canister it would read back as
\* that value, and no builder throws for it.
THEOREM VariantsReadBack ==
  /\ \A phase \in Phase : BuildShipmentPhase(BuildShipmentIDLPhase(phase)) = phase
  /\ \A status \in EvaluationStatus :
       /\ BuildEvaluationStatus(BuildICPEvaluationStatus(status)) = status
       /\ BuildDocumentEvaluationStatus(BuildICPEvaluationStatus(status)) = status
  /\ \A type \in DocumentType : BuildDocumentType(BuildIDLDocumentType(type)) = type
  /\ \A type \in CertificateDocumentType :
       BuildCertificateDocumentType(BuildICPCertificateDocumentType(type)) = type
<1>1. \A phase \in Phase : BuildShipmentPhase(BuildShipmentIDLPhase(phase)) = phase
  BY NameOfVariant DEF BuildShipmentPhase, BuildShipmentIDLPhase
<1>2. \A status \in EvaluationStatus :
        BuildEvaluationStatus(BuildICPEvaluationStatus(status)) = status
  BY NameOfVariant DEF BuildEvaluationStatus, BuildICPEvaluationStatus
<1>3. \A status \in EvaluationStatus :
        BuildDocumentEvaluationStatus(BuildICPEvaluationStatus(status)) = status
  BY NameOfVariant DEF BuildDocumentEvaluationStatus, BuildICPEvaluationStatus
<1>4. \A type \in DocumentType : BuildDocumentType(BuildIDLDocumentType(type)) = type
  BY NameOfVariant DEF BuildDocumentType, BuildIDLDocumentType
<1>5. \A type \in CertificateDocumentType :
        BuildCertificateDocumentType(BuildICPCertificateDocumentType(type)) = type
  BY NameOfVariant DEF BuildCertificateDocumentType, BuildICPCertificateDocumentType
<1> QED  BY <1>1, <1>2, <1>3, <1>4, <1>5

-----------------------------------------------------------------------------
\* The orders of the canister and those of the SDK, as far as they are converted.
Orders(statuses) ==
  [status : statuses, deadlines : [Deadlines -> Nat], shipment : Seq(Nat)]

ICPOrders == Orders({Variant(status) : status \in OrderStatus})

\* The order a driver sends has the fields of the parameters, with its deadlines in seconds.
LEMMA ArgumentsOfOrder ==
  ASSUME NEW statuses, NEW params \in Orders(statuses), NEW d \in Deadlines
  PROVE  OrderArguments(params).deadlines[d] = params.deadlines[d] \div 1000
  BY DEF OrderArguments, Orders

\* A builder reads seconds.
LEMMA DeadlineRead ==
  ASSUME NEW order \in ICPOrders, NEW shipment, NEW d \in Deadlines
  PROVE  BuildOrder(order, shipment).deadlines[d] = order.deadlines[d] * 1000
  BY DEF BuildOrder, ICPOrders, Orders

\* The time without its milliseconds.
LEMMA FullSeconds ==
  ASSUME NEW time \in Nat
  PROVE  /\ time \div 1000 \in Nat
         /\ (time \div 1000) * 1000 <= time /\ time < (time \div 1000) * 1000 + 1000
         /\ (time * 1000) \div 1000 = time
  OBVIOUS

\* An order that is created with some deadlines is read with the same ones, cut to the
\* second; a read deadline is never later than the one that was agreed.
THEOREM DeadlinesReadBack ==
  ASSUME NEW statuses, NEW params \in Orders(statuses), NEW order \in ICPOrders, NEW shipment,
         order.deadlines = OrderArguments(params).deadlines, NEW d \in Deadlines
  PROVE  LET read == BuildOrder(order, shipment).deadlines[d]
         IN  read <= params.deadlines[d] /\ params.deadlines[d] < read + 1000
<1> DEFINE time == params.deadlines[d]
<1>1. time \in Nat  BY DEF Orders
<1>2. BuildOrder(order, shipment).deadlines[d] = (time \div 1000) * 1000
  BY DeadlineRead, ArgumentsOfOrder
<1> HIDE DEF time
<1>3. (time \div 1000) * 1000 <= time /\ time < (time \div 1000) * 1000 + 1000
  BY <1>1, FullSeconds
<1> QED  BY <1>2, <1>3 DEF time

\* An order that is read and sent again without a change has the deadlines the canister
\* has, so that updateOrder recognises that nothing changes.
THEOREM DeadlinesSentBack ==
  ASSUME NEW order \in ICPOrders, NEW shipment
  PROVE  OrderArguments(BuildOrder(order, shipment)).deadlines = order.deadlines
<1> DEFINE read == BuildOrder(order, shipment)
<1>1. order.deadlines \in [Deadlines -> Nat]  BY DEF ICPOrders, Orders
<1>2. OrderArguments(read).deadlines = [d \in Deadlines |-> read.deadlines[d] \div 1000]
  BY DEF OrderArguments, BuildOrder, ICPOrders, Orders
<1>3. \A d \in Deadlines : read.deadlines[d] \div 1000 = order.deadlines[d]
  <2> TAKE d \in Deadlines
  <2> DEFINE time == order.deadlines[d]
  <2>1. time \in Nat  BY <1>1
  <2>2. read.deadlines[d] = time * 1000  BY DeadlineRead
  <2> HIDE DEF time, read
  <2>3. (time * 1000) \div 1000 = time  BY <2>1, FullSeconds
  <2> QED  BY <2>2, <2>3 DEF time
<1> HIDE DEF read
<1> QED  BY <1>1, <1>2, <1>3 DEF read

-----------------------------------------------------------------------------
\* The fields of a shipment that are converted.
ICPShipments ==
  [downPaymentAddress : Seq(STRING), expirationDate : Nat, fixingDate : Nat,
   sampleEvaluationStatus : {Variant(status) : status \in EvaluationStatus},
   detailsEvaluationStatus : {Variant(status) : status \in EvaluationStatus},
   qualityEvaluationStatus : {Variant(status) : status \in EvaluationStatus},
   fundsStatus : {Variant(status) : status \in FundStatus},
   documents : Seq(Seq(STRING))]

\* The dates that are set for a shipment are read as a thousand times what they were.
THEOREM ShipmentDatesMultiplied ==
  ASSUME NEW shipment \in ICPShipments,
         NEW details \in [expirationDate : Nat, fixingDate : Nat]
  PROVE  LET read == BuildShipment(SetShipmentDetails(shipment, details))
         IN  /\ read.expirationDate = details.expirationDate * 1000
             /\ read.fixingDate = details.fixingDate * 1000
  BY DEF BuildShipment, SetShipmentDetails, ICPShipments

\* The documents of a shipment are read under their types, each with its own, as long as
\* the record has one entry per type, which is what OneDocumentPerType says of it.
THEOREM DocumentsReadBack ==
  ASSUME NEW types \in Seq(DocumentType), NEW infos,
         \A i, j \in DOMAIN types : types[i] = types[j] => i = j
  PROVE  LET sent == [i \in DOMAIN types |-> <<BuildIDLDocumentType(types[i]), infos[i]>>]
             read == BuildShipmentDocuments(sent)
         IN  /\ DOMAIN read = {types[i] : i \in DOMAIN types}
             /\ \A i \in DOMAIN types :
                  read[types[i]] = [k \in DOMAIN infos[i] |-> BuildDocumentInfo(infos[i][k])]
<1> DEFINE sent == [i \in DOMAIN types |-> <<BuildIDLDocumentType(types[i]), infos[i]>>]
           type(i) == BuildDocumentType(sent[i][1])
           last(t) == CHOOSE i \in DOMAIN sent :
                        type(i) = t /\ \A j \in DOMAIN sent : j > i => type(j) # t
           read(i) == [k \in DOMAIN infos[i] |-> BuildDocumentInfo(infos[i][k])]
<1>1. DOMAIN sent = DOMAIN types  OBVIOUS
<1>2. \A i \in DOMAIN types : type(i) = types[i]
  <2> TAKE i \in DOMAIN types
  <2>1. types[i] \in DocumentType  OBVIOUS
  <2>2. sent[i][1] = BuildIDLDocumentType(types[i])  OBVIOUS
  <2> QED  BY <2>1, <2>2, VariantsReadBack
<1>3. \A i \in DOMAIN types : sent[i][2] = infos[i]  OBVIOUS
<1>4. BuildShipmentDocuments(sent) =
        [t \in {type(i) : i \in DOMAIN sent} |->
           [k \in DOMAIN sent[last(t)][2] |-> BuildDocumentInfo(sent[last(t)][2][k])]]
  BY DEF BuildShipmentDocuments
<1> HIDE DEF sent, type
<1>5. \A i \in DOMAIN types : last(types[i]) = i
  <2> TAKE i \in DOMAIN types
  <2>1. i \in DOMAIN sent /\ type(i) = types[i]
    BY <1>1, <1>2
  <2>2. \A j \in DOMAIN sent : type(j) = types[i] => j = i
    BY <1>1, <1>2
  <2>3. \A j \in DOMAIN sent : j > i => j # i
    BY <1>1
  <2> QED  BY <2>1, <2>2, <2>3
<1>6. {type(i) : i \in DOMAIN sent} = {types[i] : i \in DOMAIN types}
  BY <1>1, <1>2
<1> HIDE DEF last
<1>7. DOMAIN BuildShipmentDocuments(sent) = {types[i] : i \in DOMAIN types}
  BY <1>4, <1>6
<1>8. ASSUME NEW i \in DOMAIN types
      PROVE  BuildShipmentDocuments(sent)[types[i]] = read(i)
  <2>1. types[i] \in {type(j) : j \in DOMAIN sent}  BY <1>6
  <2>2. sent[last(types[i])][2] = infos[i]  BY <1>3, <1>5
  <2> QED  BY <1>4, <2>1, <2>2
<1> QED  BY <1>7, <1>8 DEF sent

-----------------------------------------------------------------------------
\* The fields of a certificate that are converted, and the dates.
ICPCertificates ==
  [document : [documentType : {Variant(type) : type \in CertificateDocumentType}],
   evaluationStatus : {Variant(status) : status \in EvaluationStatus},
   certType : {Variant(type) : type \in CertificateType},
   issueDate : Nat, validFrom : Nat, validUntil : Nat, material : STRING]

\* The certificates of the SDK.
BuiltCertificates ==
  [document : [documentType : CertificateDocumentType], evaluationStatus : EvaluationStatus,
   certType : CertificateType, issueDate : Nat, validFrom : Nat, validUntil : Nat,
   material : STRING]

\* What a builder makes of a certificate of the canister is one of the SDK.
LEMMA BuiltCertificate ==
  ASSUME NEW certificate \in ICPCertificates
  PROVE  BuildBaseCertificate(certificate) \in BuiltCertificates
<1>1. BuildCertificateDocumentInfo(certificate.document) \in [documentType : CertificateDocumentType]
  <2>1. PICK type \in CertificateDocumentType :
          certificate.document = [documentType |-> Variant(type)]
    BY DEF ICPCertificates
  <2>2. BuildCertificateDocumentType(Variant(type)) = type
    BY NameOfVariant DEF BuildCertificateDocumentType
  <2> QED  BY <2>1, <2>2 DEF BuildCertificateDocumentInfo
<1>2. BuildDocumentEvaluationStatus(certificate.evaluationStatus) \in EvaluationStatus
  BY NameOfVariant DEF BuildDocumentEvaluationStatus, ICPCertificates
<1>3. BuildCertificateType(certificate.certType) \in CertificateType
  BY NameOfVariant DEF BuildCertificateType, ICPCertificates
<1> QED  BY <1>1, <1>2, <1>3 DEF BuildBaseCertificate, ICPCertificates, BuiltCertificates

\* A certificate is read as valid between the dates it was given, and with its document,
\* verdict and kind, whichever builder reads it.
THEOREM CertificatesReadBack ==
  ASSUME NEW certificate \in ICPCertificates, NEW material,
         NEW read \in {BuildBaseCertificate(certificate), BuildCompanyCertificate(certificate),
                       BuildScopeCertificate(certificate),
                       BuildMaterialCertificate(certificate, material)}
  PROVE  /\ read.validFrom = certificate.validFrom /\ read.validUntil = certificate.validUntil
         /\ Variant(read.document.documentType) = certificate.document.documentType
         /\ Variant(read.evaluationStatus) = certificate.evaluationStatus
         /\ Variant(read.certType) = certificate.certType
<1> DEFINE base == BuildBaseCertificate(certificate)
<1>1. /\ read.validFrom = base.validFrom /\ read.validUntil = base.validUntil
      /\ read.document = base.document /\ read.evaluationStatus = base.evaluationStatus
      /\ read.certType = base.certType
  <2>1. base \in BuiltCertificates  BY BuiltCertificate
  <2>2. \/ read = base
        \/ read = [base EXCEPT !.issueDate = @ \div 1000]
        \/ read = [base EXCEPT !.issueDate = @ \div 1000, !.material = material]
    BY DEF BuildCompanyCertificate, BuildScopeCertificate, BuildMaterialCertificate
  <2> HIDE DEF base
  <2>3. CASE read = base  BY <2>3
  <2>4. CASE read = [base EXCEPT !.issueDate = @ \div 1000]
    BY <2>1, <2>4 DEF BuiltCertificates
  <2>5. CASE read = [base EXCEPT !.issueDate = @ \div 1000, !.material = material]
    BY <2>1, <2>5 DEF BuiltCertificates
  <2> QED  BY <2>2, <2>3, <2>4, <2>5
<1>2. base.validFrom = certificate.validFrom /\ base.validUntil = certificate.validUntil
  BY DEF BuildBaseCertificate, ICPCertificates
<1>3. Variant(base.document.documentType) = certificate.document.documentType
  <2>1. PICK type \in CertificateDocumentType :
          certificate.document.documentType = Variant(type)
    BY DEF ICPCertificates
  <2>2. base.document.documentType = BuildCertificateDocumentType(certificate.document.documentType)
    BY DEF BuildBaseCertificate, BuildCertificateDocumentInfo, ICPCertificates
  <2> QED  BY <2>1, <2>2, NameOfVariant DEF BuildCertificateDocumentType
<1>4. Variant(base.evaluationStatus) = certificate.evaluationStatus
  <2>1. PICK status \in EvaluationStatus : certificate.evaluationStatus = Variant(status)
    BY DEF ICPCertificates
  <2>2. base.evaluationStatus = BuildDocumentEvaluationStatus(certificate.evaluationStatus)
    BY DEF BuildBaseCertificate, ICPCertificates
  <2> QED  BY <2>1, <2>2, NameOfVariant DEF BuildDocumentEvaluationStatus
<1>5. Variant(base.certType) = certificate.certType
  <2>1. PICK type \in CertificateType : certificate.certType = Variant(type)
    BY DEF ICPCertificates
  <2>2. base.certType = BuildCertificateType(certificate.certType)
    BY DEF BuildBaseCertificate, ICPCertificates
  <2> QED  BY <2>1, <2>2, NameOfVariant DEF BuildCertificateType
<1> QED  BY <1>1, <1>2, <1>3, <1>4, <1>5

\* When a certificate was issued depends on how it is asked for: as a base certificate it
\* is the time the canister stored, as one of its kind a thousandth of it.
THEOREM IssueDateInTwoUnits ==
  ASSUME NEW certificate \in ICPCertificates, NEW material,
         NEW read \in {BuildCompanyCertificate(certificate), BuildScopeCertificate(certificate),
                       BuildMaterialCertificate(certificate, material)}
  PROVE  /\ BuildBaseCertificate(certificate).issueDate = certificate.issueDate
         /\ read.issueDate = certificate.issueDate \div 1000
         /\ certificate.issueDate > 0 => read.issueDate < certificate.issueDate
<1> DEFINE time == certificate.issueDate
<1>1. time \in Nat  BY DEF ICPCertificates
<1>2. BuildBaseCertificate(certificate).issueDate = time
  BY DEF BuildBaseCertificate, ICPCertificates
<1>3. read.issueDate = time \div 1000
  <2> DEFINE base == BuildBaseCertificate(certificate)
  <2>1. base \in BuiltCertificates  BY BuiltCertificate
  <2>2. \/ read = [base EXCEPT !.issueDate = @ \div 1000]
        \/ read = [base EXCEPT !.issueDate = @ \div 1000, !.material = material]
    BY DEF BuildCompanyCertificate, BuildScopeCertificate, BuildMaterialCertificate
  <2>3. base.issueDate = time  BY <1>2
  <2> HIDE DEF base, time
  <2>4. CASE read = [base EXCEPT !.issueDate = @ \div 1000]
    BY <2>1, <2>3, <2>4 DEF BuiltCertificates
  <2>5. CASE read = [base EXCEPT !.issueDate = @ \div 1000, !.material = material]
    BY <2>1, <2>3, <2>5 DEF BuiltCertificates
  <2> QED  BY <2>2, <2>4, <2>5
<1> HIDE DEF time
<1>4. time > 0 => time \div 1000 < time
  BY <1>1
<1> QED  BY <1>2, <1>3, <1>4 DEF time
===============================================================================

------------------------------- MODULE Entities -------------------------------
(***************************************************************************)
(* The conversions of the SDK (EntityBuilder and the drivers that use it)  *)
(* between its entities and the records of the canister: what a driver     *)
(* sends, and what the builders make of the answer.                        *)
(*                                                                         *)
(* A variant is a record with one field.  A date is its getTime(), in      *)
(* milliseconds.  Fields that are only copied are left out, or carried by  *)
(* the record unchanged; so are numbers, which stay below 2^53.            *)
(***************************************************************************)
EXTENDS Integers, Sequences

\* Names: of the values of an enumeration, which are the fields its variants can have.
Phase == {"PHASE_1", "PHASE_2", "PHASE_3", "PHASE_4", "PHASE_5", "CONFIRMED", "ARBITRATION"}
FundStatus == {"NOT_LOCKED", "LOCKED", "RELEASED"}
EvaluationStatus == {"NOT_EVALUATED", "APPROVED", "NOT_APPROVED"}
OrderStatus == {"PENDING", "CONFIRMED", "EXPIRED"}
CertificateType == {"COMPANY", "SCOPE", "MATERIAL"}
CertificateDocumentType ==
  {"CERTIFICATE_OF_CONFORMITY", "COUNTRY_OF_ORIGIN", "SWISS_DECODE", "PRODUCTION_REPORT",
   "PRODUCTION_FACILITY_LICENSE"}
DocumentType ==
  {"SERVICE_GUIDE", "SENSORY_EVALUATION_ANALYSIS_REPORT", "SUBJECT_TO_APPROVAL_OF_SAMPLE",
   "PRE_SHIPMENT_SAMPLE", "SHIPPING_INSTRUCTIONS", "SHIPPING_NOTE", "BOOKING_CONFIRMATION",
   "CARGO_COLLECTION_ORDER", "EXPORT_INVOICE", "TRANSPORT_CONTRACT",
   "TO_BE_FREED_SINGLE_EXPORT_DECLARATION", "EXPORT_CONFIRMATION",
   "FREED_SINGLE_EXPORT_DECLARATION", "CONTAINER_PROOF_OF_DELIVERY",
   "PHYTOSANITARY_CERTIFICATE", "BILL_OF_LADING", "ORIGIN_CERTIFICATE_ICO",
   "WEIGHT_CERTIFICATE", "GENERIC"}

Variant(name) == [field \in {name} |-> "null"]

\* The first of the names that is a field; the builder throws when none is.
NameIn(names, variant) == CHOOSE name \in names : name \in DOMAIN variant

BuildShipmentPhase(phase) == NameIn(Phase, phase)
BuildShipmentIDLPhase(phase) == Variant(phase)
BuildFundStatus(status) == NameIn(FundStatus, status)
BuildEvaluationStatus(status) == NameIn(EvaluationStatus, status)
BuildICPEvaluationStatus(status) == Variant(status)
BuildDocumentType(type) == NameIn(DocumentType, type)
BuildIDLDocumentType(type) == Variant(type)
BuildCertificateDocumentType(type) == NameIn(CertificateDocumentType, type)
BuildICPCertificateDocumentType(type) == Variant(type)
BuildDocumentEvaluationStatus(status) == NameIn(EvaluationStatus, status)
BuildCertificateType(type) == NameIn(CertificateType, type)
BuildOrderStatus(status) == NameIn(OrderStatus, status)

-----------------------------------------------------------------------------
\* Shipments.

\* setShipmentDetails sends the times of its dates.
SetShipmentDetails(shipment, details) ==
  [shipment EXCEPT !.expirationDate = details.expirationDate, !.fixingDate = details.fixingDate]

BuildDocumentInfo(info) ==
  [info EXCEPT !.documentType = BuildDocumentType(@), !.evaluationStatus = BuildEvaluationStatus(@)]

\* A Map by type; an entry replaces one of the same type before it.
BuildShipmentDocuments(documents) ==
  LET type(i) == BuildDocumentType(documents[i][1])
      last(t) == CHOOSE i \in DOMAIN documents :
                   type(i) = t /\ \A j \in DOMAIN documents : j > i => type(j) # t
      infos(i) == [k \in DOMAIN documents[i][2] |-> BuildDocumentInfo(documents[i][2][k])]
  IN  [t \in {type(i) : i \in DOMAIN documents} |-> infos(last(t))]

\* The dates of a shipment are read as seconds.
BuildShipment(shipment) ==
  [shipment EXCEPT
     !.downPaymentAddress = IF @ = <<>> THEN "undefined" ELSE @[1],
     !.sampleEvaluationStatus = BuildEvaluationStatus(@),
     !.detailsEvaluationStatus = BuildEvaluationStatus(@),
     !.qualityEvaluationStatus = BuildEvaluationStatus(@),
     !.fundsStatus = BuildFundStatus(@),
     !.expirationDate = @ * 1000, !.fixingDate = @ * 1000,
     !.documents = BuildShipmentDocuments(@)]

-----------------------------------------------------------------------------
\* Orders.

Deadlines ==
  {"paymentDeadline", "documentDeliveryDeadline", "shippingDeadline", "deliveryDeadline"}

\* createOrder and updateOrder send full seconds.
OrderArguments(params) ==
  [params EXCEPT !.deadlines = [d \in Deadlines |-> params.deadlines[d] \div 1000]]

\* shipment: the answer to a second call, for the shipment of an order that has one.
BuildOrder(order, shipment) ==
  [order EXCEPT
     !.status = BuildOrderStatus(@),
     !.deadlines = [d \in Deadlines |-> order.deadlines[d] * 1000],
     !.shipment = IF @ = <<>> THEN <<>> ELSE <<BuildShipment(shipment)>>]

-----------------------------------------------------------------------------
\* Certificates.

BuildICPCertificateDocumentInfo(document) ==
  [document EXCEPT !.documentType = BuildICPCertificateDocumentType(@)]

BuildCertificateDocumentInfo(document) ==
  [document EXCEPT !.documentType = BuildCertificateDocumentType(@)]

\* Registration and updates send the times of the dates, and the document.
CertificateArguments(params) ==
  [params EXCEPT !.document = BuildICPCertificateDocumentInfo(@)]

BuildBaseCertificate(certificate) ==
  [certificate EXCEPT
     !.document = BuildCertificateDocumentInfo(@),
     !.evaluationStatus = BuildDocumentEvaluationStatus(@),
     !.certType = BuildCertificateType(@)]

\* The others divide the time a certificate was issued at; a Date drops the fraction.
BuildCompanyCertificate(certificate) ==
  [BuildBaseCertificate(certificate) EXCEPT !.issueDate = @ \div 1000]
BuildScopeCertificate(certificate) ==
  [BuildBaseCertificate(certificate) EXCEPT !.issueDate = @ \div 1000]
BuildMaterialCertificate(certificate, material) ==
  [BuildBaseCertificate(certificate) EXCEPT
     !.issueDate = @ \div 1000, !.material = material]
===============================================================================

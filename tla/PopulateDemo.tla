------------------------------ MODULE PopulateDemo ------------------------------
(***************************************************************************)
(* scripts/populate-demo.ts and the SDK services it uses, as the calls it  *)
(* makes.  The script is a sequence of stages.  A stage is what it waits   *)
(* for as a whole: a sequence of calls, or, with Promise.all, several that *)
(* are made at the same time.                                              *)
(*                                                                         *)
(* A call says what it does (op), for whom, with which arguments (args),   *)
(* and under which name (as) the script keeps what it returns.             *)
(***************************************************************************)
EXTENDS Naturals, Sequences, SequencesExt

CONSTANTS Exporter, Importer        \* the users, USER1 and USER2

Dropped == <<"dropped", 0>>         \* the script does not keep the value

Call(op, user, as, args) == [op |-> op, user |-> user, as |-> as, args |-> args]
Do(op, user) == Call(op, user, Dropped, <<>>)

-----------------------------------------------------------------------------
\* SiweIdentityProvider.createIdentity
CreateIdentity(user) ==
  <<Do("siwe_prepare_login", user), Do("siwe_login", user), Do("siwe_get_delegation", user)>>

PrepareLogin(user) == CreateIdentity(user)
Authenticate(user) == Do("authenticate", user)

GetProductCategories(user) == Do("getProductCategories", user)

\* mockMaterials
MockMaterials ==
  LET Mock(user, category, isInput) == [user |-> user, category |-> category, isInput |-> isInput]
  IN  <<Mock(Exporter, 0, FALSE), Mock(Exporter, 1, FALSE), Mock(Importer, 0, TRUE),
        Mock(Importer, 1, TRUE), Mock(Exporter, 3, TRUE), Mock(Exporter, 4, TRUE),
        Mock(Exporter, 2, FALSE), Mock(Exporter, 2, TRUE)>>

Material(i) == <<"material", i>>

CreateMaterial(i) ==
  Call("createMaterial", MockMaterials[i + 1].user, Material(i),
       [category |-> MockMaterials[i + 1].category, isInput |-> MockMaterials[i + 1].isInput])

CreateAssetOperation(user) ==
  Call("createAssetOperation", user, Dropped,
       [inputs |-> {Material(4), Material(5)}, output |-> Material(6)])

CreateOffer(user, material) == Call("createOffer", user, Dropped, [material |-> material])

CreateOrganization(user) == Do("createOrganization", user)
DiscloseOrganization(user, to) == Call("createBusinessRelation", user, Dropped, [to |-> to])

\* mockOrder
CreateOrder(user, i, supplierMaterial, commissionerMaterial) ==
  Call("createOrder", user, <<"order", i>>,
       [supplierMaterial |-> supplierMaterial, commissionerMaterial |-> commissionerMaterial])

SignOrder(user) == Do("signOrder", user)
GetOrder(user) == Call("getOrder", user, <<"shipment", 0>>, <<>>)

\* mockDocument, whose name all files of the script are given.
MockDocument == [stem |-> "sampleDocument", extension |-> "pdf"]

\* The name of a file is a URL; kind is all of it before the name of the document.
Url(kind, name) == [kind |-> kind, stem |-> name.stem, extension |-> name.extension]

\* Mutant of MetadataUrl: the metadata get the name of the document.
SameUrl(url) == url

\* The extension is cut off before the ending of the metadata is added.
MetadataUrl(url) == [url EXCEPT !.extension = "-metadata.json"]

\* A file has one block here, which stands for its content.
Create(user, as, name, content) ==
  Call("create_file", user, as, [name |-> name, content |-> <<content>>])

\* CertificationService of the SDK.
AddDocumentToExtStorage(user) ==
  Create(user, <<"report", 0>>, Url("company", MockDocument), "pdf")
RegisterCompanyCertificate(user) ==
  <<AddDocumentToExtStorage(user), Do("registerCompanyCertificate", user)>>

CreateCompanyCertification(user) == RegisterCompanyCertificate(user)

-----------------------------------------------------------------------------
\* Mutant of AddDocument: the document is recorded before its metadata is stored.
RecordFirst(user, type, url) ==
  <<Create(user, <<"file", type>>, url, "pdf"),
    Call("addDocument", user, <<"document", type>>, [type |-> type, externalUrl |-> url]),
    Create(user, <<"metadata", type>>, MetadataUrl(url), type)>>

\* ShipmentService.addDocument of the SDK: the file, then its metadata, which hold the
\* type, then the record of the canister.
AddDocument(user, type, url) ==
  <<Create(user, <<"file", type>>, url, "pdf"),
    Create(user, <<"metadata", type>>, MetadataUrl(url), type),
    Call("addDocument", user, <<"document", type>>, [type |-> type, externalUrl |-> url])>>

\* All documents of the order have the same URL.
DocumentUrl == Url("transactions", MockDocument)

UploadDocument(user, type) == AddDocument(user, type, DocumentUrl)
ApproveDocument(user, type) == Call("evaluateDocument", user, Dropped, [type |-> type])

\* The document is the first of its type in the shipment that addDocument returned.
UploadAndApproveDocument(type) ==
  Append(UploadDocument(Exporter, type), ApproveDocument(Importer, type))

EvaluateSample(user) == Do("evaluateSample", user)
SetShipmentDetails(user) == Do("setShipmentDetails", user)
ApproveShipmentDetails(user) == Do("evaluateShipmentDetails", user)

UploadAndApproveShipmentDetails == <<SetShipmentDetails(Exporter), ApproveShipmentDetails(Importer)>>

\* Promise.all over the documents of a step.
AllDocuments(types) == [i \in DOMAIN types |-> UploadAndApproveDocument(types[i])]

CompleteSampleApprovalStep ==
  <<AllDocuments(<<"PRE_SHIPMENT_SAMPLE">>), << <<EvaluateSample(Importer)>> >> >>

CompleteShipmentConfirmationStep ==
  <<AllDocuments(<<"SHIPPING_INSTRUCTIONS", "SHIPPING_NOTE">>),
    <<UploadAndApproveShipmentDetails>> >>

CompleteWaitingForLandTransportationStep == <<AllDocuments(<<"BOOKING_CONFIRMATION">>)>>

\* Each step starts with a look at the phase.
GetShipmentPhase(i) == << <<Call("getShipmentPhase", Exporter, <<"phase", i>>, <<>>)>> >>

\* Mutant of CompleteShipment: the second step is left out.
WithoutConfirmation ==
  <<GetShipmentPhase(1)>> \o CompleteSampleApprovalStep
    \o <<GetShipmentPhase(3)>> \o CompleteWaitingForLandTransportationStep

CompleteShipment ==
  <<GetShipmentPhase(1)>> \o CompleteSampleApprovalStep
    \o <<GetShipmentPhase(2)>> \o CompleteShipmentConfirmationStep
    \o <<GetShipmentPhase(3)>> \o CompleteWaitingForLandTransportationStep

CompleteOrder == << << <<SignOrder(Exporter), GetOrder(Exporter)>> >> >> \o CompleteShipment

-----------------------------------------------------------------------------
OfferedMaterials ==
  SelectSeq([i \in DOMAIN MockMaterials |-> i - 1],
            LAMBDA i : MockMaterials[i + 1].user = Exporter /\ ~ MockMaterials[i + 1].isInput)

Offers == [k \in DOMAIN OfferedMaterials |-> <<CreateOffer(Exporter, Material(OfferedMaterials[k]))>>]

Beginning ==
  PrepareLogin(Exporter) \o PrepareLogin(Importer)
    \o <<Authenticate(Exporter), Authenticate(Importer), GetProductCategories(Exporter)>>
    \o [k \in DOMAIN MockMaterials |-> CreateMaterial(k - 1)]
    \o <<CreateAssetOperation(Exporter)>>

\* Mutant of Orders: the organizations come last.
OrganizationsLast ==
  CreateCompanyCertification(Exporter)
    \o <<CreateOrder(Importer, 0, Material(0), Material(2)),
         CreateOrder(Importer, 1, Material(1), Material(3)),
         CreateOrganization(Exporter), CreateOrganization(Importer),
         DiscloseOrganization(Importer, Exporter)>>

Orders ==
  <<CreateOrganization(Exporter), CreateOrganization(Importer)>>
    \o CreateCompanyCertification(Exporter)
    \o <<CreateOrder(Importer, 0, Material(0), Material(2)),
         CreateOrder(Importer, 1, Material(1), Material(3)),
         DiscloseOrganization(Importer, Exporter)>>

Main == << <<Beginning>>, Offers, <<Orders>> >> \o CompleteOrder
================================================================================

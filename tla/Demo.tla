---------------------------------- MODULE Demo ----------------------------------
(***************************************************************************)
(* The script of PopulateDemo running against the whole system: the        *)
(* services of Platform, the record of the shipment (ShipmentRecord), the  *)
(* storage canister with its permissions (Storage), and the provider of    *)
(* identities.  Every concurrent call of the script is a thread of its     *)
(* own.  A call can get lost, or its answer; it then throws, as it does    *)
(* when it is refused.  The main function catches the first error and      *)
(* ends, while the threads that are under way go on.                       *)
(***************************************************************************)
EXTENDS Platform

CONSTANTS
  Exporter, Importer, ExporterCompany, ImporterCompany,
  Threads,
  Storages              \* workloads of Storage

VARIABLES
  siwe,                 \* provider of identities: the step its login is at, by user
  record,               \* of the shipment of the script's order
  files, pending, shares, permissionsKnown, late, uploads, workload, issued, filesGapped, torn,
  trie, requests, rejections,           \* of Storage
  stage,                \* the stage of the script
  todo,                 \* the calls a thread has to make in it
  results,              \* the values the script keeps
  thrown,               \* why calls threw
  shared                \* history: file ids two uploads of the script worked on

storageVars == <<files, pending, shares, permissionsKnown, late, uploads, workload, issued,
                 filesGapped, torn, trie, requests, rejections>>
scriptVars == <<stage, todo, results, thrown>>
demoVars == <<vars, siwe, record, storageVars, scriptVars, shared>>

Script == INSTANCE PopulateDemo

SDK == INSTANCE Entities

Storage == INSTANCE Storage WITH
  Callers <- Threads, Contents <- UNION {w.contents : w \in Storages}, Workloads <- Storages,
  Tokens <- {}, Limits <- {}, MaxUses <- 0, call <- uploads, gapped <- filesGapped

App == 0                \* the slot of who signs elsewhere

Phase1RequiredDocuments == {"PRE_SHIPMENT_SAMPLE"}
Phase2RequiredDocuments == {"SHIPPING_INSTRUCTIONS", "SHIPPING_NOTE"}
Phase3RequiredDocuments == {"BOOKING_CONFIRMATION"}
Phase4RequiredDocuments ==
  {"PHYTOSANITARY_CERTIFICATE", "BILL_OF_LADING", "ORIGIN_CERTIFICATE_ICO"}

RequiredDocuments ==
  <<Phase1RequiredDocuments, Phase2RequiredDocuments, Phase3RequiredDocuments,
    Phase4RequiredDocuments>>

Record == INSTANCE ShipmentRecord WITH
  DocumentTypes <- UNION {RequiredDocuments[p] : p \in 1 .. 4} \cup {"GENERIC"},
  Generic <- "GENERIC", Required <- RequiredDocuments, SampleApprovalRequired <- TRUE,
  Parties <- Companies, Urls <- {Script!DocumentUrl}, Prices <- {1}

\* The users of the script are users, and every concurrent call of it has a thread.
ASSUME ScriptAssumption ==
  /\ {Exporter, Importer} \subseteq Users
  /\ App \notin Threads
  /\ \A s \in DOMAIN Script!Main : DOMAIN Script!Main[s] \subseteq Threads

\* What the script uploads is among the contents.
ASSUME StoragesAssumption == \A w \in Storages :
  /\ w.users \subseteq Users /\ w.contents \subseteq Seq(STRING) /\ w.maxFiles \in Nat
  /\ \A type \in {"pdf"} \cup UNION {RequiredDocuments[p] : p \in 1 .. 3} : <<type>> \in w.contents

CompanyOf(user) == IF user = Exporter THEN ExporterCompany ELSE ImporterCompany

-----------------------------------------------------------------------------
\* The script.

Branches(s) == [t \in Threads |-> IF t \in DOMAIN Script!Main[s] THEN Script!Main[s][t] ELSE <<>>]

DemoInit ==
  /\ Init /\ Storage!Init
  /\ siwe = [u \in Users |-> "none"]
  /\ record = Record!NewRecord
  /\ stage = 1 /\ todo = Branches(1) /\ results = <<>> /\ thrown = {} /\ shared = {}

Idle(t) == uploads[t] = Storage!Idle
NextCall(t) == Head(todo[t])
LoginOf(u) == {login \in logins : login.user = u}

\* The call the thread made is not answered yet.
Waiting(t) ==
  \/ ~ Idle(t) \/ t \in DOMAIN signing
  \/ todo[t] # <<>> /\ NextCall(t).op = "authenticate" /\ LoginOf(NextCall(t).user) # {}

Calls(t, op) == todo[t] # <<>> /\ ~ Waiting(t) /\ NextCall(t).op = op

Answered(t, value) ==
  /\ todo' = [todo EXCEPT ![t] = Tail(@)]
  /\ results' = IF NextCall(t).as = Script!Dropped THEN results
                ELSE Put(results, NextCall(t).as, value)
  /\ UNCHANGED <<stage, thrown>>

\* Mutant of Thrown: the call is made again.
ThrownAndRepeated(t, why) == thrown' = thrown \cup {why} /\ UNCHANGED <<stage, todo, results>>

\* The rest of the thread is not executed.
Thrown(t, why) ==
  /\ todo' = [todo EXCEPT ![t] = <<>>] /\ thrown' = thrown \cup {why}
  /\ UNCHANGED <<stage, results>>

\* The call, or the answer to it, gets lost.
Lost(t) == Uses("losses") /\ Thrown(t, "lost")

Finished == \A t \in Threads : todo[t] = <<>>
Ended == Finished /\ (thrown # {} \/ stage = Len(Script!Main))

\* Promise.all is fulfilled.
NextStage ==
  /\ Finished /\ thrown = {} /\ stage < Len(Script!Main)
  /\ stage' = stage + 1 /\ todo' = Branches(stage + 1)
  /\ UNCHANGED <<results, thrown, vars, siwe, record, storageVars, shared>>

-----------------------------------------------------------------------------
\* Calls that are handled in one step.

OnPlatform(service) == OnlyIn(service) /\ NoteGaps /\ UNCHANGED <<siwe, record>>
OffPlatform == UNCHANGED <<vars, siwe, record>>

\* The three calls of createIdentity.
CallPrepareLogin(c) == c.op = "siwe_prepare_login" /\ siwe' = [siwe EXCEPT ![c.user] = "prepared"]

CallLogin(c) ==
  /\ c.op = "siwe_login" /\ siwe[c.user] = "prepared"
  /\ siwe' = [siwe EXCEPT ![c.user] = "logged in"]

CallGetDelegation(c) ==
  c.op = "siwe_get_delegation" /\ siwe[c.user] = "logged in" /\ UNCHANGED siwe

IdentityCall(c) ==
  (CallPrepareLogin(c) \/ CallLogin(c) \/ CallGetDelegation(c)) /\ UNCHANGED <<vars, record>>

\* The calls of the drivers of the SDK, with the ids of the results they are made with.
GetCategoriesCall(c) ==
  c.op = "getProductCategories" /\ AtLeast(c.user, "Viewer") /\ OffPlatform

CreateMaterialCall(c) ==
  /\ c.op = "createMaterial" /\ AtLeast(c.user, "Editor")
  /\ CreateMaterial(c.user, c.args.category, c.args.isInput) /\ OnPlatform("catalogue")

CreateAssetOperationCall(c) ==
  /\ c.op = "createAssetOperation" /\ AtLeast(c.user, "Editor")
  /\ CreateAssetOperation(c.user, {results[m] : m \in c.args.inputs}, results[c.args.output])
  /\ OnPlatform("catalogue")

CreateOfferCall(c) ==
  /\ c.op = "createOffer" /\ AtLeast(c.user, "Editor")
  /\ CreateOffer(c.user, results[c.args.material]) /\ OnPlatform("catalogue")

CreateOrganizationCall(c) ==
  /\ c.op = "createOrganization" /\ AtLeast(c.user, "Editor")
  /\ CreateOrganization(c.user, "OTHER") /\ OnPlatform("organizations")

CreateBusinessRelationCall(c) ==
  /\ c.op = "createBusinessRelation" /\ AtLeast(c.user, "Editor")
  /\ CreateBusinessRelation(c.user, CompanyOf(c.args.to)) /\ OnPlatform("organizations")

\* The script asks for standard 1 and the level 'Certified (Third Party)'.
RegisterCompanyCertificateCall(c) ==
  /\ c.op = "registerCompanyCertificate" /\ AtLeast(c.user, "Editor")
  /\ RegisterCompanyCertificate(c.user, CompanyOf(c.user), 1, "Certified (Third Party)", "report")
  /\ OnPlatform("certificates")

\* In milliseconds, and not a full second.
MockDeadlines == [deadlines |-> [d \in SDK!Deadlines |-> 1000 * Horizon + 500]]

MockOrder(c) ==
  [supplier |-> ExporterCompany, customer |-> ImporterCompany, commissioner |-> ImporterCompany,
   deadline |-> SDK!OrderArguments(MockDeadlines).deadlines["paymentDeadline"], other |-> "mock",
   lines |-> <<[supplierMaterial |-> results[c.args.supplierMaterial],
                commissionerMaterial |-> results[c.args.commissionerMaterial], quantity |-> 10]>>]

CreateOrderCall(c) ==
  /\ c.op = "createOrder" /\ AtLeast(c.user, "Editor")
  /\ CreateOrder(c.user, MockOrder(c)) /\ OnPlatform("orders")

-----------------------------------------------------------------------------
\* ShipmentController; the handlers are those of ShipmentRecord.

Side(u, id, sides) == GetDelegatorAddress(u) \in {shipments[id][side] : side \in sides}

OwnShipment == results[<<"shipment", 0>>]
OnlySupplier(u) == Side(u, OwnShipment, {"supplier"})
OnlyCommissioner(u) == Side(u, OwnShipment, {"commissioner"})
ContractParty(u, id) == HasOrganization(u) /\ Side(u, id, {"supplier", "commissioner"})

\* The order, then its shipment, which the script needs.
GetOrderCall(c) ==
  LET order == orders[results[<<"order", 0>>]]
  IN  /\ c.op = "getOrder" /\ AtLeast(c.user, "Viewer")
      /\ OnlyContractParty(c.user, InterestedParties(order.terms))
      /\ order.shipment \in DOMAIN shipments /\ ContractParty(c.user, order.shipment)
      /\ OffPlatform

GetShipmentPhaseCall(c) ==
  /\ c.op = "getShipmentPhase" /\ AtLeast(c.user, "Viewer") /\ ContractParty(c.user, OwnShipment)
  /\ UNCHANGED record

SetShipmentDetailsCall(c) ==
  /\ c.op = "setShipmentDetails" /\ AtLeast(c.user, "Editor") /\ OnlySupplier(c.user)
  /\ Record!SetShipmentDetails(record, record', 1)

EvaluateSampleCall(c) ==
  /\ c.op = "evaluateSample" /\ AtLeast(c.user, "Editor") /\ OnlyCommissioner(c.user)
  /\ Record!EvaluateSample(record, record', "APPROVED")

EvaluateDetailsCall(c) ==
  /\ c.op = "evaluateShipmentDetails" /\ AtLeast(c.user, "Editor") /\ OnlyCommissioner(c.user)
  /\ Record!EvaluateShipmentDetails(record, record', "APPROVED")

AddDocumentCall(c) ==
  /\ c.op = "addDocument" /\ AtLeast(c.user, "Editor") /\ ContractParty(c.user, OwnShipment)
  /\ Record!AddDocument(record, record', c.args.type, GetDelegatorAddress(c.user),
                        c.args.externalUrl)

\* No funds are locked in the demo, so that no verdict releases any.
EvaluateDocumentCall(c) ==
  LET id == results[<<"document", c.args.type>>]
  IN  /\ c.op = "evaluateDocument" /\ AtLeast(c.user, "Editor")
      /\ ContractParty(c.user, OwnShipment)
      /\ Record!MayEvaluateDocument(record, id, GetDelegatorAddress(c.user))
      /\ ~ Record!Releases(record)
      /\ record' = Record!WithVerdict(record, id, "APPROVED")

ShipmentCall(c) ==
  /\ \/ GetShipmentPhaseCall(c) \/ SetShipmentDetailsCall(c) \/ EvaluateSampleCall(c)
     \/ EvaluateDetailsCall(c) \/ AddDocumentCall(c) \/ EvaluateDocumentCall(c)
  /\ UNCHANGED <<vars, siwe>>

-----------------------------------------------------------------------------
Handled(c) ==
  \/ IdentityCall(c) \/ GetCategoriesCall(c) \/ CreateMaterialCall(c)
  \/ CreateAssetOperationCall(c) \/ CreateOfferCall(c) \/ CreateOrganizationCall(c)
  \/ CreateBusinessRelationCall(c) \/ RegisterCompanyCertificateCall(c)
  \/ CreateOrderCall(c) \/ GetOrderCall(c) \/ ShipmentCall(c)

\* A phase and the documents of a record as the canister returns them.
PhaseName(r) ==
  <<"PHASE_1", "PHASE_2", "PHASE_3", "PHASE_4", "PHASE_5", "CONFIRMED",
    "ARBITRATION">>[Record!GetShipmentPhase(r)]

ReturnedPhase(r) == SDK!Variant(PhaseName(r))

ReturnedDocuments(r) ==
  LET Info(type, document) ==
        [id |-> document.id, externalUrl |-> document.externalUrl,
         uploadedBy |-> document.uploadedBy,
         documentType |-> SDK!Variant(type), evaluationStatus |-> SDK!Variant(document.status)]
      Entry(t) == <<SDK!Variant(t.type), [k \in DOMAIN t.docs |-> Info(t.type, t.docs[k])]>>
  IN  [i \in DOMAIN r.documents |-> Entry(r.documents[i])]

\* What the driver makes of them.
DocumentsOf(r, type) == SDK!BuildShipmentDocuments(ReturnedDocuments(r))[type]

\* What the script reads of the answer to a call that was handled.
ResultOf(c) ==
  CASE c.op = "createMaterial" -> NextId(materials)
    [] c.op = "createOrder" -> NextId(orders)
    [] c.op = "getOrder" -> orders[results[<<"order", 0>>]].shipment
    [] c.op = "getShipmentPhase" -> SDK!BuildShipmentPhase(ReturnedPhase(record))
    [] c.op = "addDocument" -> DocumentsOf(record', c.args.type)[1].id
    [] OTHER -> 0

Atomic(t) ==
  /\ todo[t] # <<>> /\ ~ Waiting(t)
  /\ NextCall(t).op \notin {"create_file", "authenticate", "signOrder"}

AnsweredCall(t) ==
  /\ Atomic(t) /\ Handled(NextCall(t))
  /\ Answered(t, ResultOf(NextCall(t))) \/ Lost(t)
  /\ UNCHANGED <<storageVars, shared>>

RefusedCall(t) ==
  /\ Atomic(t) /\ ~ ENABLED Handled(NextCall(t))
  /\ Thrown(t, "refused")
  /\ OffPlatform /\ UNCHANGED <<storageVars, shared>>

\* Also those that are not atomic.
LostCall(t) ==
  /\ todo[t] # <<>> /\ ~ Waiting(t) /\ Lost(t)
  /\ OffPlatform /\ UNCHANGED <<storageVars, shared>>

-----------------------------------------------------------------------------
\* Calls that wait inside the canister.

\* createRoleProof: a Signer's, valid for a year.
RoleProof(u) ==
  [delegate |-> u, company |-> CompanyOf(u), role |-> "Signer", signer |-> CompanyOf(u),
   issuer |-> MembershipIssuer, delegateExpiry |-> Horizon, delegatorExpiry |-> Horizon]

StartLogin(t) ==
  /\ Calls(t, "authenticate") /\ siwe[NextCall(t).user] = "logged in"
  /\ Authenticate(NextCall(t).user, RoleProof(NextCall(t).user)) /\ OnPlatform("authentication")
  /\ UNCHANGED <<scriptVars, storageVars, shared>>

FinishLogin(t) == \E answered \in BOOLEAN :
  /\ todo[t] # <<>> /\ NextCall(t).op = "authenticate"
  /\ \E login \in LoginOf(NextCall(t).user) : AddressAnswered(login, answered)
  /\ IF answered THEN Answered(t, 0) \/ Lost(t) ELSE Lost(t)
  /\ OnPlatform("authentication") /\ UNCHANGED <<storageVars, shared>>

MaySign(u, id) == AtLeast(u, "Signer") /\ OnlyContractParty(u, InterestedParties(orders[id].terms))

\* The importer signed when it created the order, so that this is the last signature.
StartSigning(t) ==
  LET u == NextCall(t).user  id == results[<<"order", 0>>]
  IN  /\ Calls(t, "signOrder") /\ MaySign(u, id)
      /\ SignOrder(u, id, t) /\ OnPlatform("orders")
      /\ UNCHANGED <<scriptVars, storageVars, shared>>

RefusedSigning(t) ==
  /\ Calls(t, "signOrder") /\ ~ MaySign(NextCall(t).user, results[<<"order", 0>>])
  /\ Thrown(t, "refused")
  /\ OffPlatform /\ UNCHANGED <<storageVars, shared>>

\* Meanwhile the exporter signs the other order of the script by hand, elsewhere; only
\* until the script has its shipment, for later the ids cannot meet.
SignedElsewhere ==
  /\ Uses("app") /\ <<"order", 1>> \in DOMAIN results /\ <<"shipment", 0>> \notin DOMAIN results
  /\ MaySign(Exporter, results[<<"order", 1>>])
  /\ SignOrder(Exporter, results[<<"order", 1>>], App) /\ OnPlatform("orders")
  /\ UNCHANGED <<scriptVars, storageVars, shared>>

\* A shipment that is inserted under the id of the script's replaces its record.
ScriptsShipment ==
  {signing[t].shipment : t \in DOMAIN signing \ {App}} \cup
  {results[n] : n \in DOMAIN results \cap {<<"shipment", 0>>}}

FinishSigning(t) == \E sent \in BOOLEAN :
  /\ t \in DOMAIN signing /\ RegistrationAnswered(t, sent)
  /\ record' = IF sent /\ signing[t].shipment \in ScriptsShipment THEN Record!NewRecord ELSE record
  /\ OnlyIn("orders") /\ NoteGaps
  /\ IF t = App THEN UNCHANGED scriptVars
     ELSE IF sent THEN Answered(t, 0) \/ Lost(t)
     ELSE Lost(t)
  /\ UNCHANGED <<siwe, storageVars, shared>>

-----------------------------------------------------------------------------
\* Uploads; create and put_chunk are steps of Storage.

StartUpload(t) ==
  /\ Calls(t, "create_file")
  /\ Storage!CreateFile(t, NextCall(t).user, NextCall(t).args.name, NextCall(t).args.content)
  /\ shared' = shared \cup
       {id \in {uploads'[t].id} : \E d \in Threads \ {t} : ~ Idle(d) /\ uploads[d].id = id}
  /\ OffPlatform /\ UNCHANGED scriptVars

\* create_file answers with the id, or throws; its answer can be lost.
FileCreated(t) ==
  /\ Storage!FileCreated(t)
  /\ IF ~ Idle(t)' THEN UNCHANGED scriptVars
     ELSE (uploads[t].ok => Uses("losses")) /\ Thrown(t, "lost")
  /\ OffPlatform /\ UNCHANGED shared

\* StorageDriver.create throws when a chunk threw, and returns the id otherwise.
UploadReturns(t) ==
  /\ Storage!UploadReturns(t)
  /\ IF uploads[t].failed THEN Thrown(t, "lost") ELSE Answered(t, uploads[t].id)
  /\ OffPlatform /\ UNCHANGED shared

StorageStep ==
  /\ \/ Storage!Answered \/ Storage!Rejected
     \/ \E t \in Threads : Storage!ChunkCall(t) /\ (Uses("losses") \/ ~ uploads'[t].failed)
  /\ OffPlatform /\ UNCHANGED <<scriptVars, shared>>

-----------------------------------------------------------------------------
SessionsAge == Uses("time") /\ TimePasses /\ OnPlatform("time")
               /\ UNCHANGED <<storageVars, scriptVars, shared>>

\* The steps of the script and of the calls it made.
Progress ==
  \/ NextStage
  \/ \E t \in Threads :
       \/ AnsweredCall(t) \/ RefusedCall(t) \/ LostCall(t)
       \/ StartLogin(t) \/ FinishLogin(t)
       \/ StartSigning(t) \/ RefusedSigning(t) \/ FinishSigning(t)
       \/ StartUpload(t) \/ FileCreated(t) \/ UploadReturns(t)
  \/ StorageStep

DemoNext == Progress \/ SignedElsewhere \/ FinishSigning(App) \/ SessionsAge

\* The event loop runs what is ready, and every call is answered, if only with an error.
DemoSpec == DemoInit /\ [][DemoNext]_demoVars /\ WF_demoVars(Progress)

-----------------------------------------------------------------------------
\* Properties.

\* Every variable of the script has values of its kind, and what it started in the
\* storage canister keeps the type invariant of Storage.
DemoTypeOK ==
  /\ stage \in 1 .. Len(Script!Main) /\ thrown \subseteq {"lost", "refused"}
  /\ siwe \in [Users -> {"none", "prepared", "logged in"}]
  /\ DOMAIN record = DOMAIN Record!NewRecord /\ Record!GetShipmentPhase(record) \in Record!Phases
  /\ Storage!TypeOK

\* The script comes to an end: neither its threads nor the calls they wait for hang,
\* whatever gets lost.
DemoEnds == <>[]Ended

\* Nothing has disturbed the script.
Undisturbed == "lost" \notin thrown /\ now = 0 /\ contested = {} /\ standards # <<>>

\* With populate.sh run before, the script gets through: in every order in which its
\* concurrent calls can be handled, no call is refused and the shipment gets to phase 3,
\* ready for the funds, which the script does not lock.
DemoCompletes ==
  <>(\/ ~ Undisturbed
     \/ /\ Ended /\ thrown = {} /\ Record!GetShipmentPhase(record) = 3
        /\ Record!PhaseDocumentsApproved(record, 3))

\* Every step of the shipment is taken in its phase, also when others use the platform
\* at the same time, as long as no two last signatures took the same shipment id.
PhasesAsPlanned == contested = {} =>
  \A i \in 1 .. 3 : <<"phase", i>> \in DOMAIN results =>
    results[<<"phase", i>>] = <<"PHASE_1", "PHASE_2", "PHASE_3">>[i]

\* A document of the record was stored before under the URL the record gives, and its
\* metadata under the URL that readers make of that one, each with the content the script
\* uploaded, unless two of the script's own uploads got the same file id, when the second
\* replaces the first and nobody notices.  And no other content has the document's URL.
RecordedDocumentsStored == \A i \in DOMAIN record.documents :
  LET type == record.documents[i].type
      url == record.documents[i].docs[1].externalUrl
      Stored(upload, name, content) ==
        /\ upload \in DOMAIN results
        /\ results[upload] \notin shared =>
             /\ results[upload] \in DOMAIN files
             /\ files[results[upload]].name = name /\ files[results[upload]].declared = content
  IN  /\ Stored(<<"file", type>>, url, <<"pdf">>)
      /\ Stored(<<"metadata", type>>, Script!MetadataUrl(url), <<type>>)
      /\ \A id \in DOMAIN files : files[id].name = url => files[id].declared = <<"pdf">>

\* What both sides agreed on stays: a document, the sample or the details, once
\* approved, are approved for good, unless another shipment took the same id.
AgreementsStand ==
  [][contested = {} =>
       /\ \A verdict \in {"sample", "details"} :
            record[verdict] = "APPROVED" => record'[verdict] = "APPROVED"
       /\ \A i \in DOMAIN record.documents : record.documents[i].docs[1].status = "APPROVED"
            => i \in DOMAIN record'.documents /\ record'.documents[i] = record.documents[i]]_demoVars
================================================================================

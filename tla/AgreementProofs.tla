----------------------------- MODULE AgreementProofs -----------------------------
(***************************************************************************)
(* Theorems of Demo about the shipment of the script: that what both sides *)
(* agreed on stands, and that every step is taken in its phase.  As long   *)
(* as no two calls of signOrder took the same id, only the script's own    *)
(* calls reach the record of its shipment; the invariants say what those   *)
(* that were answered have left there.                                     *)
(***************************************************************************)
EXTENDS DemoProofs

-----------------------------------------------------------------------------
\* What both sides agreed on.

\* A handler that answers at once leaves the shipments alone, and the ids that are taken.
LEMMA HandledShips ==
  ASSUME NEW c, Handled(c) PROVE shipments' = shipments /\ contested' = contested
<1>1. CASE IdentityCall(c) \/ ShipmentCall(c)
  BY <1>1 DEF IdentityCall, ShipmentCall, vars, orderVars
<1>2. CASE GetCategoriesCall(c) \/ GetOrderCall(c)
  BY <1>2, Zenon DEF GetCategoriesCall, GetOrderCall, OffPlatform, vars, orderVars
<1>3. CASE CreateMaterialCall(c) \/ CreateAssetOperationCall(c) \/ CreateOfferCall(c)
           \/ CreateOrganizationCall(c) \/ CreateBusinessRelationCall(c)
           \/ RegisterCompanyCertificateCall(c)
  BY <1>3, Zenon DEF CreateMaterialCall, CreateAssetOperationCall, CreateOfferCall, CreateOrganizationCall,
     CreateBusinessRelationCall, RegisterCompanyCertificateCall, OnPlatform, OnlyIn, orderVars
<1>4. CASE CreateOrderCall(c)
  BY <1>4, Zenon DEF CreateOrderCall, CreateOrder
<1> QED BY <1>1, <1>2, <1>3, <1>4, Zenon DEF Handled

\* The steps that change the shipments, or what waits for one.
ShipmentsAlone == shipments' = shipments /\ signing' = signing /\ contested' = contested

\* Every other step leaves all three alone.
LEMMA SigningSteps ==
  ASSUME [DemoNext]_demoVars
  PROVE  \/ ShipmentsAlone
         \/ \E u, id, slot : SignOrder(u, id, slot)
         \/ \E t \in Threads \cup {App} : FinishSigning(t)
<1>1. ASSUME NextStage PROVE ShipmentsAlone
  BY <1>1, Zenon DEF NextStage, vars, orderVars, ShipmentsAlone
<1>2. ASSUME NEW t \in Threads, AnsweredCall(t) PROVE ShipmentsAlone
  BY <1>2, HandledSigns, HandledShips, Zenon DEF AnsweredCall, ShipmentsAlone
<1>3. ASSUME NEW t \in Threads, RefusedCall(t) \/ LostCall(t) \/ RefusedSigning(t) PROVE ShipmentsAlone
  BY <1>3, RefusedIs, Zenon DEF LostCall, RefusedSigning, OffPlatform, vars, orderVars, ShipmentsAlone
<1>4. ASSUME NEW t \in Threads, StartLogin(t) \/ FinishLogin(t) PROVE ShipmentsAlone
  BY <1>4, Zenon DEF StartLogin, FinishLogin, OnPlatform, OnlyIn, orderVars, ShipmentsAlone
<1>5. ASSUME NEW t \in Threads, StartSigning(t) PROVE \E u, id, slot : SignOrder(u, id, slot)
  BY <1>5, Zenon DEF StartSigning
<1>6. ASSUME SignedElsewhere PROVE \E u, id, slot : SignOrder(u, id, slot)
  BY <1>6, Zenon DEF SignedElsewhere
<1>7. ASSUME SessionsAge PROVE ShipmentsAlone
  BY <1>7, Zenon DEF SessionsAge, OnPlatform, OnlyIn, orderVars, ShipmentsAlone
<1>8. ASSUME NEW t \in Threads, StartUpload(t) \/ FileCreated(t) \/ UploadReturns(t) PROVE ShipmentsAlone
  BY <1>8, Zenon DEF StartUpload, FileCreated, UploadReturns, OffPlatform, vars, orderVars, ShipmentsAlone
<1>9. ASSUME StorageStep PROVE ShipmentsAlone
  BY <1>9, Zenon DEF StorageStep, OffPlatform, vars, orderVars, ShipmentsAlone
<1>10. ASSUME UNCHANGED demoVars PROVE ShipmentsAlone
  BY <1>10 DEF demoVars, vars, orderVars, ShipmentsAlone
<1>11. (\A t \in Threads : t \in Threads \cup {App}) /\ App \in Threads \cup {App}
  OBVIOUS
<1> HIDE DEF App
<1> QED BY <1>1, <1>2, <1>3, <1>4, <1>5, <1>6, <1>7, <1>8, <1>9, <1>10, <1>11, Zenon DEF DemoNext, Progress

\* Until two calls of signOrder take the same shipment id, at most one waits, and its id
\* is free.
SigningApart == contested = {} =>
  /\ IsFiniteSet(DOMAIN shipments) /\ Gapless(shipments)
  /\ \A d \in DOMAIN signing : signing[d].shipment = NextId(shipments)
  /\ \A d, e \in DOMAIN signing : d = e

\* The last signature of an order, when another call may wait.
LEMMA SigningStays ==
  ASSUME SigningApart, [DemoNext]_demoVars
  PROVE  SigningApart' /\ contested \subseteq contested'
<1>1. CASE ShipmentsAlone
  BY <1>1 DEF ShipmentsAlone, SigningApart, Gapless, NextId
<1>2. ASSUME NEW u, NEW id, NEW slot, SignOrder(u, id, slot) PROVE SigningApart' /\ contested \subseteq contested'
  <2>1. CASE UNCHANGED <<shipments, signing, overlapped, contested>>
    BY <1>1, <2>1 DEF ShipmentsAlone
  <2>2. ASSUME NEW order, CreateShipment(slot, id, order) PROVE SigningApart' /\ contested \subseteq contested'
    <3>1. PICK n : n = NextId(shipments)
      OBVIOUS
    <3>2. PICK call : call = [id |-> id, order |-> order, shipment |-> n]
      OBVIOUS
    <3>3. /\ signing' = Put(signing, slot, call) /\ call.shipment = n /\ shipments' = shipments
          /\ contested' = contested \cup {i \in {n} : \E d \in DOMAIN signing : signing[d].shipment = i}
      BY <2>2, <3>1, <3>2 DEF CreateShipment
    <3>4. ASSUME contested' = {} PROVE contested = {} /\ DOMAIN signing = {}
      <4>1. contested = {} /\ ~ \E d \in DOMAIN signing : signing[d].shipment = n
        BY <3>3, <3>4
      <4> QED BY <3>1, <4>1 DEF SigningApart
    <3>5. DOMAIN signing' = DOMAIN signing \cup {slot} /\ signing'[slot] = call
      BY <3>3 DEF Put
    <3>6. NextId(shipments)' = n
      BY <3>1, <3>3 DEF NextId
    <3> QED BY <3>3, <3>4, <3>5, <3>6 DEF SigningApart, Gapless
  <2> QED BY <1>2, <2>1, <2>2, Zenon DEF SignOrder
<1>3. ASSUME NEW t, FinishSigning(t) PROVE SigningApart' /\ contested \subseteq contested'
  <2>1. PICK sent : t \in DOMAIN signing /\ RegistrationAnswered(t, sent)
    BY <1>3, Zenon DEF FinishSigning
  <2>2. signing' = Without(signing, t) /\ contested' = contested
    BY <2>1, Zenon DEF RegistrationAnswered
  <2> SUFFICES ASSUME contested = {} PROVE SigningApart'
    BY <2>2 DEF SigningApart
  <2>3. DOMAIN signing' = {}
    BY <2>1, <2>2 DEF SigningApart, Without
  <2>4. PICK n \in Nat : n = Cardinality(DOMAIN shipments) /\ DOMAIN shipments = 0 .. n - 1
    BY FS_CardinalityType DEF SigningApart, Gapless
  <2>5. \/ shipments' = shipments
        \/ \E entry : shipments' = Put(shipments, n, entry)
    <3>1. signing[t].shipment = n
      BY <2>1, <2>4 DEF SigningApart, NextId
    <3> QED BY <2>1, <3>1, Zenon DEF RegistrationAnswered
  <2>6. ASSUME NEW entry, shipments' = Put(shipments, n, entry)
        PROVE  IsFiniteSet(DOMAIN shipments') /\ Gapless(shipments)'
    <3>1. IsFiniteSet(DOMAIN shipments') /\ DOMAIN shipments' = DOMAIN shipments \cup {n}
      BY <2>6, PutIsFinite DEF SigningApart
    <3>2. n \notin DOMAIN shipments /\ (0 .. (n - 1)) \cup {n} = 0 .. ((n + 1) - 1)
      <4>1. n \notin 0 .. (n - 1)
        OBVIOUS
      <4>2. \A i : i \in (0 .. (n - 1)) \cup {n} <=> i \in 0 .. ((n + 1) - 1)
        OBVIOUS
      <4> QED BY <2>4, <4>1, <4>2
    <3>3. Cardinality(DOMAIN shipments') = n + 1
      BY <2>4, <3>1, <3>2, FS_AddElement DEF SigningApart
    <3>4. DOMAIN shipments' = 0 .. ((n + 1) - 1)
      BY <2>4, <3>1, <3>2, Zenon
    <3> QED BY <3>1, <3>3, <3>4 DEF Gapless
  <2>7. shipments' = shipments => IsFiniteSet(DOMAIN shipments') /\ Gapless(shipments)'
    BY DEF SigningApart, Gapless
  <2> QED BY <2>3, <2>5, <2>6, <2>7 DEF SigningApart
<1> QED BY <1>1, <1>2, <1>3, SigningSteps, Zenon

\* No shipment is removed.
LEMMA ShipmentsStay ==
  ASSUME [DemoNext]_demoVars
  PROVE  DOMAIN shipments \subseteq DOMAIN shipments'
<1>1. ASSUME NEW t, FinishSigning(t) PROVE DOMAIN shipments \subseteq DOMAIN shipments'
  <2>1. PICK sent : RegistrationAnswered(t, sent)
    BY <1>1, Zenon DEF FinishSigning
  <2>2. shipments' = shipments \/ \E id, entry : shipments' = Put(shipments, id, entry)
    BY <2>1, Zenon DEF RegistrationAnswered
  <2> QED BY <2>2 DEF Put
<1>2. ASSUME NEW u, NEW id, NEW slot, SignOrder(u, id, slot) PROVE shipments' = shipments
  BY <1>2, Zenon DEF SignOrder, CreateShipment
<1> QED BY <1>1, <1>2, SigningSteps, Zenon DEF ShipmentsAlone

\* What the canister stores for the script's shipment before it has any: up to the first
\* look at the phase nothing is done with the record.
FreshRecord == stage <= 5 => record = Record!NewRecord

\* The script's shipment is one.
ShipmentKnown == <<"shipment", 0>> \in DOMAIN results => results[<<"shipment", 0>>] \in DOMAIN shipments

\* The calls that are answered by a step of their own.
WaitingOps == {"authenticate", "signOrder", "create_file"}

\* A step of the script by which the shipment does not change.
Quiet ==
  \/ UNCHANGED scriptVars
  \/ NextStage
  \/ \E t \in Threads : todo[t] # <<>> /\ \E why \in {"lost", "refused"} : Thrown(t, why)
  \/ \E t \in Threads :
       todo[t] # <<>> /\ NextCall(t).op \in WaitingOps /\ \E value : Answered(t, value)

\* A call that waits for its signature is made in the fourth stage.
LEMMA SignedInStageFour ==
  ASSUME NEW t, Planned(t), NextCall(t).op = "signOrder"
  PROVE  stage = 4
<1>1. PICK c : c = NextCall(t)
  OBVIOUS
<1>2. ~ Early(c)
  BY <1>1 DEF Early, EarlyOps
<1>3. c \notin {Script!GetOrder(Exporter), Script!EvaluateSample(Importer),
                Script!SetShipmentDetails(Exporter), Script!ApproveShipmentDetails(Importer)}
  BY <1>1 DEF Script!GetOrder, Script!EvaluateSample,
     Script!SetShipmentDetails, Script!ApproveShipmentDetails, Script!Do, Script!Call
<1>4. PICK type : type = TypeOf(stage, t)
  OBVIOUS
<1>5. c # LookAtPhase(PhaseLooked(stage)) /\ c # ApproveDocumentOf(type) /\ c # AddDocumentOf(type)
  BY <1>1 DEF LookAtPhase, ApproveDocumentOf, AddDocumentOf, Script!ApproveDocument, Script!Call
<1>6. c # CreateFileOf(type) /\ c # CreateMetadataOf(type)
  BY <1>1 DEF CreateFileOf, CreateMetadataOf, Script!Create, Script!Call
<1> QED BY <1>1, <1>2, <1>3, <1>4, <1>5, <1>6, Zenon DEF Planned

\* Every step is a quiet one, or one by which a call is handled; only another shipment
\* that takes the same id has the record replaced.
LEMMA Turns ==
  ASSUME DemoKept, FreshRecord, SigningApart, ShipmentKnown, [DemoNext]_demoVars
  PROVE  \/ /\ Quiet
            /\ record' = record \/ (record' = Record!NewRecord /\ contested # {})
         \/ \E t \in Threads :
              AnsweredCall(t) /\ (Answered(t, ResultOf(NextCall(t))) \/ Thrown(t, "lost"))
<1> DEFINE Goal ==
         \/ /\ Quiet
            /\ record' = record \/ (record' = Record!NewRecord /\ contested # {})
         \/ \E t \in Threads :
              AnsweredCall(t) /\ (Answered(t, ResultOf(NextCall(t))) \/ Thrown(t, "lost"))
<1>0. ScriptKept /\ CallsKept /\ StorageKept
  BY Zenon DEF DemoKept
<1>1. ASSUME NextStage PROVE Goal
  BY <1>1, Zenon DEF NextStage, Quiet
<1>2. ASSUME NEW t \in Threads, AnsweredCall(t) PROVE Goal
  BY <1>2, Zenon DEF AnsweredCall, Lost
<1>3. ASSUME NEW t \in Threads, RefusedCall(t) \/ LostCall(t) \/ RefusedSigning(t) PROVE Goal
  <2>1. record' = record /\ todo[t] # <<>>
    BY <1>3, RefusedIs, Zenon DEF LostCall, RefusedSigning, OffPlatform, Atomic, Calls
  <2>2. Thrown(t, "lost") \/ Thrown(t, "refused")
    BY <1>3, RefusedIs, Zenon DEF LostCall, RefusedSigning, Lost
  <2>3. \E why \in {"lost", "refused"} : Thrown(t, why)
    BY <2>2
  <2> QED BY <2>1, <2>3, Zenon DEF Quiet
<1>4. ASSUME NEW t \in Threads, StartLogin(t) \/ StartSigning(t) PROVE Goal
  BY <1>4, Zenon DEF StartLogin, StartSigning, OnPlatform, Quiet
<1>5. ASSUME NEW t \in Threads, FinishLogin(t) PROVE Goal
  <2>1. record' = record /\ todo[t] # <<>> /\ NextCall(t).op = "authenticate"
    BY <1>5, Zenon DEF FinishLogin, OnPlatform
  <2>2. (\E value : Answered(t, value)) \/ Thrown(t, "lost")
    BY <1>5, Zenon DEF FinishLogin, Lost
  <2>3. NextCall(t).op \in WaitingOps /\ "lost" \in {"lost", "refused"}
    BY <2>1 DEF WaitingOps
  <2> QED BY <2>1, <2>2, <2>3, Zenon DEF Quiet
<1>6. ASSUME SignedElsewhere \/ SessionsAge \/ StorageStep PROVE Goal
  BY <1>6, Zenon DEF SignedElsewhere, SessionsAge, StorageStep, OnPlatform, OffPlatform, Quiet
<1>7. ASSUME NEW t \in Threads, FinishSigning(t) PROVE Goal
  <2>1. t \in DOMAIN signing /\ t # App
    BY <1>7, ScriptAssumption, Zenon DEF FinishSigning
  <2>2. todo[t] # <<>> /\ NextCall(t).op = "signOrder"
    BY <1>0, <2>1, Zenon DEF CallsKept
  <2>3. stage = 4
    BY <1>0, <2>2, CallIsPlanned, SignedInStageFour, Zenon
  <2>4. record = Record!NewRecord
    BY <2>3 DEF FreshRecord
  <2>5. record' = record
    BY <1>7, <2>4, Zenon DEF FinishSigning
  <2>6. (\E value : Answered(t, value)) \/ Thrown(t, "lost")
    BY <1>7, <2>1, Zenon DEF FinishSigning, Lost
  <2>7. NextCall(t).op \in WaitingOps /\ "lost" \in {"lost", "refused"}
    BY <2>2 DEF WaitingOps
  <2> QED BY <2>2, <2>5, <2>6, <2>7, Zenon DEF Quiet
<1>8. ASSUME FinishSigning(App) PROVE Goal
  <2>1. UNCHANGED scriptVars /\ App \in DOMAIN signing
    BY <1>8, Zenon DEF FinishSigning
  <2>2. record' = record \/ (signing[App].shipment \in ScriptsShipment /\ record' = Record!NewRecord)
    BY <1>8, Zenon DEF FinishSigning
  <2>3. ASSUME signing[App].shipment \in ScriptsShipment, contested = {} PROVE FALSE
    <3>1. CASE \E t \in DOMAIN signing \ {App} : TRUE
      BY <2>1, <2>3, <3>1 DEF SigningApart
    <3>2. CASE <<"shipment", 0>> \in DOMAIN results /\ signing[App].shipment = results[<<"shipment", 0>>]
      <4>1. NextId(shipments) \in DOMAIN shipments
        BY <2>1, <2>3, <3>2 DEF SigningApart, ShipmentKnown
      <4> QED BY <2>3, <4>1, LengthIsFree DEF SigningApart
    <3> QED BY <2>3, <3>1, <3>2 DEF ScriptsShipment
  <2> QED BY <2>1, <2>2, <2>3, Zenon DEF Quiet
<1>9. ASSUME NEW t \in Threads, StartUpload(t) PROVE Goal
  BY <1>9, Zenon DEF StartUpload, OffPlatform, Quiet
<1>10. ASSUME NEW t \in Threads, FileCreated(t) \/ UploadReturns(t) PROVE Goal
  <2>1. record' = record
    BY <1>10, Zenon DEF FileCreated, UploadReturns, OffPlatform
  <2>2. UNCHANGED scriptVars \/ (\E value : Answered(t, value)) \/ Thrown(t, "lost")
    BY <1>10, Zenon DEF FileCreated, UploadReturns
  <2>3. CASE UNCHANGED scriptVars
    BY <2>1, <2>3, Zenon DEF Quiet
  <2>4. CASE StartUpload(t)
    BY <1>9, <2>4
  <2>5. CASE ~ StartUpload(t)
    <3>1. ~ Idle(t)
      BY <1>0, <1>10, <2>5, UploadCalls, Zenon
    <3>2. todo[t] # <<>> /\ NextCall(t).op = "create_file"
      BY <1>0, <3>1, Zenon DEF CallsKept
    <3>3. NextCall(t).op \in WaitingOps /\ "lost" \in {"lost", "refused"}
      BY <3>2 DEF WaitingOps
    <3> QED BY <2>1, <2>2, <3>2, <3>3, Zenon DEF Quiet
  <2> QED BY <2>4, <2>5
<1>11. ASSUME UNCHANGED demoVars PROVE Goal
  <2>1. UNCHANGED scriptVars /\ record' = record
    BY <1>11, Zenon DEF demoVars
  <2> QED BY <2>1, Zenon DEF Quiet
<1> HIDE DEF Goal
<1>12. Goal
  BY <1>1, <1>2, <1>3, <1>4, <1>5, <1>6, <1>7, <1>8, <1>9, <1>10, <1>11, Zenon DEF DemoNext, Progress
<1> QED BY <1>12, Zenon DEF Goal

\* The calls about the shipment.
ShipmentOps ==
  {"getShipmentPhase", "setShipmentDetails", "evaluateSample", "evaluateShipmentDetails",
   "addDocument", "evaluateDocument"}

\* What handles a call is told by its operation.
LEMMA HandledBy ==
  ASSUME NEW c, Handled(c)
  PROVE  /\ c.op = "getOrder" => GetOrderCall(c)
         /\ c.op \in ShipmentOps => ShipmentCall(c)
         /\ c.op \notin ShipmentOps => record' = record
<1>1. CASE IdentityCall(c)
  <2>1. c.op \in {"siwe_prepare_login", "siwe_login", "siwe_get_delegation"} /\ record' = record
    BY <1>1 DEF IdentityCall, CallPrepareLogin, CallLogin, CallGetDelegation
  <2> QED BY <2>1 DEF ShipmentOps
<1>2. CASE GetCategoriesCall(c) \/ GetOrderCall(c)
  <2>1. c.op \in {"getProductCategories", "getOrder"} /\ record' = record
    BY <1>2 DEF GetCategoriesCall, GetOrderCall, OffPlatform
  <2>2. c.op = "getOrder" => GetOrderCall(c)
    BY <1>2 DEF GetCategoriesCall
  <2> QED BY <2>1, <2>2 DEF ShipmentOps
<1>3. CASE CreateMaterialCall(c) \/ CreateAssetOperationCall(c) \/ CreateOfferCall(c)
           \/ CreateOrganizationCall(c) \/ CreateBusinessRelationCall(c)
           \/ RegisterCompanyCertificateCall(c) \/ CreateOrderCall(c)
  <2>1. record' = record
    BY <1>3, Zenon DEF CreateMaterialCall, CreateAssetOperationCall, CreateOfferCall, CreateOrganizationCall,
       CreateBusinessRelationCall, RegisterCompanyCertificateCall, CreateOrderCall, OnPlatform
  <2>2. \/ c.op = "createMaterial" \/ c.op = "createAssetOperation" \/ c.op = "createOffer"
        \/ c.op = "createOrganization" \/ c.op = "createBusinessRelation"
        \/ c.op = "registerCompanyCertificate" \/ c.op = "createOrder"
    BY <1>3, Zenon DEF CreateMaterialCall, CreateAssetOperationCall, CreateOfferCall, CreateOrganizationCall,
       CreateBusinessRelationCall, RegisterCompanyCertificateCall, CreateOrderCall
  <2> QED BY <2>1, <2>2 DEF ShipmentOps
<1>4. CASE ShipmentCall(c)
  <2>1. c.op \in ShipmentOps
    <3>1. \/ c.op = "getShipmentPhase" \/ c.op = "setShipmentDetails" \/ c.op = "evaluateSample"
          \/ c.op = "evaluateShipmentDetails" \/ c.op = "addDocument" \/ c.op = "evaluateDocument"
      BY <1>4, Zenon DEF ShipmentCall, GetShipmentPhaseCall, SetShipmentDetailsCall, EvaluateSampleCall,
         EvaluateDetailsCall, AddDocumentCall, EvaluateDocumentCall
    <3> QED BY <3>1 DEF ShipmentOps
  <2>2. c.op # "getOrder"
    BY <2>1 DEF ShipmentOps
  <2> QED BY <1>4, <2>1, <2>2
<1> QED BY <1>1, <1>2, <1>3, <1>4, Zenon DEF Handled

\* When the calls about the order and the shipment are made.
LEMMA WhenPlanned ==
  ASSUME NEW t, Planned(t)
  PROVE  LET c == NextCall(t) IN
         /\ c.op = "getOrder" => stage = 4 /\ t = 1 /\ Left(t) = 1
         /\ c.op = "getShipmentPhase" =>
              stage \in PhaseStages /\ t = 1 /\ Left(t) = 1 /\ c = LookAtPhase(PhaseLooked(stage))
         /\ c.op = "evaluateSample" => stage = 7 /\ t = 1 /\ Left(t) = 1
         /\ c.op = "setShipmentDetails" => stage = 10 /\ t = 1 /\ Left(t) = 2
         /\ c.op = "evaluateShipmentDetails" => stage = 10 /\ t = 1 /\ Left(t) = 1
         /\ c.op = "addDocument" => /\ stage \in DocumentStages /\ t \in Uploaders(stage) /\ Left(t) = 2
                                    /\ c = AddDocumentOf(TypeOf(stage, t))
         /\ c.op = "evaluateDocument" => /\ stage \in DocumentStages /\ t \in Uploaders(stage) /\ Left(t) = 1
                                         /\ c = ApproveDocumentOf(TypeOf(stage, t))
         /\ c.as = <<"shipment", 0>> => c.op = "getOrder"
         /\ (\E i : c.as = <<"phase", i>>) => c.op = "getShipmentPhase"
         /\ (\E type : c.as = <<"document", type>>) => c.op = "addDocument"
<1> DEFINE c == NextCall(t)
           type == TypeOf(stage, t)
<1>1. ASSUME stage \in 1 .. 3, Early(c)
      PROVE  /\ c.op \notin ShipmentOps \cup {"getOrder"} /\ c.as # <<"shipment", 0>>
             /\ ~ \E i : c.as = <<"phase", i>> \/ c.as = <<"document", i>>
  BY <1>1 DEF Early, EarlyOps, ShipmentOps
<1>2. ASSUME c = Script!SignOrder(Exporter)
      PROVE  c.op = "signOrder" /\ c.as = <<"dropped", 0>>
  BY <1>2 DEF Script!SignOrder, Script!Do, Script!Call, Script!Dropped
<1>3. ASSUME c = Script!GetOrder(Exporter)
      PROVE  c.op = "getOrder" /\ c.as = <<"shipment", 0>>
  BY <1>3 DEF Script!GetOrder, Script!Do, Script!Call, Script!Dropped
<1>4. ASSUME c = LookAtPhase(PhaseLooked(stage))
      PROVE  c.op = "getShipmentPhase" /\ c.as = <<"phase", PhaseLooked(stage)>>
  BY <1>4 DEF LookAtPhase, Script!Call
<1>5. ASSUME c = Script!EvaluateSample(Importer)
      PROVE  c.op = "evaluateSample" /\ c.as = <<"dropped", 0>>
  BY <1>5 DEF Script!EvaluateSample, Script!Do, Script!Call, Script!Dropped
<1>6. ASSUME c = Script!SetShipmentDetails(Exporter)
      PROVE  c.op = "setShipmentDetails" /\ c.as = <<"dropped", 0>>
  BY <1>6 DEF Script!SetShipmentDetails, Script!Do, Script!Call, Script!Dropped
<1>7. ASSUME c = Script!ApproveShipmentDetails(Importer)
      PROVE  c.op = "evaluateShipmentDetails" /\ c.as = <<"dropped", 0>>
  BY <1>7 DEF Script!ApproveShipmentDetails, Script!Do, Script!Call, Script!Dropped
<1> HIDE DEF type
<1>8. ASSUME c = CreateFileOf(type)
      PROVE  c.op = "create_file" /\ c.as = <<"file", type>>
  BY <1>8 DEF CreateFileOf, Script!Create, Script!Call
<1>9. ASSUME c = CreateMetadataOf(type)
      PROVE  c.op = "create_file" /\ c.as = <<"metadata", type>>
  BY <1>9 DEF CreateMetadataOf, Script!Create, Script!Call
<1>10. ASSUME c = AddDocumentOf(type)
       PROVE  c.op = "addDocument" /\ c.as = <<"document", type>>
  BY <1>10 DEF AddDocumentOf, Script!Call
<1>11. ASSUME c = ApproveDocumentOf(type)
       PROVE  c.op = "evaluateDocument" /\ c.as = <<"dropped", 0>>
  BY <1>11 DEF ApproveDocumentOf, Script!ApproveDocument, Script!Call, Script!Dropped
<1> DEFINE Goal == 
         /\ c.op = "getOrder" => stage = 4 /\ t = 1 /\ Left(t) = 1
         /\ c.op = "getShipmentPhase" =>
              stage \in PhaseStages /\ t = 1 /\ Left(t) = 1 /\ c = LookAtPhase(PhaseLooked(stage))
         /\ c.op = "evaluateSample" => stage = 7 /\ t = 1 /\ Left(t) = 1
         /\ c.op = "setShipmentDetails" => stage = 10 /\ t = 1 /\ Left(t) = 2
         /\ c.op = "evaluateShipmentDetails" => stage = 10 /\ t = 1 /\ Left(t) = 1
         /\ c.op = "addDocument" => /\ stage \in DocumentStages /\ t \in Uploaders(stage) /\ Left(t) = 2
                                    /\ c = AddDocumentOf(type)
         /\ c.op = "evaluateDocument" => /\ stage \in DocumentStages /\ t \in Uploaders(stage) /\ Left(t) = 1
                                         /\ c = ApproveDocumentOf(type)
         /\ c.as = <<"shipment", 0>> => c.op = "getOrder"
         /\ (\E i : c.as = <<"phase", i>>) => c.op = "getShipmentPhase"
         /\ (\E i : c.as = <<"document", i>>) => c.op = "addDocument"
<1> HIDE DEF c
<1>12. ASSUME stage \in 1 .. 3, Early(c) PROVE Goal
  BY <1>1, <1>12 DEF ShipmentOps
<1>13. ASSUME stage = 4, t = 1, Left(t) = 2, c = Script!SignOrder(Exporter) PROVE Goal
  BY <1>2, <1>13
<1>14. ASSUME stage = 4, t = 1, Left(t) = 1, c = Script!GetOrder(Exporter) PROVE Goal
  BY <1>3, <1>14
<1>15. ASSUME stage \in PhaseStages, t = 1, Left(t) = 1, c = LookAtPhase(PhaseLooked(stage)) PROVE Goal
  BY <1>4, <1>15
<1>16. ASSUME stage = 7, t = 1, Left(t) = 1, c = Script!EvaluateSample(Importer) PROVE Goal
  BY <1>5, <1>16
<1>17. ASSUME stage = 10, t = 1, Left(t) = 2, c = Script!SetShipmentDetails(Exporter) PROVE Goal
  BY <1>6, <1>17
<1>18. ASSUME stage = 10, t = 1, Left(t) = 1, c = Script!ApproveShipmentDetails(Importer) PROVE Goal
  BY <1>7, <1>18
<1>19. ASSUME stage \in DocumentStages, t \in Uploaders(stage),
              \/ Left(t) = 4 /\ c = CreateFileOf(type)
              \/ Left(t) = 3 /\ c = CreateMetadataOf(type)
              \/ Left(t) = 2 /\ c = AddDocumentOf(type)
              \/ Left(t) = 1 /\ c = ApproveDocumentOf(type)
       PROVE  Goal
  BY <1>8, <1>9, <1>10, <1>11, <1>19
<1> HIDE DEF Goal
<1>20. Goal
  BY <1>12, <1>13, <1>14, <1>15, <1>16, <1>17, <1>18, <1>19, Zenon DEF Planned, c, type
<1> QED BY <1>20, Zenon DEF Goal, c, type

\* The calls the script makes at some of its places.
LEMMA PlannedAt ==
  ASSUME NEW t, Planned(t)
  PROVE  LET c == NextCall(t) IN
         /\ stage = 7 => c.op = "evaluateSample"
         /\ stage = 10 /\ Left(t) = 1 => c.op = "evaluateShipmentDetails"
         /\ stage \in DocumentStages /\ Left(t) = 2 => c.op = "addDocument"
         /\ stage \in DocumentStages /\ Left(t) = 1 => c.op = "evaluateDocument"
<1>1. /\ Script!EvaluateSample(Importer).op = "evaluateSample"
      /\ Script!ApproveShipmentDetails(Importer).op = "evaluateShipmentDetails"
      /\ \A type : AddDocumentOf(type).op = "addDocument" /\ ApproveDocumentOf(type).op = "evaluateDocument"
  BY DEF Script!EvaluateSample, Script!ApproveShipmentDetails, AddDocumentOf, ApproveDocumentOf,
     Script!ApproveDocument, Script!Do, Script!Call
<1>2. stage = 7 => NextCall(t).op = "evaluateSample"
  BY <1>1 DEF Planned, PhaseStages, DocumentStages
<1>3. stage = 10 /\ Left(t) = 1 => NextCall(t).op = "evaluateShipmentDetails"
  BY <1>1 DEF Planned, PhaseStages, DocumentStages
<1>4. ASSUME stage \in DocumentStages
      PROVE  /\ Left(t) = 2 => NextCall(t).op = "addDocument"
             /\ Left(t) = 1 => NextCall(t).op = "evaluateDocument"
  <2>1. PICK type : type = TypeOf(stage, t)
    OBVIOUS
  <2>2. \/ Left(t) = 4 \/ Left(t) = 3
        \/ Left(t) = 2 /\ NextCall(t) = AddDocumentOf(type)
        \/ Left(t) = 1 /\ NextCall(t) = ApproveDocumentOf(type)
    BY <1>4, <2>1, PlannedDocument, Zenon
  <2> QED BY <1>1, <2>2
<1> QED BY <1>2, <1>3, <1>4

\* A document of the script has the place of its type.
LEMMA OwnTypes ==
  ASSUME NEW s \in DocumentStages, NEW t \in Uploaders(s), NEW r \in DocumentStages, NEW d \in Uploaders(r),
         TypeOf(s, t) = TypeOf(r, d)
  PROVE  s = r /\ t = d
BY DEF DocumentStages, Uploaders, TypeOf

\* The place (s, t) of the script where a document is uploaded is behind, if it was added.
Added(s, t) == s < stage \/ (s = stage /\ Left(t) <= 1)

\* What the calls that are made so far leave undone in the record: no funds are locked, the
\* details are not approved early, and every document was added once, under its place.
RecordPlanned ==
  /\ record.funds = "NOT_LOCKED"
  /\ stage <= 9 => record.details = "NOT_EVALUATED"
  /\ \A i \in DOMAIN record.documents : record.documents[i].docs[1].id = i - 1
  /\ \A i \in DOMAIN record.documents :
       \E s \in DocumentStages : \E t \in Uploaders(s) :
         record.documents[i].type = TypeOf(s, t) /\ Added(s, t)

\* An entry for a new document.
NewEntry(r, type, party) == [type |-> type, docs |-> <<NewOne(r, party)>>]

\* What a call that is handled makes of the record.
LEMMA HandledRecord ==
  ASSUME ScriptKept, Orderly(record), RecordPlanned, NEW t \in Threads, AnsweredCall(t)
  PROVE  LET c == NextCall(t) IN
         /\ Planned(t) /\ todo[t] # <<>>
         /\ c.op \notin ShipmentOps \ {"getShipmentPhase"} => record' = record
         /\ c.op = "setShipmentDetails" => record' = [record EXCEPT !.price = 1, !.detailsSet = TRUE]
         /\ c.op = "evaluateSample" => record' = [record EXCEPT !.sample = "APPROVED"]
         /\ c.op = "evaluateShipmentDetails" => record' = [record EXCEPT !.details = "APPROVED"]
         /\ c.op = "addDocument" =>
              \E party, entry : /\ entry = NewEntry(record, TypeOf(stage, t), party)
                                /\ Changed(record, record', Len(record.documents) + 1, entry)
         /\ c.op = "evaluateDocument" =>
              \E place, entry :
                Judged(record, record', results[<<"document", TypeOf(stage, t)>>], place, entry)
<1>1. PICK c : c = NextCall(t)
  OBVIOUS
<1>2. Handled(c) /\ todo[t] # <<>>
  BY <1>1, Zenon DEF AnsweredCall, Atomic
<1>3. Planned(t)
  BY <1>2, CallIsPlanned, Zenon
<1>4. c.op \notin ShipmentOps => record' = record
  BY <1>2, HandledBy, Zenon
<1>5. c.op \in ShipmentOps => ShipmentCall(c)
  BY <1>2, HandledBy, Zenon
<1>6. c.op = "getShipmentPhase" => record' = record
  <2> SUFFICES ASSUME c.op = "getShipmentPhase" PROVE record' = record
    OBVIOUS
  <2>1. ShipmentCall(c)
    BY <1>5 DEF ShipmentOps
  <2> QED BY <2>1, ShipmentCalls
<1>7. c.op \notin ShipmentOps \ {"getShipmentPhase"} => record' = record
  BY <1>4, <1>6
<1>8. /\ c.op = "setShipmentDetails" => record' = [record EXCEPT !.price = 1, !.detailsSet = TRUE]
      /\ c.op = "evaluateSample" => record' = [record EXCEPT !.sample = "APPROVED"]
      /\ c.op = "evaluateShipmentDetails" => record' = [record EXCEPT !.details = "APPROVED"]
  <2>1. ASSUME c.op \in {"setShipmentDetails", "evaluateSample", "evaluateShipmentDetails"} PROVE ShipmentCall(c)
    BY <1>5, <2>1 DEF ShipmentOps
  <2> QED BY <2>1, ShipmentCalls
<1>9. ASSUME c.op = "addDocument"
      PROVE  \E party, entry : /\ entry = NewEntry(record, TypeOf(stage, t), party)
                               /\ Changed(record, record', Len(record.documents) + 1, entry)
  <2>1. ShipmentCall(c)
    BY <1>5, <1>9 DEF ShipmentOps
  <2>2. PICK party : Record!AddDocument(record, record', c.args.type, party, c.args.externalUrl)
    BY <1>9, <2>1, ShipmentCalls
  <2>3. /\ stage \in DocumentStages /\ t \in Uploaders(stage) /\ Left(t) = 2
        /\ c.args.type = TypeOf(stage, t) /\ c.args.externalUrl = Script!DocumentUrl
    BY <1>1, <1>3, <1>9, AddedWhenPlanned, Zenon
  <2>4. PICK type : type = TypeOf(stage, t) /\ type # "GENERIC"
    BY NotGeneric
  <2>5. PICK r, s : r = record /\ s = record'
    OBVIOUS
  <2>6. Orderly(r) /\ Record!AddDocument(r, s, type, party, Script!DocumentUrl)
    BY <2>2, <2>3, <2>4, <2>5, Zenon
  <2>7. PICK place, entry :
           /\ Changed(r, s, place, entry)
           /\ entry = [type |-> type, docs |-> <<NewOne(r, party)>>]
           /\ \/ place = Len(r.documents) + 1 /\ \A i \in 1 .. Len(r.documents) : r.documents[i].type # type
              \/ /\ place \in 1 .. Len(r.documents) /\ r.documents[place].type = type
                 /\ r.documents[place].docs[1].status # "APPROVED"
    BY <2>4, <2>6, AddedSomewhere
  <2>8. ASSUME place \in 1 .. Len(r.documents), r.documents[place].type = type PROVE FALSE
    <3>1. place \in DOMAIN r.documents
      BY <2>6, <2>8 DEF Orderly
    <3>2. PICK s2 \in DocumentStages : \E t2 \in Uploaders(s2) : type = TypeOf(s2, t2) /\ Added(s2, t2)
      BY <2>5, <2>8, <3>1 DEF RecordPlanned
    <3>3. PICK t2 \in Uploaders(s2) : type = TypeOf(s2, t2) /\ Added(s2, t2)
      BY <3>2
    <3>4. s2 = stage /\ t2 = t
      BY <2>3, <2>4, <3>3, OwnTypes, Zenon
    <3> QED BY <2>3, <3>3, <3>4 DEF Added, DocumentStages
  <2>9. place = Len(r.documents) + 1
    BY <2>7, <2>8
  <2>10. entry = NewEntry(r, type, party)
    BY <2>7, Zenon DEF NewEntry, NewOne, Record!NewDocument
  <2> QED BY <2>4, <2>5, <2>7, <2>9, <2>10, Zenon
<1>10. ASSUME c.op = "evaluateDocument"
       PROVE  \E place, entry :
                Judged(record, record', results[<<"document", TypeOf(stage, t)>>], place, entry)
  <2>1. ShipmentCall(c)
    BY <1>5, <1>10 DEF ShipmentOps
  <2>2. /\ \E party : Record!MayEvaluateDocument(record, results[<<"document", c.args.type>>], party)
        /\ record' = Record!WithVerdict(record, results[<<"document", c.args.type>>], "APPROVED")
    BY <1>10, <2>1, ShipmentCalls
  <2>3. c = ApproveDocumentOf(TypeOf(stage, t))
    BY <1>1, <1>3, <1>10, WhenPlanned, Zenon
  <2>4. PICK type : type = TypeOf(stage, t)
    OBVIOUS
  <2>5. c.args.type = type
    BY <2>3, <2>4 DEF ApproveDocumentOf, Script!ApproveDocument, Script!Call
  <2>6. PICK id, party : /\ id = results[<<"document", type>>]
                         /\ Record!MayEvaluateDocument(record, id, party)
                         /\ record' = Record!WithVerdict(record, id, "APPROVED")
    BY <2>2, <2>5, Zenon
  <2>7. PICK r, s : r = record /\ s = record'
    OBVIOUS
  <2>8. Orderly(r) /\ Record!MayEvaluateDocument(r, id, party) /\ s = Record!WithVerdict(r, id, "APPROVED")
    BY <2>6, <2>7, Zenon
  <2>9. PICK place, entry : Judged(r, s, id, place, entry)
    BY <2>8, VerdictIs
  <2> QED BY <2>4, <2>6, <2>7, <2>9, Zenon
<1> QED BY <1>1, <1>2, <1>3, <1>7, <1>8, <1>9, <1>10, Zenon

\* The entries after a change are those before, with the new one at its place.
LEMMA ChangedEach ==
  ASSUME NEW r, Orderly(r), NEW s, NEW place, NEW entry, Changed(r, s, place, entry)
  PROVE  /\ place \in DOMAIN s.documents /\ s.documents[place] = entry
         /\ \A i \in DOMAIN s.documents : i # place =>
              i \in DOMAIN r.documents /\ s.documents[i] = r.documents[i]
         /\ \A i \in DOMAIN r.documents : i \in DOMAIN s.documents
         /\ \A field \in DOMAIN r \ {"documents"} : s[field] = r[field]
<1> DEFINE n == Len(r.documents)
           m == Len(s.documents)
<1>1. n \in Nat /\ DOMAIN r.documents = 1 .. n
  BY DEF Orderly
<1>2. /\ place \in 1 .. n + 1 /\ m = IF place = n + 1 THEN place ELSE n
      /\ s.documents = [i \in 1 .. m |-> IF i = place THEN entry ELSE r.documents[i]]
      /\ \A field \in DOMAIN r \ {"documents"} : s[field] = r[field]
  BY Zenon DEF Changed
<1> HIDE DEF n, m
<1> QED BY <1>1, <1>2

\* The script only goes on: to the next stage, or in one of its threads.
LEMMA Forward ==
  ASSUME DemoKept, [DemoNext]_demoVars
  PROVE  /\ stage \in 1 .. 12 /\ stage' \in 1 .. 12
         /\ stage' = stage \/ (stage' = stage + 1 /\ NextStage)
         /\ stage' = stage => \A t \in Threads : Left(t) \in Nat /\ Left(t)' \in Nat /\ Left(t)' <= Left(t)
         /\ thrown \subseteq thrown'
<1>0. ScriptKept /\ CallsKept /\ StorageKept
  BY Zenon DEF DemoKept
<1>1. ScriptKept /\ ScriptKept'
  BY <1>0, ScriptSteps, Zenon
<1>2. stage \in 1 .. 12 /\ stage' \in 1 .. 12
  BY <1>1 DEF ScriptKept
<1>3. \A t \in Threads : Left(t) \in Nat
  <2> TAKE t \in Threads
  <2>1. Left(t) \in 0 .. Len(Branches(stage)[t]) /\ Len(Branches(stage)[t]) \in Nat
    BY <1>1, <1>2, Branching DEF ScriptKept
  <2> QED BY <2>1
<1>4. CASE UNCHANGED scriptVars
  <2>1. stage' = stage /\ todo' = todo /\ thrown' = thrown
    BY <1>4, Zenon DEF scriptVars
  <2> QED BY <1>2, <1>3, <2>1 DEF Left
<1>5. CASE NextStage
  <2>1. stage' = stage + 1 /\ thrown' = thrown
    BY <1>5, Zenon DEF NextStage
  <2> QED BY <1>2, <1>5, <2>1
<1>6. ASSUME NEW t \in Threads, NEW why \in {"lost", "refused"}, Thrown(t, why)
      PROVE  /\ stage' = stage /\ thrown \subseteq thrown'
             /\ \A d \in Threads : Left(d)' \in Nat /\ Left(d)' <= Left(d)
  <2>1. stage' = stage /\ thrown \subseteq thrown'
    BY <1>6 DEF Thrown
  <2>2. Left(t)' = 0 /\ \A d \in Threads \ {t} : todo'[d] = todo[d]
    BY <1>0, <1>6, ThrownKeepsScript, Zenon
  <2>3. \A d \in Threads \ {t} : Left(d)' = Left(d)
    BY <2>2, Zenon DEF Left
  <2> QED BY <1>3, <2>1, <2>2, <2>3
<1>7. ASSUME NEW t \in Threads, todo[t] # <<>>, NEW value, Answered(t, value)
      PROVE  /\ stage' = stage /\ thrown \subseteq thrown'
             /\ \A d \in Threads : Left(d)' \in Nat /\ Left(d)' <= Left(d)
  <2>1. stage' = stage /\ thrown \subseteq thrown'
    BY <1>7 DEF Answered
  <2>2. Left(t) > 0 /\ Left(t)' = Left(t) - 1 /\ \A d \in Threads \ {t} : todo'[d] = todo[d]
    BY <1>0, <1>7, AnsweredKeepsScript, Zenon
  <2>3. \A d \in Threads \ {t} : Left(d)' = Left(d)
    BY <2>2, Zenon DEF Left
  <2> QED BY <1>3, <2>1, <2>2, <2>3
<1>8. CASE stage' = stage /\ thrown \subseteq thrown' /\ \A d \in Threads : Left(d)' \in Nat /\ Left(d)' <= Left(d)
  BY <1>2, <1>3, <1>8
<1> QED BY <1>0, <1>4, <1>5, <1>6, <1>7, <1>8, ScriptSteps, Zenon

\* What is behind stays behind.
LEMMA AddedStays ==
  ASSUME DemoKept, [DemoNext]_demoVars, NEW s \in DocumentStages, NEW t \in Uploaders(s), Added(s, t)
  PROVE  Added(s, t)'
<1>1. t \in Threads /\ s \in 4 .. 12
  BY Branched DEF DocumentStages
<1>2. /\ stage \in 1 .. 12 /\ stage' \in 1 .. 12
      /\ stage' = stage \/ stage' = stage + 1
      /\ stage' = stage => Left(t) \in Nat /\ Left(t)' \in Nat /\ Left(t)' <= Left(t)
  BY <1>1, Forward, Zenon
<1> QED BY <1>1, <1>2 DEF Added

\* The record keeps to the plan.
LEMMA RecordPlanStays ==
  ASSUME DemoKept, FreshRecord, SigningApart, ShipmentKnown, RecordPlanned, [DemoNext]_demoVars
  PROVE  RecordPlanned'
<1>0. ScriptKept /\ Orderly(record)
  BY Zenon DEF DemoKept
<1> DEFINE Late == stage' <= 9
           Good(r) == /\ r.funds = "NOT_LOCKED"
                      /\ Late => r.details = "NOT_EVALUATED"
                      /\ \A i \in DOMAIN r.documents : r.documents[i].docs[1].id = i - 1
                      /\ \A i \in DOMAIN r.documents :
                           \E s \in DocumentStages : \E t \in Uploaders(s) :
                             r.documents[i].type = TypeOf(s, t) /\ Added(s, t)'
<1>1. Good(record)
  <2>1. Late => stage <= 9
    BY Forward
  <2>2. \A i \in DOMAIN record.documents :
          \E s \in DocumentStages : \E t \in Uploaders(s) :
            record.documents[i].type = TypeOf(s, t) /\ Added(s, t)'
    BY AddedStays, Zenon DEF RecordPlanned
  <2> QED BY <2>1, <2>2, Zenon DEF RecordPlanned
<1>2. Good(Record!NewRecord)
  <2>1. /\ Record!NewRecord.funds = "NOT_LOCKED" /\ Record!NewRecord.details = "NOT_EVALUATED"
        /\ DOMAIN Record!NewRecord.documents = {}
    BY DEF Record!NewRecord
  <2> QED BY <2>1, Zenon
<1>3. ASSUME NEW s, s.funds = record.funds, s.details = record.details \/ ~ Late, s.documents = record.documents
      PROVE  Good(s)
  BY <1>1, <1>3, Zenon
<1>4. ASSUME NEW s, NEW place, NEW entry, Changed(record, s, place, entry), entry.docs[1].id = place - 1,
             \E w \in DocumentStages : \E t \in Uploaders(w) : entry.type = TypeOf(w, t) /\ Added(w, t)'
      PROVE  Good(s)
  <2>1. /\ s.documents[place] = entry
        /\ \A i \in DOMAIN s.documents : i # place =>
             i \in DOMAIN record.documents /\ s.documents[i] = record.documents[i]
        /\ \A field \in DOMAIN record \ {"documents"} : s[field] = record[field]
    <3>1. PICK r : r = record
      OBVIOUS
    <3>2. Orderly(r) /\ Changed(r, s, place, entry)
      BY <1>0, <1>4, <3>1, Zenon
    <3>3. /\ place \in DOMAIN s.documents /\ s.documents[place] = entry
          /\ \A i \in DOMAIN s.documents : i # place =>
               i \in DOMAIN r.documents /\ s.documents[i] = r.documents[i]
          /\ \A i \in DOMAIN r.documents : i \in DOMAIN s.documents
          /\ \A field \in DOMAIN r \ {"documents"} : s[field] = r[field]
      BY <3>2, ChangedEach
    <3> QED BY <3>1, <3>3, Zenon
  <2>2. s.funds = record.funds /\ s.details = record.details
    <3>1. {"funds", "details"} \subseteq DOMAIN record \ {"documents"}
      BY <1>0 DEF Orderly, Record!NewRecord
    <3>2. "funds" \in DOMAIN record \ {"documents"} /\ "details" \in DOMAIN record \ {"documents"}
      BY <3>1
    <3> QED BY <2>1, <3>2, Zenon
  <2> HIDE DEF Late
  <2> QED BY <1>1, <1>4, <2>1, <2>2, Zenon
<1>5. ASSUME NEW t \in Threads, AnsweredCall(t), Answered(t, ResultOf(NextCall(t))) \/ Thrown(t, "lost")
      PROVE  Good(record')
  <2>1. PICK c : c = NextCall(t)
    OBVIOUS
  <2>2. stage' = stage
    BY <1>5, Zenon DEF Answered, Thrown
  <2>3. /\ Planned(t) /\ todo[t] # <<>>
        /\ c.op \notin ShipmentOps \ {"getShipmentPhase"} => record' = record
        /\ c.op = "setShipmentDetails" => record' = [record EXCEPT !.price = 1, !.detailsSet = TRUE]
        /\ c.op = "evaluateSample" => record' = [record EXCEPT !.sample = "APPROVED"]
        /\ c.op = "evaluateShipmentDetails" => record' = [record EXCEPT !.details = "APPROVED"]
    BY <1>0, <1>5, <2>1, HandledRecord, Zenon
  <2>4. CASE record' = record
    BY <1>1, <2>4, Zenon
  <2>5. CASE c.op \in {"setShipmentDetails", "evaluateSample", "evaluateShipmentDetails"}
    <3>1. PICK r, s : r = record /\ s = record'
      OBVIOUS
    <3>2. DOMAIN r = DOMAIN Record!NewRecord
      BY <1>0, <3>1, Zenon DEF Orderly
    <3>3. \/ s = [r EXCEPT !.price = 1, !.detailsSet = TRUE] \/ s = [r EXCEPT !.sample = "APPROVED"]
          \/ c.op = "evaluateShipmentDetails" /\ s = [r EXCEPT !.details = "APPROVED"]
      BY <2>3, <2>5, <3>1
    <3>4. c.op = "evaluateShipmentDetails" => ~ Late
      <4>1. c.op = "evaluateShipmentDetails" => stage = 10
        BY <2>1, <2>3, WhenPlanned, Zenon
      <4> QED BY <2>2, <4>1
    <3>5. s.funds = r.funds /\ s.documents = r.documents /\ (s.details = r.details \/ c.op = "evaluateShipmentDetails")
      BY <3>2, <3>3 DEF Record!NewRecord
    <3> HIDE DEF Late, Good
    <3> QED BY <1>3, <3>1, <3>4, <3>5, Zenon
  <2>6. CASE c.op = "addDocument"
    <3>1. PICK party, entry : /\ entry = NewEntry(record, TypeOf(stage, t), party)
                              /\ Changed(record, record', Len(record.documents) + 1, entry)
      BY <1>0, <1>5, <2>1, <2>6, HandledRecord, Zenon
    <3>2. stage \in DocumentStages /\ t \in Uploaders(stage) /\ Left(t) = 2
      BY <2>1, <2>3, <2>6, WhenPlanned, Zenon
    <3>3. Left(t)' \in {0, 1}
      <4>1. Thrown(t, "lost") => Left(t)' = 0
        BY <1>0, ThrownKeepsScript
      <4>2. Answered(t, ResultOf(NextCall(t))) => Left(t)' = Left(t) - 1
        BY <1>0, <2>3, AnsweredKeepsScript, Zenon
      <4>3. Left(t)' = 0 \/ Left(t)' = Left(t) - 1
        BY <1>5, <4>1, <4>2, Zenon
      <4> QED BY <3>2, <4>3
    <3>4. Added(stage, t)'
      <4>1. PICK k : k = stage
        OBVIOUS
      <4>2. Added(k, t)'
        BY <2>2, <3>3, <4>1 DEF Added
      <4> QED BY <2>2, <3>3 DEF Added
    <3>5. entry.type = TypeOf(stage, t) /\ entry.docs[1].id = (Len(record.documents) + 1) - 1
      <4>1. PICK n \in Nat : n = Len(record.documents)
        BY <1>0 DEF Orderly
      <4>2. entry.type = TypeOf(stage, t) /\ entry.docs[1].id = n
        BY <3>1, <4>1 DEF NewEntry, NewOne, Record!NewDocument
      <4> QED BY <4>1, <4>2
    <3>6. \E w \in DocumentStages : \E d \in Uploaders(w) : entry.type = TypeOf(w, d) /\ Added(w, d)'
      <4>1. PICK w : w = stage
        OBVIOUS
      <4>2. Added(w, t)'
        BY <2>2, <3>3, <4>1 DEF Added
      <4> QED BY <3>2, <3>5, <4>1, <4>2, Zenon
    <3> HIDE DEF Good
    <3> QED BY <1>4, <3>1, <3>5, <3>6, Zenon
  <2>7. CASE c.op = "evaluateDocument"
    <3>1. PICK id, place, entry : Judged(record, record', id, place, entry)
      BY <1>0, <1>5, <2>1, <2>7, HandledRecord, Zenon
    <3>2. /\ place \in 1 .. Len(record.documents) /\ Changed(record, record', place, entry)
          /\ entry.type = record.documents[place].type
          /\ entry.docs[1].id = record.documents[place].docs[1].id
      BY <3>1, Zenon DEF Judged
    <3>3. place \in DOMAIN record.documents
      BY <1>0, <3>2 DEF Orderly
    <3>4. /\ entry.docs[1].id = place - 1
          /\ \E w \in DocumentStages : \E d \in Uploaders(w) : entry.type = TypeOf(w, d) /\ Added(w, d)'
      BY <1>1, <3>2, <3>3, Zenon
    <3> HIDE DEF Good
    <3> QED BY <1>4, <3>2, <3>4, Zenon
  <2>8. \/ c.op \notin ShipmentOps \ {"getShipmentPhase"}
        \/ c.op \in {"setShipmentDetails", "evaluateSample", "evaluateShipmentDetails"}
        \/ c.op = "addDocument" \/ c.op = "evaluateDocument"
    BY DEF ShipmentOps
  <2> HIDE DEF Good
  <2> QED BY <2>3, <2>4, <2>5, <2>6, <2>7, <2>8, Zenon
<1>6. Good(record')
  <2> HIDE DEF Good
  <2> QED BY <1>1, <1>2, <1>5, Turns, Zenon
<1> QED BY <1>6, Zenon DEF RecordPlanned

\* Up to the first look at the phase no call about the shipment changes it.
LEMMA FreshRecordStays ==
  ASSUME DemoKept, FreshRecord, SigningApart, ShipmentKnown, RecordPlanned, [DemoNext]_demoVars
  PROVE  FreshRecord'
<1>0. ScriptKept /\ Orderly(record)
  BY Zenon DEF DemoKept
<1> SUFFICES ASSUME stage' <= 5 PROVE record' = Record!NewRecord
  BY DEF FreshRecord
<1>1. stage <= 5 /\ record = Record!NewRecord
  BY Forward DEF FreshRecord
<1>2. ASSUME NEW t \in Threads, AnsweredCall(t) PROVE record' = record
  <2>1. PICK c : c = NextCall(t)
    OBVIOUS
  <2>2. Planned(t) /\ (c.op \notin ShipmentOps \ {"getShipmentPhase"} => record' = record)
    BY <1>0, <1>2, <2>1, HandledRecord, Zenon
  <2>3. /\ c.op = "evaluateSample" => stage = 7
        /\ c.op = "setShipmentDetails" => stage = 10
        /\ c.op = "evaluateShipmentDetails" => stage = 10
        /\ c.op = "addDocument" => stage \in DocumentStages
        /\ c.op = "evaluateDocument" => stage \in DocumentStages
    BY <2>1, <2>2, WhenPlanned, Zenon
  <2> QED BY <1>1, <2>2, <2>3 DEF ShipmentOps, DocumentStages
<1> QED BY <1>1, <1>2, Turns, Zenon

\* The id the script has of its shipment is that of a shipment, and those stay.
LEMMA ShipmentKnownStays ==
  ASSUME DemoKept, FreshRecord, SigningApart, ShipmentKnown, [DemoNext]_demoVars
  PROVE  ShipmentKnown'
<1>0. ScriptKept
  BY Zenon DEF DemoKept
<1>1. DOMAIN shipments \subseteq DOMAIN shipments'
  BY ShipmentsStay
<1>2. PICK k : k = <<"shipment", 0>> /\ k # Script!Dropped
  <2>1. <<"shipment", 0>> # Script!Dropped
    BY DEF Script!Dropped
  <2> QED BY <2>1
<1>3. ASSUME k \in DOMAIN results' => k \in DOMAIN results /\ results'[k] = results[k]
      PROVE  ShipmentKnown'
  BY <1>1, <1>2, <1>3 DEF ShipmentKnown
<1>4. CASE results' = results
  BY <1>3, <1>4
<1>5. ASSUME NEW t \in Threads, todo[t] # <<>>, NEW value, Answered(t, value), NextCall(t).as # k PROVE ShipmentKnown'
  BY <1>3, <1>5, ResultsGrow, Zenon
<1>6. ASSUME NEW t \in Threads, todo[t] # <<>>, NextCall(t).op \in WaitingOps, NEW value, Answered(t, value)
      PROVE  ShipmentKnown'
  <2>1. NextCall(t).op # "getOrder"
    BY <1>6 DEF WaitingOps
  <2>2. NextCall(t).as # k
    BY <1>0, <1>2, <1>6, <2>1, CallIsPlanned, WhenPlanned, Zenon
  <2> QED BY <1>5, <1>6, <2>2
<1>7. ASSUME NEW t \in Threads, AnsweredCall(t), Answered(t, ResultOf(NextCall(t)))
      PROVE  ShipmentKnown'
  <2>1. todo[t] # <<>> /\ Handled(NextCall(t))
    BY <1>7, Zenon DEF AnsweredCall, Atomic
  <2>2. CASE NextCall(t).as # k
    BY <1>5, <1>7, <2>1, <2>2
  <2>3. CASE NextCall(t).as = k
    <3>1. NextCall(t).op = "getOrder"
      BY <1>0, <1>2, <2>1, <2>3, CallIsPlanned, WhenPlanned, Zenon
    <3>2. GetOrderCall(NextCall(t))
      BY <2>1, <3>1, HandledBy, Zenon
    <3>3. orders[results[<<"order", 0>>]].shipment \in DOMAIN shipments
      BY <3>2, Zenon DEF GetOrderCall
    <3>4. ResultOf(NextCall(t)) = orders[results[<<"order", 0>>]].shipment
      BY <3>1 DEF ResultOf
    <3>5. results'[k] = ResultOf(NextCall(t))
      BY <1>2, <1>7, <2>3, ResultsGrow, Zenon
    <3> QED BY <1>1, <1>2, <3>3, <3>4, <3>5 DEF ShipmentKnown
  <2> QED BY <2>2, <2>3
<1>8. ASSUME NEW t, NEW why, Thrown(t, why) PROVE ShipmentKnown'
  BY <1>4, <1>8, Zenon DEF Thrown
<1>9. ASSUME Quiet PROVE ShipmentKnown'
  BY <1>4, <1>6, <1>8, <1>9, Zenon DEF Quiet, NextStage, scriptVars
<1> QED BY <1>7, <1>8, <1>9, Turns, Zenon

\* Together, with what was said before.
AgreementKept == DemoKept /\ FreshRecord /\ SigningApart /\ ShipmentKnown /\ RecordPlanned

\* It holds in the beginning.
LEMMA InitiallyAgreementKept ==
  ASSUME DemoInit
  PROVE  AgreementKept
<1>1. /\ stage = 1 /\ results = <<>> /\ record = Record!NewRecord
      /\ shipments = <<>> /\ signing = <<>> /\ contested = {}
  BY DEF DemoInit, Init
<1>2. FreshRecord
  BY <1>1 DEF FreshRecord
<1>3. SigningApart
  <2>1. DOMAIN shipments = {} /\ DOMAIN signing = {}
    BY <1>1
  <2>2. IsFiniteSet(DOMAIN shipments) /\ Cardinality(DOMAIN shipments) = 0
    BY <2>1, FS_EmptySet
  <2>3. 0 .. 0 - 1 = {}
    OBVIOUS
  <2>4. Gapless(shipments)
    BY <2>1, <2>2, <2>3 DEF Gapless
  <2> QED BY <2>1, <2>2, <2>4 DEF SigningApart
<1>4. ShipmentKnown
  BY <1>1 DEF ShipmentKnown
<1>5. RecordPlanned
  <2>1. /\ Record!NewRecord.funds = "NOT_LOCKED" /\ Record!NewRecord.details = "NOT_EVALUATED"
        /\ DOMAIN Record!NewRecord.documents = {}
    BY DEF Record!NewRecord
  <2> QED BY <1>1, <2>1, Zenon DEF RecordPlanned
<1> QED BY <1>2, <1>3, <1>4, <1>5, InitiallyDemoKept, Zenon DEF AgreementKept

\* Every step preserves it.
LEMMA AgreementKeepsOn ==
  ASSUME AgreementKept, [DemoNext]_demoVars
  PROVE  AgreementKept'
<1>1. DemoKept /\ FreshRecord /\ SigningApart /\ ShipmentKnown /\ RecordPlanned
  BY Zenon DEF AgreementKept
<1>2. DemoKept'
  BY <1>1, DemoKeepsOn, Zenon
<1>3. FreshRecord'
  BY <1>1, FreshRecordStays, Zenon
<1>4. SigningApart'
  BY <1>1, SigningStays, Zenon
<1>5. ShipmentKnown'
  BY <1>1, ShipmentKnownStays, Zenon
<1>6. RecordPlanned'
  BY <1>1, RecordPlanStays, Zenon
<1> QED BY <1>2, <1>3, <1>4, <1>5, <1>6, Zenon DEF AgreementKept

\* An approved verdict of the record, or an approved document, stays as it is, and every
\* type stays at its place.
Stands(r, s) ==
  /\ \A verdict \in {"sample", "details"} : r[verdict] = "APPROVED" => s[verdict] = "APPROVED"
  /\ \A i \in DOMAIN r.documents : r.documents[i].docs[1].status = "APPROVED" =>
       i \in DOMAIN s.documents /\ s.documents[i] = r.documents[i]
  /\ \A i \in DOMAIN r.documents :
       i \in DOMAIN s.documents /\ s.documents[i].type = r.documents[i].type

\* So does one in which the entry of a document that is not approved changes.
LEMMA ChangedStands ==
  ASSUME NEW r, Orderly(r), NEW s, NEW place, NEW entry, Changed(r, s, place, entry),
         place \in DOMAIN r.documents =>
           r.documents[place].docs[1].status # "APPROVED" /\ entry.type = r.documents[place].type
  PROVE  Stands(r, s)
<1>1. /\ \A i \in DOMAIN s.documents : i # place =>
           i \in DOMAIN r.documents /\ s.documents[i] = r.documents[i]
      /\ \A i \in DOMAIN r.documents : i \in DOMAIN s.documents
      /\ \A field \in DOMAIN r \ {"documents"} : s[field] = r[field]
      /\ s.documents[place] = entry
  BY ChangedEach
<1>2. \A verdict \in {"sample", "details"} : s[verdict] = r[verdict]
  <2>1. {"sample", "details"} \subseteq DOMAIN r \ {"documents"}
    BY DEF Orderly, Record!NewRecord
  <2> QED BY <1>1, <2>1
<1>3. \A i \in DOMAIN r.documents : r.documents[i].docs[1].status = "APPROVED" =>
        i \in DOMAIN s.documents /\ s.documents[i] = r.documents[i]
  BY <1>1, Zenon
<1>4. \A i \in DOMAIN r.documents :
        i \in DOMAIN s.documents /\ s.documents[i].type = r.documents[i].type
  BY <1>1, Zenon
<1> QED BY <1>2, <1>3, <1>4, Zenon DEF Stands

\* What was agreed on stands at every step.
LEMMA AgreedStands ==
  ASSUME AgreementKept, [DemoNext]_demoVars, contested = {}
  PROVE  Stands(record, record')
<1>0. /\ DemoKept /\ FreshRecord /\ SigningApart /\ ShipmentKnown /\ RecordPlanned
      /\ ScriptKept /\ Orderly(record)
  BY Zenon DEF AgreementKept, DemoKept
<1>1. CASE record' = record
  <2>1. Stands(record, record)
    BY Zenon DEF Stands
  <2> QED BY <1>1, <2>1, Zenon
<1>2. ASSUME NEW t \in Threads, AnsweredCall(t) PROVE Stands(record, record')
  <2>1. PICK c : c = NextCall(t)
    OBVIOUS
  <2>2. /\ c.op \notin ShipmentOps \ {"getShipmentPhase"} => record' = record
        /\ c.op = "setShipmentDetails" => record' = [record EXCEPT !.price = 1, !.detailsSet = TRUE]
        /\ c.op = "evaluateSample" => record' = [record EXCEPT !.sample = "APPROVED"]
        /\ c.op = "evaluateShipmentDetails" => record' = [record EXCEPT !.details = "APPROVED"]
    BY <1>0, <1>2, <2>1, HandledRecord, Zenon
  <2>3. CASE c.op \in {"setShipmentDetails", "evaluateSample", "evaluateShipmentDetails"}
    <3>1. PICK r, s : r = record /\ s = record'
      OBVIOUS
    <3>2. DOMAIN r = DOMAIN Record!NewRecord
      BY <1>0, <3>1, Zenon DEF Orderly
    <3>3. \/ s = [r EXCEPT !.price = 1, !.detailsSet = TRUE] \/ s = [r EXCEPT !.sample = "APPROVED"]
          \/ s = [r EXCEPT !.details = "APPROVED"]
      BY <2>2, <2>3, <3>1
    <3>4. /\ s.documents = r.documents
          /\ \A verdict \in {"sample", "details"} : s[verdict] = r[verdict] \/ s[verdict] = "APPROVED"
      BY <3>2, <3>3 DEF Record!NewRecord
    <3>5. Stands(r, s)
      BY <3>4 DEF Stands
    <3> QED BY <3>1, <3>5, Zenon
  <2>4. CASE c.op = "addDocument"
    <3>1. PICK party, entry : /\ entry = NewEntry(record, TypeOf(stage, t), party)
                              /\ Changed(record, record', Len(record.documents) + 1, entry)
      BY <1>0, <1>2, <2>1, <2>4, HandledRecord, Zenon
    <3>2. PICK r, s, n : r = record /\ s = record' /\ n = Len(record.documents) + 1
      OBVIOUS
    <3>3. Orderly(r) /\ Changed(r, s, n, entry)
      BY <1>0, <3>1, <3>2, Zenon
    <3>4. n \notin DOMAIN r.documents
      <4>1. PICK m \in Nat : m = Len(r.documents) /\ DOMAIN r.documents = 1 .. m
        BY <3>3 DEF Orderly
      <4> QED BY <3>2, <4>1
    <3>5. Stands(r, s)
      BY <3>3, <3>4, ChangedStands
    <3> QED BY <3>2, <3>5, Zenon
  <2>5. CASE c.op = "evaluateDocument"
    <3>1. PICK id, place, entry : Judged(record, record', id, place, entry)
      BY <1>0, <1>2, <2>1, <2>5, HandledRecord, Zenon
    <3>2. PICK r, s : r = record /\ s = record'
      OBVIOUS
    <3>3. /\ Orderly(r) /\ Changed(r, s, place, entry)
          /\ r.documents[place].docs[1].status # "APPROVED" /\ entry.type = r.documents[place].type
      BY <1>0, <3>1, <3>2, Zenon DEF Judged
    <3>4. Stands(r, s)
      BY <3>3, ChangedStands
    <3> QED BY <3>2, <3>4, Zenon
  <2>6. \/ c.op \notin ShipmentOps \ {"getShipmentPhase"}
        \/ c.op \in {"setShipmentDetails", "evaluateSample", "evaluateShipmentDetails"}
        \/ c.op = "addDocument" \/ c.op = "evaluateDocument"
    BY DEF ShipmentOps
  <2> QED BY <1>1, <2>2, <2>3, <2>4, <2>5, <2>6, Zenon
<1> QED BY <1>0, <1>1, <1>2, Turns, Zenon

(***************************************************************************)
(* What both sides agreed on stays, whatever calls are lost and whoever    *)
(* signs other orders at the same time: unless two calls of signOrder took *)
(* one shipment id, only the script's own calls reach the record of its    *)
(* shipment, and those do not judge twice (ShipmentService.ts).            *)
(***************************************************************************)
THEOREM AgreementsDoStand == DemoSpec => AgreementsStand
<1>1. AgreementKept /\ [DemoNext]_demoVars =>
        [contested = {} =>
           /\ \A verdict \in {"sample", "details"} :
                record[verdict] = "APPROVED" => record'[verdict] = "APPROVED"
           /\ \A i \in DOMAIN record.documents : record.documents[i].docs[1].status = "APPROVED"
                => i \in DOMAIN record'.documents /\ record'.documents[i] = record.documents[i]]_demoVars
  BY AgreedStands, Zenon DEF Stands
<1>2. DemoInit => AgreementKept
  BY InitiallyAgreementKept
<1>3. AgreementKept /\ [DemoNext]_demoVars => AgreementKept'
  BY AgreementKeepsOn
<1> QED BY <1>1, <1>2, <1>3, PTL DEF DemoSpec, AgreementsStand

-----------------------------------------------------------------------------
\* The phases the script sees.

\* A name the canister sends as a variant is read as that name.
LEMMA VariantRead ==
  ASSUME NEW names, NEW name \in names
  PROVE  SDK!NameIn(names, SDK!Variant(name)) = name
BY DEF SDK!NameIn, SDK!Variant

\* The types of the script's documents are types the driver knows.
LEMMA TypesKnown == \A s, t : TypeOf(s, t) \in SDK!DocumentType
BY DEF TypeOf, SDK!DocumentType

\* The driver finds the document of a type under that type, with its id.
LEMMA DocumentRead ==
  ASSUME NEW r, Orderly(r), \A j \in DOMAIN r.documents : r.documents[j].type \in SDK!DocumentType,
         NEW i \in DOMAIN r.documents
  PROVE  DocumentsOf(r, r.documents[i].type)[1].id = r.documents[i].docs[1].id
<1> DEFINE Info(type, document) ==
             [id |-> document.id, externalUrl |-> document.externalUrl, uploadedBy |-> document.uploadedBy,
              documentType |-> SDK!Variant(type), evaluationStatus |-> SDK!Variant(document.status)]
           Infos(j) == [k \in DOMAIN r.documents[j].docs |-> Info(r.documents[j].type, r.documents[j].docs[k])]
           sent == ReturnedDocuments(r)
           type(j) == SDK!BuildDocumentType(sent[j][1])
           last(u) == CHOOSE j \in DOMAIN sent :
                        type(j) = u /\ \A k \in DOMAIN sent : k > j => type(k) # u
           infos(j) == [k \in DOMAIN sent[j][2] |-> SDK!BuildDocumentInfo(sent[j][2][k])]
           t == r.documents[i].type
<1>1. /\ DOMAIN sent = DOMAIN r.documents
      /\ \A j \in DOMAIN r.documents : sent[j][1] = SDK!Variant(r.documents[j].type) /\ sent[j][2] = Infos(j)
  BY DEF ReturnedDocuments
<1>2. \A j \in DOMAIN r.documents : type(j) = r.documents[j].type
  BY <1>1, VariantRead DEF SDK!BuildDocumentType
<1>3. DocumentsOf(r, t) = [u \in {type(j) : j \in DOMAIN sent} |-> infos(last(u))][t]
  BY DEF DocumentsOf, SDK!BuildShipmentDocuments
<1> HIDE DEF sent, type, infos, last
<1>4. t \in {type(j) : j \in DOMAIN sent}
  BY <1>1, <1>2
<1>5. DocumentsOf(r, t) = infos(last(t))
  BY <1>3, <1>4
<1>6. \A j \in DOMAIN r.documents : type(j) = t => j = i
  BY <1>2, Zenon DEF Orderly
<1>7. \A k \in DOMAIN sent : k > i => type(k) # t
  <2> SUFFICES ASSUME NEW k \in DOMAIN sent, k > i, type(k) = t PROVE FALSE
    OBVIOUS
  <2>1. k = i /\ i \in Nat
    BY <1>1, <1>6 DEF Orderly
  <2> QED BY <2>1
<1>8. i \in DOMAIN sent /\ type(i) = t
  BY <1>1, <1>2
<1>9. last(t) \in DOMAIN sent /\ type(last(t)) = t
  BY <1>7, <1>8, Zenon DEF last
<1>10. last(t) = i
  BY <1>1, <1>6, <1>9
<1>11. /\ DOMAIN r.documents[i].docs = {1}
       /\ DOMAIN sent[i][2] = {1} /\ sent[i][2][1] = Info(t, r.documents[i].docs[1])
  <2>1. PICK entry : entry = r.documents[i]
    OBVIOUS
  <2>2. DOMAIN entry.docs = {1}
    BY <2>1 DEF Orderly
  <2>3. sent[i][2] = [k \in DOMAIN entry.docs |-> Info(entry.type, entry.docs[k])]
    BY <1>1, <2>1
  <2> QED BY <2>1, <2>2, <2>3
<1>12. infos(i)[1] = SDK!BuildDocumentInfo(sent[i][2][1])
  BY <1>11 DEF infos
<1>13. PICK d : d = r.documents[i].docs[1]
  OBVIOUS
<1>14. SDK!BuildDocumentInfo(Info(t, d)).id = d.id
  BY DEF SDK!BuildDocumentInfo
<1> QED BY <1>5, <1>10, <1>11, <1>12, <1>13, <1>14

\* The record has an approved document of a type.
ApprovedIn(r, type) ==
  \E i \in DOMAIN r.documents : r.documents[i].type = type /\ r.documents[i].docs[1].status = "APPROVED"

\* Then it is what the canister finds for that type.
LEMMA ApprovedFound ==
  ASSUME NEW r, Orderly(r), NEW types, \A type \in types : ApprovedIn(r, type)
  PROVE  Record!AreDocumentsUploadedAndApproved(r, types)
<1> SUFFICES ASSUME NEW type \in types
             PROVE  LET docs == Record!GetDocumentsByType(r, type)
                    IN  docs # <<>> /\ docs[1].status = "APPROVED"
  BY Zenon DEF Record!AreDocumentsUploadedAndApproved
<1>1. PICK i \in DOMAIN r.documents : r.documents[i].type = type /\ r.documents[i].docs[1].status = "APPROVED"
  BY DEF ApprovedIn
<1>2. DOMAIN r.documents = 1 .. Len(r.documents)
  BY DEF Orderly
<1>3. PICK place : place = Record!PlaceOfType(r, type)
  OBVIOUS
<1>4. \/ place = 0 /\ \A j \in 1 .. Len(r.documents) : r.documents[j].type # type
      \/ place \in 1 .. Len(r.documents) /\ r.documents[place].type = type
  BY <1>3, PlaceOfTypeIs, Zenon
<1>5. place = i
  BY <1>1, <1>2, <1>4, Zenon DEF Orderly
<1>6. place # 0
  BY <1>1, <1>2, <1>5
<1>7. Record!GetDocumentsByType(r, type) = r.documents[place].docs
  BY <1>3, <1>6, Zenon DEF Record!GetDocumentsByType
<1>8. r.documents[place].docs # <<>>
  <2>1. PICK docs : docs = r.documents[place].docs
    OBVIOUS
  <2>2. Len(docs) = 1
    BY <1>1, <1>2, <1>5, <2>1 DEF Orderly
  <2>3. Len(docs) = 1 => docs # <<>>
    OBVIOUS
  <2> QED BY <2>1, <2>2, <2>3
<1> QED BY <1>1, <1>5, <1>7, <1>8

\* The place (s, t) of the script is behind, and nothing threw there.
Past(s, t) == s < stage \/ (s = stage /\ thrown = {} /\ Left(t) = 0)

\* What the calls that were answered so far have done to the record, unless another
\* shipment replaced it: the id of a document to judge is the one its type has, and what
\* was judged is approved.
RecordApproved == contested = {} =>
  /\ stage \in DocumentStages => \A t \in Uploaders(stage) : Left(t) = 1 =>
       \E i \in DOMAIN record.documents :
         /\ record.documents[i].type = TypeOf(stage, t)
         /\ <<"document", TypeOf(stage, t)>> \in DOMAIN results
         /\ results[<<"document", TypeOf(stage, t)>>] = i - 1
  /\ \A s \in DocumentStages : \A t \in Uploaders(s) : Past(s, t) => ApprovedIn(record, TypeOf(s, t))
  /\ Past(7, 1) => record.sample = "APPROVED"
  /\ Past(10, 1) => record.details = "APPROVED"

\* So that the phase is the one the script expects when it looks at it.
LEMMA PhaseIs ==
  ASSUME Orderly(record), FreshRecord, RecordPlanned, RecordApproved, contested = {}, stage \in PhaseStages
  PROVE  Record!GetShipmentPhase(record) = PhaseLooked(stage)
<1>1. CASE stage = 5
  <2>1. record.sample # "APPROVED"
    BY <1>1 DEF FreshRecord, Record!NewRecord
  <2>2. ~ Record!Phase1Complete(record)
    BY <2>1, Zenon DEF Record!Phase1Complete
  <2> QED BY <1>1, <2>2 DEF Record!GetShipmentPhase, PhaseLooked
<1>2. CASE stage \in {8, 11}
  <2>1. ApprovedIn(record, "PRE_SHIPMENT_SAMPLE") /\ record.sample = "APPROVED"
    <3>1. 6 \in DocumentStages /\ 1 \in Uploaders(6) /\ TypeOf(6, 1) = "PRE_SHIPMENT_SAMPLE"
      BY DEF DocumentStages, Uploaders, TypeOf
    <3>2. Past(6, 1) /\ Past(7, 1)
      BY <1>2 DEF Past
    <3> QED BY <3>1, <3>2 DEF RecordApproved
  <2>2. RequiredDocuments[1] = {"PRE_SHIPMENT_SAMPLE"}
    BY DEF RequiredDocuments, Phase1RequiredDocuments
  <2>3. Record!PhaseDocumentsApproved(record, 1)
    BY <2>1, <2>2, ApprovedFound DEF Record!PhaseDocumentsApproved
  <2>4. Record!Phase1Complete(record)
    BY <2>1, <2>3, Zenon DEF Record!Phase1Complete
  <2>5. CASE stage = 8
    <3>1. record.details # "APPROVED"
      BY <2>5 DEF RecordPlanned
    <3>2. ~ Record!Phase2Complete(record)
      BY <3>1, Zenon DEF Record!Phase2Complete
    <3> QED BY <2>4, <2>5, <3>2 DEF Record!GetShipmentPhase, PhaseLooked
  <2>6. CASE stage = 11
    <3>1. /\ ApprovedIn(record, "SHIPPING_INSTRUCTIONS") /\ ApprovedIn(record, "SHIPPING_NOTE")
          /\ record.details = "APPROVED"
      <4>1. /\ 9 \in DocumentStages /\ 1 \in Uploaders(9) /\ 2 \in Uploaders(9)
            /\ TypeOf(9, 1) = "SHIPPING_INSTRUCTIONS" /\ TypeOf(9, 2) = "SHIPPING_NOTE"
        BY DEF DocumentStages, Uploaders, TypeOf
      <4>2. Past(9, 1) /\ Past(9, 2) /\ Past(10, 1)
        BY <2>6 DEF Past
      <4> QED BY <4>1, <4>2 DEF RecordApproved
    <3>2. RequiredDocuments[2] = {"SHIPPING_INSTRUCTIONS", "SHIPPING_NOTE"}
      BY DEF RequiredDocuments, Phase2RequiredDocuments
    <3>3. Record!PhaseDocumentsApproved(record, 2)
      BY <3>1, <3>2, ApprovedFound DEF Record!PhaseDocumentsApproved
    <3>4. Record!Phase2Complete(record)
      BY <3>1, <3>3, Zenon DEF Record!Phase2Complete
    <3>5. ~ Record!Phase3Complete(record)
      BY Zenon DEF RecordPlanned, Record!Phase3Complete
    <3> QED BY <2>4, <2>6, <3>4, <3>5 DEF Record!GetShipmentPhase, PhaseLooked
  <2> QED BY <1>2, <2>5, <2>6
<1> QED BY <1>1, <1>2 DEF PhaseStages

\* A stage begins with whole branches.
LEMMA LeftAtStart ==
  ASSUME DemoKept, NextStage
  PROVE  /\ stage' \in DocumentStages => \A t \in Uploaders(stage') : Left(t)' = 4
         /\ stage' = 7 => Left(1)' = 1
         /\ stage' = 10 => Left(1)' = 2
<1>0. ScriptKept
  BY Zenon DEF DemoKept
<1>1. stage' = stage + 1 /\ \A t \in Threads : todo'[t] = Branches(stage + 1)[t]
  BY <1>0, NextStageKeepsScript, Zenon
<1>2. ASSUME stage' \in 4 .. 12, NEW t \in Uploaders(stage')
      PROVE  Fits(stage', t, todo'[t])
  <2>1. t \in Threads /\ Fits(stage', t, Branches(stage')[t])
    BY <1>2, Branched
  <2> QED BY <1>1, <2>1
<1>3. stage' \in DocumentStages => \A t \in Uploaders(stage') : Left(t)' = 4
  BY <1>2 DEF DocumentStages, Fits, FitsDocument, Left
<1>4. stage' = 7 => Left(1)' = 1
  BY <1>2 DEF Uploaders, Fits, FitsSample, Left
<1>5. stage' = 10 => Left(1)' = 2
  BY <1>2 DEF Uploaders, Fits, FitsDetails, Left
<1> QED BY <1>3, <1>4, <1>5

\* A thread goes on only by an answer, and unless the call waits in the canister it is the
\* answer of a handler.
LEMMA Finishes ==
  ASSUME AgreementKept, [DemoNext]_demoVars, stage' = stage, NEW t \in Threads,
         Left(t)' # Left(t), thrown' = {} \/ Left(t)' # 0
  PROVE  /\ Planned(t) /\ Left(t)' = Left(t) - 1 /\ Left(t) \in Nat
         /\ \/ AnsweredCall(t) /\ Answered(t, ResultOf(NextCall(t)))
            \/ NextCall(t).op \in WaitingOps
<1>0. /\ DemoKept /\ FreshRecord /\ SigningApart /\ ShipmentKnown
      /\ ScriptKept
  BY Zenon DEF AgreementKept, DemoKept
<1>1. Left(t) \in Nat /\ stage \in 1 .. 12
  BY <1>0, Forward
<1>2. ASSUME NEW d \in Threads, NEW why \in {"lost", "refused"}, Thrown(d, why) PROVE FALSE
  <2>1. Left(d)' = 0 /\ thrown' # {} /\ \A e \in Threads \ {d} : todo'[e] = todo[e]
    BY <1>0, <1>2, ThrownKeepsScript, Zenon
  <2>2. d # t => Left(t)' = Left(t)
    BY <2>1 DEF Left
  <2> QED BY <2>1, <2>2
<1>3. ASSUME NEW d \in Threads, todo[d] # <<>>, NEW value, Answered(d, value)
      PROVE  d = t /\ Left(t)' = Left(t) - 1 /\ Planned(t)
  <2>1. Left(d)' = Left(d) - 1 /\ \A e \in Threads \ {d} : todo'[e] = todo[e]
    BY <1>0, <1>3, AnsweredKeepsScript, Zenon
  <2>2. d # t => Left(t)' = Left(t)
    BY <2>1 DEF Left
  <2>3. d = t
    BY <2>2
  <2> QED BY <1>0, <1>3, <2>1, <2>3, CallIsPlanned, Zenon
<1>4. ~ UNCHANGED scriptVars
  <2> SUFFICES ASSUME UNCHANGED scriptVars PROVE FALSE
    OBVIOUS
  <2>1. todo' = todo
    BY Zenon DEF scriptVars
  <2> QED BY <2>1 DEF Left
<1>5. ~ NextStage
  <2> SUFFICES ASSUME NextStage PROVE FALSE
    OBVIOUS
  <2>1. stage' = stage + 1
    BY Zenon DEF NextStage
  <2> QED BY <1>1, <2>1
<1>6. ASSUME Quiet PROVE NextCall(t).op \in WaitingOps /\ Left(t)' = Left(t) - 1 /\ Planned(t)
  BY <1>2, <1>3, <1>4, <1>5, <1>6, Zenon DEF Quiet
<1>7. ASSUME NEW d \in Threads, AnsweredCall(d), Answered(d, ResultOf(NextCall(d))) \/ Thrown(d, "lost")
      PROVE  /\ AnsweredCall(t) /\ Answered(t, ResultOf(NextCall(t)))
             /\ Left(t)' = Left(t) - 1 /\ Planned(t)
  <2>1. "lost" \in {"lost", "refused"}
    OBVIOUS
  <2>2. todo[d] # <<>>
    BY <1>7, Zenon DEF AnsweredCall, Atomic
  <2> QED BY <1>2, <1>3, <1>7, <2>1, <2>2, Zenon
<1> QED BY <1>0, <1>1, <1>6, <1>7, Turns, Zenon

\* A place of the script is behind after a step if it was before, or if the last of its
\* calls was answered now.
LEMMA PastBefore ==
  ASSUME AgreementKept, [DemoNext]_demoVars, NEW s \in DocumentStages \cup {7, 10}, NEW t \in Uploaders(s),
         Past(s, t)', ~ Past(s, t)
  PROVE  stage' = stage /\ s = stage /\ thrown' = {} /\ t \in Threads /\ Left(t)' = 0 /\ Left(t)' # Left(t)
<1>0. DemoKept /\ ScriptKept
  BY Zenon DEF AgreementKept, DemoKept
<1>1. t \in Threads /\ s \in 4 .. 12
  <2>1. s \in 4 .. 12
    BY DEF DocumentStages
  <2> QED BY <2>1, Branched
<1>2. /\ stage \in 1 .. 12 /\ stage' \in 1 .. 12 /\ thrown \subseteq thrown'
      /\ stage' = stage \/ (stage' = stage + 1 /\ NextStage)
  BY <1>0, Forward, Zenon
<1>3. ~ NextStage
  <2> SUFFICES ASSUME NextStage PROVE FALSE
    OBVIOUS
  <2>1. /\ stage' = stage + 1 /\ thrown = {}
        /\ todo[t] = <<>>
    BY <1>0, <1>1, NextStageKeepsScript, Zenon
  <2>2. Left(t) = 0
    BY <2>1 DEF Left
  <2>3. s = stage'
    BY <1>1, <1>2, <2>1, <2>2 DEF Past
  <2>4. /\ s \in DocumentStages => Left(t)' = 4
        /\ s = 7 => Left(1)' = 1
        /\ s = 10 => Left(1)' = 2
    BY <1>0, <2>3, LeftAtStart
  <2>5. s \in {7, 10} => t = 1
    BY DEF Uploaders
  <2>6. Left(t)' = 0
    BY <1>1, <1>2, <2>3 DEF Past
  <2> QED BY <2>4, <2>5, <2>6
<1> QED BY <1>1, <1>2, <1>3 DEF Past

\* What a thread keeps under a name no call of the step has stays.
LEMMA KeptUnder ==
  ASSUME AgreementKept, [DemoNext]_demoVars, NEW k,
         \A d \in Threads : todo[d] # <<>> /\ Planned(d) => NextCall(d).as # k
  PROVE  /\ k \in DOMAIN results => k \in DOMAIN results'
         /\ k \in DOMAIN results' => k \in DOMAIN results /\ results'[k] = results[k]
<1>0. DemoKept /\ FreshRecord /\ SigningApart /\ ShipmentKnown /\ ScriptKept
  BY Zenon DEF AgreementKept, DemoKept
<1> DEFINE Same == /\ k \in DOMAIN results => k \in DOMAIN results'
                   /\ k \in DOMAIN results' => k \in DOMAIN results /\ results'[k] = results[k]
<1>1. results' = results => Same
  OBVIOUS
<1>2. ASSUME NEW d \in Threads, todo[d] # <<>>, NEW value, Answered(d, value) PROVE Same
  <2>1. NextCall(d).as # k
    BY <1>0, <1>2, CallIsPlanned, Zenon
  <2>2. /\ DOMAIN results \subseteq DOMAIN results'
        /\ \A e \in DOMAIN results' : e # NextCall(d).as => e \in DOMAIN results /\ results'[e] = results[e]
    BY <1>2, ResultsGrow, Zenon
  <2> QED BY <2>1, <2>2
<1> HIDE DEF Same
<1>3. ASSUME NEW d, NEW why, Thrown(d, why) PROVE Same
  BY <1>1, <1>3, Zenon DEF Thrown
<1>4. ASSUME Quiet PROVE Same
  BY <1>1, <1>2, <1>3, <1>4, Zenon DEF Quiet, NextStage, scriptVars
<1>5. ASSUME NEW d \in Threads, AnsweredCall(d) PROVE todo[d] # <<>>
  BY <1>5, Zenon DEF AnsweredCall, Atomic
<1>6. Same
  BY <1>0, <1>2, <1>3, <1>4, <1>5, Turns, Zenon
<1> QED BY <1>6, Zenon DEF Same

\* The id a document is judged with is that of the document of its type.
IdKept == stage \in DocumentStages => \A t \in Uploaders(stage) : Left(t) = 1 =>
  \E i \in DOMAIN record.documents :
    /\ record.documents[i].type = TypeOf(stage, t)
    /\ <<"document", TypeOf(stage, t)>> \in DOMAIN results
    /\ results[<<"document", TypeOf(stage, t)>>] = i - 1

\* It is so from the answer that returns it on.
LEMMA IdStays ==
  ASSUME AgreementKept, [DemoNext]_demoVars, contested = {}, IdKept
  PROVE  IdKept'
<1>0. /\ DemoKept /\ RecordPlanned /\ ScriptKept /\ Orderly(record)
      /\ Orderly(record') /\ RecordPlanned'
  <2>1. AgreementKept'
    BY AgreementKeepsOn
  <2> QED BY <2>1, Zenon DEF AgreementKept, DemoKept
<1> SUFFICES ASSUME stage' \in DocumentStages, NEW t \in Uploaders(stage'), Left(t)' = 1
             PROVE  \E i \in DOMAIN record'.documents :
                      /\ record'.documents[i].type = TypeOf(stage', t)
                      /\ <<"document", TypeOf(stage', t)>> \in DOMAIN results'
                      /\ results'[<<"document", TypeOf(stage', t)>>] = i - 1
  BY DEF IdKept
<1>1. stage' = stage
  BY <1>0, Forward, LeftAtStart
<1>2. PICK type, k : type = TypeOf(stage, t) /\ k = <<"document", type>>
  OBVIOUS
<1>3. t \in Threads
  <2>1. stage' \in 4 .. 12
    BY DEF DocumentStages
  <2> QED BY <2>1, Branched
<1>4. CASE Left(t)' = Left(t)
  <2>1. PICK i \in DOMAIN record.documents :
          record.documents[i].type = type /\ k \in DOMAIN results /\ results[k] = i - 1
    BY <1>1, <1>2, <1>4 DEF IdKept
  <2>2. i \in DOMAIN record'.documents /\ record'.documents[i].type = type
    BY <2>1, AgreedStands, Zenon DEF Stands
  <2>3. ASSUME NEW d \in Threads, Planned(d), NextCall(d).as = k PROVE FALSE
    <3>1. NextCall(d).op = "addDocument"
      BY <1>2, <2>3, WhenPlanned, Zenon
    <3>2. d \in Uploaders(stage) /\ Left(d) = 2 /\ NextCall(d) = AddDocumentOf(TypeOf(stage, d))
      BY <2>3, <3>1, WhenPlanned, Zenon
    <3>3. PICK w : w = TypeOf(stage, d)
      OBVIOUS
    <3>4. AddDocumentOf(w).as = <<"document", w>>
      BY DEF AddDocumentOf, Script!Call
    <3>5. TypeOf(stage, d) = TypeOf(stage, t)
      BY <1>2, <2>3, <3>2, <3>3, <3>4
    <3>6. d = t
      BY <1>1, <3>2, <3>5, OwnTypes, Zenon
    <3> QED BY <1>4, <3>2, <3>6
  <2>4. k \in DOMAIN results' /\ results'[k] = results[k]
    BY <2>1, <2>3, KeptUnder, Zenon
  <2> QED BY <1>1, <1>2, <2>1, <2>2, <2>4, Zenon
<1>5. CASE Left(t)' # Left(t)
  <2>1. PICK c : c = NextCall(t)
    OBVIOUS
  <2>2. /\ Planned(t) /\ Left(t)' = Left(t) - 1 /\ Left(t) \in Nat
        /\ (AnsweredCall(t) /\ Answered(t, ResultOf(c))) \/ c.op \in WaitingOps
    BY <1>1, <1>3, <1>5, <2>1, Finishes
  <2>3. Left(t) = 2
    BY <2>2
  <2>4. c.op = "addDocument" /\ c = AddDocumentOf(type)
    BY <1>1, <1>2, <2>1, <2>2, <2>3, PlannedAt, WhenPlanned, Zenon
  <2>5. AnsweredCall(t) /\ Answered(t, ResultOf(c))
    BY <2>2, <2>4 DEF WaitingOps
  <2>6. PICK party, entry : /\ entry = NewEntry(record, TypeOf(stage, t), party)
                            /\ Changed(record, record', Len(record.documents) + 1, entry)
    BY <1>0, <1>3, <2>1, <2>4, <2>5, HandledRecord, Zenon
  <2>7. PICK r, s, n : r = record /\ s = record' /\ n = Len(record.documents) + 1
    OBVIOUS
  <2>8. n \in DOMAIN s.documents /\ s.documents[n].type = type
    <3>1. Orderly(r) /\ Changed(r, s, n, entry) /\ entry = NewEntry(r, type, party)
      BY <1>0, <1>2, <2>6, <2>7, Zenon
    <3>2. n \in DOMAIN s.documents /\ s.documents[n] = entry
      BY <3>1, ChangedEach
    <3> QED BY <3>1, <3>2 DEF NewEntry, NewOne, Record!NewDocument
  <2>9. s.documents[n].docs[1].id = n - 1
    BY <1>0, <2>7, <2>8, Zenon DEF RecordPlanned
  <2>10. \A j \in DOMAIN s.documents : s.documents[j].type \in SDK!DocumentType
    <3> TAKE j \in DOMAIN s.documents
    <3>1. PICK w \in DocumentStages : \E d \in Uploaders(w) : s.documents[j].type = TypeOf(w, d)
      BY <1>0, <2>7, Zenon DEF RecordPlanned
    <3> QED BY <3>1, TypesKnown
  <2>11. DocumentsOf(s, type)[1].id = n - 1
    <3>1. Orderly(s)
      BY <1>0, <2>7, Zenon
    <3> QED BY <2>8, <2>9, <2>10, <3>1, DocumentRead
  <2>12. ResultOf(c) = n - 1
    <3>1. c.args.type = type
      BY <2>4 DEF AddDocumentOf, Script!Call
    <3>2. ResultOf(c) = DocumentsOf(record', c.args.type)[1].id
      BY <2>4, Zenon DEF ResultOf
    <3> QED BY <2>7, <2>11, <3>1, <3>2
  <2>13. c.as = k /\ k # Script!Dropped
    BY <1>2, <2>4 DEF AddDocumentOf, Script!Call, Script!Dropped
  <2>14. k \in DOMAIN results' /\ results'[k] = n - 1
    BY <2>1, <2>5, <2>12, <2>13, ResultsGrow, Zenon
  <2> QED BY <1>1, <1>2, <2>7, <2>8, <2>14, Zenon
<1> QED BY <1>4, <1>5

\* What is approved is still so when the script goes on, and what its places ask for has
\* been approved when they are behind.
LEMMA RecordApprovedStays ==
  ASSUME AgreementKept, RecordApproved, [DemoNext]_demoVars
  PROVE  RecordApproved'
<1>0. /\ DemoKept /\ RecordPlanned /\ SigningApart /\ ScriptKept /\ Orderly(record)
  BY Zenon DEF AgreementKept, DemoKept
<1> SUFFICES ASSUME contested' = {}
             PROVE  /\ IdKept'
                    /\ \A s \in DocumentStages : \A t \in Uploaders(s) :
                         Past(s, t)' => ApprovedIn(record', TypeOf(s, t))
                    /\ Past(7, 1)' => record'.sample = "APPROVED"
                    /\ Past(10, 1)' => record'.details = "APPROVED"
  BY Zenon DEF RecordApproved, IdKept
<1>1. contested = {}
  BY <1>0, SigningStays
<1>2. /\ IdKept
      /\ \A s \in DocumentStages : \A t \in Uploaders(s) : Past(s, t) => ApprovedIn(record, TypeOf(s, t))
      /\ Past(7, 1) => record.sample = "APPROVED"
      /\ Past(10, 1) => record.details = "APPROVED"
  BY <1>1, Zenon DEF RecordApproved, IdKept
<1>3. Stands(record, record')
  BY <1>1, AgreedStands
<1>4. IdKept'
  BY <1>1, <1>2, IdStays
<1>5. ASSUME NEW s \in DocumentStages, NEW t \in Uploaders(s), Past(s, t)'
      PROVE  ApprovedIn(record', TypeOf(s, t))
  <2>1. CASE Past(s, t)
    BY <1>2, <1>3, <2>1, Zenon DEF ApprovedIn, Stands
  <2>2. CASE ~ Past(s, t)
    <3>1. /\ stage' = stage /\ s = stage /\ thrown' = {} /\ t \in Threads
          /\ Left(t)' = 0 /\ Left(t)' # Left(t)
      BY <1>5, <2>2, PastBefore
    <3>2. PICK c, type : c = NextCall(t) /\ type = TypeOf(s, t)
      OBVIOUS
    <3>3. /\ Planned(t) /\ Left(t)' = Left(t) - 1 /\ Left(t) \in Nat
          /\ AnsweredCall(t) \/ c.op \in WaitingOps
      BY <3>1, <3>2, Finishes
    <3>4. Left(t) = 1
      BY <3>1, <3>3
    <3>5. c.op = "evaluateDocument"
      BY <3>1, <3>2, <3>3, <3>4, PlannedAt, Zenon
    <3>6. AnsweredCall(t)
      BY <3>3, <3>5 DEF WaitingOps
    <3>7. PICK i \in DOMAIN record.documents :
            record.documents[i].type = type /\ results[<<"document", type>>] = i - 1
      BY <1>2, <3>1, <3>2, <3>4 DEF IdKept
    <3>8. PICK place, entry : Judged(record, record', results[<<"document", type>>], place, entry)
      BY <1>0, <3>1, <3>2, <3>5, <3>6, HandledRecord, Zenon
    <3>9. PICK r, q : r = record /\ q = record'
      OBVIOUS
    <3>10. Orderly(r) /\ Judged(r, q, i - 1, place, entry)
      BY <1>0, <3>7, <3>8, <3>9, Zenon
    <3>11. /\ place \in DOMAIN r.documents /\ i \in Nat /\ place \in Nat
           /\ r.documents[place].docs[1].id = i - 1
      BY <3>7, <3>9, <3>10 DEF Orderly, Judged
    <3>12. r.documents[place].docs[1].id = place - 1
      BY <1>0, <3>9, <3>11, Zenon DEF RecordPlanned
    <3>13. place = i
      BY <3>11, <3>12
    <3>14. place \in DOMAIN q.documents /\ q.documents[place] = entry
      <4>1. Changed(r, q, place, entry)
        BY <3>10, Zenon DEF Judged
      <4> QED BY <3>10, <4>1, ChangedEach
    <3>15. entry.type = type /\ entry.docs[1].status = "APPROVED"
      BY <3>7, <3>9, <3>10, <3>13, Zenon DEF Judged
    <3> QED BY <3>2, <3>9, <3>14, <3>15, Zenon DEF ApprovedIn
  <2> QED BY <2>1, <2>2
<1>6. ASSUME NEW s \in {7, 10}, Past(s, 1)'
      PROVE  /\ s = 7 => record'.sample = "APPROVED"
             /\ s = 10 => record'.details = "APPROVED"
  <2>1. CASE Past(s, 1)
    <3>1. "sample" \in {"sample", "details"} /\ "details" \in {"sample", "details"}
      OBVIOUS
    <3>2. (s = 7 => record["sample"] = "APPROVED") /\ (s = 10 => record["details"] = "APPROVED")
      BY <1>2, <2>1
    <3>3. \A verdict \in {"sample", "details"} : record[verdict] = "APPROVED" => record'[verdict] = "APPROVED"
      BY <1>3, Zenon DEF Stands
    <3> QED BY <3>1, <3>2, <3>3
  <2>2. CASE ~ Past(s, 1)
    <3>1. 1 \in Uploaders(s)
      BY DEF Uploaders
    <3>2. /\ stage' = stage /\ s = stage /\ thrown' = {} /\ 1 \in Threads
          /\ Left(1)' = 0 /\ Left(1)' # Left(1)
      BY <1>6, <2>2, <3>1, PastBefore
    <3>3. PICK c : c = NextCall(1)
      OBVIOUS
    <3>4. /\ Planned(1) /\ Left(1)' = Left(1) - 1 /\ Left(1) \in Nat
          /\ AnsweredCall(1) \/ c.op \in WaitingOps
      BY <3>2, <3>3, Finishes
    <3>5. Left(1) = 1
      BY <3>2, <3>4
    <3>6. /\ s = 7 => c.op = "evaluateSample"
          /\ s = 10 => c.op = "evaluateShipmentDetails"
      BY <3>2, <3>3, <3>4, <3>5, PlannedAt, Zenon
    <3>7. AnsweredCall(1)
      BY <3>4, <3>6 DEF WaitingOps
    <3>8. PICK r, q : r = record /\ q = record'
      OBVIOUS
    <3>9. /\ s = 7 => q = [r EXCEPT !.sample = "APPROVED"]
          /\ s = 10 => q = [r EXCEPT !.details = "APPROVED"]
      BY <1>0, <3>2, <3>3, <3>6, <3>7, <3>8, HandledRecord, Zenon
    <3>10. "sample" \in DOMAIN r /\ "details" \in DOMAIN r
      BY <1>0, <3>8 DEF Orderly, Record!NewRecord
    <3>11. (s = 7 => q.sample = "APPROVED") /\ (s = 10 => q.details = "APPROVED")
      BY <3>9, <3>10
    <3> QED BY <3>8, <3>11
  <2> QED BY <2>1, <2>2
<1>7. (Past(7, 1)' => record'.sample = "APPROVED") /\ (Past(10, 1)' => record'.details = "APPROVED")
  <2>1. 7 \in {7, 10} /\ 10 \in {7, 10}
    OBVIOUS
  <2> QED BY <1>6, <2>1
<1> QED BY <1>4, <1>5, <1>7, Zenon

\* The answers the script expects.
PhaseNames == <<"PHASE_1", "PHASE_2", "PHASE_3">>

\* What it reads when the record is in one of these phases.
LEMMA PhaseRead ==
  ASSUME NEW r, NEW i \in 1 .. 3, Record!GetShipmentPhase(r) = i
  PROVE  SDK!BuildShipmentPhase(ReturnedPhase(r)) = PhaseNames[i]
<1>1. PhaseName(r) = PhaseNames[i] /\ PhaseName(r) \in SDK!Phase
  BY DEF PhaseName, PhaseNames, SDK!Phase
<1>2. PICK name \in SDK!Phase : name = PhaseName(r)
  BY <1>1
<1>3. SDK!NameIn(SDK!Phase, SDK!Variant(name)) = name
  BY VariantRead
<1> QED BY <1>1, <1>2, <1>3, Zenon DEF SDK!BuildShipmentPhase, ReturnedPhase

\* What it has read is what it expects.
LEMMA PhasesStayPlanned ==
  ASSUME AgreementKept, RecordApproved, PhasesAsPlanned, [DemoNext]_demoVars
  PROVE  PhasesAsPlanned'
<1>0. /\ DemoKept /\ FreshRecord /\ RecordPlanned /\ SigningApart /\ ShipmentKnown
      /\ ScriptKept /\ Orderly(record)
  BY Zenon DEF AgreementKept, DemoKept
<1> SUFFICES ASSUME contested' = {}, NEW i \in 1 .. 3, <<"phase", i>> \in DOMAIN results'
             PROVE  results'[<<"phase", i>>] = PhaseNames[i]
  BY DEF PhasesAsPlanned, PhaseNames
<1>1. contested = {}
  BY <1>0, SigningStays
<1>2. PICK k : k = <<"phase", i>> /\ k # Script!Dropped
  <2>1. <<"phase", i>> # Script!Dropped
    BY DEF Script!Dropped
  <2> QED BY <2>1
<1>3. CASE \A d \in Threads : todo[d] # <<>> /\ Planned(d) => NextCall(d).as # k
  <2>1. k \in DOMAIN results /\ results'[k] = results[k]
    BY <1>2, <1>3, KeptUnder
  <2> QED BY <1>1, <1>2, <2>1 DEF PhasesAsPlanned, PhaseNames
<1>4. ASSUME NEW d \in Threads, todo[d] # <<>>, Planned(d), NextCall(d).as = k
      PROVE  results'[k] = PhaseNames[i]
  <2>1. PICK c : c = NextCall(d)
    OBVIOUS
  <2>2. c.op = "getShipmentPhase"
    BY <1>2, <1>4, <2>1, WhenPlanned, Zenon
  <2>3. stage \in PhaseStages /\ c = LookAtPhase(PhaseLooked(stage))
    BY <1>4, <2>1, <2>2, WhenPlanned, Zenon
  <2>4. i = PhaseLooked(stage)
    BY <1>2, <1>4, <2>1, <2>3 DEF LookAtPhase, Script!Call
  <2>5. Record!GetShipmentPhase(record) = i
    BY <1>0, <1>1, <2>3, <2>4, PhaseIs, Zenon
  <2>6. SDK!BuildShipmentPhase(ReturnedPhase(record)) = PhaseNames[i]
    BY <2>5, PhaseRead
  <2>7. ResultOf(c) = PhaseNames[i]
    BY <2>2, <2>6 DEF ResultOf
  <2>8. CASE k \in DOMAIN results /\ results'[k] = results[k]
    BY <1>1, <1>2, <2>8 DEF PhasesAsPlanned, PhaseNames
  <2>9. ASSUME ~ (k \in DOMAIN results /\ results'[k] = results[k]), NEW e \in Threads, todo[e] # <<>>,
               NEW value, Answered(e, value)
        PROVE  NextCall(e).op = "getShipmentPhase" /\ NextCall(e).as = k
    <3>1. NextCall(e).as = k
      BY <1>2, <2>9, ResultsGrow, Zenon
    <3>2. NextCall(e).op = "getShipmentPhase"
      BY <1>0, <1>2, <2>9, <3>1, CallIsPlanned, WhenPlanned, Zenon
    <3> QED BY <3>1, <3>2
  <2>10. ASSUME ~ (k \in DOMAIN results /\ results'[k] = results[k]) PROVE results'[k] = PhaseNames[i]
    <3>1. results' # results
      BY <1>2, <2>10
    <3>2. ~ UNCHANGED scriptVars /\ ~ NextStage /\ ~ \E e, why : Thrown(e, why)
      BY <3>1, Zenon DEF scriptVars, NextStage, Thrown
    <3>3. ~ Quiet
      <4>1. ASSUME NEW e \in Threads, todo[e] # <<>>, NextCall(e).op \in WaitingOps, NEW value, Answered(e, value)
            PROVE  FALSE
        <5>1. NextCall(e).op = "getShipmentPhase"
          BY <2>9, <2>10, <4>1
        <5> QED BY <4>1, <5>1 DEF WaitingOps
      <4> QED BY <3>2, <4>1, Zenon DEF Quiet
    <3>4. PICK e \in Threads : AnsweredCall(e) /\ Answered(e, ResultOf(NextCall(e)))
      BY <1>0, <3>2, <3>3, Turns, Zenon
    <3>5. todo[e] # <<>>
      BY <3>4, Zenon DEF AnsweredCall, Atomic
    <3>6. NextCall(e).op = "getShipmentPhase" /\ NextCall(e).as = k
      BY <2>9, <2>10, <3>4, <3>5
    <3>7. ResultOf(NextCall(e)) = PhaseNames[i]
      BY <2>6, <3>6 DEF ResultOf
    <3> QED BY <1>2, <3>4, <3>6, <3>7, ResultsGrow, Zenon
  <2> QED BY <2>8, <2>10
<1> QED BY <1>2, <1>3, <1>4

\* In the beginning nothing is approved, and the script has read nothing.
LEMMA InitiallyPlanned ==
  ASSUME DemoInit
  PROVE  RecordApproved /\ PhasesAsPlanned
<1>1. stage = 1 /\ results = <<>>
  BY DEF DemoInit
<1>2. PhasesAsPlanned
  BY <1>1 DEF PhasesAsPlanned
<1>3. stage \notin DocumentStages /\ \A s \in DocumentStages \cup {7, 10} : \A t : ~ Past(s, t)
  BY <1>1 DEF DocumentStages, Past
<1>4. \A s \in DocumentStages : s \in DocumentStages \cup {7, 10}
  OBVIOUS
<1>5. ~ Past(7, 1) /\ ~ Past(10, 1)
  BY <1>1 DEF Past
<1> QED BY <1>2, <1>3, <1>4, <1>5, Zenon DEF RecordApproved

(***************************************************************************)
(* Each step of the shipment is taken in the phase the script expects      *)
(* (populate-demo.ts looks at it before each), and the names survive the   *)
(* variants of the interface: whatever gets lost, and whatever others do,  *)
(* as long as no other shipment takes the id of the script's.  The         *)
(* invariant says what the answered calls have left in the record, and     *)
(* that a document is judged under the id its type has there.              *)
(***************************************************************************)
THEOREM PhasesGoAsPlanned == DemoSpec => []PhasesAsPlanned
<1>1. DemoInit => AgreementKept /\ RecordApproved /\ PhasesAsPlanned
  BY InitiallyAgreementKept, InitiallyPlanned
<1>2. AgreementKept /\ RecordApproved /\ PhasesAsPlanned /\ [DemoNext]_demoVars
        => (AgreementKept /\ RecordApproved /\ PhasesAsPlanned)'
  BY AgreementKeepsOn, RecordApprovedStays, PhasesStayPlanned
<1> QED BY <1>1, <1>2, PTL DEF DemoSpec

================================================================================

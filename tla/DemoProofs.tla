------------------------------- MODULE DemoProofs -------------------------------
(***************************************************************************)
(* Theorems of Demo: the invariant of the script and of what it does to    *)
(* the platform and to the storage canister, and what follows from it.     *)
(***************************************************************************)
EXTENDS Demo, PlatformProofs, WellFoundedInduction

-----------------------------------------------------------------------------
\* Sequences.

\* One sequence and then another.
LEMMA OneThenOther ==
  ASSUME NEW S, NEW a \in Seq(S), NEW b \in Seq(S), NEW r, r = a \o b
  PROVE  /\ r \in Seq(S) /\ Len(r) = Len(a) + Len(b)
         /\ \A i \in 1 .. Len(a) : r[i] = a[i]
         /\ \A i \in 1 .. Len(b) : r[Len(a) + i] = b[i]
OBVIOUS

\* Short sequences.
LEMMA Single ==
  ASSUME NEW S, NEW a \in S
  PROVE  \E s \in Seq(S) : s = <<a>> /\ Len(s) = 1 /\ s[1] = a
<1> WITNESS <<a>> \in Seq(S)
<1> QED OBVIOUS

\* The same of a sequence of two.
LEMMA Pair ==
  ASSUME NEW S, NEW a \in S, NEW b \in S
  PROVE  \E s \in Seq(S) : s = <<a, b>> /\ Len(s) = 2 /\ s[1] = a /\ s[2] = b
<1> WITNESS <<a, b>> \in Seq(S)
<1> QED OBVIOUS

-----------------------------------------------------------------------------
\* The script.

\* CompleteShipment has eight stages.
LEMMA Eight ==
  ASSUME NEW S,
         Script!GetShipmentPhase(1) \in S, Script!AllDocuments(<<"PRE_SHIPMENT_SAMPLE">>) \in S,
         << <<Script!EvaluateSample(Importer)>> >> \in S, Script!GetShipmentPhase(2) \in S,
         Script!AllDocuments(<<"SHIPPING_INSTRUCTIONS", "SHIPPING_NOTE">>) \in S,
         <<Script!UploadAndApproveShipmentDetails>> \in S, Script!GetShipmentPhase(3) \in S,
         Script!AllDocuments(<<"BOOKING_CONFIRMATION">>) \in S
  PROVE  LET s == Script!CompleteShipment IN
         /\ s \in Seq(S) /\ Len(s) = 8
         /\ s[1] = Script!GetShipmentPhase(1)
         /\ s[2] = Script!AllDocuments(<<"PRE_SHIPMENT_SAMPLE">>)
         /\ s[3] = << <<Script!EvaluateSample(Importer)>> >>
         /\ s[4] = Script!GetShipmentPhase(2)
         /\ s[5] = Script!AllDocuments(<<"SHIPPING_INSTRUCTIONS", "SHIPPING_NOTE">>)
         /\ s[6] = <<Script!UploadAndApproveShipmentDetails>>
         /\ s[7] = Script!GetShipmentPhase(3)
         /\ s[8] = Script!AllDocuments(<<"BOOKING_CONFIRMATION">>)
<1>a. PICK a \in S : a = Script!GetShipmentPhase(1)
  BY Zenon
<1>b. PICK b \in S : b = Script!AllDocuments(<<"PRE_SHIPMENT_SAMPLE">>)
  BY Zenon
<1>c. PICK c \in S : c = << <<Script!EvaluateSample(Importer)>> >>
  BY Zenon
<1>d. PICK d \in S : d = Script!GetShipmentPhase(2)
  BY Zenon
<1>e. PICK e \in S : e = Script!AllDocuments(<<"SHIPPING_INSTRUCTIONS", "SHIPPING_NOTE">>)
  BY Zenon
<1>f. PICK f \in S : f = <<Script!UploadAndApproveShipmentDetails>>
  BY Zenon
<1>g. PICK g \in S : g = Script!GetShipmentPhase(3)
  BY Zenon
<1>h. PICK h \in S : h = Script!AllDocuments(<<"BOOKING_CONFIRMATION">>)
  BY Zenon
<1>1. PICK pa \in Seq(S) : pa = <<a>> /\ Len(pa) = 1 /\ pa[1] = a
  BY Single
<1>2. PICK pb \in Seq(S) : pb = <<b, c>> /\ Len(pb) = 2 /\ pb[1] = b /\ pb[2] = c
  BY Pair
<1>3. PICK pd \in Seq(S) : pd = <<d>> /\ Len(pd) = 1 /\ pd[1] = d
  BY Single
<1>4. PICK pe \in Seq(S) : pe = <<e, f>> /\ Len(pe) = 2 /\ pe[1] = e /\ pe[2] = f
  BY Pair
<1>5. PICK pg \in Seq(S) : pg = <<g>> /\ Len(pg) = 1 /\ pg[1] = g
  BY Single
<1>6. PICK ph \in Seq(S) : ph = <<h>> /\ Len(ph) = 1 /\ ph[1] = h
  BY Single
<1>7. PICK s3 : s3 = pa \o pb
  OBVIOUS
<1>8. PICK s4 : s4 = s3 \o pd
  OBVIOUS
<1>9. PICK s6 : s6 = s4 \o pe
  OBVIOUS
<1>10. PICK s7 : s7 = s6 \o pg
  OBVIOUS
<1>11. PICK r8 : r8 = s7 \o ph
  OBVIOUS
<1>21. Script!CompleteShipment = r8
  BY <1>a, <1>b, <1>c, <1>d, <1>e, <1>f, <1>g, <1>h, <1>11, <1>1, <1>2, <1>3, <1>4, <1>5, <1>6, <1>7, <1>8, <1>9, <1>10, Zenon
  DEF Script!CompleteShipment, Script!CompleteSampleApprovalStep,
      Script!CompleteShipmentConfirmationStep, Script!CompleteWaitingForLandTransportationStep
<1>12. /\ s3 \in Seq(S) /\ Len(s3) = Len(pa) + Len(pb)
       /\ \A i \in 1 .. Len(pa) : s3[i] = pa[i]
       /\ \A i \in 1 .. Len(pb) : s3[Len(pa) + i] = pb[i]
  BY <1>7, OneThenOther
<1>13. /\ s4 \in Seq(S) /\ Len(s4) = Len(s3) + Len(pd)
       /\ \A i \in 1 .. Len(s3) : s4[i] = s3[i]
       /\ \A i \in 1 .. Len(pd) : s4[Len(s3) + i] = pd[i]
  <2>1. s3 \in Seq(S)
    BY <1>12
  <2> QED BY <2>1, <1>8, OneThenOther
<1>14. /\ s6 \in Seq(S) /\ Len(s6) = Len(s4) + Len(pe)
       /\ \A i \in 1 .. Len(s4) : s6[i] = s4[i]
       /\ \A i \in 1 .. Len(pe) : s6[Len(s4) + i] = pe[i]
  <2>1. s4 \in Seq(S)
    BY <1>13
  <2> QED BY <2>1, <1>9, OneThenOther
<1>15. /\ s7 \in Seq(S) /\ Len(s7) = Len(s6) + Len(pg)
       /\ \A i \in 1 .. Len(s6) : s7[i] = s6[i]
       /\ \A i \in 1 .. Len(pg) : s7[Len(s6) + i] = pg[i]
  <2>1. s6 \in Seq(S)
    BY <1>14
  <2> QED BY <2>1, <1>10, OneThenOther
<1>16. /\ r8 \in Seq(S) /\ Len(r8) = Len(s7) + Len(ph)
       /\ \A i \in 1 .. Len(s7) : r8[i] = s7[i]
       /\ \A i \in 1 .. Len(ph) : r8[Len(s7) + i] = ph[i]
  <2>1. s7 \in Seq(S)
    BY <1>15
  <2> QED BY <2>1, <1>11, OneThenOther
<1>17. Len(s3) = 3 /\ s3[1] = a /\ s3[2] = b /\ s3[3] = c
  BY <1>1, <1>2, <1>12
<1>18. Len(s4) = 4 /\ s4[1] = a /\ s4[2] = b /\ s4[3] = c /\ s4[4] = d
  BY <1>3, <1>13, <1>17
<1>19. /\ Len(s6) = 6 /\ s6[1] = a /\ s6[2] = b /\ s6[3] = c /\ s6[4] = d /\ s6[5] = e
       /\ s6[6] = f
  BY <1>4, <1>14, <1>18
<1>20. /\ Len(s7) = 7 /\ s7[1] = a /\ s7[2] = b /\ s7[3] = c /\ s7[4] = d /\ s7[5] = e
       /\ s7[6] = f /\ s7[7] = g
  BY <1>5, <1>15, <1>19
<1>22. /\ r8 \in Seq(S) /\ Len(r8) = 8 /\ r8[1] = a /\ r8[2] = b /\ r8[3] = c /\ r8[4] = d
       /\ r8[5] = e /\ r8[6] = f /\ r8[7] = g /\ r8[8] = h
  BY <1>6, <1>16, <1>20
<1> QED BY <1>a, <1>b, <1>c, <1>d, <1>e, <1>f, <1>g, <1>h, <1>21, <1>22, Zenon

\* Main has four more before them.
LEMMA Twelve ==
  ASSUME NEW S, <<Script!Beginning>> \in S, Script!Offers \in S, <<Script!Orders>> \in S,
         << <<Script!SignOrder(Exporter), Script!GetOrder(Exporter)>> >> \in S,
         NEW s8 \in Seq(S), s8 = Script!CompleteShipment
  PROVE  Len(s8) = 8 =>
         LET s == Script!Main IN
         /\ s \in Seq(S) /\ Len(s) = 12
         /\ s[1] = <<Script!Beginning>> /\ s[2] = Script!Offers /\ s[3] = <<Script!Orders>>
         /\ s[4] = << <<Script!SignOrder(Exporter), Script!GetOrder(Exporter)>> >>
         /\ \A i \in 1 .. 8 : s[4 + i] = s8[i]
<1>x. PICK x \in S : x = <<Script!Beginning>>
  BY Zenon
<1>y. PICK y \in S : y = Script!Offers
  BY Zenon
<1>z. PICK z \in S : z = <<Script!Orders>>
  BY Zenon
<1>w. PICK w \in S : w = << <<Script!SignOrder(Exporter), Script!GetOrder(Exporter)>> >>
  BY Zenon
<1>1. PICK p \in Seq(S) : p = <<w>> /\ Len(p) = 1 /\ p[1] = w
  BY Single
<1>2. PICK q \in Seq(S) : q = <<x, y, z>> /\ Len(q) = 3 /\ q[1] = x /\ q[2] = y /\ q[3] = z
  <2> WITNESS <<x, y, z>> \in Seq(S)
  <2> QED OBVIOUS
<1>3. PICK s9 : s9 = p \o s8
  OBVIOUS
<1>4. PICK s12 : s12 = q \o s9
  OBVIOUS
<1>10. s12 = Script!Main
  BY <1>1, <1>2, <1>3, <1>4, <1>x, <1>y, <1>z, <1>w, Zenon DEF Script!Main, Script!CompleteOrder
<1>5. /\ s9 \in Seq(S) /\ Len(s9) = Len(p) + Len(s8)
      /\ \A i \in 1 .. Len(p) : s9[i] = p[i]
      /\ \A i \in 1 .. Len(s8) : s9[Len(p) + i] = s8[i]
  BY <1>3, OneThenOther
<1>6. /\ s12 \in Seq(S) /\ Len(s12) = Len(q) + Len(s9)
      /\ \A i \in 1 .. Len(q) : s12[i] = q[i]
      /\ \A i \in 1 .. Len(s9) : s12[Len(q) + i] = s9[i]
  <2>1. s9 \in Seq(S)
    BY <1>5
  <2> QED BY <2>1, <1>4, OneThenOther
<1> HAVE Len(s8) = 8
<1>7. Len(s9) = 9 /\ s9[1] = w /\ \A i \in 1 .. 8 : s9[1 + i] = s8[i]
  BY <1>1, <1>5
<1>8. Len(s12) = 12 /\ s12[1] = x /\ s12[2] = y /\ s12[3] = z /\ s12[4] = w
  <2>1. /\ Len(s12) = Len(q) + Len(s9) /\ Len(q) = 3 /\ Len(s9) = 9
        /\ (\A i \in 1 .. Len(q) : s12[i] = q[i]) /\ s12[Len(q) + 1] = s9[1]
    <3>1. 1 \in 1 .. Len(s9)
      BY <1>7
    <3> QED BY <1>2, <1>6, <1>7, <3>1, Zenon
  <2>2. Len(s12) = 12 /\ s12[4] = s9[1]
    BY <2>1
  <2> QED BY <1>2, <1>7, <2>1, <2>2
<1>9. \A i \in 1 .. 8 : s12[4 + i] = s8[i]
  <2> TAKE i \in 1 .. 8
  <2>1. 1 + i \in 1 .. 9 /\ 3 + (1 + i) = 4 + i
    OBVIOUS
  <2>2. s12[3 + (1 + i)] = s9[1 + i]
    BY <1>2, <1>6, <1>7, <2>1
  <2> QED BY <1>7, <2>1, <2>2
<1>11. s12 \in Seq(S)
  BY <1>6
<1> QED BY <1>8, <1>9, <1>10, <1>11, <1>x, <1>y, <1>z, <1>w, Zenon

\* The stages of the script.
LEMMA Stages ==
  LET M == Script!Main IN
  /\ DOMAIN M = 1 .. 12 /\ Len(M) = 12
  /\ M[1] = <<Script!Beginning>> /\ M[2] = Script!Offers /\ M[3] = <<Script!Orders>>
  /\ M[4] = << <<Script!SignOrder(Exporter), Script!GetOrder(Exporter)>> >>
  /\ M[5] = Script!GetShipmentPhase(1)
  /\ M[6] = Script!AllDocuments(<<"PRE_SHIPMENT_SAMPLE">>)
  /\ M[7] = << <<Script!EvaluateSample(Importer)>> >>
  /\ M[8] = Script!GetShipmentPhase(2)
  /\ M[9] = Script!AllDocuments(<<"SHIPPING_INSTRUCTIONS", "SHIPPING_NOTE">>)
  /\ M[10] = <<Script!UploadAndApproveShipmentDetails>>
  /\ M[11] = Script!GetShipmentPhase(3)
  /\ M[12] = Script!AllDocuments(<<"BOOKING_CONFIRMATION">>)
<1>1. PICK S :
        /\ <<Script!Beginning>> \in S /\ Script!Offers \in S /\ <<Script!Orders>> \in S
        /\ << <<Script!SignOrder(Exporter), Script!GetOrder(Exporter)>> >> \in S
        /\ Script!GetShipmentPhase(1) \in S /\ Script!AllDocuments(<<"PRE_SHIPMENT_SAMPLE">>) \in S
        /\ << <<Script!EvaluateSample(Importer)>> >> \in S /\ Script!GetShipmentPhase(2) \in S
        /\ Script!AllDocuments(<<"SHIPPING_INSTRUCTIONS", "SHIPPING_NOTE">>) \in S
        /\ <<Script!UploadAndApproveShipmentDetails>> \in S /\ Script!GetShipmentPhase(3) \in S
        /\ Script!AllDocuments(<<"BOOKING_CONFIRMATION">>) \in S
  <2> WITNESS {<<Script!Beginning>>, Script!Offers, <<Script!Orders>>,
               << <<Script!SignOrder(Exporter), Script!GetOrder(Exporter)>> >>,
               Script!GetShipmentPhase(1), Script!AllDocuments(<<"PRE_SHIPMENT_SAMPLE">>),
               << <<Script!EvaluateSample(Importer)>> >>, Script!GetShipmentPhase(2),
               Script!AllDocuments(<<"SHIPPING_INSTRUCTIONS", "SHIPPING_NOTE">>),
               <<Script!UploadAndApproveShipmentDetails>>, Script!GetShipmentPhase(3),
               Script!AllDocuments(<<"BOOKING_CONFIRMATION">>)}
  <2> QED BY Zenon
<1>2. LET s == Script!CompleteShipment IN
         /\ s \in Seq(S) /\ Len(s) = 8
         /\ s[1] = Script!GetShipmentPhase(1)
         /\ s[2] = Script!AllDocuments(<<"PRE_SHIPMENT_SAMPLE">>)
         /\ s[3] = << <<Script!EvaluateSample(Importer)>> >>
         /\ s[4] = Script!GetShipmentPhase(2)
         /\ s[5] = Script!AllDocuments(<<"SHIPPING_INSTRUCTIONS", "SHIPPING_NOTE">>)
         /\ s[6] = <<Script!UploadAndApproveShipmentDetails>>
         /\ s[7] = Script!GetShipmentPhase(3)
         /\ s[8] = Script!AllDocuments(<<"BOOKING_CONFIRMATION">>)
  BY <1>1, Eight, Zenon
<1>3. PICK s8 \in Seq(S) : s8 = Script!CompleteShipment
  BY <1>2, Zenon
<1>4. LET s == Script!Main IN
         /\ s \in Seq(S) /\ Len(s) = 12
         /\ s[1] = <<Script!Beginning>> /\ s[2] = Script!Offers /\ s[3] = <<Script!Orders>>
         /\ s[4] = << <<Script!SignOrder(Exporter), Script!GetOrder(Exporter)>> >>
         /\ \A i \in 1 .. 8 : s[4 + i] = s8[i]
  <2>1. Len(s8) = 8
    BY <1>2, <1>3, Zenon
  <2> QED BY <1>1, <1>3, <2>1, Twelve, Zenon
<1>5. PICK M : M = Script!Main
  OBVIOUS
<1>6. M \in Seq(S) /\ Len(M) = 12 /\ \A i \in 1 .. 8 : M[4 + i] = s8[i]
  BY <1>4, <1>5, Zenon
<1>7. /\ DOMAIN M = 1 .. 12
      /\ M[5] = s8[1] /\ M[6] = s8[2] /\ M[7] = s8[3] /\ M[8] = s8[4] /\ M[9] = s8[5]
      /\ M[10] = s8[6] /\ M[11] = s8[7] /\ M[12] = s8[8]
  BY <1>6
<1> QED BY <1>2, <1>3, <1>4, <1>5, <1>7, Zenon

\* What the first three stages call.
EarlyOps ==
  {"siwe_prepare_login", "siwe_login", "siwe_get_delegation", "authenticate",
   "getProductCategories", "createMaterial", "createAssetOperation", "createOffer",
   "createOrganization", "createBusinessRelation", "create_file", "registerCompanyCertificate",
   "createOrder"}

Early(c) ==
  /\ c.op \in EarlyOps /\ c.user \in {Exporter, Importer}
  /\ c.as[1] \in {"dropped", "material", "report", "order"}
  /\ c.op = "create_file" => c.as = <<"report", 0>> /\ c.args.content = <<"pdf">>

\* A call without arguments is one of the first three stages by its operation alone.
LEMMA EarlyDo ==
  ASSUME NEW op \in EarlyOps \ {"create_file"}, NEW user \in {Exporter, Importer}
  PROVE  Early(Script!Do(op, user))
BY DEF Early, Script!Do, Script!Call, Script!Dropped

\* The materials of mockMaterials are created in the first stage, by one of the two users.
LEMMA EarlyMaterials == \A k \in 1 .. 8 : Early(Script!CreateMaterial(k - 1))
<1>1. /\ DOMAIN Script!MockMaterials = 1 .. 8
      /\ \A k \in 1 .. 8 : Script!MockMaterials[k].user \in {Exporter, Importer}
  BY DEF Script!MockMaterials
<1> TAKE k \in 1 .. 8
<1>2. (k - 1) + 1 = k
  OBVIOUS
<1>3. Script!MockMaterials[(k - 1) + 1].user \in {Exporter, Importer}
  BY <1>1, <1>2
<1>4. PICK u \in {Exporter, Importer} : u = Script!MockMaterials[(k - 1) + 1].user
  BY <1>3
<1>5. /\ Script!CreateMaterial(k - 1).op = "createMaterial"
      /\ Script!CreateMaterial(k - 1).user = Script!MockMaterials[(k - 1) + 1].user
      /\ Script!CreateMaterial(k - 1).as = <<"material", k - 1>>
  BY DEF Script!CreateMaterial, Script!Call, Script!Material
<1> QED BY <1>3, <1>5 DEF Early, EarlyOps

\* What the two parts of a sequence are made of makes the whole.
LEMMA Both ==
  ASSUME NEW S, NEW a, NEW b, a \in Seq(S), b \in Seq(S)
  PROVE  a \o b \in Seq(S)
OBVIOUS

\* The first stage makes early calls only.
LEMMA BeginningEarly ==
  /\ \E S : Script!Beginning \in Seq(S) /\ \A c \in S : Early(c)
<1> DEFINE D(op, user) == Script!Do(op, user)
           S == {Script!CreateMaterial(k - 1) : k \in 1 .. 8} \cup
                {D("siwe_prepare_login", Exporter), D("siwe_login", Exporter),
                 D("siwe_get_delegation", Exporter), D("siwe_prepare_login", Importer),
                 D("siwe_login", Importer), D("siwe_get_delegation", Importer),
                 D("authenticate", Exporter), D("authenticate", Importer),
                 D("getProductCategories", Exporter), Script!CreateAssetOperation(Exporter)}
<1>1. \A c \in S : Early(c)
  <2>1. \A op \in EarlyOps \ {"create_file"}, user \in {Exporter, Importer} : Early(D(op, user))
    BY EarlyDo
  <2>2. \A op \in {"siwe_prepare_login", "siwe_login", "siwe_get_delegation", "authenticate",
                   "getProductCategories"} : op \in EarlyOps \ {"create_file"}
    BY DEF EarlyOps
  <2>3. Early(Script!CreateAssetOperation(Exporter))
    BY DEF Early, EarlyOps, Script!CreateAssetOperation, Script!Call, Script!Dropped
  <2> HIDE DEF D
  <2>4. /\ \A user \in {Exporter, Importer} :
             /\ Early(D("siwe_prepare_login", user)) /\ Early(D("siwe_login", user))
             /\ Early(D("siwe_get_delegation", user)) /\ Early(D("authenticate", user))
             /\ Early(D("getProductCategories", user))
    BY <2>1, <2>2
  <2>5. Exporter \in {Exporter, Importer} /\ Importer \in {Exporter, Importer}
    OBVIOUS
  <2> TAKE c \in S
  <2>6. CASE c \in {Script!CreateMaterial(k - 1) : k \in 1 .. 8}
    BY <2>6, EarlyMaterials
  <2>7. CASE c = Script!CreateAssetOperation(Exporter)
    BY <2>3, <2>7, Zenon
  <2>8. CASE c \in {D("siwe_prepare_login", Exporter), D("siwe_login", Exporter),
                 D("siwe_get_delegation", Exporter), D("siwe_prepare_login", Importer),
                 D("siwe_login", Importer), D("siwe_get_delegation", Importer),
                 D("authenticate", Exporter), D("authenticate", Importer),
                 D("getProductCategories", Exporter)}
    BY <2>4, <2>5, <2>8, Zenon
  <2> QED BY <2>6, <2>7, <2>8, Zenon
<1>2. \A u \in {Exporter, Importer} : Script!PrepareLogin(u) \in Seq(S)
  <2> TAKE u \in {Exporter, Importer}
  <2>1. D("siwe_prepare_login", u) \in S /\ D("siwe_login", u) \in S /\ D("siwe_get_delegation", u) \in S
    BY Zenon
  <2> HIDE DEF S
  <2> QED BY <2>1 DEF Script!PrepareLogin, Script!CreateIdentity
<1>3. <<Script!Authenticate(Exporter), Script!Authenticate(Importer),
        Script!GetProductCategories(Exporter)>> \in Seq(S)
  <2>1. D("authenticate", Exporter) \in S /\ D("authenticate", Importer) \in S
        /\ D("getProductCategories", Exporter) \in S
    BY Zenon
  <2> HIDE DEF S
  <2> QED BY <2>1 DEF Script!Authenticate, Script!GetProductCategories
<1>4. [k \in DOMAIN Script!MockMaterials |-> Script!CreateMaterial(k - 1)] \in Seq(S)
  <2>1. DOMAIN Script!MockMaterials = 1 .. 8
    BY DEF Script!MockMaterials
  <2>2. \A k \in 1 .. 8 : Script!CreateMaterial(k - 1) \in S
    BY Zenon
  <2> HIDE DEF S
  <2> QED BY <2>1, <2>2
<1>5. <<Script!CreateAssetOperation(Exporter)>> \in Seq(S)
  <2>1. Script!CreateAssetOperation(Exporter) \in S
    BY Zenon
  <2> HIDE DEF S
  <2> QED BY <2>1
<1> HIDE DEF S
<1>6. Script!Beginning \in Seq(S)
  BY <1>2, <1>3, <1>4, <1>5, Both, Zenon DEF Script!Beginning
<1> QED BY <1>1, <1>6, Zenon

\* So does the third,
LEMMA OrdersEarly ==
  /\ \E S : Script!Orders \in Seq(S) /\ \A c \in S : Early(c)
<1> DEFINE S == {Script!CreateOrganization(Exporter), Script!CreateOrganization(Importer),
                 Script!AddDocumentToExtStorage(Exporter),
                 Script!Do("registerCompanyCertificate", Exporter),
                 Script!CreateOrder(Importer, 0, Script!Material(0), Script!Material(2)),
                 Script!CreateOrder(Importer, 1, Script!Material(1), Script!Material(3)),
                 Script!DiscloseOrganization(Importer, Exporter)}
<1>1. \A c \in S : Early(c)
  <2>1. \A op \in {"createOrganization", "registerCompanyCertificate"} :
           op \in EarlyOps \ {"create_file"}
    BY DEF EarlyOps
  <2>2. \A user \in {Exporter, Importer} : Early(Script!CreateOrganization(user))
    BY <2>1, EarlyDo DEF Script!CreateOrganization
  <2>3. Early(Script!Do("registerCompanyCertificate", Exporter))
    BY <2>1, EarlyDo
  <2>4. Early(Script!AddDocumentToExtStorage(Exporter))
    BY DEF Early, EarlyOps, Script!AddDocumentToExtStorage, Script!Create, Script!Call
  <2>5. \A i \in {0, 1} : \A m, n : Early(Script!CreateOrder(Importer, i, m, n))
    BY DEF Early, EarlyOps, Script!CreateOrder, Script!Call
  <2>6. Early(Script!DiscloseOrganization(Importer, Exporter))
    BY DEF Early, EarlyOps, Script!DiscloseOrganization, Script!Call, Script!Dropped
  <2> QED BY <2>2, <2>3, <2>4, <2>5, <2>6, Zenon
<1>2. /\ Script!CreateOrganization(Exporter) \in S /\ Script!CreateOrganization(Importer) \in S
      /\ Script!AddDocumentToExtStorage(Exporter) \in S
      /\ Script!Do("registerCompanyCertificate", Exporter) \in S
      /\ Script!CreateOrder(Importer, 0, Script!Material(0), Script!Material(2)) \in S
      /\ Script!CreateOrder(Importer, 1, Script!Material(1), Script!Material(3)) \in S
      /\ Script!DiscloseOrganization(Importer, Exporter) \in S
  BY Zenon
<1> HIDE DEF S
<1>3. <<Script!CreateOrganization(Exporter), Script!CreateOrganization(Importer)>> \in Seq(S)
  BY <1>2
<1>4. Script!CreateCompanyCertification(Exporter) \in Seq(S)
  BY <1>2 DEF Script!CreateCompanyCertification, Script!RegisterCompanyCertificate
<1>5. <<Script!CreateOrder(Importer, 0, Script!Material(0), Script!Material(2)),
        Script!CreateOrder(Importer, 1, Script!Material(1), Script!Material(3)),
        Script!DiscloseOrganization(Importer, Exporter)>> \in Seq(S)
  BY <1>2
<1>6. Script!Orders \in Seq(S)
  BY <1>3, <1>4, <1>5, Both, Zenon DEF Script!Orders
<1> QED BY <1>1, <1>6, Zenon

\* and the second, where each offer is a branch of its own.
LEMMA OffersEarly ==
  \A k \in DOMAIN Script!Offers :
    Len(Script!Offers[k]) = 1 /\ DOMAIN Script!Offers[k] = {1} /\ Early(Script!Offers[k][1])
<1> TAKE k \in DOMAIN Script!Offers
<1>1. Script!Offers[k] = <<Script!CreateOffer(Exporter, Script!Material(Script!OfferedMaterials[k]))>>
  BY DEF Script!Offers
<1>2. \A m : Early(Script!CreateOffer(Exporter, m))
  BY DEF Early, EarlyOps, Script!CreateOffer, Script!Call, Script!Dropped
<1> QED BY <1>1, <1>2

\* The stages that look at the phase, and those that upload documents.
PhaseStages == {5, 8, 11}
PhaseLooked(s) == IF s = 5 THEN 1 ELSE IF s = 8 THEN 2 ELSE 3
DocumentStages == {6, 9, 12}
Uploaders(s) == IF s = 9 THEN {1, 2} ELSE {1}
TypeOf(s, t) ==
  IF s = 6 THEN "PRE_SHIPMENT_SAMPLE"
  ELSE IF s = 12 THEN "BOOKING_CONFIRMATION"
  ELSE IF t = 1 THEN "SHIPPING_INSTRUCTIONS" ELSE "SHIPPING_NOTE"

CreateFileOf(type) == Script!Create(Exporter, <<"file", type>>, Script!DocumentUrl, "pdf")
CreateMetadataOf(type) ==
  Script!Create(Exporter, <<"metadata", type>>, Script!MetadataUrl(Script!DocumentUrl), type)
AddDocumentOf(type) ==
  Script!Call("addDocument", Exporter, <<"document", type>>,
              [type |-> type, externalUrl |-> Script!DocumentUrl])
ApproveDocumentOf(type) == Script!ApproveDocument(Importer, type)
LookAtPhase(i) == Script!Call("getShipmentPhase", Exporter, <<"phase", i>>, <<>>)

\* What a branch b of stage s calls in thread t.
FitsEarly(b) == \A i \in 1 .. Len(b) : Early(b[i])
FitsSigning(b) == Len(b) = 2 /\ b[1] = Script!SignOrder(Exporter) /\ b[2] = Script!GetOrder(Exporter)
FitsLook(s, b) == Len(b) = 1 /\ b[1] = LookAtPhase(PhaseLooked(s))
FitsSample(b) == Len(b) = 1 /\ b[1] = Script!EvaluateSample(Importer)
FitsDetails(b) ==
  Len(b) = 2 /\ b[1] = Script!SetShipmentDetails(Exporter) /\ b[2] = Script!ApproveShipmentDetails(Importer)
FitsDocument(type, b) ==
  /\ Len(b) = 4 /\ b[1] = CreateFileOf(type) /\ b[2] = CreateMetadataOf(type)
  /\ b[3] = AddDocumentOf(type) /\ b[4] = ApproveDocumentOf(type)

Fits(s, t, b) ==
  /\ s \in 1 .. 3 => FitsEarly(b)
  /\ s \in 4 .. 12 => t \in Uploaders(s)
  /\ s = 4 => FitsSigning(b)
  /\ s \in PhaseStages => FitsLook(s, b)
  /\ s = 7 => FitsSample(b)
  /\ s = 10 => FitsDetails(b)
  /\ s \in DocumentStages => FitsDocument(TypeOf(s, t), b)

\* The branches of a stage with one.
LEMMA OneBranch ==
  ASSUME NEW b PROVE DOMAIN <<b>> = {1} /\ <<b>>[1] = b
OBVIOUS

\* The branches of a stage that uploads documents.
LEMMA DocumentBranch ==
  ASSUME NEW type
  PROVE  LET b == Script!UploadAndApproveDocument(type) IN
         b = [i \in 1 .. 4 |-> b[i]] /\ FitsDocument(type, b)
<1>1. PICK a, c, d, e :
        /\ a = CreateFileOf(type) /\ c = CreateMetadataOf(type)
        /\ d = AddDocumentOf(type) /\ e = ApproveDocumentOf(type)
  OBVIOUS
<1>2. Script!UploadAndApproveDocument(type) = Append(<<a, c, d>>, e)
  BY <1>1, Zenon
  DEF Script!UploadAndApproveDocument, Script!UploadDocument, Script!AddDocument, CreateFileOf,
      CreateMetadataOf, AddDocumentOf, ApproveDocumentOf
<1> DEFINE S == {a, c, d, e}
<1>3. PICK q \in Seq(S) : q = <<a, c, d>> /\ Len(q) = 3 /\ q[1] = a /\ q[2] = c /\ q[3] = d
  <2> WITNESS <<a, c, d>> \in Seq(S)
  <2> QED OBVIOUS
<1>4. PICK b : b = Append(q, e)
  OBVIOUS
<1>5. b = [i \in 1 .. 4 |-> b[i]] /\ Len(b) = 4 /\ b[1] = a /\ b[2] = c /\ b[3] = d /\ b[4] = e
  <2>1. e \in S
    OBVIOUS
  <2> HIDE DEF S
  <2>2. /\ b \in Seq(S) /\ Len(b) = Len(q) + 1 /\ b[Len(q) + 1] = e
        /\ \A i \in 1 .. Len(q) : b[i] = q[i]
    BY <1>4, <2>1
  <2>3. Len(q) = 3 /\ q[1] = a /\ q[2] = c /\ q[3] = d
    BY <1>3
  <2> QED BY <2>2, <2>3
<1> HIDE DEF S
<1> QED BY <1>1, <1>2, <1>3, <1>4, <1>5, Zenon DEF FitsDocument

\* Promise.all has one branch for every document.
LEMMA AllBranches ==
  /\ \A type : LET b == Script!AllDocuments(<<type>>) IN
       DOMAIN b = {1} /\ b[1] = Script!UploadAndApproveDocument(type)
  /\ \A one, two : LET b == Script!AllDocuments(<<one, two>>) IN
       /\ DOMAIN b = {1, 2} /\ b[1] = Script!UploadAndApproveDocument(one)
       /\ b[2] = Script!UploadAndApproveDocument(two)
<1>1. \A type : DOMAIN <<type>> = {1} /\ <<type>>[1] = type
  OBVIOUS
<1>2. \A one, two : DOMAIN <<one, two>> = {1, 2} /\ <<one, two>>[1] = one /\ <<one, two>>[2] = two
  OBVIOUS
<1>3. ASSUME NEW type
      PROVE  LET b == Script!AllDocuments(<<type>>) IN
             DOMAIN b = {1} /\ b[1] = Script!UploadAndApproveDocument(type)
  <2>1. PICK types : types = <<type>>
    OBVIOUS
  <2>2. DOMAIN types = {1} /\ types[1] = type
    BY <2>1, <1>1
  <2> QED BY <2>1, <2>2, Zenon DEF Script!AllDocuments
<1>4. ASSUME NEW one, NEW two
      PROVE  LET b == Script!AllDocuments(<<one, two>>) IN
             /\ DOMAIN b = {1, 2} /\ b[1] = Script!UploadAndApproveDocument(one)
             /\ b[2] = Script!UploadAndApproveDocument(two)
  <2>1. PICK types : types = <<one, two>>
    OBVIOUS
  <2>2. DOMAIN types = {1, 2} /\ types[1] = one /\ types[2] = two
    BY <2>1, <1>2
  <2> QED BY <2>1, <2>2, Zenon DEF Script!AllDocuments
<1> QED BY <1>3, <1>4, Zenon

\* Every branch of the script, one stage after the other.
LEMMA Branching ==
  ASSUME NEW s \in 1 .. 12, NEW t \in Threads
  PROVE  LET b == Branches(s)[t] IN
         /\ b = <<>> \/ Fits(s, t, b)
         /\ Len(b) \in Nat /\ b = [i \in 1 .. Len(b) |-> b[i]]
<1> DEFINE Good(b) == /\ b = <<>> \/ Fits(s, t, b)
                      /\ Len(b) \in Nat /\ b = [i \in 1 .. Len(b) |-> b[i]]
<1>1. Good(<<>>)
  OBVIOUS
<1>2. Branches(s)[t] = IF t \in DOMAIN Script!Main[s] THEN Script!Main[s][t] ELSE <<>>
  BY DEF Branches
<1>3. SUFFICES ASSUME t \in DOMAIN Script!Main[s] PROVE Good(Script!Main[s][t])
  BY <1>1, <1>2, Zenon
<1>4. \A S : \A b \in Seq(S) : Len(b) \in Nat /\ b = [i \in 1 .. Len(b) |-> b[i]] /\ \A i \in 1 .. Len(b) : b[i] \in S
  OBVIOUS
<1>5. CASE s = 1
  <2>1. Script!Main[s][t] = Script!Beginning
    BY <1>3, <1>5, Stages, OneBranch, Zenon
  <2>2. PICK S : Script!Beginning \in Seq(S) /\ \A c \in S : Early(c)
    BY BeginningEarly, Zenon
  <2>3. PICK b : b = Script!Beginning
    OBVIOUS
  <2>4. /\ Len(b) \in Nat /\ b = [i \in 1 .. Len(b) |-> b[i]]
        /\ \A i \in 1 .. Len(b) : Early(b[i])
    BY <1>4, <2>2, <2>3, Zenon
  <2>5. Fits(s, t, b)
    BY <1>5, <2>4 DEF Fits, FitsEarly, PhaseStages, DocumentStages
  <2> QED BY <2>1, <2>3, <2>4, <2>5, Zenon
<1>6. CASE s = 2
  <2>1. Script!Main[s] = Script!Offers
    BY <1>6, Stages, Zenon
  <2>2. Len(Script!Main[s][t]) = 1 /\ Early(Script!Main[s][t][1])
    BY <1>3, <2>1, OffersEarly, Zenon
  <2>3. \E c : Script!Main[s][t] = <<c>>
    BY <1>3, <2>1, Zenon DEF Script!Offers
  <2>4. PICK b : b = Script!Main[s][t]
    OBVIOUS
  <2>5. Len(b) = 1 /\ Len(b) \in Nat /\ b = [i \in 1 .. Len(b) |-> b[i]]
    BY <2>3, <2>4
  <2>6. \A i \in 1 .. Len(b) : Early(b[i])
    BY <2>2, <2>4, <2>5
  <2>7. Fits(s, t, b)
    BY <1>6, <2>6 DEF Fits, FitsEarly, PhaseStages, DocumentStages
  <2> QED BY <2>4, <2>5, <2>7, Zenon
<1>7. CASE s = 3
  <2>1. Script!Main[s][t] = Script!Orders
    BY <1>3, <1>7, Stages, OneBranch, Zenon
  <2>2. PICK S : Script!Orders \in Seq(S) /\ \A c \in S : Early(c)
    BY OrdersEarly, Zenon
  <2>3. PICK b : b = Script!Orders
    OBVIOUS
  <2>4. /\ Len(b) \in Nat /\ b = [i \in 1 .. Len(b) |-> b[i]]
        /\ \A i \in 1 .. Len(b) : Early(b[i])
    BY <1>4, <2>2, <2>3, Zenon
  <2>5. Fits(s, t, b)
    BY <1>7, <2>4 DEF Fits, FitsEarly, PhaseStages, DocumentStages
  <2> QED BY <2>1, <2>3, <2>4, <2>5, Zenon
<1>8. CASE s = 4
  <2>1. /\ t = 1 /\ Script!Main[s][t] = <<Script!SignOrder(Exporter), Script!GetOrder(Exporter)>>
    <3>1. Script!Main[s] = << <<Script!SignOrder(Exporter), Script!GetOrder(Exporter)>> >>
      BY <1>8, Stages, Zenon
    <3>2. PICK c : c = <<Script!SignOrder(Exporter), Script!GetOrder(Exporter)>>
      OBVIOUS
    <3> QED BY <1>3, <3>1, <3>2, OneBranch
  <2>2. PICK c, d : c = Script!SignOrder(Exporter) /\ d = Script!GetOrder(Exporter)
    OBVIOUS
  <2>3. PICK b : b = <<c, d>>
    OBVIOUS
  <2>4. b = [i \in 1 .. Len(b) |-> b[i]] /\ Len(b) = 2 /\ b[1] = c /\ b[2] = d
    BY <2>3
  <2>5. Fits(s, t, b)
    BY <1>8, <2>1, <2>2, <2>4 DEF Fits, FitsSigning, PhaseStages, DocumentStages, Uploaders
  <2>6. Len(b) \in Nat
    BY <2>4
  <2> QED BY <2>1, <2>2, <2>3, <2>4, <2>5, <2>6, Zenon
<1>9. CASE s \in PhaseStages
  <2>1. Script!Main[s] = Script!GetShipmentPhase(PhaseLooked(s))
    BY <1>9, Stages DEF PhaseStages, PhaseLooked
  <2>2. PICK c : c = LookAtPhase(PhaseLooked(s))
    OBVIOUS
  <2>3. t = 1 /\ Script!Main[s][t] = <<c>>
    BY <1>3, <2>1, <2>2, OneBranch, Zenon DEF Script!GetShipmentPhase, LookAtPhase
  <2>4. PICK b : b = <<c>>
    OBVIOUS
  <2>5. b = [i \in 1 .. Len(b) |-> b[i]] /\ Len(b) = 1 /\ b[1] = c
    BY <2>4
  <2>6. Fits(s, t, b)
    BY <1>9, <2>2, <2>3, <2>5 DEF Fits, FitsLook, PhaseStages, DocumentStages, Uploaders
  <2>7. Len(b) \in Nat
    BY <2>5
  <2> QED BY <2>3, <2>4, <2>5, <2>6, <2>7, Zenon
<1>10. CASE s = 7
  <2>1. PICK c : c = Script!EvaluateSample(Importer)
    OBVIOUS
  <2>2. t = 1 /\ Script!Main[s][t] = <<c>>
    <3>1. Script!Main[s] = << <<c>> >>
      BY <1>10, <2>1, Stages, Zenon
    <3> QED BY <1>3, <3>1, OneBranch
  <2>3. PICK b : b = <<c>>
    OBVIOUS
  <2>4. b = [i \in 1 .. Len(b) |-> b[i]] /\ Len(b) = 1 /\ b[1] = c
    BY <2>3
  <2>5. Fits(s, t, b)
    BY <1>10, <2>1, <2>2, <2>4 DEF Fits, FitsSample, PhaseStages, DocumentStages, Uploaders
  <2>6. Len(b) \in Nat
    BY <2>4
  <2> QED BY <2>2, <2>3, <2>4, <2>5, <2>6, Zenon
<1>11. CASE s = 10
  <2>1. t = 1 /\ Script!Main[s][t] = Script!UploadAndApproveShipmentDetails
    <3>1. PICK c : c = Script!UploadAndApproveShipmentDetails
      OBVIOUS
    <3>2. Script!Main[s] = <<c>>
      BY <1>11, <3>1, Stages, Zenon
    <3> QED BY <1>3, <3>1, <3>2, OneBranch
  <2>2. PICK c, d : c = Script!SetShipmentDetails(Exporter) /\ d = Script!ApproveShipmentDetails(Importer)
    OBVIOUS
  <2>3. PICK b : b = <<c, d>>
    OBVIOUS
  <2>4. b = [i \in 1 .. Len(b) |-> b[i]] /\ Len(b) = 2 /\ b[1] = c /\ b[2] = d
    BY <2>3
  <2>5. Fits(s, t, b)
    BY <1>11, <2>1, <2>2, <2>4 DEF Fits, FitsDetails, PhaseStages, DocumentStages, Uploaders
  <2>6. Len(b) \in Nat
    BY <2>4
  <2> QED BY <2>1, <2>2, <2>3, <2>4, <2>5, <2>6, Zenon DEF Script!UploadAndApproveShipmentDetails
<1>12. CASE s \in DocumentStages
  <2>1. /\ t \in Uploaders(s)
        /\ Script!Main[s][t] = Script!UploadAndApproveDocument(TypeOf(s, t))
    <3>1. CASE s = 6
      <4>1. t = 1 /\ Script!Main[s][t] = Script!UploadAndApproveDocument("PRE_SHIPMENT_SAMPLE")
        BY <1>3, <3>1, Stages, AllBranches, Zenon
      <4> QED BY <3>1, <4>1 DEF Uploaders, TypeOf
    <3>2. CASE s = 12
      <4>1. t = 1 /\ Script!Main[s][t] = Script!UploadAndApproveDocument("BOOKING_CONFIRMATION")
        <5>1. Script!Main[s] = Script!AllDocuments(<<"BOOKING_CONFIRMATION">>)
          BY <3>2, Stages, Zenon
        <5> QED BY <1>3, <5>1, AllBranches, Zenon
      <4> QED BY <3>2, <4>1 DEF Uploaders, TypeOf
    <3>3. CASE s = 9
      <4>1. /\ t \in {1, 2}
            /\ t = 1 => Script!Main[s][t] = Script!UploadAndApproveDocument("SHIPPING_INSTRUCTIONS")
            /\ t = 2 => Script!Main[s][t] = Script!UploadAndApproveDocument("SHIPPING_NOTE")
        <5>1. Script!Main[s] = Script!AllDocuments(<<"SHIPPING_INSTRUCTIONS", "SHIPPING_NOTE">>)
          BY <3>3, Stages, Zenon
        <5>2. PICK b : b = Script!AllDocuments(<<"SHIPPING_INSTRUCTIONS", "SHIPPING_NOTE">>)
          OBVIOUS
        <5>3. /\ DOMAIN b = {1, 2} /\ b[1] = Script!UploadAndApproveDocument("SHIPPING_INSTRUCTIONS")
              /\ b[2] = Script!UploadAndApproveDocument("SHIPPING_NOTE")
          BY <5>2, AllBranches, Zenon
        <5> QED BY <1>3, <5>1, <5>2, <5>3
      <4> QED BY <3>3, <4>1 DEF Uploaders, TypeOf
    <3> QED BY <1>12, <3>1, <3>2, <3>3 DEF DocumentStages
  <2>2. PICK type : type = TypeOf(s, t)
    OBVIOUS
  <2>3. PICK b : b = Script!UploadAndApproveDocument(type)
    OBVIOUS
  <2>4. b = [i \in 1 .. 4 |-> b[i]] /\ FitsDocument(type, b)
    BY <2>3, DocumentBranch, Zenon
  <2>5. Len(b) = 4 /\ Len(b) \in Nat
    BY <2>4 DEF FitsDocument
  <2>6. Fits(s, t, b)
    BY <1>12, <2>1, <2>2, <2>4 DEF Fits, PhaseStages, DocumentStages
  <2> QED BY <2>1, <2>2, <2>3, <2>4, <2>5, <2>6, Zenon
<1> QED BY <1>5, <1>6, <1>7, <1>8, <1>9, <1>10, <1>11, <1>12 DEF PhaseStages, DocumentStages

\* From the fourth on, who the branches of a stage belong to.
LEMMA Branched ==
  ASSUME NEW s \in 4 .. 12
  PROVE  Uploaders(s) \subseteq Threads /\ \A t \in Uploaders(s) : Fits(s, t, Branches(s)[t])
<1>1. DOMAIN Script!Main[s] = Uploaders(s)
  <2>1. s \in PhaseStages \/ s = 6 \/ s = 12 \/ s = 9 \/ s = 4 \/ s = 7 \/ s = 10
    BY DEF PhaseStages
  <2>2. CASE s \in PhaseStages
    <3>1. Script!Main[s] = Script!GetShipmentPhase(PhaseLooked(s))
      BY <2>2, Stages DEF PhaseStages, PhaseLooked
    <3> QED BY <2>2, <3>1, OneBranch DEF Script!GetShipmentPhase, Uploaders, PhaseStages
  <2>3. CASE s = 6
    <3>1. Script!Main[s] = Script!AllDocuments(<<"PRE_SHIPMENT_SAMPLE">>)
      BY <2>3, Stages, Zenon
    <3>2. DOMAIN Script!Main[s] = {1}
      BY <3>1, AllBranches, Zenon
    <3> QED BY <2>3, <3>2 DEF Uploaders
  <2>4. CASE s = 12
    <3>1. Script!Main[s] = Script!AllDocuments(<<"BOOKING_CONFIRMATION">>)
      BY <2>4, Stages, Zenon
    <3>2. DOMAIN Script!Main[s] = {1}
      BY <3>1, AllBranches, Zenon
    <3> QED BY <2>4, <3>2 DEF Uploaders
  <2>5. CASE s = 9
    <3>1. Script!Main[s] = Script!AllDocuments(<<"SHIPPING_INSTRUCTIONS", "SHIPPING_NOTE">>)
      BY <2>5, Stages, Zenon
    <3>2. DOMAIN Script!Main[s] = {1, 2}
      BY <3>1, AllBranches, Zenon
    <3> QED BY <2>5, <3>2 DEF Uploaders
  <2>6. CASE s = 4
    <3>1. PICK c : c = <<Script!SignOrder(Exporter), Script!GetOrder(Exporter)>>
      OBVIOUS
    <3>2. Script!Main[s] = <<c>>
      BY <2>6, <3>1, Stages, Zenon
    <3> QED BY <2>6, <3>2, OneBranch DEF Uploaders
  <2>7. CASE s = 7
    <3>1. PICK c : c = <<Script!EvaluateSample(Importer)>>
      OBVIOUS
    <3>2. Script!Main[s] = <<c>>
      BY <2>7, <3>1, Stages, Zenon
    <3> QED BY <2>7, <3>2, OneBranch DEF Uploaders
  <2>8. CASE s = 10
    <3>1. PICK c : c = Script!UploadAndApproveShipmentDetails
      OBVIOUS
    <3>2. Script!Main[s] = <<c>>
      BY <2>8, <3>1, Stages, Zenon
    <3> QED BY <2>8, <3>2, OneBranch DEF Uploaders
  <2> QED BY <2>1, <2>2, <2>3, <2>4, <2>5, <2>6, <2>7, <2>8
<1>2. s \in 1 .. 12 /\ s \in DOMAIN Script!Main
  BY Stages
<1>3. Uploaders(s) \subseteq Threads
  BY <1>1, <1>2, ScriptAssumption
<1>4. ASSUME NEW t \in Uploaders(s) PROVE Fits(s, t, Branches(s)[t])
  <2>1. t \in Threads
    BY <1>3
  <2>2. Branches(s)[t] = <<>> \/ Fits(s, t, Branches(s)[t])
    BY <1>2, <2>1, Branching
  <2>3. Branches(s)[t] = Script!Main[s][t]
    BY <1>1, <2>1 DEF Branches
  <2>4. Script!Main[s][t] # <<>>
    <3>1. \A c, d : <<c>> # <<>> /\ <<c, d>> # <<>>
      OBVIOUS
    <3>2. \A type : Script!UploadAndApproveDocument(type) # <<>>
      <4> TAKE type
      <4>1. FitsDocument(type, Script!UploadAndApproveDocument(type))
        BY DocumentBranch, Zenon
      <4> QED BY <4>1 DEF FitsDocument
    <3>3. s \in PhaseStages \/ s = 6 \/ s = 12 \/ s = 9 \/ s = 4 \/ s = 7 \/ s = 10
      BY DEF PhaseStages
    <3>4. CASE s \in PhaseStages
      <4>1. Script!Main[s] = Script!GetShipmentPhase(PhaseLooked(s))
        BY <3>4, Stages DEF PhaseStages, PhaseLooked
      <4>2. t = 1
        BY <3>4 DEF Uploaders, PhaseStages
      <4> QED BY <4>1, <4>2, <3>1, OneBranch, Zenon DEF Script!GetShipmentPhase
    <3>5. CASE s = 6
      <4>1. Script!Main[s] = Script!AllDocuments(<<"PRE_SHIPMENT_SAMPLE">>)
        BY <3>5, Stages, Zenon
      <4>2. t = 1
        BY <3>5 DEF Uploaders
      <4> QED BY <4>1, <4>2, <3>2, AllBranches, Zenon
    <3>6. CASE s = 12
      <4>1. Script!Main[s] = Script!AllDocuments(<<"BOOKING_CONFIRMATION">>)
        BY <3>6, Stages, Zenon
      <4>2. t = 1
        BY <3>6 DEF Uploaders
      <4> QED BY <4>1, <4>2, <3>2, AllBranches, Zenon
    <3>7. CASE s = 9
      <4>1. Script!Main[s] = Script!AllDocuments(<<"SHIPPING_INSTRUCTIONS", "SHIPPING_NOTE">>)
        BY <3>7, Stages, Zenon
      <4>2. t = 1 \/ t = 2
        BY <3>7 DEF Uploaders
      <4>3. PICK b : b = Script!AllDocuments(<<"SHIPPING_INSTRUCTIONS", "SHIPPING_NOTE">>)
        OBVIOUS
      <4>4. /\ b[1] = Script!UploadAndApproveDocument("SHIPPING_INSTRUCTIONS")
            /\ b[2] = Script!UploadAndApproveDocument("SHIPPING_NOTE")
        BY <4>3, AllBranches, Zenon
      <4> QED BY <4>1, <4>2, <4>3, <4>4, <3>2, Zenon
    <3>8. CASE s = 4
      <4>1. PICK c : c = <<Script!SignOrder(Exporter), Script!GetOrder(Exporter)>>
        OBVIOUS
      <4>2. Script!Main[s] = <<c>> /\ t = 1 /\ c # <<>>
        BY <3>8, <4>1, Stages DEF Uploaders
      <4> QED BY <4>2, OneBranch, Zenon
    <3>9. CASE s = 7
      <4>1. PICK c : c = <<Script!EvaluateSample(Importer)>>
        OBVIOUS
      <4>2. Script!Main[s] = <<c>> /\ t = 1 /\ c # <<>>
        BY <3>9, <4>1, Stages DEF Uploaders
      <4> QED BY <4>2, OneBranch, Zenon
    <3>10. CASE s = 10
      <4>1. PICK c : c = Script!UploadAndApproveShipmentDetails
        OBVIOUS
      <4>2. Script!Main[s] = <<c>>
        BY <3>10, <4>1, Stages, Zenon
      <4>3. t = 1 /\ c # <<>>
        BY <3>10, <4>1 DEF Uploaders, Script!UploadAndApproveShipmentDetails
      <4> QED BY <4>2, <4>3, OneBranch, Zenon
    <3> QED BY <3>3, <3>4, <3>5, <3>6, <3>7, <3>8, <3>9, <3>10
  <2> QED BY <2>2, <2>3, <2>4
<1> QED BY <1>3, <1>4

-----------------------------------------------------------------------------
\* The script as it runs.

\* How many calls a thread has left in the stage.
Left(t) == Len(todo[t])

\* What is left of a branch is its end.
ScriptKept ==
  /\ stage \in 1 .. 12 /\ thrown \subseteq {"lost", "refused"}
  /\ todo = [t \in Threads |-> todo[t]]
  /\ \A t \in Threads :
       LET b == Branches(stage)[t] IN
       /\ Left(t) \in 0 .. Len(b)
       /\ todo[t] = [i \in 1 .. Left(t) |-> b[Len(b) - Left(t) + i]]

\* The call a thread makes next.
Planned(t) ==
  LET c == NextCall(t) IN
  \/ stage \in 1 .. 3 /\ Early(c)
  \/ stage = 4 /\ t = 1 /\ Left(t) = 2 /\ c = Script!SignOrder(Exporter)
  \/ stage = 4 /\ t = 1 /\ Left(t) = 1 /\ c = Script!GetOrder(Exporter)
  \/ stage \in PhaseStages /\ t = 1 /\ Left(t) = 1 /\ c = LookAtPhase(PhaseLooked(stage))
  \/ stage = 7 /\ t = 1 /\ Left(t) = 1 /\ c = Script!EvaluateSample(Importer)
  \/ stage = 10 /\ t = 1 /\ Left(t) = 2 /\ c = Script!SetShipmentDetails(Exporter)
  \/ stage = 10 /\ t = 1 /\ Left(t) = 1 /\ c = Script!ApproveShipmentDetails(Importer)
  \/ /\ stage \in DocumentStages /\ t \in Uploaders(stage)
     /\ \/ Left(t) = 4 /\ c = CreateFileOf(TypeOf(stage, t))
        \/ Left(t) = 3 /\ c = CreateMetadataOf(TypeOf(stage, t))
        \/ Left(t) = 2 /\ c = AddDocumentOf(TypeOf(stage, t))
        \/ Left(t) = 1 /\ c = ApproveDocumentOf(TypeOf(stage, t))

\* The head and the tail of what is left.
LEMMA Rest ==
  ASSUME NEW n \in Nat, NEW f, f = [i \in 1 .. n |-> f[i]], f # <<>>
  PROVE  n # 0 /\ Len(f) = n /\ Head(f) = f[1] /\ Tail(f) = [i \in 1 .. n - 1 |-> f[i + 1]]
<1>1. f \in Seq({f[i] : i \in 1 .. n})
  OBVIOUS
<1> QED BY <1>1

\* A thread with calls left makes the call of its place in the stage.
LEMMA CallIsPlanned ==
  ASSUME ScriptKept, NEW t \in Threads, todo[t] # <<>>
  PROVE  Planned(t)
<1> DEFINE B == Branches(stage)[t]
<1>0. PICK b : b = B
  OBVIOUS
<1>1. stage \in 1 .. 12 /\ Left(t) \in 0 .. Len(b) /\ todo[t] = [i \in 1 .. Left(t) |-> b[Len(b) - Left(t) + i]]
  BY <1>0 DEF ScriptKept
<1>2. /\ b = <<>> \/ Fits(stage, t, b)
      /\ Len(b) \in Nat
  BY <1>0, <1>1, Branching
<1> HIDE DEF B
<1>3. PICK n \in Nat : n = Left(t) /\ n \in 0 .. Len(b)
  BY <1>1, <1>2
<1>4. PICK f : f = todo[t]
  OBVIOUS
<1>5. f = [i \in 1 .. n |-> f[i]] /\ \A i \in 1 .. n : f[i] = b[Len(b) - n + i]
  BY <1>1, <1>3, <1>4
<1>6. n # 0 /\ Head(f) = f[1]
  BY <1>4, <1>5, Rest
<1>7. NextCall(t) = b[Len(b) - n + 1]
  <2>1. 1 \in 1 .. n
    BY <1>3, <1>6
  <2> QED BY <1>4, <1>5, <1>6, <2>1 DEF NextCall
<1>8. b # <<>> /\ Len(b) - n + 1 \in 1 .. Len(b)
  BY <1>2, <1>3, <1>6
<1>9. Fits(stage, t, b)
  BY <1>2, <1>8
<1>10. PICK c : c = NextCall(t)
  OBVIOUS
<1>11. CASE stage \in 1 .. 3
  BY <1>7, <1>8, <1>9, <1>11 DEF Fits, FitsEarly, Planned
<1>12. CASE stage \in PhaseStages
  <2>1. stage \in 4 .. 12 /\ Uploaders(stage) = {1}
    BY <1>12 DEF PhaseStages, Uploaders
  <2>2. Len(b) = 1 /\ b[1] = LookAtPhase(PhaseLooked(stage)) /\ t = 1
    BY <1>9, <1>12, <2>1 DEF Fits, FitsLook
  <2>3. n = 1 /\ NextCall(t) = b[1]
    BY <1>3, <1>6, <1>7, <2>2
  <2> QED BY <1>3, <1>12, <2>2, <2>3 DEF Planned
<1>13. CASE stage \in {4, 7, 10}
  <2>1. stage \in 4 .. 12 /\ Uploaders(stage) = {1}
    BY <1>13 DEF Uploaders
  <2>2. t = 1
    BY <1>9, <2>1 DEF Fits
  <2>3. CASE stage = 4
    <3>1. Len(b) = 2 /\ b[1] = Script!SignOrder(Exporter) /\ b[2] = Script!GetOrder(Exporter)
      BY <1>9, <2>3 DEF Fits, FitsSigning
    <3>2. (n = 2 /\ NextCall(t) = b[1]) \/ (n = 1 /\ NextCall(t) = b[2])
      BY <1>3, <1>6, <1>7, <3>1
    <3> QED BY <1>3, <2>2, <2>3, <3>1, <3>2 DEF Planned
  <2>4. CASE stage = 7
    <3>1. Len(b) = 1 /\ b[1] = Script!EvaluateSample(Importer)
      BY <1>9, <2>4 DEF Fits, FitsSample
    <3>2. n = 1 /\ NextCall(t) = b[1]
      BY <1>3, <1>6, <1>7, <3>1
    <3> QED BY <1>3, <2>2, <2>4, <3>1, <3>2 DEF Planned
  <2>5. CASE stage = 10
    <3>1. /\ Len(b) = 2 /\ b[1] = Script!SetShipmentDetails(Exporter)
          /\ b[2] = Script!ApproveShipmentDetails(Importer)
      BY <1>9, <2>5 DEF Fits, FitsDetails
    <3>2. (n = 2 /\ NextCall(t) = b[1]) \/ (n = 1 /\ NextCall(t) = b[2])
      BY <1>3, <1>6, <1>7, <3>1
    <3> QED BY <1>3, <2>2, <2>5, <3>1, <3>2 DEF Planned
  <2> QED BY <1>13, <2>3, <2>4, <2>5
<1>14. CASE stage \in DocumentStages
  <2>1. stage \in 4 .. 12
    BY <1>14 DEF DocumentStages
  <2>2. PICK type : type = TypeOf(stage, t)
    OBVIOUS
  <2>3. t \in Uploaders(stage) /\ FitsDocument(type, b)
    BY <1>9, <1>14, <2>1, <2>2 DEF Fits
  <2>4. /\ Len(b) = 4 /\ b[1] = CreateFileOf(type) /\ b[2] = CreateMetadataOf(type)
        /\ b[3] = AddDocumentOf(type) /\ b[4] = ApproveDocumentOf(type)
    BY <2>3 DEF FitsDocument
  <2>5. \/ n = 4 /\ NextCall(t) = b[1]
        \/ n = 3 /\ NextCall(t) = b[2]
        \/ n = 2 /\ NextCall(t) = b[3]
        \/ n = 1 /\ NextCall(t) = b[4]
    BY <1>3, <1>6, <1>7, <2>4
  <2>6. \/ n = 4 /\ NextCall(t) = CreateFileOf(type)
        \/ n = 3 /\ NextCall(t) = CreateMetadataOf(type)
        \/ n = 2 /\ NextCall(t) = AddDocumentOf(type)
        \/ n = 1 /\ NextCall(t) = ApproveDocumentOf(type)
    BY <2>4, <2>5, Zenon
  <2> QED BY <1>3, <1>14, <2>2, <2>3, <2>6, Zenon DEF Planned
<1> QED BY <1>1, <1>11, <1>12, <1>13, <1>14 DEF PhaseStages, DocumentStages

\* An answer takes the first call from what is left.
LEMMA AnsweredKeepsScript ==
  ASSUME ScriptKept, NEW t \in Threads, todo[t] # <<>>, NEW value, Answered(t, value)
  PROVE  /\ ScriptKept' /\ Left(t) > 0 /\ Left(t)' = Left(t) - 1
         /\ \A d \in Threads \ {t} : todo'[d] = todo[d]
<1>1. /\ todo' = [todo EXCEPT ![t] = Tail(@)] /\ stage' = stage /\ thrown' = thrown
      /\ todo = [d \in Threads |-> todo[d]]
  BY DEF Answered, ScriptKept
<1>2. todo' = [d \in Threads |-> IF d = t THEN Tail(todo[t]) ELSE todo[d]]
  BY <1>1
<1>3. PICK b : b = Branches(stage)[t]
  OBVIOUS
<1>4. Len(b) \in Nat
  BY <1>3, Branching DEF ScriptKept
<1>5. PICK n \in Nat : n = Left(t) /\ n <= Len(b)
  BY <1>3, <1>4 DEF ScriptKept
<1>6. PICK f : f = todo[t]
  OBVIOUS
<1>7. f = [i \in 1 .. n |-> f[i]] /\ \A i \in 1 .. n : f[i] = b[Len(b) - n + i]
  BY <1>3, <1>5, <1>6 DEF ScriptKept
<1>8. n # 0 /\ Tail(f) = [i \in 1 .. n - 1 |-> f[i + 1]]
  BY <1>6, <1>7, Rest
<1>9. PICK g : g = Tail(f)
  OBVIOUS
<1>10. Len(g) = n - 1 /\ g = [i \in 1 .. n - 1 |-> b[Len(b) - (n - 1) + i]]
  <2>1. \A i \in 1 .. n - 1 : i + 1 \in 1 .. n /\ Len(b) - n + (i + 1) = Len(b) - (n - 1) + i
    BY <1>4
  <2>2. g = [i \in 1 .. n - 1 |-> f[i + 1]]
    BY <1>8, <1>9
  <2>3. \A i \in 1 .. n - 1 : f[i + 1] = b[Len(b) - (n - 1) + i]
    BY <1>7, <2>1
  <2> QED BY <2>2, <2>3, <1>8
<1>11. todo'[t] = g /\ \A d \in Threads \ {t} : todo'[d] = todo[d]
  BY <1>2, <1>6, <1>9
<1>12. Left(t)' = n - 1 /\ n - 1 \in 0 .. Len(b)
  BY <1>4, <1>5, <1>8, <1>10, <1>11 DEF Left
<1>13. Branches(stage)' = Branches(stage)
  BY <1>1 DEF Branches
<1>14. ASSUME NEW d \in Threads
       PROVE  LET c == Branches(stage')[d] IN
              /\ Len(todo'[d]) \in 0 .. Len(c)
              /\ todo'[d] = [i \in 1 .. Len(todo'[d]) |-> c[Len(c) - Len(todo'[d]) + i]]
  <2>1. CASE d = t
    BY <1>1, <1>3, <1>10, <1>11, <1>12, <2>1 DEF Left
  <2>2. CASE d # t
    BY <1>1, <1>11, <2>2 DEF ScriptKept, Left
  <2> QED BY <2>1, <2>2
<1>15. ScriptKept'
  BY <1>1, <1>2, <1>14 DEF ScriptKept, Left, Branches
<1> QED BY <1>5, <1>8, <1>11, <1>12, <1>15

\* An error leaves nothing of a branch.
LEMMA ThrownKeepsScript ==
  ASSUME ScriptKept, NEW t \in Threads, NEW why \in {"lost", "refused"}, Thrown(t, why)
  PROVE  /\ ScriptKept' /\ todo'[t] = <<>> /\ Left(t)' = 0 /\ thrown' # {}
         /\ \A d \in Threads \ {t} : todo'[d] = todo[d]
<1>1. /\ todo' = [todo EXCEPT ![t] = <<>>] /\ stage' = stage /\ thrown' = thrown \cup {why}
      /\ todo = [d \in Threads |-> todo[d]]
  BY DEF Thrown, ScriptKept
<1>2. todo' = [d \in Threads |-> IF d = t THEN <<>> ELSE todo[d]]
  BY <1>1
<1>3. todo'[t] = <<>> /\ \A d \in Threads \ {t} : todo'[d] = todo[d]
  BY <1>2
<1>4. Len(<<>>) = 0 /\ \A c : Len(c) \in Nat => <<>> = [i \in 1 .. 0 |-> c[Len(c) - 0 + i]]
  OBVIOUS
<1>5. ASSUME NEW d \in Threads
       PROVE  LET c == Branches(stage')[d] IN
              /\ Len(todo'[d]) \in 0 .. Len(c)
              /\ todo'[d] = [i \in 1 .. Len(todo'[d]) |-> c[Len(c) - Len(todo'[d]) + i]]
  <2>1. CASE d = t
    <3>1. PICK c : c = Branches(stage')[d]
      OBVIOUS
    <3>2. Len(c) \in Nat
      BY <1>1, <3>1, Branching DEF ScriptKept
    <3> QED BY <1>3, <1>4, <2>1, <3>1, <3>2
  <2>2. CASE d # t
    <3>1. todo'[d] = todo[d] /\ stage' = stage
      BY <1>1, <1>3, <2>2
    <3>2. LET c == Branches(stage)[d] IN
          /\ Len(todo[d]) \in 0 .. Len(c)
          /\ todo[d] = [i \in 1 .. Len(todo[d]) |-> c[Len(c) - Len(todo[d]) + i]]
      BY DEF ScriptKept, Left
    <3> QED BY <3>1, <3>2, Zenon
  <2> QED BY <2>1, <2>2
<1>6. thrown' \subseteq {"lost", "refused"} /\ thrown' # {}
  BY <1>1 DEF ScriptKept
<1>7. ScriptKept'
  BY <1>1, <1>2, <1>5, <1>6 DEF ScriptKept, Left, Branches
<1> QED BY <1>3, <1>4, <1>6, <1>7 DEF Left

\* A stage begins with all its branches.
LEMMA BeginningKeepsScript ==
  ASSUME NEW s \in 1 .. 12, stage' = s, todo' = Branches(s), thrown' \subseteq {"lost", "refused"}
  PROVE  ScriptKept' /\ \A t \in Threads : todo'[t] = Branches(s)[t]
<1>1. todo' = [t \in Threads |-> todo'[t]]
  BY DEF Branches
<1>2. ASSUME NEW d \in Threads
       PROVE  LET c == Branches(stage')[d] IN
              /\ Len(todo'[d]) \in 0 .. Len(c)
              /\ todo'[d] = [i \in 1 .. Len(todo'[d]) |-> c[Len(c) - Len(todo'[d]) + i]]
  <2>1. PICK c : c = Branches(s)[d]
    OBVIOUS
  <2>2. Len(c) \in Nat /\ c = [i \in 1 .. Len(c) |-> c[i]]
    BY <2>1, Branching
  <2>3. \A i \in 1 .. Len(c) : Len(c) - Len(c) + i = i
    BY <2>2
  <2>4. c = [i \in 1 .. Len(c) |-> c[Len(c) - Len(c) + i]]
    BY <2>2, <2>3
  <2> QED BY <2>1, <2>2, <2>4
<1>3. ScriptKept'
  BY <1>1, <1>2 DEF ScriptKept, Left, Branches
<1> QED BY <1>3

\* The next stage begins when every thread is done and none threw.
LEMMA NextStageKeepsScript ==
  ASSUME ScriptKept, NextStage
  PROVE  /\ ScriptKept' /\ stage \in 1 .. 11 /\ stage' = stage + 1 /\ thrown = {} /\ thrown' = {}
         /\ \A t \in Threads : todo[t] = <<>> /\ todo'[t] = Branches(stage + 1)[t]
<1>1. /\ Finished /\ thrown = {} /\ stage < Len(Script!Main)
      /\ stage' = stage + 1 /\ todo' = Branches(stage + 1) /\ thrown' = thrown
  BY DEF NextStage
<1>2. Len(Script!Main) = 12
  BY Stages, Zenon
<1>3. stage \in 1 .. 11 /\ stage + 1 \in 1 .. 12
  BY <1>1, <1>2 DEF ScriptKept
<1>4. ScriptKept' /\ \A t \in Threads : todo'[t] = Branches(stage + 1)[t]
  BY <1>1, <1>3, BeginningKeepsScript
<1> QED BY <1>1, <1>3, <1>4 DEF Finished

-----------------------------------------------------------------------------
\* The storage canister, of which the script is the client.

SP == INSTANCE StorageProofs WITH
  Callers <- Threads, Contents <- UNION {w.contents : w \in Storages}, Workloads <- Storages,
  Tokens <- {}, Limits <- {}, MaxUses <- 0, call <- uploads, gapped <- filesGapped

\* What the theorems of Storage assume.
LEMMA StorageAssumed == SP!StorageAssumption
BY StoragesAssumption DEF SP!StorageAssumption

\* The steps the script makes are those the theorems are about.
LEMMA CreateFileIs ==
  ASSUME NEW t \in Threads, NEW user, NEW name, NEW content,
         Storage!CreateFile(t, user, name, content)
  PROVE  SP!CreateFile(t, user, name, content)
BY Zenon DEF Storage!CreateFile, Storage!NextFileId, Storage!NextId, Storage!Cardinality, Storage!Idle,
    Storage!Put, Storage!NewPending, Storage!Send, Storage!SetPermission, Storage!FileUserKey,
    Storage!UserFileKey, Storage!Started, Storage!Uploading, Storage!Working, Storage!NoteTorn,
    Storage!TornBy,
    SP!CreateFile, SP!NextFileId, SP!NextId, SP!Cardinality, SP!Idle,
    SP!Put, SP!NewPending, SP!Send, SP!SetPermission, SP!FileUserKey,
    SP!UserFileKey, SP!Started, SP!Uploading, SP!Working, SP!NoteTorn, SP!TornBy

\* The upload comes back to the script,
LEMMA UploadReturnsIs ==
  ASSUME NEW t \in Threads, Storage!UploadReturns(t)
  PROVE  SP!UploadReturns(t)
BY Zenon DEF Storage!UploadReturns, Storage!HasAnswers, Storage!Idle, Storage!canister, Storage!permissionVars,
    SP!UploadReturns, SP!HasAnswers, SP!Idle, SP!canister, SP!permissionVars

\* create_file is answered,
LEMMA FileCreatedIs ==
  ASSUME NEW t \in Threads, Storage!FileCreated(t)
  PROVE  SP!FileCreated(t)
BY Zenon DEF Storage!FileCreated, Storage!HasAnswers, Storage!PutChunks, Storage!Idle, Storage!canister,
    Storage!permissionVars,
    SP!FileCreated, SP!HasAnswers, SP!PutChunks, SP!Idle, SP!canister, SP!permissionVars

\* a chunk is put,
LEMMA ChunkCallIs ==
  ASSUME NEW t \in Threads, Storage!ChunkCall(t)
  PROVE  SP!ChunkCall(t)
BY Zenon DEF Storage!ChunkCall, Storage!Idle, Storage!PutChunk, Storage!Acceptable, Storage!Complete,
    Storage!Indexes, Storage!Assembled, Storage!Cardinality, Storage!WithChunk, Storage!Put, Storage!Without,
    Storage!Finished, Storage!ChunkDone, Storage!NoteGap, Storage!permissionVars,
    SP!ChunkCall, SP!Idle, SP!PutChunk, SP!Acceptable, SP!Complete,
    SP!Indexes, SP!Assembled, SP!Cardinality, SP!WithChunk, SP!Put, SP!Without,
    SP!Finished, SP!ChunkDone, SP!NoteGap, SP!permissionVars

\* the permission canister is not reached,
LEMMA RejectedIs == Storage!Rejected => SP!Rejected
BY Zenon DEF Storage!Rejected, Storage!Reject, Storage!canister, Storage!ToSet,
    SP!Rejected, SP!Reject, SP!canister, SP!ToSet

\* or it answers,
LEMMA AnsweredIs == Storage!Answered => SP!Answered
<1>1. \A tr, key, value : Storage!Insert(tr, key, value) = SP!Insert(tr, key, value)
  BY Zenon DEF Storage!Insert, Storage!NoValue, Storage!Prefixes, Storage!IsPrefix,
      SP!Insert, SP!NoValue, SP!Prefixes, SP!IsPrefix
<1>2. \A tr, key : Storage!Delete(tr, key) = SP!Delete(tr, key)
  BY Zenon DEF Storage!Delete, Storage!IsPrefix, SP!Delete, SP!IsPrefix
<1>3. \A tr, key : Storage!Subkeys(tr, key) = SP!Subkeys(tr, key)
  BY Zenon DEF Storage!Subkeys, Storage!NoValue, Storage!Last, Storage!Front,
      SP!Subkeys, SP!NoValue, SP!Last, SP!Front
<1>4. \A r : Storage!AnswerTo(r) = SP!AnswerTo(r)
  BY <1>3, Zenon DEF Storage!AnswerTo, Storage!HasNode, SP!AnswerTo, SP!HasNode
<1>5. \A r : Storage!Handle(r) => SP!Handle(r)
  BY <1>1, <1>2, Zenon DEF Storage!Handle, SP!Handle
<1> QED BY <1>4, <1>5, Zenon DEF Storage!Answered, Storage!canister, Storage!ToSet,
    SP!Answered, SP!canister, SP!ToSet

\* and the canister starts, all as in the theorems of Storage.
LEMMA StorageInitIs == Storage!Init => SP!Init
BY Zenon DEF Storage!Init, Storage!Ids, Storage!Idle, Storage!PermissionsInit, Storage!EmptyTrie, Storage!NoValue,
   SP!Init, SP!Ids, SP!Idle, SP!PermissionsInit, SP!EmptyTrie, SP!NoValue

\* The type invariant is the same, too.
LEMMA StorageTypeIs == SP!TypeOK => Storage!TypeOK
BY Zenon DEF Storage!TypeOK, Storage!Ids, Storage!Idle, Storage!NoValue, Storage!Asked,
   SP!TypeOK, SP!Ids, SP!Idle, SP!NoValue, SP!Asked, Storage!Cardinality, SP!Cardinality

\* A call that is refused throws.
LEMMA RefusedIs ==
  ASSUME NEW t, RefusedCall(t)
  PROVE  /\ Atomic(t) /\ Thrown(t, "refused") /\ OffPlatform /\ UNCHANGED <<storageVars, shared>>
BY DEF RefusedCall

-----------------------------------------------------------------------------
\* The steps of the demo.

\* What each of them does to the storage canister.
LEMMA StorageSteps ==
  ASSUME [DemoNext]_demoVars
  PROVE  \/ UNCHANGED <<storageVars, shared>>
         \/ \E t \in Threads : StartUpload(t) \/ FileCreated(t) \/ UploadReturns(t)
         \/ StorageStep
<1>1. CASE NextStage
  BY <1>1 DEF NextStage
<1>2. ASSUME NEW t \in Threads, AnsweredCall(t)
      PROVE  UNCHANGED <<storageVars, shared>>
  BY <1>2 DEF AnsweredCall
<1>3. ASSUME NEW t \in Threads, RefusedCall(t)
      PROVE  UNCHANGED <<storageVars, shared>>
  BY <1>3, RefusedIs, Zenon
<1>4. ASSUME NEW t \in Threads, LostCall(t) \/ StartLogin(t) \/ FinishLogin(t)
      PROVE  UNCHANGED <<storageVars, shared>>
  BY <1>4 DEF LostCall, StartLogin, FinishLogin
<1>5. ASSUME NEW t, StartSigning(t) \/ RefusedSigning(t) \/ FinishSigning(t)
      PROVE  UNCHANGED <<storageVars, shared>>
  BY <1>5, Zenon DEF StartSigning, RefusedSigning, FinishSigning
<1>6. CASE SignedElsewhere \/ SessionsAge
  BY <1>6 DEF SignedElsewhere, SessionsAge
<1>7. CASE UNCHANGED demoVars
  BY <1>7 DEF demoVars
<1> QED BY <1>1, <1>2, <1>3, <1>4, <1>5, <1>6, <1>7, Zenon DEF DemoNext, Progress

\* Every call that waits has its place in the script.
CallsKept == \A t \in Threads :
  /\ ~ Idle(t) => /\ todo[t] # <<>> /\ NextCall(t).op = "create_file"
                  /\ uploads[t].content = NextCall(t).args.content
  /\ t \in DOMAIN signing => todo[t] # <<>> /\ NextCall(t).op = "signOrder"

\* A handler that answers at once leaves the signatures that wait alone.
LEMMA HandledSigns ==
  ASSUME NEW c, Handled(c) PROVE signing' = signing
<1>1. CASE IdentityCall(c) \/ ShipmentCall(c)
  BY <1>1 DEF IdentityCall, ShipmentCall, vars, orderVars
<1>2. CASE GetCategoriesCall(c) \/ GetOrderCall(c)
  BY <1>2, Zenon DEF GetCategoriesCall, GetOrderCall, OffPlatform, vars, orderVars
<1>3. CASE CreateMaterialCall(c) \/ CreateAssetOperationCall(c) \/ CreateOfferCall(c)
           \/ CreateOrganizationCall(c) \/ CreateBusinessRelationCall(c)
           \/ RegisterCompanyCertificateCall(c)
  BY <1>3, Zenon DEF CreateMaterialCall, CreateAssetOperationCall, CreateOfferCall, CreateOrganizationCall,
     CreateBusinessRelationCall, RegisterCompanyCertificateCall, OnPlatform, OnlyIn, orderVars
<1>4. CASE CreateOrderCall(c)
  BY <1>4, Zenon DEF CreateOrderCall, CreateOrder
<1> QED BY <1>1, <1>2, <1>3, <1>4, Zenon DEF Handled

\* What each step does to the calls that wait, in the threads and elsewhere.
LEMMA CallSteps ==
  ASSUME CallsKept, [DemoNext]_demoVars
  PROVE  \/ UNCHANGED <<scriptVars, uploads, signing>>
         \/ NextStage /\ UNCHANGED <<uploads, signing>>
         \/ /\ UNCHANGED <<uploads, signing>>
            /\ \E t \in Threads :
                 /\ todo[t] # <<>> /\ NextCall(t).op # "create_file" /\ Idle(t) /\ t \notin DOMAIN signing
                 /\ \E value : Answered(t, value)
         \/ /\ UNCHANGED <<uploads, signing>>
            /\ \E t \in Threads :
                 /\ todo[t] # <<>> /\ Idle(t) /\ t \notin DOMAIN signing
                 /\ \E why \in {"lost", "refused"} : Thrown(t, why)
         \/ UNCHANGED <<scriptVars, uploads>> /\ \E t \in Threads : StartSigning(t)
         \/ UNCHANGED <<scriptVars, uploads>> /\ (SignedElsewhere \/ FinishSigning(App))
         \/ UNCHANGED uploads /\ \E t \in Threads :
              /\ t \in DOMAIN signing /\ signing' = Without(signing, t)
              /\ (\E value : Answered(t, value)) \/ (\E why \in {"lost", "refused"} : Thrown(t, why))
         \/ \E t \in Threads : StartUpload(t) \/ FileCreated(t) \/ UploadReturns(t)
         \/ StorageStep
<1> DEFINE Goal ==
         \/ UNCHANGED <<scriptVars, uploads, signing>>
         \/ NextStage /\ UNCHANGED <<uploads, signing>>
         \/ /\ UNCHANGED <<uploads, signing>>
            /\ \E t \in Threads :
                 /\ todo[t] # <<>> /\ NextCall(t).op # "create_file" /\ Idle(t) /\ t \notin DOMAIN signing
                 /\ \E value : Answered(t, value)
         \/ /\ UNCHANGED <<uploads, signing>>
            /\ \E t \in Threads :
                 /\ todo[t] # <<>> /\ Idle(t) /\ t \notin DOMAIN signing
                 /\ \E why \in {"lost", "refused"} : Thrown(t, why)
         \/ UNCHANGED <<scriptVars, uploads>> /\ \E t \in Threads : StartSigning(t)
         \/ UNCHANGED <<scriptVars, uploads>> /\ (SignedElsewhere \/ FinishSigning(App))
         \/ UNCHANGED uploads /\ \E t \in Threads :
              /\ t \in DOMAIN signing /\ signing' = Without(signing, t)
              /\ (\E value : Answered(t, value)) \/ (\E why \in {"lost", "refused"} : Thrown(t, why))
         \/ \E t \in Threads : StartUpload(t) \/ FileCreated(t) \/ UploadReturns(t)
         \/ StorageStep
<1>1. ASSUME NextStage PROVE Goal
  BY <1>1 DEF NextStage, vars, orderVars, storageVars
<1>2. ASSUME NEW t \in Threads, AnsweredCall(t) PROVE Goal
  <2>1. UNCHANGED <<uploads, signing>>
    BY <1>2, HandledSigns, Zenon DEF AnsweredCall, storageVars
  <2>2. todo[t] # <<>> /\ NextCall(t).op # "create_file" /\ Idle(t) /\ t \notin DOMAIN signing
    BY <1>2 DEF AnsweredCall, Atomic, Waiting
  <2>3. (\E value : Answered(t, value)) \/ Thrown(t, "lost")
    BY <1>2, Zenon DEF AnsweredCall, Lost
  <2> QED BY <2>1, <2>2, <2>3
<1>3. ASSUME NEW t \in Threads, RefusedCall(t) \/ LostCall(t) \/ RefusedSigning(t) PROVE Goal
  <2>1. UNCHANGED <<uploads, signing>>
    BY <1>3, RefusedIs, Zenon DEF LostCall, RefusedSigning, OffPlatform, storageVars, vars, orderVars
  <2>2. todo[t] # <<>> /\ Idle(t) /\ t \notin DOMAIN signing
    BY <1>3, RefusedIs, Zenon DEF Atomic, LostCall, RefusedSigning, Waiting, Calls
  <2>3. Thrown(t, "lost") \/ Thrown(t, "refused")
    BY <1>3, RefusedIs, Zenon DEF LostCall, RefusedSigning, Lost
  <2> QED BY <2>1, <2>2, <2>3
<1>4. ASSUME NEW t \in Threads, StartLogin(t) PROVE Goal
  <2>1. UNCHANGED <<scriptVars, uploads, signing>>
    BY <1>4, Zenon DEF StartLogin, OnPlatform, OnlyIn, orderVars, storageVars
  <2> QED BY <2>1
<1>5. ASSUME NEW t \in Threads, FinishLogin(t) PROVE Goal
  <2>1. UNCHANGED <<uploads, signing>>
    BY <1>5, Zenon DEF FinishLogin, OnPlatform, OnlyIn, orderVars, storageVars
  <2>2. todo[t] # <<>> /\ NextCall(t).op = "authenticate"
    BY <1>5, Zenon DEF FinishLogin
  <2>3. NextCall(t).op # "create_file" /\ Idle(t) /\ t \notin DOMAIN signing
    BY <2>2 DEF CallsKept
  <2>4. (\E value : Answered(t, value)) \/ Thrown(t, "lost")
    BY <1>5, Zenon DEF FinishLogin, Lost
  <2> QED BY <2>1, <2>2, <2>3, <2>4
<1>6. ASSUME NEW t \in Threads, StartSigning(t) PROVE Goal
  <2>1. UNCHANGED <<scriptVars, uploads>>
    BY <1>6, Zenon DEF StartSigning, storageVars
  <2> QED BY <1>6, <2>1
<1>7. ASSUME SignedElsewhere PROVE Goal
  <2>1. UNCHANGED <<scriptVars, uploads>>
    BY <1>7, Zenon DEF SignedElsewhere, storageVars
  <2> QED BY <1>7, <2>1
<1>8. ASSUME FinishSigning(App) PROVE Goal
  <2>1. UNCHANGED <<scriptVars, uploads>>
    BY <1>8, Zenon DEF FinishSigning, storageVars
  <2> QED BY <1>8, <2>1
<1>9. ASSUME NEW t \in Threads, FinishSigning(t) PROVE Goal
  <2>1. t # App
    BY ScriptAssumption
  <2>2. UNCHANGED uploads /\ t \in DOMAIN signing /\ signing' = Without(signing, t)
    BY <1>9, Zenon DEF FinishSigning, storageVars, RegistrationAnswered
  <2>3. (\E value : Answered(t, value)) \/ Thrown(t, "lost")
    BY <1>9, <2>1, Zenon DEF FinishSigning, Lost
  <2> QED BY <2>2, <2>3
<1>10. ASSUME UNCHANGED demoVars PROVE Goal
  BY <1>10 DEF demoVars, scriptVars, storageVars, vars, orderVars
<1>11. ASSUME SessionsAge PROVE Goal
  <2>1. UNCHANGED <<scriptVars, uploads, signing>>
    BY <1>11, Zenon DEF SessionsAge, OnPlatform, OnlyIn, orderVars, storageVars
  <2> QED BY <2>1
<1> HIDE DEF Goal
<1>12. (NextStage => Goal) /\ (StorageStep => Goal)
       /\ \A t \in Threads : StartUpload(t) \/ FileCreated(t) \/ UploadReturns(t) => Goal
  BY <1>1, Zenon DEF Goal
<1>13. \A t \in Threads :
         \/ AnsweredCall(t) \/ RefusedCall(t) \/ LostCall(t) \/ StartLogin(t) \/ FinishLogin(t)
         \/ StartSigning(t) \/ RefusedSigning(t) \/ FinishSigning(t)
         => Goal
  BY <1>2, <1>3, <1>4, <1>5, <1>6, <1>9, Zenon
<1>14. Progress => Goal
  BY <1>12, <1>13, Zenon DEF Progress
<1>15. Goal
  BY <1>7, <1>8, <1>10, <1>11, <1>14, Zenon DEF DemoNext
<1> QED BY <1>15, Zenon DEF Goal

\* The storage canister, as far as the script uses it; who was disturbed shared an id.
StorageKept ==
  /\ SP!IInv /\ SP!UploadsOnly
  /\ \A t \in Threads : ~ Idle(t) /\ uploads[t].disturbed => uploads[t].id \in shared

\* A slot without a call is the same in both instances.
LEMMA SameIdle == \A t : Idle(t) <=> uploads[t] = SP!Idle
BY Zenon DEF Idle, Storage!Idle, SP!Idle

\* Also after a step.
LEMMA SameIdleNext == \A t : Idle(t)' <=> uploads'[t] = SP!Idle
BY Zenon DEF Idle, Storage!Idle, SP!Idle

\* A call that waits goes on as it was, or there is none.
Stays(d) ==
  \/ /\ todo'[d] = todo[d]
     /\ ~ Idle(d)' => ~ Idle(d) /\ uploads'[d].content = uploads[d].content
     /\ d \in DOMAIN signing' => d \in DOMAIN signing
  \/ Idle(d)' /\ d \notin DOMAIN signing'

\* The calls of two threads are kept apart.
LEMMA CallsStayEach ==
  ASSUME CallsKept,
         \A d \in Threads :
           \/ Stays(d)
           \/ /\ todo'[d] = todo[d] /\ todo[d] # <<>>
              /\ ~ Idle(d)' => NextCall(d).op = "create_file" /\ uploads'[d].content = NextCall(d).args.content
              /\ d \in DOMAIN signing' => NextCall(d).op = "signOrder"
  PROVE  CallsKept'
BY DEF CallsKept, Stays, NextCall

\* A signature waits in the slot it was given.
LEMMA Signing ==
  ASSUME NEW u, NEW id, NEW slot, SignOrder(u, id, slot)
  PROVE  DOMAIN signing' \subseteq DOMAIN signing \cup {slot}
BY DEF SignOrder, CreateShipment, Put

\* What the calls of the canister do to the calls of the script.
LEMMA UploadCalls ==
  ASSUME StorageKept, NEW t \in Threads, StartUpload(t) \/ FileCreated(t) \/ UploadReturns(t)
  PROVE  /\ UNCHANGED signing /\ (StartUpload(t) => UNCHANGED scriptVars)
         /\ \A d \in Threads \ {t} : ~ Idle(d)' => ~ Idle(d) /\ uploads'[d].content = uploads[d].content
         /\ ~ Idle(t)' => UNCHANGED scriptVars
         /\ StartUpload(t) => uploads'[t].content = NextCall(t).args.content
         /\ ~ StartUpload(t) => ~ Idle(t) /\ (~ Idle(t)' => uploads'[t].content = uploads[t].content)
<1>1. UNCHANGED signing
  BY Zenon DEF StartUpload, FileCreated, UploadReturns, OffPlatform, vars, orderVars
<1>2. CASE StartUpload(t)
  <2>1. SP!CreateFile(t, NextCall(t).user, NextCall(t).args.name, NextCall(t).args.content)
    BY <1>2, CreateFileIs, Zenon DEF StartUpload
  <2>2. /\ uploads'[t].content = NextCall(t).args.content
        /\ \A d \in Threads \ {t} :
             /\ uploads'[d] = SP!Idle <=> uploads[d] = SP!Idle
             /\ uploads[d] # SP!Idle => uploads'[d].content = uploads[d].content
    BY <2>1, SP!CallStarts, StorageAssumed, Zenon DEF StorageKept
  <2>3. UNCHANGED scriptVars
    BY <1>2 DEF StartUpload
  <2> QED BY <1>1, <1>2, <2>2, <2>3, SameIdle, SameIdleNext, Zenon
<1>3. CASE ~ StartUpload(t)
  <2>1. SP!FileCreated(t) \/ SP!UploadReturns(t)
    BY <1>3, FileCreatedIs, UploadReturnsIs, Zenon DEF FileCreated, UploadReturns
  <2>2. /\ \A d \in Threads \ {t} : uploads'[d] = uploads[d]
        /\ uploads[t] # SP!Idle /\ (uploads'[t] = SP!Idle \/ SP!Same(t))
        /\ SP!UploadReturns(t) => uploads'[t] = SP!Idle
    BY <2>1, SP!CallEnds, StorageAssumed, Zenon DEF StorageKept
  <2>3. ~ Idle(t)' => UNCHANGED scriptVars
    <3>1. CASE FileCreated(t)
      BY <3>1, Zenon DEF FileCreated
    <3>2. CASE UploadReturns(t)
      BY <3>2, <2>2, UploadReturnsIs, SameIdleNext, Zenon DEF UploadReturns
    <3> QED BY <1>3, <3>1, <3>2
  <2>4. uploads'[t] # SP!Idle => uploads'[t].content = uploads[t].content
    BY <2>2, Zenon DEF SP!Same
  <2>5. \A d \in Threads \ {t} : ~ Idle(d)' => ~ Idle(d) /\ uploads'[d].content = uploads[d].content
    BY <2>2, SameIdle, SameIdleNext, Zenon
  <2> QED BY <1>1, <1>3, <2>2, <2>3, <2>4, <2>5, SameIdle, SameIdleNext, Zenon
<1> QED BY <1>2, <1>3, Zenon

\* Every step keeps the calls in their places.
LEMMA CallsStay ==
  ASSUME ScriptKept, CallsKept, StorageKept, [DemoNext]_demoVars
  PROVE  CallsKept'
<1>1. ASSUME UNCHANGED <<scriptVars, uploads, signing>> PROVE CallsKept'
  <2>1. \A d \in Threads : Stays(d)
    BY <1>1, SameIdle, SameIdleNext, Zenon DEF Stays, scriptVars
  <2> QED BY <2>1, CallsStayEach
<1>2. ASSUME NextStage, UNCHANGED <<uploads, signing>> PROVE CallsKept'
  <2>1. \A t \in Threads : Idle(t) /\ t \notin DOMAIN signing
    BY <1>2, NextStageKeepsScript, Zenon DEF CallsKept
  <2>2. \A t \in Threads : Idle(t)' /\ t \notin DOMAIN signing'
    BY <1>2, <2>1, SameIdle, SameIdleNext, Zenon
  <2> QED BY <2>2, CallsStayEach, Zenon DEF Stays
<1>3. ASSUME NEW t \in Threads, \A d \in Threads \ {t} : todo'[d] = todo[d],
             \A d \in Threads \ {t} : ~ Idle(d)' => ~ Idle(d) /\ uploads'[d].content = uploads[d].content,
             \A d \in Threads \ {t} : d \in DOMAIN signing' => d \in DOMAIN signing,
             Idle(t)', t \notin DOMAIN signing'
      PROVE  CallsKept'
  <2>1. \A d \in Threads : Stays(d)
    BY <1>3, Zenon DEF Stays
  <2> QED BY <2>1, CallsStayEach, Zenon
<1>4. ASSUME NEW t \in Threads, todo[t] # <<>>,
             (\E value : Answered(t, value)) \/ (\E why \in {"lost", "refused"} : Thrown(t, why))
      PROVE  \A d \in Threads \ {t} : todo'[d] = todo[d]
  BY <1>4, AnsweredKeepsScript, ThrownKeepsScript, Zenon
<1>5. ASSUME UNCHANGED <<uploads, signing>>, NEW t \in Threads,
             todo[t] # <<>>, Idle(t), t \notin DOMAIN signing,
             (\E value : Answered(t, value)) \/ (\E why \in {"lost", "refused"} : Thrown(t, why))
      PROVE  CallsKept'
  <2>1. \A d \in Threads : Idle(d)' <=> Idle(d)
    BY <1>5, SameIdle, SameIdleNext, Zenon
  <2> QED BY <1>3, <1>4, <1>5, <2>1, Zenon
<1>6. ASSUME UNCHANGED <<scriptVars, uploads>>, NEW t \in Threads, StartSigning(t) PROVE CallsKept'
  <2>1. Calls(t, "signOrder") /\ DOMAIN signing' \subseteq DOMAIN signing \cup {t}
    BY <1>6, Signing, Zenon DEF StartSigning
  <2>2. Idle(t) /\ todo[t] # <<>> /\ NextCall(t).op = "signOrder"
    BY <2>1 DEF Calls, Waiting
  <2>3. \A d \in Threads : todo'[d] = todo[d] /\ (Idle(d)' <=> Idle(d)) /\ uploads'[d] = uploads[d]
    BY <1>6, SameIdle, SameIdleNext, Zenon DEF scriptVars
  <2>4. \A d \in Threads \ {t} : Stays(d)
    BY <2>1, <2>3 DEF Stays
  <2> QED BY <2>2, <2>3, <2>4, CallsStayEach
<1>7. ASSUME UNCHANGED <<scriptVars, uploads>>, SignedElsewhere \/ FinishSigning(App) PROVE CallsKept'
  <2>1. DOMAIN signing' \subseteq DOMAIN signing \cup {App}
    <3>1. CASE SignedElsewhere
      BY <3>1, Signing, Zenon DEF SignedElsewhere
    <3>2. CASE FinishSigning(App)
      BY <3>2 DEF FinishSigning, RegistrationAnswered, Without
    <3> QED BY <1>7, <3>1, <3>2
  <2>2. \A d \in Threads : todo'[d] = todo[d] /\ (Idle(d)' <=> Idle(d)) /\ uploads'[d] = uploads[d]
    BY <1>7, SameIdle, SameIdleNext, Zenon DEF scriptVars
  <2>3. \A d \in Threads : Stays(d)
    BY <2>1, <2>2, ScriptAssumption, Zenon DEF Stays
  <2> QED BY <2>3, CallsStayEach
<1>8. ASSUME UNCHANGED uploads, NEW t \in Threads, t \in DOMAIN signing, signing' = Without(signing, t),
             (\E value : Answered(t, value)) \/ (\E why \in {"lost", "refused"} : Thrown(t, why))
      PROVE  CallsKept'
  <2>1. todo[t] # <<>> /\ Idle(t)
    BY <1>8 DEF CallsKept
  <2>2. \A d \in Threads : Idle(d)' <=> Idle(d)
    BY <1>8, SameIdle, SameIdleNext, Zenon
  <2>3. t \notin DOMAIN signing' /\ \A d \in Threads : d \in DOMAIN signing' => d \in DOMAIN signing
    BY <1>8 DEF Without
  <2> QED BY <1>3, <1>4, <1>8, <2>1, <2>2, <2>3, Zenon
<1>9. ASSUME NEW t \in Threads, StartUpload(t) PROVE CallsKept'
  <2>1. /\ UNCHANGED <<signing, scriptVars>>
        /\ \A d \in Threads \ {t} : ~ Idle(d)' => ~ Idle(d) /\ uploads'[d].content = uploads[d].content
        /\ uploads'[t].content = NextCall(t).args.content
    BY <1>9, UploadCalls, Zenon
  <2>2. todo[t] # <<>> /\ NextCall(t).op = "create_file" /\ t \notin DOMAIN signing
    BY <1>9, Zenon DEF StartUpload, Calls, Waiting
  <2>3. \A d \in Threads : todo'[d] = todo[d]
    BY <2>1 DEF scriptVars
  <2>4. \A d \in Threads \ {t} : Stays(d)
    BY <2>1, <2>3, Zenon DEF Stays
  <2> QED BY <2>1, <2>2, <2>3, <2>4, CallsStayEach, Zenon
<1>10. ASSUME NEW t \in Threads, FileCreated(t) \/ UploadReturns(t), ~ StartUpload(t) PROVE CallsKept'
  <2>1. /\ UNCHANGED signing /\ ~ Idle(t)
        /\ \A d \in Threads \ {t} : ~ Idle(d)' => ~ Idle(d) /\ uploads'[d].content = uploads[d].content
        /\ ~ Idle(t)' => UNCHANGED scriptVars /\ uploads'[t].content = uploads[t].content
    BY <1>10, UploadCalls, Zenon
  <2>2. todo[t] # <<>> /\ NextCall(t).op = "create_file" /\ t \notin DOMAIN signing
    BY <2>1 DEF CallsKept
  <2>3. CASE ~ Idle(t)'
    <3>1. \A d \in Threads : todo'[d] = todo[d]
      BY <2>1, <2>3, Zenon DEF scriptVars
    <3>2. \A d \in Threads : Stays(d)
      BY <2>1, <2>3, <3>1, Zenon DEF Stays
    <3> QED BY <3>2, CallsStayEach, Zenon
  <2>4. CASE Idle(t)'
    <3>1. (\E value : Answered(t, value)) \/ Thrown(t, "lost")
      BY <1>10, <2>4, Zenon DEF FileCreated, UploadReturns
    <3>2. \A d \in Threads \ {t} : todo'[d] = todo[d]
      BY <1>4, <2>2, <3>1, Zenon
    <3> QED BY <1>3, <2>1, <2>2, <2>4, <3>2, Zenon
  <2> QED BY <2>3, <2>4
<1>11. ASSUME StorageStep PROVE CallsKept'
  <2>1. UNCHANGED <<scriptVars, signing>>
    BY <1>11, Zenon DEF StorageStep, OffPlatform, vars, orderVars
  <2>2. (\E c \in Threads : SP!ChunkCall(c)) \/ SP!Answered \/ SP!Rejected
    BY <1>11, ChunkCallIs, AnsweredIs, RejectedIs, Zenon DEF StorageStep
  <2>3. \A d \in Threads : SP!Same(d)
    BY <2>2, SP!CallsGoOn, StorageAssumed, Zenon DEF StorageKept
  <2>4. \A d \in Threads : Stays(d)
    BY <2>1, <2>3, SameIdle, SameIdleNext, Zenon DEF SP!Same, Stays, scriptVars
  <2> QED BY <2>4, CallsStayEach, Zenon
<1> QED BY <1>1, <1>2, <1>5, <1>6, <1>7, <1>8, <1>9, <1>10, <1>11, CallSteps, Zenon

\* What the steps do to the script.
LEMMA ScriptSteps ==
  ASSUME ScriptKept, CallsKept, StorageKept, [DemoNext]_demoVars
  PROVE  /\ ScriptKept'
         /\ \/ UNCHANGED scriptVars
            \/ NextStage
            \/ \E t \in Threads : todo[t] # <<>> /\ \E why \in {"lost", "refused"} : Thrown(t, why)
            \/ \E t \in Threads :
                 /\ todo[t] # <<>> /\ NextCall(t).op # "create_file" /\ \E value : Answered(t, value)
            \/ \E t \in Threads :
                 /\ todo[t] # <<>> /\ NextCall(t).op = "create_file"
                 /\ UploadReturns(t) /\ ~ uploads[t].failed /\ Answered(t, uploads[t].id)
<1>1. \/ UNCHANGED scriptVars
      \/ NextStage
      \/ \E t \in Threads : todo[t] # <<>> /\ \E why \in {"lost", "refused"} : Thrown(t, why)
      \/ \E t \in Threads :
           /\ todo[t] # <<>> /\ NextCall(t).op # "create_file" /\ \E value : Answered(t, value)
      \/ \E t \in Threads :
           /\ todo[t] # <<>> /\ NextCall(t).op = "create_file"
           /\ UploadReturns(t) /\ ~ uploads[t].failed /\ Answered(t, uploads[t].id)
  <2>1. ASSUME NEW t \in Threads, t \in DOMAIN signing
        PROVE  todo[t] # <<>> /\ NextCall(t).op # "create_file"
    BY <2>1 DEF CallsKept
  <2>2. ASSUME NEW t \in Threads, StartUpload(t) \/ FileCreated(t) \/ UploadReturns(t)
        PROVE  \/ UNCHANGED scriptVars
               \/ /\ todo[t] # <<>> /\ NextCall(t).op = "create_file"
                  /\ \/ Thrown(t, "lost")
                     \/ UploadReturns(t) /\ ~ uploads[t].failed /\ Answered(t, uploads[t].id)
    <3>1. ~ StartUpload(t) => ~ Idle(t)
      BY <2>2, UploadCalls, Zenon
    <3>2. ~ StartUpload(t) => todo[t] # <<>> /\ NextCall(t).op = "create_file"
      BY <3>1 DEF CallsKept
    <3>3. UNCHANGED scriptVars \/ FileCreated(t) \/ UploadReturns(t)
      BY <2>2, Zenon DEF StartUpload
    <3>4. \/ UNCHANGED scriptVars \/ Thrown(t, "lost")
          \/ UploadReturns(t) /\ ~ uploads[t].failed /\ Answered(t, uploads[t].id)
      BY <3>3, Zenon DEF FileCreated, UploadReturns
    <3>5. StartUpload(t) => UNCHANGED scriptVars
      BY Zenon DEF StartUpload
    <3> QED BY <3>2, <3>4, <3>5, Zenon
  <2>3. StorageStep => UNCHANGED scriptVars
    BY Zenon DEF StorageStep
  <2>4. UNCHANGED <<scriptVars, uploads>> => UNCHANGED scriptVars
    OBVIOUS
  <2> QED BY <2>1, <2>2, <2>3, <2>4, CallSteps, Zenon
<1>2. ScriptKept'
  <2>1. CASE UNCHANGED scriptVars
    <3>1. stage' = stage /\ thrown' = thrown /\ todo' = todo
      BY <2>1, Zenon DEF scriptVars
    <3> QED BY <3>1, Zenon DEF ScriptKept, Left, Branches
  <2> QED BY <1>1, <2>1, NextStageKeepsScript, AnsweredKeepsScript, ThrownKeepsScript, Zenon
<1> QED BY <1>1, <1>2, Zenon

\* What the planned uploads are, and under which names their ids are kept.
UploadFits(c) ==
  /\ c.op = "create_file" =>
       /\ c.user \in {Exporter, Importer}
       /\ \/ c.as = <<"report", 0>> /\ c.args.content = <<"pdf">>
          \/ \E type \in UNION {RequiredDocuments[p] : p \in 1 .. 3} :
               \/ /\ c.as = <<"file", type>>
                  /\ c.args = [name |-> Script!DocumentUrl, content |-> <<"pdf">>]
               \/ /\ c.as = <<"metadata", type>>
                  /\ c.args = [name |-> Script!MetadataUrl(Script!DocumentUrl), content |-> <<type>>]
  /\ c.op # "create_file" => c.as[1] \notin {"file", "metadata"}

\* The documents of the script are required ones.
LEMMA TypesRequired == \A s, t : TypeOf(s, t) \in UNION {RequiredDocuments[p] : p \in 1 .. 3}
<1>1. /\ RequiredDocuments[1] = {"PRE_SHIPMENT_SAMPLE"}
      /\ RequiredDocuments[2] = {"SHIPPING_INSTRUCTIONS", "SHIPPING_NOTE"}
      /\ RequiredDocuments[3] = {"BOOKING_CONFIRMATION"}
  BY DEF RequiredDocuments, Phase1RequiredDocuments, Phase2RequiredDocuments, Phase3RequiredDocuments
<1>2. 1 \in 1 .. 3 /\ 2 \in 1 .. 3 /\ 3 \in 1 .. 3
  OBVIOUS
<1> QED BY <1>1, <1>2, Zenon DEF TypeOf

\* Every planned call is of that kind.
LEMMA PlannedFits ==
  ASSUME NEW t, Planned(t)
  PROVE  UploadFits(NextCall(t))
<1>1. PICK c : c = NextCall(t)
  OBVIOUS
<1>2. CASE Early(c)
  BY <1>1, <1>2 DEF Early, EarlyOps, UploadFits
<1>3. CASE c \in {Script!SignOrder(Exporter), Script!EvaluateSample(Importer),
                  Script!SetShipmentDetails(Exporter), Script!ApproveShipmentDetails(Importer)}
  BY <1>1, <1>3 DEF UploadFits, Script!SignOrder, Script!EvaluateSample, Script!SetShipmentDetails,
     Script!ApproveShipmentDetails, Script!Do, Script!Call, Script!Dropped
<1>4. CASE c = Script!GetOrder(Exporter) \/ c = LookAtPhase(PhaseLooked(stage))
  BY <1>1, <1>4 DEF UploadFits, Script!GetOrder, LookAtPhase, Script!Call
<1>5. PICK type \in UNION {RequiredDocuments[p] : p \in 1 .. 3} : type = TypeOf(stage, t)
  BY TypesRequired
<1>6. CASE c = AddDocumentOf(type) \/ c = ApproveDocumentOf(type)
  BY <1>1, <1>6 DEF UploadFits, AddDocumentOf, ApproveDocumentOf, Script!ApproveDocument, Script!Call, Script!Dropped
<1>7. CASE c = CreateFileOf(type) \/ c = CreateMetadataOf(type)
  BY <1>1, <1>5, <1>7 DEF UploadFits, CreateFileOf, CreateMetadataOf, Script!Create, Script!Call
<1> QED BY <1>1, <1>2, <1>3, <1>4, <1>5, <1>6, <1>7, Zenon DEF Planned

\* What the script does to the storage canister is uploading.
LEMMA UploadsAre ==
  ASSUME ScriptKept, StorageKept, [DemoNext]_demoVars
  PROVE  [SP!UploadStep]_SP!vars
<1>1. ASSUME UNCHANGED <<storageVars, shared>> PROVE UNCHANGED SP!vars
  BY <1>1, Zenon DEF storageVars, SP!vars, SP!canister, SP!permissionVars
<1>2. ASSUME NEW t \in Threads, StartUpload(t) PROVE SP!UploadStep
  <2>1. /\ SP!CreateFile(t, NextCall(t).user, NextCall(t).args.name, NextCall(t).args.content)
        /\ todo[t] # <<>> /\ NextCall(t).op = "create_file"
    BY <1>2, CreateFileIs, Zenon DEF StartUpload, Calls
  <2>2. UploadFits(NextCall(t))
    BY <2>1, CallIsPlanned, PlannedFits, Zenon
  <2>3. NextCall(t).user \in Users
    BY <2>1, <2>2, ScriptAssumption DEF UploadFits
  <2>4. PICK w \in Storages : w = workload
    BY Zenon DEF StorageKept, SP!IInv, SP!Typed
  <2>5. \A type \in {"pdf"} \cup UNION {RequiredDocuments[p] : p \in 1 .. 3} : <<type>> \in w.contents
    BY StoragesAssumption
  <2>6. NextCall(t).args.content \in w.contents
    <3>1. \E type \in {"pdf"} \cup UNION {RequiredDocuments[p] : p \in 1 .. 3} :
            NextCall(t).args.content = <<type>>
      <4>1. PICK c : c = NextCall(t)
        OBVIOUS
      <4> DEFINE Types == UNION {RequiredDocuments[p] : p \in 1 .. 3}
      <4>2. \/ c.args.content = <<"pdf">>
            \/ \E type \in Types : c.args = [name |-> Script!DocumentUrl, content |-> <<"pdf">>]
                 \/ c.args = [name |-> Script!MetadataUrl(Script!DocumentUrl), content |-> <<type>>]
        BY <2>1, <2>2, <4>1, Zenon DEF UploadFits
      <4> HIDE DEF Types
      <4>3. ASSUME NEW type \in Types,
                   \/ c.args = [name |-> Script!DocumentUrl, content |-> <<"pdf">>]
                   \/ c.args = [name |-> Script!MetadataUrl(Script!DocumentUrl), content |-> <<type>>]
            PROVE  c.args.content = <<"pdf">> \/ c.args.content = <<type>>
        BY <4>3
      <4>4. c.args.content = <<"pdf">> \/ \E type \in Types : c.args.content = <<type>>
        BY <4>2, <4>3, Zenon
      <4>5. "pdf" \in {"pdf"} \cup Types /\ \A type \in Types : type \in {"pdf"} \cup Types
        OBVIOUS
      <4> QED BY <4>1, <4>4, <4>5, Zenon DEF Types
    <3> QED BY <2>5, <3>1
  <2>7. NextCall(t).args.content \in UNION {v.contents : v \in Storages}
    BY <2>6
  <2> QED BY <2>1, <2>3, <2>7, Zenon DEF SP!UploadStep
<1>3. ASSUME NEW t \in Threads, FileCreated(t) \/ UploadReturns(t) PROVE SP!UploadStep
  BY <1>3, FileCreatedIs, UploadReturnsIs, Zenon DEF FileCreated, UploadReturns, SP!UploadStep
<1>4. ASSUME StorageStep PROVE SP!UploadStep
  BY <1>4, ChunkCallIs, AnsweredIs, RejectedIs, Zenon DEF StorageStep, SP!UploadStep
<1> QED BY <1>1, <1>2, <1>3, <1>4, StorageSteps, Zenon

\* Ids two uploads had are noted, for good.
LEMMA SharedStays ==
  ASSUME ScriptKept, StorageKept, [DemoNext]_demoVars
  PROVE  /\ shared \subseteq shared'
         /\ \A t \in Threads : ~ Idle(t)' /\ uploads'[t].disturbed => uploads'[t].id \in shared'
<1>1. CASE UNCHANGED <<storageVars, shared>>
  <2>1. shared' = shared /\ uploads' = uploads
    BY <1>1, Zenon DEF storageVars
  <2> QED BY <2>1, SameIdle, SameIdleNext, Zenon DEF StorageKept
<1>2. ASSUME NEW t \in Threads, StartUpload(t)
      PROVE  /\ shared \subseteq shared'
             /\ \A d \in Threads : ~ Idle(d)' /\ uploads'[d].disturbed => uploads'[d].id \in shared'
  <2>1. SP!CreateFile(t, NextCall(t).user, NextCall(t).args.name, NextCall(t).args.content)
    BY <1>2, CreateFileIs, Zenon DEF StartUpload
  <2>2. shared' = shared \cup {id \in {uploads'[t].id} : \E d \in Threads \ {t} : ~ Idle(d) /\ uploads[d].id = id}
    BY <1>2, Zenon DEF StartUpload
  <2>3. shared \subseteq shared'
    BY <2>2
  <2>4. (\E d \in Threads \ {t} : ~ Idle(d) /\ uploads[d].id = uploads'[t].id) => uploads'[t].id \in shared'
    BY <2>2
  <2>5. /\ uploads'[t].disturbed => \E e \in Threads \ {t} : uploads[e] # SP!Idle /\ uploads[e].id = uploads'[t].id
        /\ \A d \in Threads \ {t} :
             /\ uploads'[d] = SP!Idle <=> uploads[d] = SP!Idle
             /\ uploads[d] # SP!Idle =>
                  /\ uploads'[d].id = uploads[d].id
                  /\ uploads'[d].disturbed => uploads[d].disturbed \/ uploads[d].id = uploads'[t].id
    BY <2>1, SP!CallStarts, StorageAssumed, Zenon DEF StorageKept
  <2>6. uploads'[t].disturbed => uploads'[t].id \in shared'
    BY <2>4, <2>5, SameIdle, Zenon
  <2>7. ASSUME NEW d \in Threads \ {t}, ~ Idle(d)', uploads'[d].disturbed
        PROVE  uploads'[d].id \in shared'
    <3>1. ~ Idle(d) /\ uploads'[d].id = uploads[d].id
      BY <2>5, <2>7, SameIdle, SameIdleNext, Zenon
    <3>2. uploads[d].disturbed \/ uploads[d].id = uploads'[t].id
      BY <2>5, <2>7, SameIdle, SameIdleNext, Zenon
    <3>3. CASE uploads[d].disturbed
      BY <2>3, <3>1, <3>3, Zenon DEF StorageKept
    <3>4. CASE uploads[d].id = uploads'[t].id
      BY <2>4, <3>1, <3>4, Zenon
    <3> QED BY <3>2, <3>3, <3>4
  <2> QED BY <2>3, <2>6, <2>7, Zenon
<1>3. ASSUME NEW t \in Threads, FileCreated(t) \/ UploadReturns(t)
      PROVE  /\ shared \subseteq shared'
             /\ \A d \in Threads : ~ Idle(d)' /\ uploads'[d].disturbed => uploads'[d].id \in shared'
  <2>1. SP!FileCreated(t) \/ SP!UploadReturns(t)
    BY <1>3, FileCreatedIs, UploadReturnsIs, Zenon DEF FileCreated, UploadReturns
  <2>2. /\ \A d \in Threads \ {t} : uploads'[d] = uploads[d]
        /\ uploads[t] # SP!Idle /\ (uploads'[t] = SP!Idle \/ SP!Same(t))
    BY <2>1, SP!CallEnds, StorageAssumed, Zenon DEF StorageKept
  <2>3. shared' = shared
    BY <1>3, Zenon DEF FileCreated, UploadReturns
  <2> QED BY <2>2, <2>3, SameIdle, SameIdleNext, Zenon DEF SP!Same, StorageKept
<1>4. ASSUME StorageStep
      PROVE  /\ shared \subseteq shared'
             /\ \A d \in Threads : ~ Idle(d)' /\ uploads'[d].disturbed => uploads'[d].id \in shared'
  <2>1. (\E c \in Threads : SP!ChunkCall(c)) \/ SP!Answered \/ SP!Rejected
    BY <1>4, ChunkCallIs, AnsweredIs, RejectedIs, Zenon DEF StorageStep
  <2>2. \A d \in Threads : SP!Same(d)
    BY <2>1, SP!CallsGoOn, StorageAssumed, Zenon DEF StorageKept
  <2>3. shared' = shared
    BY <1>4, Zenon DEF StorageStep
  <2> QED BY <2>2, <2>3, SameIdle, SameIdleNext, Zenon DEF SP!Same, StorageKept
<1> QED BY <1>1, <1>2, <1>3, <1>4, StorageSteps, Zenon

\* Every step keeps what is said of the canister, and every file that is stored.
LEMMA StorageStays ==
  ASSUME ScriptKept, StorageKept, [DemoNext]_demoVars
  PROVE  /\ StorageKept' /\ shared \subseteq shared'
         /\ \A id \in DOMAIN files : id \in DOMAIN files' /\ files'[id] = files[id]
<1>1. SP!IInv /\ SP!UploadsOnly /\ [SP!UploadStep]_SP!vars
  BY UploadsAre DEF StorageKept
<1>2. SP!IInv'
  BY <1>1, SP!UploadStepIsAny, SP!Kept, StorageAssumed, Zenon
<1>3. /\ SP!UploadsOnly'
      /\ \A id \in DOMAIN files : id \in DOMAIN files' /\ files'[id] = files[id]
  BY <1>1, SP!UploadsOnlyStay, StorageAssumed, Zenon
<1> QED BY <1>2, <1>3, SharedStays DEF StorageKept, Idle

-----------------------------------------------------------------------------
\* What the script keeps.

Content(name, type) == IF name = "file" THEN <<"pdf">> ELSE <<type>>
FileName(name) ==
  IF name = "file" THEN Script!DocumentUrl ELSE Script!MetadataUrl(Script!DocumentUrl)

\* Documents are uploaded under names of documents,
Proper(p) == p.name = Script!DocumentUrl => p.declared = <<"pdf">>

\* and what a thread uploads is called what its call says, unless two uploads had its id.
EntriesKept ==
  /\ \A id \in DOMAIN files : Proper(files[id])
  /\ \A id \in DOMAIN pending : Proper(pending[id])
  /\ \A t \in Threads : ~ Idle(t) /\ uploads[t].id \notin shared =>
       /\ uploads[t].id \in DOMAIN files => files[uploads[t].id].name = NextCall(t).args.name
       /\ uploads[t].id \in DOMAIN pending => pending[uploads[t].id].name = NextCall(t).args.name

\* A thread whose upload goes on is still at the call that made it.
LEMMA Steady ==
  ASSUME ScriptKept, CallsKept, StorageKept, [DemoNext]_demoVars, NEW t \in Threads, ~ Idle(t)
  PROVE  Idle(t)' \/ NextCall(t)' = NextCall(t)
<1>0. ASSUME todo'[t] = todo[t] PROVE NextCall(t)' = NextCall(t)
  BY <1>0 DEF NextCall
<1>1. ASSUME UNCHANGED scriptVars PROVE todo'[t] = todo[t]
  BY <1>1 DEF scriptVars
<1>2. todo[t] # <<>> /\ NextCall(t).op = "create_file" /\ t \notin DOMAIN signing
  BY DEF CallsKept
<1>3. ~ NextStage
  BY <1>2, NextStageKeepsScript, Zenon
<1>4. ASSUME NEW d \in Threads, d # t, todo[d] # <<>>,
             (\E value : Answered(d, value)) \/ (\E why \in {"lost", "refused"} : Thrown(d, why))
      PROVE  todo'[t] = todo[t]
  BY <1>4, AnsweredKeepsScript, ThrownKeepsScript, Zenon
<1>5. ASSUME NEW d \in Threads, d \in DOMAIN signing PROVE todo[d] # <<>> /\ d # t
  BY <1>2, <1>5 DEF CallsKept
<1>6. ASSUME NEW d \in Threads, StartUpload(d) \/ FileCreated(d) \/ UploadReturns(d)
      PROVE  Idle(t)' \/ todo'[t] = todo[t]
  <2>1. CASE UNCHANGED scriptVars
    BY <1>1, <2>1
  <2>2. CASE ~ UNCHANGED scriptVars
    <3>1. ~ StartUpload(d) /\ ~ Idle(d) /\ Idle(d)'
      BY <1>6, <2>2, UploadCalls, Zenon
    <3>2. todo[d] # <<>>
      BY <3>1 DEF CallsKept
    <3>3. (\E value : Answered(d, value)) \/ Thrown(d, "lost")
      BY <1>6, <2>2, <3>1, Zenon DEF FileCreated, UploadReturns
    <3> QED BY <1>4, <3>1, <3>2, <3>3, Zenon
  <2> QED BY <2>1, <2>2
<1>7. StorageStep => UNCHANGED scriptVars
  BY Zenon DEF StorageStep
<1>8. UNCHANGED <<scriptVars, uploads>> => UNCHANGED scriptVars
  OBVIOUS
<1>9. UNCHANGED <<scriptVars, uploads, signing>> => UNCHANGED scriptVars
  OBVIOUS
<1> QED BY <1>0, <1>1, <1>3, <1>4, <1>5, <1>6, <1>7, <1>8, <1>9, CallSteps, Zenon

\* The names of the files.
LEMMA NamesDiffer == Script!MetadataUrl(Script!DocumentUrl) # Script!DocumentUrl
<1>1. Script!DocumentUrl = [kind |-> "transactions", stem |-> "sampleDocument", extension |-> "pdf"]
  BY DEF Script!DocumentUrl, Script!Url, Script!MockDocument
<1>2. Script!MetadataUrl(Script!DocumentUrl).extension = "-metadata.json"
  BY <1>1 DEF Script!MetadataUrl
<1> QED BY <1>1, <1>2

\* Every step keeps the names.
LEMMA EntriesStay ==
  ASSUME ScriptKept, CallsKept, StorageKept, EntriesKept, [DemoNext]_demoVars
  PROVE  EntriesKept'
<1>1. ASSUME NEW t \in Threads, StartUpload(t) PROVE EntriesKept'
  <2>0. SP!CreateFile(t, NextCall(t).user, NextCall(t).args.name, NextCall(t).args.content)
    BY <1>1, CreateFileIs, Zenon DEF StartUpload
  <2>1. PICK id, p : /\ id = SP!NextId(files) /\ pending' = SP!Put(pending, id, p) /\ files' = files
                     /\ p.name = NextCall(t).args.name /\ p.declared = NextCall(t).args.content
    <3>1. PICK user, name, content :
            /\ SP!CreateFile(t, user, name, content)
            /\ name = NextCall(t).args.name /\ content = NextCall(t).args.content
      BY <2>0
    <3>2. PICK q : q = SP!NewPending(user, name, content)
      OBVIOUS
    <3>3. pending' = SP!Put(pending, SP!NextId(files), q) /\ files' = files
      BY <3>1, <3>2, Zenon DEF SP!CreateFile, SP!NextFileId
    <3>4. q.name = name /\ q.declared = content
      BY <3>2 DEF SP!NewPending
    <3> QED BY <3>1, <3>3, <3>4
  <2>2. todo[t] # <<>> /\ NextCall(t).op = "create_file" /\ UploadFits(NextCall(t))
    BY <1>1, CallIsPlanned, PlannedFits, Zenon DEF StartUpload, Calls
  <2>3. Proper(p)
    <3>1. PICK c : c = NextCall(t)
      OBVIOUS
    <3>2. /\ c.op = "create_file" /\ UploadFits(c)
          /\ p.name = c.args.name /\ p.declared = c.args.content
      BY <2>1, <2>2, <3>1
    <3>3. CASE c.args.content = <<"pdf">>
      BY <3>2, <3>3 DEF Proper
    <3>4. CASE c.args.name = Script!MetadataUrl(Script!DocumentUrl)
      BY <3>2, <3>4, NamesDiffer, Zenon DEF Proper
    <3>5. c.args.content = <<"pdf">> \/ c.args.name = Script!MetadataUrl(Script!DocumentUrl)
      <4>1. CASE c.args.content = <<"pdf">>
        BY <4>1
      <4>2. ASSUME NEW content, c.args = [name |-> Script!DocumentUrl, content |-> <<"pdf">>]
                             \/ c.args = [name |-> Script!MetadataUrl(Script!DocumentUrl), content |-> content]
            PROVE  c.args.content = <<"pdf">> \/ c.args.name = Script!MetadataUrl(Script!DocumentUrl)
        BY <4>2
      <4> QED BY <3>2, <4>1, <4>2, Zenon DEF UploadFits
    <3> QED BY <3>3, <3>4, <3>5
  <2>4. (\A i \in DOMAIN files' : Proper(files'[i])) /\ (\A i \in DOMAIN pending' : Proper(pending'[i]))
    BY <2>1, <2>3 DEF SP!Put, EntriesKept
  <2>5. /\ uploads'[t].id = id
        /\ \A d \in Threads \ {t} :
             /\ uploads'[d] = SP!Idle <=> uploads[d] = SP!Idle
             /\ uploads[d] # SP!Idle => uploads'[d].id = uploads[d].id
    BY <2>0, <2>1, SP!CallStarts, StorageAssumed, Zenon DEF StorageKept
  <2>6. id \notin DOMAIN files
    BY <2>1, SP!NextIsFresh, StorageAssumed, Zenon DEF StorageKept
  <2>7. /\ \A d \in Threads : NextCall(d)' = NextCall(d)
        /\ shared' = shared \cup {i \in {id} : \E d \in Threads \ {t} : ~ Idle(d) /\ uploads[d].id = i}
    BY <1>1, <2>5 DEF StartUpload, scriptVars, NextCall
  <2>8. ASSUME NEW d \in Threads, ~ Idle(d)', uploads'[d].id \notin shared'
        PROVE  /\ uploads'[d].id \in DOMAIN files' => files'[uploads'[d].id].name = NextCall(d)'.args.name
               /\ uploads'[d].id \in DOMAIN pending' => pending'[uploads'[d].id].name = NextCall(d)'.args.name
    <3>1. CASE d = t
      BY <2>1, <2>5, <2>6, <2>7, <3>1 DEF SP!Put
    <3>2. CASE d # t
      <4>1. ~ Idle(d) /\ uploads'[d].id = uploads[d].id
        BY <2>5, <2>8, <3>2, SameIdle, SameIdleNext, Zenon
      <4>2. uploads[d].id \notin shared /\ uploads[d].id # id
        BY <2>7, <2>8, <3>2, <4>1
      <4>3. /\ uploads[d].id \in DOMAIN files => files[uploads[d].id].name = NextCall(d).args.name
            /\ uploads[d].id \in DOMAIN pending => pending[uploads[d].id].name = NextCall(d).args.name
        BY <4>1, <4>2, Zenon DEF EntriesKept
      <4>4. uploads[d].id \in DOMAIN pending' =>
              uploads[d].id \in DOMAIN pending /\ pending'[uploads[d].id] = pending[uploads[d].id]
        BY <2>1, <4>2 DEF SP!Put
      <4> QED BY <2>1, <2>7, <4>1, <4>3, <4>4, Zenon
    <3> QED BY <3>1, <3>2
  <2> QED BY <2>4, <2>8, Zenon DEF EntriesKept
<1>2. CASE \/ UNCHANGED <<storageVars, shared>>
           \/ \E t \in Threads : FileCreated(t) \/ UploadReturns(t)
           \/ StorageStep
  <2>1. \/ \E t \in Threads : SP!ChunkCall(t) \/ SP!UploadReturns(t) \/ SP!FileCreated(t)
        \/ SP!Answered \/ SP!Rejected
        \/ UNCHANGED SP!vars
    <3>1. UNCHANGED <<storageVars, shared>> => UNCHANGED SP!vars
      BY Zenon DEF storageVars, SP!vars, SP!canister, SP!permissionVars
    <3>2. StorageStep => (\E t \in Threads : SP!ChunkCall(t)) \/ SP!Answered \/ SP!Rejected
      BY ChunkCallIs, AnsweredIs, RejectedIs, Zenon DEF StorageStep
    <3>3. ASSUME NEW t \in Threads, FileCreated(t) \/ UploadReturns(t)
          PROVE  SP!FileCreated(t) \/ SP!UploadReturns(t)
      BY <3>3, FileCreatedIs, UploadReturnsIs, Zenon DEF FileCreated, UploadReturns
    <3> QED BY <1>2, <3>1, <3>2, <3>3, Zenon
  <2>2. /\ \A id \in DOMAIN pending' : id \in DOMAIN pending /\ SP!Label(pending'[id]) = SP!Label(pending[id])
        /\ \A id \in DOMAIN files' :
             \/ id \in DOMAIN files /\ files'[id] = files[id]
             \/ id \in DOMAIN pending /\ SP!Label(files'[id]) = SP!Label(pending[id])
    BY <2>1, SP!EntriesGoOn, StorageAssumed, Zenon DEF StorageKept
  <2>3. /\ \A id \in DOMAIN pending' : /\ id \in DOMAIN pending /\ pending'[id].name = pending[id].name
                                       /\ pending'[id].declared = pending[id].declared
        /\ \A id \in DOMAIN files' :
             \/ id \in DOMAIN files /\ files'[id] = files[id]
             \/ /\ id \in DOMAIN pending /\ files'[id].name = pending[id].name
                /\ files'[id].declared = pending[id].declared
    BY <2>2 DEF SP!Label
  <2>4. ASSUME NEW d \in Threads, ~ Idle(d)'
        PROVE  ~ Idle(d) /\ uploads'[d].id = uploads[d].id
    <3>1. ASSUME NEW t \in Threads, SP!FileCreated(t) \/ SP!UploadReturns(t)
          PROVE  uploads'[d] = uploads[d] \/ SP!Same(d)
      BY <2>4, <3>1, SP!CallEnds, SameIdleNext, StorageAssumed, Zenon DEF StorageKept
    <3>2. (\E t \in Threads : SP!ChunkCall(t)) \/ SP!Answered \/ SP!Rejected => SP!Same(d)
      BY SP!CallsGoOn, StorageAssumed, Zenon DEF StorageKept
    <3>3. UNCHANGED SP!vars => uploads'[d] = uploads[d]
      BY DEF SP!vars
    <3>4. uploads'[d] = uploads[d] \/ SP!Same(d)
      BY <2>1, <3>1, <3>2, <3>3, Zenon
    <3> QED BY <2>4, <3>4, SameIdle, SameIdleNext, Zenon DEF SP!Same
  <2>5. shared \subseteq shared'
    BY SharedStays
  <2>6. ASSUME NEW d \in Threads, ~ Idle(d)', uploads'[d].id \notin shared'
        PROVE  /\ uploads'[d].id \in DOMAIN files' => files'[uploads'[d].id].name = NextCall(d)'.args.name
               /\ uploads'[d].id \in DOMAIN pending' => pending'[uploads'[d].id].name = NextCall(d)'.args.name
    <3>1. ~ Idle(d) /\ uploads'[d].id = uploads[d].id /\ NextCall(d)' = NextCall(d)
      BY <2>4, <2>6, Steady, Zenon
    <3>2. uploads[d].id \notin shared
      BY <2>5, <2>6, <3>1
    <3>3. /\ uploads[d].id \in DOMAIN files => files[uploads[d].id].name = NextCall(d).args.name
          /\ uploads[d].id \in DOMAIN pending => pending[uploads[d].id].name = NextCall(d).args.name
      BY <3>1, <3>2, Zenon DEF EntriesKept
    <3> QED BY <2>3, <3>1, <3>3
  <2>7. (\A i \in DOMAIN files' : Proper(files'[i])) /\ (\A i \in DOMAIN pending' : Proper(pending'[i]))
    BY <2>3 DEF EntriesKept, Proper
  <2> QED BY <2>6, <2>7, Zenon DEF EntriesKept
<1> QED BY <1>1, <1>2, StorageSteps, Zenon

\* The id of an upload leads to what was uploaded, under its name, unless two uploads had it.
IdsKept == \A type : \A name \in {"file", "metadata"} :
  <<name, type>> \in DOMAIN results =>
    LET id == results[<<name, type>>]
    IN  id \notin shared => /\ id \in DOMAIN files /\ files[id].declared = Content(name, type)
                            /\ files[id].name = FileName(name)

\* What a thread has uploaded when it goes on with a document.
UploadedKept == stage \in DocumentStages => \A t \in Uploaders(stage) :
  /\ Left(t) \in {1, 2, 3} => <<"file", TypeOf(stage, t)>> \in DOMAIN results
  /\ Left(t) \in {1, 2} => <<"metadata", TypeOf(stage, t)>> \in DOMAIN results

\* The documents of the record were uploaded.
DocumentsUploaded ==
  \A i \in DOMAIN record.documents : \A name \in {"file", "metadata"} :
    <<name, record.documents[i].type>> \in DOMAIN results

\* An answer adds at most one value, under the name the call gives.
LEMMA ResultsGrow ==
  ASSUME NEW t, NEW value, Answered(t, value)
  PROVE  /\ DOMAIN results \subseteq DOMAIN results'
         /\ \A k \in DOMAIN results' : k # NextCall(t).as => k \in DOMAIN results /\ results'[k] = results[k]
         /\ NextCall(t).as \in DOMAIN results' => NextCall(t).as \in DOMAIN results \/ results'[NextCall(t).as] = value
         /\ NextCall(t).as # Script!Dropped =>
              NextCall(t).as \in DOMAIN results' /\ results'[NextCall(t).as] = value
BY DEF Answered, Put

\* Nothing the script keeps is lost.
LEMMA ResultsStay ==
  ASSUME ScriptKept, CallsKept, StorageKept, [DemoNext]_demoVars
  PROVE  DOMAIN results \subseteq DOMAIN results'
BY ScriptSteps, ResultsGrow, Zenon DEF Thrown, NextStage, scriptVars

\* The ids the script keeps stay those of the files it uploaded.
LEMMA IdsStay ==
  ASSUME ScriptKept, CallsKept, StorageKept, EntriesKept, IdsKept, [DemoNext]_demoVars
  PROVE  IdsKept'
<1> DEFINE Good(id, name, type) ==
      id \notin shared => /\ id \in DOMAIN files /\ files[id].declared = Content(name, type)
                          /\ files[id].name = FileName(name)
           Better(id, name, type) ==
      id \notin shared' => /\ id \in DOMAIN files' /\ files'[id].declared = Content(name, type)
                           /\ files'[id].name = FileName(name)
<1>1. \A id, name, type : Good(id, name, type) => Better(id, name, type)
  BY StorageStays
<1> HIDE DEF Good, Better
<1>2. ASSUME NEW type, NEW name \in {"file", "metadata"}, <<name, type>> \in DOMAIN results'
      PROVE  Better(results'[<<name, type>>], name, type)
  <2>0. PICK k : k = <<name, type>>
    OBVIOUS
  <2>1. CASE k \in DOMAIN results /\ results'[k] = results[k]
    <3>1. Good(results[k], name, type)
      BY <2>0, <2>1, Zenon DEF IdsKept, Good
    <3> QED BY <1>1, <2>0, <2>1, <3>1, Zenon
  <2>2. CASE results' = results
    BY <1>2, <2>0, <2>1, <2>2, Zenon
  <2>3. CASE NextStage \/ UNCHANGED scriptVars \/ \E t \in Threads, why \in {"lost", "refused"} : Thrown(t, why)
    <3>1. results' = results
      BY <2>3, Zenon DEF NextStage, scriptVars, Thrown
    <3> QED BY <2>2, <3>1
  <2>4. ASSUME NEW t \in Threads, todo[t] # <<>>, NextCall(t).op # "create_file", NEW value, Answered(t, value)
        PROVE  Better(results'[k], name, type)
    <3>1. NextCall(t).as[1] \notin {"file", "metadata"}
      BY <2>4, CallIsPlanned, PlannedFits, Zenon DEF UploadFits
    <3>2. k # NextCall(t).as
      BY <2>0, <3>1
    <3>3. k \in DOMAIN results /\ results'[k] = results[k]
      BY <1>2, <2>0, <2>4, <3>2, ResultsGrow, Zenon
    <3> QED BY <2>1, <2>0, <3>3, Zenon
  <2>5. ASSUME NEW t \in Threads, todo[t] # <<>>, NextCall(t).op = "create_file",
               UploadReturns(t), ~ uploads[t].failed, Answered(t, uploads[t].id)
        PROVE  Better(results'[k], name, type)
    <3>1. UploadFits(NextCall(t))
      BY <2>5, CallIsPlanned, PlannedFits, Zenon
    <3>2. CASE k # NextCall(t).as
      <4>1. k \in DOMAIN results /\ results'[k] = results[k]
        BY <1>2, <2>0, <2>5, <3>2, ResultsGrow, Zenon
      <4> QED BY <2>1, <2>0, <4>1, Zenon
    <3>3. CASE k = NextCall(t).as
      <4>1. NextCall(t).args = [name |-> FileName(name), content |-> Content(name, type)]
        <5>1. k # <<"report", 0>>
          BY <2>0
        <5>2. \A other : /\ k = <<"file", other>> => name = "file"
                         /\ k = <<"metadata", other>> => name = "metadata" /\ other = type
          BY <2>0
        <5>3. "metadata" # "file"
          OBVIOUS
        <5> QED BY <2>5, <3>1, <3>3, <5>1, <5>2, <5>3, Zenon DEF UploadFits, Content, FileName
      <4>2. k # Script!Dropped
        BY <2>0 DEF Script!Dropped
      <4>3. results'[k] = uploads[t].id
        BY <2>5, <3>3, <4>2, ResultsGrow, Zenon
      <4>4. SP!UploadReturns(t)
        BY <2>5, UploadReturnsIs, Zenon DEF UploadReturns
      <4>5. uploads[t] # SP!Idle /\ uploads[t].op = "chunks" /\ uploads[t].left = {}
        BY <4>4, SP!CallEnds, StorageAssumed, Zenon DEF StorageKept
      <4>6. uploads[t].content = Content(name, type)
        BY <4>1, <4>5, SameIdle DEF CallsKept
      <4>7. uploads[t].content # <<>>
        BY <4>6 DEF Content
      <4>8. ~ uploads[t].disturbed =>
              uploads[t].id \in DOMAIN files /\ files[uploads[t].id].declared = uploads[t].content
        BY <2>5, <4>5, <4>7, SP!ReportedIs, StorageAssumed, Zenon DEF StorageKept
      <4>9. uploads[t].disturbed => uploads[t].id \in shared
        BY <4>5, SameIdle, Zenon DEF StorageKept
      <4>10. uploads[t].id \notin shared /\ uploads[t].id \in DOMAIN files =>
               files[uploads[t].id].name = FileName(name)
        BY <4>1, <4>5, SameIdle DEF EntriesKept
      <4>11. Good(results'[k], name, type)
        BY <4>3, <4>6, <4>8, <4>9, <4>10, Zenon DEF Good
      <4> QED BY <1>1, <4>11, Zenon
    <3> QED BY <3>2, <3>3
  <2> QED BY <2>0, <2>3, <2>4, <2>5, ScriptSteps, Zenon
<1> QED BY <1>2, Zenon DEF IdsKept, Better

\* The calls about a document, one after the other.
LEMMA PlannedDocument ==
  ASSUME NEW t, Planned(t), stage \in DocumentStages
  PROVE  LET c == NextCall(t) type == TypeOf(stage, t) IN
         /\ t \in Uploaders(stage)
         /\ \/ Left(t) = 4 /\ c = CreateFileOf(type)
            \/ Left(t) = 3 /\ c = CreateMetadataOf(type)
            \/ Left(t) = 2 /\ c = AddDocumentOf(type)
            \/ Left(t) = 1 /\ c = ApproveDocumentOf(type)
<1>1. /\ stage \notin 1 .. 3 /\ stage # 4 /\ stage \notin PhaseStages /\ stage # 7 /\ stage # 10
  BY DEF DocumentStages, PhaseStages
<1> QED BY <1>1, Zenon DEF Planned

\* What the calls about a document are kept under.
LEMMA DocumentNames ==
  \A type : /\ CreateFileOf(type).as = <<"file", type>> /\ CreateMetadataOf(type).as = <<"metadata", type>>
            /\ CreateFileOf(type).as # Script!Dropped /\ CreateMetadataOf(type).as # Script!Dropped
BY DEF CreateFileOf, CreateMetadataOf, Script!Create, Script!Call, Script!Dropped

\* A thread has what it uploaded, at every step.
LEMMA UploadedStays ==
  ASSUME ScriptKept, CallsKept, StorageKept, UploadedKept, [DemoNext]_demoVars
  PROVE  UploadedKept'
<1>0. DOMAIN results \subseteq DOMAIN results'
  BY ResultsStay
<1> DEFINE Good(t) ==
      /\ Left(t)' \in {1, 2, 3} => <<"file", TypeOf(stage', t)>> \in DOMAIN results'
      /\ Left(t)' \in {1, 2} => <<"metadata", TypeOf(stage', t)>> \in DOMAIN results'
<1>1. ASSUME stage' = stage, stage \in DocumentStages, NEW t \in Uploaders(stage), Left(t)' = Left(t)
      PROVE  Good(t)
  BY <1>0, <1>1 DEF UploadedKept
<1>2. ASSUME NEW t, Left(t)' \in {0, 4} PROVE Good(t)
  BY <1>2
<1>3. ASSUME stage' = stage, stage \in DocumentStages, NEW t \in Uploaders(stage), t \in Threads, todo[t] # <<>>,
             NEW value, Answered(t, value)
      PROVE  Good(t)
  <2>1. LET c == NextCall(t) type == TypeOf(stage, t) IN
        \/ Left(t) = 4 /\ c = CreateFileOf(type)
        \/ Left(t) = 3 /\ c = CreateMetadataOf(type)
        \/ Left(t) = 2 /\ c = AddDocumentOf(type)
        \/ Left(t) = 1 /\ c = ApproveDocumentOf(type)
    BY <1>3, CallIsPlanned, PlannedDocument, Zenon
  <2>2. Left(t)' = Left(t) - 1
    BY <1>3, AnsweredKeepsScript, Zenon
  <2>3. NextCall(t).as # Script!Dropped => NextCall(t).as \in DOMAIN results'
    BY <1>3, ResultsGrow, Zenon
  <2>4. PICK type : type = TypeOf(stage, t)
    OBVIOUS
  <2>5. /\ Left(t) \in {1, 2, 3} => <<"file", type>> \in DOMAIN results
        /\ Left(t) \in {1, 2} => <<"metadata", type>> \in DOMAIN results
    BY <1>3, <2>4, Zenon DEF UploadedKept
  <2>6. /\ Left(t) = 4 => <<"file", type>> \in DOMAIN results'
        /\ Left(t) = 3 => <<"metadata", type>> \in DOMAIN results'
    <3>1. /\ Left(t) = 4 => NextCall(t) = CreateFileOf(type)
          /\ Left(t) = 3 => NextCall(t) = CreateMetadataOf(type)
      BY <2>1, <2>4
    <3> QED BY <2>3, <3>1, DocumentNames, Zenon
  <2>7. /\ Left(t) \in {1, 2, 3, 4} => <<"file", type>> \in DOMAIN results'
        /\ Left(t) \in {1, 2, 3} => <<"metadata", type>> \in DOMAIN results'
    BY <1>0, <2>5, <2>6
  <2>8. /\ Left(t)' \in {1, 2, 3} => Left(t) \in {1, 2, 3, 4}
        /\ Left(t)' \in {1, 2} => Left(t) \in {1, 2, 3}
    BY <2>1, <2>2
  <2> QED BY <1>3, <2>4, <2>7, <2>8, Zenon
<1> SUFFICES ASSUME stage' \in DocumentStages, NEW t \in Uploaders(stage') PROVE Good(t)
  BY DEF UploadedKept
<1> HIDE DEF Good
<1>4. stage' \in 4 .. 12
  BY DEF DocumentStages
<1>5. t \in Threads
  BY <1>4, Branched
<1>6. CASE UNCHANGED scriptVars
  <2>1. stage' = stage /\ todo' = todo
    BY <1>6, Zenon DEF scriptVars
  <2>2. Left(t)' = Left(t)
    BY <2>1, Zenon DEF Left
  <2> QED BY <1>1, <2>1, <2>2, Zenon
<1>7. CASE NextStage
  <2>1. stage' = stage + 1 /\ todo'[t] = Branches(stage + 1)[t]
    BY <1>5, <1>7, NextStageKeepsScript, Zenon
  <2>2. Fits(stage', t, Branches(stage')[t])
    BY <1>4, Branched
  <2>3. Left(t)' = 4
    BY <2>1, <2>2 DEF Fits, FitsDocument, Left
  <2> QED BY <1>2, <2>3
<1>8. ASSUME NEW d \in Threads, todo[d] # <<>>, NEW why \in {"lost", "refused"}, Thrown(d, why) PROVE Good(t)
  <2>1. Left(d)' = 0 /\ \A e \in Threads \ {d} : todo'[e] = todo[e]
    BY <1>8, ThrownKeepsScript, Zenon
  <2>2. stage' = stage
    BY <1>8, Zenon DEF Thrown
  <2>3. CASE d = t
    BY <1>2, <2>1, <2>3
  <2>4. CASE d # t
    <3>1. Left(t)' = Left(t)
      BY <1>5, <2>1, <2>4 DEF Left
    <3> QED BY <1>1, <2>2, <3>1, Zenon
  <2> QED BY <2>3, <2>4
<1>9. ASSUME NEW d \in Threads, todo[d] # <<>>, NEW value, Answered(d, value) PROVE Good(t)
  <2>1. stage' = stage /\ \A e \in Threads \ {d} : todo'[e] = todo[e]
    BY <1>9, AnsweredKeepsScript, Zenon DEF Answered
  <2>2. CASE d = t
    BY <1>3, <1>5, <1>9, <2>1, <2>2, Zenon
  <2>3. CASE d # t
    <3>1. Left(t)' = Left(t)
      BY <1>5, <2>1, <2>3 DEF Left
    <3> QED BY <1>1, <2>1, <3>1, Zenon
  <2> QED BY <2>2, <2>3
<1> QED BY <1>6, <1>7, <1>8, <1>9, ScriptSteps, Zenon

-----------------------------------------------------------------------------
\* The record of the shipment.

\* The least of some numbers.
LEMMA LeastOne ==
  ASSUME NEW S, S \subseteq Nat, S # {}
  PROVE  Record!Min(S) \in S
<1> DEFINE T == {1 .. i : i \in S}
<1>1. T \subseteq FiniteSubsetsOf(Nat) /\ T # {}
  <2>1. \A i \in Nat : IsFiniteSet(1 .. i)
    BY FS_Interval
  <2>2. \A i \in Nat : 1 .. i \in SUBSET Nat
    OBVIOUS
  <2> QED BY <2>1, <2>2 DEF FiniteSubsetsOf
<1>2. PICK X \in T : \A Y \in T : <<Y, X>> \notin StrictSubsetOrdering(Nat)
  <2> HIDE DEF T
  <2> QED BY <1>1, FS_StrictSubsetOrderingWellFounded, WFMin
<1>3. PICK x \in S : X = 1 .. x
  BY <1>2
<1>4. ASSUME NEW y \in S PROVE x <= y
  <2> SUFFICES ASSUME y < x PROVE FALSE
    OBVIOUS
  <2>1. 1 .. y \subseteq 1 .. x /\ x \in 1 .. x /\ x \notin 1 .. y
    OBVIOUS
  <2>2. <<1 .. y, X>> \in StrictSubsetOrdering(Nat)
    BY <1>3, <2>1 DEF StrictSubsetOrdering
  <2> QED BY <1>2, <2>2
<1> QED BY <1>4 DEF Record!Min

DocumentFields == {"id", "externalUrl", "status", "uploadedBy"}

\* One entry for a type, with one document, under the name all documents have.
Orderly(r) ==
  /\ DOMAIN r = DOMAIN Record!NewRecord
  /\ Len(r.documents) \in Nat /\ r.documents = [i \in 1 .. Len(r.documents) |-> r.documents[i]]
  /\ \A i \in 1 .. Len(r.documents) :
       LET entry == r.documents[i] IN
       /\ DOMAIN entry = {"type", "docs"} /\ entry.type # "GENERIC"
       /\ Len(entry.docs) = 1 /\ DOMAIN entry.docs = {1}
       /\ DOMAIN entry.docs[1] = DocumentFields /\ entry.docs[1].externalUrl = Script!DocumentUrl
  /\ \A i, j \in 1 .. Len(r.documents) : r.documents[i].type = r.documents[j].type => i = j

\* Where the document of a type is.
LEMMA PlaceOfTypeIs ==
  ASSUME NEW r, Orderly(r), NEW type
  PROVE  LET place == Record!PlaceOfType(r, type) IN
         \/ place = 0 /\ \A i \in 1 .. Len(r.documents) : r.documents[i].type # type
         \/ place \in 1 .. Len(r.documents) /\ r.documents[place].type = type
<1> DEFINE I == {i \in 1 .. Len(r.documents) : r.documents[i].type = type}
<1>1. Record!PlaceOfType(r, type) = IF I # {} THEN Record!Min(I) ELSE 0
  BY Zenon DEF Record!PlaceOfType, Record!SelectInSeq
<1>2. I # {} => Record!Min(I) \in I
  <2>1. I \subseteq Nat
    BY DEF Orderly
  <2> HIDE DEF I
  <2> QED BY <2>1, LeastOne
<1> QED BY <1>1, <1>2

\* Where the document with an id is.
LEMMA PlaceOfIdIs ==
  ASSUME NEW r, Orderly(r), NEW id
  PROVE  LET place == Record!PlaceOfId(r, id) IN
         place # 0 => /\ place \in 1 .. Len(r.documents) /\ r.documents[place].docs[1].id = id
                      /\ Record!PlaceInTuple(r.documents[place].docs, id) = 1
<1> DEFINE I == {i \in 1 .. Len(r.documents) : \E k \in DOMAIN r.documents[i].docs : r.documents[i].docs[k].id = id}
           place == Record!PlaceOfId(r, id)
<1>1. Record!PlaceOfId(r, id) = IF I # {} THEN Record!Min(I) ELSE 0
  BY Zenon DEF Record!PlaceOfId, Record!SelectInSeq
<1>2. I # {} => Record!Min(I) \in I
  <2>1. I \subseteq Nat
    BY DEF Orderly
  <2> HIDE DEF I
  <2> QED BY <2>1, LeastOne
<1> SUFFICES ASSUME place # 0
             PROVE  /\ place \in 1 .. Len(r.documents) /\ r.documents[place].docs[1].id = id
                    /\ Record!PlaceInTuple(r.documents[place].docs, id) = 1
  OBVIOUS
<1>3. place \in I
  BY <1>1, <1>2
<1> HIDE DEF place
<1>4. place \in 1 .. Len(r.documents) /\ r.documents[place].docs[1].id = id
  BY <1>3 DEF Orderly
<1>5. Len(r.documents[place].docs) = 1
  BY <1>4 DEF Orderly
<1> DEFINE K == {k \in 1 .. Len(r.documents[place].docs) : r.documents[place].docs[k].id = id}
<1>6. K = {1}
  BY <1>4, <1>5
<1>7. Record!PlaceInTuple(r.documents[place].docs, id) = IF K # {} THEN Record!Min(K) ELSE 0
  BY Zenon DEF Record!PlaceInTuple, Record!SelectInSeq
<1>8. Record!Min({1}) = 1
  BY LeastOne
<1> QED BY <1>4, <1>6, <1>7, <1>8

\* An entry at the end.
LEMMA AtTheEnd ==
  ASSUME NEW s, NEW n \in Nat, s = [i \in 1 .. n |-> s[i]], NEW e
  PROVE  /\ Append(s, e) = [i \in 1 .. n + 1 |-> IF i = n + 1 THEN e ELSE s[i]]
         /\ Len(Append(s, e)) = n + 1
<1> DEFINE S == {s[i] : i \in 1 .. n} \cup {e}
<1>1. s \in Seq(S) /\ e \in S
  OBVIOUS
<1>2. Len(s) = n
  OBVIOUS
<1> HIDE DEF S
<1> QED BY <1>1, <1>2

\* The documents of a record after one was added or got a verdict: the entry at a place is
\* a new one or has changed, and the others stay where they are.
Changed(r, s, place, entry) ==
  /\ DOMAIN s = DOMAIN r
  /\ \A field \in DOMAIN r \ {"documents"} : s[field] = r[field]
  /\ place \in 1 .. Len(r.documents) + 1
  /\ Len(s.documents) = IF place = Len(r.documents) + 1 THEN place ELSE Len(r.documents)
  /\ s.documents = [i \in 1 .. Len(s.documents) |-> IF i = place THEN entry ELSE r.documents[i]]

\* What the script adds.
NewOne(r, party) == Record!NewDocument(r, party, Script!DocumentUrl)

\* What a new document replaces, or where it goes.
LEMMA AddedIs ==
  ASSUME NEW r, Orderly(r), NEW s, NEW type, type # "GENERIC", NEW party, Record!AddDocument(r, s, type, party, Script!DocumentUrl)
  PROVE  LET place == Record!PlaceOfType(r, type)
             at == IF place = 0 THEN Len(r.documents) + 1 ELSE place
             entry == [type |-> type, docs |-> <<NewOne(r, party)>>]
         IN /\ Changed(r, s, at, entry)
            /\ \/ place = 0 /\ \A i \in 1 .. Len(r.documents) : r.documents[i].type # type
               \/ /\ place \in 1 .. Len(r.documents) /\ r.documents[place].type = type
                  /\ r.documents[place].docs[1].status # "APPROVED"
<1> DEFINE place == Record!PlaceOfType(r, type)
           at == IF place = 0 THEN Len(r.documents) + 1 ELSE place
           new == NewOne(r, party)
           entry == [type |-> type, docs |-> <<new>>]
           n == Len(r.documents)
<1>1. \/ place = 0 /\ \A i \in 1 .. n : r.documents[i].type # type
      \/ place \in 1 .. n /\ r.documents[place].type = type
  BY PlaceOfTypeIs, Zenon
<1>2. /\ (type # "GENERIC" /\ Record!GetDocumentsByType(r, type) # <<>>) =>
           Record!GetDocumentsByType(r, type)[1].status # "APPROVED"
      /\ s = Record!WithTuple(r, type, <<new>>)
  BY Zenon DEF Record!AddDocument, NewOne
<1>3. s = [r EXCEPT !.documents = IF place = 0 THEN Append(r.documents, entry) ELSE [r.documents EXCEPT ![place] = entry]]
  BY <1>2, Zenon DEF Record!WithTuple
<1>4. n \in Nat /\ r.documents = [i \in 1 .. n |-> r.documents[i]] /\ DOMAIN r = DOMAIN Record!NewRecord
  BY DEF Orderly
<1>5. "documents" \in DOMAIN r
  BY <1>4 DEF Record!NewRecord
<1> HIDE DEF entry, new, place
<1>6. /\ DOMAIN s = DOMAIN r /\ \A field \in DOMAIN r \ {"documents"} : s[field] = r[field]
      /\ s.documents = IF place = 0 THEN Append(r.documents, entry) ELSE [r.documents EXCEPT ![place] = entry]
  BY <1>3, <1>5
<1>7. Changed(r, s, at, entry)
  <2>1. CASE place = 0
    <3>1. PICK d : d = r.documents
      OBVIOUS
    <3>2. /\ Append(d, entry) = [i \in 1 .. n + 1 |-> IF i = n + 1 THEN entry ELSE d[i]]
          /\ Len(Append(d, entry)) = n + 1
      BY <1>4, <3>1, AtTheEnd
    <3> HIDE DEF n
    <3>3. s.documents = Append(d, entry)
      BY <1>6, <2>1, <3>1
    <3>4. Len(s.documents) = n + 1
      BY <3>2, <3>3, Zenon
    <3>5. s.documents = [i \in 1 .. Len(s.documents) |-> IF i = n + 1 THEN entry ELSE r.documents[i]]
      BY <3>1, <3>2, <3>3, <3>4, Zenon
    <3>6. n + 1 \in 1 .. n + 1
      BY <1>4 DEF n
    <3> QED BY <1>6, <2>1, <3>4, <3>5, <3>6, Zenon DEF Changed, n
  <2>2. CASE place # 0
    <3>1. place \in 1 .. n
      BY <1>1, <2>2
    <3>2. s.documents = [r.documents EXCEPT ![place] = entry]
      BY <1>6, <2>2
    <3>3. s.documents = [i \in 1 .. n |-> IF i = place THEN entry ELSE r.documents[i]]
      BY <1>4, <3>1, <3>2
    <3>4. Len(s.documents) = n
      BY <1>4, <3>3
    <3>5. place \in 1 .. n + 1 /\ place # n + 1
      BY <1>4, <3>1
    <3>6. s.documents = [i \in 1 .. Len(s.documents) |-> IF i = place THEN entry ELSE r.documents[i]]
      BY <3>3, <3>4, Zenon
    <3> QED BY <1>6, <2>2, <3>4, <3>5, <3>6, Zenon DEF Changed
  <2> QED BY <2>1, <2>2
<1>8. place \in 1 .. n => r.documents[place].docs[1].status # "APPROVED"
  <2> SUFFICES ASSUME place \in 1 .. n PROVE r.documents[place].docs[1].status # "APPROVED"
    OBVIOUS
  <2>1. Record!GetDocumentsByType(r, type) = r.documents[place].docs
    <3>1. place # 0
      BY <1>4
    <3> QED BY <3>1, Zenon DEF Record!GetDocumentsByType, place
  <2>2. Len(r.documents[place].docs) = 1
    BY DEF Orderly
  <2>3. r.documents[place].docs # <<>>
    <3>1. PICK docs : docs = r.documents[place].docs
      OBVIOUS
    <3>2. Len(<<>>) # 1
      BY SMT
    <3> QED BY <2>2, <3>1, <3>2, Zenon
  <2> QED BY <1>2, <2>1, <2>3
<1> QED BY <1>1, <1>7, <1>8, Zenon DEF entry, new, place

\* The same, with the place named.
LEMMA AddedSomewhere ==
  ASSUME NEW r, Orderly(r), NEW s, NEW type, type # "GENERIC", NEW party, Record!AddDocument(r, s, type, party, Script!DocumentUrl)
  PROVE  \E place, entry :
           /\ Changed(r, s, place, entry)
           /\ entry = [type |-> type, docs |-> <<NewOne(r, party)>>]
           /\ \/ place = Len(r.documents) + 1 /\ \A i \in 1 .. Len(r.documents) : r.documents[i].type # type
              \/ /\ place \in 1 .. Len(r.documents) /\ r.documents[place].type = type
                 /\ r.documents[place].docs[1].status # "APPROVED"
<1> DEFINE at == Record!PlaceOfType(r, type)
           entry == [type |-> type, docs |-> <<NewOne(r, party)>>]
<1>1. /\ Changed(r, s, IF at = 0 THEN Len(r.documents) + 1 ELSE at, entry)
      /\ \/ at = 0 /\ \A i \in 1 .. Len(r.documents) : r.documents[i].type # type
         \/ /\ at \in 1 .. Len(r.documents) /\ r.documents[at].type = type
            /\ r.documents[at].docs[1].status # "APPROVED"
  BY AddedIs, Zenon
<1>2. at \in 1 .. Len(r.documents) => at # 0
  OBVIOUS
<1>3. PICK e : e = entry
  OBVIOUS
<1>4. PICK p : p = at
  OBVIOUS
<1> HIDE DEF entry, at
<1>5. CASE p = 0
  <2>1. Changed(r, s, Len(r.documents) + 1, e) /\ \A i \in 1 .. Len(r.documents) : r.documents[i].type # type
    BY <1>1, <1>2, <1>3, <1>4, <1>5, Zenon
  <2> QED BY <2>1, <1>3, Zenon DEF entry
<1>6. CASE p # 0
  <2>1. Changed(r, s, p, e)
    BY <1>1, <1>3, <1>4, <1>6, Zenon
  <2> QED BY <2>1, <1>1, <1>3, <1>4, <1>6, Zenon DEF entry
<1> QED BY <1>5, <1>6

\* The entry of a document that got approved, at its place.
Judged(r, s, id, place, entry) ==
  /\ place \in 1 .. Len(r.documents)
  /\ Changed(r, s, place, entry)
  /\ r.documents[place].docs[1].id = id /\ r.documents[place].docs[1].status # "APPROVED"
  /\ DOMAIN entry = {"type", "docs"} /\ entry.type = r.documents[place].type
  /\ Len(entry.docs) = 1 /\ DOMAIN entry.docs = {1}
  /\ DOMAIN entry.docs[1] = DocumentFields /\ entry.docs[1].externalUrl = Script!DocumentUrl
  /\ entry.docs[1].id = id /\ entry.docs[1].status = "APPROVED"

\* What a verdict changes.
LEMMA VerdictIs ==
  ASSUME NEW r, Orderly(r), NEW id, NEW party, Record!MayEvaluateDocument(r, id, party), NEW s,
         s = Record!WithVerdict(r, id, "APPROVED")
  PROVE  \E place, entry : Judged(r, s, id, place, entry)
<1> DEFINE n == Len(r.documents)
           place == Record!PlaceOfId(r, id)
<1>1. /\ place # 0 /\ r.documents[place].docs[1].status # "APPROVED"
  BY Zenon DEF Record!MayEvaluateDocument
<1>2. /\ place \in 1 .. n /\ r.documents[place].docs[1].id = id
      /\ Record!PlaceInTuple(r.documents[place].docs, id) = 1
  BY <1>1, PlaceOfIdIs, Zenon
<1>3. PICK old : old = r.documents[place]
  OBVIOUS
<1>4. PICK doc : doc = [old.docs[1] EXCEPT !.status = "APPROVED"]
  OBVIOUS
<1>5. PICK docs : docs = [old.docs EXCEPT ![1] = doc]
  OBVIOUS
<1>6. PICK entry : entry = [old EXCEPT !.docs = docs]
  OBVIOUS
<1>7. s = [r EXCEPT !.documents = [r.documents EXCEPT ![place] = entry]]
  <2>1. s = [r EXCEPT !.documents[place].docs[1].status = "APPROVED"]
    BY <1>2, Zenon DEF Record!WithVerdict
  <2> HIDE DEF place
  <2> QED BY <2>1, <1>3, <1>4, <1>5, <1>6, Zenon
<1> HIDE DEF place
<1>8. /\ DOMAIN old = {"type", "docs"} /\ Len(old.docs) = 1 /\ DOMAIN old.docs = {1}
      /\ DOMAIN old.docs[1] = DocumentFields /\ old.docs[1].externalUrl = Script!DocumentUrl /\ old.docs[1].id = id
  BY <1>2, <1>3 DEF Orderly
<1>9. DOMAIN doc = DocumentFields /\ doc.externalUrl = Script!DocumentUrl /\ doc.id = id /\ doc.status = "APPROVED"
  BY <1>4, <1>8
<1>10. DOMAIN docs = {1} /\ docs[1] = doc
  BY <1>5, <1>8
<1>11. Len(docs) = 1
  <2>1. docs = [k \in 1 .. 1 |-> docs[k]]
    BY <1>5, <1>10
  <2> QED BY <2>1
<1>12. DOMAIN entry = {"type", "docs"} /\ entry.type = old.type /\ entry.docs = docs
  BY <1>6, <1>8
<1>13. n \in Nat /\ r.documents = [i \in 1 .. n |-> r.documents[i]] /\ DOMAIN r = DOMAIN Record!NewRecord
  BY DEF Orderly
<1>14. "documents" \in DOMAIN r
  BY <1>13 DEF Record!NewRecord
<1> HIDE DEF n
<1>15. /\ DOMAIN s = DOMAIN r /\ \A field \in DOMAIN r \ {"documents"} : s[field] = r[field]
       /\ s.documents = [r.documents EXCEPT ![place] = entry]
  BY <1>7, <1>14
<1>16. s.documents = [i \in 1 .. n |-> IF i = place THEN entry ELSE r.documents[i]]
  BY <1>13, <1>15
<1>17. Len(s.documents) = n
  BY <1>13, <1>16
<1>18. place \in 1 .. n + 1 /\ place # n + 1
  BY <1>2, <1>13
<1>19. s.documents = [i \in 1 .. Len(s.documents) |-> IF i = place THEN entry ELSE r.documents[i]]
  BY <1>16, <1>17, Zenon
<1>20. Changed(r, s, place, entry)
  BY <1>15, <1>17, <1>18, <1>19, Zenon DEF Changed, n
<1> QED BY <1>1, <1>2, <1>3, <1>8, <1>9, <1>10, <1>11, <1>12, <1>20, Zenon DEF n, Judged

\* An orderly record stays orderly when an entry of a type takes the place of that type.
LEMMA ChangedOrderly ==
  ASSUME NEW r, Orderly(r), NEW s, NEW place, NEW entry, Changed(r, s, place, entry),
         DOMAIN entry = {"type", "docs"}, entry.type # "GENERIC",
         Len(entry.docs) = 1, DOMAIN entry.docs = {1},
         DOMAIN entry.docs[1] = DocumentFields /\ entry.docs[1].externalUrl = Script!DocumentUrl,
         \/ place \in 1 .. Len(r.documents) /\ r.documents[place].type = entry.type
         \/ \A i \in 1 .. Len(r.documents) : r.documents[i].type # entry.type
  PROVE  Orderly(s)
<1> DEFINE n == Len(r.documents)
           m == Len(s.documents)
<1>1. n \in Nat /\ m \in Nat /\ place \in 1 .. n + 1 /\ m = IF place = n + 1 THEN place ELSE n
  BY DEF Orderly, Changed
<1>2. s.documents = [i \in 1 .. m |-> IF i = place THEN entry ELSE r.documents[i]]
  BY Zenon DEF Changed
<1> HIDE DEF n, m
<1>3. \A i \in 1 .. m : /\ i = place => s.documents[i] = entry
                        /\ i # place => i \in 1 .. n /\ s.documents[i] = r.documents[i]
  BY <1>1, <1>2
<1>4. \A i \in 1 .. m :
        LET e == s.documents[i] IN
        /\ DOMAIN e = {"type", "docs"} /\ e.type # "GENERIC"
        /\ Len(e.docs) = 1 /\ DOMAIN e.docs = {1}
        /\ DOMAIN e.docs[1] = DocumentFields /\ e.docs[1].externalUrl = Script!DocumentUrl
  <2> TAKE i \in 1 .. m
  <2>1. CASE i = place
    <3>1. PICK e : e = s.documents[i]
      OBVIOUS
    <3>2. e = entry
      BY <1>3, <2>1, <3>1, Zenon
    <3>3. /\ DOMAIN e = {"type", "docs"} /\ e.type # "GENERIC"
          /\ Len(e.docs) = 1 /\ DOMAIN e.docs = {1}
          /\ DOMAIN e.docs[1] = DocumentFields /\ e.docs[1].externalUrl = Script!DocumentUrl
      BY <3>2
    <3> QED BY <3>1, <3>3, Zenon
  <2>2. CASE i # place
    BY <1>3, <2>2, Zenon DEF Orderly, n
  <2> QED BY <2>1, <2>2
<1>5. ASSUME NEW i \in 1 .. m, NEW j \in 1 .. m, s.documents[i].type = s.documents[j].type
      PROVE  i = j
  <2>1. CASE i # place /\ j # place
    BY <1>3, <1>5, <2>1, Zenon DEF Orderly, n
  <2>2. CASE i = place /\ j # place
    BY <1>3, <1>5, <2>2, Zenon DEF Orderly, n
  <2>3. CASE i # place /\ j = place
    <3>1. i \in 1 .. n /\ r.documents[i].type = entry.type
      BY <1>3, <1>5, <2>3
    <3>2. place \in 1 .. n /\ r.documents[place].type = entry.type
      BY <3>1, Zenon DEF n
    <3> QED BY <2>3, <3>1, <3>2, Zenon DEF Orderly, n
  <2> QED BY <2>1, <2>2, <2>3, Zenon
<1>6. DOMAIN s = DOMAIN Record!NewRecord
  BY Zenon DEF Changed, Orderly
<1>7. s.documents = [i \in 1 .. m |-> s.documents[i]]
  BY <1>2
<1> QED BY <1>1, <1>4, <1>5, <1>6, <1>7, Zenon DEF Orderly, m

\* A shipment that was just inserted is orderly.
LEMMA NewOrderly == Orderly(Record!NewRecord) /\ Len(Record!NewRecord.documents) = 0
<1>1. Record!NewRecord.documents = <<>>
  BY DEF Record!NewRecord
<1>2. Len(<<>>) = 0 /\ <<>> = [i \in 1 .. 0 |-> <<>>[i]]
  OBVIOUS
<1> QED BY <1>1, <1>2 DEF Orderly

\* The steps that change the record.
LEMMA RecordSteps ==
  ASSUME [DemoNext]_demoVars
  PROVE  \/ record' = record
         \/ \E t \in Threads \cup {App} :
              FinishSigning(t) /\ signing[t].shipment \in ScriptsShipment /\ record' = Record!NewRecord
         \/ \E t \in Threads : AnsweredCall(t) /\ ShipmentCall(NextCall(t))
<1>1. CASE NextStage
  BY <1>1, Zenon DEF NextStage
<1>2. ASSUME NEW t \in Threads, AnsweredCall(t)
      PROVE  record' = record \/ ShipmentCall(NextCall(t))
  <2>1. PICK c : c = NextCall(t)
    OBVIOUS
  <2>2. Handled(c)
    BY <1>2, <2>1, Zenon DEF AnsweredCall
  <2>3. CASE IdentityCall(c)
    BY <2>3, Zenon DEF IdentityCall
  <2>4. CASE GetCategoriesCall(c) \/ GetOrderCall(c)
    BY <2>4, Zenon DEF GetCategoriesCall, GetOrderCall, OffPlatform
  <2>5. CASE CreateMaterialCall(c) \/ CreateAssetOperationCall(c) \/ CreateOfferCall(c)
           \/ CreateOrganizationCall(c) \/ CreateBusinessRelationCall(c)
           \/ RegisterCompanyCertificateCall(c) \/ CreateOrderCall(c)
    BY <2>5, Zenon DEF CreateMaterialCall, CreateAssetOperationCall, CreateOfferCall, CreateOrganizationCall,
       CreateBusinessRelationCall, RegisterCompanyCertificateCall, CreateOrderCall, OnPlatform
  <2> QED BY <2>1, <2>2, <2>3, <2>4, <2>5, Zenon DEF Handled
<1>3. ASSUME NEW t \in Threads, RefusedCall(t) \/ LostCall(t) \/ RefusedSigning(t) PROVE record' = record
  BY <1>3, RefusedIs, Zenon DEF LostCall, RefusedSigning, OffPlatform
<1>4. ASSUME NEW t \in Threads, StartLogin(t) \/ FinishLogin(t) \/ StartSigning(t) PROVE record' = record
  BY <1>4, Zenon DEF StartLogin, FinishLogin, StartSigning, OnPlatform
<1>5. ASSUME NEW t, FinishSigning(t)
      PROVE  record' = record \/ (signing[t].shipment \in ScriptsShipment /\ record' = Record!NewRecord)
  BY <1>5, Zenon DEF FinishSigning
<1>6. CASE SignedElsewhere \/ SessionsAge
  BY <1>6, Zenon DEF SignedElsewhere, SessionsAge, OnPlatform
<1>7. ASSUME NEW t \in Threads, StartUpload(t) \/ FileCreated(t) \/ UploadReturns(t) PROVE record' = record
  BY <1>7, Zenon DEF StartUpload, FileCreated, UploadReturns, OffPlatform
<1>8. CASE StorageStep
  BY <1>8, Zenon DEF StorageStep, OffPlatform
<1>9. CASE UNCHANGED demoVars
  BY <1>9 DEF demoVars
<1>10. Threads \subseteq Threads \cup {App} /\ App \in Threads \cup {App}
  OBVIOUS
<1> HIDE DEF App
<1>11. \A t \in Threads : t \in Threads \cup {App}
  BY <1>10
<1> QED BY <1>1, <1>2, <1>3, <1>4, <1>5, <1>6, <1>7, <1>8, <1>9, <1>10, <1>11, Zenon DEF DemoNext, Progress

\* The identity provider knows every user, and where its login is.
SiweKept == siwe \in [Users -> {"none", "prepared", "logged in"}]

\* No step takes a user from it.
LEMMA SiweStays ==
  ASSUME SiweKept, [DemoNext]_demoVars
  PROVE  SiweKept'
<1>0. ASSUME siwe' = siwe PROVE SiweKept'
  BY <1>0 DEF SiweKept
<1>1. CASE NextStage
  BY <1>0, <1>1, Zenon DEF NextStage
<1>2. ASSUME NEW t \in Threads, AnsweredCall(t) PROVE SiweKept'
  <2>1. PICK c : c = NextCall(t)
    OBVIOUS
  <2>2. Handled(c)
    BY <1>2, <2>1, Zenon DEF AnsweredCall
  <2>3. CASE IdentityCall(c)
    <3>1. \/ siwe' = siwe \/ siwe' = [siwe EXCEPT ![c.user] = "prepared"]
          \/ siwe' = [siwe EXCEPT ![c.user] = "logged in"]
      BY <2>3, Zenon DEF IdentityCall, CallPrepareLogin, CallLogin, CallGetDelegation
    <3> QED BY <3>1 DEF SiweKept
  <2>4. CASE GetCategoriesCall(c) \/ GetOrderCall(c) \/ ShipmentCall(c)
    BY <1>0, <2>4, Zenon DEF GetCategoriesCall, GetOrderCall, OffPlatform, ShipmentCall
  <2>5. CASE CreateMaterialCall(c) \/ CreateAssetOperationCall(c) \/ CreateOfferCall(c)
           \/ CreateOrganizationCall(c) \/ CreateBusinessRelationCall(c)
           \/ RegisterCompanyCertificateCall(c) \/ CreateOrderCall(c)
    BY <1>0, <2>5, Zenon DEF CreateMaterialCall, CreateAssetOperationCall, CreateOfferCall, CreateOrganizationCall,
       CreateBusinessRelationCall, RegisterCompanyCertificateCall, CreateOrderCall, OnPlatform
  <2> QED BY <2>2, <2>3, <2>4, <2>5, Zenon DEF Handled
<1>3. ASSUME NEW t \in Threads, RefusedCall(t) \/ LostCall(t) \/ RefusedSigning(t) PROVE siwe' = siwe
  BY <1>3, RefusedIs, Zenon DEF LostCall, RefusedSigning, OffPlatform
<1>4. ASSUME NEW t \in Threads, StartLogin(t) \/ FinishLogin(t) \/ StartSigning(t) PROVE siwe' = siwe
  BY <1>4, Zenon DEF StartLogin, FinishLogin, StartSigning, OnPlatform
<1>5. ASSUME NEW t, FinishSigning(t) PROVE siwe' = siwe
  BY <1>5, Zenon DEF FinishSigning
<1>6. CASE SignedElsewhere \/ SessionsAge
  BY <1>0, <1>6, Zenon DEF SignedElsewhere, SessionsAge, OnPlatform
<1>7. ASSUME NEW t \in Threads, StartUpload(t) \/ FileCreated(t) \/ UploadReturns(t) PROVE siwe' = siwe
  BY <1>7, Zenon DEF StartUpload, FileCreated, UploadReturns, OffPlatform
<1>8. CASE StorageStep
  BY <1>0, <1>8, Zenon DEF StorageStep, OffPlatform
<1>9. CASE UNCHANGED demoVars
  <2>1. siwe' = siwe
    BY <1>9 DEF demoVars
  <2> QED BY <1>0, <2>1
<1> QED BY <1>0, <1>1, <1>2, <1>3, <1>4, <1>5, <1>6, <1>7, <1>8, <1>9, Zenon DEF DemoNext, Progress

\* The calls about the shipment, and what they make of the record.
LEMMA ShipmentCalls ==
  ASSUME NEW c, ShipmentCall(c), Orderly(record)
  PROVE  \/ c.op = "getShipmentPhase" /\ record' = record
         \/ c.op = "setShipmentDetails" /\ record' = [record EXCEPT !.price = 1, !.detailsSet = TRUE]
         \/ c.op = "evaluateSample" /\ record' = [record EXCEPT !.sample = "APPROVED"]
         \/ c.op = "evaluateShipmentDetails" /\ record' = [record EXCEPT !.details = "APPROVED"]
         \/ /\ c.op = "addDocument"
            /\ \E party : Record!AddDocument(record, record', c.args.type, party, c.args.externalUrl)
         \/ /\ c.op = "evaluateDocument"
            /\ \E party : Record!MayEvaluateDocument(record, results[<<"document", c.args.type>>], party)
            /\ record' = Record!WithVerdict(record, results[<<"document", c.args.type>>], "APPROVED")
BY Zenon DEF ShipmentCall, GetShipmentPhaseCall, SetShipmentDetailsCall, EvaluateSampleCall, EvaluateDetailsCall,
   AddDocumentCall, EvaluateDocumentCall, Record!SetShipmentDetails, Record!EvaluateSample, Record!EvaluateShipmentDetails

\* A document is added by the third call about it.
LEMMA AddedWhenPlanned ==
  ASSUME NEW t, Planned(t), NextCall(t).op = "addDocument"
  PROVE  /\ stage \in DocumentStages /\ t \in Uploaders(stage) /\ Left(t) = 2
         /\ NextCall(t) = AddDocumentOf(TypeOf(stage, t)) /\ NextCall(t).args.type = TypeOf(stage, t)
         /\ NextCall(t).args.externalUrl = Script!DocumentUrl
<1>1. PICK c : c = NextCall(t)
  OBVIOUS
<1>2. ~ Early(c)
  BY <1>1 DEF Early, EarlyOps
<1>3. c \notin {Script!SignOrder(Exporter), Script!GetOrder(Exporter), Script!EvaluateSample(Importer),
                Script!SetShipmentDetails(Exporter), Script!ApproveShipmentDetails(Importer)}
  BY <1>1 DEF Script!SignOrder, Script!GetOrder, Script!EvaluateSample, Script!SetShipmentDetails,
     Script!ApproveShipmentDetails, Script!Do, Script!Call
<1>4. PICK type : type = TypeOf(stage, t)
  OBVIOUS
<1>5. c # LookAtPhase(PhaseLooked(stage)) /\ c # ApproveDocumentOf(type)
  BY <1>1 DEF LookAtPhase, ApproveDocumentOf, Script!ApproveDocument, Script!Call
<1>6. c # CreateFileOf(type) /\ c # CreateMetadataOf(type)
  BY <1>1 DEF CreateFileOf, CreateMetadataOf, Script!Create, Script!Call
<1>7. /\ stage \in DocumentStages /\ t \in Uploaders(stage) /\ Left(t) = 2
      /\ c = AddDocumentOf(type)
  BY <1>1, <1>2, <1>3, <1>4, <1>5, <1>6, Zenon DEF Planned
<1>8. AddDocumentOf(type).args.type = type /\ AddDocumentOf(type).args.externalUrl = Script!DocumentUrl
  BY DEF AddDocumentOf, Script!Call
<1> QED BY <1>1, <1>4, <1>7, <1>8, Zenon

\* No document of the script is generic.
LEMMA NotGeneric == \A s, t : TypeOf(s, t) # "GENERIC"
BY DEF TypeOf

\* The record stays orderly, and its documents were uploaded.
LEMMA RecordStays ==
  ASSUME ScriptKept, CallsKept, StorageKept, UploadedKept, Orderly(record), DocumentsUploaded, [DemoNext]_demoVars
  PROVE  Orderly(record)' /\ DocumentsUploaded'
<1> DEFINE Has(type) == \A name \in {"file", "metadata"} : <<name, type>> \in DOMAIN results
           Good(r) == Orderly(r) /\ \A i \in DOMAIN r.documents : Has(r.documents[i].type)
<1>1. Good(record)
  BY DEF DocumentsUploaded
<1>2. Good(record') => Orderly(record)' /\ DocumentsUploaded'
  BY ResultsStay DEF DocumentsUploaded
<1>3. Good(Record!NewRecord)
  <2>1. DOMAIN Record!NewRecord.documents = {}
    BY DEF Record!NewRecord
  <2> QED BY <2>1, NewOrderly
<1>4. ASSUME NEW s, DOMAIN s = DOMAIN record, s.documents = record.documents PROVE Good(s)
  BY <1>1, <1>4 DEF Orderly
<1>5. ASSUME NEW s, NEW place, NEW entry, Changed(record, s, place, entry),
             DOMAIN entry = {"type", "docs"}, entry.type # "GENERIC",
             Len(entry.docs) = 1, DOMAIN entry.docs = {1},
             DOMAIN entry.docs[1] = DocumentFields /\ entry.docs[1].externalUrl = Script!DocumentUrl,
             \/ place \in 1 .. Len(record.documents) /\ record.documents[place].type = entry.type
             \/ (\A i \in 1 .. Len(record.documents) : record.documents[i].type # entry.type) /\ Has(entry.type)
      PROVE  Good(s)
  <2>1. Orderly(s)
    BY <1>5, ChangedOrderly, Zenon
  <2>2. Len(record.documents) \in Nat /\ DOMAIN record.documents = 1 .. Len(record.documents)
    BY DEF Orderly
  <2>3. Has(entry.type)
    BY <1>1, <1>5, <2>2, Zenon
  <2>4. DOMAIN s.documents = 1 .. Len(s.documents)
        /\ \A i \in DOMAIN s.documents : s.documents[i] = IF i = place THEN entry ELSE record.documents[i]
    BY <1>5 DEF Changed
  <2>5. \A i \in DOMAIN s.documents : i # place => i \in DOMAIN record.documents
    BY <1>5, <2>2, <2>4 DEF Changed
  <2> HIDE DEF Has
  <2> QED BY <1>1, <2>1, <2>3, <2>4, <2>5, Zenon
<1>6. ASSUME NEW t \in Threads, AnsweredCall(t), ShipmentCall(NextCall(t)) PROVE Good(record')
  <2>1. PICK c : c = NextCall(t)
    OBVIOUS
  <2>2. ShipmentCall(c) /\ todo[t] # <<>>
    BY <1>6, <2>1, Zenon DEF AnsweredCall, Atomic
  <2>3. CASE record' = record
    BY <1>1, <2>3, Zenon
  <2>4. CASE \/ record' = [record EXCEPT !.price = 1, !.detailsSet = TRUE]
             \/ record' = [record EXCEPT !.sample = "APPROVED"] \/ record' = [record EXCEPT !.details = "APPROVED"]
    <3>1. PICK s : s = record'
      OBVIOUS
    <3>2. PICK r : r = record
      OBVIOUS
    <3>3. DOMAIN r = DOMAIN Record!NewRecord
      BY <3>2, Zenon DEF Orderly
    <3>4. \/ s = [r EXCEPT !.price = 1, !.detailsSet = TRUE]
          \/ s = [r EXCEPT !.sample = "APPROVED"] \/ s = [r EXCEPT !.details = "APPROVED"]
      BY <2>4, <3>1, <3>2, Zenon
    <3>5. DOMAIN s = DOMAIN r /\ s.documents = r.documents
      BY <3>3, <3>4 DEF Record!NewRecord
    <3> HIDE DEF Good
    <3> QED BY <1>4, <3>1, <3>2, <3>5, Zenon
  <2>5. CASE /\ c.op = "addDocument"
             /\ \E party : Record!AddDocument(record, record', c.args.type, party, c.args.externalUrl)
    <3>1. PICK party : Record!AddDocument(record, record', c.args.type, party, c.args.externalUrl)
      BY <2>5
    <3>2. /\ stage \in DocumentStages /\ t \in Uploaders(stage) /\ Left(t) = 2
          /\ c.args.type = TypeOf(stage, t) /\ c.args.externalUrl = Script!DocumentUrl
      BY <2>1, <2>2, <2>5, CallIsPlanned, AddedWhenPlanned, Zenon
    <3>3. PICK type : type = c.args.type /\ type # "GENERIC"
      BY <3>2, NotGeneric
    <3>4. Has(type)
      BY <3>2, <3>3, Zenon DEF UploadedKept
    <3>5. PICK place, entry :
            /\ Changed(record, record', place, entry)
            /\ entry = [type |-> type, docs |-> <<NewOne(record, party)>>]
            /\ \/ \A i \in 1 .. Len(record.documents) : record.documents[i].type # type
               \/ place \in 1 .. Len(record.documents) /\ record.documents[place].type = type
      <4>1. \E place, entry :
             /\ Changed(record, record', place, entry)
             /\ entry = [type |-> type, docs |-> <<NewOne(record, party)>>]
             /\ \/ /\ place = Len(record.documents) + 1
                   /\ \A i \in 1 .. Len(record.documents) : record.documents[i].type # type
                \/ /\ place \in 1 .. Len(record.documents) /\ record.documents[place].type = type
                   /\ record.documents[place].docs[1].status # "APPROVED"
        <5>1. PICK r, s : r = record /\ s = record'
          OBVIOUS
        <5>2. Orderly(r) /\ Record!AddDocument(r, s, type, party, Script!DocumentUrl)
          BY <3>1, <3>2, <3>3, <5>1, Zenon
        <5>3. \E place, entry :
               /\ Changed(r, s, place, entry)
               /\ entry = [type |-> type, docs |-> <<NewOne(r, party)>>]
               /\ \/ place = Len(r.documents) + 1 /\ \A i \in 1 .. Len(r.documents) : r.documents[i].type # type
                  \/ /\ place \in 1 .. Len(r.documents) /\ r.documents[place].type = type
                     /\ r.documents[place].docs[1].status # "APPROVED"
          BY <5>2, <3>3, AddedSomewhere
        <5> QED BY <5>1, <5>3, Zenon
      <4> QED BY <4>1, Zenon
    <3>6. /\ DOMAIN entry = {"type", "docs"} /\ entry.type = type
          /\ Len(entry.docs) = 1 /\ DOMAIN entry.docs = {1}
          /\ DOMAIN entry.docs[1] = DocumentFields /\ entry.docs[1].externalUrl = Script!DocumentUrl
      BY <3>5 DEF NewOne, Record!NewDocument, DocumentFields
    <3> HIDE DEF Has, Good
    <3> QED BY <1>5, <3>3, <3>4, <3>5, <3>6, Zenon
  <2>6. CASE /\ c.op = "evaluateDocument"
             /\ \E party : Record!MayEvaluateDocument(record, results[<<"document", c.args.type>>], party)
             /\ record' = Record!WithVerdict(record, results[<<"document", c.args.type>>], "APPROVED")
    <3>1. PICK id, party : Record!MayEvaluateDocument(record, id, party) /\ record' = Record!WithVerdict(record, id, "APPROVED")
      BY <2>6, Zenon
    <3>2. PICK place, entry :
            /\ place \in 1 .. Len(record.documents)
            /\ Changed(record, record', place, entry)
            /\ DOMAIN entry = {"type", "docs"} /\ entry.type = record.documents[place].type
            /\ Len(entry.docs) = 1 /\ DOMAIN entry.docs = {1}
            /\ DOMAIN entry.docs[1] = DocumentFields /\ entry.docs[1].externalUrl = Script!DocumentUrl
      <4>1. PICK r, s : r = record /\ s = record'
        OBVIOUS
      <4>2. Orderly(r) /\ Record!MayEvaluateDocument(r, id, party) /\ s = Record!WithVerdict(r, id, "APPROVED")
        BY <3>1, <4>1, Zenon
      <4>3. PICK place, entry : Judged(r, s, id, place, entry)
        BY <4>2, VerdictIs
      <4> QED BY <4>1, <4>3, Zenon DEF Judged
    <3>3. entry.type # "GENERIC"
      BY <3>2 DEF Orderly
    <3> HIDE DEF Has, Good
    <3> QED BY <1>5, <3>2, <3>3, Zenon
  <2> HIDE DEF Good
  <2> QED BY <2>2, <2>3, <2>4, <2>5, <2>6, ShipmentCalls, Zenon
<1> HIDE DEF Good
<1> QED BY <1>1, <1>2, <1>3, <1>6, RecordSteps, Zenon

-----------------------------------------------------------------------------
\* The invariant: where the threads are in the script, the calls that wait, the storage
\* canister as its client left it, and what the results and the record lead to there.
DemoKept ==
  /\ ScriptKept /\ CallsKept /\ StorageKept
  /\ EntriesKept /\ IdsKept /\ UploadedKept /\ Orderly(record) /\ DocumentsUploaded
  /\ SiweKept

\* It holds when the script starts.
LEMMA InitiallyDemoKept ==
  ASSUME DemoInit
  PROVE  DemoKept
<1>1. stage = 1 /\ todo = Branches(1) /\ results = <<>> /\ thrown = {} /\ shared = {}
  BY DEF DemoInit
<1>2. SP!Init
  BY StorageInitIs DEF DemoInit
<1>3. SP!IInv
  BY <1>2, StorageAssumed, SP!InitiallyKept
<1>4. /\ files = <<>> /\ pending = <<>> /\ filesGapped = FALSE
      /\ uploads = [c \in Threads |-> SP!Idle] /\ signing = <<>>
  BY <1>2 DEF SP!Init, DemoInit, Init
<1>5. ScriptKept
  <2>1. todo = [t \in Threads |-> todo[t]]
    BY <1>1 DEF Branches
  <2>2. ASSUME NEW t \in Threads
        PROVE  LET b == Branches(stage)[t] IN
               Left(t) \in 0 .. Len(b) /\ todo[t] = [i \in 1 .. Left(t) |-> b[Len(b) - Left(t) + i]]
    <3>1. PICK b : b = Branches(1)[t]
      OBVIOUS
    <3>2. Len(b) \in Nat /\ b = [i \in 1 .. Len(b) |-> b[i]]
      BY <3>1, Branching
    <3>3. \A i \in 1 .. Len(b) : Len(b) - Len(b) + i = i
      BY <3>2
    <3>4. b = [i \in 1 .. Len(b) |-> b[Len(b) - Len(b) + i]]
      BY <3>2, <3>3
    <3> QED BY <1>1, <3>1, <3>2, <3>4 DEF Left
  <2> QED BY <1>1, <2>1, <2>2 DEF ScriptKept
<1>6. \A t \in Threads : Idle(t) /\ t \notin DOMAIN signing
  BY <1>4, SameIdle
<1>7. CallsKept
  BY <1>6 DEF CallsKept
<1>8. SP!UploadsOnly
  BY <1>4 DEF SP!UploadsOnly
<1>9. StorageKept
  BY <1>3, <1>6, <1>8 DEF StorageKept
<1>10. EntriesKept /\ IdsKept
  BY <1>1, <1>4, <1>6 DEF IdsKept, EntriesKept
<1>11. UploadedKept
  BY <1>1 DEF UploadedKept, DocumentStages
<1>12. record = Record!NewRecord
  BY DEF DemoInit
<1>13. Orderly(record)
  BY <1>12, NewOrderly, Zenon
<1>14. DocumentsUploaded
  BY <1>12 DEF DocumentsUploaded, Record!NewRecord
<1>15. SiweKept
  BY DEF DemoInit, SiweKept
<1> QED BY <1>5, <1>7, <1>9, <1>10, <1>11, <1>13, <1>14, <1>15, Zenon DEF DemoKept

\* Every step of the demo preserves it.
LEMMA DemoKeepsOn ==
  ASSUME DemoKept, [DemoNext]_demoVars
  PROVE  DemoKept'
<1>1. /\ ScriptKept /\ CallsKept /\ StorageKept /\ EntriesKept /\ IdsKept /\ UploadedKept
      /\ Orderly(record) /\ DocumentsUploaded /\ SiweKept
  BY Zenon DEF DemoKept
<1>2. ScriptKept'
  BY <1>1, ScriptSteps, Zenon
<1>3. CallsKept'
  BY <1>1, CallsStay, Zenon
<1>4. StorageKept'
  BY <1>1, StorageStays, Zenon
<1>5. EntriesKept' /\ IdsKept'
  BY <1>1, EntriesStay, IdsStay, Zenon
<1>6. UploadedKept'
  BY <1>1, UploadedStays, Zenon
<1>7. Orderly(record)' /\ DocumentsUploaded'
  BY <1>1, RecordStays, Zenon
<1>8. SiweKept'
  BY <1>1, SiweStays, Zenon
<1> QED BY <1>2, <1>3, <1>4, <1>5, <1>6, <1>7, <1>8, Zenon DEF DemoKept

(***************************************************************************)
(* The invariant of the demo: each thread has the rest of its branch of    *)
(* the stage before it, a call that waits is the next one of its thread,   *)
(* and the script's uploads, with everything they share an id with, are    *)
(* all the storage canister sees (main of populate-demo.ts).               *)
(***************************************************************************)
THEOREM DemoInvariance == DemoSpec => []DemoKept
<1>1. DemoInit => DemoKept
  BY InitiallyDemoKept
<1>2. DemoKept /\ [DemoNext]_demoVars => DemoKept'
  BY DemoKeepsOn
<1> QED BY <1>1, <1>2, PTL DEF DemoSpec

\* The variables of the script have values of their kinds, the record has a phase, and
\* what the script's calls of the storage canister leave there keeps the type invariant of
\* that canister.
THEOREM DemoTyped == DemoSpec => []DemoTypeOK
<1>1. DemoKept => DemoTypeOK
  <2> SUFFICES ASSUME DemoKept PROVE DemoTypeOK
    OBVIOUS
  <2>1. stage \in 1 .. Len(Script!Main) /\ thrown \subseteq {"lost", "refused"}
    BY Stages DEF DemoKept, ScriptKept
  <2>2. siwe \in [Users -> {"none", "prepared", "logged in"}]
    BY DEF DemoKept, SiweKept
  <2>3. DOMAIN record = DOMAIN Record!NewRecord
    BY Zenon DEF DemoKept, Orderly
  <2>4. Record!GetShipmentPhase(record) \in Record!Phases
    BY DEF Record!GetShipmentPhase, Record!Phases, Record!Confirmed, Record!Arbitration
  <2>5. SP!TypeOK
    BY StorageAssumed, SP!KeptIsTyped DEF DemoKept, StorageKept
  <2>6. Storage!TypeOK
    BY <2>5, StorageTypeIs
  <2> QED BY <2>1, <2>2, <2>3, <2>4, <2>6, Zenon DEF DemoTypeOK
<1> QED BY <1>1, DemoInvariance, PTL

\* A document of the record was stored before under the URL the record gives, its metadata
\* under the URL made of that one, with the contents the script uploaded, unless two uploads
\* of the script got the same file id; and nothing else has the document's URL (addDocument
\* of ShipmentService.ts, create of StorageDriver.ts, uploadDocument of populate-demo.ts).
THEOREM RecordedAreStored == DemoSpec => []RecordedDocumentsStored
<1>1. DemoKept => RecordedDocumentsStored
  <2> SUFFICES ASSUME DemoKept, NEW i \in DOMAIN record.documents
               PROVE  LET type == record.documents[i].type
                          url == record.documents[i].docs[1].externalUrl
                          Stored(upload, name, content) ==
                            /\ upload \in DOMAIN results
                            /\ results[upload] \notin shared =>
                                 /\ results[upload] \in DOMAIN files
                                 /\ files[results[upload]].name = name
                                 /\ files[results[upload]].declared = content
                      IN  /\ Stored(<<"file", type>>, url, <<"pdf">>)
                          /\ Stored(<<"metadata", type>>, Script!MetadataUrl(url), <<type>>)
                          /\ \A id \in DOMAIN files : files[id].name = url => files[id].declared = <<"pdf">>
    BY Zenon DEF RecordedDocumentsStored
  <2>1. record.documents[i].docs[1].externalUrl = Script!DocumentUrl
    BY DEF DemoKept, Orderly
  <2>2. PICK type : type = record.documents[i].type
    OBVIOUS
  <2>3. <<"file", type>> \in DOMAIN results /\ <<"metadata", type>> \in DOMAIN results
    BY <2>2, Zenon DEF DemoKept, DocumentsUploaded
  <2>4. "metadata" # "file"
    OBVIOUS
  <2>5. /\ results[<<"file", type>>] \notin shared =>
             /\ results[<<"file", type>>] \in DOMAIN files
             /\ files[results[<<"file", type>>]].name = Script!DocumentUrl
             /\ files[results[<<"file", type>>]].declared = <<"pdf">>
        /\ results[<<"metadata", type>>] \notin shared =>
             /\ results[<<"metadata", type>>] \in DOMAIN files
             /\ files[results[<<"metadata", type>>]].name = Script!MetadataUrl(Script!DocumentUrl)
             /\ files[results[<<"metadata", type>>]].declared = <<type>>
    BY <2>3, <2>4, Zenon DEF DemoKept, IdsKept, Content, FileName
  <2>6. \A id \in DOMAIN files : files[id].name = Script!DocumentUrl => files[id].declared = <<"pdf">>
    BY Zenon DEF DemoKept, EntriesKept, Proper
  <2> QED BY <2>1, <2>2, <2>3, <2>5, <2>6, Zenon
<1> QED BY <1>1, DemoInvariance, PTL

================================================================================

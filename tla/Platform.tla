--------------------------------- MODULE Platform ---------------------------------
(***************************************************************************)
(* The services of the canister together, with their shared sessions, and  *)
(* the manager contract beside them.  A handler without an await is one    *)
(* step.  A behaviour starts in a scenario: what is already recorded, who  *)
(* is logged in, and which of the controllers are used.                    *)
(***************************************************************************)
EXTENDS Orders, Manager

CONSTANT Scenarios      \* see ScenarioFields

ScenarioFields ==
  {"uses",                                   \* the controllers used
   "attempts",                               \* those that made the sessions
   "proofs", "terms",                        \* inputs
   "organizations", "enumerations", "standards", "listed", "categories", "materials"}

ASSUME PlatformAssumption ==
  /\ \A s \in Scenarios : DOMAIN s = ScenarioFields
  /\ "DEFAULT" \in Sectors

\* What is recorded before a scenario: entries were added and none was removed.
ASSUME RecordedAssumption == \A s \in Scenarios :
  /\ IsFiniteSet(DOMAIN s.standards)
  /\ DOMAIN s.standards = 1 .. Cardinality(DOMAIN s.standards)
  /\ DOMAIN s.listed = Sectors
  /\ DOMAIN s.standards = UNION {s.listed[sector] : sector \in Sectors}
  /\ IsFiniteSet(DOMAIN s.materials) /\ Gapless(s.materials)

\* Of what kinds the entries and the inputs of a scenario are.
ASSUME KindsAssumption == \A s \in Scenarios :
  /\ \A a \in s.attempts : a.user \in Users /\ a.proof.company \in Companies
  /\ \A proof \in s.proofs : proof.company \in Companies
  /\ s.organizations \in [DOMAIN s.organizations -> Sectors]
  /\ s.enumerations \in [Enumerated -> [Sectors -> Seq(Values)]]
  /\ \A type \in Enumerated, sector \in Sectors : IsInjective(s.enumerations[type][sector])
  /\ \A id \in DOMAIN s.materials : s.materials[id].owner \in Companies

VARIABLES
  scenario,
  gapped                \* history: registries whose ids had a gap

vars == <<sessionVars, organizationVars, enumerationVars, standardVars, catalogueVars,
          certificateVars, orderVars, managerVars, scenario, gapped>>

SessionsOf(made) ==
  [u \in {a.user : a \in made} |-> SessionOf(CHOOSE a \in made : a.user = u)]

Init ==
  /\ scenario \in Scenarios
  /\ now = 0 /\ logins = {} /\ attempts = scenario.attempts
  /\ sessions = SessionsOf(scenario.attempts)
  /\ organizations = scenario.organizations /\ relations = {}
  /\ enumerations = scenario.enumerations
  /\ standards = scenario.standards /\ listed = scenario.listed
  /\ categories = scenario.categories /\ materials = scenario.materials
  /\ offers = <<>> /\ operations = <<>> /\ operationIds = <<>> /\ orphaned = {}
  /\ records = <<>> /\ certificates = [list \in Lists |-> <<>>]
  /\ orders = <<>> /\ shipments = <<>> /\ signing = <<>> /\ overlapped = {} /\ contested = {}
  /\ managers \in SUBSET Administrators \ {{}}
  /\ managerFees \in [recipient : Recipients, base : BaseFees, percentage : PercentageFees \cap (0 .. 100)]
  /\ ("manager" \notin scenario.uses =>
        managers = Administrators /\ managerFees.recipient = CHOOSE r \in Recipients : TRUE)
  /\ escrows = <<>> /\ escrowOf = <<>> /\ missed = {}
  /\ gapped = {}

\* Only the variables of the named service change.
OnlyIn(service) ==
  /\ service \notin {"authentication", "time"} => UNCHANGED sessionVars
  /\ service # "organizations" => UNCHANGED organizationVars
  /\ service # "enumerations" => UNCHANGED enumerationVars
  /\ service # "standards" => UNCHANGED standardVars
  /\ service # "catalogue" => UNCHANGED catalogueVars
  /\ service # "certificates" => UNCHANGED certificateVars
  /\ service # "orders" => UNCHANGED orderVars
  /\ service # "manager" => UNCHANGED managerVars
  /\ UNCHANGED scenario

NoteGaps == gapped' = gapped
  \cup (IF Gapless(offers') THEN {} ELSE {"offers"})
  \cup (IF Gapless(orders') THEN {} ELSE {"orders"})
  \cup (IF DOMAIN standards' = 1 .. Cardinality(DOMAIN standards') THEN {} ELSE {"standards"})

Uses(controller) == controller \in scenario.uses

EnumerationControllers ==
  \/ FiatController \/ UnitController \/ ProcessTypeController
  \/ AssessmentAssuranceLevelController \/ SustainabilityCriteriaController

Next ==
  /\ \/ /\ Uses("authentication") /\ AuthenticationController(scenario.proofs)
        /\ OnlyIn("authentication")
     \/ Uses("time") /\ TimePasses /\ OnlyIn("time")
     \/ Uses("organizations") /\ OrganizationController /\ OnlyIn("organizations")
     \/ Uses("relations") /\ BusinessRelationController /\ OnlyIn("organizations")
     \/ Uses("enumerations") /\ EnumerationControllers /\ OnlyIn("enumerations")
     \/ Uses("standards") /\ AssessmentReferenceStandardController /\ OnlyIn("standards")
     \/ Uses("categories") /\ ProductCategoryController /\ OnlyIn("catalogue")
     \/ Uses("materials") /\ MaterialController /\ OnlyIn("catalogue")
     \/ Uses("offers") /\ OfferController /\ OnlyIn("catalogue")
     \/ Uses("operations") /\ AssetOperationController /\ OnlyIn("catalogue")
     \/ Uses("certificates") /\ CertificationController /\ OnlyIn("certificates")
     \/ Uses("orders") /\ OrderController(scenario.terms) /\ OnlyIn("orders")
     \/ Uses("manager") /\ DownPaymentManager /\ OnlyIn("manager")
  /\ NoteGaps

Spec == Init /\ [][Next]_vars

-----------------------------------------------------------------------------
\* Properties.

\* The clock, the sessions, the registers and the manager hold values of their kinds: no
\* list of an enumeration has a value twice, no input is offered, only parties sign.
TypeOK ==
  /\ now \in 0 .. Horizon
  /\ \A u \in DOMAIN sessions : u \in Users /\ sessions[u].company \in Companies
  /\ organizations \in [DOMAIN organizations -> Sectors]
  /\ relations \subseteq Companies \X Companies
  /\ \A type \in Enumerated, sector \in Sectors :
       LET list == enumerations[type][sector]
       IN  ToSet(list) \subseteq Values /\ Cardinality(ToSet(list)) = Len(list)
  /\ \A id \in DOMAIN materials : materials[id].owner \in Companies
  /\ \A id \in DOMAIN offers : ~ offers[id].material.isInput
  /\ \A id \in DOMAIN orders :
       /\ orders[id].status \in {"PENDING", "CONFIRMED"}
       /\ DOMAIN orders[id].signatures \subseteq InterestedParties(orders[id].terms)
  /\ managers \subseteq Administrators /\ managerFees.percentage <= 100

\* What a proof has to be when it is presented.
Genuine(attempt) ==
  LET proof == attempt.proof
  IN  /\ proof.delegate = attempt.user /\ proof.signer = proof.company
      /\ proof.issuer = MembershipIssuer
      /\ attempt.at <= proof.delegateExpiry /\ attempt.at <= proof.delegatorExpiry

\* The logins before the scenario were genuine, and are as old as it is; a role is one
\* of RoleProof's.
ASSUME ScenarioAssumption == \A s \in Scenarios :
  /\ \A a \in s.attempts : a.at = 0 /\ Genuine(a) /\ a.proof.role \in DOMAIN Rank
  /\ \A proof \in s.proofs : proof.role \in DOMAIN Rank

\* Whoever acts for a company presented, less than a session's length ago, a proof
\* that was genuine then, however long its check took and whatever else was going on.
SessionsBacked == \A u \in Users : IsAuthenticated(u) =>
  \E a \in attempts :
    /\ a.user = u /\ Genuine(a) /\ now < a.at + LoginDuration
    /\ a.proof.company = sessions[u].company /\ a.proof.role = sessions[u].role

Acting(company) == \E u \in DOMAIN sessions :
  /\ sessions[u].company = company /\ sessions[u].expiration > now
  /\ sessions[u].role \in {"Editor", "Signer"}

Certificate(id) ==
  LET list == certificates[records[id]] IN list[CHOOSE i \in PlacesIn(records[id], id) : TRUE]

\* To whom a company shows itself, its materials, its offers and what its certificates
\* attest change only while an editor or signer of that company has a session in force.
\* Of the data it shows nothing is claimed: any editor may change another company's.
OwnersDecide ==
  [][/\ \A c \in DOMAIN organizations \cap DOMAIN organizations', viewer \in Companies :
          GetOrganizations(viewer)[c] # GetOrganizations(viewer)'[c] => Acting(c)
     /\ \A id \in DOMAIN materials :
          materials'[id] # materials[id] => Acting(materials[id].owner)
     /\ \A id \in DOMAIN offers \ DOMAIN offers' : Acting(offers[id].owner)
     /\ \A id \in DOMAIN records :
          LET old == Certificate(id) new == Certificate(id)'
          IN  (old.standard # new.standard \/ old.material # new.material) => Acting(old.uploadedBy)
    ]_vars

\* The standards that are kept are those some sector lists: removing one from a sector
\* leaves nothing dangling in another, also when ids are given again.
ListedStandardsExist ==
  DOMAIN standards = UNION {listed[sector] : sector \in Sectors}

\* Every operation is listed by a company, and what a company lists exists unless
\* another company deleted it.
ListedOperationsExist ==
  LET all == UNION {operationIds[c] : c \in DOMAIN operationIds}
  IN  DOMAIN operations \subseteq all /\ all \subseteq DOMAIN operations \cup orphaned

\* Offers and standards stay what they are until they are removed, unless a removal
\* left a gap in the ids, after which the next entry may take an id in use.
EntriesStand ==
  [][/\ "offers" \notin gapped =>
          \A id \in DOMAIN offers \cap DOMAIN offers' : offers'[id] = offers[id]
     /\ "standards" \notin gapped =>
          \A id \in DOMAIN standards \cap DOMAIN standards' : standards'[id] = standards[id]]_vars

\* The record of every certificate leads to it, and to one only; no certificate is
\* without a record.
RecordsFindCertificates ==
  /\ \A id \in DOMAIN records : Cardinality(PlacesIn(records[id], id)) = 1
  /\ \A list \in Lists : \A i \in DOMAIN certificates[list] :
       LET id == certificates[list][i].id
       IN  id \in DOMAIN records /\ records[id] = list

\* A company that has signed an order signed the terms it has now, also when a copy
\* that waited for the registration was inserted over an update; a confirmed order is
\* signed by both sides.
SignaturesMatchTerms == \A id \in DOMAIN orders :
  /\ \A c \in DOMAIN orders[id].signatures : orders[id].signatures[c] = orders[id].terms
  /\ orders[id].status = "CONFIRMED" => Complete(orders[id])

\* A confirmed order never changes nor disappears, unless the ids of the orders had a
\* gap or two of its last signatures overlapped.
ConfirmedOrdersStand ==
  [][\A id \in DOMAIN orders :
       orders[id].status = "CONFIRMED" /\ "orders" \notin gapped /\ id \notin overlapped
       => id \in DOMAIN orders' /\ orders'[id] = orders[id]]_vars

\* A confirmed order has a shipment between its parties, and no other order has it,
\* unless two waiting calls had taken the same shipment id.
ConfirmedOwnShipment == \A id \in DOMAIN orders : orders[id].status = "CONFIRMED" =>
  LET s == orders[id].shipment
  IN  /\ s \in DOMAIN shipments
      /\ s \notin contested =>
           /\ shipments[s] = [supplier |-> orders[id].terms.supplier,
                               commissioner |-> orders[id].terms.commissioner]
           /\ \A other \in DOMAIN orders \ {id} : orders[other].shipment # s

\* The fees of an escrow are the manager's, except for the recipient of one that had
\* something locked during an update.
FeesReachEscrows == \A i \in DOMAIN escrows :
  /\ escrows[i].fees.base = managerFees.base
  /\ escrows[i].fees.percentage = managerFees.percentage
  /\ i \notin missed => escrows[i].fees.recipient = managerFees.recipient
================================================================================

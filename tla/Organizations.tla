----------------------------- MODULE Organizations -----------------------------
(***************************************************************************)
(* OrganizationService and BusinessRelationService: who the companies are, *)
(* and which company shows itself to which.  Of the data of an organization*)
(* only its industrial sector matters to other services.                   *)
(***************************************************************************)
EXTENDS Sessions

CONSTANT Sectors        \* industrialSectorsAvailable, "DEFAULT" among them

VARIABLES
  organizations,        \* the sector by company
  relations             \* <<a, b>>: a shows itself to b

organizationVars == <<organizations, relations>>

\* getRawOrganization of the caller's company throws when it has none.
HasOrganization(u) == GetDelegatorAddress(u) \in DOMAIN organizations
GetLoggedOrganization(u) == organizations[GetDelegatorAddress(u)]

IsOrganizationKnown(company, viewer) == company = viewer \/ <<company, viewer>> \in relations

\* What the viewer is presented with.
GetOrganizations(viewer) ==
  [c \in DOMAIN organizations |-> IF IsOrganizationKnown(c, viewer) THEN "broad" ELSE "narrow"]

CreateOrganization(u, sector) ==
  /\ organizations' = Put(organizations, GetDelegatorAddress(u), sector)
  /\ UNCHANGED relations

UpdateOrganization(company, sector) ==
  /\ company \in DOMAIN organizations
  /\ organizations' = Put(organizations, company, sector)
  /\ UNCHANGED relations

DeleteOrganization(company) ==
  /\ company \in DOMAIN organizations
  /\ organizations' = Without(organizations, company)
  /\ UNCHANGED relations

CreateBusinessRelation(u, other) ==
  /\ relations' = relations \cup {<<GetDelegatorAddress(u), other>>}
  /\ UNCHANGED organizations

DeleteBusinessRelation(u, other) ==
  /\ <<GetDelegatorAddress(u), other>> \in relations
  /\ relations' = relations \ {<<GetDelegatorAddress(u), other>>}
  /\ UNCHANGED organizations

OrganizationController == \E u \in Users : AtLeast(u, "Editor") /\
  \/ \E sector \in Sectors : CreateOrganization(u, sector)
  \/ \E company \in Companies, sector \in Sectors : UpdateOrganization(company, sector)
  \/ \E company \in Companies : DeleteOrganization(company)

BusinessRelationController == \E u \in Users, other \in Companies : AtLeast(u, "Editor") /\
  \/ CreateBusinessRelation(u, other)
  \/ DeleteBusinessRelation(u, other)

\* Mutant of OnlyContractParty: any company will do.
AnyOrganization(u, parties) == HasOrganization(u)

\* decorators/parties.ts
OnlyContractParty(u, parties) == HasOrganization(u) /\ GetDelegatorAddress(u) \in parties
================================================================================

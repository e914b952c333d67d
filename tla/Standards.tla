-------------------------------- MODULE Standards --------------------------------
(***************************************************************************)
(* AssessmentReferenceStandardService: the standards by id, and the ids    *)
(* listed for each industrial sector.  The order of a list only orders     *)
(* what is shown, and an id that is in it twice is removed twice.          *)
(***************************************************************************)
EXTENDS Enumerations

CONSTANTS
  StandardNames,
  MaxListed             \* bound on the ids listed for a sector

VARIABLES
  standards,            \* [name, criterion] by id, from 1
  listed                \* _industrialSectorStandardIds: the ids by sector

standardVars == <<standards, listed>>

GetAll(sector) == listed["DEFAULT"] \cup listed[sector]

Known(name) == {id \in DOMAIN standards : standards[id].name = name}

\* A standard of the same name is listed for one more sector.
AddKnown(id, sector) ==
  /\ listed' = [listed EXCEPT ![sector] = @ \cup {id}]
  /\ UNCHANGED standards

AddNew(name, criterion, sector) ==
  LET id == NextId(standards) + 1
  IN  /\ standards' = Put(standards, id, [name |-> name, criterion |-> criterion])
      /\ listed' = [listed EXCEPT ![sector] = @ \cup {id}]

AddStandard(name, criterion, sector) ==
  /\ HasValue("criterion", criterion, sector)
  /\ \/ \E id \in Known(name) : AddKnown(id, sector)
     \/ Known(name) = {} /\ AddNew(name, criterion, sector)

\* Mutant of KeptStandards: the standard goes although other sectors list it.
Unkept(id, lists) == Without(standards, id)

KeptStandards(id, lists) ==
  IF \E s \in Sectors : id \in lists[s] THEN standards ELSE Without(standards, id)

\* It has to be among those the caller's organization is shown.
RemoveStandard(u, id, sector) ==
  /\ u \in DOMAIN sessions /\ HasOrganization(u)
  /\ id \in GetAll(GetLoggedOrganization(u))
  /\ listed' = [listed EXCEPT ![sector] = @ \ {id}]
  /\ standards' = KeptStandards(id, listed')

AssessmentReferenceStandardController == \E sector \in Sectors :
  \/ /\ Cardinality(listed[sector]) < MaxListed
     /\ \E name \in StandardNames, criterion \in Values : AddStandard(name, criterion, sector)
  \/ \E u \in Users, id \in DOMAIN standards : RemoveStandard(u, id, sector)
================================================================================

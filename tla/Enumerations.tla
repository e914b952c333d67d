------------------------------ MODULE Enumerations ------------------------------
(***************************************************************************)
(* EnumerationService and its five subclasses: a list of values per        *)
(* industrial sector, those of DEFAULT shown to all.  Neither addValue nor *)
(* removeValue asks who calls.                                             *)
(***************************************************************************)
EXTENDS Organizations, Sequences, SequencesExt

CONSTANT Values

VARIABLE enumerations   \* the list of values by enumeration and sector

enumerationVars == <<enumerations>>

Enumerated == {"fiat", "unit", "process type", "assurance level", "criterion"}

GetAllValues(type, sector) ==
  enumerations[type]["DEFAULT"] \o enumerations[type][sector]

HasValue(type, value, sector) == value \in ToSet(GetAllValues(type, sector))

\* With no sector given, that of the caller's organization; without one it throws.
HasOwnValue(u, type, value) ==
  HasOrganization(u) /\ HasValue(type, value, GetLoggedOrganization(u))

\* Mutant of AddValue: only the values of DEFAULT are looked at.
AddUndefaulted(type, value, sector) ==
  /\ ~ HasValue(type, value, "DEFAULT")
  /\ enumerations' = [enumerations EXCEPT ![type][sector] = Append(@, value)]

AddValue(type, value, sector) ==
  /\ ~ HasValue(type, value, sector)
  /\ enumerations' = [enumerations EXCEPT ![type][sector] = Append(@, value)]

\* filter takes out one value at most: no list has a value twice (TypeOK of Platform).
Filtered(list, value) ==
  IF value \in ToSet(list) THEN RemoveAt(list, CHOOSE i \in DOMAIN list : list[i] = value)
  ELSE list

\* A value of DEFAULT is found under every sector but removed from the one named.
RemoveValue(type, value, sector) ==
  /\ HasValue(type, value, sector)
  /\ enumerations' = [enumerations EXCEPT ![type][sector] = Filtered(@, value)]

FiatController == \E value \in Values, sector \in Sectors :
  AddValue("fiat", value, sector) \/ RemoveValue("fiat", value, sector)
UnitController == \E value \in Values, sector \in Sectors :
  AddValue("unit", value, sector) \/ RemoveValue("unit", value, sector)
ProcessTypeController == \E value \in Values, sector \in Sectors :
  AddValue("process type", value, sector) \/ RemoveValue("process type", value, sector)
AssessmentAssuranceLevelController == \E value \in Values, sector \in Sectors :
  AddValue("assurance level", value, sector) \/ RemoveValue("assurance level", value, sector)
SustainabilityCriteriaController == \E value \in Values, sector \in Sectors :
  AddValue("criterion", value, sector) \/ RemoveValue("criterion", value, sector)
================================================================================

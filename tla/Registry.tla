-------------------------------- MODULE Registry --------------------------------
(***************************************************************************)
(* The services number their entries by the length of the map they keep    *)
(* them in (StableBTreeMap.keys().length), although entries can be removed.*)
(***************************************************************************)
EXTENDS Naturals, FiniteSets, TLC

\* Mutant of NextId: the id of the last entry.
LastId(reg) == IF DOMAIN reg = {} THEN 0 ELSE Cardinality(DOMAIN reg) - 1

NextId(reg) == Cardinality(DOMAIN reg)

Put(reg, id, entry) == [i \in DOMAIN reg \cup {id} |-> IF i = id THEN entry ELSE reg[i]]
Without(reg, id) == [i \in DOMAIN reg \ {id} |-> reg[i]]

\* No entry was removed below the last one: the next id is free.
Gapless(reg) == DOMAIN reg = 0 .. Cardinality(DOMAIN reg) - 1
================================================================================

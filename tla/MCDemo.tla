--------------------------------- MODULE MCDemo ---------------------------------
(* populate.sh has been run, or all of it but the standards. *)
EXTENDS Demo

CONSTANTS ann, bob, exporter, importer, issuer, treasury

MCUsers == {ann, bob}
MCCompanies == {exporter, importer}
MCSectors == {"DEFAULT", "OTHER"}
MCThreads == {1, 2, 3}
MCSlots == MCThreads \cup {App}

Enumerations ==
  [type \in Enumerated |-> [sector \in MCSectors |->
     IF sector = "DEFAULT" THEN <<"Certified (Third Party)">> ELSE <<>>]]

Populated(uses) ==
  [uses |-> uses, attempts |-> {}, proofs |-> {}, terms |-> {}, organizations |-> <<>>,
   enumerations |-> Enumerations,
   standards |-> 1 :> [name |-> "B CORP", criterion |-> "Certified (Third Party)"],
   listed |-> [s \in MCSectors |-> IF s = "DEFAULT" THEN {1} ELSE {}],
   categories |-> [i \in 0 .. 4 |-> "Arabica"], materials |-> <<>>]

Unpopulated ==
  [Populated({}) EXCEPT !.standards = <<>>, !.listed = [s \in MCSectors |-> {}]]

MCScenarios == {Populated({"app"}), Populated({"losses", "time"}), Unpopulated}

Uploading(maxRejections) ==
  [users |-> {ann}, methods |-> {"create"}, names |-> {}, maxFiles |-> 9, maxRejections |-> maxRejections,
   contents |-> {<<"pdf">>} \cup {<<type>> : type \in UNION {RequiredDocuments[p] : p \in 1 .. 3}}]

MCStorages == {Uploading(0), Uploading(1)}

\* Calls get lost, or are rejected, where nobody signs elsewhere.
MCInit == DemoInit /\ workload.maxRejections = IF Uses("losses") THEN 1 ELSE 0

MCSpec == MCInit /\ [][DemoNext]_demoVars /\ WF_demoVars(Progress)
================================================================================

------------------------------ MODULE MCStorage ------------------------------
(* Instances of Storage: two users, a content of two blocks and one of one;  *)
(* and of Documents: one user, two names that differ in their extension.     *)
EXTENDS Documents

CONSTANTS ann, ben, left, right

MCUsers == {ann, ben}
MCCallers == {left, right}
MCContents == {<<"a", "b">>, <<"c">>}
MCTypes == {"INVOICE", "GENERIC"}
MCDeclared == MCContents \cup {<<type>> : type \in MCTypes}
MCNames == {[stem |-> "n", extension |-> "pdf"], [stem |-> "n", extension |-> "png"]}

Workload(users, methods, contents, maxFiles, maxRejections) ==
  [users |-> users, methods |-> methods, names |-> {"f"}, contents |-> contents,
   maxFiles |-> maxFiles, maxRejections |-> maxRejections]

\* One user, whose files can be removed, renamed or neither.
Documenting(methods, contents, maxFiles, maxOperations, together) ==
  [users |-> {ann}, methods |-> methods, contents |-> contents,
   names |-> {Url("materials", name) : name \in MCNames},
   maxFiles |-> maxFiles, maxRejections |-> 0, maxOperations |-> maxOperations,
   together |-> together]

MCDocuments ==
  {Documenting({"shipment", "materials"}, MCContents, 2, 2, 2),
   Documenting({"shipment"}, {<<"c">>}, 6, 4, 1),
   Documenting({"company", "scope", "materials"}, {<<"a", "b">>, <<"c">>}, 2, 3, 1),
   Documenting({"materials", "rename"}, {<<"c">>}, 2, 2, 2),
   Documenting({"materials", "create", "rename"}, {<<"c">>}, 2, 1, 2),
   Documenting({"materials", "remove"}, {<<"a", "b">>}, 1, 2, 2)}

MCWorkloads ==
  {Workload(MCUsers, {"create"}, MCContents, 2, 0),
   Workload({ann}, {"create", "remove"}, {<<"c">>}, 2, 0),
   Workload(MCUsers, {"member", "remove"}, {}, 1, 0),
   Workload(MCUsers, {"member"}, {}, 1, 1),
   Workload(MCUsers, {"create", "member", "upgrade"}, {<<"c">>}, 1, 0),
   Workload({ann}, {"create", "remove", "upgrade"}, {<<"c">>}, 1, 1),
   Workload({ann}, {"create", "share"}, {<<"c">>}, 1, 0)}
    \cup MCDocuments

\* Slots are interchangeable; only safety is checked.
MCSymmetry == Permutations(MCCallers)
===============================================================================

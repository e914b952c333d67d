------------------------------- MODULE MCPlatform -------------------------------
(* Scenarios of Platform: two companies with a user each. *)
EXTENDS Platform

CONSTANTS ann, bob, exporter, importer, issuer, forger, treasury, charity

MCUsers == {ann, bob}
MCCompanies == {exporter, importer}
MCSectors == {"DEFAULT", "COFFEE"}

Proof(u, company, role, delegateExpiry, delegatorExpiry) ==
  [delegate |-> u, company |-> company, role |-> role, signer |-> company, issuer |-> issuer,
   delegateExpiry |-> delegateExpiry, delegatorExpiry |-> delegatorExpiry]

AnnEdits == Proof(ann, exporter, "Editor", 2, 2)
AnnSigns == Proof(ann, exporter, "Signer", 2, 2)
BobSigns == Proof(bob, importer, "Signer", 2, 2)
BobEdits == Proof(bob, importer, "Editor", 2, 2)
BobViews == Proof(bob, importer, "Viewer", 2, 2)

At0(u, proof) == [user |-> u, proof |-> proof, at |-> 0]

NoValues == [type \in Enumerated |-> [sector \in MCSectors |-> <<>>]]
Standard(name) == [name |-> name, criterion |-> "v"]
OneValue == [type \in Enumerated |-> [sector \in MCSectors |-> IF sector = "DEFAULT" THEN <<"v">> ELSE <<>>]]
Made(owner, isInput) == [owner |-> owner, category |-> "arabica", isInput |-> isInput]

Scenario(uses, made) ==
  [uses |-> uses, attempts |-> made, proofs |-> {}, terms |-> {},
   organizations |-> [c \in MCCompanies |-> "COFFEE"], enumerations |-> NoValues,
   standards |-> <<>>, listed |-> [s \in MCSectors |-> {}],
   categories |-> <<>>, materials |-> <<>>]

Both == {At0(ann, AnnEdits), At0(bob, BobSigns)}

Logins ==
  [Scenario({"authentication", "time"}, {}) EXCEPT
     !.proofs = {AnnEdits, BobViews, Proof(ann, importer, "Signer", 2, 0),
                 Proof(ann, importer, "Editor", 0, 2),
                 [BobSigns EXCEPT !.signer = forger], [BobSigns EXCEPT !.issuer = forger]}]

Presentations == Scenario({"organizations", "relations", "time", "authentication"}, Both)

Lines(quantity, price) ==
  <<[supplierMaterial |-> 0, commissionerMaterial |-> 1, quantity |-> quantity],
    [supplierMaterial |-> 0, commissionerMaterial |-> 2, quantity |-> price]>>

Terms(commissioner, deadline, lines) ==
  [supplier |-> exporter, customer |-> importer, commissioner |-> commissioner,
   deadline |-> deadline, other |-> "agreed", lines |-> lines]

Ordering ==
  [Scenario({"orders"}, {At0(ann, AnnSigns), At0(bob, BobSigns)}) EXCEPT
     !.materials = (0 :> Made(exporter, FALSE)) @@ (1 :> Made(importer, TRUE))
                   @@ (2 :> Made(importer, TRUE)),
     !.terms = {Terms(importer, 1, Lines(1, 2)), Terms(importer, 1, Lines(2, 2))}]

OwnCommission ==
  [Scenario({"orders", "time"}, {At0(ann, AnnEdits), At0(bob, BobSigns)}) EXCEPT
     !.materials = (0 :> Made(exporter, FALSE)) @@ (1 :> Made(exporter, TRUE))
                   @@ (2 :> Made(exporter, FALSE)),
     !.terms = {Terms(exporter, 1, Lines(1, 2)), Terms(exporter, 0, Lines(2, 1)),
                Terms(exporter, 1, <<Lines(1, 2)[1]>>)}]

Listing == [Scenario({"standards"}, Both) EXCEPT !.enumerations = OneValue]
Enumerating == Scenario({"enumerations"}, {})

\* The importer's user looks on while materials take over the changes of a category.
Describing ==
  [Scenario({"categories", "materials", "offers", "time"}, {At0(ann, AnnEdits), At0(bob, BobViews)})
     EXCEPT !.categories = 0 :> "arabica"]

\* Either company acts while the other's session is in force, over, or ended by a logout.
Trading ==
  [Scenario({"materials", "offers", "time", "authentication"},
            {At0(ann, AnnEdits), At0(bob, BobEdits)})
     EXCEPT !.categories = 0 :> "arabica"]

Operating ==
  [Scenario({"operations"}, Both) EXCEPT
     !.materials = (0 :> Made(exporter, FALSE)) @@ (1 :> Made(exporter, TRUE))]

\* Either company acts while the other is logged out.
Certifying ==
  [Scenario({"certificates", "authentication"}, Both) EXCEPT
     !.enumerations = OneValue, !.standards = <<Standard("fair")>>,
     !.listed = [s \in MCSectors |-> {1}],
     !.materials = 0 :> Made(exporter, FALSE)]

\* As above, with another standard to change to and no material.
Recertifying ==
  [Certifying EXCEPT
     !.standards = <<Standard("fair"), Standard("organic")>>,
     !.listed = [s \in MCSectors |-> {1, 2}],
     !.materials = <<>>]

Managing == Scenario({"manager"}, {})

MCScenarios ==
  {Logins, Presentations, Ordering, OwnCommission, Listing, Enumerating, Describing, Trading,
   Operating, Certifying, Recertifying, Managing}
================================================================================

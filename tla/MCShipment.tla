----------------------------- MODULE MCShipment -----------------------------
(***************************************************************************)
(* Instances of Shipment for TLC.                                          *)
(***************************************************************************)
EXTENDS Shipment, TLC

CONSTANTS supplier, commissioner, c1, c2

\* A pre-shipment sample in phase 1, a shipping note in phase 2.
MCRequiredDocuments == <<{"sample"}, {"note"}, {}, {}>>

\* Only a bill of lading, in phase 4.
MCRequiredFunds == <<{}, {}, {}, {"lading"}>>

MCParties == {supplier, commissioner}
MCSupplier == {supplier}
MCTwoCalls == {c1, c2}
MCOneCall == {c1}

\* The two parties take the same steps, and so do the call slots.
PartySymmetry == Permutations(MCParties)
CallSymmetry == Permutations(MCTwoCalls)

\* Without calls nothing depends on the chain: the registration got lost, which
\* leaves the chain no step to take.
RecordInit == Init /\ pending = NoTx
=============================================================================

SPECIFICATION Spec
CONSTANTS
  supplier = supplier
  commissioner = commissioner
  c1 = c1
  c2 = c2
  DocumentTypes = {"generic", "lading"}
  Generic = "generic"
  Required <- MCRequiredFunds
  SampleApprovalRequired = FALSE
  Parties <- MCParties
  Urls = {"url"}
  Prices = {2}
  Cap = 2
  Clients <- MCTwoCalls
  Faults = {"lost reply", "replaced"}
  Calls <- MCTwoCalls
  Uploads = {"lading"}
  Uploaders <- MCSupplier
  Evaluations = {"APPROVED"}
  Amounts = {2}
  MaxGeneric = 2
SYMMETRY CallSymmetry
CHECK_DEADLOCK FALSE
INVARIANTS
  StagesInOrder
  MoneyFollowsApproval
PROPERTIES
  PhaseAdvances

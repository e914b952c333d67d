INIT RecordInit
NEXT Next
CONSTANTS
  supplier = supplier
  commissioner = commissioner
  c1 = c1
  c2 = c2
  DocumentTypes = {"generic", "sample", "note"}
  Generic = "generic"
  Required <- MCRequiredDocuments
  SampleApprovalRequired = TRUE
  Parties <- MCParties
  Urls = {"url"}
  Prices = {1, 2}
  Cap = 2
  Clients = {}
  Faults = {}
  Calls = {}
  Uploads = {"generic", "sample", "note"}
  Uploaders <- MCParties
  Evaluations = {"APPROVED", "NOT_APPROVED"}
  Amounts = {}
  MaxGeneric = 1
SYMMETRY PartySymmetry
CHECK_DEADLOCK FALSE
INVARIANTS
  OneDocumentPerType
PROPERTIES
  ApprovalsStand

SPECIFICATION Spec
CONSTANTS
  supplier = supplier
  commissioner = commissioner
  c1 = c1
  c2 = c2
  DocumentTypes = {"generic", "lading"}
  Generic = "generic"
  Required <- MCRequiredFunds
  SampleApprovalRequired = FALSE
  Parties <- MCParties
  Urls = {"url"}
  Prices = {2}
  Cap = 2
  Clients <- MCOneCall
  Faults = {}
  Calls <- MCOneCall
  Uploads = {"lading"}
  Uploaders <- MCSupplier
  Evaluations = {"APPROVED"}
  Amounts = {2}
  MaxGeneric = 2
CHECK_DEADLOCK FALSE
INVARIANT
  LockedMeansLocked

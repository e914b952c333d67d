SPECIFICATION Spec
CONSTANTS
  supplier = supplier
  commissioner = commissioner
  c1 = c1
  c2 = c2
  DocumentTypes = {"generic", "lading"}
  Generic = "generic"
  Required <- MCRequiredFunds
  SampleApprovalRequired = FALSE
  Parties <- MCParties
  Urls = {"url"}
  Prices = {0, 1}
  Cap = 2
  Clients <- MCOneCall
  Faults = {"replaced", "no gas", "shared account"}
  Calls <- MCOneCall
  Uploads = {"generic", "lading"}
  Uploaders <- MCSupplier
  Evaluations = {"APPROVED", "NOT_APPROVED"}
  Amounts = {2}
  MaxGeneric = 1
CHECK_DEADLOCK FALSE
INVARIANTS
  TypeOK
  ReservedOnce

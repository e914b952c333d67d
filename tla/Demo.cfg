SPECIFICATION MCSpec
CONSTANTS
  ann = ann
  bob = bob
  exporter = exporter
  importer = importer
  issuer = issuer
  treasury = treasury
  Users <- MCUsers
  Companies <- MCCompanies
  Exporter = ann
  Importer = bob
  ExporterCompany = exporter
  ImporterCompany = importer
  Threads <- MCThreads
  Storages <- MCStorages
  Sectors <- MCSectors
  Scenarios <- MCScenarios
  MembershipIssuer = issuer
  LoginDuration = 1
  MaxAttempts = 2
  Horizon = 1
  Values = {"Certified (Third Party)"}
  StandardNames = {"B CORP"}
  MaxListed = 1
  CategoryNames = {"Arabica"}
  MaxEntries = 8
  Documents = {"report"}
  MaxCertificates = 1
  MaxOrders = 2
  MaxShipments = 2
  Slots <- MCSlots
  Administrators = {ann}
  Recipients = {treasury}
  BaseFees = {0}
  PercentageFees = {10}
  ShipmentIds = {0}
  MaxEscrows = 0
CHECK_DEADLOCK FALSE
INVARIANTS
  DemoTypeOK
  PhasesAsPlanned
  RecordedDocumentsStored
PROPERTIES
  DemoEnds
  DemoCompletes
  AgreementsStand

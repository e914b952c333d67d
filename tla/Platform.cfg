SPECIFICATION Spec
CONSTANTS
  ann = ann
  bob = bob
  exporter = exporter
  importer = importer
  issuer = issuer
  forger = forger
  treasury = treasury
  charity = charity
  Users <- MCUsers
  Companies <- MCCompanies
  Sectors <- MCSectors
  Scenarios <- MCScenarios
  MembershipIssuer = issuer
  LoginDuration = 2
  MaxAttempts = 2
  Horizon = 2
  Values = {"v"}
  StandardNames = {"fair", "organic", "local"}
  MaxListed = 3
  CategoryNames = {"arabica", "robusta"}
  MaxEntries = 2
  Documents = {"report", "scan"}
  MaxCertificates = 2
  MaxOrders = 2
  MaxShipments = 2
  Slots = {1, 2}
  Administrators = {ann, bob}
  Recipients = {treasury, charity}
  BaseFees = {0, 5}
  PercentageFees = {10, 101}
  ShipmentIds = {0, 1}
  MaxEscrows = 2
CHECK_DEADLOCK FALSE
INVARIANTS
  TypeOK
  SessionsBacked
  ListedStandardsExist
  ListedOperationsExist
  RecordsFindCertificates
  SignaturesMatchTerms
  ConfirmedOwnShipment
  FeesReachEscrows
PROPERTIES
  OwnersDecide
  EntriesStand
  ConfirmedOrdersStand

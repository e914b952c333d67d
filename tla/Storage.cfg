SPECIFICATION DocumentsSpec
CONSTANTS
  ann = ann
  ben = ben
  left = left
  right = right
  Users <- MCUsers
  Callers <- MCCallers
  Contents <- MCDeclared
  Workloads <- MCWorkloads
  Tokens = {t1, t2}
  Limits = {0, 1}
  MaxUses = 2
  Names <- MCNames
  ShipmentTypes <- MCTypes
  Generic = "GENERIC"
  Filenames = {"", "f"}
  Certificates = {"bcs"}
SYMMETRY MCSymmetry
CHECK_DEADLOCK FALSE
INVARIANTS
  TypeOK
  StoredFilesIntact
  MembersMirrored
  ReadersSeeUploads
PROPERTIES
  NothingReplacedWithoutGap
  ReportedUploadsStored
  LinksOnlyAge

CONSTANTS
  invoiceKind = invoiceKind
  pageKind = pageKind
  receiptKind = receiptKind
  Kinds <- PageAndReceipt
  Page = pageKind
  Invoice = invoiceKind
  Types = {pageKind, receiptKind}
  Roles = {"WORKER", "MANAGER", "ADMIN"}
  Slots = {s1, s2}
  NoSlot = NoSlot
  NoFile = NoFile
  Torn = Torn
  MaxFaults = 1
  MaxLosses = 2
SPECIFICATION FairSpec
INVARIANTS
  TypeOK
  MarkedMeansRecorded
  VersionsHaveFiles
PROPERTIES
  EventuallySynced
CHECK_DEADLOCK FALSE

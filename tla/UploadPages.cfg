CONSTANTS
  invoiceKind = invoiceKind
  pageKind = pageKind
  receiptKind = receiptKind
  Kinds <- TwoPages
  Page = pageKind
  Invoice = invoiceKind
  Types = {pageKind, receiptKind}
  Roles = {"WORKER", "ADMIN"}
  Slots = {s1, s2}
  NoSlot = NoSlot
  NoFile = NoFile
  Torn = Torn
  MaxFaults = 0
  MaxLosses = 0
SPECIFICATION Spec
INVARIANTS
  PagesKept
CHECK_DEADLOCK FALSE

CONSTANTS
  c1 = c1
  c2 = c2
  x = x
  y = y
  bill = bill
  seller = seller
  Name = {bill, seller}
  Unread = Unread
  WellFormed = {seller}
  Calls = {c1, c2}
  FileName = {f1}
  Content = {x, y}
  Absent = Absent
  Torn = Torn
  Expected <- MCExpected
  Data <- MCData
  Rule <- MCRule
  MaxDocs = 3
  MaxVersions = 2
  MaxWork = 3
  MaxFaults = 1
SPECIFICATION Spec
INVARIANTS
  TypeOK
  OneOpenException
  ServedAsHashed
  LinkedNoteIsComplete
PROPERTIES
  ThresholdsSeeFiledAmount
SYMMETRY Interchangeable
CHECK_DEADLOCK FALSE

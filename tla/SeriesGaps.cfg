CONSTANTS
  a = a
  b = b
  whole = whole
  part = part
  Paper <- MCPaper
  Series = {whole, part}
  NoSeries = NoSeries
  Begins <- MCBegins
  Length <- MCLength
  Prefix = {a, b}
  MinNumber = 9
  MaxNumber = 11
  MaxWidth = 2
  Digits <- MCDigits
  Worker = {w1}
  MaxUploads = 1
  MaxFiled = 3
  MaxFaults = 1
SPECIFICATION FairSpec
INVARIANT TypeOK
PROPERTIES
  FlaggedWasMissing
  ImplementsRegister
  FiledGapCloses
  GapIsFlagged

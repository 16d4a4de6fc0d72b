CONSTANTS
  Invoices = {i1, i2}
  Buyers = {b1}
  Tellers = {t1, t2}
  Totals <- OneTotal
  Amounts <- BorderAmounts
  Terms <- TwoTerms
  Days <- BorderDays
  NoBuyer = NoBuyer
  NoDate = NoDate
  NoTerms = NoTerms
  NoInvoice = NoInvoice
SPECIFICATION Spec
INVARIANTS TypeOK OverpaymentBounded AgingAddsUp ViewsAgree
SYMMETRY Interchangeable

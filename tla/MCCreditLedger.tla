-------------------------- MODULE MCCreditLedger --------------------------
\* A small instance of CreditLedger.  The days are 0, 1, 30, 31, 60 and 61 days
\* apart, on both sides of every border of the aging ranges, the amounts on both sides of the balance and of
\* its tolerance.  Tellers and invoices are interchangeable: no definition
\* tells one from another, and the sums do not depend on their order.
EXTENDS CreditLedger, TLC

BorderDays == {0, 1, 31, 61}
TwoTerms == {0, 30}
OneTotal == {3}
BorderAmounts == {0, 2, 4, 5}

Interchangeable == Permutations(Tellers) \cup Permutations(Invoices)
=============================================================================

----------------------------- MODULE MCInvoiceFile -----------------------------
\* A small instance of InvoiceFile: an invoice of 5060 rupees, and extractions
\* that agree, read less than is tolerated, see no total, or are inconclusive.
EXTENDS InvoiceFile, TLC

CONSTANTS c1, c2, x, y, bill, seller

Read(gross, net, tax, inconclusive) ==
  [number |-> bill, seller |-> seller, buyer |-> Unread, gross |-> gross, net |-> net,
   tax |-> tax, simulated |-> FALSE, inconclusive |-> inconclusive]

MCExpected ==
  [number |-> bill, seller |-> seller, buyer |-> Unread, gross |-> 506000, tax |-> 6000]

Agrees == Read(506000, 500000, 6000, FALSE)
ReadsLess == Read(499000, 493000, 6000, FALSE)
SeesNoTotal == Read(0, 0, 0, FALSE)
Inconclusive == Read(0, 0, 0, TRUE)
MCData == {Agrees, ReadsLess, SeesNoTotal, Inconclusive}

MCRule ==
  {[field |-> "GrossAmount", operator |-> ">", value |-> 500000, action |-> "REQUIRE_FINANCE_APPROVAL"]}

Interchangeable == Permutations(Calls) \cup Permutations(Content)
=============================================================================

------------------------- MODULE MCInvoiceLifecycle -------------------------
\* A small instance of InvoiceLifecycle: one user of each role.
EXTENDS InvoiceLifecycle

CONSTANTS mia, finn, ada

TwoUsers == {mia, finn}
AdminOnly == {ada}

MCRoleOf ==
  [u \in Users |-> IF u = mia THEN "MANAGER" ELSE IF u = finn THEN "FINANCE" ELSE "ADMIN"]
=============================================================================

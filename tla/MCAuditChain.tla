---------------------------- MODULE MCAuditChain ----------------------------
\* A small instance of AuditChain; the configurations set the writers.
EXTENDS AuditChain
=============================================================================

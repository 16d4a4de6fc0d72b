----------------------------- MODULE MCGateEntry -----------------------------
\* A small instance of GateEntry.
EXTENDS GateEntry

CONSTANTS d1, c1, c2, noDoc

OneDoc == {d1}
OneCall == {c1}
TwoCalls == {c1, c2}
=============================================================================

------------------------------- MODULE MCAccess -------------------------------
\* A small instance of Access: an administrator and a member of staff, two
\* clients behind one address.
EXTENDS Access

CONSTANTS admin, staff, seed, other, short, c1, c2, office

MCAddressOf == [c \in Client |-> office]
=============================================================================

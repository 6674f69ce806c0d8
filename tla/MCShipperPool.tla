---------------------------- MODULE MCShipperPool ----------------------------
EXTENDS ShipperPool, TLC

\* Which shipper, subscription and service it is makes no difference.
Symmetry == Permutations(Shippers) \cup Permutations(Calls) \cup Permutations(Services)
\* An order value that takes a score below zero, and an unknown urgency.
QueryExtras == {-4, NaN}
=============================================================================

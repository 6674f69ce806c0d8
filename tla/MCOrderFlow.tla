---------------------------- MODULE MCOrderFlow ----------------------------
\* The instance of OrderFlow that TLC checks.  Orders do not share rows, so one
\* order with two shippers and two or three overlapping handlers holds every
\* interleaving of those handlers on that order.
EXTENDS OrderFlow, TLC

Symmetry == Permutations(Slots) \cup Permutations(Shippers)
=============================================================================

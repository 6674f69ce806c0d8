--------------------------- MODULE MCShipperStats ---------------------------
\* Orders, prices and counters of a shipper for model checking ShipperStats.
EXTENDS ShipperStats

\* A short ride of an order worth whole thousands, and a long one of an order
\* whose hundredth is not a whole number of dong.
MCTerms == [o \in {"o1", "o2"} |->
               IF o = "o1" THEN [fee |-> 15000, dist |-> 24, total |-> 150000]
                           ELSE [fee |-> 25000, dist |-> 61, total |-> 123450]]

\* A beginner; one delivery short of a level; one rejection short of each limit.
MCInitCounts == {<<0, 0>>, <<49, 11>>, <<0, 18>>, <<14, 34>>}
MCNoCounts == {<<0, 0>>}
=============================================================================

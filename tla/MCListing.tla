------------------------------ MODULE MCListing ------------------------------
(* One place near the client and one farther away; one row has neither a   *)
(* place nor a rank.                                                       *)
EXTENDS Listing

MCPlaces == [p \in Parents |-> IF p = "near" THEN 1 ELSE 2]

MCTable ==
    {[of |-> "near", group |-> "g1", status |-> "shown", text |-> TRUE, rank |-> 1],
     [of |-> "far", group |-> "g1", status |-> "hidden", text |-> TRUE, rank |-> 2],
     [of |-> NoParent, group |-> "g2", status |-> "shown", text |-> FALSE, rank |-> NoRank]}
=============================================================================

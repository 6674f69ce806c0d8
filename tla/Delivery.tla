------------------------------ MODULE Delivery ------------------------------
(***************************************************************************)
(* What the order and shipper services promise about who delivers an       *)
(* order, without their tables, handlers and awaits: an order is claimed   *)
(* at most once, only the claimant is told it is his, and the customer is  *)
(* shown "received by a shipper" only for a claimed order.                 *)
(***************************************************************************)
CONSTANTS Orders, Shippers, Nil

VARIABLES owner,    \* the shipper an order is claimed by, or Nil
          won,      \* the shippers told that the order is theirs
          received  \* the customer sees the order as received by a shipper

vars == <<owner, won, received>>

Init == /\ owner = [o \in Orders |-> Nil]
        /\ won = [o \in Orders |-> {}]
        /\ received = [o \in Orders |-> FALSE]

Claim(o, s) == /\ owner[o] = Nil
               /\ owner' = [owner EXCEPT ![o] = s]
               /\ UNCHANGED <<won, received>>

Tell(o, s) == /\ owner[o] = s
              /\ won' = [won EXCEPT ![o] = @ \cup {s}]
              /\ UNCHANGED <<owner, received>>

\* The status moves to "received" only for a claimed order, and away from it
\* at any time.
Show(o) == /\ received[o] \/ owner[o] # Nil
           /\ received' = [received EXCEPT ![o] = ~@]
           /\ UNCHANGED <<owner, won>>

Next == \E o \in Orders :
            Show(o) \/ \E s \in Shippers : Claim(o, s) \/ Tell(o, s)

Spec == Init /\ [][Next]_vars
=============================================================================

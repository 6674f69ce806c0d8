------------------------------ MODULE MCPricing ------------------------------
(* Small foods, carts, fee tables and promotions for Pricing.              *)
EXTENDS Pricing

\* At 99 cents the topping of 100 that a customer names is sold, that of 150 is not.
MCFoods ==
    {[price |-> 300, off |-> 0, topping |-> 99, sold |-> TRUE],
     [price |-> 300, off |-> 50, topping |-> 150, sold |-> TRUE],
     [price |-> 300, off |-> 0, topping |-> 99, sold |-> FALSE]}

MCCarts ==
    {[quantity |-> 1, topping |-> NotSent, off |-> NotSent, road |-> 2, air |-> 2],
     [quantity |-> 2, topping |-> 10000, off |-> 0, road |-> 4, air |-> 3],
     [quantity |-> 2, topping |-> 15000, off |-> 50, road |-> 2, air |-> 2],
     [quantity |-> 2, topping |-> 10000, off |-> 200, road |-> 2, air |-> 2]}

MCDefaults == [near |-> 1, base |-> 1, mid |-> 2, tier2 |-> 2, far |-> 3, max |-> 3]

MCFeeTables == {MCDefaults, [near |-> 1, base |-> 2, mid |-> 2, tier2 |-> 3, far |-> 4, max |-> 4]}

MCPromos ==
    {[type |-> "shipping", percent |-> 50, amount |-> 0, cap |-> 100, min |-> 200, active |-> TRUE]}
=============================================================================

---------------------------- MODULE MCFoodReviews ----------------------------
\* FoodReviews for model checking: customers and toppings are interchangeable.
EXTENDS FoodReviews, TLC

Symmetric == Permutations(Users) \cup Permutations(Toppings)
=============================================================================

---------------------------- MODULE FoodReviews ----------------------------
(***************************************************************************)
(* One food with its toppings and its reviews: ReviewService and the       *)
(* operations of FoodService that save a food or a topping.  The rating of *)
(* the food is stored with it and computed again after every change of a   *)
(* review.  Reading a food for its owner's update loads its toppings and   *)
(* the best of its reviews, and saving it saves both lists.                *)
(***************************************************************************)
EXTENDS Integers, FiniteSets, Functions

CONSTANTS Users,       \* customers
          Slots,       \* handlers that may be in progress at once
          Toppings,    \* topping ids
          Stars,       \* ratings given: whole numbers, or the row is not saved
          NoRating,    \* NULL
          NaN,         \* an average of no reviews
          TopReviews,  \* how many reviews are read with a food (3 in the code)
          BadReviews,  \* more reviews than this may hide a food (10 in the code)
          MaxReviews,  \* bound: reviews written
          MaxCalls,    \* bound: how many operations are asked for
          MaxCrashes   \* bound: how often the server process may stop

ASSUME ReviewsAssumption ==
    /\ Stars \subseteq Int /\ NoRating \notin Int /\ NaN \notin Int /\ NaN # NoRating
    /\ TopReviews \in Nat /\ BadReviews \in Nat /\ TopReviews <= BadReviews
    /\ MaxReviews \in Nat /\ MaxCalls \in Nat /\ MaxCrashes \in Nat

VARIABLES
    food,     \* status and rating (in hundredths) of the food
    review,   \* the rows of `reviews`, numbered as they were created
    top,      \* the rows of `toppings`
    slot,     \* the handlers in progress
    calls,    \* operations asked for so far
    overlap,  \* history: two handlers were in progress at once
    crashes   \* how often the server has stopped

reviewsVars == <<food, review, top, slot, calls, overlap, crashes>>

Reviews == 1..MaxReviews

\* What the column decimal(3,2) holds, in hundredths; all else is an error.
Ratings == {NoRating, NaN} \cup -999..999
Averages == {NoRating, NaN} \cup Int

Fits(rating) == rating \in Ratings

\* NULL is less than 1.5 in a comparison, NaN is not.
Low(rating) == IF rating = NoRating THEN TRUE ELSE rating # NaN /\ rating < 150
FoodStatus == {"available", "hidden", "unavailable"}

\* A row of reviews: "linked" to the food, "loose" when its food_id is NULL.
NoReview == [at |-> "none", by |-> "none", stars |-> 0]
Review == [at : {"none", "linked", "loose", "deleted"}, by : Users \cup {"none"}, stars : Int]
Topping == [at : {"none", "linked", "loose", "deleted"}, price : 0..1]

Stages == {"idle", "review_insert", "review_average", "review_hide", "review_rate",
           "edit_save", "delete_row", "food_save", "status_save", "topping_save"}

\* What a handler holds: the review or topping it is about and whether that
\* was linked to the food, the food's rating and status, the reviews and the
\* toppings (with prices) it was read with, toppings in the request, an average.
Idle == [pc |-> "idle", id |-> 0, topping |-> "none", was |-> "none", by |-> "none",
         stars |-> 0, price |-> 0, rating |-> 0, status |-> "available", seen |-> {},
         tops |-> {}, newTops |-> FALSE, average |-> NoRating]

MenuTypeOK ==
    /\ food \in [status : FoodStatus, rating : Ratings]
    /\ review \in [Reviews -> Review]
    /\ top \in [Toppings -> Topping]
    /\ \A k \in Slots : /\ slot[k].pc \in Stages /\ slot[k].seen \subseteq Reviews
                        /\ slot[k].rating \in Averages /\ slot[k].average \in Averages
    /\ calls \in 0..MaxCalls /\ overlap \in BOOLEAN /\ crashes \in 0..MaxCrashes

-----------------------------------------------------------------------------
Linked == {r \in Reviews : review[r].at = "linked"}
Total(rs) == SumFunctionOnSet([r \in Reviews |-> review[r].stars], rs)

\* Rounded to n-ths, a half upwards.
Rounded(a, b) == (2 * a + b) \div (2 * b)

Average_Truncated(rs) ==   \* a mutant
    (Total(rs) * 100) \div Cardinality(rs)

\* Math.round(average * 100) / 100, in hundredths.
Average(rs) == Rounded(Total(rs) * 100, Cardinality(rs))

\* Number(AVG(rating).toFixed(1)), in hundredths, a half away from zero; NULL
\* without reviews.
Shown(rs) ==
    IF rs = {} THEN NoRating
    ELSE IF Total(rs) >= 0 THEN 10 * Rounded(Total(rs) * 10, Cardinality(rs))
    ELSE -(10 * Rounded(-Total(rs) * 10, Cardinality(rs)))

\* ORDER BY rating DESC, createdAt DESC LIMIT TopReviews.
Better(r, s) == \/ review[r].stars > review[s].stars
                \/ review[r].stars = review[s].stars /\ r > s
Best(rs) == {r \in rs : Cardinality({s \in rs : Better(s, r)}) < TopReviews}

\* The rating of a new food and after each of its first reviews.
Opening(stars, n) == IF n = 0 THEN 0 ELSE Rounded(100 * SumFunctionOnSet(stars, 1..n), n)

ReviewsInit ==
    \E n \in 0..(BadReviews + 1) :
    \E who \in Injection(1..n, Users), stars \in [1..n -> Stars] :
        /\ review = [r \in Reviews |-> IF r > n THEN NoReview
                        ELSE [at |-> "linked", by |-> who[r], stars |-> stars[r]]]
        /\ \E m \in 0..n :   \* the last rating that fits
              /\ food = [status |-> "available", rating |-> Opening(stars, m)]
              /\ Fits(Opening(stars, m)) /\ \A l \in (m + 1)..n : ~Fits(Opening(stars, l))
        /\ top = [t \in Toppings |-> [at |-> "none", price |-> 0]]
        /\ slot = [k \in Slots |-> Idle]
        /\ calls = 0 /\ crashes = 0 /\ overlap = FALSE

-----------------------------------------------------------------------------
At(k, pc) == slot[k].pc = pc
Quiet == \A k \in Slots : At(k, "idle")

Call(others) == /\ calls < MaxCalls /\ calls' = calls + 1
                /\ overlap' = (overlap \/ \E j \in others : ~At(j, "idle"))

Begin(k, held) ==
    /\ At(k, "idle") /\ Call(Slots \ {k})
    /\ slot' = [slot EXCEPT ![k] = held]

Goto(k, pc) == slot' = [slot EXCEPT ![k].pc = pc]
End(k) == slot' = [slot EXCEPT ![k] = Idle]

Rate_Unchecked(rating) == food' = [food EXCEPT !.rating = rating]   \* a mutant

\* A rating that does not fit its column is refused: the update throws.
Rate(rating) == food' = [food EXCEPT !.rating = IF Fits(rating) THEN rating ELSE food.rating]

\* A saved list of reviews: those it does not name lose the food.
OnlyReviews(list) ==
    review' = [r \in Reviews |->
        IF review[r].at = "loose" /\ r \in list THEN [review[r] EXCEPT !.at = "linked"]
        ELSE IF review[r].at = "linked" /\ r \notin list THEN [review[r] EXCEPT !.at = "loose"]
        ELSE review[r]]

-----------------------------------------------------------------------------
(* createFoodReview.                                                       *)
\* The food is read with its reviews; one of them must not be the user's.
ReviewRead(k, u, stars) ==
    /\ \A r \in Linked : review[r].by # u
    /\ Begin(k, [Idle EXCEPT !.pc = "review_insert", !.by = u, !.stars = stars,
                             !.seen = Linked, !.rating = food.rating])
    /\ UNCHANGED <<food, review, top, crashes>>

ReviewInsert(k) ==
    /\ At(k, "review_insert")
    /\ \E r \in Reviews :
          /\ review[r].at = "none" /\ \A s \in 1..(r - 1) : review[s].at # "none"
          /\ review' = [review EXCEPT ![r] = [at |-> "linked", by |-> slot[k].by,
                                              stars |-> slot[k].stars]]
    /\ Goto(k, "review_average")
    /\ UNCHANGED <<food, top, calls, overlap, crashes>>

\* The average (of no reviews: not a number), and whether the food, as it was read, is bad.
ReviewAverage(k) ==
    LET bad == Cardinality(slot[k].seen) > BadReviews /\ Low(slot[k].rating) IN
    /\ At(k, "review_average")
    /\ slot' = [slot EXCEPT ![k].pc = IF bad THEN "review_hide" ELSE "review_rate",
                            ![k].average = IF Linked = {} THEN NaN ELSE Average(Linked)]
    /\ UNCHANGED <<food, review, top, calls, overlap, crashes>>

\* The food is saved as it was read, with its list of reviews: the new review
\* is not on it.
ReviewHide(k) ==
    /\ At(k, "review_hide")
    /\ food' = [status |-> "unavailable", rating |-> slot[k].rating]
    /\ OnlyReviews(slot[k].seen)
    /\ Goto(k, "review_rate")
    /\ UNCHANGED <<top, calls, overlap, crashes>>

ReviewRate(k) ==
    /\ At(k, "review_rate")
    /\ Rate(slot[k].average)
    /\ End(k)
    /\ UNCHANGED <<review, top, calls, overlap, crashes>>

-----------------------------------------------------------------------------
(* updateReview and deleteReview: anybody's, of any user.                  *)
EditRead(k, r, stars) ==
    /\ review[r].at \in {"linked", "loose"}
    /\ Begin(k, [Idle EXCEPT !.pc = "edit_save", !.id = r, !.by = review[r].by,
                             !.stars = stars, !.was = review[r].at])
    /\ UNCHANGED <<food, review, top, crashes>>

\* The review is saved whole, with the food it had, or inserted again.
EditSave(k) ==
    LET h == slot[k] IN
    /\ At(k, "edit_save")
    /\ review' = [review EXCEPT ![h.id] = [at |-> h.was, by |-> h.by, stars |-> h.stars]]
    /\ IF h.was = "linked" THEN slot' = [slot EXCEPT ![k].pc = "review_average",
                                                        ![k].seen = {}]
                              ELSE End(k)
    /\ UNCHANGED <<food, top, calls, overlap, crashes>>

DeleteRead(k, r) ==
    /\ review[r].at \in {"linked", "loose"}
    /\ Begin(k, [Idle EXCEPT !.pc = "delete_row", !.id = r, !.was = review[r].at])
    /\ UNCHANGED <<food, review, top, crashes>>

\* The remaining reviews are read after the deletion, in another statement;
\* nothing between the two is visible to other handlers but the deletion.
DeleteRow(k) ==
    LET h == slot[k]
        left == Linked \ {h.id}
    IN /\ At(k, "delete_row")
       /\ review' = [review EXCEPT ![h.id].at = "deleted"]
       /\ IF h.was = "linked"
            THEN slot' = [slot EXCEPT ![k].pc = "review_rate",
                                      ![k].average = IF left = {} THEN 0 ELSE Average(left)]
            ELSE End(k)
       /\ UNCHANGED <<food, top, calls, overlap, crashes>>

-----------------------------------------------------------------------------
(* The owner's updates of the food.                                        *)
LinkedTops == {t \in Toppings : top[t].at = "linked"}

FoodRead_NoReviews(k, status, newTops) ==   \* a mutant
    /\ Begin(k, [Idle EXCEPT !.pc = "food_save", !.status = status, !.rating = Shown(Linked),
                             !.seen = {},
                             !.tops = {<<t, top[t].price>> : t \in LinkedTops},
                             !.newTops = newTops])
    /\ UNCHANGED <<food, review, top, crashes>>

\* FoodService.update: findOne gives the shown rating, the best reviews and
\* the toppings.  Toppings in the request replace those of the food.
FoodRead(k, status, newTops) ==
    /\ Begin(k, [Idle EXCEPT !.pc = "food_save", !.status = status, !.rating = Shown(Linked),
                             !.seen = Best(Linked),
                             !.tops = {<<t, top[t].price>> : t \in LinkedTops},
                             !.newTops = newTops])
    /\ UNCHANGED <<food, review, top, crashes>>

\* The toppings of the food after it was saved with a list of them: by cascade
\* they are written as they were read, and inserted again if deleted.
SavedTops(list) ==
    [t \in Toppings |->
        IF \E p \in 0..1 : <<t, p>> \in list
          THEN [at |-> "linked", price |-> CHOOSE p \in 0..1 : <<t, p>> \in list]
        ELSE IF top[t].at = "linked" THEN [top[t] EXCEPT !.at = "loose"] ELSE top[t]]

NewTop == {t \in Toppings : top[t].at = "none"}

\* One transaction: it is rolled back when the shown rating does not fit.
FoodSave(k) ==
    LET h == slot[k] IN
    /\ At(k, "food_save")
    /\ \/ /\ Fits(h.rating)
          /\ food' = [status |-> h.status, rating |-> h.rating]
          /\ OnlyReviews(h.seen)
          /\ IF h.newTops THEN \E t \in NewTop : top' = SavedTops({<<t, 0>>})
                       ELSE top' = SavedTops(h.tops)
       \/ ~Fits(h.rating) /\ UNCHANGED <<food, review, top>>
    /\ End(k)
    /\ UNCHANGED <<calls, overlap, crashes>>

\* updateStatusIfOwner: the food without its reviews and toppings.
StatusRead(k, status) ==
    /\ Begin(k, [Idle EXCEPT !.pc = "status_save", !.status = status, !.rating = food.rating])
    /\ UNCHANGED <<food, review, top, crashes>>

StatusSave(k) ==
    /\ At(k, "status_save")
    /\ food' = [status |-> slot[k].status, rating |-> slot[k].rating]
    /\ End(k)
    /\ UNCHANGED <<review, top, calls, overlap, crashes>>

-----------------------------------------------------------------------------
(* Toppings.                                                               *)
AddTopping(t, price) ==
    /\ t \in NewTop /\ Call(Slots)
    /\ top' = [top EXCEPT ![t] = [at |-> "linked", price |-> price]]
    /\ UNCHANGED <<food, review, slot, crashes>>

ToppingRead(k, t, price) ==
    /\ top[t].at \in {"linked", "loose"}
    /\ Begin(k, [Idle EXCEPT !.pc = "topping_save", !.topping = t, !.price = price,
                             !.was = top[t].at])
    /\ UNCHANGED <<food, review, top, crashes>>

ToppingSave(k) ==
    /\ At(k, "topping_save")
    /\ top' = [top EXCEPT ![slot[k].topping] = [at |-> slot[k].was, price |-> slot[k].price]]
    /\ End(k)
    /\ UNCHANGED <<food, review, calls, overlap, crashes>>

RemoveTopping(t) ==
    /\ top[t].at \in {"linked", "loose"} /\ Call(Slots)
    /\ top' = [top EXCEPT ![t].at = "deleted"]
    /\ UNCHANGED <<food, review, slot, crashes>>

\* The server process stops and starts again.
Crash ==
    /\ crashes < MaxCrashes
    /\ crashes' = crashes + 1
    /\ slot' = [k \in Slots |-> Idle]
    /\ UNCHANGED <<food, review, top, calls, overlap>>

-----------------------------------------------------------------------------
Start(k) ==
    \/ \E u \in Users, s \in Stars : ReviewRead(k, u, s)
    \/ \E r \in Reviews : DeleteRead(k, r) \/ \E s \in Stars : EditRead(k, r, s)
    \/ \E status \in {"available", "hidden"} :
          StatusRead(k, status) \/ \E new \in BOOLEAN : FoodRead(k, status, new)
    \/ \E t \in Toppings, p \in 0..1 : ToppingRead(k, t, p)

Continue(k) ==
    \/ ReviewInsert(k) \/ ReviewAverage(k) \/ ReviewHide(k) \/ ReviewRate(k)
    \/ EditSave(k) \/ DeleteRow(k) \/ FoodSave(k) \/ StatusSave(k) \/ ToppingSave(k)

AtOnce ==
    \/ \E t \in Toppings, p \in 0..1 : AddTopping(t, p)
    \/ \E t \in Toppings : RemoveTopping(t)

ReviewsNext == (\E k \in Slots : Start(k) \/ Continue(k)) \/ AtOnce \/ Crash

ReviewsSpec == ReviewsInit /\ [][ReviewsNext]_reviewsVars

-----------------------------------------------------------------------------
\* The rating is the average of the reviews to half a step of hundredths.
Within(step, rating, rs) ==
    /\ rating \in Int
    /\ LET off == 2 * (rating * Cardinality(rs) - 100 * Total(rs))
       IN off <= step * Cardinality(rs) /\ -off <= step * Cardinality(rs)

\* The reviews average to 10 or -10, or beyond, at the step.
Beyond(step, rs) ==
    LET limit == (2000 - step) * Cardinality(rs)
    IN 200 * Total(rs) >= limit \/ -200 * Total(rs) >= limit

\* When a change of a review ends that no other handler overlapped, the stored
\* rating is the average of the reviews the food has, to a hundredth, whatever
\* was lost before; only an average that reaches 10 leaves it as it was.  So it
\* is, to a tenth, when the owner's update of the food ends and has lost none.
\* (The review that hides a bad food is lost itself.)
RatingFollowsReviews ==
    [][~overlap' /\ crashes' = crashes =>
         \A k \in Slots :
            /\ At(k, "review_rate") /\ slot'[k].pc = "idle" /\ Cardinality(slot[k].seen) <= BadReviews
                 => IF Linked = {} THEN food'.rating = 0
                    ELSE \/ Within(1, food'.rating, Linked)
                         \/ Beyond(1, Linked) /\ food' = food
            /\ At(k, "food_save") /\ slot'[k].pc = "idle" /\ review' = review /\ Linked # {}
                 => \/ Within(10, food'.rating, Linked)
                    \/ Beyond(10, Linked) /\ food' = food]_reviewsVars

\* Handlers that do not overlap lose no review of a food that has no more
\* reviews than are read with it.
FewReviewsKept ==
    [][~overlap' /\ Cardinality(Linked) <= TopReviews
         => \A r \in Linked : review'[r].at # "loose"]_reviewsVars
=============================================================================

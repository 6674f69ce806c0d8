---------------------------- MODULE BrowseProofs ----------------------------
(***************************************************************************)
(* What customers are shown.  FoodReviews for every set of customers,      *)
(* handlers and toppings and every number of reviews: the type invariant,  *)
(* that a food with few reviews keeps them, and that its rating is the     *)
(* average of its reviews.  Listing for every number of rows, whatever     *)
(* they hold, every size of pages and every number of writes: what a       *)
(* client that pages to the end has been given.                            *)
(***************************************************************************)
EXTENDS FoodReviews, Listing, SumTheorems, SequenceTheorems

-----------------------------------------------------------------------------
(***************************************************************************)
(* Averages: division to the nearest, and sums of stars.                   *)
(***************************************************************************)
LEMMA DivIs ==
  ASSUME NEW a \in Int, NEW b \in Nat \ {0}
  PROVE  a \div b \in Int /\ b * (a \div b) <= a /\ a < b * (a \div b) + b
  BY Z3

LEMMA RoundedIs ==
  ASSUME NEW a \in Int, NEW b \in Nat \ {0}
  PROVE  /\ Rounded(a, b) \in Int
         /\ 2 * (Rounded(a, b) * b) <= 2 * a + b
         /\ 2 * a + b < 2 * (Rounded(a, b) * b) + 2 * b
<1> DEFINE quot == Rounded(a, b)
<1>1. quot \in Int /\ (2 * b) * quot <= 2 * a + b /\ 2 * a + b < (2 * b) * quot + 2 * b
  <2>1. 2 * a + b \in Int /\ 2 * b \in Nat \ {0}
    OBVIOUS
  <2> QED BY <2>1, DivIs DEF Rounded
<1> HIDE DEF quot
<1>2. (2 * b) * quot = 2 * (quot * b)
  BY <1>1
<1> QED BY <1>1, <1>2 DEF quot

(* The nearest to a tenth or a hundredth, and what a number too large for   *)
(* the column says of the fraction.                                         *)
LEMMA NearestIs ==
  ASSUME NEW s \in Int, NEW n \in Nat \ {0}, NEW m \in {10, 100}
  PROVE  /\ Rounded(s * m, n) \in Int
         /\ 2 * (Rounded(s * m, n) * n - m * s) <= n
         /\ -(2 * (Rounded(s * m, n) * n - m * s)) <= n
         /\ Rounded(s * m, n) >= 10 * m => 2 * (m * s) >= (20 * m - 1) * n
         /\ Rounded(s * m, n) <= -(10 * m) => -(2 * (m * s)) >= (20 * m - 1) * n
<1> DEFINE a == s * m
           quot == Rounded(a, n)
           p == quot * n
           d == 10 * m
           dn == d * n
<1>1. a \in Int /\ d \in Nat /\ a = m * s
  OBVIOUS
<1>2. quot \in Int /\ 2 * p <= 2 * a + n /\ 2 * a + n < 2 * p + 2 * n
  <2> HIDE DEF a
  <2> QED BY <1>1, RoundedIs
<1>3. (20 * m - 1) * n = 2 * dn - n /\ dn \in Int
  OBVIOUS
<1> HIDE DEF a, quot, d
<1>4. p \in Int
  BY <1>2
<1>5. quot >= d => p >= dn
  <2> HIDE DEF p, dn
  <2> SUFFICES ASSUME quot >= d PROVE p >= dn
    OBVIOUS
  <2>1. (quot - d) * n >= 0
    BY <1>1, <1>2
  <2> QED BY <1>1, <1>2, <2>1 DEF p, dn
<1>6. quot <= -d => p <= -dn
  <2> SUFFICES ASSUME quot <= -d PROVE p <= -dn
    OBVIOUS
  <2>1. (quot + d) * n <= 0
    BY <1>1, <1>2
  <2> QED BY <1>1, <1>2, <2>1
<1> HIDE DEF p, dn
<1>7. /\ 2 * (p - a) <= n /\ -(2 * (p - a)) <= n
      /\ p >= dn => 2 * a >= 2 * dn - n
      /\ p <= -dn => -(2 * a) >= 2 * dn - n
  BY <1>1, <1>2, <1>3, <1>4
<1>8. quot = Rounded(s * m, n) /\ p = quot * n /\ d = 10 * m
  BY DEF quot, a, p, d
<1> QED BY <1>1, <1>2, <1>3, <1>5, <1>6, <1>7, <1>8

LEMMA BoundsTyped ==
  /\ TopReviews \in Nat /\ BadReviews \in Nat /\ TopReviews <= BadReviews
  /\ MaxReviews \in Nat /\ MaxCalls \in Nat /\ MaxCrashes \in Nat
  BY ReviewsAssumption

LEMMA StarsTyped == /\ \A s \in Stars : s \in Int
                    /\ NoRating \notin Int /\ NaN \notin Int /\ NaN # NoRating
  BY ReviewsAssumption

LEMMA ReviewsFinite == IsFiniteSet(Reviews) /\ \A rs \in SUBSET Reviews : IsFiniteSet(rs)
<1>1. IsFiniteSet(1..MaxReviews)
  BY BoundsTyped, FS_Interval
<1> QED BY <1>1, FS_Subset DEF Reviews

LEMMA CardinalityOf ==
  ASSUME NEW rs \in SUBSET Reviews
  PROVE  /\ Cardinality(rs) \in Nat
         /\ Cardinality(rs) = 0 <=> rs = {}
  BY ReviewsFinite, FS_CardinalityType, FS_EmptySet

LEMMA TotalTyped ==
  ASSUME review \in [Reviews -> Review], NEW rs \in SUBSET Reviews
  PROVE  Total(rs) \in Int
<1> DEFINE f == [r \in Reviews |-> review[r].stars]
<1>1. IsFiniteSet(rs) /\ \A r \in rs : f[r] \in Int
  BY ReviewsFinite DEF Review
<1>2. Total(rs) = SumFunctionOnSet(f, rs)
  BY DEF Total
<1> HIDE DEF f
<1> QED BY <1>1, <1>2, SumInt

(* What fits the column is below ten, either way.                           *)
LEMMA TooLarge ==
  ASSUME NEW x \in Int, ~Fits(x)
  PROVE  x >= 1000 \/ x <= -1000
  BY DEF Fits, Ratings

LEMMA AverageIs ==
  ASSUME review \in [Reviews -> Review], NEW rs \in SUBSET Reviews, rs # {}
  PROVE  /\ Average(rs) \in Int /\ Within(1, Average(rs), rs)
         /\ ~Fits(Average(rs)) => Beyond(1, rs)
<1> DEFINE n == Cardinality(rs)
           t == Total(rs)
           quot == Average(rs)
<1>1. n \in Nat \ {0} /\ t \in Int
  BY CardinalityOf, TotalTyped
<1>2. quot = Rounded(t * 100, n)
  BY DEF Average
<1> HIDE DEF n, t, quot
<1>3. /\ quot \in Int
      /\ 2 * (quot * n - 100 * t) <= n
      /\ -(2 * (quot * n - 100 * t)) <= n
      /\ quot >= 1000 => 2 * (100 * t) >= 1999 * n
      /\ quot <= -1000 => -(2 * (100 * t)) >= 1999 * n
  BY <1>1, <1>2, NearestIs
<1>4. Within(1, quot, rs)
  BY <1>1, <1>3 DEF Within, n, t
<1>5. ~Fits(quot) => Beyond(1, rs)
  <2> SUFFICES ASSUME ~Fits(quot) PROVE Beyond(1, rs)
    OBVIOUS
  <2>1. quot >= 1000 \/ quot <= -1000
    BY <1>3, TooLarge
  <2>2. 200 * t >= 1999 * n \/ -200 * t >= 1999 * n
    BY <1>1, <1>3, <2>1
  <2> QED BY <1>1, <2>2 DEF Beyond, n, t
<1> QED BY <1>3, <1>4, <1>5 DEF quot

LEMMA ShownIs ==
  ASSUME review \in [Reviews -> Review], NEW rs \in SUBSET Reviews, rs # {}
  PROVE  /\ Shown(rs) \in Int /\ Within(10, Shown(rs), rs)
         /\ ~Fits(Shown(rs)) => Beyond(10, rs)
<1> DEFINE n == Cardinality(rs)
           t == Total(rs)
<1>1. n \in Nat \ {0} /\ t \in Int
  BY CardinalityOf, TotalTyped
<1>2. PICK s \in Int : /\ s = t \/ s = -t
                       /\ t >= 0 => s = t
                       /\ ~(t >= 0) => s = -t
  BY <1>1
<1> DEFINE w == Rounded(s * 10, n)
<1>3. Shown(rs) = IF t >= 0 THEN 10 * w ELSE -(10 * w)
  <2>1. t >= 0 => Rounded(t * 10, n) = w
    BY <1>2
  <2>2. ~(t >= 0) => Rounded(-t * 10, n) = w
    <3> SUFFICES ASSUME ~(t >= 0) PROVE Rounded(-t * 10, n) = w
      OBVIOUS
    <3>1. -t = s
      BY <1>2
    <3>2. -t * 10 = s * 10
      BY <1>1, <3>1
    <3> QED BY <3>2
  <2>3. Shown(rs) = IF t >= 0 THEN 10 * Rounded(t * 10, n) ELSE -(10 * Rounded(-t * 10, n))
    BY DEF Shown
  <2> QED BY <2>1, <2>2, <2>3
<1> HIDE DEF n, t, w
<1>4. /\ w \in Int
      /\ 2 * (w * n - 10 * s) <= n
      /\ -(2 * (w * n - 10 * s)) <= n
      /\ w >= 100 => 2 * (10 * s) >= 199 * n
      /\ w <= -100 => -(2 * (10 * s)) >= 199 * n
  BY <1>1, NearestIs DEF w
<1> PICK z : z = Shown(rs)
  OBVIOUS
<1>5. z \in Int /\ (t >= 0 => z = 10 * w) /\ (~(t >= 0) => z = -(10 * w))
  BY <1>3, <1>4
<1> DEFINE p == w * n
<1>6. p \in Int /\ (t >= 0 => z * n = 10 * p) /\ (~(t >= 0) => z * n = -(10 * p))
  BY <1>1, <1>4, <1>5
<1>7. 2 * (z * n - 100 * t) <= 10 * n /\ -(2 * (z * n - 100 * t)) <= 10 * n
  <2>1. 2 * (p - 10 * s) <= n /\ -(2 * (p - 10 * s)) <= n
    BY <1>4
  <2> HIDE DEF p
  <2> DEFINE y == z * n
  <2>2. (t >= 0 => y = 10 * p) /\ (~(t >= 0) => y = -(10 * p))
    BY <1>6
  <2> HIDE DEF y
  <2>3. 2 * (y - 100 * t) <= 10 * n /\ -(2 * (y - 100 * t)) <= 10 * n
    BY <1>1, <1>2, <1>6, <2>1, <2>2
  <2> QED BY <2>3 DEF y
<1>8. Within(10, z, rs)
  BY <1>1, <1>5, <1>7 DEF Within, n, t
<1>9. ~Fits(z) => Beyond(10, rs)
  <2> SUFFICES ASSUME ~Fits(z) PROVE Beyond(10, rs)
    OBVIOUS
  <2>1. z >= 1000 \/ z <= -1000
    BY <1>5, TooLarge
  <2>2. w >= 100 \/ w <= -100
    BY <1>1, <1>4, <1>5, <2>1
  <2>3. 20 * s >= 199 * n \/ -(20 * s) >= 199 * n
    BY <1>1, <1>4, <2>2
  <2>4. 200 * t >= 1990 * n \/ -200 * t >= 1990 * n
    BY <1>1, <1>2, <2>3
  <2> QED BY <1>1, <2>4 DEF Beyond, n, t
<1> QED BY <1>5, <1>8, <1>9

LEMMA RatingsTyped ==
  ASSUME review \in [Reviews -> Review], NEW rs \in SUBSET Reviews
  PROVE  /\ Shown(rs) \in Averages
         /\ (IF rs = {} THEN NaN ELSE Average(rs)) \in Averages
         /\ (IF rs = {} THEN 0 ELSE Average(rs)) \in Averages
<1>1. CASE rs = {}
  BY <1>1 DEF Shown, Averages
<1>2. CASE rs # {}
  BY <1>2, AverageIs, ShownIs DEF Averages
<1> QED BY <1>1, <1>2

LEMMA RatingsAre == Ratings \subseteq Averages /\ \A x \in Averages : Fits(x) <=> x \in Ratings
  BY DEF Ratings, Averages, Fits

-----------------------------------------------------------------------------
(***************************************************************************)
(* The types, by the state they are about, and what a handler refers to.   *)
(***************************************************************************)
FoodRow == [status : FoodStatus, rating : Ratings]

Held == [pc : Stages, id : Nat, topping : Toppings \cup {"none"},
         was : {"none", "linked", "loose"}, by : Users \cup {"none"}, stars : Int,
         price : 0..1, rating : Averages, status : FoodStatus, seen : SUBSET Reviews,
         tops : SUBSET (Toppings \X (0..1)), newTops : BOOLEAN, average : Averages]

Refers(h) ==
    /\ h.pc \in {"edit_save", "delete_row"} => h.id \in Reviews
    /\ h.pc = "topping_save" => h.topping \in Toppings
    /\ h.pc \in {"edit_save", "delete_row", "topping_save"} => h.was # "none"
    /\ h.pc # "food_save" => h.rating \in Ratings

RowsTyped ==
    /\ food \in FoodRow /\ review \in [Reviews -> Review] /\ top \in [Toppings -> Topping]

SlotsTyped == /\ slot \in [Slots -> Held] /\ \A k \in Slots : Refers(slot[k])

CountsTyped == calls \in 0..MaxCalls /\ overlap \in BOOLEAN /\ crashes \in 0..MaxCrashes

MenuTyped == RowsTyped /\ SlotsTyped /\ CountsTyped

LEMMA IdleHeld == Idle \in Held /\ Refers(Idle) /\ Idle.pc = "idle"
  BY DEF Idle, Held, Refers, Stages, FoodStatus, Ratings, Averages

LEMMA MenuTypedImplies == MenuTyped => MenuTypeOK
  BY DEF MenuTyped, RowsTyped, SlotsTyped, CountsTyped, MenuTypeOK, FoodRow, Held

LEMMA MenuInit == ReviewsInit => MenuTyped
<1> SUFFICES ASSUME ReviewsInit PROVE MenuTyped
  OBVIOUS
<1>1. PICK n \in 0..(BadReviews + 1) :
      \E who \in Injection(1..n, Users), stars \in [1..n -> Stars] :
        /\ review = [r \in Reviews |-> IF r > n THEN NoReview
                        ELSE [at |-> "linked", by |-> who[r], stars |-> stars[r]]]
        /\ \E m \in 0..n :
              /\ food = [status |-> "available", rating |-> Opening(stars, m)]
              /\ Fits(Opening(stars, m)) /\ \A l \in (m + 1)..n : ~Fits(Opening(stars, l))
        /\ top = [t \in Toppings |-> [at |-> "none", price |-> 0]]
        /\ slot = [k \in Slots |-> Idle]
        /\ calls = 0 /\ crashes = 0 /\ overlap = FALSE
  BY DEF ReviewsInit
<1>2. PICK who \in Injection(1..n, Users), stars \in [1..n -> Stars] :
        /\ review = [r \in Reviews |-> IF r > n THEN NoReview
                        ELSE [at |-> "linked", by |-> who[r], stars |-> stars[r]]]
        /\ \E m \in 0..n :
              /\ food = [status |-> "available", rating |-> Opening(stars, m)]
              /\ Fits(Opening(stars, m)) /\ \A l \in (m + 1)..n : ~Fits(Opening(stars, l))
        /\ top = [t \in Toppings |-> [at |-> "none", price |-> 0]]
        /\ slot = [k \in Slots |-> Idle]
        /\ calls = 0 /\ crashes = 0 /\ overlap = FALSE
  BY <1>1
<1>3. n \in Nat /\ who \in [1..n -> Users]
  BY BoundsTyped DEF Injection
<1>4. \A r \in 1..n : stars[r] \in Int
  BY StarsTyped
<1>5. review \in [Reviews -> Review]
  <2> SUFFICES ASSUME NEW r \in Reviews PROVE review[r] \in Review
    BY <1>2
  <2>1. CASE r > n
    BY <1>2, <2>1 DEF Review, NoReview
  <2>2. CASE ~(r > n)
    <3>1. r \in 1..n
      BY <1>3, <2>2, BoundsTyped DEF Reviews
    <3>2. stars[r] \in Int /\ who[r] \in Users
      BY <3>1, <1>3, <1>4
    <3> QED BY <1>2, <2>2, <3>2 DEF Review
  <2> QED BY <2>1, <2>2
<1>6. food \in FoodRow
  BY <1>2 DEF FoodRow, FoodStatus, Fits
<1>7. top \in [Toppings -> Topping]
  BY <1>2 DEF Topping
<1>8. SlotsTyped
  BY <1>2, IdleHeld DEF SlotsTyped
<1>9. CountsTyped
  <2>1. calls = 0 /\ crashes = 0 /\ 0 \in 0..MaxCalls /\ 0 \in 0..MaxCrashes
    BY <1>2, BoundsTyped
  <2>2. overlap \in BOOLEAN
    BY <1>2
  <2> QED BY <2>1, <2>2 DEF CountsTyped
<1> QED BY <1>5, <1>6, <1>7, <1>8, <1>9 DEF MenuTyped, RowsTyped

-----------------------------------------------------------------------------
(***************************************************************************)
(* What the writes keep: a handler's record, a list of reviews, a list of  *)
(* toppings.                                                               *)
(***************************************************************************)
LEMMA SlotTyped ==
  ASSUME SlotsTyped, NEW k \in Slots, NEW h \in Held, Refers(h), slot' = [slot EXCEPT ![k] = h]
  PROVE  SlotsTyped'
<1>1. slot' \in [Slots -> Held]
  BY DEF SlotsTyped
<1>2. \A j \in Slots : Refers(slot'[j])
  <2> SUFFICES ASSUME NEW j \in Slots PROVE Refers(slot'[j])
    OBVIOUS
  <2>1. CASE j = k
    BY <2>1 DEF SlotsTyped
  <2>2. CASE j # k
    BY <2>2 DEF SlotsTyped
  <2> QED BY <2>1, <2>2
<1> QED BY <1>1, <1>2 DEF SlotsTyped, Refers

LEMMA EndTyped ==
  ASSUME SlotsTyped, NEW k \in Slots, End(k)
  PROVE  SlotsTyped'
  BY SlotTyped, IdleHeld DEF End

LEMMA GotoTyped ==
  ASSUME SlotsTyped, NEW k \in Slots, ~At(k, "food_save"),
         NEW next \in Stages \ {"edit_save", "delete_row", "topping_save"}, Goto(k, next)
  PROVE  SlotsTyped'
<1> DEFINE h == [slot[k] EXCEPT !.pc = next]
<1>1. h \in Held
  BY DEF SlotsTyped, Held
<1>2. Refers(h)
  BY <1>1 DEF Refers, SlotsTyped, Held, At
<1>3. slot' = [slot EXCEPT ![k] = h]
  BY DEF Goto
<1> HIDE DEF h
<1> QED BY <1>1, <1>2, <1>3, SlotTyped

LEMMA BeginTyped ==
  ASSUME SlotsTyped, CountsTyped, NEW k \in Slots, NEW h \in Held, Refers(h), Begin(k, h),
         UNCHANGED crashes
  PROVE  SlotsTyped' /\ CountsTyped'
<1>1. SlotsTyped'
  BY SlotTyped DEF Begin
<1>2. calls' \in 0..MaxCalls
  BY BoundsTyped DEF Begin, Call, CountsTyped
<1>3. overlap' \in BOOLEAN
  BY DEF Begin, Call, CountsTyped
<1>4. crashes' \in 0..MaxCrashes
  BY DEF CountsTyped
<1> QED BY <1>1, <1>2, <1>3, <1>4 DEF CountsTyped

LEMMA CountsKept ==
  ASSUME CountsTyped, UNCHANGED <<calls, overlap, crashes>>
  PROVE  CountsTyped'
  BY DEF CountsTyped

LEMMA OnlyReviewsTyped ==
  ASSUME review \in [Reviews -> Review], NEW list, OnlyReviews(list)
  PROVE  review' \in [Reviews -> Review]
<1> SUFFICES ASSUME NEW r \in Reviews PROVE review'[r] \in Review
  BY DEF OnlyReviews
<1> QED BY DEF OnlyReviews, Review

LEMMA SavedTopsTyped ==
  ASSUME top \in [Toppings -> Topping], NEW list
  PROVE  SavedTops(list) \in [Toppings -> Topping]
<1> SUFFICES ASSUME NEW t \in Toppings PROVE SavedTops(list)[t] \in Topping
  BY DEF SavedTops
<1>1. CASE \E p \in 0..1 : <<t, p>> \in list
  <2> DEFINE price == CHOOSE p \in 0..1 : <<t, p>> \in list
  <2>1. price \in 0..1
    BY <1>1
  <2>2. SavedTops(list)[t] = [at |-> "linked", price |-> price]
    BY <1>1 DEF SavedTops
  <2> HIDE DEF price
  <2> QED BY <2>1, <2>2 DEF Topping
<1>2. CASE ~\E p \in 0..1 : <<t, p>> \in list
  BY <1>2 DEF SavedTops, Topping
<1> QED BY <1>1, <1>2

LEMMA LinkedReviews == Linked \in SUBSET Reviews /\ Best(Linked) \in SUBSET Reviews
  BY DEF Linked, Best

-----------------------------------------------------------------------------
(***************************************************************************)
(* The types are kept, action by action.                                   *)
(***************************************************************************)
LEMMA StartTyped ==
  ASSUME MenuTyped, NEW k \in Slots, Start(k)
  PROVE  MenuTyped'
<1> USE DEF MenuTyped
<1>1. ASSUME NEW u \in Users, NEW s \in Stars, ReviewRead(k, u, s)
      PROVE  MenuTyped'
  <2> PICK h : h = [Idle EXCEPT !.pc = "review_insert", !.by = u, !.stars = s,
                                !.seen = Linked, !.rating = food.rating]
    OBVIOUS
  <2>1. food.rating \in Ratings /\ food.rating \in Averages
    BY RatingsAre DEF RowsTyped, FoodRow
  <2>2. h \in Held /\ Refers(h)
    BY <2>1, IdleHeld, LinkedReviews, StarsTyped DEF Held, Refers, Stages
  <2>3. Begin(k, h) /\ UNCHANGED <<food, review, top, crashes>>
    BY <1>1 DEF ReviewRead
  <2> QED BY <2>2, <2>3, BeginTyped DEF RowsTyped
<1>2. ASSUME NEW r \in Reviews, DeleteRead(k, r)
      PROVE  MenuTyped'
  <2> PICK h : h = [Idle EXCEPT !.pc = "delete_row", !.id = r, !.was = review[r].at]
    OBVIOUS
  <2>1. review[r].at \in {"linked", "loose"} /\ r \in Nat
    BY <1>2, BoundsTyped DEF DeleteRead, Reviews
  <2>2. h \in Held /\ Refers(h)
    BY <2>1, IdleHeld DEF Held, Refers, Stages
  <2>3. Begin(k, h) /\ UNCHANGED <<food, review, top, crashes>>
    BY <1>2 DEF DeleteRead
  <2> QED BY <2>2, <2>3, BeginTyped DEF RowsTyped
<1>3. ASSUME NEW r \in Reviews, NEW s \in Stars, EditRead(k, r, s)
      PROVE  MenuTyped'
  <2> PICK h : h = [Idle EXCEPT !.pc = "edit_save", !.id = r, !.by = review[r].by,
                                !.stars = s, !.was = review[r].at]
    OBVIOUS
  <2>1. review[r].at \in {"linked", "loose"} /\ r \in Nat
    BY <1>3, BoundsTyped DEF EditRead, Reviews
  <2>2. review[r].by \in Users \cup {"none"}
    BY DEF RowsTyped, Review
  <2>3. h \in Held /\ Refers(h)
    BY <2>1, <2>2, IdleHeld, StarsTyped DEF Held, Refers, Stages
  <2>4. Begin(k, h) /\ UNCHANGED <<food, review, top, crashes>>
    BY <1>3 DEF EditRead
  <2> QED BY <2>3, <2>4, BeginTyped DEF RowsTyped
<1>4. ASSUME NEW status \in {"available", "hidden"}, StatusRead(k, status)
      PROVE  MenuTyped'
  <2> PICK h : h = [Idle EXCEPT !.pc = "status_save", !.status = status, !.rating = food.rating]
    OBVIOUS
  <2>1. food.rating \in Ratings /\ food.rating \in Averages
    BY RatingsAre DEF RowsTyped, FoodRow
  <2>2. h \in Held /\ Refers(h)
    BY <2>1, IdleHeld DEF Held, Refers, Stages, FoodStatus
  <2>3. Begin(k, h) /\ UNCHANGED <<food, review, top, crashes>>
    BY <1>4 DEF StatusRead
  <2> QED BY <2>2, <2>3, BeginTyped DEF RowsTyped
<1>5. ASSUME NEW status \in {"available", "hidden"}, NEW new \in BOOLEAN,
             FoodRead(k, status, new)
      PROVE  MenuTyped'
  <2> PICK h : h = [Idle EXCEPT !.pc = "food_save", !.status = status,
                                !.rating = Shown(Linked), !.seen = Best(Linked),
                                !.tops = {<<t, top[t].price>> : t \in LinkedTops},
                                !.newTops = new]
    OBVIOUS
  <2>1. Shown(Linked) \in Averages
    BY LinkedReviews, RatingsTyped DEF RowsTyped
  <2>2. {<<t, top[t].price>> : t \in LinkedTops} \in SUBSET (Toppings \X (0..1))
    <3>1. \A t \in LinkedTops : t \in Toppings /\ top[t].price \in 0..1
      BY DEF LinkedTops, RowsTyped, Topping
    <3> QED BY <3>1
  <2>3. h \in Held
    BY <2>1, <2>2, IdleHeld, LinkedReviews DEF Held, Stages, FoodStatus
  <2>4. h.pc = "food_save"
    BY IdleHeld DEF Held
  <2>5. Refers(h)
    BY <2>4 DEF Refers
  <2>6. Begin(k, h) /\ UNCHANGED <<food, review, top, crashes>>
    BY <1>5 DEF FoodRead
  <2> QED BY <2>3, <2>5, <2>6, BeginTyped DEF RowsTyped
<1>6. ASSUME NEW t \in Toppings, NEW p \in 0..1, ToppingRead(k, t, p)
      PROVE  MenuTyped'
  <2> PICK h : h = [Idle EXCEPT !.pc = "topping_save", !.topping = t, !.price = p,
                                !.was = top[t].at]
    OBVIOUS
  <2>1. top[t].at \in {"linked", "loose"}
    BY <1>6 DEF ToppingRead
  <2>2. h \in Held /\ Refers(h)
    BY <2>1, IdleHeld DEF Held, Refers, Stages
  <2>3. Begin(k, h) /\ UNCHANGED <<food, review, top, crashes>>
    BY <1>6 DEF ToppingRead
  <2> QED BY <2>2, <2>3, BeginTyped DEF RowsTyped
<1> QED BY <1>1, <1>2, <1>3, <1>4, <1>5, <1>6 DEF Start

LEMMA ContinueTyped ==
  ASSUME MenuTyped, NEW k \in Slots, Continue(k)
  PROVE  MenuTyped'
<1> USE DEF MenuTyped
<1> DEFINE h == slot[k]
<1>0. h \in Held /\ Refers(h)
  BY DEF SlotsTyped
<1>1. CASE ReviewInsert(k)
  <2>1. SlotsTyped'
    BY <1>1, GotoTyped DEF ReviewInsert, Stages, At
  <2>2. PICK r \in Reviews :
          review' = [review EXCEPT ![r] = [at |-> "linked", by |-> h.by, stars |-> h.stars]]
    BY <1>1 DEF ReviewInsert
  <2>3. [at |-> "linked", by |-> h.by, stars |-> h.stars] \in Review
    BY <1>0 DEF Held, Review
  <2>4. RowsTyped'
    BY <1>1, <2>2, <2>3 DEF RowsTyped, ReviewInsert
  <2> QED BY <1>1, <2>1, <2>4, CountsKept DEF ReviewInsert
<1>2. CASE ReviewAverage(k)
  <2> PICK bad : bad = (Cardinality(slot[k].seen) > BadReviews /\ Low(slot[k].rating))
    OBVIOUS
  <2> PICK average : average = IF Linked = {} THEN NaN ELSE Average(Linked)
    OBVIOUS
  <2> PICK next : next = IF bad THEN "review_hide" ELSE "review_rate"
    OBVIOUS
  <2>1. average \in Averages
    BY LinkedReviews, RatingsTyped DEF RowsTyped
  <2>2. next \in {"review_hide", "review_rate"}
    OBVIOUS
  <2> PICK new : new = [h EXCEPT !.pc = next, !.average = average]
    OBVIOUS
  <2>3. new \in Held
    BY <1>0, <2>1, <2>2 DEF Held, Stages
  <2>4. Refers(new)
    BY <1>0, <1>2, <2>2 DEF Refers, Held, ReviewAverage, At
  <2>5. slot' = [slot EXCEPT ![k] = new]
    BY <1>2 DEF ReviewAverage
  <2>6. SlotsTyped'
    BY <2>3, <2>4, <2>5, SlotTyped
  <2> QED BY <1>2, <2>6, CountsKept DEF ReviewAverage, RowsTyped
<1>3. CASE ReviewHide(k)
  <2>1. SlotsTyped'
    BY <1>3, GotoTyped DEF ReviewHide, Stages, At
  <2>2. review' \in [Reviews -> Review]
    BY <1>3, OnlyReviewsTyped DEF ReviewHide, RowsTyped
  <2>3. food' \in FoodRow
    BY <1>0, <1>3 DEF ReviewHide, FoodRow, Held, FoodStatus, Refers, At
  <2> QED BY <1>3, <2>1, <2>2, <2>3, CountsKept DEF ReviewHide, RowsTyped
<1>4. CASE ReviewRate(k)
  <2>1. SlotsTyped'
    BY <1>4, EndTyped DEF ReviewRate
  <2>2. food' \in FoodRow
    <3>1. food' = [food EXCEPT !.rating = food'.rating] /\ food'.rating \in Ratings
      BY <1>4 DEF ReviewRate, Rate, FoodRow, RowsTyped, Fits
    <3> QED BY <3>1 DEF FoodRow, RowsTyped
  <2> QED BY <1>4, <2>1, <2>2, CountsKept DEF ReviewRate, RowsTyped
<1>5. CASE EditSave(k)
  <2>1. review' = [review EXCEPT ![h.id] = [at |-> h.was, by |-> h.by, stars |-> h.stars]]
    BY <1>5 DEF EditSave
  <2>2. [at |-> h.was, by |-> h.by, stars |-> h.stars] \in Review
    BY <1>0 DEF Held, Review
  <2>3. RowsTyped'
    BY <1>5, <2>1, <2>2 DEF EditSave, RowsTyped
  <2>4. CASE h.was = "linked"
    <3> PICK new : new = [h EXCEPT !.pc = "review_average", !.seen = {}]
      OBVIOUS
    <3>1. new \in Held /\ Refers(new)
      BY <1>0, <1>5 DEF Held, Stages, Refers, EditSave, At
    <3>2. slot' = [slot EXCEPT ![k] = new]
      BY <1>5, <2>4 DEF EditSave
    <3>3. SlotsTyped'
      BY <3>1, <3>2, SlotTyped
    <3> QED BY <1>5, <2>3, <3>3, CountsKept DEF EditSave
  <2>5. CASE h.was # "linked"
    <3>1. SlotsTyped'
      BY <1>5, <2>5, EndTyped DEF EditSave
    <3> QED BY <1>5, <2>3, <3>1, CountsKept DEF EditSave
  <2> QED BY <2>4, <2>5
<1>6. CASE DeleteRow(k)
  <2>1. review' = [review EXCEPT ![h.id].at = "deleted"]
    BY <1>6 DEF DeleteRow
  <2>2. RowsTyped'
    <3>1. review' \in [Reviews -> Review]
      BY <2>1 DEF RowsTyped, Review
    <3> QED BY <1>6, <3>1 DEF DeleteRow, RowsTyped
  <2>3. CASE h.was = "linked"
    <3> PICK average : average = IF Linked \ {h.id} = {} THEN 0 ELSE Average(Linked \ {h.id})
      OBVIOUS
    <3>1. average \in Averages
      BY LinkedReviews, RatingsTyped DEF RowsTyped
    <3> PICK new : new = [h EXCEPT !.pc = "review_rate", !.average = average]
      OBVIOUS
    <3>2. new \in Held /\ Refers(new)
      BY <1>0, <1>6, <3>1 DEF Held, Stages, Refers, DeleteRow, At
    <3>3. slot' = [slot EXCEPT ![k] = new]
      BY <1>6, <2>3 DEF DeleteRow
    <3>4. SlotsTyped'
      BY <3>2, <3>3, SlotTyped
    <3> QED BY <1>6, <2>2, <3>4, CountsKept DEF DeleteRow
  <2>4. CASE h.was # "linked"
    <3>1. SlotsTyped'
      BY <1>6, <2>4, EndTyped DEF DeleteRow
    <3> QED BY <1>6, <2>2, <3>1, CountsKept DEF DeleteRow
  <2> QED BY <2>3, <2>4
<1>7. CASE FoodSave(k)
  <2>1. SlotsTyped'
    BY <1>7, EndTyped DEF FoodSave
  <2>2. CASE ~Fits(h.rating)
    BY <1>7, <2>1, <2>2, CountsKept DEF FoodSave, RowsTyped
  <2>3. CASE Fits(h.rating)
    <3>1. review' \in [Reviews -> Review]
      BY <1>7, <2>3, OnlyReviewsTyped DEF FoodSave, RowsTyped
    <3>2. food' \in FoodRow
      BY <1>0, <1>7, <2>3 DEF FoodSave, FoodRow, Held, Fits
    <3>3. \E list : top' = SavedTops(list)
      BY <1>7, <2>3 DEF FoodSave
    <3>4. top' \in [Toppings -> Topping]
      BY <3>3, SavedTopsTyped DEF RowsTyped
    <3> QED BY <1>7, <2>1, <3>1, <3>2, <3>4, CountsKept DEF FoodSave, RowsTyped
  <2> QED BY <2>2, <2>3
<1>8. CASE StatusSave(k)
  <2>1. SlotsTyped'
    BY <1>8, EndTyped DEF StatusSave
  <2>2. food' \in FoodRow
    BY <1>0, <1>8 DEF StatusSave, FoodRow, Held, Refers, At
  <2> QED BY <1>8, <2>1, <2>2, CountsKept DEF StatusSave, RowsTyped
<1>9. CASE ToppingSave(k)
  <2>1. SlotsTyped'
    BY <1>9, EndTyped DEF ToppingSave
  <2>2. [at |-> h.was, price |-> h.price] \in Topping
    BY <1>0 DEF Held, Topping
  <2>3. RowsTyped'
    BY <1>9, <2>2 DEF ToppingSave, RowsTyped
  <2> QED BY <1>9, <2>1, <2>3, CountsKept DEF ToppingSave
<1> QED BY <1>1, <1>2, <1>3, <1>4, <1>5, <1>6, <1>7, <1>8, <1>9 DEF Continue

LEMMA CallTyped ==
  ASSUME CountsTyped, NEW others, Call(others), UNCHANGED crashes
  PROVE  CountsTyped'
<1>1. calls' \in 0..MaxCalls
  BY BoundsTyped DEF Call, CountsTyped
<1>2. overlap' \in BOOLEAN
  BY DEF Call, CountsTyped
<1> QED BY <1>1, <1>2 DEF CountsTyped

LEMMA OthersTyped ==
  ASSUME MenuTyped, AtOnce \/ Crash \/ UNCHANGED reviewsVars
  PROVE  MenuTyped'
<1> USE DEF MenuTyped
<1>1. ASSUME NEW t \in Toppings, NEW p \in 0..1, AddTopping(t, p)
      PROVE  MenuTyped'
  <2>1. RowsTyped'
    BY <1>1 DEF AddTopping, RowsTyped, Topping
  <2>2. SlotsTyped'
    BY <1>1 DEF AddTopping, SlotsTyped, Refers
  <2> QED BY <1>1, <2>1, <2>2, CallTyped DEF AddTopping
<1>2. ASSUME NEW t \in Toppings, RemoveTopping(t)
      PROVE  MenuTyped'
  <2>1. RowsTyped'
    BY <1>2 DEF RemoveTopping, RowsTyped, Topping
  <2>2. SlotsTyped'
    BY <1>2 DEF RemoveTopping, SlotsTyped, Refers
  <2> QED BY <1>2, <2>1, <2>2, CallTyped DEF RemoveTopping
<1>3. CASE Crash
  <2>1. SlotsTyped'
    BY <1>3, IdleHeld DEF Crash, SlotsTyped, Refers
  <2>2. CountsTyped'
    BY <1>3, BoundsTyped DEF Crash, CountsTyped
  <2> QED BY <1>3, <2>1, <2>2 DEF Crash, RowsTyped
<1>4. CASE UNCHANGED reviewsVars
  BY <1>4 DEF reviewsVars, RowsTyped, SlotsTyped, CountsTyped, Refers
<1> QED BY <1>1, <1>2, <1>3, <1>4 DEF AtOnce

LEMMA MenuNext == MenuTyped /\ [ReviewsNext]_reviewsVars => MenuTyped'
  BY StartTyped, ContinueTyped, OthersTyped DEF ReviewsNext

(* In every reachable state food, reviews, toppings and handlers have their *)
(* types, whatever whole numbers the stars are: the rating of the food is   *)
(* always one its column holds, because a larger average, and a larger      *)
(* shown rating, is refused by the save that carries it (the updates of     *)
(* ReviewService and the save of FoodService.update).                       *)
THEOREM MenuTypeCorrect == ReviewsSpec => []MenuTypeOK
<1>1. ReviewsSpec => []MenuTyped
  BY MenuInit, MenuNext, PTL DEF ReviewsSpec
<1> QED BY <1>1, MenuTypedImplies, PTL

-----------------------------------------------------------------------------
(***************************************************************************)
(* A handler that runs alone knows the rows it was read with.              *)
(***************************************************************************)
Knows(h) ==
    /\ h.pc \in {"review_insert", "review_average", "review_hide"} => h.seen \subseteq Linked
    /\ h.pc = "review_average" => Linked # {}
    /\ h.pc = "review_rate" /\ Cardinality(h.seen) <= BadReviews
         => h.average = IF Linked = {} THEN 0 ELSE Average(Linked)
    /\ h.pc \in {"edit_save", "delete_row"} => review[h.id].at = h.was
    /\ h.pc = "food_save" => h.seen = Best(Linked) /\ h.rating = Shown(Linked)

Sole(k) == \A j \in Slots \ {k} : At(j, "idle")

Alone == ~overlap => \A k \in Slots : ~At(k, "idle") => Knows(slot[k]) /\ Sole(k)

Hides == \A k \in Slots : At(k, "review_hide") => Cardinality(slot[k].seen) > BadReviews

MenuInv == MenuTyped /\ Hides /\ Alone

LEMMA HidesKept ==
  ASSUME SlotsTyped, Hides, NEW k \in Slots, NEW h, slot' = [slot EXCEPT ![k] = h],
         h.pc = "review_hide" => Cardinality(h.seen) > BadReviews
  PROVE  Hides'
<1> SUFFICES ASSUME NEW j \in Slots, slot'[j].pc = "review_hide"
             PROVE  Cardinality(slot'[j].seen) > BadReviews
  BY DEF Hides, At
<1>1. CASE j = k
  BY <1>1 DEF SlotsTyped
<1>2. CASE j # k
  BY <1>2 DEF SlotsTyped, Hides, At
<1> QED BY <1>1, <1>2

LEMMA AloneKept ==
  ASSUME SlotsTyped, NEW k \in Slots, NEW h, slot' = [slot EXCEPT ![k] = h],
         ~overlap' => Sole(k), ~overlap' => h.pc = "idle" \/ Knows(h)'
  PROVE  Alone'
<1> SUFFICES ASSUME ~overlap', NEW j \in Slots, slot'[j].pc # "idle"
             PROVE  Knows(slot[j])' /\ Sole(j)'
  BY DEF Alone, At
<1>1. j = k
  BY DEF Sole, At, SlotsTyped
<1>2. slot'[j] = h
  BY <1>1 DEF SlotsTyped
<1>3. Knows(slot[j])'
  BY <1>2 DEF Knows
<1>4. Sole(j)'
  BY <1>1 DEF Sole, At, SlotsTyped
<1> QED BY <1>3, <1>4

LEMMA BeginKept ==
  ASSUME MenuInv, NEW k \in Slots, NEW h, Begin(k, h), h.pc # "review_hide", Knows(h)'
  PROVE  Hides' /\ Alone'
<1>1. slot' = [slot EXCEPT ![k] = h] /\ (~overlap' => Sole(k))
  BY DEF Begin, Call, Sole
<1> QED BY <1>1, HidesKept, AloneKept DEF MenuInv, MenuTyped

LEMMA EndKept ==
  ASSUME MenuInv, NEW k \in Slots, ~At(k, "idle"), End(k), UNCHANGED overlap
  PROVE  Hides' /\ Alone'
<1>1. slot' = [slot EXCEPT ![k] = Idle] /\ Idle.pc = "idle" /\ "idle" # "review_hide"
  BY IdleHeld DEF End
<1>2. ~overlap' => Sole(k)
  BY DEF MenuInv, Alone
<1> QED BY <1>1, <1>2, HidesKept, AloneKept DEF MenuInv, MenuTyped

LEMMA AllIdleKept ==
  ASSUME \A k \in Slots : slot'[k] = Idle
  PROVE  Hides' /\ Alone'
  BY IdleHeld DEF Hides, Alone, At

LEMMA BestOfFew ==
  ASSUME review \in [Reviews -> Review], NEW rs \in SUBSET Reviews,
         Cardinality(rs) <= TopReviews
  PROVE  Best(rs) = rs
<1> SUFFICES ASSUME NEW r \in rs PROVE Cardinality({s \in rs : Better(s, r)}) < TopReviews
  BY DEF Best
<1> DEFINE better == {s \in rs : Better(s, r)}
<1>1. r \notin better
  BY BoundsTyped DEF Better, Reviews, Review
<1>2. better \in SUBSET rs /\ better # rs
  BY <1>1
<1>3. IsFiniteSet(rs) /\ Cardinality(rs) \in Nat
  BY ReviewsFinite, CardinalityOf
<1>4. Cardinality(better) <= Cardinality(rs) /\ Cardinality(better) # Cardinality(rs)
  BY <1>2, <1>3, FS_Subset
<1>5. Cardinality(better) \in Nat
  BY CardinalityOf
<1> HIDE DEF better
<1>6. Cardinality(better) < TopReviews
  BY <1>3, <1>4, <1>5, BoundsTyped
<1> QED BY <1>6 DEF better

LEMMA TotalKept ==
  ASSUME \A r \in Reviews : review'[r].stars = review[r].stars, NEW rs
  PROVE  Average(rs)' = Average(rs)
<1>1. [r \in Reviews |-> review'[r].stars] = [r \in Reviews |-> review[r].stars]
  OBVIOUS
<1> QED BY <1>1 DEF Average, Total

-----------------------------------------------------------------------------
(***************************************************************************)
(* The invariant, action by action.                                        *)
(***************************************************************************)
LEMMA StartKeeps ==
  ASSUME MenuInv, NEW k \in Slots, Start(k)
  PROVE  Hides' /\ Alone'
<1>1. ASSUME NEW u \in Users, NEW s \in Stars, ReviewRead(k, u, s)
      PROVE  Hides' /\ Alone'
  <2> PICK h : h = [Idle EXCEPT !.pc = "review_insert", !.by = u, !.stars = s,
                                !.seen = Linked, !.rating = food.rating]
    OBVIOUS
  <2>1. Begin(k, h) /\ UNCHANGED review
    BY <1>1 DEF ReviewRead
  <2>2. h.pc = "review_insert" /\ h.seen = Linked
    BY DEF Idle
  <2>3. Knows(h)'
    BY <2>1, <2>2 DEF Knows, Linked
  <2> QED BY <2>1, <2>2, <2>3, BeginKept
<1>2. ASSUME NEW r \in Reviews, DeleteRead(k, r)
      PROVE  Hides' /\ Alone'
  <2> PICK h : h = [Idle EXCEPT !.pc = "delete_row", !.id = r, !.was = review[r].at]
    OBVIOUS
  <2>1. Begin(k, h) /\ UNCHANGED review
    BY <1>2 DEF DeleteRead
  <2>2. h.pc = "delete_row" /\ h.id = r /\ h.was = review[r].at
    BY DEF Idle
  <2>3. Knows(h)'
    BY <2>1, <2>2 DEF Knows
  <2> QED BY <2>1, <2>2, <2>3, BeginKept
<1>3. ASSUME NEW r \in Reviews, NEW s \in Stars, EditRead(k, r, s)
      PROVE  Hides' /\ Alone'
  <2> PICK h : h = [Idle EXCEPT !.pc = "edit_save", !.id = r, !.by = review[r].by,
                                !.stars = s, !.was = review[r].at]
    OBVIOUS
  <2>1. Begin(k, h) /\ UNCHANGED review
    BY <1>3 DEF EditRead
  <2>2. h.pc = "edit_save" /\ h.id = r /\ h.was = review[r].at
    BY DEF Idle
  <2>3. Knows(h)'
    BY <2>1, <2>2 DEF Knows
  <2> QED BY <2>1, <2>2, <2>3, BeginKept
<1>4. ASSUME NEW status \in {"available", "hidden"}, StatusRead(k, status)
      PROVE  Hides' /\ Alone'
  <2> PICK h : h = [Idle EXCEPT !.pc = "status_save", !.status = status, !.rating = food.rating]
    OBVIOUS
  <2>1. Begin(k, h)
    BY <1>4 DEF StatusRead
  <2>2. h.pc = "status_save"
    BY DEF Idle
  <2>3. Knows(h)'
    BY <2>2 DEF Knows
  <2> QED BY <2>1, <2>2, <2>3, BeginKept
<1>5. ASSUME NEW status \in {"available", "hidden"}, NEW new \in BOOLEAN,
             FoodRead(k, status, new)
      PROVE  Hides' /\ Alone'
  <2> PICK h : h = [Idle EXCEPT !.pc = "food_save", !.status = status,
                                !.rating = Shown(Linked), !.seen = Best(Linked),
                                !.tops = {<<t, top[t].price>> : t \in LinkedTops},
                                !.newTops = new]
    OBVIOUS
  <2>1. Begin(k, h) /\ review' = review
    BY <1>5 DEF FoodRead
  <2>2. h.pc = "food_save" /\ h.seen = Best(Linked) /\ h.rating = Shown(Linked)
    BY DEF Idle
  <2>3. Linked' = Linked /\ Best(Linked)' = Best(Linked) /\ Shown(Linked)' = Shown(Linked)
    BY <2>1 DEF Linked, Best, Better, Shown, Total
  <2>4. Knows(h)'
    BY <2>2, <2>3 DEF Knows
  <2> QED BY <2>1, <2>2, <2>4, BeginKept
<1>6. ASSUME NEW t \in Toppings, NEW p \in 0..1, ToppingRead(k, t, p)
      PROVE  Hides' /\ Alone'
  <2> PICK h : h = [Idle EXCEPT !.pc = "topping_save", !.topping = t, !.price = p,
                                !.was = top[t].at]
    OBVIOUS
  <2>1. Begin(k, h)
    BY <1>6 DEF ToppingRead
  <2>2. h.pc = "topping_save"
    BY DEF Idle
  <2>3. Knows(h)'
    BY <2>2 DEF Knows
  <2> QED BY <2>1, <2>2, <2>3, BeginKept
<1> QED BY <1>1, <1>2, <1>3, <1>4, <1>5, <1>6 DEF Start

LEMMA ContinueKeeps ==
  ASSUME MenuInv, NEW k \in Slots, Continue(k)
  PROVE  Hides' /\ Alone'
<1> DEFINE h == slot[k]
<1>0. h \in Held /\ Refers(h) /\ SlotsTyped /\ Hides
  BY DEF SlotsTyped, MenuInv, MenuTyped
<1>a. UNCHANGED overlap /\ ~At(k, "idle")
  BY DEF Continue, ReviewInsert, ReviewAverage, ReviewHide, ReviewRate, EditSave, DeleteRow,
         FoodSave, StatusSave, ToppingSave, At
<1>b. ~overlap' => Knows(h) /\ Sole(k)
  BY <1>a DEF MenuInv, Alone
<1>1. CASE ReviewInsert(k)
  <2> PICK new : new = [h EXCEPT !.pc = "review_average"]
    OBVIOUS
  <2>1. slot' = [slot EXCEPT ![k] = new]
    BY <1>1 DEF ReviewInsert, Goto
  <2>2. new.pc = "review_average" /\ new.seen = h.seen
    BY <1>0 DEF Held
  <2>3. h.pc = "review_insert"
    BY <1>1 DEF ReviewInsert, At
  <2>4. PICK r \in Reviews :
          review' = [review EXCEPT ![r] = [at |-> "linked", by |-> h.by, stars |-> h.stars]]
    BY <1>1 DEF ReviewInsert
  <2>5. r \in Linked' /\ Linked \subseteq Linked'
    BY <2>4 DEF Linked, MenuInv, MenuTyped, RowsTyped
  <2>6. ASSUME ~overlap' PROVE Knows(new)'
    <3>1. h.seen \subseteq Linked
      BY <1>b, <2>3, <2>6 DEF Knows
    <3> QED BY <2>2, <2>5, <3>1 DEF Knows
  <2> QED BY <1>0, <1>b, <2>1, <2>2, <2>6, HidesKept, AloneKept
<1>2. CASE ReviewAverage(k)
  <2> PICK bad : bad = (Cardinality(slot[k].seen) > BadReviews /\ Low(slot[k].rating))
    OBVIOUS
  <2> PICK average : average = IF Linked = {} THEN NaN ELSE Average(Linked)
    OBVIOUS
  <2> PICK next : next = IF bad THEN "review_hide" ELSE "review_rate"
    OBVIOUS
  <2> PICK new : new = [h EXCEPT !.pc = next, !.average = average]
    OBVIOUS
  <2>1. slot' = [slot EXCEPT ![k] = new]
    BY <1>2 DEF ReviewAverage
  <2>2. new.pc = next /\ new.average = average /\ new.seen = h.seen
    BY <1>0 DEF Held
  <2>3. next = "review_hide" => Cardinality(new.seen) > BadReviews
    BY <2>2
  <2>4. next \in {"review_hide", "review_rate"}
    OBVIOUS
  <2>5. h.pc = "review_average"
    BY <1>2 DEF ReviewAverage, At
  <2>6. Linked' = Linked /\ Average(Linked)' = Average(Linked)
    BY <1>2 DEF ReviewAverage, Linked, Average, Total
  <2>7. ASSUME ~overlap' PROVE Knows(new)'
    <3>1. h.seen \subseteq Linked /\ Linked # {}
      BY <1>b, <2>5, <2>7 DEF Knows
    <3>2. average = Average(Linked)
      BY <3>1
    <3>3. CASE next = "review_hide"
      BY <2>2, <2>6, <3>1, <3>3 DEF Knows
    <3>4. CASE next = "review_rate"
      BY <2>2, <2>6, <3>1, <3>2, <3>4 DEF Knows
    <3> QED BY <2>4, <3>3, <3>4
  <2> QED BY <1>0, <1>b, <2>1, <2>2, <2>3, <2>7, HidesKept, AloneKept
<1>3. CASE ReviewHide(k)
  <2> PICK new : new = [h EXCEPT !.pc = "review_rate"]
    OBVIOUS
  <2>1. slot' = [slot EXCEPT ![k] = new]
    BY <1>3 DEF ReviewHide, Goto
  <2>2. new.pc = "review_rate" /\ new.seen = h.seen
    BY <1>0 DEF Held
  <2>3. Cardinality(h.seen) > BadReviews
    BY <1>0, <1>3 DEF ReviewHide, Hides
  <2>4. Cardinality(h.seen) \in Nat
    BY <1>0, CardinalityOf DEF Held
  <2>5. Knows(new)'
    BY <2>2, <2>3, <2>4, BoundsTyped DEF Knows
  <2> QED BY <1>0, <1>b, <2>1, <2>2, <2>5, HidesKept, AloneKept
<1>4. CASE ReviewRate(k)
  BY <1>4, <1>a, EndKept DEF ReviewRate
<1>5. CASE EditSave(k)
  <2>1. CASE h.was = "linked"
    <3> PICK new : new = [h EXCEPT !.pc = "review_average", !.seen = {}]
      OBVIOUS
    <3>1. slot' = [slot EXCEPT ![k] = new]
      BY <1>5, <2>1 DEF EditSave
    <3>2. new.pc = "review_average" /\ new.seen = {}
      BY <1>0 DEF Held
    <3>3. h.id \in Reviews
      BY <1>0, <1>5 DEF EditSave, At, Refers
    <3>4. h.id \in Linked'
      BY <1>5, <2>1, <3>3 DEF EditSave, Linked, MenuInv, MenuTyped, RowsTyped
    <3>5. Knows(new)'
      BY <3>2, <3>4 DEF Knows
    <3> QED BY <1>0, <1>b, <3>1, <3>2, <3>5, HidesKept, AloneKept
  <2>2. CASE h.was # "linked"
    BY <1>5, <1>a, <2>2, EndKept DEF EditSave
  <2> QED BY <2>1, <2>2
<1>6. CASE DeleteRow(k)
  <2>1. CASE h.was = "linked"
    <3> DEFINE left == Linked \ {h.id}
    <3> PICK average : average = IF left = {} THEN 0 ELSE Average(left)
      OBVIOUS
    <3> PICK new : new = [h EXCEPT !.pc = "review_rate", !.average = average]
      OBVIOUS
    <3>1. slot' = [slot EXCEPT ![k] = new]
      BY <1>6, <2>1 DEF DeleteRow
    <3>2. new.pc = "review_rate" /\ new.average = average
      BY <1>0 DEF Held
    <3>3. review' = [review EXCEPT ![h.id].at = "deleted"]
      BY <1>6 DEF DeleteRow
    <3>4. review \in [Reviews -> Review]
      BY DEF MenuInv, MenuTyped, RowsTyped
    <3>5. Linked' = left
      BY <3>3, <3>4 DEF Linked, Review
    <3>6. \A r \in Reviews : review'[r].stars = review[r].stars
      BY <3>3, <3>4 DEF Review
    <3> PICK rs : rs = left
      OBVIOUS
    <3>7. Average(rs)' = Average(rs)
      BY <3>6, TotalKept
    <3>8. Average(Linked)' = Average(left)
      BY <3>5, <3>7
    <3>9. Knows(new)'
      BY <3>2, <3>5, <3>8 DEF Knows
    <3> QED BY <1>0, <1>b, <3>1, <3>2, <3>9, HidesKept, AloneKept
  <2>2. CASE h.was # "linked"
    BY <1>6, <1>a, <2>2, EndKept DEF DeleteRow
  <2> QED BY <2>1, <2>2
<1>7. CASE FoodSave(k)
  BY <1>7, <1>a, EndKept DEF FoodSave
<1>8. CASE StatusSave(k)
  BY <1>8, <1>a, EndKept DEF StatusSave
<1>9. CASE ToppingSave(k)
  BY <1>9, <1>a, EndKept DEF ToppingSave
<1> QED BY <1>1, <1>2, <1>3, <1>4, <1>5, <1>6, <1>7, <1>8, <1>9 DEF Continue

LEMMA OthersKeep ==
  ASSUME MenuInv, AtOnce \/ Crash \/ UNCHANGED reviewsVars
  PROVE  Hides' /\ Alone'
<1>1. CASE AtOnce
  <2>1. Call(Slots) /\ slot' = slot
    BY <1>1 DEF AtOnce, AddTopping, RemoveTopping
  <2>2. Hides'
    BY <2>1 DEF MenuInv, Hides, At
  <2>3. ~overlap' => \A k \in Slots : At(k, "idle")
    BY <2>1 DEF Call
  <2>4. Alone'
    BY <2>1, <2>3 DEF Alone, At
  <2> QED BY <2>2, <2>4
<1>2. CASE Crash
  BY <1>2, AllIdleKept DEF Crash
<1>3. CASE UNCHANGED reviewsVars
  <2>1. UNCHANGED <<review, slot, overlap>>
    BY <1>3 DEF reviewsVars
  <2>2. Hides'
    BY <2>1 DEF MenuInv, Hides, At
  <2>3. Alone'
    BY <2>1 DEF MenuInv, Alone, At, Sole, Knows, Linked, Best, Better, Shown, Average, Total
  <2> QED BY <2>2, <2>3
<1> QED BY <1>1, <1>2, <1>3

LEMMA MenuInvInit == ReviewsInit => MenuInv
<1> SUFFICES ASSUME ReviewsInit PROVE MenuInv
  OBVIOUS
<1>1. MenuTyped
  BY MenuInit
<1>2. \A k \in Slots : slot[k] = Idle
  BY DEF ReviewsInit
<1>3. \A k \in Slots : At(k, "idle")
  BY <1>2, IdleHeld DEF At
<1>4. \A k \in Slots : ~At(k, "review_hide")
  BY <1>3 DEF At
<1> QED BY <1>1, <1>3, <1>4 DEF MenuInv, Hides, Alone

LEMMA MenuInvNext == MenuInv /\ [ReviewsNext]_reviewsVars => MenuInv'
<1> SUFFICES ASSUME MenuInv, [ReviewsNext]_reviewsVars PROVE MenuInv'
  OBVIOUS
<1>1. MenuTyped'
  BY MenuNext DEF MenuInv
<1>2. Hides' /\ Alone'
  BY StartKeeps, ContinueKeeps, OthersKeep DEF ReviewsNext
<1> QED BY <1>1, <1>2 DEF MenuInv

LEMMA MenuInvAlways == ReviewsSpec => []MenuInv
  BY MenuInvInit, MenuInvNext, PTL DEF ReviewsSpec

-----------------------------------------------------------------------------
(***************************************************************************)
(* What the steps may do to the rating and to the list of reviews.         *)
(***************************************************************************)
(* A handler in progress that ends without a crash took its own last step. *)
LEMMA EndsItself ==
  ASSUME MenuInv, ReviewsNext, crashes' = crashes, NEW k \in Slots,
         ~At(k, "idle"), slot'[k].pc = "idle"
  PROVE  Continue(k)
<1>1. slot \in [Slots -> Held]
  BY DEF MenuInv, MenuTyped, SlotsTyped
<1>2. ~Crash
  BY DEF Crash, MenuInv, MenuTyped, CountsTyped
<1>3. ~AtOnce
  BY DEF AtOnce, AddTopping, RemoveTopping, At
<1>4. PICK j \in Slots : Start(j) \/ Continue(j)
  BY <1>2, <1>3 DEF ReviewsNext
<1>5. \A i \in Slots \ {j} : slot'[i] = slot[i]
  <2>1. CASE Start(j)
    BY <1>1, <2>1 DEF Start, ReviewRead, DeleteRead, EditRead, StatusRead, FoodRead,
                      ToppingRead, Begin
  <2>2. CASE Continue(j)
    BY <1>1, <2>2 DEF Continue, ReviewInsert, ReviewAverage, ReviewHide, ReviewRate, EditSave,
                      DeleteRow, FoodSave, StatusSave, ToppingSave, Goto, End
  <2> QED BY <1>4, <2>1, <2>2
<1>6. j = k
  BY <1>5 DEF At
<1>7. ~Start(k)
  BY DEF Start, ReviewRead, DeleteRead, EditRead, StatusRead, FoodRead, ToppingRead, Begin
<1> QED BY <1>4, <1>6, <1>7

LEMMA RatingStep ==
  ASSUME MenuInv, ReviewsNext, ~overlap', crashes' = crashes, NEW k \in Slots
  PROVE  /\ At(k, "review_rate") /\ slot'[k].pc = "idle" /\ Cardinality(slot[k].seen) <= BadReviews
              => IF Linked = {} THEN food'.rating = 0
                 ELSE \/ Within(1, food'.rating, Linked)
                      \/ Beyond(1, Linked) /\ food' = food
         /\ At(k, "food_save") /\ slot'[k].pc = "idle" /\ review' = review /\ Linked # {}
              => \/ Within(10, food'.rating, Linked)
                 \/ Beyond(10, Linked) /\ food' = food
<1> DEFINE h == slot[k]
<1>1. review \in [Reviews -> Review] /\ food \in FoodRow /\ Linked \in SUBSET Reviews
  BY LinkedReviews DEF MenuInv, MenuTyped, RowsTyped
<1>2. ASSUME At(k, "review_rate") \/ At(k, "food_save"), slot'[k].pc = "idle"
      PROVE  Continue(k) /\ Knows(h)
  <2>1. ~At(k, "idle")
    BY <1>2 DEF At
  <2>2. Continue(k)
    BY <1>2, <2>1, EndsItself
  <2>3. overlap' = overlap
    BY <2>2 DEF Continue, ReviewInsert, ReviewAverage, ReviewHide, ReviewRate, EditSave,
                DeleteRow, FoodSave, StatusSave, ToppingSave
  <2> QED BY <2>1, <2>2, <2>3 DEF MenuInv, Alone
<1>3. ASSUME At(k, "review_rate"), slot'[k].pc = "idle", Cardinality(h.seen) <= BadReviews
      PROVE  IF Linked = {} THEN food'.rating = 0
             ELSE \/ Within(1, food'.rating, Linked)
                  \/ Beyond(1, Linked) /\ food' = food
  <2>1. h.average = IF Linked = {} THEN 0 ELSE Average(Linked)
    BY <1>2, <1>3 DEF Knows, At
  <2>2. ReviewRate(k)
    BY <1>2, <1>3 DEF Continue, ReviewInsert, ReviewAverage, ReviewHide, EditSave, DeleteRow,
                      FoodSave, StatusSave, ToppingSave, At
  <2>3. food' = [food EXCEPT !.rating = IF Fits(h.average) THEN h.average ELSE food.rating]
    BY <2>2 DEF ReviewRate, Rate
  <2>4. Fits(h.average) => food'.rating = h.average
    BY <1>1, <2>3 DEF FoodRow
  <2>5. ~Fits(h.average) => food' = food
    BY <1>1, <2>3 DEF FoodRow
  <2>6. CASE Linked = {}
    BY <2>1, <2>4, <2>6 DEF Fits, Ratings
  <2>7. CASE Linked # {}
    <3>1. /\ Within(1, Average(Linked), Linked)
          /\ ~Fits(Average(Linked)) => Beyond(1, Linked)
      BY <1>1, <2>7, AverageIs
    <3> QED BY <2>1, <2>4, <2>5, <2>7, <3>1
  <2> QED BY <2>6, <2>7
<1>4. ASSUME At(k, "food_save"), slot'[k].pc = "idle", review' = review, Linked # {}
      PROVE  \/ Within(10, food'.rating, Linked)
             \/ Beyond(10, Linked) /\ food' = food
  <2>1. h.rating = Shown(Linked)
    BY <1>2, <1>4 DEF Knows, At
  <2>2. FoodSave(k)
    BY <1>2, <1>4 DEF Continue, ReviewInsert, ReviewAverage, ReviewHide, ReviewRate, EditSave,
                      DeleteRow, StatusSave, ToppingSave, At
  <2>3. Fits(h.rating) => food'.rating = h.rating
    BY <2>2 DEF FoodSave
  <2>4. ~Fits(h.rating) => food' = food
    BY <2>2 DEF FoodSave
  <2>5. Within(10, Shown(Linked), Linked) /\ (~Fits(Shown(Linked)) => Beyond(10, Linked))
    BY <1>1, <1>4, ShownIs
  <2> QED BY <2>1, <2>3, <2>4, <2>5
<1> QED BY <1>3, <1>4

(* When a change of a review ends that no other handler overlapped, the     *)
(* stored rating is the average of the reviews the food has, to a hundredth *)
(* (to a tenth after the owner's update of the food that loses none), or    *)
(* what it was if that average reaches 10: ReviewService recomputes it from *)
(* the rows, never from the rating, and the row is saved before it.         *)
THEOREM RatingCorrect == ReviewsSpec => RatingFollowsReviews
<1>1. MenuInv /\ [ReviewsNext]_reviewsVars
        => [~overlap' /\ crashes' = crashes =>
              \A k \in Slots :
                /\ At(k, "review_rate") /\ slot'[k].pc = "idle"
                     /\ Cardinality(slot[k].seen) <= BadReviews
                     => IF Linked = {} THEN food'.rating = 0
                        ELSE \/ Within(1, food'.rating, Linked)
                             \/ Beyond(1, Linked) /\ food' = food
                /\ At(k, "food_save") /\ slot'[k].pc = "idle" /\ review' = review /\ Linked # {}
                     => \/ Within(10, food'.rating, Linked)
                        \/ Beyond(10, Linked) /\ food' = food]_reviewsVars
  BY RatingStep
<1> QED BY <1>1, MenuInvAlways, PTL DEF ReviewsSpec, RatingFollowsReviews

LEMMA FewReviewsStep ==
  ASSUME MenuInv, ReviewsNext, ~overlap', Cardinality(Linked) <= TopReviews, NEW r \in Linked
  PROVE  review'[r].at # "loose"
<1>1. review \in [Reviews -> Review] /\ r \in Reviews /\ review[r].at = "linked"
  BY DEF MenuInv, MenuTyped, RowsTyped, Linked
<1>2. CASE review' = review
  BY <1>1, <1>2
<1>3. ASSUME NEW k \in Slots, Continue(k) PROVE review'[r].at # "loose"
  <2> DEFINE h == slot[k]
  <2>1. Knows(h)
    <3>1. overlap' = overlap /\ ~At(k, "idle")
      BY <1>3 DEF Continue, ReviewInsert, ReviewAverage, ReviewHide, ReviewRate, EditSave,
                  DeleteRow, FoodSave, StatusSave, ToppingSave, At
    <3> QED BY <3>1 DEF MenuInv, Alone
  <2>2. CASE ReviewInsert(k)
    BY <1>1, <2>2 DEF ReviewInsert
  <2>3. CASE ReviewAverage(k) \/ ReviewRate(k) \/ StatusSave(k) \/ ToppingSave(k)
    BY <1>2, <2>3 DEF ReviewAverage, ReviewRate, StatusSave, ToppingSave
  <2>4. CASE ReviewHide(k)
    <3>1. h.seen \subseteq Linked /\ Cardinality(h.seen) > BadReviews
      BY <2>1, <2>4 DEF ReviewHide, MenuInv, Hides, Knows, At
    <3>2. IsFiniteSet(Linked) /\ Linked \in SUBSET Reviews /\ h.seen \in SUBSET Reviews
      BY <3>1, ReviewsFinite, LinkedReviews
    <3>3. Cardinality(h.seen) <= Cardinality(Linked)
      BY <3>1, <3>2, FS_Subset
    <3> QED BY <3>1, <3>2, <3>3, CardinalityOf, BoundsTyped
  <2>5. CASE EditSave(k)
    <3>1. review[h.id].at = h.was
      BY <2>1, <2>5 DEF EditSave, Knows, At
    <3> QED BY <1>1, <2>5, <3>1 DEF EditSave
  <2>6. CASE DeleteRow(k)
    BY <1>1, <2>6 DEF DeleteRow
  <2>7. CASE FoodSave(k)
    <3>1. h.seen = Best(Linked)
      BY <2>1, <2>7 DEF FoodSave, Knows, At
    <3>2. h.seen = Linked
      BY <1>1, <3>1, BestOfFew, LinkedReviews
    <3>3. OnlyReviews(Linked) \/ review' = review
      BY <2>7, <3>2 DEF FoodSave
    <3> QED BY <1>1, <3>3 DEF OnlyReviews
  <2> QED BY <1>3, <2>2, <2>3, <2>4, <2>5, <2>6, <2>7 DEF Continue
<1>4. ASSUME NEW k \in Slots, Start(k) PROVE review' = review
  BY <1>4 DEF Start, ReviewRead, DeleteRead, EditRead, StatusRead, FoodRead, ToppingRead
<1>5. AtOnce \/ Crash => review' = review
  BY DEF AtOnce, AddTopping, RemoveTopping, Crash
<1> QED BY <1>2, <1>3, <1>4, <1>5 DEF ReviewsNext

(* Handlers that do not overlap lose no review of a food that has no more   *)
(* reviews than findOne reads with it: all of them are then on the list     *)
(* that the owner's update saves, and a bad food has more than can be hidden. *)
THEOREM FewReviewsCorrect == ReviewsSpec => FewReviewsKept
<1>1. MenuInv /\ [ReviewsNext]_reviewsVars
        => [~overlap' /\ Cardinality(Linked) <= TopReviews
              => \A r \in Linked : review'[r].at # "loose"]_reviewsVars
  BY FewReviewsStep
<1> QED BY <1>1, MenuInvAlways, PTL DEF ReviewsSpec, FewReviewsKept

-----------------------------------------------------------------------------
(***************************************************************************)
(* Orders on finite sets.  R is a set of pairs: <<x, y>> \in R when x comes *)
(* before y; some may tie.  In a sorted sequence an element comes after    *)
(* those before it and not after those that are not before it.             *)
(***************************************************************************)
StrictWeak(R, D) ==
    \A x, y, z \in D : /\ <<x, x>> \notin R
                       /\ <<x, y>> \in R /\ <<y, z>> \in R => <<x, z>> \in R
                       /\ <<x, y>> \in R => <<x, z>> \in R \/ <<z, y>> \in R

Linear(R, D) == \A x, y \in D : x # y => <<x, y>> \in R \/ <<y, x>> \in R

Under(R, D, x) == {y \in D : <<y, x>> \in R}
Until(R, D, x) == {y \in D : <<x, y>> \notin R}

Sorted(R, s) == \A i, j \in 1..Len(s) : i < j => <<s[j], s[i]>> \notin R
Distinct(s) == \A i, j \in 1..Len(s) : i # j => s[i] # s[j]

LEMMA UnderFinite ==
  ASSUME NEW D, IsFiniteSet(D), NEW R, NEW x
  PROVE  /\ IsFiniteSet(Under(R, D, x)) /\ IsFiniteSet(Until(R, D, x))
         /\ Cardinality(Under(R, D, x)) \in Nat /\ Cardinality(Until(R, D, x)) \in Nat
<1>1. Under(R, D, x) \in SUBSET D /\ Until(R, D, x) \in SUBSET D
  BY DEF Under, Until
<1>2. IsFiniteSet(Under(R, D, x)) /\ IsFiniteSet(Until(R, D, x))
  BY <1>1, FS_Subset
<1> QED BY <1>2, FS_CardinalityType

(* The first m elements of a sequence without repetitions are m.           *)
LEMMA FirstAre ==
  ASSUME NEW D, NEW s \in Seq(D), Distinct(s), NEW m \in 0..Len(s)
  PROVE  /\ IsFiniteSet({s[i] : i \in 1..m})
         /\ Cardinality({s[i] : i \in 1..m}) = m
<1> DEFINE T == {s[i] : i \in 1..m}
           f == [i \in 1..m |-> s[i]]
<1>1. m \in Nat /\ IsFiniteSet(1..m) /\ Cardinality(1..m) = m
  BY LenProperties, FS_Interval
<1>2. f \in Bijection(1..m, T)
  <2>1. f \in [1..m -> T]
    OBVIOUS
  <2>2. \A i, j \in 1..m : f[i] = f[j] => i = j
    BY LenProperties DEF Distinct
  <2>3. \A t \in T : \E i \in 1..m : f[i] = t
    OBVIOUS
  <2> QED BY <2>1, <2>2, <2>3 DEF Bijection, Injection, Surjection, IsInjective
<1>3. ExistsBijection(1..m, T)
  BY <1>2 DEF ExistsBijection
<1> QED BY <1>1, <1>3, FS_Bijection

LEMMA AllAre ==
  ASSUME NEW D, IsFiniteSet(D), NEW s \in Seq(D), Distinct(s), Len(s) = Cardinality(D)
  PROVE  \A x \in D : \E i \in 1..Len(s) : s[i] = x
<1> DEFINE T == {s[i] : i \in 1..Len(s)}
<1>1. Len(s) \in 0..Len(s) /\ T \in SUBSET D
  BY LenProperties
<1>2. Cardinality(T) = Len(s)
  BY <1>1, FirstAre
<1>3. T = D
  BY <1>1, <1>2, FS_Subset
<1> QED BY <1>3

(* Where an element of a sorted sequence is.                               *)
LEMMA PlaceOf ==
  ASSUME NEW D, IsFiniteSet(D), NEW R, StrictWeak(R, D), NEW s \in Seq(D), Distinct(s),
         Len(s) = Cardinality(D), Sorted(R, s), NEW i \in 1..Len(s)
  PROVE  /\ Cardinality(Under(R, D, s[i])) < i
         /\ i <= Cardinality(Until(R, D, s[i]))
<1>0. Len(s) \in Nat /\ s \in [1..Len(s) -> D] /\ i \in Nat /\ i - 1 \in 0..Len(s) /\ i \in 0..Len(s)
  BY LenProperties
<1>1. Under(R, D, s[i]) \subseteq {s[j] : j \in 1..(i - 1)}
  <2> SUFFICES ASSUME NEW y \in D, <<y, s[i]>> \in R PROVE y \in {s[j] : j \in 1..(i - 1)}
    BY DEF Under
  <2>1. PICK j \in 1..Len(s) : s[j] = y
    BY AllAre
  <2>2. j # i
    BY <1>0, <2>1 DEF StrictWeak
  <2>3. ~(i < j)
    BY <2>1 DEF Sorted
  <2> QED BY <1>0, <2>1, <2>2, <2>3
<1>2. {s[j] : j \in 1..i} \subseteq Until(R, D, s[i])
  <2> SUFFICES ASSUME NEW j \in 1..i PROVE s[j] \in D /\ <<s[i], s[j]>> \notin R
    BY DEF Until
  <2>1. j \in 1..Len(s) /\ s[j] \in D
    BY <1>0
  <2>2. CASE j = i
    BY <1>0, <2>1, <2>2 DEF StrictWeak
  <2>3. CASE j # i
    BY <1>0, <2>1, <2>3 DEF Sorted
  <2> QED BY <2>1, <2>2, <2>3
<1>2a. /\ IsFiniteSet({s[j] : j \in 1..(i - 1)})
       /\ Cardinality({s[j] : j \in 1..(i - 1)}) = i - 1
  <2>1. i - 1 \in 0..Len(s)
    BY <1>0
  <2> QED BY <2>1, FirstAre
<1>2b. Cardinality({s[j] : j \in 1..i}) = i
  <2>1. i \in 0..Len(s)
    BY <1>0
  <2> QED BY <2>1, FirstAre
<1>3. /\ IsFiniteSet({s[j] : j \in 1..(i - 1)}) /\ Cardinality({s[j] : j \in 1..(i - 1)}) = i - 1
      /\ Cardinality({s[j] : j \in 1..i}) = i
  BY <1>2a, <1>2b
<1>4. Cardinality(Under(R, D, s[i])) <= i - 1
  BY <1>1, <1>3, FS_Subset
<1>5. i <= Cardinality(Until(R, D, s[i]))
  BY <1>2, <1>3, UnderFinite, FS_Subset
<1> QED BY <1>0, <1>4, <1>5, UnderFinite

(* In a linear order an element is right after those before it.            *)
LEMMA UntilIs ==
  ASSUME NEW D, IsFiniteSet(D), NEW R, StrictWeak(R, D), Linear(R, D), NEW x \in D
  PROVE  Cardinality(Until(R, D, x)) = Cardinality(Under(R, D, x)) + 1
<1>1. Until(R, D, x) = Under(R, D, x) \cup {x}
  BY DEF Until, Under, StrictWeak, Linear
<1>2. x \notin Under(R, D, x)
  BY DEF Under, StrictWeak
<1> QED BY <1>1, <1>2, UnderFinite, FS_AddElement

LEMMA PlaceIs ==
  ASSUME NEW D, IsFiniteSet(D), NEW R, StrictWeak(R, D), Linear(R, D), NEW s \in Seq(D), Distinct(s),
         Len(s) = Cardinality(D), Sorted(R, s), NEW i \in 1..Len(s)
  PROVE  Cardinality(Under(R, D, s[i])) = i - 1
<1>1. s[i] \in D
  BY ElementOfSeq
<1> QED BY <1>1, PlaceOf, UntilIs, UnderFinite

(* What comes earlier has fewer before it.                                 *)
LEMMA UnderGrows ==
  ASSUME NEW D, IsFiniteSet(D), NEW R, StrictWeak(R, D), NEW x \in D, NEW y \in D, <<x, y>> \in R
  PROVE  /\ Cardinality(Under(R, D, x)) < Cardinality(Under(R, D, y))
         /\ Cardinality(Until(R, D, x)) <= Cardinality(Under(R, D, y))
<1>1. Under(R, D, x) \in SUBSET Under(R, D, y)
  BY DEF Under, StrictWeak
<1>2. x \in Under(R, D, y) /\ x \notin Under(R, D, x)
  BY DEF Under, StrictWeak
<1>3. Until(R, D, x) \in SUBSET Under(R, D, y)
  BY DEF Under, Until, StrictWeak
<1>4. /\ Cardinality(Under(R, D, x)) <= Cardinality(Under(R, D, y))
      /\ Cardinality(Under(R, D, x)) # Cardinality(Under(R, D, y))
  BY <1>1, <1>2, UnderFinite, FS_Subset
<1>5. Cardinality(Until(R, D, x)) <= Cardinality(Under(R, D, y))
  BY <1>3, UnderFinite, FS_Subset
<1> QED BY <1>4, <1>5, UnderFinite

LEMMA UnderBound ==
  ASSUME NEW D, IsFiniteSet(D), NEW R, StrictWeak(R, D), NEW x \in D
  PROVE  Cardinality(Under(R, D, x)) < Cardinality(D)
<1>1. Under(R, D, x) \in SUBSET D /\ x \notin Under(R, D, x)
  BY DEF Under, StrictWeak
<1>2. Cardinality(Under(R, D, x)) <= Cardinality(D) /\ Cardinality(Under(R, D, x)) # Cardinality(D)
  BY <1>1, FS_Subset
<1> QED BY <1>2, UnderFinite, FS_CardinalityType

(* A finite set with a linear order can be sorted: each element goes right *)
(* after those before it.                                                  *)
LEMMA CanBeSorted ==
  ASSUME NEW D, IsFiniteSet(D), NEW R, StrictWeak(R, D), Linear(R, D)
  PROVE  \E s \in Seq(D) : Distinct(s) /\ Len(s) = Cardinality(D) /\ Sorted(R, s)
<1> DEFINE n == Cardinality(D)
           f == [x \in D |-> Cardinality(Under(R, D, x)) + 1]
<1>1. n \in Nat /\ IsFiniteSet(1..n) /\ Cardinality(1..n) = n
  BY FS_CardinalityType, FS_Interval
<1>2. f \in [D -> 1..n]
  BY <1>1, UnderFinite, UnderBound
<1>3. \A x, y \in D : <<x, y>> \in R => f[x] < f[y]
  BY UnderGrows, UnderFinite
<1>4. \A x, y \in D : f[x] = f[y] => x = y
  <2> SUFFICES ASSUME NEW x \in D, NEW y \in D, x # y PROVE f[x] # f[y]
    OBVIOUS
  <2>1. f[x] \in Int /\ f[y] \in Int
    BY <1>1, <1>2
  <2>2. <<x, y>> \in R \/ <<y, x>> \in R
    BY DEF Linear
  <2>3. f[x] < f[y] \/ f[y] < f[x]
    BY <1>3, <2>2
  <2> HIDE DEF f
  <2> QED BY <2>1, <2>3
<1>5. f \in Injection(D, 1..n)
  BY <1>2, <1>4 DEF Injection, IsInjective
<1>6. f \in Surjection(D, 1..n)
  BY <1>1, <1>5, FS_Injection
<1>7. \A i \in 1..n : \E x \in D : f[x] = i
  BY <1>6 DEF Surjection
<1> DEFINE s == [i \in 1..n |-> CHOOSE x \in D : f[x] = i]
<1>8. \A i \in 1..n : s[i] \in D /\ f[s[i]] = i
  BY <1>7
<1> HIDE DEF s, f
<1>9. s \in [1..n -> D]
  BY <1>8 DEF s
<1>10. s \in Seq(D) /\ Len(s) = n
  BY <1>1, <1>9
<1>11. Distinct(s)
  BY <1>8, <1>10 DEF Distinct
<1>12. Sorted(R, s)
  <2> SUFFICES ASSUME NEW i \in 1..n, NEW j \in 1..n, i < j, <<s[j], s[i]>> \in R PROVE FALSE
    BY <1>10 DEF Sorted
  <2>1. f[s[j]] < f[s[i]]
    BY <1>3, <1>8
  <2> QED BY <1>8, <2>1
<1> QED BY <1>10, <1>11, <1>12

-----------------------------------------------------------------------------
(***************************************************************************)
(* How often an element is in a sequence.                                  *)
(***************************************************************************)
Count(s, x) == Cardinality({i \in 1..Len(s) : s[i] = x})

LEMMA CountFinite ==
  ASSUME NEW D, NEW s \in Seq(D), NEW x
  PROVE  IsFiniteSet({i \in 1..Len(s) : s[i] = x}) /\ Count(s, x) \in Nat
<1>1. IsFiniteSet(1..Len(s))
  BY LenProperties, FS_Interval
<1>2. {i \in 1..Len(s) : s[i] = x} \in SUBSET (1..Len(s))
  OBVIOUS
<1> QED BY <1>1, <1>2, FS_Subset, FS_CardinalityType DEF Count

LEMMA CountNone ==
  ASSUME NEW D, NEW s \in Seq(D), NEW x, \A i \in 1..Len(s) : s[i] # x
  PROVE  Count(s, x) = 0
<1>1. {i \in 1..Len(s) : s[i] = x} = {}
  OBVIOUS
<1> QED BY <1>1, FS_EmptySet DEF Count

LEMMA CountOnce ==
  ASSUME NEW D, NEW s \in Seq(D), Distinct(s), NEW i \in 1..Len(s)
  PROVE  Count(s, s[i]) = 1
<1>1. {j \in 1..Len(s) : s[j] = s[i]} = {i}
  BY DEF Distinct
<1> QED BY <1>1, FS_Singleton DEF Count

LEMMA PairIs ==
  ASSUME NEW x, NEW y, x # y
  PROVE  Cardinality({x, y}) = 2
<1>1. IsFiniteSet({x}) /\ Cardinality({x}) = 1
  BY FS_Singleton
<1>2. Cardinality({x} \cup {y}) = IF y \in {x} THEN Cardinality({x}) ELSE Cardinality({x}) + 1
  BY <1>1, FS_AddElement
<1>3. {x} \cup {y} = {x, y} /\ y \notin {x}
  OBVIOUS
<1>4. Cardinality({x} \cup {y}) = 2
  BY <1>1, <1>2, <1>3
<1> QED BY <1>3, <1>4

LEMMA Apart ==
  ASSUME NEW S, IsFiniteSet(S), NEW T, IsFiniteSet(T), S \cap T = {}
  PROVE  /\ IsFiniteSet(S \cup T)
         /\ Cardinality(S \cup T) = Cardinality(S) + Cardinality(T)
<1>1. /\ IsFiniteSet(S \cup T)
      /\ Cardinality(S \cup T) = Cardinality(S) + Cardinality(T) - Cardinality(S \cap T)
  BY FS_Union
<1>2. Cardinality(S \cap T) = 0
  BY FS_EmptySet
<1>3. Cardinality(S) \in Nat /\ Cardinality(T) \in Nat
  BY FS_CardinalityType
<1> QED BY <1>1, <1>2, <1>3

LEMMA OnceEach ==
  ASSUME NEW D, NEW s \in Seq(D), \A x \in D : Count(s, x) <= 1
  PROVE  Distinct(s)
<1> SUFFICES ASSUME NEW i \in 1..Len(s), NEW j \in 1..Len(s), i # j, s[i] = s[j] PROVE FALSE
  BY DEF Distinct
<1>1. s[i] \in D
  BY ElementOfSeq
<1> DEFINE T == {k \in 1..Len(s) : s[k] = s[i]}
<1>2. IsFiniteSet(T) /\ Cardinality(T) <= 1 /\ {i, j} \in SUBSET T
  BY <1>1, CountFinite DEF Count
<1>3. Cardinality({i, j}) = 2
  BY PairIs
<1>4. Cardinality({i, j}) <= Cardinality(T) /\ Cardinality(T) \in Nat
  BY <1>2, FS_Subset, FS_CardinalityType
<1> QED BY <1>2, <1>3, <1>4

LEMMA CountConcat ==
  ASSUME NEW D, NEW s \in Seq(D), NEW t \in Seq(D), NEW x
  PROVE  Count(s \o t, x) = Count(s, x) + Count(t, x)
<1> DEFINE S == {i \in 1..Len(s) : s[i] = x}
           T == {i \in 1..Len(t) : t[i] = x}
           m == Len(s)
           U == {i + m : i \in T}
           f == [i \in T |-> i + m]
<1>1. /\ Len(s) \in Nat /\ Len(t) \in Nat /\ Len(s \o t) = Len(s) + Len(t)
      /\ \A i \in 1..(Len(s) + Len(t)) :
            (s \o t)[i] = IF i <= Len(s) THEN s[i] ELSE t[i - Len(s)]
  BY LenProperties, ConcatProperties
<1>2. {i \in 1..Len(s \o t) : (s \o t)[i] = x} = S \cup U
  <2>1. \A i \in 1..Len(s \o t) : (s \o t)[i] = x => i \in S \cup U
    <3> SUFFICES ASSUME NEW i \in 1..Len(s \o t), (s \o t)[i] = x, i \notin S PROVE i \in U
      OBVIOUS
    <3>1. i > m /\ i - m \in 1..Len(t) /\ t[i - m] = x /\ i = (i - m) + m
      BY <1>1
    <3> QED BY <3>1
  <2>2. \A i \in S : i \in 1..Len(s \o t) /\ (s \o t)[i] = x
    BY <1>1
  <2>3. \A i \in T : i + m \in 1..Len(s \o t) /\ (s \o t)[i + m] = x
    BY <1>1
  <2> QED BY <2>1, <2>2, <2>3
<1>3. S \cap U = {}
  BY <1>1
<1>4. IsFiniteSet(S) /\ IsFiniteSet(T) /\ Cardinality(S) \in Nat /\ Cardinality(T) \in Nat
  BY CountFinite, FS_CardinalityType
<1>5. IsFiniteSet(U) /\ Cardinality(U) = Cardinality(T)
  <2>1. f \in Bijection(T, U)
    BY <1>1 DEF Bijection, Injection, Surjection, IsInjective
  <2> QED BY <1>4, <2>1, FS_Bijection DEF ExistsBijection
<1>6. Cardinality(S \cup U) = Cardinality(S) + Cardinality(U)
  BY <1>3, <1>4, <1>5, Apart
<1> QED BY <1>2, <1>5, <1>6 DEF Count

\* A page that is turned round has the same rows.
LEMMA ReverseIs ==
  ASSUME NEW D, NEW s \in Seq(D), Distinct(s)
  PROVE  /\ Reverse(s) \in Seq(D) /\ Len(Reverse(s)) = Len(s) /\ Distinct(Reverse(s))
         /\ ToSet(Reverse(s)) = ToSet(s)
<1> DEFINE n == Len(s)
           t == Reverse(s)
<1>1. n \in Nat /\ s \in [1..n -> D] /\ DOMAIN s = 1..n
  BY LenProperties
<1>2. t = [i \in 1..n |-> s[(n - i) + 1]]
  BY DEF Reverse
<1>3. \A i \in 1..n : (n - i) + 1 \in 1..n /\ (n - ((n - i) + 1)) + 1 = i
  BY <1>1
<1>4. t \in [1..n -> D]
  BY <1>1, <1>2, <1>3
<1>5. t \in Seq(D) /\ Len(t) = n /\ DOMAIN t = 1..n
  BY <1>1, <1>4
<1>6. Distinct(t)
  <2> SUFFICES ASSUME NEW i \in 1..n, NEW j \in 1..n, i # j PROVE t[i] # t[j]
    BY <1>5 DEF Distinct
  <2>1. (n - i) + 1 # (n - j) + 1
    BY <1>1
  <2> QED BY <1>2, <1>3, <2>1 DEF Distinct
<1>7. ToSet(t) = ToSet(s)
  <2>1. \A i \in 1..n : t[i] = s[(n - i) + 1] /\ s[i] = t[(n - i) + 1]
    BY <1>2, <1>3
  <2> QED BY <1>1, <1>3, <1>5, <2>1 DEF ToSet
<1> QED BY <1>5, <1>6, <1>7

-----------------------------------------------------------------------------
(***************************************************************************)
(* The first n elements of a set in a linear order, and what they may      *)
(* differ by from a set they were before an element came or left.          *)
(***************************************************************************)
First(R, D, n) == {x \in D : Cardinality(Under(R, D, x)) < n}
Closed(R, D, E) == \A x \in E, y \in D : <<y, x>> \in R => y \in E

LEMMA FirstClosed ==
  ASSUME NEW D, IsFiniteSet(D), NEW R, StrictWeak(R, D), NEW n \in Nat
  PROVE  Closed(R, D, First(R, D, n))
<1> SUFFICES ASSUME NEW x \in First(R, D, n), NEW y \in D, <<y, x>> \in R PROVE y \in First(R, D, n)
  BY DEF Closed
<1>1. x \in D /\ Cardinality(Under(R, D, x)) < n
  BY DEF First
<1>2. Cardinality(Under(R, D, y)) < Cardinality(Under(R, D, x))
  BY <1>1, UnderGrows
<1> QED BY <1>1, <1>2, UnderFinite DEF First

LEMMA FirstSize ==
  ASSUME NEW D, IsFiniteSet(D), NEW R, StrictWeak(R, D), Linear(R, D), NEW n \in Nat
  PROVE  /\ n <= Cardinality(D) => Cardinality(First(R, D, n)) = n
         /\ Cardinality(D) <= n => First(R, D, n) = D
         /\ IsFiniteSet(First(R, D, n)) /\ Cardinality(First(R, D, n)) <= n
<1>1. PICK s \in Seq(D) : Distinct(s) /\ Len(s) = Cardinality(D) /\ Sorted(R, s)
  BY CanBeSorted
<1>2. Cardinality(D) \in Nat /\ s \in [1..Len(s) -> D]
  BY LenProperties, FS_CardinalityType
<1>3. Cardinality(D) <= n => First(R, D, n) = D
  <2>1. \A x \in D : Cardinality(Under(R, D, x)) < Cardinality(D) /\ Cardinality(Under(R, D, x)) \in Nat
    BY UnderBound, UnderFinite
  <2> QED BY <1>2, <2>1 DEF First
<1>4. ASSUME n <= Cardinality(D) PROVE Cardinality(First(R, D, n)) = n
  <2>1. First(R, D, n) = {s[i] : i \in 1..n}
    <3>1. \A i \in 1..Len(s) : Cardinality(Under(R, D, s[i])) = i - 1
      BY <1>1, PlaceIs
    <3>2. \A x \in D : \E i \in 1..Len(s) : s[i] = x
      BY <1>1, AllAre
    <3>3. \A i \in 1..n : i \in 1..Len(s) /\ i - 1 < n
      BY <1>1, <1>2, <1>4
    <3>4. \A x \in First(R, D, n) : \E i \in 1..n : x = s[i]
      <4> SUFFICES ASSUME NEW x \in First(R, D, n) PROVE \E i \in 1..n : x = s[i]
        OBVIOUS
      <4>1. x \in D /\ Cardinality(Under(R, D, x)) < n
        BY DEF First
      <4>2. PICK i \in 1..Len(s) : s[i] = x
        BY <3>2, <4>1
      <4>3. i - 1 < n /\ i \in Nat /\ i >= 1
        BY <3>1, <4>1, <4>2
      <4> QED BY <4>2, <4>3
    <3>5. \A i \in 1..n : s[i] \in First(R, D, n)
      BY <1>2, <3>1, <3>3 DEF First
    <3> QED BY <3>4, <3>5
  <2>2. n \in 0..Len(s)
    BY <1>1, <1>2, <1>4
  <2> QED BY <1>1, <2>1, <2>2, FirstAre
<1>5. First(R, D, n) \in SUBSET D
  BY DEF First
<1>6. IsFiniteSet(First(R, D, n))
  BY <1>5, FS_Subset
<1> QED BY <1>2, <1>3, <1>4, <1>6

\* Of two sets that are closed under what comes before, one is in the other.
LEMMA Nested ==
  ASSUME NEW C, NEW R, Linear(R, C), NEW E \in SUBSET C, NEW A \in SUBSET C,
         Closed(R, C, E), Closed(R, C, A)
  PROVE  E \subseteq A \/ A \subseteq E
<1> SUFFICES ASSUME NEW e \in E, e \notin A, NEW a \in A, a \notin E PROVE FALSE
  OBVIOUS
<1>1. <<e, a>> \in R \/ <<a, e>> \in R
  BY DEF Linear
<1> QED BY <1>1 DEF Closed

\* Two finite sets of which one is in the other differ by their sizes.
LEMMA Differ ==
  ASSUME NEW S, IsFiniteSet(S), NEW T \in SUBSET S
  PROVE  /\ IsFiniteSet(S \ T) /\ Cardinality(S \ T) = Cardinality(S) - Cardinality(T)
         /\ Cardinality(S) \in Nat /\ Cardinality(T) \in Nat /\ IsFiniteSet(T)
<1>1. S \cap T = T /\ IsFiniteSet(T)
  BY FS_Subset
<1> QED BY <1>1, FS_Difference, FS_CardinalityType

LEMMA Without ==
  ASSUME NEW S, IsFiniteSet(S), NEW x
  PROVE  /\ IsFiniteSet(S \ {x}) /\ Cardinality(S) \in Nat /\ Cardinality(S \ {x}) \in Nat
         /\ Cardinality(S \ {x}) <= Cardinality(S)
         /\ Cardinality(S) <= Cardinality(S \ {x}) + 1
<1>1. /\ IsFiniteSet(S \ {x})
      /\ Cardinality(S \ {x}) = IF x \in S THEN Cardinality(S) - 1 ELSE Cardinality(S)
  BY FS_RemoveElement
<1>2. Cardinality(S) \in Nat /\ Cardinality(S \ {x}) \in Nat
  BY <1>1, FS_CardinalityType
<1> QED BY <1>1, <1>2

LEMMA Joined ==
  ASSUME NEW S, IsFiniteSet(S), NEW T, IsFiniteSet(T)
  PROVE  /\ IsFiniteSet(S \cup T) /\ Cardinality(S) \in Nat /\ Cardinality(T) \in Nat
         /\ Cardinality(S \cup T) <= Cardinality(S) + Cardinality(T)
<1>1. /\ IsFiniteSet(S \cup T)
      /\ Cardinality(S \cup T) = Cardinality(S) + Cardinality(T) - Cardinality(S \cap T)
  BY FS_Union
<1>2. Cardinality(S \cap T) \in Nat
  BY FS_Intersection, FS_CardinalityType
<1>3. Cardinality(S) \in Nat /\ Cardinality(T) \in Nat
  BY FS_CardinalityType
<1> QED BY <1>1, <1>2, <1>3

\* Such a set E of n or n - 1 elements, or of all, differs by one element at
\* most from the first n of a set with one more.
LEMMA OneOff ==
  ASSUME NEW N, IsFiniteSet(N), NEW R, StrictWeak(R, N), Linear(R, N), NEW w, NEW n \in Nat,
         NEW E \in SUBSET (N \ {w}), Closed(R, N \ {w}, E),
         Cardinality(E) <= n, Cardinality(E) >= n - 1 \/ E = N \ {w}
  PROVE  LET A == First(R, N, n) \ {w}
         IN  /\ IsFiniteSet((E \ A) \cup (A \ E))
             /\ Cardinality((E \ A) \cup (A \ E)) <= 1
<1> DEFINE C == N \ {w}
           A == First(R, N, n) \ {w}
<1>1. /\ IsFiniteSet(C) /\ Cardinality(C) \in Nat /\ Cardinality(N) \in Nat
      /\ Cardinality(C) <= Cardinality(N) /\ Cardinality(N) <= Cardinality(C) + 1
  BY Without
<1>2. A \in SUBSET C /\ First(R, N, n) \in SUBSET N
  BY DEF First
<1>3. Linear(R, C) /\ Closed(R, C, A)
  <2>1. Closed(R, N, First(R, N, n))
    BY FirstClosed
  <2> QED BY <2>1 DEF Closed, Linear
<1>4. /\ IsFiniteSet(A) /\ Cardinality(A) \in Nat /\ Cardinality(A) <= n
      /\ Cardinality(A) >= n - 1 \/ A = C
  <2>1. /\ n <= Cardinality(N) => Cardinality(First(R, N, n)) = n
        /\ Cardinality(N) <= n => First(R, N, n) = N
        /\ IsFiniteSet(First(R, N, n)) /\ Cardinality(First(R, N, n)) <= n
    BY FirstSize
  <2>2. /\ IsFiniteSet(A) /\ Cardinality(A) \in Nat /\ Cardinality(First(R, N, n)) \in Nat
        /\ Cardinality(A) <= Cardinality(First(R, N, n))
        /\ Cardinality(First(R, N, n)) - 1 <= Cardinality(A)
    <3>1. IsFiniteSet(First(R, N, n))
      BY <2>1
    <3>2. /\ IsFiniteSet(A) /\ Cardinality(A) \in Nat
          /\ Cardinality(First(R, N, n)) \in Nat
          /\ Cardinality(A) <= Cardinality(First(R, N, n))
          /\ Cardinality(First(R, N, n)) <= Cardinality(A) + 1
      BY <3>1, Without
    <3> QED BY <3>2
  <2> QED BY <1>1, <2>1, <2>2
<1>5. IsFiniteSet(E) /\ Cardinality(E) \in Nat
  BY <1>1, FS_Subset, FS_CardinalityType
<1>6. E \subseteq A \/ A \subseteq E
  BY <1>2, <1>3, Nested
<1>7. CASE E \subseteq A
  <2>1. (E \ A) \cup (A \ E) = A \ E
    BY <1>7
  <2>2. IsFiniteSet(A \ E) /\ Cardinality(A \ E) = Cardinality(A) - Cardinality(E)
    BY <1>4, <1>7, Differ
  <2>3. Cardinality(A \ E) <= 1
    <3>1. CASE Cardinality(E) >= n - 1
      BY <1>4, <1>5, <2>2, <3>1
    <3>2. CASE E = C
      BY <1>2, <1>7, <2>2, <1>4, <3>2
    <3> QED BY <3>1, <3>2
  <2> QED BY <2>1, <2>2, <2>3
<1>8. CASE A \subseteq E
  <2>1. (E \ A) \cup (A \ E) = E \ A
    BY <1>8
  <2>2. IsFiniteSet(E \ A) /\ Cardinality(E \ A) = Cardinality(E) - Cardinality(A)
    BY <1>5, <1>8, Differ
  <2>3. Cardinality(E \ A) <= 1
    <3>1. CASE Cardinality(A) >= n - 1
      BY <1>4, <1>5, <2>2, <3>1
    <3>2. CASE A = C
      <4>1. E = A
        BY <1>8, <3>2
      <4> QED BY <1>5, <2>2, <4>1
    <3> QED BY <1>4, <3>1, <3>2
  <2> QED BY <2>1, <2>2, <2>3
<1> QED BY <1>6, <1>7, <1>8

\* E was read before the write, what is between the first m and the first n after it.
Slipped(C, E, R, N, m, n) ==
    {x \in C : x \in E <=> x \in First(R, N, n) \ First(R, N, m)}

LEMMA SlipsFew ==
  ASSUME NEW N, IsFiniteSet(N), NEW R, StrictWeak(R, N), Linear(R, N), NEW w,
         NEW m \in Nat, NEW n \in Nat, m <= n,
         NEW E \in SUBSET (N \ {w}), Closed(R, N \ {w}, E),
         Cardinality(E) <= m, Cardinality(E) >= m - 1 \/ E = N \ {w}
  PROVE  LET S == Slipped(N \ {w}, E, R, N, m, n)
         IN  /\ Cardinality(N) <= n => Cardinality(S) <= 1
             /\ Cardinality(N \ {w}) <= n => Cardinality(S) <= 2
<1> DEFINE C == N \ {w}
           A == First(R, N, m) \ {w}
           B == N \ First(R, N, n)
           U == (E \ A) \cup (A \ E)
           S == Slipped(C, E, R, N, m, n)
<1>1. IsFiniteSet(U) /\ Cardinality(U) <= 1 /\ Cardinality(U) \in Nat
  BY OneOff, FS_CardinalityType
<1>2. /\ n <= Cardinality(N) => Cardinality(First(R, N, n)) = n
      /\ Cardinality(N) <= n => First(R, N, n) = N
  BY FirstSize
<1>3. First(R, N, n) \in SUBSET N
  BY DEF First
<1>4. /\ IsFiniteSet(B) /\ Cardinality(B) = Cardinality(N) - Cardinality(First(R, N, n))
      /\ Cardinality(N) \in Nat
  BY <1>3, Differ
<1>5. S \in SUBSET (U \cup B)
  BY DEF Slipped
<1>6. /\ IsFiniteSet(U \cup B) /\ Cardinality(U \cup B) <= Cardinality(U) + Cardinality(B)
      /\ Cardinality(U) \in Nat /\ Cardinality(B) \in Nat
  BY <1>1, <1>4, Joined
<1>7. Cardinality(S) <= Cardinality(U \cup B) /\ Cardinality(S) \in Nat /\ Cardinality(U \cup B) \in Nat
  BY <1>5, <1>6, FS_Subset, FS_CardinalityType
<1>8. ASSUME Cardinality(N) <= n PROVE Cardinality(S) <= 1
  <2>1. Cardinality(B) = 0
    <3>1. B = {}
      BY <1>2, <1>8
    <3> QED BY <3>1, FS_EmptySet
  <2> QED BY <1>1, <1>6, <1>7, <2>1
<1>9. ASSUME Cardinality(C) <= n PROVE Cardinality(S) <= 2
  <2>1. CASE Cardinality(N) <= n
    BY <1>7, <1>8, <2>1
  <2>2. CASE n < Cardinality(N)
    <3>1. Cardinality(N) <= Cardinality(C) + 1 /\ Cardinality(C) \in Nat
      BY Without
    <3>2. Cardinality(B) <= 1
      BY <1>2, <1>4, <1>9, <2>2, <3>1
    <3> QED BY <1>1, <1>6, <1>7, <3>2
  <2> QED BY <1>4, <2>1, <2>2
<1> QED BY <1>8, <1>9

\* Nothing was read after the write.
LEMMA SlipsLast ==
  ASSUME NEW N, IsFiniteSet(N), NEW R, NEW w, NEW n \in Nat,
         NEW E \in SUBSET (N \ {w}), Cardinality(N \ {w}) <= n,
         Cardinality(E) >= n - 1 \/ E = N \ {w}
  PROVE  Cardinality(Slipped(N \ {w}, E, R, N, n, n)) <= 1
<1> DEFINE C == N \ {w}
<1>1. Slipped(C, E, R, N, n, n) = C \ E
  BY DEF Slipped
<1>2. IsFiniteSet(C)
  BY FS_RemoveElement
<1>3. /\ Cardinality(C \ E) = Cardinality(C) - Cardinality(E)
      /\ Cardinality(C) \in Nat /\ Cardinality(E) \in Nat
  BY <1>2, Differ
<1> QED BY <1>1, <1>3

-----------------------------------------------------------------------------
(***************************************************************************)
(* The orders of the listings.  Prior is that of the column sorted by, in  *)
(* which rows may tie; Ahead is that in which pages are cut.               *)
(***************************************************************************)
Found == Near(Matches)

Prior == {p \in Rows \X Rows : Before(p[1], p[2])}
Ahead == {p \in Rows \X Rows : \/ Before(p[1], p[2])
                               \/ /\ q.how = "joined" /\ ~Before(p[2], p[1])
                                  /\ id[p[1]] < id[p[2]]}

Key(r) == CASE q.order = "newest" -> -r
            [] q.order = "id" -> -id[r]
            [] q.order = "high" -> -Rank(r)
            [] q.order = "low" -> Rank(r)
            [] q.order = "near" -> Distance(r)
            [] OTHER -> 0

Tabled ==
    /\ row \in [Rows -> Content] /\ at \in [Rows -> {"coming", "there", "deleted"}]
    /\ id \in [Rows -> Int] /\ \A r, s \in Rows : id[r] = id[s] => r = s

LEMMA RowsAre == IsFiniteSet(Rows) /\ Cardinality(Rows) \in Nat /\ Rows = 1..Cardinality(Rows)
  BY ListingAssumption, FS_CardinalityType

LEMMA Measures ==
  ASSUME Tabled, NEW r \in Rows
  PROVE  Distance(r) \in Int /\ Rank(r) \in Int /\ Key(r) \in Int
<1>1. row[r] \in Content
  BY DEF Tabled
<1>2. Distance(r) \in Int
  BY <1>1, ListingAssumption DEF Distance, Content, Owners, Nowhere
<1>3. Rank(r) \in Int
  BY <1>1 DEF Rank, Content
<1>4. r \in Int /\ id[r] \in Int
  BY RowsAre DEF Tabled
<1> QED BY <1>2, <1>3, <1>4 DEF Key

LEMMA KeyIs ==
  ASSUME Tabled, NEW r \in Rows, NEW s \in Rows
  PROVE  Before(r, s) <=> Key(r) < Key(s)
<1>1. /\ Distance(r) \in Int /\ Rank(r) \in Int /\ Distance(s) \in Int /\ Rank(s) \in Int
      /\ r \in Int /\ s \in Int /\ id[r] \in Int /\ id[s] \in Int
  BY Measures, RowsAre DEF Tabled
<1> QED BY <1>1 DEF Before, Key

LEMMA PriorIs ==
  ASSUME Tabled, NEW rs \in SUBSET Rows
  PROVE  StrictWeak(Prior, rs) /\ IsFiniteSet(rs)
<1>1. \A r, s \in Rows : <<r, s>> \in Prior <=> Key(r) < Key(s)
  BY KeyIs DEF Prior
<1>2. \A r \in Rows : Key(r) \in Int
  BY Measures
<1>3. IsFiniteSet(rs)
  BY RowsAre, FS_Subset
<1> HIDE DEF Key
<1> QED BY <1>1, <1>2, <1>3 DEF StrictWeak

LEMMA AheadIs ==
  ASSUME Tabled, NEW rs \in SUBSET Rows
  PROVE  /\ StrictWeak(Ahead, rs)
         /\ \A p \in Prior : p \in Ahead
         /\ q.how = "joined" => Linear(Ahead, rs)
         /\ q.how # "joined" => Ahead = Prior
<1>1. \A r, s \in Rows : Before(r, s) <=> Key(r) < Key(s)
  BY KeyIs
<1>2. \A r, s \in Rows : /\ <<r, s>> \in Ahead <=> \/ Key(r) < Key(s)
                                                 \/ /\ q.how = "joined" /\ ~(Key(s) < Key(r))
                                                    /\ id[r] < id[s]
  BY <1>1 DEF Ahead
<1>3. \A r \in Rows : Key(r) \in Int /\ id[r] \in Int
  BY Measures DEF Tabled
<1>4. \A p \in Prior : p \in Ahead
  BY DEF Prior, Ahead
<1>5. q.how # "joined" => Ahead = Prior
  BY DEF Prior, Ahead
<1>6. StrictWeak(Ahead, rs)
  <2> SUFFICES ASSUME NEW x \in rs, NEW y \in rs, NEW z \in rs
               PROVE  /\ <<x, x>> \notin Ahead
                      /\ <<x, y>> \in Ahead /\ <<y, z>> \in Ahead => <<x, z>> \in Ahead
                      /\ <<x, y>> \in Ahead => <<x, z>> \in Ahead \/ <<z, y>> \in Ahead
    BY DEF StrictWeak
  <2> DEFINE L(u, v) == Key(u) < Key(v)
                        \/ (q.how = "joined" /\ ~(Key(v) < Key(u)) /\ id[u] < id[v])
  <2>1. x \in Rows /\ y \in Rows /\ z \in Rows
    OBVIOUS
  <2>2. \A u, v \in {x, y, z} : <<u, v>> \in Ahead <=> L(u, v)
    BY <1>2, <2>1
  <2>3. /\ Key(x) \in Int /\ Key(y) \in Int /\ Key(z) \in Int
        /\ id[x] \in Int /\ id[y] \in Int /\ id[z] \in Int
    BY <1>3, <2>1
  <2>4. /\ ~L(x, x)
        /\ L(x, y) /\ L(y, z) => L(x, z)
        /\ L(x, y) => L(x, z) \/ L(z, y)
    BY <2>3
  <2> HIDE DEF L
  <2> QED BY <2>2, <2>4
<1>7. q.how = "joined" => Linear(Ahead, rs)
  <2> SUFFICES ASSUME q.how = "joined", NEW r \in rs, NEW s \in rs, r # s
               PROVE  <<r, s>> \in Ahead \/ <<s, r>> \in Ahead
    BY DEF Linear
  <2>1. id[r] # id[s]
    BY DEF Tabled
  <2> QED BY <1>2, <1>3, <2>1
<1> QED BY <1>4, <1>5, <1>6, <1>7

LEMMA SettledIs ==
  ASSUME Tabled, Settled
  PROVE  Linear(Ahead, Found)
<1>1. Found \in SUBSET Rows
  BY DEF Found, Near, Matches
<1>2. CASE q.how = "joined"
  BY <1>1, <1>2, AheadIs
<1>3. CASE q.how # "joined"
  <2>1. \A r, s \in Found : r # s => Before(r, s) \/ Before(s, r)
    BY <1>3 DEF Settled, Found
  <2> QED BY <1>1, <2>1 DEF Linear, Ahead
<1> QED BY <1>2, <1>3

-----------------------------------------------------------------------------
(***************************************************************************)
(* The pages a listing may give: of some arrangement t of all its rows,    *)
(* those after the first From up to the first UpTo.                        *)
(***************************************************************************)
From == (page - 1) * size
UpTo == page * size
Paged == page \in Nat \ {0} /\ size \in Nat \ {0}

Cut(t) == {t[k] : k \in {k \in 1..Len(t) : From < k /\ k <= UpTo}}

LEMMA Bounds == Paged => From \in Nat /\ UpTo \in Nat /\ UpTo = From + size
<1> SUFFICES ASSUME Paged PROVE From \in Nat /\ UpTo \in Nat /\ UpTo = From + size
  OBVIOUS
<1>1. page - 1 \in Nat /\ size \in Nat /\ page \in Nat
  BY DEF Paged
<1>2. \A a, b \in Nat : a * b \in Nat
  OBVIOUS
<1>3. (page - 1) * size = page * size - size
  BY <1>1
<1>4. From \in Nat /\ UpTo \in Nat
  BY <1>1, <1>2 DEF From, UpTo
<1> QED BY <1>1, <1>3, <1>4 DEF From, UpTo

LEMMA SliceIs ==
  ASSUME Paged, NEW D, NEW s \in Seq(D)
  PROVE  /\ Slice(s) \in Seq(D) /\ Len(Slice(s)) <= size
         /\ \A i \in 1..Len(Slice(s)) : /\ Slice(s)[i] = s[From + i] /\ From + i \in 1..Len(s)
                                        /\ From + i <= UpTo
         /\ ToSet(Slice(s)) = Cut(s)
<1> DEFINE m == From + 1
           n == IF Len(s) < UpTo THEN Len(s) ELSE UpTo
           t == SubSeq(s, m, n)
<1>1. From \in Nat /\ UpTo \in Nat /\ UpTo = From + size /\ Len(s) \in Nat /\ s \in [1..Len(s) -> D]
  BY Bounds, LenProperties
<1>2. Slice(s) = t
  BY DEF Slice, From, UpTo
<1>3. /\ m \in Int /\ n \in Int /\ n <= Len(s) /\ n <= UpTo /\ 1 <= m
      /\ \A i \in m..n : s[i] \in D
  BY <1>1
<1>4. /\ t \in Seq(D)
      /\ Len(t) = IF m <= n THEN n - m + 1 ELSE 0
      /\ \A i \in 1..(n - m + 1) : t[i] = s[m + i - 1]
  BY <1>3, SubSeqProperties
<1>5. size \in Nat \ {0}
  BY DEF Paged
<1> HIDE DEF t
<1>6. Len(t) <= size
  <2>1. n - m + 1 <= size
    BY <1>1, <1>3, <1>5
  <2> HIDE DEF m, n
  <2> QED BY <1>4, <1>5, <2>1
<1>7. \A i \in 1..Len(t) : t[i] = s[From + i] /\ From + i \in 1..Len(s) /\ From + i <= UpTo
  <2> SUFFICES ASSUME NEW i \in 1..Len(t)
               PROVE  t[i] = s[From + i] /\ From + i \in 1..Len(s) /\ From + i <= UpTo
    OBVIOUS
  <2>1. m <= n /\ i \in 1..(n - m + 1) /\ i \in Int
    BY <1>1, <1>3, <1>4
  <2>2. m + i - 1 = From + i /\ From + i <= n /\ From + i >= 1
    BY <1>1, <2>1
  <2> QED BY <1>1, <1>3, <1>4, <2>1, <2>2
<1>8. ToSet(t) = Cut(s)
  <2>1. DOMAIN t = 1..Len(t)
    BY <1>4, LenProperties
  <2>2. ASSUME NEW k \in 1..Len(s), From < k, k <= UpTo
        PROVE  s[k] \in ToSet(t)
    <3>1. k <= n /\ k - From \in 1..(n - m + 1) /\ m <= n /\ k = From + (k - From)
      BY <1>1, <2>2
    <3>2. k - From \in 1..Len(t)
      BY <1>1, <1>3, <1>4, <3>1
    <3>3. t[k - From] = s[k]
      BY <1>7, <3>1, <3>2
    <3> QED BY <2>1, <3>2, <3>3 DEF ToSet
  <2>3. ASSUME NEW i \in 1..Len(t) PROVE t[i] \in Cut(s)
    <3>1. t[i] = s[From + i] /\ From + i \in 1..Len(s) /\ From + i <= UpTo /\ From < From + i
      BY <1>1, <1>4, <1>7
    <3> QED BY <3>1 DEF Cut
  <2> QED BY <2>1, <2>2, <2>3 DEF Cut, ToSet
<1> QED BY <1>2, <1>4, <1>6, <1>7, <1>8

\* An arrangement of a set of rows.
LEMMA ArrangedIs ==
  ASSUME NEW rs \in SUBSET Rows, NEW s \in Arranged(rs)
  PROVE  /\ s \in Seq(rs) /\ Distinct(s) /\ Len(s) = Cardinality(rs)
         /\ Sorted(Prior, s) /\ ToSet(s) = rs
<1>1. IsFiniteSet(rs) /\ Cardinality(rs) \in Nat
  BY RowsAre, FS_Subset, FS_CardinalityType
<1>2. /\ s \in [1..Cardinality(rs) -> rs]
      /\ \A i, j \in 1..Cardinality(rs) : i # j => s[i] # s[j]
      /\ \A i, j \in 1..Len(s) : i < j => ~Before(s[j], s[i])
  BY DEF Arranged, SetToSeqs
<1>3. s \in Seq(rs) /\ Len(s) = Cardinality(rs) /\ DOMAIN s = 1..Len(s)
  BY <1>1, <1>2
<1>4. Distinct(s)
  BY <1>2, <1>3 DEF Distinct
<1>5. Sorted(Prior, s)
  BY <1>2 DEF Sorted, Prior
<1>6. ToSet(s) = rs
  <2>1. \A x \in rs : \E i \in 1..Len(s) : s[i] = x
    BY <1>1, <1>3, <1>4, AllAre
  <2> QED BY <1>2, <1>3, <2>1 DEF ToSet
<1> QED BY <1>3, <1>4, <1>5, <1>6

\* The ids that TypeORM cuts pages from.
LEMMA ByIdIs ==
  ASSUME Tabled, q.how = "joined", NEW rs \in SUBSET Rows
  PROVE  /\ ById(rs) \in Seq(rs) /\ Distinct(ById(rs)) /\ Len(ById(rs)) = Cardinality(rs)
         /\ Sorted(Ahead, ById(rs)) /\ Sorted(Prior, ById(rs))
<1> DEFINE OK(s) == \A i, j \in 1..Len(s) : i < j =>
                Before(s[i], s[j]) \/ (~Before(s[j], s[i]) /\ id[s[i]] < id[s[j]])
<1>1. IsFiniteSet(rs) /\ Cardinality(rs) \in Nat /\ StrictWeak(Ahead, rs) /\ Linear(Ahead, rs)
  BY AheadIs, PriorIs, FS_CardinalityType
<1>2. PICK u \in Seq(rs) : Distinct(u) /\ Len(u) = Cardinality(rs) /\ Sorted(Ahead, u)
  BY <1>1, CanBeSorted
<1>3. u \in SetToSeqs(rs)
  <2>1. u \in [1..Cardinality(rs) -> rs]
    BY <1>2, LenProperties
  <2> QED BY <1>2, <2>1 DEF SetToSeqs, Distinct
<1>4. OK(u)
  <2> SUFFICES ASSUME NEW i \in 1..Len(u), NEW j \in 1..Len(u), i < j
               PROVE  Before(u[i], u[j]) \/ (~Before(u[j], u[i]) /\ id[u[i]] < id[u[j]])
    OBVIOUS
  <2>1. u[i] \in rs /\ u[j] \in rs
    BY ElementOfSeq
  <2>2. u[i] # u[j]
    BY <1>2, <1>1 DEF Distinct
  <2>3. <<u[j], u[i]>> \notin Ahead
    BY <1>2 DEF Sorted
  <2>4. <<u[i], u[j]>> \in Ahead
    BY <1>1, <2>1, <2>2, <2>3 DEF Linear
  <2> QED BY <2>4 DEF Ahead
<1>5. ById(rs) \in SetToSeqs(rs) /\ OK(ById(rs))
  BY <1>3, <1>4 DEF ById
<1> DEFINE s == ById(rs)
<1> HIDE DEF s
<1>6. s \in SetToSeqs(rs) /\ OK(s)
  BY <1>5 DEF s
<1>7. /\ s \in [1..Cardinality(rs) -> rs]
      /\ \A i, j \in 1..Cardinality(rs) : i # j => s[i] # s[j]
  BY <1>6 DEF SetToSeqs
<1>8. s \in Seq(rs) /\ Len(s) = Cardinality(rs) /\ Distinct(s)
  BY <1>1, <1>7 DEF Distinct
<1>9. \A i, j \in 1..Len(s) : i < j => <<s[i], s[j]>> \in Ahead /\ s[i] \in rs /\ s[j] \in rs
  <2> SUFFICES ASSUME NEW i \in 1..Len(s), NEW j \in 1..Len(s), i < j
               PROVE  <<s[i], s[j]>> \in Ahead /\ s[i] \in rs /\ s[j] \in rs
    OBVIOUS
  <2>1. s[i] \in rs /\ s[j] \in rs
    BY <1>8, ElementOfSeq
  <2>2. Before(s[i], s[j]) \/ (~Before(s[j], s[i]) /\ id[s[i]] < id[s[j]])
    BY <1>6
  <2> QED BY <2>1, <2>2 DEF Ahead
<1>10. Sorted(Ahead, s)
  BY <1>1, <1>9 DEF Sorted, StrictWeak
<1>11. Sorted(Prior, s)
  BY <1>10, AheadIs DEF Sorted
<1> QED BY <1>8, <1>10, <1>11 DEF s

LEMMA PageIs ==
  ASSUME Tabled, Paged, NEW rs \in SUBSET Rows, NEW s \in Pages(rs)
  PROVE  /\ s \in Seq(rs) /\ Distinct(s) /\ Len(s) <= size /\ Sorted(Prior, s)
         /\ \E t \in Seq(rs) : /\ Distinct(t) /\ Len(t) = Cardinality(rs) /\ Sorted(Prior, t)
                               /\ Sorted(Ahead, t) /\ ToSet(s) = Cut(t)
<1>1. CASE q.how = "joined"
  <2> DEFINE t == ById(rs)
             c == ToSet(Slice(t))
  <2>1. /\ t \in Seq(rs) /\ Distinct(t) /\ Len(t) = Cardinality(rs)
        /\ Sorted(Ahead, t) /\ Sorted(Prior, t)
    BY <1>1, ByIdIs
  <2> HIDE DEF t
  <2>2. /\ Slice(t) \in Seq(rs) /\ Len(Slice(t)) <= size /\ c = Cut(t)
        /\ \A i \in 1..Len(Slice(t)) : Slice(t)[i] = t[From + i] /\ From + i \in 1..Len(t)
    BY <2>1, SliceIs
  <2>3. c \in SUBSET rs /\ c \in SUBSET Rows
    <3>1. DOMAIN Slice(t) = 1..Len(Slice(t)) /\ Slice(t) \in [1..Len(Slice(t)) -> rs]
      BY <2>2, LenProperties
    <3> QED BY <3>1 DEF ToSet
  <2>4. s \in Arranged(c)
    BY <1>1 DEF Pages, JoinedPages, t
  <2>5. /\ s \in Seq(c) /\ Distinct(s) /\ Len(s) = Cardinality(c)
        /\ Sorted(Prior, s) /\ ToSet(s) = c
    BY <2>3, <2>4, ArrangedIs
  <2>6. s \in Seq(rs)
    BY <2>3, <2>5, SeqMonotonic
  <2>7. Len(s) <= size
    <3>1. Distinct(Slice(t))
      <4> SUFFICES ASSUME NEW i \in 1..Len(Slice(t)), NEW j \in 1..Len(Slice(t)), i # j
                   PROVE  Slice(t)[i] # Slice(t)[j]
        BY DEF Distinct
      <4>1. From + i # From + j
        BY Bounds
      <4> QED BY <2>1, <2>2, <4>1 DEF Distinct
    <3>2. Len(Slice(t)) \in Nat /\ DOMAIN Slice(t) = 1..Len(Slice(t))
      BY <2>2, LenProperties
    <3>3. Cardinality({Slice(t)[i] : i \in 1..Len(Slice(t))}) = Len(Slice(t))
      <4>1. Len(Slice(t)) \in 0..Len(Slice(t))
        BY <3>2
      <4> QED BY <2>2, <3>1, <4>1, FirstAre
    <3>4. c = {Slice(t)[i] : i \in 1..Len(Slice(t))}
      BY <3>2 DEF ToSet
    <3> QED BY <2>2, <2>5, <3>3, <3>4
  <2> QED BY <2>1, <2>2, <2>5, <2>6, <2>7
<1>2. CASE q.how # "joined"
  <2>1. PICK t \in Arranged(rs) : s = Slice(t)
    BY <1>2 DEF Pages, MemoryPages
  <2>2. t \in Seq(rs) /\ Distinct(t) /\ Len(t) = Cardinality(rs) /\ Sorted(Prior, t)
    BY <2>1, ArrangedIs
  <2>3. Sorted(Ahead, t)
    BY <1>2, <2>2, AheadIs
  <2>4. /\ s \in Seq(rs) /\ Len(s) <= size /\ ToSet(s) = Cut(t)
        /\ \A i \in 1..Len(s) : s[i] = t[From + i] /\ From + i \in 1..Len(t)
    BY <2>1, <2>2, SliceIs
  <2>5. From \in Nat /\ Len(s) \in Nat
    BY <2>4, Bounds, LenProperties
  <2>6. Distinct(s)
    <3> SUFFICES ASSUME NEW i \in 1..Len(s), NEW j \in 1..Len(s), i # j PROVE s[i] # s[j]
      BY DEF Distinct
    <3>1. From + i # From + j
      BY <2>5
    <3> QED BY <2>2, <2>4, <3>1 DEF Distinct
  <2>7. Sorted(Prior, s)
    <3> SUFFICES ASSUME NEW i \in 1..Len(s), NEW j \in 1..Len(s), i < j PROVE <<s[j], s[i]>> \notin Prior
      BY DEF Sorted
    <3>1. From + i < From + j
      BY <2>5
    <3> QED BY <2>2, <2>4, <3>1 DEF Sorted
  <2> QED BY <2>2, <2>3, <2>4, <2>6, <2>7
<1> QED BY <1>1, <1>2

\* What is on a page, of the rows it is cut from.
LEMMA PageFacts ==
  ASSUME Tabled, Paged, NEW rs \in SUBSET Rows, NEW s \in Pages(rs)
  PROVE  /\ s \in Seq(rs) /\ Distinct(s) /\ Len(s) <= size /\ Sorted(Prior, s)
         /\ \A x \in ToSet(s) : /\ Cardinality(Under(Prior, rs, x)) < UpTo
                                /\ From < Cardinality(Until(Prior, rs, x))
         /\ Linear(Ahead, rs) => ToSet(s) = First(Ahead, rs, UpTo) \ First(Ahead, rs, From)
<1>1. PICK t \in Seq(rs) : /\ Distinct(t) /\ Len(t) = Cardinality(rs) /\ Sorted(Prior, t)
                           /\ Sorted(Ahead, t) /\ ToSet(s) = Cut(t)
  BY PageIs
<1>2. IsFiniteSet(rs) /\ StrictWeak(Prior, rs) /\ StrictWeak(Ahead, rs)
  BY PriorIs, AheadIs
<1>3. From \in Nat /\ UpTo \in Nat /\ UpTo = From + size /\ Len(t) \in Nat
  BY Bounds, LenProperties
<1>4. ASSUME NEW x \in ToSet(s)
      PROVE  /\ Cardinality(Under(Prior, rs, x)) < UpTo
             /\ From < Cardinality(Until(Prior, rs, x))
  <2>1. PICK k \in 1..Len(t) : x = t[k] /\ From < k /\ k <= UpTo
    BY <1>1, <1>4 DEF Cut
  <2>2. Cardinality(Under(Prior, rs, x)) < k /\ k <= Cardinality(Until(Prior, rs, x))
    BY <1>1, <1>2, <2>1, PlaceOf
  <2>3. Cardinality(Under(Prior, rs, x)) \in Nat /\ Cardinality(Until(Prior, rs, x)) \in Nat
    BY <1>2, UnderFinite
  <2> QED BY <1>3, <2>1, <2>2, <2>3
<1>5. ASSUME Linear(Ahead, rs)
      PROVE  Cut(t) = First(Ahead, rs, UpTo) \ First(Ahead, rs, From)
  <2>1. \A k \in 1..Len(t) : Cardinality(Under(Ahead, rs, t[k])) = k - 1 /\ t[k] \in rs
    BY <1>1, <1>2, <1>5, PlaceIs, ElementOfSeq
  <2>2. \A x \in rs : \E k \in 1..Len(t) : t[k] = x
    BY <1>1, <1>2, AllAre
  <2>3. \A k \in 1..Len(t) : t[k] \in First(Ahead, rs, UpTo) \ First(Ahead, rs, From)
                               <=> From < k /\ k <= UpTo
    BY <1>3, <2>1 DEF First
  <2>4. First(Ahead, rs, UpTo) \in SUBSET rs
    BY DEF First
  <2> QED BY <2>2, <2>3, <2>4 DEF Cut
<1> QED BY <1>1, <1>4, <1>5, PageIs

-----------------------------------------------------------------------------
(***************************************************************************)
(* The types of what a client asks for and is given.                       *)
(***************************************************************************)
Kinds ==
    /\ q.near => q.how = "memory"
    /\ q.how = "memory" => q.first = "page"
    /\ q.first \in {"page", "total"}

\* No query sorted by the database looks for what is near, and no search in
\* memory counts first.
LEMMA ListingsAre ==
  ASSUME NEW l \in Listings
  PROVE  /\ l.near => l.how = "memory"
         /\ l.how = "memory" => l.first = "page"
         /\ l.first \in {"page", "total"}
<1> DEFINE OK(x) == /\ x.near => x.how = "memory"
                    /\ x.how = "memory" => x.first = "page"
                    /\ x.first \in {"page", "total"}
<1>1. \A r : OK(FindAllFoods(r)) /\ OK(FindByRestaurant(r)) /\ OK(FindByCategory(r))
  BY DEF FindAllFoods, FindByRestaurant, FindByCategory, All
<1>2. \A r : OK(FindByRestaurantAndCategory(r)) /\ OK(SearchFoodsForStore(r))
  BY DEF FindByRestaurantAndCategory, FindByRestaurant, SearchFoodsForStore, All
<1>3. \A r : OK(FindAllForStore(r))
  <2> HIDE DEF OK
  <2> QED BY <1>1, <1>2 DEF FindAllForStore
<1>4. \A r : OK(FindTopSelling(r)) /\ OK(FindNewest(r)) /\ OK(SearchFoods(r)) /\ OK(FindByName(r))
  BY DEF FindTopSelling, FindNewest, SearchFoods, FindByName, All
<1>5. \A r : OK(SearchRestaurants(r)) /\ OK(FindRestaurants(r)) /\ OK(GetRestaurantRequests(r))
  BY DEF SearchRestaurants, FindRestaurants, GetRestaurantRequests, All
<1>6. \A r : OK(GetTopRestaurants(r)) /\ OK(GetPreview(r)) /\ OK(GetPromotions(r)) /\ OK(FindCategories(r))
  BY DEF GetTopRestaurants, GetPreview, GetPromotions, FindCategories, All
<1>7. \A r : OK(FindTopSellingByRestaurant(r)) /\ OK(GetReviewsByFood(r)) /\ OK(GetOrdersByUser(r))
  BY DEF FindTopSellingByRestaurant, GetReviewsByFood, GetOrdersByUser, All
<1>8. \A r : OK(GetOrdersByRestaurant(r)) /\ OK(GetUserConversations(r)) /\ OK(GetConversationMessages(r))
  BY DEF GetOrdersByRestaurant, GetOrdersByUser, GetUserConversations, GetConversationMessages, All
<1>9. \A r : OK(FindByCategoryAndRestaurant(r))
  BY DEF FindByCategoryAndRestaurant, All
<1>10. OK(l)
  <2> HIDE DEF OK
  <2> DEFINE P(r) == {FindTopSelling(r), FindNewest(r), SearchFoods(r), FindByName(r),
                     SearchRestaurants(r), FindRestaurants(r), GetRestaurantRequests(r),
                     GetTopRestaurants(r), GetPreview(r), GetPromotions(r), FindCategories(r)}
             Q(r) == {FindTopSellingByRestaurant(r), GetReviewsByFood(r), GetOrdersByUser(r),
                     GetOrdersByRestaurant(r), GetUserConversations(r), GetConversationMessages(r)}
             some == {r \in Request : r.of # Anything}
             both == {r \in some : r.group # Anything}
  <2>a. Listings = {FindAllForStore(r) : r \in Request} \cup (UNION {P(r) : r \in Request})
                   \cup (UNION {Q(r) : r \in some}) \cup {FindByCategoryAndRestaurant(r) : r \in both}
    BY Zenon DEF Listings
  <2>1. \/ \E r \in Request : l = FindAllForStore(r)
        \/ \E r \in Request : l \in P(r)
        \/ \E r \in some : l \in Q(r)
        \/ \E r \in both : l = FindByCategoryAndRestaurant(r)
    <3> HIDE DEF P, Q, some, both
    <3> QED BY <2>a
  <2>2. ASSUME NEW r,
               l \in {FindTopSelling(r), FindNewest(r), SearchFoods(r), FindByName(r),
                     SearchRestaurants(r), FindRestaurants(r), GetRestaurantRequests(r),
                     GetTopRestaurants(r), GetPreview(r), GetPromotions(r), FindCategories(r)}
        PROVE  OK(l)
    BY <1>4, <1>5, <1>6, <2>2
  <2>3. ASSUME NEW r,
               l \in {FindTopSellingByRestaurant(r), GetReviewsByFood(r), GetOrdersByUser(r),
                     GetOrdersByRestaurant(r), GetUserConversations(r), GetConversationMessages(r)}
        PROVE  OK(l)
    BY <1>7, <1>8, <2>3
  <2> QED BY <1>3, <1>9, <2>1, <2>2, <2>3
<1> QED BY <1>10

ListTyped ==
    /\ ListingTypeOK /\ Tabled /\ Paged /\ Kinds
    /\ pc \in {"asked", "counted", "done", "failed"} => items = << >>
    /\ pc = "counted" => q.first = "total" /\ q.how # "memory"
    /\ pc = "read" => q.first = "page" /\ q.how # "memory"
    /\ writes = 0 <=> touched = {}
    /\ writes = 1 => \E w \in Rows : touched = {w}

\* What the client has been given and is being given, and up to where.
Given == got \o items
Taken == IF pc \in {"read", "given", "done"} THEN UpTo ELSE From

\* While nothing is written a client has been given the rows up to there.
Clean ==
    /\ Given \in Seq(Found)
    /\ \A i \in 1..Len(Given) : Cardinality(Under(Prior, Found, Given[i])) < Taken
    /\ ~q.flip => Sorted(Prior, Given)
    /\ ~tied => \A x \in Rows : Count(Given, x) = IF x \in First(Ahead, Found, Taken) THEN 1 ELSE 0
    /\ pc \in {"counted", "given", "done"} => total = Cardinality(Found)
    /\ pc = "done" => total <= Taken
    /\ Taken > 0 /\ ~tied => Settled

\* When w is written E has been given, of the m rows taken; then those from m on.
Slip(w) ==
    \E m \in 0..Taken, E \in SUBSET (Found \ {w}) :
        /\ Closed(Ahead, Found \ {w}, E)
        /\ Cardinality(E) <= m
        /\ Cardinality(E) >= m - 1 \/ E = Found \ {w}
        /\ \A x \in Found \ {w} :
              Count(Given, x) = (IF x \in E THEN 1 ELSE 0)
                  + (IF x \in First(Ahead, Found, Taken) \ First(Ahead, Found, m) THEN 1 ELSE 0)
        /\ pc \in {"counted", "given", "done"} => total >= Cardinality(Found \ {w})
        /\ q.first # "total" /\ m < Taken /\ pc \in {"given", "done"} => total >= Cardinality(Found)
        /\ m < Taken => Settled
        /\ pc = "done" => total <= Taken

ListInv ==
    /\ ListTyped
    /\ writes = 0 /\ lost = {} => Clean
    /\ writes = 1 /\ lost = {} /\ ~tied => \A w \in touched : Slip(w)

LEMMA TypedInit == ListingInit => ListTyped
<1> SUFFICES ASSUME ListingInit PROVE ListTyped
  OBVIOUS
<1> USE DEF ListingInit
<1>1. Cardinality(Rows) \in Nat /\ Rows = 1..Cardinality(Rows)
  BY RowsAre
<1>2. row \in [Rows -> Content]
  BY ListingAssumption
<1>3. at \in [Rows -> {"coming", "there", "deleted"}]
  OBVIOUS
<1>4. id \in [Rows -> Int] /\ \A r, s \in Rows : id[r] = id[s] => r = s
  BY <1>1
<1>5. size \in Nat \ {0} /\ Paged
  BY ListingAssumption DEF Paged
<1>6. items = << >> /\ got = << >> /\ items \in Seq(Rows) /\ got \in Seq(Rows) /\ Len(items) = 0
  OBVIOUS
<1>7. ListingTypeOK
  <2>1. page \in 1..(Cardinality(Rows) + 1) /\ total \in 0..Cardinality(Rows) /\ writes \in 0..MaxWrites
    BY <1>1, ListingAssumption
  <2>2. Len(items) <= size
    BY <1>5, <1>6
  <2>3. pc = "asked" /\ touched = {} /\ tied = FALSE /\ lost = {}
    OBVIOUS
  <2> HIDE DEF ListingInit
  <2> QED BY <1>2, <1>3, <1>6, <2>1, <2>2, <2>3 DEF ListingTypeOK
<1>8. Kinds
  BY ListingsAre DEF Kinds
<1> QED BY <1>2, <1>3, <1>4, <1>5, <1>6, <1>7, <1>8 DEF ListTyped, Tabled

\* The rows found, and how many.
LEMMA FoundIs ==
  /\ Found \in SUBSET Rows /\ Matches \in SUBSET Rows
  /\ \A rs \in SUBSET Rows : IsFiniteSet(rs) /\ Cardinality(rs) \in 0..Cardinality(Rows)
<1>1. Found \in SUBSET Rows /\ Matches \in SUBSET Rows
  BY DEF Found, Near, Matches
<1>2. \A rs \in SUBSET Rows : IsFiniteSet(rs) /\ Cardinality(rs) \in 0..Cardinality(Rows)
  BY RowsAre, FS_Subset, FS_CardinalityType
<1> QED BY <1>1, <1>2

\* What a page does to the types.
LEMMA TypedPage ==
  ASSUME Tabled, Paged, NEW rs \in SUBSET Rows, NEW s \in Pages(rs)
  PROVE  /\ s \in Seq(Rows) /\ Len(s) <= size
         /\ Reverse(s) \in Seq(Rows) /\ Len(Reverse(s)) <= size
<1>1. s \in Seq(rs) /\ Distinct(s) /\ Len(s) <= size
  BY PageFacts
<1>2. s \in Seq(Rows)
  BY <1>1, SeqMonotonic
<1> QED BY <1>1, <1>2, ReverseIs

LEMMA TypedStep == ListTyped /\ [ListingNext]_listingVars => ListTyped'
<1> SUFFICES ASSUME ListTyped, [ListingNext]_listingVars PROVE ListTyped'
  OBVIOUS
<1> USE DEF ListTyped
<1>1. Cardinality(Rows) \in Nat /\ Rows = 1..Cardinality(Rows)
  BY RowsAre
<1>2. CASE UNCHANGED listingVars
  BY <1>2 DEF listingVars, ListingTypeOK, Tabled, Paged, Kinds
<1>3. CASE ReadPage
  <2>1. PICK s \in Pages(Matches) :
          IF Fails(s) THEN pc' = "failed" /\ UNCHANGED items
          ELSE /\ items' = IF q.flip THEN Reverse(s) ELSE s
               /\ pc' = IF q.first = "page" THEN "read" ELSE "given"
    BY <1>3 DEF ReadPage
  <2>2. /\ s \in Seq(Rows) /\ Len(s) <= size /\ Reverse(s) \in Seq(Rows) /\ Len(Reverse(s)) <= size
    BY FoundIs, TypedPage
  <2>3. items = << >> /\ items' \in Seq(Rows) /\ Len(items') <= size
    BY <1>3, <2>1, <2>2 DEF ReadPage, ListingTypeOK
  <2>4. /\ pc' \in {"failed", "read", "given"}
        /\ pc' = "failed" => items' = << >>
        /\ pc' = "read" => q.first = "page" /\ q.how # "memory"
    BY <1>3, <2>1, <2>3 DEF ReadPage
  <2>5. tied' \in BOOLEAN
    BY <1>3 DEF ReadPage, ListingTypeOK
  <2>6. UNCHANGED <<row, at, id, q, size, page, got, touched, writes, total, lost>>
    BY <1>3 DEF ReadPage, Asked
  <2> QED BY <2>3, <2>4, <2>5, <2>6 DEF ListingTypeOK, Tabled, Paged, Kinds
<1>4. CASE ReadTotal
  <2>1. total' \in 0..Cardinality(Rows)
    BY <1>4, FoundIs DEF ReadTotal
  <2>2. /\ pc' \in {"counted", "given"} /\ q.how # "memory"
        /\ pc' = "counted" => q.first = "total" /\ pc = "asked"
    BY <1>4 DEF ReadTotal
  <2>3. UNCHANGED <<row, at, id, q, size, page, got, touched, writes, items, tied, lost>>
    BY <1>4 DEF ReadTotal, Asked
  <2> QED BY <2>1, <2>2, <2>3 DEF ListingTypeOK, Tabled, Paged, Kinds
<1>5. CASE ReadAll
  <2>1. UNCHANGED <<row, at, id, q, size, page, got, touched, writes>> /\ pc = "asked"
    BY <1>5 DEF ReadAll, Asked
  <2>2. tied' \in BOOLEAN
    BY <1>5 DEF ReadAll, ListingTypeOK
  <2>3. CASE pc' = "failed" /\ UNCHANGED <<items, total, lost>>
    BY <2>1, <2>2, <2>3 DEF ListingTypeOK, Tabled, Paged, Kinds
  <2>4. ASSUME NEW gone \in IF q.routed THEN {{}} \cup {{r} : r \in Near(Matches)} ELSE {{}},
               items' \in Pages(Near(Matches) \ gone),
               total' = Cardinality(Near(Matches) \ gone),
               lost' = lost \cup gone, pc' = "given"
        PROVE  ListTyped'
    <3>1. Found \ gone \in SUBSET Rows /\ gone \in SUBSET Rows
      BY FoundIs DEF Found
    <3>2. items' \in Seq(Rows) /\ Len(items') <= size
      BY <2>4, <3>1, TypedPage DEF Found
    <3>3. total' \in 0..Cardinality(Rows)
      BY <2>4, <3>1, FoundIs DEF Found
    <3>4. lost' \in SUBSET Rows
      BY <2>4, <3>1 DEF ListingTypeOK
    <3>5. pc' = "given"
      BY <2>4
    <3> QED BY <2>1, <2>2, <3>2, <3>3, <3>4, <3>5 DEF ListingTypeOK, Tabled, Paged, Kinds
  <2> QED BY <1>5, <2>3, <2>4 DEF ReadAll
<1>6. CASE Turn
  <2>1. got' \in Seq(Rows) /\ items' = << >> /\ items' \in Seq(Rows) /\ Len(items') = 0
    BY <1>6, ConcatProperties DEF Turn, ListingTypeOK
  <2>2. total' \in 0..Cardinality(Rows)
    BY <1>1, <1>6 DEF Turn, ListingTypeOK
  <2>3. page' \in 1..(Cardinality(Rows) + 1) /\ pc' \in {"asked", "done"}
    <3>1. CASE page * size < total
      <4>1. \A a, b \in Nat : b # 0 => a <= a * b
        OBVIOUS
      <4>2. page \in Nat /\ size \in Nat /\ size # 0 /\ page * size \in Nat
        BY DEF Paged
      <4>3. page <= page * size
        BY <4>1, <4>2
      <4>4. page' = page + 1 /\ pc' = "asked"
        BY <1>6, <3>1 DEF Turn
      <4>5. total <= Cardinality(Rows) /\ total \in Nat
        BY <1>1 DEF ListingTypeOK
      <4> HIDE DEF ListTyped
      <4> DEFINE n == page * size
      <4>6. page <= n /\ n < total /\ n \in Nat
        BY <3>1, <4>2, <4>3
      <4> HIDE DEF n
      <4> QED BY <1>1, <4>2, <4>4, <4>5, <4>6
    <3>2. CASE ~(page * size < total)
      BY <1>6, <3>2 DEF Turn, ListingTypeOK
    <3> QED BY <3>1, <3>2
  <2>4. UNCHANGED <<row, at, id, q, size, touched, writes, tied, lost>>
    BY <1>6 DEF Turn
  <2>5. page' \in Nat \ {0} /\ size' \in Nat \ {0}
    BY <1>1, <2>3, <2>4 DEF Paged
  <2> QED BY <2>1, <2>2, <2>3, <2>4, <2>5 DEF ListingTypeOK, Tabled, Paged, Kinds
<1>7. ASSUME NEW r \in Rows, Write(r) PROVE ListTyped'
  <2>1. /\ UNCHANGED <<id, q, size, page, pc, items, total, got, tied, lost>>
        /\ writes < MaxWrites /\ touched' = touched \cup {r} /\ writes' = writes + 1
    BY <1>7 DEF Write
  <2>2. row' \in [Rows -> Content] /\ at' \in [Rows -> {"coming", "there", "deleted"}]
    BY <1>7, ListingAssumption DEF Write, ListingTypeOK
  <2>3. /\ writes' \in 0..MaxWrites /\ touched' \in SUBSET Rows /\ touched' # {} /\ writes' # 0
        /\ writes' = 1 => touched' = {r}
    BY <2>1, ListingAssumption DEF ListingTypeOK
  <2>4. ListingTypeOK' /\ Tabled' /\ Paged' /\ Kinds'
    BY <2>1, <2>2, <2>3 DEF ListingTypeOK, Tabled, Paged, Kinds
  <2>5. writes' = 1 => \E w \in Rows : touched' = {w}
    BY <2>3
  <2> QED BY <2>1, <2>3, <2>4, <2>5
<1> QED BY <1>2, <1>3, <1>4, <1>5, <1>6, <1>7 DEF ListingNext

(* Every page holds rows of the table and no more than were asked for, a   *)
(* total counts rows, and a client stops asking by the page after the last *)
(* row: what findAll and the other listings return, whatever is written.   *)
THEOREM ListingTypeCorrect == ListingSpec => []ListingTypeOK
<1>1. ListTyped => ListingTypeOK
  BY DEF ListTyped
<1> QED BY TypedInit, TypedStep, <1>1, PTL DEF ListingSpec

-----------------------------------------------------------------------------
(***************************************************************************)
(* What the client is given while nothing is written.                      *)
(***************************************************************************)
LEMMA Same ==
  UNCHANGED <<row, at, id, q>> =>
      /\ Found' = Found /\ Prior' = Prior /\ Ahead' = Ahead /\ Settled' = Settled
<1> SUFFICES ASSUME UNCHANGED <<row, at, id, q>>
             PROVE  /\ Found' = Found /\ Prior' = Prior /\ Ahead' = Ahead /\ Settled' = Settled
  OBVIOUS
<1>1. Matches' = Matches
  BY DEF Matches
<1>2. \A r : Distance(r)' = Distance(r) /\ Rank(r)' = Rank(r)
  BY DEF Distance, Rank
<1>3. Found' = Found
  BY <1>1, <1>2 DEF Found, Near
<1>4. \A r, s : Before(r, s)' = Before(r, s)
  BY <1>2 DEF Before
<1>5. Prior' = Prior /\ Ahead' = Ahead
  BY <1>4 DEF Prior, Ahead
<1>6. Settled' = Settled
  BY <1>3, <1>4 DEF Settled, Found
<1> QED BY <1>3, <1>5, <1>6

\* A search near a place is made in memory.
LEMMA FoundThere == Kinds /\ q.how # "memory" => Found = Matches
  BY DEF Kinds, Found, Near

\* A page of the rows found, in order or turned round.
LEMMA PageCounts ==
  ASSUME Tabled, Paged, NEW s \in Pages(Found), NEW t, t = s \/ t = Reverse(s)
  PROVE  /\ t \in Seq(Found) /\ (t = s => Sorted(Prior, t))
         /\ \A i \in 1..Len(t) : /\ Cardinality(Under(Prior, Found, t[i])) < UpTo
                                 /\ From < Cardinality(Until(Prior, Found, t[i]))
         /\ Linear(Ahead, Found) =>
              \A x \in Rows : Count(t, x) =
                IF x \in First(Ahead, Found, UpTo) \ First(Ahead, Found, From) THEN 1 ELSE 0
<1>1. /\ s \in Seq(Found) /\ Distinct(s) /\ Sorted(Prior, s)
      /\ \A x \in ToSet(s) : /\ Cardinality(Under(Prior, Found, x)) < UpTo
                             /\ From < Cardinality(Until(Prior, Found, x))
      /\ Linear(Ahead, Found) =>
            ToSet(s) = First(Ahead, Found, UpTo) \ First(Ahead, Found, From)
  BY FoundIs, PageFacts
<1>2. t \in Seq(Found) /\ Distinct(t) /\ ToSet(t) = ToSet(s)
  BY <1>1, ReverseIs
<1>3. \A i \in 1..Len(t) : t[i] \in ToSet(s)
  BY <1>2 DEF ToSet
<1>4. \A x : Count(t, x) = IF x \in ToSet(s) THEN 1 ELSE 0
  <2> SUFFICES ASSUME NEW x PROVE Count(t, x) = IF x \in ToSet(s) THEN 1 ELSE 0
    OBVIOUS
  <2>1. CASE x \in ToSet(s)
    <3>1. PICK i \in 1..Len(t) : t[i] = x
      BY <1>2, <2>1 DEF ToSet
    <3> QED BY <1>2, <2>1, <3>1, CountOnce
  <2>2. CASE x \notin ToSet(s)
    BY <1>2, <1>3, <2>2, CountNone
  <2> QED BY <2>1, <2>2
<1> QED BY <1>1, <1>2, <1>3, <1>4

\* The page after those given.
LEMMA NextPage ==
  ASSUME Tabled, Paged, NEW s \in Pages(Found), NEW t, t = s \/ t = Reverse(s),
         NEW g \in Seq(Found), \A i \in 1..Len(g) : Cardinality(Under(Prior, Found, g[i])) < From
  PROVE  /\ g \o t \in Seq(Found)
         /\ \A i \in 1..Len(g \o t) : Cardinality(Under(Prior, Found, (g \o t)[i])) < UpTo
         /\ t = s /\ Sorted(Prior, g) => Sorted(Prior, g \o t)
<1>1. /\ t \in Seq(Found) /\ (t = s => Sorted(Prior, t))
      /\ \A i \in 1..Len(t) : /\ Cardinality(Under(Prior, Found, t[i])) < UpTo
                              /\ From < Cardinality(Until(Prior, Found, t[i]))
  BY PageCounts
<1>2. /\ Len(g) \in Nat /\ Len(t) \in Nat /\ Len(g \o t) = Len(g) + Len(t) /\ g \o t \in Seq(Found)
      /\ \A i \in 1..(Len(g) + Len(t)) :
            (g \o t)[i] = IF i <= Len(g) THEN g[i] ELSE t[i - Len(g)]
  BY <1>1, LenProperties, ConcatProperties
<1>3. From \in Nat /\ UpTo \in Nat /\ From <= UpTo /\ IsFiniteSet(Found) /\ StrictWeak(Prior, Found)
  BY FoundIs, PriorIs, Bounds DEF Paged
<1>4. \A i \in 1..Len(g \o t) : Cardinality(Under(Prior, Found, (g \o t)[i])) < UpTo
  <2> SUFFICES ASSUME NEW i \in 1..Len(g \o t)
               PROVE  Cardinality(Under(Prior, Found, (g \o t)[i])) < UpTo
    OBVIOUS
  <2>1. CASE i <= Len(g)
    <3>1. Cardinality(Under(Prior, Found, g[i])) < From /\ (g \o t)[i] = g[i]
      BY <1>2, <2>1
    <3>2. Cardinality(Under(Prior, Found, g[i])) \in Nat
      BY <1>3, UnderFinite
    <3> QED BY <1>3, <3>1, <3>2
  <2>2. CASE i > Len(g)
    <3>1. i - Len(g) \in 1..Len(t) /\ (g \o t)[i] = t[i - Len(g)]
      BY <1>2, <2>2
    <3> QED BY <1>1, <3>1
  <2> QED BY <1>2, <2>1, <2>2
<1>5. ASSUME t = s, Sorted(Prior, g) PROVE Sorted(Prior, g \o t)
  <2> SUFFICES ASSUME NEW i \in 1..Len(g \o t), NEW j \in 1..Len(g \o t), i < j
               PROVE  <<(g \o t)[j], (g \o t)[i]>> \notin Prior
    BY DEF Sorted
  <2>0. i \in Nat /\ j \in Nat
    OBVIOUS
  <2>1. CASE j <= Len(g)
    <3>1. /\ i \in 1..Len(g) /\ j \in 1..Len(g)
          /\ (g \o t)[i] = g[i] /\ (g \o t)[j] = g[j]
      BY <1>2, <2>0, <2>1
    <3> QED BY <1>5, <3>1 DEF Sorted
  <2>2. CASE i > Len(g)
    <3>1. /\ i - Len(g) \in 1..Len(t) /\ j - Len(g) \in 1..Len(t) /\ i - Len(g) < j - Len(g)
          /\ (g \o t)[i] = t[i - Len(g)] /\ (g \o t)[j] = t[j - Len(g)]
      BY <1>2, <2>0, <2>2
    <3>2. Sorted(Prior, t)
      BY <1>1, <1>5
    <3>3. <<t[j - Len(g)], t[i - Len(g)]>> \notin Prior
      BY <3>1, <3>2 DEF Sorted
    <3> QED BY <3>1, <3>3
  <2>3. CASE i <= Len(g) /\ j > Len(g)
    <3> DEFINE x == g[i]
               y == t[j - Len(g)]
    <3>1. /\ i \in 1..Len(g) /\ j - Len(g) \in 1..Len(t)
          /\ (g \o t)[i] = x /\ (g \o t)[j] = y
      BY <1>2, <2>0, <2>3
    <3>2. /\ Cardinality(Under(Prior, Found, x)) < From /\ From < Cardinality(Until(Prior, Found, y))
          /\ x \in Found /\ y \in Found
      BY <1>1, <3>1, ElementOfSeq
    <3>3. Cardinality(Under(Prior, Found, x)) \in Nat /\ Cardinality(Until(Prior, Found, y)) \in Nat
      BY <1>3, UnderFinite
    <3> HIDE DEF x, y
    <3>4. <<y, x>> \in Prior => Cardinality(Until(Prior, Found, y)) <= Cardinality(Under(Prior, Found, x))
      BY <1>3, <3>2, UnderGrows
    <3>5. <<y, x>> \notin Prior
      BY <1>3, <3>2, <3>3, <3>4
    <3> QED BY <3>1, <3>5
  <2>4. (i <= Len(g) \/ i > Len(g)) /\ (j <= Len(g) \/ j > Len(g))
    BY <1>2, <2>0
  <2> QED BY <2>1, <2>2, <2>3, <2>4
<1> QED BY <1>2, <1>4, <1>5

\* How often each row has then been given.
LEMMA NextCount ==
  ASSUME Tabled, Paged, Settled, NEW s \in Pages(Found), NEW t, t = s \/ t = Reverse(s),
         NEW g \in Seq(Rows), NEW x \in Rows
  PROVE  Count(g \o t, x) = Count(g, x)
           + IF x \in First(Ahead, Found, UpTo) \ First(Ahead, Found, From) THEN 1 ELSE 0
<1>1. Linear(Ahead, Found)
  BY SettledIs
<1>2. t \in Seq(Found) /\ Count(t, x) =
           IF x \in First(Ahead, Found, UpTo) \ First(Ahead, Found, From) THEN 1 ELSE 0
  BY <1>1, PageCounts
<1>3. t \in Seq(Rows)
  BY <1>2, FoundIs, SeqMonotonic
<1> QED BY <1>2, <1>3, CountConcat

\* The rows before From are before UpTo.
LEMMA FirstGrows ==
  ASSUME NEW D, IsFiniteSet(D), NEW R, NEW m \in Nat, NEW n \in Nat, m <= n
  PROVE  First(R, D, m) \subseteq First(R, D, n)
<1> SUFFICES ASSUME NEW x \in D, Cardinality(Under(R, D, x)) < m
             PROVE  Cardinality(Under(R, D, x)) < n
  BY DEF First
<1>1. Cardinality(Under(R, D, x)) \in Nat
  BY UnderFinite
<1> QED BY <1>1

LEMMA TakenIs == Paged => Taken \in Nat /\ From \in Nat /\ UpTo \in Nat /\ From <= UpTo
  BY Bounds DEF Taken, Paged

\* No row is before the first.
LEMMA FirstNone ==
  ASSUME NEW D, IsFiniteSet(D), NEW R
  PROVE  First(R, D, 0) = {}
<1> SUFFICES ASSUME NEW x \in D PROVE ~(Cardinality(Under(R, D, x)) < 0)
  BY DEF First
<1>1. Cardinality(Under(R, D, x)) \in Nat
  BY UnderFinite
<1> QED BY <1>1

LEMMA CleanInit == ListingInit /\ ListTyped => Clean
<1> SUFFICES ASSUME ListingInit, ListTyped PROVE Clean
  OBVIOUS
<1>1. /\ pc = "asked" /\ page = 1 /\ items = << >> /\ got = << >>
  BY DEF ListingInit
<1>2. Given = << >> /\ Given \in Seq(Found) /\ Given \in Seq(Rows) /\ Len(Given) = 0
  BY <1>1 DEF Given
<1>3. Taken = 0
  BY <1>1 DEF Taken, From, ListTyped, Paged
<1>4. First(Ahead, Found, Taken) = {}
  BY <1>3, FoundIs, FirstNone
<1>5. \A x \in Rows : Count(Given, x) = 0
  <2>1. \A x : \A i \in 1..Len(Given) : Given[i] # x
    BY <1>2
  <2> QED BY <1>2, <2>1, CountNone
<1>6. Sorted(Prior, Given)
  BY <1>2 DEF Sorted
<1> QED BY <1>1, <1>2, <1>3, <1>4, <1>5, <1>6 DEF Clean

\* The next page starts where the one given ends.
LEMMA LaterStart ==
  ASSUME Paged, Turn
  PROVE  IF pc' \in {"read", "given", "done"} THEN UpTo' = UpTo ELSE From' = UpTo
<1>1. CASE page * size < total
  <2>1. page' = page + 1 /\ pc' = "asked" /\ size' = size
    BY <1>1 DEF Turn
  <2>2. (page' - 1) = page
    BY <2>1 DEF Paged
  <2> QED BY <2>1, <2>2 DEF From, UpTo
<1>2. CASE ~(page * size < total)
  <2>1. pc' = "done" /\ page' = page /\ size' = size
    BY <1>2 DEF Turn
  <2> QED BY <2>1 DEF UpTo
<1> QED BY <1>1, <1>2

LEMMA CleanStep ==
  ASSUME ListTyped, ListTyped', [ListingNext]_listingVars,
         writes = 0, lost = {}, writes' = 0, lost' = {}, Clean
  PROVE  Clean'
<1>0. /\ Tabled /\ Paged /\ Kinds /\ IsFiniteSet(Found) /\ Found \in SUBSET Rows
      /\ pc \in {"asked", "read", "counted", "given", "done", "failed"} /\ got \in Seq(Rows)
      /\ pc \in {"asked", "counted", "done", "failed"} => items = << >>
  BY FoundIs DEF ListTyped, ListingTypeOK
<1>1. CASE UNCHANGED listingVars
  <2>1. UNCHANGED <<row, at, id, q, size, page, pc, items, got, total, tied>>
    BY <1>1 DEF listingVars
  <2>2. Found' = Found /\ Prior' = Prior /\ Ahead' = Ahead /\ Settled' = Settled
    BY <2>1, Same
  <2>3. Given' = Given /\ Taken' = Taken
    BY <2>1 DEF Given, Taken, From, UpTo
  <2> QED BY <2>1, <2>2, <2>3 DEF Clean
<1> DEFINE Adds(s, t) ==
      /\ s \in Pages(Found) /\ (t = s \/ t = Reverse(s)) /\ (~q.flip => t = s)
      /\ items' = t /\ tied' = (tied \/ ~Settled) /\ pc' \in {"read", "given"}
      /\ pc' = "given" => total' = Cardinality(Found)
      /\ pc \in {"asked", "counted"}
      /\ UNCHANGED <<row, at, id, q, size, page, got>>
<1>2. ASSUME NEW s, NEW t, Adds(s, t) PROVE Clean'
  <2>1. Found' = Found /\ Prior' = Prior /\ Ahead' = Ahead /\ Settled' = Settled
    BY <1>2, Same
  <2>2. Given = got /\ Taken = From /\ Given' = got \o t /\ Taken' = UpTo
    BY <1>0, <1>2, ConcatEmptySeq DEF Given, Taken, From, UpTo
  <2>3. /\ got \in Seq(Found)
        /\ \A i \in 1..Len(got) : Cardinality(Under(Prior, Found, got[i])) < From
        /\ ~q.flip => Sorted(Prior, got)
        /\ ~tied => \A x \in Rows : Count(got, x) = IF x \in First(Ahead, Found, From) THEN 1 ELSE 0
    BY <2>2 DEF Clean
  <2>4. /\ got \o t \in Seq(Found)
        /\ \A i \in 1..Len(got \o t) : Cardinality(Under(Prior, Found, (got \o t)[i])) < UpTo
        /\ t = s /\ Sorted(Prior, got) => Sorted(Prior, got \o t)
    BY <1>0, <1>2, <2>3, NextPage
  <2>5. ASSUME ~tied' PROVE Settled /\ ~tied
    BY <1>2, <2>5
  <2>6. ASSUME ~tied', NEW x \in Rows
        PROVE  Count(got \o t, x) = IF x \in First(Ahead, Found, UpTo) THEN 1 ELSE 0
    <3>1. Count(got \o t, x) = Count(got, x)
             + IF x \in First(Ahead, Found, UpTo) \ First(Ahead, Found, From) THEN 1 ELSE 0
      BY <1>0, <1>2, <2>5, <2>6, NextCount
    <3>2. Count(got, x) = IF x \in First(Ahead, Found, From) THEN 1 ELSE 0
      BY <2>3, <2>5, <2>6
    <3>3. First(Ahead, Found, From) \subseteq First(Ahead, Found, UpTo)
      BY <1>0, TakenIs, FirstGrows
    <3> QED BY <3>1, <3>2, <3>3
  <2>7. ~q'.flip => Sorted(Prior, got \o t)
    BY <1>2, <2>3, <2>4
  <2> QED BY <1>2, <2>1, <2>2, <2>4, <2>5, <2>6, <2>7 DEF Clean
<1>3. CASE ReadPage
  <2>1. PICK s \in Pages(Found) :
          IF Fails(s) THEN pc' = "failed" /\ UNCHANGED items
          ELSE /\ items' = IF q.flip THEN Reverse(s) ELSE s
               /\ pc' = IF q.first = "page" THEN "read" ELSE "given"
    BY <1>0, <1>3, FoundThere DEF ReadPage
  <2>2. /\ UNCHANGED <<row, at, id, q, size, page, got, total>> /\ pc \in {"asked", "counted"}
        /\ tied' = (tied \/ ~Settled)
        /\ pc = IF q.first = "page" THEN "asked" ELSE "counted"
    BY <1>3 DEF ReadPage, Asked
  <2>3. CASE Fails(s)
    <3>1. Found' = Found /\ Prior' = Prior /\ Ahead' = Ahead /\ Settled' = Settled
      BY <2>2, Same
    <3>2. Given' = Given /\ Taken' = Taken /\ pc' = "failed"
      BY <2>1, <2>2, <2>3 DEF Given, Taken, From, UpTo
    <3> QED BY <2>2, <3>1, <3>2 DEF Clean
  <2>4. CASE ~Fails(s)
    <3>1. pc' = "given" => total' = Cardinality(Found)
      BY <1>0, <2>1, <2>2, <2>4 DEF Clean, Kinds
    <3>2. \E t : Adds(s, t)
      BY <2>1, <2>2, <2>4, <3>1
    <3> HIDE DEF Adds
    <3> QED BY <1>2, <3>2
  <2> QED BY <2>3, <2>4
<1>4. CASE ReadTotal
  <2>1. UNCHANGED <<row, at, id, q, size, page, items, got, tied>>
    BY <1>4 DEF ReadTotal, Asked
  <2>2. Found' = Found /\ Prior' = Prior /\ Ahead' = Ahead /\ Settled' = Settled
    BY <2>1, Same
  <2>3. Given' = Given /\ Taken' = Taken /\ pc' # "done" /\ total' = Cardinality(Found)
    BY <1>0, <1>4, <2>1, FoundThere DEF Given, Taken, From, UpTo, ReadTotal, Kinds
  <2> QED BY <2>1, <2>2, <2>3 DEF Clean
<1>5. CASE ReadAll
  <2>1. /\ UNCHANGED <<row, at, id, q, size, page, got>> /\ pc = "asked"
        /\ tied' = (tied \/ ~Settled) /\ q.how = "memory"
    BY <1>5 DEF ReadAll, Asked
  <2>2. CASE pc' = "failed" /\ UNCHANGED <<items, total, lost>>
    <3>1. Found' = Found /\ Prior' = Prior /\ Ahead' = Ahead /\ Settled' = Settled
      BY <2>1, Same
    <3>2. Given' = Given /\ Taken' = Taken
      BY <2>1, <2>2 DEF Given, Taken, From, UpTo
    <3> QED BY <2>1, <2>2, <3>1, <3>2 DEF Clean
  <2>3. ASSUME NEW gone \in IF q.routed THEN {{}} \cup {{r} : r \in Near(Matches)} ELSE {{}},
               items' \in Pages(Near(Matches) \ gone),
               total' = Cardinality(Near(Matches) \ gone),
               lost' = lost \cup gone, pc' = "given"
        PROVE  Clean'
    <3>1. gone = {} /\ Near(Matches) \ gone = Found
      BY <2>3 DEF Found
    <3>2. \E s, t : Adds(s, t)
      BY <2>1, <2>3, <3>1
    <3> HIDE DEF Adds
    <3> QED BY <1>2, <3>2
  <2> QED BY <1>5, <2>2, <2>3 DEF ReadAll
<1>6. CASE Turn
  <2>1. /\ UNCHANGED <<row, at, id, q, size, tied>> /\ pc = "given"
        /\ got' = got \o items /\ items' = << >>
    BY <1>6 DEF Turn
  <2>2. Found' = Found /\ Prior' = Prior /\ Ahead' = Ahead /\ Settled' = Settled
    BY <2>1, Same
  <2>3. Given' = Given
    <3>1. got' \in Seq(Rows)
      BY DEF ListTyped, ListingTypeOK
    <3> QED BY <2>1, <3>1, ConcatEmptySeq DEF Given
  <2>4. Taken' = UpTo /\ Taken = UpTo
    BY <1>0, <1>6, <2>1, LaterStart DEF Taken
  <2>5. /\ pc' \in {"asked", "done"} /\ (pc' = "done" => total' = total /\ total <= UpTo)
    <3>1. total \in Int /\ UpTo \in Int
      BY <1>0, RowsAre, TakenIs DEF ListTyped, ListingTypeOK
    <3>2. pc' \in {"asked", "done"} /\ (pc' = "done" => total' = total /\ ~(UpTo < total))
      BY <1>6 DEF Turn, UpTo
    <3> QED BY <3>1, <3>2
  <2> QED BY <2>1, <2>2, <2>3, <2>4, <2>5 DEF Clean
<1>7. ASSUME NEW r \in Rows, Write(r) PROVE Clean'
  BY <1>7 DEF Write
<1> QED BY <1>1, <1>3, <1>4, <1>5, <1>6, <1>7 DEF ListingNext

LEMMA CleanComplete == ListTyped /\ (writes = 0 /\ lost = {} => Clean) => PagesComplete
<1> SUFFICES ASSUME ListTyped, writes = 0 /\ lost = {} => Clean, touched = {}, lost = {}
             PROVE  /\ ~q.flip => InOrder
                    /\ pc = "done" /\ ~tied =>
                         /\ \A r \in Rows : Seen(r) = IF r \in Near(Matches) THEN 1 ELSE 0
                         /\ total = Len(got)
  BY DEF PagesComplete
<1>1. Clean /\ Tabled /\ Paged /\ got \in Seq(Rows) /\ items \in Seq(Rows)
  BY DEF ListTyped, ListingTypeOK
<1>2. ASSUME ~q.flip PROVE InOrder
  <2> SUFFICES ASSUME NEW i \in 1..Len(got), NEW j \in 1..Len(got), i < j
               PROVE  LET a == row[got[i]].rank
                          b == row[got[j]].rank
                      IN /\ q.order = "high" /\ NoRank \notin {a, b} => a >= b
                         /\ q.order = "low" /\ NoRank \notin {a, b} => a <= b
                         /\ q.order = "newest" => got[i] >= got[j]
                         /\ q.order = "near" => Distance(got[i]) <= Distance(got[j])
    BY DEF InOrder
  <2>1. /\ i \in 1..Len(Given) /\ j \in 1..Len(Given) /\ Given[i] = got[i] /\ Given[j] = got[j]
    <3>1. /\ Len(got) \in Nat /\ Len(items) \in Nat /\ Len(Given) = Len(got) + Len(items)
          /\ \A k \in 1..(Len(got) + Len(items)) :
                Given[k] = IF k <= Len(got) THEN got[k] ELSE items[k - Len(got)]
      BY <1>1, LenProperties, ConcatProperties DEF Given
    <3> QED BY <3>1
  <2>2. <<got[j], got[i]>> \notin Prior /\ got[i] \in Rows /\ got[j] \in Rows
    BY <1>1, <1>2, <2>1, ElementOfSeq DEF Clean, Sorted
  <2>3. ~Before(got[j], got[i])
    BY <2>2 DEF Prior
  <2>4. /\ Distance(got[i]) \in Int /\ Distance(got[j]) \in Int /\ got[i] \in Int /\ got[j] \in Int
        /\ row[got[i]].rank \in Int /\ row[got[j]].rank \in Int
    <3> SUFFICES ASSUME NEW r \in Rows PROVE Distance(r) \in Int /\ r \in Int /\ row[r].rank \in Int
      BY <2>2
    <3>1. Distance(r) \in Int /\ r \in Int
      BY <1>1, Measures, RowsAre
    <3>2. row[r] \in Content
      BY <1>1 DEF Tabled
    <3>3. row[r].rank \in -1..2
      BY <3>2 DEF Content
    <3> QED BY <3>1, <3>3
  <2> QED BY <2>3, <2>4 DEF Before, Rank
<1>3. ASSUME pc = "done", ~tied
      PROVE  /\ \A r \in Rows : Seen(r) = IF r \in Near(Matches) THEN 1 ELSE 0
             /\ total = Len(got)
  <2>1. Given = got
    BY <1>1, <1>3, ConcatEmptySeq DEF Given, ListTyped
  <2>2. Taken \in Nat /\ Taken > 0
    BY <1>1, <1>3, Bounds DEF Taken, Paged
  <2>3. Linear(Ahead, Found) /\ StrictWeak(Ahead, Found) /\ IsFiniteSet(Found)
    BY <1>1, <1>3, <2>2, SettledIs, AheadIs, FoundIs DEF Clean
  <2>4. total = Cardinality(Found) /\ Cardinality(Found) <= Taken
    BY <1>1, <1>3 DEF Clean
  <2>5. First(Ahead, Found, Taken) = Found
    BY <2>2, <2>3, <2>4, FirstSize
  <2>6. \A r \in Rows : Count(got, r) = IF r \in Found THEN 1 ELSE 0
    BY <1>1, <1>3, <2>1, <2>5 DEF Clean
  <2>7. got \in Seq(Found) /\ Distinct(got)
    <3>1. got \in Seq(Found) /\ \A x \in Found : Count(got, x) <= 1
      BY <1>1, <2>1, <2>6, FoundIs DEF Clean
    <3> QED BY <3>1, OnceEach
  <2>8. {got[i] : i \in 1..Len(got)} = Found
    <3>1. \A i \in 1..Len(got) : got[i] \in Found
      BY <2>7, ElementOfSeq
    <3>2. ASSUME NEW x \in Found PROVE \E i \in 1..Len(got) : x = got[i]
      <4>1. Count(got, x) = 1
        BY <2>6, <3>2, FoundIs
      <4>2. (\A i \in 1..Len(got) : got[i] # x) => Count(got, x) = 0
        BY <2>7, CountNone
      <4> QED BY <4>1, <4>2
    <3> QED BY <3>1, <3>2
  <2>9. Cardinality({got[i] : i \in 1..Len(got)}) = Len(got)
    <3>1. Len(got) \in 0..Len(got)
      BY <2>7, LenProperties
    <3> QED BY <2>7, <3>1, FirstAre
  <2> QED BY <2>4, <2>6, <2>8, <2>9 DEF Seen, Count, Found
<1> QED BY <1>2, <1>3

-----------------------------------------------------------------------------
(***************************************************************************)
(* What one write changes.                                                 *)
(***************************************************************************)
\* The other rows are where they were.
LEMMA Others ==
  ASSUME NEW w \in Rows, Write(w), Tabled
  PROVE  /\ Found' \ {w} = Found \ {w}
         /\ \A r, s \in Rows \ {w} : <<r, s>> \in Ahead' <=> <<r, s>> \in Ahead
<1>1. UNCHANGED <<id, q>>
  BY DEF Write
<1>2. \A r \in Rows \ {w} : row'[r] = row[r] /\ at'[r] = at[r]
  BY DEF Write, Tabled
<1>3. \A r \in Rows \ {w} : Distance(r)' = Distance(r) /\ Rank(r)' = Rank(r)
  BY <1>1, <1>2 DEF Distance, Rank
<1>4. \A r \in Rows \ {w} : r \in Matches' <=> r \in Matches
  BY <1>1, <1>2 DEF Matches
<1>5. \A r \in Rows \ {w} : r \in Found' <=> r \in Found
  BY <1>1, <1>3, <1>4 DEF Found, Near
<1>6. Found \in SUBSET Rows /\ Found' \in SUBSET Rows
  BY DEF Found, Near, Matches
<1>7. \A r, s \in Rows \ {w} : Before(r, s)' = Before(r, s)
  BY <1>1, <1>3 DEF Before
<1>8. \A r, s \in Rows \ {w} : <<r, s>> \in Ahead' <=> <<r, s>> \in Ahead
  BY <1>1, <1>7 DEF Ahead
<1> QED BY <1>5, <1>6, <1>8

LEMMA SlipFirst ==
  ASSUME ListTyped, ListTyped', NEW w \in Rows, Write(w), lost = {}, ~tied, Clean
  PROVE  Slip(w)'
<1>0. /\ Tabled /\ Paged /\ IsFiniteSet(Found) /\ Found \in SUBSET Rows
      /\ Tabled' /\ Taken \in Nat /\ pc # "done"
  BY FoundIs, TakenIs DEF ListTyped, Write
<1>1. /\ UNCHANGED <<id, q, size, page, pc, items, total, got, tied, lost>>
  BY DEF Write
<1>2. Given' = Given /\ Taken' = Taken
  BY <1>1 DEF Given, Taken, From, UpTo
<1> DEFINE C == Found \ {w}
           E == First(Ahead, Found, Taken) \ {w}
<1>3. C' = C /\ \A r, s \in Rows \ {w} : <<r, s>> \in Ahead' <=> <<r, s>> \in Ahead
  BY <1>0, Others
<1>4. E \in SUBSET C /\ First(Ahead, Found, Taken) \in SUBSET Found
  BY DEF First
<1>5. Closed(Ahead', C, E)
  <2>1. Closed(Ahead, Found, First(Ahead, Found, Taken))
    BY <1>0, AheadIs, FirstClosed
  <2>2. \A x \in E, y \in C : <<y, x>> \in Ahead => y \in E
    BY <2>1, <1>4 DEF Closed
  <2>3. \A x \in E, y \in C : <<y, x>> \in Ahead' <=> <<y, x>> \in Ahead
    BY <1>0, <1>3, <1>4
  <2> QED BY <2>2, <2>3 DEF Closed
<1>6. /\ Cardinality(E) <= Taken
      /\ Cardinality(E) >= Taken - 1 \/ E = C
  <2>1. CASE Taken = 0
    <3>1. E = {}
      BY <1>0, <2>1, FirstNone
    <3>2. Cardinality(E) = 0
      BY <3>1, FS_EmptySet
    <3> QED BY <2>1, <3>2
  <2>2. CASE Taken > 0
    <3>1. Linear(Ahead, Found) /\ StrictWeak(Ahead, Found)
      BY <1>0, <2>2, SettledIs, AheadIs DEF Clean
    <3> DEFINE F == First(Ahead, Found, Taken)
    <3>2. /\ Taken <= Cardinality(Found) => Cardinality(F) = Taken
          /\ Cardinality(Found) <= Taken => F = Found
          /\ IsFiniteSet(F) /\ Cardinality(F) <= Taken
      BY <1>0, <3>1, FirstSize
    <3> HIDE DEF F
    <3>3. /\ Cardinality(F \ {w}) \in Nat /\ Cardinality(F) \in Nat
          /\ Cardinality(F \ {w}) <= Cardinality(F) /\ Cardinality(F) <= Cardinality(F \ {w}) + 1
      BY <3>2, Without
    <3>4. Cardinality(Found) \in Nat
      BY <1>0, FS_CardinalityType
    <3>5. E = F \ {w}
      BY DEF F
    <3>6. F = Found => E = C
      BY <3>5
    <3> HIDE DEF E, C
    <3> QED BY <1>0, <3>2, <3>3, <3>4, <3>5, <3>6
  <2> QED BY <1>0, <2>1, <2>2
<1>7. \A x \in C : Count(Given, x) = IF x \in E THEN 1 ELSE 0
  BY <1>0 DEF Clean
<1>8. pc \in {"counted", "given", "done"} => total >= Cardinality(C)
  <2>1. Cardinality(C) <= Cardinality(Found) /\ Cardinality(C) \in Nat /\ Cardinality(Found) \in Nat
    BY <1>0, Without
  <2> QED BY <2>1 DEF Clean
<1>9. \A x \in C : x \notin First(Ahead', Found', Taken) \ First(Ahead', Found', Taken)
  OBVIOUS
<1>10. ~(Taken < Taken) /\ Taken \in 0..Taken
  BY <1>0
<1> HIDE DEF E, C
<1>11. \A x \in C : Count(Given, x) = (IF x \in E THEN 1 ELSE 0)
          + (IF x \in First(Ahead', Found', Taken) \ First(Ahead', Found', Taken) THEN 1 ELSE 0)
  BY <1>7, <1>9
<1> SUFFICES
      \E m \in 0..Taken, D \in SUBSET C :
        /\ Closed(Ahead', C, D)
        /\ Cardinality(D) <= m
        /\ Cardinality(D) >= m - 1 \/ D = C
        /\ \A x \in C :
              Count(Given, x) = (IF x \in D THEN 1 ELSE 0)
                  + (IF x \in First(Ahead', Found', Taken) \ First(Ahead', Found', m) THEN 1 ELSE 0)
        /\ pc \in {"counted", "given", "done"} => total >= Cardinality(C)
        /\ q.first # "total" /\ m < Taken /\ pc \in {"given", "done"} => total >= Cardinality(Found')
        /\ m < Taken => Settled'
        /\ pc = "done" => total <= Taken
  BY <1>1, <1>2, <1>3 DEF Slip, C
<1> USE <1>4, <1>10
<1> WITNESS Taken \in 0..Taken
<1> WITNESS E \in SUBSET C
<1> QED BY <1>0, <1>5, <1>6, <1>8, <1>10, <1>11

LEMMA SlipStep ==
  ASSUME ListTyped, ListTyped', [ListingNext]_listingVars, NEW w \in Rows,
         writes = 1, writes' = 1, lost' = {}, ~tied', Slip(w)
  PROVE  Slip(w)'
<1> DEFINE C == Found \ {w}
           Fair(m, E) == /\ Closed(Ahead, C, E) /\ Cardinality(E) <= m
                         /\ Cardinality(E) >= m - 1 \/ E = C
           Told(m, x, n) == IF x \in First(Ahead, Found, n) \ First(Ahead, Found, m) THEN 1 ELSE 0
<1>0. /\ Tabled /\ Paged /\ Kinds /\ IsFiniteSet(Found) /\ Found \in SUBSET Rows
      /\ pc \in {"asked", "read", "counted", "given", "done", "failed"} /\ got \in Seq(Rows)
      /\ pc \in {"asked", "counted", "done", "failed"} => items = << >>
      /\ Taken \in Nat /\ From \in Nat /\ UpTo \in Nat /\ From <= UpTo
  BY FoundIs, TakenIs DEF ListTyped, ListingTypeOK
<1>1. PICK m \in 0..Taken, E \in SUBSET C :
        /\ Fair(m, E)
        /\ \A x \in C : Count(Given, x) = (IF x \in E THEN 1 ELSE 0) + Told(m, x, Taken)
        /\ pc \in {"counted", "given", "done"} => total >= Cardinality(C)
        /\ q.first # "total" /\ m < Taken /\ pc \in {"given", "done"} => total >= Cardinality(Found)
        /\ m < Taken => Settled
        /\ pc = "done" => total <= Taken
  BY DEF Slip
<1> HIDE DEF Fair, Told
<1> DEFINE Kept == /\ UNCHANGED <<row, at, id, q, size>>
                   /\ Taken' \in Nat /\ Taken <= Taken'
                   /\ \A x \in C : Count(Given', x) = (IF x \in E THEN 1 ELSE 0) + Told(m, x, Taken')
                   /\ pc' \in {"counted", "given", "done"} => total' >= Cardinality(C)
                   /\ q.first # "total" /\ m < Taken' /\ pc' \in {"given", "done"}
                        => total' >= Cardinality(Found)
                   /\ m < Taken' => Settled
                   /\ pc' = "done" => total' <= Taken'
<1>2. ASSUME Kept PROVE Slip(w)'
  <2>1. Found' = Found /\ Prior' = Prior /\ Ahead' = Ahead /\ Settled' = Settled
    BY <1>2, Same
  <2>2. m \in 0..Taken'
    BY <1>0, <1>2
  <2> SUFFICES
        \E k \in 0..Taken', D \in SUBSET C :
          /\ Closed(Ahead, C, D)
          /\ Cardinality(D) <= k
          /\ Cardinality(D) >= k - 1 \/ D = C
          /\ \A x \in C :
                Count(Given', x) = (IF x \in D THEN 1 ELSE 0)
                  + (IF x \in First(Ahead, Found, Taken') \ First(Ahead, Found, k) THEN 1 ELSE 0)
          /\ pc' \in {"counted", "given", "done"} => total' >= Cardinality(C)
          /\ q.first # "total" /\ k < Taken' /\ pc' \in {"given", "done"} => total' >= Cardinality(Found)
          /\ k < Taken' => Settled
          /\ pc' = "done" => total' <= Taken'
    BY <1>2, <2>1 DEF Slip
  <2> USE <2>2
  <2> WITNESS m \in 0..Taken'
  <2> WITNESS E \in SUBSET C
  <2> QED BY <1>1, <1>2 DEF Fair, Told
<1>2a. Cardinality(C) <= Cardinality(Found) /\ Cardinality(C) \in Nat /\ Cardinality(Found) \in Nat
  BY <1>0, Without
<1> HIDE DEF C
<1>3. CASE UNCHANGED listingVars
  <2>1. UNCHANGED <<row, at, id, q, size, page, pc, items, total, got>>
    BY <1>3 DEF listingVars
  <2>2. Given' = Given /\ Taken' = Taken
    BY <2>1 DEF Given, Taken, From, UpTo
  <2>3. Kept
    BY <1>0, <1>1, <2>1, <2>2
  <2> QED BY <1>2, <2>3
<1> DEFINE Adds(s, t) ==
      /\ s \in Pages(Found) /\ (t = s \/ t = Reverse(s))
      /\ items' = t /\ tied' = (tied \/ ~Settled) /\ pc' \in {"read", "given"}
      /\ pc' = "given" => total' = Cardinality(Found) \/ (q.first = "total" /\ total' >= Cardinality(C))
      /\ pc \in {"asked", "counted"}
      /\ UNCHANGED <<row, at, id, q, size, page, got>>
<1>4. ASSUME NEW s, NEW t, Adds(s, t) PROVE Slip(w)'
  <2>1. Given = got /\ Taken = From /\ Given' = got \o t /\ Taken' = UpTo
    BY <1>0, <1>4, ConcatEmptySeq DEF Given, Taken, From, UpTo
  <2>2. Settled
    BY <1>4
  <2>3. ASSUME NEW x \in C PROVE Count(got \o t, x) = (IF x \in E THEN 1 ELSE 0) + Told(m, x, UpTo)
    <3>1. Count(got \o t, x) = Count(got, x)
             + IF x \in First(Ahead, Found, UpTo) \ First(Ahead, Found, From) THEN 1 ELSE 0
      <4>1. x \in Rows
        BY <1>0 DEF C
      <4> QED BY <1>0, <1>4, <2>2, <4>1, NextCount
    <3>2. Count(got, x) = (IF x \in E THEN 1 ELSE 0) + Told(m, x, From)
      BY <1>1, <2>1, <2>3
    <3>3. /\ First(Ahead, Found, From) \subseteq First(Ahead, Found, UpTo)
          /\ First(Ahead, Found, m) \subseteq First(Ahead, Found, From)
      <4>1. m \in Nat /\ m <= From
        BY <1>0, <2>1
      <4> QED BY <1>0, <4>1, FirstGrows
    <3>4. Told(m, x, From) + (IF x \in First(Ahead, Found, UpTo) \ First(Ahead, Found, From) THEN 1 ELSE 0)
             = Told(m, x, UpTo)
      BY <3>3 DEF Told
    <3>5. Told(m, x, From) \in Int /\ Told(m, x, UpTo) \in Int
      BY DEF Told
    <3> QED BY <3>1, <3>2, <3>4, <3>5
  <2>4. Kept
    BY <1>0, <1>2a, <1>4, <2>1, <2>2, <2>3
  <2> QED BY <1>2, <2>4
<1> HIDE DEF Kept
<1>5. CASE ReadPage
  <2>1. PICK s \in Pages(Found) :
          IF Fails(s) THEN pc' = "failed" /\ UNCHANGED items
          ELSE /\ items' = IF q.flip THEN Reverse(s) ELSE s
               /\ pc' = IF q.first = "page" THEN "read" ELSE "given"
    BY <1>0, <1>5, FoundThere DEF ReadPage
  <2>2. /\ UNCHANGED <<row, at, id, q, size, page, got, total>> /\ pc \in {"asked", "counted"}
        /\ tied' = (tied \/ ~Settled)
        /\ pc = IF q.first = "page" THEN "asked" ELSE "counted"
    BY <1>5 DEF ReadPage, Asked
  <2>3. CASE Fails(s)
    <3>1. Given' = Given /\ Taken' = Taken /\ pc' = "failed"
      BY <2>1, <2>2, <2>3 DEF Given, Taken, From, UpTo
    <3>2. Kept
      BY <1>0, <1>1, <2>2, <3>1 DEF Kept
    <3> QED BY <1>2, <3>2
  <2>4. CASE ~Fails(s)
    <3>1. pc' = "given" => q.first = "total" /\ total' >= Cardinality(C)
      BY <1>0, <1>1, <2>1, <2>2, <2>4 DEF Kinds
    <3>2. \E t : Adds(s, t)
      BY <2>1, <2>2, <2>4, <3>1
    <3> HIDE DEF Adds
    <3> QED BY <1>4, <3>2
  <2> QED BY <2>3, <2>4
<1>6. CASE ReadTotal
  <2>1. UNCHANGED <<row, at, id, q, size, page, items, got>>
    BY <1>6 DEF ReadTotal, Asked
  <2>2. Given' = Given /\ Taken' = Taken /\ pc' # "done" /\ total' = Cardinality(Found)
    BY <1>0, <1>6, <2>1, FoundThere DEF Given, Taken, From, UpTo, ReadTotal, Kinds
  <2>3. Kept
    BY <1>0, <1>1, <1>2a, <2>1, <2>2 DEF Kept
  <2> QED BY <1>2, <2>3
<1>7. CASE ReadAll
  <2>1. /\ UNCHANGED <<row, at, id, q, size, page, got>> /\ pc = "asked"
        /\ tied' = (tied \/ ~Settled) /\ q.how = "memory"
    BY <1>7 DEF ReadAll, Asked
  <2>2. CASE pc' = "failed" /\ UNCHANGED <<items, total, lost>>
    <3>1. Given' = Given /\ Taken' = Taken
      BY <2>1, <2>2 DEF Given, Taken, From, UpTo
    <3>2. Kept
      BY <1>0, <1>1, <2>1, <2>2, <3>1 DEF Kept
    <3> QED BY <1>2, <3>2
  <2>3. ASSUME NEW gone \in IF q.routed THEN {{}} \cup {{r} : r \in Near(Matches)} ELSE {{}},
               items' \in Pages(Near(Matches) \ gone),
               total' = Cardinality(Near(Matches) \ gone),
               lost' = lost \cup gone, pc' = "given"
        PROVE  Slip(w)'
    <3>1. gone = {} /\ Near(Matches) \ gone = Found
      BY <2>3 DEF Found
    <3>2. \E s, t : Adds(s, t)
      BY <2>1, <2>3, <3>1
    <3> HIDE DEF Adds
    <3> QED BY <1>4, <3>2
  <2> QED BY <1>7, <2>2, <2>3 DEF ReadAll
<1>8. CASE Turn
  <2>1. /\ UNCHANGED <<row, at, id, q, size, tied>> /\ pc = "given"
        /\ got' = got \o items /\ items' = << >>
    BY <1>8 DEF Turn
  <2>2. Given' = Given
    <3>1. got' \in Seq(Rows)
      BY DEF ListTyped, ListingTypeOK
    <3> QED BY <2>1, <3>1, ConcatEmptySeq DEF Given
  <2>3. Taken' = UpTo /\ Taken = UpTo
    BY <1>0, <1>8, <2>1, LaterStart DEF Taken
  <2>4. /\ pc' \in {"asked", "done"} /\ (pc' = "done" => total' = total /\ total <= UpTo)
    <3>1. total \in Int /\ UpTo \in Int
      BY <1>0, RowsAre DEF ListTyped, ListingTypeOK
    <3>2. pc' \in {"asked", "done"} /\ (pc' = "done" => total' = total /\ ~(UpTo < total))
      BY <1>8 DEF Turn, UpTo
    <3> QED BY <3>1, <3>2
  <2>5. Kept
    BY <1>0, <1>1, <2>1, <2>2, <2>3, <2>4 DEF Kept
  <2> QED BY <1>2, <2>5
<1>9. ASSUME NEW r \in Rows, Write(r) PROVE FALSE
  BY <1>9 DEF Write
<1> QED BY <1>3, <1>5, <1>6, <1>7, <1>8, <1>9 DEF ListingNext

LEMMA SlipOne ==
  ASSUME ListTyped, NEW w \in Rows, touched = {w}, pc = "done", Slip(w)
  PROVE  Cardinality({r \in Near(Matches) \ touched : Seen(r) # 1})
             <= IF q.first = "total" THEN 2 ELSE 1
<1> DEFINE C == Found \ {w}
           S == {x \in C : Count(got, x) # 1}
<1>0. /\ Tabled /\ Paged /\ IsFiniteSet(Found) /\ Found \in SUBSET Rows
      /\ got \in Seq(Rows) /\ items = << >> /\ Taken \in Nat /\ total \in Int
  BY FoundIs, TakenIs, RowsAre DEF ListTyped, ListingTypeOK
<1>1. Given = got
  BY <1>0, ConcatEmptySeq DEF Given
<1>2. PICK m \in 0..Taken, E \in SUBSET C :
        /\ Closed(Ahead, C, E)
        /\ Cardinality(E) <= m
        /\ Cardinality(E) >= m - 1 \/ E = C
        /\ \A x \in C :
              Count(Given, x) = (IF x \in E THEN 1 ELSE 0)
                  + (IF x \in First(Ahead, Found, Taken) \ First(Ahead, Found, m) THEN 1 ELSE 0)
        /\ total >= Cardinality(C)
        /\ q.first # "total" /\ m < Taken => total >= Cardinality(Found)
        /\ m < Taken => Settled
        /\ total <= Taken
  BY DEF Slip
<1>3. /\ {r \in Near(Matches) \ touched : Seen(r) # 1} = S
      /\ S = Slipped(C, E, Ahead, Found, m, Taken)
  <2>1. \A x \in C : Count(got, x) # 1
            <=> (x \in E <=> x \in First(Ahead, Found, Taken) \ First(Ahead, Found, m))
    BY <1>1, <1>2
  <2>2. S = Slipped(C, E, Ahead, Found, m, Taken)
    BY <2>1 DEF Slipped
  <2>3. {r \in Near(Matches) \ touched : Seen(r) # 1} = S
    BY DEF Seen, Count, Found
  <2> QED BY <2>2, <2>3
<1>4. Cardinality(C) \in Nat /\ Cardinality(Found) \in Nat /\ Cardinality(C) <= Taken
  <2>1. Cardinality(C) \in Nat /\ Cardinality(Found) \in Nat
    BY <1>0, Without
  <2> QED BY <1>0, <1>2, <2>1
<1>5. CASE m = Taken
  <2>1. Cardinality(S) <= 1
    BY <1>0, <1>2, <1>3, <1>4, <1>5, SlipsLast
  <2>2. Cardinality(S) \in Nat
    <3>1. S \in SUBSET Rows
      BY <1>0
    <3> QED BY <3>1, FoundIs
  <2> QED BY <1>3, <2>1, <2>2
<1>6. CASE m < Taken
  <2>1. Linear(Ahead, Found) /\ StrictWeak(Ahead, Found)
    BY <1>0, <1>2, <1>6, SettledIs, AheadIs
  <2>2. m \in Nat /\ m <= Taken
    BY <1>0
  <2>3. /\ Cardinality(Found) <= Taken => Cardinality(S) <= 1
        /\ Cardinality(C) <= Taken => Cardinality(S) <= 2
    <3> DEFINE L == Slipped(Found \ {w}, E, Ahead, Found, m, Taken)
    <3>1. /\ E \in SUBSET (Found \ {w}) /\ Closed(Ahead, Found \ {w}, E)
          /\ Cardinality(E) <= m /\ (Cardinality(E) >= m - 1 \/ E = Found \ {w})
      BY <1>2
    <3>2. /\ Cardinality(Found) <= Taken => Cardinality(L) <= 1
          /\ Cardinality(Found \ {w}) <= Taken => Cardinality(L) <= 2
      BY <1>0, <2>1, <2>2, <3>1, SlipsFew
    <3> QED BY <1>3, <3>2
  <2>4. q.first # "total" => Cardinality(Found) <= Taken
    BY <1>0, <1>2, <1>4, <1>6
  <2> HIDE DEF S, C
  <2> QED BY <1>3, <1>4, <2>3, <2>4
<1>7. m = Taken \/ m < Taken
  BY <1>0
<1> QED BY <1>5, <1>6, <1>7

LEMMA ListInvInit == ListingInit => ListInv
<1> SUFFICES ASSUME ListingInit PROVE ListInv
  OBVIOUS
<1>1. ListTyped /\ Clean /\ writes = 0
  BY TypedInit, CleanInit DEF ListingInit
<1> QED BY <1>1 DEF ListInv

LEMMA ListInvStep == ListInv /\ [ListingNext]_listingVars => ListInv'
<1> SUFFICES ASSUME ListInv, [ListingNext]_listingVars PROVE ListInv'
  OBVIOUS
<1>1. ListTyped /\ ListTyped'
  BY TypedStep DEF ListInv
<1>2. /\ lost \subseteq lost' /\ (tied => tied')
      /\ (writes' = writes /\ touched' = touched) \/ \E r \in Rows : Write(r)
  <2>1. CASE UNCHANGED listingVars
    BY <2>1 DEF listingVars
  <2>2. CASE ReadPage
    BY <2>2 DEF ReadPage, Asked
  <2>3. CASE ReadTotal
    BY <2>3 DEF ReadTotal, Asked
  <2>4. CASE ReadAll
    BY <2>4 DEF ReadAll, Asked
  <2>5. CASE Turn
    BY <2>5 DEF Turn
  <2>6. ASSUME NEW r \in Rows, Write(r)
        PROVE  lost' = lost /\ tied' = tied
    BY <2>6 DEF Write
  <2> QED BY <2>1, <2>2, <2>3, <2>4, <2>5, <2>6 DEF ListingNext
<1>3. ASSUME NEW r \in Rows, Write(r)
      PROVE  /\ writes' = writes + 1 /\ touched' = touched \cup {r}
             /\ lost' = lost /\ tied' = tied
  BY <1>3 DEF Write
<1>4. writes \in Nat /\ (writes = 0 => touched = {})
  BY <1>1, ListingAssumption DEF ListTyped, ListingTypeOK
<1>5. ASSUME writes' = 0, lost' = {} PROVE Clean'
  <2>1. writes = 0 /\ lost = {}
    BY <1>2, <1>3, <1>4, <1>5
  <2> QED BY <1>1, <1>5, <2>1, CleanStep DEF ListInv
<1>6. ASSUME writes' = 1, lost' = {}, ~tied', NEW w \in touched' PROVE Slip(w)'
  <2>1. lost = {} /\ ~tied
    BY <1>2, <1>6
  <2>2. CASE writes' = writes /\ touched' = touched
    <3>1. w \in Rows /\ Slip(w)
      BY <1>1, <1>6, <2>1, <2>2 DEF ListInv, ListTyped, ListingTypeOK
    <3> QED BY <1>1, <1>6, <2>2, <3>1, SlipStep
  <2>3. ASSUME NEW r \in Rows, Write(r) PROVE Slip(w)'
    <3>1. writes = 0 /\ w = r
      BY <1>3, <1>4, <1>6, <2>3
    <3>2. Clean
      BY <2>1, <3>1 DEF ListInv
    <3>3. Slip(r)'
      BY <1>1, <2>1, <2>3, <3>2, SlipFirst
    <3> QED BY <3>1, <3>3
  <2> QED BY <1>2, <2>2, <2>3
<1> QED BY <1>1, <1>5, <1>6 DEF ListInv

(* A client that pages to the end of a listing while nothing is written is *)
(* given every row that matches once, in order, and their number, if       *)
(* TypeORM settles the ties: whatever the listing, the size of pages and   *)
(* the rows.  skip and take of the services leave no row out.              *)
THEOREM PagesCompleteCorrect == ListingSpec => []PagesComplete
<1>1. ListInv => PagesComplete
  BY CleanComplete DEF ListInv
<1> QED BY ListInvInit, ListInvStep, <1>1, PTL DEF ListingSpec

(* One row written between the requests of findAll, or of another listing, *)
(* for pages makes at most one other row missing or given twice, or two    *)
(* where rows are counted before the page is read.                         *)
THEOREM OneWriteOneSlipCorrect == ListingSpec => []OneWriteOneSlip
<1>1. ListInv => OneWriteOneSlip
  <2> SUFFICES ASSUME ListInv, pc = "done", writes = 1, lost = {}, ~tied
               PROVE  Cardinality({r \in Near(Matches) \ touched : Seen(r) # 1})
                        <= IF q.first = "total" THEN 2 ELSE 1
    BY DEF OneWriteOneSlip
  <2>1. PICK w \in Rows : touched = {w}
    BY DEF ListInv, ListTyped
  <2>2. Slip(w) /\ ListTyped
    BY <2>1 DEF ListInv
  <2> QED BY <2>1, <2>2, SlipOne
<1> QED BY ListInvInit, ListInvStep, <1>1, PTL DEF ListingSpec
=============================================================================

------------------------------- MODULE Pricing -------------------------------
(***************************************************************************)
(* What an order costs: the quotations and createOrder of OrderService,    *)
(* the fee table of SystemConstraintsService with its cache, and the       *)
(* promotions of PromotionService.  A customer asks what a cart costs and  *)
(* orders it; between any two reads of a handler the restaurant may change *)
(* the food, an administrator a promotion, and the fee table may be edited *)
(* in the database (updateConstraints has no caller).  Rows have prices in *)
(* cents, a customer any number of Mites; money is in millionths, so that  *)
(* a percentage of a percentage is exact.                                  *)
(***************************************************************************)
EXTENDS Integers, Sequences

CONSTANTS None,       \* no row, nothing cached, no limit
          NotSent,    \* a value the request leaves out (undefined)
          Requests,   \* handlers that may be in progress at once
          Foods,      \* what the food may be: price, percent off, topping price
          Carts,      \* what a customer may order: quantity, topping, percent off
          FeeTables,  \* what the one row of system_constraints may hold
          Defaults,   \* the table createDefaultConstraints inserts
          Promos,     \* promotions that may be asked for or written
          Life,       \* how many ticks the cache is good for (5 minutes)
          MaxTime,    \* bound: ticks of the clock
          MaxWrites,  \* bound: changes of food, fees and promotion
          MaxCalls    \* bound: handlers started

\* Nobody checks a price or percentage: those of a food have to be numbers in a
\* string, those of a request (its body is any) nothing.  The price the customer
\* names for the topping is in Mites.
Food == [price : Int, off : Int, topping : Int, sold : BOOLEAN]
Cart == [quantity : Nat \ {0}, topping : {NotSent} \cup Int, off : {NotSent} \cup Int,
         road : Nat, air : Nat]
FeeTable == [base : Nat, near : Nat, tier2 : Nat, mid : Nat, far : Nat, max : Nat]
Promo == [type : {"food", "shipping"}, percent : Int, amount : Int, cap : Int,
          min : Nat \cup {None}, active : BOOLEAN]

ASSUME PricingAssumption ==
    /\ Foods \subseteq Food /\ Carts \subseteq Cart /\ Promos \subseteq Promo
    /\ FeeTables \subseteq FeeTable /\ Defaults \in FeeTables /\ None \notin FeeTables
    /\ NotSent \notin Int /\ None \notin Int
    /\ Life \in Nat \ {0} /\ {MaxTime, MaxWrites, MaxCalls} \subseteq Nat

VARIABLES
    food, fees, promo,  \* the rows of the database; fees and promo may be None
    rows,      \* how many rows system_constraints has
    cache,     \* cachedConstraints and lastCacheUpdate
    now,
    was,       \* history: the fee table at each tick up to now
    cart,      \* what the customer orders, throughout
    request,   \* the handlers in progress
    quote,     \* history: the last quotation given
    created,   \* history: the last order created
    writes, calls,
    failed     \* history: a read of the fee table failed

pricingVars == <<food, fees, promo, rows, cache, now, was, cart, request, quote, created,
                 writes, calls, failed>>

NoRequest == [pc |-> "idle"]
NoBill == [done |-> FALSE]

\* The steps of a handler that look up the fee table.
Lookups == {"begin", "limit", "fee", "time"}

-----------------------------------------------------------------------------
(* The formulas.                                                           *)
Unit == 1000000   \* of money; fees are whole
Cent == 10000
Mite == 100
Clamped(x) == IF x < 0 THEN 0 ELSE x   \* Math.max(0, x)
Least(a, b) == IF a <= b THEN a ELSE b

Discounted(price, off) == price * 100 * (100 - off)   \* of a price in cents
OrElse_Sent(a, b) == a   \* a mutant
OrElse(a, b) == IF a = NotSent THEN b ELSE a          \* a ?? b
Truthy(a, b) == IF a \in {NotSent, 0} THEN b ELSE a   \* a || b

\* calculateShippingFee.
Fee(c, d) == IF d <= c.near THEN c.base ELSE IF d <= c.mid THEN c.tier2 ELSE c.far

\* Of the topping, as the customer names it.
Topping == IF cart.topping = NotSent THEN 0 ELSE cart.topping * Mite

\* validateAndCalculateOrderDetails: the unit price and toppings an order stores,
\* at the prices of the rows.  The controller and the chat send 0 for a discount
\* the customer does not name.
DetailPrice == Discounted(food.price, OrElse(OrElse(cart.off, 0), food.off))
DetailToppings == IF cart.topping = NotSent THEN 0 ELSE food.topping * cart.quantity * Cent

\* Whether the topping is sold, at the price the customer knows or a cent from it.
Near_Cheaper(a, b) == a - b <= Cent   \* a mutant
Near(a, b) == a - b <= Cent /\ b - a <= Cent
ToppingOK == cart.topping = NotSent \/ (food.sold /\ Near(food.topping * Cent, Topping))

\* calculateOrderWithConstraints, and calculateOrderWithCustomAddress.
FoodTotal ==
    (Discounted(food.price, Truthy(cart.off, food.off)) + Topping) * cart.quantity
CustomFoodTotal_FullPrice ==   \* a mutant
    (Discounted(food.price, 0) + Topping) * cart.quantity
CustomFoodTotal ==
    (Discounted(food.price, OrElse(cart.off, 0)) + Topping) * cart.quantity

\* calculateDiscount: a percentage with a cap, or an amount, at most the whole.
Discount(p, amount) ==
    LET part == (amount \div 100) * p.percent
        off == IF p.percent > 0 THEN IF p.cap > 0 THEN Least(part, p.cap * Cent) ELSE part
                                ELSE p.amount * Cent
    IN  Least(Clamped(off), amount)

\* validatePromotion: an amount of 0 is not compared with the minimum.
Valid(p, amount) ==
    p # None /\ p.active /\ (p.min = None \/ amount = 0 \/ amount >= p.min * Cent)

PromotionOff(p, amount) == IF Valid(p, amount) THEN Discount(p, amount) ELSE 0

\* Of a quotation for another address: by the type of the promotion.
CustomOff(p, foods, fee) ==
    IF ~Valid(p, foods + fee) THEN 0
    ELSE IF p.type = "food" THEN Discount(p, foods) ELSE Least(Discount(p, fee), fee)

-----------------------------------------------------------------------------
PricingInit ==
    /\ food \in {f \in Foods : f.sold} /\ cart \in Carts
    /\ fees \in {None, Defaults} /\ promo \in Promos \cup {None}
    /\ rows = IF fees = None THEN 0 ELSE 1
    /\ cache = [table |-> None, since |-> 0]
    /\ now = 0 /\ was = << {fees} >>
    /\ request = [k \in Requests |-> NoRequest]
    /\ quote = NoBill /\ created = NoBill
    /\ writes = 0 /\ calls = 0 /\ failed = FALSE

Doing(k, pc) == request[k].pc = pc
Database == <<food, fees, promo, rows, was, cart>>
History == <<quote, created>>

Receive(k, held) ==
    /\ Doing(k, "idle") /\ calls < MaxCalls
    /\ calls' = calls + 1
    /\ request' = [request EXCEPT ![k] = held]
    /\ UNCHANGED <<Database, cache, now, quote, created, writes, failed>>

\* A handler in progress: what it is ("quote", "custom", "order"), whether a
\* promotion is asked for, how far its look-up is, what it has computed, and the
\* number of writes when it began.
Handler(kind, pc, coded) ==
    [pc |-> pc, kind |-> kind, coded |-> coded, reading |-> "no", start |-> 0,
     d |-> 0, fee |-> 0, details |-> 0, toppings |-> 0, writes |-> writes]

\* The distance is the route service's, or as the crow flies if it fails.
StartQuote(k, coded) ==
    \E kind \in {"quote", "custom"}, d \in {cart.road, cart.air} :
        Receive(k, [Handler(kind, "fee", coded) EXCEPT !.d = d])

\* The controller gives createOrder no promotion code.
StartOrder(k) == Receive(k, Handler("order", "begin", FALSE))

-----------------------------------------------------------------------------
(* getConstraints, and what each caller does with the table.               *)
Fresh_Sliding(k) ==   \* a mutant
    cache.table # None /\ now - cache.since <= Life

Fresh(k) == cache.table # None /\ now - cache.since < Life

\* What a handler does with the table c it is given.
Use(k, c) ==
    LET h == [request[k] EXCEPT !.reading = "no"] IN
    CASE h.pc = "begin" ->
           \E d \in {cart.road, cart.air} :
               request' = [request EXCEPT ![k] = [h EXCEPT !.pc = "limit", !.d = d]]
      [] h.pc = "limit" ->
           request' = [request EXCEPT ![k] =
                         IF h.d <= c.max THEN [h EXCEPT !.pc = "details"] ELSE NoRequest]
      [] h.pc = "fee" ->
           request' = [request EXCEPT ![k] = [h EXCEPT !.fee = Fee(c, h.d) * Unit,
                        !.pc = IF h.kind = "custom" THEN "total" ELSE "time"]]
      [] OTHER -> request' = [request EXCEPT ![k] = [h EXCEPT !.pc = "total"]]

Reads(k, stage) == request[k].pc \in Lookups /\ request[k].reading = stage

Lookup(k) ==
    /\ Reads(k, "no")
    /\ IF Fresh(k) THEN Use(k, cache.table)
       ELSE request' = [request EXCEPT ![k].reading = "row", ![k].start = now]
    /\ UNCHANGED <<Database, cache, now, History, writes, calls, failed>>

\* The row is read; the cache counts from the start of the read.
Load(k) ==
    /\ Reads(k, "row")
    /\ IF fees = None
         THEN request' = [request EXCEPT ![k].reading = "insert"] /\ UNCHANGED cache
         ELSE Use(k, fees) /\ cache' = [table |-> fees, since |-> request[k].start]
    /\ UNCHANGED <<Database, now, History, writes, calls, failed>>

\* The row to be found first stays the first.
InsertDefaults(k) ==
    /\ Reads(k, "insert")
    /\ rows' = rows + 1
    /\ fees' = IF fees = None THEN Defaults ELSE fees
    /\ was' = [was EXCEPT ![now + 1] = @ \cup {fees'}]
    /\ Use(k, Defaults) /\ cache' = [table |-> Defaults, since |-> request[k].start]
    /\ UNCHANGED <<food, promo, cart, now, History, writes, calls, failed>>

\* The read fails: what is cached, however old, or the hard-coded table.
LoadFails(k) ==
    /\ Reads(k, "row") /\ ~failed
    /\ failed' = TRUE
    /\ Use(k, IF cache.table # None THEN cache.table ELSE Defaults)
    /\ UNCHANGED <<Database, cache, now, History, writes, calls>>

-----------------------------------------------------------------------------
\* The food as it is now.
ReadDetails(k) ==
    LET h == request[k] IN
    /\ Doing(k, "details")
    /\ request' = [request EXCEPT ![k] =
           IF ToppingOK
             THEN [h EXCEPT !.pc = "fee", !.details = DetailPrice * cart.quantity,
                            !.toppings = DetailToppings]
             ELSE NoRequest]
    /\ UNCHANGED <<Database, cache, now, History, writes, calls, failed>>

\* The food is read again, and the promotion if a code is given.  A total that
\* is not a whole number does not fit the column: the transaction is rolled back.
Total(k) ==
    LET h == request[k]
        foods == IF h.kind = "custom" THEN CustomFoodTotal
                                      ELSE FoodTotal
        off == IF ~h.coded THEN 0
               ELSE IF h.kind = "custom" THEN CustomOff(promo, foods, h.fee)
               ELSE PromotionOff(promo, foods + h.fee)
        bill == [done |-> TRUE, kind |-> h.kind, d |-> h.d, foods |-> foods, fee |-> h.fee,
                 off |-> off, plain |-> food.off = 0, total |-> Clamped(foods + h.fee - off),
                 lines |-> h.details + h.toppings, steady |-> writes = h.writes,
                 writes |-> writes]
    IN /\ Doing(k, "total")
       /\ request' = [request EXCEPT ![k] = NoRequest]
       /\ IF h.kind = "order"
            THEN created' = (IF bill.total % Unit = 0 THEN bill ELSE created) /\ UNCHANGED quote
            ELSE quote' = bill /\ UNCHANGED created
       /\ UNCHANGED <<Database, cache, now, writes, calls, failed>>

-----------------------------------------------------------------------------
(* The administrator's promotions.                                         *)
\* Exactly one of a percentage and an amount.
KindOK(percent, amount) == (percent # 0) # (amount # 0)

Others == UNCHANGED <<food, fees, rows, was, cart, cache, now, quote, created, failed>>

CreatePromotion(p) ==
    /\ promo = None /\ KindOK(p.percent, p.amount) /\ p.percent \in 0..100
    /\ writes < MaxWrites
    /\ promo' = p /\ writes' = writes + 1
    /\ Others /\ UNCHANGED <<request, calls>>

\* updatePromotion: new values, NotSent for those the request leaves out, are
\* checked against the promotion as it was read ...
UpdateRead(k, percent, amount) ==
    /\ promo # None
    /\ KindOK(OrElse(percent, promo.percent), OrElse(amount, promo.amount))
    /\ Receive(k, [pc |-> "promo", percent |-> percent, amount |-> amount])

\* ... and written, those columns alone, if the promotion is still there.
UpdateSave(k) ==
    /\ Doing(k, "promo") /\ writes < MaxWrites
    /\ promo' = IF promo = None THEN None
                ELSE [promo EXCEPT !.percent = OrElse(request[k].percent, @),
                                   !.amount = OrElse(request[k].amount, @)]
    /\ writes' = writes + 1
    /\ request' = [request EXCEPT ![k] = NoRequest]
    /\ Others /\ UNCHANGED calls

DeletePromotion ==
    /\ promo # None /\ writes < MaxWrites
    /\ promo' = None /\ writes' = writes + 1
    /\ Others /\ UNCHANGED <<request, calls>>

-----------------------------------------------------------------------------
(* The owner's changes of the food, and the table edited in the database.  *)
ChangeFood(f) ==
    /\ f # food /\ writes < MaxWrites
    /\ food' = f /\ writes' = writes + 1
    /\ UNCHANGED <<fees, promo, rows, cart, cache, now, was, request, calls, failed, History>>

EditFees(c) ==
    /\ fees \notin {None, c} /\ writes < MaxWrites
    /\ fees' = c /\ writes' = writes + 1
    /\ was' = [was EXCEPT ![now + 1] = @ \cup {c}]
    /\ UNCHANGED <<food, promo, rows, cart, cache, now, request, calls, failed, History>>

Tick ==
    /\ now < MaxTime
    /\ now' = now + 1
    /\ was' = Append(was, {fees})
    /\ UNCHANGED <<food, fees, promo, rows, cart, cache, request, writes, calls, failed, History>>

PricingNext ==
    \/ \E k \in Requests : StartOrder(k) \/ \E coded \in BOOLEAN : StartQuote(k, coded)
    \/ \E k \in Requests : \/ Lookup(k) \/ Load(k) \/ InsertDefaults(k) \/ LoadFails(k)
                           \/ ReadDetails(k) \/ Total(k) \/ UpdateSave(k)
    \/ \E k \in Requests, v \in {0, 50} :
          UpdateRead(k, v, NotSent) \/ UpdateRead(k, NotSent, v) \/ UpdateRead(k, 0, v)
    \/ \E p \in Promos : CreatePromotion(p)
    \/ DeletePromotion
    \/ \E f \in Foods : ChangeFood(f)
    \/ \E c \in FeeTables : EditFees(c)
    \/ Tick

PricingSpec == PricingInit /\ [][PricingNext]_pricingVars

-----------------------------------------------------------------------------
PricingTypeOK ==
    /\ food \in Food /\ fees \in FeeTables \cup {None} /\ rows \in Nat
    /\ promo \in Promo \cup {None}
    /\ cache.table \in FeeTables \cup {None} /\ cache.since \in 0..now
    /\ now \in 0..MaxTime /\ Len(was) = now + 1
    /\ \A b \in {quote, created} :
          b.done => b.total \in Nat /\ (b.foods >= 0 => b.off \in 0..(b.foods + b.fee))

\* The customer says what is off, or nothing is: `||` and `??` agree.
Named(bill) == cart.off \notin {NotSent, 0} \/ bill.plain

\* How far the prices of the topping may be apart, for all pieces.
Tolerance == IF cart.topping = NotSent THEN 0 ELSE cart.quantity * Cent

\* The lines of an order, at the prices they are stored with, and its fee make
\* up its total, but for a cent a piece with a topping, and never below 0: unless
\* the food changed while it was created, or has a discount the customer did not
\* name (its lines are stored at the full price then).
TotalMatchesDetails ==
    created.done /\ created.steady /\ Named(created) =>
        /\ created.total <= Clamped(created.lines + created.fee + Tolerance)
        /\ created.total >= Clamped(created.lines + created.fee - Tolerance)

\* A cart is ordered for what it was quoted, without a promotion and if nothing
\* was changed from the start of the quotation: its food, and its fee too if the
\* distance is the same and the table never changed.  The quotation for another
\* address agrees if the request says the discount or there is none.
OrderAsQuoted ==
    created.done /\ quote.done /\ created.steady /\ quote.steady /\ quote.writes = created.writes
      /\ (quote.kind = "quote" \/ Named(quote))
      => /\ quote.foods = created.foods
         /\ quote.off = 0 /\ ~failed /\ quote.d = created.d
              /\ (\A t \in DOMAIN was : was[t] \subseteq {None, fees})
              => quote.total = created.total

\* The fee charged is that of a table that was there during the last five
\* minutes, unless it could not be read or two rows of defaults were inserted.
FeeWithinLife ==
    [][\A k \in Requests :
         Doing(k, "fee") /\ request'[k].pc \in {"time", "total"} /\ ~failed' /\ rows' <= 1 =>
          \E t \in 1..(now + 1) : \E c \in was'[t] \ {None} :
              t > now + 1 - Life /\ request'[k].fee = Fee(c, request[k].d) * Unit]_pricingVars
=============================================================================

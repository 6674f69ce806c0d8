------------------------------ MODULE Payment ------------------------------
(***************************************************************************)
(* Orders that are paid online: the rows `orders` (status, isPaid) and     *)
(* `checkouts`, the payment gateways, whose reports may be lost, repeated, *)
(* late or wrong, and everything that races them:                          *)
(*   OrderController.createOrder, PaymentService.createCheckout            *)
(*   handlePaymentSuccess, handlePaymentFailure, cancelCheckout            *)
(*   OrderService.autoCancelStuckOrders (cron)                             *)
(*   status updates by restaurants and rejections by shippers, which save  *)
(*   the order with the isPaid they read                                   *)
(* As in OrderFlow an action is the code between two awaits, and a save    *)
(* writes the entity as it was read.  Both gateways use the id of the order*)
(* as the id of the payment, and an order gets one checkout.               *)
(***************************************************************************)
EXTENDS OrderStatus, Naturals

CONSTANTS Orders,     \* ids of orders with an online payment method
          Slots,      \* handlers that may be in progress at once
          MaxNotices, \* bound: reports received
          MaxCrashes, \* bound: how often the server process may stop
          Nil

ASSUME PaymentAssumption ==
    /\ Nil \notin Orders
    /\ MaxNotices \in Nat /\ MaxCrashes \in Nat

VARIABLES
    order,    \* orders.status, "absent" before the order exists
    paid,     \* orders.isPaid
    old,      \* the order was created more than 15 minutes ago
    momo,     \* the orders whose paymentMethod is MoMo; the others use VNPAY
    checkout, \* the row of checkouts with this orderId, or Nil
    charge,   \* the payment at the gateway
    slot,     \* the handlers in progress
    notices,  \* how many reports were received
    unproven, \* history: orders that a MoMo report said to be paid
    crashes

orderVars == <<order, paid, old, momo>>
reports == <<notices, unproven>>
paymentVars == <<orderVars, checkout, charge, slot, reports, crashes>>

CheckoutStatus == {"PENDING", "COMPLETED", "FAILED", "CANCELLED"}

\* A checkout.  intent: paymentIntentId is set.  free: paymentMethod is 'free'.
Checkout == [st : CheckoutStatus, intent : BOOLEAN, free : BOOLEAN]

Stages == {"idle", "checkout_insert", "intent_request", "intent_save",
           "intent_fail", "notice_save", "success_order", "cancel_read",
           "cancel_save", "order_save", "stuck_save", "stuck_find", "stuck_checkout"}

\* What a handler holds across its awaits: the order, the status it will write,
\* isPaid and paymentIntentId as it read them.
Slot == [pc : Stages, o : Orders \cup {Nil}, st : Status, paid : BOOLEAN,
         intent : BOOLEAN]

Idle == [pc |-> "idle", o |-> Nil, st |-> "pending", paid |-> FALSE, intent |-> FALSE]

PaymentTypeOK ==
    /\ order \in [Orders -> Status \cup {"absent"}]
    /\ paid \in [Orders -> BOOLEAN]
    /\ old \in [Orders -> BOOLEAN]
    /\ momo \subseteq Orders
    /\ checkout \in [Orders -> Checkout \cup {Nil}]
    /\ charge \in [Orders -> {"none", "open", "charged", "refused"}]
    /\ slot \in [Slots -> Slot]
    /\ \A k \in Slots : slot[k].pc # "idle" => slot[k].o \in Orders
    /\ notices \in 0..MaxNotices /\ unproven \subseteq Orders
    /\ crashes \in 0..MaxCrashes

PaymentInit ==
    /\ order = [o \in Orders |-> "absent"]
    /\ paid = [o \in Orders |-> FALSE]
    /\ old = [o \in Orders |-> FALSE] /\ momo = {}
    /\ checkout = [o \in Orders |-> Nil]
    /\ charge = [o \in Orders |-> "none"]
    /\ slot = [k \in Slots |-> Idle]
    /\ notices = 0 /\ unproven = {}
    /\ crashes = 0

-----------------------------------------------------------------------------
At(k, pc)     == slot[k].pc = pc
Begin(k, req) == At(k, "idle") /\ slot' = [slot EXCEPT ![k] = req]
Goto(k, pc)   == slot' = [slot EXCEPT ![k].pc = pc]
End(k)        == slot' = [slot EXCEPT ![k] = Idle]

\* save() of the order: the status to write, and isPaid as the entity has it.
SaveOrder(o, st, isPaid) ==
    /\ order' = [order EXCEPT ![o] = st]
    /\ paid' = [paid EXCEPT ![o] = isPaid]
    /\ UNCHANGED <<old, momo>>

\* save() of the checkout; its paymentMethod never changes.
SaveCheckout(o, st, intent) ==
    checkout' = [checkout EXCEPT ![o] =
        [st |-> st, intent |-> intent, free |-> checkout[o] # Nil /\ checkout[o].free]]

-----------------------------------------------------------------------------
(***************************************************************************)
(* POST /orders: the order is committed, then its checkout is created.     *)
(***************************************************************************)
CreateOrder(k, o) ==
    /\ order[o] = "absent"
    /\ order' = [order EXCEPT ![o] = "processing_payment"]
    /\ momo' \in {momo, momo \cup {o}}
    /\ Begin(k, [Idle EXCEPT !.pc = "checkout_insert", !.o = o])
    /\ UNCHANGED <<paid, old, checkout, charge, reports, crashes>>

\* An order with a total of 0 is complete at once; for another one the gateway
\* is asked for a payment.
CheckoutInsert(k) ==
    LET o == slot[k].o IN
    /\ At(k, "checkout_insert")
    /\ \/ /\ checkout' = [checkout EXCEPT ![o] =
                             [st |-> "COMPLETED", intent |-> FALSE, free |-> TRUE]]
          /\ slot' = [slot EXCEPT ![k] = [Idle EXCEPT !.pc = "order_save",
                        !.o = o, !.st = "completed", !.paid = paid[o]]]
       \/ SaveCheckout(o, "PENDING", FALSE) /\ Goto(k, "intent_request")
    /\ UNCHANGED <<orderVars, charge, reports, crashes>>

\* The gateway registers the payment, or the request fails.
IntentRequest(k) ==
    /\ At(k, "intent_request")
    /\ Goto(k, "intent_save") \/ Goto(k, "intent_fail")
    /\ UNCHANGED <<orderVars, checkout, charge, reports, crashes>>

\* The checkout inserted before is saved again, as it was then, and the customer
\* gets the address where he can pay.
IntentSave(k) ==
    /\ At(k, "intent_save")
    /\ SaveCheckout(slot[k].o, "PENDING", TRUE)
    /\ charge' = [charge EXCEPT ![slot[k].o] = "open"]
    /\ End(k)
    /\ UNCHANGED <<orderVars, reports, crashes>>

IntentFail(k) ==
    /\ At(k, "intent_fail")
    /\ SaveCheckout(slot[k].o, "FAILED", FALSE)
    /\ End(k)
    /\ UNCHANGED <<orderVars, charge, reports, crashes>>

-----------------------------------------------------------------------------
(***************************************************************************)
(* The gateway settles a payment once; what is reported of it is another   *)
(* matter.                                                                 *)
(***************************************************************************)
Settle(o) ==
    /\ charge[o] = "open"
    /\ \E result \in {"charged", "refused"} : charge' = [charge EXCEPT ![o] = result]
    /\ UNCHANGED <<orderVars, checkout, slot, reports, crashes>>

Channels == {"momo", "vnpay", "webhook"}

\* The reports that may come: a customer returns from MoMo, for whatever order
\* and result his address names, since neither is checked; he returns from VNPAY,
\* with parameters VNPAY has signed; MoMo calls the webhook, under a signature.
\* The webhook of VNPAY changes nothing.
Arrives(o, ch, result) ==
    \/ ch = "momo"
    \/ /\ o \in momo <=> ch = "webhook"
       /\ charge[o] = IF result THEN "charged" ELSE "refused"

TakenAsSuccess_AnyReturn(ch, result) == ch # "momo" \/ result   \* a mutant

\* MoMo sends no type, and a webhook without one is taken for
\* "payment_intent.succeeded", whatever its result.
TakenAsSuccess(ch, result) == ch = "webhook" \/ result

\* The checkout p that a report on o finds.  It is looked up by paymentIntentId;
\* the return from MoMo takes that id from the checkout of the order, and a
\* look-up of NULL has no condition: it may find any checkout.
Finds(o, ch, p) ==
    /\ checkout[o] # Nil /\ checkout[p] # Nil
    /\ IF checkout[o].intent THEN p = o ELSE ch = "momo"

\* The status of the checkout that is found is not looked at.
Notify(k, o, ch, result) ==
    /\ notices < MaxNotices
    /\ notices' = notices + 1
    /\ Arrives(o, ch, result)
    /\ \E p \in Orders :
        /\ Finds(o, ch, p)
        /\ Begin(k, [Idle EXCEPT !.pc = "notice_save", !.o = p,
                        !.st = IF TakenAsSuccess(ch, result) THEN "completed" ELSE "canceled",
                        !.intent = checkout[p].intent])
        /\ unproven' = IF ch # "vnpay" /\ TakenAsSuccess(ch, result)
                         THEN unproven \cup {p} ELSE unproven
    /\ UNCHANGED <<orderVars, checkout, charge, crashes>>

NoticeSave(k) ==
    /\ At(k, "notice_save")
    /\ \/ /\ slot[k].st = "completed"
          /\ SaveCheckout(slot[k].o, "COMPLETED", slot[k].intent)
          /\ Goto(k, "success_order")
       \/ /\ slot[k].st = "canceled"
          /\ SaveCheckout(slot[k].o, "FAILED", slot[k].intent)
          /\ Goto(k, "cancel_read")
    /\ UNCHANGED <<orderVars, charge, reports, crashes>>

\* handlePaymentSuccess writes both columns.  The call of confirmPayment that
\* follows changes nothing: it refuses an order that is completed.
SuccessOrder(k) ==
    /\ At(k, "success_order")
    /\ SaveOrder(slot[k].o, "completed", TRUE)
    /\ End(k)
    /\ UNCHANGED <<checkout, charge, reports, crashes>>

\* handlePaymentFailure and cancelCheckout read the order and save it canceled.
CancelRead(k) ==
    LET o == slot[k].o IN
    /\ At(k, "cancel_read")
    /\ slot' = [slot EXCEPT ![k] = [Idle EXCEPT !.pc = "order_save", !.o = o,
                                       !.st = "canceled", !.paid = paid[o]]]
    /\ UNCHANGED <<orderVars, checkout, charge, reports, crashes>>

OrderSave(k) ==
    /\ At(k, "order_save")
    /\ SaveOrder(slot[k].o, slot[k].st, slot[k].paid)
    /\ End(k)
    /\ UNCHANGED <<checkout, charge, reports, crashes>>

\* POST /payment/cancel: the gateway is asked between the read and the save.
CancelCheckout(k, o) ==
    /\ o \in momo
    /\ checkout[o] # Nil
    /\ checkout[o].st = "PENDING"
    /\ Begin(k, [Idle EXCEPT !.pc = "cancel_save", !.o = o,
                             !.intent = checkout[o].intent])
    /\ UNCHANGED <<orderVars, checkout, charge, reports, crashes>>

CancelSave(k) ==
    /\ At(k, "cancel_save")
    /\ SaveCheckout(slot[k].o, "CANCELLED", slot[k].intent)
    /\ Goto(k, "cancel_read")
    /\ UNCHANGED <<orderVars, charge, reports, crashes>>

-----------------------------------------------------------------------------
(***************************************************************************)
(* autoCancelStuckOrders: the orders of the list are saved one by one.     *)
(***************************************************************************)
\* A defect: the comparison with the time limit is the wrong way round.
StuckList_Young(k, o) ==
    /\ order[o] = "processing_payment"
    /\ ~old[o]
    /\ Begin(k, [Idle EXCEPT !.pc = "stuck_save", !.o = o, !.paid = paid[o]])
    /\ UNCHANGED <<orderVars, checkout, charge, reports, crashes>>

StuckList(k, o) ==
    /\ order[o] = "processing_payment"
    /\ old[o]
    /\ Begin(k, [Idle EXCEPT !.pc = "stuck_save", !.o = o, !.paid = paid[o]])
    /\ UNCHANGED <<orderVars, checkout, charge, reports, crashes>>

StuckSave(k) ==
    /\ At(k, "stuck_save")
    /\ SaveOrder(slot[k].o, "canceled", slot[k].paid)
    /\ Goto(k, "stuck_find")
    /\ UNCHANGED <<checkout, charge, reports, crashes>>

StuckFind(k) ==
    LET c == checkout[slot[k].o] IN
    /\ At(k, "stuck_find")
    /\ IF c # Nil /\ c.st \notin {"COMPLETED", "CANCELLED"}
         THEN slot' = [slot EXCEPT ![k].pc = "stuck_checkout", ![k].intent = c.intent]
         ELSE End(k)
    /\ UNCHANGED <<orderVars, checkout, charge, reports, crashes>>

\* A defect: the spelling of the order status.
StuckCheckout_OrderSpelling(k) ==
    /\ At(k, "stuck_checkout")
    /\ SaveCheckout(slot[k].o, "CANCELED", slot[k].intent)
    /\ End(k)
    /\ UNCHANGED <<orderVars, charge, reports, crashes>>

StuckCheckout(k) ==
    /\ At(k, "stuck_checkout")
    /\ SaveCheckout(slot[k].o, "CANCELLED", slot[k].intent)
    /\ End(k)
    /\ UNCHANGED <<orderVars, charge, reports, crashes>>

-----------------------------------------------------------------------------
\* A restaurant changes the status (updateOrderStatus).
Update(k, o) ==
    /\ order[o] # "absent"
    /\ \E target \in AllowedStatuses :
        /\ CanChange(order[o], target)
        /\ Begin(k, [Idle EXCEPT !.pc = "order_save", !.o = o, !.st = target,
                                 !.paid = paid[o]])
    /\ UNCHANGED <<orderVars, checkout, charge, reports, crashes>>

\* A shipper rejects (rejectOrder): the order is saved as it was read.  All other
\* handlers that save an order do it like this one or like Update.
Reject(k, o) ==
    /\ order[o] # "absent"
    /\ Begin(k, [Idle EXCEPT !.pc = "order_save", !.o = o, !.st = order[o],
                             !.paid = paid[o]])
    /\ UNCHANGED <<orderVars, checkout, charge, reports, crashes>>

BecomeOld(o) ==
    /\ order[o] # "absent" /\ ~old[o]
    /\ old' = [old EXCEPT ![o] = TRUE]
    /\ UNCHANGED <<order, paid, momo, checkout, charge, slot, reports, crashes>>

\* The process stops and starts again: its handlers are gone.
Crash ==
    /\ crashes < MaxCrashes
    /\ crashes' = crashes + 1
    /\ slot' = [k \in Slots |-> Idle]
    /\ UNCHANGED <<orderVars, checkout, charge, reports>>

PaymentBegin(k) ==
    \E o \in Orders :
        \/ CreateOrder(k, o) \/ CancelCheckout(k, o) \/ StuckList(k, o)
        \/ Update(k, o) \/ Reject(k, o)
        \/ \E ch \in Channels, result \in BOOLEAN : Notify(k, o, ch, result)

PaymentStep(k) ==
    \/ CheckoutInsert(k) \/ IntentRequest(k) \/ IntentSave(k) \/ IntentFail(k)
    \/ NoticeSave(k) \/ SuccessOrder(k) \/ CancelRead(k) \/ OrderSave(k) \/ CancelSave(k)
    \/ StuckSave(k) \/ StuckFind(k) \/ StuckCheckout(k)

PaymentNext ==
    \/ \E k \in Slots : PaymentBegin(k) \/ PaymentStep(k)
    \/ \E o \in Orders : Settle(o) \/ BecomeOld(o)
    \/ Crash

PaymentSafe == PaymentInit /\ [][PaymentNext]_paymentVars

\* Awaits return and time passes; the cron runs, and waits for no handler in
\* the program, so its fairness is strong.  No customer pays or returns, and no
\* report arrives, for certain.
PaymentSpec ==
    /\ PaymentSafe
    /\ \A k \in Slots : WF_paymentVars(PaymentStep(k))
    /\ \A o \in Orders : /\ WF_paymentVars(BecomeOld(o))
                         /\ SF_paymentVars(\E k \in Slots : StuckList(k, o))

-----------------------------------------------------------------------------
(***************************************************************************)
(* Properties.                                                             *)
(***************************************************************************)

\* An order is paid for when the gateway has charged it, or a MoMo report, which
\* the program does not verify, has said so.
Backed == {o \in Orders : charge[o] = "charged"} \cup unproven

\* Nothing else marks an order as paid or its checkout as completed: no return
\* from VNPAY after a refusal, late or repeated report, stale save of the order or
\* of a checkout, cancellation, cron or restart.
PaidOnlyIfBacked ==
    \A o \in Orders :
        /\ paid[o] => o \in Backed
        /\ checkout[o] # Nil /\ checkout[o].st = "COMPLETED"
               => checkout[o].free \/ o \in Backed

\* No order waits for its payment for ever: without any report the cron
\* takes it out of that status, although stale saves may put it back.
StuckEventuallyResolved ==
    \A o \in Orders : order[o] = "processing_payment" ~> order[o] # "processing_payment"
=============================================================================

----------------------------- MODULE MoneyProofs -----------------------------
(***************************************************************************)
(* What an order costs and how it is paid for.  Payment for every set of   *)
(* orders and handlers, and Pricing for every set of prices, promotions,   *)
(* fee tables and requests.                                                *)
(***************************************************************************)
EXTENDS Payment, Pricing, TLAPS

-----------------------------------------------------------------------------
(* Payment.                                                                *)

\* What the type invariant says of one handler's record.
RecordOK(r) == r \in Slot /\ (r.pc # "idle" => r.o \in Orders)

LEMMA IdleOK == RecordOK(Idle)
  BY DEF RecordOK, Idle, Slot, Stages, Status

\* A handler that moves on leaves the records of the others as they are.
LEMMA OneSlot ==
  ASSUME PaymentTypeOK, NEW k \in Slots, NEW r, RecordOK(r),
         slot' = [slot EXCEPT ![k] = r]
  PROVE  /\ slot' \in [Slots -> Slot]
         /\ \A j \in Slots : slot'[j].pc # "idle" => slot'[j].o \in Orders
<1>1. slot \in [Slots -> Slot] /\ r \in Slot
  BY DEF PaymentTypeOK, RecordOK
<1>2. \A j \in Slots : slot'[j] = IF j = k THEN r ELSE slot[j]
  BY <1>1
<1> QED BY <1>1, <1>2 DEF PaymentTypeOK, RecordOK

LEMMA GotoTyped ==
  ASSUME PaymentTypeOK, NEW k \in Slots, slot[k].pc # "idle",
         NEW pc \in Stages, Goto(k, pc)
  PROVE  /\ slot' \in [Slots -> Slot]
         /\ \A j \in Slots : slot'[j].pc # "idle" => slot'[j].o \in Orders
<1>1. slot[k] \in Slot /\ slot[k].o \in Orders
  BY DEF PaymentTypeOK
<1>2. RecordOK([slot[k] EXCEPT !.pc = pc])
  BY <1>1 DEF RecordOK, Slot
<1>3. slot' = [slot EXCEPT ![k] = [slot[k] EXCEPT !.pc = pc]]
  BY DEF Goto, PaymentTypeOK
<1> QED BY <1>2, <1>3, OneSlot

LEMMA EndTyped ==
  ASSUME PaymentTypeOK, NEW k \in Slots, End(k)
  PROVE  /\ slot' \in [Slots -> Slot]
         /\ \A j \in Slots : slot'[j].pc # "idle" => slot'[j].o \in Orders
  BY IdleOK, OneSlot DEF End

\* The handler of a stage works for an order.
LEMMA Busy ==
  ASSUME PaymentTypeOK, NEW k \in Slots, NEW pc \in Stages \ {"idle"}, At(k, pc)
  PROVE  slot[k] \in Slot /\ slot[k].pc # "idle" /\ slot[k].o \in Orders
  BY DEF PaymentTypeOK, At

LEMMA SaveOrderTyped ==
  ASSUME PaymentTypeOK, NEW o \in Orders, NEW st \in Status,
         NEW isPaid \in BOOLEAN, SaveOrder(o, st, isPaid)
  PROVE  /\ order' \in [Orders -> Status \cup {"absent"}]
         /\ paid' \in [Orders -> BOOLEAN]
         /\ old' \in [Orders -> BOOLEAN]
         /\ momo' \subseteq Orders
  BY DEF PaymentTypeOK, SaveOrder

LEMMA SaveCheckoutTyped ==
  ASSUME PaymentTypeOK, NEW o \in Orders, NEW st \in CheckoutStatus,
         NEW intent \in BOOLEAN, SaveCheckout(o, st, intent)
  PROVE  checkout' \in [Orders -> Checkout \cup {Nil}]
<1>1. (checkout[o] # Nil /\ checkout[o].free) \in BOOLEAN
  BY DEF PaymentTypeOK, Checkout
<1>2. [st |-> st, intent |-> intent, free |-> checkout[o] # Nil /\ checkout[o].free]
        \in Checkout
  BY <1>1 DEF Checkout
<1> QED BY <1>2 DEF PaymentTypeOK, SaveCheckout

LEMMA InitTyped == PaymentInit => PaymentTypeOK
<1> SUFFICES ASSUME PaymentInit PROVE PaymentTypeOK
  OBVIOUS
<1>1. slot \in [Slots -> Slot] /\ \A k \in Slots : slot[k].pc = "idle"
  BY IdleOK DEF PaymentInit, RecordOK, Idle
<1> QED BY <1>1, PaymentAssumption DEF PaymentInit, PaymentTypeOK

\* What a report begins, whatever it says.
Report(p, st) == [pc |-> "notice_save", o |-> p, st |-> st, paid |-> FALSE,
                  intent |-> checkout[p].intent]

LEMMA NotifyBegins ==
  ASSUME PaymentTypeOK, NEW k \in Slots, NEW o \in Orders, NEW ch \in Channels,
         NEW result \in BOOLEAN, Notify(k, o, ch, result)
  PROVE  \E p \in Orders, st \in {"completed", "canceled"} :
            /\ RecordOK(Report(p, st)) /\ slot' = [slot EXCEPT ![k] = Report(p, st)]
            /\ checkout[p] # Nil /\ unproven' \in {unproven, unproven \cup {p}}
            /\ st = "completed" => charge[p] = "charged" \/ p \in unproven'
<1> DEFINE st == IF TakenAsSuccess(ch, result) THEN "completed" ELSE "canceled"
<1>0. TakenAsSuccess(ch, result) \in BOOLEAN
  BY DEF TakenAsSuccess
<1>1. PICK p \in Orders :
        /\ Finds(o, ch, p)
        /\ slot' = [slot EXCEPT ![k] = [Idle EXCEPT !.pc = "notice_save", !.o = p,
              !.st = st, !.intent = checkout[p].intent]]
        /\ unproven' = IF ch # "vnpay" /\ TakenAsSuccess(ch, result)
                         THEN unproven \cup {p} ELSE unproven
  BY Zenon DEF Notify, Begin
<1>2. checkout[p] \in Checkout /\ checkout[p] # Nil
  BY <1>1 DEF Finds, PaymentTypeOK
<1>3. st \in {"completed", "canceled"} /\ st \in Status
  BY DEF Status
<1>4. ch = "vnpay" /\ result => charge[p] = "charged"
  BY <1>1 DEF Notify, Arrives, Finds
<1>5. st = "completed" => charge[p] = "charged" \/ p \in unproven'
  BY <1>1, <1>4 DEF TakenAsSuccess, Channels
<1>6. unproven' \in {unproven, unproven \cup {p}}
  BY <1>1
<1> HIDE DEF st
<1> DEFINE r == [Idle EXCEPT !.pc = "notice_save", !.o = p, !.st = st,
                             !.intent = checkout[p].intent]
<1>7. r \in Slot /\ RecordOK(r)
  BY <1>2, <1>3 DEF RecordOK, Slot, Idle, Stages, Checkout
<1>8. /\ r.pc = "notice_save" /\ r.o = p /\ r.st = st /\ r.paid = FALSE
      /\ r.intent = checkout[p].intent
  BY DEF Idle
<1>9. slot' = [slot EXCEPT ![k] = r]
  BY <1>1
<1> HIDE DEF r
<1>10. r = Report(p, st)
  BY <1>7, <1>8 DEF Slot, Report
<1> QED BY <1>2, <1>3, <1>5, <1>6, <1>7, <1>9, <1>10

LEMMA BeginTyped ==
  ASSUME PaymentTypeOK, NEW k \in Slots, PaymentBegin(k)
  PROVE  PaymentTypeOK'
<1> PICK o \in Orders :
       \/ CreateOrder(k, o) \/ CancelCheckout(k, o) \/ StuckList(k, o)
       \/ Update(k, o) \/ Reject(k, o)
       \/ \E ch \in Channels, result \in BOOLEAN : Notify(k, o, ch, result)
  BY DEF PaymentBegin
<1> USE DEF Begin
<1>1. CASE CreateOrder(k, o)
  <2>1. RecordOK([Idle EXCEPT !.pc = "checkout_insert", !.o = o])
    BY IdleOK DEF RecordOK, Slot, Idle, Stages
  <2>2. order' \in [Orders -> Status \cup {"absent"}] /\ momo' \subseteq Orders
    BY <1>1 DEF CreateOrder, PaymentTypeOK, Status
  <2> QED BY <1>1, <2>1, <2>2, OneSlot DEF CreateOrder, PaymentTypeOK, reports
<1>2. CASE CancelCheckout(k, o)
  <2>1. checkout[o] \in Checkout
    BY <1>2 DEF CancelCheckout, PaymentTypeOK
  <2>2. RecordOK([Idle EXCEPT !.pc = "cancel_save", !.o = o,
                              !.intent = checkout[o].intent])
    BY <2>1, IdleOK DEF RecordOK, Slot, Idle, Stages, Checkout
  <2> QED BY <1>2, <2>2, OneSlot DEF CancelCheckout, PaymentTypeOK, orderVars, reports
<1>3. CASE StuckList(k, o)
  <2>1. RecordOK([Idle EXCEPT !.pc = "stuck_save", !.o = o, !.paid = paid[o]])
    BY IdleOK DEF RecordOK, Slot, Idle, Stages, PaymentTypeOK
  <2> QED BY <1>3, <2>1, OneSlot DEF StuckList, PaymentTypeOK, orderVars, reports
<1>4. CASE Update(k, o)
  <2>1. PICK target \in AllowedStatuses :
          slot' = [slot EXCEPT ![k] = [Idle EXCEPT !.pc = "order_save", !.o = o,
                                         !.st = target, !.paid = paid[o]]]
    BY <1>4 DEF Update
  <2>2. RecordOK([Idle EXCEPT !.pc = "order_save", !.o = o, !.st = target,
                              !.paid = paid[o]])
    BY IdleOK DEF RecordOK, Slot, Idle, Stages, PaymentTypeOK, AllowedStatuses, Status
  <2> QED BY <1>4, <2>1, <2>2, OneSlot DEF Update, PaymentTypeOK, orderVars, reports
<1>5. CASE Reject(k, o)
  <2>1. order[o] \in Status
    BY <1>5 DEF Reject, PaymentTypeOK
  <2>2. RecordOK([Idle EXCEPT !.pc = "order_save", !.o = o, !.st = order[o],
                              !.paid = paid[o]])
    BY <2>1, IdleOK DEF RecordOK, Slot, Idle, Stages, PaymentTypeOK
  <2> QED BY <1>5, <2>2, OneSlot DEF Reject, PaymentTypeOK, orderVars, reports
<1>6. ASSUME NEW ch \in Channels, NEW result \in BOOLEAN, Notify(k, o, ch, result)
      PROVE  PaymentTypeOK'
  <2>1. PICK p \in Orders, st \in {"completed", "canceled"} :
          /\ RecordOK(Report(p, st)) /\ slot' = [slot EXCEPT ![k] = Report(p, st)]
          /\ unproven' \in {unproven, unproven \cup {p}}
    BY <1>6, NotifyBegins
  <2>2. unproven' \subseteq Orders
    BY <2>1 DEF PaymentTypeOK
  <2>4. notices' \in 0..MaxNotices
    <3>1. notices < MaxNotices /\ notices' = notices + 1
      BY <1>6 DEF Notify
    <3>2. notices \in 0..MaxNotices /\ MaxNotices \in Nat
      BY PaymentAssumption DEF PaymentTypeOK
    <3> QED BY <3>1, <3>2
  <2> QED BY <1>6, <2>1, <2>2, <2>4, OneSlot DEF Notify, PaymentTypeOK, orderVars
<1> QED BY <1>1, <1>2, <1>3, <1>4, <1>5, <1>6

LEMMA StepTyped ==
  ASSUME PaymentTypeOK, NEW k \in Slots, PaymentStep(k)
  PROVE  PaymentTypeOK'
<1> USE DEF Stages
<1>1. CASE CheckoutInsert(k)
  <2>1. slot[k] \in Slot /\ slot[k].pc # "idle" /\ slot[k].o \in Orders
    BY <1>1, Busy DEF CheckoutInsert
  <2>2. CASE Goto(k, "intent_request") /\ SaveCheckout(slot[k].o, "PENDING", FALSE)
    <3>1. checkout' \in [Orders -> Checkout \cup {Nil}]
      BY <2>1, <2>2, SaveCheckoutTyped DEF CheckoutStatus
    <3> QED BY <1>1, <2>1, <2>2, <3>1, GotoTyped
            DEF CheckoutInsert, PaymentTypeOK, orderVars, reports
  <2>3. CASE /\ checkout' = [checkout EXCEPT ![slot[k].o] =
                              [st |-> "COMPLETED", intent |-> FALSE, free |-> TRUE]]
             /\ slot' = [slot EXCEPT ![k] = [Idle EXCEPT !.pc = "order_save",
                  !.o = slot[k].o, !.st = "completed", !.paid = paid[slot[k].o]]]
    <3>1. RecordOK([Idle EXCEPT !.pc = "order_save", !.o = slot[k].o,
                      !.st = "completed", !.paid = paid[slot[k].o]])
      BY <2>1 DEF RecordOK, Slot, Idle, Status, PaymentTypeOK
    <3>2. checkout' \in [Orders -> Checkout \cup {Nil}]
      BY <2>1, <2>3 DEF PaymentTypeOK, Checkout, CheckoutStatus
    <3> QED BY <1>1, <2>3, <3>1, <3>2, OneSlot DEF CheckoutInsert, PaymentTypeOK, orderVars, reports
  <2> QED BY <1>1, <2>2, <2>3 DEF CheckoutInsert
<1>2. CASE IntentRequest(k)
  <2>1. slot[k] \in Slot /\ slot[k].pc # "idle" /\ slot[k].o \in Orders
    BY <1>2, Busy DEF IntentRequest
  <2> QED BY <1>2, <2>1, GotoTyped DEF IntentRequest, PaymentTypeOK, orderVars, reports
<1>3. CASE IntentSave(k)
  <2>1. slot[k].o \in Orders
    BY <1>3, Busy DEF IntentSave
  <2>2. checkout' \in [Orders -> Checkout \cup {Nil}]
    BY <1>3, <2>1, SaveCheckoutTyped DEF IntentSave, CheckoutStatus
  <2>3. charge' \in [Orders -> {"none", "open", "charged", "refused"}]
    BY <1>3, <2>1 DEF IntentSave, PaymentTypeOK
  <2> QED BY <1>3, <2>2, <2>3, EndTyped DEF IntentSave, PaymentTypeOK, orderVars, reports
<1>4. CASE IntentFail(k)
  <2>1. slot[k].o \in Orders
    BY <1>4, Busy DEF IntentFail
  <2>2. checkout' \in [Orders -> Checkout \cup {Nil}]
    BY <1>4, <2>1, SaveCheckoutTyped DEF IntentFail, CheckoutStatus
  <2> QED BY <1>4, <2>2, EndTyped DEF IntentFail, PaymentTypeOK, orderVars, reports
<1>5. CASE SuccessOrder(k)
  <2>1. slot[k].o \in Orders
    BY <1>5, Busy DEF SuccessOrder
  <2>2. "completed" \in Status /\ TRUE \in BOOLEAN
    BY DEF Status
  <2> QED BY <1>5, <2>1, <2>2, SaveOrderTyped, EndTyped DEF SuccessOrder, PaymentTypeOK, reports
<1>6. CASE CancelRead(k)
  <2>1. slot[k].o \in Orders
    BY <1>6, Busy DEF CancelRead
  <2>2. RecordOK([Idle EXCEPT !.pc = "order_save", !.o = slot[k].o,
                    !.st = "canceled", !.paid = paid[slot[k].o]])
    BY <2>1 DEF RecordOK, Slot, Idle, Status, PaymentTypeOK
  <2> QED BY <1>6, <2>2, OneSlot DEF CancelRead, PaymentTypeOK, orderVars, reports
<1>7. CASE OrderSave(k)
  <2>1. slot[k] \in Slot /\ slot[k].o \in Orders
    BY <1>7, Busy DEF OrderSave
  <2>2. slot[k].st \in Status /\ slot[k].paid \in BOOLEAN
    BY <2>1 DEF Slot
  <2> QED BY <1>7, <2>1, <2>2, SaveOrderTyped, EndTyped DEF OrderSave, PaymentTypeOK, reports
<1>8. CASE CancelSave(k)
  <2>1. slot[k] \in Slot /\ slot[k].pc # "idle" /\ slot[k].o \in Orders
    BY <1>8, Busy DEF CancelSave
  <2>2. slot[k].intent \in BOOLEAN
    BY <2>1 DEF Slot
  <2>3. checkout' \in [Orders -> Checkout \cup {Nil}]
    BY <1>8, <2>1, <2>2, SaveCheckoutTyped DEF CancelSave, CheckoutStatus
  <2> QED BY <1>8, <2>1, <2>3, GotoTyped DEF CancelSave, PaymentTypeOK, orderVars, reports
<1>9. CASE StuckSave(k)
  <2>1. slot[k] \in Slot /\ slot[k].pc # "idle" /\ slot[k].o \in Orders
    BY <1>9, Busy DEF StuckSave
  <2>2. "canceled" \in Status /\ slot[k].paid \in BOOLEAN
    BY <2>1 DEF Slot, Status
  <2> QED BY <1>9, <2>1, <2>2, SaveOrderTyped, GotoTyped DEF StuckSave, PaymentTypeOK, reports
<1>10. CASE StuckFind(k)
  <2>1. slot[k] \in Slot /\ slot[k].o \in Orders
    BY <1>10, Busy DEF StuckFind
  <2> DEFINE c == checkout[slot[k].o]
  <2>2. CASE c # Nil /\ c.st \notin {"COMPLETED", "CANCELLED"}
    <3>1. c \in Checkout
      BY <2>1, <2>2 DEF PaymentTypeOK
    <3> DEFINE r == [slot[k] EXCEPT !.pc = "stuck_checkout", !.intent = c.intent]
    <3>2. RecordOK(r)
      BY <2>1, <3>1 DEF RecordOK, Slot, Checkout
    <3>3. slot' = [slot EXCEPT ![k] = r]
      BY <1>10, <2>2 DEF StuckFind, PaymentTypeOK
    <3> QED BY <1>10, <3>2, <3>3, OneSlot DEF StuckFind, PaymentTypeOK, orderVars, reports
  <2>3. CASE End(k)
    BY <1>10, <2>3, EndTyped DEF StuckFind, PaymentTypeOK, orderVars, reports
  <2> QED BY <1>10, <2>2, <2>3 DEF StuckFind
<1>11. CASE StuckCheckout(k)
  <2>1. slot[k] \in Slot /\ slot[k].o \in Orders
    BY <1>11, Busy DEF StuckCheckout
  <2>2. slot[k].intent \in BOOLEAN
    BY <2>1 DEF Slot
  <2>3. checkout' \in [Orders -> Checkout \cup {Nil}]
    BY <1>11, <2>1, <2>2, SaveCheckoutTyped DEF StuckCheckout, CheckoutStatus
  <2> QED BY <1>11, <2>3, EndTyped DEF StuckCheckout, PaymentTypeOK, orderVars, reports
<1>12. CASE NoticeSave(k)
  <2>1. slot[k] \in Slot /\ slot[k].pc # "idle" /\ slot[k].o \in Orders
    BY <1>12, Busy DEF NoticeSave
  <2>2. slot[k].intent \in BOOLEAN
    BY <2>1 DEF Slot
  <2>3. checkout' \in [Orders -> Checkout \cup {Nil}]
    BY <1>12, <2>1, <2>2, SaveCheckoutTyped DEF NoticeSave, CheckoutStatus
  <2> QED BY <1>12, <2>1, <2>3, GotoTyped DEF NoticeSave, PaymentTypeOK, orderVars, reports
<1> QED BY <1>1, <1>2, <1>3, <1>4, <1>5, <1>6, <1>7, <1>8, <1>9, <1>10, <1>11, <1>12
        DEF PaymentStep

LEMMA NextTyped == PaymentTypeOK /\ [PaymentNext]_paymentVars => PaymentTypeOK'
<1> SUFFICES ASSUME PaymentTypeOK, [PaymentNext]_paymentVars PROVE PaymentTypeOK'
  OBVIOUS
<1>1. ASSUME NEW k \in Slots, PaymentBegin(k) \/ PaymentStep(k) PROVE PaymentTypeOK'
  BY <1>1, BeginTyped, StepTyped
<1>2. ASSUME NEW o \in Orders, Settle(o) PROVE PaymentTypeOK'
  BY <1>2 DEF Settle, PaymentTypeOK, orderVars, reports
<1>3. ASSUME NEW o \in Orders, BecomeOld(o) PROVE PaymentTypeOK'
  BY <1>3 DEF BecomeOld, PaymentTypeOK, reports
<1>4. CASE Crash
  <2>1. slot' \in [Slots -> Slot] /\ \A k \in Slots : slot'[k].pc = "idle"
    BY <1>4, IdleOK DEF Crash, RecordOK, Idle
  <2>2. crashes' \in 0..MaxCrashes
    BY <1>4, PaymentAssumption DEF Crash, PaymentTypeOK
  <2> QED BY <1>4, <2>1, <2>2 DEF Crash, PaymentTypeOK, orderVars, reports
<1>5. CASE UNCHANGED paymentVars
  BY <1>5 DEF paymentVars, PaymentTypeOK, orderVars, reports
<1> QED BY <1>1, <1>2, <1>3, <1>4, <1>5 DEF PaymentNext

\* Orders, checkouts and the entities the handlers hold keep their types.
THEOREM PaymentTypeCorrect == PaymentSafe => []PaymentTypeOK
  BY InitTyped, NextTyped, PTL DEF PaymentSafe

-----------------------------------------------------------------------------
\* What a handler will write was true when it was read, and stays true: neither a
\* charge nor a report is taken back.
Charged(r, backed) ==
    (r.paid \/ r.pc = "success_order" \/ (r.pc = "notice_save" /\ r.st = "completed"))
        => r.o \in backed

ChargeInv ==
    PaymentTypeOK /\ PaidOnlyIfBacked /\ \A k \in Slots : Charged(slot[k], Backed)

\* Once charged or reported, so for ever.
Settled == Backed \subseteq Backed'

\* A step of one handler keeps what the others hold justified.
LEMMA OneCharged ==
  ASSUME ChargeInv, Settled, NEW k \in Slots, NEW r, RecordOK(r), Charged(r, Backed'),
         slot' = [slot EXCEPT ![k] = r]
  PROVE  \A j \in Slots : Charged(slot'[j], Backed')
<1>1. slot \in [Slots -> Slot]
  BY DEF ChargeInv, PaymentTypeOK
<1>2. ASSUME NEW j \in Slots PROVE Charged(slot'[j], Backed')
  <2>1. CASE j = k
    <3>1. slot'[j] = r
      BY <1>1, <2>1
    <3> QED BY <3>1 DEF Charged
  <2>2. CASE j # k
    <3>1. slot'[j] = slot[j]
      BY <1>1, <2>2
    <3>2. Charged(slot[j], Backed)
      BY DEF ChargeInv
    <3> QED BY <3>1, <3>2 DEF Charged, Settled
  <2> QED BY <2>1, <2>2
<1> QED BY <1>2

LEMMA IdleCharged == \A backed : Charged(Idle, backed)
  BY DEF Charged, Idle

LEMMA EndCharged ==
  ASSUME ChargeInv, Settled, NEW k \in Slots, End(k)
  PROVE  \A j \in Slots : Charged(slot'[j], Backed')
  BY IdleOK, IdleCharged, OneCharged DEF End

\* Going on with what was read before, to any stage but those that pay.
LEMMA GotoCharged ==
  ASSUME ChargeInv, Settled, NEW k \in Slots, slot[k].pc # "idle",
         NEW pc \in Stages \ {"notice_save", "success_order"}, Goto(k, pc)
  PROVE  \A j \in Slots : Charged(slot'[j], Backed')
<1> DEFINE r == [slot[k] EXCEPT !.pc = pc]
<1>1. slot[k] \in Slot /\ slot[k].o \in Orders
  BY DEF ChargeInv, PaymentTypeOK
<1>2. RecordOK(r)
  BY <1>1 DEF RecordOK, Slot
<1>3. slot' = [slot EXCEPT ![k] = r]
  BY DEF Goto, ChargeInv, PaymentTypeOK
<1>4. Charged(slot[k], Backed)
  BY DEF ChargeInv
<1>5. Charged(r, Backed')
  <2>1. /\ r.paid = slot[k].paid /\ r.o = slot[k].o
        /\ r.pc \notin {"notice_save", "success_order"}
    BY <1>1 DEF Slot
  <2> QED BY <1>1, <1>4, <2>1 DEF Charged, Settled
<1> QED BY <1>2, <1>3, <1>5, OneCharged

\* A record with isPaid as it is in the row.
LEMMA ReadCharged ==
  ASSUME ChargeInv, Settled, NEW o \in Orders, NEW r \in Slot,
         r.o = o, r.paid = paid[o] \/ r.paid = FALSE, r.pc \notin {"notice_save", "success_order"}
  PROVE  Charged(r, Backed')
  BY DEF ChargeInv, PaymentTypeOK, PaidOnlyIfBacked, Charged, Settled, Slot

LEMMA SaveOrderCharged ==
  ASSUME ChargeInv, Settled, NEW o \in Orders, NEW st, NEW isPaid \in BOOLEAN,
         isPaid => o \in Backed, SaveOrder(o, st, isPaid),
         UNCHANGED checkout
  PROVE  PaidOnlyIfBacked'
  BY DEF ChargeInv, PaymentTypeOK, PaidOnlyIfBacked, SaveOrder, Settled

LEMMA SaveCheckoutCharged ==
  ASSUME ChargeInv, Settled, NEW o \in Orders, NEW st, NEW intent,
         st = "COMPLETED" => o \in Backed, SaveCheckout(o, st, intent),
         UNCHANGED paid
  PROVE  PaidOnlyIfBacked'
<1> DEFINE c == [st |-> st, intent |-> intent, free |-> checkout[o] # Nil /\ checkout[o].free]
<1>1. c.st = st /\ checkout' = [checkout EXCEPT ![o] = c]
  BY DEF SaveCheckout
<1> HIDE DEF c
<1>2. \A p \in Orders \ {o} : checkout'[p] = checkout[p]
  BY <1>1 DEF ChargeInv, PaymentTypeOK
<1>3. checkout'[o].st = st
  BY <1>1 DEF ChargeInv, PaymentTypeOK
<1> QED BY <1>2, <1>3 DEF ChargeInv, PaidOnlyIfBacked, Settled

\* Neither isPaid nor a checkout changes.
LEMMA RowsCharged ==
  ASSUME ChargeInv, Settled, UNCHANGED <<paid, checkout>>
  PROVE  PaidOnlyIfBacked'
  BY DEF ChargeInv, PaidOnlyIfBacked, Settled

LEMMA BeginCharged ==
  ASSUME ChargeInv, Settled, NEW k \in Slots, PaymentBegin(k)
  PROVE  PaidOnlyIfBacked' /\ \A j \in Slots : Charged(slot'[j], Backed')
<1> PICK o \in Orders :
       \/ CreateOrder(k, o) \/ CancelCheckout(k, o) \/ StuckList(k, o)
       \/ Update(k, o) \/ Reject(k, o)
       \/ \E ch \in Channels, result \in BOOLEAN : Notify(k, o, ch, result)
  BY DEF PaymentBegin
<1>0. PaymentTypeOK
  BY DEF ChargeInv
<1> USE DEF Begin
<1>1. CASE CreateOrder(k, o)
  <2> DEFINE r == [Idle EXCEPT !.pc = "checkout_insert", !.o = o]
  <2>1. RecordOK(r) /\ r.o = o /\ r.paid = FALSE /\ r.pc \notin {"notice_save", "success_order"}
    BY IdleOK DEF RecordOK, Slot, Idle, Stages
  <2>2. Charged(r, Backed')
    BY <2>1, ReadCharged DEF RecordOK
  <2>3. PaidOnlyIfBacked'
    BY <1>1, RowsCharged DEF CreateOrder
  <2> QED BY <1>1, <2>1, <2>2, <2>3, OneCharged DEF CreateOrder
<1>2. CASE CancelCheckout(k, o)
  <2> DEFINE r == [Idle EXCEPT !.pc = "cancel_save", !.o = o, !.intent = checkout[o].intent]
  <2>1. checkout[o] \in Checkout
    BY <1>0, <1>2 DEF CancelCheckout, PaymentTypeOK
  <2>2. RecordOK(r) /\ r.o = o /\ r.paid = FALSE /\ r.pc \notin {"notice_save", "success_order"}
    BY <2>1, IdleOK DEF RecordOK, Slot, Idle, Stages, Checkout
  <2>3. Charged(r, Backed')
    BY <2>2, ReadCharged DEF RecordOK
  <2> QED BY <1>2, <2>2, <2>3, OneCharged, RowsCharged DEF CancelCheckout, orderVars
<1>3. CASE StuckList(k, o)
  <2> DEFINE r == [Idle EXCEPT !.pc = "stuck_save", !.o = o, !.paid = paid[o]]
  <2>1. RecordOK(r) /\ r.o = o /\ r.paid = paid[o] /\ r.pc \notin {"notice_save", "success_order"}
    BY <1>0, IdleOK DEF RecordOK, Slot, Idle, Stages, PaymentTypeOK
  <2>2. Charged(r, Backed')
    BY <2>1, ReadCharged DEF RecordOK
  <2> QED BY <1>3, <2>1, <2>2, OneCharged, RowsCharged DEF StuckList, orderVars
<1>4. CASE Update(k, o)
  <2>1. PICK target \in AllowedStatuses :
          slot' = [slot EXCEPT ![k] = [Idle EXCEPT !.pc = "order_save", !.o = o,
                                         !.st = target, !.paid = paid[o]]]
    BY <1>4 DEF Update
  <2> DEFINE r == [Idle EXCEPT !.pc = "order_save", !.o = o, !.st = target, !.paid = paid[o]]
  <2>2. RecordOK(r) /\ r.o = o /\ r.paid = paid[o] /\ r.pc \notin {"notice_save", "success_order"}
    BY <1>0, IdleOK DEF RecordOK, Slot, Idle, Stages, PaymentTypeOK, AllowedStatuses, Status
  <2>3. Charged(r, Backed')
    BY <2>2, ReadCharged DEF RecordOK
  <2> QED BY <1>4, <2>1, <2>2, <2>3, OneCharged, RowsCharged DEF Update, orderVars
<1>5. CASE Reject(k, o)
  <2> DEFINE r == [Idle EXCEPT !.pc = "order_save", !.o = o, !.st = order[o], !.paid = paid[o]]
  <2>1. order[o] \in Status
    BY <1>0, <1>5 DEF Reject, PaymentTypeOK
  <2>2. RecordOK(r) /\ r.o = o /\ r.paid = paid[o] /\ r.pc \notin {"notice_save", "success_order"}
    BY <1>0, <2>1, IdleOK DEF RecordOK, Slot, Idle, Stages, PaymentTypeOK
  <2>3. Charged(r, Backed')
    BY <2>2, ReadCharged DEF RecordOK
  <2> QED BY <1>5, <2>2, <2>3, OneCharged, RowsCharged DEF Reject, orderVars
<1>6. ASSUME NEW ch \in Channels, NEW result \in BOOLEAN, Notify(k, o, ch, result)
      PROVE  PaidOnlyIfBacked' /\ \A j \in Slots : Charged(slot'[j], Backed')
  <2>1. PICK p \in Orders, st \in {"completed", "canceled"} :
          /\ RecordOK(Report(p, st)) /\ slot' = [slot EXCEPT ![k] = Report(p, st)]
          /\ st = "completed" => charge[p] = "charged" \/ p \in unproven'
    BY <1>0, <1>6, NotifyBegins
  <2> DEFINE r == Report(p, st)
  <2>2. r.o = p /\ r.paid = FALSE /\ r.st = st /\ r.pc = "notice_save"
    BY DEF Report
  <2>3. UNCHANGED <<paid, checkout, charge>>
    BY <1>6 DEF Notify, orderVars
  <2>4. Charged(r, Backed')
    BY <2>1, <2>2, <2>3 DEF Charged, Backed
  <2> QED BY <2>1, <2>3, <2>4, OneCharged, RowsCharged
<1> QED BY <1>1, <1>2, <1>3, <1>4, <1>5, <1>6

LEMMA StepCharged ==
  ASSUME ChargeInv, Settled, NEW k \in Slots, PaymentStep(k)
  PROVE  PaidOnlyIfBacked' /\ \A j \in Slots : Charged(slot'[j], Backed')
<1> USE DEF Stages
<1>0. PaymentTypeOK /\ Charged(slot[k], Backed)
  BY DEF ChargeInv
<1>1. CASE CheckoutInsert(k)
  <2>1. slot[k].pc # "idle" /\ slot[k].o \in Orders
    BY <1>0, <1>1, Busy DEF CheckoutInsert
  <2>2. CASE SaveCheckout(slot[k].o, "PENDING", FALSE) /\ Goto(k, "intent_request")
    <3>1. PaidOnlyIfBacked'
      BY <1>1, <2>1, <2>2, SaveCheckoutCharged DEF CheckoutInsert, orderVars
    <3> QED BY <2>1, <2>2, <3>1, GotoCharged
  <2>3. CASE /\ checkout' = [checkout EXCEPT ![slot[k].o] =
                              [st |-> "COMPLETED", intent |-> FALSE, free |-> TRUE]]
             /\ slot' = [slot EXCEPT ![k] = [Idle EXCEPT !.pc = "order_save",
                  !.o = slot[k].o, !.st = "completed", !.paid = paid[slot[k].o]]]
    <3> DEFINE r == [Idle EXCEPT !.pc = "order_save", !.o = slot[k].o,
                       !.st = "completed", !.paid = paid[slot[k].o]]
    <3>1. RecordOK(r) /\ r.o = slot[k].o /\ r.paid = paid[slot[k].o] /\ r.pc \notin {"notice_save", "success_order"}
      BY <1>0, <2>1 DEF RecordOK, Slot, Idle, Status, PaymentTypeOK
    <3>2. Charged(r, Backed')
      BY <2>1, <3>1, ReadCharged DEF RecordOK
    <3>3. paid' = paid
      BY <1>1 DEF CheckoutInsert, orderVars
    <3>4. checkout'[slot[k].o].free = TRUE
          /\ \A p \in Orders \ {slot[k].o} : checkout'[p] = checkout[p]
      BY <1>0, <2>1, <2>3 DEF PaymentTypeOK
    <3>5. PaidOnlyIfBacked'
      BY <3>3, <3>4 DEF ChargeInv, PaidOnlyIfBacked, Settled
    <3> QED BY <2>3, <3>1, <3>2, <3>5, OneCharged
  <2> QED BY <1>1, <2>2, <2>3 DEF CheckoutInsert
<1>2. CASE IntentRequest(k)
  <2>1. slot[k].pc # "idle" /\ slot[k].o \in Orders
    BY <1>0, <1>2, Busy DEF IntentRequest
  <2> QED BY <1>2, <2>1, GotoCharged, RowsCharged DEF IntentRequest, orderVars
<1>3. CASE IntentSave(k)
  <2>1. slot[k].o \in Orders
    BY <1>0, <1>3, Busy DEF IntentSave
  <2> QED BY <1>3, <2>1, SaveCheckoutCharged, EndCharged DEF IntentSave, orderVars
<1>4. CASE IntentFail(k)
  <2>1. slot[k].o \in Orders
    BY <1>0, <1>4, Busy DEF IntentFail
  <2> QED BY <1>4, <2>1, SaveCheckoutCharged, EndCharged DEF IntentFail, orderVars
<1>5. CASE SuccessOrder(k)
  <2>1. slot[k].o \in Orders /\ slot[k].o \in Backed
    BY <1>0, <1>5, Busy DEF SuccessOrder, Charged, At, Stages
  <2> QED BY <1>5, <2>1, SaveOrderCharged, EndCharged DEF SuccessOrder
<1>6. CASE CancelRead(k)
  <2> DEFINE r == [Idle EXCEPT !.pc = "order_save", !.o = slot[k].o,
                     !.st = "canceled", !.paid = paid[slot[k].o]]
  <2>1. slot[k].o \in Orders
    BY <1>0, <1>6, Busy DEF CancelRead
  <2>2. RecordOK(r) /\ r.o = slot[k].o /\ r.paid = paid[slot[k].o] /\ r.pc \notin {"notice_save", "success_order"}
    BY <1>0, <2>1 DEF RecordOK, Slot, Idle, Status, PaymentTypeOK
  <2>3. Charged(r, Backed')
    BY <2>1, <2>2, ReadCharged DEF RecordOK
  <2> QED BY <1>6, <2>2, <2>3, OneCharged, RowsCharged DEF CancelRead, orderVars
<1>7. CASE OrderSave(k)
  <2>1. slot[k] \in Slot /\ slot[k].o \in Orders
    BY <1>0, <1>7, Busy DEF OrderSave
  <2>2. slot[k].paid \in BOOLEAN /\ (slot[k].paid => slot[k].o \in Backed)
    BY <1>0, <2>1 DEF Slot, Charged
  <2> QED BY <1>7, <2>1, <2>2, SaveOrderCharged, EndCharged DEF OrderSave
<1>8. CASE CancelSave(k)
  <2>1. slot[k].pc # "idle" /\ slot[k].o \in Orders
    BY <1>0, <1>8, Busy DEF CancelSave
  <2> QED BY <1>8, <2>1, SaveCheckoutCharged, GotoCharged DEF CancelSave, orderVars
<1>9. CASE StuckSave(k)
  <2>1. slot[k] \in Slot /\ slot[k].pc # "idle" /\ slot[k].o \in Orders
    BY <1>0, <1>9, Busy DEF StuckSave
  <2>2. slot[k].paid \in BOOLEAN /\ (slot[k].paid => slot[k].o \in Backed)
    BY <1>0, <2>1 DEF Slot, Charged
  <2> QED BY <1>9, <2>1, <2>2, SaveOrderCharged, GotoCharged DEF StuckSave
<1>10. CASE StuckFind(k)
  <2>1. slot[k] \in Slot /\ slot[k].o \in Orders
    BY <1>0, <1>10, Busy DEF StuckFind
  <2>2. PaidOnlyIfBacked'
    BY <1>10, RowsCharged DEF StuckFind, orderVars
  <2> DEFINE c == checkout[slot[k].o]
             r == [slot[k] EXCEPT !.pc = "stuck_checkout", !.intent = c.intent]
  <2>3. CASE c # Nil /\ c.st \notin {"COMPLETED", "CANCELLED"}
    <3>1. c \in Checkout
      BY <1>0, <2>1, <2>3 DEF PaymentTypeOK
    <3>2. RecordOK(r) /\ r.o = slot[k].o /\ r.paid = slot[k].paid /\ r.pc \notin {"notice_save", "success_order"}
      BY <2>1, <3>1 DEF RecordOK, Slot, Checkout
    <3>3. slot' = [slot EXCEPT ![k] = r]
      BY <1>0, <1>10, <2>3 DEF StuckFind, PaymentTypeOK
    <3>4. Charged(r, Backed')
      BY <1>0, <2>1, <3>2 DEF Charged, Settled
    <3> QED BY <2>2, <3>2, <3>3, <3>4, OneCharged
  <2>4. CASE End(k)
    BY <2>2, <2>4, EndCharged
  <2> QED BY <1>10, <2>3, <2>4 DEF StuckFind
<1>11. CASE StuckCheckout(k)
  <2>1. slot[k].o \in Orders
    BY <1>0, <1>11, Busy DEF StuckCheckout
  <2> QED BY <1>11, <2>1, SaveCheckoutCharged, EndCharged DEF StuckCheckout, orderVars
<1>12. CASE NoticeSave(k)
  <2>1. slot[k] \in Slot /\ slot[k].pc # "idle" /\ slot[k].o \in Orders
    BY <1>0, <1>12, Busy DEF NoticeSave
  <2>2. CASE /\ slot[k].st = "completed"
             /\ SaveCheckout(slot[k].o, "COMPLETED", slot[k].intent)
             /\ Goto(k, "success_order")
    <3>1. slot[k].o \in Backed
      BY <1>0, <1>12, <2>2 DEF NoticeSave, Charged, At
    <3>2. PaidOnlyIfBacked'
      BY <1>12, <2>1, <2>2, <3>1, SaveCheckoutCharged DEF NoticeSave, orderVars
    <3> DEFINE r == [slot[k] EXCEPT !.pc = "success_order"]
    <3>3. RecordOK(r) /\ r.o = slot[k].o
      BY <2>1 DEF RecordOK, Slot
    <3>4. slot' = [slot EXCEPT ![k] = r]
      BY <1>0, <2>2 DEF Goto, PaymentTypeOK
    <3>5. Charged(r, Backed')
      BY <2>1, <3>1, <3>3 DEF Charged, Settled
    <3> QED BY <3>2, <3>3, <3>4, <3>5, OneCharged
  <2>3. CASE /\ slot[k].st = "canceled"
             /\ SaveCheckout(slot[k].o, "FAILED", slot[k].intent)
             /\ Goto(k, "cancel_read")
    BY <1>12, <2>1, <2>3, SaveCheckoutCharged, GotoCharged DEF NoticeSave, orderVars
  <2> QED BY <1>12, <2>2, <2>3 DEF NoticeSave
<1> QED BY <1>1, <1>2, <1>3, <1>4, <1>5, <1>6, <1>7, <1>8, <1>9, <1>10, <1>11, <1>12
        DEF PaymentStep

-----------------------------------------------------------------------------
\* Only the request that creates an order opens its payment, and it has not done
\* so yet at these stages.
Asking == {"checkout_insert", "intent_request", "intent_save"}

AskedOnce ==
    /\ \A o \in Orders : order[o] = "absent" => charge[o] = "none" /\ checkout[o] = Nil
    /\ \A k \in Slots : slot[k].pc # "idle" => order[slot[k].o] # "absent"
    /\ \A k \in Slots : slot[k].pc \in Asking => charge[slot[k].o] = "none"
    /\ \A j, k \in Slots : j # k /\ slot[j].pc \in Asking /\ slot[k].pc \in Asking
                               => slot[j].o # slot[k].o

\* A step of a handler that is not about to ask, for an order that exists.
LEMMA OtherStep ==
  ASSUME PaymentTypeOK, AskedOnce, NEW k \in Slots, NEW r,
         slot' = [slot EXCEPT ![k] = r], r.pc \notin Asking,
         r.pc # "idle" => order'[r.o] # "absent",
         \A o \in Orders : order[o] # "absent" => order'[o] # "absent",
         \A o \in Orders : order'[o] = "absent" => checkout'[o] = Nil,
         UNCHANGED charge
  PROVE  AskedOnce'
<1>1. slot'[k] = r /\ \A j \in Slots \ {k} : slot'[j] = slot[j]
  BY DEF PaymentTypeOK
<1>2. \A o \in Orders : order'[o] = "absent" => charge'[o] = "none"
  BY DEF AskedOnce
<1>3. \A j \in Slots : slot'[j].pc # "idle" => order'[slot'[j].o] # "absent"
  BY <1>1 DEF AskedOnce, PaymentTypeOK
<1>4. \A j \in Slots : slot'[j].pc \in Asking => charge'[slot'[j].o] = "none"
  BY <1>1 DEF AskedOnce
<1>5. \A i, j \in Slots : i # j /\ slot'[i].pc \in Asking /\ slot'[j].pc \in Asking
                              => slot'[i].o # slot'[j].o
  BY <1>1 DEF AskedOnce
<1> QED BY <1>2, <1>3, <1>4, <1>5 DEF AskedOnce

LEMMA NotAbsent == "absent" \notin Status
  BY DEF Status

\* A saved order exists, and its checkout may be there.
LEMMA SavedExists ==
  ASSUME PaymentTypeOK, AskedOnce, NEW o \in Orders, order[o] # "absent",
         NEW st \in Status, NEW isPaid, SaveOrder(o, st, isPaid), UNCHANGED checkout
  PROVE  /\ \A p \in Orders : order[p] # "absent" => order'[p] # "absent"
         /\ \A p \in Orders : order'[p] = "absent" => checkout'[p] = Nil
  BY NotAbsent DEF PaymentTypeOK, AskedOnce, SaveOrder

LEMMA CheckoutExists ==
  ASSUME PaymentTypeOK, AskedOnce, NEW o \in Orders, order[o] # "absent",
         NEW c, checkout' = [checkout EXCEPT ![o] = c], UNCHANGED order
  PROVE  /\ \A p \in Orders : order[p] # "absent" => order'[p] # "absent"
         /\ \A p \in Orders : order'[p] = "absent" => checkout'[p] = Nil
  BY DEF PaymentTypeOK, AskedOnce

\* The handler that creates an order goes on before it opens the payment.
LEMMA StillAsking ==
  ASSUME PaymentTypeOK, AskedOnce, NEW k \in Slots, slot[k].pc \in Asking,
         NEW pc \in Stages \ {"idle"}, Goto(k, pc), UNCHANGED <<order, charge>>,
         \A o \in Orders : order'[o] = "absent" => checkout'[o] = Nil
  PROVE  AskedOnce'
<1>1. slot[k] \in Slot
  BY DEF PaymentTypeOK
<1>2. slot'[k].o = slot[k].o /\ \A j \in Slots \ {k} : slot'[j] = slot[j]
  BY <1>1 DEF Goto, PaymentTypeOK, Slot
<1>3. \A j \in Slots : slot'[j].pc \in Asking => slot[j].pc \in Asking /\ slot'[j].o = slot[j].o
  BY <1>2
<1>4. \A j \in Slots : slot'[j].pc # "idle" => slot[j].pc # "idle" /\ slot'[j].o = slot[j].o
  BY <1>2 DEF Asking
<1> QED BY <1>3, <1>4 DEF AskedOnce

LEMMA BeginAsked ==
  ASSUME PaymentTypeOK, AskedOnce, NEW k \in Slots, PaymentBegin(k)
  PROVE  AskedOnce'
<1> PICK o \in Orders :
       \/ CreateOrder(k, o) \/ CancelCheckout(k, o) \/ StuckList(k, o)
       \/ Update(k, o) \/ Reject(k, o)
       \/ \E ch \in Channels, result \in BOOLEAN : Notify(k, o, ch, result)
  BY DEF PaymentBegin
<1> USE DEF Begin
<1>1. CASE CreateOrder(k, o)
  <2> DEFINE r == [Idle EXCEPT !.pc = "checkout_insert", !.o = o]
  <2>1. r.o = o /\ r.pc \in Asking
    BY DEF Idle, Asking
  <2>2. slot'[k] = r /\ \A j \in Slots \ {k} : slot'[j] = slot[j]
    BY <1>1 DEF CreateOrder, PaymentTypeOK
  <2>3. order'[o] # "absent" /\ \A p \in Orders \ {o} : order'[p] = order[p]
    BY <1>1 DEF CreateOrder, PaymentTypeOK
  <2>4. charge[o] = "none" /\ \A j \in Slots : slot[j].pc # "idle" => slot[j].o # o
    BY <1>1 DEF CreateOrder, AskedOnce
  <2>5. UNCHANGED <<charge, checkout>>
    BY <1>1 DEF CreateOrder
  <2>6. \A p \in Orders : order'[p] = "absent" => charge'[p] = "none" /\ checkout'[p] = Nil
    BY <2>3, <2>5 DEF AskedOnce
  <2> HIDE DEF r
  <2>a. \A j \in Slots : slot[j].pc # "idle" =>
            slot[j].o \in Orders /\ order[slot[j].o] # "absent"
    BY DEF AskedOnce, PaymentTypeOK
  <2>7. \A j \in Slots : slot'[j].pc # "idle" => order'[slot'[j].o] # "absent"
    BY <2>1, <2>2, <2>3, <2>4, <2>a
  <2>8. \A j \in Slots : slot'[j].pc \in Asking => charge'[slot'[j].o] = "none"
    BY <2>1, <2>2, <2>4, <2>5 DEF AskedOnce
  <2>9. \A i, j \in Slots : i # j /\ slot'[i].pc \in Asking /\ slot'[j].pc \in Asking
                                => slot'[i].o # slot'[j].o
    <3>1. \A j \in Slots \ {k} : slot'[j].pc \in Asking => slot'[j].o # o
      BY <2>2, <2>4 DEF Asking
    <3>2. \A i, j \in Slots \ {k} : i # j /\ slot'[i].pc \in Asking /\ slot'[j].pc \in Asking
                                    => slot'[i].o # slot'[j].o
      BY <2>2 DEF AskedOnce
    <3> QED BY <2>1, <2>2, <3>1, <3>2
  <2> QED BY <2>6, <2>7, <2>8, <2>9 DEF AskedOnce
<1>2. CASE CancelCheckout(k, o)
  <2> DEFINE r == [Idle EXCEPT !.pc = "cancel_save", !.o = o, !.intent = checkout[o].intent]
  <2>1. r.o = o /\ r.pc \notin Asking
    BY DEF Idle, Asking
  <2>2. order[o] # "absent"
    BY <1>2 DEF CancelCheckout, AskedOnce
  <2> QED BY <1>2, <2>1, <2>2, OtherStep DEF CancelCheckout, orderVars, AskedOnce
<1>3. CASE StuckList(k, o)
  <2> DEFINE r == [Idle EXCEPT !.pc = "stuck_save", !.o = o, !.paid = paid[o]]
  <2>1. r.o = o /\ r.pc \notin Asking
    BY DEF Idle, Asking
  <2> QED BY <1>3, <2>1, OtherStep DEF StuckList, orderVars, AskedOnce
<1>4. CASE Update(k, o)
  <2>1. PICK target \in AllowedStatuses :
          slot' = [slot EXCEPT ![k] = [Idle EXCEPT !.pc = "order_save", !.o = o,
                                         !.st = target, !.paid = paid[o]]]
    BY <1>4 DEF Update
  <2> DEFINE r == [Idle EXCEPT !.pc = "order_save", !.o = o, !.st = target, !.paid = paid[o]]
  <2>2. r.o = o /\ r.pc \notin Asking
    BY DEF Idle, Asking
  <2> QED BY <1>4, <2>1, <2>2, OtherStep DEF Update, orderVars, AskedOnce
<1>5. CASE Reject(k, o)
  <2> DEFINE r == [Idle EXCEPT !.pc = "order_save", !.o = o, !.st = order[o], !.paid = paid[o]]
  <2>1. r.o = o /\ r.pc \notin Asking
    BY DEF Idle, Asking
  <2> QED BY <1>5, <2>1, OtherStep DEF Reject, orderVars, AskedOnce
<1>6. ASSUME NEW ch \in Channels, NEW result \in BOOLEAN, Notify(k, o, ch, result)
      PROVE  AskedOnce'
  <2>1. PICK p \in Orders, st \in {"completed", "canceled"} :
          slot' = [slot EXCEPT ![k] = Report(p, st)] /\ checkout[p] # Nil
    BY <1>6, NotifyBegins
  <2> DEFINE r == Report(p, st)
  <2>2. r.o = p /\ r.pc \notin Asking
    BY DEF Report, Asking
  <2>3. order[p] # "absent"
    BY <2>1 DEF AskedOnce
  <2>4. UNCHANGED <<order, charge, checkout>>
    BY <1>6 DEF Notify, orderVars
  <2> QED BY <2>1, <2>2, <2>3, <2>4, OtherStep DEF AskedOnce
<1> QED BY <1>1, <1>2, <1>3, <1>4, <1>5, <1>6

\* The handlers past the question to the gateway.
LEMMA AfterAsking ==
  ASSUME PaymentTypeOK, AskedOnce, NEW k \in Slots, NEW r,
         slot[k].pc # "idle", r.pc \notin Asking, r.pc # "idle" => r.o = slot[k].o,
         slot' = [slot EXCEPT ![k] = r], UNCHANGED charge,
         \/ UNCHANGED <<order, checkout>>
         \/ /\ \E c : checkout' = [checkout EXCEPT ![slot[k].o] = c]
            /\ UNCHANGED order
         \/ /\ \E st \in Status : \E isPaid : SaveOrder(slot[k].o, st, isPaid)
            /\ UNCHANGED checkout
  PROVE  AskedOnce'
<1>1. slot[k].o \in Orders /\ order[slot[k].o] # "absent"
  BY DEF PaymentTypeOK, AskedOnce
<1>2. /\ \A p \in Orders : order[p] # "absent" => order'[p] # "absent"
      /\ \A p \in Orders : order'[p] = "absent" => checkout'[p] = Nil
  <2>1. CASE UNCHANGED <<order, checkout>>
    BY <2>1 DEF AskedOnce
  <2>2. CASE /\ \E c : checkout' = [checkout EXCEPT ![slot[k].o] = c]
             /\ UNCHANGED order
    BY <1>1, <2>2, CheckoutExists
  <2>3. CASE /\ \E st \in Status : \E isPaid : SaveOrder(slot[k].o, st, isPaid)
             /\ UNCHANGED checkout
    BY <1>1, <2>3, SavedExists
  <2> QED BY <2>1, <2>2, <2>3
<1>3. r.pc # "idle" => order'[r.o] # "absent"
  BY <1>1, <1>2
<1> QED BY <1>2, <1>3, OtherStep

LEMMA StepAsked ==
  ASSUME PaymentTypeOK, AskedOnce, NEW k \in Slots, PaymentStep(k)
  PROVE  AskedOnce'
<1> DEFINE o == slot[k].o
<1> USE DEF At
<1>0. Idle.pc = "idle" /\ "idle" \notin Asking
  BY DEF Idle, Asking
<1>t. slot[k] \in Slot /\ (slot[k].pc # "idle" => o \in Orders)
  BY DEF PaymentTypeOK
<1>1. CASE CheckoutInsert(k)
  <2>1. CASE SaveCheckout(o, "PENDING", FALSE) /\ Goto(k, "intent_request")
    <3>1. slot[k].pc \in Asking /\ o \in Orders /\ order[o] # "absent"
      BY <1>1, <1>t DEF CheckoutInsert, AskedOnce, Asking
    <3>2. UNCHANGED <<order, charge>>
      BY <1>1 DEF CheckoutInsert, orderVars
    <3>3. \A p \in Orders : order'[p] = "absent" => checkout'[p] = Nil
      BY <2>1, <3>1, <3>2, CheckoutExists DEF SaveCheckout
    <3>4. "intent_request" \in Stages \ {"idle"}
      BY DEF Stages
    <3> QED BY <2>1, <3>1, <3>2, <3>3, <3>4, StillAsking
  <2>2. CASE /\ checkout' = [checkout EXCEPT ![slot[k].o] =
                              [st |-> "COMPLETED", intent |-> FALSE, free |-> TRUE]]
             /\ slot' = [slot EXCEPT ![k] = [Idle EXCEPT !.pc = "order_save",
                  !.o = slot[k].o, !.st = "completed", !.paid = paid[slot[k].o]]]
    <3> DEFINE r == [Idle EXCEPT !.pc = "order_save", !.o = slot[k].o,
                       !.st = "completed", !.paid = paid[slot[k].o]]
    <3>1. r.pc \notin Asking /\ r.o = o
      BY DEF Idle, Asking
    <3> QED BY <1>1, <2>2, <3>1, AfterAsking DEF CheckoutInsert, orderVars
  <2> QED BY <1>1, <2>1, <2>2 DEF CheckoutInsert
<1>2. CASE IntentRequest(k)
  <2>1. PICK pc \in {"intent_save", "intent_fail"} : Goto(k, pc)
    BY <1>2 DEF IntentRequest
  <2>2. slot[k].pc \in Asking /\ pc \in Stages \ {"idle"}
    BY <1>2 DEF IntentRequest, Asking, Stages
  <2>3. UNCHANGED <<order, charge, checkout>>
    BY <1>2 DEF IntentRequest, orderVars
  <2> QED BY <2>1, <2>2, <2>3, StillAsking DEF AskedOnce
<1>3. CASE IntentSave(k)
  <2>1. slot'[k].pc = "idle" /\ \A j \in Slots \ {k} : slot'[j] = slot[j]
    BY <1>0, <1>3 DEF IntentSave, End, PaymentTypeOK
  <2>2. slot[k].pc \in Asking /\ o \in Orders /\ order[o] # "absent"
    BY <1>3, <1>t DEF IntentSave, AskedOnce, Asking
  <2>3. order' = order
    BY <1>3 DEF IntentSave, orderVars
  <2>4. \A p \in Orders \ {o} : charge'[p] = charge[p] /\ checkout'[p] = checkout[p]
    BY <1>3 DEF IntentSave, SaveCheckout, PaymentTypeOK
  <2>5. \A j \in Slots : slot'[j].pc # "idle" => j # k /\ slot'[j] = slot[j]
    BY <2>1
  <2>6. \A j \in Slots : slot'[j].pc \in Asking =>
            /\ j # k /\ slot'[j] = slot[j] /\ slot[j].pc \in Asking
            /\ slot[j].o \in Orders \ {o}
    BY <2>2, <2>5 DEF AskedOnce, PaymentTypeOK, Asking
  <2>7. \A p \in Orders : order'[p] = "absent" => charge'[p] = "none" /\ checkout'[p] = Nil
    BY <2>2, <2>3, <2>4 DEF AskedOnce
  <2>8. \A j \in Slots : slot'[j].pc \in Asking => charge'[slot'[j].o] = "none"
    BY <2>4, <2>6 DEF AskedOnce
  <2>9. \A j \in Slots : slot'[j].pc # "idle" => order'[slot'[j].o] # "absent"
    BY <2>3, <2>5 DEF AskedOnce
  <2>10. \A i, j \in Slots : i # j /\ slot'[i].pc \in Asking /\ slot'[j].pc \in Asking
                                => slot'[i].o # slot'[j].o
    BY <2>6 DEF AskedOnce
  <2> QED BY <2>7, <2>8, <2>9, <2>10 DEF AskedOnce
<1>4. CASE IntentFail(k)
  BY <1>0, <1>4, AfterAsking DEF IntentFail, End, SaveCheckout, orderVars
<1>5. CASE SuccessOrder(k)
  <2>1. "completed" \in Status
    BY DEF Status
  <2> QED BY <1>0, <1>5, <2>1, AfterAsking DEF SuccessOrder, End
<1>6. CASE CancelRead(k)
  <2> DEFINE r == [Idle EXCEPT !.pc = "order_save", !.o = slot[k].o,
                     !.st = "canceled", !.paid = paid[slot[k].o]]
  <2>1. r.pc \notin Asking /\ r.o = o
    BY DEF Idle, Asking
  <2> QED BY <1>6, <2>1, AfterAsking DEF CancelRead, orderVars
<1>7. CASE OrderSave(k)
  <2>1. slot[k].st \in Status
    BY <1>t DEF Slot
  <2> QED BY <1>0, <1>7, <2>1, AfterAsking DEF OrderSave, End
<1>8. CASE CancelSave(k)
  <2> DEFINE r == [slot[k] EXCEPT !.pc = "cancel_read"]
  <2>1. slot' = [slot EXCEPT ![k] = r] /\ r.pc \notin Asking /\ r.o = o
    BY <1>8, <1>t DEF CancelSave, Goto, PaymentTypeOK, Slot, Asking
  <2> QED BY <1>8, <2>1, AfterAsking DEF CancelSave, SaveCheckout, orderVars
<1>9. CASE StuckSave(k)
  <2> DEFINE r == [slot[k] EXCEPT !.pc = "stuck_find"]
  <2>1. slot' = [slot EXCEPT ![k] = r] /\ r.pc \notin Asking /\ r.o = o
    BY <1>9, <1>t DEF StuckSave, Goto, PaymentTypeOK, Slot, Asking
  <2>2. "canceled" \in Status
    BY DEF Status
  <2> QED BY <1>9, <2>1, <2>2, AfterAsking DEF StuckSave
<1>10. CASE StuckFind(k)
  <2>1. CASE End(k)
    <3>1. slot[k].pc # "idle" /\ UNCHANGED <<order, checkout, charge>>
      BY <1>10 DEF StuckFind, orderVars
    <3>2. slot' = [slot EXCEPT ![k] = Idle]
      BY <2>1 DEF End
    <3> QED BY <1>0, <3>1, <3>2, AfterAsking
  <2> DEFINE r == [slot[k] EXCEPT !.pc = "stuck_checkout", !.intent = checkout[o].intent]
  <2>2. CASE slot' = [slot EXCEPT ![k] = r]
    <3>1. r.pc \notin Asking /\ r.o = o
      BY <1>t DEF Slot, Asking
    <3> QED BY <1>10, <2>2, <3>1, AfterAsking DEF StuckFind, orderVars
  <2>3. End(k) \/ slot' = [slot EXCEPT ![k] = r]
    BY <1>10 DEF StuckFind, PaymentTypeOK
  <2> QED BY <2>1, <2>2, <2>3
<1>11. CASE StuckCheckout(k)
  BY <1>0, <1>11, AfterAsking DEF StuckCheckout, End, SaveCheckout, orderVars
<1>12. CASE NoticeSave(k)
  <2>1. PICK pc \in {"success_order", "cancel_read"} : Goto(k, pc)
    BY <1>12 DEF NoticeSave
  <2> DEFINE r == [slot[k] EXCEPT !.pc = pc]
  <2>2. slot' = [slot EXCEPT ![k] = r] /\ r.pc \notin Asking /\ r.o = o
    BY <2>1, <1>t DEF Goto, PaymentTypeOK, Slot, Asking
  <2>3. \E c : checkout' = [checkout EXCEPT ![o] = c]
    BY <1>12 DEF NoticeSave, SaveCheckout
  <2>4. slot[k].pc # "idle" /\ UNCHANGED <<order, charge>>
    BY <1>12 DEF NoticeSave, orderVars
  <2> QED BY <2>2, <2>3, <2>4, AfterAsking
<1> QED BY <1>1, <1>2, <1>3, <1>4, <1>5, <1>6, <1>7, <1>8, <1>9, <1>10, <1>11, <1>12
        DEF PaymentStep

LEMMA NextAsked ==
  PaymentTypeOK /\ AskedOnce /\ [PaymentNext]_paymentVars => AskedOnce'
<1> SUFFICES ASSUME PaymentTypeOK, AskedOnce, [PaymentNext]_paymentVars
             PROVE  AskedOnce'
  OBVIOUS
<1>1. ASSUME NEW k \in Slots, PaymentBegin(k) \/ PaymentStep(k) PROVE AskedOnce'
  BY <1>1, BeginAsked, StepAsked
<1>2. ASSUME NEW o \in Orders, Settle(o) PROVE AskedOnce'
  <2>1. charge[o] = "open" /\ \A p \in Orders \ {o} : charge'[p] = charge[p]
    BY <1>2 DEF Settle, PaymentTypeOK
  <2>2. UNCHANGED <<order, checkout, slot>>
    BY <1>2 DEF Settle, orderVars
  <2>3. \A k \in Slots : slot[k].pc \in Asking => slot[k].o # o /\ slot[k].o \in Orders
    BY <2>1 DEF AskedOnce, PaymentTypeOK, Asking
  <2> QED BY <2>1, <2>2, <2>3 DEF AskedOnce
<1>3. ASSUME NEW o \in Orders, BecomeOld(o) PROVE AskedOnce'
  BY <1>3 DEF BecomeOld, AskedOnce
<1>4. CASE Crash
  <2>1. \A k \in Slots : slot'[k].pc = "idle"
    BY <1>4 DEF Crash, Idle
  <2> QED BY <1>4, <2>1 DEF Crash, AskedOnce, Asking, orderVars
<1>5. CASE UNCHANGED paymentVars
  BY <1>5 DEF paymentVars, orderVars, AskedOnce
<1> QED BY <1>1, <1>2, <1>3, <1>4, <1>5 DEF PaymentNext

\* The payment of an order is opened and settled once.
LEMMA NextSettled ==
  ASSUME PaymentTypeOK, AskedOnce, [PaymentNext]_paymentVars
  PROVE  Settled
<1>0. ASSUME \A o \in Orders : charge[o] = "charged" => charge'[o] = "charged",
             unproven \subseteq unproven'
      PROVE  Settled
  BY <1>0 DEF Settled, Backed
<1>1. ASSUME NEW k \in Slots, PaymentBegin(k) PROVE Settled
  <2>1. UNCHANGED charge
    BY <1>1 DEF PaymentBegin, CreateOrder, CancelCheckout, StuckList, Update, Reject, Notify
  <2>2. unproven \subseteq unproven'
    BY <1>1 DEF PaymentBegin, CreateOrder, CancelCheckout, StuckList, Update, Reject, Notify,
       reports
  <2> QED BY <1>0, <2>1, <2>2
<1>2. ASSUME NEW k \in Slots, PaymentStep(k) PROVE Settled
  <2>0. UNCHANGED unproven
    BY <1>2 DEF reports, PaymentStep, CheckoutInsert, IntentRequest, IntentSave, IntentFail,
       NoticeSave, SuccessOrder, CancelRead, OrderSave, CancelSave, StuckSave, StuckFind,
       StuckCheckout
  <2>1. CASE IntentSave(k)
    <3>1. charge[slot[k].o] = "none"
      BY <2>1 DEF IntentSave, At, AskedOnce, Asking
    <3>2. \A p \in Orders \ {slot[k].o} : charge'[p] = charge[p]
      BY <2>1 DEF IntentSave, PaymentTypeOK
    <3> QED BY <1>0, <2>0, <3>1, <3>2
  <2>2. CASE UNCHANGED charge
    BY <1>0, <2>0, <2>2
  <2> QED BY <1>2, <2>1, <2>2
          DEF PaymentStep, CheckoutInsert, IntentRequest, IntentFail, NoticeSave, SuccessOrder,
              CancelRead, OrderSave, CancelSave, StuckSave, StuckFind, StuckCheckout
<1>3. ASSUME NEW o \in Orders, Settle(o) PROVE Settled
  <2>1. charge[o] = "open" /\ \A p \in Orders \ {o} : charge'[p] = charge[p]
    BY <1>3 DEF Settle, PaymentTypeOK
  <2> QED BY <1>0, <1>3, <2>1 DEF Settle, reports
<1>4. CASE Crash \/ (\E o \in Orders : BecomeOld(o)) \/ UNCHANGED paymentVars
  BY <1>0, <1>4 DEF Crash, BecomeOld, paymentVars, reports
<1> QED BY <1>1, <1>2, <1>3, <1>4 DEF PaymentNext

LEMMA NextCharged ==
  ChargeInv /\ AskedOnce /\ [PaymentNext]_paymentVars => (ChargeInv /\ AskedOnce)'
<1> SUFFICES ASSUME ChargeInv, AskedOnce, [PaymentNext]_paymentVars
             PROVE  (ChargeInv /\ AskedOnce)'
  OBVIOUS
<1>0. PaymentTypeOK
  BY DEF ChargeInv
<1>1. PaymentTypeOK' /\ AskedOnce' /\ Settled
  BY <1>0, NextTyped, NextAsked, NextSettled
<1>2. PaidOnlyIfBacked' /\ \A k \in Slots : Charged(slot'[k], Backed')
  <2>1. ASSUME NEW k \in Slots, PaymentBegin(k) \/ PaymentStep(k)
        PROVE  PaidOnlyIfBacked' /\ \A j \in Slots : Charged(slot'[j], Backed')
    BY <1>1, <2>1, BeginCharged, StepCharged
  <2>2. CASE UNCHANGED <<paid, checkout, slot>>
    <3>1. PaidOnlyIfBacked'
      BY <1>1, <2>2, RowsCharged
    <3>2. ASSUME NEW k \in Slots PROVE Charged(slot'[k], Backed')
      <4>1. Charged(slot[k], Backed) /\ slot'[k] = slot[k]
        BY <2>2 DEF ChargeInv
      <4> QED BY <1>1, <4>1 DEF Charged, Settled
    <3> QED BY <3>1, <3>2
  <2>3. CASE Crash
    <3>1. PaidOnlyIfBacked'
      BY <1>1, <2>3, RowsCharged DEF Crash, orderVars
    <3>2. ASSUME NEW k \in Slots PROVE Charged(slot'[k], Backed')
      <4>1. slot'[k] = Idle
        BY <2>3 DEF Crash
      <4> QED BY <4>1 DEF Charged, Idle
    <3> QED BY <3>1, <3>2
  <2> QED BY <2>1, <2>2, <2>3 DEF PaymentNext, Settle, BecomeOld, paymentVars, orderVars
<1> QED BY <1>1, <1>2 DEF ChargeInv

LEMMA InitCharged == PaymentInit => ChargeInv /\ AskedOnce
<1> SUFFICES ASSUME PaymentInit PROVE ChargeInv /\ AskedOnce
  OBVIOUS
<1>1. PaymentTypeOK
  BY InitTyped
<1>2. \A k \in Slots : slot[k] = Idle /\ slot[k].pc = "idle"
  BY DEF PaymentInit, Idle
<1>3. PaidOnlyIfBacked /\ \A k \in Slots : Charged(slot[k], Backed)
  BY <1>2, IdleCharged DEF PaymentInit, PaidOnlyIfBacked
<1>4. AskedOnce
  BY <1>2 DEF PaymentInit, AskedOnce, Asking
<1> QED BY <1>1, <1>3, <1>4 DEF ChargeInv

\* No order is marked as paid, and no checkout with a price as completed, but for
\* a charge or an unverified report of MoMo, whatever entity is saved when.  An
\* order no such report finds is paid only if it was charged.
THEOREM PaidCorrect == PaymentSafe => []PaidOnlyIfBacked
<1>1. ChargeInv => PaidOnlyIfBacked
  BY DEF ChargeInv
<1> QED BY <1>1, InitCharged, NextCharged, PTL DEF PaymentSafe

-----------------------------------------------------------------------------
(* Pricing.                                                                *)

Sent == {NotSent, 0, 50}

Promoting == [pc : {"promo"}, percent : Sent, amount : Sent]

Handling ==
    [pc : Lookups \cup {"details", "total"}, kind : {"quote", "custom", "order"},
     coded : BOOLEAN, reading : {"no", "row", "insert"}, start : Nat, d : Nat, fee : Nat,
     details : Int, toppings : Int, writes : Nat]

Bill ==
    [done : {TRUE}, kind : {"quote", "custom", "order"}, d : Nat, foods : Int, fee : Nat,
     off : Int, plain : BOOLEAN, total : Nat, lines : Int, steady : BOOLEAN, writes : Nat]

Adds(b) == b.foods >= 0 => 0 <= b.off /\ b.off <= b.foods + b.fee

Rows ==
    /\ food \in Food /\ fees \in FeeTables \cup {None} /\ rows \in Nat
    /\ promo \in Promo \cup {None} /\ cart \in Cart

Clock ==
    /\ now \in 0..MaxTime
    /\ was \in Seq(SUBSET (FeeTables \cup {None})) /\ Len(was) = now + 1
    /\ cache \in [table : FeeTables \cup {None}, since : Nat]
    /\ failed \in BOOLEAN

Counts == writes \in Nat /\ calls \in Nat

Held == request \in [Requests -> {NoRequest} \cup Promoting \cup Handling]

Given ==
    /\ quote \in {NoBill} \cup Bill /\ (quote.done => Adds(quote))
    /\ created \in {NoBill} \cup Bill /\ (created.done => Adds(created))

Types == Rows /\ Clock /\ Counts /\ Held /\ Given

-----------------------------------------------------------------------------
(***************************************************************************)
(* Amounts.                                                                *)
(***************************************************************************)
LEMMA Product == \A a, b \in Int : a * b \in Int
  OBVIOUS

LEMMA Parameters ==
    /\ Foods \subseteq Food /\ Carts \subseteq Cart /\ Promos \subseteq Promo
    /\ FeeTables \subseteq FeeTable /\ Defaults \in FeeTables /\ None \notin FeeTables
    /\ Life \in Nat /\ Life > 0 /\ MaxTime \in Nat
    /\ NotSent \notin Int /\ None \notin Int
  BY PricingAssumption

LEMMA CartFields ==
  ASSUME cart \in Cart
  PROVE  /\ cart.quantity \in Nat /\ Topping \in Int /\ cart.off \in {NotSent} \cup Int
         /\ cart.topping \in {NotSent} \cup Int /\ cart.road \in Nat /\ cart.air \in Nat
<1>1. cart.topping # NotSent => cart.topping * Mite \in Int
  BY DEF Cart, Mite
<1> QED BY <1>1 DEF Cart, Topping

LEMMA FoodFields ==
  ASSUME food \in Food
  PROVE  food.price \in Int /\ food.off \in Int /\ food.topping \in Int
  BY DEF Food

LEMMA DiscountedInt ==
  ASSUME NEW price \in Int, NEW off \in Int
  PROVE  Discounted(price, off) \in Int
<1>1. price * 100 \in Int /\ 100 - off \in Int
  OBVIOUS
<1>2. (price * 100) * (100 - off) \in Int
  BY <1>1, Product
<1> QED BY <1>2 DEF Discounted

LEMMA Amounts ==
  ASSUME food \in Food, cart \in Cart
  PROVE  /\ FoodTotal \in Int /\ CustomFoodTotal \in Int
         /\ DetailPrice * cart.quantity \in Int /\ DetailToppings \in Int
<1> DEFINE a == Discounted(food.price, Truthy(cart.off, food.off))
           b == Discounted(food.price, OrElse(cart.off, 0))
<1>1. /\ Truthy(cart.off, food.off) \in Int /\ OrElse(cart.off, 0) \in Int
      /\ OrElse(OrElse(cart.off, 0), food.off) \in Int
  BY CartFields, FoodFields DEF Truthy, OrElse
<1>2. a \in Int /\ b \in Int /\ DetailPrice \in Int
  BY <1>1, FoodFields, DiscountedInt DEF DetailPrice
<1> HIDE DEF a, b
<1>3. a + Topping \in Int /\ b + Topping \in Int
  BY <1>2, CartFields
<1>4. (a + Topping) * cart.quantity \in Int /\ (b + Topping) * cart.quantity \in Int
  BY <1>3, CartFields, Product
<1>5. DetailPrice * cart.quantity \in Int /\ food.topping * cart.quantity \in Int
  BY <1>2, CartFields, FoodFields, Product
<1>6. DetailToppings \in Int
  BY <1>5 DEF DetailToppings, Cent
<1> QED BY <1>4, <1>5, <1>6 DEF FoodTotal, CustomFoodTotal, a, b

LEMMA FeeNat ==
  ASSUME NEW c \in FeeTables, NEW d \in Nat
  PROVE  Fee(c, d) * Unit \in Nat
<1>1. Fee(c, d) \in Nat
  BY Parameters DEF Fee, FeeTable
<1> QED BY <1>1 DEF Unit

\* Nothing is taken off beyond the amount, nor added to it.
LEMMA DiscountBounded ==
  ASSUME NEW p \in Promo, NEW amount \in Int
  PROVE  /\ Discount(p, amount) \in Int /\ Discount(p, amount) <= amount
         /\ amount >= 0 => Discount(p, amount) >= 0
<1> DEFINE part == (amount \div 100) * p.percent
           off == IF p.percent > 0 THEN IF p.cap > 0 THEN Least(part, p.cap * Cent) ELSE part
                                   ELSE p.amount * Cent
<1>1. p.percent \in Int /\ p.cap \in Int /\ p.amount \in Int
  BY DEF Promo
<1>2. amount \div 100 \in Int
  OBVIOUS
<1>3. part \in Int
  BY <1>1, <1>2, Product
<1> HIDE DEF part
<1>4. off \in Int
  BY <1>1, <1>3 DEF Least, Cent
<1> HIDE DEF off
<1>5. /\ Least(Clamped(off), amount) \in Int /\ Least(Clamped(off), amount) <= amount
      /\ amount >= 0 => Least(Clamped(off), amount) >= 0
  BY <1>4 DEF Least, Clamped
<1> QED BY <1>5 DEF Discount, off, part

LEMMA OffBounded ==
  ASSUME NEW p \in Promo \cup {None}, NEW foods \in Int, NEW fee \in Nat
  PROVE  /\ PromotionOff(p, foods + fee) \in Int /\ CustomOff(p, foods, fee) \in Int
         /\ foods >= 0 => /\ PromotionOff(p, foods + fee) \in 0..(foods + fee)
                          /\ CustomOff(p, foods, fee) \in 0..(foods + fee)
<1>1. CASE p = None
  BY <1>1 DEF PromotionOff, CustomOff, Valid
<1>2. CASE p # None
  <2>1. p \in Promo /\ foods + fee \in Int
    BY <1>2
  <2>2. \A amount \in Int :
          /\ Discount(p, amount) \in Int /\ Discount(p, amount) <= amount
          /\ amount >= 0 => Discount(p, amount) >= 0
    BY <2>1, DiscountBounded
  <2>3. PromotionOff(p, foods + fee) \in {0, Discount(p, foods + fee)}
    BY DEF PromotionOff
  <2>4. CustomOff(p, foods, fee) \in {0, Discount(p, foods), Least(Discount(p, fee), fee)}
    BY DEF CustomOff
  <2>5. Least(Discount(p, fee), fee) = Discount(p, fee)
    BY <2>2 DEF Least
  <2> QED BY <2>1, <2>2, <2>3, <2>4, <2>5
<1> QED BY <1>1, <1>2

-----------------------------------------------------------------------------
(***************************************************************************)
(* What a handler makes of a table.                                        *)
(***************************************************************************)
Same(h, g) ==
    /\ g \in Handling
    /\ g.kind = h.kind /\ g.coded = h.coded /\ g.writes = h.writes
    /\ g.details = h.details /\ g.toppings = h.toppings

Went(h, g, c) ==
    /\ Same(h, g) /\ g.start = h.start /\ g.reading = "no"
    /\ \/ h.pc = "begin" /\ g.pc = "limit"
       \/ h.pc = "limit" /\ g.pc = "details"
       \/ /\ h.pc = "fee" /\ g.pc = (IF h.kind = "custom" THEN "total" ELSE "time")
          /\ g.d = h.d /\ g.fee = Fee(c, h.d) * Unit
       \/ h.pc = "time" /\ g.pc = "total" /\ g.d = h.d /\ g.fee = h.fee

LEMMA UseCases ==
  ASSUME Held, cart \in Cart, NEW k \in Requests, request[k] \in Handling, request[k].pc \in Lookups,
         NEW c, c \in FeeTables, Use(k, c)
  PROVE  \E g : request' = [request EXCEPT ![k] = g] /\ (g = NoRequest \/ Went(request[k], g, c))
<1> DEFINE h == [request[k] EXCEPT !.reading = "no"]
<1>1. h \in Handling /\ Same(request[k], h) /\ h.start = request[k].start /\ h.reading = "no"
      /\ h.pc = request[k].pc /\ h.d = request[k].d /\ h.fee = request[k].fee
  BY DEF Handling, Same
<1>2. CASE h.pc = "begin"
  <2>1. PICK d \in {cart.road, cart.air} :
           request' = [request EXCEPT ![k] = [h EXCEPT !.pc = "limit", !.d = d]]
    BY <1>2 DEF Use
  <2>2. d \in Nat
    BY CartFields
  <2> HIDE DEF h
  <2> DEFINE g == [h EXCEPT !.pc = "limit", !.d = d]
  <2>3. Went(request[k], g, c)
    BY <1>1, <1>2, <2>2 DEF Went, Same, Handling, Lookups
  <2> QED BY <2>1, <2>3
<1>3. CASE h.pc = "limit"
  <2>1. request' = [request EXCEPT ![k] = IF h.d <= c.max THEN [h EXCEPT !.pc = "details"] ELSE NoRequest]
    BY <1>3 DEF Use
  <2> HIDE DEF h
  <2> DEFINE g == [h EXCEPT !.pc = "details"]
  <2>2. Went(request[k], g, c)
    BY <1>1, <1>3 DEF Went, Same, Handling
  <2> HIDE DEF g
  <2>3. request' = [request EXCEPT ![k] = g] \/ request' = [request EXCEPT ![k] = NoRequest]
    BY <2>1 DEF g
  <2> QED BY <2>2, <2>3
<1>4. CASE h.pc = "fee"
  <2> DEFINE pc == IF h.kind = "custom" THEN "total" ELSE "time"
             fee == Fee(c, h.d) * Unit
  <2>1. request' = [request EXCEPT ![k] = [h EXCEPT !.fee = fee, !.pc = pc]]
    BY <1>4 DEF Use
  <2>2. fee \in Nat
    BY <1>1, FeeNat DEF Handling
  <2>3. pc \in {"total", "time"} /\ pc = (IF request[k].kind = "custom" THEN "total" ELSE "time")
    BY <1>1 DEF Same
  <2>4. fee = Fee(c, request[k].d) * Unit
    BY <1>1
  <2> HIDE DEF h, pc, fee
  <2> DEFINE g == [h EXCEPT !.fee = fee, !.pc = pc]
  <2>5. Went(request[k], g, c)
    BY <1>1, <1>4, <2>2, <2>3, <2>4 DEF Went, Same, Handling, Lookups
  <2> QED BY <2>1, <2>5
<1>5. CASE h.pc = "time"
  <2>1. request' = [request EXCEPT ![k] = [h EXCEPT !.pc = "total"]]
    BY <1>5 DEF Use
  <2> HIDE DEF h
  <2> DEFINE g == [h EXCEPT !.pc = "total"]
  <2>2. Went(request[k], g, c)
    BY <1>1, <1>5 DEF Went, Same, Handling
  <2> QED BY <2>1, <2>2
<1> QED BY <1>1, <1>2, <1>3, <1>4, <1>5 DEF Lookups
-----------------------------------------------------------------------------
(***************************************************************************)
(* Types.                                                                  *)
(***************************************************************************)
LEMMA Phases ==
    /\ NoRequest \notin Handling /\ NoRequest \notin Promoting /\ NoRequest.pc = "idle"
    /\ \A h \in Handling : h.pc \in Lookups \cup {"details", "total"}
    /\ \A h \in Promoting : h.pc = "promo" /\ h \notin Handling
    /\ \A h \in {NoRequest} \cup Promoting \cup Handling :
          /\ h.pc \in Lookups \cup {"details", "total"} => h \in Handling
          /\ h.pc = "promo" => h \in Promoting
<1>1. \A h \in Handling : h.pc \in Lookups \cup {"details", "total"}
  BY DEF Handling
<1>2. \A h \in Promoting : h.pc = "promo"
  BY DEF Promoting
<1>3. NoRequest.pc = "idle"
  BY DEF NoRequest
<1>4. "idle" \notin Lookups \cup {"details", "total"} /\ "promo" \notin Lookups \cup {"details", "total"}
  BY DEF Lookups
<1> QED BY <1>1, <1>2, <1>3, <1>4

LEMMA TypesInit == PricingInit => Types
<1> SUFFICES ASSUME PricingInit PROVE Types
  OBVIOUS
<1> USE Parameters DEF PricingInit
<1>1. Rows
  BY DEF Rows
<1>2. Clock
  <2>1. was \in Seq(SUBSET (FeeTables \cup {None})) /\ Len(was) = 1
    <3>1. fees \in FeeTables \cup {None}
      OBVIOUS
    <3>2. {fees} \in SUBSET (FeeTables \cup {None})
      BY <3>1
    <3> DEFINE S == SUBSET (FeeTables \cup {None})
               x == {fees}
    <3>3. x \in S /\ was = <<x>>
      BY <3>2
    <3> HIDE DEF S, x
    <3>4. was \in Seq(S) /\ Len(was) = 1
      BY <3>3
    <3> QED BY <3>4 DEF S
  <2>2. cache \in [table : FeeTables \cup {None}, since : Nat]
    OBVIOUS
  <2>3. now = 0 /\ failed \in BOOLEAN
    OBVIOUS
  <2> HIDE DEF PricingInit
  <2>4. now \in 0..MaxTime /\ Len(was) = now + 1
    BY <2>1, <2>3
  <2> QED BY <2>1, <2>2, <2>3, <2>4 DEF Clock
<1>3. Counts /\ Held
  BY DEF Counts, Held
<1>4. Given
  BY DEF Given, NoBill
<1> QED BY <1>1, <1>2, <1>3, <1>4 DEF Types

\* The handlers that are not in a look-up.
LEMMA TypesLookup ==
  ASSUME Types, NEW k \in Requests, NEW c, c \in FeeTables, request[k].pc \in Lookups, Use(k, c)
  PROVE  Held'
<1>1. request[k] \in Handling
  BY Phases DEF Types, Held
<1>2. PICK g : request' = [request EXCEPT ![k] = g] /\ (g = NoRequest \/ Went(request[k], g, c))
  BY <1>1, UseCases DEF Types, Rows
<1> QED BY <1>2 DEF Types, Held, Went, Same

\* What Total bills.
Billed(k, b) ==
    /\ b.kind = request[k].kind /\ b.d = request[k].d /\ b.fee = request[k].fee /\ b.writes = writes
    /\ b.foods = (IF b.kind = "custom" THEN CustomFoodTotal ELSE FoodTotal)
    /\ b.plain = (food.off = 0) /\ b.steady = (writes = request[k].writes)
    /\ b.total = Clamped(b.foods + b.fee - b.off) /\ b.lines = request[k].details + request[k].toppings
    /\ ~request[k].coded => b.off = 0
    /\ request[k].kind = "order" => quote' = quote /\ created' \in {created, b}
    /\ request[k].kind # "order" => quote' = b /\ created' = created

LEMMA Billing ==
  ASSUME Types, NEW k \in Requests, Total(k)
  PROVE  request[k] \in Handling /\ \E b \in Bill : Adds(b) /\ Billed(k, b)
<1> DEFINE h == request[k]
           foods == IF h.kind = "custom" THEN CustomFoodTotal ELSE FoodTotal
           off == IF ~h.coded THEN 0
                  ELSE IF h.kind = "custom" THEN CustomOff(promo, foods, h.fee)
                  ELSE PromotionOff(promo, foods + h.fee)
           bill == [done |-> TRUE, kind |-> h.kind, d |-> h.d, foods |-> foods, fee |-> h.fee,
                    off |-> off, plain |-> food.off = 0, total |-> Clamped(foods + h.fee - off),
                    lines |-> h.details + h.toppings, steady |-> writes = h.writes,
                    writes |-> writes]
<1>1. request[k] \in Handling
  BY Phases DEF Types, Held, Total, Doing
<1>2. /\ h.kind \in {"quote", "custom", "order"} /\ h.d \in Nat /\ h.fee \in Nat
      /\ h.details + h.toppings \in Int /\ h.writes \in Nat
  BY <1>1 DEF Handling
<1>3. foods \in Int
  BY Amounts DEF Types, Rows
<1>4. foods = (IF h.kind = "custom" THEN CustomFoodTotal ELSE FoodTotal)
  OBVIOUS
<1> HIDE DEF foods
<1>5. off \in Int /\ (foods >= 0 => off \in 0..(foods + h.fee))
  <2>1. promo \in Promo \cup {None}
    BY DEF Types, Rows
  <2> HIDE DEF h
  <2>2. /\ PromotionOff(promo, foods + h.fee) \in Int /\ CustomOff(promo, foods, h.fee) \in Int
        /\ foods >= 0 => /\ PromotionOff(promo, foods + h.fee) \in 0..(foods + h.fee)
                         /\ CustomOff(promo, foods, h.fee) \in 0..(foods + h.fee)
    BY <1>2, <1>3, <2>1, OffBounded
  <2>3. foods >= 0 => 0 \in 0..(foods + h.fee)
    BY <1>2, <1>3
  <2> QED BY <2>2, <2>3
<1>6. ~h.coded => off = 0
  OBVIOUS
<1> HIDE DEF off
<1>7. /\ h.kind = "order" => quote' = quote /\ created' \in {created, bill}
      /\ h.kind # "order" => quote' = bill /\ created' = created
  BY DEF Total, foods, off
<1> HIDE DEF h
<1>8. Clamped(foods + h.fee - off) \in Nat /\ (food.off = 0) \in BOOLEAN /\ (writes = h.writes) \in BOOLEAN
      /\ writes \in Nat
  BY <1>2, <1>3, <1>5 DEF Types, Counts, Clamped
<1>9. bill \in Bill
  BY <1>2, <1>3, <1>5, <1>8 DEF Bill
<1>10. Adds(bill)
  BY <1>2, <1>3, <1>5 DEF Adds
<1>11. Billed(k, bill)
  <2>1. /\ bill.kind = h.kind /\ bill.d = h.d /\ bill.fee = h.fee /\ bill.writes = writes
        /\ bill.foods = foods /\ bill.off = off /\ bill.total = Clamped(foods + h.fee - off)
        /\ bill.lines = h.details + h.toppings
    OBVIOUS
  <2>2. bill.plain = (food.off = 0) /\ bill.steady = (writes = h.writes)
    OBVIOUS
  <2> HIDE DEF bill
  <2> QED BY <1>4, <1>6, <1>7, <2>1, <2>2 DEF Billed, h
<1> QED BY <1>1, <1>9, <1>10, <1>11

LEMMA TypesTotal ==
  ASSUME Types, NEW k \in Requests, Total(k)
  PROVE  Held' /\ Given'
<1>1. PICK b \in Bill : Adds(b) /\ Billed(k, b)
  BY Billing
<1>2. quote' \in {quote, b} /\ created' \in {created, b}
  BY <1>1 DEF Billed
<1>3. Given'
  BY <1>1, <1>2 DEF Types, Given
<1>4. Held'
  BY DEF Total, Types, Held
<1> QED BY <1>3, <1>4

\* The tables at each tick: something is added, or a tick.
LEMMA WasTyped ==
  ASSUME Clock, NEW c \in FeeTables \cup {None}
  PROVE  LET w == [was EXCEPT ![now + 1] = @ \cup {c}] IN
         w \in Seq(SUBSET (FeeTables \cup {None})) /\ Len(w) = now + 1
<1>1. now + 1 \in 1..Len(was) /\ was[now + 1] \cup {c} \in SUBSET (FeeTables \cup {None})
  BY Parameters DEF Clock
<1> QED BY <1>1 DEF Clock

LEMMA TypesNext == Types /\ [PricingNext]_pricingVars => Types'
<1> SUFFICES ASSUME Types, [PricingNext]_pricingVars PROVE Types'
  OBVIOUS
<1> USE Parameters
<1>1. ASSUME NEW k \in Requests,
             \/ StartOrder(k) \/ \E coded \in BOOLEAN : StartQuote(k, coded)
             \/ \E v \in {0, 50} :
                   UpdateRead(k, v, NotSent) \/ UpdateRead(k, NotSent, v) \/ UpdateRead(k, 0, v)
      PROVE  Types'
  <2>1. PICK h : Receive(k, h) /\ h \in {NoRequest} \cup Promoting \cup Handling
    <3>1. \A kind \in {"quote", "custom", "order"}, pc \in {"fee", "begin"}, coded \in BOOLEAN :
             Handler(kind, pc, coded) \in Handling
      BY DEF Handler, Handling, Types, Counts, Lookups
    <3>2. CASE StartOrder(k)
      BY <3>1, <3>2 DEF StartOrder
    <3>3. ASSUME NEW coded \in BOOLEAN, StartQuote(k, coded)
          PROVE  \E h : Receive(k, h) /\ h \in {NoRequest} \cup Promoting \cup Handling
      <4>1. PICK kind \in {"quote", "custom"}, d \in {cart.road, cart.air} :
               Receive(k, [Handler(kind, "fee", coded) EXCEPT !.d = d])
        BY <3>3 DEF StartQuote
      <4>2. d \in Nat
        BY CartFields DEF Types, Rows
      <4>3. Handler(kind, "fee", coded) \in Handling
        BY <3>1
      <4>4. [Handler(kind, "fee", coded) EXCEPT !.d = d] \in Handling
        BY <4>2, <4>3 DEF Handling
      <4> QED BY <4>1, <4>4
    <3>4. ASSUME NEW v \in {0, 50},
                 UpdateRead(k, v, NotSent) \/ UpdateRead(k, NotSent, v) \/ UpdateRead(k, 0, v)
          PROVE  \E h : Receive(k, h) /\ h \in {NoRequest} \cup Promoting \cup Handling
      BY <3>4 DEF UpdateRead, Promoting, Sent
    <3> QED BY <1>1, <3>2, <3>3, <3>4
  <2> QED BY <2>1 DEF Receive, Types, Rows, Clock, Counts, Held, Given, Database
<1>2. ASSUME NEW k \in Requests, Lookup(k) PROVE Types'
  <2>1. UNCHANGED <<Database, cache, now, History, writes, calls, failed>> /\ request[k].pc \in Lookups
    BY <1>2 DEF Lookup, Reads
  <2>2. CASE Fresh(k)
    <3>1. cache.table \in FeeTables /\ Use(k, cache.table)
      BY <1>2, <2>2 DEF Lookup, Fresh, Types, Clock
    <3>2. Held'
      BY <2>1, <3>1, TypesLookup
    <3> QED BY <2>1, <3>2 DEF Database, History, Types, Rows, Clock, Counts, Given
  <2>3. CASE ~Fresh(k)
    <3> DEFINE g == [request[k] EXCEPT !.reading = "row", !.start = now]
    <3>1. request[k] \in Handling
      BY <2>1, Phases DEF Types, Held
    <3>2. g \in Handling
      <4>1. now \in Nat
        BY DEF Types, Clock
      <4> QED BY <3>1, <4>1 DEF Handling
    <3>3. request' = [request EXCEPT ![k].reading = "row", ![k].start = now]
      BY <1>2, <2>3 DEF Lookup
    <3>4. [request EXCEPT ![k].reading = "row", ![k].start = now] = [request EXCEPT ![k] = g]
      BY DEF Types, Held
    <3> HIDE DEF g
    <3>5. Held'
      BY <3>2, <3>3, <3>4 DEF Types, Held
    <3> QED BY <2>1, <3>5 DEF Database, History, Types, Rows, Clock, Counts, Given
  <2> QED BY <2>2, <2>3
<1>3. ASSUME NEW k \in Requests, Load(k) PROVE Types'
  <2>1. UNCHANGED <<Database, now, History, writes, calls, failed>> /\ request[k].pc \in Lookups
    BY <1>3 DEF Load, Reads
  <2>2. request[k] \in Handling
    BY <2>1, Phases DEF Types, Held
  <2>3. CASE fees = None
    <3>1. [request[k] EXCEPT !.reading = "insert"] \in Handling
      BY <2>2 DEF Handling
    <3>2. request' = [request EXCEPT ![k] = [request[k] EXCEPT !.reading = "insert"]] /\ UNCHANGED cache
      BY <1>3, <2>3 DEF Load
    <3>3. Held'
      BY <3>1, <3>2 DEF Types, Held
    <3> QED BY <2>1, <3>2, <3>3 DEF Database, History, Types, Rows, Clock, Counts, Given
  <2>4. CASE fees # None
    <3>1. fees \in FeeTables /\ Use(k, fees) /\ cache' = [table |-> fees, since |-> request[k].start]
      BY <1>3, <2>4 DEF Load, Types, Rows
    <3>2. Held'
      BY <2>1, <3>1, TypesLookup
    <3> QED BY <2>1, <2>2, <3>1, <3>2 DEF Database, History, Types, Rows, Clock, Counts, Given, Handling
  <2> QED BY <2>3, <2>4
<1>4. ASSUME NEW k \in Requests, InsertDefaults(k) PROVE Types'
  <2>1. /\ UNCHANGED <<food, promo, cart, now, History, writes, calls, failed>>
        /\ request[k].pc \in Lookups /\ Use(k, Defaults) /\ rows' = rows + 1
        /\ fees' = IF fees = None THEN Defaults ELSE fees
        /\ was' = [was EXCEPT ![now + 1] = @ \cup {fees'}]
        /\ cache' = [table |-> Defaults, since |-> request[k].start]
    BY <1>4 DEF InsertDefaults, Reads
  <2>2. request[k] \in Handling
    BY <2>1, Phases DEF Types, Held
  <2>3. Held'
    BY <2>1, TypesLookup
  <2>4. fees' \in FeeTables \cup {None}
    BY <2>1 DEF Types, Rows
  <2>5. was' \in Seq(SUBSET (FeeTables \cup {None})) /\ Len(was') = now + 1
    BY <2>1, <2>4, WasTyped DEF Types
  <2>6. Clock'
    BY <2>1, <2>2, <2>5 DEF Types, Clock, Handling
  <2> QED BY <2>1, <2>3, <2>4, <2>6 DEF Types, Rows, Counts, Given, History
<1>5. ASSUME NEW k \in Requests, LoadFails(k) PROVE Types'
  <2>1. /\ UNCHANGED <<Database, cache, now, History, writes, calls>> /\ request[k].pc \in Lookups
        /\ Use(k, IF cache.table # None THEN cache.table ELSE Defaults) /\ failed' = TRUE
    BY <1>5 DEF LoadFails, Reads
  <2>2. (IF cache.table # None THEN cache.table ELSE Defaults) \in FeeTables
    BY DEF Types, Clock
  <2>3. Held'
    BY <2>1, <2>2, TypesLookup
  <2> QED BY <2>1, <2>3 DEF Database, History, Types, Rows, Clock, Counts, Given
<1>6. ASSUME NEW k \in Requests, ReadDetails(k) PROVE Types'
  <2> DEFINE g == [request[k] EXCEPT !.pc = "fee", !.details = DetailPrice * cart.quantity,
                                  !.toppings = DetailToppings]
  <2>1. request[k] \in Handling
    BY <1>6, Phases DEF Types, Held, ReadDetails, Doing
  <2>2. DetailPrice * cart.quantity \in Int /\ DetailToppings \in Int
    BY Amounts DEF Types, Rows
  <2>3. g \in Handling
    BY <2>1, <2>2 DEF Handling, Lookups
  <2>4. request' = [request EXCEPT ![k] = g] \/ request' = [request EXCEPT ![k] = NoRequest]
    BY <1>6 DEF ReadDetails
  <2> HIDE DEF g
  <2>5. Held'
    BY <2>3, <2>4 DEF Types, Held
  <2> QED BY <1>6, <2>5 DEF ReadDetails, Database, History, Types, Rows, Clock, Counts, Given
<1>7. ASSUME NEW k \in Requests, Total(k) PROVE Types'
  <2>1. Held' /\ Given'
    BY <1>7, TypesTotal
  <2> QED BY <1>7, <2>1 DEF Total, Database, Types, Rows, Clock, Counts
<1>8. ASSUME NEW k \in Requests, UpdateSave(k) PROVE Types'
  <2>1. request[k] \in Promoting
    BY <1>8, Phases DEF Types, Held, UpdateSave, Doing
  <2>2. promo' \in Promo \cup {None}
    <3>1. CASE promo = None
      BY <1>8, <3>1 DEF UpdateSave
    <3>2. CASE promo # None
      <4>1. /\ promo \in Promo
            /\ promo' = [promo EXCEPT !.percent = OrElse(request[k].percent, promo.percent),
                                      !.amount = OrElse(request[k].amount, promo.amount)]
        BY <1>8, <3>2 DEF UpdateSave, Types, Rows
      <4>2. /\ OrElse(request[k].percent, promo.percent) \in Int
            /\ OrElse(request[k].amount, promo.amount) \in Int
        BY <2>1, <4>1 DEF Promoting, Sent, Promo, OrElse
      <4> QED BY <4>1, <4>2 DEF Promo
    <3> QED BY <3>1, <3>2
  <2>3. Held'
    BY <1>8 DEF UpdateSave, Types, Held
  <2> QED BY <1>8, <2>2, <2>3 DEF UpdateSave, Others, Types, Rows, Clock, Counts, Given
<1>9. ASSUME NEW p \in Promos, CreatePromotion(p) PROVE Types'
  BY <1>9 DEF CreatePromotion, Others, Types, Rows, Clock, Counts, Held, Given
<1>10. CASE DeletePromotion
  BY <1>10 DEF DeletePromotion, Others, Types, Rows, Clock, Counts, Held, Given
<1>11. ASSUME NEW f \in Foods, ChangeFood(f) PROVE Types'
  BY <1>11 DEF ChangeFood, History, Types, Rows, Clock, Counts, Held, Given
<1>12. ASSUME NEW c \in FeeTables, EditFees(c) PROVE Types'
  <2>1. was' \in Seq(SUBSET (FeeTables \cup {None})) /\ Len(was') = now + 1
    BY <1>12, WasTyped DEF EditFees, Types
  <2>2. Clock'
    BY <1>12, <2>1 DEF EditFees, Types, Clock
  <2> QED BY <1>12, <2>2 DEF EditFees, History, Types, Rows, Counts, Held, Given
<1>13. CASE Tick
  <2>1. {fees} \in SUBSET (FeeTables \cup {None}) /\ now' = now + 1 /\ now' \in 0..MaxTime
    BY <1>13 DEF Tick, Types, Rows, Clock
  <2>2. was' \in Seq(SUBSET (FeeTables \cup {None})) /\ Len(was') = now' + 1
    BY <1>13, <2>1 DEF Tick, Types, Clock
  <2>3. Clock'
    BY <1>13, <2>1, <2>2 DEF Tick, Types, Clock
  <2> QED BY <1>13, <2>3 DEF Tick, History, Types, Rows, Counts, Held, Given
<1>14. CASE UNCHANGED pricingVars
  BY <1>14 DEF pricingVars, Types, Rows, Clock, Counts, Held, Given
<1> QED BY <1>1, <1>2, <1>3, <1>4, <1>5, <1>6, <1>7, <1>8, <1>9, <1>10, <1>11, <1>12, <1>13, <1>14
        DEF PricingNext

LEMMA TypesAlways == PricingSpec => []Types
  BY TypesInit, TypesNext, PTL DEF PricingSpec

-----------------------------------------------------------------------------
(***************************************************************************)
(* The tables there have been, and the cached one.                         *)
(***************************************************************************)
\* The table c was there at some tick after the first `from`.
Known(c, from) == \E t \in (from + 1)..(now + 1) : c \in was[t]

\* Few steps write the table or the clock.
LEMMA TableSteps ==
  ASSUME [PricingNext]_pricingVars
  PROVE  \/ \E k \in Requests : InsertDefaults(k)
         \/ \E c \in FeeTables : EditFees(c)
         \/ Tick
         \/ UNCHANGED <<rows, fees, was, now>>
<1>1. ASSUME NEW k \in Requests,
             \/ StartOrder(k) \/ (\E coded \in BOOLEAN : StartQuote(k, coded))
             \/ Lookup(k) \/ Load(k) \/ LoadFails(k) \/ ReadDetails(k) \/ Total(k)
             \/ UpdateSave(k)
             \/ \E v \in {0, 50} :
                   UpdateRead(k, v, NotSent) \/ UpdateRead(k, NotSent, v) \/ UpdateRead(k, 0, v)
      PROVE  UNCHANGED <<rows, fees, was, now>>
  BY <1>1 DEF StartOrder, StartQuote, Receive, Lookup, Load, LoadFails, ReadDetails, Total,
              UpdateSave, UpdateRead, Database, Others
<1>2. ASSUME NEW p \in Promos, CreatePromotion(p) PROVE UNCHANGED <<rows, fees, was, now>>
  BY <1>2 DEF CreatePromotion, Others
<1>3. CASE DeletePromotion
  BY <1>3 DEF DeletePromotion, Others
<1>4. ASSUME NEW f \in Foods, ChangeFood(f) PROVE UNCHANGED <<rows, fees, was, now>>
  BY <1>4 DEF ChangeFood
<1>5. CASE UNCHANGED pricingVars
  BY <1>5 DEF pricingVars
<1> QED BY <1>1, <1>2, <1>3, <1>4, <1>5 DEF PricingNext

\* What is remembered of the tables only grows.
LEMMA Grows ==
  ASSUME Types, [PricingNext]_pricingVars
  PROVE  now <= now' /\ \A t \in 1..(now + 1) : was[t] \subseteq was'[t]
<1> USE DEF Types, Clock
<1>1. CASE Tick
  BY <1>1 DEF Tick
<1>2. ASSUME NEW c, was' = [was EXCEPT ![now + 1] = @ \cup {c}], now' = now
      PROVE  now <= now' /\ \A t \in 1..(now + 1) : was[t] \subseteq was'[t]
  BY <1>2
<1>3. CASE UNCHANGED <<was, now>>
  BY <1>3
<1>4. ASSUME NEW k \in Requests, InsertDefaults(k)
      PROVE  now <= now' /\ \A t \in 1..(now + 1) : was[t] \subseteq was'[t]
  BY <1>2, <1>4 DEF InsertDefaults
<1>5. ASSUME NEW c \in FeeTables, EditFees(c)
      PROVE  now <= now' /\ \A t \in 1..(now + 1) : was[t] \subseteq was'[t]
  BY <1>2, <1>5 DEF EditFees
<1> QED BY <1>1, <1>3, <1>4, <1>5, TableSteps

LEMMA KnownLater ==
  ASSUME Types, [PricingNext]_pricingVars, NEW c, NEW from \in Nat, Known(c, from)
  PROVE  Known(c, from)'
<1>1. PICK t \in (from + 1)..(now + 1) : c \in was[t]
  BY DEF Known
<1>2. t \in 1..(now + 1) /\ t \in (from + 1)..(now' + 1)
  BY <1>1, Grows, TypesNext DEF Types, Clock
<1>3. c \in was'[t]
  BY <1>1, <1>2, Grows
<1> QED BY <1>2, <1>3 DEF Known

\* The rows are there or not, and the table in force is remembered.
InForce == (rows = 0 <=> fees = None) /\ fees \in was[now + 1]

LEMMA InForceInit == PricingInit => InForce
  BY PricingAssumption DEF PricingInit, InForce

LEMMA InForceNext == Types /\ InForce /\ [PricingNext]_pricingVars => InForce'
<1> SUFFICES ASSUME Types, InForce, [PricingNext]_pricingVars PROVE InForce'
  OBVIOUS
<1> USE DEF InForce
<1>1. Types' /\ now + 1 \in DOMAIN was
  BY TypesNext DEF Types, Clock
<1>2. ASSUME NEW k \in Requests, InsertDefaults(k) PROVE InForce'
  BY <1>1, <1>2, Parameters DEF InsertDefaults, Types, Rows, Clock
<1>3. ASSUME NEW c \in FeeTables, EditFees(c) PROVE InForce'
  BY <1>1, <1>3, Parameters DEF EditFees, Types, Rows, Clock
<1>4. CASE Tick
  BY <1>4 DEF Tick, Types, Rows, Clock
<1>5. CASE UNCHANGED <<rows, fees, was, now>>
  BY <1>5
<1> QED BY <1>2, <1>3, <1>4, <1>5, TableSteps

\* How a step changes what a handler is reading.
LEMMA ReadingSteps ==
  ASSUME Types, [PricingNext]_pricingVars
  PROVE  \/ UNCHANGED request
         \/ \E k \in Requests : \E g :
               /\ request' = [request EXCEPT ![k] = g]
               /\ g \in Handling =>
                     \/ g.start <= now /\ g.reading # "insert"
                     \/ /\ request[k] \in Handling /\ g.start = request[k].start
                        /\ \/ g.reading \in {"no", request[k].reading}
                           \/ fees = None /\ fees' = None
<1> DEFINE Goal == \E k \in Requests : \E g :
               /\ request' = [request EXCEPT ![k] = g]
               /\ g \in Handling =>
                     \/ g.start <= now /\ g.reading # "insert"
                     \/ /\ request[k] \in Handling /\ g.start = request[k].start
                        /\ \/ g.reading \in {"no", request[k].reading}
                           \/ fees = None /\ fees' = None
<1>1. now \in Nat
  BY DEF Types, Clock
<1>2. ASSUME NEW k \in Requests, NEW c, c \in FeeTables, request[k].pc \in Lookups, Use(k, c) PROVE Goal
  <2>1. request[k] \in Handling
    BY <1>2, Phases DEF Types, Held
  <2>2. PICK g : request' = [request EXCEPT ![k] = g] /\ (g = NoRequest \/ Went(request[k], g, c))
    BY <1>2, <2>1, UseCases DEF Types, Rows
  <2>3. NoRequest \notin Handling
    BY Phases
  <2> QED BY <2>1, <2>2, <2>3 DEF Went
<1>3. ASSUME NEW k \in Requests, NEW kind, NEW pc, NEW coded, NEW d,
             \/ Receive(k, [Handler(kind, pc, coded) EXCEPT !.d = d])
             \/ Receive(k, Handler(kind, pc, coded))
      PROVE  Goal
  <2> DEFINE h == Handler(kind, pc, coded)
             f == [h EXCEPT !.d = d]
  <2>1. h.start = 0 /\ h.reading = "no" /\ f.start = 0 /\ f.reading = "no"
    BY DEF Handler
  <2>2. request' = [request EXCEPT ![k] = h] \/ request' = [request EXCEPT ![k] = f]
    BY <1>3 DEF Receive
  <2> HIDE DEF h, f
  <2> QED BY <1>1, <2>1, <2>2
<1>4. ASSUME NEW k \in Requests, StartOrder(k) PROVE Goal
  BY <1>3, <1>4 DEF StartOrder
<1>5. ASSUME NEW k \in Requests, NEW coded \in BOOLEAN, StartQuote(k, coded) PROVE Goal
  BY <1>3, <1>5 DEF StartQuote
<1>6. ASSUME NEW k \in Requests, NEW v \in {0, 50},
             UpdateRead(k, v, NotSent) \/ UpdateRead(k, NotSent, v) \/ UpdateRead(k, 0, v)
      PROVE  Goal
  <2>1. PICK g : g.pc = "promo" /\ request' = [request EXCEPT ![k] = g]
    BY <1>6 DEF UpdateRead, Receive
  <2>2. g \notin Handling
    BY <2>1, Phases DEF Lookups
  <2> QED BY <2>1, <2>2
<1>7. ASSUME NEW k \in Requests, Lookup(k) PROVE Goal
  <2>1. request[k].pc \in Lookups
    BY <1>7 DEF Lookup, Reads
  <2>2. CASE Fresh(k)
    <3>1. cache.table \in FeeTables /\ Use(k, cache.table)
      BY <1>7, <2>2 DEF Lookup, Fresh, Types, Clock
    <3> HIDE DEF Goal
    <3> QED BY <1>2, <2>1, <3>1
  <2>3. CASE ~Fresh(k)
    <3> DEFINE g == [request[k] EXCEPT !.reading = "row", !.start = now]
    <3>1. request[k] \in Handling
      BY <2>1, Phases DEF Types, Held
    <3>2. g.start = now /\ g.reading = "row"
      BY <3>1 DEF Handling
    <3>3. request' = [request EXCEPT ![k].reading = "row", ![k].start = now]
      BY <1>7, <2>3 DEF Lookup
    <3>4. [request EXCEPT ![k].reading = "row", ![k].start = now] = [request EXCEPT ![k] = g]
      BY DEF Types, Held
    <3> HIDE DEF g
    <3>5. request' = [request EXCEPT ![k] = g]
      BY <3>3, <3>4
    <3>6. g.start <= now /\ g.reading # "insert"
      BY <1>1, <3>2
    <3> QED BY <3>5, <3>6
  <2> QED BY <2>2, <2>3
<1>8. ASSUME NEW k \in Requests, Load(k) PROVE Goal
  <2>1. request[k].pc \in Lookups
    BY <1>8 DEF Load, Reads
  <2>2. CASE fees = None
    <3> DEFINE g == [request[k] EXCEPT !.reading = "insert"]
    <3>1. request[k] \in Handling
      BY <2>1, Phases DEF Types, Held
    <3>2. g.start = request[k].start
      BY <3>1 DEF Handling
    <3>3. request' = [request EXCEPT ![k].reading = "insert"] /\ fees' = None
      BY <1>8, <2>2 DEF Load, Database
    <3>4. [request EXCEPT ![k].reading = "insert"] = [request EXCEPT ![k] = g]
      BY DEF Types, Held
    <3> HIDE DEF g
    <3> QED BY <2>2, <3>1, <3>2, <3>3, <3>4
  <2>3. CASE fees # None
    <3>1. fees \in FeeTables /\ Use(k, fees)
      BY <1>8, <2>3 DEF Load, Types, Rows
    <3> HIDE DEF Goal
    <3> QED BY <1>2, <2>1, <3>1
  <2> QED BY <2>2, <2>3
<1>9. ASSUME NEW k \in Requests, InsertDefaults(k) PROVE Goal
  BY <1>2, <1>9, Parameters DEF InsertDefaults, Reads
<1>10. ASSUME NEW k \in Requests, LoadFails(k) PROVE Goal
  <2> DEFINE c == IF cache.table # None THEN cache.table ELSE Defaults
  <2>1. c \in FeeTables /\ request[k].pc \in Lookups /\ Use(k, c)
    BY <1>10, Parameters DEF LoadFails, Reads, Types, Clock
  <2> HIDE DEF c
  <2> QED BY <1>2, <2>1
<1>11. ASSUME NEW k \in Requests, ReadDetails(k) PROVE Goal
  <2> DEFINE g == [request[k] EXCEPT !.pc = "fee", !.details = DetailPrice * cart.quantity,
                                  !.toppings = DetailToppings]
  <2>1. request[k] \in Handling
    BY <1>11, Phases DEF Types, Held, ReadDetails, Doing
  <2>2. g.start = request[k].start /\ g.reading = request[k].reading
    BY <2>1 DEF Handling
  <2>3. request' = [request EXCEPT ![k] = g] \/ request' = [request EXCEPT ![k] = NoRequest]
    BY <1>11 DEF ReadDetails
  <2> HIDE DEF g
  <2>4. NoRequest \notin Handling
    BY Phases
  <2>5. CASE request' = [request EXCEPT ![k] = g]
    BY <2>1, <2>2, <2>5
  <2>6. CASE request' = [request EXCEPT ![k] = NoRequest]
    BY <2>4, <2>6
  <2> QED BY <2>3, <2>5, <2>6
<1>12. ASSUME NEW k \in Requests, Total(k) \/ UpdateSave(k) PROVE Goal
  BY <1>12, Phases DEF Total, UpdateSave
<1>13. ASSUME NEW p \in Promos, CreatePromotion(p) PROVE UNCHANGED request
  BY <1>13 DEF CreatePromotion
<1>14. ASSUME NEW f \in Foods, ChangeFood(f) PROVE UNCHANGED request
  BY <1>14 DEF ChangeFood
<1>15. ASSUME NEW c \in FeeTables, EditFees(c) PROVE UNCHANGED request
  BY <1>15 DEF EditFees
<1>16. ASSUME DeletePromotion \/ Tick \/ UNCHANGED pricingVars PROVE UNCHANGED request
  BY <1>16 DEF DeletePromotion, Tick, pricingVars
<1> HIDE DEF Goal
<1>17. ASSUME NEW k \in Requests,
              \/ StartOrder(k) \/ (\E coded \in BOOLEAN : StartQuote(k, coded))
              \/ Lookup(k) \/ Load(k) \/ InsertDefaults(k) \/ LoadFails(k)
              \/ ReadDetails(k) \/ Total(k) \/ UpdateSave(k)
              \/ \E v \in {0, 50} :
                    UpdateRead(k, v, NotSent) \/ UpdateRead(k, NotSent, v) \/ UpdateRead(k, 0, v)
       PROVE  Goal
  BY <1>4, <1>5, <1>6, <1>7, <1>8, <1>9, <1>10, <1>11, <1>12, <1>17
<1>18. UNCHANGED request \/ Goal
  BY <1>13, <1>14, <1>15, <1>16, <1>17 DEF PricingNext
<1> QED BY <1>18 DEF Goal

-----------------------------------------------------------------------------
(***************************************************************************)
(* The cache.                                                              *)
(***************************************************************************)
\* A handler that will insert the defaults: they are, or have been, in force.
Reading(k) ==
    request[k] \in Handling =>
        /\ request[k].start <= now
        /\ request[k].reading = "insert" => fees = None \/ Known(Defaults, 0)

\* The cached table was there when its read began or later, unless it is one
\* of two rows.
Cached ==
    /\ cache.since <= now
    /\ cache.table # None => /\ Known(cache.table, 0)
                             /\ rows <= 1 => Known(cache.table, cache.since)

CacheInv == InForce /\ Cached /\ \A k \in Requests : Reading(k)

LEMMA CacheInit == PricingInit => CacheInv
  BY InForceInit, Phases DEF PricingInit, CacheInv, Cached, Reading

LEMMA KnownNow ==
  ASSUME Types, InForce, NEW from \in Nat, from <= now
  PROVE  Known(fees, from) /\ Known(fees, 0)
<1>1. now + 1 \in (from + 1)..(now + 1) /\ now + 1 \in 1..(now + 1)
  BY DEF Types, Clock
<1> QED BY <1>1 DEF Known, InForce

LEMMA ReadingNext ==
  ASSUME Types, CacheInv, [PricingNext]_pricingVars
  PROVE  \A k \in Requests : Reading(k)'
<1>1. now <= now' /\ now \in Nat /\ now' \in Nat
  BY Grows, TypesNext DEF Types, Clock
<1>2. fees = None \/ Known(Defaults, 0) => fees' = None \/ Known(Defaults, 0)'
  <2>1. Known(Defaults, 0) => Known(Defaults, 0)'
    BY KnownLater
  <2>2. fees = None /\ fees' # None => fees' = Defaults
    <3>1. ASSUME NEW k \in Requests, InsertDefaults(k), fees = None PROVE fees' = Defaults
      BY <3>1 DEF InsertDefaults
    <3>2. ASSUME NEW c \in FeeTables, EditFees(c) PROVE fees # None
      BY <3>2 DEF EditFees
    <3>3. CASE Tick \/ UNCHANGED <<rows, fees, was, now>>
      BY <3>3 DEF Tick
    <3> QED BY <3>1, <3>2, <3>3, TableSteps
  <2>3. fees' = Defaults => Known(Defaults, 0)'
    <3>1. fees' \in was'[now' + 1]
      BY InForceNext DEF CacheInv, InForce
    <3>2. now' + 1 \in 1..(now' + 1)
      <4>1. \A n \in Nat : n + 1 \in 1..(n + 1)
        OBVIOUS
      <4>2. now' \in Nat
        BY <1>1
      <4> QED BY <4>1, <4>2
    <3>3. fees' = Defaults => \E t \in 1..(now' + 1) : Defaults \in was'[t]
      BY <3>1, <3>2
    <3> QED BY <3>3 DEF Known
  <2> QED BY <2>1, <2>2, <2>3
<1>3. ASSUME NEW j \in Requests, request'[j] = request[j] PROVE Reading(j)'
  <2>1. Reading(j)
    BY DEF CacheInv
  <2>2. request[j] \in Handling => request[j].start \in Nat
    BY DEF Handling
  <2> HIDE DEF CacheInv
  <2> QED BY <1>1, <1>2, <1>3, <2>1, <2>2 DEF Reading
<1>4. ASSUME NEW k \in Requests, NEW g, request' = [request EXCEPT ![k] = g],
             g \in Handling =>
                \/ g.start <= now /\ g.reading # "insert"
                \/ /\ request[k] \in Handling /\ g.start = request[k].start
                   /\ g.reading \in {"no", request[k].reading} \/ (fees = None /\ fees' = None)
      PROVE  \A j \in Requests : Reading(j)'
  <2>1. Reading(k)
    BY DEF CacheInv
  <2>2. request'[k] = g /\ \A j \in Requests \ {k} : request'[j] = request[j]
    BY <1>4 DEF Types, Held
  <2>3. g \in Handling => g.start \in Nat
    BY DEF Handling
  <2>4. Reading(k)'
    BY <1>1, <1>2, <1>4, <2>1, <2>2, <2>3 DEF Reading
  <2> QED BY <1>3, <2>2, <2>4
<1>5. CASE UNCHANGED request
  BY <1>3, <1>5
<1> QED BY <1>4, <1>5, ReadingSteps

LEMMA CachedNext ==
  ASSUME Types, CacheInv, [PricingNext]_pricingVars
  PROVE  Cached'
<1>1. now <= now' /\ now \in Nat /\ now' \in Nat
  BY Grows, TypesNext DEF Types, Clock
<1>2. rows \in Nat /\ rows <= rows'
  <2>1. rows \in Nat /\ (rows' = rows + 1 \/ rows' = rows)
    BY TableSteps DEF InsertDefaults, EditFees, Tick, Types, Rows
  <2> QED BY <2>1 DEF Types, Rows
<1>3. CASE UNCHANGED cache
  <2>1. cache.since \in Nat
    BY DEF Types, Clock
  <2>2. cache.table # None => /\ Known(cache.table, 0)
                              /\ rows <= 1 => Known(cache.table, cache.since)
    BY DEF CacheInv, Cached
  <2>3. \A c : /\ Known(c, 0) => Known(c, 0)'
               /\ Known(c, cache.since) => \E t \in (cache.since + 1)..(now' + 1) : c \in was'[t]
    <3>1. \A c, from : from \in Nat /\ Known(c, from) => Known(c, from)'
      BY KnownLater
    <3>2. \A c, from : from \in Nat /\ Known(c, from) =>
              \E t \in (from + 1)..(now' + 1) : c \in was'[t]
      BY <3>1 DEF Known
    <3>3. \A c : Known(c, 0) => Known(c, 0)'
      BY <3>1
    <3>4. \A c : Known(c, cache.since) =>
              \E t \in (cache.since + 1)..(now' + 1) : c \in was'[t]
      BY <2>1, <3>2
    <3> QED BY <3>3, <3>4
  <2>4. rows' <= 1 => rows <= 1
    BY <1>2, TypesNext DEF Types, Rows
  <2>5. cache'.since = cache.since /\ cache'.table = cache.table
    BY <1>3
  <2>6. cache'.since <= now'
    BY <1>1, <2>1, <2>5 DEF CacheInv, Cached
  <2>7. cache.table # None => \E t \in (0 + 1)..(now' + 1) : cache.table \in was'[t]
    BY <2>2, <2>3 DEF Known
  <2>8. cache.table # None /\ rows' <= 1 =>
            \E t \in (cache.since + 1)..(now' + 1) : cache.table \in was'[t]
    BY <2>2, <2>3, <2>4
  <2> QED BY <2>5, <2>6, <2>7, <2>8 DEF Cached, Known
<1>4. ASSUME NEW k \in Requests, Load(k), fees # None PROVE Cached'
  <2>1. /\ cache' = [table |-> fees, since |-> request[k].start] /\ request[k].pc \in Lookups
        /\ UNCHANGED <<fees, rows, was, now>>
    BY <1>4 DEF Load, Reads, Database
  <2>2. request[k].start \in Nat /\ request[k].start <= now
    BY <2>1, Phases DEF Types, Held, CacheInv, Reading, Handling
  <2>3. Known(fees, request[k].start) /\ Known(fees, 0)
    BY <2>2, KnownNow DEF CacheInv
  <2> QED BY <2>1, <2>2, <2>3 DEF Cached, Known
<1>5. ASSUME NEW k \in Requests, InsertDefaults(k) PROVE Cached'
  <2>1. /\ cache' = [table |-> Defaults, since |-> request[k].start] /\ request[k].pc \in Lookups
        /\ request[k].reading = "insert" /\ rows' = rows + 1 /\ now' = now
        /\ fees = None => fees' = Defaults
    BY <1>5 DEF InsertDefaults, Reads
  <2>2. /\ request[k].start \in Nat /\ request[k].start <= now
        /\ fees = None \/ Known(Defaults, 0)
    BY <2>1, Phases DEF Types, Held, CacheInv, Reading, Handling
  <2>3. Known(Defaults, 0) => Known(Defaults, 0)'
    BY KnownLater
  <2>4. InForce'
    BY InForceNext DEF CacheInv
  <2>5. fees = None => /\ \E t \in 1..(now' + 1) : Defaults \in was'[t]
                       /\ \E t \in (request[k].start + 1)..(now' + 1) : Defaults \in was'[t]
    <3>1. now' + 1 \in 1..(now' + 1) /\ now' + 1 \in (request[k].start + 1)..(now' + 1)
      BY <1>1, <2>1, <2>2
    <3> QED BY <2>1, <2>4, <3>1 DEF InForce
  <2>6. rows' <= 1 => fees = None
    BY <1>2, <2>1 DEF CacheInv, InForce
  <2>7. \E t \in 1..(now' + 1) : Defaults \in was'[t]
    BY <2>2, <2>3, <2>5 DEF Known
  <2> QED BY <2>1, <2>2, <2>5, <2>6, <2>7 DEF Cached, Known
<1>6. CASE PricingNext /\ cache' # cache
  <2>1. ASSUME NEW k \in Requests,
               \/ StartOrder(k) \/ (\E coded \in BOOLEAN : StartQuote(k, coded))
               \/ Lookup(k) \/ LoadFails(k) \/ ReadDetails(k) \/ Total(k)
               \/ UpdateSave(k)
               \/ \E v \in {0, 50} :
                     UpdateRead(k, v, NotSent) \/ UpdateRead(k, NotSent, v) \/ UpdateRead(k, 0, v)
        PROVE  UNCHANGED cache
    BY <2>1 DEF StartOrder, StartQuote, Receive, Lookup, LoadFails, ReadDetails, Total,
                UpdateSave, UpdateRead, Others
  <2>2. ASSUME NEW k \in Requests, Load(k) PROVE UNCHANGED cache \/ fees # None
    BY <2>2 DEF Load
  <2>3. ASSUME NEW p \in Promos, CreatePromotion(p) PROVE UNCHANGED cache
    BY <2>3 DEF CreatePromotion, Others
  <2>4. ASSUME DeletePromotion \/ Tick PROVE UNCHANGED cache
    BY <2>4 DEF DeletePromotion, Others, Tick
  <2>5. ASSUME NEW f \in Foods, ChangeFood(f) PROVE UNCHANGED cache
    BY <2>5 DEF ChangeFood
  <2>6. ASSUME NEW c \in FeeTables, EditFees(c) PROVE UNCHANGED cache
    BY <2>6 DEF EditFees
  <2> QED BY <1>4, <1>5, <1>6, <2>1, <2>2, <2>3, <2>4, <2>5, <2>6 DEF PricingNext
<1> QED BY <1>3, <1>6 DEF pricingVars

LEMMA CacheNext == Types /\ CacheInv /\ [PricingNext]_pricingVars => CacheInv'
  BY InForceNext, ReadingNext, CachedNext DEF CacheInv

LEMMA CacheAlways == PricingSpec => []CacheInv
  BY CacheInit, CacheNext, TypesAlways, PTL DEF PricingSpec

-----------------------------------------------------------------------------
(***************************************************************************)
(* The fee.                                                                *)
(***************************************************************************)
Priced(j) ==
    \E t \in 1..(now + 1) : \E c \in was'[t] \ {None} :
        t > now + 1 - Life /\ request'[j].fee = Fee(c, request[j].d) * Unit

Prices == \A j \in Requests : Doing(j, "fee") /\ request'[j].pc \in {"time", "total"} => Priced(j)

\* No other step than a look-up computes a fee.
LEMMA NoFee ==
  ASSUME Held, NEW k \in Requests, NEW g, request' = [request EXCEPT ![k] = g],
         request[k].pc # "fee" \/ g.pc \notin {"time", "total"}
  PROVE  Prices
<1>1. request'[k] = g /\ \A j \in Requests \ {k} : request'[j] = request[j]
  BY DEF Held
<1>2. \A j \in Requests : ~(Doing(j, "fee") /\ request'[j].pc \in {"time", "total"})
  BY <1>1 DEF Doing
<1> QED BY <1>2 DEF Prices

LEMMA UseFee ==
  ASSUME Types, NEW k \in Requests, NEW c, c \in FeeTables, request[k].pc \in Lookups, Use(k, c),
         NEW t \in 1..(now + 1), t > now + 1 - Life, c \in was'[t]
  PROVE  Prices
<1>1. request[k] \in Handling
  BY Phases DEF Types, Held
<1>2. PICK g : request' = [request EXCEPT ![k] = g] /\ (g = NoRequest \/ Went(request[k], g, c))
  BY <1>1, UseCases DEF Types, Rows
<1>3. CASE g = NoRequest
  BY <1>2, <1>3, NoFee, Phases DEF Types
<1>4. CASE request[k].pc # "fee"
  BY <1>2, <1>4, NoFee DEF Types
<1>5. CASE request[k].pc = "fee" /\ Went(request[k], g, c)
  <2>1. g.fee = Fee(c, request[k].d) * Unit
    BY <1>5 DEF Went
  <2>2. request'[k] = g /\ \A j \in Requests \ {k} : request'[j] = request[j]
    BY <1>2 DEF Types, Held
  <2>3. c # None
    BY Parameters
  <2>4. Priced(k)
    BY <2>1, <2>2, <2>3 DEF Priced
  <2> QED BY <2>2, <2>4 DEF Prices, Doing
<1> QED BY <1>2, <1>3, <1>4, <1>5

LEMMA FeeOfRecent ==
  ASSUME Types, CacheInv, [PricingNext]_pricingVars, ~failed', rows' <= 1
  PROVE  Prices
<1>1. now \in Nat /\ Life \in Nat /\ Life > 0 /\ Held
  BY Parameters DEF Types, Clock
<1>2. now + 1 \in 1..(now + 1) /\ now + 1 > now + 1 - Life
  BY <1>1
<1>3. ASSUME NEW k \in Requests, NEW h, Receive(k, h) PROVE Prices
  <2>1. request[k].pc # "fee" /\ request' = [request EXCEPT ![k] = h]
    BY <1>3 DEF Receive, Doing
  <2> QED BY <1>1, <2>1, NoFee
<1>4. ASSUME NEW k \in Requests,
             \/ StartOrder(k) \/ (\E coded \in BOOLEAN : StartQuote(k, coded))
             \/ \E v \in {0, 50} :
                   UpdateRead(k, v, NotSent) \/ UpdateRead(k, NotSent, v) \/ UpdateRead(k, 0, v)
      PROVE  Prices
  BY <1>3, <1>4 DEF StartOrder, StartQuote, UpdateRead
<1>5. ASSUME NEW k \in Requests, Lookup(k) PROVE Prices
  <2>1. request[k].pc \in Lookups /\ UNCHANGED <<rows, was, now>>
    BY <1>5 DEF Lookup, Reads, Database
  <2>2. CASE Fresh(k)
    <3>1. /\ Use(k, cache.table) /\ cache.table \in FeeTables /\ cache.table # None
          /\ cache.since \in Nat /\ now - cache.since < Life
      BY <1>5, <2>2 DEF Lookup, Fresh, Types, Clock
    <3>2. Known(cache.table, cache.since)
      BY <2>1, <3>1 DEF CacheInv, Cached
    <3>3. PICK t \in (cache.since + 1)..(now + 1) : cache.table \in was[t]
      BY <3>2 DEF Known
    <3>4. t \in 1..(now + 1) /\ t > now + 1 - Life
      BY <1>1, <3>1, <3>3
    <3>5. cache.table \in was'[t]
      BY <2>1, <3>3
    <3> QED BY <2>1, <3>1, <3>4, <3>5, UseFee
  <2>3. CASE ~Fresh(k)
    <3> DEFINE g == [request[k] EXCEPT !.reading = "row", !.start = now]
    <3>1. request[k] \in Handling
      BY <2>1, Phases DEF Types, Held
    <3>2. g.pc = request[k].pc
      BY <3>1 DEF Handling
    <3>3. request' = [request EXCEPT ![k].reading = "row", ![k].start = now]
      BY <1>5, <2>3 DEF Lookup
    <3>4. [request EXCEPT ![k].reading = "row", ![k].start = now] = [request EXCEPT ![k] = g]
      BY DEF Types, Held
    <3> HIDE DEF g
    <3>5. request[k].pc # "fee" \/ g.pc \notin {"time", "total"}
      BY <3>2
    <3> QED BY <1>1, <3>3, <3>4, <3>5, NoFee
  <2> QED BY <2>2, <2>3
<1>6. ASSUME NEW k \in Requests, Load(k) PROVE Prices
  <2>1. request[k].pc \in Lookups /\ UNCHANGED <<fees, was, now>>
    BY <1>6 DEF Load, Reads, Database
  <2>2. CASE fees = None
    <3> DEFINE g == [request[k] EXCEPT !.reading = "insert"]
    <3>1. request[k] \in Handling
      BY <2>1, Phases DEF Types, Held
    <3>2. g.pc = request[k].pc
      BY <3>1 DEF Handling
    <3>3. request' = [request EXCEPT ![k].reading = "insert"]
      BY <1>6, <2>2 DEF Load
    <3>4. [request EXCEPT ![k].reading = "insert"] = [request EXCEPT ![k] = g]
      BY DEF Types, Held
    <3> HIDE DEF g
    <3>5. request[k].pc # "fee" \/ g.pc \notin {"time", "total"}
      BY <3>2
    <3> QED BY <1>1, <3>3, <3>4, <3>5, NoFee
  <2>3. CASE fees # None
    <3>1. fees \in FeeTables /\ Use(k, fees)
      BY <1>6, <2>3 DEF Load, Types, Rows
    <3>2. fees \in was'[now + 1]
      BY <2>1 DEF CacheInv, InForce
    <3> QED BY <1>2, <2>1, <3>1, <3>2, UseFee
  <2> QED BY <2>2, <2>3
<1>7. ASSUME NEW k \in Requests, InsertDefaults(k) PROVE Prices
  <2>1. /\ request[k].pc \in Lookups /\ rows' = rows + 1 /\ now' = now /\ Use(k, Defaults)
        /\ fees' = IF fees = None THEN Defaults ELSE fees
    BY <1>7 DEF InsertDefaults, Reads
  <2>2. rows \in Nat /\ (rows = 0 <=> fees = None)
    BY DEF Types, Rows, CacheInv, InForce
  <2>3. fees' = Defaults
    BY <2>1, <2>2
  <2>4. fees' \in was'[now' + 1]
    BY InForceNext DEF CacheInv, InForce
  <2>5. Defaults \in was'[now + 1] /\ Defaults \in FeeTables
    BY <2>1, <2>3, <2>4, Parameters
  <2> QED BY <1>2, <2>1, <2>5, UseFee
<1>8. ASSUME NEW k \in Requests, LoadFails(k) PROVE FALSE
  BY <1>8 DEF LoadFails
<1>9. ASSUME NEW k \in Requests, ReadDetails(k) \/ Total(k) \/ UpdateSave(k) PROVE Prices
  <2>1. request[k].pc # "fee"
    BY <1>9 DEF ReadDetails, Total, UpdateSave, Doing
  <2>2. \E g : request' = [request EXCEPT ![k] = g]
    BY <1>9 DEF ReadDetails, Total, UpdateSave
  <2> QED BY <1>1, <2>1, <2>2, NoFee
<1>10. CASE UNCHANGED request
  BY <1>10 DEF Prices, Doing
<1>11. ASSUME NEW p \in Promos, CreatePromotion(p) PROVE UNCHANGED request
  BY <1>11 DEF CreatePromotion
<1>12. ASSUME NEW f \in Foods, ChangeFood(f) PROVE UNCHANGED request
  BY <1>12 DEF ChangeFood
<1>13. ASSUME NEW c \in FeeTables, EditFees(c) PROVE UNCHANGED request
  BY <1>13 DEF EditFees
<1>14. ASSUME DeletePromotion \/ Tick \/ UNCHANGED pricingVars PROVE UNCHANGED request
  BY <1>14 DEF DeletePromotion, Tick, pricingVars
<1> HIDE DEF Prices
<1>15. ASSUME NEW k \in Requests,
              \/ StartOrder(k) \/ (\E coded \in BOOLEAN : StartQuote(k, coded))
              \/ Lookup(k) \/ Load(k) \/ InsertDefaults(k) \/ LoadFails(k)
              \/ ReadDetails(k) \/ Total(k) \/ UpdateSave(k)
              \/ \E v \in {0, 50} :
                    UpdateRead(k, v, NotSent) \/ UpdateRead(k, NotSent, v) \/ UpdateRead(k, 0, v)
       PROVE  Prices
  BY <1>4, <1>5, <1>6, <1>7, <1>8, <1>9, <1>15
<1> QED BY <1>10, <1>11, <1>12, <1>13, <1>14, <1>15 DEF PricingNext

\* A fee is that of a table of the last five minutes (FeeWithinLife): the cached
\* table was there at its read or later, whatever the handlers do meanwhile.
THEOREM FeeWithinLifeCorrect == PricingSpec => FeeWithinLife
<1> DEFINE Step == \A k \in Requests :
        Doing(k, "fee") /\ request'[k].pc \in {"time", "total"} /\ ~failed' /\ rows' <= 1 =>
          \E t \in 1..(now + 1) : \E c \in was'[t] \ {None} :
              t > now + 1 - Life /\ request'[k].fee = Fee(c, request[k].d) * Unit
<1>1. Types /\ CacheInv /\ [PricingNext]_pricingVars => Step
  BY FeeOfRecent DEF Prices, Priced
<1>2. Types /\ CacheInv /\ [PricingNext]_pricingVars => [Step]_pricingVars
  BY <1>1
<1>3. PricingSpec => [][Step]_pricingVars
  BY <1>2, TypesAlways, CacheAlways, PTL DEF PricingSpec
<1> QED BY <1>3 DEF FeeWithinLife

\* PricingTypeOK, for any prices and percentages: no total is negative, nothing is
\* taken off beyond the amount unless the food itself costs less than nothing
\* (calculateDiscount), and the cache is never ahead of the clock.
THEOREM PricingTypeCorrect == PricingSpec => []PricingTypeOK
<1>1. Types /\ CacheInv => PricingTypeOK
  <2> SUFFICES ASSUME Types, CacheInv PROVE PricingTypeOK
    OBVIOUS
  <2>1. cache.table \in FeeTables \cup {None} /\ cache.since \in 0..now
    BY DEF Types, Clock, CacheInv, Cached
  <2>2. ASSUME NEW b, b \in {NoBill} \cup Bill, b.done => Adds(b), b.done
        PROVE  b.total \in Nat /\ (b.foods >= 0 => b.off \in 0..(b.foods + b.fee))
    <3>1. b \in Bill
      BY <2>2 DEF NoBill
    <3>2. b.off \in Int /\ b.foods \in Int /\ b.fee \in Nat /\ b.total \in Nat
      BY <3>1 DEF Bill
    <3> QED BY <2>2, <3>2 DEF Adds
  <2> QED BY <2>1, <2>2 DEF PricingTypeOK, Types, Rows, Clock, Given
<1> QED BY <1>1, TypesAlways, CacheAlways, PTL

-----------------------------------------------------------------------------
(***************************************************************************)
(* Lines, quotation and total.                                             *)
(***************************************************************************)
Past == {"fee", "time", "total"}

\* The handler holds the lines of the food as it is.
Lines(h) ==
    ToppingOK /\ h.details = DetailPrice * cart.quantity /\ h.toppings = DetailToppings

\* Where the lines of a handler's next state come from ...
Comes(k, g) ==
    g \in Handling =>
        \/ g.writes = writes /\ (g.kind = "order" => ~g.coded /\ g.pc \notin Past)
        \/ /\ request[k] \in Handling /\ g.writes = request[k].writes /\ g.kind = request[k].kind
           /\ g.coded = request[k].coded
           /\ \/ /\ g.details = request[k].details /\ g.toppings = request[k].toppings
                 /\ g.pc \in Past => request[k].pc \in Past
              \/ Lines(g)

\* ... and its fee.
Seen(c) == \E t \in 1..(now' + 1) : c \in was'[t]

Charges(k, g) ==
    g \in Handling /\ g.pc \in {"time", "total"} /\ ~failed' =>
        \/ \E c \in FeeTables : Seen(c) /\ g.fee = Fee(c, g.d) * Unit
        \/ /\ request[k] \in Handling /\ request[k].pc \in {"time", "total"}
           /\ g.fee = request[k].fee /\ g.d = request[k].d

Goes == \E k \in Requests : \E g : request' = [request EXCEPT ![k] = g] /\ Comes(k, g) /\ Charges(k, g)

LEMMA GoesIdle ==
  ASSUME NEW k \in Requests, request' = [request EXCEPT ![k] = NoRequest]
  PROVE  Goes
<1>1. Comes(k, NoRequest) /\ Charges(k, NoRequest)
  BY Phases DEF Comes, Charges
<1> QED BY <1>1 DEF Goes

LEMMA GoesOn ==
  ASSUME Types, NEW k \in Requests, NEW c, c \in FeeTables, request[k].pc \in Lookups, Use(k, c),
         failed' \/ Seen(c)
  PROVE  Goes
<1>1. request[k] \in Handling
  BY Phases DEF Types, Held
<1>2. PICK g : request' = [request EXCEPT ![k] = g] /\ (g = NoRequest \/ Went(request[k], g, c))
  BY <1>1, UseCases DEF Types, Rows
<1>3. CASE g = NoRequest
  BY <1>2, <1>3, GoesIdle
<1>4. CASE Went(request[k], g, c)
  <2>1. Comes(k, g)
    BY <1>1, <1>4 DEF Comes, Went, Same, Past
  <2>2. Charges(k, g)
    <3> SUFFICES ASSUME g.pc \in {"time", "total"}, ~failed' PROVE Charges(k, g)
      BY DEF Charges
    <3>1. CASE request[k].pc = "fee"
      <4>1. g.fee = Fee(c, g.d) * Unit /\ Seen(c)
        BY <1>4, <3>1 DEF Went
      <4> QED BY <4>1 DEF Charges
    <3>2. CASE request[k].pc = "time"
      BY <1>1, <1>4, <3>2 DEF Charges, Went
    <3>3. request[k].pc \in {"fee", "time"}
      BY <1>4 DEF Went
    <3> QED BY <3>1, <3>2, <3>3
  <2> QED BY <1>2, <2>1, <2>2 DEF Goes
<1> QED BY <1>2, <1>3, <1>4

\* A handler that stays where it is.
LEMMA GoesNowhere ==
  ASSUME NEW k \in Requests, NEW g, request' = [request EXCEPT ![k] = g], request[k] \in Handling,
         g.writes = request[k].writes, g.kind = request[k].kind, g.coded = request[k].coded,
         g.details = request[k].details, g.toppings = request[k].toppings, g.pc = request[k].pc,
         g.fee = request[k].fee, g.d = request[k].d
  PROVE  Goes
<1>1. Comes(k, g) /\ Charges(k, g)
  BY DEF Comes, Charges
<1> QED BY <1>1 DEF Goes

LEMMA HandlerSteps ==
  ASSUME Types, CacheInv, [PricingNext]_pricingVars
  PROVE  \/ UNCHANGED <<food, cart, writes>> /\ (UNCHANGED request \/ Goes)
         \/ /\ writes' = writes + 1 /\ cart' = cart
            /\ UNCHANGED request \/ \E k \in Requests : request' = [request EXCEPT ![k] = NoRequest]
<1> DEFINE Still == UNCHANGED <<food, cart, writes>>
<1>1. ASSUME NEW k \in Requests, NEW kind, NEW pc, NEW coded, NEW d,
             \/ Receive(k, [Handler(kind, pc, coded) EXCEPT !.d = d])
             \/ Receive(k, Handler(kind, pc, coded)),
             kind = "order" => ~coded, pc = "begin" \/ (pc = "fee" /\ kind # "order")
      PROVE  Still /\ Goes
  <2> DEFINE h == Handler(kind, pc, coded)
             f == [h EXCEPT !.d = d]
  <2>1. /\ h.kind = kind /\ h.pc = pc /\ h.coded = coded /\ h.writes = writes
        /\ f.kind = kind /\ f.pc = pc /\ f.coded = coded /\ f.writes = writes
    BY DEF Handler
  <2>2. /\ request' = [request EXCEPT ![k] = h] \/ request' = [request EXCEPT ![k] = f]
        /\ Still
    BY <1>1 DEF Receive, Database
  <2> HIDE DEF h, f
  <2>3. Comes(k, h) /\ Charges(k, h) /\ Comes(k, f) /\ Charges(k, f)
    BY <1>1, <2>1 DEF Comes, Charges, Past
  <2> QED BY <2>2, <2>3 DEF Goes
<1>2. ASSUME NEW k \in Requests, StartOrder(k) PROVE Still /\ Goes
  BY <1>1, <1>2 DEF StartOrder
<1>3. ASSUME NEW k \in Requests, NEW coded \in BOOLEAN, StartQuote(k, coded) PROVE Still /\ Goes
  BY <1>1, <1>3 DEF StartQuote
<1>4. ASSUME NEW k \in Requests, NEW v \in {0, 50},
             UpdateRead(k, v, NotSent) \/ UpdateRead(k, NotSent, v) \/ UpdateRead(k, 0, v)
      PROVE  Still /\ Goes
  <2>1. PICK g : g.pc = "promo" /\ request' = [request EXCEPT ![k] = g] /\ Still
    BY <1>4 DEF UpdateRead, Receive, Database
  <2>2. g \notin Handling
    BY <2>1, Phases DEF Lookups
  <2> QED BY <2>1, <2>2 DEF Goes, Comes, Charges
<1>5. ASSUME NEW k \in Requests, Lookup(k) PROVE Still /\ Goes
  <2>1. request[k].pc \in Lookups /\ UNCHANGED <<was, now>> /\ Still
    BY <1>5 DEF Lookup, Reads, Database
  <2>2. request[k] \in Handling
    BY <2>1, Phases DEF Types, Held
  <2>3. CASE Fresh(k)
    <3>1. cache.table \in FeeTables /\ Use(k, cache.table) /\ cache.table # None
      BY <1>5, <2>3 DEF Lookup, Fresh, Types, Clock
    <3>2. Known(cache.table, 0)
      BY <3>1 DEF CacheInv, Cached
    <3>3. Seen(cache.table)
      BY <2>1, <3>2 DEF Seen, Known
    <3> QED BY <2>1, <3>1, <3>3, GoesOn
  <2>4. CASE ~Fresh(k)
    <3> DEFINE g == [request[k] EXCEPT !.reading = "row", !.start = now]
    <3>1. /\ g.writes = request[k].writes /\ g.kind = request[k].kind /\ g.coded = request[k].coded
          /\ g.details = request[k].details /\ g.toppings = request[k].toppings
          /\ g.pc = request[k].pc /\ g.fee = request[k].fee /\ g.d = request[k].d
      BY <2>2 DEF Handling
    <3>2. request' = [request EXCEPT ![k].reading = "row", ![k].start = now]
      BY <1>5, <2>4 DEF Lookup
    <3>3. [request EXCEPT ![k].reading = "row", ![k].start = now] = [request EXCEPT ![k] = g]
      BY DEF Types, Held
    <3> HIDE DEF g
    <3> QED BY <2>1, <2>2, <3>1, <3>2, <3>3, GoesNowhere
  <2> QED BY <2>3, <2>4
<1>6. ASSUME NEW k \in Requests, Load(k) PROVE Still /\ Goes
  <2>1. request[k].pc \in Lookups /\ UNCHANGED <<fees, was, now>> /\ Still
    BY <1>6 DEF Load, Reads, Database
  <2>2. request[k] \in Handling
    BY <2>1, Phases DEF Types, Held
  <2>3. CASE fees = None
    <3> DEFINE g == [request[k] EXCEPT !.reading = "insert"]
    <3>1. /\ g.writes = request[k].writes /\ g.kind = request[k].kind /\ g.coded = request[k].coded
          /\ g.details = request[k].details /\ g.toppings = request[k].toppings
          /\ g.pc = request[k].pc /\ g.fee = request[k].fee /\ g.d = request[k].d
      BY <2>2 DEF Handling
    <3>2. request' = [request EXCEPT ![k].reading = "insert"]
      BY <1>6, <2>3 DEF Load
    <3>3. [request EXCEPT ![k].reading = "insert"] = [request EXCEPT ![k] = g]
      BY DEF Types, Held
    <3> HIDE DEF g
    <3> QED BY <2>1, <2>2, <3>1, <3>2, <3>3, GoesNowhere
  <2>4. CASE fees # None
    <3>1. fees \in FeeTables /\ Use(k, fees)
      BY <1>6, <2>4 DEF Load, Types, Rows
    <3>2. now + 1 \in 1..(now + 1)
      BY DEF Types, Clock
    <3>3. Seen(fees)
      BY <2>1, <3>2 DEF Seen, CacheInv, InForce
    <3> QED BY <2>1, <3>1, <3>3, GoesOn
  <2> QED BY <2>3, <2>4
<1>7. ASSUME NEW k \in Requests, InsertDefaults(k) PROVE Still /\ Goes
  <2>1. /\ request[k].pc \in Lookups /\ request[k].reading = "insert" /\ now' = now /\ Still
        /\ Use(k, Defaults) /\ (fees = None => fees' = Defaults)
    BY <1>7 DEF InsertDefaults, Reads
  <2>2. fees = None \/ Known(Defaults, 0)
    BY <2>1, Phases DEF Types, Held, CacheInv, Reading
  <2>3. Seen(Defaults)
    <3>1. CASE fees = None
      <4>1. fees' = Defaults /\ fees' \in was'[now' + 1]
        BY <2>1, <3>1, InForceNext DEF CacheInv, InForce
      <4>2. now' + 1 \in 1..(now' + 1)
        BY <2>1 DEF Types, Clock
      <4> QED BY <4>1, <4>2 DEF Seen
    <3>2. CASE Known(Defaults, 0)
      <4>1. Known(Defaults, 0)'
        BY <3>2, KnownLater
      <4> QED BY <4>1 DEF Known, Seen
    <3> QED BY <2>2, <3>1, <3>2
  <2> QED BY <2>1, <2>3, GoesOn, Parameters
<1>8. ASSUME NEW k \in Requests, LoadFails(k) PROVE Still /\ Goes
  <2> DEFINE c == IF cache.table # None THEN cache.table ELSE Defaults
  <2>1. c \in FeeTables /\ request[k].pc \in Lookups /\ Use(k, c) /\ failed' /\ Still
    BY <1>8, Parameters DEF LoadFails, Reads, Types, Clock, Database
  <2> HIDE DEF c
  <2> QED BY <2>1, GoesOn
<1>9. ASSUME NEW k \in Requests, ReadDetails(k) PROVE Still /\ Goes
  <2> DEFINE g == [request[k] EXCEPT !.pc = "fee", !.details = DetailPrice * cart.quantity,
                                  !.toppings = DetailToppings]
  <2>1. request[k] \in Handling /\ Still
    BY <1>9, Phases DEF Types, Held, ReadDetails, Doing, Database
  <2>2. /\ g.writes = request[k].writes /\ g.kind = request[k].kind /\ g.coded = request[k].coded
        /\ g.pc = "fee"
        /\ g.details = DetailPrice * cart.quantity /\ g.toppings = DetailToppings
    BY <2>1 DEF Handling
  <2>3. (ToppingOK /\ request' = [request EXCEPT ![k] = g]) \/ request' = [request EXCEPT ![k] = NoRequest]
    BY <1>9 DEF ReadDetails
  <2> HIDE DEF g
  <2>4. ToppingOK => Comes(k, g) /\ Charges(k, g)
    BY <2>1, <2>2 DEF Comes, Lines, Charges
  <2> QED BY <2>1, <2>3, <2>4, GoesIdle DEF Goes
<1>10. ASSUME NEW k \in Requests, Total(k) PROVE Still /\ Goes
  BY <1>10, GoesIdle DEF Total, Database
<1>11. ASSUME NEW k \in Requests, UpdateSave(k)
       PROVE  writes' = writes + 1 /\ cart' = cart /\ request' = [request EXCEPT ![k] = NoRequest]
  BY <1>11 DEF UpdateSave, Others
<1>12. ASSUME NEW p \in Promos, CreatePromotion(p)
       PROVE  writes' = writes + 1 /\ cart' = cart /\ UNCHANGED request
  BY <1>12 DEF CreatePromotion, Others
<1>13. ASSUME NEW f \in Foods, ChangeFood(f)
       PROVE  writes' = writes + 1 /\ cart' = cart /\ UNCHANGED request
  BY <1>13 DEF ChangeFood
<1>14. ASSUME NEW c \in FeeTables, EditFees(c)
       PROVE  writes' = writes + 1 /\ cart' = cart /\ UNCHANGED request
  BY <1>14 DEF EditFees
<1>15. CASE DeletePromotion
  BY <1>15 DEF DeletePromotion, Others
<1>16. ASSUME Tick \/ UNCHANGED pricingVars PROVE Still /\ UNCHANGED request
  BY <1>16 DEF Tick, pricingVars
<1>17. ASSUME NEW k \in Requests,
              \/ StartOrder(k) \/ (\E coded \in BOOLEAN : StartQuote(k, coded))
              \/ Lookup(k) \/ Load(k) \/ InsertDefaults(k) \/ LoadFails(k)
              \/ ReadDetails(k) \/ Total(k)
              \/ \E v \in {0, 50} :
                    UpdateRead(k, v, NotSent) \/ UpdateRead(k, NotSent, v) \/ UpdateRead(k, 0, v)
       PROVE  Still /\ Goes
  BY <1>2, <1>3, <1>4, <1>5, <1>6, <1>7, <1>8, <1>9, <1>10, <1>17
<1> QED BY <1>11, <1>12, <1>13, <1>14, <1>15, <1>16, <1>17 DEF PricingNext

\* As long as nothing is written, an order has the lines of the food as it is.
Ordering(k) ==
    request[k] \in Handling =>
        /\ request[k].writes <= writes
        /\ request[k].kind = "order" => ~request[k].coded
        /\ request[k].pc \in Past /\ request[k].kind = "order" /\ request[k].writes = writes
             => Lines(request[k])

\* Some table there has been sets this fee at this distance.
Tabled(fee, d) == \E c \in FeeTables : Known(c, 0) /\ fee = Fee(c, d) * Unit

Charging(k) ==
    request[k] \in Handling /\ request[k].pc \in {"time", "total"} /\ ~failed
        => Tabled(request[k].fee, request[k].d)

\* What a bill says of the food, as long as nothing is written, and of the fee.
Tells(b) ==
    /\ b.total = Clamped(b.foods + b.fee - b.off) /\ b.writes <= writes
    /\ b.writes = writes => /\ b.foods = (IF b.kind = "custom" THEN CustomFoodTotal ELSE FoodTotal)
                            /\ b.plain = (food.off = 0)
    /\ ~failed => Tabled(b.fee, b.d)

Comparable == quote.kind = "quote" \/ Named(quote)

Bills ==
    /\ quote.done => Tells(quote) /\ quote.kind # "order"
    /\ created.done => Tells(created) /\ created.kind = "order" /\ created.off = 0
    /\ quote.done /\ created.done /\ quote.writes = created.writes /\ Comparable
         => quote.foods = created.foods

PriceInv == (\A k \in Requests : Ordering(k) /\ Charging(k)) /\ Bills /\ TotalMatchesDetails

LEMMA Distributed == \A a, b, q \in Int : (a + b) * q = a * q + b * q
  OBVIOUS

LEMMA Scaled == \A x, y \in Int, q \in Nat : x <= y => x * q <= y * q
<1> TAKE x, y \in Int, q \in Nat
<1> HAVE x <= y
<1>1. (y - x) * q >= 0
  OBVIOUS
<1>2. (y - x) * q = y * q - x * q
  OBVIOUS
<1> QED BY <1>1, <1>2, Product

\* The topping at the price of the row and at the customer's.
LEMMA ToppingNear ==
  ASSUME food \in Food, cart \in Cart, ToppingOK
  PROVE  /\ Tolerance \in Int /\ Topping * cart.quantity \in Int
         /\ Topping * cart.quantity <= DetailToppings + Tolerance
         /\ DetailToppings <= Topping * cart.quantity + Tolerance
<1>1. cart.quantity \in Nat /\ Topping \in Int /\ food.topping \in Int
  BY CartFields, FoodFields
<1>2. CASE cart.topping = NotSent
  <2>1. Topping = 0 /\ DetailToppings = 0 /\ Tolerance = 0
    BY <1>2 DEF Topping, DetailToppings, Tolerance
  <2> QED BY <1>1, <2>1
<1>3. CASE cart.topping # NotSent
  <2> DEFINE q == cart.quantity  t == Topping  f == food.topping * Cent
  <2>1. f \in Int
    BY <1>1 DEF Cent
  <2>2. t <= f + Cent /\ f <= t + Cent
    BY <1>1, <1>3, <2>1 DEF ToppingOK, Near, Cent
  <2>3. DetailToppings = f * q /\ Tolerance = q * Cent
    BY <1>1, <1>3 DEF DetailToppings, Tolerance, Cent
  <2> HIDE DEF q, t, f
  <2>4. q \in Nat /\ t \in Int
    BY <1>1 DEF q, t
  <2>5. t * q <= (f + Cent) * q /\ f * q <= (t + Cent) * q
    BY <2>1, <2>2, <2>4, Scaled DEF Cent
  <2>6. (f + Cent) * q = f * q + q * Cent /\ (t + Cent) * q = t * q + q * Cent
    BY <2>1, <2>4 DEF Cent
  <2>7. t * q \in Int /\ f * q \in Int /\ q * Cent \in Int
    BY <2>1, <2>4, Product DEF Cent
  <2> QED BY <2>3, <2>5, <2>6, <2>7 DEF t, q
<1> QED BY <1>2, <1>3

\* The three formulas agree if the cart says the discount or there is none, but
\* for the price of the topping.
LEMMA FormulasAgree ==
  ASSUME food \in Food, cart \in Cart, cart.off \notin {NotSent, 0} \/ food.off = 0
  PROVE  /\ CustomFoodTotal = FoodTotal
         /\ ToppingOK =>
              /\ FoodTotal <= DetailPrice * cart.quantity + DetailToppings + Tolerance
              /\ FoodTotal >= DetailPrice * cart.quantity + DetailToppings - Tolerance
<1> DEFINE off == Truthy(cart.off, food.off)
           a == Discounted(food.price, off)
<1>1. /\ off = OrElse(cart.off, 0) /\ off = OrElse(OrElse(cart.off, 0), food.off)
      /\ off \in Int
  BY CartFields, FoodFields, Parameters DEF Truthy, OrElse
<1> HIDE DEF off
<1>2. a \in Int /\ DetailPrice = a
  BY <1>1, FoodFields, DiscountedInt DEF DetailPrice
<1>3. FoodTotal = (a + Topping) * cart.quantity /\ CustomFoodTotal = FoodTotal
  BY <1>1 DEF FoodTotal, CustomFoodTotal, off
<1> HIDE DEF a
<1>4. FoodTotal = a * cart.quantity + Topping * cart.quantity
  BY <1>2, <1>3, CartFields, Distributed
<1>5. a * cart.quantity \in Int /\ DetailToppings \in Int
  BY <1>2, Amounts
<1>6. ASSUME ToppingOK
      PROVE  /\ FoodTotal <= DetailPrice * cart.quantity + DetailToppings + Tolerance
             /\ FoodTotal >= DetailPrice * cart.quantity + DetailToppings - Tolerance
  <2>1. /\ Tolerance \in Int /\ Topping * cart.quantity \in Int
        /\ Topping * cart.quantity <= DetailToppings + Tolerance
        /\ DetailToppings <= Topping * cart.quantity + Tolerance
    BY <1>6, ToppingNear
  <2> QED BY <1>2, <1>4, <1>5, <2>1
<1> QED BY <1>3, <1>6

LEMMA PriceInit == PricingInit => PriceInv
  BY Phases DEF PricingInit, PriceInv, Ordering, Charging, Bills, TotalMatchesDetails, NoBill

LEMMA TabledLater ==
  ASSUME Types, [PricingNext]_pricingVars
  PROVE  \A fee, d : Tabled(fee, d) =>
            \E c \in FeeTables : Seen(c) /\ fee = Fee(c, d) * Unit
<1>1. \A c : Known(c, 0) => Known(c, 0)'
  BY KnownLater
<1>2. \A c : Known(c, 0) => Seen(c)
  BY <1>1 DEF Known, Seen
<1> QED BY <1>2 DEF Tabled

LEMMA FormulasStay ==
  ASSUME food' = food, cart' = cart
  PROVE  /\ FoodTotal' = FoodTotal /\ CustomFoodTotal' = CustomFoodTotal
         /\ ToppingOK' = ToppingOK /\ DetailPrice' = DetailPrice
         /\ DetailToppings' = DetailToppings
  BY DEF FoodTotal, CustomFoodTotal, ToppingOK, DetailPrice, DetailToppings, Topping

LEMMA FailedStays == Types /\ [PricingNext]_pricingVars => (failed => failed')
<1> SUFFICES ASSUME Types, [PricingNext]_pricingVars PROVE failed => failed'
  OBVIOUS
<1>1. ASSUME NEW k \in Requests,
             \/ StartOrder(k) \/ (\E coded \in BOOLEAN : StartQuote(k, coded))
             \/ Lookup(k) \/ Load(k) \/ InsertDefaults(k) \/ LoadFails(k)
             \/ ReadDetails(k) \/ Total(k) \/ UpdateSave(k)
             \/ \E v \in {0, 50} :
                   UpdateRead(k, v, NotSent) \/ UpdateRead(k, NotSent, v) \/ UpdateRead(k, 0, v)
      PROVE  failed => failed'
  BY <1>1 DEF StartOrder, StartQuote, Receive, Lookup, Load, InsertDefaults, LoadFails,
              ReadDetails, Total, UpdateSave, UpdateRead, Others
<1>2. ASSUME NEW p \in Promos, CreatePromotion(p) PROVE failed' = failed
  BY <1>2 DEF CreatePromotion, Others
<1>3. ASSUME NEW f \in Foods, ChangeFood(f) PROVE failed' = failed
  BY <1>3 DEF ChangeFood
<1>4. ASSUME NEW c \in FeeTables, EditFees(c) PROVE failed' = failed
  BY <1>4 DEF EditFees
<1>5. ASSUME DeletePromotion \/ Tick \/ UNCHANGED pricingVars PROVE failed' = failed
  BY <1>5 DEF DeletePromotion, Others, Tick, pricingVars
<1> QED BY <1>1, <1>2, <1>3, <1>4, <1>5 DEF PricingNext

LEMMA ChargingNext ==
  ASSUME Types, CacheInv, PriceInv, [PricingNext]_pricingVars
  PROVE  \A k \in Requests : Charging(k)'
<1>1. \A fee, d : (\E c \in FeeTables : Seen(c) /\ fee = Fee(c, d) * Unit) =>
          \E c \in FeeTables : (\E t \in 1..(now' + 1) : c \in was'[t]) /\ fee = Fee(c, d) * Unit
  BY DEF Seen
<1>2. ASSUME NEW j \in Requests, NEW h, request'[j] = h,
             h \in Handling /\ h.pc \in {"time", "total"} /\ ~failed' =>
                \E c \in FeeTables : Seen(c) /\ h.fee = Fee(c, h.d) * Unit
      PROVE  Charging(j)'
  <2>1. request'[j] \in Handling /\ request'[j].pc \in {"time", "total"} /\ ~failed' =>
           \E c \in FeeTables : Known(c, 0)' /\ request'[j].fee = Fee(c, request'[j].d) * Unit
    BY <1>1, <1>2 DEF Known
  <2> QED BY <2>1 DEF Charging, Tabled
<1>3. ASSUME NEW j \in Requests, request'[j] = request[j] PROVE Charging(j)'
  <2>1. Charging(j)
    BY DEF PriceInv
  <2>2. request[j] \in Handling /\ request[j].pc \in {"time", "total"} /\ ~failed' =>
           \E c \in FeeTables : Seen(c) /\ request[j].fee = Fee(c, request[j].d) * Unit
    BY <2>1, FailedStays, TabledLater DEF Charging
  <2> HIDE DEF PriceInv
  <2> QED BY <1>2, <1>3, <2>2
<1>4. ASSUME NEW k \in Requests, NEW g, request' = [request EXCEPT ![k] = g], Charges(k, g)
      PROVE  \A j \in Requests : Charging(j)'
  <2>1. request'[k] = g /\ \A j \in Requests \ {k} : request'[j] = request[j]
    BY <1>4 DEF Types, Held
  <2>2. Charging(k)
    BY DEF PriceInv
  <2>3. g \in Handling /\ g.pc \in {"time", "total"} /\ ~failed' =>
           \E c \in FeeTables : Seen(c) /\ g.fee = Fee(c, g.d) * Unit
    BY <1>4, <2>2, FailedStays, TabledLater DEF Charges, Charging
  <2>4. Charging(k)'
    BY <1>2, <2>1, <2>3
  <2> QED BY <1>3, <2>1, <2>4
<1>5. ASSUME NEW k \in Requests PROVE Charges(k, NoRequest)
  BY Phases DEF Charges
<1> QED BY <1>3, <1>4, <1>5, HandlerSteps DEF Goes

LEMMA OrderingNext ==
  ASSUME Types, CacheInv, PriceInv, [PricingNext]_pricingVars
  PROVE  \A k \in Requests : Ordering(k)'
<1>1. writes \in Nat /\ \A j \in Requests : Ordering(j)
  BY DEF Types, Counts, PriceInv
<1>2. \A h \in Handling : h.writes \in Nat
  BY DEF Handling
<1>3. CASE UNCHANGED <<food, cart, writes>>
  <2>1. ToppingOK' = ToppingOK /\ DetailPrice' = DetailPrice /\ DetailToppings' = DetailToppings
    BY <1>3, FormulasStay
  <2>2. ASSUME NEW j \in Requests, NEW h, request'[j] = h,
               h \in Handling =>
                  /\ h.writes <= writes
                  /\ h.kind = "order" => ~h.coded
                  /\ h.pc \in Past /\ h.kind = "order" /\ h.writes = writes => Lines(h)
        PROVE  Ordering(j)'
    BY <1>3, <2>1, <2>2 DEF Ordering, Lines
  <2>3. ASSUME NEW j \in Requests, request'[j] = request[j] PROVE Ordering(j)'
    BY <1>1, <2>2, <2>3 DEF Ordering
  <2>4. ASSUME NEW k \in Requests, NEW g, request' = [request EXCEPT ![k] = g], Comes(k, g)
        PROVE  \A j \in Requests : Ordering(j)'
    <3>1. request'[k] = g /\ \A j \in Requests \ {k} : request'[j] = request[j]
      BY <2>4 DEF Types, Held
    <3>2. Ordering(k)
      BY <1>1
    <3>3. g \in Handling =>
             /\ g.writes <= writes
             /\ g.kind = "order" => ~g.coded
             /\ g.pc \in Past /\ g.kind = "order" /\ g.writes = writes => Lines(g)
      BY <1>1, <2>4, <3>2 DEF Comes, Ordering, Lines
    <3>4. Ordering(k)'
      BY <2>2, <3>1, <3>3
    <3> QED BY <2>3, <3>1, <3>4
  <2>5. ASSUME UNCHANGED request PROVE \A j \in Requests : Ordering(j)'
    BY <2>3, <2>5
  <2>6. UNCHANGED request \/ Goes
    BY <1>1, <1>3, HandlerSteps
  <2> QED BY <2>4, <2>5, <2>6 DEF Goes
<1>4. CASE /\ writes' = writes + 1
           /\ UNCHANGED request \/ \E k \in Requests : request' = [request EXCEPT ![k] = NoRequest]
  <2>1. \A j \in Requests : request'[j] \in {request[j], NoRequest}
    BY <1>4 DEF Types, Held
  <2>2. ASSUME NEW j \in Requests PROVE Ordering(j)'
    <3>1. request'[j] \in Handling => request'[j] = request[j]
      BY <2>1, Phases
    <3>2. request'[j] \in Handling => request[j].writes <= writes /\ request[j].writes < writes'
      BY <1>1, <1>2, <1>4, <3>1 DEF Ordering
    <3>3. Ordering(j)
      BY <1>1
    <3>4. /\ request'[j] \in Handling => request'[j].writes <= writes' /\ request'[j].writes # writes'
          /\ request'[j] \in Handling /\ request'[j].kind = "order" => ~request'[j].coded
      BY <1>1, <1>2, <1>4, <3>1, <3>2, <3>3 DEF Ordering
    <3> QED BY <3>4 DEF Ordering
  <2> QED BY <2>2
<1> QED BY <1>3, <1>4, HandlerSteps

LEMMA BillSteps ==
  ASSUME [PricingNext]_pricingVars
  PROVE  UNCHANGED <<quote, created>> \/ \E k \in Requests : Total(k)
<1>1. ASSUME NEW k \in Requests,
             \/ StartOrder(k) \/ (\E coded \in BOOLEAN : StartQuote(k, coded))
             \/ Lookup(k) \/ Load(k) \/ InsertDefaults(k) \/ LoadFails(k)
             \/ ReadDetails(k) \/ UpdateSave(k)
             \/ \E v \in {0, 50} :
                   UpdateRead(k, v, NotSent) \/ UpdateRead(k, NotSent, v) \/ UpdateRead(k, 0, v)
      PROVE  UNCHANGED <<quote, created>>
  BY <1>1 DEF StartOrder, StartQuote, Receive, Lookup, Load, InsertDefaults, LoadFails,
              ReadDetails, UpdateSave, UpdateRead, Others, History
<1>2. ASSUME NEW p \in Promos, CreatePromotion(p) PROVE UNCHANGED <<quote, created>>
  BY <1>2 DEF CreatePromotion, Others
<1>3. ASSUME NEW f \in Foods, ChangeFood(f) PROVE UNCHANGED <<quote, created>>
  BY <1>3 DEF ChangeFood, History
<1>4. ASSUME NEW c \in FeeTables, EditFees(c) PROVE UNCHANGED <<quote, created>>
  BY <1>4 DEF EditFees, History
<1>5. ASSUME DeletePromotion \/ Tick \/ UNCHANGED pricingVars PROVE UNCHANGED <<quote, created>>
  BY <1>5 DEF DeletePromotion, Others, Tick, History, pricingVars
<1> QED BY <1>1, <1>2, <1>3, <1>4, <1>5 DEF PricingNext

\* What is told once stays told ...
TellsThen(b) ==
    /\ b.total = Clamped(b.foods + b.fee - b.off) /\ b.writes <= writes'
    /\ b.writes = writes' =>
          /\ b.foods = (IF b.kind = "custom" THEN CustomFoodTotal' ELSE FoodTotal')
          /\ b.plain = (food'.off = 0)
    /\ ~failed' => \E c \in FeeTables : Seen(c) /\ b.fee = Fee(c, b.d) * Unit

LEMMA TellsLater ==
  ASSUME Types, CacheInv, [PricingNext]_pricingVars
  PROVE  \A b \in Bill : Tells(b) => TellsThen(b)
<1> TAKE b \in Bill
<1> SUFFICES ASSUME Tells(b) PROVE TellsThen(b)
  OBVIOUS
<1>1. b.writes \in Nat /\ writes \in Nat
  BY DEF Bill, Types, Counts
<1>2. ~failed' => \E c \in FeeTables : Seen(c) /\ b.fee = Fee(c, b.d) * Unit
  BY FailedStays, TabledLater DEF Tells
<1>3. CASE UNCHANGED <<food, cart, writes>>
  BY <1>1, <1>2, <1>3, FormulasStay DEF Tells, TellsThen
<1>4. CASE writes' = writes + 1
  BY <1>1, <1>2, <1>4 DEF Tells, TellsThen
<1> QED BY <1>3, <1>4, HandlerSteps

\* ... and a new bill tells of the food as it is.
LEMMA TellsNow ==
  ASSUME Types, CacheInv, PriceInv, [PricingNext]_pricingVars,
         NEW k \in Requests, Total(k), request[k] \in Handling, NEW b \in Bill, Billed(k, b)
  PROVE  TellsThen(b)
<1>1. UNCHANGED <<food, cart, writes, failed>> /\ request[k].pc = "total"
  BY DEF Total, Database, Doing
<1>2. FoodTotal' = FoodTotal /\ CustomFoodTotal' = CustomFoodTotal
  BY <1>1, FormulasStay
<1>3. ~failed => Tabled(b.fee, b.d)
  BY <1>1 DEF PriceInv, Charging, Billed
<1>4. ~failed' => \E c \in FeeTables : Seen(c) /\ b.fee = Fee(c, b.d) * Unit
  BY <1>1, <1>3, TabledLater
<1>5. b.writes <= writes'
  BY <1>1 DEF Billed, Types, Counts
<1> QED BY <1>1, <1>2, <1>4, <1>5 DEF Billed, TellsThen

LEMMA BillsNext ==
  ASSUME Types, CacheInv, PriceInv, [PricingNext]_pricingVars
  PROVE  Bills' /\ TotalMatchesDetails'
<1>1. /\ TellsThen(quote') => Tells(quote)'
      /\ TellsThen(created') => Tells(created)'
  <2>1. \A fee, d : (\E c \in FeeTables : Seen(c) /\ fee = Fee(c, d) * Unit) =>
          \E c \in FeeTables : Known(c, 0)' /\ fee = Fee(c, d) * Unit
    <3>1. \A c : Seen(c) => Known(c, 0)'
      BY DEF Seen, Known
    <3> QED BY <3>1
  <2> QED BY <2>1 DEF TellsThen, Tells, Tabled
<1>2. /\ quote.done => quote \in Bill /\ TellsThen(quote)
      /\ created.done => created \in Bill /\ TellsThen(created)
  BY TellsLater DEF Types, Given, NoBill, PriceInv, Bills
<1>3. cart' = cart
  BY HandlerSteps
<1>4. CASE UNCHANGED <<quote, created>>
  <2>1. /\ quote'.done => Tells(quote)' /\ quote'.kind # "order"
        /\ created'.done => Tells(created)' /\ created'.kind = "order" /\ created'.off = 0
    BY <1>1, <1>2, <1>4 DEF PriceInv, Bills
  <2>2. /\ quote'.done /\ created'.done /\ quote'.writes = created'.writes /\ Comparable'
             => quote'.foods = created'.foods
        /\ TotalMatchesDetails'
    BY <1>3, <1>4 DEF PriceInv, Bills, Comparable, Named, Tolerance, TotalMatchesDetails
  <2> QED BY <2>1, <2>2 DEF Bills
<1>5. ASSUME NEW k \in Requests, Total(k) PROVE Bills' /\ TotalMatchesDetails'
  <2>1. request[k] \in Handling /\ request[k].pc = "total" /\ food \in Food /\ cart \in Cart
    BY <1>5, Billing DEF Total, Doing, Types, Rows
  <2>2. PICK b \in Bill : Billed(k, b)
    BY <1>5, Billing
  <2>3. TellsThen(b)
    BY <1>5, <2>1, <2>2, TellsNow
  <2>4. b.done /\ b.foods \in Int /\ b.fee \in Nat /\ b.lines \in Int
    BY DEF Bill
  <2>5. request[k].kind = "order" => ~request[k].coded
    BY <2>1 DEF PriceInv, Ordering
  <2>6. CASE request[k].kind = "order" /\ created' = b
    <3>1. quote' = quote /\ b.kind = "order" /\ b.off = 0 /\ b.foods = FoodTotal
          /\ b.writes = writes
      BY <2>2, <2>5, <2>6 DEF Billed
    <3>2. /\ quote'.done => Tells(quote)' /\ quote'.kind # "order"
          /\ created'.done => Tells(created)' /\ created'.kind = "order" /\ created'.off = 0
      BY <1>1, <1>2, <2>3, <2>6, <3>1 DEF PriceInv, Bills
    <3>3. quote.done /\ quote.writes = writes /\ Comparable => quote.foods = FoodTotal
      BY <2>1, FormulasAgree DEF PriceInv, Bills, Tells, Comparable, Named
    <3>4. quote'.done /\ created'.done /\ quote'.writes = created'.writes /\ Comparable'
             => quote'.foods = created'.foods
      BY <1>3, <2>6, <3>1, <3>3 DEF Comparable, Named
    <3>5. TotalMatchesDetails'
      <4> SUFFICES ASSUME b.steady, Named(b)
                   PROVE  /\ b.total <= Clamped(b.lines + b.fee + Tolerance)
                          /\ b.total >= Clamped(b.lines + b.fee - Tolerance)
        BY <1>3, <2>6 DEF TotalMatchesDetails, Named, Tolerance
      <4>1. writes = request[k].writes /\ (cart.off \notin {NotSent, 0} \/ food.off = 0)
        BY <2>2 DEF Billed, Named
      <4>2. Lines(request[k])
        BY <2>1, <2>6, <4>1 DEF PriceInv, Ordering, Past
      <4>3. b.lines = DetailPrice * cart.quantity + DetailToppings /\ ToppingOK
        BY <2>2, <4>2 DEF Lines, Billed
      <4>4. b.foods <= b.lines + Tolerance /\ b.foods >= b.lines - Tolerance
        <5>1. /\ FoodTotal <= DetailPrice * cart.quantity + DetailToppings + Tolerance
              /\ FoodTotal >= DetailPrice * cart.quantity + DetailToppings - Tolerance
          BY <2>1, <4>1, <4>3, FormulasAgree
        <5>2. DetailPrice * cart.quantity \in Int /\ DetailToppings \in Int /\ Tolerance \in Int
          BY <2>1, <4>3, Amounts, ToppingNear
        <5> QED BY <3>1, <4>3, <5>1, <5>2
      <4>5. b.total = Clamped(b.foods + b.fee - b.off)
        BY <2>2 DEF Billed
      <4>6. Tolerance \in Int
        BY <2>1, <4>3, ToppingNear
      <4> QED BY <2>4, <3>1, <4>4, <4>5, <4>6 DEF Clamped
    <3> QED BY <3>2, <3>4, <3>5 DEF Bills
  <2>7. CASE request[k].kind = "order" /\ created' = created
    <3>1. UNCHANGED <<quote, created>>
      BY <2>2, <2>7 DEF Billed
    <3> QED BY <1>4, <3>1
  <2>8. CASE request[k].kind # "order"
    <3>1. quote' = b /\ created' = created /\ b.kind # "order" /\ b.writes = writes
          /\ b.foods = (IF b.kind = "custom" THEN CustomFoodTotal ELSE FoodTotal)
          /\ b.plain = (food.off = 0)
      BY <2>2, <2>8 DEF Billed
    <3>2. request[k].kind \in {"quote", "custom", "order"} /\ b.kind = request[k].kind
      BY <2>1, <2>2 DEF Handling, Billed
    <3>3. /\ quote'.done => Tells(quote)' /\ quote'.kind # "order"
          /\ created'.done => Tells(created)' /\ created'.kind = "order" /\ created'.off = 0
      BY <1>1, <1>2, <2>3, <3>1 DEF PriceInv, Bills
    <3>4. created.done /\ created.writes = writes => created.foods = FoodTotal
      BY DEF PriceInv, Bills, Tells
    <3>5. b.kind = "quote" \/ Named(b) => b.foods = FoodTotal
      BY <2>1, <3>1, <3>2, FormulasAgree DEF Named
    <3>6. quote'.done /\ created'.done /\ quote'.writes = created'.writes /\ Comparable'
             => quote'.foods = created'.foods
      BY <1>3, <3>1, <3>4, <3>5 DEF Comparable, Named
    <3>7. TotalMatchesDetails'
      BY <1>3, <3>1 DEF PriceInv, TotalMatchesDetails, Named, Tolerance
    <3> QED BY <3>3, <3>6, <3>7 DEF Bills
  <2> QED BY <2>2, <2>6, <2>7, <2>8 DEF Billed
<1> QED BY <1>4, <1>5, BillSteps

LEMMA PriceNext == Types /\ CacheInv /\ PriceInv /\ [PricingNext]_pricingVars => PriceInv'
  BY ChargingNext, OrderingNext, BillsNext DEF PriceInv

LEMMA PriceAlways == PricingSpec => []PriceInv
  BY PriceInit, PriceNext, TypesAlways, CacheAlways, PTL DEF PricingSpec

\* The lines an order stores (validateAndCalculateOrderDetails) and its fee make
\* up its total but for the tolerance of the topping and the clamp at 0
\* (TotalMatchesDetails), although total, lines and fee are computed from three
\* reads of the database, for any price, discount, topping and quantity.
THEOREM TotalMatchesDetailsCorrect == PricingSpec => []TotalMatchesDetails
  BY PriceAlways, PTL DEF PriceInv

\* What a customer was quoted is what his order costs (OrderAsQuoted), whichever
\* of the two quotations it was and whether its fee came from the cache or not.
THEOREM OrderAsQuotedCorrect == PricingSpec => []OrderAsQuoted
<1>1. Types /\ PriceInv => OrderAsQuoted
  <2> SUFFICES ASSUME Types, PriceInv, created.done, quote.done,
                      quote.writes = created.writes, Comparable
               PROVE  /\ quote.foods = created.foods
                      /\ quote.off = 0 /\ ~failed /\ quote.d = created.d
                           /\ (\A t \in DOMAIN was : was[t] \subseteq {None, fees})
                           => quote.total = created.total
    BY DEF OrderAsQuoted, Comparable
  <2>1. quote.foods = created.foods /\ Tells(quote) /\ Tells(created) /\ created.off = 0
    BY DEF PriceInv, Bills
  <2>2. ASSUME quote.off = 0, ~failed, quote.d = created.d,
               \A t \in DOMAIN was : was[t] \subseteq {None, fees}
        PROVE  quote.total = created.total
    <3>1. ASSUME NEW c \in FeeTables, Known(c, 0) PROVE c = fees
      <4>1. PICK t \in (0 + 1)..(now + 1) : c \in was[t]
        BY <3>1 DEF Known
      <4>2. t \in DOMAIN was
        BY DEF Types, Clock
      <4> QED BY <2>2, <4>1, <4>2, Parameters
    <3>2. \A fee, d : Tabled(fee, d) => fee = Fee(fees, d) * Unit
      BY <3>1 DEF Tabled
    <3>3. quote.fee = created.fee
      BY <2>1, <2>2, <3>2 DEF Tells
    <3> QED BY <2>1, <2>2, <3>3 DEF Tells
  <2> QED BY <2>1, <2>2
<1> QED BY <1>1, TypesAlways, PriceAlways, PTL
=============================================================================

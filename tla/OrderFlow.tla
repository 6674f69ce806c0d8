----------------------------- MODULE OrderFlow -----------------------------
(***************************************************************************)
(* The rows `orders` and `shippingDetails` and every request or cron job   *)
(* of the cash-on-delivery flow that writes them:                          *)
(*   OrderController.updateOrderStatus   (restaurant)                      *)
(*   ShipperService.assignOrderToShipper (accept-order)                    *)
(*   ShipperService.rejectOrder, getOrder, markOrderCompleted, cancelOrder *)
(*   OrderService.autoCancelUnassignedOrders (cron)                        *)
(*                                                                         *)
(* The server is one Node.js process: a handler runs alone up to its next  *)
(* await, so one action is the code between two awaits that other handlers *)
(* can be told apart by.  A handler keeps the entity it read in its slot   *)
(* and save() later writes the whole entity over the row: every stage      *)
(* below that saves writes what was READ, not what the row holds now.      *)
(***************************************************************************)
EXTENDS OrderStatus, Naturals

CONSTANTS Orders,       \* order ids
          Shippers,     \* ids of approved shippers
          Assignments,  \* ids of pending_shipper_assignments rows
          Slots,        \* handlers that may be in progress at once
          MaxCrashes,   \* bound: how often the server process may stop
          InitStatuses, \* statuses an order may start with
          Nil           \* the absent value

ASSUME FlowAssumption ==
    /\ Nil \notin Orders \cup Shippers \cup Assignments
    /\ InitStatuses \subseteq Status \ {"shipper_received"}
    /\ MaxCrashes \in Nat

VARIABLES
    status,   \* orders.status
    link,     \* orders.shippingDetail_id is not NULL
    detail,   \* shippingDetails.user_id of the row with this order_id, or Nil
    dstat,    \* shippingDetails.status of that row, "NONE" without a row
    told,     \* shippers whose accept-order call returned the shipping detail
    slot,     \* the handlers in progress
    crashes   \* how often the server has stopped

rows == <<status, link, detail, dstat>>
flowVars == <<status, link, detail, dstat, told, slot, crashes>>

DetailStatus == {"NONE", "SHIPPING", "COMPLETED"}

Stages == {"idle", "update_load", "update_save", "add_find", "add_validate",
           "add_insert", "remove_rows", "assign_insert", "assign_save",
           "assign_remove", "reject_save", "reject_reset", "pickup_detail",
           "complete_order", "complete_load", "complete_save",
           "complete_earnings", "cancel_save", "auto_check", "auto_save",
           "auto_remove"}

\* What a handler holds across its awaits: the order, the shipper or the
\* assignment it works for, the status it read or will write, whether the
\* controller's first read (previousStatus) found the order confirmed, and the
\* shippingDetail relation as it was loaded.
Slot == [pc : Stages, o : Orders \cup {Nil}, s : Shippers \cup {Nil},
         a : Assignments \cup {Nil}, st : Status, was : BOOLEAN,
         sd : BOOLEAN, dst : DetailStatus]

Idle == [pc |-> "idle", o |-> Nil, s |-> Nil, a |-> Nil, st |-> "pending",
         was |-> FALSE, sd |-> FALSE, dst |-> "NONE"]

FlowTypeOK ==
    /\ status \in [Orders -> Status]
    /\ link \in [Orders -> BOOLEAN]
    /\ detail \in [Orders -> Shippers \cup {Nil}]
    /\ dstat \in [Orders -> DetailStatus]
    /\ told \in [Orders -> SUBSET Shippers]
    /\ slot \in [Slots -> Slot]
    /\ \A k \in Slots : slot[k].pc # "idle" => slot[k].o \in Orders
    /\ crashes \in 0..MaxCrashes

FlowInit ==
    /\ status \in [Orders -> InitStatuses]
    /\ link = [o \in Orders |-> FALSE]
    /\ detail = [o \in Orders |-> Nil]
    /\ dstat = [o \in Orders |-> "NONE"]
    /\ told = [o \in Orders |-> {}]
    /\ slot = [k \in Slots |-> Idle]
    /\ crashes = 0

-----------------------------------------------------------------------------
\* Begin a handler in a free slot, move it on (dropping the entity it has no
\* more use for), end it.
Begin(k, req) == slot[k].pc = "idle" /\ slot' = [slot EXCEPT ![k] = req]
Goto(k, pc)   == slot' = [slot EXCEPT ![k] = [Idle EXCEPT !.pc = pc,
                              !.o = slot[k].o, !.s = slot[k].s, !.a = slot[k].a]]
End(k)        == slot' = [slot EXCEPT ![k] = Idle]
At(k, pc)     == slot[k].pc = pc

\* orderRepository.save(order) with the shippingDetail relation loaded: all
\* columns of the entity go to the row, a null relation clears the foreign
\* key, and a loaded shipping detail is saved with it (cascade).
SaveOrder(o, st, sd, dst) ==
    /\ status' = [status EXCEPT ![o] = st]
    /\ link' = [link EXCEPT ![o] = sd]
    /\ dstat' = IF sd THEN [dstat EXCEPT ![o] = dst] ELSE dstat
    /\ UNCHANGED <<detail, told, crashes>>

\* The same save when the relation was not loaded (undefined): the foreign key
\* keeps its value.
SaveStatus(o, st) ==
    /\ status' = [status EXCEPT ![o] = st]
    /\ UNCHANGED <<link, detail, dstat, told, crashes>>

-----------------------------------------------------------------------------
(***************************************************************************)
(* PUT /orders/:id/status.  The controller reads the order once for        *)
(* previousStatus and the service reads it again.                          *)
(***************************************************************************)
UpdateRequest(k, o, target) ==
    /\ Begin(k, [Idle EXCEPT !.pc = "update_load", !.o = o, !.st = target,
                             !.was = status[o] = "confirmed"])
    /\ UNCHANGED <<rows, told, crashes>>

\* OrderService.updateOrderStatus up to save: getOrderById finds the shipping
\* detail by order_id when the relation is null, so the relation is loaded
\* whenever the detail row exists.
UpdateLoad(k) ==
    LET o == slot[k].o IN
    /\ At(k, "update_load")
    /\ IF CanChange(status[o], slot[k].st)
         THEN slot' = [slot EXCEPT ![k].pc = "update_save",
                                   ![k].sd = detail[o] # Nil,
                                   ![k].dst = dstat[o]]
         ELSE End(k)
    /\ UNCHANGED <<rows, told, crashes>>

\* What the controller does once the status is written.
AfterUpdate(req) ==
    IF req.st = "confirmed" /\ ~req.was /\ ~req.sd
      THEN "add_find"
      ELSE IF req.was /\ req.st # "confirmed"
             THEN "remove_rows" ELSE "idle"

UpdateSave(k) ==
    /\ At(k, "update_save")
    /\ SaveOrder(slot[k].o, slot[k].st, slot[k].sd, slot[k].dst)
    /\ IF AfterUpdate(slot[k]) = "idle" THEN End(k) ELSE Goto(k, AfterUpdate(slot[k]))

\* addPendingAssignment looks for an assignment of the order: with one the
\* handler is done, without one it goes on.
AddFind(k, found) ==
    /\ At(k, "add_find")
    /\ IF found THEN End(k) ELSE Goto(k, "add_validate")
    /\ UNCHANGED <<rows, told, crashes>>

\* validateOrderForAssignment reads the order once more.
AddValidate(k) ==
    /\ At(k, "add_validate")
    /\ IF status[slot[k].o] = "confirmed" /\ ~link[slot[k].o]
         THEN Goto(k, "add_insert") ELSE End(k)
    /\ UNCHANGED <<rows, told, crashes>>

AddInsert(k) == At(k, "add_insert") /\ End(k) /\ UNCHANGED <<rows, told, crashes>>

RemoveRows(k) == At(k, "remove_rows") /\ End(k) /\ UNCHANGED <<rows, told, crashes>>

-----------------------------------------------------------------------------
(***************************************************************************)
(* POST /shippers/accept-order.  The order must be confirmed and           *)
(* unassigned when it is READ.  shippingDetails.order_id is UNIQUE, so the *)
(* insert of a second detail fails and the handler with it.                *)
(***************************************************************************)
AssignRead(k, o, s) ==
    /\ status[o] = "confirmed"
    /\ ~link[o]
    /\ Begin(k, [Idle EXCEPT !.pc = "assign_insert", !.o = o, !.s = s])
    /\ UNCHANGED <<rows, told, crashes>>

\* Variants of the insert with a defect: no unique index on order_id; the
\* violation swallowed like the errors of the later delete; status not set.
AssignInsert_NoUniqueIndex(k) ==
    LET o == slot[k].o IN
    /\ At(k, "assign_insert")
    /\ detail' = [detail EXCEPT ![o] = slot[k].s]
    /\ dstat' = [dstat EXCEPT ![o] = "SHIPPING"]
    /\ Goto(k, "assign_save")
    /\ UNCHANGED <<status, link, told, crashes>>

AssignInsert_ConflictSwallowed(k) ==
    LET o == slot[k].o IN
    /\ At(k, "assign_insert")
    /\ IF detail[o] = Nil
         THEN /\ detail' = [detail EXCEPT ![o] = slot[k].s]
              /\ dstat' = [dstat EXCEPT ![o] = "SHIPPING"]
         ELSE UNCHANGED <<detail, dstat>>
    /\ Goto(k, "assign_save")
    /\ UNCHANGED <<status, link, told, crashes>>

AssignInsert_NoStatus(k) ==
    LET o == slot[k].o IN
    /\ At(k, "assign_insert")
    /\ IF detail[o] = Nil
         THEN detail' = [detail EXCEPT ![o] = slot[k].s] /\ Goto(k, "assign_save")
         ELSE End(k) /\ UNCHANGED detail
    /\ UNCHANGED <<status, link, dstat, told, crashes>>

AssignInsert(k) ==
    LET o == slot[k].o IN
    /\ At(k, "assign_insert")
    /\ IF detail[o] = Nil
         THEN /\ detail' = [detail EXCEPT ![o] = slot[k].s]
              /\ dstat' = [dstat EXCEPT ![o] = "SHIPPING"]
              /\ Goto(k, "assign_save")
         ELSE End(k) /\ UNCHANGED <<detail, dstat>>
    /\ UNCHANGED <<status, link, told, crashes>>

\* A defect: a status that is not in the database enum.
AssignSave_NotInEnum(k) ==
    /\ At(k, "assign_save")
    /\ SaveOrder(slot[k].o, "received", FALSE, "NONE")
    /\ Goto(k, "assign_remove")

AssignSave(k) ==
    /\ At(k, "assign_save")
    /\ SaveOrder(slot[k].o, "shipper_received", FALSE, "NONE")
    /\ Goto(k, "assign_remove")

\* The assignments of the order are deleted and the call returns the detail.
AssignRemove(k) ==
    /\ At(k, "assign_remove")
    /\ told' = [told EXCEPT ![slot[k].o] = @ \cup {slot[k].s}]
    /\ End(k)
    /\ UNCHANGED <<rows, crashes>>

-----------------------------------------------------------------------------
(***************************************************************************)
(* POST /shippers/reject-order saves the order exactly as it read it.      *)
(* Nothing relates the caller to the order: any shipper may reject any.    *)
(***************************************************************************)
RejectRead(k, o) ==
    /\ Begin(k, [Idle EXCEPT !.pc = "reject_save", !.o = o, !.st = status[o],
                             !.sd = link[o], !.dst = IF link[o] THEN dstat[o] ELSE "NONE"])
    /\ UNCHANGED <<rows, told, crashes>>

RejectSave(k) ==
    /\ At(k, "reject_save")
    /\ SaveOrder(slot[k].o, slot[k].st, slot[k].sd, slot[k].dst)
    /\ Goto(k, "reject_reset")

RejectReset(k) == At(k, "reject_reset") /\ End(k) /\ UNCHANGED <<rows, told, crashes>>

-----------------------------------------------------------------------------
(***************************************************************************)
(* POST /shippers/get-order and complete-order find the detail by order    *)
(* and shipper and look at no status.  The read of the order and its save  *)
(* are one action: both write the status whatever was read and do not load *)
(* the shippingDetail relation.                                            *)
(***************************************************************************)
\* A defect: the detail is looked up by order alone.
PickUp_AnyShipper(k, o, s) ==
    /\ detail[o] # Nil
    /\ Begin(k, [Idle EXCEPT !.pc = "pickup_detail", !.o = o, !.s = s])
    /\ SaveStatus(o, "delivering")

PickUp(k, o, s) ==
    /\ detail[o] = s
    /\ Begin(k, [Idle EXCEPT !.pc = "pickup_detail", !.o = o, !.s = s])
    /\ SaveStatus(o, "delivering")

PickUpDetail(k) ==
    /\ At(k, "pickup_detail")
    /\ dstat' = [dstat EXCEPT ![slot[k].o] = "SHIPPING"]
    /\ End(k)
    /\ UNCHANGED <<status, link, detail, told, crashes>>

CompleteDetail(k, o, s) ==
    /\ detail[o] = s
    /\ dstat' = [dstat EXCEPT ![o] = "COMPLETED"]
    /\ Begin(k, [Idle EXCEPT !.pc = "complete_order", !.o = o, !.s = s])
    /\ UNCHANGED <<status, link, detail, told, crashes>>

CompleteOrder(k) ==
    /\ At(k, "complete_order")
    /\ SaveStatus(slot[k].o, "completed")
    /\ Goto(k, "complete_load")

\* markOrderCompleted then calls updateOrderStatus(orderId, 'completed').
CompleteLoad(k) ==
    LET o == slot[k].o IN
    /\ At(k, "complete_load")
    /\ IF CanChange(status[o], "completed")
         THEN slot' = [slot EXCEPT ![k].pc = "complete_save",
                                   ![k].sd = detail[o] # Nil,
                                   ![k].dst = dstat[o]]
         ELSE End(k)
    /\ UNCHANGED <<rows, told, crashes>>

CompleteSave(k) ==
    /\ At(k, "complete_save")
    /\ SaveOrder(slot[k].o, "completed", slot[k].sd, slot[k].dst)
    /\ Goto(k, "complete_earnings")

\* The order read before updateOrderStatus is saved again when its earnings
\* were not set.
CompleteEarnings(k) ==
    /\ At(k, "complete_earnings")
    /\ \/ SaveStatus(slot[k].o, "completed")
       \/ UNCHANGED <<rows, told, crashes>>
    /\ End(k)

\* POST /shippers/cancel-order: order.shippingDetail.shipper is read through
\* the relation, which throws (and changes nothing) when link is FALSE.
CancelRead(k, o, s) ==
    /\ status[o] = "delivering"
    /\ link[o]
    /\ detail[o] = s
    /\ Begin(k, [Idle EXCEPT !.pc = "cancel_save", !.o = o, !.s = s,
                             !.sd = TRUE, !.dst = dstat[o]])
    /\ UNCHANGED <<rows, told, crashes>>

CancelSave(k) ==
    /\ At(k, "cancel_save")
    /\ SaveOrder(slot[k].o, "canceled", slot[k].sd, slot[k].dst)
    /\ End(k)

-----------------------------------------------------------------------------
(***************************************************************************)
(* OrderService.autoCancelUnassignedOrders: the list holds the order of    *)
(* each expired assignment as it was when the list was read; before the    *)
(* order is cancelled only the relation is read again.                     *)
(***************************************************************************)
AutoCancelList(k, o, a) ==
    /\ status[o] = "confirmed"
    /\ Begin(k, [Idle EXCEPT !.pc = "auto_check", !.o = o, !.a = a,
                             !.sd = link[o], !.dst = IF link[o] THEN dstat[o] ELSE "NONE"])
    /\ UNCHANGED <<rows, told, crashes>>

AutoCancelCheck(k) ==
    /\ At(k, "auto_check")
    /\ IF link[slot[k].o] THEN End(k)
                           ELSE slot' = [slot EXCEPT ![k].pc = "auto_save"]
    /\ UNCHANGED <<rows, told, crashes>>

AutoCancelSave(k) ==
    /\ At(k, "auto_save")
    /\ SaveOrder(slot[k].o, "canceled", slot[k].sd, slot[k].dst)
    /\ Goto(k, "auto_remove")

AutoCancelRemove(k) == At(k, "auto_remove") /\ End(k) /\ UNCHANGED <<rows, told, crashes>>

-----------------------------------------------------------------------------
\* A new request or cron tick.
FlowBegin(k) ==
    \E o \in Orders :
        \/ \E target \in AllowedStatuses : UpdateRequest(k, o, target)
        \/ RejectRead(k, o)
        \/ \E a \in Assignments : AutoCancelList(k, o, a)
        \/ \E s \in Shippers :
            \/ AssignRead(k, o, s)
            \/ PickUp(k, o, s)
            \/ CompleteDetail(k, o, s)
            \/ CancelRead(k, o, s)

\* A handler goes on after an await.
FlowStep(k) ==
    \/ UpdateLoad(k) \/ UpdateSave(k)
    \/ \E found \in BOOLEAN : AddFind(k, found)
    \/ AddValidate(k) \/ AddInsert(k) \/ RemoveRows(k)
    \/ AssignInsert(k) \/ AssignSave(k) \/ AssignRemove(k)
    \/ RejectSave(k) \/ RejectReset(k)
    \/ PickUpDetail(k)
    \/ CompleteOrder(k) \/ CompleteLoad(k) \/ CompleteSave(k) \/ CompleteEarnings(k)
    \/ CancelSave(k)
    \/ AutoCancelCheck(k) \/ AutoCancelSave(k) \/ AutoCancelRemove(k)

\* The server process stops and starts again: its handlers are gone.
Crash == /\ crashes < MaxCrashes
         /\ crashes' = crashes + 1
         /\ slot' = [k \in Slots |-> Idle]
         /\ UNCHANGED <<rows, told>>

FlowNext == Crash \/ \E k \in Slots : FlowBegin(k) \/ FlowStep(k)

FlowSpec == FlowInit /\ [][FlowNext]_flowVars

-----------------------------------------------------------------------------
(***************************************************************************)
(* Properties.                                                             *)
(***************************************************************************)

\* Stages reached only by the shipper an order is assigned to.
Owning == {"assign_save", "assign_remove", "pickup_detail", "complete_order",
           "complete_load", "complete_save", "complete_earnings", "cancel_save"}

\* No two shippers are told that the same order is theirs: a shipper whose
\* accept-order call returned a shipping detail is the one in the table.
WinnerIsAssigned == \A o \in Orders : told[o] \subseteq {detail[o]}

\* A handler past the point where it acts for a shipper (the accept after its
\* insert, pick-up, completion, cancellation) acts for the assigned shipper.
ActingShipperIsAssigned ==
    \A k \in Slots : slot[k].pc \in Owning => detail[slot[k].o] = slot[k].s

\* An order shown to its customer as received by a shipper has one, whatever
\* stale entity was saved last.
ReceivedHasShipper ==
    \A o \in Orders : status[o] = "shipper_received" => detail[o] # Nil

\* The foreign key orders.shippingDetail_id only ever refers to a detail that
\* exists, and a cascaded save never empties the status of a detail.
DetailConsistent ==
    \A o \in Orders : /\ link[o] => detail[o] # Nil
                      /\ dstat[o] = "NONE" <=> detail[o] = Nil

\* The tables implement the abstract contract: claims are exclusive, replies go
\* to the claimant, and "received" is only shown for a claimed order, in every
\* interleaving of the handlers and across crashes.
Contract == INSTANCE Delivery WITH
                owner <- detail, won <- told,
                received <- [o \in Orders |-> status[o] = "shipper_received"]
ImplementsDelivery == Contract!Spec

\* autoCancelUnassignedOrders says it double-checks that the order is still
\* confirmed and unassigned before it cancels it.
AutoCancelOnlyUnassigned ==
    [][\A k \in Slots : AutoCancelSave(k) =>
         status[slot[k].o] = "confirmed" /\ detail[slot[k].o] = Nil]_flowVars
=============================================================================

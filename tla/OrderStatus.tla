---------------------------- MODULE OrderStatus ----------------------------
(***************************************************************************)
(* The order statuses and the tables of src/src/modules/order that decide  *)
(* which of them a request may write.                                      *)
(***************************************************************************)

\* The values of the database enum behind Order.status.
Status == {"pending", "confirmed", "delivering", "shipper_received",
           "completed", "canceled", "processing_payment"}

\* What PUT /orders/:id/status lets a restaurant ask for.
AllowedStatuses == {"confirmed", "delivering", "shipper_received",
                    "completed", "canceled"}

\* A defect: the service accepts every status the controller and the enum know.
ValidStatuses_All == Status

\* What OrderService.updateOrderStatus accepts at all.  It lacks
\* "shipper_received", which the controller allows.
ValidStatuses == Status \ {"shipper_received"}

\* The statuses that have an entry in validTransitions.
Guarded == {"pending", "confirmed", "delivering", "processing_payment"}

ValidTransitions ==
    [st \in Guarded |->
        CASE st = "pending"    -> {"confirmed", "canceled"}
          [] st = "confirmed"  -> {"delivering", "canceled"}
          [] st = "delivering" -> {"completed", "canceled"}
          [] OTHER             -> {"pending", "canceled"}]

\* The check of updateOrderStatus.  A status without an entry in
\* validTransitions (completed, canceled, shipper_received) may be changed to
\* every valid status: the code tests `validTransitions[currentStatus] &&`.
CanChange(cur, new) ==
    /\ new \in ValidStatuses
    /\ cur \in Guarded => new \in ValidTransitions[cur]
=============================================================================

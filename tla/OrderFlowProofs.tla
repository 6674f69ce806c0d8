-------------------------- MODULE OrderFlowProofs --------------------------
(***************************************************************************)
(* OrderFlow for every set of orders, shippers, handlers and crashes: the  *)
(* type invariant, the safety invariants and the contract of Delivery.     *)
(***************************************************************************)
EXTENDS OrderFlow, TLAPS

\* The stages whose handler may write the entity it holds.
Saving == Stages \ {"idle", "update_load"}

\* What is true of the record of a handler: acting stages are reached for the
\* assigned shipper only; a shipping detail held is that of a row, with its
\* status; a status "shipper_received" held was read from an order with a
\* shipper (an update asking for it never gets past its check).
Justified(r) ==
    /\ r.pc # "idle" => r.o \in Orders
    /\ r.pc \in Owning \cup {"assign_insert"} => r.s \in Shippers
    /\ r.pc \in Owning => detail[r.o] = r.s
    /\ r.pc \in Saving /\ r.sd => detail[r.o] # Nil /\ r.dst # "NONE"
    /\ r.pc \in Saving /\ r.st = "shipper_received" => detail[r.o] # Nil

RowsOK == DetailConsistent /\ WinnerIsAssigned /\ ReceivedHasShipper

FlowInv == FlowTypeOK /\ RowsOK /\ \A k \in Slots : Justified(slot[k])

\* Shipping details are inserted and never given to another shipper.
Grows == \A o \in Orders : detail[o] # Nil => detail'[o] = detail[o]

LEMMA IdleJustified == Idle \in Slot /\ Justified(Idle) /\ Justified(Idle)'
  BY DEF Idle, Slot, Stages, Status, DetailStatus, Justified, Owning, Saving

LEMMA InitInv == FlowInit => FlowInv
<1> SUFFICES ASSUME FlowInit PROVE FlowInv
  OBVIOUS
<1>1. FlowTypeOK
  <2>1. status \in [Orders -> Status]
    BY FlowAssumption DEF FlowInit
  <2>2. slot \in [Slots -> Slot] /\ \A k \in Slots : slot[k].pc = "idle"
    BY IdleJustified DEF FlowInit, Idle
  <2>3. crashes \in 0..MaxCrashes
    BY FlowAssumption DEF FlowInit
  <2> QED BY <2>1, <2>2, <2>3 DEF FlowInit, FlowTypeOK, DetailStatus
<1>2. RowsOK
  BY FlowAssumption DEF FlowInit, RowsOK, DetailConsistent, WinnerIsAssigned,
                        ReceivedHasShipper, Status
<1>3. ASSUME NEW k \in Slots PROVE Justified(slot[k])
  BY IdleJustified DEF FlowInit
<1> QED BY <1>1, <1>2, <1>3 DEF FlowInv

\* The records of the other handlers need no attention in a step of one.
LEMMA OneSlot ==
  ASSUME FlowInv, Grows, NEW k \in Slots, NEW r \in Slot, Justified(r)',
         slot' = [slot EXCEPT ![k] = r]
  PROVE  /\ slot' \in [Slots -> Slot]
         /\ \A j \in Slots : Justified(slot[j])'
<1>1. slot \in [Slots -> Slot]
  BY DEF FlowInv, FlowTypeOK
<1>2. ASSUME NEW j \in Slots PROVE Justified(slot[j])'
  <2>1. CASE j = k
    <3>1. slot'[j] = r
      BY <1>1, <2>1
    <3> QED BY <3>1 DEF Justified
  <2>2. CASE j # k
    <3>1. slot'[j] = slot[j] /\ slot[j] \in Slot /\ Justified(slot[j])
      BY <1>1, <2>2 DEF FlowInv
    <3> QED BY <3>1, FlowAssumption
            DEF FlowInv, FlowTypeOK, Grows, Justified, Owning, Saving, Slot
  <2> QED BY <2>1, <2>2
<1> QED BY <1>1, <1>2

\* A step of one handler that keeps the rows correct preserves the invariant.
LEMMA StepInv ==
  ASSUME FlowInv, Grows, NEW k \in Slots, NEW r \in Slot, Justified(r)',
         slot' = [slot EXCEPT ![k] = r], UNCHANGED crashes,
         status' \in [Orders -> Status], link' \in [Orders -> BOOLEAN],
         detail' \in [Orders -> Shippers \cup {Nil}],
         dstat' \in [Orders -> DetailStatus],
         told' \in [Orders -> SUBSET Shippers], RowsOK'
  PROVE  FlowInv'
<1>1. /\ slot' \in [Slots -> Slot]
      /\ \A j \in Slots : Justified(slot[j])'
  BY OneSlot
<1>2. FlowTypeOK'
  BY <1>1 DEF FlowInv, FlowTypeOK, Justified
<1> QED BY <1>1, <1>2 DEF FlowInv

\* A step that leaves the rows alone only has to justify its own record.
LEMMA QuietStep ==
  ASSUME FlowInv, NEW k \in Slots, NEW r \in Slot, Justified(r),
         slot' = [slot EXCEPT ![k] = r], UNCHANGED <<rows, told, crashes>>
  PROVE  FlowInv'
<1>1. Grows /\ RowsOK' /\ Justified(r)'
  BY DEF FlowInv, FlowTypeOK, Grows, rows, RowsOK, DetailConsistent,
         WinnerIsAssigned, ReceivedHasShipper, Justified
<1> QED BY <1>1, StepInv DEF rows, FlowInv, FlowTypeOK

\* The record a handler keeps when it moves on, and the idle record.
Kept(k, pc) == [Idle EXCEPT !.pc = pc, !.o = slot[k].o, !.s = slot[k].s,
                            !.a = slot[k].a]

LEMMA KeptJustified ==
  ASSUME FlowInv, NEW k \in Slots, slot[k].pc # "idle",
         NEW pc \in Stages, pc \notin Owning \cup {"assign_insert"}
  PROVE  Kept(k, pc) \in Slot /\ Justified(Kept(k, pc))
<1>1. slot[k] \in Slot /\ slot[k].o \in Orders
  BY DEF FlowInv, FlowTypeOK
<1>2. Kept(k, pc) \in Slot
  BY <1>1 DEF Kept, Slot, Idle, Status, DetailStatus
<1>3. Justified(Kept(k, pc))
  BY <1>1 DEF Kept, Justified, Idle, Saving
<1> QED BY <1>2, <1>3

LEMMA EndQuiet ==
  ASSUME FlowInv, NEW k \in Slots, End(k), UNCHANGED <<rows, told, crashes>>
  PROVE  FlowInv'
  BY IdleJustified, QuietStep DEF End

\* Moving on to a stage that holds no entity and acts for nobody new.
LEMMA GotoQuiet ==
  ASSUME FlowInv, NEW k \in Slots, slot[k].pc # "idle",
         NEW pc \in Stages, pc \notin Owning \cup {"assign_insert"},
         Goto(k, pc), UNCHANGED <<rows, told, crashes>>
  PROVE  FlowInv'
<1>1. slot' = [slot EXCEPT ![k] = Kept(k, pc)]
  BY DEF Goto, Kept
<1> QED BY <1>1, KeptJustified, QuietStep

-----------------------------------------------------------------------------
\* What the two kinds of save leave of the rows.
RowsTyped == /\ status \in [Orders -> Status]
             /\ link \in [Orders -> BOOLEAN]
             /\ detail \in [Orders -> Shippers \cup {Nil}]
             /\ dstat \in [Orders -> DetailStatus]
             /\ told \in [Orders -> SUBSET Shippers]

LEMMA SaveOrderRows ==
  ASSUME FlowInv, NEW o \in Orders, NEW st \in Status, NEW sd \in BOOLEAN,
         NEW dst \in DetailStatus, SaveOrder(o, st, sd, dst),
         sd => detail[o] # Nil /\ dst # "NONE",
         st = "shipper_received" => detail[o] # Nil
  PROVE  RowsTyped' /\ RowsOK' /\ Grows /\ UNCHANGED crashes
<1>1. RowsTyped' /\ Grows /\ UNCHANGED <<detail, told, crashes>>
  BY DEF SaveOrder, FlowInv, FlowTypeOK, RowsTyped, Grows
<1>2. DetailConsistent'
  BY DEF SaveOrder, FlowInv, FlowTypeOK, RowsOK, DetailConsistent
<1>3. WinnerIsAssigned'
  BY <1>1 DEF FlowInv, RowsOK, WinnerIsAssigned
<1>4. ReceivedHasShipper'
  BY DEF SaveOrder, FlowInv, FlowTypeOK, RowsOK, ReceivedHasShipper
<1> QED BY <1>1, <1>2, <1>3, <1>4 DEF RowsOK

LEMMA SaveStatusRows ==
  ASSUME FlowInv, NEW o \in Orders, NEW st \in Status \ {"shipper_received"},
         SaveStatus(o, st)
  PROVE  RowsTyped' /\ RowsOK' /\ Grows /\ UNCHANGED crashes
<1>1. RowsTyped' /\ Grows /\ UNCHANGED <<link, detail, dstat, told, crashes>>
  BY DEF SaveStatus, FlowInv, FlowTypeOK, RowsTyped, Grows
<1>2. DetailConsistent' /\ WinnerIsAssigned'
  BY <1>1 DEF FlowInv, RowsOK, DetailConsistent, WinnerIsAssigned
<1>3. ReceivedHasShipper'
  BY DEF SaveStatus, FlowInv, FlowTypeOK, RowsOK, ReceivedHasShipper
<1> QED BY <1>1, <1>2, <1>3 DEF RowsOK

\* A save followed by the end of the handler, or by a stage without an entity.
LEMMA SaveThenEnd ==
  ASSUME FlowInv, NEW k \in Slots, RowsTyped', RowsOK', Grows,
         UNCHANGED crashes, End(k)
  PROVE  FlowInv'
  BY IdleJustified, StepInv DEF End, RowsTyped

LEMMA SaveThenGoto ==
  ASSUME FlowInv, NEW k \in Slots, RowsTyped', RowsOK', Grows,
         UNCHANGED crashes, NEW pc \in Stages, slot[k].pc # "idle",
         pc \in Owning => slot[k].pc \in Owning, pc # "assign_insert",
         Goto(k, pc)
  PROVE  FlowInv'
<1>1. slot[k] \in Slot /\ slot[k].o \in Orders /\ Justified(slot[k])
  BY DEF FlowInv, FlowTypeOK
<1>2. Kept(k, pc) \in Slot
  BY <1>1 DEF Kept, Slot, Idle, Status, DetailStatus
<1>r. PICK r \in Slot : r = Kept(k, pc)
  BY <1>2
<1>3. Justified(r)'
  <2>1. r.pc = pc /\ r.o = slot[k].o /\ r.s = slot[k].s /\ ~r.sd /\ r.st = "pending"
    BY <1>r DEF Kept, Idle
  <2>2. pc \in Owning => slot[k].s \in Shippers /\ detail[slot[k].o] = slot[k].s
    BY <1>1 DEF Justified
  <2>3. pc \in Owning => detail'[slot[k].o] = slot[k].s
    BY <2>2, <1>1, FlowAssumption DEF Grows
  <2> QED BY <2>1, <2>2, <2>3, <1>1 DEF Justified
<1>4. slot' = [slot EXCEPT ![k] = r]
  BY <1>r DEF Goto, Kept
<1> QED BY <1>3, <1>4, StepInv DEF RowsTyped

-----------------------------------------------------------------------------
(***************************************************************************)
(* One lemma per group of actions.                                         *)
(***************************************************************************)
LEMMA UpdateInv ==
  ASSUME FlowInv, NEW k \in Slots
  PROVE  /\ \A o \in Orders, target \in AllowedStatuses :
               UpdateRequest(k, o, target) => FlowInv'
         /\ UpdateLoad(k) => FlowInv'
         /\ UpdateSave(k) => FlowInv'
<1>1. ASSUME NEW o \in Orders, NEW target \in AllowedStatuses,
             UpdateRequest(k, o, target)
      PROVE  FlowInv'
  <2>1. PICK r \in Slot : r = [Idle EXCEPT !.pc = "update_load", !.o = o,
                                 !.st = target, !.was = status[o] = "confirmed"]
    <3>1. target \in Status
      BY DEF Status, AllowedStatuses
    <3>2. PICK b \in BOOLEAN : b = (status[o] = "confirmed")
      OBVIOUS
    <3>3. [Idle EXCEPT !.pc = "update_load", !.o = o, !.st = target, !.was = b] \in Slot
      BY <3>1 DEF Slot, Idle, Stages, Status, DetailStatus
    <3> QED BY <3>2, <3>3
  <2>2. Justified(r)
    BY <2>1 DEF Justified, Idle, Owning, Saving
  <2> QED BY <1>1, <2>1, <2>2, QuietStep DEF UpdateRequest, Begin
<1>2. ASSUME UpdateLoad(k) PROVE FlowInv'
  <2>1. slot[k] \in Slot /\ slot[k].o \in Orders /\ slot[k].pc = "update_load"
    BY <1>2 DEF UpdateLoad, At, FlowInv, FlowTypeOK
  <2>2. CASE CanChange(status[slot[k].o], slot[k].st)
    <3>1. PICK r \in Slot : r = [slot[k] EXCEPT !.pc = "update_save",
                         !.sd = detail[slot[k].o] # Nil, !.dst = dstat[slot[k].o]]
      BY <2>1 DEF Slot, Stages, FlowInv, FlowTypeOK
    <3>2. r.pc = "update_save" /\ r.o = slot[k].o /\ r.st = slot[k].st
          /\ r.sd = (detail[r.o] # Nil) /\ r.dst = dstat[r.o]
      BY <3>1, <2>1 DEF Slot
    <3>3. r.st # "shipper_received"
      BY <2>2, <3>2 DEF CanChange, ValidStatuses
    <3>4. Justified(r)
      BY <3>2, <3>3, <2>1 DEF Justified, Owning, FlowInv, RowsOK, DetailConsistent
    <3>5. slot' = [slot EXCEPT ![k] = r]
      BY <1>2, <2>2, <3>1, <2>1 DEF UpdateLoad, FlowInv, FlowTypeOK
    <3> QED BY <1>2, <3>4, <3>5, QuietStep DEF UpdateLoad
  <2>3. CASE ~CanChange(status[slot[k].o], slot[k].st)
    BY <1>2, <2>3, EndQuiet DEF UpdateLoad
  <2> QED BY <2>2, <2>3
<1>3. ASSUME UpdateSave(k) PROVE FlowInv'
  <2>1. /\ slot[k] \in Slot /\ slot[k].o \in Orders
        /\ Justified(slot[k]) /\ slot[k].pc = "update_save"
    BY <1>3 DEF UpdateSave, At, FlowInv, FlowTypeOK
  <2>2. /\ slot[k].sd => detail[slot[k].o] # Nil /\ slot[k].dst # "NONE"
        /\ slot[k].st = "shipper_received" => detail[slot[k].o] # Nil
        /\ slot[k].st \in Status /\ slot[k].sd \in BOOLEAN
        /\ slot[k].dst \in DetailStatus
    BY <2>1 DEF Justified, Saving, Stages, Slot
  <2>3. RowsTyped' /\ RowsOK' /\ Grows /\ UNCHANGED crashes
    BY <1>3, <2>1, <2>2, SaveOrderRows DEF UpdateSave
  <2>4. CASE AfterUpdate(slot[k]) = "idle"
    BY <1>3, <2>3, <2>4, SaveThenEnd DEF UpdateSave
  <2>5. CASE AfterUpdate(slot[k]) # "idle"
    <3>1. AfterUpdate(slot[k]) \in {"add_find", "remove_rows"}
      BY <2>5 DEF AfterUpdate
    <3>2. PICK pc \in {"add_find", "remove_rows"} : Goto(k, pc)
      BY <1>3, <2>5, <3>1 DEF UpdateSave
    <3> QED BY <2>1, <2>3, <3>2, SaveThenGoto DEF Stages, Owning
  <2> QED BY <2>4, <2>5
<1> QED BY <1>1, <1>2, <1>3

LEMMA AddInv ==
  ASSUME FlowInv, NEW k \in Slots
  PROVE  /\ \A found \in BOOLEAN : AddFind(k, found) => FlowInv'
         /\ AddValidate(k) => FlowInv'
         /\ AddInsert(k) \/ RemoveRows(k) \/ RejectReset(k) => FlowInv'
         /\ AutoCancelRemove(k) => FlowInv'
<1>1. ASSUME NEW found \in BOOLEAN, AddFind(k, found) PROVE FlowInv'
  <2>1. CASE found
    BY <1>1, <2>1, EndQuiet DEF AddFind
  <2>2. CASE ~found
    BY <1>1, <2>2, GotoQuiet DEF AddFind, At, Stages, Owning
  <2> QED BY <2>1, <2>2
<1>2. ASSUME AddValidate(k) PROVE FlowInv'
  <2>1. CASE End(k)
    BY <1>2, <2>1, EndQuiet DEF AddValidate
  <2>2. CASE Goto(k, "add_insert")
    BY <1>2, <2>2, GotoQuiet DEF AddValidate, At, Stages, Owning
  <2> QED BY <1>2, <2>1, <2>2 DEF AddValidate
<1>3. AddInsert(k) \/ RemoveRows(k) \/ RejectReset(k) => FlowInv'
  BY EndQuiet DEF AddInsert, RemoveRows, RejectReset
<1>4. AutoCancelRemove(k) => FlowInv'
  BY EndQuiet DEF AutoCancelRemove
<1> QED BY <1>1, <1>2, <1>3, <1>4

LEMMA AssignInv ==
  ASSUME FlowInv, NEW k \in Slots
  PROVE  /\ \A o \in Orders, s \in Shippers : AssignRead(k, o, s) => FlowInv'
         /\ AssignInsert(k) => FlowInv'
         /\ AssignSave(k) => FlowInv'
         /\ AssignRemove(k) => FlowInv'
<1>1. ASSUME NEW o \in Orders, NEW s \in Shippers, AssignRead(k, o, s)
      PROVE  FlowInv'
  <2>1. PICK r \in Slot : r = [Idle EXCEPT !.pc = "assign_insert", !.o = o, !.s = s]
    BY DEF Slot, Idle, Stages, Status, DetailStatus
  <2>2. Justified(r)
    BY <2>1 DEF Justified, Idle, Owning, Saving
  <2> QED BY <1>1, <2>1, <2>2, QuietStep DEF AssignRead, Begin
<1>2. ASSUME AssignInsert(k) PROVE FlowInv'
  <2>1. /\ slot[k] \in Slot /\ slot[k].o \in Orders /\ slot[k].s \in Shippers
        /\ slot[k].pc = "assign_insert"
    BY <1>2 DEF AssignInsert, At, FlowInv, FlowTypeOK, Justified
  <2>2. CASE detail[slot[k].o] = Nil
    <3>1. /\ detail' = [detail EXCEPT ![slot[k].o] = slot[k].s]
          /\ dstat' = [dstat EXCEPT ![slot[k].o] = "SHIPPING"]
          /\ Goto(k, "assign_save") /\ UNCHANGED <<status, link, told, crashes>>
      BY <1>2, <2>2 DEF AssignInsert
    <3>2. RowsTyped' /\ Grows
      BY <2>1, <2>2, <3>1 DEF RowsTyped, Grows, FlowInv, FlowTypeOK, DetailStatus
    <3>3. DetailConsistent' /\ ReceivedHasShipper'
      BY <2>1, <2>2, <3>1, FlowAssumption
      DEF FlowInv, FlowTypeOK, RowsOK, DetailConsistent, ReceivedHasShipper
    <3>4. WinnerIsAssigned'
      <4>1. told[slot[k].o] = {}
        BY <2>1, <2>2, FlowAssumption
        DEF FlowInv, FlowTypeOK, RowsOK, WinnerIsAssigned
      <4> QED BY <2>1, <3>1, <4>1 DEF FlowInv, FlowTypeOK, RowsOK, WinnerIsAssigned
    <3>5. PICK r \in Slot : r = Kept(k, "assign_save")
      BY <2>1 DEF Kept, Slot, Idle, Status, DetailStatus, Stages
    <3>6. Justified(r)'
      <4>1. r.pc = "assign_save" /\ r.o = slot[k].o /\ r.s = slot[k].s
            /\ ~r.sd /\ r.st = "pending"
        BY <3>5 DEF Kept, Idle
      <4>2. detail'[r.o] = r.s
        BY <4>1, <3>1, <2>1 DEF FlowInv, FlowTypeOK
      <4> QED BY <4>1, <4>2, <2>1 DEF Justified
    <3>7. slot' = [slot EXCEPT ![k] = r]
      BY <3>1, <3>5 DEF Goto, Kept
    <3> QED BY <3>1, <3>2, <3>3, <3>4, <3>6, <3>7, StepInv DEF RowsTyped, RowsOK
  <2>3. CASE detail[slot[k].o] # Nil
    BY <1>2, <2>3, EndQuiet DEF AssignInsert, rows
  <2> QED BY <2>2, <2>3
<1>3. ASSUME AssignSave(k) PROVE FlowInv'
  <2>1. slot[k].o \in Orders /\ slot[k].pc = "assign_save" /\ detail[slot[k].o] # Nil
    BY <1>3, FlowAssumption
    DEF AssignSave, At, FlowInv, FlowTypeOK, Justified, Owning
  <2>2. RowsTyped' /\ RowsOK' /\ Grows /\ UNCHANGED crashes
    BY <1>3, <2>1, SaveOrderRows DEF AssignSave, Status, DetailStatus
  <2> QED BY <1>3, <2>1, <2>2, SaveThenGoto DEF AssignSave, Stages, Owning
<1>4. ASSUME AssignRemove(k) PROVE FlowInv'
  <2>1. /\ slot[k].o \in Orders /\ slot[k].s \in Shippers
        /\ detail[slot[k].o] = slot[k].s
    BY <1>4 DEF AssignRemove, At, FlowInv, FlowTypeOK, Justified, Owning
  <2>2. RowsTyped' /\ Grows
    BY <1>4, <2>1 DEF AssignRemove, rows, RowsTyped, Grows, FlowInv, FlowTypeOK
  <2>3. RowsOK'
    BY <1>4, <2>1 DEF AssignRemove, rows, RowsOK, FlowInv, FlowTypeOK,
       DetailConsistent, WinnerIsAssigned, ReceivedHasShipper
  <2> QED BY <1>4, <2>2, <2>3, SaveThenEnd DEF AssignRemove
<1> QED BY <1>1, <1>2, <1>3, <1>4

LEMMA RejectInv ==
  ASSUME FlowInv, NEW k \in Slots
  PROVE  /\ \A o \in Orders : RejectRead(k, o) => FlowInv'
         /\ RejectSave(k) => FlowInv'
<1>1. ASSUME NEW o \in Orders, RejectRead(k, o) PROVE FlowInv'
  <2>1. PICK d \in DetailStatus : d = IF link[o] THEN dstat[o] ELSE "NONE"
    BY DEF FlowInv, FlowTypeOK, DetailStatus
  <2>2. PICK r \in Slot : r = [Idle EXCEPT !.pc = "reject_save", !.o = o,
                         !.st = status[o], !.sd = link[o], !.dst = d]
    BY DEF Slot, Idle, Stages, FlowInv, FlowTypeOK
  <2>3. r.pc = "reject_save" /\ r.o = o /\ r.st = status[o] /\ r.sd = link[o] /\ r.dst = d
    BY <2>2 DEF Idle
  <2>4. Justified(r)
    BY <2>1, <2>3 DEF Justified, Owning, FlowInv, RowsOK, DetailConsistent,
                      ReceivedHasShipper
  <2> QED BY <1>1, <2>1, <2>2, <2>4, QuietStep DEF RejectRead, Begin
<1>2. ASSUME RejectSave(k) PROVE FlowInv'
  <2>1. /\ slot[k] \in Slot /\ slot[k].o \in Orders
        /\ Justified(slot[k]) /\ slot[k].pc = "reject_save"
    BY <1>2 DEF RejectSave, At, FlowInv, FlowTypeOK
  <2>2. /\ slot[k].sd => detail[slot[k].o] # Nil /\ slot[k].dst # "NONE"
        /\ slot[k].st = "shipper_received" => detail[slot[k].o] # Nil
        /\ slot[k].st \in Status /\ slot[k].sd \in BOOLEAN
        /\ slot[k].dst \in DetailStatus
    BY <2>1 DEF Justified, Saving, Stages, Slot
  <2>3. RowsTyped' /\ RowsOK' /\ Grows /\ UNCHANGED crashes
    BY <1>2, <2>1, <2>2, SaveOrderRows DEF RejectSave
  <2> QED BY <1>2, <2>1, <2>3, SaveThenGoto DEF RejectSave, Stages, Owning
<1> QED BY <1>1, <1>2

LEMMA PickUpInv ==
  ASSUME FlowInv, NEW k \in Slots
  PROVE  /\ \A o \in Orders, s \in Shippers : PickUp(k, o, s) => FlowInv'
         /\ PickUpDetail(k) => FlowInv'
<1>1. ASSUME NEW o \in Orders, NEW s \in Shippers, PickUp(k, o, s) PROVE FlowInv'
  <2>1. RowsTyped' /\ RowsOK' /\ Grows /\ UNCHANGED <<detail, crashes>>
    BY <1>1, SaveStatusRows DEF PickUp, SaveStatus, Status
  <2>2. PICK r \in Slot : r = [Idle EXCEPT !.pc = "pickup_detail", !.o = o, !.s = s]
    BY DEF Slot, Idle, Stages, Status, DetailStatus
  <2>3. r.pc = "pickup_detail" /\ r.o = o /\ r.s = s /\ ~r.sd /\ r.st = "pending"
    BY <2>2 DEF Idle
  <2>4. Justified(r)'
    BY <1>1, <2>1, <2>3 DEF Justified, PickUp
  <2> QED BY <1>1, <2>1, <2>2, <2>4, StepInv DEF PickUp, Begin, RowsTyped
<1>2. ASSUME PickUpDetail(k) PROVE FlowInv'
  <2>1. /\ slot[k].o \in Orders /\ detail[slot[k].o] # Nil
    BY <1>2, FlowAssumption
    DEF PickUpDetail, At, FlowInv, FlowTypeOK, Justified, Owning
  <2>2. RowsTyped' /\ Grows
    BY <1>2, <2>1 DEF PickUpDetail, RowsTyped, Grows, FlowInv, FlowTypeOK, DetailStatus
  <2>3. RowsOK'
    BY <1>2, <2>1 DEF PickUpDetail, RowsOK, FlowInv, FlowTypeOK,
       DetailConsistent, WinnerIsAssigned, ReceivedHasShipper
  <2> QED BY <1>2, <2>2, <2>3, SaveThenEnd DEF PickUpDetail
<1> QED BY <1>1, <1>2

LEMMA CompleteInv ==
  ASSUME FlowInv, NEW k \in Slots
  PROVE  /\ \A o \in Orders, s \in Shippers : CompleteDetail(k, o, s) => FlowInv'
         /\ CompleteOrder(k) => FlowInv'
         /\ CompleteLoad(k) => FlowInv'
         /\ CompleteSave(k) => FlowInv'
         /\ CompleteEarnings(k) => FlowInv'
<1>1. ASSUME NEW o \in Orders, NEW s \in Shippers, CompleteDetail(k, o, s)
      PROVE  FlowInv'
  <2>1. RowsTyped' /\ Grows /\ detail'[o] = s /\ UNCHANGED crashes
    BY <1>1 DEF CompleteDetail, RowsTyped, Grows, FlowInv, FlowTypeOK, DetailStatus
  <2>2. RowsOK'
    BY <1>1, FlowAssumption DEF CompleteDetail, RowsOK, FlowInv, FlowTypeOK,
       DetailConsistent, WinnerIsAssigned, ReceivedHasShipper
  <2>3. PICK r \in Slot : r = [Idle EXCEPT !.pc = "complete_order", !.o = o, !.s = s]
    BY DEF Slot, Idle, Stages, Status, DetailStatus
  <2>4. r.pc = "complete_order" /\ r.o = o /\ r.s = s /\ ~r.sd /\ r.st = "pending"
    BY <2>3 DEF Idle
  <2>5. Justified(r)'
    BY <2>1, <2>4 DEF Justified
  <2> QED BY <1>1, <2>1, <2>2, <2>3, <2>5, StepInv DEF CompleteDetail, Begin, RowsTyped
<1>2. ASSUME CompleteOrder(k) PROVE FlowInv'
  <2>1. slot[k].o \in Orders /\ slot[k].pc = "complete_order"
    BY <1>2 DEF CompleteOrder, At, FlowInv, FlowTypeOK
  <2>2. RowsTyped' /\ RowsOK' /\ Grows /\ UNCHANGED crashes
    BY <1>2, <2>1, SaveStatusRows DEF CompleteOrder, Status
  <2> QED BY <1>2, <2>1, <2>2, SaveThenGoto DEF CompleteOrder, Stages, Owning
<1>3. ASSUME CompleteLoad(k) PROVE FlowInv'
  <2>1. /\ slot[k] \in Slot /\ slot[k].o \in Orders /\ Justified(slot[k])
        /\ slot[k].pc = "complete_load"
    BY <1>3 DEF CompleteLoad, At, FlowInv, FlowTypeOK
  <2>2. CASE CanChange(status[slot[k].o], "completed")
    <3>1. PICK r \in Slot : r = [slot[k] EXCEPT !.pc = "complete_save",
                         !.sd = detail[slot[k].o] # Nil, !.dst = dstat[slot[k].o]]
      BY <2>1 DEF Slot, Stages, FlowInv, FlowTypeOK
    <3>2. r.pc = "complete_save" /\ r.o = slot[k].o /\ r.s = slot[k].s
          /\ r.st = slot[k].st /\ r.sd = (detail[r.o] # Nil) /\ r.dst = dstat[r.o]
      BY <3>1, <2>1 DEF Slot
    <3>3. Justified(r)
      BY <3>2, <2>1 DEF Justified, Owning, Saving, Stages, FlowInv, RowsOK, DetailConsistent
    <3>4. slot' = [slot EXCEPT ![k] = r]
      BY <1>3, <2>2, <3>1, <2>1 DEF CompleteLoad, FlowInv, FlowTypeOK
    <3> QED BY <1>3, <3>3, <3>4, QuietStep DEF CompleteLoad
  <2>3. CASE ~CanChange(status[slot[k].o], "completed")
    BY <1>3, <2>3, EndQuiet DEF CompleteLoad
  <2> QED BY <2>2, <2>3
<1>4. ASSUME CompleteSave(k) PROVE FlowInv'
  <2>1. /\ slot[k] \in Slot /\ slot[k].o \in Orders
        /\ Justified(slot[k]) /\ slot[k].pc = "complete_save"
    BY <1>4 DEF CompleteSave, At, FlowInv, FlowTypeOK
  <2>2. /\ slot[k].sd => detail[slot[k].o] # Nil /\ slot[k].dst # "NONE"
        /\ slot[k].sd \in BOOLEAN /\ slot[k].dst \in DetailStatus
    BY <2>1 DEF Justified, Saving, Stages, Slot
  <2>3. RowsTyped' /\ RowsOK' /\ Grows /\ UNCHANGED crashes
    BY <1>4, <2>1, <2>2, SaveOrderRows DEF CompleteSave, Status
  <2> QED BY <1>4, <2>1, <2>3, SaveThenGoto DEF CompleteSave, Stages, Owning
<1>5. ASSUME CompleteEarnings(k) PROVE FlowInv'
  <2>1. slot[k].o \in Orders
    BY <1>5 DEF CompleteEarnings, At, FlowInv, FlowTypeOK
  <2>2. CASE SaveStatus(slot[k].o, "completed")
    <3>1. RowsTyped' /\ RowsOK' /\ Grows /\ UNCHANGED crashes
      BY <2>1, <2>2, SaveStatusRows DEF Status
    <3> QED BY <1>5, <3>1, SaveThenEnd DEF CompleteEarnings
  <2>3. CASE UNCHANGED <<rows, told, crashes>>
    BY <1>5, <2>3, EndQuiet DEF CompleteEarnings
  <2> QED BY <1>5, <2>2, <2>3 DEF CompleteEarnings
<1> QED BY <1>1, <1>2, <1>3, <1>4, <1>5

LEMMA CancelInv ==
  ASSUME FlowInv, NEW k \in Slots
  PROVE  /\ \A o \in Orders, s \in Shippers : CancelRead(k, o, s) => FlowInv'
         /\ CancelSave(k) => FlowInv'
         /\ \A o \in Orders, a \in Assignments : AutoCancelList(k, o, a) => FlowInv'
         /\ AutoCancelCheck(k) => FlowInv'
         /\ AutoCancelSave(k) => FlowInv'
<1>1. ASSUME NEW o \in Orders, NEW s \in Shippers, CancelRead(k, o, s) PROVE FlowInv'
  <2>1. PICK r \in Slot : r = [Idle EXCEPT !.pc = "cancel_save", !.o = o, !.s = s,
                                 !.sd = TRUE, !.dst = dstat[o]]
    BY DEF Slot, Idle, Stages, Status, FlowInv, FlowTypeOK
  <2>2. r.pc = "cancel_save" /\ r.o = o /\ r.s = s /\ r.st = "pending" /\ r.dst = dstat[o]
    BY <2>1 DEF Idle
  <2>3. Justified(r)
    BY <1>1, <2>2, FlowAssumption
    DEF CancelRead, Justified, FlowInv, RowsOK, DetailConsistent
  <2> QED BY <1>1, <2>1, <2>3, QuietStep DEF CancelRead, Begin
<1>2. ASSUME CancelSave(k) PROVE FlowInv'
  <2>1. /\ slot[k] \in Slot /\ slot[k].o \in Orders
        /\ Justified(slot[k]) /\ slot[k].pc = "cancel_save"
    BY <1>2 DEF CancelSave, At, FlowInv, FlowTypeOK
  <2>2. /\ slot[k].sd => detail[slot[k].o] # Nil /\ slot[k].dst # "NONE"
        /\ slot[k].sd \in BOOLEAN /\ slot[k].dst \in DetailStatus
    BY <2>1 DEF Justified, Saving, Stages, Slot
  <2>3. RowsTyped' /\ RowsOK' /\ Grows /\ UNCHANGED crashes
    BY <1>2, <2>1, <2>2, SaveOrderRows DEF CancelSave, Status
  <2> QED BY <1>2, <2>3, SaveThenEnd DEF CancelSave
<1>3. ASSUME NEW o \in Orders, NEW a \in Assignments, AutoCancelList(k, o, a)
      PROVE  FlowInv'
  <2>1. PICK d \in DetailStatus : d = IF link[o] THEN dstat[o] ELSE "NONE"
    BY DEF FlowInv, FlowTypeOK, DetailStatus
  <2>2. PICK r \in Slot : r = [Idle EXCEPT !.pc = "auto_check", !.o = o,
                         !.a = a, !.sd = link[o], !.dst = d]
    BY DEF Slot, Idle, Stages, Status, FlowInv, FlowTypeOK
  <2>3. r.pc = "auto_check" /\ r.o = o /\ r.st = "pending" /\ r.sd = link[o] /\ r.dst = d
    BY <2>2 DEF Idle
  <2>4. Justified(r)
    BY <2>1, <2>3 DEF Justified, Owning, FlowInv, RowsOK, DetailConsistent
  <2> QED BY <1>3, <2>1, <2>2, <2>4, QuietStep DEF AutoCancelList, Begin
<1>4. ASSUME AutoCancelCheck(k) PROVE FlowInv'
  <2>1. /\ slot[k] \in Slot /\ slot[k].o \in Orders /\ Justified(slot[k])
        /\ slot[k].pc = "auto_check"
    BY <1>4 DEF AutoCancelCheck, At, FlowInv, FlowTypeOK
  <2>2. CASE link[slot[k].o]
    BY <1>4, <2>2, EndQuiet DEF AutoCancelCheck
  <2>3. CASE ~link[slot[k].o]
    <3>1. PICK r \in Slot : r = [slot[k] EXCEPT !.pc = "auto_save"]
      BY <2>1 DEF Slot, Stages
    <3>2. Justified(r)
      BY <2>1, <3>1 DEF Justified, Owning, Saving, Stages, Slot
    <3>3. slot' = [slot EXCEPT ![k] = r]
      BY <1>4, <2>3, <2>1, <3>1 DEF AutoCancelCheck, FlowInv, FlowTypeOK
    <3> QED BY <1>4, <3>2, <3>3, QuietStep DEF AutoCancelCheck
  <2> QED BY <2>2, <2>3
<1>5. ASSUME AutoCancelSave(k) PROVE FlowInv'
  <2>1. /\ slot[k] \in Slot /\ slot[k].o \in Orders
        /\ Justified(slot[k]) /\ slot[k].pc = "auto_save"
    BY <1>5 DEF AutoCancelSave, At, FlowInv, FlowTypeOK
  <2>2. /\ slot[k].sd => detail[slot[k].o] # Nil /\ slot[k].dst # "NONE"
        /\ slot[k].sd \in BOOLEAN /\ slot[k].dst \in DetailStatus
    BY <2>1 DEF Justified, Saving, Stages, Slot
  <2>3. RowsTyped' /\ RowsOK' /\ Grows /\ UNCHANGED crashes
    BY <1>5, <2>1, <2>2, SaveOrderRows DEF AutoCancelSave, Status
  <2> QED BY <1>5, <2>1, <2>3, SaveThenGoto DEF AutoCancelSave, Stages, Owning
<1> QED BY <1>1, <1>2, <1>3, <1>4, <1>5

LEMMA CrashInv == FlowInv /\ Crash => FlowInv'
<1> SUFFICES ASSUME FlowInv, Crash PROVE FlowInv'
  OBVIOUS
<1>1. crashes' \in 0..MaxCrashes
  BY FlowAssumption DEF Crash, FlowInv, FlowTypeOK
<1>2. FlowTypeOK' /\ RowsOK'
  BY <1>1, IdleJustified DEF Crash, rows, FlowInv, FlowTypeOK, RowsOK, Idle,
     DetailConsistent, WinnerIsAssigned, ReceivedHasShipper
<1>3. ASSUME NEW k \in Slots PROVE Justified(slot[k])'
  <2>1. slot'[k] = Idle
    BY DEF Crash
  <2> QED BY <2>1, IdleJustified DEF Justified
<1> QED BY <1>2, <1>3 DEF FlowInv

-----------------------------------------------------------------------------
\* Every step of the flow preserves the invariant.
LEMMA NextInv == FlowInv /\ [FlowNext]_flowVars => FlowInv'
<1> SUFFICES ASSUME FlowInv, [FlowNext]_flowVars PROVE FlowInv'
  OBVIOUS
<1>1. CASE Crash
  BY <1>1, CrashInv
<1>2. ASSUME NEW k \in Slots, FlowBegin(k) PROVE FlowInv'
  BY <1>2, UpdateInv, AssignInv, RejectInv, PickUpInv, CompleteInv, CancelInv
  DEF FlowBegin
<1>3. ASSUME NEW k \in Slots, FlowStep(k) PROVE FlowInv'
  BY <1>3, UpdateInv, AddInv, AssignInv, RejectInv, PickUpInv, CompleteInv, CancelInv
  DEF FlowStep
<1>4. CASE UNCHANGED flowVars
  BY <1>4 DEF flowVars, FlowInv, FlowTypeOK, RowsOK, DetailConsistent,
     WinnerIsAssigned, ReceivedHasShipper, Justified
<1> QED BY <1>1, <1>2, <1>3, <1>4 DEF FlowNext

LEMMA SpecInv == FlowSpec => []FlowInv
  BY InitInv, NextInv, PTL DEF FlowSpec

-----------------------------------------------------------------------------
(***************************************************************************)
(* What follows for the order and shipping-detail rows.                    *)
(***************************************************************************)

\* The handlers keep every row and every entity they hold in its type.
THEOREM TypeCorrect == FlowSpec => []FlowTypeOK
  BY SpecInv, PTL DEF FlowInv

\* Only the shipper in the table was ever told that an order is his, whatever
\* accepts overlap (assignOrderToShipper checks a stale order; the unique index
\* on order_id decides).
THEOREM WinnerCorrect == FlowSpec => []WinnerIsAssigned
  BY SpecInv, PTL DEF FlowInv, RowsOK

\* Pick-up, completion and cancellation serve only the shipper in the table,
\* whatever was saved between their reads and writes.
THEOREM ActingCorrect == FlowSpec => []ActingShipperIsAssigned
<1>1. FlowInv => ActingShipperIsAssigned
  BY DEF FlowInv, ActingShipperIsAssigned, Justified
<1> QED BY <1>1, SpecInv, PTL

\* No save of a stale entity makes an order "received" without a shipper.
THEOREM ReceivedCorrect == FlowSpec => []ReceivedHasShipper
  BY SpecInv, PTL DEF FlowInv, RowsOK

\* No save of a stale entity links an order to a shipping detail that does not
\* exist.
THEOREM DetailCorrect == FlowSpec => []DetailConsistent
  BY SpecInv, PTL DEF FlowInv, RowsOK

-----------------------------------------------------------------------------
(***************************************************************************)
(* Every step of the flow is a claim, a reply, a change of what the        *)
(* customer is shown, or nothing, of the contract in Delivery.             *)
(***************************************************************************)
ContractStep == [Contract!Next]_(Contract!vars)

\* A step that leaves the details and replies alone and writes one status.
LEMMA StatusStep ==
  ASSUME FlowInv, FlowInv', NEW o \in Orders, NEW st,
         status' = [status EXCEPT ![o] = st], UNCHANGED <<detail, told>>
  PROVE  ContractStep
<1> DEFINE rec == [p \in Orders |-> status[p] = "shipper_received"]
<1>1. status \in [Orders -> Status] /\ status' \in [Orders -> Status]
  BY DEF FlowInv, FlowTypeOK
<1>2. \A p \in Orders : p # o => status'[p] = status[p]
  BY <1>1
<1>3. CASE (status'[o] = "shipper_received") = (status[o] = "shipper_received")
  <2>1. rec' = rec
    BY <1>2, <1>3
  <2> QED BY <2>1 DEF ContractStep, Contract!vars
<1>4. CASE (status'[o] = "shipper_received") # (status[o] = "shipper_received")
  <2>1. rec' = [rec EXCEPT ![o] = ~@]
    BY <1>2, <1>4
  <2>2. rec[o] \/ detail[o] # Nil
    BY <1>4, FlowAssumption DEF FlowInv, RowsOK, ReceivedHasShipper
  <2> QED BY <2>1, <2>2 DEF ContractStep, Contract!Next, Contract!Show
<1> QED BY <1>3, <1>4

LEMMA ContractStutter ==
  ASSUME UNCHANGED <<status, detail, told>> PROVE ContractStep
  BY DEF ContractStep, Contract!vars

LEMMA BeginContract ==
  ASSUME FlowInv, FlowInv', NEW k \in Slots, FlowBegin(k)
  PROVE  ContractStep
<1>1. PICK o \in Orders :
        \/ \E target \in AllowedStatuses : UpdateRequest(k, o, target)
        \/ RejectRead(k, o)
        \/ \E a \in Assignments : AutoCancelList(k, o, a)
        \/ \E s \in Shippers : \/ AssignRead(k, o, s) \/ PickUp(k, o, s)
                               \/ CompleteDetail(k, o, s) \/ CancelRead(k, o, s)
  BY DEF FlowBegin
<1>2. CASE \E s \in Shippers : PickUp(k, o, s)
  BY <1>2, StatusStep DEF PickUp, SaveStatus
<1>3. CASE \A s \in Shippers : ~PickUp(k, o, s)
  BY <1>1, <1>3, ContractStutter
  DEF UpdateRequest, RejectRead, AutoCancelList, AssignRead, CompleteDetail,
      CancelRead, rows
<1> QED BY <1>2, <1>3

LEMMA StepContract ==
  ASSUME FlowInv, FlowInv', NEW k \in Slots, FlowStep(k)
  PROVE  ContractStep
<1> slot[k].pc # "idle" => slot[k].o \in Orders
  BY DEF FlowInv, FlowTypeOK
<1>1. CASE UpdateSave(k) \/ AssignSave(k) \/ RejectSave(k) \/ CompleteOrder(k)
           \/ CompleteSave(k) \/ CancelSave(k) \/ AutoCancelSave(k)
  BY <1>1, StatusStep
  DEF UpdateSave, AssignSave, RejectSave, CompleteOrder, CompleteSave, CancelSave,
      AutoCancelSave, SaveOrder, SaveStatus, At
<1>2. CASE CompleteEarnings(k)
  BY <1>2, StatusStep, ContractStutter DEF CompleteEarnings, SaveStatus, At, rows
<1>3. CASE AssignInsert(k)
  <2>1. slot[k].o \in Orders /\ slot[k].s \in Shippers
    BY <1>3 DEF AssignInsert, At, FlowInv, Justified
  <2>2. CASE detail[slot[k].o] = Nil
    BY <1>3, <2>1, <2>2
    DEF AssignInsert, ContractStep, Contract!Next, Contract!Claim
  <2>3. CASE detail[slot[k].o] # Nil
    BY <1>3, <2>3, ContractStutter DEF AssignInsert
  <2> QED BY <2>2, <2>3
<1>4. CASE AssignRemove(k)
  <2>1. /\ slot[k].o \in Orders /\ slot[k].s \in Shippers
        /\ detail[slot[k].o] = slot[k].s
    BY <1>4 DEF AssignRemove, At, FlowInv, Justified, Owning
  <2> QED BY <1>4, <2>1
          DEF AssignRemove, rows, ContractStep, Contract!Next, Contract!Tell
<1>5. CASE UpdateLoad(k) \/ (\E found \in BOOLEAN : AddFind(k, found))
           \/ AddValidate(k) \/ AddInsert(k) \/ RemoveRows(k) \/ RejectReset(k)
           \/ PickUpDetail(k) \/ CompleteLoad(k) \/ AutoCancelCheck(k)
           \/ AutoCancelRemove(k)
  BY <1>5, ContractStutter
  DEF UpdateLoad, AddFind, AddValidate, AddInsert, RemoveRows, RejectReset,
      PickUpDetail, CompleteLoad, AutoCancelCheck, AutoCancelRemove, rows
<1> QED BY <1>1, <1>2, <1>3, <1>4, <1>5 DEF FlowStep

\* The tables and handlers implement the contract of Delivery: an order is
\* claimed once, replies go to the claimant only, and it is shown as received
\* only once claimed, through every stale save, overlap and restart.
THEOREM FlowImplementsDelivery == FlowSpec => ImplementsDelivery
<1>1. FlowInit => Contract!Init
  <2>1. ASSUME FlowInit
        PROVE  [o \in Orders |-> status[o] = "shipper_received"] = [o \in Orders |-> FALSE]
    BY <2>1, FlowAssumption DEF FlowInit, Status
  <2> QED BY <2>1 DEF FlowInit, Contract!Init
<1>2. FlowInv /\ FlowInv' /\ [FlowNext]_flowVars => ContractStep
  <2> SUFFICES ASSUME FlowInv, FlowInv', [FlowNext]_flowVars PROVE ContractStep
    OBVIOUS
  <2>1. CASE Crash \/ UNCHANGED flowVars
    BY <2>1, ContractStutter DEF Crash, rows, flowVars
  <2>2. CASE \E k \in Slots : FlowBegin(k) \/ FlowStep(k)
    BY <2>2, BeginContract, StepContract
  <2> QED BY <2>1, <2>2 DEF FlowNext
<1> QED BY <1>1, <1>2, SpecInv, PTL
        DEF FlowSpec, ImplementsDelivery, Contract!Spec, ContractStep
=============================================================================

---------------------------- MODULE ShipperStats ----------------------------
(***************************************************************************)
(* The row of one shipper in `users` with the counters and earnings that   *)
(* ShipperService keeps there, and every handler that reads the row and,   *)
(* some awaits later, saves the whole of it: accept-order, complete-order, *)
(* cancel-order, reject-order, the shipper's profile and the               *)
(* administrator's verdict on his certificate.                             *)
(*                                                                         *)
(* OrderFlow follows the orders through the same handlers statement by     *)
(* statement; here an order is only what the counters are taken from, and  *)
(* the statements on it that nothing here tells apart are one step.        *)
(***************************************************************************)
EXTENDS ShipperReport

CONSTANTS Orders,      \* order ids
          Slots,       \* handlers that may be in progress at once
          Terms,       \* what an order pays: [Orders -> [fee, dist, total]]
          InitCounts,  \* <<completed, rejected>> the shipper may start with
          Hours,       \* hours of the day at which deliveries are completed
          Minutes,     \* response times, in minutes
          MaxCalls,    \* bound: how many handlers are started
          MaxDay,      \* bound: the last day, counted from 0
          MaxCrashes   \* bound: how often the server process may stop

ASSUME StatsAssumption ==
    /\ IsFiniteSet(Orders) /\ InitCounts \subseteq Nat \X Nat
    /\ Hours \subseteq 0..23 /\ Minutes \subseteq Nat
    /\ MaxCalls \in Nat /\ MaxDay \in Nat /\ MaxCrashes \in Nat
    /\ Terms \in [Orders -> [fee : Nat, dist : Nat, total : Nat]]

VARIABLES
    order,    \* the orders and their shipping details
    stat,     \* the shipper's row, and the status of his certificate
    slot,     \* the handlers in progress
    day,      \* the date
    calls,    \* handlers started so far
    start,    \* history: the shipper's row at the beginning
    count,    \* history: how often a handler has saved the row, by kind
    warned,   \* history: the last rejection was answered with a warning or a ban
    overlap,  \* history: two handlers were in progress at once
    crashes   \* how often the server has stopped

statsVars == <<order, stat, slot, day, calls, start, count, warned, overlap, crashes>>

Cert == {"PENDING", "APPROVED", "REJECTED"}
Kinds == {"accept", "complete", "cancel", "reject"}
OrderStatus == {"confirmed", "shipper_received", "delivering", "completed", "canceled"}

Row == [completed : Nat, failed : Nat, active : Nat, rejected : Nat,
        onTime : Nat, late : Nat, earnings : Nat, daily : Nat,
        response : Nat, cert : Cert]
Order == [st : OrderStatus, linked : BOOLEAN, detail : {"none", "shipping", "completed"},
          earn : Nat, done : 0..MaxDay]

Stages == {"idle", "accept_insert", "accept_save", "complete_order", "complete_earn",
           "complete_save", "cancel_save", "cancel_count", "reject_ban", "reject_save",
           "profile_save", "profile_cert"}

NewShipper(n) ==
    [completed |-> n[1], failed |-> n[2], active |-> 0, rejected |-> n[2],
     onTime |-> n[1], late |-> 0, earnings |-> n[1] * 2000000,
     daily |-> n[1] * 2000000, response |-> 0, cert |-> "APPROVED"]

\* What a handler holds: its order, the row it read, and an amount or a time.
Idle == [pc |-> "idle", o |-> "none", row |-> NewShipper(<<0, 0>>), n |-> 0]

StatsTypeOK ==
    /\ order \in [Orders -> Order]
    /\ stat \in Row
    /\ slot \in [Slots -> [pc : Stages, o : Orders \cup {"none"}, row : Row, n : Nat]]
    /\ day \in 0..MaxDay /\ calls \in 0..MaxCalls /\ crashes \in 0..MaxCrashes
    /\ start \in Row /\ count \in [Kinds -> Nat]
    /\ warned \in BOOLEAN /\ overlap \in BOOLEAN

StatsInit ==
    /\ order = [o \in Orders |-> [st |-> "confirmed", linked |-> FALSE,
                                  detail |-> "none", earn |-> 0, done |-> 0]]
    /\ \E n \in InitCounts : /\ stat = NewShipper(n)
                             /\ warned = Warns(n[1], n[2])
    /\ start = stat
    /\ slot = [k \in Slots |-> Idle]
    /\ day = 0 /\ calls = 0 /\ crashes = 0
    /\ count = [c \in Kinds |-> 0]
    /\ overlap = FALSE

-----------------------------------------------------------------------------
At(k, pc) == slot[k].pc = pc
End(k)    == slot' = [slot EXCEPT ![k] = Idle]
Goto(k, pc) == slot' = [slot EXCEPT ![k].pc = pc]

Begin(k, pc, o, n) ==
    /\ At(k, "idle") /\ calls < MaxCalls
    /\ slot' = [slot EXCEPT ![k] = [pc |-> pc, o |-> o, row |-> stat, n |-> n]]
    /\ calls' = calls + 1
    /\ overlap' = (overlap \/ \E j \in Slots \ {k} : ~At(j, "idle"))

\* userRepository.save of the row read before: all its columns are written,
\* but not the certificate, which is a row of its own.
SaveRow(row) == stat' = [row EXCEPT !.cert = stat.cert]

Counted(kind) == count' = [count EXCEPT ![kind] = @ + 1]

-----------------------------------------------------------------------------
(* assignOrderToShipper.                                                   *)
AcceptRead(k, o, minutes) ==
    /\ order[o].st = "confirmed" /\ ~order[o].linked
    /\ stat.cert = "APPROVED"
    /\ Begin(k, "accept_insert", o, minutes)
    /\ UNCHANGED <<order, stat, day, count, warned, start, crashes>>

\* The shipping detail, unique for its order, and the status of the order.
AcceptInsert(k) ==
    LET o == slot[k].o IN
    /\ At(k, "accept_insert")
    /\ IF order[o].detail = "none"
         THEN /\ order' = [order EXCEPT ![o].detail = "shipping",
                                        ![o].st = "shipper_received"]
              /\ Goto(k, "accept_save")
         ELSE End(k) /\ UNCHANGED order
    /\ UNCHANGED <<stat, day, calls, count, warned, overlap, start, crashes>>

AcceptSave(k) ==
    LET r == slot[k].row IN
    /\ At(k, "accept_save")
    /\ SaveRow([r EXCEPT !.active = @ + 1, !.response = Most(@ + slot[k].n, 1)])
    /\ Counted("accept") /\ End(k)
    /\ UNCHANGED <<order, day, calls, warned, overlap, start, crashes>>

\* getOrder (pick-up), or the restaurant's status update, which also writes
\* the order's foreign key.
Deliver(o, links) ==
    /\ order[o].detail # "none" /\ order[o].st = "shipper_received"
    /\ order' = [order EXCEPT ![o].st = "delivering", ![o].linked = links]
    /\ UNCHANGED <<stat, slot, day, calls, count, warned, overlap, start, crashes>>

-----------------------------------------------------------------------------
(* markOrderCompleted: no status of order or detail is looked at.          *)
CompleteDetail(k, o) ==
    /\ order[o].detail # "none"
    /\ order' = [order EXCEPT ![o].detail = "completed", ![o].done = day]
    /\ Begin(k, "complete_order", o, 0)
    /\ UNCHANGED <<stat, day, count, warned, start, crashes>>

\* The order is read, with its earnings, and completed (updateOrderStatus
\* saves it with its shipping detail); then the shipper is read.
CompleteOrder(k) ==
    LET o == slot[k].o IN
    /\ At(k, "complete_order")
    /\ order' = [order EXCEPT ![o].st = "completed", ![o].linked = TRUE]
    /\ slot' = [slot EXCEPT ![k].pc = "complete_earn", ![k].n = order[o].earn]
    /\ UNCHANGED <<stat, day, calls, count, warned, overlap, start, crashes>>

\* Mutants.
CompleteEarn_StoresCommission(k, hour, onTime) ==
    LET o == slot[k].o
        earned == Earnings(Terms[o], hour, onTime, stat.completed)
        late == IF onTime THEN 0 ELSE 1
    IN /\ At(k, "complete_earn")
       /\ slot' = [slot EXCEPT ![k].pc = "complete_save", ![k].n = earned,
                            ![k].row = [stat EXCEPT !.onTime = @ + 1 - late,
                                                    !.late = @ + late]]
       /\ order' = [order EXCEPT ![o].earn = Round(Terms[o].fee * 8, 10) * 100]
       /\ UNCHANGED <<stat, day, calls, count, warned, overlap, start, crashes>>

\* Earnings the order already has are used again.  Others are computed and
\* saved, which fails when they are not a whole number: the column is integer.
CompleteEarn(k, hour, onTime) ==
    LET o == slot[k].o
        earned == Earnings(Terms[o], hour, onTime, stat.completed)
        late == IF onTime THEN 0 ELSE 1
        next(amount) == [slot EXCEPT ![k].pc = "complete_save", ![k].n = amount,
                            ![k].row = [stat EXCEPT !.onTime = @ + 1 - late,
                                                    !.late = @ + late]]
    IN /\ At(k, "complete_earn")
       /\ IF slot[k].n # 0
            THEN slot' = next(slot[k].n) /\ UNCHANGED order
          ELSE IF Whole(earned)
            THEN /\ slot' = next(earned)
                 /\ order' = [order EXCEPT ![o].earn = earned, ![o].st = "completed"]
          ELSE End(k) /\ UNCHANGED order
       /\ UNCHANGED <<stat, day, calls, count, warned, overlap, start, crashes>>

CompleteSave_NoClamp(k) ==
    LET r == slot[k].row IN
    /\ At(k, "complete_save")
    /\ SaveRow([r EXCEPT !.completed = @ + 1, !.active = @ - 1,
                         !.earnings = @ + slot[k].n, !.daily = @ + slot[k].n])
    /\ Counted("complete") /\ End(k)
    /\ UNCHANGED <<order, day, calls, warned, overlap, start, crashes>>

CompleteSave(k) ==
    LET r == slot[k].row IN
    /\ At(k, "complete_save")
    /\ SaveRow([r EXCEPT !.completed = @ + 1, !.active = Most(@ - 1, 0),
                         !.earnings = @ + slot[k].n, !.daily = @ + slot[k].n])
    /\ Counted("complete") /\ End(k)
    /\ UNCHANGED <<order, day, calls, warned, overlap, start, crashes>>

-----------------------------------------------------------------------------
(* cancelOrder: the shipper gives up an order he is delivering.            *)
CancelRead(k, o) ==
    /\ order[o].st = "delivering" /\ order[o].linked
    /\ Begin(k, "cancel_save", o, 0)
    /\ UNCHANGED <<order, stat, day, count, warned, start, crashes>>

CancelSave(k) ==
    /\ At(k, "cancel_save")
    /\ order' = [order EXCEPT ![slot[k].o].st = "canceled"]
    /\ Goto(k, "cancel_count")
    /\ UNCHANGED <<stat, day, calls, count, warned, overlap, start, crashes>>

CancelCount_AsRejection(k) ==   \* a mutant
    LET r == slot[k].row IN
    /\ At(k, "cancel_count")
    /\ SaveRow([r EXCEPT !.active = Most(@ - 1, 0), !.failed = @ + 1, !.rejected = @ + 1])
    /\ Counted("cancel") /\ End(k)
    /\ UNCHANGED <<order, day, calls, warned, overlap, start, crashes>>

CancelCount(k) ==
    LET r == slot[k].row IN
    /\ At(k, "cancel_count")
    /\ SaveRow([r EXCEPT !.active = Most(@ - 1, 0), !.failed = @ + 1])
    /\ Counted("cancel") /\ End(k)
    /\ UNCHANGED <<order, day, calls, warned, overlap, start, crashes>>

-----------------------------------------------------------------------------
(* rejectOrder, from the read of the shipper: any existing order will do.  *)
Rejected(r, minutes) ==
    [r EXCEPT !.active = Most(@ - 1, 0), !.failed = @ + 1, !.rejected = @ + 1,
              !.response = @ + minutes]

RejectRead(k, o, minutes) ==
    LET r == Rejected(stat, minutes)
        ban == ShouldBan(r.completed, r.rejected) \/ r.response > 60
    IN /\ Begin(k, IF ban THEN "reject_ban" ELSE "reject_save", o, minutes)
       /\ UNCHANGED <<order, stat, day, count, warned, start, crashes>>

\* certRepo.save: the ban is stored before the counters are.
RejectBan(k) ==
    /\ At(k, "reject_ban")
    /\ stat' = [stat EXCEPT !.cert = "REJECTED"]
    /\ Goto(k, "reject_save")
    /\ UNCHANGED <<order, day, calls, count, warned, overlap, start, crashes>>

RejectSave(k) ==
    LET r == Rejected(slot[k].row, slot[k].n) IN
    /\ At(k, "reject_save")
    /\ SaveRow(r)
    /\ warned' = (Warns(r.completed, r.rejected) \/ ShouldBan(r.completed, r.rejected))
    /\ Counted("reject") /\ End(k)
    /\ UNCHANGED <<order, day, calls, overlap, start, crashes>>

-----------------------------------------------------------------------------
(* updateDriverProfile: the user, and then the certificate, are saved as   *)
(* they were read.  updateMe saves the user likewise.                      *)
ProfileRead(k) ==
    /\ Begin(k, "profile_save", "none", 0)
    /\ UNCHANGED <<order, stat, day, count, warned, start, crashes>>

ProfileSave(k, driver) ==
    /\ At(k, "profile_save")
    /\ SaveRow(slot[k].row)
    /\ IF driver THEN Goto(k, "profile_cert") ELSE End(k)
    /\ UNCHANGED <<order, day, calls, count, warned, overlap, start, crashes>>

ProfileCert(k) ==
    /\ At(k, "profile_cert")
    /\ stat' = [stat EXCEPT !.cert = slot[k].row.cert]
    /\ End(k)
    /\ UNCHANGED <<order, day, calls, count, warned, overlap, start, crashes>>

\* updateShipperStatus, by an administrator.
Decide(verdict) ==
    /\ stat.cert # verdict /\ calls < MaxCalls
    /\ stat' = [stat EXCEPT !.cert = verdict]
    /\ calls' = calls + 1
    /\ overlap' = (overlap \/ \E j \in Slots : ~At(j, "idle"))
    /\ UNCHANGED <<order, slot, day, count, warned, start, crashes>>

\* Midnight: nothing in the code resets the earnings of the day.  It does not
\* fall into a handler, whose delivery would be one of either day.
Quiet == \A k \in Slots : At(k, "idle")

NewDay ==
    /\ day < MaxDay /\ Quiet
    /\ day' = day + 1
    /\ UNCHANGED <<order, stat, slot, calls, count, warned, overlap, start, crashes>>

\* The server process stops and starts again.
Crash ==
    /\ crashes < MaxCrashes
    /\ crashes' = crashes + 1
    /\ slot' = [k \in Slots |-> Idle]
    /\ UNCHANGED <<order, stat, day, calls, start, count, warned, overlap>>

-----------------------------------------------------------------------------
Request(k) ==
    \/ \E o \in Orders, m \in Minutes : AcceptRead(k, o, m) \/ RejectRead(k, o, m)
    \/ \E o \in Orders : CompleteDetail(k, o) \/ CancelRead(k, o)
    \/ ProfileRead(k)

Continue(k) ==
    \/ AcceptInsert(k) \/ AcceptSave(k)
    \/ CompleteOrder(k) \/ CompleteSave(k)
    \/ \E hour \in Hours, onTime \in BOOLEAN : CompleteEarn(k, hour, onTime)
    \/ CancelSave(k) \/ CancelCount(k)
    \/ RejectBan(k) \/ RejectSave(k)
    \/ \E driver \in BOOLEAN : ProfileSave(k, driver)
    \/ ProfileCert(k)

StatsNext ==
    \/ \E k \in Slots : Request(k) \/ Continue(k)
    \/ \E o \in Orders, links \in BOOLEAN : Deliver(o, links)
    \/ \E verdict \in {"APPROVED", "REJECTED"} : Decide(verdict)
    \/ NewDay \/ Crash

StatsSpec == StatsInit /\ [][StatsNext]_statsVars

-----------------------------------------------------------------------------
(* getIncomeReport: the days shown, and the sum over them.  Days 0..MaxDay *)
(* lie in one month and one week.                                          *)
ReportFrom(range) == IF range = "today" THEN day ELSE 0

EarningsOf(some) == SumFunctionOnSet([o \in Orders |-> order[o].earn], some)

DayEarnings(d) ==
    EarningsOf({o \in Orders : order[o].detail = "completed" /\ order[o].done = d})

IncomeReport(range) ==
    SumFunctionOnSet([d \in 0..day |-> DayEarnings(d)], ReportFrom(range)..day)

-----------------------------------------------------------------------------
\* However many handlers save the row as they read it, no counter runs ahead
\* of the handlers that counted; and as long as handlers never overlap none
\* falls behind (SH: every userRepository.save(shipper)).  Lost updates lose
\* whole deliveries: the punctual and the late ones add up to the completed
\* ones, on which every rate of the dashboard rests.
CountsMatchCalls ==
    LET gained(counter) == stat[counter] - start[counter]
        failures == count["reject"] + count["cancel"]
    IN /\ stat.completed = stat.onTime + stat.late
       /\ gained("completed") <= count["complete"]
       /\ gained("rejected") <= count["reject"]
       /\ gained("failed") <= failures
       /\ stat.active <= count["accept"]
       /\ ~overlap => /\ gained("completed") = count["complete"]
                      /\ gained("rejected") = count["reject"]
                      /\ gained("failed") = failures

\* Nobody is banned for his share of rejections whose rejection before was not
\* answered with a warning (checkRejectionRatio): the limits of the warnings
\* are reached before those of the bans, whatever is completed in between.
WarnedBeforeBan ==
    \A k \in Slots :
        LET r == Rejected(slot[k].row, slot[k].n) IN
        At(k, "reject_ban") /\ ShouldBan(r.completed, r.rejected) /\ ~overlap => warned

\* The total in the shipper's row is what his income report adds up from the
\* orders, when no handlers overlapped, none was cut off, and every order was
\* completed once.
EarningsMatchReport ==
    Quiet /\ ~overlap /\ crashes = 0
      /\ count["complete"] = Cardinality({o \in Orders : order[o].earn # 0})
    => stat.earnings - start.earnings = IncomeReport("month")

\* Completing a delivery in time never costs a shipper his level, a badge,
\* or sets his next milestone back.
PunctualDeliveryKeepsLevel ==
    [][\A rating \in {40, 42, 44, 46, 48} :
         ~overlap' /\ stat'.onTime > stat.onTime
           => LET before == Dashboard(stat, rating)
                  after == Dashboard(stat', rating)
              IN /\ after.level >= before.level
                 /\ before.badges \subseteq after.badges
                 /\ \A target \in after.next.deliveries :
                        \E passed \in before.next.deliveries : passed <= target]_statsVars
=============================================================================

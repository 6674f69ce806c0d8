------------------------------ MODULE Dispatch ------------------------------
(***************************************************************************)
(* PendingAssignmentService: how a confirmed order is offered to shippers. *)
(* An order waits as a row of pending_shipper_assignments; a cron turns    *)
(* due rows into jobs of a durable queue; a worker takes a job, offers the *)
(* order to one shipper and sets a timer that offers it to the next.  The  *)
(* rows and the queue survive a restart, the notified shippers and the     *)
(* timers are in memory.                                                   *)
(*                                                                         *)
(* Two modules provide the service, and Nest builds an instance for each:  *)
(* every instance registers a worker of its own on the one queue, and has  *)
(* a tracker of its own that the other does not see.                       *)
(*                                                                         *)
(* The order handlers are those of OrderFlow.  Here each is one action,    *)
(* followed by what it does to the rows: how handlers of one order overlap *)
(* with each other is checked there, how they overlap with the dispatch    *)
(* is checked here.                                                        *)
(***************************************************************************)
EXTENDS Naturals, FiniteSets

CONSTANTS Orders, Shippers,
          Assignments,  \* ids of pending_shipper_assignments rows
          Threads,      \* handlers, cron ticks and timer callbacks
          Services,     \* instances of PendingAssignmentService, a worker each
          MaxRetries,   \* maxRetries of scheduleRetryForAssignment
          MaxAttempts,  \* maxAttempts of validatePendingAssignment
          MaxBusy,      \* bound: threads and workers at work at once
          MaxJobs,      \* bound: jobs waiting for one assignment
          Restarts,     \* bound: whether the server process may stop
          Nil

ASSUME DispatchAssumption ==
    /\ Nil \notin Orders \cup Shippers \cup Assignments
    /\ IsFiniteSet(Services) /\ Services \cap Threads = {}
    /\ MaxRetries \in Nat /\ MaxAttempts \in Nat /\ MaxRetries <= MaxAttempts
    /\ MaxBusy \in Nat /\ MaxJobs \in Nat /\ Restarts \in BOOLEAN

VARIABLES
    ord,      \* the order: "unconfirmed" (any other status), "open"
              \* (confirmed), "linked" (confirmed, shippingDetail_id set)
    assigned, \* the order has a row in shippingDetails
    row,      \* the assignment rows, Nil when absent
    old,      \* createdAt is more than 30 minutes ago
    jobs,     \* how many find-shipper jobs wait for the assignment
    task,     \* what each thread and each worker is doing
    notified, \* shipperTracker.notifiedShippers of each service
    timer,    \* the running timer in each shipperTracker, by its assignment
    lost,     \* assignments with a running timer that no tracker holds any more
    offered   \* history: shippers a service offered the order since its tracker
              \* was empty

orderVars == <<ord, assigned>>
tracker == <<notified, timer, lost, offered>>
dispatchVars == <<ord, assigned, row, old, jobs, task, tracker>>

\* A row.  n is attemptCount up to MaxAttempts: above it no test differs.
\* due: nextAttemptAt has passed.  sent: isSentToShipper.
Row == [o : Orders, n : 0..MaxAttempts, sent : BOOLEAN, due : BOOLEAN]

Stages == {"idle", "add_insert", "remove_rows", "add_find", "remove", "cron_job",
           "check", "drop", "save_sent", "release", "retry_find", "retry_save",
           "auto_check", "auto_save"}

\* What a thread holds across its awaits: the order, the assignment, the row as
\* it was read and changed in the entity, and the shipper that was offered the
\* order.  What no later stage uses is left out.
Task == [pc : Stages, o : Orders \cup {Nil}, a : Assignments \cup {Nil},
         row : Row \cup {Nil}, s : Shippers \cup {Nil}]

Idle == [pc |-> "idle", o |-> Nil, a |-> Nil, row |-> Nil, s |-> Nil]

Workers == Threads \cup Services

DispatchTypeOK ==
    /\ ord \in [Orders -> {"unconfirmed", "open", "linked"}]
    /\ assigned \in [Orders -> BOOLEAN]
    /\ row \in [Assignments -> Row \cup {Nil}]
    /\ old \in [Assignments -> BOOLEAN]
    /\ jobs \in [Assignments -> 0..MaxJobs]
    /\ task \in [Workers -> Task]
    /\ notified \in [Services -> [Orders -> SUBSET Shippers]]
    /\ timer \in [Services -> [Orders -> Assignments \cup {Nil}]]
    /\ lost \in SUBSET Assignments
    /\ offered \in [Services -> [Orders -> SUBSET Shippers]]

\* The trackers of a process that has just started.
NoShippers == [w \in Services |-> [o \in Orders |-> {}]]
NoTimers   == [w \in Services |-> [o \in Orders |-> Nil]]

DispatchInit ==
    /\ ord = [o \in Orders |-> "unconfirmed"]
    /\ assigned = [o \in Orders |-> FALSE]
    /\ row = [a \in Assignments |-> Nil]
    /\ old = [a \in Assignments |-> FALSE]
    /\ jobs = [a \in Assignments |-> 0]
    /\ task = [t \in Workers |-> Idle]
    /\ notified = NoShippers /\ offered = NoShippers
    /\ timer = NoTimers /\ lost = {}

-----------------------------------------------------------------------------
At(t, pc)       == task[t].pc = pc
Free(t)         == /\ At(t, "idle")
                   /\ Cardinality({u \in Workers : ~At(u, "idle")}) < MaxBusy
Start(t, rec)   == Free(t) /\ task' = [task EXCEPT ![t] = rec]
Goto(t, pc)     == task' = [task EXCEPT ![t].pc = pc]
End(t)          == task' = [task EXCEPT ![t] = Idle]

Live(a)   == row[a] # Nil
RowsOf(o) == {a \in Assignments : Live(a) /\ row[a].o = o}
Delete(A) == row' = [a \in Assignments |-> IF a \in A THEN Nil ELSE row[a]]

\* save(row) of an entity read earlier: all its columns are written, and a row
\* that was deleted in between is inserted again.
Write(a, r) == row' = [row EXCEPT ![a] = r]

\* An id nothing refers to, for a new row.
Fresh(a) == /\ ~Live(a) /\ jobs[a] = 0
            /\ \A w \in Services : a \notin lost /\ \A o \in Orders : timer[w][o] # a
            /\ \A t \in Workers : task[t].a # a

\* ShipperNotificationTracker.clearOrder, of the service's own tracker.
ClearOrder(w, o) ==
    /\ notified' = [notified EXCEPT ![w][o] = {}]
    /\ timer' = [timer EXCEPT ![w][o] = Nil]
    /\ offered' = [offered EXCEPT ![w][o] = {}]
    /\ UNCHANGED lost

-----------------------------------------------------------------------------
(***************************************************************************)
(* The order handlers.                                                     *)
(***************************************************************************)

\* A restaurant confirms.  An order that has a shipping detail gets its foreign
\* key by that save, and no assignment.
Confirm(t, o) ==
    /\ ord[o] = "unconfirmed"
    /\ IF assigned[o]
         THEN ord' = [ord EXCEPT ![o] = "linked"] /\ UNCHANGED task
         ELSE /\ ord' = [ord EXCEPT ![o] = "open"]
              /\ Start(t, [Idle EXCEPT !.pc = "add_find", !.o = o])
    /\ UNCHANGED <<assigned, row, old, jobs, tracker>>

\* A restaurant moves a confirmed order on or cancels it.
Unconfirm(t, o) ==
    /\ ord[o] # "unconfirmed"
    /\ ord' = [ord EXCEPT ![o] = "unconfirmed"]
    /\ Start(t, [Idle EXCEPT !.pc = "remove_rows", !.o = o])
    /\ UNCHANGED <<assigned, row, old, jobs, tracker>>

\* assignOrderToShipper: the foreign key of the order is not set.
Accept(t, o) ==
    /\ ord[o] = "open"
    /\ ~assigned[o]
    /\ assigned' = [assigned EXCEPT ![o] = TRUE]
    /\ ord' = [ord EXCEPT ![o] = "unconfirmed"]
    /\ Start(t, [Idle EXCEPT !.pc = "remove_rows", !.o = o])
    /\ UNCHANGED <<row, old, jobs, tracker>>

RemoveRows(t) ==
    /\ At(t, "remove_rows")
    /\ Delete(RowsOf(task[t].o))
    /\ End(t)
    /\ UNCHANGED <<orderVars, old, jobs, tracker>>

\* rejectOrder: an offered assignment may be offered again.
Reject(o) ==
    /\ row' = [a \in Assignments |->
                 IF a \in RowsOf(o) THEN [row[a] EXCEPT !.sent = FALSE] ELSE row[a]]
    /\ UNCHANGED <<orderVars, old, jobs, task, tracker>>

\* addPendingAssignment: the look for an existing assignment and the check of
\* the order come before the insert.
AddFind(t) ==
    LET o == task[t].o IN
    /\ At(t, "add_find")
    /\ IF RowsOf(o) = {} /\ ord[o] = "open" THEN Goto(t, "add_insert") ELSE End(t)
    /\ UNCHANGED <<orderVars, row, old, jobs, tracker>>

AddInsert(t) ==
    /\ At(t, "add_insert")
    /\ \/ \E a \in Assignments :
            /\ Fresh(a)
            /\ Write(a, [o |-> task[t].o, n |-> 0, sent |-> FALSE, due |-> TRUE])
            /\ old' = [old EXCEPT ![a] = FALSE]
       \/ /\ \A a \in Assignments : ~Fresh(a)    \* bound: the model's ids are used up
          /\ UNCHANGED <<row, old>>
    /\ End(t)
    /\ UNCHANGED <<orderVars, jobs, tracker>>

\* autoCancelUnassignedOrders: expired assignments of confirmed orders.
AutoCancelList(t, a) ==
    /\ Live(a) /\ old[a]
    /\ ord[row[a].o] # "unconfirmed"
    /\ Start(t, [Idle EXCEPT !.pc = "auto_check", !.o = row[a].o, !.a = a])
    /\ UNCHANGED <<orderVars, row, old, jobs, tracker>>

AutoCancelCheck(t) ==
    LET o == task[t].o IN
    /\ At(t, "auto_check")
    /\ IF ord[o] = "linked" THEN Delete(RowsOf(o)) /\ End(t)
                            ELSE Goto(t, "auto_save") /\ UNCHANGED row
    /\ UNCHANGED <<orderVars, old, jobs, tracker>>

\* The save and then the deletion of the one assignment.
AutoCancelSave(t) ==
    /\ At(t, "auto_save")
    /\ ord' = [ord EXCEPT ![task[t].o] = "unconfirmed"]
    /\ task' = [task EXCEPT ![t].pc = "remove", ![t].o = Nil]
    /\ UNCHANGED <<assigned, row, old, jobs, tracker>>

-----------------------------------------------------------------------------
(***************************************************************************)
(* checkPendingAssignmentsAndCreateJobs, every 5 seconds.                  *)
(***************************************************************************)
\* A defect: an assignment that is not valid is skipped, not removed.
CronRead_SkipsInvalid(t, a) ==
    /\ Live(a) /\ row[a].due
    /\ ord[row[a].o] = "open" /\ ~row[a].sent /\ ~old[a]
    /\ row[a].n < MaxAttempts
    /\ Start(t, [Idle EXCEPT !.pc = "cron_job", !.a = a])
    /\ UNCHANGED <<orderVars, row, old, jobs, tracker>>

\* validatePendingAssignment.
Valid(a) == /\ ord[row[a].o] = "open"
            /\ ~row[a].sent
            /\ row[a].n < MaxAttempts
            /\ ~old[a]

\* A due row and its order are read; the row is removed unless it is valid.
CronRead(t, a) ==
    /\ Live(a) /\ row[a].due
    /\ Start(t, [Idle EXCEPT !.pc = IF Valid(a) THEN "cron_job" ELSE "remove", !.a = a])
    /\ UNCHANGED <<orderVars, row, old, jobs, tracker>>

\* A job is added whether or not the assignment has one: nextAttemptAt stays.
CronJob(t) ==
    LET a == task[t].a IN
    /\ At(t, "cron_job")
    /\ jobs' = IF jobs[a] < MaxJobs THEN [jobs EXCEPT ![a] = @ + 1] ELSE jobs
    /\ End(t)
    /\ UNCHANGED <<orderVars, row, old, tracker>>

\* remove(assignment) by its id.
Remove(t) ==
    /\ At(t, "remove")
    /\ Delete({task[t].a})
    /\ End(t)
    /\ UNCHANGED <<orderVars, old, jobs, tracker>>

-----------------------------------------------------------------------------
(***************************************************************************)
(* processShipperAssignmentJob.                                            *)
(***************************************************************************)
\* A worker takes the job and reads its assignment with the order.  It saves the
\* entity only when it has made an offer, as sent.
Fetch(w, a) ==
    /\ jobs[a] > 0
    /\ Free(w)
    /\ jobs' = [jobs EXCEPT ![a] = @ - 1]
    /\ task' = IF Live(a)
                 THEN [task EXCEPT ![w] =
                         IF ord[row[a].o] = "unconfirmed"
                           THEN [Idle EXCEPT !.pc = "drop", !.o = row[a].o, !.a = a]
                           ELSE [pc |-> "check", o |-> row[a].o, a |-> a,
                                 row |-> [row[a] EXCEPT !.sent = TRUE], s |-> Nil]]
                 ELSE task
    /\ UNCHANGED <<orderVars, row, old, tracker>>

\* An order that needs no shipper any more: its assignment goes, and what this
\* service has tracked.
Drop(w) ==
    /\ At(w, "drop")
    /\ Delete({task[w].a})
    /\ ClearOrder(w, task[w].o)
    /\ End(w)
    /\ UNCHANGED <<orderVars, old, jobs>>

\* The relation of the order is read again before it is offered.
CheckLinked(w) ==
    /\ At(w, "check")
    /\ ord[task[w].o] = "linked"
    /\ task' = [task EXCEPT ![w].pc = "drop", ![w].row = Nil]
    /\ UNCHANGED <<orderVars, row, old, jobs, tracker>>

\* The nearest available shipper this service has not notified yet is offered
\* the order.
Offer(w, s) ==
    LET o == task[w].o IN
    /\ At(w, "check")
    /\ ord[o] # "linked"
    /\ s \notin notified[w][o]
    /\ offered' = [offered EXCEPT ![w][o] = @ \cup {s}]
    /\ task' = [task EXCEPT ![w].pc = "save_sent", ![w].s = s]
    /\ UNCHANGED <<orderVars, row, old, jobs, notified, timer, lost>>

\* scheduleRetryForAssignment: given up after MaxRetries, as counted in the
\* entity the caller holds.
RetryStage(r) == IF r.n >= MaxRetries THEN "remove" ELSE "retry_find"

Retry(t, r) ==
    task' = [task EXCEPT ![t] = [Idle EXCEPT !.pc = RetryStage(r), !.a = task[t].a]]

\* No shipper is in reach.
NoShipper(w) ==
    /\ At(w, "check")
    /\ ord[task[w].o] # "linked"
    /\ Retry(w, task[w].row)
    /\ UNCHANGED <<orderVars, row, old, jobs, tracker>>

\* setResponseTimeout: the timer takes the place of a running one in the map,
\* which runs on.
SetTimeout(w, o, a) ==
    /\ lost' = lost \cup ({timer[w][o]} \ {Nil})
    /\ timer' = [timer EXCEPT ![w][o] = a]

\* A defect: the notified shipper is not remembered.
SaveSent_Untracked(w) ==
    LET k == task[w] IN
    /\ At(w, "save_sent")
    /\ Write(k.a, k.row)
    /\ SetTimeout(w, k.o, k.a)
    /\ End(w)
    /\ UNCHANGED <<orderVars, old, jobs, notified, offered>>

\* A defect: the timeout looks its assignment up by the id of the order.
SaveSent_TimerByOrder(w) ==
    LET k == task[w] IN
    /\ At(w, "save_sent")
    /\ Write(k.a, k.row)
    /\ notified' = [notified EXCEPT ![w][k.o] = @ \cup {k.s}]
    /\ SetTimeout(w, k.o, k.o)
    /\ End(w)
    /\ UNCHANGED <<orderVars, old, jobs, offered>>

\* The entity is saved, the shipper tracked by this service, and a timer set.
SaveSent(w) ==
    LET k == task[w] IN
    /\ At(w, "save_sent")
    /\ Write(k.a, k.row)
    /\ notified' = [notified EXCEPT ![w][k.o] = @ \cup {k.s}]
    /\ SetTimeout(w, k.o, k.a)
    /\ End(w)
    /\ UNCHANGED <<orderVars, old, jobs, offered>>

\* A response timer goes off: the assignment is read and marked as not sent.
TimerFires(t, a) ==
    /\ \E w \in Services :
         \/ \E o \in Orders : /\ timer[w][o] = a
                              /\ timer' = [timer EXCEPT ![w][o] = Nil]
                              /\ UNCHANGED lost
         \/ /\ a \in lost
            /\ lost' = lost \ {a}
            /\ UNCHANGED timer
    /\ IF Live(a)
         THEN Start(t, [Idle EXCEPT !.pc = "release", !.a = a,
                                    !.row = [row[a] EXCEPT !.sent = FALSE]])
         ELSE Free(t) /\ UNCHANGED task
    /\ UNCHANGED <<orderVars, row, old, jobs, notified, offered>>

\* It is saved, then a retry is scheduled.
Release(t) ==
    /\ At(t, "release")
    /\ Write(task[t].a, task[t].row)
    /\ Retry(t, task[t].row)
    /\ UNCHANGED <<orderVars, old, jobs, tracker>>

\* The row after one more attempt.
Attempted(r) == [r EXCEPT !.due = FALSE, !.n = IF @ < MaxAttempts THEN @ + 1 ELSE @]

RetryFind(t) ==
    LET a == task[t].a IN
    /\ At(t, "retry_find")
    /\ IF Live(a)
         THEN task' = [task EXCEPT ![t].pc = "retry_save", ![t].row = Attempted(row[a])]
         ELSE End(t)
    /\ UNCHANGED <<orderVars, row, old, jobs, tracker>>

RetrySave(t) ==
    /\ At(t, "retry_save")
    /\ Write(task[t].a, task[t].row)
    /\ End(t)
    /\ UNCHANGED <<orderVars, old, jobs, tracker>>

-----------------------------------------------------------------------------
\* Time passes for a row.
BecomeDue(a) == /\ Live(a) /\ ~row[a].due
                /\ row' = [row EXCEPT ![a].due = TRUE]
                /\ UNCHANGED <<orderVars, old, jobs, task, tracker>>

BecomeOld(a) == /\ Live(a) /\ ~old[a]
                /\ old' = [old EXCEPT ![a] = TRUE]
                /\ UNCHANGED <<orderVars, row, jobs, task, tracker>>

\* The jobs the workers have taken for an assignment.
InProgress(a) == Cardinality({w \in Services : task[w].a = a})

\* The process stops and starts again, any number of times.  A job in progress
\* goes back to the queue when it expires there.
Crash ==
    /\ Restarts
    /\ jobs' = [a \in Assignments |-> IF jobs[a] + InProgress(a) <= MaxJobs
                                        THEN jobs[a] + InProgress(a) ELSE MaxJobs]
    /\ task' = [t \in Workers |-> Idle]
    /\ notified' = NoShippers /\ offered' = NoShippers
    /\ timer' = NoTimers /\ lost' = {}
    /\ UNCHANGED <<orderVars, row, old>>

\* A thread goes on after an await.
Continue(t) ==
    \/ RemoveRows(t) \/ AddFind(t) \/ AddInsert(t)
    \/ AutoCancelCheck(t) \/ AutoCancelSave(t)
    \/ CronJob(t) \/ Remove(t) \/ Release(t) \/ RetryFind(t) \/ RetrySave(t)

WorkerStep(w) ==
    \/ \E a \in Assignments : Fetch(w, a)
    \/ Drop(w) \/ CheckLinked(w) \/ NoShipper(w) \/ SaveSent(w)
    \/ \E s \in Shippers : Offer(w, s)
    \/ Remove(w) \/ RetryFind(w) \/ RetrySave(w)

DispatchNext ==
    \/ \E w \in Services : WorkerStep(w)
    \/ \E t \in Threads :
        \/ \E o \in Orders : Confirm(t, o) \/ Unconfirm(t, o) \/ Accept(t, o)
        \/ \E a \in Assignments : \/ AutoCancelList(t, a)
                                  \/ CronRead(t, a)
                                  \/ TimerFires(t, a)
        \/ Continue(t)
    \/ \E o \in Orders : Reject(o)
    \/ \E a \in Assignments : BecomeDue(a) \/ BecomeOld(a)
    \/ Crash

DispatchSafe == DispatchInit /\ [][DispatchNext]_dispatchVars

\* From some time on the process stays up: awaits return, every worker polls,
\* timers go off, the cron jobs run and time passes.  Nobody has to confirm,
\* accept or reject.  Cron and timers do not wait for a thread in the program:
\* strong fairness makes up for the bounds on threads.
DispatchFairness ==
    /\ <>[][~Crash]_dispatchVars
    /\ \A w \in Services : WF_dispatchVars(WorkerStep(w))
    /\ \A t \in Threads : WF_dispatchVars(Continue(t))
    /\ \A a \in Assignments :
        /\ SF_dispatchVars(\E t \in Threads : CronRead(t, a))
        /\ SF_dispatchVars(\E t \in Threads : AutoCancelList(t, a))
        /\ SF_dispatchVars(\E t \in Threads : TimerFires(t, a))
        /\ WF_dispatchVars(BecomeDue(a))
        /\ WF_dispatchVars(BecomeOld(a))

DispatchSpec == DispatchSafe /\ DispatchFairness

-----------------------------------------------------------------------------
(***************************************************************************)
(* Properties.                                                             *)
(***************************************************************************)

\* Between two clearings of its tracker no service offers an order twice to one
\* shipper, whichever assignment, job, retry or timer the offer comes from, and
\* whatever the other service does with the same order and row in between.  A
\* shipper may get the order once from each service: neither sees the tracker
\* of the other.
NoRepeatOffer ==
    [][\A w \in Services, s \in Shippers :
         Offer(w, s) => s \notin offered[w][task[w].o]]_dispatchVars

\* No assignment stays in the table for ever: whatever saves of stale rows
\* bring it back, its retries, its age or its order get it removed.
RowEventuallyRemoved == \A a \in Assignments : Live(a) ~> ~Live(a)

\* The cron announces "Cancel orders after 30 minutes without shipper": a
\* confirmed order is assigned, or it does not stay confirmed.
UnassignedEventuallyResolved ==
    \A o \in Orders : ord[o] = "open" /\ ~assigned[o] ~> ord[o] # "open" \/ assigned[o]
=============================================================================

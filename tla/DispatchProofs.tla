--------------------------- MODULE DispatchProofs ---------------------------
(***************************************************************************)
(* Dispatch for every set of orders, shippers, assignments, threads and    *)
(* services and every retry limit: the type invariant and NoRepeatOffer.   *)
(***************************************************************************)
EXTENDS Dispatch, FiniteSetTheorems, TLAPS

\* What a thread has in hand at the stages that use it.
TaskOK(r) ==
    /\ r.pc \in {"add_find", "add_insert", "remove_rows", "auto_check",
                 "auto_save", "check", "drop", "save_sent"} => r.o \in Orders
    /\ r.pc \in {"check", "save_sent", "release", "retry_save"} => r.row \in Row
    /\ r.pc \in {"check", "release", "retry_find"} => r.a \in Assignments
    /\ r.pc = "save_sent" => r.s \in Shippers

\* The shipper a service has offered the order but not yet remembered.
InFlight(w, o) == IF At(w, "save_sent") /\ task[w].o = o THEN {task[w].s} ELSE {}

\* Every offer of a service is in its tracker or about to be entered by its one
\* worker: no other offer of that service can come in between.
Tracking == \A w \in Services, o \in Orders :
               offered[w][o] \subseteq notified[w][o] \cup InFlight(w, o)

DispatchInv ==
    DispatchTypeOK /\ Tracking /\ \A t \in Workers : TaskOK(task[t])

\* The types of all variables but task.
RestTyped ==
    /\ ord \in [Orders -> {"unconfirmed", "open", "linked"}]
    /\ assigned \in [Orders -> BOOLEAN]
    /\ row \in [Assignments -> Row \cup {Nil}]
    /\ old \in [Assignments -> BOOLEAN]
    /\ jobs \in [Assignments -> 0..MaxJobs]
    /\ notified \in [Services -> [Orders -> SUBSET Shippers]]
    /\ timer \in [Services -> [Orders -> Assignments \cup {Nil}]]
    /\ lost \in SUBSET Assignments
    /\ offered \in [Services -> [Orders -> SUBSET Shippers]]

LEMMA IdleOK == Idle \in Task /\ TaskOK(Idle)
  BY DEF Idle, Task, Stages, TaskOK

LEMMA InitInv == DispatchInit => DispatchInv
<1> SUFFICES ASSUME DispatchInit PROVE DispatchInv
  OBVIOUS
<1>1. task \in [Workers -> Task] /\ \A t \in Workers : TaskOK(task[t])
  BY IdleOK DEF DispatchInit
<1>2. DispatchTypeOK
  BY <1>1, DispatchAssumption DEF DispatchInit, DispatchTypeOK, NoShippers, NoTimers
<1>3. Tracking
  BY DEF DispatchInit, Tracking, NoShippers
<1> QED BY <1>1, <1>2, <1>3 DEF DispatchInv

\* A thread that moves on leaves what the others hold.
LEMMA OneTask ==
  ASSUME DispatchInv, NEW t \in Workers, NEW r \in Task, TaskOK(r),
         task' = [task EXCEPT ![t] = r]
  PROVE  /\ task' \in [Workers -> Task]
         /\ \A u \in Workers : TaskOK(task'[u])
         /\ task'[t] = r
         /\ \A u \in Workers : u # t => task'[u] = task[u]
  BY DEF DispatchInv, DispatchTypeOK, Workers

\* A step outside a worker's window between an offer and its entry in the
\* tracker, which leaves offers and trackers alone.
LEMMA TaskStep ==
  ASSUME DispatchInv, NEW t \in Workers, NEW r \in Task, TaskOK(r),
         task' = [task EXCEPT ![t] = r], RestTyped',
         t \in Services => ~At(t, "save_sent"),
         UNCHANGED <<notified, offered>>
  PROVE  DispatchInv'
<1>1. /\ task' \in [Workers -> Task]
      /\ \A u \in Workers : TaskOK(task'[u])
      /\ \A u \in Workers : u # t => task'[u] = task[u]
  BY OneTask
<1>2. ASSUME NEW w \in Services, NEW o \in Orders
      PROVE  InFlight(w, o) \subseteq InFlight(w, o)'
  BY <1>1 DEF InFlight, At, Workers
<1>3. Tracking'
  BY <1>2 DEF DispatchInv, Tracking
<1> QED BY <1>1, <1>3 DEF DispatchInv, DispatchTypeOK, RestTyped, TaskOK

LEMMA EndStep ==
  ASSUME DispatchInv, NEW t \in Workers, End(t), RestTyped',
         t \in Services => ~At(t, "save_sent"), UNCHANGED <<notified, offered>>
  PROVE  DispatchInv'
  BY IdleOK, TaskStep DEF End

\* Moving on with what the thread has.
LEMMA GotoStep ==
  ASSUME DispatchInv, NEW t \in Workers, NEW pc \in Stages, Goto(t, pc), RestTyped',
         TaskOK([task[t] EXCEPT !.pc = pc]),
         t \in Services => ~At(t, "save_sent"), UNCHANGED <<notified, offered>>
  PROVE  DispatchInv'
<1>1. PICK r \in Task : r = [task[t] EXCEPT !.pc = pc]
  BY DEF DispatchInv, DispatchTypeOK, Task
<1>2. task' = [task EXCEPT ![t] = r]
  BY <1>1 DEF Goto, DispatchInv, DispatchTypeOK
<1> QED BY <1>1, <1>2, TaskStep

LEMMA StartStep ==
  ASSUME DispatchInv, NEW t \in Workers, NEW r \in Task, Start(t, r), TaskOK(r),
         RestTyped', UNCHANGED <<notified, offered>>
  PROVE  DispatchInv'
  BY TaskStep DEF Start, Free, At

\* Turning to the retry of an assignment, or to its removal.
LEMMA RetryStep ==
  ASSUME DispatchInv, NEW t \in Workers, NEW r, Retry(t, r), RestTyped',
         task[t].a \in Assignments,
         t \in Services => ~At(t, "save_sent"), UNCHANGED <<notified, offered>>
  PROVE  DispatchInv'
<1>1. PICK pc \in {"remove", "retry_find"} : pc = RetryStage(r)
  BY DEF RetryStage
<1>2. PICK k \in Task : k = [Idle EXCEPT !.pc = RetryStage(r), !.a = task[t].a]
  BY <1>1 DEF Task, Idle, Stages
<1>3. TaskOK(k)
  BY <1>1, <1>2 DEF TaskOK, Idle
<1> QED BY <1>2, <1>3, TaskStep DEF Retry

LEMMA AttemptedRow == \A r \in Row : Attempted(r) \in Row
<1> SUFFICES ASSUME NEW r \in Row PROVE Attempted(r) \in Row
  OBVIOUS
<1> DEFINE n == IF r.n < MaxAttempts THEN r.n + 1 ELSE r.n
<1>1. r.n \in 0..MaxAttempts
  BY DEF Row
<1>2. n \in 0..MaxAttempts
  BY <1>1, DispatchAssumption
<1> HIDE DEF n
<1>3. [r EXCEPT !.due = FALSE, !.n = n] \in Row
  BY <1>2 DEF Row
<1> QED BY <1>3 DEF n, Attempted

\* A step of nobody.
LEMMA NoTaskStep ==
  ASSUME DispatchInv, RestTyped', UNCHANGED <<task, notified, offered>>
  PROVE  DispatchInv'
  BY DEF DispatchInv, DispatchTypeOK, RestTyped, Tracking, InFlight, At, TaskOK

\* Writes and deletions keep the table typed.
LEMMA RowsTyped ==
  ASSUME DispatchInv
  PROVE  /\ \A a, r : r \in Row /\ Write(a, r) => row' \in [Assignments -> Row \cup {Nil}]
         /\ \A A : Delete(A) => row' \in [Assignments -> Row \cup {Nil}]
<1>1. row \in [Assignments -> Row \cup {Nil}]
  BY DEF DispatchInv, DispatchTypeOK
<1> QED BY <1>1 DEF Write, Delete

-----------------------------------------------------------------------------
LEMMA OrderInv ==
  ASSUME DispatchInv, NEW t \in Threads
  PROVE  /\ \A o \in Orders : Confirm(t, o) => DispatchInv'
         /\ \A o \in Orders : Unconfirm(t, o) => DispatchInv'
         /\ \A o \in Orders : Accept(t, o) => DispatchInv'
         /\ RemoveRows(t) => DispatchInv'
         /\ AddFind(t) => DispatchInv'
         /\ AddInsert(t) => DispatchInv'
<1> USE DEF tracker, orderVars
<1>t. t \in Workers /\ t \notin Services /\ RestTyped /\ task[t] \in Task /\ TaskOK(task[t])
  BY DispatchAssumption DEF Workers, DispatchInv, DispatchTypeOK, RestTyped
<1>1. ASSUME NEW o \in Orders, Confirm(t, o) PROVE DispatchInv'
  <2>1. RestTyped'
    BY <1>1, <1>t DEF Confirm, RestTyped
  <2>2. CASE assigned[o]
    BY <1>1, <2>1, <2>2, NoTaskStep DEF Confirm
  <2>3. CASE ~assigned[o]
    <3>1. PICK r \in Task : r = [Idle EXCEPT !.pc = "add_find", !.o = o]
      BY DEF Task, Idle, Stages
    <3>2. TaskOK(r)
      BY <3>1 DEF TaskOK, Idle
    <3> QED BY <1>1, <1>t, <2>1, <2>3, <3>1, <3>2, StartStep DEF Confirm
  <2> QED BY <2>2, <2>3
<1>2. ASSUME NEW o \in Orders, Unconfirm(t, o) \/ Accept(t, o) PROVE DispatchInv'
  <2>1. RestTyped'
    BY <1>2, <1>t DEF Unconfirm, Accept, RestTyped
  <2>2. PICK r \in Task : r = [Idle EXCEPT !.pc = "remove_rows", !.o = o]
    BY DEF Task, Idle, Stages
  <2>3. TaskOK(r)
    BY <2>2 DEF TaskOK, Idle
  <2> QED BY <1>2, <1>t, <2>1, <2>2, <2>3, StartStep DEF Unconfirm, Accept
<1>3. ASSUME RemoveRows(t) PROVE DispatchInv'
  <2>1. RestTyped'
    BY <1>3, <1>t, RowsTyped DEF RemoveRows, RestTyped
  <2> QED BY <1>3, <1>t, <2>1, EndStep DEF RemoveRows
<1>4. ASSUME AddFind(t) PROVE DispatchInv'
  <2>1. RestTyped'
    BY <1>4, <1>t DEF AddFind, RestTyped
  <2>2. CASE End(t)
    BY <1>4, <1>t, <2>1, <2>2, EndStep DEF AddFind
  <2>3. CASE Goto(t, "add_insert")
    <3>1. TaskOK([task[t] EXCEPT !.pc = "add_insert"])
      BY <1>4, <1>t DEF AddFind, At, TaskOK, Task
    <3> QED BY <1>4, <1>t, <2>1, <2>3, <3>1, GotoStep DEF AddFind, Stages
  <2> QED BY <1>4, <2>2, <2>3 DEF AddFind
<1>5. ASSUME AddInsert(t) PROVE DispatchInv'
  <2>1. [o |-> task[t].o, n |-> 0, sent |-> FALSE, due |-> TRUE] \in Row
    BY <1>5, <1>t, DispatchAssumption DEF AddInsert, At, TaskOK, Row
  <2>2. row' \in [Assignments -> Row \cup {Nil}]
    BY <1>5, <1>t, <2>1, RowsTyped DEF AddInsert, RestTyped
  <2>3. RestTyped'
    BY <1>5, <1>t, <2>2 DEF AddInsert, RestTyped
  <2> QED BY <1>5, <1>t, <2>3, EndStep DEF AddInsert
<1> QED BY <1>1, <1>2, <1>3, <1>4, <1>5

LEMMA CronInv ==
  ASSUME DispatchInv, NEW t \in Threads
  PROVE  /\ \A a \in Assignments : AutoCancelList(t, a) => DispatchInv'
         /\ AutoCancelCheck(t) => DispatchInv'
         /\ AutoCancelSave(t) => DispatchInv'
         /\ \A a \in Assignments : CronRead(t, a) => DispatchInv'
         /\ CronJob(t) => DispatchInv'
<1> USE DEF tracker, orderVars
<1>t. t \in Workers /\ t \notin Services /\ RestTyped /\ task[t] \in Task /\ TaskOK(task[t])
  BY DispatchAssumption DEF Workers, DispatchInv, DispatchTypeOK, RestTyped
<1>1. ASSUME NEW a \in Assignments, AutoCancelList(t, a) PROVE DispatchInv'
  <2>1. RestTyped' /\ row[a].o \in Orders
    BY <1>1, <1>t DEF AutoCancelList, Live, RestTyped, Row
  <2>2. PICK r \in Task : r = [Idle EXCEPT !.pc = "auto_check", !.o = row[a].o, !.a = a]
    BY <2>1 DEF Task, Idle, Stages
  <2>3. TaskOK(r)
    BY <2>1, <2>2 DEF TaskOK, Idle
  <2> QED BY <1>1, <1>t, <2>1, <2>2, <2>3, StartStep DEF AutoCancelList
<1>2. ASSUME AutoCancelCheck(t) PROVE DispatchInv'
  <2>1. RestTyped'
    BY <1>2, <1>t, RowsTyped DEF AutoCancelCheck, RestTyped
  <2>2. CASE End(t)
    BY <1>2, <1>t, <2>1, <2>2, EndStep DEF AutoCancelCheck
  <2>3. CASE Goto(t, "auto_save")
    <3>1. TaskOK([task[t] EXCEPT !.pc = "auto_save"])
      BY <1>2, <1>t DEF AutoCancelCheck, At, TaskOK, Task
    <3> QED BY <1>2, <1>t, <2>1, <2>3, <3>1, GotoStep DEF AutoCancelCheck, Stages
  <2> QED BY <1>2, <2>2, <2>3 DEF AutoCancelCheck
<1>3. ASSUME AutoCancelSave(t) PROVE DispatchInv'
  <2>1. RestTyped'
    BY <1>3, <1>t DEF AutoCancelSave, RestTyped
  <2>2. PICK r \in Task : r = [task[t] EXCEPT !.pc = "remove", !.o = Nil]
    BY <1>t DEF Task, Stages
  <2>3. TaskOK(r)
    BY <1>3, <1>t, <2>2 DEF AutoCancelSave, At, TaskOK, Task
  <2>4. task' = [task EXCEPT ![t] = r]
    BY <1>3, <1>t, <2>2 DEF AutoCancelSave, DispatchInv, DispatchTypeOK
  <2> QED BY <1>3, <1>t, <2>1, <2>3, <2>4, TaskStep DEF AutoCancelSave
<1>4. ASSUME NEW a \in Assignments, CronRead(t, a) PROVE DispatchInv'
  <2>1. RestTyped'
    BY <1>4, <1>t DEF CronRead, RestTyped
  <2>2. PICK pc \in {"cron_job", "remove"} : pc = IF Valid(a) THEN "cron_job" ELSE "remove"
    OBVIOUS
  <2>3. PICK r \in Task : r = [Idle EXCEPT !.pc = pc, !.a = a]
    BY <2>2 DEF Task, Idle, Stages
  <2>4. TaskOK(r)
    BY <2>2, <2>3 DEF TaskOK, Idle
  <2> QED BY <1>4, <1>t, <2>1, <2>2, <2>3, <2>4, StartStep DEF CronRead
<1>5. ASSUME CronJob(t) PROVE DispatchInv'
  <2> DEFINE a == task[t].a
  <2>0. jobs' \in [Assignments -> 0..MaxJobs]
    <3>1. ASSUME a \in Assignments, jobs[a] < MaxJobs PROVE jobs[a] + 1 \in 0..MaxJobs
      BY <3>1, <1>t, DispatchAssumption DEF RestTyped
    <3> QED BY <1>5, <1>t, <3>1 DEF CronJob, RestTyped
  <2>1. RestTyped'
    BY <1>5, <1>t, <2>0 DEF CronJob, RestTyped
  <2> QED BY <1>5, <1>t, <2>1, EndStep DEF CronJob
<1> QED BY <1>1, <1>2, <1>3, <1>4, <1>5

\* What the worker and the callbacks share.
LEMMA RetryInv ==
  ASSUME DispatchInv, NEW t \in Workers
  PROVE  /\ Remove(t) => DispatchInv'
         /\ Release(t) => DispatchInv'
         /\ RetryFind(t) => DispatchInv'
         /\ RetrySave(t) => DispatchInv'
<1> USE DEF tracker, orderVars
<1>t. RestTyped /\ task[t] \in Task /\ TaskOK(task[t])
  BY DEF DispatchInv, DispatchTypeOK, RestTyped
<1>1. ASSUME Remove(t) PROVE DispatchInv'
  <2>1. RestTyped'
    BY <1>1, <1>t, RowsTyped DEF Remove, RestTyped
  <2> QED BY <1>1, <2>1, EndStep DEF Remove, At
<1>2. ASSUME Release(t) PROVE DispatchInv'
  <2>1. task[t].row \in Row /\ task[t].a \in Assignments
    BY <1>2, <1>t DEF Release, At, TaskOK
  <2>2. row' \in [Assignments -> Row \cup {Nil}]
    BY <1>2, <2>1, RowsTyped DEF Release
  <2>3. RestTyped'
    BY <1>2, <1>t, <2>2 DEF Release, RestTyped
  <2> QED BY <1>2, <2>1, <2>3, RetryStep DEF Release, At
<1>3. ASSUME RetryFind(t) PROVE DispatchInv'
  <2>1. RestTyped'
    BY <1>3, <1>t DEF RetryFind, RestTyped
  <2>2. CASE ~Live(task[t].a)
    BY <1>3, <2>1, <2>2, EndStep DEF RetryFind, At
  <2>3. CASE Live(task[t].a)
    <3> DEFINE a == task[t].a
    <3>1. task' = [task EXCEPT ![t] = [task[t] EXCEPT !.pc = "retry_save",
                                                      !.row = Attempted(row[a])]]
      BY <1>3, <2>3 DEF RetryFind, DispatchInv, DispatchTypeOK
    <3>2. Attempted(row[a]) \in Row
      BY <1>3, <1>t, <2>3, AttemptedRow DEF Live, RestTyped, RetryFind, At, TaskOK
    <3>3. PICK r \in Task : r = [task[t] EXCEPT !.pc = "retry_save",
                                                !.row = Attempted(row[a])]
      BY <1>t, <3>2 DEF Task, Stages
    <3>4. TaskOK(r)
      BY <1>t, <3>2, <3>3 DEF TaskOK, Task
    <3> QED BY <1>3, <2>1, <3>1, <3>3, <3>4, TaskStep DEF RetryFind, At
  <2> QED BY <2>2, <2>3
<1>4. ASSUME RetrySave(t) PROVE DispatchInv'
  <2>1. task[t].row \in Row
    BY <1>4, <1>t DEF RetrySave, At, TaskOK
  <2>2. row' \in [Assignments -> Row \cup {Nil}]
    BY <1>4, <2>1, RowsTyped DEF RetrySave
  <2>3. RestTyped'
    BY <1>4, <1>t, <2>2 DEF RetrySave, RestTyped
  <2> QED BY <1>4, <2>3, EndStep DEF RetrySave, At
<1> QED BY <1>1, <1>2, <1>3, <1>4

LEMMA WorkerInv ==
  ASSUME DispatchInv, NEW w \in Services
  PROVE  /\ \A a \in Assignments : Fetch(w, a) => DispatchInv'
         /\ Drop(w) => DispatchInv'
         /\ CheckLinked(w) => DispatchInv'
         /\ NoShipper(w) => DispatchInv'
         /\ \A s \in Shippers : Offer(w, s) => DispatchInv'
         /\ SaveSent(w) => DispatchInv'
<1> USE DEF tracker, orderVars
<1> DEFINE k == task[w]
<1>t. w \in Workers /\ RestTyped /\ k \in Task /\ TaskOK(k)
  BY DEF Workers, DispatchInv, DispatchTypeOK, RestTyped
<1>1. ASSUME NEW a \in Assignments, Fetch(w, a) PROVE DispatchInv'
  <2>0. jobs[a] - 1 \in 0..MaxJobs
    BY <1>1, <1>t, DispatchAssumption DEF Fetch, RestTyped
  <2>1. jobs' = [jobs EXCEPT ![a] = jobs[a] - 1]
    BY <1>1 DEF Fetch
  <2>4. jobs' \in [Assignments -> 0..MaxJobs]
    BY <1>t, <2>0, <2>1 DEF RestTyped
  <2>5. RestTyped'
    BY <1>1, <1>t, <2>4 DEF Fetch, RestTyped
  <2>2. CASE ~Live(a)
    BY <1>1, <2>5, <2>2, NoTaskStep DEF Fetch
  <2>3. CASE Live(a)
    <3>1. row[a] \in Row /\ row[a].o \in Orders /\ [row[a] EXCEPT !.sent = TRUE] \in Row
      BY <1>t, <2>3 DEF Live, RestTyped, Row
    <3>2. PICK r : r = IF ord[row[a].o] = "unconfirmed"
                         THEN [Idle EXCEPT !.pc = "drop", !.o = row[a].o, !.a = a]
                         ELSE [pc |-> "check", o |-> row[a].o, a |-> a,
                               row |-> [row[a] EXCEPT !.sent = TRUE], s |-> Nil]
      OBVIOUS
    <3>3. r \in Task
      BY <3>1, <3>2 DEF Task, Idle, Stages
    <3>4. TaskOK(r)
      BY <3>1, <3>2 DEF TaskOK, Idle
    <3>5. task' = [task EXCEPT ![w] = r]
      BY <1>1, <2>3, <3>2 DEF Fetch
    <3> QED BY <1>1, <1>t, <2>5, <3>3, <3>4, <3>5, TaskStep DEF Fetch, Free, At
  <2> QED BY <2>2, <2>3
<1>2. ASSUME Drop(w) PROVE DispatchInv'
  <2>1. task' = [task EXCEPT ![w] = Idle]
    BY <1>2 DEF Drop, End
  <2>2. /\ task' \in [Workers -> Task]
        /\ \A u \in Workers : TaskOK(task'[u]) /\ (u # w => task'[u] = task[u])
    BY <1>t, <2>1, IdleOK, OneTask
  <2>3. RestTyped'
    BY <1>2, <1>t, RowsTyped DEF Drop, ClearOrder, RestTyped
  <2>4. ASSUME NEW v \in Services, NEW o \in Orders
        PROVE  offered'[v][o] \subseteq notified'[v][o] \cup InFlight(v, o)'
    <3>1. CASE v = w
      BY <1>2, <1>t, <3>1
         DEF Drop, ClearOrder, At, Tracking, InFlight, RestTyped, DispatchInv
    <3>2. CASE v # w
      BY <1>2, <1>t, <2>2, <3>2
         DEF Drop, ClearOrder, At, Tracking, InFlight, RestTyped, DispatchInv, Workers
    <3> QED BY <3>1, <3>2
  <2> QED BY <2>2, <2>3, <2>4 DEF DispatchInv, DispatchTypeOK, RestTyped, TaskOK, Tracking
<1>3. ASSUME CheckLinked(w) PROVE DispatchInv'
  <2>1. RestTyped'
    BY <1>3, <1>t DEF CheckLinked, RestTyped
  <2>2. PICK r : r = [k EXCEPT !.pc = "drop", !.row = Nil]
    OBVIOUS
  <2>3. r \in Task
    BY <1>t, <2>2 DEF Task, Stages
  <2>4. TaskOK(r)
    BY <1>3, <1>t, <2>2 DEF CheckLinked, At, TaskOK, Task
  <2>5. task' = [task EXCEPT ![w] = r]
    BY <1>3, <1>t, <2>2 DEF CheckLinked, DispatchInv, DispatchTypeOK
  <2> QED BY <1>3, <1>t, <2>1, <2>3, <2>4, <2>5, TaskStep DEF CheckLinked, At
<1>4. ASSUME NoShipper(w) PROVE DispatchInv'
  <2>1. RestTyped'
    BY <1>4, <1>t DEF NoShipper, RestTyped
  <2>2. k.a \in Assignments
    BY <1>4, <1>t DEF NoShipper, At, TaskOK
  <2> QED BY <1>4, <1>t, <2>1, <2>2, RetryStep DEF NoShipper, At
<1>5. ASSUME NEW s \in Shippers, Offer(w, s) PROVE DispatchInv'
  <2>1. k.pc = "check" /\ k.o \in Orders /\ k.row \in Row
    BY <1>5, <1>t DEF Offer, At, TaskOK
  <2>2. PICK r \in Task : r = [k EXCEPT !.pc = "save_sent", !.s = s]
    BY <1>t DEF Task, Stages
  <2>3. TaskOK(r) /\ r.pc = "save_sent" /\ r.s = s /\ r.o = k.o
    BY <1>t, <2>1, <2>2 DEF TaskOK, Task
  <2>4. task' = [task EXCEPT ![w] = r]
    BY <1>5, <1>t, <2>2 DEF Offer, DispatchInv, DispatchTypeOK
  <2>5. /\ task' \in [Workers -> Task] /\ task'[w] = r
        /\ \A u \in Workers : TaskOK(task'[u]) /\ (u # w => task'[u] = task[u])
    BY <1>t, <2>3, <2>4, OneTask
  <2>6. RestTyped'
    BY <1>5, <1>t, <2>1 DEF Offer, RestTyped
  <2>7. ASSUME NEW v \in Services, NEW o \in Orders
        PROVE  offered'[v][o] \subseteq notified'[v][o] \cup InFlight(v, o)'
    <3>1. offered[v][o] \subseteq notified[v][o] \cup InFlight(v, o)
      BY DEF DispatchInv, Tracking
    <3>2. notified' = notified /\ offered' = [offered EXCEPT ![w][k.o] = @ \cup {s}]
      BY <1>5 DEF Offer
    <3>3. CASE v = w
      <4>1. offered[v][o] \subseteq notified[v][o]
        BY <2>1, <3>1, <3>3 DEF InFlight, At
      <4>2. CASE o = k.o
        BY <1>t, <2>3, <2>5, <3>2, <3>3, <4>1, <4>2 DEF RestTyped, InFlight, At
      <4>3. CASE o # k.o
        BY <1>t, <3>2, <3>3, <4>1, <4>3 DEF RestTyped
      <4> QED BY <4>2, <4>3
    <3>4. CASE v # w
      BY <1>t, <2>5, <3>1, <3>2, <3>4 DEF RestTyped, InFlight, At, Workers
    <3> QED BY <3>3, <3>4
  <2> QED BY <2>5, <2>6, <2>7 DEF DispatchInv, DispatchTypeOK, RestTyped, TaskOK, Tracking
<1>6. ASSUME SaveSent(w) PROVE DispatchInv'
  <2>1. k.pc = "save_sent" /\ k.o \in Orders /\ k.row \in Row /\ k.s \in Shippers
    BY <1>6, <1>t DEF SaveSent, At, TaskOK
  <2>2. task' = [task EXCEPT ![w] = Idle]
    BY <1>6 DEF SaveSent, End
  <2>3. /\ task' \in [Workers -> Task]
        /\ \A u \in Workers : TaskOK(task'[u]) /\ (u # w => task'[u] = task[u])
    BY <1>t, <2>2, IdleOK, OneTask
  <2>4. row' \in [Assignments -> Row \cup {Nil}]
    BY <1>6, <2>1, RowsTyped DEF SaveSent
  <2>5. k.a \in Assignments \cup {Nil}
    BY <1>t DEF Task
  <2>6. lost' \in SUBSET Assignments
    BY <1>6, <1>t, <2>1 DEF SaveSent, SetTimeout, RestTyped
  <2>7. RestTyped'
    BY <1>6, <1>t, <2>1, <2>4, <2>5, <2>6 DEF SaveSent, SetTimeout, RestTyped
  <2>8. ASSUME NEW v \in Services, NEW o \in Orders
        PROVE  offered'[v][o] \subseteq notified'[v][o] \cup InFlight(v, o)'
    <3>1. offered'[v][o] = offered[v][o]
          /\ offered[v][o] \subseteq notified[v][o] \cup InFlight(v, o)
      BY <1>6 DEF SaveSent, DispatchInv, Tracking
    <3>2. notified' = [notified EXCEPT ![w][k.o] = @ \cup {k.s}]
      BY <1>6 DEF SaveSent
    <3>3. CASE v = w
      <4>1. notified[v][o] \cup InFlight(v, o) \subseteq notified'[v][o]
        BY <1>t, <2>1, <3>2, <3>3 DEF RestTyped, InFlight, At
      <4> QED BY <3>1, <4>1
    <3>4. CASE v # w
      BY <1>t, <2>3, <3>1, <3>2, <3>4 DEF RestTyped, InFlight, At, Workers
    <3> QED BY <3>3, <3>4
  <2> QED BY <2>3, <2>7, <2>8 DEF DispatchInv, DispatchTypeOK, RestTyped, TaskOK, Tracking
<1> QED BY <1>1, <1>2, <1>3, <1>4, <1>5, <1>6

LEMMA TimerInv ==
  ASSUME DispatchInv, NEW t \in Threads, NEW a \in Assignments, TimerFires(t, a)
  PROVE  DispatchInv'
<1> USE DEF tracker, orderVars
<1>t. t \in Workers /\ RestTyped
  BY DEF Workers, DispatchInv, DispatchTypeOK, RestTyped
<1>1. RestTyped'
  <2>1. PICK v \in Services :
          \/ \E o \in Orders : timer' = [timer EXCEPT ![v][o] = Nil] /\ UNCHANGED lost
          \/ lost' = lost \ {a} /\ UNCHANGED timer
    BY DEF TimerFires
  <2>2. timer' \in [Services -> [Orders -> Assignments \cup {Nil}]]
        /\ lost' \in SUBSET Assignments
    <3>1. CASE lost' = lost \ {a} /\ UNCHANGED timer
      BY <1>t, <3>1 DEF RestTyped
    <3>2. ASSUME NEW o \in Orders, timer' = [timer EXCEPT ![v][o] = Nil], UNCHANGED lost
          PROVE  timer' \in [Services -> [Orders -> Assignments \cup {Nil}]]
      <4>1. [timer[v] EXCEPT ![o] = Nil] \in [Orders -> Assignments \cup {Nil}]
        BY <1>t DEF RestTyped
      <4> QED BY <1>t, <3>2, <4>1 DEF RestTyped
    <3> QED BY <1>t, <2>1, <3>1, <3>2 DEF RestTyped
  <2> QED BY <1>t, <2>2 DEF TimerFires, RestTyped
<1>2. CASE ~Live(a)
  BY <1>1, <1>2, NoTaskStep DEF TimerFires
<1>3. CASE Live(a)
  <2>1. [row[a] EXCEPT !.sent = FALSE] \in Row
    BY <1>t, <1>3 DEF Live, RestTyped, Row
  <2>2. PICK r \in Task : r = [Idle EXCEPT !.pc = "release", !.a = a,
                                          !.row = [row[a] EXCEPT !.sent = FALSE]]
    BY <2>1 DEF Task, Idle, Stages
  <2>3. TaskOK(r)
    BY <2>1, <2>2 DEF TaskOK, Idle
  <2> QED BY <1>t, <1>1, <1>3, <2>2, <2>3, StartStep DEF TimerFires
<1> QED BY <1>2, <1>3

LEMMA OutsideInv ==
  ASSUME DispatchInv
  PROVE  /\ \A o \in Orders : Reject(o) => DispatchInv'
         /\ \A a \in Assignments : BecomeDue(a) => DispatchInv'
         /\ \A a \in Assignments : BecomeOld(a) => DispatchInv'
         /\ Crash => DispatchInv'
<1> USE DEF tracker, orderVars
<1>t. RestTyped
  BY DEF DispatchInv, DispatchTypeOK, RestTyped
<1>1. ASSUME NEW o \in Orders, Reject(o) PROVE DispatchInv'
  <2>1. \A a \in RowsOf(o) : [row[a] EXCEPT !.sent = FALSE] \in Row
    BY <1>t DEF RestTyped, RowsOf, Live, Row
  <2>2. RestTyped'
    BY <1>1, <1>t, <2>1 DEF Reject, RestTyped
  <2> QED BY <1>1, <2>2, NoTaskStep DEF Reject
<1>2. ASSUME NEW a \in Assignments, BecomeDue(a) PROVE DispatchInv'
  <2>1. [row[a] EXCEPT !.due = TRUE] \in Row
    BY <1>2, <1>t DEF BecomeDue, RestTyped, Live, Row
  <2>2. row' = [row EXCEPT ![a] = [row[a] EXCEPT !.due = TRUE]]
    BY <1>2, <1>t DEF BecomeDue, RestTyped
  <2>3. RestTyped'
    BY <1>2, <1>t, <2>1, <2>2 DEF BecomeDue, RestTyped
  <2> QED BY <1>2, <2>3, NoTaskStep DEF BecomeDue
<1>3. ASSUME NEW a \in Assignments, BecomeOld(a) PROVE DispatchInv'
  <2>1. RestTyped'
    BY <1>3, <1>t DEF BecomeOld, RestTyped
  <2> QED BY <1>3, <2>1, NoTaskStep DEF BecomeOld
<1>4. ASSUME Crash PROVE DispatchInv'
  <2>1. ASSUME NEW a \in Assignments PROVE InProgress(a) \in Nat
    <3>1. IsFiniteSet({w \in Services : task[w].a = a})
      BY DispatchAssumption, FS_Subset
    <3> QED BY <3>1, FS_CardinalityType DEF InProgress
  <2>2. jobs' \in [Assignments -> 0..MaxJobs]
    <3>1. ASSUME NEW a \in Assignments
          PROVE  (IF jobs[a] + InProgress(a) <= MaxJobs
                    THEN jobs[a] + InProgress(a) ELSE MaxJobs) \in 0..MaxJobs
      <4>1. jobs[a] \in 0..MaxJobs
        BY <1>t DEF RestTyped
      <4> QED BY <2>1, <4>1, DispatchAssumption
    <3> QED BY <1>4, <3>1 DEF Crash
  <2>3. RestTyped'
    BY <1>4, <1>t, <2>2 DEF Crash, RestTyped, NoShippers, NoTimers
  <2>4. task' \in [Workers -> Task] /\ \A u \in Workers : TaskOK(task'[u])
    BY <1>4, IdleOK DEF Crash
  <2>5. Tracking'
    BY <1>4 DEF Crash, Tracking, NoShippers
  <2> QED BY <2>3, <2>4, <2>5 DEF DispatchInv, DispatchTypeOK, RestTyped, TaskOK
<1> QED BY <1>1, <1>2, <1>3, <1>4

-----------------------------------------------------------------------------
LEMMA NextInv == DispatchInv /\ [DispatchNext]_dispatchVars => DispatchInv'
<1> SUFFICES ASSUME DispatchInv, [DispatchNext]_dispatchVars PROVE DispatchInv'
  OBVIOUS
<1>1. ASSUME NEW w \in Services, WorkerStep(w) PROVE DispatchInv'
  BY <1>1, WorkerInv, RetryInv DEF WorkerStep, Workers
<1>2. ASSUME NEW t \in Threads, NEW o \in Orders,
             Confirm(t, o) \/ Unconfirm(t, o) \/ Accept(t, o)
      PROVE  DispatchInv'
  BY <1>2, OrderInv
<1>3. ASSUME NEW t \in Threads, NEW a \in Assignments,
             AutoCancelList(t, a) \/ CronRead(t, a) \/ TimerFires(t, a)
      PROVE  DispatchInv'
  BY <1>3, CronInv, TimerInv
<1>4. ASSUME NEW t \in Threads, Continue(t) PROVE DispatchInv'
  BY <1>4, OrderInv, CronInv, RetryInv DEF Continue, Workers
<1>5. CASE \/ \E o \in Orders : Reject(o)
           \/ \E a \in Assignments : BecomeDue(a) \/ BecomeOld(a)
           \/ Crash
  BY <1>5, OutsideInv
<1>6. CASE UNCHANGED dispatchVars
  BY <1>6, NoTaskStep DEF dispatchVars, tracker, DispatchInv, DispatchTypeOK, RestTyped
<1> QED BY <1>1, <1>2, <1>3, <1>4, <1>5, <1>6 DEF DispatchNext

LEMMA SpecInv == DispatchSafe => []DispatchInv
  BY InitInv, NextInv, PTL DEF DispatchSafe

\* The service keeps its tables, tracker and tasks in their types.
THEOREM DispatchTypeCorrect == DispatchSafe => []DispatchTypeOK
  BY SpecInv, PTL DEF DispatchInv

\* No service offers an order to a shipper twice between two clearings of its
\* tracker, for any number of services at work on one queue and one table, of
\* assignments of the order, jobs, timers and restarts: a service has one
\* worker, which enters an offer before it makes the next.
THEOREM NoRepeatOfferCorrect == DispatchSafe => NoRepeatOffer
<1>1. DispatchInv /\ [DispatchNext]_dispatchVars =>
        [\A w \in Services, s \in Shippers :
           Offer(w, s) => s \notin offered[w][task[w].o]]_dispatchVars
  <2> SUFFICES ASSUME DispatchInv, NEW w \in Services, NEW s \in Shippers, Offer(w, s)
               PROVE  s \notin offered[w][task[w].o]
    OBVIOUS
  <2>1. At(w, "check") /\ s \notin notified[w][task[w].o] /\ task[w].o \in Orders
    BY DEF Offer, At, DispatchInv, Workers, TaskOK
  <2> QED BY <2>1 DEF DispatchInv, Tracking, InFlight, At
<1> QED BY <1>1, SpecInv, PTL DEF DispatchSafe, NoRepeatOffer
=============================================================================

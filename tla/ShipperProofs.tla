---------------------------- MODULE ShipperProofs ----------------------------
(***************************************************************************)
(* The shippers.  ShipperPool for every set of shippers and every number   *)
(* of subscriptions, cleanups and events; ShipperStats for every finite    *)
(* set of orders and every number of handlers, days and restarts.          *)
(***************************************************************************)
EXTENDS ShipperPool, ShipperStats, SumTheorems

-----------------------------------------------------------------------------
(***************************************************************************)
(* The pool of active shippers.                                            *)
(***************************************************************************)

\* PoolTypeOK by the state it is about, and what a record in use refers to.
RowsTyped == row \in [Shippers -> ShipperRow] /\ fitAt \in [Shippers -> 0..MaxTime]

MapTyped == /\ pool \in [Shippers -> Entry \cup {None}] /\ keys \in Nat
            /\ \A s \in In : pool[s].pos <= keys
            /\ \A s, t \in In : pool[s].pos = pool[t].pos => s = t

CallsTyped == /\ call \in [Calls -> Call]
              /\ \A c \in Calls : call[c].pc # "idle" =>
                    call[c].s \in Shippers /\ call[c].dist \in Places

SweepsTyped == /\ sweep \in [Sweepers -> Sweep]
               /\ \A w \in Sweepers : sweep[w].pc # "idle" => sweep[w].s \in Shippers

QueryTyped == /\ query \in Query
              /\ query.pc = "judge" => query.s \in Shippers /\ query.e \in Entry

ClockTyped == now \in 0..MaxTime /\ timer \in 0..Window /\ events \in 0..MaxEvents

OffersTyped == /\ notified \in [Services -> SUBSET Shippers]
               /\ last \in [Services -> Places \cup {0}]

LoadTyped == load \in [Shippers -> 0..MaxActive] /\ overlapped \in [Shippers -> BOOLEAN]

PoolTypeInv == /\ RowsTyped /\ MapTyped /\ CallsTyped /\ SweepsTyped /\ QueryTyped
           /\ ClockTyped /\ OffersTyped /\ LoadTyped

LEMMA NoneTyped ==
  /\ NoRow \in ShipperRow /\ NoCall \in Call /\ NoSweep \in Sweep /\ NoQuery \in Query
  /\ NoCall.pc = "idle" /\ NoSweep.pc = "idle" /\ NoQuery.pc = "idle"
  BY PoolAssumption DEF NoRow, NoCall, NoSweep, NoQuery, ShipperRow, Call, Sweep, Query

LEMMA PoolTypeInit == PoolInit => PoolTypeInv
<1> SUFFICES ASSUME PoolInit PROVE PoolTypeInv
  OBVIOUS
<1>1. RowsTyped /\ ClockTyped /\ OffersTyped /\ LoadTyped
  BY PoolAssumption DEF PoolInit, RowsTyped, ClockTyped, OffersTyped, NobodyNotified, NoLast,
     LoadTyped, ShipperRow
<1>2. MapTyped
  BY DEF PoolInit, MapTyped, In
<1>3. CallsTyped /\ SweepsTyped /\ QueryTyped
  BY NoneTyped DEF PoolInit, CallsTyped, SweepsTyped, QueryTyped
<1> QED BY <1>1, <1>2, <1>3 DEF PoolTypeInv

-----------------------------------------------------------------------------
(***************************************************************************)
(* What a write of a row, a set and a delete of an entry leave.            *)
(***************************************************************************)
LEMMA PutTyped ==
  ASSUME RowsTyped, ClockTyped, NEW s \in Shippers, NEW user \in ShipperRow, Put(s, user)
  PROVE  RowsTyped'
  BY DEF RowsTyped, ClockTyped, Put

LEMMA SaveTyped ==
  ASSUME RowsTyped, ClockTyped, NEW s \in Shippers, NEW user \in ShipperRow, SaveShipper(s, user)
  PROVE  RowsTyped'
<1>1. [row[s] EXCEPT !.active = user.active] \in ShipperRow
  BY DEF RowsTyped, ShipperRow
<1> QED BY <1>1, PutTyped DEF SaveShipper, rows, RowsTyped

LEMMA SetTyped ==
  ASSUME MapTyped, NEW s \in Shippers, NEW e \in Entry, e.pos = keys + 1, PoolSet(s, e)
  PROVE  MapTyped'
<1>1. CASE s \in In
  <2> DEFINE f == [e EXCEPT !.pos = pool[s].pos]
  <2>1. pool[s] \in Entry
    BY <1>1 DEF MapTyped, In
  <2>2. f \in Entry /\ f.pos = pool[s].pos
    BY <2>1 DEF Entry
  <2> HIDE DEF f
  <2>3. pool' = [pool EXCEPT ![s] = f] /\ keys' = keys
    BY <1>1 DEF PoolSet, f
  <2>4. In' = In
    BY <1>1, <2>2, <2>3, NoneAssumption DEF MapTyped, In
  <2>5. \A t \in In : pool'[t].pos = pool[t].pos
    BY <2>2, <2>3 DEF MapTyped, In
  <2> QED BY <2>2, <2>3, <2>4, <2>5 DEF MapTyped
<1>2. CASE s \notin In
  <2>1. pool' = [pool EXCEPT ![s] = e] /\ keys' = keys + 1
    BY <1>2 DEF PoolSet
  <2>2. In' \subseteq In \cup {s}
    BY <2>1 DEF MapTyped, In
  <2>3. \A t \in In : pool'[t] = pool[t] /\ pool[t].pos \in Nat /\ t # s
    BY <1>2, <2>1 DEF MapTyped, In, Entry
  <2>4. pool'[s] = e /\ e.pos \in Nat
    BY <2>1 DEF MapTyped, Entry
  <2>5. pool' \in [Shippers -> Entry \cup {None}] /\ keys' \in Nat
    BY <2>1 DEF MapTyped
  <2>6. \A t \in In' : pool'[t].pos <= keys'
    BY <2>1, <2>2, <2>3, <2>4 DEF MapTyped
  <2>7. \A t, u \in In' : pool'[t].pos = pool'[u].pos => t = u
    BY <2>1, <2>2, <2>3, <2>4 DEF MapTyped
  <2> QED BY <2>5, <2>6, <2>7 DEF MapTyped
<1> QED BY <1>1, <1>2

LEMMA DeleteTyped ==
  ASSUME MapTyped, NEW s \in Shippers, pool' = [pool EXCEPT ![s] = None], keys' = keys
  PROVE  MapTyped' /\ In' = In \ {s} /\ \A t \in In' : pool'[t] = pool[t]
  BY DEF MapTyped, In

LEMMA WalkTyped ==
  ASSUME PoolTypeInv, NEW w \in Sweepers, NEW before \in Int, NEW at, Walk(w, before, at),
         UNCHANGED keys
  PROVE  MapTyped' /\ SweepsTyped' /\ QueryTyped'
<1>1. CASE sweep' = [sweep EXCEPT ![w] = NoSweep] /\ UNCHANGED <<pool, query>>
  BY <1>1, NoneTyped DEF PoolTypeInv, MapTyped, SweepsTyped, QueryTyped, In
<1>2. ASSUME NEW s \in In, RemoveShipper(w, before, s)
      PROVE  MapTyped' /\ SweepsTyped' /\ QueryTyped'
  <2>1. s \in Shippers /\ pool[s].pos \in Nat
    BY DEF PoolTypeInv, MapTyped, In, Entry
  <2>2. MapTyped'
    BY <1>2, <2>1, DeleteTyped DEF RemoveShipper, PoolTypeInv
  <2>3. [pc |-> "read", before |-> before, at |-> pool[s].pos, s |-> s, user |-> NoRow] \in Sweep
    BY <2>1, NoneTyped DEF Sweep
  <2>4. SweepsTyped'
    BY <1>2, <2>1, <2>3 DEF RemoveShipper, PoolTypeInv, SweepsTyped
  <2>5. QueryTyped'
    BY <1>2 DEF RemoveShipper, PoolTypeInv, QueryTyped, Query
  <2> QED BY <2>2, <2>4, <2>5
<1> QED BY <1>1, <1>2 DEF Walk, In

LEMMA CallTyped ==
  ASSUME PoolTypeInv, NEW c \in Calls, NEW new \in Call, call' = [call EXCEPT ![c] = new],
         new.pc # "idle" => new.s \in Shippers /\ new.dist \in Places
  PROVE  CallsTyped'
  BY DEF PoolTypeInv, CallsTyped

LEMMA ShorterTyped ==
  ASSUME PoolTypeInv, NEW s, query' = [query EXCEPT !.first = @ \ {s}]
  PROVE  QueryTyped'
  BY DEF PoolTypeInv, QueryTyped, Query

LEMMA QueryGoTyped ==
  ASSUME PoolTypeInv, NEW best \in Shippers \cup {None}, NEW score \in Nat \cup {NaN},
         QueryGo(best, score)
  PROVE  QueryTyped'
<1>1. CASE query' = NoQuery
  BY <1>1, NoneTyped DEF QueryTyped
<1>2. ASSUME NEW s \in In,
             query' = [query EXCEPT !.pc = "judge", !.at = pool[s].pos, !.s = s,
                                    !.e = pool[s], !.best = best, !.score = score]
      PROVE  QueryTyped'
  <2>1. s \in Shippers /\ pool[s] \in Entry /\ pool[s].pos \in Nat
    BY DEF PoolTypeInv, MapTyped, In, Entry
  <2>2. query \in Query
    BY DEF PoolTypeInv, QueryTyped
  <2>3. query' \in Query
    BY <1>2, <2>1, <2>2 DEF Query
  <2>4. query'.s = s /\ query'.e = pool[s]
    BY <1>2, <2>2 DEF Query
  <2> QED BY <2>1, <2>3, <2>4 DEF QueryTyped
<1> QED BY <1>1, <1>2 DEF QueryGo

LEMMA WorthTyped ==
  ASSUME NEW e \in Entry, NEW time \in Int, NEW extra \in Int
  PROVE  Worth(e, time, extra) \in Nat
<1>1. e.score \in Int /\ e.dist \in Int /\ e.seen \in Int
  <2>1. e.score \in Scores /\ e.dist \in Places /\ e.seen \in 0..MaxTime
    BY DEF Entry
  <2>2. Scores \subseteq Int /\ Places \subseteq Int /\ 0..MaxTime \subseteq Int
    BY PoolAssumption
  <2> QED BY <2>1, <2>2
<1>2. Bonus \in Nat /\ Window \in Nat /\ Rush \in Nat /\ extra # NaN
  BY PoolAssumption
<1> DEFINE score == e.score - e.dist + extra
                    + (IF e.seen > time - Window THEN Bonus ELSE 0)
                    + (IF time \in RushHours THEN Rush ELSE 0)
<1>3. score \in Int
  BY <1>1, <1>2
<1>4. Worth(e, time, extra) = IF score > 0 THEN score ELSE 0
  BY <1>2 DEF Worth
<1> HIDE DEF score
<1> QED BY <1>3, <1>4

LEMMA ExtraTyped ==
  ASSUME PoolTypeInv
  PROVE  query.extra \in Int \cup {NaN} /\ now \in Int /\ Rush \in Nat
<1>1. Extras \subseteq Int \cup {NaN} /\ MaxTime \in Nat /\ Rush \in Nat
  BY PoolAssumption
<1>2. query.extra \in Extras \cup {0} /\ now \in 0..MaxTime
  BY DEF PoolTypeInv, QueryTyped, Query, ClockTyped
<1>3. 0 \in Int /\ now \in Int
  BY <1>1, <1>2
<1> QED BY <1>1, <1>2, <1>3

LEMMA ScoreTyped ==
  ASSUME PoolTypeInv, query.pc = "judge"
  PROVE  IF query.extra = NaN THEN Score = NaN ELSE query.extra \in Int /\ Score \in Nat
<1>1. query.e \in Entry /\ now \in Int /\ query.extra \in Int \cup {NaN}
  BY ExtraTyped DEF PoolTypeInv, QueryTyped
<1>2. CASE query.extra = NaN
  BY <1>2 DEF Score, Worth
<1>3. CASE query.extra # NaN
  BY <1>1, <1>3, WorthTyped DEF Score
<1> QED BY <1>2, <1>3

-----------------------------------------------------------------------------
(***************************************************************************)
(* The type invariant, one step per action.                                *)
(***************************************************************************)
LEMMA PoolTypeNext == PoolTypeInv /\ [PoolNext]_poolVars => PoolTypeInv'
<1> SUFFICES ASSUME PoolTypeInv, [PoolNext]_poolVars PROVE PoolTypeInv'
  OBVIOUS
<1> USE DEF PoolTypeInv
<1>1. ASSUME NEW s \in Shippers, Judge(s) PROVE PoolTypeInv'
  <2>1. [row[s] EXCEPT !.cert = ~@] \in ShipperRow
    BY DEF RowsTyped, ShipperRow
  <2>2. RowsTyped'
    BY <1>1, <2>1, PutTyped DEF Judge
  <2>3. ClockTyped' /\ MapTyped'
    BY <1>1, PoolAssumption DEF Judge, Event, ClockTyped, MapTyped, In, clock, map
  <2> QED BY <1>1, <2>2, <2>3 DEF Judge, CallsTyped, SweepsTyped, QueryTyped, OffersTyped,
             LoadTyped, offers, history
<1>2. ASSUME NEW s \in Shippers, NEW n \in {-1, 1}, Deliveries(s, n) PROVE PoolTypeInv'
  <2>1. [row[s] EXCEPT !.active = @ + n] \in ShipperRow
    BY <1>2 DEF Deliveries, RowsTyped, ShipperRow
  <2>2. RowsTyped'
    BY <1>2, <2>1, PutTyped DEF Deliveries
  <2>3. ClockTyped' /\ MapTyped'
    BY <1>2, PoolAssumption DEF Deliveries, Event, ClockTyped, MapTyped, In, clock, map
  <2>4. Held(s) \in BOOLEAN
    BY DEF Held
  <2>5. LoadTyped'
    BY <1>2, <2>4 DEF Deliveries, LoadTyped
  <2> QED BY <1>2, <2>2, <2>3, <2>5 DEF Deliveries, CallsTyped, SweepsTyped, QueryTyped,
             OffersTyped, offers
<1>3. ASSUME NEW c \in Calls, NEW s \in Shippers, NEW d \in Places, Subscribe(c, s, d)
      PROVE  PoolTypeInv'
  <2> DEFINE new == [pc |-> "check", s |-> s, dist |-> d, user |-> row[s]]
  <2>1. new \in Call /\ new.s \in Shippers /\ new.dist \in Places
    BY DEF RowsTyped, Call
  <2>2. CallsTyped'
    BY <1>3, <2>1, CallTyped DEF Subscribe
  <2>3. ClockTyped' /\ MapTyped'
    BY <1>3, PoolAssumption DEF Subscribe, Event, ClockTyped, MapTyped, In, clock, map
  <2> QED BY <1>3, <2>2, <2>3 DEF Subscribe, RowsTyped, SweepsTyped, QueryTyped, OffersTyped,
             LoadTyped, rows, offers, history
<1>4. ASSUME NEW c \in Calls, CheckEligible(c) PROVE PoolTypeInv'
  <2>1. [call[c] EXCEPT !.pc = "score"] \in Call
    BY DEF CallsTyped, Call
  <2>2. /\ [call[c] EXCEPT !.pc = "score"].s \in Shippers
        /\ [call[c] EXCEPT !.pc = "score"].dist \in Places
    BY <1>4 DEF CheckEligible, CallsTyped, Call
  <2>3. CallsTyped'
    BY <1>4, <2>1, <2>2, NoneTyped, CallTyped DEF CheckEligible
  <2> QED BY <1>4, <2>3 DEF CheckEligible, RowsTyped, MapTyped, In, SweepsTyped, QueryTyped,
             ClockTyped, OffersTyped, LoadTyped, rows, map, clock, offers, history
<1>5. ASSUME NEW c \in Calls, NEW score \in Scores, Enter(c, score) PROVE PoolTypeInv'
  <2> DEFINE s == call[c].s
             e == [pos |-> keys + 1, dist |-> call[c].dist, seen |-> now,
                   score |-> score, user |-> call[c].user]
  <2>1. call[c] \in Call /\ s \in Shippers /\ call[c].dist \in Places
    BY <1>5 DEF Enter, CallsTyped
  <2>2. e \in Entry /\ e.pos = keys + 1
    BY <2>1 DEF Entry, MapTyped, ClockTyped, Call
  <2>3. PoolSet(s, e) /\ call' = [call EXCEPT ![c].pc = "save"]
        /\ query' = [query EXCEPT !.first = @ \ {s}]
    BY <1>5 DEF Enter
  <2>4. MapTyped'
    <3> HIDE DEF e, s
    <3> QED BY <2>1, <2>2, <2>3, SetTyped
  <2>5. CallsTyped'
    BY <2>1, <2>3 DEF CallsTyped, Call
  <2>6. QueryTyped'
    BY <2>3, ShorterTyped
  <2> QED BY <1>5, <2>4, <2>5, <2>6 DEF Enter, RowsTyped, SweepsTyped, ClockTyped, OffersTyped,
             NoLast, LoadTyped, rows, clock, history
<1>6. ASSUME NEW c \in Calls, EnterSave(c) PROVE PoolTypeInv'
  <2>1. call[c] \in Call /\ call[c].s \in Shippers /\ call[c].user \in ShipperRow
    BY <1>6 DEF EnterSave, CallsTyped, Call
  <2>2. RowsTyped'
    BY <1>6, <2>1, SaveTyped DEF EnterSave
  <2>3. CallsTyped'
    BY <1>6, NoneTyped, CallTyped DEF EnterSave
  <2> QED BY <1>6, <2>2, <2>3 DEF EnterSave, MapTyped, In, SweepsTyped, QueryTyped,
             ClockTyped, OffersTyped, LoadTyped, map, clock, offers, history
<1>7. ASSUME IntervalCleanup PROVE PoolTypeInv'
  <2>1. Walk("interval", now - Window, 0) /\ "interval" \in Sweepers /\ now - Window \in Int
        /\ UNCHANGED keys
    BY <1>7, PoolAssumption DEF IntervalCleanup, Sweepers, ClockTyped
  <2>2. MapTyped' /\ SweepsTyped' /\ QueryTyped'
    BY <2>1, WalkTyped
  <2>3. ClockTyped'
    BY <1>7, PoolAssumption DEF IntervalCleanup, ClockTyped
  <2> QED BY <1>7, <2>2, <2>3 DEF IntervalCleanup, RowsTyped, CallsTyped, OffersTyped,
             LoadTyped, rows, offers, history
<1>8. ASSUME RequestCleanup PROVE PoolTypeInv'
  <2>1. Walk("request", now - Window, 0) /\ "request" \in Sweepers /\ now - Window \in Int
        /\ UNCHANGED keys
    BY <1>8, PoolAssumption DEF RequestCleanup, Sweepers, ClockTyped
  <2>2. MapTyped' /\ SweepsTyped' /\ QueryTyped'
    BY <2>1, WalkTyped
  <2>3. ClockTyped'
    BY <1>8, PoolAssumption DEF RequestCleanup, Event, ClockTyped, clock
  <2> QED BY <1>8, <2>2, <2>3 DEF RequestCleanup, RowsTyped, CallsTyped, OffersTyped,
             LoadTyped, rows, offers, history
<1>9. ASSUME NEW w \in Sweepers, RemoveRead(w) PROVE PoolTypeInv'
  <2>1. sweep[w] \in Sweep /\ sweep[w].s \in Shippers
    BY <1>9 DEF RemoveRead, SweepsTyped
  <2>2. row[sweep[w].s] \in ShipperRow
    BY <2>1 DEF RowsTyped
  <2>3. SweepsTyped'
    BY <1>9, <2>1, <2>2 DEF RemoveRead, SweepsTyped, Sweep
  <2> QED BY <1>9, <2>3 DEF RemoveRead, RowsTyped, MapTyped, In, CallsTyped, QueryTyped,
             ClockTyped, OffersTyped, LoadTyped, rows, map, clock, offers, history
<1>10. ASSUME NEW w \in Sweepers, RemoveSave(w) PROVE PoolTypeInv'
  <2>1. sweep[w] \in Sweep /\ sweep[w].s \in Shippers
        /\ sweep[w].user \in ShipperRow /\ sweep[w].before \in Int
    BY <1>10 DEF RemoveSave, SweepsTyped, Sweep
  <2>2. RowsTyped'
    BY <1>10, <2>1, SaveTyped DEF RemoveSave
  <2>3. MapTyped' /\ SweepsTyped' /\ QueryTyped'
    BY <1>10, <2>1, WalkTyped DEF RemoveSave
  <2> QED BY <1>10, <2>2, <2>3 DEF RemoveSave, CallsTyped, ClockTyped, OffersTyped,
             LoadTyped, clock, offers, history
<1>11. ASSUME NEW extra \in Extras, QueryStart(extra) PROVE PoolTypeInv'
  <2>1. query' \in Query /\ query'.pc = "start"
    BY <1>11, NoneTyped DEF QueryStart, Query, In
  <2>2. QueryTyped' /\ ClockTyped'
    BY <1>11, <2>1, PoolAssumption DEF QueryStart, QueryTyped, ClockTyped, Event, clock
  <2> QED BY <1>11, <2>2 DEF QueryStart, RowsTyped, MapTyped, In, CallsTyped, SweepsTyped,
             OffersTyped, LoadTyped, rows, map, offers, history
<1>12. ASSUME QueryStep PROVE PoolTypeInv'
  <2>1. ASSUME query.pc = "start" /\ QueryGo(None, 0) PROVE QueryTyped'
    BY <2>1, QueryGoTyped
  <2>2. ASSUME query.pc = "judge" /\ QueryGo(query.s, Score) PROVE QueryTyped'
    <3>1. Score \in Nat \cup {NaN}
      <4> HIDE DEF PoolTypeInv
      <4> QED BY <2>2, ScoreTyped
    <3> QED BY <2>2, <3>1, QueryGoTyped DEF QueryTyped
  <2>3. ASSUME query.pc = "judge" /\ QueryGo(query.best, query.score) PROVE QueryTyped'
    BY <2>3, QueryGoTyped DEF QueryTyped, Query
  <2>4. QueryTyped'
    BY <1>12, <2>1, <2>2, <2>3 DEF QueryStep
  <2> QED BY <1>12, <2>4 DEF QueryStep, RowsTyped, MapTyped, In, CallsTyped, SweepsTyped,
             ClockTyped, OffersTyped, LoadTyped, rows, map, clock, offers, history
<1>13. ASSUME NEW w \in Services, Offer(w) PROVE PoolTypeInv'
  <2>1. PICK s \in Free(w) : /\ notified' = [notified EXCEPT ![w] = @ \cup {s}]
                             /\ last' = [last EXCEPT ![w] = pool[s].dist]
    BY <1>13 DEF Offer
  <2>2. s \in Shippers /\ pool[s] \in Entry
    BY DEF Free, In, MapTyped
  <2>3. OffersTyped'
    BY <2>1, <2>2 DEF OffersTyped, Entry
  <2> QED BY <1>13, <2>3 DEF Offer, RowsTyped, MapTyped, In, CallsTyped, SweepsTyped,
             QueryTyped, ClockTyped, LoadTyped, rows, map, clock, history
<1>14. ASSUME NEW w \in Services, ClearOrder(w) PROVE PoolTypeInv'
  BY <1>14, PoolAssumption DEF ClearOrder, Event, RowsTyped, MapTyped, In, CallsTyped,
     SweepsTyped, QueryTyped, ClockTyped, OffersTyped, LoadTyped, rows, map, clock, history
<1>15. ASSUME Tick PROVE PoolTypeInv'
  <2>1. ClockTyped' /\ now + 1 \in 0..MaxTime
    BY <1>15, PoolAssumption DEF Tick, ClockTyped
  <2>2. RowsTyped'
    BY <1>15, <2>1 DEF Tick, RowsTyped
  <2>3. QueryTyped'
    BY <1>15 DEF Tick, QueryTyped, Query
  <2> QED BY <1>15, <2>1, <2>2, <2>3 DEF Tick, MapTyped, In, CallsTyped, SweepsTyped,
             OffersTyped, LoadTyped, map, offers, history
<1>16. ASSUME Restart PROVE PoolTypeInv'
  <2>1. MapTyped' /\ ClockTyped' /\ OffersTyped'
    BY <1>16, PoolAssumption DEF Restart, Event, MapTyped, In, ClockTyped, OffersTyped,
       NobodyNotified, NoLast
  <2>2. CallsTyped' /\ SweepsTyped' /\ QueryTyped'
    BY <1>16, NoneTyped DEF Restart, CallsTyped, SweepsTyped, QueryTyped
  <2> QED BY <1>16, <2>1, <2>2 DEF Restart, RowsTyped, LoadTyped, rows, history
<1>17. CASE UNCHANGED poolVars
  BY <1>17 DEF poolVars, RowsTyped, MapTyped, In, CallsTyped, SweepsTyped, QueryTyped,
     ClockTyped, OffersTyped, LoadTyped, rows, map, clock, offers, history
<1> HIDE DEF PoolTypeInv
<1> QED BY <1>1, <1>2, <1>3, <1>4, <1>5, <1>6, <1>7, <1>8, <1>9, <1>10, <1>11, <1>12, <1>13,
           <1>14, <1>15, <1>16, <1>17 DEF PoolNext

\* Every value of the constants: the rows, the Map, the subscriptions, the
\* cleanups and the query have their types, and no two entries the same place.
THEOREM PoolTypeCorrect == PoolSpec => []PoolTypeOK
<1>1. PoolTypeInv => PoolTypeOK
  BY DEF PoolTypeInv, PoolTypeOK, RowsTyped, MapTyped, CallsTyped, SweepsTyped, QueryTyped,
     ClockTyped, OffersTyped, LoadTyped
<1> QED BY <1>1, PoolTypeInit, PoolTypeNext, PTL DEF PoolSpec

LEMMA TypeAlways == PoolSpec => []PoolTypeInv
  BY PoolTypeInit, PoolTypeNext, PTL DEF PoolSpec

-----------------------------------------------------------------------------
(***************************************************************************)
(* The counts of active deliveries.  A save writes the count of a copy, so *)
(* every copy that will be saved has to agree as well.                     *)
(***************************************************************************)
CopiesAgree(s) ==
    /\ \A c \in Calls : call[c].pc # "idle" /\ call[c].s = s => call[c].user.active = load[s]
    /\ \A w \in Sweepers : sweep[w].pc = "save" /\ sweep[w].s = s =>
                            sweep[w].user.active = load[s]

ActiveInv == \A s \in Shippers : overlapped[s] \/ (row[s].active = load[s] /\ CopiesAgree(s))

LEMMA WalkSweep ==
  ASSUME PoolTypeInv, NEW w \in Sweepers, NEW before, NEW at, Walk(w, before, at)
  PROVE  \A v \in Sweepers : sweep'[v] = sweep[v] \/ sweep'[v].pc \in {"idle", "read"}
<1>1. sweep \in [Sweepers -> Sweep]
  BY DEF PoolTypeInv, SweepsTyped
<1> QED BY <1>1, NoneTyped DEF Walk, RemoveShipper

\* What leaves the deliveries alone and saves at most the copy of s0.
LEMMA SaveCounts ==
  ASSUME PoolTypeInv, ActiveInv, NEW s0 \in Shippers, NEW user \in ShipperRow, SaveShipper(s0, user),
         overlapped[s0] \/ user.active = load[s0], UNCHANGED history
  PROVE  \A s \in Shippers : overlapped'[s] \/ row'[s].active = load'[s]
<1>1. row \in [Shippers -> ShipperRow]
  BY DEF PoolTypeInv, RowsTyped
<1>2. [row[s0] EXCEPT !.active = user.active].active = user.active
  BY <1>1 DEF ShipperRow
<1>3. \A s \in Shippers : row'[s] = row[s] \/ (s = s0 /\ row'[s].active = user.active)
  BY <1>1, <1>2 DEF SaveShipper, Put, rows
<1> QED BY <1>3 DEF ActiveInv, history

LEMMA ActiveNext == PoolTypeInv /\ ActiveInv /\ [PoolNext]_poolVars => ActiveInv'
<1> SUFFICES ASSUME PoolTypeInv, ActiveInv, [PoolNext]_poolVars PROVE ActiveInv'
  OBVIOUS
<1>0. /\ row \in [Shippers -> ShipperRow] /\ call \in [Calls -> Call]
      /\ sweep \in [Sweepers -> Sweep] /\ load \in [Shippers -> 0..MaxActive]
      /\ overlapped \in [Shippers -> BOOLEAN]
  BY DEF PoolTypeInv, RowsTyped, CallsTyped, SweepsTyped, LoadTyped
<1>1. ASSUME NEW s \in Shippers, Judge(s) PROVE ActiveInv'
  <2>1. \A t \in Shippers : row'[t].active = row[t].active
    BY <1>0, <1>1 DEF Judge, Put, ShipperRow
  <2> QED BY <1>1, <2>1 DEF Judge, ActiveInv, CopiesAgree, history
<1>2. ASSUME NEW s \in Shippers, NEW n \in {-1, 1}, Deliveries(s, n) PROVE ActiveInv'
  <2>1. row' = [row EXCEPT ![s] = [row[s] EXCEPT !.active = @ + n]]
        /\ load' = [load EXCEPT ![s] = @ + n]
        /\ overlapped' = [overlapped EXCEPT ![s] = @ \/ Held(s)]
        /\ UNCHANGED <<call, sweep>>
    BY <1>2 DEF Deliveries, Put
  <2>2. \A t \in Shippers \ {s} : row'[t] = row[t] /\ load'[t] = load[t] /\ overlapped'[t] = overlapped[t]
    BY <1>0, <2>1
  <2>3. \A t \in Shippers \ {s} : overlapped'[t] \/ (row'[t].active = load'[t] /\ CopiesAgree(t)')
    BY <2>1, <2>2 DEF ActiveInv, CopiesAgree
  <2>4. CASE overlapped[s] \/ Held(s)
    <3>1. overlapped'[s]
      BY <1>0, <2>1, <2>4 DEF Held
    <3> QED BY <2>3, <3>1 DEF ActiveInv
  <2>5. CASE ~overlapped[s] /\ ~Held(s)
    <3>1. CopiesAgree(s)'
      BY <2>1, <2>5 DEF CopiesAgree, Held
    <3>2. row'[s].active = row[s].active + n /\ load'[s] = load[s] + n
      BY <1>0, <2>1 DEF ShipperRow
    <3>3. row[s].active = load[s]
      BY <2>5 DEF ActiveInv
    <3> QED BY <2>3, <3>1, <3>2, <3>3 DEF ActiveInv
  <2> QED BY <2>4, <2>5
<1>3. ASSUME NEW c \in Calls, NEW s \in Shippers, NEW d \in Places, Subscribe(c, s, d)
      PROVE  ActiveInv'
  <2>1. \A b \in Calls : call'[b] = call[b] \/ (call'[b].s = s /\ call'[b].user = row[s])
    BY <1>0, <1>3 DEF Subscribe
  <2> QED BY <1>3, <2>1 DEF Subscribe, ActiveInv, CopiesAgree, rows, history
<1>4. ASSUME NEW c \in Calls, CheckEligible(c) PROVE ActiveInv'
  <2>1. \A b \in Calls : \/ call'[b].pc = "idle"
                         \/ /\ call'[b].s = call[b].s /\ call'[b].user = call[b].user
                            /\ call[b].pc # "idle" \/ call'[b] = call[b]
    BY <1>0, <1>4, NoneTyped DEF CheckEligible, Call
  <2> QED BY <1>4, <2>1 DEF CheckEligible, ActiveInv, CopiesAgree, rows, history
<1>5. ASSUME NEW c \in Calls, NEW score \in Scores, Enter(c, score) PROVE ActiveInv'
  <2>1. \A b \in Calls : /\ call'[b].s = call[b].s /\ call'[b].user = call[b].user
                         /\ call[b].pc # "idle" \/ call'[b] = call[b]
    BY <1>0, <1>5 DEF Enter, Call
  <2> QED BY <1>5, <2>1 DEF Enter, ActiveInv, CopiesAgree, rows, history
<1>6. ASSUME NEW c \in Calls, EnterSave(c) PROVE ActiveInv'
  <2>1. call[c].s \in Shippers /\ call[c].user \in ShipperRow
    BY <1>0, <1>6 DEF EnterSave, PoolTypeInv, CallsTyped, Call
  <2>2. overlapped[call[c].s] \/ call[c].user.active = load[call[c].s]
    BY <1>6, <2>1 DEF EnterSave, ActiveInv, CopiesAgree
  <2>3. \A s \in Shippers : overlapped'[s] \/ row'[s].active = load'[s]
    BY <1>6, <2>1, <2>2, SaveCounts DEF EnterSave
  <2>4. \A b \in Calls : call'[b] = call[b] \/ call'[b].pc = "idle"
    BY <1>0, <1>6, NoneTyped DEF EnterSave
  <2> QED BY <1>6, <2>3, <2>4 DEF EnterSave, ActiveInv, CopiesAgree, history
<1>7. ASSUME IntervalCleanup PROVE ActiveInv'
  <2>1. \A v \in Sweepers : sweep'[v] = sweep[v] \/ sweep'[v].pc \in {"idle", "read"}
    BY <1>7, WalkSweep DEF IntervalCleanup, Sweepers
  <2> QED BY <1>7, <2>1 DEF IntervalCleanup, ActiveInv, CopiesAgree, rows, history
<1>8. ASSUME RequestCleanup PROVE ActiveInv'
  <2>1. \A v \in Sweepers : sweep'[v] = sweep[v] \/ sweep'[v].pc \in {"idle", "read"}
    BY <1>8, WalkSweep DEF RequestCleanup, Sweepers
  <2> QED BY <1>8, <2>1 DEF RequestCleanup, ActiveInv, CopiesAgree, rows, history
<1>9. ASSUME NEW w \in Sweepers, RemoveRead(w) PROVE ActiveInv'
  <2>1. \A v \in Sweepers : sweep'[v] = sweep[v] \/ sweep'[v].user = row[sweep'[v].s]
    BY <1>0, <1>9 DEF RemoveRead, Sweep
  <2>2. UNCHANGED <<row, call, load, overlapped>>
    BY <1>9 DEF RemoveRead, rows, history
  <2>3. ASSUME NEW s \in Shippers, ~overlapped[s] PROVE row'[s].active = load'[s] /\ CopiesAgree(s)'
    <3>1. row[s].active = load[s] /\ CopiesAgree(s)
      BY <2>3 DEF ActiveInv
    <3>2. \A v \in Sweepers : sweep'[v].pc = "save" /\ sweep'[v].s = s =>
                              sweep'[v].user.active = load[s]
      BY <2>1, <3>1 DEF CopiesAgree
    <3> QED BY <2>2, <3>1, <3>2 DEF CopiesAgree
  <2> QED BY <2>2, <2>3 DEF ActiveInv
<1>10. ASSUME NEW w \in Sweepers, RemoveSave(w) PROVE ActiveInv'
  <2>1. sweep[w].s \in Shippers /\ sweep[w].user \in ShipperRow
    BY <1>0, <1>10 DEF RemoveSave, PoolTypeInv, SweepsTyped, Sweep
  <2>2. overlapped[sweep[w].s] \/ sweep[w].user.active = load[sweep[w].s]
    BY <1>10, <2>1 DEF RemoveSave, ActiveInv, CopiesAgree
  <2>3. \A s \in Shippers : overlapped'[s] \/ row'[s].active = load'[s]
    BY <1>10, <2>1, <2>2, SaveCounts DEF RemoveSave
  <2>4. \A v \in Sweepers : sweep'[v] = sweep[v] \/ sweep'[v].pc \in {"idle", "read"}
    BY <1>10, WalkSweep DEF RemoveSave
  <2> QED BY <1>10, <2>3, <2>4 DEF RemoveSave, ActiveInv, CopiesAgree, history
<1>11. ASSUME \/ (\E extra \in Extras : QueryStart(extra)) \/ QueryStep
              \/ (\E w \in Services : Offer(w) \/ ClearOrder(w)) \/ UNCHANGED poolVars
       PROVE  ActiveInv'
  <2>1. UNCHANGED <<row, call, sweep, load, overlapped>>
    BY <1>11 DEF QueryStart, QueryStep, Offer, ClearOrder, poolVars, rows, history
  <2> QED BY <2>1 DEF ActiveInv, CopiesAgree
<1>12. CASE Tick
  BY <1>12 DEF Tick, ActiveInv, CopiesAgree, history
<1>13. CASE Restart
  <2>1. (\A c \in Calls : call'[c].pc = "idle") /\ (\A w \in Sweepers : sweep'[w].pc = "idle")
    BY <1>13, NoneTyped DEF Restart
  <2> QED BY <1>13, <2>1 DEF Restart, ActiveInv, CopiesAgree, rows, history
<1> QED BY <1>1, <1>2, <1>3, <1>4, <1>5, <1>6, <1>7, <1>8, <1>9, <1>10, <1>11, <1>12, <1>13
        DEF PoolNext

\* For any number of subscriptions and cleanups that save the whole row of a
\* shipper: unless a delivery was taken or finished while the tracker held a
\* copy, the count in the row is that of his deliveries.
THEOREM ActiveCountsCorrect == PoolSpec => []ActiveCounts
<1>1. PoolInit => ActiveInv
  <2> SUFFICES ASSUME PoolInit PROVE ActiveInv
    OBVIOUS
  <2>1. \A s \in Shippers : row[s].active = load[s]
    BY DEF PoolInit
  <2>2. (\A c \in Calls : call[c].pc = "idle") /\ (\A w \in Sweepers : sweep[w].pc = "idle")
    BY NoneTyped DEF PoolInit
  <2> QED BY <2>1, <2>2 DEF ActiveInv, CopiesAgree
<1>2. ActiveInv => ActiveCounts
  BY DEF ActiveInv, ActiveCounts
<1> QED BY <1>1, <1>2, TypeAlways, ActiveNext, PTL DEF PoolSpec

-----------------------------------------------------------------------------
(***************************************************************************)
(* The order of the offers: nobody a service has still to offer the order  *)
(* to is nearer than the last it offered it to.                            *)
(***************************************************************************)
OfferInv == \A w \in Services : \A s \in Free(w) : pool[s].dist >= last[w]

LEMMA OfferNext == PoolTypeInv /\ OfferInv /\ [PoolNext]_poolVars => OfferInv'
<1> SUFFICES ASSUME PoolTypeInv, OfferInv, [PoolNext]_poolVars PROVE OfferInv'
  OBVIOUS
<1>0. /\ \A s \in In : s \in Shippers /\ pool[s].dist \in Nat
      /\ \A s \in In' : s \in Shippers /\ pool'[s].dist \in Nat
  <2>1. PoolTypeInv'
    BY PoolTypeNext
  <2>2. MapTyped /\ MapTyped'
    BY <2>1 DEF PoolTypeInv
  <2> QED BY <2>2, PoolAssumption DEF MapTyped, In, Entry
<1>1. CASE last' = NoLast
  BY <1>0, <1>1 DEF OfferInv, Free, NoLast
<1>2. CASE UNCHANGED <<notified, last>> /\ \A s \in In' : s \in In /\ pool'[s] = pool[s]
  BY <1>2 DEF OfferInv, Free
<1>3. ASSUME NEW w \in Services, Offer(w) PROVE OfferInv'
  <2>0. UNCHANGED pool /\ In' = In /\ OffersTyped
    BY <1>3 DEF Offer, map, In, PoolTypeInv
  <2>1. PICK s \in Free(w) : /\ Nearest(w, s)
                             /\ notified' = [notified EXCEPT ![w] = @ \cup {s}]
                             /\ last' = [last EXCEPT ![w] = pool[s].dist]
    BY <1>3 DEF Offer
  <2>2. \A t \in Free(w) : pool[t].dist >= pool[s].dist
    BY <1>0, <2>1 DEF Nearest, Free
  <2>3. Free(w)' \subseteq Free(w) /\ last'[w] = pool[s].dist
    BY <2>0, <2>1 DEF OffersTyped, Free
  <2>4. \A v \in Services \ {w} : Free(v)' = Free(v) /\ last'[v] = last[v]
    BY <2>0, <2>1 DEF OffersTyped, Free
  <2> QED BY <2>0, <2>2, <2>3, <2>4 DEF OfferInv
<1>7. ASSUME NEW w \in Services, ClearOrder(w) PROVE OfferInv'
  <2>0. UNCHANGED pool /\ In' = In /\ OffersTyped
    BY <1>7 DEF ClearOrder, map, In, PoolTypeInv
  <2>1. last'[w] = 0 /\ \A v \in Services \ {w} : notified'[v] = notified[v] /\ last'[v] = last[v]
    BY <1>7, <2>0 DEF ClearOrder, OffersTyped
  <2>2. \A v \in Services \ {w} : Free(v)' = Free(v)
    BY <2>0, <2>1 DEF Free
  <2> QED BY <1>0, <2>0, <2>1, <2>2 DEF OfferInv, Free
<1>4. ASSUME NEW w, NEW before, NEW at, Walk(w, before, at)
      PROVE  \A s \in In' : s \in In /\ pool'[s] = pool[s]
  <2>1. pool \in [Shippers -> Entry \cup {None}]
    BY DEF PoolTypeInv, MapTyped
  <2> QED BY <1>4, <2>1 DEF Walk, RemoveShipper, In
<1>5. CASE IntervalCleanup \/ RequestCleanup \/ \E w \in Sweepers : RemoveSave(w)
  <2>1. \A s \in In' : s \in In /\ pool'[s] = pool[s]
    BY <1>4, <1>5 DEF IntervalCleanup, RequestCleanup, RemoveSave
  <2> QED BY <1>2, <1>5, <2>1 DEF IntervalCleanup, RequestCleanup, RemoveSave, offers
<1>6. CASE UNCHANGED <<pool, notified, last>>
  BY <1>6 DEF OfferInv, Free, In
<1> QED BY <1>1, <1>3, <1>5, <1>6, <1>7 DEF PoolNext, Judge, Deliveries, Subscribe,
           CheckEligible, EnterSave, Enter, RemoveRead, QueryStart, QueryStep, Tick, Restart,
           poolVars, map, offers

\* Whoever enters or leaves, whatever the other services offer, in whatever
\* order: between two sets of an entry the shippers a service offers an order to
\* are ever farther away.
THEOREM OffersOutwardCorrect == PoolSpec => OffersOutward
<1> DEFINE Outward == \A w \in Services : notified'[w] \subseteq notified[w] \/ last'[w] >= last[w]
<1>1. PoolInit => OfferInv
  BY DEF PoolInit, OfferInv, Free, In
<1>2. PoolTypeInv /\ OfferInv /\ [PoolNext]_poolVars => Outward
  <2> SUFFICES ASSUME PoolTypeInv, OfferInv, [PoolNext]_poolVars PROVE Outward
    OBVIOUS
  <2>0. OffersTyped
    BY DEF PoolTypeInv
  <2>1. ASSUME NEW v \in Services, Offer(v) PROVE Outward
    <3>1. PICK s \in Free(v) : /\ notified' = [notified EXCEPT ![v] = @ \cup {s}]
                               /\ last' = [last EXCEPT ![v] = pool[s].dist]
      BY <2>1 DEF Offer
    <3>2. last'[v] >= last[v]
      BY <2>0, <3>1 DEF OffersTyped, OfferInv
    <3>3. \A w \in Services \ {v} : notified'[w] = notified[w]
      BY <2>0, <3>1 DEF OffersTyped
    <3> QED BY <3>2, <3>3
  <2>2. ASSUME NEW v \in Services, ClearOrder(v) PROVE Outward
    BY <2>0, <2>2 DEF ClearOrder, OffersTyped
  <2>3. CASE notified' = notified
    BY <2>3
  <2>4. CASE notified' = NobodyNotified
    BY <2>4 DEF NobodyNotified
  <2> QED BY <2>1, <2>2, <2>3, <2>4 DEF PoolNext, Judge, Deliveries, Subscribe, CheckEligible,
             Enter, EnterSave, IntervalCleanup, RequestCleanup, RemoveRead, RemoveSave,
             QueryStart, QueryStep, Tick, Restart, poolVars, offers
<1>3. [][Outward]_poolVars => OffersOutward
  BY PTL DEF OffersOutward
<1> QED BY <1>1, <1>2, <1>3, TypeAlways, OfferNext, PTL DEF PoolSpec

-----------------------------------------------------------------------------
(***************************************************************************)
(* Who may be in the pool.  An entry is as old as seen says, and was       *)
(* eligible then (FitInv); a cleanup leaves behind it only entries younger *)
(* than a window, and until the next one is through they are younger than  *)
(* two (SweptInv).                                                         *)
(***************************************************************************)
FitSource(s) == \/ Eligible(row[s])
                \/ \E c \in Calls : /\ call[c].pc \in {"check", "score"}
                                    /\ call[c].s = s /\ Eligible(call[c].user)

FitInv == /\ \A s \in Shippers : fitAt[s] <= now /\ (FitSource(s) => fitAt[s] = now)
          /\ \A c \in Calls : call[c].pc = "score" => Eligible(call[c].user)
          /\ \A s \in In : pool[s].seen <= fitAt[s]

\* s: what the cleanup of the interval has dealt with.
Dealt(s) == sweep["interval"].pc = "idle" \/ pool[s].pos <= sweep["interval"].at

SweptInv ==
    /\ sweep["interval"].pc # "idle" =>
          timer = Window /\ sweep["interval"].before = now - Window
    /\ \A s \in In : /\ pool[s].pos > 0 /\ pool[s].seen + 2 * Window >= now
                     /\ Dealt(s) => pool[s].seen + 2 * Window >= now + timer

LEMMA PutFit ==
  ASSUME PoolTypeInv, FitInv, NEW s \in Shippers, NEW user \in ShipperRow, Put(s, user)
  PROVE  /\ \A t \in Shippers : fitAt'[t] <= now /\ fitAt'[t] >= fitAt[t]
         /\ \A t \in Shippers : Eligible(row'[t]) => fitAt'[t] = now
<1>1. row \in [Shippers -> ShipperRow] /\ fitAt \in [Shippers -> 0..MaxTime] /\ now \in 0..MaxTime
  BY DEF PoolTypeInv, RowsTyped, ClockTyped
<1>2. \A t \in Shippers \ {s} : row'[t] = row[t] /\ fitAt'[t] = fitAt[t]
  BY <1>1 DEF Put
<1>3. row'[s] = user /\ fitAt'[s] = IF Eligible(user) THEN now ELSE fitAt[s]
  BY <1>1 DEF Put
<1>4. \A t \in Shippers : fitAt[t] \in Int /\ now \in Int
  BY <1>1, PoolAssumption
<1>5. \A t \in Shippers : fitAt[t] <= now /\ (Eligible(row[t]) => fitAt[t] = now)
  BY DEF FitInv, FitSource
<1> QED BY <1>2, <1>3, <1>4, <1>5

LEMMA SaveFit ==
  ASSUME PoolTypeInv, FitInv, NEW s \in Shippers, NEW user \in ShipperRow, SaveShipper(s, user)
  PROVE  /\ \A t \in Shippers : fitAt'[t] <= now /\ fitAt'[t] >= fitAt[t]
         /\ \A t \in Shippers : Eligible(row'[t]) => fitAt'[t] = now
<1>1. row \in [Shippers -> ShipperRow] /\ fitAt \in [Shippers -> 0..MaxTime]
  BY DEF PoolTypeInv, RowsTyped
<1>2. CASE UNCHANGED rows
  BY <1>1, <1>2, PoolAssumption DEF rows, FitInv, FitSource
<1>3. CASE Put(s, [row[s] EXCEPT !.active = user.active])
  <2>1. [row[s] EXCEPT !.active = user.active] \in ShipperRow
    BY <1>1 DEF ShipperRow
  <2> QED BY <1>3, <2>1, PutFit
<1> QED BY <1>2, <1>3 DEF SaveShipper

\* A step that lets no time pass, and whose calls and entries were there before.
LEMMA FitKept ==
  ASSUME PoolTypeInv, FitInv, now' = now, fitAt' \in [Shippers -> 0..MaxTime],
         \A t \in Shippers : fitAt'[t] <= now /\ fitAt'[t] >= fitAt[t],
         \A t \in Shippers : Eligible(row'[t]) => fitAt'[t] = now,
         \A c \in Calls : call'[c] = call[c] \/ call'[c].pc \in {"idle", "save"},
         \A s \in In' : s \in In /\ pool'[s] = pool[s]
  PROVE  FitInv'
<1>1. /\ \A s \in Shippers : fitAt[s] \in Int /\ fitAt'[s] \in Int
      /\ now \in Int /\ \A s \in In : s \in Shippers /\ pool[s].seen \in Int
  BY PoolAssumption DEF PoolTypeInv, RowsTyped, ClockTyped, MapTyped, In, Entry
<1>2. \A s \in Shippers : fitAt'[s] <= now' /\ (FitSource(s)' => fitAt'[s] = now')
  <2> SUFFICES ASSUME NEW s \in Shippers PROVE fitAt'[s] <= now' /\ (FitSource(s)' => fitAt'[s] = now')
    OBVIOUS
  <2>1. ASSUME NEW c \in Calls, call'[c].pc \in {"check", "score"}, call'[c].s = s,
               Eligible(call'[c].user)
        PROVE  fitAt'[s] = now'
    <3>1. call'[c] = call[c]
      BY <2>1
    <3>2. fitAt[s] = now
      BY <2>1, <3>1 DEF FitInv, FitSource
    <3>3. fitAt'[s] <= now /\ fitAt'[s] >= now
      BY <3>2
    <3> QED BY <1>1, <3>3
  <2> QED BY <2>1 DEF FitSource, Eligible
<1>3. \A s \in In' : pool'[s].seen <= fitAt'[s]
  BY <1>1 DEF FitInv
<1>4. \A c \in Calls : call'[c].pc = "score" => Eligible(call'[c].user)
  BY DEF FitInv
<1> QED BY <1>2, <1>3, <1>4 DEF FitInv, Eligible

LEMMA FitNext == PoolTypeInv /\ FitInv /\ [PoolNext]_poolVars => FitInv'
<1> SUFFICES ASSUME PoolTypeInv, FitInv, [PoolNext]_poolVars PROVE FitInv'
  OBVIOUS
<1>0. /\ row \in [Shippers -> ShipperRow] /\ call \in [Calls -> Call] /\ now \in Int
      /\ pool \in [Shippers -> Entry \cup {None}]
      /\ fitAt \in [Shippers -> 0..MaxTime] /\ fitAt' \in [Shippers -> 0..MaxTime]
      /\ \A s \in Shippers : fitAt[s] \in Int
  <2>1. PoolTypeInv'
    BY PoolTypeNext
  <2> QED BY <2>1, PoolAssumption DEF PoolTypeInv, RowsTyped, CallsTyped, ClockTyped, MapTyped
<1>a. UNCHANGED rows => /\ \A t \in Shippers : fitAt'[t] <= now /\ fitAt'[t] >= fitAt[t]
                        /\ \A t \in Shippers : Eligible(row'[t]) => fitAt'[t] = now
  BY <1>0 DEF rows, FitInv, FitSource
<1>b. UNCHANGED pool => \A s \in In' : s \in In /\ pool'[s] = pool[s]
  BY DEF In
<1>c. ASSUME NEW w, NEW before, NEW at, Walk(w, before, at)
      PROVE  \A s \in In' : s \in In /\ pool'[s] = pool[s]
  BY <1>0, <1>c DEF Walk, RemoveShipper, In
<1>1. ASSUME NEW s \in Shippers, Judge(s) PROVE FitInv'
  <2>1. [row[s] EXCEPT !.cert = ~@] \in ShipperRow
    BY <1>0 DEF ShipperRow
  <2>2. now' = now /\ UNCHANGED <<call, pool>> /\ Put(s, [row[s] EXCEPT !.cert = ~@])
    BY <1>1 DEF Judge, clock, map
  <2> QED BY <1>0, <1>b, <2>1, <2>2, PutFit, FitKept
<1>2. ASSUME NEW s \in Shippers, NEW n \in {-1, 1}, Deliveries(s, n) PROVE FitInv'
  <2>1. [row[s] EXCEPT !.active = @ + n] \in ShipperRow
    BY <1>0, <1>2 DEF Deliveries, ShipperRow
  <2>2. now' = now /\ UNCHANGED <<call, pool>> /\ Put(s, [row[s] EXCEPT !.active = @ + n])
    BY <1>2 DEF Deliveries, clock, map
  <2> QED BY <1>0, <1>b, <2>1, <2>2, PutFit, FitKept
<1>3. ASSUME NEW c \in Calls, NEW s \in Shippers, NEW d \in Places, Subscribe(c, s, d)
      PROVE  FitInv'
  <2>1. UNCHANGED <<now, row, fitAt, pool>>
    BY <1>3 DEF Subscribe, clock, rows, map
  <2>2. \A b \in Calls : \/ call'[b] = call[b]
                         \/ call'[b].pc = "check" /\ call'[b].s = s /\ call'[b].user = row[s]
    BY <1>0, <1>3 DEF Subscribe
  <2>3. \A t \in Shippers : FitSource(t)' => FitSource(t)
    BY <2>1, <2>2 DEF FitSource, Eligible
  <2>4. \A b \in Calls : call'[b].pc = "score" => Eligible(call'[b].user)
    BY <2>2 DEF FitInv
  <2> QED BY <1>b, <2>1, <2>3, <2>4 DEF FitInv, Eligible
<1>4. ASSUME NEW c \in Calls, CheckEligible(c) PROVE FitInv'
  <2>1. UNCHANGED <<now, row, fitAt, pool>>
    BY <1>4 DEF CheckEligible, clock, rows, map
  <2>2. \A b \in Calls :
           \/ call'[b] = call[b]
           \/ call'[b].pc = "idle"
           \/ /\ call[b].pc = "check" /\ call'[b].s = call[b].s
              /\ call'[b].user = call[b].user /\ Eligible(call[b].user)
    BY <1>0, <1>4, NoneTyped DEF CheckEligible, Call
  <2>3. \A t \in Shippers : FitSource(t)' => FitSource(t)
    BY <2>1, <2>2 DEF FitSource, Eligible
  <2>4. \A b \in Calls : call'[b].pc = "score" => Eligible(call'[b].user)
    BY <2>2 DEF FitInv, Eligible
  <2> QED BY <1>b, <2>1, <2>3, <2>4 DEF FitInv, Eligible
<1>5. ASSUME NEW c \in Calls, NEW score \in Scores, Enter(c, score) PROVE FitInv'
  <2> DEFINE s0 == call[c].s
             e == [pos |-> keys + 1, dist |-> call[c].dist, seen |-> now,
                   score |-> score, user |-> call[c].user]
  <2>1. s0 \in Shippers /\ fitAt[s0] = now
    BY <1>5 DEF Enter, PoolTypeInv, CallsTyped, FitInv, FitSource
  <2>2. PoolSet(s0, e) /\ UNCHANGED <<now, row, fitAt>>
        /\ call' = [call EXCEPT ![c].pc = "save"]
    BY <1>5 DEF Enter, clock, rows
  <2>3. [e EXCEPT !.pos = pool[s0].pos].seen = now /\ e.seen = now
    OBVIOUS
  <2>4. \A t \in In' : (t \in In /\ pool'[t] = pool[t]) \/ (t = s0 /\ pool'[t].seen = now)
    <3> HIDE DEF e, s0
    <3> QED BY <1>0, <2>1, <2>2, <2>3 DEF PoolSet, In
  <2>5. \A b \in Calls : call'[b] = call[b] \/ call'[b].pc = "save"
    BY <1>0, <2>2 DEF Call
  <2>6. \A t \in Shippers : FitSource(t)' => FitSource(t)
    BY <2>2, <2>5 DEF FitSource, Eligible
  <2>7. \A b \in Calls : call'[b].pc = "score" => Eligible(call'[b].user)
    BY <2>5 DEF FitInv
  <2>8. \A t \in In' : pool'[t].seen <= fitAt'[t]
    <3> HIDE DEF e, s0
    <3> QED BY <1>0, <2>1, <2>2, <2>4 DEF FitInv
  <2> QED BY <2>2, <2>6, <2>7, <2>8 DEF FitInv, Eligible
<1>6. ASSUME NEW c \in Calls, EnterSave(c) PROVE FitInv'
  <2>1. call[c].s \in Shippers /\ call[c].user \in ShipperRow
    BY <1>0, <1>6 DEF EnterSave, PoolTypeInv, CallsTyped, Call
  <2>2. SaveShipper(call[c].s, call[c].user) /\ now' = now /\ pool' = pool
    BY <1>6 DEF EnterSave, clock, map
  <2>3. \A b \in Calls : call'[b] = call[b] \/ call'[b].pc = "idle"
    BY <1>0, <1>6, NoneTyped DEF EnterSave
  <2> QED BY <1>0, <1>b, <2>1, <2>2, <2>3, SaveFit, FitKept
<1>7. ASSUME IntervalCleanup \/ RequestCleanup PROVE FitInv'
  <2>1. UNCHANGED <<now, rows, call>> /\ \A s \in In' : s \in In /\ pool'[s] = pool[s]
    BY <1>7, <1>c DEF IntervalCleanup, RequestCleanup, clock
  <2> QED BY <1>0, <1>a, <2>1, FitKept
<1>8. ASSUME NEW w \in Sweepers, RemoveSave(w) PROVE FitInv'
  <2>1. sweep[w].s \in Shippers /\ sweep[w].user \in ShipperRow
    BY <1>8 DEF RemoveSave, PoolTypeInv, SweepsTyped, Sweep
  <2>2. SaveShipper(sweep[w].s, sweep[w].user) /\ now' = now /\ call' = call
    BY <1>8 DEF RemoveSave, clock
  <2>3. \A s \in In' : s \in In /\ pool'[s] = pool[s]
    BY <1>8, <1>c DEF RemoveSave
  <2> QED BY <1>0, <2>1, <2>2, <2>3, SaveFit, FitKept
<1>9. ASSUME \/ \E w \in Sweepers : RemoveRead(w)
             \/ (\E extra \in Extras : QueryStart(extra)) \/ QueryStep
             \/ (\E w \in Services : Offer(w) \/ ClearOrder(w)) \/ UNCHANGED poolVars
      PROVE  FitInv'
  <2>1. UNCHANGED <<now, rows, pool, call>>
    BY <1>9 DEF RemoveRead, QueryStart, QueryStep, Offer, ClearOrder, poolVars, clock, map
  <2> QED BY <1>0, <1>a, <1>b, <2>1, FitKept
<1>10. ASSUME Tick PROVE FitInv'
  <2>1. now' = now + 1 /\ UNCHANGED <<row, call, pool>>
        /\ fitAt' = [s \in Shippers |-> IF FitSource(s) THEN now + 1 ELSE fitAt[s]]
    BY <1>10 DEF Tick, map, FitSource
  <2>2. \A s \in Shippers : FitSource(s)' = FitSource(s)
    BY <2>1 DEF FitSource, Eligible
  <2>3. \A s \in Shippers : fitAt'[s] = IF FitSource(s) THEN now + 1 ELSE fitAt[s]
    BY <2>1
  <2>4. \A s \in Shippers : fitAt[s] <= now
    BY DEF FitInv
  <2>5. \A s \in Shippers : fitAt'[s] <= now' /\ (FitSource(s)' => fitAt'[s] = now')
                            /\ fitAt'[s] >= fitAt[s]
    BY <1>0, <2>1, <2>2, <2>3, <2>4
  <2>6. \A s \in In' : pool'[s].seen <= fitAt'[s]
    <3>1. \A s \in In : s \in Shippers /\ pool[s].seen \in Int /\ pool[s].seen <= fitAt[s]
      BY PoolAssumption DEF PoolTypeInv, MapTyped, In, Entry, FitInv
    <3>2. \A s \in Shippers : fitAt'[s] \in Int
      BY <1>0, <2>3
    <3> QED BY <1>0, <1>b, <2>1, <2>5, <3>1, <3>2
  <2> QED BY <2>1, <2>5, <2>6 DEF FitInv, Eligible
<1>11. ASSUME Restart PROVE FitInv'
  <2>1. UNCHANGED <<now, rows>> /\ (\A c \in Calls : call'[c].pc = "idle") /\ In' = {}
    BY <1>11, NoneTyped DEF Restart, In
  <2> QED BY <1>0, <1>a, <2>1, FitKept
<1> QED BY <1>1, <1>2, <1>3, <1>4, <1>5, <1>6, <1>7, <1>8, <1>9, <1>10, <1>11 DEF PoolNext

\* The walk of the interval goes on: what it passes is young enough.
LEMMA IntervalWalk ==
  ASSUME PoolTypeInv, NEW at \in Nat, Walk("interval", now - Window, at),
         now' = now, timer' = Window,
         \A s \in In : pool[s].pos > 0 /\ pool[s].seen + 2 * Window >= now,
         \A s \in In : pool[s].pos <= at => pool[s].seen + Window >= now
  PROVE  SweptInv'
<1>0. /\ sweep \in [Sweepers -> Sweep] /\ "interval" \in Sweepers
      /\ now \in Int /\ Window \in Nat
      /\ pool \in [Shippers -> Entry \cup {None}]
      /\ \A s \in In : s \in Shippers /\ pool[s].pos \in Nat /\ pool[s].seen \in Int
  BY PoolAssumption DEF PoolTypeInv, SweepsTyped, Sweepers, ClockTyped, MapTyped, In, Entry
<1> DEFINE stale == {s \in In : pool[s].pos > at /\ pool[s].seen < now - Window}
<1>1. CASE stale = {} /\ sweep' = [sweep EXCEPT !["interval"] = NoSweep] /\ UNCHANGED pool
  <2>1. \A s \in In : pool[s].seen + Window >= now
    BY <1>0, <1>1
  <2>2. sweep'["interval"].pc = "idle" /\ In' = In
    BY <1>0, <1>1, NoneTyped DEF In
  <2> QED BY <1>0, <1>1, <2>1, <2>2 DEF SweptInv
<1>2. ASSUME NEW s0 \in stale, \A t \in stale : pool[s0].pos <= pool[t].pos,
             RemoveShipper("interval", now - Window, s0)
      PROVE  SweptInv'
  <2>1. /\ sweep'["interval"].pc = "read" /\ sweep'["interval"].before = now - Window
        /\ sweep'["interval"].at = pool[s0].pos
    BY <1>0, <1>2 DEF RemoveShipper
  <2>2. \A s \in In' : s \in In /\ s # s0 /\ pool'[s] = pool[s]
    BY <1>0, <1>2 DEF RemoveShipper, In
  <2>3. \A s \in In' : pool[s].pos <= pool[s0].pos => pool[s].seen + Window >= now
    <3> SUFFICES ASSUME NEW s \in In', pool[s].pos <= pool[s0].pos
                 PROVE  pool[s].seen + Window >= now
      OBVIOUS
    <3>1. pool[s].pos # pool[s0].pos
      BY <2>2 DEF PoolTypeInv, MapTyped
    <3>2. s \notin stale
      BY <1>0, <1>2, <2>2, <3>1
    <3> QED BY <1>0, <2>2, <3>2
  <2> QED BY <1>0, <2>1, <2>2, <2>3 DEF SweptInv, Dealt
<1> QED BY <1>1, <1>2 DEF Walk

LEMMA SweptNext == PoolTypeInv /\ SweptInv /\ [PoolNext]_poolVars => SweptInv'
<1> SUFFICES ASSUME PoolTypeInv, SweptInv, [PoolNext]_poolVars PROVE SweptInv'
  OBVIOUS
<1>0. /\ sweep \in [Sweepers -> Sweep] /\ "interval" \in Sweepers
      /\ now \in Int /\ timer \in 0..Window /\ Window \in Nat \ {0}
      /\ pool \in [Shippers -> Entry \cup {None}] /\ keys \in Nat
      /\ \A s \in In : s \in Shippers /\ pool[s].pos \in Nat /\ pool[s].seen \in Int
  BY PoolAssumption DEF PoolTypeInv, SweepsTyped, Sweepers, ClockTyped, MapTyped, In, Entry
<1>a. ASSUME UNCHANGED <<clock, sweep>>,
             \A s \in In' : \/ s \in In /\ pool'[s] = pool[s]
                            \/ pool'[s].pos > 0 /\ pool'[s].seen = now
      PROVE  SweptInv'
  BY <1>0, <1>a DEF SweptInv, Dealt, clock
<1>1. ASSUME NEW c \in Calls, NEW score \in Scores, Enter(c, score) PROVE SweptInv'
  <2> DEFINE s0 == call[c].s
             e == [pos |-> keys + 1, dist |-> call[c].dist, seen |-> now,
                   score |-> score, user |-> call[c].user]
             f == [e EXCEPT !.pos = pool[s0].pos]
  <2>1. s0 \in Shippers /\ PoolSet(s0, e) /\ UNCHANGED <<clock, sweep>>
    BY <1>1 DEF Enter, PoolTypeInv, CallsTyped
  <2>2. e.pos > 0 /\ e.seen = now /\ f.pos = pool[s0].pos /\ f.seen = now
    BY <1>0
  <2>3. \/ s0 \in In /\ pool' = [pool EXCEPT ![s0] = f]
        \/ pool' = [pool EXCEPT ![s0] = e]
    BY <2>1 DEF PoolSet
  <2> HIDE DEF s0, e, f
  <2>4. \A s \in In' : \/ s \in In /\ pool'[s] = pool[s]
                       \/ pool'[s].pos > 0 /\ pool'[s].seen = now
    <3>1. s0 \in In => f.pos > 0
      BY <2>2 DEF SweptInv
    <3>2. \A s \in Shippers \ {s0} : pool'[s] = pool[s]
      BY <1>0, <2>3
    <3>a. (s0 \in In /\ pool'[s0] = f) \/ pool'[s0] = e
      BY <1>0, <2>1, <2>3
    <3>3. pool'[s0].pos > 0 /\ pool'[s0].seen = now
      BY <2>2, <3>1, <3>a
    <3> QED BY <3>2, <3>3 DEF In
  <2> QED BY <1>a, <2>1, <2>4
<1>2. ASSUME IntervalCleanup PROVE SweptInv'
  <2>1. /\ timer = 0 /\ timer' = Window /\ now' = now
        /\ Walk("interval", now - Window, 0)
    BY <1>2 DEF IntervalCleanup
  <2> QED BY <1>0, <2>1, IntervalWalk DEF SweptInv
<1>3. ASSUME RemoveSave("interval") PROVE SweptInv'
  <2>1. sweep["interval"].before = now - Window /\ timer = Window
    BY <1>3 DEF RemoveSave, SweptInv
  <2>2. /\ now' = now /\ timer' = Window
        /\ Walk("interval", now - Window, sweep["interval"].at)
    BY <1>3, <2>1 DEF RemoveSave, clock
  <2>3. sweep["interval"].at \in Nat
    BY <1>0 DEF Sweep
  <2>4. \A s \in In : pool[s].pos <= sweep["interval"].at => pool[s].seen + Window >= now
    BY <1>0, <2>1 DEF SweptInv, Dealt
  <2>5. \A s \in In : pool[s].pos > 0 /\ pool[s].seen + 2 * Window >= now
    BY DEF SweptInv
  <2> QED BY <2>2, <2>3, <2>4, <2>5, IntervalWalk
<1>4. ASSUME RequestCleanup \/ RemoveSave("request") PROVE SweptInv'
  <2>1. PICK before, at : Walk("request", before, at)
    BY <1>4 DEF RequestCleanup, RemoveSave
  <2>2. UNCHANGED clock
    BY <1>4 DEF RequestCleanup, RemoveSave
  <2>3. sweep'["interval"] = sweep["interval"]
    BY <1>0, <2>1 DEF Walk, RemoveShipper, Sweepers
  <2>4. \A s \in In' : s \in In /\ pool'[s] = pool[s]
    BY <1>0, <2>1 DEF Walk, RemoveShipper, In
  <2>5. \A s \in In' : Dealt(s)' <=> Dealt(s)
    BY <2>3, <2>4 DEF Dealt
  <2> QED BY <2>2, <2>3, <2>4, <2>5 DEF SweptInv, clock
<1>5. ASSUME NEW w \in Sweepers, RemoveRead(w) PROVE SweptInv'
  <2>1. /\ sweep'["interval"].pc = "idle" <=> sweep["interval"].pc = "idle"
        /\ sweep'["interval"].at = sweep["interval"].at
        /\ sweep'["interval"].before = sweep["interval"].before
    BY <1>0, <1>5 DEF RemoveRead, Sweep
  <2> QED BY <1>5, <2>1 DEF RemoveRead, SweptInv, Dealt, In, clock, map
<1>6. ASSUME Tick PROVE SweptInv'
  <2>1. /\ sweep["interval"].pc = "idle" /\ now' = now + 1 /\ timer' = timer - 1
        /\ UNCHANGED <<sweep, pool>> /\ timer > 0
    BY <1>6 DEF Tick, map
  <2>2. In' = In /\ \A s \in In : pool[s].seen + 2 * Window >= now + timer
    BY <2>1 DEF SweptInv, Dealt, In
  <2> QED BY <1>0, <2>1, <2>2 DEF SweptInv, Dealt
<1>7. ASSUME Restart PROVE SweptInv'
  <2>1. In' = {} /\ sweep'["interval"].pc = "idle"
    BY <1>0, <1>7, NoneTyped DEF Restart, In
  <2> QED BY <2>1 DEF SweptInv
<1>8. ASSUME UNCHANGED <<clock, sweep, pool>> PROVE SweptInv'
  BY <1>8 DEF SweptInv, Dealt, In, clock
<1> QED BY <1>1, <1>2, <1>3, <1>4, <1>5, <1>6, <1>7, <1>8 DEF PoolNext, Sweepers, Judge,
        Deliveries, Subscribe, CheckEligible, EnterSave, QueryStart, QueryStep, Offer,
        ClearOrder, poolVars, map

\* Whatever the other handlers do to the rows, and whenever a shipper
\* subscribes: nobody stays in the pool for more than two windows after he was
\* last fit for it.
THEOREM NobodyUnfitStaysCorrect == PoolSpec => []NobodyUnfitStays
<1>1. PoolInit => FitInv /\ SweptInv
  <2> SUFFICES ASSUME PoolInit PROVE FitInv /\ SweptInv
    OBVIOUS
  <2>1. In = {} /\ sweep["interval"].pc = "idle" /\ \A c \in Calls : call[c].pc = "idle"
    BY NoneTyped DEF PoolInit, In, Sweepers
  <2> QED BY <2>1 DEF PoolInit, FitInv, SweptInv
<1>2. PoolTypeInv /\ FitInv /\ SweptInv => NobodyUnfitStays
  <2> SUFFICES ASSUME PoolTypeInv, FitInv, SweptInv, NEW s \in In
               PROVE  now - fitAt[s] <= 2 * Window
    BY DEF NobodyUnfitStays
  <2>1. pool[s].seen \in Int /\ fitAt[s] \in Int /\ now \in Int /\ Window \in Int
    BY PoolAssumption DEF PoolTypeInv, RowsTyped, MapTyped, ClockTyped, In, Entry
  <2>2. pool[s].seen <= fitAt[s] /\ pool[s].seen + 2 * Window >= now
    BY DEF FitInv, SweptInv
  <2> QED BY <2>1, <2>2
<1> QED BY <1>1, <1>2, TypeAlways, FitNext, SweptNext, PTL DEF PoolSpec

-----------------------------------------------------------------------------
(***************************************************************************)
(* The answer of the query.  At every stop of the walk, of those who have  *)
(* been in the pool since it began, the ones it has passed have nothing on *)
(* the best so far.                                                        *)
(***************************************************************************)
AllEligible == \A s \in In : Eligible(pool[s].user)

QueryInv ==
    /\ query.pc # "idle" =>
          query.first \subseteq In /\ (query.calm \/ now \in RushHours)
    /\ query.pc = "start" => query.at = 0
    /\ query.pc = "judge" =>
          /\ \A s \in query.first :
                /\ pool[s].pos = query.at => s = query.s /\ query.e = pool[s]
                /\ pool[s].pos < query.at /\ pool[s].dist <= Reach =>
                      NoBetter(s, query.best, query.score)
          /\ query.s \in query.first => pool[query.s].pos <= query.at
          /\ query.best \in query.first => pool[query.best].pos <= query.at
          /\ query.extra # NaN => query.score \in Nat

\* What a rush hour that has begun since the walk did adds.
Slack(calm, time) == IF calm /\ time \in RushHours THEN Rush ELSE 0

\* The bonus of a recent entry goes with time, that of a rush hour comes and
\* goes: nobody is worth more than he was judged to be, but for that.
LEMMA WorthFalls ==
  ASSUME NEW e \in Entry, NEW time \in Int, NEW extra \in Int, NEW calm \in BOOLEAN,
         NEW score \in Nat, calm \/ time \in RushHours,
         Worth(e, time, extra) <= score + Slack(calm, time)
  PROVE  Worth(e, time + 1, extra)
            <= score + Slack(calm \/ time + 1 \notin RushHours, time + 1)
<1>1. e.score \in Int /\ e.dist \in Int /\ e.seen \in Int
  <2>1. e.score \in Scores /\ e.dist \in Places /\ e.seen \in 0..MaxTime
    BY DEF Entry
  <2>2. Scores \subseteq Int /\ Places \subseteq Int /\ 0..MaxTime \subseteq Int
    BY PoolAssumption
  <2> QED BY <2>1, <2>2
<1>2. Bonus \in Nat /\ Window \in Nat /\ Rush \in Nat /\ extra # NaN
  BY PoolAssumption
<1> DEFINE v(t) == e.score - e.dist + extra + (IF e.seen > t - Window THEN Bonus ELSE 0)
           r(t) == IF t \in RushHours THEN Rush ELSE 0
           Clamp(n) == IF n > 0 THEN n ELSE 0
<1>3. v(time) \in Int /\ v(time + 1) \in Int /\ v(time + 1) <= v(time)
  BY <1>1, <1>2
<1>4. /\ Worth(e, time, extra) = Clamp(v(time) + r(time))
      /\ Worth(e, time + 1, extra) = Clamp(v(time + 1) + r(time + 1))
  BY <1>2 DEF Worth
<1> HIDE DEF v
<1>5. CASE time \notin RushHours /\ time + 1 \notin RushHours
  BY <1>2, <1>3, <1>4, <1>5 DEF Slack
<1>6. CASE time \notin RushHours /\ time + 1 \in RushHours
  BY <1>2, <1>3, <1>4, <1>6 DEF Slack
<1>7. CASE time \in RushHours /\ time + 1 \notin RushHours
  BY <1>2, <1>3, <1>4, <1>7 DEF Slack
<1>8. CASE time \in RushHours /\ time + 1 \in RushHours
  BY <1>2, <1>3, <1>4, <1>8 DEF Slack
<1> QED BY <1>5, <1>6, <1>7, <1>8

LEMMA EligibleNext == PoolTypeInv /\ FitInv /\ AllEligible /\ [PoolNext]_poolVars => AllEligible'
<1> SUFFICES ASSUME PoolTypeInv, FitInv, AllEligible, [PoolNext]_poolVars PROVE AllEligible'
  OBVIOUS
<1>0. pool \in [Shippers -> Entry \cup {None}]
  BY DEF PoolTypeInv, MapTyped
<1>1. ASSUME NEW c \in Calls, NEW score \in Scores, Enter(c, score) PROVE AllEligible'
  <2> DEFINE s0 == call[c].s
             e == [pos |-> keys + 1, dist |-> call[c].dist, seen |-> now,
                   score |-> score, user |-> call[c].user]
             f == [e EXCEPT !.pos = pool[s0].pos]
  <2>1. Eligible(e.user) /\ f.user = e.user
    BY <1>1 DEF Enter, FitInv
  <2>2. pool' = [pool EXCEPT ![s0] = f] \/ pool' = [pool EXCEPT ![s0] = e]
    BY <1>1 DEF Enter, PoolSet
  <2> HIDE DEF s0, e, f
  <2>3. \A s \in In' : (s \in In /\ pool'[s] = pool[s]) \/ pool'[s].user = e.user
    BY <1>0, <2>1, <2>2 DEF In
  <2> QED BY <2>1, <2>3 DEF AllEligible, Eligible
<1>2. ASSUME \A s \in In' : s \in In /\ pool'[s] = pool[s] PROVE AllEligible'
  BY <1>2 DEF AllEligible, Eligible
<1>3. ASSUME NEW w, NEW before, NEW at, Walk(w, before, at) PROVE AllEligible'
  BY <1>0, <1>2, <1>3 DEF Walk, RemoveShipper, In
<1>4. CASE IntervalCleanup \/ RequestCleanup \/ \E w \in Sweepers : RemoveSave(w)
  BY <1>3, <1>4 DEF IntervalCleanup, RequestCleanup, RemoveSave
<1>5. CASE Restart
  BY <1>2, <1>5 DEF Restart, In
<1>6. CASE UNCHANGED pool
  BY <1>2, <1>6 DEF In
<1> QED BY <1>1, <1>4, <1>5, <1>6 DEF PoolNext, Judge, Deliveries, Subscribe, CheckEligible,
           EnterSave, RemoveRead, QueryStart, QueryStep, Offer, ClearOrder, Tick, poolVars, map

\* A step that leaves the walk where it is, and the entries it still counts on.
LEMMA QueryKept ==
  ASSUME PoolTypeInv, QueryInv, NEW first \in SUBSET query.first, NEW calm \in BOOLEAN,
         query' = [query EXCEPT !.first = first, !.calm = calm],
         \/ now' = now /\ calm = query.calm
         \/ /\ now' = now + 1
            /\ calm = (query.pc # "idle" /\ (query.calm \/ now + 1 \notin RushHours)),
         query.pc # "idle" => \A s \in first : s \in In' /\ pool'[s] = pool[s]
  PROVE  QueryInv'
<1>0. /\ query \in Query /\ now \in Int /\ query.calm \in BOOLEAN
      /\ query.extra \in Int \cup {NaN}
      /\ \A s \in In : s \in Shippers /\ pool[s] \in Entry
  BY PoolAssumption DEF PoolTypeInv, QueryTyped, Query, ClockTyped, MapTyped, In
<1>1. /\ query'.pc = query.pc /\ query'.at = query.at /\ query'.s = query.s
      /\ query'.e = query.e /\ query'.best = query.best /\ query'.score = query.score
      /\ query'.extra = query.extra /\ query'.first = first /\ query'.calm = calm
  BY <1>0 DEF Query
<1>2. ASSUME NEW s \in first, query.pc = "judge", NoBetter(s, query.best, query.score)
      PROVE  NoBetter(s, query.best, query.score)'
  <2>1. pool'[s] = pool[s] /\ pool[s] \in Entry
    BY <1>0, <1>2 DEF QueryInv
  <2>2. CASE query.extra = NaN
    <3>1. query.best \in first => pool'[query.best] = pool[query.best]
      BY <1>2
    <3> QED BY <1>1, <1>2, <2>1, <2>2, <3>1 DEF NoBetter
  <2>3. CASE query.extra # NaN
    <3>1. query.extra \in Int /\ query.score \in Nat /\ query.best # None
          /\ Worth(pool[s], now, query.extra) <= query.score + Slack(query.calm, now)
      BY <1>0, <1>2, <2>3 DEF QueryInv, NoBetter, Slack
    <3>2. CASE now' = now /\ calm = query.calm
      <4>1. Worth(pool[s], now, query.extra)' = Worth(pool[s], now, query.extra)
        BY <1>1, <2>1, <3>2 DEF Worth
      <4> QED BY <1>1, <2>3, <3>1, <3>2, <4>1 DEF NoBetter, Slack
    <3>3. CASE now' = now + 1 /\ calm = (query.calm \/ now + 1 \notin RushHours)
      <4>1. query.calm \/ now \in RushHours
        BY <1>2 DEF QueryInv
      <4>2. Worth(pool[s], now + 1, query.extra) <= query.score + Slack(calm, now + 1)
        BY <1>0, <2>1, <3>1, <3>3, <4>1, WorthFalls
      <4>3. Worth(pool[s], now, query.extra)' = Worth(pool[s], now + 1, query.extra)
        BY <1>1, <2>1, <3>3 DEF Worth
      <4> QED BY <1>1, <2>3, <3>1, <3>3, <4>2, <4>3 DEF NoBetter, Slack
    <3> QED BY <1>2, <3>2, <3>3
  <2> QED BY <2>2, <2>3
<1>3. query.pc # "idle" => calm \/ now' \in RushHours
  BY DEF QueryInv
<1> QED BY <1>1, <1>2, <1>3 DEF QueryInv

\* A stop of the walk, when what lies before it has been passed.
LEMMA QueryGoes ==
  ASSUME PoolTypeInv, QueryInv, query.pc # "idle", NEW best \in Shippers \cup {None}, NEW score,
         query.extra # NaN => score \in Nat,
         QueryGo(best, score), UNCHANGED <<clock, map>>,
         \A s \in query.first : pool[s].pos <= query.at /\ pool[s].dist <= Reach =>
                                  NoBetter(s, best, score),
         best \in query.first => pool[best].pos <= query.at
  PROVE  QueryInv'
<1>0. /\ query \in Query /\ UNCHANGED <<now, pool>> /\ In' = In /\ query.first \subseteq In
      /\ query.at \in Nat /\ \A s \in In : pool[s].pos \in Nat
      /\ query.calm \/ now \in RushHours
  BY DEF PoolTypeInv, QueryTyped, Query, MapTyped, In, Entry, QueryInv, clock, map
<1>1. CASE query' = NoQuery
  BY <1>1, NoneTyped DEF QueryInv
<1>2. ASSUME NEW s0 \in In, pool[s0].pos > query.at,
             \A t \in {s \in In : pool[s].pos > query.at /\ pool[s].dist <= Reach} :
                pool[s0].pos <= pool[t].pos,
             query' = [query EXCEPT !.pc = "judge", !.at = pool[s0].pos, !.s = s0,
                                    !.e = pool[s0], !.best = best, !.score = score]
      PROVE  QueryInv'
  <2>1. /\ query'.pc = "judge" /\ query'.at = pool[s0].pos /\ query'.s = s0
        /\ query'.e = pool[s0] /\ query'.best = best /\ query'.score = score
        /\ query'.first = query.first /\ query'.extra = query.extra
        /\ query'.calm = query.calm
    BY <1>0, <1>2 DEF Query
  <2>2. ASSUME NEW s \in query.first, pool[s].pos = pool[s0].pos PROVE s = s0
    BY <1>0, <2>2 DEF PoolTypeInv, MapTyped
  <2>3. ASSUME NEW s \in query.first, pool[s].pos < pool[s0].pos, pool[s].dist <= Reach
        PROVE  NoBetter(s, query.best, query.score)'
    <3>1. pool[s].pos <= query.at
      BY <1>0, <1>2, <2>3
    <3>2. NoBetter(s, best, score)
      BY <2>3, <3>1
    <3> QED BY <1>0, <2>1, <3>2 DEF NoBetter, Worth
  <2>4. best \in query.first => pool[best].pos <= pool[s0].pos
    BY <1>0, <1>2
  <2> QED BY <1>0, <2>1, <2>2, <2>3, <2>4 DEF QueryInv
<1> QED BY <1>1, <1>2 DEF QueryGo

\* The entry that was judged is passed as well, with the best so far or as it.
LEMMA Judged ==
  ASSUME PoolTypeInv, AllEligible, QueryInv, query.pc = "judge", NEW s \in query.first,
         pool[s].pos <= query.at, pool[s].dist <= Reach
  PROVE  /\ Better => NoBetter(s, query.s, Score)
         /\ ~Better => NoBetter(s, query.best, query.score)
<1>0. /\ s \in In /\ pool[s] \in Entry /\ query.e \in Entry /\ now \in Int
      /\ pool[s].pos \in Nat /\ query.at \in Nat /\ query.s \in Shippers /\ query.s # None
      /\ query.extra \in Int \cup {NaN} /\ Rush \in Nat
      /\ query.best \in query.first => pool[query.best].pos \in Nat
  <2>1. query \in Query /\ query.first \subseteq In /\ query.e \in Entry /\ query.s \in Shippers
    BY DEF PoolTypeInv, QueryTyped, QueryInv
  <2>2. \A t \in In : pool[t] \in Entry /\ pool[t].pos \in Nat
    BY DEF PoolTypeInv, MapTyped, In, Entry
  <2>3. query.at \in Nat
    BY <2>1 DEF Query
  <2>4. query.s # None
    BY <2>1, PoolAssumption
  <2> QED BY <2>1, <2>2, <2>3, <2>4, ExtraTyped
<1>1. CASE pool[s].pos = query.at
  <2>1. query.e = pool[s] /\ query.s = s /\ Eligible(query.e.user)
    BY <1>0, <1>1 DEF QueryInv, AllEligible
  <2>2. CASE query.extra = NaN
    <3>1. query.best \in query.first => pool[query.best].pos <= pool[s].pos
      BY <1>1 DEF QueryInv
    <3> QED BY <1>0, <2>1, <2>2, <3>1 DEF Better, NoBetter
  <2>3. CASE query.extra # NaN
    <3>1. Score \in Nat /\ query.score \in Nat /\ Score = Worth(pool[s], now, query.extra)
      BY <2>1, <2>3, ScoreTyped DEF Score, QueryInv
    <3> QED BY <1>0, <2>1, <2>3, <3>1 DEF Better, NoBetter
  <2> QED BY <2>2, <2>3
<1>2. CASE pool[s].pos < query.at
  <2>1. NoBetter(s, query.best, query.score)
    BY <1>2 DEF QueryInv
  <2>2. CASE query.extra = NaN
    BY <2>1, <2>2 DEF Better, NoBetter
  <2>3. CASE query.extra # NaN
    <3>1. Score \in Nat /\ query.score \in Nat /\ Worth(pool[s], now, query.extra) \in Nat
      BY <1>0, <2>3, ScoreTyped, WorthTyped DEF QueryInv
    <3> QED BY <1>0, <2>1, <2>3, <3>1 DEF Better, NoBetter
  <2> QED BY <2>1, <2>2, <2>3
<1> QED BY <1>0, <1>1, <1>2

LEMMA QueryNext ==
  PoolTypeInv /\ SweptInv /\ AllEligible /\ QueryInv /\ [PoolNext]_poolVars => QueryInv'
<1> SUFFICES ASSUME PoolTypeInv, SweptInv, AllEligible, QueryInv, [PoolNext]_poolVars
             PROVE  QueryInv'
  OBVIOUS
<1>0. /\ query \in Query /\ pool \in [Shippers -> Entry \cup {None}] /\ now \in Int
      /\ query.pc # "idle" => query.first \subseteq In
  BY PoolAssumption DEF PoolTypeInv, QueryTyped, MapTyped, ClockTyped, QueryInv
<1>a. ASSUME UNCHANGED <<query, pool, now>> PROVE QueryInv'
  <2>1. /\ query' = [query EXCEPT !.first = query.first, !.calm = query.calm]
        /\ query.calm \in BOOLEAN
    BY <1>0, <1>a DEF Query
  <2>2. In' = In
    BY <1>a DEF In
  <2> QED BY <1>0, <1>a, <2>1, <2>2, QueryKept
<1>b. ASSUME NEW w, NEW before, NEW at, Walk(w, before, at), now' = now PROVE QueryInv'
  <2>1. CASE UNCHANGED <<pool, query>>
    BY <1>a, <1>b, <2>1
  <2>2. ASSUME NEW s0 \in In, RemoveShipper(w, before, s0) PROVE QueryInv'
    <3>1. /\ query' = [query EXCEPT !.first = query.first \ {s0}, !.calm = query.calm]
          /\ pool' = [pool EXCEPT ![s0] = None] /\ query.calm \in BOOLEAN
      BY <1>0, <2>2 DEF RemoveShipper, Query
    <3>2. \A s \in In \ {s0} : s \in In' /\ pool'[s] = pool[s]
      BY <1>0, <3>1 DEF In
    <3>3. query.first \ {s0} \in SUBSET query.first
      OBVIOUS
    <3>4. query.pc # "idle" => \A s \in query.first \ {s0} : s \in In' /\ pool'[s] = pool[s]
      BY <1>0, <3>2
    <3> QED BY <1>b, <3>1, <3>3, <3>4, QueryKept
  <2> QED BY <1>b, <2>1, <2>2 DEF Walk, In
<1>1. ASSUME NEW c \in Calls, NEW score \in Scores, Enter(c, score) PROVE QueryInv'
  <2> DEFINE s0 == call[c].s
  <2>1. /\ query' = [query EXCEPT !.first = query.first \ {s0}, !.calm = query.calm]
        /\ now' = now /\ query.calm \in BOOLEAN
        /\ \E e : pool' = [pool EXCEPT ![s0] = e]
    BY <1>0, <1>1 DEF Enter, PoolSet, clock, Query
  <2> HIDE DEF s0
  <2>2. \A s \in In \ {s0} : s \in In' /\ pool'[s] = pool[s]
    BY <1>0, <2>1 DEF In
  <2>3. query.first \ {s0} \in SUBSET query.first
    OBVIOUS
  <2>4. query.pc # "idle" => \A s \in query.first \ {s0} : s \in In' /\ pool'[s] = pool[s]
    BY <1>0, <2>2
  <2> QED BY <2>1, <2>3, <2>4, QueryKept
<1>2. CASE IntervalCleanup \/ RequestCleanup \/ \E w \in Sweepers : RemoveSave(w)
  BY <1>b, <1>2 DEF IntervalCleanup, RequestCleanup, RemoveSave, clock
<1>3. ASSUME NEW extra \in Extras, QueryStart(extra) PROVE QueryInv'
  <2>1. /\ query'.pc = "start" /\ query'.at = 0 /\ query'.first = In /\ In' = In
        /\ query'.calm = (now \notin RushHours) /\ now' = now
    BY <1>3, NoneTyped DEF QueryStart, NoQuery, map, clock, In
  <2> QED BY <2>1 DEF QueryInv
<1>4. ASSUME QueryStep PROVE QueryInv'
  <2>0. UNCHANGED <<clock, map>>
    BY <1>4 DEF QueryStep
  <2>1. ASSUME query.pc = "start", QueryGo(None, 0) PROVE QueryInv'
    <3>1. \A s \in query.first : ~(pool[s].pos <= query.at)
      <4>1. \A s \in query.first : s \in In /\ pool[s].pos > 0 /\ pool[s].pos \in Nat
        BY <1>0, <2>1 DEF SweptInv, PoolTypeInv, MapTyped, In, Entry
      <4>2. query.at = 0
        BY <2>1 DEF QueryInv
      <4> QED BY <4>1, <4>2
    <3>2. query.pc # "idle" /\ None \notin query.first
      BY <1>0, <2>1, PoolAssumption DEF In
    <3> QED BY <2>0, <2>1, <3>1, <3>2, QueryGoes
  <2>2. ASSUME query.pc = "judge", Better, QueryGo(query.s, Score)
        PROVE  QueryInv'
    <3>1. query.s \in Shippers /\ query.e \in Entry
      BY <2>2 DEF PoolTypeInv, QueryTyped
    <3>2. query.extra # NaN => Score \in Nat
      BY <2>2, ScoreTyped
    <3>3. \A s \in query.first : pool[s].pos <= query.at /\ pool[s].dist <= Reach =>
             NoBetter(s, query.s, Score)
      BY <2>2, Judged
    <3>4. query.pc # "idle" /\ (query.s \in query.first => pool[query.s].pos <= query.at)
      BY <2>2 DEF QueryInv
    <3> QED BY <2>0, <2>2, <3>1, <3>2, <3>3, <3>4, QueryGoes
  <2>3. ASSUME query.pc = "judge", ~Better, QueryGo(query.best, query.score) PROVE QueryInv'
    <3>1. query.best \in Shippers \cup {None}
      BY <1>0 DEF Query
    <3>2. \A s \in query.first : pool[s].pos <= query.at /\ pool[s].dist <= Reach =>
             NoBetter(s, query.best, query.score)
      BY <2>3, Judged
    <3>3. /\ query.pc # "idle" /\ (query.extra # NaN => query.score \in Nat)
          /\ query.best \in query.first => pool[query.best].pos <= query.at
      BY <2>3 DEF QueryInv
    <3> QED BY <2>0, <2>3, <3>1, <3>2, <3>3, QueryGoes
  <2> QED BY <1>4, <2>1, <2>2, <2>3 DEF QueryStep
<1>5. ASSUME Tick PROVE QueryInv'
  <2> DEFINE calm == query.pc # "idle" /\ (query.calm \/ now + 1 \notin RushHours)
  <2>1. /\ query' = [query EXCEPT !.first = query.first, !.calm = calm]
        /\ now' = now + 1 /\ pool' = pool /\ calm \in BOOLEAN
    BY <1>0, <1>5 DEF Tick, map, Query
  <2> HIDE DEF calm
  <2>2. In' = In
    BY <2>1 DEF In
  <2>3. calm = (query.pc # "idle" /\ (query.calm \/ now + 1 \notin RushHours))
    BY DEF calm
  <2> QED BY <1>0, <2>1, <2>2, <2>3, QueryKept
<1>6. ASSUME Restart PROVE QueryInv'
  BY <1>6, NoneTyped DEF Restart, QueryInv
<1>7. ASSUME UNCHANGED <<query, pool, now>> PROVE QueryInv'
  BY <1>a, <1>7
<1> QED BY <1>1, <1>2, <1>3, <1>4, <1>5, <1>6, <1>7 DEF PoolNext, Judge, Deliveries, Subscribe,
           CheckEligible, EnterSave, RemoveRead, Offer, ClearOrder, poolVars, clock, map

\* However the pool changes and the clock goes on while the query awaits at each
\* entry, and whatever its parameters: nobody who was in the pool all along, and
\* in reach, has anything on the shipper returned.
THEOREM BestThroughoutCorrect == PoolSpec => BestThroughout
<1> DEFINE Ends == query.pc = "judge" /\ query'.pc = "idle" /\ pool' = pool
           Best == \A s \in query.first :
                      pool[s].dist <= Reach =>
                        IF Better THEN NoBetter(s, query.s, Score)
                                  ELSE NoBetter(s, query.best, query.score)
<1>1. PoolInit => FitInv /\ SweptInv /\ AllEligible /\ QueryInv
  <2> SUFFICES ASSUME PoolInit PROVE FitInv /\ SweptInv /\ AllEligible /\ QueryInv
    OBVIOUS
  <2>1. /\ In = {} /\ sweep["interval"].pc = "idle" /\ query.pc = "idle"
        /\ \A c \in Calls : call[c].pc = "idle"
    BY NoneTyped DEF PoolInit, In, Sweepers
  <2> QED BY <2>1 DEF PoolInit, FitInv, SweptInv, AllEligible, QueryInv
<1>2. PoolTypeInv /\ AllEligible /\ QueryInv /\ [PoolNext]_poolVars => (Ends => Best)
  <2> SUFFICES ASSUME PoolTypeInv, AllEligible, QueryInv, [PoolNext]_poolVars, Ends PROVE Best
    OBVIOUS
  <2>0. /\ query \in Query /\ query.first \subseteq In /\ query.at \in Nat
        /\ \A s \in In : pool[s].pos \in Nat
    BY DEF PoolTypeInv, QueryTyped, Query, QueryInv, MapTyped, In, Entry
  <2>1. ASSUME NEW best, NEW score, QueryGo(best, score) PROVE Best
    <3>1. query' = NoQuery
      <4>1. ASSUME NEW s \in In,
                   query' = [query EXCEPT !.pc = "judge", !.at = pool[s].pos, !.s = s,
                                          !.e = pool[s], !.best = best, !.score = score]
            PROVE  FALSE
        BY <2>0, <4>1 DEF Query
      <4> QED BY <2>1, <4>1 DEF QueryGo
    <3>2. {s \in In : pool[s].pos > query.at /\ pool[s].dist <= Reach} = {}
      <4>1. ASSUME NEW s \in In,
                   query' = [query EXCEPT !.pc = "judge", !.at = pool[s].pos, !.s = s,
                                          !.e = pool[s], !.best = best, !.score = score]
            PROVE  FALSE
        BY <2>0, <4>1 DEF Query
      <4> QED BY <2>1, <4>1 DEF QueryGo
    <3>3. \A s \in query.first : pool[s].dist <= Reach => pool[s].pos <= query.at
      BY <2>0, <3>2
    <3> QED BY <3>3, Judged
  <2>2. ASSUME query' = query \/ query'.pc = query.pc PROVE FALSE
    BY <2>2
  <2>3. CASE Restart
    <3>1. In = {}
      BY <2>3 DEF Restart, In
    <3> QED BY <2>0, <3>1
  <2>4. ASSUME NEW x, query' = [query EXCEPT !.first = @ \ {x}] PROVE FALSE
    BY <2>0, <2>4 DEF Query
  <2>5. ASSUME NEW w, NEW before, NEW at, Walk(w, before, at) PROVE FALSE
    BY <2>2, <2>4, <2>5 DEF Walk, RemoveShipper
  <2>6. CASE IntervalCleanup \/ RequestCleanup \/ \E w \in Sweepers : RemoveSave(w)
    BY <2>5, <2>6 DEF IntervalCleanup, RequestCleanup, RemoveSave
  <2>7. ASSUME NEW c \in Calls, NEW score \in Scores, Enter(c, score) PROVE FALSE
    BY <2>4, <2>7 DEF Enter
  <2>8. CASE QueryStep
    BY <2>1, <2>8 DEF QueryStep
  <2>9. CASE \E extra \in Extras : QueryStart(extra)
    BY <2>9 DEF QueryStart
  <2>10. ASSUME Tick PROVE FALSE
    BY <2>0, <2>10 DEF Tick, Query
  <2> HIDE DEF Best
  <2> QED BY <2>2, <2>3, <2>6, <2>7, <2>8, <2>9, <2>10 DEF PoolNext, Judge, Deliveries,
             Subscribe, CheckEligible, EnterSave, RemoveRead, Offer, ClearOrder, poolVars
<1>3. PoolTypeInv /\ AllEligible /\ QueryInv /\ [PoolNext]_poolVars => [Ends => Best]_poolVars
  BY <1>2
<1> QED BY <1>1, <1>3, TypeAlways, FitNext, SweptNext, EligibleNext, QueryNext,
           PTL DEF PoolSpec, BestThroughout

-----------------------------------------------------------------------------
(***************************************************************************)
(* The statistics of a shipper.                                            *)
(***************************************************************************)

SlotType == [pc : Stages, o : Orders \cup {"none"}, row : Row, n : Nat]

\* The stages at which a handler has an order.
WithOrder == Stages \ {"idle", "profile_save", "profile_cert"}

TypeInv == StatsTypeOK /\ \A k \in Slots : slot[k].pc \in WithOrder => slot[k].o \in Orders

-----------------------------------------------------------------------------
(***************************************************************************)
(* Types.                                                                  *)
(***************************************************************************)
LEMMA NewTyped == \A n \in Nat \X Nat : NewShipper(n) \in Row
<1> SUFFICES ASSUME NEW n \in Nat \X Nat PROVE NewShipper(n) \in Row
  OBVIOUS
<1>1. n[1] \in Nat /\ n[2] \in Nat
  OBVIOUS
<1>2. n[1] * 2000000 \in Nat
  BY <1>1
<1> QED BY <1>1, <1>2 DEF NewShipper, Row, Cert

LEMMA IdleTyped == Idle \in SlotType /\ Idle.pc = "idle"
<1>1. <<0, 0>> \in Nat \X Nat
  OBVIOUS
<1> QED BY <1>1, NewTyped DEF Idle, SlotType, Stages

LEMMA RoundTyped == \A a \in Int, b \in {10, 100} : Round(a, b) \in Int
  BY DEF Round

LEMMA EarningsTyped ==
  ASSUME NEW terms \in [fee : Nat, dist : Nat, total : Nat], NEW hour, NEW onTime \in BOOLEAN,
         NEW completed \in Nat
  PROVE  Earnings(terms, hour, onTime, completed) \in Nat
<1>1. terms.fee \in Nat /\ terms.dist \in Nat /\ terms.total \in Nat
  OBVIOUS
<1>2. Round(terms.fee * 85, 100) \in Int
  BY <1>1, RoundTyped
<1>3. Most(0, (terms.dist - 10) * 500) \in Int
  BY <1>1 DEF Most
<1>4. Least(1000000, terms.total) \in Int
  BY <1>1 DEF Least
<1>5. TimeBonus(hour) \in Int /\ PerformanceBonus(completed) \in Int
  BY DEF TimeBonus, PerformanceBonus
<1> DEFINE base == Round(terms.fee * 85, 100)
           distance == Most(0, (terms.dist - 10) * 500)
           value == Least(1000000, terms.total)
           bonus == TimeBonus(hour) + PerformanceBonus(completed) + (IF onTime THEN 3000 ELSE 0)
           all == (base + distance + bonus) * 100 + value
<1>6. bonus \in Int
  BY <1>5
<1>7. Earnings(terms, hour, onTime, completed) = Most(all, 2000000)
  BY DEF Earnings
<1>8. all \in Int
  <2> HIDE DEF base, distance, value, bonus
  <2> SUFFICES base \in Int /\ distance \in Int /\ value \in Int /\ bonus \in Int
    OBVIOUS
  <2> QED BY <1>2, <1>3, <1>4, <1>6 DEF base, distance, value
<1> HIDE DEF all
<1> QED BY <1>7, <1>8 DEF Most

LEMMA TypeInit == StatsInit => TypeInv
<1> SUFFICES ASSUME StatsInit PROVE TypeInv
  OBVIOUS
<1>1. stat \in Row /\ start \in Row
  <2>1. PICK n \in InitCounts : stat = NewShipper(n)
    BY DEF StatsInit
  <2> QED BY <2>1, NewTyped, StatsAssumption DEF StatsInit
<1>2. slot \in [Slots -> SlotType] /\ \A k \in Slots : slot[k].pc = "idle"
  BY IdleTyped DEF StatsInit
<1>3. warned \in BOOLEAN
  BY DEF StatsInit, Warns
<1>4. order \in [Orders -> Order]
  BY StatsAssumption DEF StatsInit, Order, OrderStatus
<1>5. day \in 0..MaxDay /\ calls \in 0..MaxCalls /\ crashes \in 0..MaxCrashes
  BY StatsAssumption DEF StatsInit
<1>6. count \in [Kinds -> Nat] /\ overlap \in BOOLEAN
  BY DEF StatsInit, Kinds
<1> QED BY <1>1, <1>2, <1>3, <1>4, <1>5, <1>6 DEF TypeInv, StatsTypeOK, SlotType, WithOrder

\* A handler goes on, or ends, with a record of the right type.
LEMMA SlotTyped ==
  ASSUME TypeInv, NEW k \in Slots, NEW r \in SlotType, slot' = [slot EXCEPT ![k] = r],
         r.pc \in WithOrder => r.o \in Orders
  PROVE  /\ slot' \in [Slots -> SlotType]
         /\ \A j \in Slots : slot'[j].pc \in WithOrder => slot'[j].o \in Orders
  BY DEF TypeInv, StatsTypeOK, SlotType

LEMMA EndTyped ==
  ASSUME TypeInv, NEW k \in Slots, End(k)
  PROVE  /\ slot' \in [Slots -> SlotType]
         /\ \A j \in Slots : slot'[j].pc \in WithOrder => slot'[j].o \in Orders
  BY IdleTyped, SlotTyped DEF End, WithOrder

LEMMA GotoTyped ==
  ASSUME TypeInv, NEW k \in Slots, NEW pc \in Stages, Goto(k, pc),
         pc \in WithOrder => slot[k].o \in Orders
  PROVE  /\ slot' \in [Slots -> SlotType]
         /\ \A j \in Slots : slot'[j].pc \in WithOrder => slot'[j].o \in Orders
<1>1. slot \in [Slots -> SlotType]
  BY DEF TypeInv, StatsTypeOK, SlotType
<1>2. [slot[k] EXCEPT !.pc = pc] \in SlotType
  BY <1>1 DEF SlotType
<1>3. [slot[k] EXCEPT !.pc = pc].pc = pc /\ [slot[k] EXCEPT !.pc = pc].o = slot[k].o
  BY <1>1 DEF SlotType
<1>4. slot' = [slot EXCEPT ![k] = [slot[k] EXCEPT !.pc = pc]]
  BY DEF Goto
<1> QED BY <1>2, <1>3, <1>4, SlotTyped

LEMMA BeginTyped ==
  ASSUME TypeInv, NEW k \in Slots, NEW pc \in Stages, NEW o \in Orders \cup {"none"},
         NEW n \in Nat, Begin(k, pc, o, n), pc \in WithOrder => o \in Orders
  PROVE  /\ slot' \in [Slots -> SlotType] /\ calls' \in 0..MaxCalls /\ overlap' \in BOOLEAN
         /\ \A j \in Slots : slot'[j].pc \in WithOrder => slot'[j].o \in Orders
<1> DEFINE r == [pc |-> pc, o |-> o, row |-> stat, n |-> n]
<1>1. r \in SlotType /\ r.pc = pc /\ r.o = o
  BY DEF TypeInv, StatsTypeOK, SlotType
<1>2. slot' = [slot EXCEPT ![k] = r]
  BY DEF Begin
<1>3. calls' \in 0..MaxCalls /\ overlap' \in BOOLEAN
  BY StatsAssumption DEF Begin, TypeInv, StatsTypeOK
<1> HIDE DEF r
<1> QED BY <1>1, <1>2, <1>3, SlotTyped

\* The counters a handler saves.
LEMMA SaveRowTyped ==
  ASSUME TypeInv, NEW saved \in Row, SaveRow(saved)
  PROVE  stat' \in Row
  BY DEF TypeInv, StatsTypeOK, SaveRow, Row

LEMMA SavedTyped ==
  ASSUME NEW r \in Row, NEW n \in Nat
  PROVE  /\ [r EXCEPT !.active = @ + 1, !.response = Most(@ + n, 1)] \in Row
         /\ [r EXCEPT !.completed = @ + 1, !.active = Most(@ - 1, 0),
                      !.earnings = @ + n, !.daily = @ + n] \in Row
         /\ [r EXCEPT !.active = Most(@ - 1, 0), !.failed = @ + 1] \in Row
         /\ Rejected(r, n) \in Row
<1>1. /\ r.active + 1 \in Nat /\ Most(r.response + n, 1) \in Nat
      /\ Most(r.active - 1, 0) \in Nat
  BY DEF Row, Most
<1>2. /\ r.completed + 1 \in Nat /\ r.earnings + n \in Nat /\ r.daily + n \in Nat
      /\ r.failed + 1 \in Nat /\ r.rejected + 1 \in Nat /\ r.response + n \in Nat
  BY DEF Row
<1>3. [r EXCEPT !.active = @ + 1, !.response = Most(@ + n, 1)] \in Row
  BY <1>1 DEF Row
<1>4. [r EXCEPT !.active = Most(@ - 1, 0), !.failed = @ + 1] \in Row
  BY <1>1, <1>2 DEF Row
<1>5. [r EXCEPT !.completed = @ + 1, !.active = Most(@ - 1, 0),
                !.earnings = @ + n, !.daily = @ + n] \in Row
  BY <1>1, <1>2 DEF Row
<1>6. Rejected(r, n) \in Row
  BY <1>1, <1>2 DEF Row, Rejected
<1> QED BY <1>3, <1>4, <1>5, <1>6

LEMMA CountedTyped ==
  ASSUME TypeInv, NEW kind \in Kinds, Counted(kind)
  PROVE  count' \in [Kinds -> Nat]
  BY DEF TypeInv, StatsTypeOK, Counted

\* The state after a step is of the right types when its parts are.
LEMMA Typed ==
  ASSUME order' \in [Orders -> Order], stat' \in Row, slot' \in [Slots -> SlotType],
         \A j \in Slots : slot'[j].pc \in WithOrder => slot'[j].o \in Orders,
         day' \in 0..MaxDay, calls' \in 0..MaxCalls, crashes' \in 0..MaxCrashes,
         start' \in Row, count' \in [Kinds -> Nat], warned' \in BOOLEAN, overlap' \in BOOLEAN
  PROVE  TypeInv'
  BY DEF TypeInv, StatsTypeOK, SlotType

LEMMA Types ==
  ASSUME TypeInv
  PROVE  /\ order \in [Orders -> Order] /\ stat \in Row /\ slot \in [Slots -> SlotType]
         /\ \A j \in Slots : slot[j].pc \in WithOrder => slot[j].o \in Orders
         /\ day \in 0..MaxDay /\ calls \in 0..MaxCalls /\ crashes \in 0..MaxCrashes
         /\ start \in Row /\ count \in [Kinds -> Nat] /\ warned \in BOOLEAN
         /\ overlap \in BOOLEAN
  BY DEF TypeInv, StatsTypeOK, SlotType

\* An order whose fields are written with values of their types.
LEMMA OrderTyped ==
  ASSUME TypeInv, NEW o \in Orders
  PROVE  /\ [order EXCEPT ![o].detail = "shipping", ![o].st = "shipper_received"]
                \in [Orders -> Order]
         /\ \A links \in BOOLEAN :
                [order EXCEPT ![o].st = "delivering", ![o].linked = links] \in [Orders -> Order]
         /\ [order EXCEPT ![o].detail = "completed", ![o].done = day] \in [Orders -> Order]
         /\ [order EXCEPT ![o].st = "completed", ![o].linked = TRUE] \in [Orders -> Order]
         /\ \A earned \in Nat :
                [order EXCEPT ![o].earn = earned, ![o].st = "completed"] \in [Orders -> Order]
         /\ [order EXCEPT ![o].st = "canceled"] \in [Orders -> Order]
<1>1. order[o] \in Order /\ day \in 0..MaxDay
  BY Types
<1>2. /\ [order[o] EXCEPT !.detail = "shipping", !.st = "shipper_received"] \in Order
      /\ \A links \in BOOLEAN : [order[o] EXCEPT !.st = "delivering", !.linked = links] \in Order
      /\ [order[o] EXCEPT !.detail = "completed", !.done = day] \in Order
      /\ [order[o] EXCEPT !.st = "completed", !.linked = TRUE] \in Order
      /\ \A earned \in Nat : [order[o] EXCEPT !.earn = earned, !.st = "completed"] \in Order
      /\ [order[o] EXCEPT !.st = "canceled"] \in Order
  BY <1>1 DEF Order, OrderStatus
<1>3. \A r \in Order : [order EXCEPT ![o] = r] \in [Orders -> Order]
  BY Types
<1>4. /\ [order EXCEPT ![o].detail = "shipping", ![o].st = "shipper_received"]
           = [order EXCEPT ![o] = [order[o] EXCEPT !.detail = "shipping", !.st = "shipper_received"]]
      /\ \A links : [order EXCEPT ![o].st = "delivering", ![o].linked = links]
           = [order EXCEPT ![o] = [order[o] EXCEPT !.st = "delivering", !.linked = links]]
      /\ [order EXCEPT ![o].detail = "completed", ![o].done = day]
           = [order EXCEPT ![o] = [order[o] EXCEPT !.detail = "completed", !.done = day]]
      /\ [order EXCEPT ![o].st = "completed", ![o].linked = TRUE]
           = [order EXCEPT ![o] = [order[o] EXCEPT !.st = "completed", !.linked = TRUE]]
      /\ \A earned : [order EXCEPT ![o].earn = earned, ![o].st = "completed"]
           = [order EXCEPT ![o] = [order[o] EXCEPT !.earn = earned, !.st = "completed"]]
      /\ [order EXCEPT ![o].st = "canceled"]
           = [order EXCEPT ![o] = [order[o] EXCEPT !.st = "canceled"]]
  BY Types
<1> QED BY <1>2, <1>3, <1>4

LEMMA TypeNext == TypeInv /\ [StatsNext]_statsVars => TypeInv'
<1> SUFFICES ASSUME TypeInv, [StatsNext]_statsVars PROVE TypeInv'
  OBVIOUS
<1> USE Types
<1>1. ASSUME NEW k \in Slots, NEW o \in Orders, NEW m \in Minutes, AcceptRead(k, o, m)
      PROVE  TypeInv'
  <2>1. m \in Nat /\ "accept_insert" \in Stages
    BY StatsAssumption DEF Stages
  <2> QED BY <1>1, <2>1, BeginTyped, Typed DEF AcceptRead
<1>2. ASSUME NEW k \in Slots, AcceptInsert(k) PROVE TypeInv'
  <2>1. slot[k].o \in Orders /\ "accept_save" \in Stages
    BY <1>2 DEF AcceptInsert, At, WithOrder, Stages
  <2>2. order' \in [Orders -> Order]
    <3>1. [order EXCEPT ![slot[k].o].detail = "shipping", ![slot[k].o].st = "shipper_received"]
            \in [Orders -> Order]
      BY <2>1, OrderTyped
    <3> QED BY <1>2, <3>1 DEF AcceptInsert
  <2>3. /\ slot' \in [Slots -> SlotType]
        /\ \A j \in Slots : slot'[j].pc \in WithOrder => slot'[j].o \in Orders
    BY <1>2, <2>1, GotoTyped, EndTyped DEF AcceptInsert
  <2> QED BY <1>2, <2>2, <2>3, Typed DEF AcceptInsert
<1>3. ASSUME NEW k \in Slots, AcceptSave(k) PROVE TypeInv'
  <2>1. slot[k].row \in Row /\ slot[k].n \in Nat /\ "accept" \in Kinds
    BY DEF SlotType, Kinds
  <2>2. stat' \in Row
    BY <1>3, <2>1, SavedTyped, SaveRowTyped DEF AcceptSave
  <2>3. count' \in [Kinds -> Nat]
    BY <1>3, <2>1, CountedTyped DEF AcceptSave
  <2> QED BY <1>3, <2>2, <2>3, EndTyped, Typed DEF AcceptSave
<1>4. ASSUME NEW o \in Orders, NEW links \in BOOLEAN, Deliver(o, links) PROVE TypeInv'
  BY <1>4, OrderTyped, Typed DEF Deliver
<1>5. ASSUME NEW k \in Slots, NEW o \in Orders, CompleteDetail(k, o) PROVE TypeInv'
  <2>1. "complete_order" \in Stages /\ 0 \in Nat
    BY DEF Stages
  <2> QED BY <1>5, <2>1, OrderTyped, BeginTyped, Typed DEF CompleteDetail
<1>6. ASSUME NEW k \in Slots, CompleteOrder(k) PROVE TypeInv'
  <2>1. slot[k].o \in Orders
    BY <1>6 DEF CompleteOrder, At, WithOrder, Stages
  <2> DEFINE r == [slot[k] EXCEPT !.pc = "complete_earn", !.n = order[slot[k].o].earn]
  <2>2. order[slot[k].o].earn \in Nat
    BY <2>1 DEF Order
  <2>3. r \in SlotType /\ r.o = slot[k].o
    BY <2>2 DEF SlotType, Stages
  <2>4. slot' = [slot EXCEPT ![k] = r]
    BY <1>6 DEF CompleteOrder
  <2> HIDE DEF r
  <2>5. /\ slot' \in [Slots -> SlotType]
        /\ \A j \in Slots : slot'[j].pc \in WithOrder => slot'[j].o \in Orders
    BY <2>1, <2>3, <2>4, SlotTyped
  <2>6. order' \in [Orders -> Order]
    BY <1>6, <2>1, OrderTyped DEF CompleteOrder
  <2> QED BY <1>6, <2>5, <2>6, Typed DEF CompleteOrder
<1>7. ASSUME NEW k \in Slots, NEW hour \in Hours, NEW onTime \in BOOLEAN,
             CompleteEarn(k, hour, onTime)
      PROVE  TypeInv'
  <2> DEFINE earned == Earnings(Terms[slot[k].o], hour, onTime, stat.completed)
             late == IF onTime THEN 0 ELSE 1
             saved == [stat EXCEPT !.onTime = @ + 1 - late, !.late = @ + late]
             r(amount) == [slot[k] EXCEPT !.pc = "complete_save", !.n = amount, !.row = saved]
  <2>1. slot[k].o \in Orders
    BY <1>7 DEF CompleteEarn, At, WithOrder, Stages
  <2>2. earned \in Nat
    <3>1. Terms[slot[k].o] \in [fee : Nat, dist : Nat, total : Nat]
      BY <2>1, StatsAssumption
    <3>2. stat.completed \in Nat
      BY DEF Row
    <3> QED BY <3>1, <3>2, EarningsTyped
  <2>3. saved \in Row
    <3>1. stat.onTime + 1 - late \in Nat /\ stat.late + late \in Nat
      BY DEF Row
    <3> QED BY <3>1 DEF Row
  <2>4. \A amount \in Nat : r(amount) \in SlotType /\ r(amount).o = slot[k].o
    <3> HIDE DEF saved
    <3> QED BY <2>3 DEF SlotType, Stages
  <2>5. slot[k].n \in Nat
    BY DEF SlotType
  <2>6. \/ (slot' = [slot EXCEPT ![k] = r(slot[k].n)] /\ order' = order)
        \/ (/\ slot' = [slot EXCEPT ![k] = r(earned)]
            /\ order' = [order EXCEPT ![slot[k].o].earn = earned, ![slot[k].o].st = "completed"])
        \/ (End(k) /\ order' = order)
    <3> HIDE DEF earned
    <3>1. \A amount : [slot EXCEPT ![k].pc = "complete_save", ![k].n = amount, ![k].row = saved]
                        = [slot EXCEPT ![k] = r(amount)]
      OBVIOUS
    <3> QED BY <1>7, <3>1 DEF CompleteEarn, earned
  <2> HIDE DEF r, earned, saved
  <2>7. /\ slot' \in [Slots -> SlotType]
        /\ \A j \in Slots : slot'[j].pc \in WithOrder => slot'[j].o \in Orders
    BY <2>1, <2>2, <2>4, <2>5, <2>6, SlotTyped, EndTyped
  <2>8. order' \in [Orders -> Order]
    <3>1. [order EXCEPT ![slot[k].o].earn = earned, ![slot[k].o].st = "completed"]
            \in [Orders -> Order]
      BY <2>1, <2>2, OrderTyped
    <3> QED BY <2>6, <3>1
  <2> QED BY <1>7, <2>7, <2>8, Typed DEF CompleteEarn
<1>8. ASSUME NEW k \in Slots, CompleteSave(k) PROVE TypeInv'
  <2>1. slot[k].row \in Row /\ slot[k].n \in Nat /\ "complete" \in Kinds
    BY DEF SlotType, Kinds
  <2>2. stat' \in Row
    BY <1>8, <2>1, SavedTyped, SaveRowTyped DEF CompleteSave
  <2>3. count' \in [Kinds -> Nat]
    BY <1>8, <2>1, CountedTyped DEF CompleteSave
  <2> QED BY <1>8, <2>2, <2>3, EndTyped, Typed DEF CompleteSave
<1>9. ASSUME NEW k \in Slots, NEW o \in Orders, CancelRead(k, o) PROVE TypeInv'
  <2>1. "cancel_save" \in Stages /\ 0 \in Nat
    BY DEF Stages
  <2> QED BY <1>9, <2>1, BeginTyped, Typed DEF CancelRead
<1>10. ASSUME NEW k \in Slots, CancelSave(k) PROVE TypeInv'
  <2>1. slot[k].o \in Orders /\ "cancel_count" \in Stages
    BY <1>10 DEF CancelSave, At, WithOrder, Stages
  <2> QED BY <1>10, <2>1, OrderTyped, GotoTyped, Typed DEF CancelSave
<1>11. ASSUME NEW k \in Slots, CancelCount(k) PROVE TypeInv'
  <2>1. slot[k].row \in Row /\ 0 \in Nat /\ "cancel" \in Kinds
    BY DEF SlotType, Kinds
  <2>2. stat' \in Row
    BY <1>11, <2>1, SavedTyped, SaveRowTyped DEF CancelCount
  <2>3. count' \in [Kinds -> Nat]
    BY <1>11, <2>1, CountedTyped DEF CancelCount
  <2> QED BY <1>11, <2>2, <2>3, EndTyped, Typed DEF CancelCount
<1>12. ASSUME NEW k \in Slots, NEW o \in Orders, NEW m \in Minutes, RejectRead(k, o, m)
       PROVE  TypeInv'
  <2>1. PICK pc \in {"reject_ban", "reject_save"} : Begin(k, pc, o, m)
    BY <1>12 DEF RejectRead
  <2>2. m \in Nat /\ pc \in Stages
    BY StatsAssumption DEF Stages
  <2> QED BY <1>12, <2>1, <2>2, BeginTyped, Typed DEF RejectRead
<1>13. ASSUME NEW k \in Slots, RejectBan(k) PROVE TypeInv'
  <2>1. slot[k].o \in Orders /\ "reject_save" \in Stages
    BY <1>13 DEF RejectBan, At, WithOrder, Stages
  <2>2. stat' \in Row
    BY <1>13 DEF RejectBan, Row, Cert
  <2> QED BY <1>13, <2>1, <2>2, GotoTyped, Typed DEF RejectBan
<1>14. ASSUME NEW k \in Slots, RejectSave(k) PROVE TypeInv'
  <2>1. slot[k].row \in Row /\ slot[k].n \in Nat /\ "reject" \in Kinds
    BY DEF SlotType, Kinds
  <2>2. stat' \in Row
    BY <1>14, <2>1, SavedTyped, SaveRowTyped DEF RejectSave
  <2>3. count' \in [Kinds -> Nat]
    BY <1>14, <2>1, CountedTyped DEF RejectSave
  <2>4. warned' \in BOOLEAN
    BY <1>14 DEF RejectSave
  <2> QED BY <1>14, <2>2, <2>3, <2>4, EndTyped, Typed DEF RejectSave
<1>15. ASSUME NEW k \in Slots, ProfileRead(k) PROVE TypeInv'
  <2>1. "profile_save" \in Stages \ WithOrder /\ 0 \in Nat
    BY DEF Stages, WithOrder
  <2> QED BY <1>15, <2>1, BeginTyped, Typed DEF ProfileRead
<1>16. ASSUME NEW k \in Slots, NEW driver \in BOOLEAN, ProfileSave(k, driver) PROVE TypeInv'
  <2>1. slot[k].row \in Row /\ "profile_cert" \in Stages \ WithOrder
    BY DEF SlotType, Stages, WithOrder
  <2>2. stat' \in Row
    BY <1>16, <2>1, SaveRowTyped DEF ProfileSave
  <2>3. /\ slot' \in [Slots -> SlotType]
        /\ \A j \in Slots : slot'[j].pc \in WithOrder => slot'[j].o \in Orders
    BY <1>16, <2>1, GotoTyped, EndTyped DEF ProfileSave
  <2> QED BY <1>16, <2>2, <2>3, Typed DEF ProfileSave
<1>17. ASSUME NEW k \in Slots, ProfileCert(k) PROVE TypeInv'
  <2>1. slot[k].row.cert \in Cert
    BY DEF SlotType, Row
  <2>2. stat' \in Row
    BY <1>17, <2>1 DEF ProfileCert, Row
  <2> QED BY <1>17, <2>2, EndTyped, Typed DEF ProfileCert
<1>18. ASSUME NEW verdict \in {"APPROVED", "REJECTED"}, Decide(verdict) PROVE TypeInv'
  <2>1. stat' \in Row
    BY <1>18 DEF Decide, Row, Cert
  <2>2. calls' \in 0..MaxCalls /\ overlap' \in BOOLEAN
    BY <1>18, StatsAssumption DEF Decide
  <2> QED BY <1>18, <2>1, <2>2, Typed DEF Decide
<1>19. ASSUME NewDay PROVE TypeInv'
  <2>1. /\ day' \in 0..MaxDay
        /\ order' \in [Orders -> Order]
    BY <1>19, StatsAssumption DEF NewDay
  <2> QED BY <1>19, <2>1, Typed DEF NewDay
<1>20. ASSUME Crash PROVE TypeInv'
  <2>1. crashes' \in 0..MaxCrashes
    BY <1>20, StatsAssumption DEF Crash
  <2>2. /\ slot' \in [Slots -> SlotType]
        /\ \A j \in Slots : slot'[j].pc \in WithOrder => slot'[j].o \in Orders
    BY <1>20, IdleTyped DEF Crash, WithOrder
  <2> QED BY <1>20, <2>1, <2>2, Typed DEF Crash
<1>21. CASE UNCHANGED statsVars
  BY <1>21, Typed DEF statsVars
<1> QED BY <1>1, <1>2, <1>3, <1>4, <1>5, <1>6, <1>7, <1>8, <1>9, <1>10, <1>11, <1>12, <1>13,
           <1>14, <1>15, <1>16, <1>17, <1>18, <1>19, <1>20, <1>21
        DEF StatsNext, Request, Continue

\* The row, the orders and the handlers keep their types (StatsTypeOK), for
\* every number of them: a counter never falls below zero and a handler that
\* works on an order has one.
THEOREM StatsTypeCorrect == StatsSpec => []StatsTypeOK
<1>1. TypeInv => StatsTypeOK
  BY DEF TypeInv
<1> QED BY <1>1, TypeInit, TypeNext, PTL DEF StatsSpec
-----------------------------------------------------------------------------
(***************************************************************************)
(* Counters.  A row that a handler holds was once the row of the database: *)
(* what it says has not run ahead of the handlers that counted, whatever   *)
(* has been saved since.  A completion that is about to save has counted   *)
(* the delivery as punctual or late and not yet as completed.              *)
(***************************************************************************)
Fits(saved, extra, c, s) ==
    /\ saved.onTime + saved.late = saved.completed + extra
    /\ saved.completed - s.completed <= c["complete"]
    /\ saved.rejected - s.rejected <= c["reject"]
    /\ saved.failed - s.failed <= c["reject"] + c["cancel"]
    /\ saved.active <= c["accept"]

Extra(pc) == IF pc = "complete_save" THEN 1 ELSE 0

Gained(saved, c, s) ==
    /\ saved.completed - s.completed = c["complete"]
    /\ saved.rejected - s.rejected = c["reject"]
    /\ saved.failed - s.failed = c["reject"] + c["cancel"]

Agrees(r, s) == r.completed = s.completed /\ r.rejected = s.rejected /\ r.failed = s.failed

CountInv ==
    /\ Fits(stat, 0, count, start)
    /\ \A k \in Slots : slot[k].pc # "idle" => Fits(slot[k].row, Extra(slot[k].pc), count, start)
    /\ ~overlap =>
          /\ Gained(stat, count, start)
          /\ \A k \in Slots : slot[k].pc # "idle" =>
                 /\ Agrees(slot[k].row, stat)
                 /\ \A j \in Slots \ {k} : slot[j].pc = "idle"

Inv == TypeInv /\ CountInv

LEMMA CountInit == StatsInit => CountInv
<1> SUFFICES ASSUME StatsInit PROVE CountInv
  OBVIOUS
<1>1. PICK n \in Nat \X Nat : stat = NewShipper(n) /\ start = stat
  BY StatsAssumption DEF StatsInit
<1>2. n[1] \in Nat /\ n[2] \in Nat
  OBVIOUS
<1>3. /\ stat.completed = n[1] /\ stat.onTime = n[1] /\ stat.late = 0 /\ stat.active = 0
      /\ stat.rejected = n[2] /\ stat.failed = n[2]
  BY <1>1 DEF NewShipper
<1>4. \A c \in Kinds : count[c] = 0
  BY DEF StatsInit
<1>5. Fits(stat, 0, count, start) /\ Gained(stat, count, start)
  BY <1>1, <1>2, <1>3, <1>4 DEF Fits, Gained, Kinds
<1>6. \A k \in Slots : slot[k].pc = "idle"
  BY IdleTyped DEF StatsInit
<1> QED BY <1>5, <1>6 DEF CountInv

\* More handlers have counted: what fitted still does.
LEMMA FitsOn ==
  ASSUME NEW saved \in Row, NEW extra \in Nat, NEW s \in Row, NEW c \in [Kinds -> Nat],
         NEW d \in [Kinds -> Nat], \A kind \in Kinds : c[kind] <= d[kind],
         Fits(saved, extra, c, s)
  PROVE  Fits(saved, extra, d, s)
<1>1. /\ c["complete"] <= d["complete"] /\ c["reject"] <= d["reject"]
      /\ c["cancel"] <= d["cancel"] /\ c["accept"] <= d["accept"]
  BY DEF Kinds
<1>2. /\ c["complete"] \in Nat /\ c["reject"] \in Nat /\ c["cancel"] \in Nat /\ c["accept"] \in Nat
      /\ d["complete"] \in Nat /\ d["reject"] \in Nat /\ d["cancel"] \in Nat /\ d["accept"] \in Nat
  BY DEF Kinds
<1>3. /\ saved.completed \in Nat /\ saved.rejected \in Nat /\ saved.failed \in Nat /\ saved.active \in Nat
      /\ s.completed \in Nat /\ s.rejected \in Nat /\ s.failed \in Nat
  BY DEF Row
<1> QED BY <1>1, <1>2, <1>3 DEF Fits

\* One handler moves, others stay where they are.
LEMMA OneMoves ==
  ASSUME Inv, NEW k \in Slots, NEW r \in SlotType, slot' = [slot EXCEPT ![k] = r],
         start' = start, count' \in [Kinds -> Nat],
         \A kind \in Kinds : count[kind] <= count'[kind],
         Fits(stat', 0, count', start),
         r.pc # "idle" => Fits(r.row, Extra(r.pc), count', start),
         ~overlap' => /\ Gained(stat', count', start)
                      /\ r.pc # "idle" => Agrees(r.row, stat')
                      /\ \A j \in Slots \ {k} : slot[j].pc = "idle"
  PROVE  CountInv'
<1> USE Types DEF Inv
<1>1. slot'[k] = r /\ \A j \in Slots \ {k} : slot'[j] = slot[j]
  OBVIOUS
<1>2. ASSUME NEW j \in Slots, slot'[j].pc # "idle"
      PROVE  Fits(slot'[j].row, Extra(slot'[j].pc), count', start)
  <2>1. CASE j = k
    BY <1>1, <1>2, <2>1
  <2>2. CASE j # k
    <3>1. slot'[j] = slot[j] /\ slot[j].row \in Row /\ Extra(slot[j].pc) \in Nat
      BY <1>1, <2>2 DEF SlotType, Extra
    <3>2. Fits(slot[j].row, Extra(slot[j].pc), count, start)
      BY <1>2, <3>1 DEF CountInv
    <3> QED BY <3>1, <3>2, FitsOn
  <2> QED BY <2>1, <2>2
<1>3. ASSUME ~overlap', NEW j \in Slots, slot'[j].pc # "idle"
      PROVE  Agrees(slot'[j].row, stat') /\ \A i \in Slots \ {j} : slot'[i].pc = "idle"
  BY <1>1, <1>3
<1> QED BY <1>2, <1>3 DEF CountInv

\* The database row and the handlers keep what the counters are taken from.
LEMMA NothingCounted ==
  ASSUME Inv, slot' = slot, start' = start, count' = count, overlap' \in BOOLEAN,
         overlap => overlap',
         stat' = stat \/ \E c \in Cert : stat' = [stat EXCEPT !.cert = c]
  PROVE  CountInv'
<1>1. /\ stat'.completed = stat.completed /\ stat'.rejected = stat.rejected
      /\ stat'.failed = stat.failed /\ stat'.active = stat.active
      /\ stat'.onTime = stat.onTime /\ stat'.late = stat.late
  BY Types DEF Inv, Row
<1> QED BY <1>1 DEF Inv, CountInv, Fits, Gained, Agrees

\* A handler starts with the row as it is.
LEMMA BeginCounted ==
  ASSUME Inv, NEW k \in Slots, NEW pc \in Stages \ {"idle", "complete_save"},
         NEW o \in Orders \cup {"none"},
         NEW n \in Nat, Begin(k, pc, o, n), stat' = stat, count' = count, start' = start
  PROVE  CountInv'
<1> DEFINE r == [pc |-> pc, o |-> o, row |-> stat, n |-> n]
<1>1. r \in SlotType /\ r.pc = pc /\ r.row = stat
  BY Types DEF Inv, SlotType
<1>2. slot' = [slot EXCEPT ![k] = r]
  BY DEF Begin
<1> HIDE DEF r
<1>3. Fits(stat, 0, count, start) /\ Extra(r.pc) = 0
  BY <1>1 DEF Inv, CountInv, Extra
<1>4. ASSUME ~overlap'
      PROVE  Gained(stat, count, start) /\ \A j \in Slots \ {k} : slot[j].pc = "idle"
  BY <1>4 DEF Begin, At, Inv, CountInv
<1>5. count \in [Kinds -> Nat] /\ \A kind \in Kinds : count[kind] <= count[kind]
  BY Types DEF Inv
<1>6. Agrees(stat, stat)
  BY DEF Agrees
<1> QED BY <1>1, <1>2, <1>3, <1>4, <1>5, <1>6, OneMoves

\* A handler goes on, holding what it held.
LEMMA GotoCounted ==
  ASSUME Inv, NEW k \in Slots, slot[k].pc \notin {"idle", "complete_save"},
         NEW pc \in Stages \ {"idle", "complete_save"},
         NEW n \in Nat, slot' = [slot EXCEPT ![k] = [slot[k] EXCEPT !.pc = pc, !.n = n]],
         stat' = stat \/ \E c \in Cert : stat' = [stat EXCEPT !.cert = c],
         count' = count, start' = start, overlap' = overlap
  PROVE  CountInv'
<1> DEFINE r == [slot[k] EXCEPT !.pc = pc, !.n = n]
<1> USE Types DEF Inv
<1>1. r \in SlotType /\ r.pc = pc /\ r.row = slot[k].row
  BY DEF SlotType
<1>2. slot' = [slot EXCEPT ![k] = r]
  OBVIOUS
<1> HIDE DEF r
<1>3. /\ stat'.completed = stat.completed /\ stat'.rejected = stat.rejected
      /\ stat'.failed = stat.failed /\ stat'.active = stat.active
      /\ stat'.onTime = stat.onTime /\ stat'.late = stat.late
  BY DEF Row
<1>4. Fits(stat', 0, count, start)
  BY <1>3 DEF CountInv, Fits
<1>5. Fits(r.row, Extra(r.pc), count, start)
  BY <1>1 DEF CountInv, Extra
<1>6. ASSUME ~overlap'
      PROVE  /\ Gained(stat', count, start) /\ Agrees(r.row, stat')
             /\ \A j \in Slots \ {k} : slot[j].pc = "idle"
  BY <1>1, <1>3, <1>6 DEF CountInv, Gained, Agrees
<1>7. \A kind \in Kinds : count[kind] <= count[kind]
  OBVIOUS
<1> QED BY <1>1, <1>2, <1>4, <1>5, <1>6, <1>7, OneMoves

\* A handler ends, having saved or not.
LEMMA EndCounted ==
  ASSUME Inv, NEW k \in Slots, End(k), start' = start, count' \in [Kinds -> Nat],
         \A kind \in Kinds : count[kind] <= count'[kind],
         Fits(stat', 0, count', start),
         ~overlap' => /\ Gained(stat', count', start)
                      /\ \A j \in Slots \ {k} : slot[j].pc = "idle"
  PROVE  CountInv'
  BY IdleTyped, OneMoves DEF End

\* Saving a row saves its counters.
LEMMA SavedCounters ==
  ASSUME NEW saved \in Row, SaveRow(saved)
  PROVE  /\ stat'.completed = saved.completed /\ stat'.rejected = saved.rejected
         /\ stat'.failed = saved.failed /\ stat'.active = saved.active
         /\ stat'.onTime = saved.onTime /\ stat'.late = saved.late
  BY DEF SaveRow, Row

LEMMA CountedOnce ==
  ASSUME Inv, NEW kind \in Kinds, Counted(kind)
  PROVE  /\ count' \in [Kinds -> Nat] /\ count'[kind] = count[kind] + 1
         /\ \A c \in Kinds \ {kind} : count'[c] = count[c]
         /\ \A c \in Kinds : count[c] <= count'[c]
  BY Types DEF Inv, Counted

\* What is known of a handler at its last step.
LEMMA Ending ==
  ASSUME Inv, NEW k \in Slots, NEW pc, At(k, pc), pc # "idle"
  PROVE  /\ slot[k].row \in Row /\ slot[k].n \in Nat
         /\ Fits(slot[k].row, Extra(pc), count, start)
         /\ ~overlap => /\ Agrees(slot[k].row, stat) /\ Gained(stat, count, start)
                        /\ \A j \in Slots \ {k} : slot[j].pc = "idle"
  BY Types DEF Inv, CountInv, At, SlotType

LEMMA CountNext == Inv /\ [StatsNext]_statsVars => CountInv'
<1> SUFFICES ASSUME Inv, [StatsNext]_statsVars PROVE CountInv'
  OBVIOUS
<1> USE Types DEF Inv
<1>1. ASSUME NEW k \in Slots, NEW o \in Orders, NEW m \in Minutes, AcceptRead(k, o, m)
      PROVE  CountInv'
  <2>1. m \in Nat /\ "accept_insert" \in Stages \ {"idle", "complete_save"}
    BY StatsAssumption DEF Stages
  <2> QED BY <1>1, <2>1, BeginCounted DEF AcceptRead
<1>2. ASSUME NEW k \in Slots, AcceptInsert(k) PROVE CountInv'
  <2>1. CASE End(k)
    <3>1. At(k, "accept_insert") /\ stat' = stat /\ count' = count /\ start' = start
          /\ overlap' = overlap
      BY <1>2 DEF AcceptInsert
    <3>2. Fits(stat, 0, count, start)
      BY DEF CountInv
    <3>3. \A kind \in Kinds : count[kind] <= count[kind]
      OBVIOUS
    <3> QED BY <2>1, <3>1, <3>2, <3>3, Ending, EndCounted
  <2>2. CASE Goto(k, "accept_save")
    <3>1. slot[k] \in SlotType /\ slot[k].pc = "accept_insert"
          /\ "accept_save" \in Stages \ {"idle", "complete_save"}
      BY <1>2 DEF AcceptInsert, At, Stages
    <3>2. slot' = [slot EXCEPT ![k] = [slot[k] EXCEPT !.pc = "accept_save", !.n = slot[k].n]]
          /\ slot[k].n \in Nat
      BY <2>2, <3>1 DEF Goto, SlotType
    <3> QED BY <1>2, <3>1, <3>2, GotoCounted DEF AcceptInsert
  <2> QED BY <1>2, <2>1, <2>2 DEF AcceptInsert
<1>3. ASSUME NEW k \in Slots, AcceptSave(k) PROVE CountInv'
  <2> DEFINE r == slot[k].row
             saved == [r EXCEPT !.active = @ + 1, !.response = Most(@ + slot[k].n, 1)]
  <2>1. /\ r \in Row /\ slot[k].n \in Nat /\ Fits(r, 0, count, start)
        /\ ~overlap => /\ Agrees(r, stat) /\ Gained(stat, count, start)
                       /\ \A j \in Slots \ {k} : slot[j].pc = "idle"
    BY <1>3, Ending DEF AcceptSave, Extra
  <2>2. /\ saved.completed = r.completed /\ saved.rejected = r.rejected /\ saved.failed = r.failed
        /\ saved.active = r.active + 1 /\ saved.onTime = r.onTime /\ saved.late = r.late
    BY <2>1 DEF Row
  <2>3. saved \in Row
    BY <2>1, SavedTyped
  <2>4. SaveRow(saved) /\ Counted("accept") /\ "accept" \in Kinds
    BY <1>3 DEF AcceptSave, Kinds
  <2> HIDE DEF saved, r
  <2>5. /\ count'["accept"] = count["accept"] + 1 /\ count'["complete"] = count["complete"]
        /\ count'["reject"] = count["reject"] /\ count'["cancel"] = count["cancel"]
        /\ count' \in [Kinds -> Nat] /\ \A c \in Kinds : count[c] <= count'[c]
    BY <2>4, CountedOnce DEF Kinds
  <2>6. Fits(stat', 0, count', start)
    BY <2>1, <2>2, <2>3, <2>4, <2>5, SavedCounters DEF Fits, Row, Kinds
  <2>7. ASSUME ~overlap PROVE Gained(stat', count', start)
    BY <2>1, <2>2, <2>3, <2>4, <2>5, <2>7, SavedCounters DEF Gained, Agrees
  <2> QED BY <1>3, <2>1, <2>5, <2>6, <2>7, EndCounted DEF AcceptSave
<1>4. ASSUME NEW o \in Orders, NEW links \in BOOLEAN, Deliver(o, links) PROVE CountInv'
  BY <1>4, NothingCounted DEF Deliver
<1>5. ASSUME NEW k \in Slots, NEW o \in Orders, CompleteDetail(k, o) PROVE CountInv'
  <2>1. "complete_order" \in Stages \ {"idle", "complete_save"} /\ 0 \in Nat
    BY DEF Stages
  <2> QED BY <1>5, <2>1, BeginCounted DEF CompleteDetail
<1>6. ASSUME NEW k \in Slots, CompleteOrder(k) PROVE CountInv'
  <2>1. slot[k].o \in Orders /\ slot[k].pc = "complete_order"
    BY <1>6 DEF CompleteOrder, At, WithOrder, Stages
  <2>2. order[slot[k].o].earn \in Nat /\ "complete_earn" \in Stages \ {"idle", "complete_save"}
    BY <2>1 DEF Order, Stages
  <2>3. slot' = [slot EXCEPT ![k] = [slot[k] EXCEPT !.pc = "complete_earn",
                                                    !.n = order[slot[k].o].earn]]
    BY <1>6 DEF CompleteOrder
  <2>4. stat' = stat /\ count' = count /\ start' = start /\ overlap' = overlap
    BY <1>6 DEF CompleteOrder
  <2> DEFINE n == order[slot[k].o].earn
  <2> HIDE DEF n
  <2>5. n \in Nat
    BY <2>2 DEF n
  <2>6. slot' = [slot EXCEPT ![k] = [slot[k] EXCEPT !.pc = "complete_earn", !.n = n]]
    BY <2>3 DEF n
  <2>7. slot[k].pc \notin {"idle", "complete_save"}
        /\ "complete_earn" \in Stages \ {"idle", "complete_save"}
    BY <2>1, <2>2
  <2> QED BY <2>4, <2>5, <2>6, <2>7, GotoCounted
<1>7. ASSUME NEW k \in Slots, NEW hour \in Hours, NEW onTime \in BOOLEAN,
             CompleteEarn(k, hour, onTime)
      PROVE  CountInv'
  <2>1. At(k, "complete_earn") /\ stat' = stat /\ count' = count /\ start' = start
        /\ overlap' = overlap
    BY <1>7 DEF CompleteEarn
  <2>2. Fits(stat, 0, count, start) /\ \A kind \in Kinds : count[kind] <= count[kind]
    BY DEF CountInv
  <2>3. CASE End(k)
    BY <2>1, <2>2, <2>3, Ending, EndCounted
  <2> DEFINE late == IF onTime THEN 0 ELSE 1
             saved == [stat EXCEPT !.onTime = @ + 1 - late, !.late = @ + late]
  <2>4. ASSUME NEW amount \in Nat,
               slot' = [slot EXCEPT ![k].pc = "complete_save", ![k].n = amount, ![k].row = saved]
        PROVE  CountInv'
    <3> DEFINE r == [slot[k] EXCEPT !.pc = "complete_save", !.n = amount, !.row = saved]
    <3>1. stat.onTime + 1 - late \in Nat /\ stat.late + late \in Nat
      BY DEF Row
    <3>2. /\ saved \in Row /\ saved.onTime = stat.onTime + 1 - late /\ saved.late = stat.late + late
          /\ saved.completed = stat.completed /\ saved.rejected = stat.rejected
          /\ saved.failed = stat.failed /\ saved.active = stat.active
      BY <3>1 DEF Row
    <3>3. (stat.onTime + 1 - late) + (stat.late + late) = (stat.onTime + stat.late) + 1
      BY DEF Row
    <3> HIDE DEF saved, late
    <3>4. r \in SlotType /\ r.pc = "complete_save" /\ r.row = saved
      BY <3>2 DEF SlotType, Stages
    <3>5. slot' = [slot EXCEPT ![k] = r]
      BY <2>4
    <3> HIDE DEF r
    <3>6. Fits(saved, 1, count, start)
      <4>1. saved.onTime + saved.late = saved.completed + 1
        BY <2>2, <3>2, <3>3 DEF Fits, Row
      <4> QED BY <2>2, <3>2, <4>1 DEF Fits
    <3>7. Fits(r.row, Extra(r.pc), count', start)
      BY <2>1, <3>4, <3>6 DEF Extra
    <3>8. ASSUME ~overlap'
          PROVE  /\ Gained(stat', count', start) /\ Agrees(r.row, stat')
                 /\ \A j \in Slots \ {k} : slot[j].pc = "idle"
      BY <2>1, <3>2, <3>4, <3>8, Ending DEF Agrees
    <3> QED BY <2>1, <2>2, <3>4, <3>5, <3>7, <3>8, OneMoves
  <2>5. slot[k].n \in Nat /\ slot[k].o \in Orders
    BY <2>1 DEF SlotType, At, WithOrder, Stages
  <2>6. Earnings(Terms[slot[k].o], hour, onTime, stat.completed) \in Nat
    <3>1. Terms[slot[k].o] \in [fee : Nat, dist : Nat, total : Nat] /\ stat.completed \in Nat
      BY <2>5, StatsAssumption DEF Row
    <3> QED BY <3>1, EarningsTyped
  <2>7. \/ \E amount \in Nat : slot' = [slot EXCEPT ![k].pc = "complete_save", ![k].n = amount,
                                                    ![k].row = saved]
        \/ End(k)
    BY <1>7, <2>5, <2>6 DEF CompleteEarn
  <2> HIDE DEF saved
  <2> QED BY <2>3, <2>4, <2>7
<1>8. ASSUME NEW k \in Slots, CompleteSave(k) PROVE CountInv'
  <2> DEFINE r == slot[k].row
             saved == [r EXCEPT !.completed = @ + 1, !.active = Most(@ - 1, 0),
                              !.earnings = @ + slot[k].n, !.daily = @ + slot[k].n]
  <2>1. /\ r \in Row /\ slot[k].n \in Nat /\ Fits(r, 1, count, start)
        /\ ~overlap => /\ Agrees(r, stat) /\ Gained(stat, count, start)
                       /\ \A j \in Slots \ {k} : slot[j].pc = "idle"
    BY <1>8, Ending DEF CompleteSave, Extra
  <2>2. /\ saved.completed = r.completed + 1 /\ saved.rejected = r.rejected /\ saved.failed = r.failed
        /\ saved.active = Most(r.active - 1, 0) /\ saved.onTime = r.onTime /\ saved.late = r.late
    BY <2>1 DEF Row
  <2>3. saved \in Row
    BY <2>1, SavedTyped
  <2>4. SaveRow(saved) /\ Counted("complete") /\ "complete" \in Kinds
    BY <1>8 DEF CompleteSave, Kinds
  <2> HIDE DEF saved, r
  <2>5. /\ count'["complete"] = count["complete"] + 1 /\ count'["accept"] = count["accept"]
        /\ count'["reject"] = count["reject"] /\ count'["cancel"] = count["cancel"]
        /\ count' \in [Kinds -> Nat] /\ \A c \in Kinds : count[c] <= count'[c]
    BY <2>4, CountedOnce DEF Kinds
  <2>6. Most(r.active - 1, 0) <= r.active
    BY <2>1 DEF Row, Most
  <2>7. Fits(stat', 0, count', start)
    BY <2>1, <2>2, <2>3, <2>4, <2>5, <2>6, SavedCounters DEF Fits, Row, Kinds
  <2>8. ASSUME ~overlap PROVE Gained(stat', count', start)
    BY <2>1, <2>2, <2>3, <2>4, <2>5, <2>8, SavedCounters DEF Gained, Agrees, Row, Kinds
  <2> QED BY <1>8, <2>1, <2>5, <2>7, <2>8, EndCounted DEF CompleteSave
<1>9. ASSUME NEW k \in Slots, NEW o \in Orders, CancelRead(k, o) PROVE CountInv'
  <2>1. "cancel_save" \in Stages \ {"idle", "complete_save"} /\ 0 \in Nat
    BY DEF Stages
  <2> QED BY <1>9, <2>1, BeginCounted DEF CancelRead
<1>10. ASSUME NEW k \in Slots, CancelSave(k) PROVE CountInv'
  <2>1. slot[k] \in SlotType /\ slot[k].pc = "cancel_save"
        /\ "cancel_count" \in Stages \ {"idle", "complete_save"}
    BY <1>10 DEF CancelSave, At, Stages
  <2>2. slot' = [slot EXCEPT ![k] = [slot[k] EXCEPT !.pc = "cancel_count", !.n = slot[k].n]]
        /\ slot[k].n \in Nat
    BY <1>10, <2>1 DEF CancelSave, Goto, SlotType
  <2> QED BY <1>10, <2>1, <2>2, GotoCounted DEF CancelSave
<1>11. ASSUME NEW k \in Slots, CancelCount(k) PROVE CountInv'
  <2> DEFINE r == slot[k].row
             saved == [r EXCEPT !.active = Most(@ - 1, 0), !.failed = @ + 1]
  <2>1. /\ r \in Row /\ slot[k].n \in Nat /\ Fits(r, 0, count, start)
        /\ ~overlap => /\ Agrees(r, stat) /\ Gained(stat, count, start)
                       /\ \A j \in Slots \ {k} : slot[j].pc = "idle"
    BY <1>11, Ending DEF CancelCount, Extra
  <2>2. /\ saved.completed = r.completed /\ saved.rejected = r.rejected /\ saved.failed = r.failed + 1
        /\ saved.active = Most(r.active - 1, 0) /\ saved.onTime = r.onTime /\ saved.late = r.late
    BY <2>1 DEF Row
  <2>3. saved \in Row
    BY <2>1, SavedTyped
  <2>4. SaveRow(saved) /\ Counted("cancel") /\ "cancel" \in Kinds
    BY <1>11 DEF CancelCount, Kinds
  <2> HIDE DEF saved, r
  <2>5. /\ count'["cancel"] = count["cancel"] + 1 /\ count'["accept"] = count["accept"]
        /\ count'["reject"] = count["reject"] /\ count'["complete"] = count["complete"]
        /\ count' \in [Kinds -> Nat] /\ \A c \in Kinds : count[c] <= count'[c]
    BY <2>4, CountedOnce DEF Kinds
  <2>6. Most(r.active - 1, 0) <= r.active
    BY <2>1 DEF Row, Most
  <2>7. Fits(stat', 0, count', start)
    BY <2>1, <2>2, <2>3, <2>4, <2>5, <2>6, SavedCounters DEF Fits, Row, Kinds
  <2>8. ASSUME ~overlap PROVE Gained(stat', count', start)
    BY <2>1, <2>2, <2>3, <2>4, <2>5, <2>8, SavedCounters DEF Gained, Agrees, Row, Kinds
  <2> QED BY <1>11, <2>1, <2>5, <2>7, <2>8, EndCounted DEF CancelCount
<1>12. ASSUME NEW k \in Slots, NEW o \in Orders, NEW m \in Minutes, RejectRead(k, o, m)
       PROVE  CountInv'
  <2>1. PICK pc \in {"reject_ban", "reject_save"} : Begin(k, pc, o, m)
    BY <1>12 DEF RejectRead
  <2>2. m \in Nat /\ pc \in Stages \ {"idle", "complete_save"}
    BY StatsAssumption DEF Stages
  <2> QED BY <1>12, <2>1, <2>2, BeginCounted DEF RejectRead
<1>13. ASSUME NEW k \in Slots, RejectBan(k) PROVE CountInv'
  <2>1. slot[k] \in SlotType /\ slot[k].pc = "reject_ban"
        /\ "reject_save" \in Stages \ {"idle", "complete_save"}
    BY <1>13 DEF RejectBan, At, Stages
  <2>2. slot' = [slot EXCEPT ![k] = [slot[k] EXCEPT !.pc = "reject_save", !.n = slot[k].n]]
        /\ slot[k].n \in Nat
    BY <1>13, <2>1 DEF RejectBan, Goto, SlotType
  <2>3. \E c \in Cert : stat' = [stat EXCEPT !.cert = c]
    BY <1>13 DEF RejectBan, Cert
  <2> QED BY <1>13, <2>1, <2>2, <2>3, GotoCounted DEF RejectBan
<1>14. ASSUME NEW k \in Slots, RejectSave(k) PROVE CountInv'
  <2> DEFINE r == slot[k].row
             saved == Rejected(r, slot[k].n)
  <2>1. /\ r \in Row /\ slot[k].n \in Nat /\ Fits(r, 0, count, start)
        /\ ~overlap => /\ Agrees(r, stat) /\ Gained(stat, count, start)
                       /\ \A j \in Slots \ {k} : slot[j].pc = "idle"
    BY <1>14, Ending DEF RejectSave, Extra
  <2>2. /\ saved.completed = r.completed /\ saved.rejected = r.rejected + 1
        /\ saved.failed = r.failed + 1
        /\ saved.active = Most(r.active - 1, 0) /\ saved.onTime = r.onTime /\ saved.late = r.late
    BY <2>1 DEF Row, Rejected
  <2>3. saved \in Row
    BY <2>1, SavedTyped
  <2>4. SaveRow(saved) /\ Counted("reject") /\ "reject" \in Kinds
    BY <1>14 DEF RejectSave, Kinds
  <2> HIDE DEF saved, r
  <2>5. /\ count'["reject"] = count["reject"] + 1 /\ count'["accept"] = count["accept"]
        /\ count'["cancel"] = count["cancel"] /\ count'["complete"] = count["complete"]
        /\ count' \in [Kinds -> Nat] /\ \A c \in Kinds : count[c] <= count'[c]
    BY <2>4, CountedOnce DEF Kinds
  <2>6. Most(r.active - 1, 0) <= r.active
    BY <2>1 DEF Row, Most
  <2>7. Fits(stat', 0, count', start)
    BY <2>1, <2>2, <2>3, <2>4, <2>5, <2>6, SavedCounters DEF Fits, Row, Kinds
  <2>8. ASSUME ~overlap PROVE Gained(stat', count', start)
    BY <2>1, <2>2, <2>3, <2>4, <2>5, <2>8, SavedCounters DEF Gained, Agrees, Row, Kinds
  <2> QED BY <1>14, <2>1, <2>5, <2>7, <2>8, EndCounted DEF RejectSave
<1>15. ASSUME NEW k \in Slots, ProfileRead(k) PROVE CountInv'
  <2>1. "profile_save" \in Stages \ {"idle", "complete_save"} /\ 0 \in Nat
    BY DEF Stages
  <2> QED BY <1>15, <2>1, BeginCounted DEF ProfileRead
<1>16. ASSUME NEW k \in Slots, NEW driver \in BOOLEAN, ProfileSave(k, driver) PROVE CountInv'
  <2> DEFINE r == slot[k].row
  <2>1. /\ r \in Row /\ slot[k].n \in Nat /\ Fits(r, 0, count, start)
        /\ ~overlap => /\ Agrees(r, stat) /\ Gained(stat, count, start)
                       /\ \A j \in Slots \ {k} : slot[j].pc = "idle"
    BY <1>16, Ending DEF ProfileSave, Extra
  <2>2. SaveRow(r) /\ count' = count /\ start' = start /\ overlap' = overlap
    BY <1>16 DEF ProfileSave
  <2> HIDE DEF r
  <2>3. Fits(stat', 0, count, start)
    BY <2>1, <2>2, SavedCounters DEF Fits
  <2>4. ASSUME ~overlap PROVE Gained(stat', count, start) /\ Agrees(r, stat')
    BY <2>1, <2>2, <2>4, SavedCounters DEF Gained, Agrees
  <2>5. \A kind \in Kinds : count[kind] <= count[kind]
    OBVIOUS
  <2>6. CASE End(k)
    BY <2>1, <2>2, <2>3, <2>4, <2>5, <2>6, EndCounted
  <2>7. CASE Goto(k, "profile_cert")
    <3> DEFINE next == [slot[k] EXCEPT !.pc = "profile_cert"]
    <3>1. next \in SlotType /\ next.pc = "profile_cert" /\ next.row = slot[k].row
      BY DEF SlotType, Stages
    <3>2. slot' = [slot EXCEPT ![k] = next]
      BY <2>7 DEF Goto
    <3> HIDE DEF next
    <3>3. Fits(next.row, Extra(next.pc), count, start)
      BY <2>1, <3>1 DEF Extra, r
    <3>4. ~overlap => Agrees(next.row, stat')
      BY <2>4, <3>1 DEF r
    <3> QED BY <2>1, <2>2, <2>3, <2>4, <2>5, <3>1, <3>2, <3>3, <3>4, OneMoves
  <2> QED BY <1>16, <2>6, <2>7 DEF ProfileSave
<1>17. ASSUME NEW k \in Slots, ProfileCert(k) PROVE CountInv'
  <2>1. At(k, "profile_cert") /\ End(k) /\ count' = count /\ start' = start
        /\ overlap' = overlap
    BY <1>17 DEF ProfileCert
  <2>2. /\ stat'.completed = stat.completed /\ stat'.rejected = stat.rejected
        /\ stat'.failed = stat.failed /\ stat'.active = stat.active
        /\ stat'.onTime = stat.onTime /\ stat'.late = stat.late
    BY <1>17 DEF ProfileCert, Row
  <2>3. Fits(stat', 0, count, start)
    BY <2>2 DEF CountInv, Fits
  <2>4. ASSUME ~overlap
        PROVE  /\ Gained(stat', count, start)
               /\ \A j \in Slots \ {k} : slot[j].pc = "idle"
    BY <2>1, <2>2, <2>4, Ending DEF Gained
  <2>5. \A kind \in Kinds : count[kind] <= count[kind]
    OBVIOUS
  <2> QED BY <2>1, <2>3, <2>4, <2>5, EndCounted
<1>18. ASSUME NEW verdict \in {"APPROVED", "REJECTED"}, Decide(verdict) PROVE CountInv'
  <2>1. \E c \in Cert : stat' = [stat EXCEPT !.cert = c]
    BY <1>18 DEF Decide, Cert
  <2>2. overlap' \in BOOLEAN /\ (overlap => overlap')
    BY <1>18 DEF Decide
  <2> QED BY <1>18, <2>1, <2>2, NothingCounted DEF Decide
<1>19. ASSUME NewDay PROVE CountInv'
  BY <1>19, NothingCounted DEF NewDay
<1>20. ASSUME Crash PROVE CountInv'
  <2>1. \A k \in Slots : slot'[k].pc = "idle"
    BY <1>20, IdleTyped DEF Crash
  <2> QED BY <1>20, <2>1 DEF Crash, CountInv
<1>21. CASE UNCHANGED statsVars
  BY <1>21, NothingCounted DEF statsVars
<1> QED BY <1>1, <1>2, <1>3, <1>4, <1>5, <1>6, <1>7, <1>8, <1>9, <1>10, <1>11, <1>12, <1>13,
           <1>14, <1>15, <1>16, <1>17, <1>18, <1>19, <1>20, <1>21
        DEF StatsNext, Request, Continue

\* However many handlers save the row as they read it, no counter runs ahead of
\* the handlers that counted, punctual and late deliveries add up to the
\* completed ones, and nothing is lost unless handlers overlap
\* (CountsMatchCalls).
THEOREM CountsCorrect == StatsSpec => []CountsMatchCalls
<1>1. StatsInit => Inv
  BY TypeInit, CountInit DEF Inv
<1>2. Inv /\ [StatsNext]_statsVars => Inv'
  BY TypeNext, CountNext DEF Inv
<1>3. Inv => CountsMatchCalls
  <2> SUFFICES ASSUME Inv PROVE CountsMatchCalls
    OBVIOUS
  <2>1. stat \in Row
    BY Types DEF Inv
  <2> QED BY <2>1 DEF Inv, CountInv, CountsMatchCalls, Fits, Gained, Row
<1> QED BY <1>1, <1>2, <1>3, PTL DEF StatsSpec

-----------------------------------------------------------------------------
(***************************************************************************)
(* Warnings.  What the last rejection was answered with was decided on as  *)
(* many rejections as the row has now, and on no more completions.         *)
(***************************************************************************)
Limit(completed, rejected) == Warns(completed, rejected) \/ ShouldBan(completed, rejected)

WarnInv == ~overlap => \E c \in 0..stat.completed : warned = Limit(c, stat.rejected)

\* A shipper one rejection short of a ban was over the limit of the warnings
\* before, and was so however few deliveries he had completed then.
LEMMA LimitFirst ==
  ASSUME NEW c \in Nat, NEW d \in 0..c, NEW r \in Nat, ShouldBan(c, r + 1)
  PROVE  Limit(d, r)
<1> USE DEF ShouldBan
<1>1. d \in Nat /\ d <= c
  OBVIOUS
<1>2. CASE r + 1 >= 20 /\ c = 0
  BY <1>1, <1>2 DEF Limit, Warns
<1>3. CASE c + (r + 1) >= 50 /\ (r + 1) * 10 > (c + (r + 1)) * 7
  <2>1. d + r >= 20 /\ r * 10 > (d + r) * 6
    BY <1>1, <1>3
  <2> QED BY <1>1, <2>1 DEF Limit, Warns
<1>4. CASE c + (r + 1) >= 30 /\ (r + 1) * 10 > (c + (r + 1)) * 8
  <2>1. d + r >= 20 /\ r * 10 > (d + r) * 6
    BY <1>1, <1>4
  <2> QED BY <1>1, <2>1 DEF Limit, Warns
<1> QED BY <1>2, <1>3, <1>4

LEMMA WarnInit ==
  ASSUME \A n \in InitCounts : ~ShouldBan(n[1], n[2])
  PROVE  StatsInit => WarnInv
<1> SUFFICES ASSUME StatsInit PROVE WarnInv
  OBVIOUS
<1>1. PICK n \in InitCounts : stat = NewShipper(n) /\ warned = Warns(n[1], n[2])
  BY DEF StatsInit
<1>2. n[1] \in Nat /\ n[2] \in Nat
  BY StatsAssumption
<1>3. stat.completed = n[1] /\ stat.rejected = n[2]
  BY <1>1 DEF NewShipper
<1>4. ~ShouldBan(n[1], n[2])
  OBVIOUS
<1>5. warned = Limit(n[1], n[2])
  BY <1>1, <1>4 DEF Limit, Warns
<1> QED BY <1>2, <1>3, <1>5 DEF WarnInv

\* Nothing is rejected in this step.
LEMMA WarnKept ==
  ASSUME Inv, WarnInv, warned' = warned,
         ~overlap' => /\ ~overlap
                      /\ stat'.completed \in Nat /\ stat'.completed >= stat.completed
                      /\ stat'.rejected = stat.rejected
  PROVE  WarnInv'
<1> SUFFICES ASSUME ~overlap' PROVE \E c \in 0..stat'.completed : warned' = Limit(c, stat'.rejected)
  BY DEF WarnInv
<1>1. PICK c \in 0..stat.completed : warned = Limit(c, stat.rejected)
  BY DEF WarnInv
<1>2. stat.completed \in Nat
  BY Types DEF Inv, Row
<1>3. c \in 0..stat'.completed
  BY <1>1, <1>2
<1> QED BY <1>1, <1>3

LEMMA WarnNext == Inv /\ WarnInv /\ [StatsNext]_statsVars => WarnInv'
<1> SUFFICES ASSUME Inv, WarnInv, [StatsNext]_statsVars PROVE WarnInv'
  OBVIOUS
<1> USE Types DEF Inv
<1>1. stat.completed \in Nat /\ stat.rejected \in Nat
  BY DEF Row
<1>2. ASSUME NEW k \in Slots, NEW pc, NEW o, NEW n, Begin(k, pc, o, n), stat' = stat,
             warned' = warned
      PROVE  WarnInv'
  BY <1>1, <1>2, WarnKept DEF Begin
<1>3. ASSUME \/ \E o \in Orders, links \in BOOLEAN : Deliver(o, links)
             \/ \E k \in Slots : AcceptInsert(k) \/ CompleteOrder(k) \/ CancelSave(k)
             \/ \E k \in Slots, hour \in Hours, onTime \in BOOLEAN : CompleteEarn(k, hour, onTime)
             \/ NewDay \/ Crash
      PROVE  WarnInv'
  <2>1. stat' = stat /\ warned' = warned /\ overlap' = overlap
    BY <1>3 DEF Deliver, AcceptInsert, CompleteOrder, CancelSave, CompleteEarn, NewDay, Crash
  <2> QED BY <1>1, <2>1, WarnKept
<1>4. ASSUME NEW c \in Cert, stat' = [stat EXCEPT !.cert = c], warned' = warned,
             overlap \in BOOLEAN, overlap => overlap'
      PROVE  WarnInv'
  <2>1. stat'.completed = stat.completed /\ stat'.rejected = stat.rejected
    BY <1>4 DEF Row
  <2> QED BY <1>1, <1>4, <2>1, WarnKept
<1>5. ASSUME NEW k \in Slots, NEW pc, At(k, pc), pc # "idle", NEW saved \in Row, SaveRow(saved),
             saved.rejected = slot[k].row.rejected,
             saved.completed >= slot[k].row.completed, warned' = warned, overlap' = overlap
      PROVE  WarnInv'
  <2>1. stat'.completed = saved.completed /\ stat'.rejected = saved.rejected
    BY <1>5, SavedCounters
  <2>2. ~overlap => Agrees(slot[k].row, stat)
    BY <1>5, Ending
  <2>3. saved.completed \in Nat
    BY DEF Row
  <2> QED BY <1>5, <2>1, <2>2, <2>3, WarnKept DEF Agrees
<1>6. ASSUME NEW k \in Slots, AcceptSave(k) \/ CompleteSave(k) \/ CancelCount(k)
                                \/ \E driver \in BOOLEAN : ProfileSave(k, driver)
      PROVE  WarnInv'
  <2> DEFINE r == slot[k].row
  <2>1. r \in Row /\ slot[k].n \in Nat
    BY DEF SlotType
  <2>2. r.completed \in Nat
    BY <2>1 DEF Row
  <2>3. CASE AcceptSave(k)
    <3> DEFINE saved == [r EXCEPT !.active = @ + 1, !.response = Most(@ + slot[k].n, 1)]
    <3>1. saved.completed = r.completed /\ saved.rejected = r.rejected
      BY <2>1 DEF Row
    <3>2. saved \in Row
      BY <2>1, SavedTyped
    <3>3. SaveRow(saved) /\ At(k, "accept_save") /\ warned' = warned /\ overlap' = overlap
      BY <2>3 DEF AcceptSave
    <3> HIDE DEF saved
    <3> QED BY <1>5, <2>2, <3>1, <3>2, <3>3
  <2>4. CASE CompleteSave(k)
    <3> DEFINE saved == [r EXCEPT !.completed = @ + 1, !.active = Most(@ - 1, 0),
                                !.earnings = @ + slot[k].n, !.daily = @ + slot[k].n]
    <3>1. saved.completed = r.completed + 1 /\ saved.rejected = r.rejected
      BY <2>1 DEF Row
    <3>2. saved \in Row
      BY <2>1, SavedTyped
    <3>3. SaveRow(saved) /\ At(k, "complete_save") /\ warned' = warned /\ overlap' = overlap
      BY <2>4 DEF CompleteSave
    <3> HIDE DEF saved
    <3>4. saved.completed >= r.completed
      BY <2>2, <3>1
    <3> QED BY <1>5, <3>1, <3>2, <3>3, <3>4
  <2>5. CASE CancelCount(k)
    <3> DEFINE saved == [r EXCEPT !.active = Most(@ - 1, 0), !.failed = @ + 1]
    <3>1. saved.completed = r.completed /\ saved.rejected = r.rejected
      BY <2>1 DEF Row
    <3>2. saved \in Row
      BY <2>1, SavedTyped
    <3>3. SaveRow(saved) /\ At(k, "cancel_count") /\ warned' = warned /\ overlap' = overlap
      BY <2>5 DEF CancelCount
    <3> HIDE DEF saved
    <3> QED BY <1>5, <2>2, <3>1, <3>2, <3>3
  <2>6. CASE \E driver \in BOOLEAN : ProfileSave(k, driver)
    <3>1. SaveRow(r) /\ At(k, "profile_save") /\ warned' = warned /\ overlap' = overlap
      BY <2>6 DEF ProfileSave
    <3> QED BY <1>5, <2>1, <2>2, <3>1
  <2> QED BY <1>6, <2>3, <2>4, <2>5, <2>6
<1>7. ASSUME NEW k \in Slots, RejectSave(k) PROVE WarnInv'
  <2> DEFINE saved == Rejected(slot[k].row, slot[k].n)
  <2>1. slot[k].row \in Row /\ slot[k].n \in Nat
    BY DEF SlotType
  <2>2. saved \in Row
    BY <2>1, SavedTyped
  <2>3. SaveRow(saved) /\ warned' = Limit(saved.completed, saved.rejected)
    BY <1>7 DEF RejectSave, Limit
  <2> HIDE DEF saved
  <2>4. stat'.completed = saved.completed /\ stat'.rejected = saved.rejected /\ saved.completed \in Nat
    BY <2>2, <2>3, SavedCounters DEF Row
  <2> QED BY <2>3, <2>4 DEF WarnInv
<1>8. ASSUME NEW k \in Slots, RejectBan(k) \/ ProfileCert(k) PROVE WarnInv'
  <2>1. slot[k].row.cert \in Cert /\ "REJECTED" \in Cert
    BY DEF SlotType, Row, Cert
  <2>2. \E c \in Cert : stat' = [stat EXCEPT !.cert = c]
    BY <1>8, <2>1 DEF RejectBan, ProfileCert
  <2>3. warned' = warned /\ overlap' = overlap
    BY <1>8 DEF RejectBan, ProfileCert
  <2> QED BY <1>4, <2>2, <2>3
<1>9. ASSUME NEW verdict \in {"APPROVED", "REJECTED"}, Decide(verdict) PROVE WarnInv'
  <2>1. verdict \in Cert /\ stat' = [stat EXCEPT !.cert = verdict] /\ warned' = warned
        /\ (overlap => overlap')
    BY <1>9 DEF Decide, Cert
  <2> QED BY <1>4, <2>1
<1>10. ASSUME NEW k \in Slots, Request(k) PROVE WarnInv'
  <2>1. /\ stat' = stat /\ warned' = warned
        /\ \E pc \in Stages, o \in Orders \cup {"none"}, n \in Minutes \cup {0} : Begin(k, pc, o, n)
    BY <1>10, StatsAssumption
       DEF Request, AcceptRead, RejectRead, CompleteDetail, CancelRead, ProfileRead, Stages
  <2> QED BY <1>2, <2>1
<1>11. CASE UNCHANGED statsVars
  BY <1>1, <1>11, WarnKept DEF statsVars
<1> QED BY <1>3, <1>6, <1>7, <1>8, <1>9, <1>10, <1>11 DEF StatsNext, Continue

\* A shipper who is banned for his share of rejections was warned by the answer
\* to the rejection before, for any history of completions, cancellations and
\* restarts (WarnedBeforeBan), if he did not start over the limit of the bans.
THEOREM WarnedCorrect ==
  ASSUME \A n \in InitCounts : ~ShouldBan(n[1], n[2])
  PROVE  StatsSpec => []WarnedBeforeBan
<1>1. StatsInit => Inv /\ WarnInv
  BY TypeInit, CountInit, WarnInit DEF Inv
<1>2. Inv /\ WarnInv /\ [StatsNext]_statsVars => (Inv /\ WarnInv)'
  BY TypeNext, CountNext, WarnNext DEF Inv
<1>3. Inv /\ WarnInv => WarnedBeforeBan
  <2> SUFFICES ASSUME Inv, WarnInv, NEW k \in Slots, At(k, "reject_ban"), ~overlap,
                      ShouldBan(Rejected(slot[k].row, slot[k].n).completed,
                                Rejected(slot[k].row, slot[k].n).rejected)
               PROVE  warned
    BY DEF WarnedBeforeBan
  <2>1. slot[k].row \in Row /\ Agrees(slot[k].row, stat)
    BY Ending
  <2>2. /\ Rejected(slot[k].row, slot[k].n).completed = slot[k].row.completed
        /\ Rejected(slot[k].row, slot[k].n).rejected = slot[k].row.rejected + 1
    BY <2>1 DEF Rejected, Row
  <2>3. ShouldBan(stat.completed, stat.rejected + 1)
    BY <2>1, <2>2 DEF Agrees
  <2>4. stat.completed \in Nat /\ stat.rejected \in Nat
    BY Types DEF Inv, Row
  <2>5. PICK c \in 0..stat.completed : warned = Limit(c, stat.rejected)
    BY DEF WarnInv
  <2> QED BY <2>3, <2>4, <2>5, LimitFirst
<1> QED BY <1>1, <1>2, <1>3, PTL DEF StatsSpec


-----------------------------------------------------------------------------
(***************************************************************************)
(* What a handler holds besides the counters.  Unless handlers overlapped, *)
(* the row it read is the row of the database: the earnings are the same,  *)
(* and the punctual and late deliveries but for the one it is about to     *)
(* save.                                                                   *)
(***************************************************************************)
Close(h, s) ==
    /\ h.row.earnings = s.earnings
    /\ IF h.pc = "complete_save"
         THEN \/ h.row.onTime = s.onTime + 1 /\ h.row.late = s.late
              \/ h.row.onTime = s.onTime /\ h.row.late = s.late + 1
         ELSE h.row.onTime = s.onTime /\ h.row.late = s.late

RowInv == ~overlap => \A k \in Slots : slot[k].pc # "idle" => Close(slot[k], stat)

\* One handler moves, alone unless handlers overlapped.
LEMMA RowMoves ==
  ASSUME Inv, NEW k \in Slots, NEW r \in SlotType, slot' = [slot EXCEPT ![k] = r],
         ~overlap' => /\ \A j \in Slots \ {k} : slot[j].pc = "idle"
                      /\ r.pc # "idle" => Close(r, stat')
  PROVE  RowInv'
<1> SUFFICES ASSUME ~overlap', NEW j \in Slots, slot'[j].pc # "idle"
             PROVE  Close(slot'[j], stat')
  BY DEF RowInv
<1>1. slot'[k] = r /\ \A i \in Slots \ {k} : slot'[i] = slot[i]
  BY Types DEF Inv
<1>2. j = k
  BY <1>1
<1> QED BY <1>1, <1>2

\* A handler ends.
LEMMA RowEnds ==
  ASSUME Inv, NEW k \in Slots, slot[k].pc # "idle", End(k), overlap' = overlap
  PROVE  RowInv'
<1>1. slot' = [slot EXCEPT ![k] = Idle] /\ Idle \in SlotType /\ Idle.pc = "idle"
  BY IdleTyped DEF End
<1>2. ~overlap => \A j \in Slots \ {k} : slot[j].pc = "idle"
  BY Ending DEF At
<1> QED BY <1>1, <1>2, RowMoves

\* A handler goes on with what it read, the counters of the database being
\* what they were.
LEMMA RowGoes ==
  ASSUME Inv, RowInv, NEW k \in Slots, slot[k].pc \notin {"idle", "complete_save"},
         NEW pc \in Stages \ {"idle", "complete_save"}, NEW n \in Nat,
         slot' = [slot EXCEPT ![k] = [slot[k] EXCEPT !.pc = pc, !.n = n]],
         stat'.onTime = stat.onTime, stat'.late = stat.late, stat'.earnings = stat.earnings,
         overlap' = overlap
  PROVE  RowInv'
<1> DEFINE r == [slot[k] EXCEPT !.pc = pc, !.n = n]
<1>1. r \in SlotType /\ r.pc = pc /\ r.row = slot[k].row
  BY Types DEF Inv, SlotType
<1>2. slot' = [slot EXCEPT ![k] = r]
  OBVIOUS
<1> HIDE DEF r
<1>3. ~overlap => Close(r, stat')
  BY <1>1 DEF RowInv, Close
<1>4. ~overlap => \A j \in Slots \ {k} : slot[j].pc = "idle"
  BY Ending DEF At
<1> QED BY <1>1, <1>2, <1>3, <1>4, RowMoves

\* Saving a row saves its punctual and late deliveries and its earnings.
LEMMA SavedEarnings ==
  ASSUME NEW new \in Row, SaveRow(new)
  PROVE  /\ stat'.onTime = new.onTime /\ stat'.late = new.late
         /\ stat'.earnings = new.earnings
  BY DEF SaveRow, Row

LEMMA RowInit == StatsInit => RowInv
  BY IdleTyped DEF StatsInit, RowInv

\* Every handler begins with the row as it is.
LEMMA RowBegins ==
  ASSUME Inv, NEW k \in Slots, NEW pc \in Stages \ {"idle", "complete_save"},
         NEW o \in Orders \cup {"none"}, NEW n \in Nat, Begin(k, pc, o, n), stat' = stat
  PROVE  RowInv'
<1> DEFINE r == [pc |-> pc, o |-> o, row |-> stat, n |-> n]
<1>1. r \in SlotType /\ r.pc = pc /\ r.row = stat
  BY Types DEF Inv, SlotType
<1>2. slot' = [slot EXCEPT ![k] = r]
  BY DEF Begin
<1> HIDE DEF r
<1>3. Close(r, stat')
  BY <1>1 DEF Close
<1>4. ~overlap' => \A j \in Slots \ {k} : slot[j].pc = "idle"
  BY DEF Begin, At
<1> QED BY <1>1, <1>2, <1>3, <1>4, RowMoves

\* The steps that begin a handler, and what they leave alone.
LEMMA Begins ==
  ASSUME NEW k \in Slots, Request(k)
  PROVE  /\ \E pc \in Stages \ {"idle", "complete_save"}, o \in Orders \cup {"none"}, n \in Nat :
               Begin(k, pc, o, n)
         /\ stat' = stat /\ day' = day /\ count' = count /\ start' = start /\ crashes' = crashes
  BY StatsAssumption
     DEF Request, AcceptRead, RejectRead, CompleteDetail, CancelRead, ProfileRead, Stages

LEMMA RowNext == Inv /\ RowInv /\ [StatsNext]_statsVars => RowInv'
<1> SUFFICES ASSUME Inv, RowInv, [StatsNext]_statsVars PROVE RowInv'
  OBVIOUS
<1> USE Types DEF Inv
<1>1. ASSUME NEW k \in Slots, Request(k) PROVE RowInv'
  BY <1>1, Begins, RowBegins
<1>2. ASSUME NEW k \in Slots, AcceptInsert(k) \/ CancelSave(k) \/ CompleteOrder(k) \/ RejectBan(k)
      PROVE  RowInv'
  <2>1. slot[k].pc \notin {"idle", "complete_save"} /\ slot[k] \in SlotType
    BY <1>2 DEF AcceptInsert, CancelSave, CompleteOrder, RejectBan, At
  <2>2. overlap' = overlap /\ stat'.onTime = stat.onTime /\ stat'.late = stat.late
        /\ stat'.earnings = stat.earnings
    BY <1>2 DEF AcceptInsert, CancelSave, CompleteOrder, RejectBan, Row
  <2>3. CASE End(k)
    BY <2>1, <2>2, <2>3, RowEnds
  <2>4. CASE \E pc \in {"accept_save", "cancel_count", "reject_save"} : Goto(k, pc)
    <3>1. PICK pc \in {"accept_save", "cancel_count", "reject_save"} : Goto(k, pc)
      BY <2>4
    <3>2. slot' = [slot EXCEPT ![k] = [slot[k] EXCEPT !.pc = pc, !.n = slot[k].n]]
          /\ slot[k].n \in Nat /\ pc \in Stages \ {"idle", "complete_save"}
      BY <2>1, <3>1 DEF Goto, SlotType, Stages
    <3> QED BY <2>1, <2>2, <3>2, RowGoes
  <2>5. CASE CompleteOrder(k)
    <3> DEFINE n == order[slot[k].o].earn
    <3>1. slot[k].o \in Orders
      BY <2>5 DEF CompleteOrder, At, WithOrder, Stages
    <3>2. n \in Nat /\ "complete_earn" \in Stages \ {"idle", "complete_save"}
      BY <3>1 DEF Order, Stages
    <3>3. slot' = [slot EXCEPT ![k] = [slot[k] EXCEPT !.pc = "complete_earn", !.n = n]]
      BY <2>5 DEF CompleteOrder
    <3> HIDE DEF n
    <3> QED BY <2>1, <2>2, <3>2, <3>3, RowGoes
  <2> QED BY <1>2, <2>3, <2>4, <2>5 DEF AcceptInsert, CancelSave, RejectBan
<1>3. ASSUME NEW k \in Slots, NEW hour \in Hours, NEW onTime \in BOOLEAN,
             CompleteEarn(k, hour, onTime)
      PROVE  RowInv'
  <2>1. slot[k].pc = "complete_earn" /\ overlap' = overlap /\ stat' = stat
        /\ slot[k] \in SlotType
    BY <1>3 DEF CompleteEarn, At
  <2>2. CASE End(k)
    BY <2>1, <2>2, RowEnds
  <2>3. CASE ~End(k)
    <3> DEFINE late == IF onTime THEN 0 ELSE 1
               new == [stat EXCEPT !.onTime = @ + 1 - late, !.late = @ + late]
    <3>1. PICK n \in Nat : slot' = [slot EXCEPT ![k].pc = "complete_save", ![k].n = n, ![k].row = new]
      <4>1. slot[k].o \in Orders /\ slot[k].n \in Nat
        BY <2>1 DEF WithOrder, Stages, SlotType
      <4>2. Earnings(Terms[slot[k].o], hour, onTime, stat.completed) \in Nat
        <5>1. Terms[slot[k].o] \in [fee : Nat, dist : Nat, total : Nat]
          BY <4>1, StatsAssumption
        <5>2. stat.completed \in Nat
          BY DEF Row
        <5> QED BY <5>1, <5>2, EarningsTyped
      <4> QED BY <1>3, <2>3, <4>1, <4>2 DEF CompleteEarn
    <3> DEFINE r == [slot[k] EXCEPT !.pc = "complete_save", !.n = n, !.row = new]
    <3>2. stat.onTime + 1 - late \in Nat /\ stat.late + late \in Nat
      BY DEF Row
    <3>3. /\ new \in Row /\ new.onTime = stat.onTime + 1 - late /\ new.late = stat.late + late
          /\ new.earnings = stat.earnings
      BY <3>2 DEF Row
    <3>4. slot' = [slot EXCEPT ![k] = r]
      BY <3>1
    <3> HIDE DEF new
    <3>5. r \in SlotType /\ r.pc = "complete_save" /\ r.row = new
      BY <2>1, <3>3 DEF SlotType, Stages
    <3> HIDE DEF r
    <3>6. Close(r, stat)
      <4>1. stat.onTime \in Nat /\ stat.late \in Nat
        BY DEF Row
      <4> QED BY <3>3, <3>5, <4>1 DEF Close
    <3>7. ~overlap => \A j \in Slots \ {k} : slot[j].pc = "idle"
      BY <2>1, Ending DEF At
    <3> QED BY <2>1, <3>4, <3>5, <3>6, <3>7, RowMoves
  <2> QED BY <2>2, <2>3
<1>4. ASSUME NEW k \in Slots, \/ AcceptSave(k) \/ CompleteSave(k) \/ CancelCount(k) \/ RejectSave(k)
                              \/ ProfileCert(k)
      PROVE  RowInv'
  <2>1. slot[k].pc # "idle" /\ End(k) /\ overlap' = overlap
    BY <1>4 DEF AcceptSave, CompleteSave, CancelCount, RejectSave, ProfileCert, At
  <2> QED BY <2>1, RowEnds
<1>5. ASSUME NEW k \in Slots, NEW driver \in BOOLEAN, ProfileSave(k, driver) PROVE RowInv'
  <2>1. slot[k].pc = "profile_save" /\ overlap' = overlap /\ slot[k] \in SlotType
    BY <1>5 DEF ProfileSave, At
  <2>2. CASE End(k)
    BY <2>1, <2>2, RowEnds
  <2>3. CASE Goto(k, "profile_cert")
    <3> DEFINE r == [slot[k] EXCEPT !.pc = "profile_cert"]
    <3>1. r \in SlotType /\ r.pc = "profile_cert" /\ r.row = slot[k].row
      BY <2>1 DEF SlotType, Stages
    <3>2. slot' = [slot EXCEPT ![k] = r]
      BY <2>3 DEF Goto
    <3> HIDE DEF r
    <3>3. SaveRow(slot[k].row) /\ slot[k].row \in Row
      BY <1>5, <2>1 DEF ProfileSave, SlotType
    <3>4. Close(r, stat')
      BY <3>1, <3>3, SavedEarnings DEF Close
    <3>5. ~overlap => \A j \in Slots \ {k} : slot[j].pc = "idle"
      BY <2>1, Ending DEF At
    <3> QED BY <2>1, <3>1, <3>2, <3>4, <3>5, RowMoves
  <2> QED BY <1>5, <2>2, <2>3 DEF ProfileSave
<1>6. ASSUME slot' = slot, ~overlap' => ~overlap, stat'.onTime = stat.onTime,
             stat'.late = stat.late, stat'.earnings = stat.earnings
      PROVE  RowInv'
  BY <1>6 DEF RowInv, Close
<1>7. CASE \/ \E o \in Orders, links \in BOOLEAN : Deliver(o, links)
           \/ \E verdict \in {"APPROVED", "REJECTED"} : Decide(verdict)
           \/ NewDay \/ UNCHANGED statsVars
  <2>1. slot' = slot /\ (stat' = stat \/ \E c \in Cert : stat' = [stat EXCEPT !.cert = c])
    BY <1>7 DEF Deliver, Decide, NewDay, statsVars, Cert
  <2>2. stat'.onTime = stat.onTime /\ stat'.late = stat.late /\ stat'.earnings = stat.earnings
    BY <2>1 DEF Row
  <2>3. ~overlap' => ~overlap
    BY <1>7 DEF Deliver, Decide, NewDay, statsVars
  <2> QED BY <1>6, <2>1, <2>2, <2>3
<1>8. CASE Crash
  BY <1>8, IdleTyped DEF Crash, RowInv
<1> QED BY <1>1, <1>2, <1>3, <1>4, <1>5, <1>7, <1>8 DEF StatsNext, Continue

-----------------------------------------------------------------------------
(***************************************************************************)
(* Levels, badges and milestones.  A punctual delivery counts once as      *)
(* completed and once as punctual, and no figure a level asks for falls.   *)
(***************************************************************************)
LEMMA GreatestOf ==
  ASSUME NEW T, T # {}, NEW n \in Nat, T \subseteq 0..n
  PROVE  Max(T) \in T /\ \A m \in T : m <= Max(T)
<1> DEFINE U == {n - m : m \in T}
<1>1. U \subseteq Nat /\ U # {}
  <2>1. \A m \in T : n - m \in Nat
    OBVIOUS
  <2>2. PICK m \in T : TRUE
    OBVIOUS
  <2>3. n - m \in U
    OBVIOUS
  <2> QED BY <2>1, <2>3
<1> HIDE DEF U
<1>2. PICK u \in U : \A v \in U : u <= v
  BY <1>1, SmallestNumber
<1>3. PICK m \in T : u = n - m
  BY <1>2 DEF U
<1>4. \A k \in T : m >= k
  <2> TAKE k \in T
  <2>1. u <= n - k
    BY <1>2 DEF U
  <2> QED BY <1>3, <2>1
<1>5. \E k \in T : \A l \in T : k >= l
  BY <1>4
<1>6. Max(T) \in T /\ \A l \in T : Max(T) >= l
  BY <1>5 DEF Max
<1> QED BY <1>6

LEMMA LeastOf ==
  ASSUME NEW T, T # {}, T \subseteq Nat
  PROVE  Min(T) \in T /\ \A m \in T : Min(T) <= m
<1>1. \E k \in T : \A l \in T : k <= l
  BY SmallestNumber
<1> QED BY <1>1 DEF Min

\* The row b of a shipper after a punctual delivery, a before it.
Delivered(a, b) ==
    /\ b.completed = a.completed + 1 /\ b.onTime = a.onTime + 1 /\ b.late = a.late
    /\ b.rejected = a.rejected /\ b.earnings >= a.earnings

LEMMA ReachesKept ==
  ASSUME NEW a \in Row, NEW b \in Row, Delivered(a, b), NEW rating \in Nat, NEW j \in 1..5,
         Reaches(a, rating, LevelFloor[j])
  PROVE  Reaches(b, rating, LevelFloor[j])
<1> DEFINE f == LevelFloor[j]
<1>1. /\ f.completed \in Nat /\ f.rating \in Nat
      /\ f.onTime \in {75, 80, 85, 90, 95} /\ f.reject \in {100, 20, 15, 10, 5}
  <2>1. j \in {1, 2, 3, 4, 5}
    OBVIOUS
  <2> QED BY <2>1 DEF LevelFloor
<1>2. /\ a.completed \in Nat /\ b.completed \in Nat /\ a.onTime \in Nat /\ b.onTime \in Nat
      /\ a.late \in Nat /\ b.late \in Nat /\ a.rejected \in Nat /\ b.rejected \in Nat
  BY DEF Row
<1> HIDE DEF f
<1> SUFFICES ASSUME Reaches(a, rating, f) PROVE Reaches(b, rating, f)
  BY DEF f
<1>3. b.completed >= f.completed /\ rating >= f.rating
  BY <1>1, <1>2 DEF Reaches, Delivered
<1>4. AtLeast(OnTimePercent(b), f.onTime)
  <2>1. a.onTime * 100 >= f.onTime * Most(1, a.onTime + a.late)
    BY DEF Reaches, AtLeast, OnTimePercent
  <2>2. Most(1, b.onTime + b.late) = a.onTime + a.late + 1
    BY <1>2 DEF Most, Delivered
  <2>3. Most(1, a.onTime + a.late) >= a.onTime + a.late /\ Most(1, a.onTime + a.late) \in Nat
    BY <1>2 DEF Most
  <2>4. (a.onTime + 1) * 100 >= f.onTime * (a.onTime + a.late + 1)
    BY <1>1, <1>2, <2>1, <2>3
  <2> QED BY <2>2, <2>4 DEF AtLeast, OnTimePercent, Delivered
<1>5. AtMost(RejectPercent(b), f.reject)
  <2>1. a.rejected * 100 <= f.reject * Most(1, a.completed + a.rejected)
    BY DEF Reaches, AtMost, RejectPercent
  <2>2. Most(1, a.completed + a.rejected) <= Most(1, b.completed + b.rejected)
        /\ Most(1, a.completed + a.rejected) \in Nat /\ Most(1, b.completed + b.rejected) \in Nat
    BY <1>2 DEF Most, Delivered
  <2>3. a.rejected * 100 <= f.reject * Most(1, b.completed + b.rejected)
    BY <1>1, <1>2, <2>1, <2>2
  <2> QED BY <2>3 DEF AtMost, RejectPercent, Delivered
<1> QED BY <1>3, <1>4, <1>5 DEF Reaches

LEMMA LevelKept ==
  ASSUME NEW a \in Row, NEW b \in Row, Delivered(a, b), NEW rating \in Nat
  PROVE  Level(b, rating) >= Level(a, rating)
<1> DEFINE T(r) == {1} \cup {i + 1 : i \in {j \in 1..5 : Reaches(r, rating, LevelFloor[j])}}
<1>1. T(a) \subseteq T(b)
  BY ReachesKept
<1>2. \A r : T(r) # {} /\ T(r) \subseteq 0..6
  OBVIOUS
<1>3. Level(a, rating) = Max(T(a)) /\ Level(b, rating) = Max(T(b))
  BY DEF Level
<1> HIDE DEF T
<1>4. Max(T(a)) \in T(a) /\ Max(T(b)) \in T(b) /\ \A m \in T(b) : m <= Max(T(b))
  BY <1>2, GreatestOf
<1> QED BY <1>1, <1>2, <1>3, <1>4

LEMMA BadgesKept ==
  ASSUME NEW a \in Row, NEW b \in Row, Delivered(a, b), NEW rating
  PROVE  Achievements(a, rating) \subseteq Achievements(b, rating)
<1>1. /\ a.completed \in Nat /\ a.onTime \in Nat /\ a.earnings \in Nat
      /\ b.completed \in Nat /\ b.onTime \in Nat /\ b.earnings \in Nat
  BY DEF Row
<1>2. b.completed >= a.completed /\ b.onTime >= a.onTime /\ b.earnings >= a.earnings
  BY <1>1 DEF Delivered
<1> QED BY <1>1, <1>2 DEF Achievements

LEMMA TargetsKept ==
  ASSUME NEW n \in Nat, NEW targets \in SUBSET Nat, NEW target \in NextTarget(targets, n + 1)
  PROVE  \E passed \in NextTarget(targets, n) : passed <= target
<1> DEFINE ahead(m) == {t \in targets : t > m}
<1>1. ahead(n + 1) # {} /\ target = Min(ahead(n + 1))
  BY DEF NextTarget
<1>2. ahead(n + 1) \subseteq ahead(n)
  <2>1. \A t \in targets : t > n + 1 => t > n
    OBVIOUS
  <2> QED BY <2>1
<1>3. \A m : ahead(m) \subseteq Nat
  OBVIOUS
<1>4. NextTarget(targets, n) = {Min(ahead(n))}
  BY <1>1, <1>2 DEF NextTarget
<1> HIDE DEF ahead
<1>5. target \in ahead(n)
  BY <1>1, <1>2, <1>3, LeastOf
<1>6. Min(ahead(n)) <= target
  BY <1>3, <1>5, LeastOf
<1> QED BY <1>4, <1>6

\* Which step counts a punctual delivery, and what else it changes.
LEMMA PunctualStep ==
  ASSUME Inv, RowInv, [StatsNext]_statsVars, ~overlap', stat'.onTime > stat.onTime
  PROVE  stat' \in Row /\ Delivered(stat, stat')
<1> USE Types DEF Inv
<1>1. stat' \in Row
  BY TypeNext, Types DEF TypeInv, StatsTypeOK
<1>2. stat.onTime \in Nat /\ stat'.onTime \in Nat
  BY <1>1 DEF Row
<1>3. ASSUME NEW k \in Slots, NEW pc, At(k, pc), pc \notin {"idle", "complete_save"},
             NEW new \in Row, SaveRow(new), new.onTime = slot[k].row.onTime,
             overlap' = overlap
      PROVE  FALSE
  BY <1>2, <1>3, SavedEarnings DEF RowInv, Close, At
<1>4. \A k \in Slots : slot[k] \in SlotType /\ slot[k].row \in Row /\ slot[k].n \in Nat
  BY DEF SlotType
<1>5. \A k \in Slots : ~AcceptSave(k) /\ ~CancelCount(k) /\ ~RejectSave(k)
                       /\ \A driver \in BOOLEAN : ~ProfileSave(k, driver)
  <2> TAKE k \in Slots
  <2> DEFINE r == slot[k].row
             n == slot[k].n
  <2>1. ~AcceptSave(k)
    <3> DEFINE new == [r EXCEPT !.active = @ + 1, !.response = Most(@ + n, 1)]
    <3>1. new \in Row /\ new.onTime = r.onTime
      BY <1>4, SavedTyped DEF Row
    <3> HIDE DEF new
    <3> QED BY <1>3, <3>1 DEF AcceptSave, new
  <2>2. ~CancelCount(k)
    <3> DEFINE new == [r EXCEPT !.active = Most(@ - 1, 0), !.failed = @ + 1]
    <3>1. new \in Row /\ new.onTime = r.onTime
      BY <1>4, SavedTyped DEF Row
    <3> HIDE DEF new
    <3> QED BY <1>3, <3>1 DEF CancelCount, new
  <2>3. ~RejectSave(k)
    <3> DEFINE new == Rejected(r, n)
    <3>1. new \in Row /\ new.onTime = r.onTime
      BY <1>4, SavedTyped DEF Row, Rejected
    <3> HIDE DEF new
    <3> QED BY <1>3, <3>1 DEF RejectSave, new
  <2>4. ASSUME NEW driver \in BOOLEAN PROVE ~ProfileSave(k, driver)
    BY <1>3, <1>4 DEF ProfileSave
  <2> QED BY <2>1, <2>2, <2>3, <2>4
<1>6. ASSUME \E c \in Cert : stat' = [stat EXCEPT !.cert = c] PROVE FALSE
  BY <1>2, <1>6 DEF Row
<1>7. ASSUME stat' = stat PROVE FALSE
  BY <1>2, <1>7
<1>8. \A k \in Slots : ~Request(k)
  BY <1>7, Begins
<1>9. \A k \in Slots : /\ ~AcceptInsert(k) /\ ~CompleteOrder(k) /\ ~CancelSave(k)
                       /\ ~RejectBan(k) /\ ~ProfileCert(k)
                       /\ \A hour \in Hours, onTime \in BOOLEAN : ~CompleteEarn(k, hour, onTime)
  <2> TAKE k \in Slots
  <2>1. slot[k].row.cert \in Cert /\ "REJECTED" \in Cert
    BY <1>4 DEF Row, Cert
  <2> QED BY <1>6, <1>7, <2>1
          DEF AcceptInsert, CompleteOrder, CancelSave, RejectBan, ProfileCert, CompleteEarn
<1>10. PICK k \in Slots : CompleteSave(k)
  <2>1. ~NewDay /\ ~Crash /\ ~UNCHANGED statsVars
        /\ \A o \in Orders, links \in BOOLEAN : ~Deliver(o, links)
    BY <1>7 DEF NewDay, Crash, Deliver, statsVars
  <2>2. \A verdict \in {"APPROVED", "REJECTED"} : ~Decide(verdict)
    BY <1>6 DEF Decide, Cert
  <2> QED BY <1>5, <1>8, <1>9, <2>1, <2>2 DEF StatsNext, Continue
<1> DEFINE r == slot[k].row
           n == slot[k].n
           new == [r EXCEPT !.completed = @ + 1, !.active = Most(@ - 1, 0),
                            !.earnings = @ + n, !.daily = @ + n]
<1>11. /\ new \in Row /\ new.completed = r.completed + 1 /\ new.onTime = r.onTime
       /\ new.late = r.late /\ new.rejected = r.rejected /\ new.earnings = r.earnings + n
  BY <1>4, SavedTyped DEF Row
<1>12. SaveRow(new) /\ slot[k].pc = "complete_save" /\ ~overlap
  BY <1>10 DEF CompleteSave, At
<1> HIDE DEF new
<1>13. Close(slot[k], stat) /\ Agrees(slot[k].row, stat)
  BY <1>12 DEF RowInv, CountInv
<1>14. stat.earnings \in Nat /\ n \in Nat
  BY <1>4 DEF Row
<1> QED BY <1>1, <1>2, <1>4, <1>11, <1>12, <1>13, <1>14, SavedEarnings, SavedCounters
        DEF Close, Agrees, Delivered

\* Completing a delivery in time never costs a shipper his level or a badge and
\* never sets his next milestone back (PunctualDeliveryKeepsLevel), whatever he
\* completed, rejected or was late for before.
THEOREM LevelCorrect == StatsSpec => PunctualDeliveryKeepsLevel
<1>1. StatsInit => Inv /\ RowInv
  BY TypeInit, CountInit, RowInit DEF Inv
<1>2. Inv /\ RowInv /\ [StatsNext]_statsVars => (Inv /\ RowInv)'
  BY TypeNext, CountNext, RowNext DEF Inv
<1> DEFINE Keeps(rating) ==
      LET before == Dashboard(stat, rating)
          after == Dashboard(stat', rating)
      IN /\ after.level >= before.level
         /\ before.badges \subseteq after.badges
         /\ \A target \in after.next.deliveries :
                \E passed \in before.next.deliveries : passed <= target
<1>3. Inv /\ RowInv /\ [StatsNext]_statsVars =>
        \A rating \in {40, 42, 44, 46, 48} : ~overlap' /\ stat'.onTime > stat.onTime => Keeps(rating)
  <2> SUFFICES ASSUME Inv, RowInv, [StatsNext]_statsVars, NEW rating \in {40, 42, 44, 46, 48},
                      ~overlap', stat'.onTime > stat.onTime
               PROVE  Keeps(rating)
    OBVIOUS
  <2>1. stat \in Row /\ stat' \in Row /\ Delivered(stat, stat') /\ rating \in Nat
    BY PunctualStep, Types DEF Inv
  <2>2. Level(stat', rating) >= Level(stat, rating)
    BY <2>1, LevelKept
  <2>3. Achievements(stat, rating) \subseteq Achievements(stat', rating)
    BY <2>1, BadgesKept
  <2>4. \A target \in NextTarget(DeliveryTargets, stat'.completed) :
          \E passed \in NextTarget(DeliveryTargets, stat.completed) : passed <= target
    <3>1. stat.completed \in Nat /\ stat'.completed = stat.completed + 1
      BY <2>1 DEF Row, Delivered
    <3>2. DeliveryTargets \in SUBSET Nat
      BY DEF DeliveryTargets
    <3> QED BY <3>1, <3>2, TargetsKept
  <2> QED BY <2>2, <2>3, <2>4 DEF Dashboard
<1> QED BY <1>1, <1>2, <1>3, PTL DEF StatsSpec, PunctualDeliveryKeepsLevel


-----------------------------------------------------------------------------
(***************************************************************************)
(* Earnings.  An order that has earnings was completed on some day.  With  *)
(* every completion at most one order is added to those that have          *)
(* earnings: when they are as many as the completions, each completion     *)
(* added the earnings of its order to the row, once.                       *)
(***************************************************************************)
DetailInv ==
    /\ \A o \in Orders : /\ order[o].earn # 0 => order[o].detail = "completed"
                         /\ order[o].done <= day
    /\ \A k \in Slots : slot[k].pc \in {"complete_order", "complete_earn"}
                            => order[slot[k].o].detail = "completed"

Paid == {o \in Orders : order[o].earn # 0}

\* c completions were counted, of which n is not yet in the row.
Balanced(n, c) ==
    /\ c >= Cardinality(Paid)
    /\ c = Cardinality(Paid) => stat.earnings + n - start.earnings = EarningsOf(Orders)

Saving(k) == slot[k].pc = "complete_save"

Books ==
    /\ \A k \in Slots : slot[k].pc = "complete_earn" => slot[k].n = order[slot[k].o].earn
    /\ (\A k \in Slots : ~Saving(k)) => Balanced(0, count["complete"])
    /\ \A k \in Slots : Saving(k) => Balanced(slot[k].n, count["complete"] + 1)

EarnInv == ~overlap /\ crashes = 0 => Books

LEMMA EarnsTyped ==
  ASSUME TypeInv
  PROVE  /\ \A o \in Orders : order[o].earn \in Nat /\ order[o].done \in Nat
         /\ IsFiniteSet(Orders) /\ IsFiniteSet(Paid) /\ Cardinality(Paid) \in Nat
<1>1. IsFiniteSet(Orders) /\ IsFiniteSet(Paid)
  <2>1. Paid \in SUBSET Orders
    BY DEF Paid
  <2> QED BY <2>1, StatsAssumption, FS_Subset
<1>2. Cardinality(Paid) \in Nat
  BY <1>1, FS_CardinalityType
<1> QED BY <1>1, <1>2, Types, StatsAssumption DEF Order

LEMMA EarnInit == StatsInit => DetailInv /\ EarnInv
<1> SUFFICES ASSUME StatsInit PROVE DetailInv /\ EarnInv
  OBVIOUS
<1>1. \A k \in Slots : slot[k].pc = "idle"
  BY IdleTyped DEF StatsInit
<1>2. \A o \in Orders : order[o].earn = 0 /\ order[o].done = 0 /\ day = 0
  BY DEF StatsInit
<1>3. Cardinality(Paid) = 0
  <2>1. Paid = {}
    BY <1>2 DEF Paid
  <2> QED BY <2>1, FS_EmptySet
<1>4. EarningsOf(Orders) = 0
  <2> DEFINE f == [o \in Orders |-> order[o].earn]
  <2>1. \A o \in Orders : f[o] = 0
    BY <1>2
  <2> HIDE DEF f
  <2>2. SumFunctionOnSet(f, Orders) = 0
    BY <2>1, StatsAssumption, SumZero
  <2> QED BY <2>2 DEF EarningsOf, f
<1>5. count["complete"] = 0 /\ stat = start /\ stat.earnings \in Nat
  <2>1. stat \in Row
    BY TypeInit, Types
  <2> QED BY <2>1 DEF StatsInit, Kinds, Row
<1>6. Balanced(0, count["complete"])
  BY <1>3, <1>4, <1>5 DEF Balanced
<1> QED BY <1>1, <1>2, <1>6 DEF DetailInv, EarnInv, Books, Saving

\* Completed shipping details stay so, and only their orders get earnings.
LEMMA DetailKept ==
  ASSUME DetailInv, day' \in Int,
         \A o \in Orders : /\ order[o].detail = "completed" => order'[o].detail = "completed"
                           /\ order'[o].earn # order[o].earn => order[o].detail = "completed"
                           /\ order'[o].done <= day',
         \A k \in Slots : slot'[k].pc \in {"complete_order", "complete_earn"} =>
             \/ slot'[k].o \in Orders /\ order'[slot'[k].o].detail = "completed"
             \/ /\ slot[k].pc \in {"complete_order", "complete_earn"}
                /\ slot[k].o \in Orders /\ slot'[k].o = slot[k].o
  PROVE  DetailInv'
  BY DEF DetailInv

LEMMA DetailNext == TypeInv /\ DetailInv /\ [StatsNext]_statsVars => DetailInv'
<1> SUFFICES ASSUME TypeInv, DetailInv, [StatsNext]_statsVars PROVE DetailInv'
  OBVIOUS
<1> USE Types
<1>1. /\ \A o \in Orders : order[o].done \in Int /\ order[o].done <= day /\ order[o] \in Order
      /\ day \in Int
  BY StatsAssumption DEF DetailInv, Order
<1>2. ASSUME NEW k \in Slots, NEW h, slot' = [slot EXCEPT ![k] = h],
             h.pc \notin {"complete_order", "complete_earn"}, day' = day,
             \A o \in Orders : /\ order[o].detail = "completed" => order'[o].detail = "completed"
                               /\ order'[o].earn # order[o].earn => order[o].detail = "completed"
                               /\ order'[o].done = order[o].done
      PROVE  DetailInv'
  <2>1. \A j \in Slots : slot'[j].pc \in {"complete_order", "complete_earn"}
           => slot'[j] = slot[j] /\ slot[j].o \in Orders
    BY <1>2 DEF WithOrder, Stages
  <2> QED BY <1>1, <1>2, <2>1, DetailKept
<1>3. ASSUME NEW k \in Slots, NEW pc, Goto(k, pc) PROVE slot' = [slot EXCEPT ![k] = [slot[k] EXCEPT !.pc = pc]] /\ [slot[k] EXCEPT !.pc = pc].pc = pc
  BY <1>3 DEF Goto, SlotType
<1>4. ASSUME NEW k \in Slots, End(k) PROVE slot' = [slot EXCEPT ![k] = Idle] /\ Idle.pc = "idle"
  BY <1>4, IdleTyped DEF End
<1>5. ASSUME NEW k \in Slots, NEW pc, NEW o, NEW n, Begin(k, pc, o, n)
      PROVE  slot' = [slot EXCEPT ![k] = [pc |-> pc, o |-> o, row |-> stat, n |-> n]]
  BY <1>5 DEF Begin
<1>6. ASSUME NEW k \in Slots, Request(k) PROVE DetailInv'
  <2>1. ASSUME NEW o \in Orders, CompleteDetail(k, o) PROVE DetailInv'
    <3> DEFINE h == [pc |-> "complete_order", o |-> o, row |-> stat, n |-> 0]
    <3>1. slot' = [slot EXCEPT ![k] = h] /\ h.o = o
      BY <2>1, <1>5 DEF CompleteDetail
    <3> HIDE DEF h
    <3>2. /\ order' = [order EXCEPT ![o].detail = "completed", ![o].done = day]
          /\ day' = day
      BY <2>1 DEF CompleteDetail
    <3>3. /\ order'[o].detail = "completed" /\ order'[o].done = day /\ order'[o].earn = order[o].earn
          /\ \A p \in Orders \ {o} : order'[p] = order[p]
      BY <1>1, <3>2 DEF Order
    <3>4. \A j \in Slots : slot'[j].pc \in {"complete_order", "complete_earn"} =>
             (j = k /\ slot'[j].o = o) \/ (slot'[j] = slot[j] /\ slot[j].o \in Orders)
      BY <3>1 DEF WithOrder, Stages
    <3>5. /\ day' \in Int /\ day <= day
          /\ \A p \in Orders : order[p].detail = "completed" => order'[p].detail = "completed"
          /\ \A p \in Orders : order'[p].earn = order[p].earn
          /\ \A p \in Orders : order'[p].done <= day'
      BY <1>1, <3>2, <3>3
    <3> QED BY <3>3, <3>4, <3>5, DetailKept
  <2>2. ASSUME NEW pc \in {"accept_insert", "reject_ban", "reject_save", "cancel_save", "profile_save"},
               NEW o, NEW n, Begin(k, pc, o, n), order' = order, day' = day
        PROVE  DetailInv'
    <3> DEFINE h == [pc |-> pc, o |-> o, row |-> stat, n |-> n]
    <3>1. slot' = [slot EXCEPT ![k] = h] /\ h.pc = pc
      BY <2>2, <1>5
    <3> HIDE DEF h
    <3> QED BY <1>2, <2>2, <3>1
  <2> QED BY <1>6, <2>1, <2>2 DEF Request, AcceptRead, RejectRead, CancelRead, ProfileRead
<1>7. ASSUME NEW k \in Slots, NEW pc \in {"accept_save", "cancel_count", "reject_save", "profile_cert"},
             End(k) \/ Goto(k, pc), day' = day,
             \A o \in Orders : /\ order[o].detail = "completed" => order'[o].detail = "completed"
                               /\ order'[o].earn = order[o].earn
                               /\ order'[o].done = order[o].done
      PROVE  DetailInv'
  <2>1. CASE End(k)
    BY <1>2, <1>4, <1>7, <2>1
  <2>2. CASE Goto(k, pc)
    <3> DEFINE h == [slot[k] EXCEPT !.pc = pc]
    <3>1. slot' = [slot EXCEPT ![k] = h] /\ h.pc = pc
      BY <1>3, <2>2
    <3> HIDE DEF h
    <3> QED BY <1>2, <1>7, <3>1
  <2> QED BY <1>7, <2>1, <2>2
<1>8. ASSUME NEW k \in Slots, AcceptInsert(k) PROVE DetailInv'
  <2> DEFINE o == slot[k].o
  <2>1. o \in Orders
    BY <1>8 DEF AcceptInsert, At, WithOrder, Stages
  <2>2. \A p \in Orders : /\ order[p].detail = "completed" => order'[p].detail = "completed"
                          /\ order'[p].earn = order[p].earn
                          /\ order'[p].done = order[p].done
    <3>1. CASE order[o].detail = "none"
      <4>1. order' = [order EXCEPT ![o].detail = "shipping", ![o].st = "shipper_received"]
        BY <1>8, <3>1 DEF AcceptInsert
      <4> HIDE DEF o
      <4> QED BY <1>1, <2>1, <3>1, <4>1 DEF Order
    <3>2. CASE order[o].detail # "none"
      BY <1>8, <3>2 DEF AcceptInsert
    <3> QED BY <3>1, <3>2
  <2>3. (End(k) \/ Goto(k, "accept_save")) /\ day' = day
    BY <1>8 DEF AcceptInsert
  <2> QED BY <1>7, <2>2, <2>3
<1>9. ASSUME NEW k \in Slots, \/ AcceptSave(k) \/ CompleteSave(k) \/ CancelCount(k) \/ RejectBan(k)
                              \/ RejectSave(k) \/ ProfileCert(k)
                              \/ \E driver \in BOOLEAN : ProfileSave(k, driver)
      PROVE  DetailInv'
  <2>1. order' = order /\ day' = day
        /\ \E pc \in {"accept_save", "cancel_count", "reject_save", "profile_cert"} : End(k) \/ Goto(k, pc)
    BY <1>9 DEF AcceptSave, CompleteSave, CancelCount, RejectBan, RejectSave, ProfileCert, ProfileSave
  <2> QED BY <1>7, <2>1
<1>10. ASSUME NEW k \in Slots, CancelSave(k) PROVE DetailInv'
  <2> DEFINE o == slot[k].o
  <2>1. order' = [order EXCEPT ![o].st = "canceled"] /\ day' = day /\ Goto(k, "cancel_count")
    BY <1>10 DEF CancelSave
  <2> HIDE DEF o
  <2>2. \A p \in Orders : /\ order'[p].detail = order[p].detail
                          /\ order'[p].earn = order[p].earn
                          /\ order'[p].done = order[p].done
    BY <1>1, <2>1 DEF Order
  <2> QED BY <1>7, <2>1, <2>2
<1>11. ASSUME NEW k \in Slots, CompleteOrder(k) PROVE DetailInv'
  <2> DEFINE o == slot[k].o
             h == [slot[k] EXCEPT !.pc = "complete_earn", !.n = order[o].earn]
  <2>1. slot' = [slot EXCEPT ![k] = h] /\ h.o = o /\ slot[k].pc = "complete_order" /\ day' = day
        /\ o \in Orders
    BY <1>11 DEF CompleteOrder, SlotType, At, WithOrder, Stages
  <2> HIDE DEF h
  <2>2. order' = [order EXCEPT ![o].st = "completed", ![o].linked = TRUE]
    BY <1>11 DEF CompleteOrder
  <2>3. \A p \in Orders : /\ order'[p].detail = order[p].detail
                          /\ order'[p].earn = order[p].earn
                          /\ order'[p].done = order[p].done
    <3> HIDE DEF o
    <3> QED BY <1>1, <2>2 DEF Order
  <2>4. \A j \in Slots : slot'[j].pc \in {"complete_order", "complete_earn"} =>
             /\ slot[j].pc \in {"complete_order", "complete_earn"}
             /\ slot[j].o \in Orders /\ slot'[j].o = slot[j].o
    BY <2>1 DEF WithOrder, Stages
  <2>5. /\ day' \in Int
        /\ \A p \in Orders : /\ order[p].detail = "completed" => order'[p].detail = "completed"
                             /\ order'[p].earn = order[p].earn /\ order'[p].done <= day'
    BY <1>1, <2>1, <2>3
  <2> QED BY <2>4, <2>5, DetailKept
<1>12. ASSUME NEW k \in Slots, NEW hour \in Hours, NEW onTime \in BOOLEAN,
              CompleteEarn(k, hour, onTime)
       PROVE  DetailInv'
  <2> DEFINE o == slot[k].o
  <2>1. o \in Orders /\ order[o].detail = "completed" /\ day' = day
    BY <1>12 DEF CompleteEarn, At, WithOrder, Stages, DetailInv
  <2>2. \/ order' = order
        \/ \E n : order' = [order EXCEPT ![o].earn = n, ![o].st = "completed"]
    BY <1>12 DEF CompleteEarn
  <2>3. \A p \in Orders : /\ order'[p].detail = order[p].detail
                          /\ order'[p].earn # order[p].earn => order[p].detail = "completed"
                          /\ order'[p].done = order[p].done
    <3> HIDE DEF o
    <3>1. CASE order' = order
      BY <3>1
    <3>2. CASE \E n : order' = [order EXCEPT ![o].earn = n, ![o].st = "completed"]
      <4>1. PICK n : order' = [order EXCEPT ![o].earn = n, ![o].st = "completed"]
        BY <3>2
      <4>2. \A p \in Orders \ {o} : order'[p] = order[p]
        BY <4>1
      <4>3. order'[o].detail = order[o].detail /\ order'[o].done = order[o].done
        BY <1>1, <2>1, <4>1 DEF Order
      <4> QED BY <2>1, <4>2, <4>3
    <3> QED BY <2>2, <3>1, <3>2
  <2>4. CASE End(k)
    BY <1>2, <1>4, <2>1, <2>3, <2>4
  <2>5. CASE \E n, new : slot' = [slot EXCEPT ![k].pc = "complete_save", ![k].n = n, ![k].row = new]
    <3>1. PICK n, new : slot' = [slot EXCEPT ![k].pc = "complete_save", ![k].n = n, ![k].row = new]
      BY <2>5
    <3> DEFINE h == [slot[k] EXCEPT !.pc = "complete_save", !.n = n, !.row = new]
    <3>2. slot' = [slot EXCEPT ![k] = h] /\ h.pc = "complete_save"
      BY <3>1 DEF SlotType
    <3> HIDE DEF h
    <3>3. h.pc \notin {"complete_order", "complete_earn"}
      BY <3>2
    <3> HIDE DEF o
    <3> QED BY <1>2, <2>1, <2>3, <3>2, <3>3
  <2> DEFINE late == IF onTime THEN 0 ELSE 1
             new == [stat EXCEPT !.onTime = @ + 1 - late, !.late = @ + late]
  <2>6. \/ End(k)
        \/ \E n : slot' = [slot EXCEPT ![k].pc = "complete_save", ![k].n = n, ![k].row = new]
    BY <1>12 DEF CompleteEarn
  <2> HIDE DEF new
  <2> QED BY <2>4, <2>5, <2>6
<1>13. ASSUME NEW o \in Orders, NEW links \in BOOLEAN, Deliver(o, links) PROVE DetailInv'
  <2>1. order' = [order EXCEPT ![o].st = "delivering", ![o].linked = links] /\ day' = day
        /\ slot' = slot
    BY <1>13 DEF Deliver
  <2>2. \A p \in Orders : /\ order'[p].detail = order[p].detail
                          /\ order'[p].earn = order[p].earn
                          /\ order'[p].done = order[p].done
    BY <1>1, <2>1 DEF Order
  <2>3. \A k \in Slots : slot[k].pc \in {"complete_order", "complete_earn"} => slot[k].o \in Orders
    BY DEF WithOrder, Stages
  <2> QED BY <2>1, <2>2, <2>3 DEF DetailInv
<1>14. CASE \E verdict \in {"APPROVED", "REJECTED"} : Decide(verdict)
  BY <1>14 DEF Decide, DetailInv
<1>15. CASE NewDay
  <2>1. \A o \in Orders : order[o].done <= day + 1
    BY <1>1
  <2> QED BY <1>15, <2>1 DEF NewDay, DetailInv
<1>16. CASE Crash
  BY <1>16, IdleTyped DEF Crash, DetailInv
<1>17. CASE UNCHANGED statsVars
  BY <1>17 DEF statsVars, DetailInv
<1> QED BY <1>6, <1>8, <1>9, <1>10, <1>11, <1>12, <1>13, <1>14, <1>15, <1>16, <1>17
        DEF StatsNext, Continue

\* No order is given earnings.
LEMMA SameEarnings ==
  ASSUME TypeInv, \A o \in Orders : order'[o].earn = order[o].earn
  PROVE  Paid' = Paid /\ EarningsOf(Orders)' = EarningsOf(Orders)
<1>1. Paid' = Paid
  BY DEF Paid
<1> DEFINE f == [o \in Orders |-> order[o].earn]
           g == [o \in Orders |-> order'[o].earn]
<1>2. IsFiniteSet(Orders) /\ \A o \in Orders : g[o] = f[o]
  BY StatsAssumption
<1>3. EarningsOf(Orders) = SumFunctionOnSet(f, Orders)
      /\ EarningsOf(Orders)' = SumFunctionOnSet(g, Orders)
  BY DEF EarningsOf
<1> HIDE DEF f, g
<1>4. SumFunctionOnSet(g, Orders) = SumFunctionOnSet(f, Orders)
  BY <1>2, SumEqual
<1> QED BY <1>1, <1>3, <1>4

\* A handler moves that counts no completion, alone unless handlers overlapped.
LEMMA BooksOn ==
  ASSUME Inv, EarnInv, NEW k \in Slots, NEW r \in SlotType, slot' = [slot EXCEPT ![k] = r],
         slot[k].pc # "complete_save", r.pc # "complete_save",
         \A o \in Orders : order'[o].earn = order[o].earn,
         start' = start, count'["complete"] = count["complete"], crashes' = crashes,
         ~overlap' => /\ ~overlap /\ \A j \in Slots \ {k} : slot[j].pc = "idle"
                      /\ r.pc = "complete_earn" => r.n = order'[r.o].earn
                      /\ stat'.earnings = stat.earnings
  PROVE  EarnInv'
<1> SUFFICES ASSUME ~overlap', crashes' = 0 PROVE Books'
  BY DEF EarnInv
<1>1. slot'[k] = r /\ \A j \in Slots \ {k} : slot'[j] = slot[j]
  BY Types DEF Inv
<1>2. \A j \in Slots : ~Saving(j) /\ ~Saving(j)'
  BY <1>1 DEF Saving
<1>3. Balanced(0, count["complete"])
  BY <1>2 DEF EarnInv, Books
<1>4. Balanced(0, count["complete"])'
  BY <1>3, SameEarnings DEF Inv, Balanced
<1>5. \A j \in Slots : slot'[j].pc = "complete_earn" => slot'[j].n = order'[slot'[j].o].earn
  BY <1>1
<1> QED BY <1>2, <1>4, <1>5 DEF Books

LEMMA EarnPositive ==
  ASSUME NEW terms, NEW hour, NEW onTime, NEW completed,
         Earnings(terms, hour, onTime, completed) \in Nat
  PROVE  Earnings(terms, hour, onTime, completed) # 0
<1> DEFINE all == (Round(terms.fee * 85, 100) + Most(0, (terms.dist - 10) * 500)
                     + (TimeBonus(hour) + PerformanceBonus(completed) + (IF onTime THEN 3000 ELSE 0)))
                     * 100 + Least(1000000, terms.total)
<1>1. Earnings(terms, hour, onTime, completed) = Most(all, 2000000)
  BY DEF Earnings
<1> HIDE DEF all
<1>2. Most(all, 2000000) # 0
  BY DEF Most
<1> QED BY <1>1, <1>2

LEMMA EarnNext == Inv /\ RowInv /\ DetailInv /\ EarnInv /\ [StatsNext]_statsVars => EarnInv'
<1> SUFFICES ASSUME Inv, RowInv, DetailInv, EarnInv, [StatsNext]_statsVars PROVE EarnInv'
  OBVIOUS
<1> USE Types DEF Inv
<1>1. \A o \in Orders : order[o] \in Order
  OBVIOUS
<1>2. \A k \in Slots : /\ slot[k] \in SlotType /\ slot[k].row \in Row /\ slot[k].n \in Nat
                       /\ slot[k].pc \in WithOrder => slot[k].o \in Orders
  BY DEF SlotType
<1>3. ASSUME NEW k \in Slots, Request(k) PROVE EarnInv'
  <2>1. PICK pc \in Stages \ {"idle", "complete_save"}, o \in Orders \cup {"none"}, n \in Nat :
            Begin(k, pc, o, n) /\ pc # "complete_earn"
    BY <1>3, StatsAssumption
       DEF Request, AcceptRead, RejectRead, CompleteDetail, CancelRead, ProfileRead, Stages
  <2> DEFINE r == [pc |-> pc, o |-> o, row |-> stat, n |-> n]
  <2>2. r \in SlotType /\ r.pc = pc /\ slot' = [slot EXCEPT ![k] = r] /\ slot[k].pc = "idle"
    BY <2>1 DEF SlotType, Begin, At
  <2> HIDE DEF r
  <2>3. ~overlap' => ~overlap /\ \A j \in Slots \ {k} : slot[j].pc = "idle"
    BY <2>1 DEF Begin, At
  <2>4. \A p \in Orders : order'[p].earn = order[p].earn
    <3>1. order' = order \/ \E p \in Orders : CompleteDetail(k, p)
      BY <1>3 DEF Request, AcceptRead, RejectRead, CancelRead, ProfileRead
    <3>2. ASSUME NEW p \in Orders, CompleteDetail(k, p)
          PROVE  \A s \in Orders : order'[s].earn = order[s].earn
      BY <1>1, <3>2 DEF CompleteDetail, Order
    <3> QED BY <3>1, <3>2
  <2> QED BY <1>3, <2>1, <2>2, <2>3, <2>4, Begins, BooksOn
<1>4. ASSUME NEW k \in Slots, slot[k].pc \notin {"idle", "complete_save"}, overlap' = overlap,
             NEW pc \in Stages \ {"complete_save"}, NEW n \in Nat,
             \/ End(k)
             \/ slot' = [slot EXCEPT ![k] = [slot[k] EXCEPT !.pc = pc, !.n = n]],
             pc = "complete_earn" => n = order'[slot[k].o].earn,
             \A o \in Orders : order'[o].earn = order[o].earn,
             start' = start, count'["complete"] = count["complete"], crashes' = crashes,
             ~overlap => stat'.earnings = stat.earnings
      PROVE  EarnInv'
  <2>1. ~overlap => \A j \in Slots \ {k} : slot[j].pc = "idle"
    BY <1>4, Ending DEF At
  <2>2. CASE End(k)
    <3>1. slot' = [slot EXCEPT ![k] = Idle] /\ Idle \in SlotType /\ Idle.pc = "idle"
      BY <2>2, IdleTyped DEF End
    <3> QED BY <1>4, <2>1, <3>1, BooksOn
  <2>3. CASE slot' = [slot EXCEPT ![k] = [slot[k] EXCEPT !.pc = pc, !.n = n]]
    <3> DEFINE r == [slot[k] EXCEPT !.pc = pc, !.n = n]
    <3>1. r \in SlotType /\ r.pc = pc /\ r.n = n /\ r.o = slot[k].o
      BY <1>2 DEF SlotType
    <3>2. slot' = [slot EXCEPT ![k] = r]
      BY <2>3
    <3> HIDE DEF r
    <3> QED BY <1>4, <2>1, <3>1, <3>2, BooksOn
  <2> QED BY <1>4, <2>2, <2>3
<1>5. ASSUME NEW k \in Slots, NEW pc, Goto(k, pc)
      PROVE  slot' = [slot EXCEPT ![k] = [slot[k] EXCEPT !.pc = pc, !.n = slot[k].n]]
  BY <1>2, <1>5 DEF Goto, SlotType
<1>6. ASSUME NEW k \in Slots, AcceptInsert(k) \/ CancelSave(k) \/ RejectBan(k) PROVE EarnInv'
  <2>1. /\ slot[k].pc \notin {"idle", "complete_save"} /\ overlap' = overlap /\ start' = start
        /\ count' = count /\ crashes' = crashes
        /\ \E pc \in {"accept_save", "cancel_count", "reject_save"} : End(k) \/ Goto(k, pc)
    BY <1>6 DEF AcceptInsert, CancelSave, RejectBan, At
  <2>2. stat'.earnings = stat.earnings
    BY <1>6 DEF AcceptInsert, CancelSave, RejectBan, Row
  <2>3. \A o \in Orders : order'[o].earn = order[o].earn
    <3>1. \/ order' = order
          \/ order' = [order EXCEPT ![slot[k].o].detail = "shipping", ![slot[k].o].st = "shipper_received"]
          \/ order' = [order EXCEPT ![slot[k].o].st = "canceled"]
      BY <1>6 DEF AcceptInsert, CancelSave, RejectBan
    <3> QED BY <1>1, <3>1 DEF Order
  <2>4. {"accept_save", "cancel_count", "reject_save"} \subseteq Stages \ {"complete_save", "complete_earn"}
    BY DEF Stages
  <2> QED BY <1>2, <1>4, <1>5, <2>1, <2>2, <2>3, <2>4
<1>7. ASSUME NEW k \in Slots, CompleteOrder(k) PROVE EarnInv'
  <2> DEFINE o == slot[k].o
             n == order[o].earn
  <2>1. /\ slot[k].pc = "complete_order" /\ overlap' = overlap /\ start' = start /\ stat' = stat
        /\ count' = count /\ crashes' = crashes
        /\ slot' = [slot EXCEPT ![k] = [slot[k] EXCEPT !.pc = "complete_earn", !.n = n]]
    BY <1>7 DEF CompleteOrder, At
  <2>2. o \in Orders /\ n \in Nat /\ "complete_earn" \in Stages \ {"complete_save"}
    BY <1>1, <1>2, <2>1 DEF WithOrder, Stages, Order
  <2>3. order' = [order EXCEPT ![o].st = "completed", ![o].linked = TRUE]
    BY <1>7 DEF CompleteOrder
  <2>4. \A p \in Orders : order'[p].earn = order[p].earn
    <3> HIDE DEF o
    <3> QED BY <1>1, <2>3 DEF Order
  <2>5. n = order'[o].earn
    BY <2>2, <2>4
  <2> HIDE DEF n
  <2> QED BY <1>4, <2>1, <2>2, <2>4, <2>5
<1>8. ASSUME NEW k \in Slots, NEW pc \in {"accept_save", "cancel_count", "reject_save", "profile_save"},
             At(k, pc), NEW new \in Row, SaveRow(new),
             new.earnings = slot[k].row.earnings, End(k) \/ (pc = "profile_save" /\ Goto(k, "profile_cert")),
             order' = order, start' = start, count'["complete"] = count["complete"],
             crashes' = crashes, overlap' = overlap
      PROVE  EarnInv'
  <2>1. ~overlap => stat'.earnings = stat.earnings
    BY <1>8, SavedEarnings DEF RowInv, Close, At
  <2>2. "profile_cert" \in Stages \ {"complete_save", "complete_earn"}
    BY DEF Stages
  <2> QED BY <1>2, <1>4, <1>5, <1>8, <2>1, <2>2 DEF At
<1>9. ASSUME NEW k \in Slots,
             AcceptSave(k) \/ CancelCount(k) \/ RejectSave(k) \/ \E driver \in BOOLEAN : ProfileSave(k, driver)
      PROVE  EarnInv'
  <2> DEFINE h == slot[k].row
             n == slot[k].n
  <2>1. \A kind \in Kinds \ {"complete"} : Counted(kind) => count'["complete"] = count["complete"]
    BY DEF Counted, Kinds
  <2>2. CASE AcceptSave(k)
    <3> DEFINE new == [h EXCEPT !.active = @ + 1, !.response = Most(@ + n, 1)]
    <3>1. new \in Row /\ new.earnings = h.earnings
      BY <1>2, SavedTyped DEF Row
    <3>2. SaveRow(new) /\ Counted("accept")
      BY <2>2 DEF AcceptSave
    <3> HIDE DEF new
    <3> QED BY <1>8, <2>1, <2>2, <3>1, <3>2 DEF AcceptSave, Kinds
  <2>3. CASE CancelCount(k)
    <3> DEFINE new == [h EXCEPT !.active = Most(@ - 1, 0), !.failed = @ + 1]
    <3>1. new \in Row /\ new.earnings = h.earnings
      BY <1>2, SavedTyped DEF Row
    <3>2. SaveRow(new) /\ Counted("cancel")
      BY <2>3 DEF CancelCount
    <3> HIDE DEF new
    <3> QED BY <1>8, <2>1, <2>3, <3>1, <3>2 DEF CancelCount, Kinds
  <2>4. CASE RejectSave(k)
    <3> DEFINE new == Rejected(h, n)
    <3>1. new \in Row /\ new.earnings = h.earnings
      BY <1>2, SavedTyped DEF Row, Rejected
    <3>2. SaveRow(new) /\ Counted("reject")
      BY <2>4 DEF RejectSave
    <3> HIDE DEF new
    <3> QED BY <1>8, <2>1, <2>4, <3>1, <3>2 DEF RejectSave, Kinds
  <2>5. CASE \E driver \in BOOLEAN : ProfileSave(k, driver)
    BY <1>2, <1>8, <2>5 DEF ProfileSave
  <2> QED BY <1>9, <2>2, <2>3, <2>4, <2>5
<1>10. ASSUME NEW k \in Slots, ProfileCert(k) PROVE EarnInv'
  <2>1. stat'.earnings = stat.earnings
    BY <1>10 DEF ProfileCert, Row
  <2> QED BY <1>2, <1>4, <1>10, <2>1 DEF ProfileCert, At, Stages
<1>11. ASSUME slot' = slot, start' = start, count' = count, crashes' = crashes,
              \A o \in Orders : order'[o].earn = order[o].earn, stat'.earnings = stat.earnings,
              ~overlap' => ~overlap
       PROVE  EarnInv'
  <2> SUFFICES ASSUME ~overlap', crashes' = 0 PROVE Books'
    BY DEF EarnInv
  <2>1. Books
    BY <1>11 DEF EarnInv
  <2>2. Paid' = Paid /\ EarningsOf(Orders)' = EarningsOf(Orders)
    BY <1>11, SameEarnings
  <2>3. \A k \in Slots : slot[k].pc = "complete_earn" => slot[k].o \in Orders
    BY <1>2 DEF WithOrder, Stages
  <2> QED BY <1>11, <2>1, <2>2, <2>3 DEF Books, Balanced, Saving
<1>12. CASE \/ \E o \in Orders, links \in BOOLEAN : Deliver(o, links)
            \/ \E verdict \in {"APPROVED", "REJECTED"} : Decide(verdict)
            \/ NewDay \/ UNCHANGED statsVars
  <2>1. /\ slot' = slot /\ start' = start /\ count' = count /\ crashes' = crashes
        /\ stat' = stat \/ \E c \in Cert : stat' = [stat EXCEPT !.cert = c]
    BY <1>12 DEF Deliver, Decide, NewDay, statsVars, Cert
  <2>2. stat'.earnings = stat.earnings
    BY <2>1 DEF Row
  <2>3. ~overlap' => ~overlap
    BY <1>12 DEF Deliver, Decide, NewDay, statsVars
  <2>4. \A o \in Orders : order'[o].earn = order[o].earn
    <3>1. order' = order \/ \E o \in Orders, links \in BOOLEAN : Deliver(o, links)
      BY <1>12 DEF Decide, NewDay, statsVars
    <3>2. ASSUME NEW o \in Orders, NEW links \in BOOLEAN, Deliver(o, links)
          PROVE  \A p \in Orders : order'[p].earn = order[p].earn
      BY <1>1, <3>2 DEF Deliver, Order
    <3> QED BY <3>1, <3>2
  <2> QED BY <1>11, <2>1, <2>2, <2>3, <2>4
<1>13. CASE Crash
  BY <1>13, StatsAssumption DEF Crash, EarnInv
<1>14. ASSUME NEW k \in Slots, NEW hour \in Hours, NEW onTime \in BOOLEAN,
              CompleteEarn(k, hour, onTime)
       PROVE  EarnInv'
  <2> DEFINE o == slot[k].o
             earned == Earnings(Terms[o], hour, onTime, stat.completed)
             late == IF onTime THEN 0 ELSE 1
             new == [stat EXCEPT !.onTime = @ + 1 - late, !.late = @ + late]
             next(amount) == [slot EXCEPT ![k].pc = "complete_save", ![k].n = amount, ![k].row = new]
  <2>1. /\ slot[k].pc = "complete_earn" /\ overlap' = overlap /\ stat' = stat /\ start' = start
        /\ count' = count /\ crashes' = crashes /\ o \in Orders
    BY <1>2, <1>14 DEF CompleteEarn, At, WithOrder, Stages
  <2>2. earned \in Nat /\ earned # 0
    <3>1. Terms[o] \in [fee : Nat, dist : Nat, total : Nat] /\ stat.completed \in Nat
      BY <2>1, StatsAssumption DEF Row
    <3> QED BY <3>1, EarningsTyped, EarnPositive
  <2>3. \/ slot' = next(slot[k].n) /\ slot[k].n # 0 /\ order' = order
        \/ /\ slot' = next(earned) /\ slot[k].n = 0
           /\ order' = [order EXCEPT ![o].earn = earned, ![o].st = "completed"]
        \/ End(k) /\ order' = order
    BY <1>14 DEF CompleteEarn
  <2>4. \A amount : slot' = next(amount) =>
          slot'[k].pc = "complete_save" /\ slot'[k].n = amount
          /\ \A j \in Slots \ {k} : slot'[j] = slot[j]
    BY <1>2 DEF SlotType
  <2> HIDE DEF earned, next, o
  <2>5. CASE End(k) /\ order' = order
    <3>1. "idle" \in Stages \ {"complete_save"}
      BY DEF Stages
    <3> QED BY <1>2, <1>4, <2>1, <2>5, <3>1
  <2>6. ASSUME ~overlap', crashes' = 0
        PROVE  Balanced(0, count["complete"]) /\ slot[k].n = order[o].earn
    <3>1. \A j \in Slots \ {k} : slot[j].pc = "idle"
      BY <2>1, <2>6, Ending DEF At
    <3>2. \A j \in Slots : ~Saving(j)
      BY <2>1, <3>1 DEF Saving
    <3> QED BY <2>1, <2>6, <3>2 DEF EarnInv, Books, o
  <2>7. /\ Cardinality(Paid) \in Nat /\ count["complete"] \in Nat /\ IsFiniteSet(Paid)
        /\ stat.earnings \in Nat /\ start.earnings \in Nat
    BY EarnsTyped DEF Kinds, Row
  <2>8. CASE slot' = next(slot[k].n) /\ slot[k].n # 0 /\ order' = order
    <3> SUFFICES ASSUME ~overlap', crashes' = 0 PROVE Books'
      BY DEF EarnInv
    <3>1. Paid' = Paid
      BY <2>8 DEF Paid
    <3>2. count["complete"] + 1 >= Cardinality(Paid) /\ count["complete"] + 1 # Cardinality(Paid)
      BY <2>6, <2>7 DEF Balanced
    <3>3. Balanced(slot[k].n, count["complete"] + 1)'
      BY <2>1, <3>1, <3>2 DEF Balanced
    <3>4. \A j \in Slots \ {k} : slot'[j].pc = "idle"
      BY <2>1, <2>4, <2>8, Ending DEF At
    <3> QED BY <2>4, <2>8, <3>3, <3>4 DEF Books, Saving
  <2>9. CASE /\ slot' = next(earned) /\ slot[k].n = 0
              /\ order' = [order EXCEPT ![o].earn = earned, ![o].st = "completed"]
    <3> SUFFICES ASSUME ~overlap', crashes' = 0 PROVE Books'
      BY DEF EarnInv
    <3>1. order[o].earn = 0
      BY <2>6, <2>9
    <3>2. order'[o].earn = earned /\ \A p \in Orders \ {o} : order'[p] = order[p]
      BY <1>1, <2>1, <2>9 DEF Order
    <3>3. Paid' = Paid \cup {o} /\ o \notin Paid
      BY <2>1, <2>2, <3>1, <3>2 DEF Paid
    <3>4. Cardinality(Paid') = Cardinality(Paid) + 1
      BY <2>7, <3>3, FS_AddElement
    <3>5. EarningsOf(Orders)' = EarningsOf(Orders) + earned /\ EarningsOf(Orders) \in Int
      <4> DEFINE f == [p \in Orders |-> order[p].earn]
                 g == [p \in Orders |-> order'[p].earn]
      <4>1. /\ \A p \in Orders : f[p] \in Int /\ g[p] \in Int
            /\ \A p \in Orders \ {o} : f[p] = g[p]
            /\ f[o] = 0 /\ g[o] = earned
        BY <2>1, <2>2, <3>1, <3>2, EarnsTyped
      <4>2. EarningsOf(Orders) = SumFunctionOnSet(f, Orders)
            /\ EarningsOf(Orders)' = SumFunctionOnSet(g, Orders)
        BY DEF EarningsOf
      <4> HIDE DEF f, g
      <4>3. SumFunctionOnSet(f, Orders) \in Int
        BY <4>1, StatsAssumption, SumInt
      <4>4. SumFunctionOnSet(g, Orders) = SumFunctionOnSet(f, Orders) + g[o] - f[o]
        BY <2>1, <4>1, StatsAssumption, SumChange
      <4> QED BY <2>2, <4>1, <4>2, <4>3, <4>4
    <3>6. /\ count["complete"] >= Cardinality(Paid)
          /\ count["complete"] = Cardinality(Paid)
               => stat.earnings + 0 - start.earnings = EarningsOf(Orders)
      BY <2>6 DEF Balanced
    <3>7. /\ count["complete"] + 1 >= Cardinality(Paid')
          /\ count["complete"] + 1 = Cardinality(Paid')
               => stat.earnings + earned - start.earnings = EarningsOf(Orders)'
      <4>1. ASSUME count["complete"] + 1 = Cardinality(Paid')
            PROVE  stat.earnings + earned - start.earnings = EarningsOf(Orders)'
        BY <2>2, <2>7, <3>4, <3>5, <3>6, <4>1
      <4> QED BY <2>7, <3>4, <3>6, <4>1
    <3>8. Balanced(slot[k].n, count["complete"] + 1)'
      <4>1. slot'[k].n = earned
        BY <2>4, <2>9
      <4> QED BY <2>1, <3>7, <4>1 DEF Balanced
    <3>9. \A j \in Slots \ {k} : slot'[j].pc = "idle"
      BY <2>1, <2>4, <2>9, Ending DEF At
    <3> QED BY <2>4, <2>9, <3>8, <3>9 DEF Books, Saving
  <2> QED BY <2>3, <2>5, <2>8, <2>9
<1>15. ASSUME NEW k \in Slots, CompleteSave(k) PROVE EarnInv'
  <2> SUFFICES ASSUME ~overlap', crashes' = 0 PROVE Books'
    BY DEF EarnInv
  <2> DEFINE h == slot[k].row
             n == slot[k].n
             new == [h EXCEPT !.completed = @ + 1, !.active = Most(@ - 1, 0),
                              !.earnings = @ + n, !.daily = @ + n]
  <2>1. /\ slot[k].pc = "complete_save" /\ ~overlap /\ crashes = 0 /\ End(k) /\ start' = start
        /\ order' = order /\ SaveRow(new) /\ Counted("complete")
    BY <1>15 DEF CompleteSave, At
  <2>2. new \in Row /\ new.earnings = h.earnings + n /\ h.earnings = stat.earnings
    BY <1>2, <2>1, SavedTyped DEF Row, RowInv, Close
  <2> HIDE DEF new
  <2>3. stat'.earnings = stat.earnings + n
    BY <2>1, <2>2, SavedEarnings
  <2>4. count'["complete"] = count["complete"] + 1
    BY <2>1 DEF Counted, Kinds
  <2>5. Balanced(n, count["complete"] + 1)
    BY <2>1 DEF EarnInv, Books, Saving
  <2>6. Paid' = Paid /\ EarningsOf(Orders)' = EarningsOf(Orders)
    BY <2>1, SameEarnings
  <2>7. Balanced(0, count["complete"])'
    <3>1. stat'.earnings + 0 - start'.earnings = stat.earnings + n - start.earnings
      <4>1. stat.earnings \in Nat /\ start.earnings \in Nat /\ n \in Nat
        BY <1>2 DEF Row
      <4> QED BY <2>1, <2>3, <4>1
    <3> QED BY <2>4, <2>5, <2>6, <3>1 DEF Balanced
  <2>8. \A j \in Slots : slot'[j].pc = "idle"
    BY <2>1, IdleTyped, Ending DEF End, At
  <2> QED BY <2>7, <2>8 DEF Books, Saving
<1> QED BY <1>3, <1>6, <1>7, <1>9, <1>10, <1>12, <1>13, <1>14, <1>15 DEF StatsNext, Continue

\* What the report of the month adds up, day by day, are the earnings of all
\* orders.
LEMMA ReportAddsUp ==
  ASSUME TypeInv, DetailInv
  PROVE  IncomeReport("month") = EarningsOf(Orders)
<1> DEFINE f == [o \in Orders |-> order[o].earn]
           h == [o \in Orders |-> order[o].done]
           D == {o \in Orders : order[o].detail = "completed"}
           g == [d \in 0..day |-> DayEarnings(d)]
           K == 0..day
<1>1. /\ D \in SUBSET Orders /\ IsFiniteSet(D) /\ IsFiniteSet(K)
      /\ \A o \in Orders : f[o] \in Int
      /\ \A o \in Orders \ D : f[o] = 0
      /\ \A o \in D : h[o] \in K
  <2>1. D \in SUBSET Orders /\ day \in Nat
    BY Types, StatsAssumption
  <2>2. IsFiniteSet(D) /\ IsFiniteSet(K)
    <3> HIDE DEF D
    <3> QED BY <2>1, StatsAssumption, FS_Subset, FS_Interval
  <2>3. \A o \in Orders \ D : f[o] = 0
    BY DEF DetailInv
  <2>4. \A o \in D : h[o] \in K
    BY <2>1, EarnsTyped DEF DetailInv
  <2> QED BY <2>1, <2>2, <2>3, <2>4, EarnsTyped
<1>2. \A k \in K : g[k] = SumFunctionOnSet(f, {o \in D : h[o] = k})
  <2> TAKE k \in K
  <2>1. {o \in Orders : order[o].detail = "completed" /\ order[o].done = k} = {o \in D : h[o] = k}
    OBVIOUS
  <2> QED BY <2>1 DEF DayEarnings, EarningsOf
<1>3. IncomeReport("month") = SumFunctionOnSet(g, K)
  BY DEF IncomeReport, ReportFrom
<1>4. EarningsOf(Orders) = SumFunctionOnSet(f, Orders)
  BY DEF EarningsOf
<1> HIDE DEF f, g, h, D, K
<1>5. SumFunctionOnSet(g, K) = SumFunctionOnSet(f, {o \in D : h[o] \in K})
  <2>1. \A o \in D : f[o] \in Int
    BY <1>1
  <2> QED BY <1>1, <1>2, <2>1, SumGroups
<1>6. {o \in D : h[o] \in K} = D
  BY <1>1
<1>7. SumFunctionOnSet(f, Orders) = SumFunctionOnSet(f, D)
  BY <1>1, StatsAssumption, SumWithout
<1> QED BY <1>3, <1>4, <1>5, <1>6, <1>7

\* The total in the shipper's row is what his income report adds up from the
\* orders, day by day, when no handlers overlapped, none was cut off and every
\* order was completed once (EarningsMatchReport): for any number of orders,
\* deliveries and days.
THEOREM EarningsCorrect == StatsSpec => []EarningsMatchReport
<1> DEFINE All == Inv /\ RowInv /\ DetailInv /\ EarnInv
<1>1. StatsInit => All
  BY TypeInit, CountInit, RowInit, EarnInit DEF Inv
<1>2. All /\ [StatsNext]_statsVars => All'
  BY TypeNext, CountNext, RowNext, DetailNext, EarnNext DEF Inv
<1>3. All => EarningsMatchReport
  <2> SUFFICES ASSUME All, Quiet, ~overlap, crashes = 0,
                      count["complete"] = Cardinality({o \in Orders : order[o].earn # 0})
               PROVE  stat.earnings - start.earnings = IncomeReport("month")
    BY DEF EarningsMatchReport
  <2>1. Balanced(0, count["complete"])
    BY DEF EarnInv, Books, Quiet, At, Saving
  <2>2. stat.earnings + 0 - start.earnings = EarningsOf(Orders)
    BY <2>1 DEF Balanced, Paid
  <2>3. stat.earnings \in Nat /\ start.earnings \in Nat
    BY Types DEF Inv, Row
  <2> QED BY <2>2, <2>3, ReportAddsUp DEF Inv
<1> QED BY <1>1, <1>2, <1>3, PTL DEF StatsSpec
=============================================================================

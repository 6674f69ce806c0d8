----------------------------- MODULE ShipperPool -----------------------------
(***************************************************************************)
(* ActiveShipperTracker: the shippers who may be offered an order.  A      *)
(* subscription to orderConfirmedForShippers reads the shipper's row,      *)
(* judges it, enters him in a Map in memory together with the row as it    *)
(* was read, and saves that row.  Only a cleanup, every Window ticks or on *)
(* request, takes entries out.  The dispatch and a query walk the same Map,*)
(* every service of the dispatch with a list of notified shippers of its   *)
(* own.                                                                    *)
(*                                                                         *)
(* One restaurant and one order: a place is its distance from there.       *)
(***************************************************************************)
EXTENDS Integers

CONSTANTS Shippers,
          Calls,      \* subscriptions that may be in progress at once
          Services,   \* instances of PendingAssignmentService (see Dispatch)
          Places,     \* distances a shipper may report
          Reach,      \* maxDistance, within max_delivery_distance
          Scores,     \* what the score of an eligible shipper may be
          Bonus,      \* recentActivityBonus
          RushHours,  \* the moments at which getHours is of a rush hour
          Rush,       \* rushHourBonus
          Extras,     \* what the parameters of a query add to every score:
                      \* urgencyBonus and valueBonus
          NaN,        \* the sum with an urgency the table does not have
          MaxActive,  \* max_active_deliveries
          Window,     \* the five minutes of the interval and of the cleanup
          MaxTime,    \* bound: the last moment
          MaxEvents,  \* bound: how often something comes from outside: a
                      \* subscription, another handler's write, a query, a
                      \* cleanup on request, an order assigned, a restart
          None

ASSUME PoolAssumption ==
    /\ None \notin Shippers /\ Places \subseteq Nat /\ Scores \subseteq Nat
    /\ Rush \in Nat /\ NaN \notin Int /\ Extras \subseteq Int \cup {NaN}
    /\ Reach \in Nat /\ Bonus \in Nat /\ MaxTime \in Nat /\ MaxEvents \in Nat
    /\ MaxActive \in Nat \ {0} /\ Window \in Nat \ {0}

VARIABLES
    now, timer,  \* the time, and how long until the interval fires
    row,         \* the shippers' rows: certificate approved, activeDeliveries
    pool,        \* activeShippers, None for a shipper who is not in it
    keys,        \* how many keys the Map has been given
    call,        \* the subscriptions being set up
    sweep,       \* the cleanups in progress
    query,       \* the findBestShipperForLocation in progress
    notified,    \* shippers a service has offered the order
    last,        \* history: distance of its last offer since an entry was set
    fitAt,       \* history: when the row, or a copy in a call, was last eligible
    load,        \* history: deliveries taken and not finished
    overlapped,  \* history: load changed while a copy of the row was held
    events

map == <<pool, keys>>
rows == <<row, fitAt>>
offers == <<notified, last>>
history == <<load, overlapped>>
clock == <<now, timer>>
poolVars == <<clock, rows, map, call, sweep, query, offers, history, events>>

ShipperRow == [cert : BOOLEAN, active : 0..MaxActive]

\* An entry and its place in the order in which the Map is walked.
Entry == [pos : Nat, dist : Places, seen : 0..MaxTime, score : Scores,
          user : ShipperRow]

ASSUME NoneAssumption == None \notin Entry

Call == [pc : {"idle", "check", "score", "save"}, s : Shippers \cup {None},
         dist : Places \cup {0}, user : ShipperRow]
Sweepers == {"interval", "request"}
Sweep == [pc : {"idle", "read", "save"}, before : Int, at : Nat,
          s : Shippers \cup {None}, user : ShipperRow]

\* extra: what its parameters add; at: how far the walk is; e: the entry being
\* judged; best: the best shipper so far and his score; first: history, whose
\* entry was there at the beginning and is unchanged; calm: history, a moment
\* of the walk was in no rush hour.
Query == [pc : {"idle", "start", "judge"}, extra : Extras \cup {0}, at : Nat,
          s : Shippers \cup {None}, e : Entry \cup {None},
          best : Shippers \cup {None}, score : Nat \cup {NaN},
          first : SUBSET Shippers, calm : BOOLEAN]

NoRow == [cert |-> FALSE, active |-> 0]
NoCall == [pc |-> "idle", s |-> None, dist |-> 0, user |-> NoRow]
NoSweep == [pc |-> "idle", before |-> 0, at |-> 0, s |-> None, user |-> NoRow]
NoQuery == [pc |-> "idle", extra |-> 0, at |-> 0, s |-> None, e |-> None,
            best |-> None, score |-> 0, first |-> {}, calm |-> FALSE]

In == {s \in Shippers : pool[s] # None}

PoolTypeOK ==
    /\ now \in 0..MaxTime /\ timer \in 0..Window
    /\ row \in [Shippers -> ShipperRow] /\ fitAt \in [Shippers -> 0..MaxTime]
    /\ pool \in [Shippers -> Entry \cup {None}] /\ keys \in Nat
    /\ call \in [Calls -> Call] /\ sweep \in [Sweepers -> Sweep] /\ query \in Query
    /\ notified \in [Services -> SUBSET Shippers]
    /\ last \in [Services -> Places \cup {0}]
    /\ load \in [Shippers -> 0..MaxActive]
    /\ overlapped \in [Shippers -> BOOLEAN]
    /\ events \in 0..MaxEvents
    /\ \A s \in In : pool[s].pos <= keys
    /\ \A s, t \in In : pool[s].pos = pool[t].pos => s = t

\* isShipperEligible, by what the handlers here and of ShipperStats change:
\* active stands for the counters, which are columns of the shipper's row.
Eligible(user) == user.cert /\ user.active < MaxActive

NobodyNotified == [w \in Services |-> {}]
NoLast == [w \in Services |-> 0]

PoolInit ==
    /\ now = 0 /\ timer = Window
    /\ row = [s \in Shippers |-> [cert |-> TRUE, active |-> 0]]
    /\ fitAt = [s \in Shippers |-> 0]
    /\ pool = [s \in Shippers |-> None] /\ keys = 0
    /\ call = [c \in Calls |-> NoCall]
    /\ sweep = [w \in Sweepers |-> NoSweep] /\ query = NoQuery
    /\ notified = NobodyNotified /\ last = NoLast
    /\ load = [s \in Shippers |-> 0] /\ overlapped = [s \in Shippers |-> FALSE]
    /\ events = 0

-----------------------------------------------------------------------------
Event == events < MaxEvents /\ events' = events + 1

\* A row is written; the certificate is a row of its own.
Put(s, user) ==
    /\ row' = [row EXCEPT ![s] = user]
    /\ fitAt' = [fitAt EXCEPT ![s] = IF Eligible(user) THEN now ELSE @]

\* userRepository.save of the row read before.  It may fail: both callers log it.
SaveShipper(s, user) ==
    \/ Put(s, [row[s] EXCEPT !.active = user.active])
    \/ UNCHANGED rows

\* Somebody holds a copy of the row of s that he will save.
Held(s) ==
    \/ \E c \in Calls : call[c].pc # "idle" /\ call[c].s = s
    \/ \E w \in Sweepers : sweep[w].pc = "save" /\ sweep[w].s = s

\* The other handlers: a delivery is taken or finished, the certificate is
\* approved or (by a ban, or an administrator) not.
Deliveries(s, n) ==
    /\ Event
    /\ row[s].active + n \in 0..MaxActive /\ load[s] + n \in 0..MaxActive
    /\ Put(s, [row[s] EXCEPT !.active = @ + n])
    /\ load' = [load EXCEPT ![s] = @ + n]
    /\ overlapped' = [overlapped EXCEPT ![s] = @ \/ Held(s)]
    /\ UNCHANGED <<clock, map, call, sweep, query, offers>>

Judge(s) ==
    /\ Event
    /\ Put(s, [row[s] EXCEPT !.cert = ~@])
    /\ UNCHANGED <<clock, map, call, sweep, query, offers, history>>

-----------------------------------------------------------------------------
(* addShipper, called by the subscription.                                 *)

PoolSet_Uncounted(s, e) ==   \* a mutant
    pool' = [pool EXCEPT ![s] = e] /\ UNCHANGED keys

\* Map.set: a key that is there keeps its place, a new one is walked last.
PoolSet(s, e) ==
    IF s \in In
      THEN pool' = [pool EXCEPT ![s] = [e EXCEPT !.pos = pool[s].pos]] /\ UNCHANGED keys
      ELSE pool' = [pool EXCEPT ![s] = e] /\ keys' = e.pos

\* The parameters are numbers; the row is read.
Subscribe(c, s, d) ==
    /\ call[c].pc = "idle" /\ Event
    /\ call' = [call EXCEPT ![c] = [pc |-> "check", s |-> s, dist |-> d, user |-> row[s]]]
    /\ UNCHANGED <<clock, rows, map, sweep, query, offers, history>>

\* Not eligible: the subscription is rejected.
CheckEligible(c) ==
    /\ call[c].pc = "check"
    /\ call' = [call EXCEPT ![c] = IF Eligible(call[c].user)
                                     THEN [@ EXCEPT !.pc = "score"] ELSE NoCall]
    /\ UNCHANGED <<clock, rows, map, sweep, query, offers, history, events>>

\* calculateEnhancedScore has read the reviews; the entry is set.
Enter(c, score) ==
    LET s == call[c].s IN
    /\ call[c].pc = "score"
    /\ PoolSet(s, [pos |-> keys + 1, dist |-> call[c].dist, seen |-> now,
                   score |-> score, user |-> call[c].user])
    /\ call' = [call EXCEPT ![c].pc = "save"]
    /\ query' = [query EXCEPT !.first = @ \ {s}]
    /\ last' = NoLast
    /\ UNCHANGED <<clock, rows, sweep, notified, history, events>>

\* lastActiveAt is saved with the rest of the row.  No order waits in
\* shipperQueue, so processPendingAssignmentsForShipper does nothing; the
\* subscription opens.  When the client leaves nobody tells the tracker.
EnterSave(c) ==
    /\ call[c].pc = "save"
    /\ SaveShipper(call[c].s, call[c].user)
    /\ call' = [call EXCEPT ![c] = NoCall]
    /\ UNCHANGED <<clock, map, sweep, query, offers, history, events>>

-----------------------------------------------------------------------------
(* cleanup: a walk of the Map sees the entries as they are when it gets to *)
(* them, also those set after it began.                                    *)

RemoveShipper_EntrysRow(w, before, s) ==   \* a mutant
    /\ pool' = [pool EXCEPT ![s] = None]
    /\ sweep' = [sweep EXCEPT ![w] = [pc |-> "save", before |-> before, at |-> pool[s].pos,
                                      s |-> s, user |-> pool[s].user]]
    /\ query' = [query EXCEPT !.first = @ \ {s}]

\* removeShipper up to its await: the entry goes, and w waits for the row.
RemoveShipper(w, before, s) ==
    /\ pool' = [pool EXCEPT ![s] = None]
    /\ sweep' = [sweep EXCEPT ![w] = [pc |-> "read", before |-> before, at |-> pool[s].pos,
                                      s |-> s, user |-> NoRow]]
    /\ query' = [query EXCEPT !.first = @ \ {s}]

\* From where it is, the walk goes on to the next entry not seen for long.
Walk(w, before, at) ==
    LET stale == {s \in In : pool[s].pos > at /\ pool[s].seen < before}
    IN \/ stale = {} /\ sweep' = [sweep EXCEPT ![w] = NoSweep] /\ UNCHANGED <<pool, query>>
       \/ \E s \in stale : /\ \A t \in stale : pool[s].pos <= pool[t].pos
                           /\ RemoveShipper(w, before, s)

\* Every Window ticks.
IntervalCleanup ==
    /\ timer = 0 /\ timer' = Window
    /\ Walk("interval", now - Window, 0)
    /\ UNCHANGED <<now, rows, keys, call, offers, history, events>>

\* triggerShipperCleanup.
RequestCleanup ==
    /\ sweep["request"].pc = "idle" /\ Event
    /\ Walk("request", now - Window, 0)
    /\ UNCHANGED <<clock, rows, keys, call, offers, history>>

RemoveRead(w) ==
    /\ sweep[w].pc = "read"
    /\ sweep' = [sweep EXCEPT ![w].pc = "save", ![w].user = row[sweep[w].s]]
    /\ UNCHANGED <<clock, rows, map, call, query, offers, history, events>>

RemoveSave_Returns(w) ==   \* a mutant
    /\ sweep[w].pc = "save"
    /\ SaveShipper(sweep[w].s, sweep[w].user)
    /\ sweep' = [sweep EXCEPT ![w] = NoSweep]
    /\ UNCHANGED <<clock, map, query, call, offers, history, events>>

RemoveSave(w) ==
    /\ sweep[w].pc = "save"
    /\ SaveShipper(sweep[w].s, sweep[w].user)
    /\ Walk(w, sweep[w].before, sweep[w].at)
    /\ UNCHANGED <<clock, keys, call, offers, history, events>>

-----------------------------------------------------------------------------
(* findBestShipperForOrder.                                                *)

\* The score at the time of judging.  An unknown urgency gives undefined, and
\* every score that is not a number.
Worth(e, time, extra) ==
    LET score == e.score - e.dist + extra
                   + (IF e.seen > time - Window THEN Bonus ELSE 0)
                   + (IF time \in RushHours THEN Rush ELSE 0)
    IN IF extra = NaN THEN NaN ELSE IF score > 0 THEN score ELSE 0

QueryStart(extra) ==
    /\ query.pc = "idle" /\ Event
    /\ query' = [NoQuery EXCEPT !.pc = "start", !.extra = extra, !.first = In,
                                !.calm = now \notin RushHours]
    /\ UNCHANGED <<clock, rows, map, call, sweep, offers, history>>

\* To the next entry in reach, whose eligibility is awaited, or to the end.
QueryGo(best, score) ==
    LET rest == {s \in In : pool[s].pos > query.at /\ pool[s].dist <= Reach}
    IN \/ rest = {} /\ query' = NoQuery
       \/ \E s \in rest :
            /\ \A t \in rest : pool[s].pos <= pool[t].pos
            /\ query' = [query EXCEPT !.pc = "judge", !.at = pool[s].pos, !.s = s,
                                      !.e = pool[s], !.best = best, !.score = score]

Score == Worth(query.e, now, query.extra)

Better_Ascending ==   \* a mutant
    /\ Eligible(query.e.user)
    /\ query.best = None \/ (query.extra # NaN /\ Score < query.score)

\* The entry that was judged has the highest score so far; of equal ones, and
\* of those that cannot be compared, the sort keeps the first.
Better ==
    /\ Eligible(query.e.user)
    /\ query.best = None \/ (query.extra # NaN /\ Score > query.score)

QueryStep ==
    /\ \/ query.pc = "start" /\ QueryGo(None, 0)
       \/ query.pc = "judge" /\ Better /\ QueryGo(query.s, Score)
       \/ query.pc = "judge" /\ ~Better /\ QueryGo(query.best, query.score)
    /\ UNCHANGED <<clock, rows, map, call, sweep, offers, history, events>>

-----------------------------------------------------------------------------
(* The dispatch: findNearestAvailableShipper, and the order is published.  *)
Free(w) == {s \in In \ notified[w] : pool[s].dist <= Reach}

Nearest_FirstKey(w, s) == \A t \in Free(w) : pool[s].pos <= pool[t].pos   \* a mutant

\* Of equally near ones the first in the Map.
Nearest(w, s) ==
    \A t \in Free(w) : \/ pool[s].dist < pool[t].dist
                       \/ pool[s].dist = pool[t].dist /\ pool[s].pos <= pool[t].pos

\* A service marks him whether or not his client is still there to get the
\* order, or has got it from another service.
Offer(w) ==
    \E s \in Free(w) :
        /\ Nearest(w, s)
        /\ notified' = [notified EXCEPT ![w] = @ \cup {s}]
        /\ last' = [last EXCEPT ![w] = pool[s].dist]
        /\ UNCHANGED <<clock, rows, map, call, sweep, query, history, events>>

\* clearOrder.
ClearOrder(w) ==
    /\ Event
    /\ notified' = [notified EXCEPT ![w] = {}]
    /\ last' = [last EXCEPT ![w] = 0]
    /\ UNCHANGED <<clock, rows, map, call, sweep, query, history>>

-----------------------------------------------------------------------------
\* A cleanup of the interval is through before the clock moves on.
Tick ==
    /\ timer > 0 /\ sweep["interval"].pc = "idle" /\ now < MaxTime
    /\ now' = now + 1 /\ timer' = timer - 1
    /\ fitAt' = [s \in Shippers |->
                   IF \/ Eligible(row[s])
                      \/ \E c \in Calls : /\ call[c].pc \in {"check", "score"}
                                          /\ call[c].s = s /\ Eligible(call[c].user)
                     THEN now + 1 ELSE fitAt[s]]
    /\ query' = [query EXCEPT !.calm = query.pc # "idle" /\ (@ \/ now' \notin RushHours)]
    /\ UNCHANGED <<row, map, call, sweep, offers, history, events>>

Restart ==
    /\ Event
    /\ timer' = Window
    /\ pool' = [s \in Shippers |-> None] /\ keys' = 0
    /\ call' = [c \in Calls |-> NoCall]
    /\ sweep' = [w \in Sweepers |-> NoSweep] /\ query' = NoQuery
    /\ notified' = NobodyNotified /\ last' = NoLast
    /\ UNCHANGED <<now, rows, history>>

PoolNext ==
    \/ \E s \in Shippers : Judge(s) \/ \E n \in {-1, 1} : Deliveries(s, n)
    \/ \E c \in Calls : \/ \E s \in Shippers, d \in Places : Subscribe(c, s, d)
                        \/ CheckEligible(c) \/ EnterSave(c)
                        \/ \E score \in Scores : Enter(c, score)
    \/ IntervalCleanup \/ RequestCleanup
    \/ \E w \in Sweepers : RemoveRead(w) \/ RemoveSave(w)
    \/ (\E extra \in Extras : QueryStart(extra)) \/ QueryStep
    \/ \E w \in Services : Offer(w) \/ ClearOrder(w)
    \/ Tick \/ Restart

PoolSpec == PoolInit /\ [][PoolNext]_poolVars

-----------------------------------------------------------------------------
\* Eligibility is judged only when a shipper subscribes; what takes the others
\* out is the cleanup.  Whoever is in the pool was eligible, in the database or
\* in the copy a subscription was judging, at most two windows ago: a banned or
\* full shipper is offered no order after that.
NobodyUnfitStays == \A s \in In : now - fitAt[s] <= 2 * Window

\* addShipper and removeShipper write lastActiveAt with the whole row: the
\* count of active deliveries is still that of the deliveries, unless one was
\* taken or finished while the tracker held a copy of the row.
ActiveCounts == \A s \in Shippers : overlapped[s] \/ row[s].active = load[s]

\* findNearestAvailableShipper: as long as no entry is set, the shippers a
\* service offers an order to one after the other are ever farther away, whoever
\* leaves the pool, and whatever the other service offers, in between.
OffersOutward ==
    [][\A w \in Services : notified'[w] \subseteq notified[w] \/ last'[w] >= last[w]]_poolVars

\* s has nothing on the best shipper: he was worth no more than the score the
\* best was given when he was judged, but for the bonus of a rush hour that has
\* begun since the walk did; when the scores are no numbers, he comes later in
\* the Map.
NoBetter(s, best, score) ==
    /\ best # None
    /\ IF query.extra = NaN
         THEN best \in query.first => pool[best].pos <= pool[s].pos
         ELSE Worth(pool[s], now, query.extra)
                <= score + (IF query.calm /\ now \in RushHours THEN Rush ELSE 0)

\* findBestShipperForOrder walks the Map with an await at each entry, while the
\* clock and the Map go on: nobody in reach who was in the pool unchanged from
\* the beginning to the end of the walk has anything on the shipper it returns.
BestThroughout ==
    [][(query.pc = "judge" /\ query'.pc = "idle" /\ pool' = pool) =>
         \A s \in query.first : pool[s].dist <= Reach =>
            IF Better THEN NoBetter(s, query.s, Score)
                      ELSE NoBetter(s, query.best, query.score)]_poolVars
=============================================================================

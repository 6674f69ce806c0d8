----------------------------- MODULE RolesProofs -----------------------------
(***************************************************************************)
(* Accounts and roles for any number of handlers, accounts, requests and   *)
(* permissions: what a save of a row or of a list that was read earlier    *)
(* may change.                                                             *)
(***************************************************************************)
EXTENDS Roles, TLAPS

(* The handlers in progress, by what they hold. *)
Registering == [pc : {"register"}, key : Emails, call : Numbers, clean : BOOLEAN]
Googling ==
    [pc : {"google"}, key : Numbers, call : Numbers, clean : BOOLEAN, email : Emails,
     google : Googles]
Linking == [pc : {"link"}, key : Ids, call : Numbers, clean : BOOLEAN, google : Googles]
Holds ==
    [pc : {"save", "reset", "delete places", "insert places"}, key : Ids, call : Numbers,
     clean : BOOLEAN, row : Account]
Driving ==
    [pc : {"driver", "certificate"}, key : Numbers, call : Numbers, clean : BOOLEAN,
     username : UserNames]
Detailing == [pc : {"details"}, key : Roles, call : Numbers, clean : BOOLEAN]
Enlisting ==
    [pc : {"members"}, how : {"add", "assign", "remove"}, key : Roles, call : Numbers,
     clean : BOOLEAN, list : SUBSET Ids, named : SUBSET Ids]
Permitting ==
    [pc : {"permit", "find", "create"}, how : {"add", "remove", "update"}, key : Roles,
     call : Numbers, clean : BOOLEAN, names : SUBSET Names, missing : SUBSET Names,
     list : SUBSET Nat]

OnAccount == Registering \cup Googling \cup Linking \cup Holds \cup Driving
OnRole == Detailing \cup Enlisting \cup Permitting
Handling == OnAccount \cup OnRole

Tables ==
    /\ user \in [Ids -> Account \cup {None}] /\ roles \subseteq Roles
    /\ calls \in Numbers /\ now \in 0..MaxTime
    /\ name \in Seq(Names) /\ perms \in [Roles -> SUBSET DOMAIN name]

Held == slot \in [Slots -> {Idle} \cup Handling]

\* What no handler of this module reads.
Aside ==
    /\ cert \in [Ids -> Certificates \cup {None}] /\ otp \in [Phones -> Numbers \cup {None}]
    /\ set \in [Ids -> Numbers \cup {None}]

Types == Tables /\ Held /\ Aside

-----------------------------------------------------------------------------
(***************************************************************************)
(* The fields of a handler.                                                *)
(***************************************************************************)
LEMMA Nones ==
    /\ None \notin Account /\ None \notin Roles /\ None \notin Numbers /\ None \notin Slots
    /\ None \notin Emails /\ None \notin Certificates /\ Emails \cap Numbers = {}
    /\ Emails \subseteq UserNames /\ Phones \subseteq UserNames /\ MaxCalls \in Nat /\ MaxTime \in Nat /\ LinkLife \in Nat
  BY AccountsAssumption DEF UserNames

LEMMA Fields ==
    /\ \A h \in OnAccount : h.pc \notin RoleSteps /\ h.pc # "idle" /\ h.key \in Ids
                            /\ h.call \in Numbers /\ h.clean \in BOOLEAN
    /\ \A h \in OnRole : h.pc \in RoleSteps /\ h.pc # "idle" /\ h.key \in Roles
                         /\ h.call \in Numbers /\ h.clean \in BOOLEAN
    /\ Idle.pc = "idle" /\ Idle \notin Handling
<1>1. \A h \in OnAccount : h.pc \notin RoleSteps /\ h.pc # "idle" /\ h.key \in Ids
                            /\ h.call \in Numbers /\ h.clean \in BOOLEAN
  <2>1. \A h \in Registering \cup Googling : h.pc \notin RoleSteps /\ h.pc # "idle" /\ h.key \in Ids
                            /\ h.call \in Numbers /\ h.clean \in BOOLEAN
    BY DEF Registering, Googling, RoleSteps, Ids
  <2>2. \A h \in Linking \cup Holds : h.pc \notin RoleSteps /\ h.pc # "idle" /\ h.key \in Ids
                            /\ h.call \in Numbers /\ h.clean \in BOOLEAN
    BY DEF Linking, Holds, RoleSteps
  <2>3. \A h \in Driving : h.pc \notin RoleSteps /\ h.pc # "idle" /\ h.key \in Ids
                            /\ h.call \in Numbers /\ h.clean \in BOOLEAN
    BY DEF Driving, RoleSteps, Ids
  <2> QED BY <2>1, <2>2, <2>3 DEF OnAccount
<1>2. \A h \in OnRole : h.pc \in RoleSteps /\ h.pc # "idle" /\ h.key \in Roles
                         /\ h.call \in Numbers /\ h.clean \in BOOLEAN
  BY DEF OnRole, Detailing, Enlisting, Permitting, RoleSteps
<1>3. Idle.pc = "idle"
  BY DEF Idle
<1> QED BY <1>1, <1>2, <1>3 DEF Handling

\* Which handlers are at a step.
LEMMA Steps ==
  ASSUME NEW h \in {Idle} \cup Handling
  PROVE  /\ h.pc = "idle" <=> h = Idle
         /\ h.pc = "register" => h \in Registering
         /\ h.pc = "google" => h \in Googling
         /\ h.pc = "link" => h \in Linking
         /\ h.pc \in {"save", "reset", "delete places", "insert places"} => h \in Holds
         /\ h.pc \in {"driver", "certificate"} => h \in Driving
         /\ h.pc = "details" => h \in Detailing
         /\ h.pc = "members" => h \in Enlisting
         /\ h.pc \in {"permit", "find", "create"} => h \in Permitting
<1>1. h = Idle => h.pc = "idle"
  BY Fields
<1>2. h \in Registering => h.pc = "register"
  BY DEF Registering
<1>3. h \in Googling => h.pc = "google"
  BY DEF Googling
<1>4. h \in Linking => h.pc = "link"
  BY DEF Linking
<1>5. h \in Holds => h.pc \in {"save", "reset", "delete places", "insert places"}
  BY DEF Holds
<1>6. h \in Driving => h.pc \in {"driver", "certificate"}
  BY DEF Driving
<1>7. h \in Detailing => h.pc = "details"
  BY DEF Detailing
<1>8. h \in Enlisting => h.pc = "members"
  BY DEF Enlisting
<1>9. h \in Permitting => h.pc \in {"permit", "find", "create"}
  BY DEF Permitting
<1> QED BY <1>1, <1>2, <1>3, <1>4, <1>5, <1>6, <1>7, <1>8, <1>9 DEF Handling, OnAccount, OnRole

\* A handler that is overtaken, and has all else as before.
Late(h) == [h EXCEPT !.clean = FALSE]

LEMMA LateFields ==
  ASSUME NEW h \in Handling
  PROVE  /\ Late(h) \in Handling /\ Late(h).pc = h.pc /\ Late(h).key = h.key
         /\ Late(h).call = h.call /\ Late(h).clean = FALSE
         /\ h \in Holds => Late(h).row = h.row
         /\ h \in Driving => Late(h).username = h.username
         /\ h \in Enlisting => Late(h).list = h.list /\ Late(h).named = h.named /\ Late(h).how = h.how
         /\ h \in Permitting => /\ Late(h).list = h.list /\ Late(h).names = h.names
                                /\ Late(h).how = h.how /\ Late(h).missing = h.missing
<1> DEFINE AsBefore == Late(h).pc = h.pc /\ Late(h).key = h.key /\ Late(h).call = h.call
                   /\ Late(h).clean = FALSE
<1>1. CASE h \in Registering
  <2>1. Late(h) \in Registering /\ AsBefore
    BY <1>1 DEF Late, Registering
  <2> QED
    BY <1>1, <2>1, Steps DEF Handling, OnAccount, Registering, Holds, Driving, Enlisting, Permitting
<1>2. CASE h \in Googling
  <2>1. Late(h) \in Googling /\ AsBefore
    BY <1>2 DEF Late, Googling
  <2> QED BY <2>1, <1>2 DEF Handling, OnAccount, Googling, Holds, Driving, Enlisting, Permitting
<1>3. CASE h \in Linking
  <2>1. Late(h) \in Linking /\ AsBefore
    BY <1>3 DEF Late, Linking
  <2> QED BY <2>1, <1>3 DEF Handling, OnAccount, Linking, Holds, Driving, Enlisting, Permitting
<1>4. CASE h \in Holds
  <2>1. Late(h) \in Holds /\ AsBefore /\ Late(h).row = h.row
    BY <1>4 DEF Late, Holds
  <2> QED BY <2>1, <1>4 DEF Handling, OnAccount, Holds, Driving, Enlisting, Permitting
<1>5. CASE h \in Driving
  <2>1. Late(h) \in Driving /\ AsBefore /\ Late(h).username = h.username
    BY <1>5 DEF Late, Driving
  <2> QED BY <2>1, <1>5 DEF Handling, OnAccount, Holds, Driving, Enlisting, Permitting
<1>6. CASE h \in Detailing
  <2>1. Late(h) \in Detailing /\ AsBefore
    BY <1>6 DEF Late, Detailing
  <2> QED BY <2>1, <1>6 DEF Handling, OnRole, Detailing, Holds, Driving, Enlisting, Permitting
<1>7. CASE h \in Enlisting
  <2>1. /\ Late(h) \in Enlisting /\ AsBefore
        /\ Late(h).list = h.list /\ Late(h).named = h.named /\ Late(h).how = h.how
    BY <1>7 DEF Late, Enlisting
  <2> QED BY <2>1, <1>7 DEF Handling, OnRole, Holds, Driving, Enlisting, Permitting
<1>8. CASE h \in Permitting
  <2>1. /\ Late(h) \in Permitting /\ AsBefore
        /\ Late(h).list = h.list /\ Late(h).names = h.names
        /\ Late(h).how = h.how /\ Late(h).missing = h.missing
    BY <1>8 DEF Late, Permitting
  <2> QED BY <2>1, <1>8 DEF Handling, OnRole, Holds, Driving, Enlisting, Permitting
<1> QED BY <1>1, <1>2, <1>3, <1>4, <1>5, <1>6, <1>7, <1>8 DEF Handling, OnAccount, OnRole

-----------------------------------------------------------------------------
(***************************************************************************)
(* What a step does to the handlers that do not take it.                   *)
(***************************************************************************)
\* No account enters or leaves the role.
Kin(r) ==
    \A id \in Ids : (user'[id] # None /\ user'[id].role = r) <=> (user[id] # None /\ user[id].role = r)

\* What the handler has read is not written.
Unwritten(h) ==
    IF h.pc \in RoleSteps THEN Kin(h.key) /\ perms'[h.key] = perms[h.key]
                          ELSE user'[h.key] = user[h.key]

Stays(j) ==
    /\ slot'[j] = slot[j] \/ (slot[j] # Idle /\ slot'[j] = Late(slot[j]))
    /\ slot'[j] # Idle /\ slot'[j].clean => Unwritten(slot[j])

LEMMA GoingMoves ==
  ASSUME Types, NEW k, NEW next, NEW ids, NEW rs, Going(k, next, ids, rs),
         \A id \in Ids : id \notin ids => user'[id] = user[id],
         \A r \in Roles : r \notin rs => Kin(r) /\ perms'[r] = perms[r]
  PROVE  \A j \in Slots : IF j = k THEN slot'[j] = next ELSE Stays(j)
<1> SUFFICES ASSUME NEW j \in Slots, j # k PROVE Stays(j)
  BY DEF Going
<1>1. slot[j] \in {Idle} \cup Handling
  BY DEF Types, Held
<1>2. slot'[j] = IF HasRead(j, ids, rs) THEN Late(slot[j]) ELSE slot[j]
  BY DEF Going, Late
<1>3. CASE HasRead(j, ids, rs)
  <2>1. slot[j] # Idle /\ slot'[j] = Late(slot[j])
    BY <1>2, <1>3, Fields DEF HasRead, At
  <2>2. slot'[j].clean = FALSE
    BY <1>1, <2>1, LateFields
  <2> QED BY <2>1, <2>2 DEF Stays
<1>4. CASE ~HasRead(j, ids, rs)
  <2>1. slot'[j] = slot[j]
    BY <1>2, <1>4
  <2>2. CASE slot[j] = Idle
    BY <2>1, <2>2 DEF Stays
  <2>3. CASE slot[j] \in OnAccount
    <3>1. slot[j].key \notin ids /\ slot[j].key \in Ids /\ slot[j].pc \notin RoleSteps
      BY <1>4, <2>3, Fields DEF HasRead, At
    <3> QED BY <2>1, <3>1 DEF Stays, Unwritten
  <2>4. CASE slot[j] \in OnRole
    <3>1. slot[j].key \notin rs /\ slot[j].key \in Roles /\ slot[j].pc \in RoleSteps
      BY <1>4, <2>4, Fields DEF HasRead, At
    <3> QED BY <2>1, <3>1 DEF Stays, Unwritten
  <2> QED BY <1>1, <2>2, <2>3, <2>4 DEF Handling
<1> QED BY <1>3, <1>4

\* A step that writes no account and no role.
LEMMA AloneMoves ==
  ASSUME Types, NEW k \in Slots, NEW g, slot' = [slot EXCEPT ![k] = g], user' = user, perms' = perms
  PROVE  \A j \in Slots : IF j = k THEN slot'[j] = g ELSE Stays(j)
<1> SUFFICES ASSUME NEW j \in Slots, j # k PROVE Stays(j)
  BY DEF Types, Held
<1>1. slot'[j] = slot[j]
  BY DEF Types, Held
<1> QED BY <1>1 DEF Stays, Unwritten, Kin

\* A row that is written, or refused.
LEMMA WriteMoves ==
  ASSUME Types, NEW k \in Slots, NEW id \in Ids, NEW row \in Account, NEW next,
         Write(k, id, row, next), perms' = perms
  PROVE  /\ \/ /\ Fits(id, row) /\ user' = [user EXCEPT ![id] = row]
               /\ stale' = (stale \/ ~slot[k].clean)
            \/ ~Fits(id, row) /\ user' = user /\ stale' = stale
         /\ \A j \in Slots :
               IF j = k THEN slot'[j] = (IF Fits(id, row) THEN next ELSE Idle) ELSE Stays(j)
<1>1. CASE Fits(id, row)
  <2> DEFINE rs == {row.role} \cup (IF user[id] = None THEN {} ELSE {user[id].role})
  <2>1. /\ user' = [user EXCEPT ![id] = row] /\ stale' = (stale \/ ~slot[k].clean)
        /\ Going(k, next, {id}, rs)
    BY <1>1 DEF Write
  <2>2. \A i \in Ids : i \notin {id} => user'[i] = user[i]
    BY <2>1 DEF Types, Tables
  <2>3. user'[id] = row
    BY <2>1 DEF Types, Tables
  <2>4. \A r \in Roles : r \notin rs => Kin(r) /\ perms'[r] = perms[r]
    BY <2>2, <2>3 DEF Kin
  <2> HIDE DEF rs
  <2>5. \A j \in Slots : IF j = k THEN slot'[j] = next ELSE Stays(j)
    BY <2>1, <2>2, <2>4, GoingMoves
  <2> QED BY <1>1, <2>1, <2>5
<1>2. CASE ~Fits(id, row)
  <2>1. slot' = [slot EXCEPT ![k] = Idle] /\ user' = user /\ stale' = stale
    BY <1>2 DEF Write, End
  <2>2. \A j \in Slots : IF j = k THEN slot'[j] = Idle ELSE Stays(j)
    BY <2>1, AloneMoves
  <2> QED BY <1>2, <2>1, <2>2
<1> QED BY <1>1, <1>2

-----------------------------------------------------------------------------
(***************************************************************************)
(* How a handler begins and goes on.                                       *)
(***************************************************************************)
\* What a handler that begins knows of the tables.
Reads(g) ==
    /\ g.call = calls + 1
    /\ g \in Registering => ByEmail(g.key) = {}
    /\ g \in Googling \cup Driving => g.key = calls + 1 /\ g.pc # "certificate"
    /\ g \in Linking \cup Holds => user[g.key] # None
    /\ g \in Holds => g.row.password \in {user[g.key].password, g.call}
    /\ g \in Enlisting => /\ g.how = "assign" => g.list = Members(g.key) \cup g.named
                          /\ g.how = "remove" => g.list = Members(g.key) \ g.named
    /\ g \in Permitting => /\ g.pc = (IF g.how = "remove" THEN "permit" ELSE "find")
                           /\ g.list = Kept(g.how, g.key, g.names)

Began(j) ==
    /\ slot[j] = Idle /\ slot'[j] \in Handling /\ Reads(slot'[j])
    /\ \A i \in Slots \ {j} : slot'[i] = slot[i]
    /\ calls < MaxCalls /\ calls' = calls + 1
    /\ user' = user /\ perms' = perms /\ name' = name

Begun(k, g) == Begin(k, g) /\ UNCHANGED <<perms, name>>

LEMMA BegunMoves ==
  ASSUME Types, NEW k \in Slots, NEW g, g \in Handling, Begun(k, g), Reads(g)
  PROVE  \A j \in Slots : Stays(j) \/ Began(j)
<1>1. \A j \in Slots : IF j = k THEN slot'[j] = g ELSE Stays(j)
  BY AloneMoves DEF Begun, Begin
<1>2. slot[k] = Idle
  BY Steps DEF Begun, Begin, At, Types, Held
<1>3. Began(k)
  <2>1. \A i \in Slots \ {k} : slot'[i] = slot[i]
    BY DEF Begun, Begin, Types, Held
  <2> QED BY <1>1, <1>2, <2>1 DEF Began, Begun, Begin
<1> QED BY <1>1, <1>3

LEMMA BeginAccount ==
  ASSUME Types, NEW k \in Slots, UNCHANGED <<perms, name>>,
         \/ \E e \in Emails : RegisterCheck(k, e) \/ Forgot(k, e) \/ Reset(k, e)
         \/ \E e \in Emails, g \in Googles : GoogleNew(k, e, g) \/ GoogleLink(k, e, g)
         \/ \E id \in Ids : UpdateMe(k, id) \/ Update(k, id)
         \/ \E n \in UserNames : RegisterDriver(k, n)
  PROVE  \A j \in Slots : Stays(j) \/ Began(j)
<1> DEFINE Goal == \A j \in Slots : Stays(j) \/ Began(j)
<1>1. calls + 1 \in Numbers
  <2>1. calls < MaxCalls
    BY DEF RegisterCheck, Forgot, Reset, GoogleNew, GoogleLink, UpdateMe, Update, Profile,
           RegisterDriver, Begin
  <2> QED BY <2>1, Nones DEF Types, Tables, Numbers
<1>2. ASSUME NEW e \in Emails, RegisterCheck(k, e) PROVE Goal
  <2> DEFINE g == Handler("register", e)
  <2>1. g \in Registering /\ g.call = calls + 1 /\ g.key = e /\ g.pc = "register"
    BY <1>1 DEF Handler, Call, Registering
  <2>2. Begun(k, g) /\ ByEmail(e) = {}
    BY <1>2 DEF RegisterCheck, Begun
  <2> HIDE DEF g
  <2>3. g \in Handling
    BY <2>1 DEF Handling, OnAccount
  <2>4. Reads(g)
    BY <2>1, <2>2 DEF Reads, Googling, Driving, Linking, Holds, Enlisting, Permitting
  <2> QED BY <2>2, <2>3, <2>4, BegunMoves
<1>3. ASSUME NEW id \in Ids, user[id] # None, NEW row \in Account, NEW pc,
             pc \in {"save", "reset", "delete places", "insert places"},
             row.password \in {user[id].password, calls + 1},
             Begin(k, Holding(pc, id, row))
      PROVE  Goal
  <2> DEFINE g == Holding(pc, id, row)
  <2>1. g \in Holds /\ g.call = calls + 1 /\ g.key = id /\ g.row = row
    BY <1>1, <1>3 DEF Holding, Call, Holds
  <2>2. Begun(k, g)
    BY <1>3 DEF Begun
  <2> HIDE DEF g
  <2>3. g \in Handling /\ g.pc \in {"save", "reset", "delete places", "insert places"}
    BY <2>1 DEF Handling, OnAccount, Holds
  <2>4. Reads(g)
    BY <1>3, <2>1, <2>3 DEF Reads, Registering, Googling, Driving, Enlisting, Permitting
  <2> QED BY <2>2, <2>3, <2>4, BegunMoves
<1>4. \A e \in Emails : \A id \in ByEmail(e) : id \in Ids /\ user[id] # None
  BY DEF ByEmail
<1>5. \A id \in Ids : user[id] # None => user[id] \in Account
  BY DEF Types, Tables
<1>6. \A row \in Account, link \in Numbers, until \in Nat :
          /\ [row EXCEPT !.link = link, !.until = until] \in Account
          /\ [row EXCEPT !.link = link, !.until = until].password = row.password
  BY DEF Account
<1>7. ASSUME NEW e \in Emails, Forgot(k, e) PROVE Goal
  <2>1. PICK id \in ByEmail(e) :
           Begin(k, Holding("save", id, [user[id] EXCEPT !.link = calls + 1, !.until = now + LinkLife]))
    BY <1>7 DEF Forgot, Call
  <2>2. now + LinkLife \in Nat
    BY Nones DEF Types, Tables
  <2> DEFINE row == [user[id] EXCEPT !.link = calls + 1, !.until = now + LinkLife]
  <2>3. id \in Ids /\ user[id] # None /\ user[id] \in Account
    BY <1>4, <1>5
  <2>4. row \in Account /\ row.password = user[id].password
    BY <1>1, <1>6, <2>2, <2>3
  <2> HIDE DEF row
  <2>5. Begin(k, Holding("save", id, row))
    BY <2>1 DEF row
  <2> HIDE DEF Goal
  <2> QED BY <1>3, <2>3, <2>4, <2>5
<1>8. ASSUME NEW e \in Emails, Reset(k, e) PROVE Goal
  <2>1. PICK id \in ByEmail(e) : Begin(k, Holding("reset", id, user[id]))
    BY <1>8 DEF Reset
  <2> HIDE DEF Goal
  <2> QED BY <1>3, <1>4, <1>5, <2>1
<1>9. ASSUME NEW e \in Emails, NEW a \in Googles, GoogleNew(k, e, a) PROVE Goal
  <2> DEFINE g == [pc |-> "google", key |-> Call, call |-> Call, clean |-> TRUE, email |-> e,
                   google |-> a]
  <2>1. g \in Googling /\ g.call = calls + 1 /\ g.key = calls + 1 /\ g.pc = "google"
    BY <1>1 DEF Call, Googling
  <2>2. Begun(k, g)
    BY <1>9 DEF GoogleNew, Begun
  <2> HIDE DEF g
  <2>3. g \in Handling
    BY <2>1 DEF Handling, OnAccount
  <2>4. Reads(g)
    BY <2>1 DEF Reads, Registering, Driving, Linking, Holds, Enlisting, Permitting
  <2> QED BY <2>2, <2>3, <2>4, BegunMoves
<1>10. ASSUME NEW e \in Emails, NEW a \in Googles, GoogleLink(k, e, a) PROVE Goal
  <2>1. PICK id \in ByEmail(e) :
           Begin(k, [pc |-> "link", key |-> id, call |-> Call, clean |-> TRUE, google |-> a])
    BY <1>10 DEF GoogleLink
  <2> DEFINE g == [pc |-> "link", key |-> id, call |-> Call, clean |-> TRUE, google |-> a]
  <2>2. g \in Linking /\ g.call = calls + 1 /\ g.key = id /\ g.pc = "link"
    BY <1>1, <1>4 DEF Call, Linking
  <2>3. Begun(k, g)
    BY <2>1 DEF Begun
  <2> HIDE DEF g
  <2>4. g \in Handling
    BY <2>2 DEF Handling, OnAccount
  <2>5. Reads(g)
    BY <1>4, <2>2 DEF Reads, Registering, Googling, Driving, Holds, Enlisting, Permitting
  <2> QED BY <2>3, <2>4, <2>5, BegunMoves
<1>11. ASSUME NEW id \in Ids, NEW row \in Account, NEW places \in SUBSET Numbers,
              user[id] # None, row.password \in {user[id].password, calls + 1}, Profile(k, id, row, places)
       PROVE  Goal
  <2> DEFINE pc == IF places = {} THEN "save" ELSE "delete places"
             new == [row EXCEPT !.places = IF places = {} THEN @ ELSE places]
  <2>1. new \in Account /\ new.password = row.password
    BY DEF Account
  <2>2. Begin(k, Holding(pc, id, new))
    BY <1>11 DEF Profile, Holding
  <2>3. pc \in {"save", "reset", "delete places", "insert places"}
    OBVIOUS
  <2> HIDE DEF pc, new, Goal
  <2> QED BY <1>3, <1>11, <2>1, <2>2, <2>3
<1>12. ASSUME NEW id \in Ids, UpdateMe(k, id) PROVE Goal
  <2>1. PICK places \in {{}, {Call}} : user[id] # None /\ Profile(k, id, user[id], places)
    BY <1>12 DEF UpdateMe
  <2>2. places \in SUBSET Numbers /\ user[id] \in Account
    BY <1>1, <1>5, <2>1 DEF Call
  <2> HIDE DEF Goal
  <2> QED BY <1>11, <2>1, <2>2
<1>13. ASSUME NEW id \in Ids, Update(k, id) PROVE Goal
  <2>1. user[id] # None /\ user[id] \in Account
    BY <1>5, <1>13 DEF Update
  <2>2. PICK row \in {[user[id] EXCEPT !.username = n] : n \in UserNames}
                     \cup {[user[id] EXCEPT !.email = e] : e \in Emails \cup {None}}
                     \cup {[user[id] EXCEPT !.role = r] : r \in roles}
                     \cup {[user[id] EXCEPT !.password = Call]} :
              Profile(k, id, [row EXCEPT !.by = "email"], {})
    BY <1>13 DEF Update
  <2>3. row \in Account /\ row.password \in {user[id].password, calls + 1}
    <3>1. CASE \/ \E n \in UserNames : row = [user[id] EXCEPT !.username = n]
               \/ \E e \in Emails \cup {None} : row = [user[id] EXCEPT !.email = e]
      BY <2>1, <3>1 DEF Account
    <3>2. CASE \E r \in roles : row = [user[id] EXCEPT !.role = r]
      BY <2>1, <3>2 DEF Account, Types, Tables
    <3>3. CASE row = [user[id] EXCEPT !.password = Call]
      BY <1>1, <2>1, <3>3 DEF Account, Call
    <3> QED BY <2>2, <3>1, <3>2, <3>3
  <2>4. /\ [row EXCEPT !.by = "email"] \in Account
        /\ [row EXCEPT !.by = "email"].password = row.password
    BY <2>3 DEF Account
  <2> DEFINE new == [row EXCEPT !.by = "email"]
  <2> HIDE DEF Goal, new
  <2>5. /\ new \in Account /\ new.password \in {user[id].password, calls + 1}
        /\ Profile(k, id, new, {})
    BY <2>2, <2>3, <2>4 DEF new
  <2>6. {} \in SUBSET Numbers
    OBVIOUS
  <2> QED BY <1>11, <2>1, <2>5, <2>6
<1>14. ASSUME NEW n \in UserNames, RegisterDriver(k, n) PROVE Goal
  <2> DEFINE g == [pc |-> "driver", key |-> Call, call |-> Call, clean |-> TRUE,
                   username |-> n]
  <2>1. g \in Driving /\ g.call = calls + 1 /\ g.key = calls + 1 /\ g.pc = "driver"
    BY <1>1 DEF Call, Driving
  <2>2. Begun(k, g)
    BY <1>14 DEF RegisterDriver, Begun
  <2> HIDE DEF g
  <2>3. g \in Handling
    BY <2>1 DEF Handling, OnAccount
  <2>4. Reads(g)
    BY <2>1 DEF Reads, Registering, Googling, Linking, Holds, Enlisting, Permitting
  <2> QED BY <2>2, <2>3, <2>4, BegunMoves
<1> HIDE DEF Goal
<1>15. Goal
  BY <1>2, <1>7, <1>8, <1>9, <1>10, <1>12, <1>13, <1>14
<1> QED BY <1>15 DEF Goal

LEMMA BeginRole ==
  ASSUME Types, NEW k \in Slots,
         \/ \E r \in Roles, ids \in SUBSET Present :
               \/ AddUsersToRole(k, r, ids) \/ AssignUsersToRole(k, r, ids)
               \/ RemoveUsersFromRole(k, r, ids)
         \/ \E r \in Roles : UpdateRoleDetails(k, r)
         \/ \E r \in Roles, how \in {"add", "remove", "update"}, ns \in SUBSET Names :
               ChangePermissions(k, r, how, ns)
  PROVE  \A j \in Slots : Stays(j) \/ Began(j)
<1> DEFINE Goal == \A j \in Slots : Stays(j) \/ Began(j)
<1>1. calls + 1 \in Numbers
  <2>1. calls < MaxCalls
    BY DEF AddUsersToRole, AssignUsersToRole, RemoveUsersFromRole, UpdateRoleDetails,
           ChangePermissions, Begin
  <2> QED BY <2>1, Nones DEF Types, Tables, Numbers
<1>2. ASSUME NEW how \in {"add", "assign", "remove"}, NEW r \in Roles, NEW list \in SUBSET Ids,
             NEW ids \in SUBSET Ids, how = "assign" => list = Members(r) \cup ids,
             how = "remove" => list = Members(r) \ ids,
             Begin(k, Request(how, r, list, ids)), UNCHANGED <<perms, name>>
      PROVE  Goal
  <2> DEFINE g == Request(how, r, list, ids)
  <2>1. /\ g \in Enlisting /\ g.call = calls + 1 /\ g.key = r /\ g.list = list /\ g.named = ids
        /\ g.how = how /\ g.pc = "members"
    BY <1>1 DEF Request, Call, Enlisting
  <2>2. Begun(k, g)
    BY <1>2 DEF Begun
  <2> HIDE DEF g
  <2>3. g \in Handling
    BY <2>1 DEF Handling, OnRole
  <2>4. Reads(g)
    BY <1>2, <2>1 DEF Reads, Registering, Googling, Driving, Linking, Holds, Permitting
  <2> QED BY <2>2, <2>3, <2>4, BegunMoves
<1>3. \A ids \in SUBSET Present : ids \in SUBSET Ids
  BY DEF Present
<1>4. \A r \in Roles : Members(r) \in SUBSET Ids
  BY DEF Members
<1>5. ASSUME NEW r \in Roles, NEW ids \in SUBSET Present,
             \/ AddUsersToRole(k, r, ids) \/ AssignUsersToRole(k, r, ids)
             \/ RemoveUsersFromRole(k, r, ids)
      PROVE  Goal
  <2>1. ids \in SUBSET Ids /\ Members(r) \cup ids \in SUBSET Ids /\ Members(r) \ ids \in SUBSET Ids
    BY <1>3, <1>4
  <2> HIDE DEF Goal
  <2>2. CASE AddUsersToRole(k, r, ids)
    BY <1>2, <2>1, <2>2 DEF AddUsersToRole
  <2>3. CASE AssignUsersToRole(k, r, ids)
    BY <1>2, <2>1, <2>3 DEF AssignUsersToRole
  <2>4. CASE RemoveUsersFromRole(k, r, ids)
    BY <1>2, <2>1, <2>4 DEF RemoveUsersFromRole
  <2> QED BY <1>5, <2>2, <2>3, <2>4
<1>6. ASSUME NEW r \in Roles, UpdateRoleDetails(k, r) PROVE Goal
  <2> DEFINE g == Handler("details", r)
  <2>1. g \in Detailing /\ g.call = calls + 1 /\ g.pc = "details"
    BY <1>1 DEF Handler, Call, Detailing
  <2>2. Begun(k, g)
    BY <1>6 DEF UpdateRoleDetails, Begun
  <2> HIDE DEF g
  <2>3. g \in Handling
    BY <2>1 DEF Handling, OnRole
  <2>4. Reads(g)
    BY <2>1 DEF Reads, Registering, Googling, Driving, Linking, Holds, Enlisting, Permitting
  <2> QED BY <2>2, <2>3, <2>4, BegunMoves
<1>7. ASSUME NEW r \in Roles, NEW how \in {"add", "remove", "update"}, NEW ns \in SUBSET Names,
             ChangePermissions(k, r, how, ns)
      PROVE  Goal
  <2> DEFINE pc == IF how = "remove" THEN "permit" ELSE "find"
             list == Kept(how, r, ns)
             g == [pc |-> pc, how |-> how, key |-> r, call |-> Call, clean |-> TRUE,
                   names |-> ns, missing |-> {}, list |-> list]
  <2>1. list \in SUBSET Nat
    <3>1. perms[r] \in SUBSET DOMAIN name /\ DOMAIN name \subseteq Nat
      BY DEF Types, Tables
    <3>2. {} \in SUBSET Nat /\ perms[r] \in SUBSET Nat /\ perms[r] \ Named(ns) \in SUBSET Nat
      BY <3>1
    <3> QED BY <3>2 DEF Kept
  <2>2. pc \in {"permit", "find"} /\ pc = (IF how = "remove" THEN "permit" ELSE "find")
    OBVIOUS
  <2>3. list = Kept(how, r, ns)
    OBVIOUS
  <2>4. Begun(k, g)
    BY <1>7 DEF ChangePermissions, Begun
  <2> HIDE DEF pc, list
  <2>5. /\ g \in Permitting /\ g.call = calls + 1 /\ g.key = r /\ g.how = how /\ g.names = ns
        /\ g.list = list /\ g.pc = pc
    BY <1>1, <2>1, <2>2 DEF Call, Permitting
  <2> HIDE DEF g
  <2>6. g \in Handling
    BY <2>5 DEF Handling, OnRole
  <2>7. Reads(g)
    BY <2>2, <2>3, <2>5 DEF Reads, Registering, Googling, Driving, Linking, Holds, Enlisting
  <2> QED BY <2>4, <2>6, <2>7, BegunMoves
<1> HIDE DEF Goal
<1>8. Goal
  BY <1>5, <1>6, <1>7
<1> QED BY <1>8 DEF Goal

\* A handler that goes on: to save the account it has read again ...
Linked(j) ==
    /\ slot[j] \in Linking /\ slot'[j] \in Holds
    /\ slot'[j].key = slot[j].key /\ slot'[j].call = slot[j].call
    /\ user[slot[j].key] # None /\ slot'[j].row.password = user[slot[j].key].password
    /\ UNCHANGED <<user, perms, name>>

\* ... after it has written its addresses ...
Placed(j) ==
    /\ slot[j] \in Holds /\ slot'[j] \in Holds
    /\ slot'[j].key = slot[j].key /\ slot'[j].call = slot[j].call
    /\ slot'[j].row = slot[j].row /\ slot'[j].clean = slot[j].clean
    /\ user[slot[j].key] # None =>
          /\ user'[slot[j].key] # None
          /\ user'[slot[j].key].password = user[slot[j].key].password
    /\ UNCHANGED <<perms, name>>

\* ... to a certificate, or to permissions that are found ...
Certified(j) ==
    /\ slot[j] \in Driving /\ slot'[j] \in Driving
    /\ slot[j].pc = "driver" /\ slot'[j].pc = "certificate"
    /\ slot'[j].key = slot[j].key /\ slot'[j].call = slot[j].call
    /\ UNCHANGED <<perms, name>>

Permits(h, g) ==
    /\ h \in Permitting /\ g \in Permitting /\ g.pc = "create"
    /\ g.key = h.key /\ g.call = h.call /\ g.how = h.how /\ g.names = h.names /\ g.clean = h.clean

Found(j) ==
    /\ Permits(slot[j], slot'[j]) /\ slot[j].pc = "find"
    /\ slot'[j].missing = Missing(slot[j].names)
    /\ slot'[j].list = slot[j].list \cup Named(slot[j].names)
    /\ UNCHANGED <<user, perms, name>>

\* ... and to those that are created.
Created(j) ==
    /\ Permits(slot[j], slot'[j]) /\ slot[j].pc = "create"
    /\ \E n \in slot[j].missing :
          /\ name' = Append(name, n)
          /\ slot'[j].missing = slot[j].missing \ {n}
          /\ slot'[j].list = slot[j].list \cup {Len(name')}
    /\ UNCHANGED <<user, perms>>

Went(j) == Linked(j) \/ Placed(j) \/ Certified(j) \/ Found(j) \/ Created(j)

\* ... or ends: a request about permissions, and a registration, with their last save.
Gone(j) ==
    /\ slot'[j] = Idle
    /\ slot[j] \in Permitting => PermissionsSave(j) \/ crashed' # crashed
    /\ slot[j].pc = "certificate" => CertificateSave(j) \/ crashed'

LEMMA Apart == \A h \in OnAccount : h \in Handling /\ h \notin Permitting
  BY Fields DEF Handling, OnRole

LEMMA EndMoves ==
  ASSUME Types, NEW k \in Slots, End(k), UNCHANGED <<user, perms>>, slot[k] \notin Permitting,
         slot[k].pc # "certificate" \/ CertificateSave(k)
  PROVE  \A j \in Slots : Stays(j) \/ Gone(j)
<1>1. \A j \in Slots : IF j = k THEN slot'[j] = Idle ELSE Stays(j)
  BY AloneMoves DEF End
<1> QED BY <1>1 DEF Gone

LEMMA AccountRows ==
  ASSUME NEW h \in Handling
  PROVE  /\ h \in Registering => NewAccount(h.key, h.key, "user", "email", None, h.call) \in Account
         /\ h \in Googling => NewAccount(h.email, h.email, "user", "google", h.google, h.call) \in Account
         /\ h \in Driving => NewAccount(h.username, None, "shipper", "email", None, h.call) \in Account
         /\ h \in Holds /\ now \in Nat => h.row \in Account /\ Spent(h.row, h.call) \in Account
<1>1. h \in Registering => NewAccount(h.key, h.key, "user", "email", None, h.call) \in Account
  BY DEF Registering, NewAccount, Account, Roles, UserNames
<1>2. h \in Googling => NewAccount(h.email, h.email, "user", "google", h.google, h.call) \in Account
  BY DEF Googling, NewAccount, Account, Roles, UserNames
<1>3. h \in Driving => NewAccount(h.username, None, "shipper", "email", None, h.call) \in Account
  BY DEF Driving, NewAccount, Account, Roles
<1>4. h \in Holds /\ now \in Nat => h.row \in Account /\ Spent(h.row, h.call) \in Account
  <2>1. \A row \in Account, n \in Numbers, t \in Nat :
            [row EXCEPT !.password = n, !.until = t] \in Account
    BY DEF Account
  <2> QED BY <2>1 DEF Holds, Spent
<1> QED BY <1>1, <1>2, <1>3, <1>4

\* What a handler writes of the account it has read, and how it goes on.
Saved(k, row, next) ==
    /\ Write(k, slot[k].key, row, next)
    /\ slot[k].pc # "certificate"
    /\ \/ next = Idle /\ drivers' = drivers
       \/ /\ slot[k].pc = "driver" /\ next = [slot[k] EXCEPT !.pc = "certificate"]
          /\ drivers' = IF user' = user THEN drivers ELSE drivers \cup {slot[k].key}
    /\ \/ Gave(slot[k].key, row.password)
       \/ slot[k] \in Holds /\ set' = set /\ row.password = slot[k].row.password
          /\ row.password # slot[k].call
    /\ UNCHANGED <<cert, roles, otp, now, calls, crashed>>

LEMMA Saves ==
  ASSUME Types, NEW k \in Slots, slot[k] \in Googling \cup Driving => slot[k].key = slot[k].call,
         RegisterSave(k) \/ GoogleSave(k) \/ SaveRow(k) \/ ResetSave(k) \/ DriverSave(k)
  PROVE  slot[k] \in OnAccount /\ \E row \in Account : \E next : Saved(k, row, next)
<1>1. slot[k] \in {Idle} \cup Handling /\ now \in Nat
  BY DEF Types, Held, Tables
<1>2. slot[k] \in OnAccount => slot[k] \in Handling /\ slot[k].call \in Numbers
  BY Apart, Fields
<1>3. CASE RegisterSave(k)
  <2> DEFINE e == slot[k].key
             new == NewAccount(e, e, "user", "email", None, slot[k].call)
             row == IF user[e] = None THEN new
                    ELSE [user[e] EXCEPT !.username = e, !.email = e, !.role = "user",
                                         !.password = new.password]
  <2>1. slot[k] \in Registering /\ slot[k] \in OnAccount
    BY <1>1, <1>3, Steps DEF RegisterSave, At, OnAccount
  <2>2. e \in Emails /\ e \in Ids
    BY <2>1 DEF Registering, Ids
  <2>3. new \in Account /\ new.password \in Numbers
    BY <1>2, <2>1, AccountRows DEF NewAccount
  <2>4. Write(k, e, row, Idle) /\ Gave(e, new.password) /\ Rest /\ slot[k].pc # "certificate"
    BY <1>3 DEF RegisterSave, At
  <2>5. row \in Account /\ row.password = new.password
    <3>1. CASE user[e] = None
      BY <2>3, <3>1
    <3>2. CASE user[e] # None
      <4>1. user[e] \in Account
        BY <2>2, <3>2 DEF Types, Tables
      <4> DEFINE Like(a, n) == [a EXCEPT !.username = e, !.email = e, !.role = "user", !.password = n]
      <4>2. \A a \in Account, n \in Numbers :
               Like(a, n) \in Account /\ Like(a, n).password = n
        BY <2>2, Nones DEF Account, Roles
      <4> HIDE DEF e, new
      <4>3. row = Like(user[e], new.password)
        BY <3>2
      <4> HIDE DEF Like
      <4> QED BY <2>3, <4>1, <4>2, <4>3
    <3> QED BY <3>1, <3>2
  <2> HIDE DEF new, row
  <2>6. Saved(k, row, Idle)
    BY <2>2, <2>4, <2>5 DEF Saved, Rest
  <2> QED BY <2>1, <2>5, <2>6
<1>4. CASE GoogleSave(k)
  <2> DEFINE row == NewAccount(slot[k].email, slot[k].email, "user", "google", slot[k].google,
                               slot[k].call)
  <2>1. slot[k] \in Googling /\ slot[k] \in OnAccount
    BY <1>1, <1>4, Steps DEF GoogleSave, At, OnAccount
  <2>2. row \in Account /\ slot[k].key = slot[k].call
    BY <1>2, <2>1, AccountRows
  <2>3. row.password = slot[k].call
    BY DEF NewAccount
  <2>4. Write(k, slot[k].call, row, Idle) /\ Gave(slot[k].call, slot[k].call) /\ Rest
        /\ slot[k].pc # "certificate"
    BY <1>4 DEF GoogleSave, At
  <2> HIDE DEF row
  <2>5. Saved(k, row, Idle)
    BY <2>2, <2>3, <2>4 DEF Saved, Rest
  <2> QED BY <2>1, <2>2, <2>5
<1>5. CASE SaveRow(k)
  <2>1. slot[k] \in Holds /\ slot[k] \in OnAccount
    BY <1>1, <1>5, Steps DEF SaveRow, At, OnAccount
  <2>2. slot[k].row \in Account
    BY <2>1 DEF Holds
  <2>3. Saved(k, slot[k].row, Idle)
    BY <1>5, <2>1 DEF SaveRow, Saved, Rest, At
  <2> QED BY <2>1, <2>2, <2>3
<1>6. CASE ResetSave(k)
  <2> DEFINE row == Spent(slot[k].row, slot[k].call)
  <2>1. slot[k] \in Holds /\ slot[k] \in OnAccount
    BY <1>1, <1>6, Steps DEF ResetSave, At, OnAccount
  <2>2. row \in Account /\ row.password = slot[k].call
    <3>1. \A a \in Account : \A n, t : [a EXCEPT !.password = n, !.until = t].password = n
      BY DEF Account
    <3>2. row \in Account
      BY <1>1, <1>2, <2>1, AccountRows
    <3>3. /\ slot[k].row \in Account
          /\ row = [slot[k].row EXCEPT !.password = slot[k].call, !.until = now]
      BY <2>1 DEF Holds, Spent
    <3> QED BY <3>1, <3>2, <3>3
  <2> HIDE DEF row
  <2>3. Saved(k, row, Idle)
    BY <1>6, <2>1, <2>2 DEF ResetSave, Saved, Rest, At, row
  <2> QED BY <2>1, <2>2, <2>3
<1>7. CASE DriverSave(k)
  <2> DEFINE row == NewAccount(slot[k].username, None, "shipper", "email", None, slot[k].call)
             g == [slot[k] EXCEPT !.pc = "certificate"]
  <2>1. slot[k] \in Driving /\ slot[k] \in OnAccount /\ slot[k].pc = "driver"
    BY <1>1, <1>7, Steps DEF DriverSave, At, OnAccount
  <2>2. row \in Account /\ slot[k].key = slot[k].call /\ row.password = slot[k].call
    BY <1>2, <2>1, AccountRows DEF NewAccount
  <2>3. /\ Write(k, slot[k].call, row, g) /\ Gave(slot[k].call, slot[k].call)
        /\ drivers' = IF user' = user THEN drivers ELSE drivers \cup {slot[k].call}
        /\ UNCHANGED <<cert, roles, otp, now, calls, crashed>>
    BY <1>7 DEF DriverSave
  <2> HIDE DEF row
  <2>4. Saved(k, row, g)
    BY <2>1, <2>2, <2>3 DEF Saved
  <2> QED BY <2>1, <2>2, <2>4
<1> QED BY <1>3, <1>4, <1>5, <1>6, <1>7

LEMMA SaveMoves ==
  ASSUME Types, NEW k \in Slots, NEW row \in Account, NEW next, slot[k] \in OnAccount,
         Saved(k, row, next), UNCHANGED <<perms, name>>
  PROVE  \A j \in Slots : Stays(j) \/ Gone(j) \/ Went(j)
<1>1. slot[k].key \in Ids
  BY Fields
<1>2. \A j \in Slots : IF j = k THEN slot'[j] \in {next, Idle} ELSE Stays(j)
  BY <1>1, WriteMoves DEF Saved
<1>3. CASE slot'[k] = Idle
  <2>1. Gone(k)
    BY <1>3, Apart DEF Gone, Saved
  <2> QED BY <1>2, <2>1
<1>4. CASE slot[k].pc = "driver" /\ slot'[k] = [slot[k] EXCEPT !.pc = "certificate"]
  <2> DEFINE g == [slot[k] EXCEPT !.pc = "certificate"]
  <2>1. slot[k] \in Driving
    BY <1>4, Steps DEF Types, Held
  <2>2. g \in Driving /\ g.pc = "certificate" /\ g.key = slot[k].key /\ g.call = slot[k].call
    BY <2>1 DEF Driving
  <2> HIDE DEF g
  <2>3. Certified(k)
    BY <1>4, <2>1, <2>2 DEF Certified, g
  <2> QED BY <1>2, <2>3 DEF Went
<1> QED BY <1>2, <1>3, <1>4 DEF Saved

LEMMA LinkMoves ==
  ASSUME Types, NEW k \in Slots, LinkRead(k), UNCHANGED <<perms, name>>
  PROVE  \A j \in Slots : Stays(j) \/ Gone(j) \/ Went(j)
<1> DEFINE id == slot[k].key
           row == [user[id] EXCEPT !.by = "google", !.google = slot[k].google]
           g == IF user[id] = None THEN Idle
                ELSE [pc |-> "save", key |-> id, call |-> slot[k].call, clean |-> TRUE, row |-> row]
<1>1. slot[k] \in Linking
  BY Steps DEF LinkRead, At, Types, Held
<1>2. slot' = [slot EXCEPT ![k] = g] /\ user' = user
  BY DEF LinkRead
<1>3. id \in Ids /\ slot[k].google \in Googles /\ slot[k].call \in Numbers
  BY <1>1 DEF Linking
<1>4. CASE user[id] = None
  <2>1. slot' = [slot EXCEPT ![k] = Idle]
    BY <1>2, <1>4
  <2> QED BY <1>1, <1>2, <2>1, Apart, EndMoves DEF End, OnAccount, Linking
<1>5. CASE user[id] # None
  <2>1. user[id] \in Account
    BY <1>3, <1>5 DEF Types, Tables
  <2>2. row \in Account /\ row.password = user[id].password
    BY <1>3, <2>1 DEF Account
  <2> HIDE DEF row
  <2> DEFINE f == [pc |-> "save", key |-> id, call |-> slot[k].call, clean |-> TRUE, row |-> row]
  <2>3. f \in Holds /\ f.key = id /\ f.call = slot[k].call /\ f.row = row
    BY <1>3, <2>2 DEF Holds
  <2>4. g = f
    BY <1>5
  <2> HIDE DEF f, g
  <2>5. \A j \in Slots : IF j = k THEN slot'[j] = g ELSE Stays(j)
    BY <1>2, AloneMoves
  <2>6. Linked(k)
    BY <1>1, <1>2, <1>5, <2>2, <2>3, <2>4, <2>5 DEF Linked
  <2> QED BY <2>5, <2>6 DEF Went
<1> QED BY <1>4, <1>5

\* The places of an account are written: nothing else in it, and no role.
LEMMA PlacesOnly ==
  ASSUME Types, NEW id \in Ids, user[id] # None, NEW new \in SUBSET Numbers,
         user' = [user EXCEPT ![id].places = new]
  PROVE  /\ user'[id] \in Account /\ user'[id] # None
         /\ user'[id].username = user[id].username /\ user'[id].password = user[id].password
         /\ user'[id].role = user[id].role /\ user'[id].email = user[id].email
         /\ \A i \in Ids \ {id} : user'[i] = user[i]
         /\ user' \in [Ids -> Account \cup {None}]
         /\ \A r : Kin(r)
<1>1. user[id] \in Account
  BY DEF Types, Tables
<1> DEFINE row == [user[id] EXCEPT !.places = new]
<1>2. row \in Account /\ row.username = user[id].username /\ row.password = user[id].password
      /\ row.role = user[id].role /\ row.email = user[id].email
  BY <1>1 DEF Account
<1>3. user' = [user EXCEPT ![id] = row]
  BY DEF Types, Tables
<1> HIDE DEF row
<1>4. user'[id] = row /\ (\A i \in Ids \ {id} : user'[i] = user[i])
      /\ user' \in [Ids -> Account \cup {None}]
  BY <1>2, <1>3 DEF Types, Tables
<1>5. \A r : Kin(r)
  BY <1>2, <1>4, Nones DEF Kin
<1> QED BY <1>2, <1>4, <1>5, Nones

LEMMA PlaceMoves ==
  ASSUME Types, NEW k \in Slots, DeletePlaces(k) \/ InsertPlaces(k), UNCHANGED <<perms, name>>
  PROVE  \A j \in Slots : Stays(j) \/ Gone(j) \/ Went(j)
<1> DEFINE id == slot[k].key
<1>1. slot[k] \in Holds /\ slot[k] \in Handling
  BY Steps DEF DeletePlaces, InsertPlaces, At, Types, Held, Handling, OnAccount
<1>2. id \in Ids /\ slot[k].row \in Account
  BY <1>1 DEF Holds
<1>3. ASSUME NEW pc \in {"insert places", "save"}, Going(k, [slot[k] EXCEPT !.pc = pc], {id}, {}),
             user' = user \/ (user[id] # None /\ \E new \in SUBSET Numbers :
                                 user' = [user EXCEPT ![id].places = new])
      PROVE  \A j \in Slots : Stays(j) \/ Went(j)
  <2> DEFINE g == [slot[k] EXCEPT !.pc = pc]
  <2>1. /\ g \in Holds /\ g.key = slot[k].key /\ g.call = slot[k].call /\ g.row = slot[k].row
        /\ g.clean = slot[k].clean
    BY <1>1 DEF Holds
  <2>2. /\ \A i \in Ids : i \notin {id} => user'[i] = user[i]
        /\ \A r \in Roles : r \notin {} => Kin(r) /\ perms'[r] = perms[r]
        /\ user[id] # None => user'[id] # None /\ user'[id].password = user[id].password
    <3>1. CASE user' = user
      BY <3>1 DEF Kin
    <3>2. CASE user' # user
      BY <1>2, <1>3, <3>2, PlacesOnly
    <3> QED BY <3>1, <3>2
  <2> HIDE DEF g
  <2>3. \A j \in Slots : IF j = k THEN slot'[j] = g ELSE Stays(j)
    <3>1. Going(k, g, {id}, {})
      BY <1>3 DEF g
    <3> QED BY <2>2, <3>1, GoingMoves
  <2>4. Placed(k)
    BY <1>1, <2>1, <2>2, <2>3 DEF Placed
  <2> QED BY <2>3, <2>4 DEF Went
<1>4. CASE DeletePlaces(k)
  <2>1. /\ Going(k, [slot[k] EXCEPT !.pc = "insert places"], {id}, {})
        /\ user' = IF user[id] = None THEN user ELSE [user EXCEPT ![id].places = {}]
    BY <1>4 DEF DeletePlaces
  <2>2. {} \in SUBSET Numbers
    OBVIOUS
  <2> QED BY <1>3, <2>1, <2>2
<1>5. CASE InsertPlaces(k) /\ user[id] # None
  <2>1. /\ Going(k, [slot[k] EXCEPT !.pc = "save"], {id}, {})
        /\ user' = [user EXCEPT ![id].places = @ \cup slot[k].row.places]
    BY <1>5 DEF InsertPlaces
  <2>2. user[id] \in Account
    BY <1>2, <1>5 DEF Types, Tables
  <2>3. user[id].places \cup slot[k].row.places \in SUBSET Numbers
    BY <1>2, <2>2 DEF Account
  <2>4. user' = [user EXCEPT ![id].places = user[id].places \cup slot[k].row.places]
    BY <1>2, <2>1 DEF Types, Tables
  <2> QED BY <1>3, <1>5, <2>1, <2>3, <2>4
<1>6. CASE InsertPlaces(k) /\ user[id] = None
  BY <1>1, <1>6, Apart, EndMoves DEF InsertPlaces, OnAccount, Holds
<1> QED BY <1>4, <1>5, <1>6

\* Keys and rows are numbered by the calls so far, and a driver's account is new.
Numbered ==
    /\ \A n \in Numbers : n > calls => user[n] = None
    /\ \A j \in Slots : slot[j] \in OnAccount /\ slot[j].key \in Numbers => slot[j].key <= calls
    /\ \A j \in Slots : slot[j] \in Googling \cup Driving => slot[j].key = slot[j].call

LEMMA AdminMoves ==
  ASSUME Types, Numbered, UNCHANGED <<perms, name>>,
         \/ \E n \in UserNames, e \in Emails \cup {None}, r \in Roles : Create(n, e, r)
         \/ \E id \in Ids : Remove(id)
  PROVE  \A j \in Slots : Stays(j)
<1>1. ASSUME NEW m \in UserNames, NEW e \in Emails \cup {None}, NEW r \in Roles, Create(m, e, r)
      PROVE  \A j \in Slots : Stays(j)
  <2> DEFINE n == calls + 1
             row == NewAccount(m, e, r, "email", None, n)
  <2>1. calls < MaxCalls /\ user' = [user EXCEPT ![n] = row] /\ Going(None, Idle, {}, {r})
    BY <1>1 DEF Create, Call
  <2>2. n \in Ids /\ n \in Numbers /\ n > calls
    BY <2>1, Nones DEF Types, Tables, Numbers, Ids
  <2>3. row.role = r /\ user[n] = None
    BY <2>2 DEF NewAccount, Numbered
  <2>4. \A j \in Slots : HasRead(j, {}, {r}) <=> HasRead(j, {n}, {r})
    <3> SUFFICES ASSUME NEW j \in Slots, slot[j] # Idle, slot[j].pc \notin RoleSteps
                 PROVE  slot[j].key # n
      BY Steps DEF HasRead, At, Types, Held
    <3>1. slot[j] \in OnAccount
      BY Fields DEF Types, Held, Handling
    <3> QED BY <2>2, <3>1 DEF Numbered, Types, Tables, Numbers
  <2> HIDE DEF n, row
  <2>5. Going(None, Idle, {n}, {r})
    BY <2>1, <2>4 DEF Going
  <2>6. user'[n] = row /\ \A i \in Ids : i \notin {n} => user'[i] = user[i]
    BY <2>1, <2>2 DEF Types, Tables
  <2>7. \A q \in Roles : q \notin {r} => Kin(q) /\ perms'[q] = perms[q]
    BY <2>2, <2>3, <2>6 DEF Kin
  <2>8. \A j \in Slots : IF j = None THEN slot'[j] = Idle ELSE Stays(j)
    BY <2>5, <2>6, <2>7, GoingMoves
  <2> QED BY <2>8, Nones
<1>2. ASSUME NEW id \in Ids, Remove(id) PROVE \A j \in Slots : Stays(j)
  <2>1. user' = [user EXCEPT ![id] = None] /\ Going(None, Idle, {id}, {user[id].role})
    BY <1>2 DEF Remove
  <2>2. user'[id] = None /\ \A i \in Ids : i \notin {id} => user'[i] = user[i]
    BY <2>1 DEF Types, Tables
  <2>3. \A q \in Roles : q \notin {user[id].role} => Kin(q) /\ perms'[q] = perms[q]
    BY <2>2 DEF Kin
  <2>4. \A j \in Slots : IF j = None THEN slot'[j] = Idle ELSE Stays(j)
    BY <2>1, <2>2, <2>3, GoingMoves
  <2> QED BY <2>4, Nones
<1> QED BY <1>1, <1>2

\* What a save of a list of members writes.
LEMMA MemberRows ==
  ASSUME Types, NEW k \in Slots, MembersSave(k)
  PROVE  /\ slot[k] \in Enlisting /\ slot[k] \in Handling
         /\ user' \in [Ids -> Account \cup {None}]
         /\ \A id \in Ids : user[id] = None => user'[id] = None
         /\ \A id \in Ids : user[id] # None =>
               /\ user'[id] # None
               /\ user'[id].username = user[id].username /\ user'[id].password = user[id].password
               /\ user'[id].role = (IF id \in slot[k].list THEN slot[k].key
                                    ELSE IF user[id].role = slot[k].key THEN None ELSE user[id].role)
<1> DEFINE h == slot[k]
<1>1. h \in Enlisting /\ h \in Handling /\ h.key \in Roles
  BY Steps DEF MembersSave, At, Types, Held, Handling, OnRole, Enlisting
<1>2. user' = [id \in Ids |->
                  IF user[id] = None THEN None
                  ELSE IF id \in h.list THEN [user[id] EXCEPT !.role = h.key]
                  ELSE IF user[id].role = h.key THEN [user[id] EXCEPT !.role = None]
                  ELSE user[id]]
  BY DEF MembersSave
<1> HIDE DEF h
<1>3. \A a \in Account, r \in Roles \cup {None} :
         /\ [a EXCEPT !.role = r] \in Account /\ [a EXCEPT !.role = r].role = r
         /\ [a EXCEPT !.role = r].username = a.username
         /\ [a EXCEPT !.role = r].password = a.password
  BY DEF Account
<1>4. \A id \in Ids : user[id] = None => user'[id] = None
  BY <1>2
<1>5. ASSUME NEW id \in Ids, user[id] # None
      PROVE  /\ user'[id] \in Account
             /\ user'[id].username = user[id].username /\ user'[id].password = user[id].password
             /\ user'[id].role = (IF id \in h.list THEN h.key
                                  ELSE IF user[id].role = h.key THEN None ELSE user[id].role)
  <2>1. user[id] \in Account
    BY <1>5 DEF Types, Tables
  <2>2. CASE id \in h.list
    <3>1. user'[id] = [user[id] EXCEPT !.role = h.key]
      BY <1>2, <1>5, <2>2
    <3> QED BY <1>1, <1>3, <2>1, <2>2, <3>1
  <2>3. CASE id \notin h.list /\ user[id].role = h.key
    <3>1. user'[id] = [user[id] EXCEPT !.role = None]
      BY <1>2, <1>5, <2>3
    <3> QED BY <1>3, <2>1, <2>3, <3>1
  <2>4. CASE id \notin h.list /\ user[id].role # h.key
    <3>1. user'[id] = user[id]
      BY <1>2, <1>5, <2>4
    <3> QED BY <2>1, <2>4, <3>1
  <2> QED BY <2>2, <2>3, <2>4
<1>6. user' \in [Ids -> Account \cup {None}]
  <2>1. \A id \in Ids : user'[id] \in Account \cup {None}
    BY <1>4, <1>5
  <2>2. user' = [id \in Ids |-> user'[id]]
    BY <1>2
  <2> HIDE DEF h
  <2> QED BY <2>1, <2>2
<1> QED BY <1>1, <1>4, <1>5, <1>6, Nones DEF h

LEMMA MembersMove ==
  ASSUME Types, NEW k \in Slots, MembersSave(k)
  PROVE  \A j \in Slots : Stays(j) \/ Gone(j)
<1> DEFINE ids == Moved
           rs == {slot[k].key} \cup {user[id].role : id \in Moved}
<1>1. slot[k] \notin Permitting /\ slot[k].pc # "certificate"
  BY DEF MembersSave, At, Permitting
<1>2. Going(k, Idle, ids, rs) /\ perms' = perms
  BY DEF MembersSave
<1>3. \A id \in Ids : id \notin ids => user'[id] = user[id]
  BY DEF Moved
<1>4. ASSUME NEW r \in Roles, r \notin rs PROVE Kin(r) /\ perms'[r] = perms[r]
  <2>1. \A id \in Ids : user[id] # None /\ user'[id] # user[id] => user[id].role # r
    BY <1>4 DEF Moved
  <2>2. r # slot[k].key /\ r # None
    BY <1>4, Nones
  <2> QED BY <1>2, <2>1, <2>2, MemberRows DEF Kin
<1> HIDE DEF ids, rs
<1>5. \A j \in Slots : IF j = k THEN slot'[j] = Idle ELSE Stays(j)
  BY <1>2, <1>3, <1>4, GoingMoves
<1> QED BY <1>1, <1>5 DEF Gone

\* Steps on roles, that write no account.
LEMMA RoleMoves ==
  ASSUME Types, NEW r \in Roles, NEW k, NEW next, Going(k, next, {}, {r}), user' = user,
         \A q \in Roles \ {r} : perms'[q] = perms[q]
  PROVE  \A j \in Slots : IF j = k THEN slot'[j] = next ELSE Stays(j)
<1>1. \A id \in Ids : id \notin {} => user'[id] = user[id]
  OBVIOUS
<1>2. \A q \in Roles : q \notin {r} => Kin(q) /\ perms'[q] = perms[q]
  BY DEF Kin
<1> QED BY <1>1, <1>2, GoingMoves

LEMMA RolesMove ==
  ASSUME Types,
         \/ \E r \in Roles : DeleteRole(r)
         \/ CreateRole \/ \E k \in Slots : DetailsSave(k) \/ PermissionsSave(k)
  PROVE  \A j \in Slots : Stays(j) \/ Gone(j)
<1>1. ASSUME NEW r \in Roles, DeleteRole(r) PROVE \A j \in Slots : Stays(j)
  <2>1. Going(None, Idle, {}, {r}) /\ user' = user /\ perms' = [perms EXCEPT ![r] = {}]
    BY <1>1 DEF DeleteRole
  <2>2. \A q \in Roles \ {r} : perms'[q] = perms[q]
    BY <2>1 DEF Types, Tables
  <2>3. \A j \in Slots : IF j = None THEN slot'[j] = Idle ELSE Stays(j)
    BY <2>1, <2>2, RoleMoves
  <2> QED BY <2>3, Nones
<1>2. CASE CreateRole
  BY <1>2 DEF CreateRole, Stays, Unwritten, Kin
<1>3. ASSUME NEW k \in Slots, DetailsSave(k) PROVE \A j \in Slots : Stays(j) \/ Gone(j)
  <2>1. slot[k] \notin Permitting /\ slot[k].pc # "certificate"
    BY <1>3 DEF DetailsSave, At, Permitting
  <2> QED BY <1>3, <2>1, EndMoves DEF DetailsSave
<1>4. ASSUME NEW k \in Slots, PermissionsSave(k)
      PROVE  \A j \in Slots : Stays(j) \/ Gone(j)
  <2>1. slot[k] \in Permitting
    BY <1>4, Steps DEF PermissionsSave, At, Types, Held
  <2>2. slot[k].key \in Roles
    BY <2>1 DEF Permitting
  <2>3. /\ Going(k, Idle, {}, {slot[k].key}) /\ user' = user
        /\ perms' = [perms EXCEPT ![slot[k].key] = slot[k].list]
    BY <1>4 DEF PermissionsSave
  <2>4. \A q \in Roles \ {slot[k].key} : perms'[q] = perms[q]
    BY <2>3 DEF Types, Tables
  <2>5. \A j \in Slots : IF j = k THEN slot'[j] = Idle ELSE Stays(j)
    BY <2>2, <2>3, <2>4, RoleMoves
  <2>6. slot[k].pc # "certificate"
    BY <1>4 DEF PermissionsSave, At
  <2> QED BY <1>4, <2>5, <2>6 DEF Gone
<1> QED BY <1>1, <1>2, <1>3, <1>4

LEMMA FindMoves ==
  ASSUME Types, NEW k \in Slots, FindPermissions(k)
  PROVE  \A j \in Slots : Stays(j) \/ Went(j)
<1> DEFINE h == slot[k]
           list == h.list \cup Named(h.names)
           g == [h EXCEPT !.pc = "create", !.missing = Missing(h.names), !.list = list]
<1>1. h \in Permitting /\ h.pc = "find"
  BY Steps DEF FindPermissions, At, Types, Held
<1>2. slot' = [slot EXCEPT ![k] = g] /\ user' = user /\ perms' = perms /\ name' = name
  BY DEF FindPermissions
<1>3. list \in SUBSET Nat /\ Missing(h.names) \in SUBSET Names
  <2>1. DOMAIN name \subseteq Nat /\ h.list \subseteq Nat /\ h.names \subseteq Names
    BY <1>1 DEF Permitting, Types, Tables
  <2> QED BY <2>1 DEF Named, Missing
<1> HIDE DEF list
<1>4. /\ g \in Permitting /\ g.pc = "create" /\ g.key = h.key /\ g.call = h.call /\ g.how = h.how
      /\ g.names = h.names /\ g.clean = h.clean /\ g.missing = Missing(h.names) /\ g.list = list
  BY <1>1, <1>3 DEF Permitting
<1> HIDE DEF g
<1>5. \A j \in Slots : IF j = k THEN slot'[j] = g ELSE Stays(j)
  BY <1>2, AloneMoves
<1>6. Found(k)
  BY <1>1, <1>2, <1>4, <1>5 DEF Found, Permits, list
<1> QED BY <1>5, <1>6 DEF Went

LEMMA CreateMoves ==
  ASSUME Types, NEW k \in Slots, CreatePermission(k)
  PROVE  \A j \in Slots : Stays(j) \/ Went(j)
<1>1. PICK n \in slot[k].missing :
         /\ name' = Append(name, n)
         /\ slot' = [j \in Slots |->
               IF j = k THEN [slot[k] EXCEPT !.missing = @ \ {n}, !.list = @ \cup {Len(name')}]
               ELSE IF At(j, "create") THEN [slot[j] EXCEPT !.clean = FALSE] ELSE slot[j]]
  BY DEF CreatePermission
<1>2. user' = user /\ perms' = perms
  BY DEF CreatePermission
<1> DEFINE h == slot[k]
           list == h.list \cup {Len(name')}
           g == [h EXCEPT !.missing = h.missing \ {n}, !.list = list]
<1>3. h \in Permitting /\ h.pc = "create"
  BY Steps DEF CreatePermission, At, Types, Held
<1>4. n \in Names /\ list \in SUBSET Nat /\ h.missing \ {n} \in SUBSET Names
  <2>1. n \in Names /\ h.list \in SUBSET Nat /\ h.missing \ {n} \in SUBSET Names
    BY <1>1, <1>3 DEF Permitting
  <2>2. Len(name') \in Nat
    BY <1>1, <2>1 DEF Types, Tables
  <2> QED BY <2>1, <2>2
<1> HIDE DEF list
<1>5. /\ g \in Permitting /\ g.pc = "create" /\ g.key = h.key /\ g.call = h.call /\ g.how = h.how
      /\ g.names = h.names /\ g.clean = h.clean /\ g.missing = h.missing \ {n} /\ g.list = list
  BY <1>3, <1>4 DEF Permitting
<1>6. slot'[k] = g
  BY <1>1 DEF list
<1> HIDE DEF g
<1>7. Created(k)
  BY <1>1, <1>2, <1>3, <1>5, <1>6 DEF Created, Permits, list
<1>8. ASSUME NEW j \in Slots, j # k PROVE Stays(j)
  <2>1. slot'[j] = slot[j] \/ (slot[j] # Idle /\ slot'[j] = Late(slot[j]))
    BY <1>1, <1>8, Fields DEF Late, At
  <2> QED BY <1>2, <2>1 DEF Stays, Unwritten, Kin
<1> QED BY <1>7, <1>8 DEF Went

\* The steps of no handler in progress, but for a certificate.
LEMMA OtherMoves ==
  ASSUME Types, UNCHANGED <<perms, name>>,
         \/ \E k \in Slots : CertificateSave(k)
         \/ \E id \in Ids, s \in {"APPROVED", "REJECTED"} : UpdateShipperStatus(id, s)
         \/ \E p \in Phones : SendOtp(p) \/ VerifyOtp(p)
         \/ Restart \/ Tick
  PROVE  \A j \in Slots : Stays(j) \/ Gone(j)
<1>1. ASSUME NEW k \in Slots, CertificateSave(k) PROVE \A j \in Slots : Stays(j) \/ Gone(j)
  <2>1. slot[k] \notin Permitting
    BY <1>1 DEF CertificateSave, At, Permitting
  <2> QED BY <1>1, <2>1, EndMoves DEF CertificateSave
<1>2. CASE Restart
  BY <1>2 DEF Restart, Gone
<1>3. CASE user' = user /\ slot' = slot
  BY <1>3 DEF Stays, Unwritten, Kin
<1> QED BY <1>1, <1>2, <1>3 DEF UpdateShipperStatus, SendOtp, VerifyOtp, Tick

\* Every step leaves each handler, overtakes it, begins it, ends it or takes it on.
LEMMA HandlerSteps ==
  ASSUME Types, Numbered, RolesNext
  PROVE  \A j \in Slots : Stays(j) \/ Began(j) \/ Gone(j) \/ Went(j)
<1> DEFINE Goal == \A j \in Slots : Stays(j) \/ Began(j) \/ Gone(j) \/ Went(j)
<1>1. ASSUME AccountsNext, UNCHANGED <<perms, name>> PROVE Goal
  <2>1. ASSUME NEW k \in Slots,
               \/ \E e \in Emails : RegisterCheck(k, e) \/ Forgot(k, e) \/ Reset(k, e)
               \/ \E e \in Emails, g \in Googles : GoogleNew(k, e, g) \/ GoogleLink(k, e, g)
               \/ \E id \in Ids : UpdateMe(k, id) \/ Update(k, id)
               \/ \E n \in UserNames : RegisterDriver(k, n)
        PROVE  Goal
    BY <1>1, <2>1, BeginAccount
  <2>2. ASSUME NEW k \in Slots,
               RegisterSave(k) \/ GoogleSave(k) \/ SaveRow(k) \/ ResetSave(k) \/ DriverSave(k)
        PROVE  Goal
    <3>1. slot[k] \in OnAccount /\ \E row \in Account : \E next : Saved(k, row, next)
      BY <2>2, Saves DEF Numbered
    <3> QED BY <1>1, <3>1, SaveMoves
  <2>3. ASSUME NEW k \in Slots, LinkRead(k) \/ DeletePlaces(k) \/ InsertPlaces(k) PROVE Goal
    BY <1>1, <2>3, LinkMoves, PlaceMoves
  <2>4. ASSUME \/ \E n \in UserNames, e \in Emails \cup {None}, r \in Roles : Create(n, e, r)
               \/ \E id \in Ids : Remove(id)
        PROVE  Goal
    BY <1>1, <2>4, AdminMoves
  <2>5. ASSUME \/ \E k \in Slots : CertificateSave(k)
               \/ \E id \in Ids, s \in {"APPROVED", "REJECTED"} : UpdateShipperStatus(id, s)
               \/ \E p \in Phones : SendOtp(p) \/ VerifyOtp(p)
               \/ Restart \/ Tick
        PROVE  Goal
    BY <1>1, <2>5, OtherMoves
  <2> HIDE DEF Goal
  <2> QED BY <1>1, <2>1, <2>2, <2>3, <2>4, <2>5 DEF AccountsNext
<1>2. ASSUME \/ \E r \in Roles : DeleteRole(r)
             \/ CreateRole \/ \E k \in Slots : DetailsSave(k) \/ PermissionsSave(k)
      PROVE  Goal
  BY <1>2, RolesMove
<1>3. ASSUME NEW k \in Slots,
             \/ \E r \in Roles, ids \in SUBSET Present :
                   \/ AddUsersToRole(k, r, ids) \/ AssignUsersToRole(k, r, ids)
                   \/ RemoveUsersFromRole(k, r, ids)
             \/ \E r \in Roles : UpdateRoleDetails(k, r)
             \/ \E r \in Roles, how \in {"add", "remove", "update"}, ns \in SUBSET Names :
                   ChangePermissions(k, r, how, ns)
      PROVE  Goal
  BY <1>3, BeginRole
<1>4. ASSUME NEW k \in Slots, MembersSave(k) \/ FindPermissions(k) \/ CreatePermission(k) PROVE Goal
  BY <1>4, MembersMove, FindMoves, CreateMoves
<1> HIDE DEF Goal
<1>5. Goal
  BY <1>1, <1>2, <1>3, <1>4 DEF RolesNext
<1> QED BY <1>5 DEF Goal

-----------------------------------------------------------------------------
(***************************************************************************)
(* The inductive invariant.                                                *)
(***************************************************************************)
\* Nobody else works on the account a driver's registration is about to make.
Newborn ==
    \A j \in Slots : slot[j] \in Driving /\ slot[j].pc = "driver" =>
        /\ user[slot[j].key] = None
        /\ \A i \in Slots \ {j} : slot[i] \in OnAccount => slot[i].key # slot[j].key

\* The roles of accounts are rows; a role that is gone has no permissions.
RoleRefs ==
    /\ \A id \in Present : user[id].role \in roles \cup {None}
    /\ \A r \in Roles \ roles : perms[r] = {}

\* Lists of permissions name rows.
Listed == \A j \in Slots : slot[j] \in Permitting => slot[j].list \subseteq DOMAIN name

\* What a request about permissions asks for, and what it has yet to find or insert.
NamesOf(ps) == {name[p] : p \in ps}

Asked(h) ==
    CASE h.how = "update" -> h.names
      [] h.how = "add" -> NamesOf(perms[h.key]) \cup h.names
      [] h.how = "remove" -> NamesOf(perms[h.key]) \ h.names

Due(h) ==
    IF h.pc = "find" THEN h.names ELSE IF h.pc = "create" THEN h.missing ELSE {}

\* What a handler knows that nobody has overtaken.
FreshAddress(h) == h \in Registering => user[h.key] = None \/ user[h.key].email # h.key

FreshMembers(h) ==
    h \in Enlisting => /\ h.how = "assign" => h.list = Members(h.key) \cup h.named
                       /\ h.how = "remove" => h.list = Members(h.key) \ h.named

FreshRow(h) ==
    h \in Holds => /\ user[h.key] # None
                   /\ h.row.password \in {user[h.key].password, h.call}

FreshPermissions(h) == h \in Permitting => NamesOf(h.list) \cup Due(h) = Asked(h)

Fresh(h) ==
    h # Idle /\ h.clean => /\ FreshAddress(h) /\ FreshRow(h)
                           /\ FreshMembers(h) /\ FreshPermissions(h)

AllFresh == \A j \in Slots : Fresh(slot[j])

\* An account has the password it was last given; no two have one user name; and a
\* registered driver has a certificate or a registration that is about to make it.
Passwords == ~stale => \A id \in Ids : user[id] # None => user[id].password = set[id]

UniqueNames ==
    \A i, j \in Ids : user[i] # None /\ user[j] # None /\ user[i].username = user[j].username => i = j

Drivers ==
    /\ drivers \subseteq Present
    /\ ~crashed => \A id \in drivers :
          cert[id] # None \/ \E k \in Slots : slot[k].pc = "certificate" /\ slot[k].key = id

IInv ==
    /\ Types /\ Numbered /\ Newborn /\ RoleRefs /\ Listed /\ AllFresh
    /\ Passwords /\ UniqueNames /\ Drivers

-----------------------------------------------------------------------------
(***************************************************************************)
(* What the steps write.                                                   *)
(***************************************************************************)
\* No account, role or permission is written.
Quiet ==
    /\ UNCHANGED <<user, roles, perms, name, set, stale, drivers>>
    /\ calls' \in {calls, calls + 1} /\ calls' \in Numbers /\ now' \in 0..MaxTime
    /\ cert' \in [Ids -> Certificates \cup {None}] /\ otp' \in [Phones -> Numbers \cup {None}]
    /\ (\A id \in Ids : cert[id] # None => cert'[id] # None) /\ (crashed => crashed')

LEMMA QuietSteps ==
  ASSUME Types, RolesNext
  PROVE  \/ Quiet
         \/ /\ UNCHANGED <<perms, name>>
            /\ \/ \E k \in Slots :
                    \/ RegisterSave(k) \/ GoogleSave(k) \/ SaveRow(k) \/ ResetSave(k) \/ DriverSave(k)
                    \/ DeletePlaces(k) \/ InsertPlaces(k)
               \/ \E n \in UserNames, e \in Emails \cup {None}, r \in Roles : Create(n, e, r)
               \/ \E id \in Ids : Remove(id)
         \/ \E r \in Roles : DeleteRole(r)
         \/ CreateRole
         \/ \E k \in Slots :
               DetailsSave(k) \/ MembersSave(k) \/ CreatePermission(k) \/ PermissionsSave(k)
<1> USE DEF Types, Tables, Aside
<1>1. ASSUME NEW k, NEW g, Begin(k, g), UNCHANGED <<perms, name>> PROVE Quiet
  <2>1. calls + 1 \in Numbers
    BY <1>1, Nones DEF Begin, Numbers
  <2> QED BY <1>1, <2>1 DEF Begin, Quiet
<1>2. ASSUME NEW k \in Slots, UNCHANGED <<perms, name>>,
             \/ \E e \in Emails : RegisterCheck(k, e) \/ Forgot(k, e) \/ Reset(k, e)
             \/ \E e \in Emails, g \in Googles : GoogleNew(k, e, g) \/ GoogleLink(k, e, g)
             \/ \E id \in Ids : UpdateMe(k, id) \/ Update(k, id)
             \/ \E n \in UserNames : RegisterDriver(k, n)
      PROVE  Quiet
  <2>1. \E g : Begin(k, g)
    BY <1>2 DEF RegisterCheck, Forgot, Reset, GoogleNew, GoogleLink, UpdateMe, Update, Profile,
                RegisterDriver
  <2> QED BY <1>1, <1>2, <2>1
<1>3. ASSUME NEW k \in Slots,
             \/ \E r \in Roles, ids \in SUBSET Present :
                   \/ AddUsersToRole(k, r, ids) \/ AssignUsersToRole(k, r, ids)
                   \/ RemoveUsersFromRole(k, r, ids)
             \/ \E r \in Roles : UpdateRoleDetails(k, r)
             \/ \E r \in Roles, how \in {"add", "remove", "update"}, ns \in SUBSET Names :
                   ChangePermissions(k, r, how, ns)
      PROVE  Quiet
  <2>1. (\E g : Begin(k, g)) /\ UNCHANGED <<perms, name>>
    BY <1>3 DEF AddUsersToRole, AssignUsersToRole, RemoveUsersFromRole, UpdateRoleDetails,
                ChangePermissions
  <2> QED BY <1>1, <2>1
<1>4. ASSUME NEW k \in Slots, LinkRead(k), UNCHANGED <<perms, name>> PROVE Quiet
  BY <1>4 DEF LinkRead, Rest, Quiet
<1>5. ASSUME NEW k \in Slots, FindPermissions(k) PROVE Quiet
  BY <1>5 DEF FindPermissions, Untouched, Quiet
<1>6. ASSUME NEW k \in Slots, CertificateSave(k), UNCHANGED <<perms, name>> PROVE Quiet
  <2>1. /\ cert' \in [Ids -> Certificates \cup {None}]
        /\ \A id \in Ids : cert[id] # None => cert'[id] # None
    BY <1>6, Nones DEF CertificateSave, Certificates
  <2> QED BY <1>6, <2>1 DEF CertificateSave, Quiet
<1>7. ASSUME NEW id \in Ids, NEW s \in {"APPROVED", "REJECTED"}, UpdateShipperStatus(id, s),
             UNCHANGED <<perms, name>>
      PROVE  Quiet
  <2>1. /\ cert' \in [Ids -> Certificates \cup {None}] /\ calls + 1 \in Numbers
        /\ \A i \in Ids : cert[i] # None => cert'[i] # None
    BY <1>7, Nones DEF UpdateShipperStatus, Certificates, Numbers
  <2> QED BY <1>7, <2>1 DEF UpdateShipperStatus, Quiet
<1>8. ASSUME NEW p \in Phones, SendOtp(p) \/ VerifyOtp(p), UNCHANGED <<perms, name>> PROVE Quiet
  <2>1. SendOtp(p) => calls + 1 \in Numbers
    BY Nones DEF SendOtp, Numbers
  <2>2. otp' \in [Phones -> Numbers \cup {None}]
    BY <1>8, <2>1 DEF SendOtp, VerifyOtp, Call
  <2> QED BY <1>8, <2>1, <2>2 DEF SendOtp, VerifyOtp, Quiet
<1>9. ASSUME Restart \/ Tick, UNCHANGED <<perms, name>> PROVE Quiet
  <2>1. now' \in 0..MaxTime
    BY <1>9, Nones DEF Restart, Tick
  <2>2. otp' \in [Phones -> Numbers \cup {None}]
    BY <1>9 DEF Restart, Tick
  <2> QED BY <1>9, <2>1, <2>2 DEF Restart, Tick, Quiet
<1> QED
  BY <1>2, <1>3, <1>4, <1>5, <1>6, <1>7, <1>8, <1>9 DEF RolesNext, AccountsNext

\* A row that is inserted, and a row whose role changes.
Made(id) ==
    user[id] = None /\ user'[id] # None =>
        \/ id = calls + 1 /\ calls' = calls + 1
        \/ \E k \in Slots : /\ slot[k] \in OnAccount /\ slot[k].key = id
                            /\ slot'[k] = Idle \/ slot'[k].pc = "certificate"

Turned(id) ==
    user[id] # None /\ user'[id] # None /\ user'[id].role # user[id].role =>
        \E k \in Slots :
            /\ slot[k] # Idle /\ slot'[k] = Idle
            /\ \/ slot[k] \in OnAccount /\ slot[k].key = id
               \/ ~slot[k].clean
               \/ slot[k] \in Enlisting /\ (id \in slot[k].named \/ slot[k].how = "add")

Rows ==
    /\ user' \in [Ids -> Account \cup {None}]
    /\ \A id \in Ids : /\ Made(id) /\ Turned(id)
                       /\ user'[id] # None => user'[id].role \in roles' \cup {None}

\* Accounts that are not written.
LEMMA SameRows ==
  ASSUME Types, RoleRefs, user' = user, roles \subseteq roles'
  PROVE  Rows
  BY DEF Rows, Made, Turned, RoleRefs, Present, Types, Tables

LEMMA SaveRows ==
  ASSUME Types, Newborn, RoleRefs, NEW k \in Slots, slot[k] \in OnAccount,
         NEW row \in Account, NEW next, Saved(k, row, next), UNCHANGED <<perms, name>>
  PROVE  Rows
<1> DEFINE id == slot[k].key
<1>1. id \in Ids /\ slot[k] # Idle
  BY Fields
<1>2. Write(k, id, row, next) /\ roles' = roles
  BY DEF Saved
<1>3. /\ \/ Fits(id, row) /\ user' = [user EXCEPT ![id] = row]
         \/ user' = user
      /\ slot'[k] = (IF Fits(id, row) THEN next ELSE Idle)
  BY <1>1, <1>2, WriteMoves
<1>4. CASE user' = user
  BY <1>2, <1>4, SameRows
<1>5. CASE Fits(id, row) /\ user' = [user EXCEPT ![id] = row]
  <2>1. /\ user' \in [Ids -> Account \cup {None}] /\ user'[id] = row
        /\ \A i \in Ids \ {id} : user'[i] = user[i]
    BY <1>1, <1>5 DEF Types, Tables
  <2>2. row.role \in roles \cup {None} /\ slot'[k] = next
    BY <1>3, <1>5 DEF Fits
  <2>3. \A i \in Ids \ {id} : /\ Made(i) /\ Turned(i)
                              /\ user'[i] # None => user'[i].role \in roles' \cup {None}
    BY <1>2, <2>1 DEF Made, Turned, RoleRefs, Present
  <2>4. CASE next = Idle
    <3>1. Made(id) /\ Turned(id)
      BY <1>1, <2>2, <2>4 DEF Made, Turned
    <3> QED BY <1>2, <2>1, <2>2, <2>3, <3>1 DEF Rows
  <2>5. CASE slot[k].pc = "driver" /\ next = [slot[k] EXCEPT !.pc = "certificate"]
    <3>1. slot[k] \in Driving
      BY <2>5, Steps, Apart
    <3>2. user[id] = None /\ next.pc = "certificate"
      BY <2>5, <3>1 DEF Newborn, Driving
    <3>3. Made(id) /\ Turned(id)
      BY <2>2, <3>2 DEF Made, Turned
    <3> QED BY <1>2, <2>1, <2>2, <2>3, <3>3 DEF Rows
  <2> QED BY <2>4, <2>5 DEF Saved
<1> QED BY <1>3, <1>4, <1>5

LEMMA PlaceWrites ==
  ASSUME Types, NEW k \in Slots, DeletePlaces(k) \/ InsertPlaces(k)
  PROVE  \/ user' = user
         \/ /\ user[slot[k].key] # None /\ slot[k].key \in Ids
            /\ \E new \in SUBSET Numbers : user' = [user EXCEPT ![slot[k].key].places = new]
<1> DEFINE id == slot[k].key
<1>1. slot[k] \in Holds
  BY Steps DEF DeletePlaces, InsertPlaces, At, Types, Held
<1>2. id \in Ids /\ slot[k].row \in Account
  BY <1>1 DEF Holds
<1>3. CASE user[id] = None
  BY <1>3 DEF DeletePlaces, InsertPlaces
<1>4. CASE user[id] # None
  <2>1. user[id] \in Account
    BY <1>2, <1>4 DEF Types, Tables
  <2>2. user[id].places \cup slot[k].row.places \in SUBSET Numbers /\ {} \in SUBSET Numbers
    BY <1>2, <2>1 DEF Account
  <2>3. \/ user' = [user EXCEPT ![id].places = {}]
        \/ user' = [user EXCEPT ![id].places = user[id].places \cup slot[k].row.places]
    BY <1>2, <1>4 DEF DeletePlaces, InsertPlaces, Types, Tables
  <2> QED BY <1>2, <1>4, <2>2, <2>3
<1> QED BY <1>3, <1>4

LEMMA PlaceRows ==
  ASSUME Types, RoleRefs, NEW k \in Slots, DeletePlaces(k) \/ InsertPlaces(k)
  PROVE  Rows
<1> DEFINE id == slot[k].key
<1>1. roles' = roles
  BY DEF DeletePlaces, InsertPlaces, Rest
<1>2. CASE user' = user
  BY <1>1, <1>2, SameRows
<1>3. CASE /\ user[id] # None /\ id \in Ids
           /\ \E new \in SUBSET Numbers : user' = [user EXCEPT ![id].places = new]
  <2>1. /\ user' \in [Ids -> Account \cup {None}] /\ user'[id] # None
        /\ user'[id].role = user[id].role /\ \A i \in Ids \ {id} : user'[i] = user[i]
    BY <1>3, PlacesOnly
  <2> QED BY <1>1, <1>3, <2>1 DEF Rows, Made, Turned, RoleRefs, Present
<1> QED BY <1>2, <1>3, PlaceWrites

LEMMA AdminRows ==
  ASSUME Types, Numbered, RoleRefs,
         \/ \E n \in UserNames, e \in Emails \cup {None}, r \in Roles : Create(n, e, r)
         \/ \E id \in Ids : Remove(id)
  PROVE  Rows
<1>1. ASSUME NEW m \in UserNames, NEW e \in Emails \cup {None}, NEW r \in Roles, Create(m, e, r)
      PROVE  Rows
  <2> DEFINE n == calls + 1
             row == NewAccount(m, e, r, "email", None, n)
  <2>1. /\ calls < MaxCalls /\ calls' = n /\ user' = [user EXCEPT ![n] = row]
        /\ roles' = roles /\ r \in roles
    BY <1>1 DEF Create, Call
  <2>2. n \in Ids /\ n \in Numbers /\ n > calls
    BY <2>1, Nones DEF Types, Tables, Numbers, Ids
  <2>3. row \in Account /\ row.role = r /\ user[n] = None
    BY <2>2 DEF NewAccount, Numbered, Account
  <2> HIDE DEF row
  <2>4. /\ user' \in [Ids -> Account \cup {None}] /\ user'[n] = row
        /\ \A i \in Ids \ {n} : user'[i] = user[i]
    BY <2>1, <2>2, <2>3 DEF Types, Tables
  <2> QED BY <2>1, <2>3, <2>4 DEF Rows, Made, Turned, RoleRefs, Present
<1>2. ASSUME NEW id \in Ids, Remove(id) PROVE Rows
  <2>1. user' = [user EXCEPT ![id] = None] /\ roles' = roles
    BY <1>2 DEF Remove
  <2>2. /\ user' \in [Ids -> Account \cup {None}] /\ user'[id] = None
        /\ \A i \in Ids \ {id} : user'[i] = user[i]
    BY <2>1 DEF Types, Tables
  <2> QED BY <2>1, <2>2 DEF Rows, Made, Turned, RoleRefs, Present
<1> QED BY <1>1, <1>2

LEMMA MembersRows ==
  ASSUME Types, RoleRefs, AllFresh, NEW k \in Slots, MembersSave(k)
  PROVE  Rows
<1> DEFINE h == slot[k]
<1>1. /\ h \in Enlisting /\ h # Idle /\ h.key \in Roles
      /\ h.clean \in BOOLEAN /\ h.how \in {"add", "assign", "remove"}
  BY MemberRows, Fields DEF Enlisting
<1>2. roles' = roles \cup {h.key}
  BY DEF MembersSave
<1>3. slot'[k] = Idle
  BY DEF MembersSave, Going
<1>4. ASSUME NEW id \in Ids PROVE Made(id)
  BY MemberRows DEF Made
<1>5. ASSUME NEW id \in Ids, user'[id] # None PROVE user'[id].role \in roles' \cup {None}
  <2>1. user[id] # None /\ user[id].role \in roles \cup {None}
    BY <1>5, MemberRows DEF RoleRefs, Present
  <2> QED BY <1>2, <2>1, MemberRows
<1>6. ASSUME NEW id \in Ids PROVE Turned(id)
  <2> SUFFICES ASSUME user[id] # None, user'[id].role # user[id].role,
                      h.clean, id \notin h.named, h.how # "add"
               PROVE  FALSE
    BY <1>1, <1>3 DEF Turned
  <2>1. FreshMembers(h)
    BY <1>1 DEF AllFresh, Fresh
  <2>2. id \in Members(h.key) <=> user[id].role = h.key
    BY DEF Members
  <2>3. id \in h.list <=> id \in Members(h.key)
    BY <1>1, <2>1 DEF FreshMembers
  <2> QED BY <2>2, <2>3, MemberRows
<1> HIDE DEF h
<1> QED BY <1>4, <1>5, <1>6, MemberRows DEF Rows

LEMMA RowSteps ==
  ASSUME Types, Numbered, Newborn, RoleRefs, AllFresh, RolesNext
  PROVE  Rows
<1>1. CASE Quiet
  BY <1>1, SameRows DEF Quiet
<1>2. ASSUME NEW k \in Slots, UNCHANGED <<perms, name>>,
             \/ RegisterSave(k) \/ GoogleSave(k) \/ SaveRow(k) \/ ResetSave(k) \/ DriverSave(k)
      PROVE  Rows
  <2>1. slot[k] \in OnAccount /\ \E row \in Account : \E next : Saved(k, row, next)
    BY <1>2, Saves DEF Numbered
  <2> QED BY <1>2, <2>1, SaveRows
<1>3. ASSUME NEW r \in Roles, DeleteRole(r) PROVE Rows
  <2>1. user' = user /\ roles' = roles \ {r} /\ Members(r) = {}
    BY <1>3 DEF DeleteRole
  <2>2. \A id \in Ids : user[id] # None => user[id].role # r
    BY <2>1 DEF Members
  <2> QED BY <2>1, <2>2 DEF Rows, Made, Turned, RoleRefs, Present, Types, Tables
<1>4. CASE CreateRole
  BY <1>4, SameRows DEF CreateRole
<1>5. ASSUME NEW k \in Slots, DetailsSave(k) \/ CreatePermission(k) \/ PermissionsSave(k) PROVE Rows
  BY <1>5, SameRows DEF DetailsSave, CreatePermission, PermissionsSave
<1> QED BY <1>1, <1>2, <1>3, <1>4, <1>5, QuietSteps, PlaceRows, AdminRows, MembersRows

\* The rest of what a step writes.
LEMMA Grows ==
  ASSUME Types, NEW n \in Names, name' = Append(name, n)
  PROVE  /\ name' \in Seq(Names) /\ Len(name') \in DOMAIN name' /\ name'[Len(name')] = n
         /\ DOMAIN name \subseteq DOMAIN name' /\ DOMAIN name \subseteq Nat
         /\ \A p \in DOMAIN name : name'[p] = name[p]
  BY DEF Types, Tables

Others ==
    /\ roles' \subseteq Roles /\ calls' \in {calls, calls + 1} /\ calls' \in Numbers
    /\ now' \in 0..MaxTime
    /\ perms' \in [Roles -> SUBSET DOMAIN name'] /\ \A r \in Roles \ roles' : perms'[r] = {}
    /\ name' = name \/ \E n \in Names : name' = Append(name, n)
    /\ cert' \in [Ids -> Certificates \cup {None}] /\ otp' \in [Phones -> Numbers \cup {None}]
    /\ set' \in [Ids -> Numbers \cup {None}]
    /\ (\A id \in Ids : cert[id] # None => cert'[id] # None) /\ (crashed => crashed')

LEMMA OtherSteps ==
  ASSUME Types, Numbered, RoleRefs, Listed, RolesNext
  PROVE  Others
<1> USE DEF Types, Tables, Aside, RoleRefs
<1>1. CASE Quiet
  BY <1>1 DEF Quiet, Others
<1>2. ASSUME NEW k \in Slots, UNCHANGED <<perms, name>>,
             \/ RegisterSave(k) \/ GoogleSave(k) \/ SaveRow(k) \/ ResetSave(k) \/ DriverSave(k)
      PROVE  Others
  <2>1. slot[k] \in OnAccount /\ \E row \in Account : \E next : Saved(k, row, next)
    BY <1>2, Saves DEF Numbered
  <2>2. /\ UNCHANGED <<cert, roles, otp, now, calls, crashed>>
        /\ set' = set \/ \E n \in Numbers : Gave(slot[k].key, n)
    BY <2>1 DEF Saved, Account
  <2>3. set' \in [Ids -> Numbers \cup {None}]
    BY <2>2 DEF Gave
  <2> QED BY <1>2, <2>2, <2>3 DEF Others
<1>3. ASSUME NEW k \in Slots, UNCHANGED <<perms, name>>, DeletePlaces(k) \/ InsertPlaces(k)
      PROVE  Others
  <2>1. Rest /\ set' = set
    BY <1>3 DEF DeletePlaces, InsertPlaces
  <2> QED BY <1>3, <2>1 DEF Rest, Others
<1>4. ASSUME NEW n, NEW e, NEW r, Create(n, e, r), UNCHANGED <<perms, name>> PROVE Others
  <2>1. calls + 1 \in Numbers
    BY <1>4, Nones DEF Create, Numbers
  <2>2. set' \in [Ids -> Numbers \cup {None}]
    BY <1>4, <2>1 DEF Create, Call
  <2> QED BY <1>4, <2>1, <2>2 DEF Create, Others
<1>5. ASSUME NEW id \in Ids, Remove(id), UNCHANGED <<perms, name>> PROVE Others
  <2>1. calls + 1 \in Numbers
    BY <1>5, Nones DEF Remove, Numbers
  <2>2. set' \in [Ids -> Numbers \cup {None}]
    BY <1>5 DEF Remove
  <2> QED BY <1>5, <2>1, <2>2 DEF Remove, Others
<1>6. ASSUME NEW r \in Roles, DeleteRole(r) PROVE Others
  <2>1. calls + 1 \in Numbers
    BY <1>6, Nones DEF DeleteRole, Numbers
  <2>2. perms' \in [Roles -> SUBSET DOMAIN name] /\ \A q \in Roles \ roles' : perms'[q] = {}
    BY <1>6 DEF DeleteRole
  <2> QED BY <1>6, <2>1, <2>2 DEF DeleteRole, Untouched, Others
<1>7. CASE CreateRole
  <2>1. calls + 1 \in Numbers /\ "user" \in Roles
    BY <1>7, Nones DEF CreateRole, Numbers, Roles
  <2> QED BY <1>7, <2>1 DEF CreateRole, Untouched, Others
<1>8. ASSUME NEW k \in Slots, DetailsSave(k) PROVE Others
  <2>1. slot[k] \in Detailing
    BY <1>8, Steps DEF DetailsSave, At, Held
  <2> QED BY <1>8, <2>1 DEF DetailsSave, Detailing, Untouched, Others
<1>9. ASSUME NEW k \in Slots, MembersSave(k) PROVE Others
  <2>1. slot[k].key \in Roles
    BY <1>9, MemberRows, Fields DEF Enlisting
  <2> QED BY <1>9, <2>1 DEF MembersSave, Untouched, Others
<1>10. ASSUME NEW k \in Slots, CreatePermission(k) PROVE Others
  <2>1. PICK n \in slot[k].missing : name' = Append(name, n)
    BY <1>10 DEF CreatePermission
  <2>2. slot[k] \in Permitting
    BY <1>10, Steps DEF CreatePermission, At, Held
  <2>3. n \in Names
    BY <2>1, <2>2 DEF Permitting
  <2>4. perms' = perms /\ DOMAIN name \subseteq DOMAIN name'
    BY <1>10, <2>1, <2>3, Grows DEF CreatePermission
  <2> QED BY <1>10, <2>1, <2>3, <2>4 DEF CreatePermission, Untouched, Others
<1>11. ASSUME NEW k \in Slots, PermissionsSave(k) PROVE Others
  <2>1. slot[k] \in Permitting
    BY <1>11, Steps DEF PermissionsSave, At, Held
  <2>2. slot[k].key \in Roles /\ slot[k].list \in SUBSET DOMAIN name
    BY <2>1 DEF Permitting, Listed
  <2>3. perms' \in [Roles -> SUBSET DOMAIN name] /\ \A q \in Roles \ roles' : perms'[q] = {}
    BY <1>11, <2>2 DEF PermissionsSave
  <2> QED BY <1>11, <2>2, <2>3 DEF PermissionsSave, Untouched, Others
<1> QED BY <1>1, <1>2, <1>3, <1>4, <1>5, <1>6, <1>7, <1>8, <1>9, <1>10, <1>11, QuietSteps

LEMMA SlotSteps ==
  ASSUME Types, Numbered, RolesNext
  PROVE  slot' = [j \in Slots |-> slot'[j]]
<1> DEFINE Goal == slot' = [j \in Slots |-> slot'[j]]
<1>1. ASSUME NEW k, NEW g, slot' = [slot EXCEPT ![k] = g] PROVE Goal
  BY <1>1 DEF Types, Held
<1>2. ASSUME NEW k, NEW g, NEW ids, NEW rs, Going(k, g, ids, rs) PROVE Goal
  BY <1>2 DEF Going
<1>3. ASSUME slot' = slot PROVE Goal
  BY <1>3 DEF Types, Held
<1>4. ASSUME NEW k, NEW id, NEW row, NEW next, Write(k, id, row, next) PROVE Goal
  BY <1>1, <1>2, <1>4 DEF Write, End
<1> HIDE DEF Goal
<1>5. ASSUME NEW k \in Slots,
             \/ \E e \in Emails : RegisterCheck(k, e) \/ Forgot(k, e) \/ Reset(k, e)
             \/ \E e \in Emails, g \in Googles : GoogleNew(k, e, g) \/ GoogleLink(k, e, g)
             \/ \E id \in Ids : UpdateMe(k, id) \/ Update(k, id)
             \/ \E n \in UserNames : RegisterDriver(k, n)
      PROVE  Goal
  <2>1. \E g : Begin(k, g)
    BY <1>5 DEF RegisterCheck, Forgot, Reset, GoogleNew, GoogleLink, UpdateMe, Update, Profile,
                RegisterDriver
  <2> QED BY <1>1, <2>1 DEF Begin
<1>6. ASSUME NEW k \in Slots,
             \/ RegisterSave(k) \/ GoogleSave(k) \/ SaveRow(k) \/ ResetSave(k) \/ DriverSave(k)
      PROVE  Goal
  BY <1>4, <1>6 DEF RegisterSave, GoogleSave, SaveRow, ResetSave, DriverSave
<1>7. ASSUME NEW k \in Slots,
             LinkRead(k) \/ DeletePlaces(k) \/ InsertPlaces(k) \/ CertificateSave(k)
      PROVE  Goal
  BY <1>1, <1>2, <1>7 DEF LinkRead, DeletePlaces, InsertPlaces, CertificateSave, End
<1>8. ASSUME \/ \E n \in UserNames, e \in Emails \cup {None}, r \in Roles : Create(n, e, r)
             \/ \E id \in Ids : Remove(id)
             \/ \E id \in Ids, s \in {"APPROVED", "REJECTED"} : UpdateShipperStatus(id, s)
             \/ \E p \in Phones : SendOtp(p) \/ VerifyOtp(p)
             \/ Tick
      PROVE  Goal
  <2>1. ASSUME NEW n, NEW e, NEW r, Create(n, e, r) PROVE Goal
    BY <1>2, <2>1 DEF Create
  <2>2. ASSUME NEW id, Remove(id) PROVE Goal
    BY <1>2, <2>2 DEF Remove
  <2> QED BY <1>3, <1>8, <2>1, <2>2 DEF UpdateShipperStatus, SendOtp, VerifyOtp, Tick
<1>9. ASSUME Restart PROVE Goal
  BY <1>9 DEF Restart, Goal
<1>10. ASSUME (\E r \in Roles : DeleteRole(r)) \/ CreateRole PROVE Goal
  <2>1. ASSUME NEW r, DeleteRole(r) PROVE Goal
    BY <1>2, <2>1 DEF DeleteRole
  <2> QED BY <1>3, <1>10, <2>1 DEF CreateRole
<1>11. ASSUME NEW k \in Slots,
              \/ \E r \in Roles, ids \in SUBSET Present :
                    \/ AddUsersToRole(k, r, ids) \/ AssignUsersToRole(k, r, ids)
                    \/ RemoveUsersFromRole(k, r, ids)
              \/ \E r \in Roles : UpdateRoleDetails(k, r)
              \/ \E r \in Roles, how \in {"add", "remove", "update"}, ns \in SUBSET Names :
                    ChangePermissions(k, r, how, ns)
       PROVE  Goal
  <2>1. \E g : Begin(k, g)
    BY <1>11 DEF AddUsersToRole, AssignUsersToRole, RemoveUsersFromRole, UpdateRoleDetails,
                 ChangePermissions
  <2> QED BY <1>1, <2>1 DEF Begin
<1>12. ASSUME NEW k \in Slots, DetailsSave(k) \/ MembersSave(k) \/ FindPermissions(k) \/ PermissionsSave(k)
       PROVE  Goal
  BY <1>1, <1>2, <1>12 DEF DetailsSave, MembersSave, FindPermissions, PermissionsSave, End
<1>13. ASSUME NEW k \in Slots, CreatePermission(k) PROVE Goal
  BY <1>13 DEF CreatePermission, Goal
<1>14. ASSUME AccountsNext PROVE Goal
  BY <1>5, <1>6, <1>7, <1>8, <1>9, <1>14 DEF AccountsNext
<1>15. Goal
  BY <1>10, <1>11, <1>12, <1>13, <1>14 DEF RolesNext
<1> QED BY <1>15 DEF Goal

\* A handler that is in progress before and after a step keeps its key.
Carried(j) ==
    /\ slot[j] \in Handling /\ slot'[j] \in Handling
    /\ slot'[j].key = slot[j].key /\ slot'[j].call = slot[j].call
    /\ slot'[j] \in OnAccount => slot[j] \in OnAccount
    /\ slot'[j] \in Googling \cup Driving => slot[j] \in Googling \cup Driving
    /\ slot'[j] \in Driving /\ slot'[j].pc = "driver" => slot[j] \in Driving /\ slot[j].pc = "driver"

LEMMA Carries ==
  ASSUME Types, NEW j \in Slots, Stays(j) \/ Began(j) \/ Gone(j) \/ Went(j)
  PROVE  slot'[j] = Idle \/ Began(j) \/ Carried(j)
<1>1. slot[j] \in {Idle} \cup Handling
  BY DEF Types, Held
<1>2. CASE slot[j] # Idle /\ slot'[j] = slot[j]
  BY <1>1, <1>2 DEF Carried
<1>3. CASE slot[j] # Idle /\ slot'[j] = Late(slot[j])
  <2>1. /\ slot'[j] \in Handling /\ slot'[j].pc = slot[j].pc /\ slot'[j].key = slot[j].key
        /\ slot'[j].call = slot[j].call
    BY <1>1, <1>3, LateFields
  <2>2. slot'[j] \in OnAccount => slot[j] \in OnAccount
    BY <1>1, <1>3, <2>1, Fields DEF Handling
  <2>3. slot'[j] \in Googling => slot[j] \in Googling
    BY <1>1, <2>1, Steps DEF Googling
  <2>4. slot'[j] \in Driving => slot[j] \in Driving
    BY <1>1, <2>1, Steps DEF Driving
  <2> QED BY <1>1, <1>3, <2>1, <2>2, <2>3, <2>4 DEF Carried
<1>4. CASE Linked(j)
  BY <1>4 DEF Linked, Carried, Handling, OnAccount, Googling, Driving, Holds
<1>5. CASE Placed(j)
  BY <1>5 DEF Placed, Carried, Handling, OnAccount, Googling, Driving, Holds
<1>6. CASE Certified(j)
  BY <1>6 DEF Certified, Carried, Handling, OnAccount
<1>7. CASE Found(j) \/ Created(j)
  <2>1. /\ slot[j] \in Permitting /\ slot'[j] \in Permitting
        /\ slot'[j].key = slot[j].key /\ slot'[j].call = slot[j].call
    BY <1>7 DEF Found, Created, Permits
  <2>2. slot'[j] \notin OnAccount /\ slot'[j] \in Handling /\ slot[j] \in Handling
    BY <2>1, Apart DEF Handling, OnRole
  <2> QED BY <2>1, <2>2 DEF Carried, OnAccount
<1> QED BY <1>2, <1>3, <1>4, <1>5, <1>6, <1>7 DEF Stays, Gone, Went

LEMMA SameKinds == ({Idle} \cup Handling)' = {Idle} \cup Handling
  BY DEF Idle, Handling, OnAccount, OnRole, Registering, Googling, Linking, Holds, Driving, Detailing,
         Enlisting, Permitting, Ids, Numbers, Account, Roles

LEMMA HeldSteps ==
  ASSUME Types, Numbered, RolesNext
  PROVE  Held'
<1>1. \A j \in Slots : slot'[j] \in {Idle} \cup Handling
  BY HandlerSteps, Carries DEF Began, Carried
<1>2. slot' \in [Slots -> {Idle} \cup Handling]
  BY <1>1, SlotSteps
<1> QED BY <1>2, SameKinds DEF Held

LEMMA TypeSteps ==
  ASSUME Types, Numbered, Newborn, RoleRefs, Listed, AllFresh, RolesNext
  PROVE  Types' /\ RoleRefs'
<1>1. Rows /\ Others
  BY RowSteps, OtherSteps
<1>2. name' \in Seq(Names)
  BY <1>1, Grows DEF Others, Types, Tables
<1>3. Tables' /\ Aside' /\ RoleRefs'
  BY <1>1, <1>2 DEF Tables, Aside, RoleRefs, Rows, Others, Present
<1> QED BY <1>3, HeldSteps DEF Types

-----------------------------------------------------------------------------
(***************************************************************************)
(* A step preserves what handlers in progress know.                        *)
(***************************************************************************)
LEMMA NumberedSteps ==
  ASSUME Types, Numbered, Newborn, RoleRefs, Listed, AllFresh, RolesNext
  PROVE  Numbered'
<1>1. Rows /\ Others /\ \A j \in Slots : slot'[j] = Idle \/ Began(j) \/ Carried(j)
  BY RowSteps, OtherSteps, HandlerSteps, Carries
<1>2. calls \in Nat /\ calls' \in Nat /\ calls' >= calls /\ Numbers \subseteq Nat
      /\ Numbers \subseteq Ids /\ Idle \notin OnAccount
  BY <1>1, Fields, Nones DEF Others, Types, Tables, Numbers, Ids, Handling
<1>3. ASSUME NEW n \in Numbers, n > calls' PROVE user'[n] = None
  <2>1. user[n] = None
    BY <1>2, <1>3 DEF Numbered
  <2>2. Made(n)
    BY <1>1, <1>2 DEF Rows
  <2>3. \A k \in Slots : slot[k] \in OnAccount => slot[k].key # n
    BY <1>2, <1>3 DEF Numbered
  <2> QED BY <1>2, <1>3, <2>1, <2>2, <2>3 DEF Made
<1>4. \A n \in Numbers : (n <= calls => n <= calls') /\ (n > calls \/ n <= calls)
  BY <1>2
<1>5. ASSUME NEW j \in Slots, slot'[j] \in OnAccount, slot'[j].key \in Numbers
      PROVE  slot'[j].key <= calls'
  <2>1. CASE Carried(j)
    <3>1. slot[j] \in OnAccount /\ slot[j].key = slot'[j].key
      BY <1>5, <2>1 DEF Carried
    <3>2. slot[j].key <= calls
      BY <1>5, <3>1 DEF Numbered
    <3> QED BY <1>5, <1>4, <3>1, <3>2
  <2>2. CASE Began(j)
    <3> DEFINE g == slot'[j]
    <3>1. g \in OnAccount /\ g.key \in Numbers /\ Reads(g) /\ calls' = calls + 1
      BY <1>5, <2>2 DEF Began
    <3> HIDE DEF g
    <3>2. g \notin Registering
      BY <3>1, Nones DEF Registering
    <3>3. g \in Googling \cup Driving => g.key = calls + 1
      BY <3>1 DEF Reads
    <3>4. g \in Linking \cup Holds => g.key <= calls
      BY <1>4, <3>1 DEF Reads, Numbered
    <3>5. g.key <= calls'
      <4>1. CASE g \in Googling \cup Driving
        BY <1>2, <3>1, <3>3, <4>1
      <4>2. CASE g \in Linking \cup Holds
        BY <1>4, <3>1, <3>4, <4>2
      <4> QED BY <3>1, <3>2, <4>1, <4>2 DEF OnAccount
    <3> QED BY <3>5 DEF g
  <2> QED BY <1>1, <1>2, <1>5, <2>1, <2>2
<1>6. ASSUME NEW j \in Slots, slot'[j] \in Googling \cup Driving PROVE slot'[j].key = slot'[j].call
  <2>1. slot'[j] \in OnAccount
    BY <1>6 DEF OnAccount
  <2> QED BY <1>1, <1>2, <1>6, <2>1 DEF Carried, Began, Reads, Numbered
<1>7. /\ \A n \in Numbers : n > calls' => user'[n] = None
      /\ \A j \in Slots : slot'[j] \in OnAccount /\ slot'[j].key \in Numbers => slot'[j].key <= calls'
      /\ \A j \in Slots : slot'[j] \in Googling \cup Driving => slot'[j].key = slot'[j].call
  BY <1>3, <1>5, <1>6
<1>8. /\ OnAccount = OnAccount' /\ Googling = Googling' /\ Driving = Driving' /\ Numbers = Numbers'
  BY DEF OnAccount, Registering, Googling, Linking, Holds, Driving, Ids, Numbers, Account, Roles
<1> QED BY <1>7 DEF Numbered

LEMMA NewbornSteps ==
  ASSUME Types, Numbered, Newborn, RoleRefs, Listed, AllFresh, RolesNext
  PROVE  Newborn'
<1>1. Rows /\ Others /\ \A j \in Slots : slot'[j] = Idle \/ Began(j) \/ Carried(j)
  BY RowSteps, OtherSteps, HandlerSteps, Carries
<1>2. calls \in Nat /\ calls + 1 > calls /\ Idle \notin OnAccount /\ Numbers \subseteq Ids
      /\ Numbers \subseteq Nat
  BY Fields, Nones DEF Types, Tables, Numbers, Handling, Ids
<1>3. ASSUME NEW j \in Slots, slot'[j] \in Driving, slot'[j].pc = "driver"
      PROVE  /\ user'[slot'[j].key] = None
             /\ \A i \in Slots \ {j} : slot'[i] \in OnAccount => slot'[i].key # slot'[j].key
  <2> DEFINE n == slot'[j].key
  <2>1. n \in Numbers /\ slot'[j] # Idle
    BY <1>2, <1>3 DEF Driving, OnAccount
  <2>2. CASE Carried(j)
    <3>1. slot[j] \in Driving /\ slot[j].pc = "driver" /\ slot[j].key = n /\ slot[j] \in OnAccount
      BY <1>3, <2>2 DEF Carried, OnAccount
    <3>2. user[n] = None /\ \A i \in Slots \ {j} : slot[i] \in OnAccount => slot[i].key # n
      BY <3>1 DEF Newborn
    <3>3. n <= calls
      BY <2>1, <3>1 DEF Numbered
    <3>4. user'[n] = None
      <4>1. n # calls + 1 /\ Made(n)
        BY <1>1, <1>2, <2>1, <3>3 DEF Rows
      <4>2. \A k \in Slots : slot[k] \in OnAccount /\ slot[k].key = n => k = j
        BY <3>2
      <4> QED BY <1>3, <2>1, <3>2, <4>1, <4>2 DEF Made
    <3>5. ASSUME NEW i \in Slots \ {j}, slot'[i] \in OnAccount PROVE slot'[i].key # n
      <4>1. CASE Carried(i)
        BY <3>2, <3>5, <4>1 DEF Carried
      <4>2. CASE Began(i)
        <5> DEFINE g == slot'[i]
        <5>1. g \in OnAccount /\ Reads(g)
          BY <3>5, <4>2 DEF Began
        <5> HIDE DEF g, n
        <5>2. g \in Registering => g.key # n
          BY <2>1, Nones DEF Registering
        <5>3. g \in Googling \cup Driving => g.key # n
          BY <1>2, <2>1, <3>3, <5>1 DEF Reads
        <5>4. g \in Linking \cup Holds => g.key # n
          BY <3>2, <5>1 DEF Reads
        <5>5. g.key # n
          BY <5>1, <5>2, <5>3, <5>4 DEF OnAccount
        <5> QED BY <5>5 DEF g
      <4> QED BY <1>1, <1>2, <3>5, <4>1, <4>2
    <3> QED BY <3>4, <3>5
  <2>3. CASE Began(j)
    <3>1. /\ n = calls + 1 /\ user' = user
          /\ \A i \in Slots \ {j} : slot'[i] = slot[i]
      BY <1>3, <2>3 DEF Began, Reads
    <3>2. user[n] = None
      BY <1>2, <2>1, <3>1 DEF Numbered
    <3>3. \A i \in Slots \ {j} : slot[i] \in OnAccount => slot[i].key # n
      BY <1>2, <2>1, <3>1 DEF Numbered
    <3> QED BY <3>1, <3>2, <3>3
  <2> QED BY <1>1, <2>1, <2>2, <2>3
<1>4. \A j \in Slots : slot'[j] \in Driving /\ slot'[j].pc = "driver" =>
         /\ user'[slot'[j].key] = None
         /\ \A i \in Slots \ {j} : slot'[i] \in OnAccount => slot'[i].key # slot'[j].key
  BY <1>3
<1> QED BY <1>4 DEF Newborn

LEMMA NameSteps ==
  ASSUME Types, Others
  PROVE  /\ DOMAIN name \subseteq DOMAIN name'
         /\ \A p \in DOMAIN name : name'[p] = name[p]
<1>1. CASE name' = name
  BY <1>1
<1>2. CASE \E n \in Names : name' = Append(name, n)
  BY <1>2, Grows
<1> QED BY <1>1, <1>2 DEF Others

LEMMA ListedSteps ==
  ASSUME Types, Numbered, RoleRefs, Listed, RolesNext
  PROVE  Listed'
<1> SUFFICES ASSUME NEW j \in Slots, slot'[j] \in Permitting
             PROVE  slot'[j].list \subseteq DOMAIN name'
  BY DEF Listed
<1>1. DOMAIN name \subseteq DOMAIN name'
  BY OtherSteps, NameSteps
<1>2. slot'[j] # Idle /\ slot[j] \in {Idle} \cup Handling
  BY Steps, Fields DEF Permitting, Types, Held
<1>3. CASE Stays(j)
  <2>1. slot[j] # Idle
    BY <1>2, <1>3 DEF Stays
  <2>2. slot[j] \in Permitting
    <3>1. slot'[j].pc = slot[j].pc
      BY <1>2, <1>3, <2>1, LateFields DEF Stays
    <3> QED BY <1>2, <3>1, Steps DEF Permitting
  <2>3. slot'[j].list = slot[j].list
    BY <1>2, <1>3, <2>1, <2>2, LateFields DEF Stays
  <2> QED BY <1>1, <2>2, <2>3 DEF Listed
<1>4. CASE Began(j)
  <2> DEFINE g == slot'[j]
  <2>1. g.list = Kept(g.how, g.key, g.names) /\ g.key \in Roles /\ g.how \in {"add", "remove", "update"}
    BY <1>4 DEF Began, Reads, Permitting
  <2> HIDE DEF g
  <2>2. perms[g.key] \subseteq DOMAIN name
    BY <2>1 DEF Types, Tables
  <2>3. g.list \subseteq DOMAIN name
    BY <2>1, <2>2 DEF Kept
  <2> QED BY <1>1, <2>3 DEF g
<1>5. CASE Went(j)
  <2>1. slot'[j] \notin Holds /\ slot'[j] \notin Driving
    BY DEF Permitting, Holds, Driving
  <2>2. CASE Found(j)
    BY <1>1, <2>2 DEF Found, Permits, Listed, Named
  <2>3. CASE Created(j)
    <3>1. PICK n \in slot[j].missing :
             name' = Append(name, n) /\ slot'[j].list = slot[j].list \cup {Len(name')}
      BY <2>3 DEF Created
    <3>2. slot[j] \in Permitting /\ n \in Names
      BY <2>3, <3>1 DEF Created, Permits, Permitting
    <3> QED BY <3>1, <3>2, Grows DEF Listed
  <2> QED BY <1>5, <2>1, <2>2, <2>3 DEF Went, Linked, Placed, Certified
<1> QED BY <1>2, <1>3, <1>4, <1>5, HandlerSteps DEF Gone

\* Handlers that nobody has overtaken and that do not go on are what they were.
LEMMA SameHandler ==
  ASSUME Types, NEW j \in Slots, Stays(j), slot'[j] # Idle, slot'[j].clean
  PROVE  slot[j] \in Handling /\ slot'[j] = slot[j] /\ Unwritten(slot[j])
<1>1. slot[j] \in {Idle} \cup Handling
  BY DEF Types, Held
<1>2. slot[j] # Idle => Late(slot[j]).clean = FALSE
  BY <1>1, LateFields
<1> QED BY <1>1, <1>2 DEF Stays

LEMMA AddressSteps ==
  ASSUME Types, Numbered, AllFresh, RolesNext, NEW j \in Slots,
         slot'[j] \in Registering, slot'[j].clean
  PROVE  user'[slot'[j].key] = None \/ user'[slot'[j].key].email # slot'[j].key
<1>1. slot'[j] # Idle /\ slot'[j].pc = "register" /\ slot'[j].key \in Ids
  BY Fields DEF Registering, Handling, OnAccount, Ids
<1>2. CASE Stays(j)
  <2>1. slot[j] \in Handling /\ slot'[j] = slot[j] /\ Unwritten(slot[j])
    BY <1>1, <1>2, SameHandler
  <2>2. user'[slot[j].key] = user[slot[j].key] /\ slot[j] # Idle
    BY <1>1, <2>1 DEF Unwritten, RoleSteps
  <2>3. FreshAddress(slot[j])
    BY <2>1, <2>2 DEF AllFresh, Fresh
  <2> QED BY <2>1, <2>2, <2>3 DEF FreshAddress
<1>3. CASE Began(j)
  BY <1>1, <1>3 DEF Began, Reads, ByEmail
<1>4. ~Went(j)
  BY <1>1 DEF Went, Linked, Placed, Certified, Found, Created, Permits, Holds, Driving, Permitting
<1> QED BY <1>1, <1>2, <1>3, <1>4, HandlerSteps DEF Gone

LEMMA RowHeldSteps ==
  ASSUME Types, Numbered, AllFresh, RolesNext, NEW j \in Slots,
         slot'[j] \in Holds, slot'[j].clean
  PROVE  /\ user'[slot'[j].key] # None
         /\ slot'[j].row.password \in {user'[slot'[j].key].password, slot'[j].call}
<1>1. slot'[j] # Idle /\ slot'[j].pc \notin RoleSteps
  BY Fields DEF Holds, Handling, OnAccount, RoleSteps
<1>2. CASE Stays(j)
  <2>1. slot[j] \in Handling /\ slot'[j] = slot[j] /\ Unwritten(slot[j])
    BY <1>1, <1>2, SameHandler
  <2>2. user'[slot[j].key] = user[slot[j].key] /\ slot[j] # Idle
    BY <1>1, <2>1 DEF Unwritten
  <2>3. FreshRow(slot[j])
    BY <2>1, <2>2 DEF AllFresh, Fresh
  <2> QED BY <2>1, <2>2, <2>3 DEF FreshRow
<1>3. CASE Began(j)
  BY <1>3 DEF Began, Reads
<1>4. CASE Linked(j)
  BY <1>4 DEF Linked
<1>5. CASE Placed(j)
  <2>1. slot[j] # Idle
    BY <1>5, Fields DEF Placed, Handling, OnAccount
  <2>2. FreshRow(slot[j])
    BY <1>5, <2>1 DEF AllFresh, Fresh, Placed
  <2> QED BY <1>5, <2>2 DEF Placed, FreshRow
<1>6. ~Certified(j) /\ ~Found(j) /\ ~Created(j)
  BY DEF Certified, Found, Created, Permits, Holds, Driving, Permitting
<1> QED BY <1>1, <1>2, <1>3, <1>4, <1>5, <1>6, HandlerSteps DEF Gone, Went

MembersNext(r) == {id \in Ids : user'[id] # None /\ user'[id].role = r}

LEMMA MemberSteps ==
  ASSUME Types, Numbered, AllFresh, RolesNext, NEW j \in Slots,
         slot'[j] \in Enlisting, slot'[j].clean
  PROVE  /\ slot'[j].how = "assign" =>
               slot'[j].list = MembersNext(slot'[j].key) \cup slot'[j].named
         /\ slot'[j].how = "remove" =>
               slot'[j].list = MembersNext(slot'[j].key) \ slot'[j].named
<1>1. slot'[j] # Idle /\ slot'[j].pc = "members"
  BY Fields DEF Enlisting, Handling, OnRole
<1>2. CASE Stays(j)
  <2>1. slot[j] \in Handling /\ slot'[j] = slot[j] /\ Unwritten(slot[j])
    BY <1>1, <1>2, SameHandler
  <2>2. Kin(slot[j].key) /\ slot[j] # Idle
    BY <1>1, <2>1 DEF Unwritten, RoleSteps
  <2>3. FreshMembers(slot[j])
    BY <2>1, <2>2 DEF AllFresh, Fresh
  <2>4. MembersNext(slot[j].key) = Members(slot[j].key)
    BY <2>2 DEF Kin, MembersNext, Members
  <2> QED BY <2>1, <2>3, <2>4 DEF FreshMembers
<1>3. CASE Began(j)
  <2>1. user' = user /\ Reads(slot'[j])
    BY <1>3 DEF Began
  <2>2. \A r : MembersNext(r) = Members(r)
    BY <2>1 DEF MembersNext, Members
  <2> QED BY <2>1, <2>2 DEF Reads
<1>4. ~Went(j)
  BY <1>1 DEF Went, Linked, Placed, Certified, Found, Created, Permits, Holds, Driving, Permitting
<1> QED BY <1>1, <1>2, <1>3, <1>4, HandlerSteps DEF Gone

NamesNext(ps) == {name'[p] : p \in ps}

AskedNext(h) ==
    CASE h.how = "update" -> h.names
      [] h.how = "add" -> NamesNext(perms'[h.key]) \cup h.names
      [] h.how = "remove" -> NamesNext(perms'[h.key]) \ h.names

LEMMA PermissionSteps ==
  ASSUME Types, Numbered, RoleRefs, Listed, AllFresh, RolesNext, NEW j \in Slots,
         slot'[j] \in Permitting, slot'[j].clean
  PROVE  NamesNext(slot'[j].list) \cup Due(slot'[j]) = AskedNext(slot'[j])
<1> DEFINE h == slot[j]
           g == slot'[j]
<1>1. g # Idle /\ g \notin Holds /\ g \notin Driving /\ g.key \in Roles
      /\ g.how \in {"add", "remove", "update"}
  BY Fields DEF Permitting, Handling, OnRole, Holds, Driving
<1>2. \A ps \in SUBSET DOMAIN name : NamesNext(ps) = NamesOf(ps)
  BY OtherSteps, NameSteps DEF NamesNext, NamesOf
<1>3. perms[g.key] \in SUBSET DOMAIN name
  BY <1>1 DEF Types, Tables
<1>4. h \in Permitting /\ h.clean => NamesOf(h.list) \cup Due(h) = Asked(h)
  <2>1. h \in Permitting => h # Idle
    BY Steps, Fields DEF Permitting
  <2> QED BY <2>1 DEF AllFresh, Fresh, FreshPermissions
<1>5. CASE Stays(j)
  <2>1. h \in Handling /\ g = h /\ Unwritten(h)
    BY <1>1, <1>5, SameHandler
  <2>2. h.pc \in RoleSteps
    BY <2>1 DEF Permitting, RoleSteps
  <2>3. perms'[h.key] = perms[h.key]
    BY <2>1, <2>2 DEF Unwritten
  <2>4. h.list \in SUBSET DOMAIN name
    BY <2>1 DEF Listed
  <2>5. NamesOf(h.list) \cup Due(h) = Asked(h)
    BY <1>4, <2>1
  <2>6. NamesNext(h.list) = NamesOf(h.list) /\ AskedNext(h) = Asked(h)
    BY <1>2, <1>3, <2>1, <2>3, <2>4 DEF AskedNext, Asked
  <2> QED BY <2>1, <2>5, <2>6
<1>6. CASE Began(j)
  <2>1. /\ g.pc = (IF g.how = "remove" THEN "permit" ELSE "find")
        /\ g.list = Kept(g.how, g.key, g.names) /\ perms' = perms
    BY <1>6 DEF Began, Reads
  <2>2. NamesNext(perms'[g.key]) = NamesOf(perms[g.key])
    BY <1>2, <1>3, <2>1
  <2> HIDE DEF g
  <2>3. CASE g.how = "remove"
    <3>1. g.list = perms[g.key] \ Named(g.names) /\ Due(g) = {}
      BY <2>1, <2>3 DEF Kept, Due
    <3>2. g.list \in SUBSET DOMAIN name
      BY <1>3, <3>1
    <3>3. NamesOf(g.list) = NamesOf(perms[g.key]) \ g.names
      BY <1>3, <3>1 DEF NamesOf, Named
    <3> QED BY <1>2, <2>2, <2>3, <3>1, <3>2, <3>3 DEF AskedNext, g
  <2>4. CASE g.how = "add"
    <3>1. g.list = perms[g.key] /\ Due(g) = g.names
      BY <2>1, <2>4 DEF Kept, Due
    <3> QED BY <1>2, <1>3, <2>2, <2>4, <3>1 DEF AskedNext, g
  <2>5. CASE g.how = "update"
    <3>1. g.list = {} /\ Due(g) = g.names
      BY <2>1, <2>5 DEF Kept, Due
    <3>2. NamesNext(g.list) = {}
      BY <3>1 DEF NamesNext
    <3> QED BY <2>5, <3>1, <3>2 DEF AskedNext, g
  <2> QED BY <1>1, <2>3, <2>4, <2>5
<1>7. CASE Found(j) \/ Created(j)
  <2>1. /\ h \in Permitting /\ g.key = h.key /\ g.how = h.how /\ g.names = h.names
        /\ g.clean = h.clean /\ g.pc = "create" /\ perms' = perms
    BY <1>7 DEF Found, Created, Permits
  <2>2. NamesOf(h.list) \cup Due(h) = Asked(h)
    BY <1>4, <2>1
  <2>3. AskedNext(g) = Asked(h)
    BY <1>2, <1>3, <2>1 DEF AskedNext, Asked
  <2>4. h.list \in SUBSET DOMAIN name
    BY <2>1 DEF Listed
  <2>5. CASE Found(j)
    <3>1. /\ h.pc = "find" /\ g.missing = Missing(h.names)
          /\ g.list = h.list \cup Named(h.names) /\ name' = name
      BY <2>5 DEF Found
    <3>2. Due(h) = h.names /\ Due(g) = Missing(h.names)
      BY <2>1, <3>1 DEF Due
    <3> HIDE DEF g, h
    <3>3. NamesNext(g.list) = NamesOf(h.list) \cup NamesOf(Named(h.names))
      BY <3>1 DEF NamesNext, NamesOf
    <3>4. NamesOf(Named(h.names)) \cup Missing(h.names) = h.names
      BY DEF NamesOf, Named, Missing
    <3>5. NamesNext(g.list) \cup Due(g) = NamesOf(h.list) \cup h.names
      BY <3>2, <3>3, <3>4
    <3> QED BY <2>2, <2>3, <3>2, <3>5 DEF g
  <2>6. CASE Created(j)
    <3>1. PICK n \in h.missing : /\ name' = Append(name, n)
                                 /\ g.missing = h.missing \ {n}
                                 /\ g.list = h.list \cup {Len(name')}
      BY <2>6 DEF Created
    <3>2. Due(h) = h.missing /\ Due(g) = h.missing \ {n} /\ n \in Names
      BY <2>1, <2>6, <3>1 DEF Created, Due, Permitting
    <3> HIDE DEF g, h
    <3>3. NamesNext(g.list) = NamesNext(h.list) \cup {n}
      <4>1. name'[Len(name')] = n
        BY <3>1, <3>2, Grows
      <4> QED BY <3>1, <4>1 DEF NamesNext
    <3>4. NamesNext(h.list) = NamesOf(h.list)
      BY <1>2, <2>4
    <3>5. NamesNext(g.list) \cup Due(g) = NamesOf(h.list) \cup h.missing
      BY <3>1, <3>2, <3>3, <3>4
    <3> QED BY <2>2, <2>3, <3>2, <3>5 DEF g
  <2> QED BY <1>7, <2>5, <2>6
<1> QED BY <1>1, <1>5, <1>6, <1>7, HandlerSteps DEF Gone, Went, Linked, Placed, Certified

LEMMA FreshSteps ==
  ASSUME Types, Numbered, RoleRefs, Listed, AllFresh, RolesNext
  PROVE  AllFresh'
<1> SUFFICES ASSUME NEW j \in Slots, slot'[j].clean
             PROVE  /\ FreshAddress(slot[j])' /\ FreshRow(slot[j])'
                    /\ FreshMembers(slot[j])' /\ FreshPermissions(slot[j])'
  BY DEF AllFresh, Fresh
<1>1. FreshAddress(slot[j])'
  BY AddressSteps DEF FreshAddress
<1>2. FreshMembers(slot[j])'
  BY MemberSteps DEF FreshMembers, Members, MembersNext
<1>3. FreshPermissions(slot[j])'
  BY PermissionSteps DEF FreshPermissions, NamesOf, NamesNext, Due, Asked, AskedNext
<1>4. FreshRow(slot[j])'
  BY RowHeldSteps DEF FreshRow
<1> QED BY <1>1, <1>2, <1>3, <1>4

\* What a step does to passwords, user names and drivers.
Words ==
    /\ stale => stale'
    /\ ~stale' => \A id \in Ids : user'[id] # None =>
          \/ user'[id].password = set'[id]
          \/ user[id] # None /\ user'[id].password = user[id].password /\ set'[id] = set[id]

Keeps(id) == user'[id] # None => user[id] # None /\ user'[id].username = user[id].username

Renames ==
    \/ \A id \in Ids : Keeps(id)
    \/ \E id \in Ids : /\ \A i \in Ids \ {id} : user'[i] = user[i]
                       /\ user'[id] # None => ByName(user'[id].username) \subseteq {id}

Enrolls ==
    \A id \in drivers' :
        \/ id \in drivers /\ (user[id] # None => user'[id] # None)
        \/ /\ id \in Ids /\ user'[id] # None
           /\ \E k \in Slots : slot'[k].pc = "certificate" /\ slot'[k].key = id

Wording == Words /\ Renames /\ Enrolls

LEMMA SameWords == user' = user /\ set' = set /\ drivers' = drivers /\ (stale => stale') => Wording
  BY DEF Wording, Words, Renames, Keeps, Enrolls

LEMMA SaveWords ==
  ASSUME Types, Numbered, AllFresh, NEW k \in Slots, slot[k] \in OnAccount,
         NEW row \in Account, NEW next, Saved(k, row, next), UNCHANGED <<perms, name>>
  PROVE  Wording
<1> DEFINE id == slot[k].key
<1>1. id \in Ids /\ slot[k] # Idle /\ slot[k].clean \in BOOLEAN
  BY Fields
<1>2. /\ \/ /\ Fits(id, row) /\ user' = [user EXCEPT ![id] = row]
            /\ stale' = (stale \/ ~slot[k].clean)
         \/ user' = user /\ stale' = stale
      /\ slot'[k] = (IF Fits(id, row) THEN next ELSE Idle)
  BY <1>1, WriteMoves DEF Saved
<1>3. CASE user' = user
  <2>1. set' = set
    BY <1>1, <1>3 DEF Saved, Gave, Types, Aside
  <2>2. drivers' = drivers
    BY <1>3 DEF Saved
  <2>3. stale => stale'
    BY <1>2
  <2> QED BY <1>3, <2>1, <2>2, <2>3, SameWords
<1>4. CASE /\ Fits(id, row) /\ user' = [user EXCEPT ![id] = row] /\ user' # user
           /\ stale' = (stale \/ ~slot[k].clean)
  <2>1. user'[id] = row /\ \A i \in Ids \ {id} : user'[i] = user[i]
    BY <1>1, <1>4 DEF Types, Tables
  <2>2. row # None
    BY Nones
  <2>3. Words
    <3>1. stale => stale'
      BY <1>4
    <3>2. CASE ~stale'
      <4>1. \A i \in Ids \ {id} : set'[i] = set[i]
        BY <1>1 DEF Saved, Gave, Types, Aside
      <4>2. slot[k] \in Holds => /\ user[id] # None
                                 /\ slot[k].row.password \in {user[id].password, slot[k].call}
        BY <1>1, <1>4, <3>2 DEF AllFresh, Fresh, FreshRow
      <4>3. \/ row.password = set'[id]
            \/ user[id] # None /\ row.password = user[id].password /\ set'[id] = set[id]
        <5>1. CASE Gave(id, row.password)
          BY <1>1, <1>4, <5>1 DEF Gave, Types, Aside
        <5>2. CASE slot[k] \in Holds /\ set' = set /\ row.password = slot[k].row.password
                   /\ row.password # slot[k].call
          BY <4>2, <5>2
        <5> QED BY <5>1, <5>2 DEF Saved
      <4> QED BY <2>1, <3>1, <4>1, <4>3 DEF Words
    <3> QED BY <3>1, <3>2 DEF Words
  <2>4. Renames
    BY <1>1, <1>4, <2>1 DEF Renames, Fits
  <2>5. Enrolls
    <3>1. \A i \in drivers : user[i] # None => user'[i] # None
      BY <1>1, <1>4, <2>2 DEF Types, Tables
    <3>2. CASE drivers' = drivers
      BY <3>1, <3>2 DEF Enrolls
    <3>3. CASE /\ slot[k].pc = "driver" /\ next = [slot[k] EXCEPT !.pc = "certificate"]
               /\ drivers' = drivers \cup {id}
      <4>1. slot[k] \in Driving
        BY <3>3, Steps, Apart
      <4>2. next.pc = "certificate" /\ next.key = id
        BY <3>3, <4>1 DEF Driving
      <4>3. slot'[k].pc = "certificate" /\ slot'[k].key = id
        BY <1>2, <1>4, <4>2
      <4> QED BY <1>1, <2>1, <2>2, <3>1, <3>3, <4>3 DEF Enrolls
    <3> QED BY <1>4, <3>2, <3>3 DEF Saved
  <2> QED BY <2>3, <2>4, <2>5 DEF Wording
<1> QED BY <1>2, <1>3, <1>4

LEMMA PlaceWords ==
  ASSUME Types, NEW k \in Slots, DeletePlaces(k) \/ InsertPlaces(k), UNCHANGED <<perms, name>>
  PROVE  Wording
<1> DEFINE id == slot[k].key
<1>1. user' = user \/ (user[id] # None /\ id \in Ids /\ \E new \in SUBSET Numbers :
                            user' = [user EXCEPT ![id].places = new])
  BY PlaceWrites
<1>2. set' = set /\ stale' = stale /\ drivers' = drivers
  BY DEF DeletePlaces, InsertPlaces, Rest
<1>3. CASE user' = user
  BY <1>2, <1>3, SameWords
<1>4. CASE /\ user[id] # None /\ id \in Ids
           /\ \E new \in SUBSET Numbers : user' = [user EXCEPT ![id].places = new]
  <2>1. /\ user'[id].username = user[id].username /\ user'[id].password = user[id].password
        /\ user'[id] # None /\ \A i \in Ids \ {id} : user'[i] = user[i]
    BY <1>4, PlacesOnly
  <2>2. Words
    BY <1>2, <1>4, <2>1 DEF Words
  <2>3. Renames
    BY <1>4, <2>1 DEF Renames, Keeps
  <2>4. \A i \in drivers : user[i] # None => user'[i] # None
    BY <1>4, <2>1 DEF Types, Tables
  <2> QED BY <1>2, <2>2, <2>3, <2>4 DEF Wording, Enrolls
<1> QED BY <1>1, <1>3, <1>4

LEMMA AdminWords ==
  ASSUME Types, drivers \subseteq Present,
         \/ \E n \in UserNames, e \in Emails \cup {None}, r \in Roles : Create(n, e, r)
         \/ \E id \in Ids : Remove(id)
  PROVE  Wording
<1>1. ASSUME NEW m \in UserNames, NEW e \in Emails \cup {None}, NEW r \in Roles, Create(m, e, r)
      PROVE  Wording
  <2> DEFINE n == calls + 1
             row == NewAccount(m, e, r, "email", None, n)
  <2>1. /\ calls < MaxCalls /\ user' = [user EXCEPT ![n] = row] /\ set' = [set EXCEPT ![n] = n]
        /\ stale' = stale /\ drivers' = drivers /\ ByName(row.username) \subseteq {n}
    BY <1>1 DEF Create, Call, Fits
  <2>2. n \in Ids /\ n \in Numbers
    BY <2>1, Nones DEF Types, Tables, Numbers, Ids
  <2>3. row.password = n /\ row \in Account
    BY <2>2 DEF NewAccount, Account
  <2> HIDE DEF row, n
  <2>4. user'[n] = row /\ set'[n] = n /\ \A i \in Ids \ {n} : user'[i] = user[i] /\ set'[i] = set[i]
    BY <2>1, <2>2 DEF Types, Tables, Aside
  <2>5. Words
    BY <2>1, <2>3, <2>4 DEF Words
  <2>6. Renames
    BY <2>1, <2>2, <2>4 DEF Renames
  <2>7. Enrolls
    BY <2>1, <2>3, <2>4, Nones DEF Enrolls, Present
  <2> QED BY <2>5, <2>6, <2>7 DEF Wording
<1>2. ASSUME NEW id \in Ids, Remove(id) PROVE Wording
  <2>1. /\ user' = [user EXCEPT ![id] = None] /\ set' = [set EXCEPT ![id] = None] /\ stale' = stale
        /\ drivers' = drivers \ {id}
    BY <1>2 DEF Remove
  <2>2. user'[id] = None /\ \A i \in Ids \ {id} : user'[i] = user[i] /\ set'[i] = set[i]
    BY <2>1 DEF Types, Tables, Aside
  <2>3. Words
    BY <2>1, <2>2 DEF Words
  <2>4. Renames
    BY <2>2 DEF Renames, Keeps
  <2>5. Enrolls
    BY <2>1, <2>2 DEF Enrolls, Present
  <2> QED BY <2>3, <2>4, <2>5 DEF Wording
<1> QED BY <1>1, <1>2

LEMMA WordSteps ==
  ASSUME Types, Numbered, AllFresh, drivers \subseteq Present, RolesNext
  PROVE  Wording
<1>1. CASE Quiet
  BY <1>1, SameWords DEF Quiet
<1>2. ASSUME NEW k \in Slots, UNCHANGED <<perms, name>>,
             \/ RegisterSave(k) \/ GoogleSave(k) \/ SaveRow(k) \/ ResetSave(k) \/ DriverSave(k)
      PROVE  Wording
  <2>1. slot[k] \in OnAccount /\ \E row \in Account : \E next : Saved(k, row, next)
    BY <1>2, Saves DEF Numbered
  <2> QED BY <1>2, <2>1, SaveWords
<1>3. ASSUME NEW k \in Slots, MembersSave(k) PROVE Wording
  <2>1. set' = set /\ (stale => stale') /\ drivers' = drivers
    BY <1>3 DEF MembersSave, Untouched
  <2>2. /\ \A id \in Ids : user[id] = None => user'[id] = None
        /\ \A id \in Ids : user[id] # None =>
              /\ user'[id] # None
              /\ user'[id].username = user[id].username /\ user'[id].password = user[id].password
    BY <1>3, MemberRows
  <2>3. Words /\ Renames
    BY <2>1, <2>2 DEF Words, Renames, Keeps
  <2>4. Enrolls
    BY <2>1, <2>2 DEF Enrolls, Present
  <2> QED BY <2>3, <2>4 DEF Wording
<1>4. ASSUME (\E r \in Roles : DeleteRole(r)) \/ CreateRole PROVE Wording
  <2>1. user' = user /\ set' = set /\ stale' = stale /\ drivers' = drivers
    BY <1>4 DEF DeleteRole, CreateRole, Untouched
  <2>2. stale => stale'
    BY <2>1
  <2> QED BY <2>1, <2>2, SameWords
<1>5. ASSUME NEW k \in Slots, DetailsSave(k) \/ CreatePermission(k) \/ PermissionsSave(k)
      PROVE  Wording
  <2>1. user' = user /\ set' = set /\ drivers' = drivers
    BY <1>5 DEF DetailsSave, CreatePermission, PermissionsSave, Untouched
  <2>2. stale => stale'
    BY <1>5 DEF DetailsSave, CreatePermission, PermissionsSave
  <2> QED BY <2>1, <2>2, SameWords
<1> QED BY <1>1, <1>2, <1>3, <1>4, <1>5, QuietSteps, PlaceWords, AdminWords

\* The registration of a driver ends with a certificate.
LEMMA CertificateSteps ==
  ASSUME Types, Numbered, RoleRefs, Listed, RolesNext, ~crashed',
         NEW k \in Slots, slot[k].pc = "certificate"
  PROVE  \/ slot'[k].pc = "certificate" /\ slot'[k].key = slot[k].key
         \/ cert'[slot[k].key] # None
         \/ user' = user /\ user[slot[k].key] = None
<1>1. slot[k] \in Driving /\ slot[k] \in Handling /\ slot[k] # Idle /\ slot[k].key \in Ids
  BY Steps, Fields DEF Types, Held, Handling, OnAccount
<1>2. CASE Stays(k)
  BY <1>1, <1>2, LateFields DEF Stays
<1>3. ~Began(k) /\ ~Went(k)
  BY <1>1 DEF Began, Went, Linked, Placed, Certified, Found, Created, Permits, Driving, Linking, Holds,
              Permitting
<1>4. CASE CertificateSave(k)
  BY <1>1, <1>4, Nones DEF CertificateSave, Types, Aside, Certificates
<1> QED BY <1>2, <1>3, <1>4, HandlerSteps DEF Gone

LEMMA PasswordSteps ==
  ASSUME Types, Numbered, RoleRefs, Listed, AllFresh, Passwords, UniqueNames, Drivers, RolesNext
  PROVE  Passwords' /\ UniqueNames' /\ Drivers'
<1>1. Words /\ Renames /\ Enrolls /\ Others
  BY WordSteps, OtherSteps DEF Drivers, Wording
<1>2. Passwords'
  BY <1>1 DEF Words, Passwords
<1>3. UniqueNames'
  <2> SUFFICES ASSUME NEW i \in Ids, NEW j \in Ids, user'[i] # None, user'[j] # None,
                      user'[i].username = user'[j].username, i # j
               PROVE  FALSE
    BY DEF UniqueNames
  <2>1. CASE Keeps(i) /\ Keeps(j)
    BY <2>1 DEF Keeps, UniqueNames
  <2>2. ASSUME NEW id \in Ids, \A m \in Ids \ {id} : user'[m] = user[m],
               user'[id] # None => ByName(user'[id].username) \subseteq {id}
        PROVE  FALSE
    <3>1. CASE i # id /\ j # id
      BY <2>2, <3>1 DEF UniqueNames
    <3>2. CASE i = id
      <4>1. j \in ByName(user'[id].username)
        BY <2>2, <3>2 DEF ByName
      <4> QED BY <2>2, <3>2, <4>1
    <3>3. CASE j = id
      <4>1. i \in ByName(user'[id].username)
        BY <2>2, <3>3 DEF ByName
      <4> QED BY <2>2, <3>3, <4>1
    <3> QED BY <3>1, <3>2, <3>3
  <2> QED BY <1>1, <2>1, <2>2 DEF Renames
<1>4. Drivers'
  <2>1. drivers' \subseteq Present'
    BY <1>1 DEF Enrolls, Drivers, Present
  <2>2. ASSUME ~crashed', NEW id \in drivers'
        PROVE  cert'[id] # None \/ \E k \in Slots : slot'[k].pc = "certificate" /\ slot'[k].key = id
    <3>1. CASE \E k \in Slots : slot'[k].pc = "certificate" /\ slot'[k].key = id
      BY <3>1
    <3>2. CASE id \in drivers
      <4>1. ~crashed /\ id \in Ids /\ user[id] # None
        BY <1>1, <2>2, <3>2 DEF Others, Drivers, Present
      <4>2. cert[id] # None \/ \E k \in Slots : slot[k].pc = "certificate" /\ slot[k].key = id
        BY <3>2, <4>1 DEF Drivers
      <4>3. CASE cert[id] # None
        BY <1>1, <4>1, <4>3 DEF Others
      <4>4. ASSUME NEW k \in Slots, slot[k].pc = "certificate", slot[k].key = id
            PROVE  \/ cert'[id] # None
                   \/ \E j \in Slots : slot'[j].pc = "certificate" /\ slot'[j].key = id
        BY <2>2, <4>1, <4>4, CertificateSteps
      <4> QED BY <4>2, <4>3, <4>4
    <3> QED BY <1>1, <2>2, <3>1, <3>2 DEF Enrolls
  <2> QED BY <2>1, <2>2 DEF Drivers
<1> QED BY <1>2, <1>3, <1>4

LEMMA StepIInv == IInv /\ [RolesNext]_rolesVars => IInv'
<1>1. ASSUME IInv, RolesNext PROVE IInv'
  BY <1>1, TypeSteps, NumberedSteps, NewbornSteps, ListedSteps, FreshSteps, PasswordSteps DEF IInv
<1>2. ASSUME IInv, UNCHANGED rolesVars PROVE IInv'
  <2> USE <1>2 DEF IInv, rolesVars, accountVars
  <2>1. Types'
    <3>1. slot' \in [Slots -> {Idle} \cup Handling]
      BY DEF Types, Held
    <3>2. Held'
      BY <3>1, SameKinds DEF Held
    <3> QED BY <3>2 DEF Types, Tables, Aside
  <2>2. Numbered' /\ Newborn'
    BY DEF Numbered, Newborn
  <2>3. RoleRefs' /\ Listed'
    BY DEF RoleRefs, Present, Listed
  <2>4. AllFresh'
    <3> SUFFICES ASSUME NEW j \in Slots, slot'[j] # Idle, slot'[j].clean
                 PROVE  /\ FreshAddress(slot[j])' /\ FreshRow(slot[j])'
                        /\ FreshMembers(slot[j])' /\ FreshPermissions(slot[j])'
      BY DEF AllFresh, Fresh
    <3>1. /\ FreshAddress(slot[j]) /\ FreshRow(slot[j])
          /\ FreshMembers(slot[j]) /\ FreshPermissions(slot[j])
      BY DEF AllFresh, Fresh
    <3>2. FreshAddress(slot[j])' /\ FreshMembers(slot[j])' /\ FreshRow(slot[j])'
      BY <3>1 DEF FreshAddress, FreshMembers, FreshRow, Members
    <3>3. NamesNext(slot'[j].list) \cup Due(slot'[j]) = NamesOf(slot[j].list) \cup Due(slot[j])
      BY DEF NamesNext, NamesOf
    <3>4. AskedNext(slot'[j]) = Asked(slot[j])
      <4>1. slot' = slot /\ perms' = perms /\ \A ps : NamesNext(ps) = NamesOf(ps)
        BY DEF NamesNext, NamesOf
      <4> QED BY ONLY <4>1 DEF AskedNext, Asked
    <3>5. slot'[j] \in Permitting =>
             NamesNext(slot'[j].list) \cup Due(slot'[j]) = AskedNext(slot'[j])
      BY <3>1, <3>3, <3>4 DEF FreshPermissions
    <3>6. FreshPermissions(slot[j])'
      BY ONLY <3>5 DEF FreshPermissions, NamesOf, NamesNext, Due, Asked, AskedNext
    <3> QED BY <3>2, <3>6
  <2>5. Passwords' /\ UniqueNames' /\ Drivers'
    BY DEF Passwords, UniqueNames, Drivers, Present
  <2> QED BY <2>1, <2>2, <2>3, <2>4, <2>5
<1> QED BY <1>1, <1>2

LEMMA InitIInv == RolesInit => IInv
<1> SUFFICES ASSUME RolesInit PROVE IInv
  OBVIOUS
<1>1. PICK s \in Starts :
         /\ user = [id \in Ids |-> IF id \in DOMAIN s.user THEN s.user[id] ELSE None]
         /\ cert = [id \in Ids |-> IF id = 0 THEN s.cert ELSE None]
  BY DEF RolesInit, AccountsInit
<1>2. PICK first \in Names : name = <<first>>
  BY DEF RolesInit
<1>3. /\ DOMAIN s.user \subseteq Emails \cup {0} /\ s.cert \in Certificates \cup {None}
      /\ s.cert # None => 0 \in DOMAIN s.user
      /\ \A id \in DOMAIN s.user : s.user[id] \in Account
      /\ \A i, j \in DOMAIN s.user : s.user[i].username = s.user[j].username => i = j
  BY AccountsAssumption
<1>4. /\ roles = Roles /\ otp = [p \in Phones |-> None] /\ slot = [k \in Slots |-> Idle]
      /\ now = 0 /\ calls = 0
      /\ set = [id \in Ids |-> IF user[id] = None THEN None ELSE user[id].password]
      /\ perms = [r \in Roles |-> IF r = "super_admin" THEN DOMAIN name ELSE {}]
      /\ drivers = {id \in Ids : cert[id] # None}
  BY DEF RolesInit, AccountsInit
<1>5. user \in [Ids -> Account \cup {None}]
  BY <1>1, <1>3
<1>6. Types
  <2>1. cert \in [Ids -> Certificates \cup {None}]
    BY <1>1, <1>3
  <2>2. set \in [Ids -> Numbers \cup {None}]
    <3>1. \A id \in Ids : user[id] # None => user[id].password \in Numbers
      BY <1>5 DEF Account
    <3> QED BY <1>4, <3>1
  <2>3. 0 \in Numbers /\ 0 \in 0..MaxTime
    BY Nones DEF Numbers
  <2>4. name \in Seq(Names)
    BY <1>2
  <2> QED BY <1>4, <1>5, <2>1, <2>2, <2>3, <2>4 DEF Types, Tables, Held, Aside
<1>7. \A j \in Slots : slot[j] = Idle /\ Idle \notin OnAccount /\ Idle \notin Permitting
                       /\ Idle.pc # "driver"
  BY <1>4, Fields DEF Handling, OnRole
<1>8. Numbered
  <2>1. ASSUME NEW n \in Numbers, n > calls PROVE user[n] = None
    <3>1. n \in Ids /\ n # 0 /\ n \notin Emails
      BY <1>4, <2>1, Nones DEF Ids
    <3> QED BY <1>1, <1>3, <3>1
  <2>2. Idle \notin Googling \cup Driving
    BY <1>7, Fields DEF Handling, OnAccount
  <2> QED BY <1>7, <2>1, <2>2 DEF Numbered
<1>9. Newborn /\ Listed /\ AllFresh
  BY <1>7 DEF Newborn, Listed, AllFresh, Fresh
<1>10. RoleRefs
  <2>1. \A id \in Ids : user[id] # None => user[id].role \in Roles \cup {None}
    BY <1>5 DEF Account
  <2> QED BY <1>4, <2>1 DEF RoleRefs, Present
<1>11. Passwords
  BY <1>4 DEF Passwords
<1>12. Drivers
  <2>1. 0 \in Ids
    BY Nones DEF Ids, Numbers
  <2>2. \A id \in Ids : cert[id] # None => user[id] # None
    BY <1>1, <1>3, <2>1, Nones
  <2> QED BY <1>4, <2>2 DEF Drivers, Present
<1>13. UniqueNames
  <2>1. \A id \in Ids : user[id] # None => id \in DOMAIN s.user /\ user[id] = s.user[id]
    BY <1>1
  <2> QED BY <1>3, <2>1 DEF UniqueNames
<1> QED BY <1>6, <1>8, <1>9, <1>10, <1>11, <1>12, <1>13 DEF IInv

\* The inductive invariant holds.
LEMMA RolesIInv == RolesSpec => []IInv
  BY InitIInv, StepIInv, PTL DEF RolesSpec

-----------------------------------------------------------------------------
(* The tables of AuthService, UsersService and RolesService are well formed: an    *)
(* account's role, and what has permissions, is a row of roles.                    *)
THEOREM RolesTypeCorrect == RolesSpec => []RolesTypeOK
<1>1. IInv => RolesTypeOK
  BY DEF IInv, Types, Tables, Aside, RoleRefs, Drivers, Present, RolesTypeOK, AccountsTypeOK
<1> QED BY <1>1, RolesIInv, PTL

(* An account with a role that is alone with its e-mail address logs in with the   *)
(* password it was last given, and a driver is told the status of the certificate, *)
(* unless a stale row was saved; a registered driver has a certificate unless the  *)
(* server stopped (login, loginDriver, register, registerDriver, resetPassword,    *)
(* update), whatever user names and addresses the administration chooses.          *)
THEOREM PasswordWorksCorrect == RolesSpec => []PasswordWorks
<1>1. ASSUME IInv, ~stale, NEW id \in Ids, user[id] # None, user[id].role # None
      PROVE  /\ \A e \in Emails : ByEmail(e) = {id} => Login(e, set[id])
             /\ cert[id] # None => LoginDriver(user[id].username, set[id]) \in Certificates
  <2>1. user[id].password = set[id]
    BY <1>1 DEF IInv, Passwords
  <2>2. \A e \in Emails : ByEmail(e) = {id} => Login(e, set[id])
    BY <1>1, <2>1 DEF Login
  <2> DEFINE n == user[id].username
  <2>3. ByName(n) = {id}
    BY <1>1 DEF ByName, IInv, UniqueNames
  <2>4. (CHOOSE i \in ByName(n) : TRUE) = id
    BY <2>3
  <2>5. cert[id] # None => LoginDriver(n, set[id]) \in Certificates
    <3>1. cert[id] # None => cert[id] \in Certificates
      BY <1>1 DEF IInv, Types, Aside
    <3> HIDE DEF n
    <3> QED BY <1>1, <2>1, <2>3, <2>4, <3>1 DEF LoginDriver
  <2> QED BY <2>2, <2>5
<1>2. ASSUME IInv, ~crashed, NEW id \in drivers
      PROVE  cert[id] # None \/ \E k \in Slots : At(k, "certificate") /\ slot[k].key = id
  BY <1>2 DEF IInv, Drivers, At
<1>3. IInv => PasswordWorks
  BY <1>1, <1>2 DEF PasswordWorks
<1> QED BY <1>3, RolesIInv, PTL

(* A registration makes an account and changes none, unless it overlaps with       *)
(* another of its address or that key has another address (register, its save).    *)
THEOREM RegistrationCreatesCorrect == RolesSpec => RegistrationCreates
<1> DEFINE A == \A k \in Slots :
                   At(k, "register") /\ slot'[k] = Idle /\ user' # user /\ user[slot[k].key] # None =>
                       ~slot[k].clean \/ user[slot[k].key].email # slot[k].key
<1>1. IInv => A
  <2> SUFFICES ASSUME IInv, NEW k \in Slots, slot[k].pc = "register", slot[k].clean,
                      user[slot[k].key] # None
               PROVE  user[slot[k].key].email # slot[k].key
    BY DEF At
  <2>1. slot[k] \in Registering /\ slot[k] # Idle
    BY Steps DEF IInv, Types, Held
  <2>2. FreshAddress(slot[k])
    BY <2>1 DEF IInv, AllFresh, Fresh
  <2> QED BY <2>1, <2>2 DEF FreshAddress
<1> HIDE DEF A
<1>2. RolesSpec => [][A]_accountVars
  BY <1>1, RolesIInv, PTL
<1> QED BY <1>2 DEF RegistrationCreates, A

(* An account's role changes when a request names the account, or a handler that   *)
(* read it or was overtaken saves it (saves of AuthService, UsersService and       *)
(* assignUsersToRole, removeUsersFromRole); addUsersToRole alone moves the others. *)
THEOREM OnlyNamedMoveCorrect == RolesSpec => OnlyNamedMove
<1> DEFINE A == \A id \in Ids :
                   user[id] # None /\ user'[id] # None /\ user'[id].role # user[id].role =>
                       \E k \in Slots :
                           /\ ~At(k, "idle") /\ slot'[k] = Idle
                           /\ \/ HasRead(k, {id}, {}) \/ ~slot[k].clean
                              \/ At(k, "members") /\ (id \in slot[k].named \/ slot[k].how = "add")
<1>1. IInv /\ [RolesNext]_rolesVars => [A]_rolesVars
  <2> SUFFICES ASSUME IInv, RolesNext PROVE A
    OBVIOUS
  <2>1. Rows
    BY RowSteps DEF IInv
  <2>2. \A k \in Slots : slot[k] # Idle => ~At(k, "idle")
    BY Steps DEF At, IInv, Types, Held
  <2>3. \A k \in Slots, id \in Ids : slot[k] \in OnAccount /\ slot[k].key = id => HasRead(k, {id}, {})
    BY Fields DEF HasRead, At
  <2>4. \A k \in Slots : slot[k] \in Enlisting => At(k, "members")
    BY DEF Enlisting, At
  <2> QED BY <2>1, <2>2, <2>3, <2>4 DEF Rows, Turned
<1> HIDE DEF A
<1>2. RolesSpec => [][A]_rolesVars
  BY <1>1, RolesIInv, PTL DEF RolesSpec
<1> QED BY <1>2 DEF OnlyNamedMove, A

(* When addPermissionsToRole, removePermissionsFromRole or updateRolePermissions   *)
(* is done, RolesGuard grants the members of the role what the request says, by    *)
(* name or as all of a category, and no more, unless the role was written          *)
(* meanwhile.                                                                      *)
THEOREM PermissionsAsAskedCorrect == RolesSpec => PermissionsAsAsked
<1> DEFINE A == \A k \in Slots :
         LET h == slot[k]
             old == {name[p] : p \in perms[h.key]}
             asked == CASE h.how = "update" -> h.names
                        [] h.how = "add" -> old \cup h.names
                        [] h.how = "remove" -> old \ h.names
         IN  h.pc \in {"permit", "create"} /\ h.clean /\ slot'[k] = Idle /\ crashed' = crashed =>
               \A id \in Members(h.key), ns \in SUBSET Names :
                   Granted(id, ns)' <=> Allows(asked, ns)
<1>1. IInv /\ [RolesNext]_rolesVars => [A]_rolesVars
  <2>1. ASSUME IInv, RolesNext, NEW k \in Slots, slot[k].pc \in {"permit", "create"},
               slot[k].clean, slot'[k] = Idle, crashed' = crashed,
               NEW id \in Members(slot[k].key), NEW ns \in SUBSET Names
        PROVE  Granted(id, ns)' <=> Allows(Asked(slot[k]), ns)
    <3> DEFINE h == slot[k]
    <3>1. h \in Permitting /\ h # Idle /\ h \in Handling
      BY <2>1, Steps DEF IInv, Types, Held, Handling, OnRole
    <3>2. PermissionsSave(k)
      <4>1. Stays(k) \/ Began(k) \/ Gone(k) \/ Went(k)
        BY <2>1, HandlerSteps DEF IInv
      <4>2. ~Stays(k)
        BY <2>1, <3>1, LateFields, Fields DEF Stays
      <4>3. ~Began(k) /\ ~Went(k)
        BY <2>1, <3>1, Carries, Fields DEF Began, Carried, Went, Linked, Placed, Certified, Found,
           Created, Permits, Handling, OnAccount, OnRole
      <4> QED BY <2>1, <3>1, <4>1, <4>2, <4>3 DEF Gone
    <3>3. h.key \in Roles
      BY <3>1 DEF Permitting
    <3>4. user' = user /\ name' = name /\ perms'[h.key] = h.list
      BY <2>1, <3>2, <3>3 DEF PermissionsSave, IInv, Types, Tables
    <3>5. user[id] # None /\ user[id].role = h.key /\ h.key # None
      BY <2>1, <3>3, Nones DEF Members
    <3>6. NamesOf(h.list) = Asked(h)
      <4>1. NamesOf(h.list) \cup Due(h) = Asked(h)
        BY <2>1, <3>1 DEF IInv, AllFresh, Fresh, FreshPermissions
      <4>2. Due(h) = {}
        BY <2>1, <3>2 DEF PermissionsSave, At, Due
      <4> QED BY <4>1, <4>2
    <3>7. Granted(id, ns)' <=> Allows(NamesOf(h.list), ns)
      BY <3>4, <3>5 DEF Granted, Allows, NamesOf
    <3> QED BY <3>6, <3>7
  <2>2. ASSUME IInv, RolesNext PROVE A
    BY <2>1, <2>2 DEF Asked, NamesOf
  <2> QED BY <2>2
<1> HIDE DEF A
<1>2. RolesSpec => [][A]_rolesVars
  BY <1>1, RolesIInv, PTL DEF RolesSpec
<1> QED BY <1>2 DEF PermissionsAsAsked, A
=============================================================================

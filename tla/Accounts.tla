------------------------------ MODULE Accounts ------------------------------
(***************************************************************************)
(* Accounts: AuthService and UsersService with the users, addresses and    *)
(* shipper certificates.  A handler reads an account, awaits (a hash, a    *)
(* second read, the addresses) and saves the whole row it read, its role   *)
(* and its addresses included; saving a row that is gone inserts it again. *)
(* Between two awaits any other handler may run, the membership handlers   *)
(* of Roles.tla too.  Passwords, links, addresses and generated keys are   *)
(* all new values: the number of the call that makes them.                 *)
(***************************************************************************)
EXTENDS Integers, FiniteSets

CONSTANTS None,       \* no row, no value
          Slots,      \* handlers that may be in progress at once
          Emails,     \* e-mail addresses; a registration's key is its address
          Phones,     \* phone numbers
          Googles,    \* Google accounts
          Starts,     \* what the tables may hold to begin with
          LinkLife,   \* ticks a reset link is good for (an hour)
          MaxTime,    \* bound: ticks of the clock
          MaxCalls    \* bound: requests

Roles == {"user", "shipper", "administrator", "super_admin"}
Numbers == 0..MaxCalls
Ids == Emails \cup Numbers
UserNames == Emails \cup Phones     \* user names: any words
Certificates == {"PENDING", "APPROVED", "REJECTED"}

\* What a row of users holds: email, link, google and role may be NULL.
Account == [username : UserNames, email : Emails \cup {None}, password : Numbers,
            link : Numbers \cup {None}, until : Nat, by : {"email", "google"},
            google : Googles \cup {None}, role : Roles \cup {None}, places : SUBSET Numbers]

ASSUME AccountsAssumption ==
    /\ LinkLife \in Nat \ {0} /\ MaxTime \in Nat /\ MaxCalls \in Nat
    /\ None \notin UserNames \cup Googles \cup Slots \cup Numbers
    /\ None \notin Roles \cup Certificates /\ None \notin Account
    /\ Emails \cap Numbers = {}
    /\ \A s \in Starts :
          /\ DOMAIN s.user \subseteq Emails \cup {0} /\ s.cert \in Certificates \cup {None}
          /\ s.cert # None => 0 \in DOMAIN s.user
          /\ \A id \in DOMAIN s.user : s.user[id] \in Account
          /\ \A i, j \in DOMAIN s.user : s.user[i].username = s.user[j].username => i = j

VARIABLES
    user,     \* the rows of users, with the addresses that refer to each
    cert,     \* the status of the certificate that refers to an account
    roles,    \* the rows of roles
    otp,      \* otpStore
    slot,     \* the handlers in progress
    now, calls,
    set,      \* history: the password an account was last given
    drivers,  \* history: the accounts with a certificate, or registered to have one
    stale,    \* history: a handler saved a row that was written after it read it
    crashed   \* history: the server was restarted

accountVars == <<user, cert, roles, otp, slot, now, calls, set, drivers, stale, crashed>>

Idle == [pc |-> "idle"]
At(k, pc) == slot[k].pc = pc
Call == calls + 1     \* the number of the request that begins

\* The accounts findByEmail and findByUsername may return.
ByEmail(e) == {id \in Ids : user[id] # None /\ user[id].email = e}
ByName(n) == {id \in Ids : user[id] # None /\ user[id].username = n}

-----------------------------------------------------------------------------
(* What a login answers to a password; nothing is written.                 *)

\* loginWithEmailPassword: whichever account findByEmail returns must have the
\* password, and an account without a role is an error too.
Login(e, password) ==
    /\ ByEmail(e) # {}
    /\ \A id \in ByEmail(e) : user[id].password = password /\ user[id].role # None

\* loginDriver: user names are unique.
LoginDriver(n, password) ==
    LET id == CHOOSE i \in ByName(n) : TRUE IN
    IF ByName(n) = {} \/ user[id].password # password THEN "invalid"
    ELSE IF cert[id] = None THEN "not a driver"
    ELSE IF cert[id] = "APPROVED" /\ user[id].role = None THEN "error" ELSE cert[id]

-----------------------------------------------------------------------------
AccountsInit ==
    /\ \E s \in Starts :
          /\ user = [id \in Ids |-> IF id \in DOMAIN s.user THEN s.user[id] ELSE None]
          /\ cert = [id \in Ids |-> IF id = 0 THEN s.cert ELSE None]
    /\ roles = Roles
    /\ otp = [p \in Phones |-> None]
    /\ slot = [k \in Slots |-> Idle]
    /\ now = 0 /\ calls = 0
    /\ set = [id \in Ids |-> IF user[id] = None THEN None ELSE user[id].password]
    /\ drivers = {id \in Ids : cert[id] # None}
    /\ stale = FALSE /\ crashed = FALSE

Begin(k, held) ==
    /\ At(k, "idle") /\ calls < MaxCalls
    /\ calls' = calls + 1
    /\ slot' = [slot EXCEPT ![k] = held]
    /\ UNCHANGED <<user, cert, roles, otp, now, set, drivers, stale, crashed>>

\* A handler that has read what is written under key: an account or a role.
Handler(pc, key) == [pc |-> pc, key |-> key, call |-> Call, clean |-> TRUE]

\* The steps of the handlers that have read a role (Roles.tla).
RoleSteps == {"details", "members", "permit", "find", "create"}

\* The handler in slot j has read one of these accounts, or one of these roles.
HasRead(j, ids, rs) ==
    ~At(j, "idle") /\ IF slot[j].pc \in RoleSteps THEN slot[j].key \in rs ELSE slot[j].key \in ids

\* The handler in slot k goes on as next; the others that have read what it wrote
\* are no longer up to date.
Going(k, next, ids, rs) ==
    slot' = [j \in Slots |-> IF j = k THEN next
                             ELSE IF HasRead(j, ids, rs) THEN [slot[j] EXCEPT !.clean = FALSE]
                             ELSE slot[j]]

End(k) == slot' = [slot EXCEPT ![k] = Idle]

Fits_AnyRole(id, row) == ByName(row.username) \subseteq {id}   \* a mutant

\* Unique user names and the key of the role refuse some rows.
Fits(id, row) ==
    /\ row.role \in roles \cup {None}
    /\ ByName(row.username) \subseteq {id}

\* The row is written, and the roles it leaves and enters have other members; or
\* the database refuses it.
Write(k, id, row, next) ==
    IF Fits(id, row)
      THEN /\ user' = [user EXCEPT ![id] = row]
           /\ stale' = (stale \/ ~slot[k].clean)
           /\ Going(k, next, {id},
                    {row.role} \cup (IF user[id] = None THEN {} ELSE {user[id].role}))
      ELSE End(k) /\ UNCHANGED <<user, stale>>

Gave(id, password) ==
    set' = [set EXCEPT ![id] = IF user' = user THEN @ ELSE password]

Rest == UNCHANGED <<cert, roles, otp, now, calls, drivers, crashed>>

-----------------------------------------------------------------------------
(* Registration.                                                           *)
NewAccount(username, email, role, by, google, number) ==
    [username |-> username, email |-> email, password |-> number, link |-> None, until |-> 0,
     by |-> by, google |-> google, role |-> role, places |-> {}]

RegisterCheck_AnyEmail(k, e) ==   \* a mutant
    "user" \in roles /\ Begin(k, Handler("register", e))

\* register: nobody has the address, and it becomes the key.
RegisterCheck(k, e) ==
    ByEmail(e) = {} /\ "user" \in roles /\ Begin(k, Handler("register", e))

\* Saving a row whose key exists updates the columns the registration has.
RegisterSave(k) ==
    LET e == slot[k].key
        new == NewAccount(e, e, "user", "email", None, slot[k].call)
    IN /\ At(k, "register")
       /\ Write(k, e, IF user[e] = None THEN new
                      ELSE [user[e] EXCEPT !.username = e, !.email = e, !.role = "user",
                                           !.password = new.password], Idle)
       /\ Gave(e, new.password) /\ Rest

\* registerWithGoogle: an unknown address gets a new account, with a password
\* nobody knows; another account is linked.
GoogleNew(k, e, g) ==
    /\ ByEmail(e) = {} /\ "user" \in roles
    /\ Begin(k, [pc |-> "google", key |-> Call, call |-> Call, clean |-> TRUE, email |-> e,
                 google |-> g])

GoogleSave(k) ==
    LET id == slot[k].call IN
    /\ At(k, "google")
    /\ Write(k, id, NewAccount(slot[k].email, slot[k].email, "user", "google",
                               slot[k].google, id), Idle)
    /\ Gave(id, id) /\ Rest

GoogleLink(k, e, g) ==
    \E id \in ByEmail(e) :
        /\ user[id].by # "google" \/ user[id].google = None
        /\ Begin(k, [pc |-> "link", key |-> id, call |-> Call, clean |-> TRUE, google |-> g])

\* updateUserProvider reads the account again ...
LinkRead(k) ==
    LET h == slot[k]
        id == h.key
    IN /\ At(k, "link")
       /\ slot' = [slot EXCEPT ![k] = IF user[id] = None THEN Idle ELSE
                      [pc |-> "save", key |-> id, call |-> h.call, clean |-> TRUE,
                       row |-> [user[id] EXCEPT !.by = "google", !.google = h.google]]]
       /\ UNCHANGED <<user, set, stale>> /\ Rest

-----------------------------------------------------------------------------
(* Handlers that save the whole row they read, changed.                    *)
\* The row as it was read is written whole, over whatever is there now.
SaveRow(k) ==
    LET h == slot[k] IN
    /\ At(k, "save")
    /\ Write(k, h.key, h.row, Idle)
    /\ IF h.row.password = h.call THEN Gave(h.key, h.call) ELSE UNCHANGED set
    /\ Rest

Holding(pc, id, row) ==
    [pc |-> pc, key |-> id, call |-> Call, clean |-> TRUE, row |-> row]

\* forgotPassword: a new link, good for an hour; then it is mailed.
Forgot(k, e) ==
    \E id \in ByEmail(e) :
        Begin(k, Holding("save", id, [user[id] EXCEPT !.link = Call, !.until = now + LinkLife]))

\* resetPassword: the link must be the last one of that address and not expired.
Reset(k, e) ==
    \E id \in ByEmail(e) :
        /\ user[id].link # None /\ now <= user[id].until
        /\ Begin(k, Holding("reset", id, user[id]))

Spent_OldPassword(row, call) == [row EXCEPT !.until = now]   \* a mutant

\* The link stays in the row (undefined is not written) but expires at once.
Spent(row, call) == [row EXCEPT !.password = call, !.until = now]

ResetSave(k) ==
    LET id == slot[k].key IN
    /\ At(k, "reset")
    /\ Write(k, id, Spent(slot[k].row, slot[k].call), Idle)
    /\ Gave(id, slot[k].call) /\ Rest

-----------------------------------------------------------------------------
(* updateMe: for the owner, and, with any column, for an administrator.    *)
Profile(k, id, row, places) ==
    Begin(k, [pc |-> IF places = {} THEN "save" ELSE "delete places", key |-> id,
              call |-> Call, clean |-> TRUE,
              row |-> [row EXCEPT !.places = IF places = {} THEN @ ELSE places]])

\* New addresses, or only columns this model does not have.
UpdateMe(k, id) ==
    user[id] # None /\ \E places \in {{}, {Call}} : Profile(k, id, user[id], places)

\* Any user name, also one that is taken; the request defaults authProvider to
\* "email", whatever else it changes.
Update(k, id) ==
    /\ user[id] # None
    /\ \E row \in {[user[id] EXCEPT !.username = n] : n \in UserNames}
                  \cup {[user[id] EXCEPT !.email = e] : e \in Emails \cup {None}}
                  \cup {[user[id] EXCEPT !.role = r] : r \in roles}
                  \cup {[user[id] EXCEPT !.password = Call]} :
          Profile(k, id, [row EXCEPT !.by = "email"], {})

\* The addresses in the database are deleted, the new ones inserted, and the
\* account saved with the list.
DeletePlaces(k) ==
    LET id == slot[k].key IN
    /\ At(k, "delete places")
    /\ user' = IF user[id] = None THEN user ELSE [user EXCEPT ![id].places = {}]
    /\ Going(k, [slot[k] EXCEPT !.pc = "insert places"], {id}, {})
    /\ UNCHANGED <<set, stale>> /\ Rest

InsertPlaces(k) ==
    LET id == slot[k].key IN
    /\ At(k, "insert places")
    /\ IF user[id] = None THEN End(k) /\ UNCHANGED user
       ELSE /\ user' = [user EXCEPT ![id].places = @ \cup slot[k].row.places]
            /\ Going(k, [slot[k] EXCEPT !.pc = "save"], {id}, {})
    /\ UNCHANGED <<set, stale>> /\ Rest

-----------------------------------------------------------------------------
(* An administrator creates, with any user name, and deletes accounts.     *)
Create(name, email, role) ==
    /\ calls < MaxCalls /\ calls' = calls + 1
    /\ role \in roles /\ Fits(Call, NewAccount(name, email, role, "email", None, Call))
    /\ user' = [user EXCEPT ![Call] = NewAccount(name, email, role, "email", None, Call)]
    /\ set' = [set EXCEPT ![Call] = Call]
    /\ Going(None, Idle, {}, {role})
    /\ UNCHANGED <<cert, roles, otp, now, drivers, stale, crashed>>

\* Addresses and a certificate keep the row they refer to.
Remove(id) ==
    /\ user[id] # None /\ user[id].places = {} /\ cert[id] = None
    /\ calls < MaxCalls /\ calls' = calls + 1
    /\ user' = [user EXCEPT ![id] = None]
    /\ set' = [set EXCEPT ![id] = None]
    /\ drivers' = drivers \ {id}
    /\ Going(None, Idle, {id}, {user[id].role})
    /\ UNCHANGED <<cert, roles, otp, now, stale, crashed>>

-----------------------------------------------------------------------------
(* Drivers: the account is saved, then its certificate.                    *)
RegisterDriver(k, n) ==
    /\ ByName(n) = {}
    /\ "shipper" \in roles
    /\ Begin(k, [pc |-> "driver", key |-> Call, call |-> Call, clean |-> TRUE, username |-> n])

DriverSave(k) ==
    LET id == slot[k].call IN
    /\ At(k, "driver")
    /\ Write(k, id, NewAccount(slot[k].username, None, "shipper", "email", None, id),
             [slot[k] EXCEPT !.pc = "certificate"])
    /\ Gave(id, id)
    /\ drivers' = IF user' = user THEN drivers ELSE drivers \cup {id}
    /\ UNCHANGED <<cert, roles, otp, now, calls, crashed>>

CertificateSave(k) ==
    /\ At(k, "certificate")
    /\ cert' = IF user[slot[k].key] = None THEN cert ELSE [cert EXCEPT ![slot[k].key] = "PENDING"]
    /\ End(k)
    /\ UNCHANGED <<user, roles, otp, now, calls, set, drivers, stale, crashed>>

\* approveShipper and rejectShipper, from any status.
UpdateShipperStatus(id, status) ==
    /\ cert[id] # None /\ calls < MaxCalls
    /\ calls' = calls + 1
    /\ cert' = [cert EXCEPT ![id] = status]
    /\ UNCHANGED <<user, roles, otp, slot, now, set, drivers, stale, crashed>>

-----------------------------------------------------------------------------
SendOtp(p) ==
    /\ calls < MaxCalls /\ calls' = calls + 1
    /\ otp' = [otp EXCEPT ![p] = Call]
    /\ UNCHANGED <<user, cert, roles, slot, now, set, drivers, stale, crashed>>

\* The last code is accepted, once, however late.
VerifyOtp(p) ==
    /\ otp[p] # None
    /\ otp' = [otp EXCEPT ![p] = None]
    /\ UNCHANGED <<user, cert, roles, slot, now, calls, set, drivers, stale, crashed>>

Restart ==
    /\ ~crashed
    /\ crashed' = TRUE
    /\ slot' = [k \in Slots |-> Idle] /\ otp' = [p \in Phones |-> None]
    /\ UNCHANGED <<user, cert, roles, now, calls, set, drivers, stale>>

Tick ==
    /\ now < MaxTime
    /\ now' = now + 1
    /\ UNCHANGED <<user, cert, roles, otp, slot, calls, set, drivers, stale, crashed>>

AccountsNext ==
    \/ \E k \in Slots :
          \/ \E e \in Emails : RegisterCheck(k, e) \/ Forgot(k, e) \/ Reset(k, e)
          \/ \E e \in Emails, g \in Googles : GoogleNew(k, e, g) \/ GoogleLink(k, e, g)
          \/ \E id \in Ids : UpdateMe(k, id) \/ Update(k, id)
          \/ \E n \in UserNames : RegisterDriver(k, n)
          \/ RegisterSave(k) \/ GoogleSave(k) \/ LinkRead(k) \/ SaveRow(k) \/ ResetSave(k)
          \/ DeletePlaces(k) \/ InsertPlaces(k) \/ DriverSave(k) \/ CertificateSave(k)
    \/ \E n \in UserNames, e \in Emails \cup {None}, r \in Roles : Create(n, e, r)
    \/ \E id \in Ids : Remove(id) \/ \E s \in {"APPROVED", "REJECTED"} : UpdateShipperStatus(id, s)
    \/ \E p \in Phones : SendOtp(p) \/ VerifyOtp(p)
    \/ Restart \/ Tick

-----------------------------------------------------------------------------
AccountsTypeOK ==
    /\ user \in [Ids -> Account \cup {None}] /\ cert \in [Ids -> Certificates \cup {None}]
    /\ roles \subseteq Roles /\ otp \in [Phones -> Numbers \cup {None}]
    /\ now \in 0..MaxTime /\ calls \in Numbers
    /\ set \in [Ids -> Numbers \cup {None}] /\ drivers \subseteq Ids

\* An account with a role, alone with its e-mail address, logs in with the password
\* it was last given, by its registration, a reset or an administrator, and a driver
\* is told the status of the certificate: unless a stale row was saved.  A registered
\* driver has a certificate, unless the server stopped between the account and the
\* certificate (neither login nor registration works for that driver then).
PasswordWorks ==
    /\ ~stale => \A id \in Ids : user[id] # None /\ user[id].role # None =>
          /\ \A e \in Emails : ByEmail(e) = {id} => Login(e, set[id])
          /\ cert[id] # None => LoginDriver(user[id].username, set[id]) \in Certificates
    /\ ~crashed => \A id \in drivers :
          cert[id] # None \/ \E k \in Slots : At(k, "certificate") /\ slot[k].key = id

\* A registration makes a new account and changes none, unless it overlaps with
\* another of its address, or the account with that key has another address now.
RegistrationCreates ==
    [][\A k \in Slots :
         At(k, "register") /\ slot'[k] = Idle /\ user' # user /\ user[slot[k].key] # None =>
             ~slot[k].clean \/ user[slot[k].key].email # slot[k].key]_accountVars
=============================================================================

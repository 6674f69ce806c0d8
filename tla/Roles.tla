-------------------------------- MODULE Roles --------------------------------
(***************************************************************************)
(* RolesService: the members of the roles and their permissions, together  *)
(* with the accounts.  A handler reads a role with its list of members or  *)
(* of permissions and saves it whole: accounts listed get the role, those  *)
(* that have it and are not listed are left without one.                   *)
(***************************************************************************)
EXTENDS Accounts, Sequences

CONSTANTS Names,          \* what a permission allows
          All,            \* for each of them, the name that allows all of its category
          MaxPermissions  \* bound: rows of permissions

ASSUME RolesAssumption == None \notin Names /\ All \in [Names -> Names \cup {None}]

VARIABLES
    perms,  \* the rows of role_permissions: what each role has
    name    \* the rows of permissions, by number: their names

rolesVars == <<accountVars, perms, name>>

Present == {id \in Ids : user[id] # None}
Members(r) == {id \in Ids : user[id] # None /\ user[id].role = r}
Named(ns) == {p \in DOMAIN name : name[p] \in ns}
Untouched == UNCHANGED <<cert, otp, now, set, drivers, crashed>>

\* The accounts a step writes.
Moved == {id \in Ids : user'[id] # user[id]}

-----------------------------------------------------------------------------
(* What a role allows.                                                     *)
\* RolesGuard: each permission required is one of these, or all of its category is.
Allows(ns, required) == \A n \in required : {n, All[n]} \cap ns # {}

Granted(id, required) ==
    user[id].role # None /\ Allows({name[p] : p \in perms[user[id].role]}, required)

\* findOne then remove: no account may refer to it.
DeleteRole(r) ==
    /\ r \in roles /\ Members(r) = {} /\ calls < MaxCalls
    /\ calls' = calls + 1
    /\ roles' = roles \ {r} /\ perms' = [perms EXCEPT ![r] = {}]
    /\ Going(None, Idle, {}, {r})
    /\ Untouched /\ UNCHANGED <<user, stale, name>>

\* createRole: the request has no name, which defaults to "user" and is unique.
CreateRole ==
    /\ "user" \notin roles /\ calls < MaxCalls
    /\ calls' = calls + 1
    /\ roles' = roles \cup {"user"}
    /\ Untouched /\ UNCHANGED <<user, slot, stale, perms, name>>

-----------------------------------------------------------------------------
(* Members.                                                                *)
Request(how, r, list, named) ==
    [pc |-> "members", how |-> how, key |-> r, call |-> Call, clean |-> TRUE,
     list |-> list, named |-> named]

NoSuper(ids) == \A id \in ids : user[id].role # "super_admin"

\* addUsersToRole: the accounts named become the list; each must have a role.
AddUsersToRole(k, r, ids) ==
    /\ r \in roles /\ NoSuper(ids) /\ \A id \in ids : user[id].role # None
    /\ Begin(k, Request("add", r, ids, ids)) /\ UNCHANGED <<perms, name>>

AssignUsersToRole_OnlyNamed(k, r, ids) ==   \* a mutant
    /\ r \in roles /\ NoSuper(ids)
    /\ Begin(k, Request("assign", r, ids, ids)) /\ UNCHANGED <<perms, name>>

AssignUsersToRole(k, r, ids) ==
    /\ r \in roles /\ NoSuper(ids)
    /\ Begin(k, Request("assign", r, Members(r) \cup ids, ids)) /\ UNCHANGED <<perms, name>>

RemoveUsersFromRole(k, r, ids) ==
    /\ r \in roles /\ NoSuper(ids)
    /\ Begin(k, Request("remove", r, Members(r) \ ids, ids)) /\ UNCHANGED <<perms, name>>

\* updateRoleDetails, of which nothing but the save matters here.
UpdateRoleDetails(k, r) ==
    r \in roles /\ Begin(k, Handler("details", r)) /\ UNCHANGED <<perms, name>>

DetailsSave(k) ==
    /\ At(k, "details")
    /\ roles' = roles \cup {slot[k].key}
    /\ End(k)
    /\ Untouched /\ UNCHANGED <<user, calls, stale, perms, name>>

\* The members in the database become the list; a role that is gone is inserted.
MembersSave(k) ==
    LET h == slot[k] IN
    /\ At(k, "members")
    /\ roles' = roles \cup {h.key}
    /\ user' = [id \in Ids |->
                  IF user[id] = None THEN None
                  ELSE IF id \in h.list THEN [user[id] EXCEPT !.role = h.key]
                  ELSE IF user[id].role = h.key THEN [user[id] EXCEPT !.role = None]
                  ELSE user[id]]
    /\ Going(k, Idle, Moved, {h.key} \cup {user[id].role : id \in Moved})
    /\ stale' = (stale \/ ~h.clean)
    /\ Untouched /\ UNCHANGED <<calls, perms, name>>

-----------------------------------------------------------------------------
(* Permissions: the role is read (add, remove, update), then the rows that *)
(* have the names, then the missing ones are inserted, then the role saved. *)
Kept_AlsoOnUpdate(how, r, ns) ==   \* a mutant
    IF how = "remove" THEN perms[r] \ Named(ns) ELSE perms[r]

\* What a request keeps of the role's permissions, as it reads them.
Kept(how, r, ns) ==
    CASE how = "update" -> {}
      [] how = "remove" -> perms[r] \ Named(ns)
      [] how = "add" -> perms[r]

ChangePermissions(k, r, how, ns) ==
    /\ r \in roles
    /\ Begin(k, [pc |-> IF how = "remove" THEN "permit" ELSE "find", how |-> how, key |-> r,
                 call |-> Call, clean |-> TRUE, names |-> ns, missing |-> {},
                 list |-> Kept(how, r, ns)])
    /\ UNCHANGED <<perms, name>>

\* The names no row has.
Missing(ns) == {n \in ns : Named({n}) = {}}

FindPermissions(k) ==
    LET ns == slot[k].names IN
    /\ At(k, "find")
    /\ slot' = [slot EXCEPT ![k] = [slot[k] EXCEPT !.pc = "create", !.missing = Missing(ns),
                                                   !.list = @ \cup Named(ns)]]
    /\ Untouched /\ UNCHANGED <<user, roles, calls, stale, perms, name>>

CreatePermission(k) ==
    /\ At(k, "create") /\ Len(name) < MaxPermissions
    /\ \E n \in slot[k].missing :
          /\ name' = Append(name, n)
          /\ slot' = [j \in Slots |->
                IF j = k THEN [slot[k] EXCEPT !.missing = @ \ {n}, !.list = @ \cup {Len(name')}]
                ELSE IF At(j, "create") THEN [slot[j] EXCEPT !.clean = FALSE] ELSE slot[j]]
          /\ stale' = (stale \/ ~slot[k].clean)
    /\ Untouched /\ UNCHANGED <<user, roles, calls, perms>>

\* The role's permissions become the list; a role that is gone is inserted.
PermissionsSave(k) ==
    LET h == slot[k] IN
    /\ At(k, "permit") \/ (At(k, "create") /\ h.missing = {})
    /\ roles' = roles \cup {h.key}
    /\ perms' = [perms EXCEPT ![h.key] = h.list]
    /\ Going(k, Idle, {}, {h.key})
    /\ stale' = (stale \/ ~h.clean)
    /\ Untouched /\ UNCHANGED <<user, calls, name>>

-----------------------------------------------------------------------------
RolesInit ==
    /\ AccountsInit
    /\ \E n \in Names : name = <<n>>
    /\ perms = [r \in Roles |-> IF r = "super_admin" THEN DOMAIN name ELSE {}]

RolesNext ==
    \/ AccountsNext /\ UNCHANGED <<perms, name>>
    \/ \E r \in Roles : DeleteRole(r)
    \/ CreateRole
    \/ \E k \in Slots :
          \/ \E r \in Roles, ids \in SUBSET Present :
                \/ AddUsersToRole(k, r, ids) \/ AssignUsersToRole(k, r, ids)
                \/ RemoveUsersFromRole(k, r, ids)
          \/ \E r \in Roles : UpdateRoleDetails(k, r)
          \/ \E r \in Roles, how \in {"add", "remove", "update"}, ns \in SUBSET Names :
                ChangePermissions(k, r, how, ns)
          \/ DetailsSave(k) \/ MembersSave(k)
          \/ FindPermissions(k) \/ CreatePermission(k) \/ PermissionsSave(k)

RolesSpec == RolesInit /\ [][RolesNext]_rolesVars

-----------------------------------------------------------------------------
RolesTypeOK ==
    /\ AccountsTypeOK /\ \A id \in Present : user[id].role \in roles \cup {None}
    /\ name \in Seq(Names)
    /\ perms \in [Roles -> SUBSET DOMAIN name] /\ \A r \in Roles \ roles : perms[r] = {}

\* An account's role changes when a request names the account; the requests that
\* add to, assign to or remove from a role move nobody else, unless the role or
\* the account was written after it was read, or addUsersToRole, which leaves
\* all other members of the role without one.
OnlyNamedMove ==
    [][\A id \in Ids :
         user[id] # None /\ user'[id] # None /\ user'[id].role # user[id].role =>
             \E k \in Slots :
                 /\ ~At(k, "idle") /\ slot'[k] = Idle
                 /\ \/ HasRead(k, {id}, {}) \/ ~slot[k].clean
                    \/ At(k, "members") /\ (id \in slot[k].named \/ slot[k].how = "add")]_rolesVars

\* When a request about permissions is done, the guard grants the members of the
\* role what the request says, by name or as all of a category, and no more, unless
\* the role was written meanwhile.
PermissionsAsAsked ==
    [][\A k \in Slots :
         LET h == slot[k]
             old == {name[p] : p \in perms[h.key]}
             asked == CASE h.how = "update" -> h.names
                        [] h.how = "add" -> old \cup h.names
                        [] h.how = "remove" -> old \ h.names
         IN  h.pc \in {"permit", "create"} /\ h.clean /\ slot'[k] = Idle /\ crashed' = crashed =>
               \A id \in Members(h.key), ns \in SUBSET Names :
                   Granted(id, ns)' <=> Allows(asked, ns)]_rolesVars
=============================================================================

------------------------------ MODULE Catalog ------------------------------
(***************************************************************************)
(* Restaurants, their addresses and images, the foods of a restaurant and  *)
(* the categories of foods: RestaurantService, CategoryService and the     *)
(* operations of FoodService that create, move and delete foods.           *)
(*                                                                         *)
(* A handler reads an entity and, some awaits later, saves the whole of    *)
(* it.  An entity read with its one-to-many list of foods saves the list   *)
(* too: TypeORM gives every food of the list back to the entity and takes  *)
(* from it the foods that the list does not name.                          *)
(***************************************************************************)
EXTENDS Naturals, FiniteSets

CONSTANTS Restaurants, Foods, Categories, Addresses, Images,  \* ids
          Slots,       \* handlers that may be in progress at once
          First,       \* the restaurant that is open, with address and image
          MaxCalls,    \* bound: how many operations are asked for
          MaxCrashes   \* bound: how often the server process may stop

ASSUME CatalogAssumption ==
    /\ First \in Restaurants
    /\ Addresses # {} /\ Images # {} /\ Categories # {}
    /\ Restaurants \cap Categories = {}
    /\ MaxCalls \in Nat /\ MaxCrashes \in Nat
    /\ {"none", "nowhere", "unborn", "deleted", "unread", "keep"}
           \cap (Restaurants \cup Foods \cup Categories \cup Addresses \cup Images) = {}

VARIABLES
    rest,     \* the rows of `restaurants`
    addr,     \* the rows of `address`, and whether they have coordinates
    files,    \* the image files in the bucket
    home,     \* food -> its restaurant (foods.restaurant_id)
    cat,      \* food -> its category (foods.category_id)
    cats,     \* the rows of `categories`
    slot,     \* the handlers in progress
    calls,    \* operations asked for so far
    crashes   \* how often the server has stopped

catalogVars == <<rest, addr, files, home, cat, cats, slot, calls, crashes>>

RestaurantStatus == {"pending", "approved", "rejected"}
Life == {"unborn", "deleted"}

\* st is a life outside the table, or the status of the row.
Row == [st : RestaurantStatus \cup Life, addr : Addresses \cup {"none"},
        coords : BOOLEAN, avatar : Images \cup {"none"}]
NoRow == [st |-> "pending", addr |-> "none", coords |-> FALSE, avatar |-> "none"]

Stages == {"idle", "approve_save", "reject_save", "delete_row", "update_save",
           "files_clear", "files_drop", "files_address", "files_save", "files_clean",
           "food_save", "category_save"}

Idle == [pc |-> "idle", id |-> "none", row |-> NoRow, loc |-> "none", foods |-> {},
         ask |-> "keep", new |-> "none", point |-> FALSE, img |-> "none",
         to |-> "none", tag |-> "none", stale |-> FALSE]

Listed(r) == rest[r].st \in RestaurantStatus
There(f)  == home[f] \notin Life

CatalogTypeOK ==
    /\ rest \in [Restaurants -> Row]
    /\ addr \in [Addresses -> {"none", "bare", "located"}]
    /\ files \subseteq Images
    /\ home \in [Foods -> Restaurants \cup {"nowhere"} \cup Life]
    /\ cat \in [Foods -> Categories \cup {"none"}]
    /\ cats \in [Categories -> {"here"} \cup Life]
    /\ slot \in [Slots -> [pc : Stages, id : Restaurants \cup Foods \cup Categories \cup {"none"},
                           row : Row, loc : {"none", "bare", "located"},
                           foods : SUBSET Foods, ask : RestaurantStatus \cup {"keep"},
                           new : Addresses \cup {"none"}, point : BOOLEAN,
                           img : Images \cup {"none"}, to : Restaurants \cup {"none"},
                           tag : Categories \cup {"none", "unread"}, stale : BOOLEAN]]
    /\ calls \in 0..MaxCalls /\ crashes \in 0..MaxCrashes

CatalogInit ==
    LET a == CHOOSE b \in Addresses : TRUE
        i == CHOOSE j \in Images : TRUE
        f == CHOOSE g \in Foods : TRUE
        c == CHOOSE d \in Categories : TRUE IN
        /\ rest = [r \in Restaurants |->
                     IF r = First THEN [st |-> "approved", addr |-> a, coords |-> TRUE, avatar |-> i]
                                  ELSE [NoRow EXCEPT !.st = "unborn"]]
        /\ addr = [b \in Addresses |-> IF b = a THEN "located" ELSE "none"]
        /\ files = {i}
        /\ home = [g \in Foods |-> IF g = f THEN First ELSE "unborn"]
        /\ cat = [g \in Foods |-> IF g = f THEN c ELSE "none"]
        /\ cats = [d \in Categories |-> IF d = c THEN "here" ELSE "unborn"]
        /\ slot = [k \in Slots |-> Idle]
        /\ calls = 0 /\ crashes = 0

-----------------------------------------------------------------------------
At(k, pc) == slot[k].pc = pc
Call == calls < MaxCalls /\ calls' = calls + 1

\* A handler starts with what it read.
Begin(k, held) ==
    /\ At(k, "idle") /\ Call
    /\ slot' = [slot EXCEPT ![k] = held]

\* What the handlers in progress have read is older than this step's writing.
Aged(s) == [j \in Slots |-> IF s[j].pc = "idle" THEN s[j] ELSE [s[j] EXCEPT !.stale = TRUE]]

\* A handler has written and goes on to pc.
Wrote(k, pc) ==
    slot' = [Aged(slot) EXCEPT
                ![k] = IF pc = "idle" THEN Idle ELSE [slot[k] EXCEPT !.pc = pc]]

Gone(k) == slot' = [slot EXCEPT ![k] = Idle]   \* an error answer

FreeAddresses == {a \in Addresses : addr[a] = "none" /\ \A k \in Slots : slot[k].new # a
                                                       /\ slot[k].row.addr # a}
FreeImages == {i \in Images : /\ i \notin files
                              /\ \A k \in Slots : slot[k].img # i
                              /\ \A r \in Restaurants : rest[r].avatar # i}

\* addDistanceAndDeliveryTime: a restaurant with coordinates takes those of
\* its address, and reading it fails when it has no address.
Readable(r) == rest[r].coords => rest[r].addr # "none"

LocationOf(a) == IF a = "none" THEN "none" ELSE addr[a]

Seen(r) == [rest[r] EXCEPT !.coords = @ /\ LocationOf(rest[r].addr) = "located"]

\* RestaurantService.findOne, which loads the foods; `ask` and the rest is
\* what the request wants.
Held(pc, r, ask) ==
    [Idle EXCEPT !.pc = pc, !.id = r, !.row = Seen(r), !.loc = LocationOf(rest[r].addr),
                 !.foods = {f \in Foods : home[f] = r}, !.ask = ask]

Rehomed_KeepsId(at, owner, list) ==   \* a mutant
    [f \in Foods |-> IF ~There(f) THEN at[f]
                     ELSE IF f \in list THEN owner
                     ELSE IF at[f] = owner THEN "none" ELSE at[f]]

\* The foods after an entity was saved with its list of foods.
Rehomed(at, owner, list) ==
    [f \in Foods |-> IF ~There(f) THEN at[f]
                     ELSE IF f \in list THEN owner
                     ELSE IF at[f] = owner THEN (IF owner \in Restaurants THEN "nowhere" ELSE "none")
                     ELSE at[f]]

\* restaurantRepository.save: the row, inserted again if it was deleted, and
\* by cascade the address it was read with.
SaveRow(r, row, loc) ==
    /\ rest' = [rest EXCEPT ![r] = row]
    /\ addr' = IF row.addr # "none" /\ addr[row.addr] = "none"
                 THEN [addr EXCEPT ![row.addr] = loc] ELSE addr

-----------------------------------------------------------------------------
(* Restaurants.  The address of a request is saved before its files are    *)
(* uploaded and its restaurant is saved; what an interrupted request leaves *)
(* is referred to by nothing.                                              *)
Request(r, a, i, located) ==
    /\ rest[r].st = "unborn" /\ Call
    /\ addr' = [addr EXCEPT ![a] = IF located THEN "located" ELSE "bare"]
    /\ files' = files \cup {i}
    /\ rest' = [rest EXCEPT ![r] = [st |-> "pending", addr |-> a, coords |-> located,
                                    avatar |-> i]]
    /\ slot' = Aged(slot)
    /\ UNCHANGED <<home, cat, cats, crashes>>

\* POST /restaurants.  An address given as one string cannot be saved: its
\* ward, district and city may not be null.
Create(r, located) ==
    /\ rest[r].st = "unborn" /\ Call
    /\ rest' = [rest EXCEPT ![r] = [NoRow EXCEPT !.st = "approved", !.coords = located]]
    /\ slot' = Aged(slot)
    /\ UNCHANGED <<addr, files, home, cat, cats, crashes>>

ApproveRead(k, r) ==
    /\ rest[r].st = "pending"
    /\ Begin(k, [Held("approve_save", r, "approved") EXCEPT !.row = rest[r]])
    /\ UNCHANGED <<rest, addr, files, home, cat, cats, crashes>>

ApproveSave(k) ==
    LET h == slot[k] IN
    /\ At(k, "approve_save")
    /\ SaveRow(h.id, [h.row EXCEPT !.st = "approved"], h.loc)
    /\ Wrote(k, "idle")
    /\ UNCHANGED <<files, home, cat, cats, calls, crashes>>

RejectRead_Any(k, r) ==   \* a mutant
    /\ Listed(r) /\ Readable(r)
    /\ Begin(k, Held("reject_save", r, "rejected"))
    /\ UNCHANGED <<rest, addr, files, home, cat, cats, crashes>>

RejectRead(k, r) ==
    /\ rest[r].st = "pending" /\ Readable(r)
    /\ Begin(k, Held("reject_save", r, "rejected"))
    /\ UNCHANGED <<rest, addr, files, home, cat, cats, crashes>>

RejectSave(k) ==
    LET h == slot[k] IN
    /\ At(k, "reject_save")
    /\ SaveRow(h.id, [h.row EXCEPT !.st = "rejected"], h.loc)
    /\ home' = Rehomed(home, h.id, h.foods)
    /\ Wrote(k, "idle")
    /\ UNCHANGED <<files, cat, cats, calls, crashes>>

DeleteRequestRead(k, r) ==
    /\ rest[r].st = "pending" /\ Readable(r)
    /\ Begin(k, Held("delete_row", r, "keep"))
    /\ UNCHANGED <<rest, addr, files, home, cat, cats, crashes>>

\* The database refuses to delete a restaurant that has foods.
Delete(r) == rest' = [rest EXCEPT ![r] = [NoRow EXCEPT !.st = "deleted"]]
Deletable(r) == Listed(r) /\ \A f \in Foods : home[f] # r

DeleteRequestRow(k) ==
    /\ At(k, "delete_row")
    /\ IF Deletable(slot[k].id) THEN Delete(slot[k].id) /\ Wrote(k, "idle")
                               ELSE Gone(k) /\ UNCHANGED rest
    /\ UNCHANGED <<addr, files, home, cat, cats, calls, crashes>>

Remove(r) ==
    /\ Deletable(r) /\ Call /\ Delete(r)
    /\ slot' = Aged(slot)
    /\ UNCHANGED <<addr, files, home, cat, cats, crashes>>

\* PUT /restaurants/:id, with any of the columns.
UpdateRead(k, r, ask, located) ==
    /\ Listed(r) /\ Readable(r)
    /\ Begin(k, [Held("update_save", r, ask) EXCEPT !.point = located])
    /\ UNCHANGED <<rest, addr, files, home, cat, cats, crashes>>

Asked(h, st) == IF h.ask = "keep" THEN st ELSE h.ask

UpdateSave(k) ==
    LET h == slot[k] IN
    /\ At(k, "update_save")
    /\ SaveRow(h.id, [h.row EXCEPT !.st = Asked(h, @), !.coords = @ \/ h.point], h.loc)
    /\ home' = Rehomed(home, h.id, h.foods)
    /\ Wrote(k, "idle")
    /\ UNCHANGED <<files, cat, cats, calls, crashes>>

-----------------------------------------------------------------------------
(* PUT /restaurants/:id/files: a new address, a new image, other columns.  *)
FilesRead(k, r, ask, a, located, i) ==
    /\ Listed(r) /\ Readable(r)
    /\ Begin(k, [Held(IF a = "none" THEN "files_save"
                      ELSE IF rest[r].addr = "none" THEN "files_address"
                      ELSE "files_clear", r, ask)
                   EXCEPT !.new = a, !.point = located, !.img = i])
    /\ UNCHANGED <<rest, addr, files, home, cat, cats, crashes>>

\* The address is taken from the restaurant ("Break the FK") ...
FilesClear(k) ==
    LET h == slot[k] IN
    /\ At(k, "files_clear")
    /\ SaveRow(h.id, [h.row EXCEPT !.addr = "none"], "none")
    /\ home' = Rehomed(home, h.id, h.foods)
    /\ Wrote(k, "files_drop")
    /\ UNCHANGED <<files, cat, cats, calls, crashes>>

\* ... and deleted, which fails when another save has put it back.
FilesDrop(k) ==
    LET a == slot[k].row.addr IN
    /\ At(k, "files_drop")
    /\ IF \E r \in Restaurants : rest[r].addr = a
         THEN Gone(k) /\ UNCHANGED addr
         ELSE addr' = [addr EXCEPT ![a] = "none"] /\ Wrote(k, "files_address")
    /\ UNCHANGED <<rest, files, home, cat, cats, calls, crashes>>

\* The new address is saved, and the restaurant with it.
FilesAddress(k) ==
    LET h == slot[k] IN
    /\ At(k, "files_address")
    /\ addr' = [addr EXCEPT ![h.new] = IF h.point THEN "located" ELSE "bare"]
    /\ rest' = [rest EXCEPT ![h.id] = [h.row EXCEPT !.addr = h.new]]
    /\ home' = Rehomed(home, h.id, h.foods)
    /\ Wrote(k, "files_save")
    /\ UNCHANGED <<files, cat, cats, calls, crashes>>

\* Object.assign copies the columns the request leaves out as undefined, over
\* the URL of the uploaded image too, and undefined columns are not saved.
FilesSave(k) ==
    LET h == slot[k]
        row == IF Listed(h.id) THEN rest[h.id] ELSE NoRow
    IN /\ At(k, "files_save")
       /\ files' = IF h.img = "none" THEN files ELSE files \cup {h.img}
       /\ rest' = [rest EXCEPT ![h.id] = [row EXCEPT !.st = Asked(h, @),
                                                     !.coords = @ \/ h.point]]
       /\ home' = Rehomed(home, h.id, h.foods)
       /\ Wrote(k, IF h.img # "none" /\ h.row.avatar # "none" THEN "files_clean" ELSE "idle")
       /\ UNCHANGED <<addr, cat, cats, calls, crashes>>

FilesClean(k) ==
    /\ At(k, "files_clean")
    /\ files' = files \ {slot[k].row.avatar}
    /\ Wrote(k, "idle")
    /\ UNCHANGED <<rest, addr, home, cat, cats, calls, crashes>>

-----------------------------------------------------------------------------
(* Foods.  Only the owner of a food's restaurant may change it.            *)
CreateFood(f, r, c) ==
    /\ home[f] = "unborn" /\ Listed(r) /\ Call
    /\ c # "none" => cats[c] = "here"
    /\ home' = [home EXCEPT ![f] = r] /\ cat' = [cat EXCEPT ![f] = c]
    /\ slot' = Aged(slot)
    /\ UNCHANGED <<rest, addr, files, cats, crashes>>

\* update (restaurantId and categoryId may be among the columns) and
\* updateStatusIfOwner, which does not load the category.
FoodRead(k, f, r, c) ==
    /\ home[f] \in Restaurants /\ Listed(r)
    /\ c \notin {"none", "unread"} => c = cat[f] \/ cats[c] = "here"
    /\ c = "none" => cat[f] = "none"
    /\ c = "unread" => r = home[f]
    /\ Begin(k, [Idle EXCEPT !.pc = "food_save", !.id = f, !.to = r, !.tag = c])
    /\ UNCHANGED <<rest, addr, files, home, cat, cats, crashes>>

\* The food is saved with the restaurant and category it was read with or
\* moved to: an error if they are gone.  A deleted food is inserted again.
FoodSave(k) ==
    LET h == slot[k]
        c == IF h.tag = "unread" THEN cat[h.id] ELSE h.tag
    IN /\ At(k, "food_save")
       /\ IF Listed(h.to) /\ (c # "none" => cats[c] = "here")
            THEN /\ home' = [home EXCEPT ![h.id] = h.to]
                 /\ cat' = [cat EXCEPT ![h.id] = c]
                 /\ Wrote(k, "idle")
            ELSE Gone(k) /\ UNCHANGED <<home, cat>>
       /\ UNCHANGED <<rest, addr, files, cats, calls, crashes>>

RemoveFood(f) ==
    /\ home[f] \in Restaurants /\ Call
    /\ home' = [home EXCEPT ![f] = "deleted"] /\ cat' = [cat EXCEPT ![f] = "none"]
    /\ slot' = Aged(slot)
    /\ UNCHANGED <<rest, addr, files, cats, crashes>>

-----------------------------------------------------------------------------
(* Categories.                                                             *)
CategoryCreate(c) ==
    /\ cats[c] = "unborn" /\ Call
    /\ cats' = [cats EXCEPT ![c] = "here"]
    /\ UNCHANGED <<rest, addr, files, home, cat, slot, crashes>>

CategoryRead(k, c) ==
    /\ cats[c] = "here"
    /\ Begin(k, [Idle EXCEPT !.pc = "category_save", !.id = c,
                             !.foods = {f \in Foods : cat[f] = c}])
    /\ UNCHANGED <<rest, addr, files, home, cat, cats, crashes>>

CategorySave_First(k) ==   \* a mutant
    LET h == slot[k] IN
    /\ At(k, "category_save")
    /\ cats' = [cats EXCEPT ![h.id] = "here"]
    /\ cat' = Rehomed(cat, h.id, {})
    /\ Wrote(k, "idle")
    /\ UNCHANGED <<rest, addr, files, home, calls, crashes>>

CategorySave(k) ==
    LET h == slot[k] IN
    /\ At(k, "category_save")
    /\ cats' = [cats EXCEPT ![h.id] = "here"]
    /\ cat' = Rehomed(cat, h.id, h.foods)
    /\ Wrote(k, "idle")
    /\ UNCHANGED <<rest, addr, files, home, calls, crashes>>

\* The foods of a deleted category have none (ON DELETE SET NULL).
CategoryRemove(c) ==
    /\ cats[c] = "here" /\ Call
    /\ cats' = [cats EXCEPT ![c] = "deleted"]
    /\ cat' = [f \in Foods |-> IF cat[f] = c THEN "none" ELSE cat[f]]
    /\ slot' = Aged(slot)
    /\ UNCHANGED <<rest, addr, files, home, crashes>>

\* The server process stops and starts again.
Crash ==
    /\ crashes < MaxCrashes
    /\ crashes' = crashes + 1
    /\ slot' = [k \in Slots |-> Idle]
    /\ UNCHANGED <<rest, addr, files, home, cat, cats, calls>>

-----------------------------------------------------------------------------
AskStatus == {"keep", "pending", "approved"}

Start(k) ==
    \/ \E r \in Restaurants : ApproveRead(k, r) \/ RejectRead(k, r) \/ DeleteRequestRead(k, r)
    \/ \E r \in Restaurants, ask \in AskStatus, located \in BOOLEAN :
           \/ UpdateRead(k, r, ask, located)
           \/ \E a \in FreeAddresses \cup {"none"}, i \in FreeImages \cup {"none"} :
                  FilesRead(k, r, ask, a, located, i)
    \/ \E f \in Foods, r \in Restaurants, c \in Categories \cup {"none", "unread"} :
           FoodRead(k, f, r, c)
    \/ \E c \in Categories : CategoryRead(k, c)

Continue(k) ==
    \/ ApproveSave(k) \/ RejectSave(k) \/ DeleteRequestRow(k) \/ UpdateSave(k)
    \/ FilesClear(k) \/ FilesDrop(k) \/ FilesAddress(k) \/ FilesSave(k) \/ FilesClean(k)
    \/ FoodSave(k) \/ CategorySave(k)

AtOnce ==
    \/ \E r \in Restaurants, a \in FreeAddresses, i \in FreeImages, located \in BOOLEAN :
           Request(r, a, i, located)
    \/ \E r \in Restaurants, located \in BOOLEAN : Create(r, located)
    \/ \E r \in Restaurants : Remove(r)
    \/ \E f \in Foods, r \in Restaurants, c \in Categories \cup {"none"} : CreateFood(f, r, c)
    \/ \E f \in Foods : RemoveFood(f)
    \/ \E c \in Categories : CategoryCreate(c) \/ CategoryRemove(c)

CatalogNext == (\E k \in Slots : Start(k) \/ Continue(k)) \/ AtOnce \/ Crash

CatalogSpec == CatalogInit /\ [][CatalogNext]_catalogVars

-----------------------------------------------------------------------------
StepOf(k) == slot[k].pc # "idle" /\ slot'[k].pc # slot[k].pc /\ crashes' = crashes

\* A food is moved, or taken from its restaurant or category, only as a
\* request about that food asks, or when the category is deleted, or by a
\* handler that read before somebody else wrote: saving a restaurant or a
\* category on its own disturbs no food (the saved lists of foods).
FoodsFollowRequests ==
    [][\A f \in Foods :
         LET asked == \E k \in Slots :
                 /\ StepOf(k)
                 /\ \/ slot[k].stale
                    \/ slot[k].id = f /\ home'[f] = slot[k].to /\ cat'[f] \in {cat[f], slot[k].tag}
         IN /\ home'[f] # home[f] => home[f] = "unborn" \/ home'[f] = "deleted" \/ asked
            /\ cat'[f] # cat[f] => \/ home[f] = "unborn" \/ home'[f] = "deleted" \/ asked
                                   \/ cat'[f] = "none" /\ cats'[cat[f]] = "deleted"]_catalogVars

\* Only a pending request is approved, rejected or deleted as a request, and a
\* decided restaurant is open to change only by an update that names a status,
\* unless the handler that saves it was overtaken.  A deleted row comes back
\* only so (SaveRow).
StatusFollowsRequests ==
    [][\A r \in Restaurants :
         Listed(r) /\ rest'[r].st # rest[r].st =>
             \/ \E k \in Slots :
                   /\ StepOf(k) /\ slot[k].id = r
                   /\ \/ slot[k].stale
                      \/ rest[r].st = "pending"
                      \/ rest'[r].st = slot[k].ask /\ slot[k].pc \notin {"approve_save", "reject_save"}
             \/ rest'[r].st = "deleted" /\ \A k \in Slots : ~StepOf(k)]_catalogVars
=============================================================================

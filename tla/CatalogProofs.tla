---------------------------- MODULE CatalogProofs ----------------------------
(***************************************************************************)
(* Catalog for every number of restaurants, foods, categories, handlers    *)
(* and restarts: types, and what a save of a whole entity may change.      *)
(***************************************************************************)
EXTENDS Catalog, TLAPS

Ids == Restaurants \cup Foods \cup Categories \cup {"none"}

HandlerType ==
    [pc : Stages, id : Ids, row : Row, loc : {"none", "bare", "located"},
     foods : SUBSET Foods, ask : RestaurantStatus \cup {"keep"},
     new : Addresses \cup {"none"}, point : BOOLEAN, img : Images \cup {"none"},
     to : Restaurants \cup {"none"}, tag : Categories \cup {"none", "unread"}, stale : BOOLEAN]

\* The stages of handlers that hold a restaurant: before its request is decided,
\* before its row is written as it was read, and before its list of foods is.
Deciding == {"approve_save", "reject_save", "delete_row"}
Keeping  == {"update_save", "files_clear", "files_drop", "files_address"}
Listing  == {"reject_save", "files_save"} \cup Keeping
Of == Deciding \cup Keeping \cup {"files_save", "files_clean"}

Proper(h) ==
    /\ h.pc \in Of => h.id \in Restaurants
    /\ h.pc = "food_save" => h.id \in Foods /\ h.to \in Restaurants
    /\ h.pc = "category_save" => h.id \in Categories

\* What a handler read is still what the tables say.
UpToDate(h, rs, hm, ct) ==
    /\ h.pc \in Deciding => rs[h.id].st = "pending"
    /\ h.pc \in Keeping => h.row.st = rs[h.id].st
    /\ h.pc \in Listing => h.foods = {f \in Foods : hm[f] = h.id}
    /\ h.pc = "category_save" => h.foods = {f \in Foods : ct[f] = h.id}

Tables ==
    /\ rest \in [Restaurants -> Row]
    /\ addr \in [Addresses -> {"none", "bare", "located"}]
    /\ files \subseteq Images
    /\ home \in [Foods -> Restaurants \cup {"nowhere"} \cup Life]
    /\ cat \in [Foods -> Categories \cup {"none"}]
    /\ cats \in [Categories -> {"here"} \cup Life]
    /\ calls \in 0..MaxCalls /\ crashes \in 0..MaxCrashes

Handlers == slot \in [Slots -> HandlerType] /\ \A k \in Slots : Proper(slot[k])

FreshInv == \A k \in Slots : ~slot[k].stale => UpToDate(slot[k], rest, home, cat)

Inv == Tables /\ Handlers /\ FreshInv

-----------------------------------------------------------------------------
(***************************************************************************)
(* Handlers.                                                               *)
(***************************************************************************)
LEMMA Names ==
    /\ "none" \notin Restaurants \cup Foods \cup Categories \cup Addresses \cup Images
    /\ "unborn" \notin Restaurants /\ "deleted" \notin Restaurants /\ "nowhere" \notin Restaurants
  BY CatalogAssumption

LEMMA IdleTyped ==
    /\ Idle \in HandlerType /\ Idle.pc = "idle" /\ ~Idle.stale /\ Proper(Idle)
    /\ \A rs, hm, ct : UpToDate(Idle, rs, hm, ct)
<1>1. NoRow \in Row
  BY DEF NoRow, Row, RestaurantStatus
<1>2. Idle \in HandlerType
  BY <1>1 DEF Idle, HandlerType, Stages, Ids
<1>3. Idle.pc = "idle" /\ Idle.stale = FALSE
  BY DEF Idle
<1> QED BY <1>2, <1>3 DEF Proper, UpToDate, Deciding, Keeping, Listing, Of

LEMMA Init == CatalogInit => Inv
<1> SUFFICES ASSUME CatalogInit PROVE Inv
  OBVIOUS
<1> DEFINE a == CHOOSE b \in Addresses : TRUE
           i == CHOOSE j \in Images : TRUE
           c == CHOOSE d \in Categories : TRUE
           f == CHOOSE g \in Foods : TRUE
<1>1. a \in Addresses /\ i \in Images /\ c \in Categories /\ First \in Restaurants
  BY CatalogAssumption
<1>2. [st |-> "approved", addr |-> a, coords |-> TRUE, avatar |-> i] \in Row
  BY <1>1 DEF Row, RestaurantStatus
<1>3. [NoRow EXCEPT !.st = "unborn"] \in Row
  BY DEF NoRow, Row, Life
<1>4. rest = [r \in Restaurants |->
                 IF r = First THEN [st |-> "approved", addr |-> a, coords |-> TRUE, avatar |-> i]
                              ELSE [NoRow EXCEPT !.st = "unborn"]]
      /\ files = {i} /\ cat = [g \in Foods |-> IF g = f THEN c ELSE "none"]
  BY DEF CatalogInit
<1> HIDE DEF a, i, c, f
<1>5. rest \in [Restaurants -> Row]
  BY <1>2, <1>3, <1>4
<1>6. files \subseteq Images /\ cat \in [Foods -> Categories \cup {"none"}]
  BY <1>1, <1>4
<1>7. addr \in [Addresses -> {"none", "bare", "located"}]
  BY DEF CatalogInit
<1>8. home \in [Foods -> Restaurants \cup {"nowhere"} \cup Life]
  BY <1>1 DEF CatalogInit, Life
<1>9. cats \in [Categories -> {"here"} \cup Life]
  BY DEF CatalogInit, Life
<1>10. calls \in 0..MaxCalls /\ crashes \in 0..MaxCrashes
  BY CatalogAssumption DEF CatalogInit
<1>11. Handlers /\ FreshInv
  BY IdleTyped DEF CatalogInit, Handlers, FreshInv
<1> QED BY <1>5, <1>6, <1>7, <1>8, <1>9, <1>10, <1>11 DEF Inv, Tables

\* A handler starts, and nothing is written.
LEMMA Starts ==
  ASSUME Inv, NEW k \in Slots, NEW h \in HandlerType, Proper(h), UpToDate(h, rest, home, cat),
         Begin(k, h), UNCHANGED <<rest, addr, files, home, cat, cats, crashes>>
  PROVE  Inv'
<1>1. slot' = [slot EXCEPT ![k] = h] /\ calls' \in 0..MaxCalls
  BY CatalogAssumption DEF Begin, Call, Inv, Tables
<1>2. Handlers'
  BY <1>1 DEF Inv, Handlers
<1>3. FreshInv'
  BY <1>1 DEF Inv, Handlers, FreshInv
<1> QED BY <1>1, <1>2, <1>3 DEF Inv, Tables

\* A handler writes and goes on; what the others read is older than that.
LEMMA Writes ==
  ASSUME Inv, Tables', NEW k \in Slots, NEW pc \in Stages, Wrote(k, pc),
         pc # "idle" => /\ Proper([slot[k] EXCEPT !.pc = pc])
                        /\ ~slot[k].stale =>
                              UpToDate([slot[k] EXCEPT !.pc = pc], rest', home', cat')
  PROVE  Inv'
<1> USE DEF Inv, Handlers
<1>1. Aged(slot) \in [Slots -> HandlerType]
  BY DEF Aged, HandlerType
<1>2. \A j \in Slots : /\ Aged(slot)[j].pc = slot[j].pc /\ Aged(slot)[j].id = slot[j].id
                       /\ Aged(slot)[j].to = slot[j].to
                       /\ slot[j].pc # "idle" => Aged(slot)[j].stale
  BY DEF Aged, HandlerType
<1> DEFINE h == IF pc = "idle" THEN Idle ELSE [slot[k] EXCEPT !.pc = pc]
<1>3. h \in HandlerType /\ Proper(h)
  BY IdleTyped DEF HandlerType
<1>4. ~h.stale => UpToDate(h, rest', home', cat')
  BY IdleTyped DEF HandlerType
<1>5. slot' = [Aged(slot) EXCEPT ![k] = h]
  BY DEF Wrote
<1> HIDE DEF h
<1>6. slot' \in [Slots -> HandlerType] /\ slot'[k] = h
      /\ \A j \in Slots \ {k} : slot'[j] = Aged(slot)[j]
  BY <1>1, <1>3, <1>5
<1>7. \A j \in Slots : Proper(slot'[j])
  BY <1>2, <1>3, <1>6 DEF Proper
<1>8. \A j \in Slots : ~slot'[j].stale => UpToDate(slot'[j], rest', home', cat')
  <2> SUFFICES ASSUME NEW j \in Slots \ {k}, ~slot'[j].stale
               PROVE  UpToDate(slot'[j], rest', home', cat')
    BY <1>4, <1>6
  <2>1. slot'[j].pc = "idle"
    BY <1>2, <1>6
  <2> QED BY <2>1 DEF UpToDate, Deciding, Keeping, Listing
<1> QED BY <1>6, <1>7, <1>8 DEF FreshInv

\* Something is written by a request of a single step.
LEMMA Ages ==
  ASSUME Inv, Tables', slot' = Aged(slot)
  PROVE  Inv'
<1> USE DEF Inv, Handlers
<1>1. Aged(slot) \in [Slots -> HandlerType]
  BY DEF Aged, HandlerType
<1>2. \A j \in Slots : /\ Aged(slot)[j].pc = slot[j].pc /\ Aged(slot)[j].id = slot[j].id
                       /\ Aged(slot)[j].to = slot[j].to
                       /\ slot[j].pc # "idle" => Aged(slot)[j].stale
  BY DEF Aged, HandlerType
<1>3. \A j \in Slots : Proper(slot'[j])
  BY <1>2 DEF Proper
<1>4. \A j \in Slots : ~slot'[j].stale => UpToDate(slot'[j], rest', home', cat')
  BY <1>2 DEF UpToDate, Deciding, Keeping, Listing
<1> QED BY <1>1, <1>3, <1>4 DEF FreshInv

\* A handler ends with an error, or all of them by a restart: nothing is written.
LEMMA Ends ==
  ASSUME Inv, Tables', UNCHANGED <<rest, home, cat>>, slot' \in [Slots -> HandlerType],
         \A k \in Slots : slot'[k] = slot[k] \/ slot'[k] = Idle
  PROVE  Inv'
  BY IdleTyped DEF Inv, Handlers, FreshInv
-----------------------------------------------------------------------------
(***************************************************************************)
(* What the handlers read, and what they save.                             *)
(***************************************************************************)
LEMMA Fields ==
  ASSUME Inv, NEW k \in Slots
  PROVE  /\ slot[k] \in HandlerType /\ Proper(slot[k])
         /\ slot[k].row \in Row /\ slot[k].loc \in {"none", "bare", "located"}
         /\ slot[k].foods \subseteq Foods
         /\ slot[k].ask \in RestaurantStatus \cup {"keep"}
         /\ slot[k].new \in Addresses \cup {"none"} /\ slot[k].point \in BOOLEAN
         /\ slot[k].img \in Images \cup {"none"}
         /\ slot[k].tag \in Categories \cup {"none", "unread"}
<1>1. slot[k] \in HandlerType /\ Proper(slot[k])
  BY DEF Inv, Handlers
<1> QED BY <1>1 DEF HandlerType

IdleWith(pc, id, row, loc, fs, ask) ==
    [Idle EXCEPT !.pc = pc, !.id = id, !.row = row, !.loc = loc, !.foods = fs, !.ask = ask]

LEMMA IdleWithTyped ==
    \A pc \in Stages, id \in Ids, row \in Row, loc \in {"none", "bare", "located"},
       fs \in SUBSET Foods, ask \in RestaurantStatus \cup {"keep"} :
         /\ IdleWith(pc, id, row, loc, fs, ask) \in HandlerType
         /\ IdleWith(pc, id, row, loc, fs, ask).pc = pc
         /\ IdleWith(pc, id, row, loc, fs, ask).id = id
         /\ IdleWith(pc, id, row, loc, fs, ask).row = row
         /\ IdleWith(pc, id, row, loc, fs, ask).foods = fs
         /\ IdleWith(pc, id, row, loc, fs, ask).stale = FALSE
<1>1. Idle \in HandlerType /\ Idle.stale = FALSE
  BY IdleTyped, Zenon DEF Idle
<1> TAKE pc \in Stages, id \in Ids, row \in Row, loc \in {"none", "bare", "located"},
         fs \in SUBSET Foods, ask \in RestaurantStatus \cup {"keep"}
<1> DEFINE h == IdleWith(pc, id, row, loc, fs, ask)
<1>2. h \in HandlerType /\ h.pc = pc /\ h.id = id /\ h.row = row /\ h.foods = fs
      /\ h.stale = FALSE
  BY <1>1 DEF HandlerType, IdleWith
<1> QED BY <1>2

FoodsOf(r) == {f \in Foods : home[f] = r}

LEMMA HeldTyped ==
    Tables => \A r \in Restaurants, pc \in Of, ask \in RestaurantStatus \cup {"keep"} :
         /\ Held(pc, r, ask) \in HandlerType
         /\ Held(pc, r, ask).pc = pc /\ Held(pc, r, ask).id = r
         /\ Held(pc, r, ask).row.st = rest[r].st
         /\ Held(pc, r, ask).foods = FoodsOf(r)
         /\ Held(pc, r, ask).stale = FALSE
<1> SUFFICES ASSUME Tables, NEW r \in Restaurants, NEW pc \in Of,
                    NEW ask \in RestaurantStatus \cup {"keep"}
             PROVE  /\ Held(pc, r, ask) \in HandlerType
                    /\ Held(pc, r, ask).pc = pc /\ Held(pc, r, ask).id = r
                    /\ Held(pc, r, ask).row.st = rest[r].st
                    /\ Held(pc, r, ask).foods = FoodsOf(r)
                    /\ Held(pc, r, ask).stale = FALSE
  BY Zenon
<1>1. rest[r] \in Row
  BY DEF Tables
<1>2. LocationOf(rest[r].addr) \in {"none", "bare", "located"}
  <2>1. rest[r].addr \in Addresses \cup {"none"}
    BY <1>1 DEF Row
  <2> QED BY <2>1 DEF Tables, LocationOf
<1>3. Seen(r) \in Row /\ Seen(r).st = rest[r].st
  <2>1. (rest[r].coords /\ LocationOf(rest[r].addr) = "located") \in BOOLEAN
    OBVIOUS
  <2>2. Seen(r) = [rest[r] EXCEPT !.coords =
                                     rest[r].coords /\ LocationOf(rest[r].addr) = "located"]
    BY DEF Seen
  <2> QED BY <1>1, <2>1, <2>2 DEF Row
<1>4. pc \in Stages /\ r \in Ids /\ FoodsOf(r) \in SUBSET Foods
  BY DEF Of, Deciding, Keeping, Stages, Ids, FoodsOf
<1>5. Held(pc, r, ask) = IdleWith(pc, r, Seen(r), LocationOf(rest[r].addr), FoodsOf(r), ask)
  BY Zenon DEF Held, IdleWith, FoodsOf
<1>6. LET h == IdleWith(pc, r, Seen(r), LocationOf(rest[r].addr), FoodsOf(r), ask) IN
      /\ h \in HandlerType
      /\ h.pc = pc /\ h.id = r /\ h.row = Seen(r) /\ h.foods = FoodsOf(r) /\ h.stale = FALSE
  BY <1>2, <1>3, <1>4, IdleWithTyped
<1> QED BY <1>3, <1>5, <1>6

LEMMA RowWith ==
  ASSUME NEW row \in Row
  PROVE  /\ \A s \in RestaurantStatus \cup Life :
              [row EXCEPT !.st = s] \in Row /\ [row EXCEPT !.st = s].st = s
         /\ \A a \in Addresses \cup {"none"} :
              [row EXCEPT !.addr = a] \in Row /\ [row EXCEPT !.addr = a].st = row.st
         /\ \A c \in BOOLEAN :
              [row EXCEPT !.coords = c] \in Row /\ [row EXCEPT !.coords = c].st = row.st
         /\ \A s \in RestaurantStatus \cup Life, c \in BOOLEAN :
              /\ [row EXCEPT !.st = s, !.coords = c] \in Row
              /\ [row EXCEPT !.st = s, !.coords = c].st = s
  BY DEF Row

LEMMA SaveTyped ==
  ASSUME Tables, NEW r \in Restaurants, NEW row \in Row, NEW loc \in {"none", "bare", "located"},
         SaveRow(r, row, loc)
  PROVE  /\ rest' \in [Restaurants -> Row] /\ addr' \in [Addresses -> {"none", "bare", "located"}]
         /\ rest'[r] = row /\ \A q \in Restaurants \ {r} : rest'[q] = rest[q]
  BY DEF Tables, SaveRow

\* A list of foods that is up to date is saved without effect.
LEMMA RehomedHome ==
  ASSUME Tables, NEW r \in Restaurants, NEW list
  PROVE  /\ Rehomed(home, r, list) \in [Foods -> Restaurants \cup {"nowhere"} \cup Life]
         /\ list = {f \in Foods : home[f] = r} => Rehomed(home, r, list) = home
  BY Names DEF Tables, Rehomed, Life

LEMMA RehomedCat ==
  ASSUME Tables, NEW c \in Categories, NEW list
  PROVE  /\ Rehomed(cat, c, list) \in [Foods -> Categories \cup {"none"}]
         /\ list = {f \in Foods : cat[f] = c} => Rehomed(cat, c, list) = cat
<1>1. c \notin Restaurants
  BY CatalogAssumption
<1> QED BY <1>1 DEF Tables, Rehomed

-----------------------------------------------------------------------------
(***************************************************************************)
(* The handlers that read.                                                 *)
(***************************************************************************)
LEMMA With ==
    \A h \in HandlerType :
         /\ \A w \in Row : /\ [h EXCEPT !.row = w] \in HandlerType
                           /\ [h EXCEPT !.row = w].pc = h.pc
                           /\ [h EXCEPT !.row = w].id = h.id
         /\ \A p \in BOOLEAN : /\ [h EXCEPT !.point = p] \in HandlerType
                               /\ [h EXCEPT !.point = p].pc = h.pc
                               /\ [h EXCEPT !.point = p].id = h.id
                               /\ [h EXCEPT !.point = p].row = h.row
                               /\ [h EXCEPT !.point = p].foods = h.foods
  BY DEF HandlerType

LEMMA ReadsRestaurant ==
  ASSUME Inv, NEW k \in Slots, NEW r \in Restaurants,
         \/ ApproveRead(k, r) \/ RejectRead(k, r) \/ DeleteRequestRead(k, r)
         \/ \E ask \in AskStatus, located \in BOOLEAN :
               \/ UpdateRead(k, r, ask, located)
               \/ \E a \in FreeAddresses \cup {"none"}, i \in FreeImages \cup {"none"} :
                      FilesRead(k, r, ask, a, located, i)
  PROVE  Inv'
<1> USE DEF Inv
<1>1. CASE ApproveRead(k, r)
  <2> DEFINE g == Held("approve_save", r, "approved")
             h == [g EXCEPT !.row = rest[r]]
  <2>1. g \in HandlerType /\ g.pc = "approve_save" /\ g.id = r /\ g.stale = FALSE
    BY HeldTyped DEF RestaurantStatus, Of, Deciding
  <2>2. rest[r] \in Row
    BY DEF Tables
  <2> HIDE DEF g
  <2>3. h \in HandlerType /\ h.pc = "approve_save" /\ h.id = r
    BY <2>1, <2>2, With
  <2> HIDE DEF h
  <2>4. Proper(h) /\ UpToDate(h, rest, home, cat)
    BY <1>1, <2>3 DEF Proper, UpToDate, Deciding, Keeping, Listing, ApproveRead
  <2>5. Begin(k, h) /\ UNCHANGED <<rest, addr, files, home, cat, cats, crashes>>
    BY <1>1 DEF ApproveRead, g, h
  <2> QED BY <2>3, <2>4, <2>5, Starts
<1>2. CASE RejectRead(k, r)
  <2> DEFINE h == Held("reject_save", r, "rejected")
  <2>1. h \in HandlerType /\ h.pc = "reject_save" /\ h.id = r /\ h.foods = FoodsOf(r)
    BY HeldTyped DEF RestaurantStatus, Of, Deciding
  <2> HIDE DEF h
  <2>2. Proper(h) /\ UpToDate(h, rest, home, cat)
    BY <1>2, <2>1 DEF Proper, UpToDate, Deciding, Keeping, Listing, FoodsOf, RejectRead
  <2>3. Begin(k, h) /\ UNCHANGED <<rest, addr, files, home, cat, cats, crashes>>
    BY <1>2 DEF RejectRead, h
  <2> QED BY <2>1, <2>2, <2>3, Starts
<1>3. CASE DeleteRequestRead(k, r)
  <2> DEFINE h == Held("delete_row", r, "keep")
  <2>1. h \in HandlerType /\ h.pc = "delete_row" /\ h.id = r
    BY HeldTyped DEF Of, Deciding
  <2> HIDE DEF h
  <2>2. Proper(h) /\ UpToDate(h, rest, home, cat)
    BY <1>3, <2>1 DEF Proper, UpToDate, Deciding, Keeping, Listing, DeleteRequestRead
  <2>3. Begin(k, h) /\ UNCHANGED <<rest, addr, files, home, cat, cats, crashes>>
    BY <1>3 DEF DeleteRequestRead, h
  <2> QED BY <2>1, <2>2, <2>3, Starts
<1>4. ASSUME NEW ask \in AskStatus, NEW located \in BOOLEAN, UpdateRead(k, r, ask, located)
      PROVE  Inv'
  <2> DEFINE g == Held("update_save", r, ask)
             h == [g EXCEPT !.point = located]
  <2>1. /\ g \in HandlerType /\ g.pc = "update_save" /\ g.id = r /\ g.row.st = rest[r].st
        /\ g.foods = FoodsOf(r)
    BY HeldTyped DEF AskStatus, RestaurantStatus, Of, Keeping
  <2> HIDE DEF g
  <2>2. /\ h \in HandlerType /\ h.pc = "update_save" /\ h.id = r /\ h.row.st = rest[r].st
        /\ h.foods = FoodsOf(r)
    BY <2>1, With
  <2> HIDE DEF h
  <2>3. Proper(h) /\ UpToDate(h, rest, home, cat)
    BY <2>2 DEF Proper, UpToDate, Deciding, Keeping, Listing, FoodsOf
  <2>4. Begin(k, h) /\ UNCHANGED <<rest, addr, files, home, cat, cats, crashes>>
    BY <1>4 DEF UpdateRead, g, h
  <2> QED BY <2>2, <2>3, <2>4, Starts
<1>5. ASSUME NEW ask \in AskStatus, NEW located \in BOOLEAN,
             NEW a \in FreeAddresses \cup {"none"}, NEW i \in FreeImages \cup {"none"},
             FilesRead(k, r, ask, a, located, i)
      PROVE  Inv'
  <2> DEFINE pc == IF a = "none" THEN "files_save"
                   ELSE IF rest[r].addr = "none" THEN "files_address" ELSE "files_clear"
             g == Held(pc, r, ask)
             h == [g EXCEPT !.new = a, !.point = located, !.img = i]
  <2>1. pc \in {"files_save", "files_address", "files_clear"}
    OBVIOUS
  <2> HIDE DEF pc
  <2>2. pc \in Of /\ ask \in RestaurantStatus \cup {"keep"}
    BY <2>1 DEF AskStatus, RestaurantStatus, Of, Keeping
  <2>3. /\ g \in HandlerType /\ g.pc = pc /\ g.id = r /\ g.row.st = rest[r].st
        /\ g.foods = FoodsOf(r)
    BY <2>2, HeldTyped
  <2>4. a \in Addresses \cup {"none"} /\ i \in Images \cup {"none"}
    BY DEF FreeAddresses, FreeImages
  <2> HIDE DEF g
  <2>5. /\ h \in HandlerType /\ h.pc = pc /\ h.id = r /\ h.row.st = rest[r].st
        /\ h.foods = FoodsOf(r)
    BY <2>3, <2>4 DEF HandlerType
  <2> HIDE DEF h
  <2>6. Proper(h) /\ UpToDate(h, rest, home, cat)
    BY <2>1, <2>5 DEF Proper, UpToDate, Deciding, Keeping, Listing, FoodsOf
  <2>7. Begin(k, h) /\ UNCHANGED <<rest, addr, files, home, cat, cats, crashes>>
    BY <1>5 DEF FilesRead, g, h, pc
  <2> QED BY <2>5, <2>6, <2>7, Starts
<1> QED BY <1>1, <1>2, <1>3, <1>4, <1>5

LEMMA ReadsFoodOrCategory ==
  ASSUME Inv, NEW k \in Slots,
         \/ \E f \in Foods, r \in Restaurants, c \in Categories \cup {"none", "unread"} :
                FoodRead(k, f, r, c)
         \/ \E c \in Categories : CategoryRead(k, c)
  PROVE  Inv'
<1>1. ASSUME NEW f \in Foods, NEW r \in Restaurants, NEW c \in Categories \cup {"none", "unread"},
             FoodRead(k, f, r, c)
      PROVE  Inv'
  <2> DEFINE h == [Idle EXCEPT !.pc = "food_save", !.id = f, !.to = r, !.tag = c]
  <2>1. f \in Ids /\ "food_save" \in Stages
    BY DEF Ids, Stages
  <2>2. h \in HandlerType /\ h.pc = "food_save" /\ h.id = f /\ h.to = r
    BY <2>1, IdleTyped DEF HandlerType
  <2>3. Begin(k, h) /\ UNCHANGED <<rest, addr, files, home, cat, cats, crashes>>
    BY <1>1 DEF FoodRead
  <2> HIDE DEF h
  <2>4. Proper(h) /\ UpToDate(h, rest, home, cat)
    BY <2>2 DEF Proper, UpToDate, Deciding, Keeping, Listing, Of
  <2> QED BY <2>2, <2>3, <2>4, Starts
<1>2. ASSUME NEW c \in Categories, CategoryRead(k, c)
      PROVE  Inv'
  <2> DEFINE F == {f \in Foods : cat[f] = c}
             h == [Idle EXCEPT !.pc = "category_save", !.id = c, !.foods = F]
  <2>1. c \in Ids /\ "category_save" \in Stages /\ F \in SUBSET Foods
    BY DEF Ids, Stages
  <2>2. Begin(k, h) /\ UNCHANGED <<rest, addr, files, home, cat, cats, crashes>>
    BY <1>2 DEF CategoryRead
  <2> HIDE DEF F
  <2>3. h \in HandlerType /\ h.pc = "category_save" /\ h.id = c /\ h.foods = F
    BY <2>1, IdleTyped DEF HandlerType
  <2> HIDE DEF h
  <2>4. Proper(h) /\ UpToDate(h, rest, home, cat)
    BY <2>3 DEF F, Proper, UpToDate, Deciding, Keeping, Listing, Of
  <2> QED BY <2>2, <2>3, <2>4, Starts
<1> QED BY <1>1, <1>2

-----------------------------------------------------------------------------
(***************************************************************************)
(* The handlers that write.                                                *)
(***************************************************************************)
LEMMA IdleStage == "idle" \in Stages
  BY DEF Stages

LEMMA OwnsRestaurant ==
    \A k \in Slots : Inv /\ slot[k].pc \in Of => slot[k].id \in Restaurants
  BY DEF Inv, Handlers, Proper

\* A handler that only changes its stage.
LEMMA StageOnly ==
  ASSUME Inv, NEW k \in Slots, NEW pc \in Stages
  PROVE  LET h == [slot[k] EXCEPT !.pc = pc] IN
         /\ h.pc = pc /\ h.id = slot[k].id /\ h.row = slot[k].row /\ h.foods = slot[k].foods
         /\ h.to = slot[k].to
  BY DEF Inv, Handlers, HandlerType

\* What a save of a restaurant as it was read, with its list of foods, changes.
LEMMA Saves ==
  ASSUME Inv, NEW k \in Slots, slot[k].pc \in Of,
         NEW row \in Row, NEW loc \in {"none", "bare", "located"},
         SaveRow(slot[k].id, row, loc)
  PROVE  /\ rest' \in [Restaurants -> Row]
         /\ addr' \in [Addresses -> {"none", "bare", "located"}]
         /\ rest'[slot[k].id] = row
         /\ \A q \in Restaurants \ {slot[k].id} : rest'[q] = rest[q]
<1>1. slot[k].id \in Restaurants /\ Tables
  BY OwnsRestaurant DEF Inv
<1> QED BY <1>1, SaveTyped

LEMMA Lists ==
  ASSUME Inv, NEW k \in Slots, slot[k].pc \in Listing,
         home' = Rehomed(home, slot[k].id, slot[k].foods)
  PROVE  /\ home' \in [Foods -> Restaurants \cup {"nowhere"} \cup Life]
         /\ ~slot[k].stale => home' = home
<1>1. slot[k].id \in Restaurants /\ Tables
  BY OwnsRestaurant DEF Inv, Of, Listing, Deciding
<1>2. ~slot[k].stale => slot[k].foods = {f \in Foods : home[f] = slot[k].id}
  BY DEF Inv, FreshInv, UpToDate
<1> QED BY <1>1, <1>2, RehomedHome

LEMMA ApproveSaves ==
  ASSUME Inv, NEW k \in Slots, ApproveSave(k)
  PROVE  Inv'
<1> DEFINE row == [slot[k].row EXCEPT !.st = "approved"]
<1>1. row \in Row /\ slot[k].loc \in {"none", "bare", "located"}
  BY Fields, RowWith DEF RestaurantStatus
<1>2. slot[k].pc \in Of /\ SaveRow(slot[k].id, row, slot[k].loc)
  BY DEF ApproveSave, At, Of, Deciding
<1> HIDE DEF row
<1>3. /\ rest' \in [Restaurants -> Row]
      /\ addr' \in [Addresses -> {"none", "bare", "located"}]
  BY <1>1, <1>2, Saves
<1>4. Tables'
  BY <1>3 DEF ApproveSave, Inv, Tables
<1>5. Wrote(k, "idle")
  BY DEF ApproveSave
<1> QED BY <1>4, <1>5, IdleStage, Writes

LEMMA RejectSaves ==
  ASSUME Inv, NEW k \in Slots, RejectSave(k)
  PROVE  Inv'
<1> DEFINE row == [slot[k].row EXCEPT !.st = "rejected"]
<1>1. row \in Row /\ slot[k].loc \in {"none", "bare", "located"}
  BY Fields, RowWith DEF RestaurantStatus
<1>2. slot[k].pc \in Of /\ SaveRow(slot[k].id, row, slot[k].loc)
  BY DEF RejectSave, At, Of, Deciding
<1> HIDE DEF row
<1>3. /\ rest' \in [Restaurants -> Row]
      /\ addr' \in [Addresses -> {"none", "bare", "located"}]
  BY <1>1, <1>2, Saves
<1>4. home' \in [Foods -> Restaurants \cup {"nowhere"} \cup Life]
  BY Lists DEF RejectSave, At, Listing
<1>5. Tables'
  BY <1>3, <1>4 DEF RejectSave, Inv, Tables
<1>6. Wrote(k, "idle")
  BY DEF RejectSave
<1> QED BY <1>5, <1>6, IdleStage, Writes

LEMMA DeleteTyped ==
  ASSUME Tables, NEW r, Delete(r)
  PROVE  rest' \in [Restaurants -> Row]
<1>1. [NoRow EXCEPT !.st = "deleted"] \in Row
  BY DEF NoRow, Row, Life
<1> QED BY <1>1 DEF Tables, Delete

LEMMA DeletesRequest ==
  ASSUME Inv, NEW k \in Slots, DeleteRequestRow(k)
  PROVE  Inv'
<1>1. CASE Deletable(slot[k].id)
  <2>1. rest' \in [Restaurants -> Row]
    BY <1>1, DeleteTyped DEF DeleteRequestRow, Inv
  <2>2. Tables' /\ Wrote(k, "idle")
    BY <1>1, <2>1 DEF DeleteRequestRow, Inv, Tables
  <2> QED BY <2>2, IdleStage, Writes
<1>2. CASE ~Deletable(slot[k].id)
  <2>1. Tables' /\ UNCHANGED <<rest, home, cat>> /\ Gone(k)
    BY <1>2 DEF DeleteRequestRow, Inv, Tables
  <2>2. slot' \in [Slots -> HandlerType] /\ \A j \in Slots : slot'[j] = slot[j] \/ slot'[j] = Idle
    BY <2>1, IdleTyped DEF Gone, Inv, Handlers
  <2> QED BY <2>1, <2>2, Ends
<1> QED BY <1>1, <1>2

LEMMA AskedTyped ==
  ASSUME Inv, NEW k \in Slots, NEW st \in RestaurantStatus \cup Life
  PROVE  /\ Asked(slot[k], st) \in RestaurantStatus \cup Life
         /\ Asked(slot[k], st) = st \/ Asked(slot[k], st) = slot[k].ask
  BY Fields DEF Asked

LEMMA UpdateSaves ==
  ASSUME Inv, NEW k \in Slots, UpdateSave(k)
  PROVE  Inv'
<1> DEFINE row == [slot[k].row EXCEPT !.st = Asked(slot[k], slot[k].row.st),
                                      !.coords = slot[k].row.coords \/ slot[k].point]
<1>1. /\ slot[k].row \in Row /\ slot[k].loc \in {"none", "bare", "located"}
      /\ slot[k].row.st \in RestaurantStatus \cup Life
  BY Fields DEF Row
<1>2. row \in Row
  <2>1. Asked(slot[k], slot[k].row.st) \in RestaurantStatus \cup Life
    BY <1>1, AskedTyped
  <2>2. (slot[k].row.coords \/ slot[k].point) \in BOOLEAN
    OBVIOUS
  <2> QED BY <1>1, <2>1, <2>2, RowWith
<1>3. slot[k].pc \in Of /\ slot[k].pc \in Listing /\ SaveRow(slot[k].id, row, slot[k].loc)
  BY DEF UpdateSave, At, Of, Keeping, Listing
<1> HIDE DEF row
<1>4. /\ rest' \in [Restaurants -> Row]
      /\ addr' \in [Addresses -> {"none", "bare", "located"}]
  BY <1>1, <1>2, <1>3, Saves
<1>5. home' \in [Foods -> Restaurants \cup {"nowhere"} \cup Life]
  BY <1>3, Lists DEF UpdateSave
<1>6. Tables'
  BY <1>4, <1>5 DEF UpdateSave, Inv, Tables
<1>7. Wrote(k, "idle")
  BY DEF UpdateSave
<1> QED BY <1>6, <1>7, IdleStage, Writes

\* A handler of PUT /restaurants/:id/files goes on with its list of foods.
LEMMA Continues ==
  ASSUME Inv, Tables', NEW k \in Slots, slot[k].pc \in Listing,
         NEW pc \in {"files_drop", "files_address", "files_save"}, Wrote(k, pc),
         ~slot[k].stale => /\ home' = home
                           /\ pc # "files_save" => slot[k].row.st = rest'[slot[k].id].st
  PROVE  Inv'
<1> DEFINE h == [slot[k] EXCEPT !.pc = pc]
<1>1. pc \in Stages /\ pc \in Of
  BY DEF Stages, Of, Keeping
<1>2. h.pc = pc /\ h.id = slot[k].id /\ h.row = slot[k].row /\ h.foods = slot[k].foods
  BY <1>1, StageOnly
<1>3. slot[k].id \in Restaurants
  BY OwnsRestaurant DEF Of, Listing, Deciding
<1>4. ~slot[k].stale => slot[k].foods = {f \in Foods : home[f] = slot[k].id}
  BY DEF Inv, FreshInv, UpToDate
<1> HIDE DEF h
<1>5. Proper(h)
  BY <1>2, <1>3 DEF Proper
<1>6. ~slot[k].stale => UpToDate(h, rest', home', cat')
  BY <1>2, <1>4 DEF UpToDate, Deciding, Keeping, Listing
<1> QED BY <1>1, <1>5, <1>6, Writes DEF h

LEMMA FilesClears ==
  ASSUME Inv, NEW k \in Slots, FilesClear(k)
  PROVE  Inv' /\ (~slot[k].stale => home' = home)
<1> DEFINE row == [slot[k].row EXCEPT !.addr = "none"]
<1>1. row \in Row /\ row.st = slot[k].row.st
  <2>1. slot[k].row \in Row /\ "none" \in Addresses \cup {"none"}
    BY Fields
  <2> QED BY <2>1, RowWith
<1>2. slot[k].pc \in Of /\ slot[k].pc \in Listing /\ SaveRow(slot[k].id, row, "none")
  BY DEF FilesClear, At, Of, Keeping, Listing
<1> HIDE DEF row
<1>3. /\ rest' \in [Restaurants -> Row]
      /\ addr' \in [Addresses -> {"none", "bare", "located"}]
      /\ rest'[slot[k].id] = row
  BY <1>1, <1>2, Saves
<1>4. /\ home' \in [Foods -> Restaurants \cup {"nowhere"} \cup Life]
      /\ ~slot[k].stale => home' = home
  BY <1>2, Lists DEF FilesClear
<1>5. Tables'
  BY <1>3, <1>4 DEF FilesClear, Inv, Tables
<1>6. Wrote(k, "files_drop")
  BY DEF FilesClear
<1> QED BY <1>1, <1>2, <1>3, <1>4, <1>5, <1>6, Continues

LEMMA FilesDrops ==
  ASSUME Inv, NEW k \in Slots, FilesDrop(k)
  PROVE  Inv'
<1> DEFINE a == slot[k].row.addr
<1>1. CASE \E r \in Restaurants : rest[r].addr = a
  <2>1. Tables' /\ UNCHANGED <<rest, home, cat>> /\ Gone(k)
    BY <1>1 DEF FilesDrop, Inv, Tables
  <2>2. slot' \in [Slots -> HandlerType] /\ \A j \in Slots : slot'[j] = slot[j] \/ slot'[j] = Idle
    BY <2>1, IdleTyped DEF Gone, Inv, Handlers
  <2> QED BY <2>1, <2>2, Ends
<1>2. CASE ~\E r \in Restaurants : rest[r].addr = a
  <2>1. /\ addr' = [addr EXCEPT ![a] = "none"] /\ Wrote(k, "files_address")
        /\ slot[k].pc = "files_drop" /\ UNCHANGED <<rest, files, home, cat, cats, calls, crashes>>
    BY <1>2 DEF FilesDrop, At
  <2>2. addr' \in [Addresses -> {"none", "bare", "located"}]
    BY <2>1 DEF Inv, Tables
  <2>3. Tables' /\ slot[k].pc \in Listing
    BY <2>1, <2>2 DEF Inv, Tables, Listing, Keeping
  <2>4. ~slot[k].stale => slot[k].row.st = rest'[slot[k].id].st
    BY <2>1 DEF Inv, FreshInv, UpToDate, Keeping
  <2> QED BY <2>1, <2>3, <2>4, Continues
<1> QED BY <1>1, <1>2

LEMMA FilesAddresses ==
  ASSUME Inv, NEW k \in Slots, FilesAddress(k)
  PROVE  Inv' /\ (~slot[k].stale => home' = home)
<1> DEFINE row == [slot[k].row EXCEPT !.addr = slot[k].new]
<1>1. row \in Row /\ slot[k].new \in Addresses \cup {"none"}
  BY Fields, RowWith
<1>2. /\ slot[k].pc \in Of /\ slot[k].pc \in Listing
      /\ rest' = [rest EXCEPT ![slot[k].id] = row]
      /\ addr' = [addr EXCEPT ![slot[k].new] = IF slot[k].point THEN "located" ELSE "bare"]
      /\ home' = Rehomed(home, slot[k].id, slot[k].foods)
      /\ Wrote(k, "files_save") /\ UNCHANGED <<files, cat, cats, calls, crashes>>
  BY DEF FilesAddress, At, Of, Keeping, Listing
<1> HIDE DEF row
<1>3. rest' \in [Restaurants -> Row] /\ addr' \in [Addresses -> {"none", "bare", "located"}]
  BY <1>1, <1>2 DEF Inv, Tables
<1>4. /\ home' \in [Foods -> Restaurants \cup {"nowhere"} \cup Life]
      /\ ~slot[k].stale => home' = home
  BY <1>2, Lists
<1>5. Tables'
  BY <1>2, <1>3, <1>4 DEF Inv, Tables
<1> QED BY <1>2, <1>4, <1>5, Continues

LEMMA FilesSaves ==
  ASSUME Inv, NEW k \in Slots, FilesSave(k)
  PROVE  Inv' /\ (~slot[k].stale => home' = home)
<1> DEFINE old == IF Listed(slot[k].id) THEN rest[slot[k].id] ELSE NoRow
           row == [old EXCEPT !.st = Asked(slot[k], old.st),
                              !.coords = old.coords \/ slot[k].point]
           pc  == IF slot[k].img # "none" /\ slot[k].row.avatar # "none" THEN "files_clean"
                                                                        ELSE "idle"
<1>1. /\ slot[k].pc \in Of /\ slot[k].pc \in Listing
      /\ files' = IF slot[k].img = "none" THEN files ELSE files \cup {slot[k].img}
      /\ rest' = [rest EXCEPT ![slot[k].id] = row]
      /\ home' = Rehomed(home, slot[k].id, slot[k].foods)
      /\ Wrote(k, pc) /\ UNCHANGED <<addr, cat, cats, calls, crashes>>
  BY DEF FilesSave, At, Of, Listing
<1>2. slot[k].id \in Restaurants
  BY <1>1, OwnsRestaurant
<1>3. old \in Row
  BY <1>2 DEF Inv, Tables, NoRow, Row, RestaurantStatus
<1> HIDE DEF old
<1>4. row \in Row
  <2>1. old.st \in RestaurantStatus \cup Life
    BY <1>3 DEF Row
  <2>2. Asked(slot[k], old.st) \in RestaurantStatus \cup Life
    BY <2>1, AskedTyped
  <2>3. (old.coords \/ slot[k].point) \in BOOLEAN
    OBVIOUS
  <2> QED BY <1>3, <2>2, <2>3, RowWith
<1>5. pc \in {"idle", "files_clean"}
  OBVIOUS
<1> HIDE DEF row, pc
<1>6. rest' \in [Restaurants -> Row] /\ files' \subseteq Images
  BY <1>1, <1>4, Fields DEF Inv, Tables
<1>7. /\ home' \in [Foods -> Restaurants \cup {"nowhere"} \cup Life]
      /\ ~slot[k].stale => home' = home
  BY <1>1, Lists
<1>8. Tables'
  BY <1>1, <1>6, <1>7 DEF Inv, Tables
<1> DEFINE h == [slot[k] EXCEPT !.pc = pc]
<1>9. pc \in Stages
  BY <1>5 DEF Stages
<1>10. h.pc = pc /\ h.id = slot[k].id
  BY <1>9, StageOnly
<1> HIDE DEF h
<1>11. Proper(h) /\ UpToDate(h, rest', home', cat')
  BY <1>2, <1>5, <1>10 DEF Proper, UpToDate, Deciding, Keeping, Listing
<1> QED BY <1>1, <1>7, <1>8, <1>9, <1>11, Writes DEF h

LEMMA FilesCleans ==
  ASSUME Inv, NEW k \in Slots, FilesClean(k)
  PROVE  Inv'
<1>1. Tables' /\ Wrote(k, "idle")
  BY DEF FilesClean, Inv, Tables
<1> QED BY <1>1, IdleStage, Writes

LEMMA FoodSaves ==
  ASSUME Inv, NEW k \in Slots, FoodSave(k)
  PROVE  Inv'
<1> DEFINE h == slot[k]
           c == IF h.tag = "unread" THEN cat[h.id] ELSE h.tag
<1>1. h.id \in Foods /\ h.to \in Restaurants
  BY DEF FoodSave, At, Inv, Handlers, Proper
<1>2. CASE Listed(h.to) /\ (c # "none" => cats[c] = "here")
  <2>1. /\ home' = [home EXCEPT ![h.id] = h.to] /\ cat' = [cat EXCEPT ![h.id] = c]
        /\ Wrote(k, "idle") /\ UNCHANGED <<rest, addr, files, cats, calls, crashes>>
    BY <1>2 DEF FoodSave
  <2>2. c \in Categories \cup {"none"}
    BY <1>1, Fields DEF Inv, Tables
  <2> HIDE DEF h, c
  <2>3. /\ home' \in [Foods -> Restaurants \cup {"nowhere"} \cup Life]
        /\ cat' \in [Foods -> Categories \cup {"none"}]
    BY <1>1, <2>1, <2>2 DEF Inv, Tables
  <2>4. Tables'
    BY <2>1, <2>3 DEF Inv, Tables
  <2> QED BY <2>1, <2>4, IdleStage, Writes
<1>3. CASE ~(Listed(h.to) /\ (c # "none" => cats[c] = "here"))
  <2>1. Tables' /\ UNCHANGED <<rest, home, cat>> /\ Gone(k)
    BY <1>3 DEF FoodSave, Inv, Tables
  <2>2. slot' \in [Slots -> HandlerType] /\ \A j \in Slots : slot'[j] = slot[j] \/ slot'[j] = Idle
    BY <2>1, IdleTyped DEF Gone, Inv, Handlers
  <2> QED BY <2>1, <2>2, Ends
<1> QED BY <1>2, <1>3

LEMMA CategorySaves ==
  ASSUME Inv, NEW k \in Slots, CategorySave(k)
  PROVE  Inv' /\ (~slot[k].stale => cat' = cat)
<1>1. slot[k].id \in Categories
  BY DEF CategorySave, At, Inv, Handlers, Proper
<1>2. ~slot[k].stale => slot[k].foods = {f \in Foods : cat[f] = slot[k].id}
  BY DEF CategorySave, At, Inv, FreshInv, UpToDate
<1>3. cat' = Rehomed(cat, slot[k].id, slot[k].foods) /\ Tables
  BY DEF CategorySave, Inv
<1>4. cat' \in [Foods -> Categories \cup {"none"}] /\ (~slot[k].stale => cat' = cat)
  BY <1>1, <1>2, <1>3, RehomedCat
<1>5. cats' \in [Categories -> {"here"} \cup Life]
  BY <1>3 DEF CategorySave, Tables
<1>6. Tables' /\ Wrote(k, "idle")
  BY <1>4, <1>5 DEF CategorySave, Inv, Tables
<1> QED BY <1>4, <1>6, IdleStage, Writes

-----------------------------------------------------------------------------
(***************************************************************************)
(* The operations of one step.                                             *)
(***************************************************************************)
LEMMA RequestCreates ==
  ASSUME Inv, NEW r \in Restaurants, NEW located \in BOOLEAN,
         \/ \E a \in FreeAddresses, i \in FreeImages : Request(r, a, i, located)
         \/ Create(r, located)
  PROVE  Inv'
<1>1. ASSUME NEW a \in FreeAddresses, NEW i \in FreeImages, Request(r, a, i, located)
      PROVE  Inv'
  <2> DEFINE row == [st |-> "pending", addr |-> a, coords |-> located, avatar |-> i]
  <2>1. a \in Addresses /\ i \in Images
    BY DEF FreeAddresses, FreeImages
  <2>2. row \in Row
    BY <2>1 DEF Row, RestaurantStatus
  <2>3. /\ addr' = [addr EXCEPT ![a] = IF located THEN "located" ELSE "bare"]
        /\ files' = files \cup {i} /\ rest' = [rest EXCEPT ![r] = row]
        /\ slot' = Aged(slot) /\ UNCHANGED <<home, cat, cats, crashes>>
        /\ calls' \in 0..MaxCalls
    BY <1>1, CatalogAssumption DEF Request, Call, Inv, Tables
  <2> HIDE DEF row
  <2>4. addr' \in [Addresses -> {"none", "bare", "located"}]
    BY <2>3 DEF Inv, Tables
  <2>5. Tables'
    BY <2>1, <2>2, <2>3, <2>4 DEF Inv, Tables
  <2> QED BY <2>3, <2>5, Ages
<1>2. CASE Create(r, located)
  <2> DEFINE row == [NoRow EXCEPT !.st = "approved", !.coords = located]
  <2>1. row \in Row
    BY DEF NoRow, Row, RestaurantStatus
  <2>2. /\ rest' = [rest EXCEPT ![r] = row] /\ slot' = Aged(slot)
        /\ UNCHANGED <<addr, files, home, cat, cats, crashes>> /\ calls' \in 0..MaxCalls
    BY <1>2, CatalogAssumption DEF Create, Call, Inv, Tables
  <2> HIDE DEF row
  <2>3. Tables'
    BY <2>1, <2>2 DEF Inv, Tables
  <2> QED BY <2>2, <2>3, Ages
<1> QED BY <1>1, <1>2

LEMMA Removes ==
  ASSUME Inv, NEW r \in Restaurants, Remove(r)
  PROVE  Inv'
<1>1. rest' \in [Restaurants -> Row]
  BY DeleteTyped DEF Remove, Inv
<1>2. calls' \in 0..MaxCalls
  BY CatalogAssumption DEF Remove, Call, Inv, Tables
<1>3. Tables' /\ slot' = Aged(slot)
  BY <1>1, <1>2 DEF Remove, Inv, Tables
<1> QED BY <1>3, Ages

LEMMA FoodsOnce ==
  ASSUME Inv, NEW f \in Foods,
         \/ \E r \in Restaurants, c \in Categories \cup {"none"} : CreateFood(f, r, c)
         \/ RemoveFood(f)
  PROVE  Inv'
<1>1. ASSUME NEW r \in Restaurants, NEW c \in Categories \cup {"none"}, CreateFood(f, r, c)
      PROVE  Inv'
  <2>1. /\ home' = [home EXCEPT ![f] = r] /\ cat' = [cat EXCEPT ![f] = c]
        /\ calls' \in 0..MaxCalls /\ slot' = Aged(slot)
        /\ UNCHANGED <<rest, addr, files, cats, crashes>>
    BY <1>1, CatalogAssumption DEF CreateFood, Call, Inv, Tables
  <2>2. Tables'
    BY <2>1 DEF Inv, Tables
  <2> QED BY <2>1, <2>2, Ages
<1>2. CASE RemoveFood(f)
  <2>1. /\ home' = [home EXCEPT ![f] = "deleted"] /\ cat' = [cat EXCEPT ![f] = "none"]
        /\ calls' \in 0..MaxCalls /\ slot' = Aged(slot)
        /\ UNCHANGED <<rest, addr, files, cats, crashes>>
    BY <1>2, CatalogAssumption DEF RemoveFood, Call, Inv, Tables
  <2>2. Tables'
    BY <2>1 DEF Inv, Tables, Life
  <2> QED BY <2>1, <2>2, Ages
<1> QED BY <1>1, <1>2

LEMMA CategoriesOnce ==
  ASSUME Inv, NEW c \in Categories, CategoryCreate(c) \/ CategoryRemove(c)
  PROVE  Inv'
<1>1. calls' \in 0..MaxCalls
  BY CatalogAssumption DEF CategoryCreate, CategoryRemove, Call, Inv, Tables
<1>2. CASE CategoryCreate(c)
  <2>1. Tables' /\ UNCHANGED <<rest, home, cat, slot>>
    BY <1>1, <1>2 DEF CategoryCreate, Inv, Tables
  <2> QED BY <2>1 DEF Inv, Handlers, FreshInv
<1>3. CASE CategoryRemove(c)
  <2>1. cat' \in [Foods -> Categories \cup {"none"}]
    BY <1>3 DEF CategoryRemove, Inv, Tables
  <2>2. Tables' /\ slot' = Aged(slot)
    BY <1>1, <1>3, <2>1 DEF CategoryRemove, Inv, Tables, Life
  <2> QED BY <2>2, Ages
<1> QED BY <1>2, <1>3

LEMMA Restarts ==
  ASSUME Inv, Crash
  PROVE  Inv'
<1>1. crashes' \in 0..MaxCrashes
  BY CatalogAssumption DEF Crash, Inv, Tables
<1>2. Tables' /\ UNCHANGED <<rest, home, cat>>
  BY <1>1 DEF Crash, Inv, Tables
<1>3. slot' \in [Slots -> HandlerType] /\ \A j \in Slots : slot'[j] = Idle
  BY IdleTyped DEF Crash
<1> QED BY <1>2, <1>3, Ends

LEMMA Step == Inv /\ [CatalogNext]_catalogVars => Inv'
<1> SUFFICES ASSUME Inv, [CatalogNext]_catalogVars PROVE Inv'
  OBVIOUS
<1>1. ASSUME NEW k \in Slots, Start(k) PROVE Inv'
  <2>1. \/ \E r \in Restaurants :
              \/ ApproveRead(k, r) \/ RejectRead(k, r) \/ DeleteRequestRead(k, r)
              \/ \E ask \in AskStatus, located \in BOOLEAN :
                    \/ UpdateRead(k, r, ask, located)
                    \/ \E a \in FreeAddresses \cup {"none"}, i \in FreeImages \cup {"none"} :
                           FilesRead(k, r, ask, a, located, i)
        \/ \/ \E f \in Foods, r \in Restaurants, c \in Categories \cup {"none", "unread"} :
                  FoodRead(k, f, r, c)
           \/ \E c \in Categories : CategoryRead(k, c)
    BY <1>1, Zenon DEF Start
  <2> QED BY <2>1, ReadsRestaurant, ReadsFoodOrCategory
<1>2. ASSUME NEW k \in Slots, Continue(k) PROVE Inv'
  BY <1>2, ApproveSaves, RejectSaves, DeletesRequest, UpdateSaves, FilesClears, FilesDrops,
     FilesAddresses, FilesSaves, FilesCleans, FoodSaves, CategorySaves DEF Continue
<1>3. CASE AtOnce
  BY <1>3, RequestCreates, Removes, FoodsOnce, CategoriesOnce DEF AtOnce
<1>4. CASE Crash
  BY <1>4, Restarts
<1>5. CASE UNCHANGED catalogVars
  BY <1>5 DEF catalogVars, Inv, Tables, Handlers, FreshInv
<1> QED BY <1>1, <1>2, <1>3, <1>4, <1>5 DEF CatalogNext

LEMMA CatalogInvariant == CatalogSpec => []Inv
  BY Init, Step, PTL DEF CatalogSpec

\* Every row, every food and every handler in progress has its type, whatever
\* the handlers of restaurant.service.ts, food.service.ts and
\* category.service.ts interleave and wherever the server stops.
THEOREM CatalogTypeCorrect == CatalogSpec => []CatalogTypeOK
<1>1. Inv => CatalogTypeOK
  BY DEF Inv, Tables, Handlers, HandlerType, Ids, CatalogTypeOK
<1> QED BY <1>1, CatalogInvariant, PTL

-----------------------------------------------------------------------------
(***************************************************************************)
(* What a step does to the tables that the action properties read.         *)
(***************************************************************************)
Untouched == UNCHANGED <<rest, home, cat>>

LEMMA Reads ==
  ASSUME NEW k \in Slots, Start(k)
  PROVE  Untouched
  BY DEF Start, ApproveRead, RejectRead, DeleteRequestRead, UpdateRead, FilesRead, FoodRead,
         CategoryRead, Untouched

\* A handler that writes is seen to take a step.
LEMMA Steps ==
  ASSUME Inv, NEW k \in Slots, NEW pc \in Stages, Wrote(k, pc) \/ (Gone(k) /\ pc = "idle"),
         slot[k].pc # pc, slot[k].pc # "idle", crashes' = crashes
  PROVE  StepOf(k)
<1>1. slot'[k].pc = pc
  <2>1. CASE Wrote(k, pc)
    BY <2>1, IdleTyped, StageOnly DEF Wrote, Aged, Inv, Handlers
  <2>2. CASE Gone(k) /\ pc = "idle"
    BY <2>2, IdleTyped DEF Gone, Inv, Handlers
  <2> QED BY <2>1, <2>2
<1> QED BY <1>1 DEF StepOf

LEMMA Acts ==
  ASSUME Inv, NEW k \in Slots, Continue(k)
  PROVE  StepOf(k)
<1> USE DEF At
<1>1. CASE ApproveSave(k)
  BY <1>1, IdleStage, Steps DEF ApproveSave
<1>2. CASE RejectSave(k)
  BY <1>2, IdleStage, Steps DEF RejectSave
<1>3. CASE DeleteRequestRow(k)
  BY <1>3, IdleStage, Steps DEF DeleteRequestRow
<1>4. CASE UpdateSave(k)
  BY <1>4, IdleStage, Steps DEF UpdateSave
<1>5. CASE FilesClear(k)
  BY <1>5, Steps DEF FilesClear, Stages
<1>6. CASE FilesDrop(k)
  BY <1>6, Steps DEF FilesDrop, Stages
<1>7. CASE FilesAddress(k)
  BY <1>7, Steps DEF FilesAddress, Stages
<1>8. CASE FilesSave(k)
  BY <1>8, Steps DEF FilesSave, Stages
<1>9. CASE FilesClean(k)
  BY <1>9, IdleStage, Steps DEF FilesClean
<1>10. CASE FoodSave(k)
  BY <1>10, IdleStage, Steps DEF FoodSave
<1>11. CASE CategorySave(k)
  BY <1>11, IdleStage, Steps DEF CategorySave
<1> QED BY <1>1, <1>2, <1>3, <1>4, <1>5, <1>6, <1>7, <1>8, <1>9, <1>10, <1>11 DEF Continue

\* Requests of one step are the step of no handler.
LEMMA NobodySteps ==
  ASSUME Inv, slot' = Aged(slot)
  PROVE  \A k \in Slots : ~StepOf(k)
<1>1. \A k \in Slots : Aged(slot)[k].pc = slot[k].pc
  BY DEF Aged, Inv, Handlers, HandlerType
<1> QED BY <1>1 DEF StepOf

-----------------------------------------------------------------------------
(***************************************************************************)
(* The foods.                                                              *)
(***************************************************************************)
FoodFollows(f) ==
    LET asked == \E k \in Slots :
            /\ StepOf(k)
            /\ \/ slot[k].stale
               \/ slot[k].id = f /\ home'[f] = slot[k].to /\ cat'[f] \in {cat[f], slot[k].tag}
    IN /\ home'[f] # home[f] => home[f] = "unborn" \/ home'[f] = "deleted" \/ asked
       /\ cat'[f] # cat[f] => \/ home[f] = "unborn" \/ home'[f] = "deleted" \/ asked
                              \/ cat'[f] = "none" /\ cats'[cat[f]] = "deleted"

LEMMA FoodsKept ==
  ASSUME UNCHANGED <<home, cat>>
  PROVE  \A f \in Foods : FoodFollows(f)
  BY DEF FoodFollows

LEMMA FoodsOvertaken ==
  ASSUME NEW k \in Slots, StepOf(k), ~slot[k].stale => UNCHANGED <<home, cat>>
  PROVE  \A f \in Foods : FoodFollows(f)
  BY DEF FoodFollows

LEMMA FoodsContinue ==
  ASSUME Inv, NEW k \in Slots, Continue(k)
  PROVE  \A f \in Foods : FoodFollows(f)
<1>1. StepOf(k)
  BY Acts
<1>2. CASE ApproveSave(k) \/ DeleteRequestRow(k) \/ FilesDrop(k) \/ FilesClean(k)
  BY <1>2, FoodsKept DEF ApproveSave, DeleteRequestRow, FilesDrop, FilesClean
<1>3. CASE RejectSave(k)
  <2>1. ~slot[k].stale => home' = home
    BY <1>3, Lists DEF RejectSave, At, Listing
  <2> QED BY <1>1, <1>3, <2>1, FoodsOvertaken DEF RejectSave
<1>4. CASE UpdateSave(k)
  <2>1. ~slot[k].stale => home' = home
    BY <1>4, Lists DEF UpdateSave, At, Listing, Keeping
  <2> QED BY <1>1, <1>4, <2>1, FoodsOvertaken DEF UpdateSave
<1>5. CASE FilesClear(k)
  BY <1>1, <1>5, FilesClears, FoodsOvertaken DEF FilesClear
<1>6. CASE FilesAddress(k)
  BY <1>1, <1>6, FilesAddresses, FoodsOvertaken DEF FilesAddress
<1>7. CASE FilesSave(k)
  BY <1>1, <1>7, FilesSaves, FoodsOvertaken DEF FilesSave
<1>8. CASE FoodSave(k)
  <2> DEFINE h == slot[k]
             c == IF h.tag = "unread" THEN cat[h.id] ELSE h.tag
  <2>1. CASE Listed(h.to) /\ (c # "none" => cats[c] = "here")
    <3>1. home' = [home EXCEPT ![h.id] = h.to] /\ cat' = [cat EXCEPT ![h.id] = c]
      BY <1>8, <2>1 DEF FoodSave
    <3>2. home \in [Foods -> Restaurants \cup {"nowhere"} \cup Life]
          /\ cat \in [Foods -> Categories \cup {"none"}] /\ h.id \in Foods
      BY <1>8 DEF FoodSave, At, Inv, Tables, Handlers, Proper
    <3>3. c \in {cat[h.id], h.tag}
      OBVIOUS
    <3> HIDE DEF c
    <3> SUFFICES ASSUME NEW f \in Foods PROVE FoodFollows(f)
      OBVIOUS
    <3>4. CASE f = h.id
      BY <1>1, <3>1, <3>2, <3>3, <3>4 DEF FoodFollows
    <3>5. CASE f # h.id
      BY <3>1, <3>2, <3>5 DEF FoodFollows
    <3> QED BY <3>4, <3>5
  <2>2. CASE ~(Listed(h.to) /\ (c # "none" => cats[c] = "here"))
    BY <1>8, <2>2, FoodsKept DEF FoodSave
  <2> QED BY <2>1, <2>2
<1>9. CASE CategorySave(k)
  BY <1>1, <1>9, CategorySaves, FoodsOvertaken DEF CategorySave
<1> QED BY <1>2, <1>3, <1>4, <1>5, <1>6, <1>7, <1>8, <1>9 DEF Continue

LEMMA FoodsAtOnce ==
  ASSUME Inv, AtOnce
  PROVE  \A f \in Foods : FoodFollows(f)
<1>1. /\ home \in [Foods -> Restaurants \cup {"nowhere"} \cup Life]
      /\ cat \in [Foods -> Categories \cup {"none"}]
      /\ cats \in [Categories -> {"here"} \cup Life]
  BY DEF Inv, Tables
<1>2. ASSUME NEW r \in Restaurants, NEW located \in BOOLEAN,
             \/ \E a \in FreeAddresses, i \in FreeImages : Request(r, a, i, located)
             \/ Create(r, located) \/ Remove(r)
      PROVE  UNCHANGED <<home, cat>>
  BY <1>2 DEF Request, Create, Remove
<1>3. ASSUME NEW g \in Foods, NEW r \in Restaurants, NEW c \in Categories \cup {"none"},
             CreateFood(g, r, c)
      PROVE  \A f \in Foods : FoodFollows(f)
  BY <1>1, <1>3 DEF CreateFood, FoodFollows
<1>4. ASSUME NEW g \in Foods, RemoveFood(g)
      PROVE  \A f \in Foods : FoodFollows(f)
  BY <1>1, <1>4 DEF RemoveFood, FoodFollows
<1>5. ASSUME NEW c \in Categories, CategoryCreate(c)
      PROVE  UNCHANGED <<home, cat>>
  BY <1>5 DEF CategoryCreate
<1>6. ASSUME NEW c \in Categories, CategoryRemove(c)
      PROVE  \A f \in Foods : FoodFollows(f)
  BY <1>1, <1>6 DEF CategoryRemove, FoodFollows
<1> QED BY <1>2, <1>3, <1>4, <1>5, <1>6, FoodsKept DEF AtOnce

\* A food moves, or loses its restaurant or category, only as a request about
\* it asks: the lists of foods that the saves of restaurants and categories
\* write again (restaurant.service.ts, category.service.ts) disturb no food
\* unless somebody wrote between the read and the save.
THEOREM FoodsFollowCorrect == CatalogSpec => FoodsFollowRequests
<1>1. Inv /\ [CatalogNext]_catalogVars => [\A f \in Foods : FoodFollows(f)]_catalogVars
  <2> SUFFICES ASSUME Inv, CatalogNext PROVE \A f \in Foods : FoodFollows(f)
    OBVIOUS
  <2>1. ASSUME NEW k \in Slots, Start(k) PROVE \A f \in Foods : FoodFollows(f)
    BY <2>1, Reads, FoodsKept DEF Untouched
  <2>2. CASE Crash
    BY <2>2, FoodsKept DEF Crash
  <2> QED BY <2>1, <2>2, FoodsContinue, FoodsAtOnce DEF CatalogNext
<1>2. CatalogSpec => [][\A f \in Foods : FoodFollows(f)]_catalogVars
  BY <1>1, CatalogInvariant, PTL DEF CatalogSpec
<1> QED BY <1>2 DEF FoodsFollowRequests, FoodFollows

-----------------------------------------------------------------------------
(***************************************************************************)
(* The status of a restaurant.                                             *)
(***************************************************************************)
StatusFollows(r) ==
    Listed(r) /\ rest'[r].st # rest[r].st =>
        \/ \E k \in Slots :
              /\ StepOf(k) /\ slot[k].id = r
              /\ \/ slot[k].stale
                 \/ rest[r].st = "pending"
                 \/ rest'[r].st = slot[k].ask /\ slot[k].pc \notin {"approve_save", "reject_save"}
        \/ rest'[r].st = "deleted" /\ \A k \in Slots : ~StepOf(k)

LEMMA StatusKept ==
  ASSUME UNCHANGED rest
  PROVE  \A r \in Restaurants : StatusFollows(r)
  BY DEF StatusFollows

\* Only the row of a handler's own restaurant changes, and its status as the
\* handler was asked, or because the request was still pending.
LEMMA StatusSaved ==
  ASSUME NEW k \in Slots, StepOf(k),
         \A q \in Restaurants \ {slot[k].id} : rest'[q] = rest[q],
         ~slot[k].stale /\ Listed(slot[k].id) =>
             \/ rest[slot[k].id].st = "pending"
             \/ rest'[slot[k].id].st = rest[slot[k].id].st
             \/ rest'[slot[k].id].st = slot[k].ask /\ slot[k].pc \notin {"approve_save", "reject_save"}
  PROVE  \A r \in Restaurants : StatusFollows(r)
<1> SUFFICES ASSUME NEW r \in Restaurants PROVE StatusFollows(r)
  OBVIOUS
<1>1. CASE r = slot[k].id
  BY <1>1 DEF StatusFollows
<1>2. CASE r # slot[k].id
  BY <1>2 DEF StatusFollows
<1> QED BY <1>1, <1>2

LEMMA StillPending ==
  ASSUME Inv, NEW k \in Slots, slot[k].pc \in Deciding, ~slot[k].stale
  PROVE  rest[slot[k].id].st = "pending"
  BY DEF Inv, FreshInv, UpToDate

LEMMA StillSame ==
  ASSUME Inv, NEW k \in Slots, slot[k].pc \in Keeping, ~slot[k].stale
  PROVE  slot[k].row.st = rest[slot[k].id].st
  BY DEF Inv, FreshInv, UpToDate

LEMMA StatusContinue ==
  ASSUME Inv, NEW k \in Slots, Continue(k)
  PROVE  \A r \in Restaurants : StatusFollows(r)
<1>1. StepOf(k)
  BY Acts
<1>2. rest \in [Restaurants -> Row]
  BY DEF Inv, Tables
<1>3. CASE FilesDrop(k) \/ FilesClean(k) \/ FoodSave(k) \/ CategorySave(k)
  BY <1>3, StatusKept DEF FilesDrop, FilesClean, FoodSave, CategorySave
<1>4. CASE ApproveSave(k)
  <2>1. \A q \in Restaurants \ {slot[k].id} : rest'[q] = rest[q]
    BY <1>2, <1>4 DEF ApproveSave, SaveRow
  <2>2. ~slot[k].stale => rest[slot[k].id].st = "pending"
    BY <1>4, StillPending DEF ApproveSave, At, Deciding
  <2> QED BY <1>1, <2>1, <2>2, StatusSaved
<1>5. CASE RejectSave(k)
  <2>1. \A q \in Restaurants \ {slot[k].id} : rest'[q] = rest[q]
    BY <1>2, <1>5 DEF RejectSave, SaveRow
  <2>2. ~slot[k].stale => rest[slot[k].id].st = "pending"
    BY <1>5, StillPending DEF RejectSave, At, Deciding
  <2> QED BY <1>1, <2>1, <2>2, StatusSaved
<1>6. CASE DeleteRequestRow(k)
  <2>1. \A q \in Restaurants \ {slot[k].id} : rest'[q] = rest[q]
    BY <1>2, <1>6 DEF DeleteRequestRow, Delete
  <2>2. ~slot[k].stale => rest[slot[k].id].st = "pending"
    BY <1>6, StillPending DEF DeleteRequestRow, At, Deciding
  <2> QED BY <1>1, <2>1, <2>2, StatusSaved
<1>7. CASE UpdateSave(k)
  <2> DEFINE row == [slot[k].row EXCEPT !.st = Asked(slot[k], slot[k].row.st),
                                        !.coords = slot[k].row.coords \/ slot[k].point]
  <2>1. slot[k].pc = "update_save" /\ rest' = [rest EXCEPT ![slot[k].id] = row]
    BY <1>7 DEF UpdateSave, At, SaveRow
  <2>2. slot[k].id \in Restaurants /\ slot[k].row \in Row
    BY <2>1, OwnsRestaurant, Fields DEF Of, Keeping
  <2>3. row.st = Asked(slot[k], slot[k].row.st)
    BY <2>2 DEF Row
  <2> HIDE DEF row
  <2>4. rest'[slot[k].id].st = slot[k].row.st \/ rest'[slot[k].id].st = slot[k].ask
    BY <1>2, <2>1, <2>2, <2>3 DEF Asked
  <2>5. ~slot[k].stale => slot[k].row.st = rest[slot[k].id].st
    BY <2>1, StillSame DEF Keeping
  <2>6. \A q \in Restaurants \ {slot[k].id} : rest'[q] = rest[q]
    BY <1>2, <2>1
  <2> QED BY <1>1, <2>1, <2>4, <2>5, <2>6, StatusSaved
<1>8. CASE FilesClear(k) \/ FilesAddress(k)
  <2>1. PICK a \in Addresses \cup {"none"} :
           rest' = [rest EXCEPT ![slot[k].id] = [slot[k].row EXCEPT !.addr = a]]
    BY <1>8, Fields DEF FilesClear, FilesAddress, SaveRow
  <2>2. slot[k].pc \in Keeping
    BY <1>8 DEF FilesClear, FilesAddress, At, Keeping
  <2>3. slot[k].id \in Restaurants /\ slot[k].row \in Row
    BY <2>2, OwnsRestaurant, Fields DEF Of
  <2>4. rest'[slot[k].id].st = slot[k].row.st
    BY <1>2, <2>1, <2>3 DEF Row
  <2>5. ~slot[k].stale => slot[k].row.st = rest[slot[k].id].st
    BY <2>2, StillSame
  <2>6. \A q \in Restaurants \ {slot[k].id} : rest'[q] = rest[q]
    BY <1>2, <2>1
  <2> QED BY <1>1, <2>4, <2>5, <2>6, StatusSaved
<1>9. CASE FilesSave(k)
  <2> DEFINE old == IF Listed(slot[k].id) THEN rest[slot[k].id] ELSE NoRow
             row == [old EXCEPT !.st = Asked(slot[k], old.st),
                                !.coords = old.coords \/ slot[k].point]
  <2>1. slot[k].pc = "files_save" /\ rest' = [rest EXCEPT ![slot[k].id] = row]
    BY <1>9 DEF FilesSave, At
  <2>2. slot[k].id \in Restaurants
    BY <2>1, OwnsRestaurant DEF Of
  <2>3. old \in Row
    BY <1>2, <2>2 DEF NoRow, Row, RestaurantStatus
  <2>4. row.st = Asked(slot[k], old.st)
    BY <2>3 DEF Row
  <2> HIDE DEF row
  <2>5. Listed(slot[k].id) => \/ rest'[slot[k].id].st = rest[slot[k].id].st
                              \/ rest'[slot[k].id].st = slot[k].ask
    BY <1>2, <2>1, <2>2, <2>4 DEF Asked
  <2>6. \A q \in Restaurants \ {slot[k].id} : rest'[q] = rest[q]
    BY <1>2, <2>1
  <2> QED BY <1>1, <2>1, <2>5, <2>6, StatusSaved
<1> QED BY <1>3, <1>4, <1>5, <1>6, <1>7, <1>8, <1>9 DEF Continue

LEMMA StatusAtOnce ==
  ASSUME Inv, AtOnce
  PROVE  \A r \in Restaurants : StatusFollows(r)
<1>1. rest \in [Restaurants -> Row]
  BY DEF Inv, Tables
<1>2. ASSUME NEW q \in Restaurants, NEW located \in BOOLEAN,
             \/ \E a \in FreeAddresses, i \in FreeImages : Request(q, a, i, located)
             \/ Create(q, located)
      PROVE  \A r \in Restaurants : StatusFollows(r)
  <2>1. ~Listed(q) /\ \A r \in Restaurants \ {q} : rest'[r] = rest[r]
    BY <1>1, <1>2 DEF Request, Create, Listed, RestaurantStatus
  <2> QED BY <2>1 DEF StatusFollows
<1>3. ASSUME NEW q \in Restaurants, Remove(q)
      PROVE  \A r \in Restaurants : StatusFollows(r)
  <2>1. rest' = [rest EXCEPT ![q] = [NoRow EXCEPT !.st = "deleted"]]
    BY <1>3 DEF Remove, Delete
  <2>2. rest'[q].st = "deleted" /\ \A r \in Restaurants \ {q} : rest'[r] = rest[r]
    BY <1>1, <2>1 DEF NoRow
  <2>3. \A k \in Slots : ~StepOf(k)
    BY <1>3, NobodySteps DEF Remove
  <2> SUFFICES ASSUME NEW r \in Restaurants PROVE StatusFollows(r)
    OBVIOUS
  <2>4. CASE r = q
    BY <2>2, <2>3, <2>4 DEF StatusFollows
  <2>5. CASE r # q
    BY <2>2, <2>5 DEF StatusFollows
  <2> QED BY <2>4, <2>5
<1>4. ASSUME NEW f \in Foods,
             \/ \E r \in Restaurants, c \in Categories \cup {"none"} : CreateFood(f, r, c)
             \/ RemoveFood(f)
      PROVE  UNCHANGED rest
  BY <1>4 DEF CreateFood, RemoveFood
<1>5. ASSUME NEW c \in Categories, CategoryCreate(c) \/ CategoryRemove(c)
      PROVE  UNCHANGED rest
  BY <1>5 DEF CategoryCreate, CategoryRemove
<1> QED BY <1>2, <1>3, <1>4, <1>5, StatusKept DEF AtOnce

\* Only a pending request is approved, rejected or deleted as a request, and a
\* decided restaurant gets another status only by an update that names it,
\* unless somebody wrote between the read and the save of the handler
\* (restaurant.service.ts: approveRestaurant, rejectRestaurant,
\* deleteRestaurantRequest, update, updateWithFiles).
THEOREM StatusFollowsCorrect == CatalogSpec => StatusFollowsRequests
<1>1. Inv /\ [CatalogNext]_catalogVars => [\A r \in Restaurants : StatusFollows(r)]_catalogVars
  <2> SUFFICES ASSUME Inv, CatalogNext PROVE \A r \in Restaurants : StatusFollows(r)
    OBVIOUS
  <2>1. ASSUME NEW k \in Slots, Start(k) PROVE \A r \in Restaurants : StatusFollows(r)
    BY <2>1, Reads, StatusKept DEF Untouched
  <2>2. CASE Crash
    BY <2>2, StatusKept DEF Crash
  <2> QED BY <2>1, <2>2, StatusContinue, StatusAtOnce DEF CatalogNext
<1>2. CatalogSpec => [][\A r \in Restaurants : StatusFollows(r)]_catalogVars
  BY <1>1, CatalogInvariant, PTL DEF CatalogSpec
<1> QED BY <1>2 DEF StatusFollowsRequests, StatusFollows
=============================================================================

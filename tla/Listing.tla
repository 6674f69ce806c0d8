------------------------------- MODULE Listing -------------------------------
(***************************************************************************)
(* The paged listings of FoodService, RestaurantService, OrderService,     *)
(* PromotionService, CategoryService and MessengerService.  A client asks  *)
(* for one page after the other; every page is a request of its own, and a *)
(* page and the total that goes with it are read by two statements.  Rows  *)
(* may be created, changed and deleted between any two of them.            *)
(*                                                                         *)
(* A listing says which rows it keeps, how it orders them and how it cuts  *)
(* pages: in the database with joined tables, where TypeORM selects the    *)
(* ids of the page first and breaks ties by id ("joined"), in the database *)
(* without (LIMIT alone, ties in any order: "plain"), or in memory, from   *)
(* all the rows that match ("memory").                                     *)
(***************************************************************************)
EXTENDS Integers, FiniteSets, Sequences, SequencesExt

CONSTANTS Rows,       \* numbers of rows, in the order they are created
          Parents,    \* what a row belongs to: a restaurant, a customer, a food ...
          NoParent,   \* NULL
          Groups,     \* categories, or types of promotion
          Places,     \* where a parent is; a function of Parents
          Radius,     \* how far a search looks
          Table,      \* the contents rows may have
          PageSizes,  \* how many rows a client may ask for on a page
          MaxWrites   \* bound: rows written while a client pages

Nowhere == -1    \* NULL coordinates
NoRank == -1     \* NULL in the column that is sorted by
Statuses == {"shown", "hidden"}
Owners == Parents \cup {NoParent}

\* `rank` stands for the column a listing sorts by.
Content == [of : Owners, group : Groups, status : Statuses, text : BOOLEAN, rank : -1..2]

ASSUME ListingAssumption ==
    /\ IsFiniteSet(Rows) /\ Rows = 1..Cardinality(Rows)
    /\ PageSizes \subseteq Nat \ {0} /\ MaxWrites \in Nat
    /\ NoParent \notin Parents
    /\ Places \in [Parents -> Nat \cup {Nowhere}] /\ Radius \in Nat
    /\ Table \subseteq Content

VARIABLES
    row,      \* the table: the contents of each row
    at,       \* whether a row is still to come, there or deleted
    id,       \* its primary key, a random uuid
    q,        \* the listing asked for
    size,     \* the number of rows on a page
    page,     \* the page asked for
    pc,       \* "asked", "read" (page), "counted" (total), "given", "done", "failed"
    items,    \* the page read
    total,    \* the total read
    got,      \* what the client has been given, page after page
    touched,  \* history: the rows written since the client asked
    writes,   \* history: how often
    tied,     \* history: rows tied, in no order that TypeORM settles, when a page was read
    lost      \* history: rows dropped because the route service gave no answer

listingVars == <<row, at, id, q, size, page, pc, items, total, got, touched, writes, tied, lost>>

-----------------------------------------------------------------------------
(* The listings.                                                           *)
All == [how |-> "joined", order |-> "any", of |-> Owners, group |-> Groups,
        status |-> Statuses, text |-> BOOLEAN, rank |-> -1..2, near |-> FALSE,
        routed |-> FALSE, first |-> "page", flip |-> FALSE, fails |-> {}]

\* What the request says: a parent, a group, a status, a text or nothing, the
\* order and whether it gives coordinates.
Anything == "any"
Sorts == {Anything, "newest", "nearby", "most_buy", "price"}
Request == [of : {Anything} \cup Parents, group : {Anything} \cup Groups,
            status : {Anything, "shown"}, text : BOOLEAN, sort : Sorts, place : BOOLEAN]

Only(v, all) == IF v = Anything THEN all ELSE {v}
Texts(r) == IF r.text THEN {TRUE} ELSE BOOLEAN

\* applySortingToQueryBuilder and applySorting: what `sortBy` orders.  "nearby"
\* falls back to the newest in one; the other compares a distance that
\* restaurants do not have, and changes nothing.
BuilderOrder(sort) ==
    IF sort = "most_buy" THEN "high" ELSE IF sort = "price" THEN "low" ELSE "newest"
MemoryOrder(sort) ==
    CASE sort = "most_buy" -> "high" [] sort = "price" -> "low"
      [] sort = "newest" -> "newest" [] OTHER -> "any"

FindAllFoods(r) == [All EXCEPT !.status = Only(r.status, Statuses), !.order = "newest"]

FindByRestaurant(r) ==
    [All EXCEPT !.of = {r.of}, !.status = Only(r.status, Statuses),
                !.order = BuilderOrder(r.sort)]

FindByRestaurantAndCategory(r) == [FindByRestaurant(r) EXCEPT !.group = {r.group}]

FindByCategory(r) == [All EXCEPT !.group = {r.group}, !.order = "newest"]

SearchFoodsForStore(r) ==
    [All EXCEPT !.how = "memory", !.text = {TRUE}, !.of = Only(r.of, Owners),
                !.group = Only(r.group, Groups), !.near = r.place,
                !.order = MemoryOrder(r.sort)]

\* GET /foods/all.
FindAllForStore(r) ==
    IF r.text THEN SearchFoodsForStore(r)
    ELSE IF r.of # Anything /\ r.group # Anything THEN FindByRestaurantAndCategory(r)
    ELSE IF r.of # Anything THEN FindByRestaurant(r)
    ELSE IF r.group # Anything THEN FindByCategory(r)
    ELSE FindAllFoods(r)

FindTopSelling(r) == [All EXCEPT !.order = "high"]
FindNewest(r) == [All EXCEPT !.order = "id"]
FindTopSellingByRestaurant(r) == [All EXCEPT !.of = {r.of}, !.order = "high"]
FindByCategoryAndRestaurant(r) ==
    [All EXCEPT !.how = "plain", !.of = {r.of}, !.group = {r.group}]

\* The controllers of the next three give default coordinates.
SearchFoods(r) ==
    [All EXCEPT !.how = "memory", !.text = Texts(r),
                !.near = TRUE, !.order = "near"]

\* Distances are those of the route service; a food without a restaurant fails
\* the request.
FindByName(r) ==
    [All EXCEPT !.how = "memory", !.text = Texts(r), !.group = Only(r.group, Groups),
                !.rank = 0..2, !.near = TRUE, !.routed = TRUE, !.order = "near",
                !.fails = {NoParent}]

SearchRestaurants(r) ==
    [All EXCEPT !.how = "memory", !.text = Texts(r), !.near = TRUE, !.order = "near"]

\* A food's reviews between two ratings: counted first, sorted by time or rating.
GetReviewsByFood(r) ==
    [All EXCEPT !.of = {r.of}, !.rank = 1..2, !.first = "total",
                !.order = IF r.sort = "most_buy" THEN "high" ELSE "newest"]

FindRestaurants(r) == [All EXCEPT !.status = Only(r.status, Statuses)]
GetRestaurantRequests(r) == [All EXCEPT !.status = {"hidden"}]
GetTopRestaurants(r) == [All EXCEPT !.status = {"shown"}]

\* The address is not selected: a restaurant with coordinates fails the request.
GetPreview(r) ==
    [All EXCEPT !.how = "plain", !.first = "total",
                !.fails = {p \in Parents : Places[p] # Nowhere}]

GetOrdersByUser(r) == [All EXCEPT !.of = {r.of},
                                  !.status = Only(r.status, Statuses)]
GetOrdersByRestaurant(r) == [GetOrdersByUser(r) EXCEPT !.order = "newest"]
GetUserConversations(r) == [All EXCEPT !.of = {r.of}, !.order = "high"]
GetConversationMessages(r) ==
    [All EXCEPT !.of = {r.of}, !.status = {"shown"}, !.order = "newest",
                !.flip = TRUE]

GetPromotions(r) == [All EXCEPT !.how = "plain", !.status = {"shown"}, !.order = "id"]
FindCategories(r) == [All EXCEPT !.how = "plain", !.order = "low"]

Listings ==
    LET some == {r \in Request : r.of # Anything}
        both == {r \in some : r.group # Anything}
        grouped == {r \in Request : r.group # Anything}
    IN  {FindAllForStore(r) : r \in Request}
        \cup (UNION {{FindTopSelling(r), FindNewest(r), SearchFoods(r), FindByName(r),
                      SearchRestaurants(r), FindRestaurants(r), GetRestaurantRequests(r),
                      GetTopRestaurants(r), GetPreview(r), GetPromotions(r),
                      FindCategories(r)} : r \in Request})
        \cup (UNION {{FindTopSellingByRestaurant(r), GetReviewsByFood(r), GetOrdersByUser(r),
                      GetOrdersByRestaurant(r), GetUserConversations(r),
                      GetConversationMessages(r)} : r \in some})
        \cup {FindByCategoryAndRestaurant(r) : r \in both}

-----------------------------------------------------------------------------
Distance(r) == IF row[r].of = NoParent THEN Nowhere ELSE Places[row[r].of]

\* The rows a listing keeps; a search near a place drops what is too far or nowhere.
Matches ==
    {r \in Rows : /\ at[r] = "there"
                  /\ row[r].of \in q.of /\ row[r].group \in q.group
                  /\ row[r].status \in q.status /\ row[r].text \in q.text
                  /\ row[r].rank \in q.rank}
Near(rs) == IF q.near THEN {r \in rs : Distance(r) \in 0..Radius} ELSE rs

\* NULL sorts as the greatest value in the database, as 0 in memory.
Rank(r) == IF row[r].rank # NoRank THEN row[r].rank
           ELSE IF q.how = "memory" THEN 0 ELSE 3

\* r comes before s whatever the ties.
Before(r, s) ==
    \/ q.order = "newest" /\ r > s
    \/ q.order = "id" /\ id[r] > id[s]
    \/ q.order = "high" /\ Rank(r) > Rank(s)
    \/ q.order = "low" /\ Rank(r) < Rank(s)
    \/ q.order = "near" /\ Distance(r) < Distance(s)

Arranged(rs) ==
    {s \in SetToSeqs(rs) : \A i, j \in 1..Len(s) : i < j => ~Before(s[j], s[i])}

Slice_FromNext(s) ==   \* a mutant
    SubSeq(s, page * size + 1, IF Len(s) < (page + 1) * size
                                     THEN Len(s) ELSE (page + 1) * size)

Slice_RowOffset(s) ==   \* a mutant
    SubSeq(s, page, IF Len(s) < page + size - 1 THEN Len(s) ELSE page + size - 1)

Slice_NoEnd(s) ==   \* a mutant
    SubSeq(s, (page - 1) * size + 1, Len(s))

\* The page of a sequence of rows: slice((page - 1) * pageSize, page * pageSize).
Slice(s) == SubSeq(s, (page - 1) * size + 1,
                   IF Len(s) < page * size THEN Len(s) ELSE page * size)

\* The ids of a page of joined rows, ties broken by id.
ById(rs) ==
    CHOOSE s \in SetToSeqs(rs) : \A i, j \in 1..Len(s) :
        i < j => Before(s[i], s[j]) \/ (~Before(s[j], s[i]) /\ id[s[i]] < id[s[j]])

JoinedPages(rs) == Arranged(ToSet(Slice(ById(rs))))

MemoryPages(rs) == {Slice(s) : s \in Arranged(rs)}

Pages(rs) == CASE q.how = "joined" -> JoinedPages(rs)
               [] q.how = "memory" -> MemoryPages(rs)
               [] OTHER -> {Slice(s) : s \in Arranged(rs)}

-----------------------------------------------------------------------------
ListingInit ==
    /\ row \in [Rows -> Table]
    /\ \E n \in {Cardinality(Rows) - 1} :
          at = [r \in Rows |-> IF r <= n THEN "there" ELSE "coming"]
    /\ id \in {[r \in Rows |-> r], [r \in Rows |-> Cardinality(Rows) + 1 - r]}
    /\ q \in Listings /\ size \in PageSizes
    /\ page = 1 /\ pc = "asked"
    /\ items = << >> /\ total = 0 /\ got = << >>
    /\ touched = {} /\ writes = 0 /\ tied = FALSE /\ lost = {}

Asked == UNCHANGED <<row, at, id, q, size, page, got, touched, writes>>

\* No two rows that match may change places from one page to the next.
Settled == \/ q.how = "joined"
           \/ \A r, s \in Near(Matches) : r # s => Before(r, s) \/ Before(s, r)

Fails(s) == \E i \in 1..Len(s) : row[s[i]].of \in q.fails

\* The rows of a page, from the database.
ReadPage ==
    /\ q.how # "memory"
    /\ pc = IF q.first = "page" THEN "asked" ELSE "counted"
    /\ \E s \in Pages(Matches) :
          IF Fails(s) THEN pc' = "failed" /\ UNCHANGED items
          ELSE /\ items' = IF q.flip THEN Reverse(s) ELSE s
               /\ pc' = IF q.first = "page" THEN "read" ELSE "given"
    /\ tied' = (tied \/ ~Settled)
    /\ Asked /\ UNCHANGED <<total, lost>>

\* How many rows match.
ReadTotal ==
    /\ q.how # "memory"
    /\ pc = IF q.first = "total" THEN "asked" ELSE "read"
    /\ total' = Cardinality(Matches)
    /\ pc' = IF q.first = "total" THEN "counted" ELSE "given"
    /\ Asked /\ UNCHANGED <<items, tied, lost>>

\* All rows, sorted and cut in memory.  The route service may fail for any.
ReadAll ==
    /\ q.how = "memory" /\ pc = "asked"
    /\ IF \E r \in Matches : row[r].of \in q.fails
         THEN pc' = "failed" /\ UNCHANGED <<items, total, lost>>
         ELSE \E gone \in IF q.routed THEN {{}} \cup {{r} : r \in Near(Matches)} ELSE {{}} :
                 LET rs == Near(Matches) \ gone IN
                 /\ items' \in Pages(rs)
                 /\ total' = Cardinality(rs)
                 /\ lost' = lost \cup gone
                 /\ pc' = "given"
    /\ tied' = (tied \/ ~Settled)
    /\ Asked

\* The client takes the page, and asks for the next while there is one.
Turn ==
    /\ pc = "given"
    /\ got' = got \o items
    /\ IF page * size < total THEN page' = page + 1 /\ pc' = "asked"
                                  ELSE pc' = "done" /\ UNCHANGED page
    /\ items' = << >> /\ total' = IF pc' = "done" THEN total ELSE 0
    /\ UNCHANGED <<row, at, id, q, size, touched, writes, tied, lost>>

\* Another request creates, changes or deletes a row.
Write(r) ==
    /\ pc \notin {"done", "failed"} /\ writes < MaxWrites
    /\ \/ /\ at[r] = "coming" /\ \A s \in 1..(r - 1) : at[s] # "coming"
          /\ at' = [at EXCEPT ![r] = "there"]
          /\ UNCHANGED row
       \/ /\ at[r] = "there"
          /\ at' = [at EXCEPT ![r] = "deleted"]
          /\ UNCHANGED row
       \/ /\ at[r] = "there"
          /\ \E c \in Table : c # row[r] /\ row' = [row EXCEPT ![r] = c]
          /\ UNCHANGED at
    /\ touched' = touched \cup {r} /\ writes' = writes + 1
    /\ UNCHANGED <<id, q, size, page, pc, items, total, got, tied, lost>>

ListingNext == ReadPage \/ ReadTotal \/ ReadAll \/ Turn \/ \E r \in Rows : Write(r)

ListingSpec == ListingInit /\ [][ListingNext]_listingVars

-----------------------------------------------------------------------------
ListingTypeOK ==
    /\ row \in [Rows -> Content] /\ at \in [Rows -> {"coming", "there", "deleted"}]
    /\ page \in 1..(Cardinality(Rows) + 1)
    /\ pc \in {"asked", "read", "counted", "given", "done", "failed"}
    /\ items \in Seq(Rows) /\ Len(items) <= size
    /\ total \in 0..Cardinality(Rows) /\ got \in Seq(Rows)
    /\ touched \subseteq Rows /\ writes \in 0..MaxWrites /\ tied \in BOOLEAN /\ lost \subseteq Rows

Seen(r) == Cardinality({i \in 1..Len(got) : got[i] = r})

\* What was given so far is in the order asked for.
InOrder ==
    \A i, j \in 1..Len(got) : i < j =>
        LET a == row[got[i]].rank
            b == row[got[j]].rank
        IN /\ q.order = "high" /\ NoRank \notin {a, b} => a >= b
           /\ q.order = "low" /\ NoRank \notin {a, b} => a <= b
           /\ q.order = "newest" => got[i] >= got[j]
           /\ q.order = "near" => Distance(got[i]) <= Distance(got[j])

\* A client that pages to the end while nothing is written is given every row
\* that matches exactly once, and the total it was told; rows may tie where
\* TypeORM breaks ties by id.  The pages, one after the other, are in the order
\* asked for, if the route service answers the same each time.
PagesComplete ==
    touched = {} /\ lost = {} =>
        /\ ~q.flip => InOrder
        /\ pc = "done" /\ ~tied =>
              /\ \A r \in Rows : Seen(r) = IF r \in Near(Matches) THEN 1 ELSE 0
              /\ total = Len(got)

\* When a row is written once while a client pages, at most one of the others
\* is missing from what it was given or is there twice; two may be where rows
\* are counted before the page is read, as the total may be the older one.
OneWriteOneSlip ==
    pc = "done" /\ writes = 1 /\ lost = {} /\ ~tied =>
        Cardinality({r \in Near(Matches) \ touched : Seen(r) # 1})
            <= IF q.first = "total" THEN 2 ELSE 1
=============================================================================

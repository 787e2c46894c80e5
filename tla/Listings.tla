------------------------------ MODULE Listings ------------------------------
(***************************************************************************)
(* The search handlers: each service's findAll and its variants, and a     *)
(* client that walks through the pages of one while others write.          *)
(*                                                                         *)
(* A handler builds a pipeline from the caller and the options, and every  *)
(* page is a request of its own: the pipeline runs again, over what the    *)
(* collections hold by then.                                               *)
(***************************************************************************)
EXTENDS Pipelines

CONSTANTS
  Collections,  \* what the database holds at first: name -> documents
  NewDocument,  \* the document another client creates: name -> document
  Callers,      \* who asks: [entity, user, customer, warehouse, role]
  Options,      \* the bodies of a search request
  MaxWrites     \* bound: documents created or removed during a walk

ASSUME WritesAssumption == MaxWrites \in Nat

VARIABLES
  db,    \* name -> documents, in natural order
  walk   \* the client's walk through a listing

vars == <<db, walk>>

NoWalk == [state |-> "none", from |-> "none", stages |-> <<>>, size |-> 1, offset |-> 0,
           seen |-> <<>>, count |-> 0, opened |-> {}, writes |-> {}, left |-> MaxWrites]

Init == db = Collections /\ walk = NoWalk

-----------------------------------------------------------------------------
(* The pipelines of the handlers *)

WarehouseRows ==
  Lookup("warehousestockitems", <<"warehouseStockItemsData">>, "_id", "warehousestockitem")
    \o Unwind("warehousestockitem", TRUE)
Fields(names) == {<<n>> : n \in names}
Joined(from, local, as) == Lookup(from, <<local>>, "_id", as)
TutorialRoles ==
  {"RESTURANT", "MERCHANT", "CUSTOMER", "CASHIER", "CHEF", "WAITER", "INVENTORYMAN"}
InEntity(who) == Scope("entityId", who.entity)
InWarehouse(who) == Scope("warehouseId", who.warehouse)

OrderFindAllByCustomer(o, who) ==
  Match("customerId", who.customer) \o SearchStages("index", o, Fields({"orderStatus"}))
    \o Joined("users", "userId", "owner") \o Joined("tables", "tableId", "table")
    \o Joined("users", "customerId", "customerData") \o Joined("entities", "entityId", "entityData")
    \o Dated(o)

OrderFindAll(o, who) ==
  Match("entityId", who.entity) \o SearchStages("index", o, Fields({"orderStatus"}))
    \o Joined("users", "userId", "owner") \o Joined("tables", "tableId", "table")
    \o Joined("entities", "entityId", "entityData") \o Joined("users", "customerId", "customerData")
    \o Dated(o)

ItemText == Fields({"name", "description", "stockItemCode", "sku"})
ItemJoins == Joined("entities", "entityId", "entityData") \o WarehouseRows

\* The warehouse the caller passes is not used.
StockItemFindAll(o, who) ==
  InEntity(who) \o SearchStages(o.sort, o, ItemText) \o ItemJoins \o Dated(o)

StockItemFindAllIsFeatured(o, who) ==
  InEntity(who) \o Match("isFeatures", TRUE) \o SearchStages(o.sort, o, ItemText) \o ItemJoins \o Dated(o)

StockItemFindAllByCustomer(o, who) ==
  InEntity(who) \o SearchStages(o.sort, o, ItemText) \o ItemJoins \o Dated(o)

TableFindAll(o, who) ==
  Match("entityId", who.entity) \o SearchStages("index", o, Fields({"code", "name"}))
    \o Joined("entities", "entityId", "entityData") \o Dated(o)

CustomerFindAll(o, who) ==
  Match("owner", who.user) \o SearchStages("index", o, Fields({"owner", "name", "phoneOne", "phoneTwo"}))
    \o Dated(o)

SupplierFindAll(o, who) == SearchStages(o.sort, o, Fields({"name"})) \o Dated(o)

SupplierDownloadAll(o, who) == SearchStages(o.sort, o, Fields({"name"})) \o Dated(o)

EntityFindAll(o, who) == SearchStages("index", o, Fields({"owner", "name", "address"})) \o Dated(o)

\* Owner and activity are matched after the fields are selected.
MyUsers(o, who, active) ==
  Except("name", "Guest") \o SearchStages("index", o, Fields({"name", "email", "role"}))
    \o Match("owner", who.user) \o Match("active", active)
    \o Unset({"password", "pin"}) \o Dated(o)
FindMyActiveUsers(o, who) == MyUsers(o, who, TRUE)
FindMyDeActiveUsers(o, who) == MyUsers(o, who, FALSE)

UserFindAll(o, who) ==
  Except("name", "Guest") \o SearchStages("index", o, Fields({"name", "email", "role"}))
    \o Dated(o) \o Unset({"password", "pin"})

StockCategoryFindAll(o, who) ==
  InEntity(who) \o SearchStages(o.sort, o, Fields({"stockategoryName"})) \o Dated(o)

StockCategoryFindAllById(o, who) ==
  InEntity(who) \o SearchStages(o.sort, o, Fields({"stockategoryName"}))
    \o Lookup("stockitems", <<"_id">>, "stockCategoryId", "items") \o Unwind("items", FALSE)
    \o Lookup("warehousestockitems", <<"items", "warehouseStockItemsData">>, "_id", "warehouseItem")
    \o Dated(o)

CouponFindAll(o, who) ==
  Match("owner", who.user) \o SearchStages(o.sort, o, Fields({"code"})) \o Dated(o)

CartFindAll(o, who) ==
  Match("entityId", who.entity) \o SearchStages("index", o, Fields({"customerId"}))
    \o Joined("entities", "entityId", "entityData") \o Joined("users", "customerId", "customerData")
    \o Dated(o)

SubscriptionFindAll(o, who) ==
  SearchStages("index", o, Fields({"ownerId", "subscriptionType"})) \o Dated(o)

\* A searchTerm these handlers take and do not use.
Unsearched(o) == [o EXCEPT !.searchTerm = ""]
TransactionHead(o, who) ==
  Match("entityId", who.entity) \o InWarehouse(who) \o SearchStages(o.sort, Unsearched(o), {})
Places == Joined("entities", "entityId", "entity") \o Joined("warehouses", "warehouseId", "warehouse")

AddFindAll(o, who) ==
  TransactionHead(o, who) \o Places \o Joined("suppliers", "supplierId", "supplier") \o Dated(o)

ReleaseFindAll(o, who) ==
  TransactionHead(o, who) \o Places \o Joined("customers", "customerId", "customer ") \o Dated(o)

RefundFindAll(o, who) ==
  TransactionHead(o, who) \o Places \o Joined("users", "customerId", "user") \o Dated(o)

ReverseFindAll(o, who) ==
  TransactionHead(o, who) \o Places \o Joined("suppliers", "supplierId", "supplier") \o Dated(o)

ShrinkageFindAll(o, who) == TransactionHead(o, who) \o Dated(o) \o Places

WasteFindAll(o, who) == TransactionHead(o, who) \o Dated(o) \o Places \o Dated(o)

AuditFindAll(o, who) == TransactionHead(o, who) \o Dated(o) \o Places \o Dated(o)

\* The search stage of a purchase order names no field.
PurchaseOrderFindAll(o, who) ==
  Match("entityId", who.entity) \o InWarehouse(who) \o SearchStages(o.sort, o, {}) \o Dated(o)

QuotationFindAll(o, who) ==
  Match("userId", who.user) \o SearchStages("index", o, {<<"itemsList", "name">>})
    \o Unwind("itemsList", FALSE) \o Lookup("stockitems", <<"itemsList", "name">>, "name", "item")
    \o Lookup("warehousestockitems", <<"item", "warehouseStockItemsData">>, "_id", "warehousestockitem")
    \o Unwind("warehousestockitem", FALSE)
    \o Joined("users", "userId", "owner") \o Unwind("owner", FALSE)
    \o Lookup("entities", <<"owner", "entityId">>, "_id", "entityData") \o Dated(o)

\* The supplier and the customer are searched by an id, and found by none.
MoneyHead(o, who) ==
  Match("owner", who.user) \o SearchStages("index", o, Fields({"supplierId"}))
PayableFindAll(o, who) ==
  MoneyHead(o, who) \o Joined("suppliers", "supplierId", "supplier")
    \o Joined("users", "owner", "owner") \o Dated(o)
DeferredPayableFindAll(o, who) ==
  MoneyHead(o, who) \o Joined("suppliers", "supplierId", "supplier")
    \o Joined("users", "owner", "owner") \o Dated(o)
RecievableFindAll(o, who) ==
  MoneyHead(o, who) \o Joined("customers", "customerId", "customer")
    \o Joined("users", "owner", "owner") \o Dated(o)
DeferredRecievableFindAll(o, who) ==
  MoneyHead(o, who) \o Joined("customers", "customerId", "customer")
    \o Joined("users", "owner", "owner") \o Dated(o)

ServicesFindAll(o, who) ==
  InEntity(who) \o SearchStages(o.sort, o, Fields({"name", "description"})) \o Dated(o)

NotificationFindAll(o, who) ==
  Scope("userId", who.user) \o SearchStages(o.sort, o, Fields({"userId"})) \o Dated(o)

NoteFindAll(o, who) == SearchStages("index", o, Fields({"owner"})) \o Dated(o)

WarehouseFindAll(o, who) ==
  Match("owner", who.user) \o SearchStages(o.sort, o, Fields({"name"})) \o Dated(o)

\* The attributes are not used; the email is searched in the log, and only the
\* user that is joined to it afterwards has one.
LogUser == Joined("users", "userId", "user") \o Unwind("user", TRUE)
SysLogFindAll(o, who) ==
  SearchStages(o.sort, [o EXCEPT !.attributes = {}], Fields({"email"})) \o Dated(o)
    \o LogUser \o Unset({"password", "pin"})

TutorialFindAll(o, who) ==
  SearchStages("index", o, Fields({"ownerId", "tutorialType"}))
    \o (IF who.role \in TutorialRoles THEN Match("type", who.role) ELSE <<>>) \o Dated(o)

TutorialFindAllTutorials(o, who) == SearchStages("index", o, Fields({"ownerId", "tutorialType"})) \o Dated(o)

\* Pipelines that give all their rows, or the first one, in one answer.
StockItemBySKU(sku, who) ==
  Match("sku", sku) \o Match("entityId", who.entity)
    \o Lookup("warehousestockitems", <<"warehouseStockItemsData">>, "_id", "warehousestockitem")
    \o Unwind("warehousestockitem", FALSE) \o Joined("entities", "entityId", "entityData")

StockItemById(id) ==
  Match("_id", id)
    \o Lookup("warehousestockitems", <<"warehouseStockItemsData">>, "_id", "warehousestockitem")
    \o Unwind("warehousestockitem", FALSE) \o Joined("entities", "entityId", "entityData")

OneRowPerWarehouse ==
  Joined("entities", "entityId", "entityData") \o Unwind("warehouseStockItemsData", FALSE) \o WarehouseRows

OneStockItem(id, who) ==
  Match("_id", id) \o Match("entityId", who.entity) \o OneRowPerWarehouse

OneWarehouseStockItem(id, who, warehouse) ==
  Match("_id", id) \o Match("entityId", who.entity) \o OneRowPerWarehouse
    \o MatchAt(<<"warehousestockitem", "warehouseId">>, warehouse)

ExportStockItems(who, warehouse, type) ==
  Match("entityId", who.entity) \o Unwind("warehouseStockItemsData", FALSE) \o WarehouseRows
    \o MatchAt(<<"warehousestockitem", "warehouseId">>, warehouse)
    \o (IF type = "uncoded" THEN Match("unCodedItem", TRUE) ELSE <<>>)

ItemsByCategory(who) ==
  InEntity(who) \o OneRowPerWarehouse \o Group(<<"stockCategoryId">>) \o Present("_id")
    \o Joined("stockcategories", "_id", "category") \o Unwind("category", TRUE)

\* The items of the releases of an entity, the most released first.
PopularStockItems(who) ==
  InEntity(who) \o Unwind("items", FALSE) \o Group(<<"items", "stockItemId">>)
    \o Joined("stockitems", "_id", "item") \o Unwind("item", FALSE)
    \o Lookup("warehousestockitems", <<"item", "warehouseStockItemsData">>, "_id", "warehousestockitem")
    \o Unwind("warehousestockitem", FALSE)
    \o Lookup("entities", <<"item", "entityId">>, "_id", "entityData") \o Sort("count", "desc")

-----------------------------------------------------------------------------
(* The client and the others *)

\* A row is known by its document and the joined documents it was unwound to.
RowId(stages, row) ==
  LET unwound == {f \in DOMAIN row \ {"warehouseStockItemsData"} :
                    \E k \in DOMAIN stages : stages[k].op = "unwind" /\ stages[k].field = f}
  IN  Values(row, "_id") \union UNION {Values(d, "_id") : d \in UNION {row[f] : f \in unwound}}
RowIds(stages, rows) == [k \in DOMAIN rows |-> RowId(stages, rows[k])]

\* One request: the page at the walk's offset of what is in the database now.
Request(w, tie) ==
  LET rows == Aggregate(db, w.from, w.stages, tie)
      page == Paginate(rows, w.offset, w.size)
  IN  [w EXCEPT !.seen = @ \o RowIds(w.stages, page.content),
                !.count = page.count,
                !.offset = @ + w.size,
                !.opened = IF w.state = "none" THEN ToSet(RowIds(w.stages, rows)) ELSE @,
                !.state = IF w.offset + w.size >= page.count THEN "end" ELSE "open"]

Ties == {"natural", "reverse"}

\* The first page of a search.
Ask(from, stages, size) ==
  LET w == [NoWalk EXCEPT !.from = from, !.stages = stages, !.size = size]
  IN  /\ walk.state = "none"
      /\ IF Refused(stages)
         THEN walk' = [w EXCEPT !.state = "failed"]
         ELSE \E tie \in Ties : walk' = Request(w, tie)
      /\ UNCHANGED db

NextPage ==
  /\ walk.state = "open"
  /\ \E tie \in Ties : walk' = Request(walk, tie)
  /\ UNCHANGED db

\* Every row, or the first one, in a single answer; '201' where there is none.
Answer(from, stages, rows, state) ==
  /\ walk.state = "none"
  /\ walk' = [NoWalk EXCEPT !.from = from, !.stages = stages, !.state = state,
                            !.seen = RowIds(stages, rows), !.count = Len(rows)]
  /\ UNCHANGED db
AskAll(from, stages) ==
  \E tie \in Ties : Answer(from, stages, Aggregate(db, from, stages, tie), "all")
AskOne(from, stages) ==
  LET rows == First(Aggregate(db, from, stages, "natural"))
  IN  Answer(from, stages, rows, IF rows = <<>> THEN "failed" ELSE "one")

\* Meanwhile other requests create and remove documents of the collection.
Create ==
  /\ walk.state = "open" /\ walk.left > 0
  /\ NewDocument[walk.from] \notin ToSet(db[walk.from])
  /\ db' = [db EXCEPT ![walk.from] = Append(@, NewDocument[walk.from])]
  /\ walk' = [walk EXCEPT !.left = @ - 1, !.writes = @ \union {"create"}]

Delete ==
  /\ walk.state = "open" /\ walk.left > 0
  /\ \E n \in DOMAIN db[walk.from] : db' = [db EXCEPT ![walk.from] = RemoveAt(@, n)]
  /\ walk' = [walk EXCEPT !.left = @ - 1, !.writes = @ \union {"remove"}]

Asking(o, who) ==
  \/ Ask("orders", OrderFindAllByCustomer(o, who), o.size)
  \/ Ask("orders", OrderFindAll(o, who), o.size)
  \/ Ask("stockitems", StockItemFindAll(o, who), o.size)
  \/ Ask("stockitems", StockItemFindAllIsFeatured(o, who), o.size)
  \/ Ask("stockitems", StockItemFindAllByCustomer(o, who), o.size)
  \/ Ask("tables", TableFindAll(o, who), o.size)
  \/ Ask("customers", CustomerFindAll(o, who), o.size)
  \/ Ask("suppliers", SupplierFindAll(o, who), o.size)
  \/ AskAll("suppliers", SupplierDownloadAll(o, who))
  \/ Ask("entities", EntityFindAll(o, who), o.size)
  \/ Ask("users", FindMyActiveUsers(o, who), o.size)
  \/ Ask("users", FindMyDeActiveUsers(o, who), o.size)
  \/ Ask("users", UserFindAll(o, who), o.size)
  \/ Ask("stockcategories", StockCategoryFindAll(o, who), o.size)
  \/ Ask("stockcategories", StockCategoryFindAllById(o, who), o.size)
  \/ Ask("coupons", CouponFindAll(o, who), o.size)
  \/ Ask("carts", CartFindAll(o, who), o.size)
  \/ Ask("subscriptions", SubscriptionFindAll(o, who), o.size)
  \/ Ask("addtransactions", AddFindAll(o, who), o.size)
  \/ Ask("releasetransactions", ReleaseFindAll(o, who), o.size)
  \/ Ask("refundtransactions", RefundFindAll(o, who), o.size)
  \/ Ask("reversetransactions", ReverseFindAll(o, who), o.size)
  \/ Ask("shrinkagetransactions", ShrinkageFindAll(o, who), o.size)
  \/ Ask("wastetransactions", WasteFindAll(o, who), o.size)
  \/ Ask("audittransactions", AuditFindAll(o, who), o.size)
  \/ Ask("purchaseorders", PurchaseOrderFindAll(o, who), o.size)
  \/ Ask("quotations", QuotationFindAll(o, who), o.size)
  \/ Ask("payables", PayableFindAll(o, who), o.size)
  \/ Ask("deferredpayables", DeferredPayableFindAll(o, who), o.size)
  \/ Ask("recievables", RecievableFindAll(o, who), o.size)
  \/ Ask("deferredrecievables", DeferredRecievableFindAll(o, who), o.size)
  \/ Ask("services", ServicesFindAll(o, who), o.size)
  \/ Ask("notifications", NotificationFindAll(o, who), o.size)
  \/ Ask("notes", NoteFindAll(o, who), o.size)
  \/ Ask("warehouses", WarehouseFindAll(o, who), o.size)
  \/ Ask("syslogs", SysLogFindAll(o, who), o.size)
  \/ Ask("tutorials", TutorialFindAll(o, who), o.size)
  \/ Ask("tutorials", TutorialFindAllTutorials(o, who), o.size)

Answering(who) ==
  \/ \E sku \in UNION {Values(d, "sku") : d \in ToSet(db["stockitems"])} :
       AskOne("stockitems", StockItemBySKU(sku, who))
  \/ \E id \in UNION {Values(d, "_id") : d \in ToSet(db["stockitems"])} :
       \/ AskOne("stockitems", StockItemById(id))
       \/ AskOne("stockitems", OneStockItem(id, who))
       \/ AskOne("stockitems", OneWarehouseStockItem(id, who, who.warehouse))
  \/ \E type \in {"all", "uncoded"} :
       AskAll("stockitems", ExportStockItems(who, who.warehouse, type))
  \/ AskAll("stockitems", ItemsByCategory(who))
  \/ AskAll("releasetransactions", PopularStockItems(who))

Next ==
  \/ \E o \in Options, who \in Callers : Asking(o, who)
  \/ \E who \in Callers : Answering(who)
  \/ NextPage
  \/ Create
  \/ Delete

Spec == Init /\ [][Next]_vars

-----------------------------------------------------------------------------
(* Properties *)

Paged == walk.state \in {"open", "end"}

\* Stages that select a document by what it holds, and those of them that see
\* it after the fields were selected.
SelectingStages == {k \in DOMAIN walk.stages : walk.stages[k].op \in Selecting}
ReadBy(stage) ==
  CASE stage.op = "dates" -> {"createdAt"}
    [] stage.op = "search" -> {p[1] : p \in stage.paths}
    [] OTHER -> {stage.path[1]}
DroppedLate == {"createdAt", "owner", "active", "type"}
Kept(k) ==
  ReadBy(walk.stages[k]) \subseteq DroppedLate =>
    \A j \in 1..(k - 1) : walk.stages[j].op = "project" =>
      ReadBy(walk.stages[k]) \subseteq walk.stages[j].fields

\* A search lists the documents that match the caller's scope and each of the
\* options given, whatever the order of its stages, the fields it selects and
\* the documents it joins: filters and terms may name fields it does not
\* return.  Left out are a date range, and the owner, activity and type of
\* users and tutorials, with attributes that lack the field: those are matched
\* after the fields were dropped, and no document has them any more.
Wanted == {d \in ToSet(db[walk.from]) : \A k \in SelectingStages : Selects(walk.stages[k], d)}
DropsRows == \E k \in DOMAIN walk.stages : walk.stages[k].op = "unwind" /\ ~walk.stages[k].keepEmpty
ListsWhatMatches ==
  (Paged /\ \A k \in SelectingStages : Kept(k)) =>
    LET listed == UNION {Values(row, "_id") : row \in ToSet(Aggregate(db, walk.from, walk.stages, "natural"))}
        wanted == UNION {Values(d, "_id") : d \in Wanted}
    IN  listed \subseteq wanted /\ (DropsRows \/ listed = wanted)

\* The order of a listing is its own: it does not sort, or sorts by a field in
\* which no two documents are equal.  Most handlers sort by a field 'index'
\* that no schema has, and leave the order to the server.
Determined ==
  \A k \in DOMAIN walk.stages : walk.stages[k].op = "sort" =>
    \A d, e \in ToSet(Collections[walk.from]) \union {NewDocument[walk.from]} :
      d # e => SortKey(d, walk.stages[k].field) # SortKey(e, walk.stages[k].field)

\* A client that asks page after page until the count is reached has seen every
\* row there was when it started, whatever documents are created meanwhile, and
\* wherever they are sorted to; only a removal can hide a row from it.
NothingSkippedByCreations ==
  (walk.state = "end" /\ Determined /\ "remove" \notin walk.writes) => walk.opened \subseteq ToSet(walk.seen)

\* It sees no row twice, whatever is removed meanwhile: only a document that is
\* created before its place can show it a row again.
NothingRepeatedByRemovals ==
  (Paged /\ Determined /\ "create" \notin walk.writes) => IsInjective(walk.seen)

\* Both: what others write shifts the pages one way only.
PagesShiftOneWay == NothingSkippedByCreations /\ NothingRepeatedByRemovals
=============================================================================

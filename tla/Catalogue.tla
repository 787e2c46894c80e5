------------------------------ MODULE Catalogue ------------------------------
(***************************************************************************)
(* The stock items of one business: stock-item-data.service.ts with what   *)
(* it asks of stock-category.service.ts.  An item names its places, one    *)
(* document (warehousestockitems) for each warehouse it is kept in.  No    *)
(* handler has a session.  The daily job orders what is short, and ends    *)
(* the process, as an import of a broken file does.                        *)
(***************************************************************************)
EXTENDS Integers, FiniteSets, SequencesExt, Arrays

CONSTANTS
  Requests,   \* calls of the handlers, numbered as they arrive
  Warehouses,
  Skus,
  Names,      \* of items and of categories
  Points,     \* values of reOrderPoint
  Stocks,     \* what there may be at first: records of items and places
  Loads,      \* the calls a behaviour is made of, see Load
  MaxLooks    \* bound: executions of the daily job

NoSku == "uncoded"
NoPoint == 0
NoId == <<>>

\* A line of an imported file: its enums are right, one of them is none of the
\* enum's, or a column is missing.
Row == [form: {"right", "unknown", "broken"}, sku: Skus \union {NoSku},
        point: Points \union {NoPoint}]
Id == Seq(Nat)
Call ==
  [kind: {"CREATE"}, sku: Skus \union {NoSku}, names: Seq(Names), warehouse: Warehouses,
     point: Points]
    \union [kind: {"IMPORT"}, rows: Seq(Row), warehouse: Warehouses]
    \union [kind: {"ASSIGN"}, item: Id, warehouse: Warehouses, point: Points]
    \union [kind: {"TAKE_OUT"}, item: Id, warehouse: Warehouses]
    \union [kind: {"EDIT_PLACE"}, item: Id, warehouse: Warehouses, point: Points]
    \union [kind: {"EDIT"}, item: Id, sku: Skus]
    \union [kind: {"REMOVE"}, item: Id]
    \union [kind: {"CATEGORY", "NO_CATEGORY"}, name: Names]
Load == [calls: SUBSET Call, atOnce: Nat \ {0}, inAll: Nat]

\* Documents.
Item == [id: Id, sku: Skus \union {NoSku}, places: Seq(Id)]
Place == [id: Id, warehouse: Warehouses, qty: Nat, point: Points \union {NoPoint}]

\* What there is at first was made by requests that are over.
Old(id) == id # NoId /\ id[1] \notin Requests

ASSUME RequestsAssumption == Requests \subseteq Nat \ {0}
ASSUME PointsAssumption == Points \subseteq Nat \ {0}
ASSUME StocksAssumption ==
  \A s \in Stocks :
    /\ s.items \in Seq(Item) /\ s.places \in Seq(Place)
    /\ \A d \in ToSet(s.items) \union ToSet(s.places) : Old(d.id)
    /\ {p.id : p \in ToSet(s.places)} = UNION {ToSet(i.places) : i \in ToSet(s.items)}
    /\ \A i, j \in ToSet(s.items) :
         i.id = j.id \/ ToSet(i.places) \intersect ToSet(j.places) # {} => i = j
ASSUME BoundsAssumption == MaxLooks \in Nat
ASSUME LoadsAssumption ==
  \A l \in Loads : l.atOnce \in Nat \ {0} /\ l.inAll \in Nat /\ \A c \in l.calls : c \in Call

VARIABLES
  load,        \* the load of this behaviour
  items,       \* the collection stockitems, in the order of creation
  places,      \* the collection warehousestockitems, likewise
  categories,  \* the names of the stock categories
  purchases,   \* the purchase orders the job has made
  job,         \* the loop of handleCron, and what it does not wait for
  pc, call, local

vars == <<load, items, places, categories, purchases, job, pc, call, local>>
documents == <<items, places, categories, purchases>>

NoCall == [kind |-> "none"]
\* line: of a loop; place: the document created or selected; left: those that a
\* removed item named.
NoLocal == [line |-> 1, place |-> NoId, left |-> {}]
NoJob == [looks |-> 0, todo |-> <<>>, saving |-> {}, uploading |-> FALSE]

Init ==
  /\ load \in Loads
  /\ \E stock \in Stocks : items = stock.items /\ places = stock.places
  /\ categories = {}
  /\ purchases = {}
  /\ job = NoJob
  /\ pc = [r \in Requests |-> "idle"]
  /\ call = [r \in Requests |-> NoCall]
  /\ local = [r \in Requests |-> NoLocal]

-----------------------------------------------------------------------------
(* Documents and requests *)

Ids(documentsOf) == {d.id : d \in ToSet(documentsOf)}
Without(documentsOf, id) ==
  At(documentsOf, {n \in DOMAIN documentsOf : documentsOf[n].id # id})
TheOne(documentsOf, id) == CHOOSE d \in ToSet(documentsOf) : d.id = id
Updated(documentsOf, d) ==
  [n \in DOMAIN documentsOf |-> IF documentsOf[n].id = d.id THEN d ELSE documentsOf[n]]

Finished == {"done", "failed", "lost"}
Working(r) == pc[r] \notin {"idle"} \union Finished
Serves(r, kinds, at) == pc[r] = at /\ call[r].kind \in kinds
Goto(r, at) == pc' = [pc EXCEPT ![r] = at]
Move(r, at) == Goto(r, at) /\ UNCHANGED <<load, documents, job, call, local>>
Fail(r) == Move(r, "failed")

Arrive(r) ==
  /\ pc[r] = "idle"
  /\ r <= load.inAll
  /\ \A o \in Requests : o < r => pc[o] # "idle"
  /\ Cardinality({o \in Requests : Working(o)}) < load.atOnce
  /\ \E c \in load.calls : call' = [call EXCEPT ![r] = c]
  /\ Goto(r, "find")
  /\ UNCHANGED <<load, documents, job, local>>

\* The process exits: requests, the loop of the job and what it left floating.
Exit ==
  /\ pc' = [r \in Requests |-> IF Working(r) THEN "lost" ELSE pc[r]]
  /\ job' = [NoJob EXCEPT !.looks = job.looks]
  /\ UNCHANGED <<load, documents, call, local>>

\* warehouseStockItems.create: qtyOnHand is 0 by default.
CreatePlace(r, id, point, at) ==
  /\ places' = Append(places, [id |-> id, warehouse |-> call[r].warehouse, qty |-> 0,
                              point |-> point])
  /\ local' = [local EXCEPT ![r].place = id]
  /\ Goto(r, at)
  /\ UNCHANGED <<load, items, categories, purchases, job, call>>

CreateItem(r, id, sku, line, at) ==
  /\ items' = Append(items, [id |-> id, sku |-> sku, places |-> <<local[r].place>>])
  /\ local' = [local EXCEPT ![r].line = line]
  /\ Goto(r, at)
  /\ UNCHANGED <<load, places, categories, purchases, job, call>>

-----------------------------------------------------------------------------
(* createStockItem *)

\* '032' when the business has the sku; '102', '103', '163' by the dto and the caller.
CreateFind(r) ==
  /\ Serves(r, {"CREATE"}, "find")
  /\ \/ Fail(r)
     \/ /\ call[r].sku = NoSku \/ \A i \in ToSet(items) : i.sku # call[r].sku
        /\ Move(r, "place")

CreateItsPlace(r) ==
  /\ Serves(r, {"CREATE"}, "place")
  /\ CreatePlace(r, <<r>>, call[r].point, "categories")

\* One look at the categories for each name; '020' when any category has one.
CreateCategories(r) ==
  /\ Serves(r, {"CREATE"}, "categories")
  /\ IF local[r].line > Len(call[r].names)
     THEN CreateItem(r, <<r>>, call[r].sku, local[r].line, "done")
     ELSE IF categories \intersect ToSet(call[r].names) # {}
     THEN Fail(r)
     ELSE /\ local' = [local EXCEPT ![r].line = @ + 1]
          /\ UNCHANGED <<load, documents, job, pc, call>>

-----------------------------------------------------------------------------
(* importStockItems *)

RowOf(r) == call[r].rows[local[r].line]

\* The file is stored, or is not; then it is read back row by row.
ImportUpload(r) == Serves(r, {"IMPORT"}, "find") /\ (Fail(r) \/ Move(r, "row"))

\* A row with an unknown word is put on the list of failures.  A missing column is
\* an exception in a listener of the file's stream: no one handles the rejection,
\* and the process exits.
ImportRow(r) ==
  /\ Serves(r, {"IMPORT"}, "row")
  /\ IF local[r].line > Len(call[r].rows)
     THEN Move(r, "done")
     ELSE \/ RowOf(r).form = "broken" /\ Exit
          \/ /\ RowOf(r).form = "unknown"
             /\ local' = [local EXCEPT ![r].line = @ + 1]
             /\ UNCHANGED <<load, documents, job, pc, call>>
          \/ /\ RowOf(r).form = "right"
             /\ CreatePlace(r, <<r, local[r].line>>, RowOf(r).point, "item")

ImportItem(r) ==
  /\ Serves(r, {"IMPORT"}, "item")
  /\ CreateItem(r, <<r, local[r].line>>, RowOf(r).sku, local[r].line + 1, "row")

-----------------------------------------------------------------------------
(* assignStockItemToAnotherWarehouse *)

\* '002': the warehouse of the caller, or the item.
AssignFind(r) ==
  /\ Serves(r, {"ASSIGN"}, "find")
  /\ IF call[r].item \in Ids(items) THEN Move(r, "place") ELSE Fail(r)

AssignPlace(r) ==
  /\ Serves(r, {"ASSIGN"}, "place")
  /\ CreatePlace(r, <<r>>, call[r].point, "push")

ItsItem(r) == TheOne(items, call[r].item)
WriteItem(r, i, at) ==
  IF call[r].item \in Ids(items)
  THEN /\ items' = Updated(items, i)
       /\ Goto(r, at)
       /\ UNCHANGED <<load, places, categories, purchases, job, call, local>>
  ELSE Fail(r)

\* Mutation: the list of places is replaced.
AssignReplaces(r) ==
  /\ Serves(r, {"ASSIGN"}, "push")
  /\ WriteItem(r, [ItsItem(r) EXCEPT !.places = <<local[r].place>>], "done")

\* $push, '002' when the item was removed in the meantime.
AssignPush(r) ==
  /\ Serves(r, {"ASSIGN"}, "push")
  /\ WriteItem(r, [ItsItem(r) EXCEPT !.places = Append(@, local[r].place)], "done")

-----------------------------------------------------------------------------
(* removeFromOneWarehouse, updateOneWarehoseStockItem, updateStockItem, removeOne *)

\* The places an item names in a warehouse, in the order of its list.
PlacesIn(id, warehouse) ==
  IF id \notin Ids(items) THEN <<>>
  ELSE LET named == TheOne(items, id).places
       IN  At(named, {n \in DOMAIN named : /\ named[n] \in Ids(places)
                                          /\ TheOne(places, named[n]).warehouse = warehouse})

\* '202', or a TypeError, when there is none.
SelectPlace(r) ==
  /\ Serves(r, {"TAKE_OUT", "EDIT_PLACE"}, "find")
  /\ IF PlacesIn(call[r].item, call[r].warehouse) = <<>>
     THEN Fail(r)
     ELSE /\ local' = [local EXCEPT ![r].place =
                               Head(PlacesIn(call[r].item, call[r].warehouse))]
          /\ Goto(r, "write")
          /\ UNCHANGED <<load, documents, job, call>>

TakeOutDelete(r) ==
  /\ Serves(r, {"TAKE_OUT"}, "write")
  /\ places' = Without(places, local[r].place)
  /\ Goto(r, "pull")
  /\ UNCHANGED <<load, items, categories, purchases, job, call, local>>

\* $pull, '002' when the item was removed.
TakeOutPull(r) ==
  /\ Serves(r, {"TAKE_OUT"}, "pull")
  /\ WriteItem(r, [ItsItem(r) EXCEPT !.places = Pull(@, {local[r].place})], "answer")

\* '201' when it was removed since.
TakeOutAnswer(r) ==
  /\ Serves(r, {"TAKE_OUT"}, "answer")
  /\ Move(r, IF call[r].item \in Ids(items) THEN "done" ELSE "failed")

\* findOneAndUpdate: nothing when the place was deleted.
EditPlaceWrite(r) ==
  /\ Serves(r, {"EDIT_PLACE"}, "write")
  /\ places' = IF local[r].place \notin Ids(places) THEN places
               ELSE Updated(places, [TheOne(places, local[r].place) EXCEPT !.point = call[r].point])
  /\ Goto(r, "done")
  /\ UNCHANGED <<load, items, categories, purchases, job, call, local>>

EditFind(r) ==
  /\ Serves(r, {"EDIT"}, "find")
  /\ IF call[r].item \in Ids(items) THEN Move(r, "write") ELSE Fail(r)

EditWrite(r) ==
  /\ Serves(r, {"EDIT"}, "write")
  /\ WriteItem(r, [ItsItem(r) EXCEPT !.sku = call[r].sku], "done")

\* The places of the item stay.
RemoveItem(r) ==
  /\ Serves(r, {"REMOVE"}, "find")
  /\ IF call[r].item \in Ids(items)
     THEN /\ items' = Without(items, call[r].item)
          /\ local' = [local EXCEPT ![r].left = ToSet(ItsItem(r).places)]
          /\ Goto(r, "done")
          /\ UNCHANGED <<load, places, categories, purchases, job, call>>
     ELSE Fail(r)

\* createStockategory ('111', '112') and the removal of a category.
WriteCategory(r) ==
  /\ Serves(r, {"CATEGORY", "NO_CATEGORY"}, "find")
  /\ \/ Fail(r)
     \/ /\ categories' = IF call[r].kind = "CATEGORY" THEN categories \union {call[r].name}
                         ELSE categories \ {call[r].name}
        /\ Goto(r, "done")
        /\ UNCHANGED <<load, items, places, purchases, job, call, local>>

-----------------------------------------------------------------------------
(* handleCron *)

\* What a $lookup by $in finds: in the order of the collection, not of the list.
PlacesOf(i) == At(places, {n \in DOMAIN places : places[n].id \in ToSet(i.places)})
Qtys(found) == [n \in DOMAIN found |-> found[n].qty]
ReOrderPoints(found) ==
  LET with == At(found, {n \in DOMAIN found : found[n].point # NoPoint})
  IN  [n \in DOMAIN with |-> with[n].point]

\* $lte of two arrays: the first elements that differ decide.
AtMost(s, t) ==
  \/ IsPrefix(s, t)
  \/ \E n \in DOMAIN s \intersect DOMAIN t :
       s[n] < t[n] /\ \A m \in 1 .. n - 1 : s[m] = t[m]

\* Mutation: a place that is short will do, as one would expect.
AnyShort(found) == \E p \in ToSet(found) : p.point # NoPoint /\ p.qty <= p.point

Short(found) == AtMost(Qtys(found), ReOrderPoints(found))

\* One aggregation finds the items; an upload of them, which nothing waits for.
Look ==
  /\ job.looks < MaxLooks /\ job.todo = <<>> /\ ~job.uploading
  /\ LET found == At(items, {n \in DOMAIN items : Short(PlacesOf(items[n]))})
     IN  job' = [looks |-> job.looks + 1, uploading |-> TRUE, saving |-> {},
                 todo |-> [n \in DOMAIN found |->
                            [item |-> found[n].id, seen |-> PlacesOf(found[n])]]]
  /\ UNCHANGED <<load, documents, pc, call, local>>

\* An order for the first place the job saw, saved while the loop goes on.
OrderNext ==
  /\ job.todo # <<>>
  /\ Head(job.todo).seen # <<>>
  /\ job' = [job EXCEPT !.saving = @ \union {Head(job.todo)}, !.todo = Tail(@)]
  /\ UNCHANGED <<load, documents, pc, call, local>>

Save(o) ==
  /\ purchases' = purchases \union {o}
  /\ job' = [job EXCEPT !.saving = @ \ {o}]
  /\ UNCHANGED <<load, items, places, categories, pc, call, local>>

\* The first place of none, or a supplier who is gone ('002').
LoopRejects == job.todo # <<>> /\ Exit

\* The end of the upload is reported to a response there is not.
UploadRejects == job.uploading /\ Exit

-----------------------------------------------------------------------------

Handler(r) ==
  \/ CreateFind(r) \/ CreateItsPlace(r) \/ CreateCategories(r)
  \/ ImportUpload(r) \/ ImportRow(r) \/ ImportItem(r)
  \/ AssignFind(r) \/ AssignPlace(r) \/ AssignPush(r)
  \/ SelectPlace(r) \/ TakeOutDelete(r) \/ TakeOutPull(r) \/ TakeOutAnswer(r)
  \/ EditPlaceWrite(r) \/ EditFind(r) \/ EditWrite(r) \/ RemoveItem(r) \/ WriteCategory(r)

Next ==
  \/ \E r \in Requests : Arrive(r) \/ Handler(r)
  \/ Look \/ OrderNext \/ (\E o \in job.saving : Save(o)) \/ LoopRejects \/ UploadRejects

Spec == Init /\ [][Next]_vars

-----------------------------------------------------------------------------
(* Properties *)

Named == UNION {ToSet(i.places) : i \in ToSet(items)}

\* However requests overlap, and wherever the process exits, an item names no
\* place that is gone, except for one that a request has deleted and not pulled:
\* it is about to, or was lost before it could.
NamedPlacesExist ==
  \A p \in Named \ Ids(places) :
    \E r \in Requests :
      call[r].kind = "TAKE_OUT" /\ local[r].place = p /\ pc[r] \in {"pull", "lost"}

\* A place that no item names has an explanation: its item was removed, or the
\* request that made it has yet to write the item, was lost before that, or was
\* refused: a creation (a category has the name), an assignment to a removed item.
\* A creation or an import that is answered leaves none behind.
UnnamedPlacesAreExplained ==
  \A p \in Ids(places) \ Named :
    \E r \in Requests :
      \/ p \in local[r].left
      \/ /\ p = local[r].place
         /\ \/ pc[r] \in {"categories", "item", "push", "lost"}
            \/ pc[r] = "failed" /\ call[r].kind = "CREATE"
            \/ /\ pc[r] = "failed" /\ call[r].kind = "ASSIGN"
               /\ call[r].item \notin Ids(items)

\* Both: items and places are written in two calls, and agree but for that.
PlacesAndItemsAgree == NamedPlacesExist /\ UnnamedPlacesAreExplained

\* The job compares all quantities of an item with all its points at once, and
\* orders for one place: that place was short when the job looked, if every place
\* of the item has a point.  (One that is short may be missed.)
PurchasesAreForShortPlaces ==
  \A o \in purchases :
    (\A p \in ToSet(o.seen) : p.point # NoPoint) => Head(o.seen).qty <= Head(o.seen).point
=============================================================================

-------------------------- MODULE CatalogueProofs --------------------------
(***************************************************************************)
(* Items and places name each other but for what is explained, however     *)
(* requests overlap and wherever the process exits; and what the daily     *)
(* job orders was short when it looked.  For any requests, stocks, loads   *)
(* and number of looks.                                                    *)
(***************************************************************************)
EXTENDS Catalogue, ArraysProofs, SequenceTheorems

Order == [item: Id, seen: Seq(Place)]
Local == [line: Nat \ {0}, place: Id, left: SUBSET Id]
Stage == {"idle", "find", "place", "categories", "row", "item", "push", "write", "pull",
          "answer"} \union Finished

TypeOK ==
  /\ load \in Loads
  /\ items \in Seq(Item)
  /\ places \in Seq(Place)
  /\ categories \in SUBSET Names
  /\ purchases \in SUBSET Order
  /\ job \in [looks: 0 .. MaxLooks, todo: Seq(Order), saving: SUBSET Order, uploading: BOOLEAN]
  /\ pc \in [Requests -> Stage]
  /\ call \in [Requests -> Call \union {NoCall}]
  /\ local \in [Requests -> Local]

\* A request has selected nothing before its first answer, and the row that an
\* import writes is one of its file.
LineOK ==
  \A r \in Requests :
    /\ pc[r] \in {"idle", "find"} => local[r] = NoLocal
    /\ pc[r] = "item" => call[r].kind = "IMPORT" /\ local[r].line <= Len(call[r].rows)

TypeInv == TypeOK /\ LineOK

\* The documents a request makes bear its number, and for a row the line.
OwnId(r) == IF call[r].kind = "IMPORT" THEN <<r, local[r].line>> ELSE <<r>>

\* No request will make this id: it is of no request, or of an item that is there.
Past(id) ==
  \A r \in Requests :
    /\ id = <<r>> => pc[r] = "done"
    /\ Len(id) = 2 /\ id[1] = r => id[2] < local[r].line

\* Ids are of what was made, each for one item, and a place is of one item.
NamesInv ==
  /\ \A i \in ToSet(items) : Past(i.id) /\ \A p \in ToSet(i.places) : Past(p)
  /\ \A i, j \in ToSet(items) :
       i.id = j.id \/ ToSet(i.places) \intersect ToSet(j.places) # {} => i = j
  /\ NoId \notin Ids(places)

\* Between its two writes a request has its place; an item that was to have a place
\* assigned does not come back; a place being taken out is of one item, and gone
\* once it is deleted.
RequestInv(r) ==
  /\ pc[r] \in {"categories", "item", "push"} =>
       /\ call[r].kind \in {"CREATE", "IMPORT", "ASSIGN"}
       /\ pc[r] = "categories" => call[r].kind = "CREATE"
       /\ pc[r] = "push" => call[r].kind = "ASSIGN"
       /\ local[r].place = OwnId(r) /\ OwnId(r) \in Ids(places)
  /\ call[r].kind = "ASSIGN" =>
       /\ pc[r] \in {"place", "push"} => Past(call[r].item)
       /\ pc[r] = "failed" /\ local[r].place # NoId =>
            Past(call[r].item) /\ call[r].item \notin Ids(items)
  /\ call[r].kind = "TAKE_OUT" /\ pc[r] \in {"write", "pull"} =>
       /\ Past(local[r].place)
       /\ \A i \in ToSet(items) : local[r].place \in ToSet(i.places) => i.id = call[r].item
       /\ pc[r] = "pull" => local[r].place \notin Ids(places)
  /\ pc[r] = "pull" => call[r].kind = "TAKE_OUT"

IInv ==
  /\ NamesInv
  /\ \A r \in Requests : RequestInv(r)
  /\ PlacesAndItemsAgree

\* What the job orders, or will: places in the order it saw them, the first one
\* short if all have a point.
ShortFirst(o) ==
  (\A p \in ToSet(o.seen) : p.point # NoPoint) =>
    o.seen = <<>> \/ Head(o.seen).qty <= Head(o.seen).point
JobInv ==
  /\ \A o \in purchases \union job.saving : ShortFirst(o) /\ o.seen # <<>>
  /\ \A o \in ToSet(job.todo) : ShortFirst(o)

-----------------------------------------------------------------------------
(* Collections, as the sets of their documents *)

LEMMA ToSetType ==
  ASSUME NEW X, NEW s \in Seq(X)
  PROVE  ToSet(s) \in SUBSET X
BY DEF ToSet

LEMMA ToSetAppend ==
  ASSUME NEW X, NEW s \in Seq(X), NEW x \in X
  PROVE  /\ Append(s, x) \in Seq(X)
         /\ ToSet(Append(s, x)) = ToSet(s) \union {x}
<1> DEFINE t == Append(s, x)
<1>1. /\ t \in Seq(X) /\ DOMAIN t = 1 .. Len(s) + 1 /\ DOMAIN s = 1 .. Len(s)
      /\ t[Len(s) + 1] = x /\ \A n \in 1 .. Len(s) : t[n] = s[n]
  OBVIOUS
<1>2. Len(s) \in Nat
  OBVIOUS
<1>3. DOMAIN t = DOMAIN s \union {Len(s) + 1}
  BY <1>1, <1>2
<1> HIDE DEF t
<1>4. ToSet(t) = ToSet(s) \union {x}
  BY <1>1, <1>3 DEF ToSet
<1> QED BY <1>1, <1>4 DEF t

LEMMA ToSetPull ==
  ASSUME NEW X, NEW s \in Seq(X), NEW leaving
  PROVE  /\ Pull(s, leaving) \in Seq(X)
         /\ ToSet(Pull(s, leaving)) = ToSet(s) \ leaving
<1> DEFINE left == {n \in DOMAIN s : s[n] \notin leaving}
<1>1. At(s, left) \in Seq(X) /\ ToSet(At(s, left)) = {s[n] : n \in left}
  BY AtLeaves DEF ToSet
<1> QED BY <1>1 DEF Pull, ToSet

LEMMA ToSetWithout ==
  ASSUME NEW X, NEW s \in Seq(X), NEW id
  PROVE  /\ Without(s, id) \in Seq(X)
         /\ ToSet(Without(s, id)) = {d \in ToSet(s) : d.id # id}
<1> DEFINE left == {n \in DOMAIN s : s[n].id # id}
<1>1. At(s, left) \in Seq(X) /\ ToSet(At(s, left)) = {s[n] : n \in left}
  BY AtLeaves DEF ToSet
<1> QED BY <1>1 DEF Without, ToSet

LEMMA ToSetUpdated ==
  ASSUME NEW X, NEW s \in Seq(X), NEW d \in X
  PROVE  /\ Updated(s, d) \in Seq(X)
         /\ d.id \in Ids(s) =>
              ToSet(Updated(s, d)) = {o \in ToSet(s) : o.id # d.id} \union {d}
         /\ Ids(Updated(s, d)) = Ids(s)
<1> DEFINE t == Updated(s, d)
<1>1. DOMAIN t = DOMAIN s /\ \A n \in DOMAIN s : t[n] = IF s[n].id = d.id THEN d ELSE s[n]
  BY DEF Updated
<1>2. t \in [1 .. Len(s) -> X] /\ Len(s) \in Nat
  <2>1. DOMAIN s = 1 .. Len(s) /\ \A n \in DOMAIN s : s[n] \in X
    OBVIOUS
  <2> QED BY <2>1 DEF Updated
<1>3. t \in Seq(X)
  BY <1>2
<1> HIDE DEF t
<1>4. \A n \in DOMAIN s : t[n].id = s[n].id
  BY <1>1
<1>5. Ids(t) = Ids(s)
  BY <1>1, <1>4 DEF Ids, ToSet
<1>6. ASSUME d.id \in Ids(s)
      PROVE  ToSet(t) = {o \in ToSet(s) : o.id # d.id} \union {d}
  <2>1. PICK m \in DOMAIN s : s[m].id = d.id
    BY <1>6 DEF Ids, ToSet
  <2> QED BY <1>1, <2>1 DEF ToSet
<1> QED BY <1>3, <1>5, <1>6 DEF t

LEMMA TheOneIs ==
  ASSUME NEW s, NEW id \in Ids(s)
  PROVE  TheOne(s, id) \in ToSet(s) /\ TheOne(s, id).id = id
BY DEF Ids, TheOne

-----------------------------------------------------------------------------
(* Types *)

LEMMA CallTypes ==
  ASSUME TypeOK, NEW r \in Requests
  PROVE  /\ call[r].kind \in {"CREATE", "IMPORT", "ASSIGN"} => call[r].warehouse \in Warehouses
         /\ call[r].kind = "CREATE" => call[r].sku \in Skus \union {NoSku}
         /\ call[r].kind = "CREATE" => call[r].names \in Seq(Names)
         /\ call[r].kind \in {"CREATE", "ASSIGN", "EDIT_PLACE"} => call[r].point \in Points
         /\ call[r].kind = "IMPORT" => call[r].rows \in Seq(Row)
         /\ call[r].kind = "EDIT" => call[r].sku \in Skus
         /\ call[r].kind \in {"ASSIGN", "TAKE_OUT"} => call[r].item \in Id
         /\ call[r].kind \in {"CATEGORY", "NO_CATEGORY"} => call[r].name \in Names
<1>1. call[r] \in Call \/ call[r] = NoCall
  BY DEF TypeOK
<1> QED BY <1>1 DEF Call, NoCall

LEMMA RowTypes ==
  ASSUME TypeInv, NEW r \in Requests, call[r].kind = "IMPORT", local[r].line <= Len(call[r].rows)
  PROVE  RowOf(r) \in Row
<1>1. call[r].rows \in Seq(Row) /\ local[r].line \in Nat \ {0}
  BY CallTypes DEF TypeInv, TypeOK, Local
<1> QED BY <1>1 DEF RowOf

LEMMA OwnIds ==
  ASSUME NEW r \in Requests, NEW l \in Nat
  PROVE  /\ <<r>> \in Id /\ <<r, l>> \in Id
         /\ <<r>>[1] = r /\ <<r, l>>[1] = r /\ <<r, l>>[2] = l
         /\ Len(<<r>>) = 1 /\ Len(<<r, l>>) = 2
         /\ <<r>> # NoId /\ <<r, l>> # NoId
BY RequestsAssumption DEF Id, NoId

\* Where a request may go, from where a line of its own is of no account.
Ahead == Stage \ {"idle", "find", "item"}

LEMMA MoveType ==
  ASSUME TypeInv, NEW r \in Requests, NEW at \in Ahead, Move(r, at)
  PROVE  TypeInv'
<1>1. TypeOK'
  BY DEF TypeInv, TypeOK, Move, Goto, documents, Ahead
<1>2. LineOK'
  BY DEF TypeInv, TypeOK, LineOK, Move, Goto, documents, Ahead
<1> QED BY <1>1, <1>2 DEF TypeInv

LEMMA WriteType ==
  ASSUME TypeInv, NEW r \in Requests, NEW at \in Stage \ {"idle", "find"}, Goto(r, at),
         UNCHANGED <<load, call, job, purchases>>,
         items' \in Seq(Item), places' \in Seq(Place), categories' \in SUBSET Names,
         NEW l \in Local, local' = [local EXCEPT ![r] = l],
         at = "item" => call[r].kind = "IMPORT" /\ l.line <= Len(call[r].rows)
  PROVE  TypeInv'
<1>1. local' \in [Requests -> Local] /\ local'[r] = l
      /\ \A o \in Requests \ {r} : local'[o] = local[o]
  BY DEF TypeInv, TypeOK
<1>2. pc' \in [Requests -> Stage] /\ pc'[r] = at /\ \A o \in Requests \ {r} : pc'[o] = pc[o]
  BY DEF TypeInv, TypeOK, Goto
<1>3. TypeOK'
  BY <1>1, <1>2 DEF TypeInv, TypeOK
<1>4. LineOK'
  BY <1>1, <1>2 DEF TypeInv, LineOK
<1> QED BY <1>3, <1>4 DEF TypeInv

LEMMA LocalTypes ==
  ASSUME TypeInv, NEW r \in Requests, NEW line \in Nat \ {0}, NEW id \in Id, NEW left \in SUBSET Id
  PROVE  /\ local[r] \in Local /\ [local[r] EXCEPT !.line = line] \in Local
         /\ [local[r] EXCEPT !.place = id] \in Local
         /\ [local[r] EXCEPT !.left = left] \in Local
         /\ [local[r] EXCEPT !.line = line].line = line
         /\ [local[r] EXCEPT !.place = id].line = local[r].line
         /\ local' = local => local' = [local EXCEPT ![r] = local[r]]
<1>1. local[r] \in Local
  BY DEF TypeInv, TypeOK
<1> QED BY <1>1 DEF TypeInv, TypeOK, Local

LEMMA ExitType ==
  ASSUME TypeInv, Exit
  PROVE  TypeInv'
<1>1. TypeOK'
  <2>1. job' = [looks |-> job.looks, todo |-> <<>>, saving |-> {}, uploading |-> FALSE]
    BY DEF Exit, NoJob
  <2>2. job'.looks \in 0 .. MaxLooks
    BY <2>1 DEF TypeInv, TypeOK
  <2>3. job' \in [looks: 0 .. MaxLooks, todo: Seq(Order), saving: SUBSET Order, uploading: BOOLEAN]
    BY <2>1, <2>2
  <2>4. pc' \in [Requests -> Stage]
    BY DEF Exit, TypeInv, TypeOK, Stage, Finished
  <2> QED BY <2>3, <2>4 DEF Exit, TypeInv, TypeOK, documents
<1>2. LineOK'
  BY DEF Exit, TypeInv, LineOK, Working, Finished
<1> QED BY <1>1, <1>2 DEF TypeInv

LEMMA CreatePlaceType ==
  ASSUME TypeInv, NEW r \in Requests, NEW id \in Id, NEW point \in Points \union {NoPoint},
         NEW at \in Stage \ {"idle", "find"}, CreatePlace(r, id, point, at),
         call[r].kind \in {"CREATE", "IMPORT", "ASSIGN"},
         at = "item" => call[r].kind = "IMPORT" /\ local[r].line <= Len(call[r].rows)
  PROVE  TypeInv'
<1> DEFINE p == [id |-> id, warehouse |-> call[r].warehouse, qty |-> 0, point |-> point]
           l == [local[r] EXCEPT !.place = id]
<1>1. p \in Place
  BY CallTypes DEF TypeInv, Place
<1>2. places' = Append(places, p) /\ local' = [local EXCEPT ![r] = l]
  BY DEF CreatePlace
<1>3. places' \in Seq(Place)
  BY <1>1, <1>2, ToSetAppend DEF TypeInv, TypeOK
<1>4. l \in Local /\ l.line = local[r].line
  <2>1. 1 \in Nat \ {0} /\ {} \in SUBSET Id
    OBVIOUS
  <2> QED BY <2>1, LocalTypes
<1> HIDE DEF l, p
<1>5. Goto(r, at) /\ UNCHANGED <<load, items, categories, purchases, job, call>>
  BY DEF CreatePlace
<1>6. items' \in Seq(Item) /\ categories' \in SUBSET Names
  BY <1>5 DEF TypeInv, TypeOK
<1> QED BY <1>2, <1>3, <1>4, <1>5, <1>6, WriteType

LEMMA CreateItemType ==
  ASSUME TypeInv, NEW r \in Requests, NEW id \in Id, NEW sku \in Skus \union {NoSku},
         NEW line \in Nat \ {0}, NEW at \in Ahead, CreateItem(r, id, sku, line, at)
  PROVE  TypeInv'
<1> DEFINE i == [id |-> id, sku |-> sku, places |-> <<local[r].place>>]
           l == [local[r] EXCEPT !.line = line]
<1>1. local[r].place \in Id
  BY DEF TypeInv, TypeOK, Local
<1>2. i \in Item
  BY <1>1 DEF Item
<1>3. items' = Append(items, i) /\ local' = [local EXCEPT ![r] = l]
  BY DEF CreateItem
<1>4. items' \in Seq(Item)
  BY <1>2, <1>3, ToSetAppend DEF TypeInv, TypeOK
<1>5. l \in Local
  BY <1>1, LocalTypes
<1> HIDE DEF l, i
<1>6. Goto(r, at) /\ UNCHANGED <<load, places, categories, purchases, job, call>>
  BY DEF CreateItem
<1>7. places' \in Seq(Place) /\ categories' \in SUBSET Names
  BY <1>6 DEF TypeInv, TypeOK
<1>8. at \in Stage \ {"idle", "find"} /\ at # "item"
  BY DEF Ahead
<1> QED BY <1>3, <1>4, <1>5, <1>6, <1>7, <1>8, WriteType

LEMMA WriteItemType ==
  ASSUME TypeInv, NEW r \in Requests, NEW i, call[r].item \in Ids(items) => i \in Item,
         NEW at \in Ahead, WriteItem(r, i, at)
  PROVE  TypeInv'
<1>1. CASE call[r].item \in Ids(items)
  <2>1. /\ items' = Updated(items, i) /\ Goto(r, at)
        /\ UNCHANGED <<load, places, categories, purchases, job, call, local>>
    BY <1>1 DEF WriteItem
  <2>2. items' \in Seq(Item)
    BY <1>1, <2>1, ToSetUpdated DEF TypeInv, TypeOK
  <2>3. places' \in Seq(Place) /\ categories' \in SUBSET Names
    BY <2>1 DEF TypeInv, TypeOK
  <2>4. local[r] \in Local /\ local' = [local EXCEPT ![r] = local[r]]
    BY <2>1 DEF TypeInv, TypeOK
  <2>5. at \in Stage \ {"idle", "find"} /\ at # "item"
    BY DEF Ahead
  <2> DEFINE l == local[r]
  <2>6. l \in Local /\ local' = [local EXCEPT ![r] = l]
    BY <2>4
  <2> HIDE DEF l
  <2> QED BY <2>1, <2>2, <2>3, <2>5, <2>6, WriteType
<1>2. CASE call[r].item \notin Ids(items)
  <2>1. Move(r, "failed") /\ "failed" \in Ahead
    BY <1>2 DEF WriteItem, Fail, Ahead, Stage, Finished
  <2> QED BY <2>1, MoveType
<1> QED BY <1>1, <1>2

LEMMA ItsItemType ==
  ASSUME TypeInv, NEW r \in Requests, call[r].item \in Ids(items)
  PROVE  /\ ItsItem(r) \in Item /\ ItsItem(r) \in ToSet(items)
         /\ ItsItem(r).id = call[r].item
BY TheOneIs, ToSetType DEF TypeInv, TypeOK, ItsItem

\* What selectPlace finds is named by the item and is a document.
LEMMA PlacesInAre ==
  ASSUME TypeInv, NEW id, NEW warehouse, PlacesIn(id, warehouse) # <<>>
  PROVE  LET p == Head(PlacesIn(id, warehouse))
         IN  /\ p \in Id /\ p \in Ids(places) /\ id \in Ids(items)
             /\ \E i \in ToSet(items) : i.id = id /\ p \in ToSet(i.places)
<1> DEFINE i == TheOne(items, id)
           named == i.places
           there == {n \in DOMAIN named : /\ named[n] \in Ids(places)
                                          /\ TheOne(places, named[n]).warehouse = warehouse}
           s == At(named, there)
           p == Head(PlacesIn(id, warehouse))
<1>1. id \in Ids(items) /\ PlacesIn(id, warehouse) = s
  BY DEF PlacesIn
<1>2. i \in ToSet(items) /\ i.id = id /\ i \in Item
  BY <1>1, TheOneIs, ToSetType DEF TypeInv, TypeOK
<1> HIDE DEF i
<1>3. named \in Seq(Id)
  BY <1>2 DEF Item
<1> HIDE DEF named
<1>4. there \in SUBSET DOMAIN named /\ \A n \in there : named[n] \in Ids(places)
  OBVIOUS
<1> HIDE DEF there
<1>5. s \in Seq(Id) /\ {s[k] : k \in DOMAIN s} = {named[n] : n \in there}
  BY <1>3, <1>4, AtLeaves
<1> HIDE DEF s
<1>6. s # <<>> => 1 \in DOMAIN s /\ Head(s) = s[1] /\ Head(s) \in Id
  BY <1>5
<1>7. p = Head(s) /\ s # <<>>
  BY <1>1
<1> HIDE DEF p
<1>8. p \in Id /\ \E n \in there : p = named[n]
  BY <1>5, <1>6, <1>7
<1>9. p \in Ids(places) /\ p \in ToSet(named)
  BY <1>4, <1>8 DEF ToSet
<1> QED BY <1>1, <1>2, <1>8, <1>9 DEF p, named

LEMMA PlacesOfType ==
  ASSUME TypeInv, NEW i
  PROVE  PlacesOf(i) \in Seq(Place)
BY AtLeaves DEF PlacesOf, TypeInv, TypeOK

LEMMA Looked ==
  ASSUME TypeInv, Look
  PROVE  /\ job'.todo \in Seq(Order) /\ job'.saving = {} /\ job'.uploading = TRUE
         /\ job'.looks = job.looks + 1
         /\ job' = [looks |-> job'.looks, todo |-> job'.todo, saving |-> {}, uploading |-> TRUE]
         /\ \A o \in ToSet(job'.todo) : o.seen \in Seq(Place) /\ Short(o.seen)
<1> DEFINE short == {n \in DOMAIN items : Short(PlacesOf(items[n]))}
           found == At(items, short)
           order(i) == [item |-> i.id, seen |-> PlacesOf(i)]
           todo == [n \in DOMAIN found |-> order(found[n])]
<1>1. job' = [looks |-> job.looks + 1, uploading |-> TRUE, saving |-> {}, todo |-> todo]
  BY DEF Look
<1>2. items \in Seq(Item) /\ short \in SUBSET DOMAIN items
  BY DEF TypeInv, TypeOK
<1>3. \A n \in short : Short(PlacesOf(items[n]))
  OBVIOUS
<1> HIDE DEF short
<1>4. found \in Seq(Item) /\ {found[k] : k \in DOMAIN found} = {items[n] : n \in short}
  BY <1>2, AtLeaves
<1> HIDE DEF found
<1>5. \A k \in DOMAIN found : found[k] \in Item /\ Short(PlacesOf(found[k]))
  <2> TAKE k \in DOMAIN found
  <2>1. found[k] \in Item
    BY <1>4
  <2>2. PICK n \in short : found[k] = items[n]
    BY <1>4
  <2>3. Short(PlacesOf(items[n]))
    BY <1>3
  <2> QED BY <2>1, <2>2, <2>3
<1>6. \A i \in Item : order(i) \in Order
  BY PlacesOfType DEF Item, Order
<1>7. \A k \in DOMAIN found : order(found[k]) \in Order /\ Short(order(found[k]).seen)
  BY <1>5, <1>6
<1>8. \A k \in DOMAIN found : order(found[k]).seen \in Seq(Place)
  BY PlacesOfType
<1> HIDE DEF order
<1>9. todo \in [1 .. Len(found) -> Order] /\ Len(found) \in Nat
  BY <1>4, <1>7
<1>10. todo \in Seq(Order)
  BY <1>9
<1>11. \A o \in ToSet(todo) : o.seen \in Seq(Place) /\ Short(o.seen)
  BY <1>7, <1>8 DEF ToSet
<1> HIDE DEF todo
<1> QED BY <1>1, <1>10, <1>11

LEMMA JobType ==
  ASSUME TypeInv, UNCHANGED <<load, items, places, categories, pc, call, local>>,
         purchases' \in SUBSET Order,
         job' \in [looks: 0 .. MaxLooks, todo: Seq(Order), saving: SUBSET Order,
                   uploading: BOOLEAN]
  PROVE  TypeInv'
BY DEF TypeInv, TypeOK, LineOK

LEMMA LookType == ASSUME TypeInv, Look PROVE TypeInv'
<1>1. job.looks \in 0 .. MaxLooks /\ job.looks < MaxLooks
  BY DEF TypeInv, TypeOK, Look
<1>2. job'.looks \in 0 .. MaxLooks
  BY <1>1, Looked, BoundsAssumption
<1>3. job' \in [looks: 0 .. MaxLooks, todo: Seq(Order), saving: SUBSET Order, uploading: BOOLEAN]
  BY <1>2, Looked
<1>4. UNCHANGED <<load, items, places, categories, purchases, pc, call, local>>
  BY DEF Look, documents
<1> QED BY <1>3, <1>4, JobType DEF TypeInv, TypeOK

LEMMA OrderNextType ==
  ASSUME TypeInv, OrderNext
  PROVE  /\ TypeInv' /\ purchases' = purchases
         /\ job'.saving = job.saving \union {Head(job.todo)} /\ Head(job.todo).seen # <<>>
         /\ Head(job.todo) \in ToSet(job.todo) /\ ToSet(job'.todo) \subseteq ToSet(job.todo)
<1> DEFINE todo == job.todo
<1>1. todo \in Seq(Order) /\ todo # <<>>
  BY DEF TypeInv, TypeOK, OrderNext
<1>2. job' = [job EXCEPT !.saving = @ \union {Head(todo)}, !.todo = Tail(todo)]
  BY DEF OrderNext
<1>3. UNCHANGED <<load, items, places, categories, purchases, pc, call, local>>
  BY DEF OrderNext, documents
<1>4. Head(todo).seen # <<>>
  BY DEF OrderNext
<1>5. job \in [looks: 0 .. MaxLooks, todo: Seq(Order), saving: SUBSET Order, uploading: BOOLEAN]
  BY DEF TypeInv, TypeOK
<1> HIDE DEF todo
<1>6. /\ Head(todo) \in Order /\ Tail(todo) \in Seq(Order) /\ Head(todo) \in ToSet(todo)
      /\ ToSet(Tail(todo)) \subseteq ToSet(todo)
  <2>1. /\ Head(todo) = todo[1] /\ 1 \in DOMAIN todo
        /\ Tail(todo) \in Seq(Order)
        /\ \A n \in DOMAIN Tail(todo) : Tail(todo)[n] = todo[n + 1] /\ n + 1 \in DOMAIN todo
    BY <1>1
  <2>2. Head(todo) \in Order
    BY <1>1, <2>1
  <2> QED BY <2>1, <2>2 DEF ToSet
<1> DEFINE h == Head(todo)
           t == Tail(todo)
<1>7. h \in Order /\ t \in Seq(Order)
  BY <1>6
<1>8. job' = [job EXCEPT !.saving = job.saving \union {h}, !.todo = t]
  BY <1>2
<1> HIDE DEF h, t
<1>9. /\ job' \in [looks: 0 .. MaxLooks, todo: Seq(Order), saving: SUBSET Order, uploading: BOOLEAN]
      /\ job'.saving = job.saving \union {h} /\ job'.todo = t
  BY <1>5, <1>7, <1>8
<1>10. TypeInv'
  BY <1>3, <1>9, JobType DEF TypeInv, TypeOK
<1> QED BY <1>3, <1>4, <1>6, <1>9, <1>10 DEF h, t, todo

LEMMA SaveType ==
  ASSUME TypeInv, NEW o \in job.saving, Save(o)
  PROVE  /\ TypeInv' /\ purchases' = purchases \union {o}
         /\ job'.saving \subseteq job.saving /\ job'.todo = job.todo
<1>1. job \in [looks: 0 .. MaxLooks, todo: Seq(Order), saving: SUBSET Order, uploading: BOOLEAN]
  BY DEF TypeInv, TypeOK
<1>2. job' = [job EXCEPT !.saving = job.saving \ {o}]
  BY DEF Save
<1>3. /\ job' \in [looks: 0 .. MaxLooks, todo: Seq(Order), saving: SUBSET Order, uploading: BOOLEAN]
      /\ job'.saving = job.saving \ {o} /\ job'.todo = job.todo
  BY <1>1, <1>2
<1>4. purchases' = purchases \union {o} /\ purchases' \in SUBSET Order
  BY <1>1 DEF Save, TypeInv, TypeOK
<1>5. UNCHANGED <<load, items, places, categories, pc, call, local>>
  BY DEF Save
<1>6. TypeInv'
  BY <1>3, <1>4, <1>5, JobType
<1> QED BY <1>3, <1>4, <1>6

LEMMA HandlerType == ASSUME TypeInv, NEW r \in Requests, Handler(r) PROVE TypeInv'
<1> DEFINE line == local[r].line
<1>1. line \in Nat \ {0} /\ line + 1 \in Nat \ {0} /\ local[r] \in Local
  BY DEF TypeInv, TypeOK, Local
<1>2. {"failed", "done", "place", "row", "write", "categories", "push", "pull", "answer"} \subseteq Ahead
  BY DEF Ahead, Stage, Finished
<1>3. Ahead \subseteq Stage \ {"idle", "find"} /\ "item" \in Stage \ {"idle", "find"} /\ "item" \notin Ahead
  BY DEF Ahead, Stage
<1>4. <<r>> \in Id /\ <<r, line>> \in Id
  BY <1>1, OwnIds
<1>5. ASSUME NEW l \in Local, local' = [local EXCEPT ![r] = l], NEW at \in Ahead, Goto(r, at),
             UNCHANGED <<load, documents, job, call>>
      PROVE  TypeInv'
  <2>1. items' \in Seq(Item) /\ places' \in Seq(Place) /\ categories' \in SUBSET Names
    BY <1>5 DEF TypeInv, TypeOK, documents
  <2>2. UNCHANGED <<load, call, job, purchases>>
    BY <1>5 DEF documents
  <2> QED BY <1>3, <1>5, <2>1, <2>2, WriteType
<1>6. ASSUME pc[r] \in Ahead, UNCHANGED <<load, documents, job, pc, call>>,
             local' = [local EXCEPT ![r].line = line + 1]
      PROVE  TypeInv'
  <2> DEFINE l == [local[r] EXCEPT !.line = line + 1]
  <2>1. local' = [local EXCEPT ![r] = l] /\ l \in Local
    <3>1. <<r>> \in Id /\ {} \in SUBSET Id
      BY <1>4
    <3> QED BY <1>1, <1>6, <3>1, LocalTypes
  <2> HIDE DEF l
  <2>2. Goto(r, pc[r])
    BY <1>6 DEF Goto, TypeInv, TypeOK
  <2> QED BY <1>5, <1>6, <2>1, <2>2
<1> HIDE DEF line
<1>7. CASE CreateFind(r)
  BY <1>2, <1>7, MoveType DEF CreateFind, Fail
<1>8. CASE CreateItsPlace(r)
  <2>1. call[r].kind = "CREATE" /\ CreatePlace(r, <<r>>, call[r].point, "categories")
    BY <1>8 DEF CreateItsPlace, Serves
  <2>2. call[r].point \in Points \union {NoPoint}
    BY <2>1, CallTypes DEF TypeInv
  <2> QED BY <1>2, <1>3, <1>4, <2>1, <2>2, CreatePlaceType
<1>9. CASE CreateCategories(r)
  <2>1. call[r].kind = "CREATE" /\ pc[r] = "categories"
    BY <1>9 DEF CreateCategories, Serves
  <2>2. CASE line > Len(call[r].names)
    <3>1. CreateItem(r, <<r>>, call[r].sku, line, "done")
      BY <1>9, <2>2 DEF CreateCategories, line
    <3>2. call[r].sku \in Skus \union {NoSku}
      BY <2>1, CallTypes DEF TypeInv
    <3> QED BY <1>1, <1>2, <1>4, <3>1, <3>2, CreateItemType
  <2>3. CASE Fail(r)
    BY <1>2, <2>3, MoveType DEF Fail
  <2>4. CASE /\ local' = [local EXCEPT ![r].line = @ + 1]
             /\ UNCHANGED <<load, documents, job, pc, call>>
    <3>1. local' = [local EXCEPT ![r].line = line + 1]
      BY <2>4 DEF line
    <3> QED BY <1>2, <1>6, <2>1, <2>4, <3>1
  <2> QED BY <1>9, <2>2, <2>3, <2>4 DEF CreateCategories, line
<1>10. CASE ImportUpload(r)
  BY <1>2, <1>10, MoveType DEF ImportUpload, Fail
<1>11. CASE ImportRow(r)
  <2>1. call[r].kind = "IMPORT" /\ pc[r] = "row"
    BY <1>11 DEF ImportRow, Serves
  <2>2. CASE Move(r, "done")
    BY <1>2, <2>2, MoveType
  <2>3. CASE Exit
    BY <2>3, ExitType
  <2>4. CASE /\ local' = [local EXCEPT ![r].line = @ + 1]
             /\ UNCHANGED <<load, documents, job, pc, call>>
    <3>1. local' = [local EXCEPT ![r].line = line + 1]
      BY <2>4 DEF line
    <3> QED BY <1>2, <1>6, <2>1, <2>4, <3>1
  <2>5. CASE /\ ~(line > Len(call[r].rows))
             /\ CreatePlace(r, <<r, line>>, RowOf(r).point, "item")
    <3>1. call[r].rows \in Seq(Row)
      BY <2>1, CallTypes DEF TypeInv
    <3>2. line <= Len(call[r].rows)
      BY <1>1, <2>5, <3>1
    <3>3. RowOf(r).point \in Points \union {NoPoint}
      BY <2>1, <3>2, RowTypes DEF line, Row
    <3>4. call[r].kind \in {"CREATE", "IMPORT", "ASSIGN"} /\ local[r].line <= Len(call[r].rows)
      BY <2>1, <3>2 DEF line
    <3> QED BY <1>3, <1>4, <2>1, <2>5, <3>3, <3>4, CreatePlaceType
  <2> QED BY <1>11, <2>2, <2>3, <2>4, <2>5 DEF ImportRow, line
<1>12. CASE ImportItem(r)
  <2>1. pc[r] = "item" /\ CreateItem(r, <<r, line>>, RowOf(r).sku, line + 1, "row")
    BY <1>12 DEF ImportItem, Serves, line
  <2>2. RowOf(r).sku \in Skus \union {NoSku}
    BY <2>1, RowTypes DEF TypeInv, LineOK, Row
  <2> QED BY <1>1, <1>2, <1>4, <2>1, <2>2, CreateItemType
<1>13. CASE AssignFind(r)
  BY <1>2, <1>13, MoveType DEF AssignFind, Fail
<1>14. CASE AssignPlace(r)
  <2>1. call[r].kind = "ASSIGN" /\ CreatePlace(r, <<r>>, call[r].point, "push")
    BY <1>14 DEF AssignPlace, Serves
  <2>2. call[r].point \in Points \union {NoPoint}
    BY <2>1, CallTypes DEF TypeInv
  <2> QED BY <1>2, <1>3, <1>4, <2>1, <2>2, CreatePlaceType
<1>15. CASE AssignPush(r)
  <2> DEFINE i == [ItsItem(r) EXCEPT !.places = Append(@, local[r].place)]
  <2>1. WriteItem(r, i, "done")
    BY <1>15 DEF AssignPush
  <2>2. call[r].item \in Ids(items) => i \in Item
    <3>1. call[r].item \in Ids(items) => ItsItem(r) \in Item
      BY ItsItemType
    <3>2. local[r].place \in Id
      BY <1>1 DEF Local
    <3> QED BY <3>1, <3>2 DEF Item
  <2> HIDE DEF i
  <2> QED BY <1>2, <2>1, <2>2, WriteItemType
<1>16. CASE SelectPlace(r)
  <2>1. CASE PlacesIn(call[r].item, call[r].warehouse) = <<>>
    BY <1>2, <1>16, <2>1, MoveType DEF SelectPlace, Fail
  <2>2. CASE PlacesIn(call[r].item, call[r].warehouse) # <<>>
    <3> DEFINE p == Head(PlacesIn(call[r].item, call[r].warehouse))
               l == [local[r] EXCEPT !.place = p]
    <3>1. p \in Id
      BY <2>2, PlacesInAre
    <3>2. /\ local' = [local EXCEPT ![r].place = p] /\ Goto(r, "write")
          /\ UNCHANGED <<load, documents, job, call>>
      BY <1>16, <2>2 DEF SelectPlace
    <3> HIDE DEF p
    <3>3. l \in Local /\ local' = [local EXCEPT ![r] = l]
      BY <1>1, <3>1, <3>2 DEF Local
    <3> HIDE DEF l
    <3> QED BY <1>2, <1>5, <3>2, <3>3
  <2> QED BY <2>1, <2>2
<1>17. CASE TakeOutDelete(r)
  <2>1. places' \in Seq(Place)
    BY <1>17, ToSetWithout DEF TakeOutDelete, TypeInv, TypeOK
  <2>2. items' \in Seq(Item) /\ categories' \in SUBSET Names /\ local' = [local EXCEPT ![r] = local[r]]
    BY <1>17 DEF TakeOutDelete, TypeInv, TypeOK
  <2>3. Goto(r, "pull") /\ UNCHANGED <<load, call, job, purchases>>
    BY <1>17 DEF TakeOutDelete
  <2> QED BY <1>1, <1>2, <1>3, <2>1, <2>2, <2>3, WriteType
<1>18. CASE TakeOutPull(r)
  <2> DEFINE i == [ItsItem(r) EXCEPT !.places = Pull(@, {local[r].place})]
  <2>1. WriteItem(r, i, "answer")
    BY <1>18 DEF TakeOutPull
  <2>2. call[r].item \in Ids(items) => i \in Item
    <3> SUFFICES ASSUME call[r].item \in Ids(items) PROVE i \in Item
      OBVIOUS
    <3>1. ItsItem(r) \in Item
      BY ItsItemType
    <3>2. Pull(ItsItem(r).places, {local[r].place}) \in Seq(Id)
      BY <3>1, ToSetPull DEF Item
    <3> QED BY <3>1, <3>2 DEF Item
  <2> HIDE DEF i
  <2> QED BY <1>2, <2>1, <2>2, WriteItemType
<1>19. CASE TakeOutAnswer(r)
  BY <1>2, <1>19, MoveType DEF TakeOutAnswer
<1>20. CASE EditPlaceWrite(r)
  <2>1. CASE local[r].place \in Ids(places)
    <3> DEFINE was == TheOne(places, local[r].place)
               p == [was EXCEPT !.point = call[r].point]
    <3>1. places' = Updated(places, p)
      BY <1>20, <2>1 DEF EditPlaceWrite
    <3>2. was \in Place
      BY <2>1, TheOneIs, ToSetType DEF TypeInv, TypeOK
    <3>3. call[r].point \in Points
      BY <1>20, CallTypes DEF TypeInv, EditPlaceWrite, Serves
    <3> HIDE DEF was
    <3>4. p \in Place
      BY <3>2, <3>3 DEF Place
    <3> HIDE DEF p
    <3>5. places' \in Seq(Place)
      BY <3>1, <3>4, ToSetUpdated DEF TypeInv, TypeOK
    <3>6. Goto(r, "done") /\ UNCHANGED <<load, items, categories, purchases, job, call, local>>
      BY <1>20 DEF EditPlaceWrite
    <3>7. items' \in Seq(Item) /\ categories' \in SUBSET Names /\ local' = [local EXCEPT ![r] = local[r]]
      BY <3>6 DEF TypeInv, TypeOK
    <3> QED BY <3>5, <3>6, <3>7, <1>1, <1>2, <1>3, WriteType
  <2>2. CASE local[r].place \notin Ids(places)
    <3>1. Goto(r, "done") /\ UNCHANGED <<load, documents, job, call, local>>
      BY <1>20, <2>2 DEF EditPlaceWrite, documents
    <3>2. local' = [local EXCEPT ![r] = local[r]]
      BY <3>1 DEF TypeInv, TypeOK
    <3> QED BY <1>1, <1>2, <1>5, <3>1, <3>2
  <2> QED BY <2>1, <2>2
<1>21. CASE EditFind(r)
  BY <1>2, <1>21, MoveType DEF EditFind, Fail
<1>22. CASE EditWrite(r)
  <2> DEFINE i == [ItsItem(r) EXCEPT !.sku = call[r].sku]
  <2>1. WriteItem(r, i, "done")
    BY <1>22 DEF EditWrite
  <2>2. call[r].item \in Ids(items) => i \in Item
    <3>1. call[r].item \in Ids(items) => ItsItem(r) \in Item
      BY ItsItemType
    <3>2. call[r].sku \in Skus
      BY <1>22, CallTypes DEF TypeInv, EditWrite, Serves
    <3> QED BY <3>1, <3>2 DEF Item
  <2> HIDE DEF i
  <2> QED BY <1>2, <2>1, <2>2, WriteItemType
<1>23. CASE RemoveItem(r)
  <2>1. CASE call[r].item \in Ids(items)
    <3> DEFINE left == ToSet(ItsItem(r).places)
               l == [local[r] EXCEPT !.left = left]
    <3>1. ItsItem(r) \in Item
      BY <2>1, ItsItemType
    <3>2. left \in SUBSET Id
      BY <3>1, ToSetType DEF Item
    <3>3. /\ items' = Without(items, call[r].item) /\ Goto(r, "done")
          /\ local' = [local EXCEPT ![r].left = left]
          /\ UNCHANGED <<load, places, categories, purchases, job, call>>
      BY <1>23, <2>1 DEF RemoveItem
    <3> HIDE DEF left
    <3>4. l \in Local /\ local' = [local EXCEPT ![r] = l]
      BY <1>1, <3>2, <3>3 DEF Local
    <3> HIDE DEF l
    <3>5. items' \in Seq(Item) /\ places' \in Seq(Place) /\ categories' \in SUBSET Names
      BY <3>3, ToSetWithout DEF TypeInv, TypeOK
    <3> QED BY <1>2, <1>3, <3>3, <3>4, <3>5, WriteType
  <2>2. CASE call[r].item \notin Ids(items)
    BY <1>2, <1>23, <2>2, MoveType DEF RemoveItem, Fail
  <2> QED BY <2>1, <2>2
<1>24. CASE WriteCategory(r)
  <2>1. CASE Fail(r)
    BY <1>2, <2>1, MoveType DEF Fail
  <2>2. CASE ~Fail(r)
    <3>1. /\ categories' = IF call[r].kind = "CATEGORY" THEN categories \union {call[r].name}
                           ELSE categories \ {call[r].name}
          /\ Goto(r, "done")
          /\ UNCHANGED <<load, items, places, purchases, job, call, local>>
          /\ call[r].name \in Names
      BY <1>24, <2>2, CallTypes DEF WriteCategory, Serves, TypeInv
    <3>2. categories' \in SUBSET Names /\ items' \in Seq(Item) /\ places' \in Seq(Place)
          /\ local' = [local EXCEPT ![r] = local[r]]
      BY <3>1 DEF TypeInv, TypeOK
    <3> QED BY <1>1, <1>2, <1>3, <3>1, <3>2, WriteType
  <2> QED BY <2>1, <2>2
<1> QED BY <1>7, <1>8, <1>9, <1>10, <1>11, <1>12, <1>13, <1>14, <1>15, <1>16, <1>17, <1>18, <1>19,
           <1>20, <1>21, <1>22, <1>23, <1>24 DEF Handler

LEMMA ArriveType == ASSUME TypeInv, NEW r \in Requests, Arrive(r) PROVE TypeInv'
<1>1. PICK c \in load.calls : call' = [call EXCEPT ![r] = c]
  BY DEF Arrive
<1>2. c \in Call
  BY <1>1, LoadsAssumption DEF TypeInv, TypeOK
<1>3. pc[r] = "idle" /\ Goto(r, "find") /\ UNCHANGED <<load, documents, job, local>>
  BY DEF Arrive
<1>4. pc' \in [Requests -> Stage] /\ pc'[r] = "find" /\ \A o \in Requests \ {r} : pc'[o] = pc[o]
  BY <1>3 DEF TypeInv, TypeOK, Goto, Stage
<1>5. call' \in [Requests -> Call \union {NoCall}] /\ \A o \in Requests \ {r} : call'[o] = call[o]
  BY <1>1, <1>2 DEF TypeInv, TypeOK
<1>6. TypeOK'
  BY <1>3, <1>4, <1>5 DEF TypeInv, TypeOK, documents
<1>7. LineOK'
  BY <1>3, <1>4, <1>5 DEF TypeInv, LineOK
<1> QED BY <1>6, <1>7 DEF TypeInv

LEMMA TypeInit == Init => TypeInv
<1> SUFFICES ASSUME Init PROVE TypeInv
  OBVIOUS
<1>1. PICK s \in Stocks : items = s.items /\ places = s.places
  BY DEF Init
<1>2. items \in Seq(Item) /\ places \in Seq(Place)
  BY <1>1, StocksAssumption
<1>3. job \in [looks: 0 .. MaxLooks, todo: Seq(Order), saving: SUBSET Order, uploading: BOOLEAN]
  BY BoundsAssumption DEF Init, NoJob
<1>4. NoLocal \in Local
  BY DEF NoLocal, NoId, Local, Id
<1>5. TypeOK
  BY <1>2, <1>3, <1>4 DEF Init, TypeOK, Stage
<1>6. LineOK
  BY DEF Init, LineOK
<1> QED BY <1>5, <1>6 DEF TypeInv

LEMMA TypeStep == TypeInv /\ [Next]_vars => TypeInv'
<1> SUFFICES ASSUME TypeInv, [Next]_vars PROVE TypeInv'
  OBVIOUS
<1>1. ASSUME NEW r \in Requests, Arrive(r) \/ Handler(r) PROVE TypeInv'
  BY <1>1, ArriveType, HandlerType
<1>2. CASE LoopRejects \/ UploadRejects
  BY <1>2, ExitType DEF LoopRejects, UploadRejects
<1>3. ASSUME NEW o \in job.saving, Save(o) PROVE TypeInv'
  BY <1>3, SaveType
<1>4. CASE UNCHANGED vars
  BY <1>4 DEF vars, TypeInv, TypeOK, LineOK
<1> QED BY <1>1, <1>2, <1>3, <1>4, LookType, OrderNextType DEF Next

\* Every document, order and request keeps its type, and an import writes the
\* rows its file has, for any load.
THEOREM TypeCorrectness == Spec => []TypeInv
BY TypeInit, TypeStep, PTL DEF Spec

-----------------------------------------------------------------------------
(* Steps of one request *)

\* A request that has not ended takes a step, alone, and does not go back.
Moves(r) ==
  /\ pc[r] \notin Finished
  /\ \A o \in Requests \ {r} : pc'[o] = pc[o] /\ call'[o] = call[o] /\ local'[o] = local[o]
  /\ local'[r].line >= local[r].line

\* The document with one id, if any, is written: nothing is named anew but q.
ItemsChange(id, q) ==
  /\ \A i \in ToSet(items) : i.id # id => i \in ToSet(items)'
  /\ \A i \in ToSet(items)' : i.id # id => i \in ToSet(items)
  /\ \A i, j \in ToSet(items)' : i.id = id /\ j.id = id => i = j
  /\ \A i \in ToSet(items)' : i.id = id =>
       \A p \in ToSet(i.places) :
         p = q \/ \E j \in ToSet(items) : j.id = id /\ p \in ToSet(j.places)
  /\ id \in Ids(items) \/ ~Past(id)

\* No place is created but q, and what is deleted was named once.
PlacesChange(q) ==
  /\ \A p \in Ids(places) : p \in Ids(places)' \/ Past(p)
  /\ \A p \in Ids(places)' : p \in Ids(places) \/ p = q

\* The two explanations.
Missing(p, r) == call[r].kind = "TAKE_OUT" /\ local[r].place = p /\ pc[r] \in {"pull", "lost"}
Unlinked(p, r) ==
  \/ p \in local[r].left
  \/ /\ p = local[r].place
     /\ \/ pc[r] \in {"categories", "item", "push", "lost"}
        \/ pc[r] = "failed" /\ call[r].kind = "CREATE"
        \/ pc[r] = "failed" /\ call[r].kind = "ASSIGN" /\ call[r].item \notin Ids(items)

LEMMA Explained ==
  /\ NamedPlacesExist <=> \A p \in Named \ Ids(places) : \E r \in Requests : Missing(p, r)
  /\ UnnamedPlacesAreExplained <=>
       \A p \in Ids(places) \ Named : \E r \in Requests : Unlinked(p, r)
BY DEF NamedPlacesExist, UnnamedPlacesAreExplained, Missing, Unlinked

LEMMA NamedIs ==
  ASSUME NEW p
  PROVE  p \in Named <=> \E i \in ToSet(items) : p \in ToSet(i.places)
BY DEF Named

LEMMA DocumentTypes ==
  ASSUME TypeInv
  PROVE  /\ \A i \in ToSet(items) : i \in Item /\ i.id \in Id /\ ToSet(i.places) \in SUBSET Id
         /\ \A p \in Ids(places) : p \in Id
         /\ \A r \in Requests : local[r].place \in Id /\ local[r].line \in Nat
         /\ \A r \in Requests : OwnId(r) \in Id
<1>1. ToSet(items) \in SUBSET Item /\ ToSet(places) \in SUBSET Place
  BY ToSetType DEF TypeInv, TypeOK
<1>2. \A i \in Item : i.id \in Id /\ ToSet(i.places) \in SUBSET Id
  BY ToSetType DEF Item
<1>3. \A p \in Ids(places) : p \in Id
  BY <1>1 DEF Ids, Place
<1>4. \A r \in Requests : local[r].place \in Id /\ local[r].line \in Nat
  BY DEF TypeInv, TypeOK, Local
<1>5. \A r \in Requests : OwnId(r) \in Id
  BY <1>4, OwnIds DEF OwnId
<1> QED BY <1>1, <1>2, <1>3, <1>4, <1>5

LEMMA OwnIsNotPast ==
  ASSUME TypeInv, NEW r \in Requests, pc[r] # "done"
  PROVE  ~Past(OwnId(r))
<1>1. local[r].line \in Nat
  BY DocumentTypes
<1>2. CASE call[r].kind = "IMPORT"
  <2>1. OwnId(r) = <<r, local[r].line>>
    BY <1>2 DEF OwnId
  <2>2. Len(OwnId(r)) = 2 /\ OwnId(r)[1] = r /\ OwnId(r)[2] = local[r].line
    BY <1>1, <2>1, OwnIds
  <2>3. ~(local[r].line < local[r].line)
    BY <1>1
  <2> QED BY <2>2, <2>3 DEF Past
<1>3. CASE call[r].kind # "IMPORT"
  BY <1>3 DEF OwnId, Past
<1> QED BY <1>2, <1>3

LEMMA PastStays ==
  ASSUME TypeInv, TypeInv', NEW r \in Requests, Moves(r), NEW id \in Id, Past(id)
  PROVE  Past(id)'
<1> SUFFICES ASSUME NEW o \in Requests
             PROVE  /\ id = <<o>> => pc'[o] = "done"
                    /\ Len(id) = 2 /\ id[1] = o => id[2] < local'[o].line
  BY DEF Past
<1>1. /\ id = <<o>> => pc[o] = "done"
      /\ Len(id) = 2 /\ id[1] = o => id[2] < local[o].line
  BY DEF Past
<1>2. id = <<o>> => pc'[o] = "done"
  BY <1>1 DEF Moves, Finished
<1>3. local[o].line \in Nat /\ local'[o].line \in Nat /\ local'[o].line >= local[o].line
  <2>1. local[o].line \in Nat /\ local'[o].line \in Nat
    BY DEF TypeInv, TypeOK, Local
  <2>2. o # r => local'[o].line = local[o].line
    BY DEF Moves
  <2>3. o = r => local'[o].line >= local[o].line
    BY DEF Moves
  <2> QED BY <2>1, <2>2, <2>3
<1>4. Len(id) = 2 => id[2] \in Nat
  <2>1. id \in Seq(Nat)
    BY DEF Id
  <2>2. id \in [1 .. Len(id) -> Nat]
    BY <2>1
  <2>3. Len(id) = 2 => 2 \in 1 .. Len(id)
    OBVIOUS
  <2> QED BY <2>2, <2>3
<1> QED BY <1>1, <1>2, <1>3, <1>4

LEMMA OwnIsPast ==
  ASSUME TypeInv, TypeInv', NEW r \in Requests, NEW q, q = OwnId(r),
         \/ call[r].kind # "IMPORT" /\ pc'[r] = "done"
         \/ call[r].kind = "IMPORT" /\ local'[r].line = local[r].line + 1
  PROVE  Past(q)'
<1>1. local[r].line \in Nat
  BY DocumentTypes
<1>2. CASE call[r].kind # "IMPORT" /\ pc'[r] = "done"
  <2>1. q = <<r>> /\ Len(q) = 1 /\ \A o \in Requests : q = <<o>> => o = r
    BY <1>1, <1>2, OwnIds DEF OwnId
  <2> QED BY <1>2, <2>1 DEF Past
<1>3. CASE call[r].kind = "IMPORT" /\ local'[r].line = local[r].line + 1
  <2>1. q = <<r, local[r].line>> /\ Len(q) = 2 /\ q[1] = r /\ q[2] = local[r].line
    BY <1>1, <1>3, OwnIds DEF OwnId
  <2>2. \A o \in Requests : q # <<o>>
    BY <1>1, <2>1, OwnIds
  <2>3. local[r].line < local[r].line + 1
    BY <1>1
  <2> QED BY <1>3, <2>1, <2>2, <2>3 DEF Past
<1> QED BY <1>2, <1>3

LEMMA OthersStay ==
  ASSUME TypeInv, TypeInv', IInv, NEW r \in Requests, Moves(r), NEW q, q = OwnId(r), NEW id,
         ItemsChange(id, q), PlacesChange(q)
  PROVE  /\ \A o \in Requests \ {r} : RequestInv(o)'
         /\ \A o \in Requests \ {r} : \A p : Missing(p, o) => Missing(p, o)'
         /\ \A o \in Requests \ {r} : \A p \in Ids(places) : Unlinked(p, o) => Unlinked(p, o)'
<1>1. ~Past(q)
  BY OwnIsNotPast DEF Moves, Finished
<1>2. \A c \in Id : Past(c) => Past(c)'
  BY PastStays
<1>3. \A c : Past(c) /\ c \notin Ids(items) => c \notin Ids(items)'
  BY <1>1 DEF ItemsChange, Ids
<1>4. \A c : Past(c) /\ c \notin Ids(places) => c \notin Ids(places)'
  BY <1>1 DEF PlacesChange
<1>5. ASSUME NEW p, Past(p), NEW i \in ToSet(items)', p \in ToSet(i.places)
      PROVE  \E j \in ToSet(items) : j.id = i.id /\ p \in ToSet(j.places)
  BY <1>1, <1>5 DEF ItemsChange
<1>6. ASSUME NEW o \in Requests \ {r}
      PROVE  /\ RequestInv(o)'
             /\ \A p \in Ids(places) : Unlinked(p, o) => Unlinked(p, o)'
  <2>1. /\ pc'[o] = pc[o] /\ call'[o] = call[o] /\ local'[o] = local[o]
        /\ OwnId(o)' = OwnId(o)
    BY DEF Moves, OwnId
  <2>2. RequestInv(o)
    BY DEF IInv
  <2>3. local[o].place \in Id /\ (call[o].kind = "ASSIGN" => call[o].item \in Id)
    BY DocumentTypes, CallTypes DEF TypeInv
  <2>4. pc[o] \in {"categories", "item", "push"} => OwnId(o) \in Ids(places)'
    <3>1. pc[o] \in {"categories", "item", "push"} => ~Past(OwnId(o))
      BY OwnIsNotPast
    <3> QED BY <2>2, <3>1 DEF RequestInv, PlacesChange
  <2>5. call[o].kind = "ASSIGN" =>
          /\ pc[o] \in {"place", "push"} => Past(call[o].item)'
          /\ pc[o] = "failed" /\ local[o].place # NoId =>
               Past(call[o].item)' /\ call[o].item \notin Ids(items)'
    <3>1. call[o].kind = "ASSIGN" /\ Past(call[o].item) => Past(call[o].item)'
      <4> DEFINE c == call[o].item
      <4>1. PICK x : x = call[o].item
        OBVIOUS
      <4>2. call[o].kind = "ASSIGN" /\ Past(x) => Past(x)'
        BY <1>2, <2>3, <4>1
      <4>3. call'[o].item = x
        BY <2>1, <4>1
      <4> QED BY <4>1, <4>2, <4>3, <2>1
    <3> QED BY <1>3, <2>2, <3>1 DEF RequestInv
  <2>6. call[o].kind = "TAKE_OUT" /\ pc[o] \in {"write", "pull"} =>
          /\ Past(local[o].place)'
          /\ \A i \in ToSet(items)' : local[o].place \in ToSet(i.places) => i.id = call[o].item
          /\ pc[o] = "pull" => local[o].place \notin Ids(places)'
    BY <1>2, <1>4, <1>5, <2>1, <2>2, <2>3 DEF RequestInv
  <2>7. RequestInv(o)'
    BY <2>1, <2>2, <2>4, <2>5, <2>6 DEF RequestInv
  <2>8. ASSUME NEW p \in Ids(places), Unlinked(p, o)
        PROVE  Unlinked(p, o)'
    <3>1. p # NoId
      BY DEF IInv, NamesInv
    <3>2. /\ pc[o] = "failed" /\ call[o].kind = "ASSIGN" /\ p = local[o].place
            => call[o].item \notin Ids(items)'
      BY <2>5, <3>1
    <3> QED BY <2>1, <2>8, <3>2 DEF Unlinked
  <2> QED BY <2>7, <2>8
<1>7. \A o \in Requests \ {r} : \A p : Missing(p, o) => Missing(p, o)'
  BY DEF Moves, Missing
<1> QED BY <1>6, <1>7

\* What remains to be said of a step of one request.
LEMMA StepInv ==
  ASSUME TypeInv, TypeInv', IInv, NEW r \in Requests, Moves(r), NEW q, q = OwnId(r), NEW id,
         ItemsChange(id, q), PlacesChange(q), RequestInv(r)',
         \A i \in ToSet(items)' : i.id = id => Past(id)',
         \A i \in ToSet(items)' : q \in ToSet(i.places) => Past(q)',
         \A p : p \in Named' /\ p \notin Ids(places)' =>
           \/ p \in Named /\ p \notin Ids(places) /\ ~Missing(p, r)
           \/ Missing(p, r)',
         \A p : p \in Ids(places)' /\ p \notin Named' =>
           \/ p \in Ids(places) /\ p \notin Named /\ ~Unlinked(p, r)
           \/ Unlinked(p, r)'
  PROVE  IInv'
<1>1. /\ \A o \in Requests \ {r} : RequestInv(o)'
      /\ \A o \in Requests \ {r} : \A p : Missing(p, o) => Missing(p, o)'
      /\ \A o \in Requests \ {r} : \A p \in Ids(places) : Unlinked(p, o) => Unlinked(p, o)'
  BY OthersStay
<1>2. \A o \in Requests : RequestInv(o)'
  BY <1>1
<1>3. ~Past(q) /\ q \in Id /\ q # NoId
  <2>1. local[r].line \in Nat
    BY DocumentTypes
  <2>2. q # NoId
    BY <2>1, OwnIds DEF OwnId
  <2> QED BY <2>2, OwnIsNotPast, DocumentTypes DEF Moves, Finished
<1>4. \A c \in Id : Past(c) => Past(c)'
  BY PastStays
<1>5. NamesInv'
  <2>1. ASSUME NEW i \in ToSet(items)' PROVE Past(i.id)' /\ \A p \in ToSet(i.places) : Past(p)'
    <3>1. CASE i.id # id
      <4>1. i \in ToSet(items)
        BY <3>1 DEF ItemsChange
      <4>2. /\ Past(i.id) /\ i.id \in Id
            /\ \A p \in ToSet(i.places) : p \in Id /\ Past(p)
        BY <4>1, DocumentTypes DEF IInv, NamesInv
      <4> QED BY <1>4, <4>2
    <3>2. CASE i.id = id
      <4>1. ASSUME NEW p \in ToSet(i.places) PROVE Past(p)'
        <5>1. p = q \/ \E j \in ToSet(items) : p \in ToSet(j.places)
          BY <3>2 DEF ItemsChange
        <5>2. CASE p = q
          BY <5>2, <4>1
        <5>3. CASE \E j \in ToSet(items) : p \in ToSet(j.places)
          <6>1. p \in Id /\ Past(p)
            BY <5>3, DocumentTypes DEF IInv, NamesInv
          <6> QED BY <1>4, <6>1
        <5> QED BY <5>1, <5>2, <5>3
      <4> QED BY <3>2, <4>1
    <3> QED BY <3>1, <3>2
  <2>2. ASSUME NEW i \in ToSet(items)', NEW j \in ToSet(items)', NEW p, i.id = id, j.id # id,
               p \in ToSet(i.places), p \in ToSet(j.places)
        PROVE  FALSE
    <3>1. j \in ToSet(items)
      BY <2>2 DEF ItemsChange
    <3>2. p # q
      BY <1>3, <2>2, <3>1 DEF IInv, NamesInv
    <3>3. PICK k \in ToSet(items) : k.id = id /\ p \in ToSet(k.places)
      BY <2>2, <3>2 DEF ItemsChange
    <3>4. k = j
      BY <2>2, <3>1, <3>3 DEF IInv, NamesInv
    <3> QED BY <2>2, <3>3, <3>4
  <2>3. ASSUME NEW i \in ToSet(items)', NEW j \in ToSet(items)',
               i.id = j.id \/ ToSet(i.places) \intersect ToSet(j.places) # {}
        PROVE  i = j
    <3>1. CASE i.id = id /\ j.id = id
      BY <3>1 DEF ItemsChange
    <3>2. CASE i.id # id /\ j.id # id
      <4>1. i \in ToSet(items) /\ j \in ToSet(items)
        BY <3>2 DEF ItemsChange
      <4> QED BY <2>3, <4>1 DEF IInv, NamesInv
    <3>3. CASE i.id = id /\ j.id # id
      BY <2>2, <2>3, <3>3
    <3>4. CASE i.id # id /\ j.id = id
      BY <2>2, <2>3, <3>4
    <3> QED BY <3>1, <3>2, <3>3, <3>4
  <2>4. NoId \notin Ids(places)'
    BY <1>3 DEF IInv, NamesInv, PlacesChange
  <2> QED BY <2>1, <2>3, <2>4 DEF NamesInv
<1>6. NamedPlacesExist'
  <2>1. NamedPlacesExist' <=> \A p \in (Named \ Ids(places))' : \E o \in Requests : Missing(p, o)'
    BY DEF NamedPlacesExist, Missing
  <2>2. ASSUME NEW p, p \in Named', p \notin Ids(places)'
        PROVE  \E o \in Requests : Missing(p, o)'
    <3>1. CASE Missing(p, r)'
      BY <3>1
    <3>2. CASE p \in Named /\ p \notin Ids(places) /\ ~Missing(p, r)
      <4>1. PICK o \in Requests : Missing(p, o)
        BY <3>2, Explained DEF IInv, PlacesAndItemsAgree
      <4> QED BY <1>1, <3>2, <4>1
    <3> QED BY <2>2, <3>1, <3>2
  <2> QED BY <2>1, <2>2
<1>7. UnnamedPlacesAreExplained'
  <2>1. UnnamedPlacesAreExplained' <=>
          \A p \in (Ids(places) \ Named)' : \E o \in Requests : Unlinked(p, o)'
    BY DEF UnnamedPlacesAreExplained, Unlinked
  <2>2. ASSUME NEW p, p \in Ids(places)', p \notin Named'
        PROVE  \E o \in Requests : Unlinked(p, o)'
    <3>1. CASE Unlinked(p, r)'
      BY <3>1
    <3>2. CASE p \in Ids(places) /\ p \notin Named /\ ~Unlinked(p, r)
      <4>1. PICK o \in Requests : Unlinked(p, o)
        BY <3>2, Explained DEF IInv, PlacesAndItemsAgree
      <4> QED BY <1>1, <3>2, <4>1
    <3> QED BY <2>2, <3>1, <3>2
  <2> QED BY <2>1, <2>2
<1> QED BY <1>2, <1>5, <1>6, <1>7 DEF IInv, PlacesAndItemsAgree

LEMMA QuietStep ==
  ASSUME TypeInv, TypeInv', IInv, NEW r \in Requests, Moves(r), UNCHANGED items,
         Ids(places)' = Ids(places), RequestInv(r)',
         \A p \in Named : Missing(p, r) => Missing(p, r)',
         \A p \in Ids(places) : Unlinked(p, r) => Unlinked(p, r)'
  PROVE  IInv'
<1>1. PICK q : q = OwnId(r)
  OBVIOUS
<1>2. ~Past(q)
  BY <1>1, OwnIsNotPast DEF Moves, Finished
<1>3. ToSet(items)' = ToSet(items) /\ Named' = Named
  BY DEF Named
<1>4. \A i \in ToSet(items) : i.id # q /\ q \notin ToSet(i.places)
  BY <1>2 DEF IInv, NamesInv
<1>5. ItemsChange(q, q)
  BY <1>2, <1>3, <1>4 DEF ItemsChange
<1>6. PlacesChange(q)
  BY DEF PlacesChange
<1> QED BY <1>1, <1>3, <1>4, <1>5, <1>6, StepInv

LEMMA MoveStep ==
  ASSUME TypeInv, TypeInv', IInv, NEW r \in Requests, NEW at \in Ahead, Move(r, at),
         pc[r] \notin Finished, at \notin {"categories", "push", "pull"},
         at = "write" => call[r].kind # "TAKE_OUT",
         call[r].kind = "ASSIGN" =>
           /\ at = "place" => Past(call[r].item)
           /\ at = "failed" =>
                \/ local[r].place = NoId
                \/ pc[r] = "push" /\ call[r].item \notin Ids(items),
         pc[r] = "pull" => local[r].place \notin Named,
         pc[r] \in {"categories", "push"} => at = "failed",
         pc[r] # "item"
  PROVE  IInv'
<1>1. /\ pc' = [pc EXCEPT ![r] = at] /\ pc'[r] = at
      /\ UNCHANGED <<items, places, call, local>>
  BY DEF Move, Goto, documents, TypeInv, TypeOK
<1>2. Moves(r)
  <2>1. local[r].line \in Nat
    BY DocumentTypes
  <2> QED BY <1>1, <2>1 DEF Moves, Goto, TypeInv, TypeOK
<1>3. at \notin {"idle", "find", "item"}
  BY DEF Ahead
<1>4. RequestInv(r)
  BY DEF IInv
<1>5. call[r].kind = "ASSIGN" => call[r].item \in Id
  BY CallTypes DEF TypeInv
<1>6. call[r].kind = "ASSIGN" /\ Past(call[r].item) => Past(call[r].item)'
  <2>1. PICK c : c = call[r].item
    OBVIOUS
  <2>2. call[r].kind = "ASSIGN" /\ Past(c) => Past(c)'
    BY <1>2, <1>5, <2>1, PastStays
  <2> QED BY <1>1, <2>1, <2>2
<1>7. RequestInv(r)'
  BY <1>1, <1>3, <1>4, <1>6 DEF RequestInv, Ids
<1>8. Ids(places)' = Ids(places)
  BY <1>1 DEF Ids
<1>9. ASSUME NEW p \in Ids(places), Unlinked(p, r) PROVE Unlinked(p, r)'
  <2>1. UNCHANGED <<call, local>> /\ Ids(items)' = Ids(items)
    BY <1>1 DEF Ids
  <2>2. CASE p \in local[r].left
    BY <2>1, <2>2 DEF Unlinked
  <2>3. CASE p = local[r].place /\ pc[r] = "categories"
    BY <1>1, <1>4, <2>1, <2>3 DEF Unlinked, RequestInv
  <2>4. CASE p = local[r].place /\ pc[r] = "push"
    <3>1. call[r].kind = "ASSIGN" /\ at = "failed" /\ p # NoId
      BY <1>4, <2>4 DEF RequestInv, IInv, NamesInv
    <3> QED BY <1>1, <2>1, <2>4, <3>1 DEF Unlinked
  <2> QED BY <1>9, <2>2, <2>3, <2>4 DEF Unlinked, Finished
<1>10. ASSUME NEW p \in Named, Missing(p, r) PROVE Missing(p, r)'
  <2>1. pc[r] = "pull" /\ p = local[r].place
    BY <1>10 DEF Missing, Finished
  <2> QED BY <2>1
<1> QED BY <1>1, <1>2, <1>7, <1>8, <1>9, <1>10, QuietStep

\* The request whose variables are assigned is the one that moves.
LEMMA MovesTo ==
  ASSUME TypeInv, NEW r \in Requests, NEW at, Goto(r, at), pc[r] \notin Finished, UNCHANGED call,
         \/ UNCHANGED local
         \/ \E id : local' = [local EXCEPT ![r].place = id]
         \/ \E left : local' = [local EXCEPT ![r].left = left]
         \/ \E line \in Nat : line >= local[r].line /\ local' = [local EXCEPT ![r].line = line]
  PROVE  Moves(r) /\ pc'[r] = at
<1>1. /\ pc' = [pc EXCEPT ![r] = at] /\ pc \in [Requests -> Stage]
      /\ local \in [Requests -> Local] /\ local[r] \in Local /\ local[r].line \in Nat
  BY DEF Goto, TypeInv, TypeOK, Local
<1>2. \A o \in Requests \ {r} : local'[o] = local[o]
  BY <1>1
<1>3. local'[r].line >= local[r].line
  <2>1. ASSUME NEW id, local' = [local EXCEPT ![r].place = id] PROVE local'[r].line = local[r].line
    BY <1>1, <2>1 DEF Local
  <2>2. ASSUME NEW left, local' = [local EXCEPT ![r].left = left] PROVE local'[r].line = local[r].line
    BY <1>1, <2>2 DEF Local
  <2>3. ASSUME NEW line \in Nat, line >= local[r].line, local' = [local EXCEPT ![r].line = line]
        PROVE  local'[r].line >= local[r].line
    BY <1>1, <2>3 DEF Local
  <2>4. CASE UNCHANGED local
    BY <1>1, <2>4
  <2> QED BY <1>1, <2>1, <2>2, <2>3, <2>4
<1> QED BY <1>1, <1>2, <1>3 DEF Moves

LEMMA LocalIs ==
  ASSUME TypeInv, NEW r \in Requests
  PROVE  /\ \A id : local' = [local EXCEPT ![r].place = id] =>
              /\ local'[r].place = id /\ local'[r].left = local[r].left
              /\ local'[r].line = local[r].line
         /\ \A left : local' = [local EXCEPT ![r].left = left] =>
              /\ local'[r].left = left /\ local'[r].place = local[r].place
              /\ local'[r].line = local[r].line
         /\ \A line : local' = [local EXCEPT ![r].line = line] =>
              /\ local'[r].line = line /\ local'[r].place = local[r].place
              /\ local'[r].left = local[r].left
BY DEF TypeInv, TypeOK, Local

LEMMA LineStep ==
  ASSUME TypeInv, TypeInv', IInv, NEW r \in Requests, UNCHANGED <<items, places, pc, call>>,
         pc[r] \in {"categories", "row"}, local' = [local EXCEPT ![r].line = @ + 1]
  PROVE  IInv'
<1> DEFINE line == local[r].line + 1
<1>1. local[r].line \in Nat /\ line \in Nat /\ line >= local[r].line
      /\ local' = [local EXCEPT ![r].line = line]
  BY DocumentTypes
<1> HIDE DEF line
<1>2. Goto(r, pc[r]) /\ pc[r] \notin Finished
  BY DEF Goto, TypeInv, TypeOK, Finished
<1>3. Moves(r)
  <2>1. \E l \in Nat : l >= local[r].line /\ local' = [local EXCEPT ![r].line = l]
    BY <1>1
  <2> QED BY <1>2, <2>1, MovesTo
<1>4. /\ local'[r].place = local[r].place /\ local'[r].left = local[r].left
      /\ pc'[r] = pc[r] /\ call'[r] = call[r]
  BY <1>1, LocalIs
<1>5. Ids(places)' = Ids(places) /\ Ids(items)' = Ids(items)
  BY DEF Ids
<1>6. RequestInv(r)'
  BY <1>4, <1>5 DEF IInv, RequestInv, OwnId
<1>7. \A p : /\ Missing(p, r) => Missing(p, r)'
             /\ Unlinked(p, r) => Unlinked(p, r)'
  BY <1>4, <1>5 DEF Missing, Unlinked
<1> QED BY <1>3, <1>5, <1>6, <1>7, QuietStep

LEMMA SelectStep ==
  ASSUME TypeInv, TypeInv', IInv, NEW r \in Requests, SelectPlace(r),
         PlacesIn(call[r].item, call[r].warehouse) # <<>>
  PROVE  IInv'
<1>1. PICK p : p = Head(PlacesIn(call[r].item, call[r].warehouse))
  OBVIOUS
<1>2. p \in Id /\ \E i \in ToSet(items) : i.id = call[r].item /\ p \in ToSet(i.places)
  BY <1>1, PlacesInAre
<1>3. /\ pc[r] = "find" /\ call[r].kind \in {"TAKE_OUT", "EDIT_PLACE"} /\ Goto(r, "write")
      /\ local' = [local EXCEPT ![r].place = p] /\ UNCHANGED <<items, places, call>>
  BY <1>1 DEF SelectPlace, Serves, documents
<1>4. Moves(r) /\ pc'[r] = "write"
  BY <1>3, MovesTo DEF Finished
<1>5. local'[r].place = p /\ local'[r].left = local[r].left
  BY <1>3, LocalIs
<1>6. Past(p) /\ \A i \in ToSet(items) : p \in ToSet(i.places) => i.id = call[r].item
  BY <1>2 DEF IInv, NamesInv
<1>7. Past(p)'
  BY <1>2, <1>4, <1>6, PastStays
<1>8. RequestInv(r)'
  BY <1>3, <1>4, <1>5, <1>6, <1>7 DEF RequestInv
<1>9. \A o : ~Missing(o, r) /\ ~Unlinked(o, r)
  <2>1. local[r].left = {}
    BY <1>3 DEF TypeInv, LineOK, NoLocal
  <2> QED BY <1>3, <2>1 DEF Missing, Unlinked
<1>10. Ids(places)' = Ids(places) /\ UNCHANGED items
  BY <1>3 DEF Ids
<1> QED BY <1>4, <1>8, <1>9, <1>10, QuietStep

LEMMA EditPlaceStep ==
  ASSUME TypeInv, TypeInv', IInv, NEW r \in Requests, EditPlaceWrite(r)
  PROVE  IInv'
<1>1. pc[r] = "write" /\ call[r].kind = "EDIT_PLACE" /\ Goto(r, "done") /\ UNCHANGED <<items, call, local>>
  BY DEF EditPlaceWrite, Serves
<1>2. Moves(r) /\ pc'[r] = "done"
  BY <1>1, MovesTo DEF Finished
<1>3. Ids(places)' = Ids(places)
  <2>1. CASE local[r].place \in Ids(places)
    <3> DEFINE was == TheOne(places, local[r].place)
               p == [was EXCEPT !.point = call[r].point]
    <3>1. places' = Updated(places, p)
      BY <2>1 DEF EditPlaceWrite
    <3>2. was \in Place
      BY <2>1, TheOneIs, ToSetType DEF TypeInv, TypeOK
    <3>3. call[r].point \in Points
      BY <1>1, CallTypes DEF TypeInv
    <3> HIDE DEF was
    <3>4. p \in Place
      BY <3>2, <3>3 DEF Place
    <3> HIDE DEF p
    <3>5. Ids(Updated(places, p)) = Ids(places)
      BY <3>4, ToSetUpdated DEF TypeInv, TypeOK
    <3> QED BY <3>1, <3>5 DEF Ids
  <2>2. CASE local[r].place \notin Ids(places)
    BY <2>2 DEF EditPlaceWrite, Ids
  <2> QED BY <2>1, <2>2
<1>4. RequestInv(r)'
  BY <1>1, <1>2 DEF RequestInv
<1>5. \A p : /\ ~Missing(p, r)
             /\ Unlinked(p, r) => Unlinked(p, r)'
  BY <1>1 DEF Missing, Unlinked
<1> QED BY <1>1, <1>2, <1>3, <1>4, <1>5, QuietStep

LEMMA CreatePlaceStep ==
  ASSUME TypeInv, TypeInv', IInv, NEW r \in Requests, NEW at, NEW point, NEW q, q = OwnId(r),
         CreatePlace(r, q, point, at), point \in Points \union {NoPoint},
         \/ pc[r] = "place" /\ call[r].kind = "CREATE" /\ at = "categories"
         \/ pc[r] = "place" /\ call[r].kind = "ASSIGN" /\ at = "push"
         \/ pc[r] = "row" /\ call[r].kind = "IMPORT" /\ at = "item"
  PROVE  IInv'
<1> DEFINE d == [id |-> q, warehouse |-> call[r].warehouse, qty |-> 0, point |-> point]
<1>1. /\ places' = Append(places, d) /\ local' = [local EXCEPT ![r].place = q] /\ Goto(r, at)
      /\ UNCHANGED <<items, call>>
  BY DEF CreatePlace
<1>2. q \in Id
  BY DocumentTypes
<1>3. d \in Place /\ d.id = q
  BY <1>2, CallTypes DEF TypeInv, Place
<1> HIDE DEF d
<1>4. Ids(places)' = Ids(places) \union {q}
  <2>1. ToSet(places') = ToSet(places) \union {d}
    BY <1>1, <1>3, ToSetAppend DEF TypeInv, TypeOK
  <2> QED BY <1>3, <2>1 DEF Ids
<1>5. Moves(r) /\ pc'[r] = at
  BY <1>1, MovesTo DEF Finished
<1>6. /\ local'[r].place = q /\ local'[r].left = local[r].left /\ local'[r].line = local[r].line
      /\ call'[r] = call[r] /\ OwnId(r)' = q
  <2>1. /\ local'[r].place = q /\ local'[r].left = local[r].left
        /\ local'[r].line = local[r].line /\ call'[r] = call[r]
    BY <1>1, LocalIs
  <2>2. OwnId(r)' = q
    BY <2>1 DEF OwnId
  <2> QED BY <2>1, <2>2
<1>7. ~Past(q)
  BY OwnIsNotPast
<1>8. ToSet(items)' = ToSet(items) /\ Named' = Named /\ Ids(items)' = Ids(items)
  BY <1>1 DEF Named, Ids
<1>9. \A i \in ToSet(items) : i.id # q /\ q \notin ToSet(i.places)
  BY <1>7 DEF IInv, NamesInv
<1>10. ItemsChange(q, q)
  BY <1>7, <1>8, <1>9 DEF ItemsChange
<1>11. PlacesChange(q)
  BY <1>4 DEF PlacesChange
<1>12. RequestInv(r)'
  <2>1. at = "push" => Past(call[r].item)'
    <3>1. PICK c : c = call[r].item
      OBVIOUS
    <3>2. at = "push" => c \in Id /\ Past(c)
      BY <3>1, CallTypes DEF IInv, RequestInv, TypeInv
    <3>3. at = "push" => Past(c)'
      BY <1>5, <3>2, PastStays
    <3> QED BY <1>6, <3>1, <3>3
  <2> QED BY <1>4, <1>5, <1>6, <2>1 DEF RequestInv
<1>13. \A p : ~Missing(p, r)
  BY DEF Missing
<1>14. \A p : Unlinked(p, r) => Unlinked(p, r)'
  BY <1>6 DEF Unlinked
<1>15. Unlinked(q, r)'
  BY <1>5, <1>6 DEF Unlinked
<1>16. \A p : p \in Named' /\ p \notin Ids(places)' =>
               \/ p \in Named /\ p \notin Ids(places) /\ ~Missing(p, r)
               \/ Missing(p, r)'
  BY <1>4, <1>8, <1>13
<1>17. \A p : p \in Ids(places)' /\ p \notin Named' =>
               \/ p \in Ids(places) /\ p \notin Named /\ ~Unlinked(p, r)
               \/ Unlinked(p, r)'
  BY <1>4, <1>8, <1>14, <1>15
<1> QED BY <1>5, <1>8, <1>9, <1>10, <1>11, <1>12, <1>16, <1>17, StepInv

LEMMA CreateItemStep ==
  ASSUME TypeInv, TypeInv', IInv, NEW r \in Requests, NEW at, NEW sku \in Skus \union {NoSku},
         NEW line \in Nat \ {0}, NEW q, q = OwnId(r), CreateItem(r, q, sku, line, at),
         \/ /\ pc[r] = "categories" /\ call[r].kind = "CREATE" /\ at = "done"
            /\ line = local[r].line
         \/ /\ pc[r] = "item" /\ call[r].kind = "IMPORT" /\ at = "row"
            /\ line = local[r].line + 1
  PROVE  IInv'
<1> DEFINE new == [id |-> q, sku |-> sku, places |-> <<local[r].place>>]
<1>1. /\ items' = Append(items, new) /\ local' = [local EXCEPT ![r].line = line] /\ Goto(r, at)
      /\ UNCHANGED <<places, call>>
  BY DEF CreateItem
<1>2. q \in Id /\ local[r].place \in Id /\ local[r].line \in Nat
  BY DocumentTypes
<1>3. local[r].place = q /\ q \in Ids(places)
  BY DEF IInv, RequestInv
<1>4. new \in Item /\ new.id = q /\ ToSet(new.places) = {q}
  <2>1. new.places = <<q>> /\ <<q>> \in Seq(Id) /\ DOMAIN <<q>> = {1} /\ <<q>>[1] = q
    BY <1>2, <1>3
  <2>2. ToSet(<<q>>) = {q}
    BY <2>1 DEF ToSet
  <2> QED BY <1>2, <2>1, <2>2 DEF Item
<1> HIDE DEF new
<1>5. ToSet(items)' = ToSet(items) \union {new}
  BY <1>1, <1>4, ToSetAppend DEF TypeInv, TypeOK
<1>6. Moves(r) /\ pc'[r] = at
  <2>1. line \in Nat /\ line >= local[r].line
    BY <1>2
  <2>2. \E l \in Nat : l >= local[r].line /\ local' = [local EXCEPT ![r].line = l]
    BY <1>1, <2>1
  <2> QED BY <1>1, <2>2, MovesTo DEF Finished
<1>7. /\ local'[r].place = local[r].place /\ local'[r].left = local[r].left
      /\ local'[r].line = line
  BY <1>1, LocalIs
<1>8. ~Past(q)
  BY OwnIsNotPast
<1>9. Past(q)'
  BY <1>6, <1>7, OwnIsPast
<1>10. \A i \in ToSet(items) : i.id # q /\ q \notin ToSet(i.places)
  BY <1>8 DEF IInv, NamesInv
<1>11. ItemsChange(q, q)
  <2>1. \A i \in ToSet(items)' : i.id = q => i = new
    BY <1>5, <1>10
  <2> QED BY <1>4, <1>5, <1>8, <2>1 DEF ItemsChange
<1>12. Ids(places)' = Ids(places)
  BY <1>1 DEF Ids
<1>13. PlacesChange(q)
  BY <1>12 DEF PlacesChange
<1>14. \A p : p \in Named' <=> p \in Named \/ p = q
  BY <1>4, <1>5 DEF Named
<1>15. RequestInv(r)'
  BY <1>1, <1>6 DEF RequestInv
<1>16. \A p : p \in Named' /\ p \notin Ids(places)' =>
               \/ p \in Named /\ p \notin Ids(places) /\ ~Missing(p, r)
               \/ Missing(p, r)'
  BY <1>3, <1>12, <1>14 DEF Missing
<1>17. \A p : p # q /\ Unlinked(p, r) => Unlinked(p, r)'
  BY <1>3, <1>7 DEF Unlinked
<1>18. \A p : p \in Ids(places)' /\ p \notin Named' =>
               \/ p \in Ids(places) /\ p \notin Named /\ ~Unlinked(p, r)
               \/ Unlinked(p, r)'
  BY <1>12, <1>14, <1>17
<1> QED BY <1>6, <1>9, <1>11, <1>13, <1>15, <1>16, <1>18, StepInv

LEMMA RewriteStep ==
  ASSUME TypeInv, TypeInv', IInv, NEW r \in Requests, NEW q, q = OwnId(r),
         NEW at \in {"done", "answer"}, NEW i \in Item, WriteItem(r, i, at),
         NEW id, id = call[r].item, id \in Ids(items), i.id = id,
         pc[r] \in {"push", "pull", "write"},
         pc[r] = "push" => call[r].kind = "ASSIGN" /\ at = "done"
                           /\ ToSet(i.places) = ToSet(ItsItem(r).places) \union {q},
         pc[r] = "pull" => ToSet(i.places) = ToSet(ItsItem(r).places) \ {local[r].place},
         pc[r] = "write" => ToSet(i.places) = ToSet(ItsItem(r).places)
  PROVE  IInv'
<1>1. /\ items' = Updated(items, i) /\ Goto(r, at) /\ UNCHANGED <<places, call, local>>
  BY DEF WriteItem
<1>2. Moves(r) /\ pc'[r] = at
  BY <1>1, MovesTo DEF Finished
<1>3. ToSet(items)' = {o \in ToSet(items) : o.id # id} \union {i}
  BY <1>1, ToSetUpdated DEF TypeInv, TypeOK
<1>4. PICK was : was = ItsItem(r)
  OBVIOUS
<1>5. was \in ToSet(items) /\ was.id = id
  BY <1>4, ItsItemType
<1>6. \A o \in ToSet(items) : o.id = id => o = was
  BY <1>5 DEF IInv, NamesInv
<1>7. Past(id) /\ id \in Id /\ Past(id)'
  <2>1. Past(id) /\ id \in Id
    BY <1>5, DocumentTypes DEF IInv, NamesInv
  <2> QED BY <1>2, <2>1, PastStays
<1>8. ~Past(q)
  BY OwnIsNotPast
<1>9. \A o \in ToSet(items) : q \notin ToSet(o.places)
  BY <1>8 DEF IInv, NamesInv
<1>10. ItemsChange(id, q)
  <2>1. \A p \in ToSet(i.places) : p = q \/ p \in ToSet(was.places)
    BY <1>4
  <2>2. \A o \in ToSet(items)' : o.id = id => o = i
    BY <1>3
  <2> QED BY <1>3, <1>5, <2>1, <2>2 DEF ItemsChange
<1>11. Ids(places)' = Ids(places)
  BY <1>1 DEF Ids
<1>12. PlacesChange(q)
  BY <1>11 DEF PlacesChange
<1>13. RequestInv(r)
  BY DEF IInv
<1>14. RequestInv(r)'
  BY <1>1, <1>2, <1>13 DEF RequestInv
<1>15. pc[r] = "push" => local[r].place = q /\ q \in Ids(places) /\ Past(q)'
  <2>1. pc[r] = "push" => Past(q)'
    BY <1>2, OwnIsPast
  <2> QED BY <1>13, <2>1 DEF RequestInv
<1>16. ASSUME NEW o \in ToSet(items)', q \in ToSet(o.places) PROVE Past(q)'
  <2>1. o = i
    BY <1>3, <1>9, <1>16
  <2>2. q \notin ToSet(was.places)
    BY <1>5, <1>9
  <2> QED BY <1>4, <1>15, <1>16, <2>1, <2>2
<1>17. \A p : p \in Named' <=>
         (\E o \in ToSet(items) : o.id # id /\ p \in ToSet(o.places)) \/ p \in ToSet(i.places)
  BY <1>3 DEF Named
<1>18. \A p : p \in Named <=>
         (\E o \in ToSet(items) : o.id # id /\ p \in ToSet(o.places)) \/ p \in ToSet(was.places)
  BY <1>5, <1>6 DEF Named
<1>19. pc[r] = "pull" =>
         /\ local[r].place \notin Ids(places) /\ local[r].place \notin Named'
  <2>1. pc[r] = "pull" =>
          /\ local[r].place \notin Ids(places)
          /\ \A o \in ToSet(items) : local[r].place \in ToSet(o.places) => o.id = id
    BY <1>13 DEF RequestInv
  <2> QED BY <1>17, <2>1
<1>20. ASSUME NEW p, p \in Named', p \notin Ids(places)'
       PROVE  p \in Named /\ p \notin Ids(places) /\ ~Missing(p, r)
  <2>1. p \in Named
    BY <1>4, <1>11, <1>15, <1>17, <1>18, <1>20
  <2>2. ~Missing(p, r)
    BY <1>19, <1>20 DEF Missing
  <2> QED BY <1>11, <1>20, <2>1, <2>2
<1>21. ASSUME NEW p, p \in Ids(places)', p \notin Named'
       PROVE  \/ p \in Ids(places) /\ p \notin Named /\ ~Unlinked(p, r)
              \/ Unlinked(p, r)'
  <2>1. p \in Ids(places) /\ p \notin Named
    BY <1>4, <1>11, <1>17, <1>18, <1>19, <1>21
  <2>2. ASSUME Unlinked(p, r) PROVE Unlinked(p, r)'
    <3>1. pc[r] = "push" => p # local[r].place
      BY <1>15, <1>17, <1>21
    <3>2. p \in local[r].left
      BY <2>2, <3>1 DEF Unlinked
    <3> QED BY <1>1, <3>2 DEF Unlinked
  <2> QED BY <2>1, <2>2
<1> QED BY <1>2, <1>7, <1>10, <1>12, <1>14, <1>16, <1>20, <1>21, StepInv

LEMMA RemoveStep ==
  ASSUME TypeInv, TypeInv', IInv, NEW r \in Requests, RemoveItem(r), call[r].item \in Ids(items)
  PROVE  IInv'
<1>1. PICK id : id = call[r].item
  OBVIOUS
<1>2. PICK was : was = ItsItem(r)
  OBVIOUS
<1>3. PICK q : q = OwnId(r)
  OBVIOUS
<1>4. PICK left : left = ToSet(was.places)
  OBVIOUS
<1>5. /\ pc[r] = "find" /\ call[r].kind = "REMOVE"
      /\ items' = Without(items, id) /\ local' = [local EXCEPT ![r].left = left]
      /\ Goto(r, "done") /\ UNCHANGED <<places, call>>
  BY <1>1, <1>2, <1>4 DEF RemoveItem, Serves
<1>6. Moves(r) /\ pc'[r] = "done"
  BY <1>5, MovesTo DEF Finished
<1>7. ToSet(items)' = {o \in ToSet(items) : o.id # id}
  BY <1>5, ToSetWithout DEF TypeInv, TypeOK
<1>8. was \in ToSet(items) /\ was.id = id /\ \A o \in ToSet(items) : o.id = id => o = was
  <2>1. was \in ToSet(items) /\ was.id = id
    BY <1>1, <1>2, ItsItemType
  <2> QED BY <2>1 DEF IInv, NamesInv
<1>9. ~Past(q) /\ \A o \in ToSet(items) : q \notin ToSet(o.places)
  <2>1. ~Past(q)
    BY <1>3, <1>5, OwnIsNotPast
  <2> QED BY <2>1 DEF IInv, NamesInv
<1>10. ItemsChange(id, q)
  BY <1>1, <1>7 DEF ItemsChange
<1>11. Ids(places)' = Ids(places)
  BY <1>5 DEF Ids
<1>12. PlacesChange(q)
  BY <1>11 DEF PlacesChange
<1>13. RequestInv(r)'
  BY <1>5, <1>6 DEF RequestInv
<1>14. local[r].left = {} /\ local'[r].left = left
  <2>1. local[r] = NoLocal
    BY <1>5 DEF TypeInv, LineOK
  <2>2. local'[r].left = left
    BY <1>5, LocalIs
  <2> QED BY <2>1, <2>2 DEF NoLocal
<1>15. \A p : ~Missing(p, r) /\ ~Unlinked(p, r)
  BY <1>5, <1>14 DEF Missing, Unlinked
<1>16. \A p : p \in Named' => p \in Named
  BY <1>7 DEF Named
<1>17. \A p : p \in Named => p \in Named' \/ p \in left
  BY <1>4, <1>7, <1>8 DEF Named
<1>18. \A p \in left : Unlinked(p, r)'
  BY <1>14 DEF Unlinked
<1>19. /\ \A i \in ToSet(items)' : i.id = id => Past(id)'
       /\ \A i \in ToSet(items)' : q \in ToSet(i.places) => Past(q)'
  BY <1>7, <1>9
<1>20. \A p : p \in Named' /\ p \notin Ids(places)' =>
               \/ p \in Named /\ p \notin Ids(places) /\ ~Missing(p, r)
               \/ Missing(p, r)'
  BY <1>11, <1>15, <1>16
<1>21. \A p : p \in Ids(places)' /\ p \notin Named' =>
               \/ p \in Ids(places) /\ p \notin Named /\ ~Unlinked(p, r)
               \/ Unlinked(p, r)'
  BY <1>11, <1>15, <1>17, <1>18
<1> QED BY <1>3, <1>6, <1>10, <1>12, <1>13, <1>19, <1>20, <1>21, StepInv

LEMMA DeleteStep ==
  ASSUME TypeInv, TypeInv', IInv, NEW r \in Requests, TakeOutDelete(r)
  PROVE  IInv'
<1>1. PICK q : q = OwnId(r)
  OBVIOUS
<1>2. PICK gone : gone = local[r].place
  OBVIOUS
<1>3. /\ pc[r] = "write" /\ call[r].kind = "TAKE_OUT" /\ places' = Without(places, gone)
      /\ Goto(r, "pull") /\ UNCHANGED <<items, call, local>>
  BY <1>2 DEF TakeOutDelete, Serves
<1>4. Moves(r) /\ pc'[r] = "pull"
  BY <1>3, MovesTo DEF Finished
<1>5. Ids(places)' = Ids(places) \ {gone}
  <2>1. ToSet(places)' = {d \in ToSet(places) : d.id # gone}
    BY <1>3, ToSetWithout DEF TypeInv, TypeOK
  <2> QED BY <2>1 DEF Ids
<1>6. /\ Past(gone) /\ \A i \in ToSet(items) : gone \in ToSet(i.places) => i.id = call[r].item
  BY <1>2, <1>3 DEF IInv, RequestInv
<1>7. Past(gone)'
  <2>1. gone \in Id
    BY <1>2, DocumentTypes
  <2> QED BY <1>4, <1>6, <2>1, PastStays
<1>8. ToSet(items)' = ToSet(items) /\ Named' = Named
  BY <1>3 DEF Named
<1>9. ~Past(q) /\ \A i \in ToSet(items) : i.id # q /\ q \notin ToSet(i.places)
  <2>1. ~Past(q)
    BY <1>1, <1>3, OwnIsNotPast
  <2> QED BY <2>1 DEF IInv, NamesInv
<1>10. ItemsChange(q, q)
  BY <1>8, <1>9 DEF ItemsChange
<1>11. PlacesChange(q)
  BY <1>5, <1>6 DEF PlacesChange
<1>12. RequestInv(r)'
  BY <1>2, <1>3, <1>4, <1>5, <1>6, <1>7, <1>8 DEF RequestInv
<1>13. Missing(gone, r)' /\ \A p : ~Missing(p, r)
  BY <1>2, <1>3, <1>4 DEF Missing
<1>14. \A p : Unlinked(p, r) => Unlinked(p, r)'
  BY <1>3 DEF Unlinked
<1>15. \A p : p \in Named' /\ p \notin Ids(places)' =>
               \/ p \in Named /\ p \notin Ids(places) /\ ~Missing(p, r)
               \/ Missing(p, r)'
  BY <1>5, <1>8, <1>13
<1>16. \A p : p \in Ids(places)' /\ p \notin Named' =>
               \/ p \in Ids(places) /\ p \notin Named /\ ~Unlinked(p, r)
               \/ Unlinked(p, r)'
  BY <1>5, <1>8, <1>14
<1> QED BY <1>1, <1>4, <1>8, <1>9, <1>10, <1>11, <1>12, <1>15, <1>16, StepInv

-----------------------------------------------------------------------------
(* Items and places agree *)

LEMMA ExitInv ==
  ASSUME TypeInv, TypeInv', IInv, Exit
  PROVE  IInv'
<1>1. /\ UNCHANGED <<items, places, call, local>>
      /\ \A r \in Requests : pc'[r] = IF Working(r) THEN "lost" ELSE pc[r]
  BY DEF Exit, documents
<1>2. \A r \in Requests : pc'[r] = pc[r] \/ (pc'[r] = "lost" /\ pc[r] \notin Finished)
  BY <1>1 DEF Working
<1>3. /\ ToSet(items)' = ToSet(items) /\ Ids(items)' = Ids(items)
      /\ Ids(places)' = Ids(places) /\ Named' = Named
  BY <1>1 DEF Ids, Named
<1>4. ASSUME NEW c, Past(c) PROVE Past(c)'
  BY <1>1, <1>2, <1>4 DEF Past, Finished
<1>5. NamesInv'
  BY <1>3, <1>4 DEF IInv, NamesInv
<1>6. ASSUME NEW r \in Requests PROVE RequestInv(r)'
  <2>1. RequestInv(r) /\ OwnId(r)' = OwnId(r)
    BY <1>1 DEF IInv, OwnId
  <2>2. CASE pc'[r] = "lost"
    BY <2>2 DEF RequestInv
  <2>3. CASE pc'[r] = pc[r]
    <3>1. PICK c : c = call[r].item
      OBVIOUS
    <3>2. PICK p : p = local[r].place
      OBVIOUS
    <3>3. (Past(c) => Past(c)') /\ (Past(p) => Past(p)') /\ call'[r].item = c /\ local'[r].place = p
      BY <1>1, <1>4, <3>1, <3>2
    <3> QED BY <1>1, <1>3, <2>1, <2>3, <3>1, <3>2, <3>3 DEF RequestInv
  <2> QED BY <1>2, <2>2, <2>3
<1>7. ASSUME NEW r \in Requests, NEW p
      PROVE  /\ Missing(p, r) => Missing(p, r)'
             /\ Unlinked(p, r) => Unlinked(p, r)'
  BY <1>1, <1>2, <1>3 DEF Missing, Unlinked, Finished
<1>8. NamedPlacesExist' <=> \A p \in (Named \ Ids(places))' : \E r \in Requests : Missing(p, r)'
  BY DEF NamedPlacesExist, Missing
<1>9. UnnamedPlacesAreExplained' <=>
        \A p \in (Ids(places) \ Named)' : \E r \in Requests : Unlinked(p, r)'
  BY DEF UnnamedPlacesAreExplained, Unlinked
<1>10. PlacesAndItemsAgree'
  BY <1>3, <1>7, <1>8, <1>9, Explained DEF IInv, PlacesAndItemsAgree
<1> QED BY <1>5, <1>6, <1>10 DEF IInv

LEMMA ArriveInv ==
  ASSUME TypeInv, TypeInv', IInv, NEW r \in Requests, Arrive(r)
  PROVE  IInv'
<1>1. /\ pc[r] = "idle" /\ Goto(r, "find") /\ UNCHANGED <<items, places, local>>
      /\ \A o \in Requests \ {r} : call'[o] = call[o]
  BY DEF Arrive, documents, TypeInv, TypeOK
<1>2. /\ pc'[r] = "find" /\ \A o \in Requests \ {r} : pc'[o] = pc[o]
  BY <1>1 DEF Goto, TypeInv, TypeOK
<1>3. Moves(r)
  <2>1. local[r].line \in Nat
    BY DocumentTypes
  <2> QED BY <1>1, <1>2, <2>1 DEF Moves, Finished
<1>4. RequestInv(r)'
  BY <1>2 DEF RequestInv
<1>5. \A p : ~Missing(p, r) /\ ~Unlinked(p, r)
  <2>1. local[r].left = {}
    BY <1>1 DEF TypeInv, LineOK, NoLocal
  <2> QED BY <1>1, <2>1 DEF Missing, Unlinked
<1>6. Ids(places)' = Ids(places)
  BY <1>1 DEF Ids
<1> QED BY <1>1, <1>3, <1>4, <1>5, <1>6, QuietStep

\* The job writes neither.
LEMMA JobKeeps ==
  ASSUME IInv, UNCHANGED <<items, places, pc, call, local>>
  PROVE  IInv'
<1>2. NamesInv'
  BY DEF IInv, NamesInv, Past, Ids
<1>3. ASSUME NEW r \in Requests PROVE RequestInv(r)'
  BY DEF IInv, RequestInv, Past, Ids, OwnId
<1>4. Named' = Named /\ Ids(places)' = Ids(places) /\ Ids(items)' = Ids(items)
  BY DEF Named, Ids
<1>5. NamedPlacesExist'
  BY <1>4 DEF IInv, PlacesAndItemsAgree, NamedPlacesExist
<1>6. UnnamedPlacesAreExplained'
  BY <1>4 DEF IInv, PlacesAndItemsAgree, UnnamedPlacesAreExplained
<1> QED BY <1>2, <1>3, <1>5, <1>6 DEF IInv, PlacesAndItemsAgree

LEMMA HandlerInv ==
  ASSUME TypeInv, TypeInv', IInv, NEW r \in Requests, Handler(r)
  PROVE  IInv'
<1>1. {"failed", "done", "place", "row", "write", "categories", "push", "pull", "answer"} \subseteq Ahead
  BY DEF Ahead, Stage, Finished
<1>2. RequestInv(r)
  BY DEF IInv
<1>3. pc[r] = "find" => local[r].place = NoId
  BY DEF TypeInv, LineOK, NoLocal
<1>4. PICK q : q = OwnId(r)
  OBVIOUS
<1>5. PICK id : id = call[r].item
  OBVIOUS
<1>6. id \in Ids(items) => Past(id)
  BY DEF IInv, NamesInv, Ids
<1>7. ASSUME pc[r] \in {"find", "row", "answer"}, NEW at \in {"failed", "done", "place", "row", "write"},
             Move(r, at), at = "write" => call[r].kind # "TAKE_OUT",
             pc[r] # "find" => call[r].kind # "ASSIGN" \/ at # "failed",
             call[r].kind = "ASSIGN" => at # "place" \/ id \in Ids(items)
      PROVE  IInv'
  <2>1. at \in Ahead /\ at \notin {"categories", "push", "pull"} /\ pc[r] \notin Finished
    BY <1>1, <1>7 DEF Finished
  <2>2. call[r].kind = "ASSIGN" =>
           /\ at = "place" => Past(call[r].item)
           /\ at = "failed" => local[r].place = NoId
    BY <1>3, <1>5, <1>6, <1>7
  <2> QED BY <1>7, <2>1, <2>2, MoveStep
<1>9. CASE CreateFind(r)
  <2>1. pc[r] = "find" /\ call[r].kind = "CREATE" /\ (Move(r, "failed") \/ Move(r, "place"))
    BY <1>9 DEF CreateFind, Serves, Fail
  <2> QED BY <1>7, <2>1
<1>10. CASE CreateItsPlace(r)
  <2>1. /\ pc[r] = "place" /\ call[r].kind = "CREATE" /\ q = <<r>>
        /\ CreatePlace(r, q, call[r].point, "categories")
    BY <1>4, <1>10 DEF CreateItsPlace, Serves, OwnId
  <2>2. call[r].point \in Points \union {NoPoint}
    BY <2>1, CallTypes DEF TypeInv
  <2> QED BY <1>4, <2>1, <2>2, CreatePlaceStep
<1>11. CASE CreateCategories(r)
  <2>1. pc[r] = "categories" /\ call[r].kind = "CREATE" /\ q = <<r>>
    BY <1>4, <1>11 DEF CreateCategories, Serves, OwnId
  <2>2. CASE CreateItem(r, <<r>>, call[r].sku, local[r].line, "done")
    <3>1. CreateItem(r, q, call[r].sku, local[r].line, "done")
      BY <2>1, <2>2
    <3>2. call[r].sku \in Skus \union {NoSku} /\ local[r].line \in Nat \ {0}
      BY <2>1, CallTypes DEF TypeInv, TypeOK, Local
    <3> QED BY <1>4, <2>1, <3>1, <3>2, CreateItemStep
  <2>3. CASE Move(r, "failed")
    BY <1>1, <2>1, <2>3, MoveStep DEF Finished
  <2>4. CASE /\ local' = [local EXCEPT ![r].line = @ + 1]
             /\ UNCHANGED <<load, documents, job, pc, call>>
    BY <2>1, <2>4, LineStep DEF documents
  <2> QED BY <1>11, <2>2, <2>3, <2>4 DEF CreateCategories, Fail
<1>12. CASE ImportUpload(r)
  <2>1. pc[r] = "find" /\ call[r].kind = "IMPORT" /\ (Move(r, "failed") \/ Move(r, "row"))
    BY <1>12 DEF ImportUpload, Serves, Fail
  <2> QED BY <1>7, <2>1
<1>13. CASE ImportItem(r)
  <2>1. /\ pc[r] = "item" /\ call[r].kind = "IMPORT" /\ q = <<r, local[r].line>>
        /\ CreateItem(r, q, RowOf(r).sku, local[r].line + 1, "row")
    BY <1>4, <1>13 DEF ImportItem, Serves, OwnId
  <2>2. RowOf(r).sku \in Skus \union {NoSku}
    BY <2>1, RowTypes DEF TypeInv, LineOK, Row
  <2>3. local[r].line + 1 \in Nat \ {0}
    BY DocumentTypes
  <2> QED BY <1>4, <2>1, <2>2, <2>3, CreateItemStep
<1>14. CASE AssignFind(r)
  <2>1. /\ pc[r] = "find" /\ call[r].kind = "ASSIGN"
        /\ (id \in Ids(items) /\ Move(r, "place")) \/ Move(r, "failed")
    BY <1>5, <1>14 DEF AssignFind, Serves, Fail
  <2> QED BY <1>7, <2>1
<1>15. CASE AssignPlace(r)
  <2>1. /\ pc[r] = "place" /\ call[r].kind = "ASSIGN" /\ q = <<r>>
        /\ CreatePlace(r, q, call[r].point, "push")
    BY <1>4, <1>15 DEF AssignPlace, Serves, OwnId
  <2>2. call[r].point \in Points \union {NoPoint}
    BY <2>1, CallTypes DEF TypeInv
  <2> QED BY <1>4, <2>1, <2>2, CreatePlaceStep
<1>16. CASE AssignPush(r)
  <2>1. pc[r] = "push" /\ call[r].kind = "ASSIGN"
    BY <1>16 DEF AssignPush, Serves
  <2>2. CASE id \in Ids(items)
    <3> DEFINE i == [ItsItem(r) EXCEPT !.places = Append(@, local[r].place)]
    <3>1. WriteItem(r, i, "done")
      BY <1>16 DEF AssignPush
    <3>2. ItsItem(r) \in Item /\ ItsItem(r).id = id
      BY <1>5, <2>2, ItsItemType
    <3>3. local[r].place \in Id /\ local[r].place = q
      BY <1>2, <1>4, <2>1, DocumentTypes DEF RequestInv
    <3>4. /\ Append(ItsItem(r).places, local[r].place) \in Seq(Id)
          /\ ToSet(Append(ItsItem(r).places, local[r].place)) = ToSet(ItsItem(r).places) \union {q}
      BY <3>2, <3>3, ToSetAppend DEF Item
    <3>5. i \in Item /\ i.id = id /\ ToSet(i.places) = ToSet(ItsItem(r).places) \union {q}
      BY <3>2, <3>4 DEF Item
    <3> HIDE DEF i
    <3> QED BY <1>4, <1>5, <2>1, <2>2, <3>1, <3>5, RewriteStep
  <2>3. CASE id \notin Ids(items)
    <3>1. Move(r, "failed")
      BY <1>5, <1>16, <2>3 DEF AssignPush, WriteItem, Fail
    <3> QED BY <1>1, <1>5, <2>1, <2>3, <3>1, MoveStep DEF Finished
  <2> QED BY <2>2, <2>3
<1>17. CASE SelectPlace(r)
  <2>1. CASE PlacesIn(call[r].item, call[r].warehouse) # <<>>
    BY <1>17, <2>1, SelectStep
  <2>2. CASE PlacesIn(call[r].item, call[r].warehouse) = <<>>
    <3>1. pc[r] = "find" /\ Move(r, "failed")
      BY <1>17, <2>2 DEF SelectPlace, Serves, Fail
    <3> QED BY <1>7, <3>1
  <2> QED BY <2>1, <2>2
<1>18. CASE TakeOutDelete(r)
  BY <1>18, DeleteStep
<1>19. CASE TakeOutPull(r)
  <2>1. pc[r] = "pull" /\ call[r].kind = "TAKE_OUT"
    BY <1>19 DEF TakeOutPull, Serves
  <2>2. CASE id \in Ids(items)
    <3> DEFINE i == [ItsItem(r) EXCEPT !.places = Pull(@, {local[r].place})]
    <3>1. WriteItem(r, i, "answer")
      BY <1>19 DEF TakeOutPull
    <3>2. ItsItem(r) \in Item /\ ItsItem(r).id = id
      BY <1>5, <2>2, ItsItemType
    <3>3. /\ Pull(ItsItem(r).places, {local[r].place}) \in Seq(Id)
          /\ ToSet(Pull(ItsItem(r).places, {local[r].place})) = ToSet(ItsItem(r).places) \ {local[r].place}
      BY <3>2, ToSetPull DEF Item
    <3>4. i \in Item /\ i.id = id /\ ToSet(i.places) = ToSet(ItsItem(r).places) \ {local[r].place}
      BY <3>2, <3>3 DEF Item
    <3> HIDE DEF i
    <3> QED BY <1>4, <1>5, <2>1, <2>2, <3>1, <3>4, RewriteStep
  <2>3. CASE id \notin Ids(items)
    <3>1. Move(r, "failed")
      BY <1>5, <1>19, <2>3 DEF TakeOutPull, WriteItem, Fail
    <3>2. local[r].place \notin Named
      BY <1>2, <1>5, <2>1, <2>3 DEF RequestInv, Named, Ids
    <3> QED BY <1>1, <2>1, <3>1, <3>2, MoveStep DEF Finished
  <2> QED BY <2>2, <2>3
<1>20. CASE TakeOutAnswer(r)
  <2>1. pc[r] = "answer" /\ call[r].kind = "TAKE_OUT" /\ (Move(r, "done") \/ Move(r, "failed"))
    BY <1>20 DEF TakeOutAnswer, Serves
  <2> QED BY <1>7, <2>1
<1>21. CASE EditPlaceWrite(r)
  BY <1>21, EditPlaceStep
<1>22. CASE EditFind(r)
  <2>1. pc[r] = "find" /\ call[r].kind = "EDIT" /\ (Move(r, "write") \/ Move(r, "failed"))
    BY <1>22 DEF EditFind, Serves, Fail
  <2> QED BY <1>7, <2>1
<1>23. CASE EditWrite(r)
  <2>1. pc[r] = "write" /\ call[r].kind = "EDIT"
    BY <1>23 DEF EditWrite, Serves
  <2>2. CASE id \in Ids(items)
    <3> DEFINE i == [ItsItem(r) EXCEPT !.sku = call[r].sku]
    <3>1. WriteItem(r, i, "done")
      BY <1>23 DEF EditWrite
    <3>2. ItsItem(r) \in Item /\ ItsItem(r).id = id
      BY <1>5, <2>2, ItsItemType
    <3>3. call[r].sku \in Skus
      BY <2>1, CallTypes DEF TypeInv
    <3>4. i \in Item /\ i.id = id /\ i.places = ItsItem(r).places
      BY <3>2, <3>3 DEF Item
    <3> HIDE DEF i
    <3> QED BY <1>4, <1>5, <2>1, <2>2, <3>1, <3>4, RewriteStep
  <2>3. CASE id \notin Ids(items)
    <3>1. Move(r, "failed")
      BY <1>5, <1>23, <2>3 DEF EditWrite, WriteItem, Fail
    <3> QED BY <1>1, <2>1, <3>1, MoveStep DEF Finished
  <2> QED BY <2>2, <2>3
<1>24. CASE RemoveItem(r)
  <2>1. CASE id \in Ids(items)
    BY <1>5, <1>24, <2>1, RemoveStep
  <2>2. CASE id \notin Ids(items)
    <3>1. pc[r] = "find" /\ Move(r, "failed")
      BY <1>5, <1>24, <2>2 DEF RemoveItem, Serves, Fail
    <3> QED BY <1>7, <3>1
  <2> QED BY <2>1, <2>2
<1>25. CASE WriteCategory(r)
  <2>1. CASE Fail(r)
    <3>1. pc[r] = "find" /\ Move(r, "failed")
      BY <1>25, <2>1 DEF WriteCategory, Serves, Fail
    <3> QED BY <1>7, <3>1
  <2>2. CASE ~Fail(r)
    <3>1. /\ pc[r] = "find" /\ call[r].kind \in {"CATEGORY", "NO_CATEGORY"} /\ Goto(r, "done")
          /\ UNCHANGED <<items, places, call, local>>
      BY <1>25, <2>2 DEF WriteCategory, Serves
    <3>2. Moves(r) /\ pc'[r] = "done"
      BY <3>1, MovesTo DEF Finished
    <3>3. RequestInv(r)'
      BY <3>1, <3>2 DEF RequestInv
    <3>4. Ids(places)' = Ids(places) /\ \A p : ~Missing(p, r) /\ (Unlinked(p, r) => Unlinked(p, r)')
      BY <3>1, <3>2 DEF Ids, Missing, Unlinked
    <3> QED BY <3>1, <3>2, <3>3, <3>4, QuietStep
  <2> QED BY <2>1, <2>2
<1>26. CASE ImportRow(r) /\ ~Exit
  <2>1. pc[r] = "row" /\ call[r].kind = "IMPORT" /\ q = <<r, local[r].line>>
    BY <1>4, <1>26 DEF ImportRow, Serves, OwnId
  <2>2. CASE Move(r, "done")
    BY <1>7, <2>1, <2>2
  <2>3. CASE /\ local' = [local EXCEPT ![r].line = @ + 1]
             /\ UNCHANGED <<load, documents, job, pc, call>>
    BY <2>1, <2>3, LineStep DEF documents
  <2>4. CASE /\ ~(local[r].line > Len(call[r].rows))
             /\ CreatePlace(r, <<r, local[r].line>>, RowOf(r).point, "item")
    <3>1. call[r].rows \in Seq(Row) /\ local[r].line \in Nat
      BY <2>1, CallTypes, DocumentTypes DEF TypeInv
    <3>2. local[r].line <= Len(call[r].rows)
      BY <2>4, <3>1
    <3>3. RowOf(r).point \in Points \union {NoPoint}
      BY <2>1, <3>2, RowTypes DEF Row
    <3> QED BY <1>4, <2>1, <2>4, <3>3, CreatePlaceStep
  <2> QED BY <1>26, <2>2, <2>3, <2>4 DEF ImportRow
<1>27. CASE ImportRow(r) /\ Exit
  BY <1>27, ExitInv
<1> QED BY <1>9, <1>10, <1>11, <1>12, <1>13, <1>14, <1>15, <1>16, <1>17, <1>18, <1>19,
           <1>20, <1>21, <1>22, <1>23, <1>24, <1>25, <1>26, <1>27 DEF Handler

LEMMA AgreeInit == Init => IInv
<1> SUFFICES ASSUME Init PROVE IInv
  OBVIOUS
<1>1. PICK s \in Stocks : items = s.items /\ places = s.places
  BY DEF Init
<1>2. /\ items \in Seq(Item) /\ places \in Seq(Place)
      /\ \A d \in ToSet(items) \union ToSet(places) : Old(d.id)
      /\ {p.id : p \in ToSet(places)} = UNION {ToSet(i.places) : i \in ToSet(items)}
      /\ \A i, j \in ToSet(items) :
           i.id = j.id \/ ToSet(i.places) \intersect ToSet(j.places) # {} => i = j
  BY <1>1, StocksAssumption
<1>3. Named = Ids(places)
  BY <1>2 DEF Named, Ids
<1>4. ASSUME NEW id, Old(id) PROVE Past(id)
  <2>1. \A r \in Requests : id # <<r>>
    BY <1>4 DEF Old
  <2> QED BY <1>4, <2>1 DEF Past, Old
<1>5. \A p \in Ids(places) : Old(p)
  BY <1>2 DEF Ids
<1>6. NamesInv
  <2>1. \A i \in ToSet(items) : \A p \in ToSet(i.places) : p \in Ids(places)
    BY <1>3 DEF Named
  <2>2. NoId \notin Ids(places)
    BY <1>5 DEF Old
  <2> QED BY <1>2, <1>4, <1>5, <2>1, <2>2 DEF NamesInv
<1>7. \A r \in Requests : RequestInv(r)
  BY DEF Init, NoCall, RequestInv
<1>8. PlacesAndItemsAgree
  BY <1>3 DEF PlacesAndItemsAgree, NamedPlacesExist, UnnamedPlacesAreExplained
<1> QED BY <1>6, <1>7, <1>8 DEF IInv

LEMMA AgreeStep == TypeInv /\ IInv /\ [Next]_vars => IInv'
<1> SUFFICES ASSUME TypeInv, IInv, [Next]_vars PROVE IInv'
  OBVIOUS
<1>1. TypeInv'
  BY TypeStep
<1>2. ASSUME NEW r \in Requests, Arrive(r) \/ Handler(r) PROVE IInv'
  BY <1>1, <1>2, ArriveInv, HandlerInv
<1>3. CASE LoopRejects \/ UploadRejects
  BY <1>1, <1>3, ExitInv DEF LoopRejects, UploadRejects
<1>4. CASE Look \/ OrderNext \/ (\E o \in job.saving : Save(o)) \/ UNCHANGED vars
  <2>1. UNCHANGED <<items, places, pc, call, local>>
    BY <1>4 DEF Look, OrderNext, Save, vars, documents
  <2> QED BY <2>1, JobKeeps
<1> QED BY <1>2, <1>3, <1>4 DEF Next

\* However requests overlap, and whatever ends the process, a place that an item
\* names exists unless a request is between its deletion and its $pull, and a place
\* that no item names was left by a removal, or by a request that is between its
\* two writes, was lost there or was refused.
THEOREM PlacesAgree == Spec => []PlacesAndItemsAgree
<1>1. Init => TypeInv /\ IInv
  BY TypeInit, AgreeInit
<1>2. TypeInv /\ IInv /\ [Next]_vars => TypeInv' /\ IInv'
  BY TypeStep, AgreeStep
<1>3. IInv => PlacesAndItemsAgree
  BY DEF IInv
<1> QED BY <1>1, <1>2, <1>3, PTL DEF Spec

-----------------------------------------------------------------------------
(* What the job orders *)

\* If all places have a point, comparing the lists compares their first elements.
LEMMA ShortIsShortFirst ==
  ASSUME NEW s \in Seq(Place), Short(s), \A p \in ToSet(s) : p.point # NoPoint, s # <<>>
  PROVE  Head(s).qty <= Head(s).point
<1> DEFINE with == {n \in DOMAIN s : s[n].point # NoPoint}
           qtys == [n \in DOMAIN s |-> s[n].qty]
           points == [n \in DOMAIN s |-> s[n].point]
<1>1. DOMAIN s = 1 .. Len(s) /\ Len(s) \in Nat /\ 1 \in DOMAIN s /\ Head(s) = s[1]
  OBVIOUS
<1>2. \A n \in DOMAIN s : s[n].qty \in Nat /\ s[n].point \in Nat
  <2>1. \A n \in DOMAIN s : s[n] \in Place
    OBVIOUS
  <2>2. \A p \in Place : p.qty \in Nat /\ p.point \in Nat
    <3>1. \A x \in Points \union {NoPoint} : x \in Nat
      BY PointsAssumption DEF NoPoint
    <3> QED BY <3>1 DEF Place
  <2> QED BY <2>1, <2>2
<1>3. with = DOMAIN s
  BY DEF ToSet
<1>4. At(s, with) = s
  BY <1>3, AtAll
<1>5. Qtys(s) = qtys /\ ReOrderPoints(s) = points
  BY <1>4 DEF Qtys, ReOrderPoints
<1>6. AtMost(qtys, points)
  BY <1>5 DEF Short
<1>7. /\ qtys \in Seq(Nat) /\ points \in Seq(Nat) /\ DOMAIN qtys = DOMAIN s
      /\ DOMAIN points = DOMAIN s /\ Len(qtys) = Len(s) /\ Len(points) = Len(s)
      /\ qtys[1] = s[1].qty /\ points[1] = s[1].point
  <2>1. qtys \in [1 .. Len(s) -> Nat] /\ points \in [1 .. Len(s) -> Nat]
    BY <1>1, <1>2
  <2> QED BY <1>1, <2>1
<1> HIDE DEF qtys, points
<1>8. CASE IsPrefix(qtys, points)
  <2>1. SubSeq(qtys, 1, Len(qtys)) = SubSeq(points, 1, Len(qtys))
    BY <1>8 DEF IsPrefix
  <2>2. SubSeq(qtys, 1, Len(qtys))[1] = qtys[1] /\ SubSeq(points, 1, Len(qtys))[1] = points[1]
    BY <1>1, <1>7
  <2> QED BY <1>1, <1>2, <1>7, <2>1, <2>2
<1>9. CASE \E n \in DOMAIN qtys \intersect DOMAIN points :
             qtys[n] < points[n] /\ \A m \in 1 .. n - 1 : qtys[m] = points[m]
  <2>1. PICK n \in 1 .. Len(s) : qtys[n] < points[n] /\ \A m \in 1 .. n - 1 : qtys[m] = points[m]
    BY <1>1, <1>7, <1>9
  <2>2. n = 1 \/ 1 \in 1 .. n - 1
    BY <1>1, <2>1
  <2> QED BY <1>1, <1>2, <1>7, <2>1, <2>2
<1> QED BY <1>6, <1>8, <1>9 DEF AtMost

LEMMA JobInit == Init => JobInv
<1>1. ToSet(<<>>) = {}
  BY DEF ToSet
<1> QED BY <1>1 DEF Init, JobInv, NoJob

LEMMA JobStep == TypeInv /\ JobInv /\ [Next]_vars => JobInv'
<1> SUFFICES ASSUME TypeInv, JobInv, [Next]_vars PROVE JobInv'
  OBVIOUS
<1>1. CASE Look
  <2>1. /\ purchases' = purchases /\ job'.saving = {}
        /\ \A o \in ToSet(job'.todo) : o.seen \in Seq(Place) /\ Short(o.seen)
    BY <1>1, Looked DEF Look, documents
  <2>2. \A o \in ToSet(job'.todo) : ShortFirst(o)
    BY <2>1, ShortIsShortFirst DEF ShortFirst
  <2> QED BY <2>1, <2>2 DEF JobInv
<1>2. CASE OrderNext
  BY <1>2, OrderNextType DEF JobInv
<1>3. ASSUME NEW o \in job.saving, Save(o) PROVE JobInv'
  <2>1. /\ purchases' = purchases \union {o}
        /\ job'.saving \subseteq job.saving /\ job'.todo = job.todo
    BY <1>3, SaveType
  <2> QED BY <2>1 DEF JobInv
<1>4. CASE Exit
  <2>1. job' = [looks |-> job.looks, todo |-> <<>>, saving |-> {}, uploading |-> FALSE]
    BY <1>4 DEF Exit, NoJob
  <2>2. ToSet(job'.todo) = {} /\ job'.saving = {}
    BY <2>1 DEF ToSet
  <2>3. purchases' = purchases
    BY <1>4 DEF Exit, documents
  <2> QED BY <2>2, <2>3 DEF JobInv
<1>5. CASE UNCHANGED <<purchases, job>>
  BY <1>5 DEF JobInv
<1>6. ASSUME NEW r \in Requests, Arrive(r) \/ Handler(r)
      PROVE  UNCHANGED <<purchases, job>> \/ Exit
  BY <1>6 DEF Arrive, Handler, CreateFind, CreateItsPlace, CreateCategories, ImportUpload,
              ImportRow, ImportItem, AssignFind, AssignPlace, AssignPush, SelectPlace,
              TakeOutDelete, TakeOutPull, TakeOutAnswer, EditPlaceWrite, EditFind, EditWrite,
              RemoveItem, WriteCategory, Move, Fail, WriteItem, CreatePlace, CreateItem, documents
<1>7. CASE UNCHANGED vars
  BY <1>5, <1>7 DEF vars
<1> QED BY <1>1, <1>2, <1>3, <1>4, <1>5, <1>6, <1>7 DEF Next, LoopRejects, UploadRejects

\* The order is for the first place the aggregation returned, and that one was not
\* above its point when the job looked, if each place of the item has a point:
\* $lte compares all quantities with all points, the first that differ first.
THEOREM PurchasesAreShort == Spec => []PurchasesAreForShortPlaces
<1>1. Init => TypeInv /\ JobInv
  BY TypeInit, JobInit
<1>2. TypeInv /\ JobInv /\ [Next]_vars => TypeInv' /\ JobInv'
  BY TypeStep, JobStep
<1>3. JobInv => PurchasesAreForShortPlaces
  BY DEF JobInv, ShortFirst, PurchasesAreForShortPlaces
<1> QED BY <1>1, <1>2, <1>3, PTL DEF Spec
=============================================================================

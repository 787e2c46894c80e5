----------------------------- MODULE MCListings -----------------------------
(* A small instance of Listings for TLC. *)
EXTENDS Listings

\* Documents 1, 3, 4 and the new one, 5, are the caller's, 2 is another's; the
\* prices are in none of the orders a walk may take.
Mine(n) == n # 2
Id(c, n) == {c \o ToString(n)}
Common(c, n) == [
  _id |-> Id(c, n), createdAt |-> {n},
  entityId |-> {IF Mine(n) THEN "entities1" ELSE "entities2"}]
Owned(n) == [owner |-> {IF Mine(n) THEN "users1" ELSE "users2"}]
ByUser(n) == [userId |-> {IF Mine(n) THEN "users1" ELSE "users2"}]
Named(n) == [name |-> {IF n \in {1, 5} THEN "tea" ELSE "milk"}]
Priced(n) == [price |-> {(3 * n) % 5}]

\* The first item is kept in two warehouses, the third in none.
KeptIn(n) == CASE n = 1 -> {"warehousestockitems1", "warehousestockitems2"}
               [] n = 3 -> {} [] OTHER -> {"warehousestockitems3"}
Fields_(c, n) ==
  CASE c \in {"orders", "carts"} ->
         ByUser(n) @@ Priced(n) @@ [customerId |-> {IF Mine(n) THEN "users3" ELSE "users4"},
           tableId |-> Id("tables", n), orderStatus |-> {IF n = 1 THEN "tea" ELSE "ONHOLD"}]
    [] c = "stockitems" ->
         Named(n) @@ Priced(n) @@ [sku |-> {"sku" \o ToString(n)}, warehouseStockItemsData |-> KeptIn(n),
           stockCategoryId |-> IF n = 3 THEN {} ELSE {"stockcategories1"},
           isFeatures |-> {n # 4}, unCodedItem |-> {n = 1}]
    [] c = "warehousestockitems" -> [warehouseId |-> {IF n = 1 THEN "warehouses1" ELSE "warehouses3"}]
    [] c = "stockcategories" -> [stockategoryName |-> {IF n = 1 THEN "tea" ELSE "milk"}]
    [] c \in {"tables", "services", "suppliers", "entities", "warehouses", "customers"} ->
         Named(n) @@ Owned(n) @@ Priced(n)
    [] c = "users" ->
         Owned(n) @@ [name |-> {IF n = 3 THEN "Guest" ELSE IF n = 1 THEN "tea" ELSE "milk"},
           active |-> {n # 4}, password |-> {"secret"}, role |-> {"CASHIER"}]
    [] c = "tutorials" -> [type |-> {IF n = 4 THEN "CASHIER" ELSE "MERCHANT"}, tutorialType |-> {"tea"}]
    [] c = "quotations" ->
         ByUser(n) @@ [itemsList |-> {("_id" :> {"line1"}) @@ Named(1), ("_id" :> {"line2"}) @@ Named(2)}]
    [] c = "releasetransactions" ->
         Priced(n) @@ [warehouseId |-> {"warehouses1"}, customerId |-> Id("customers", n),
           items |-> {[_id |-> {"line1"}, stockItemId |-> {"stockitems" \o ToString(n)}]}]
    [] c \in {"addtransactions", "refundtransactions", "reversetransactions", "shrinkagetransactions",
              "wastetransactions", "audittransactions", "purchaseorders"} ->
         Priced(n) @@ [warehouseId |-> {IF n = 3 THEN "warehouses2" ELSE "warehouses1"},
           supplierId |-> Id("suppliers", n)]
    [] c \in {"syslogs", "notifications"} -> ByUser(n)
    [] c = "coupons" -> Owned(n) @@ [code |-> {IF n = 1 THEN "tea" ELSE "milk"}]
    [] OTHER -> Owned(n) @@ [supplierId |-> Id("suppliers", n), customerId |-> Id("customers", n)]

\* Some collections have no entityId.
Doc(c, n) ==
  Fields_(c, n) @@ (IF c \in {"suppliers", "tutorials", "syslogs", "notes"}
                    THEN Without(Common(c, n), {"entityId"}) ELSE Common(c, n))

Names == {
  "orders", "carts", "stockitems", "warehousestockitems", "stockcategories", "tables", "services",
  "suppliers", "entities", "warehouses", "customers", "users", "tutorials", "quotations",
  "releasetransactions", "addtransactions", "refundtransactions", "reversetransactions",
  "shrinkagetransactions", "wastetransactions", "audittransactions", "purchaseorders", "syslogs",
  "notifications", "coupons", "payables", "deferredpayables", "recievables",
  "deferredrecievables", "notes", "subscriptions"}
FourEach == [c \in Names |-> [n \in 1..4 |-> Doc(c, n)]]
TheFifth == [c \in Names |-> Doc(c, 5)]

TwoCallers == {
  [entity |-> "entities1", user |-> "users1", customer |-> "users3", warehouse |-> "warehouses1",
   role |-> "MERCHANT"],
  [entity |-> "none", user |-> "none", customer |-> "users3", warehouse |-> "none",
   role |-> "SUPER_ADMIN"]}

SomeOptions == {
  o \in [sort: {"price"}, dir: {"", "asc", "desc"},
         filterBy: {<<>>, <<[field |-> "name", any |-> {"tea", "Guest"}], [field |-> "owner", any |-> {}]>>},
         searchTerm: {"", "tea"},
         attributes: {{}, {"price"}, {"createdAt", "owner", "active", "type", "warehouseStockItemsData"}},
         dates: {<<>>, <<2, 4>>}, size: {1, 2}] :
  /\ o.size = 2 => o.filterBy = <<>> /\ o.searchTerm = "" /\ o.attributes = {}
  /\ o.dir = "asc" => o.attributes = {} /\ o.searchTerm = ""}
=============================================================================

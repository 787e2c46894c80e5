----------------------------- MODULE MCReports -----------------------------
(* A shop and a cafe, with what they sold around New Year's Eve of 2023. *)
EXTENDS Reports

\* Days are numbered from 1 January 2023, a Sunday; 366 is 1 January 2024.
Days == {2, 358, 359, 364, 365, 366, 371, 372, 373}
Years == [d \in Days |-> IF d <= 365 THEN 2023 ELSE 2024]
Months == [d \in Days |-> IF d = 2 THEN 1 ELSE IF d <= 365 THEN 12 ELSE 13]
\* Weeks from Monday, the first of which has the first Thursday, and weeks
\* from Sunday, the first of which has the first Sunday.
IsoWeeks == [d \in Days |-> CASE d = 2 -> 1 [] d = 358 -> 51 [] d \in 359..365 -> 52
                              [] d \in 366..372 -> 1 [] d = 373 -> 2]
SundayWeeks == [d \in Days |-> CASE d = 2 -> 1 [] d \in 358..364 -> 52 [] d = 365 -> 53
                                 [] d \in 366..371 -> 0 [] d \in 372..373 -> 1]

Doc(in, id, entity, owner, day, fields) ==
  fields @@ [in |-> in, id |-> id, entity |-> entity, owner |-> owner, day |-> day, tag |-> "cash"]

Shop == 1
Cafe == 2
Sam == 11
Cat == 12
SomeAskers == {[id |-> Sam, entity |-> Shop, warehouse |-> 51], [id |-> Cat, entity |-> Cafe, warehouse |-> 52]}

User(id, role, status, entity, day) ==
  Doc("users", id, entity, Sam, day, [role |-> role, status |-> status, package |-> "CASHIER"])
Order(id, entity, day, customer, items, total) ==
  Doc("orders", id, entity, 0, day,
      [customer |-> customer, total |-> total, services |-> <<[item |-> 61, amount |-> total]>>,
       items |-> [k \in DOMAIN items |-> [item |-> items[k], amount |-> 1]]])
Category(id, entity, department) ==
  Doc("stockcategories", id, entity, 0, 2, [section |-> TRUE, department |-> department])
StockItem(id, entity, category, places) ==
  Doc("stockitems", id, entity, 0, 359, [category |-> category, places |-> places, expected |-> 2])
Place(id, qty) == Doc("warehousestockitems", id, 0, 0, 359, [qty |-> qty, cost |-> 1, price |-> 2])
Money(c, id, owner, amount) == Doc(c, id, 0, owner, 366, [transaction |-> id, amount |-> amount])
Subscription(id, owner, day) == Doc("subscriptions", id, 0, owner, day, [price |-> 4])

\* A transaction of each business in every collection of transactions.
Transactions ==
  UNION {{Doc(c, 70, Shop, 0, 366, [items |-> <<[item |-> 31, amount |-> 2]>>]),
          Doc(c, 71, Cafe, 0, 366, [items |-> <<[item |-> 33, amount |-> 1]>>])}
    : c \in {"addtransactions", "audittransactions", "releasetransactions", "refundtransactions",
             "reversetransactions", "shrinkagetransactions", "wastetransactions"}}
Debts ==
  UNION {{Money(c, 80, Sam, 1), Money(c, 81, Cat, 2)}
    : c \in {"payables", "deferredpayables", "recievables", "deferredrecievables"}}

Core ==
  {Doc("entities", Shop, 0, Sam, 359, [type |-> "STORE"]), Doc("entities", Cafe, 0, Cat, 366, [type |-> "RESTURANT"]),
   User(Sam, "MERCHANT", "COMPLETED", Shop, 359), User(Cat, "RESTURANT", "COMPLETED", Cafe, 359),
   User(13, "CUSTOMER", "COMPLETED", 0, 365), User(14, "CASHIER", "ACTIVE", Shop, 366),
   Doc("customers", 13, 0, Sam, 365, <<>>), Doc("customers", 15, 0, Cat, 365, <<>>),
   Category(41, Shop, FALSE), Category(42, Shop, TRUE), Category(43, Cafe, FALSE),
   StockItem(31, Shop, 41, {91}), StockItem(32, Shop, 42, {92}), StockItem(33, Cafe, 43, {93}),
   Place(91, 0), Place(92, 2), Place(93, 1),
   Doc("warehouses", 51, Shop, Sam, 359, <<>>),
   Doc("coupons", 85, 0, Sam, 365, <<>>), Doc("coupons", 86, 0, Cat, 365, <<>>),
   Doc("services", 61, Shop, 0, 359, <<>>),
   Doc("syslogs", 88, 0, 0, 366, [user |-> Sam]),
   Subscription(95, Sam, 365), Subscription(96, Cat, 365), Subscription(97, Cat, 366), Order(22, Shop, 372, 13, <<31, 32>>, 2)} \union Transactions \union Debts

Eve == Order(21, Shop, 365, 13, <<32>>, 1)
OfCafe == Order(23, Cafe, 366, 15, <<33, 33>>, 2)
YearBefore == Order(24, Shop, 2, 13, <<31>>, 1)
Newcomer == Order(25, Shop, 366, 14, <<31, 32>>, 1)
Joiner == Doc("customers", 14, 0, Sam, 366, <<>>)
Renewal == Subscription(98, Sam, 366)
SomeBooks == {Core \union s : s \in SUBSET {Eve, YearBefore}}
SomeDocuments ==
  {Eve, OfCafe, Joiner, Newcomer, Renewal, User(Cat, "RESTURANT", "ACTIVE", Cafe, 359),
   Place(91, 1), Money("deferredpayables", 82, Cat, 3), Doc("entities", Cafe, 0, Cat, 366, [type |-> "RESTURANT"])}

NoOptions ==
  [filterBy |-> {}, period |-> <<>>, dates |-> <<>>, dates2 |-> <<>>, compare |-> <<>>, view |-> [name |-> "plain"]]
Dates(view) ==
  [NoOptions EXCEPT !.dates = <<359, 373>>, !.dates2 = <<359, 373>>, !.view = view,
                    !.compare = <<[period |-> "TODAY", date |-> 366], [period |-> "TODAY", date |-> 365]>>]
InPeriod(period, date, view) ==
  [NoOptions EXCEPT !.period = <<[period |-> period, date |-> date]>>, !.view = view]
SomeOptions ==
  {NoOptions, [NoOptions EXCEPT !.filterBy = {"card"}], Dates([name |-> "topRecords"]),
   InPeriod("YESTERDAY", 366, [name |-> "slowMoving"]), InPeriod("TODAY", 366, [name |-> "noMoving"]),
   InPeriod("WTD", 366, [name |-> "grossSales"]), InPeriod("LASTWEEK", 373, [name |-> "avgBasketSize"]),
   InPeriod("LASTMONTH", 366, [name |-> "plain"]), InPeriod("YTD", 366, [name |-> "grossSales"]),
   InPeriod("YTD", 366, [name |-> "dailyChart", chart |-> [period |-> "MTD", date |-> 366]]),
   [NoOptions EXCEPT !.view = [name |-> "dailyChart", chart |-> [period |-> "LASTMONTH", date |-> 366]]]}

=============================================================================

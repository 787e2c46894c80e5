------------------------------ MODULE Reports ------------------------------
(***************************************************************************)
(* report.service.ts: what the reports read out of the collections that    *)
(* the other services write.                                               *)
(*                                                                         *)
(* Most reports are one query, and see the database as it is at that       *)
(* moment.  The others await one query after another, often one for each   *)
(* document the first one found, and the other requests write between any  *)
(* two of them.  Formatting and the upload of the sheet are left out.      *)
(***************************************************************************)
EXTENDS Integers, SequencesExt, FiniteSetsExt

CONSTANTS
  Books,      \* what the database may hold at first: sets of documents
  Documents,  \* what others save or remove while a report is read
  Askers,     \* the users who ask: [id, entity, warehouse]
  Options,    \* the bodies of a request: [filterBy, period, dates, view]
  YearOf, MonthOf,        \* the calendar: day -> year, and month of all time
  IsoWeekOf, WeekOf,      \* moment's 'WW' and the database's '%U'
  MaxWrites   \* bound: documents saved or removed while reports are read

ASSUME ReportWritesAssumption == MaxWrites \in Nat

VARIABLES
  db,      \* the documents of all collections, each with its own in 'in'
  report,  \* the report being read, if any
  writes   \* how many writes the others have made

vars == <<db, report, writes>>

NoReport == [of |-> "none"]

-----------------------------------------------------------------------------
(* Selecting documents *)

Of(books, c) == {d \in books : d.in = c}
InEntity(books, c, entity) == {d \in Of(books, c) : d.entity = entity}
OwnedBy(books, c, owner) == {d \in Of(books, c) : d.owner = owner}
WithId(books, c, id) == {d \in Of(books, c) : d.id = id}
ByAge(docs) == SetToSortSeq(docs, LAMBDA d, e : d.id < e.id)

\* The week of the year is asked in one reckoning and stored in another.
FilterByPeriod(docs, p) ==
  CASE p.period = "YESTERDAY" -> {d \in docs : d.day = p.date - 1}
    [] p.period = "TODAY" -> {d \in docs : d.day = p.date}
    [] p.period = "WTD" -> {d \in docs : WeekOf[d.day] = IsoWeekOf[p.date]}
    [] p.period = "LASTWEEK" -> {d \in docs : WeekOf[d.day] = IsoWeekOf[p.date - 7]}
    [] p.period = "MTD" -> {d \in docs : MonthOf[d.day] = MonthOf[p.date]}
    [] p.period = "LASTMONTH" -> {d \in docs : MonthOf[d.day] = MonthOf[p.date] - 1}
    [] p.period = "YTD" -> {d \in docs : YearOf[d.day] = YearOf[p.date]}

\* An aggregation compares days; a find compares with the midnight at which
\* the last day begins.
CustomPeriod(docs, dates) == {d \in docs : dates[1] <= d.day /\ d.day <= dates[2]}
Between(docs, dates) == {d \in docs : dates[1] <= d.day /\ d.day < dates[2]}

Filtered(docs, o) == IF o.filterBy = {} THEN docs ELSE {d \in docs : d.tag \in o.filterBy}
InItsPeriod(docs, o) == IF o.period = <<>> THEN docs ELSE FilterByPeriod(docs, o.period[1])
InItsDates(docs, o) == IF o.dates = <<>> THEN docs ELSE CustomPeriod(docs, o.dates)
Selected(docs, o) == InItsDates(InItsPeriod(Filtered(docs, o), o), o)

Listed(docs) == {[id |-> d.id] : d \in docs}
Count(docs) == {[count |-> Cardinality(docs)]}
\* $group on null yields no row for no document: the reports then say 0.
Counted(docs, o) == IF o.filterBy = {} \/ docs = {} THEN Count(docs) ELSE Listed(docs)

-----------------------------------------------------------------------------
(* Counting reports *)

AddTransactionReport(books, who, o) ==
  Counted(Selected(InEntity(books, "addtransactions", who.entity), o), o)
AuditTransactionReport(books, who, o) ==
  Counted(Selected(InEntity(books, "audittransactions", who.entity), o), o)
ReverseTransactionReport(books, who, o) ==
  Counted(Selected(InEntity(books, "reversetransactions", who.entity), o), o)
ShrinkageTransactionReport(books, who, o) ==
  Counted(Selected(InEntity(books, "shrinkagetransactions", who.entity), o), o)
\* The controller passes the user's id where the entity's is expected.
WasteTransactionReport(books, who, o) ==
  Counted(Selected(InEntity(books, "wastetransactions", who.id), o), o)
DeferredPayableReport(books, who, o) ==
  Counted(Selected(OwnedBy(books, "deferredpayables", who.id), o), o)
DeferredReceivableReport(books, who, o) ==
  Counted(Selected(OwnedBy(books, "deferredrecievables", who.id), o), o)
PayableReport(books, who, o) == Counted(Selected(OwnedBy(books, "payables", who.id), o), o)
ReceivableReport(books, who, o) == Counted(Selected(OwnedBy(books, "recievables", who.id), o), o)

-----------------------------------------------------------------------------
(* Sales: a line is an item of an order or of a release *)

Lines(docs) == UNION {{[doc |-> d, line |-> d.items[k], at |-> k] : k \in DOMAIN d.items} : d \in docs}
Items(docs) == {l.line.item : l \in Lines(docs)}
LinesOf(docs, item) == {l \in Lines(docs) : l.line.item = item}

\* The inner joins with the item and its category.
Known(books, item) ==
  \E s \in WithId(books, "stockitems", item) : WithId(books, "stockcategories", s.category) # {}
Item(books, item) == CHOOSE s \in WithId(books, "stockitems", item) : TRUE

\* Each line of an item adds the total of its whole order.
GrossSales(docs) ==
  {[item |-> i, totalAmount |-> MapThenSumSet(LAMBDA l : l.doc.total, LinesOf(docs, i))] : i \in Items(docs)}

TopRecords(books, docs) ==
  {[item |-> i, count |-> Cardinality(LinesOf(docs, i)),
    value |-> MapThenSumSet(LAMBDA l : l.doc.total, LinesOf(docs, i))]
    : i \in {j \in Items(docs) : Known(books, j)}}

\* An item is slow if it has fewer lines than quantities expected in a month.
Slow(books, docs) ==
  {j \in Items(docs) : Known(books, j) /\ Item(books, j).expected > Cardinality(LinesOf(docs, j))}
SlowMoving(books, docs) ==
  {[item |-> i, expected |-> Item(books, i).expected, actual |-> Cardinality(LinesOf(docs, i))]
    : i \in Slow(books, docs)}

\* noMove reads diffDays in the $set that creates it, and so is always true.
NoMoving(books, docs) ==
  {[item |-> i, last |-> Last(ByAge({l.doc : l \in LinesOf(docs, i)})).day]
    : i \in {j \in Items(docs) : Known(books, j)}}

AvgBasketSize(docs) ==
  {[customer |-> c, count |-> Cardinality({d \in docs : d.customer = c}),
    total |-> MapThenSumSet(LAMBDA d : d.total, {d \in docs : d.customer = c})]
    : c \in {d.customer : d \in docs}}

\* Mutation: the month is compared without its year.
DailyChartOfAnyYear(docs, chart) ==
  LET ofMonth == {d \in docs : MonthOf[d.day] % 12 = MonthOf[chart.date] % 12}
  IN  {[day |-> x, count |-> Cardinality({d \in ofMonth : d.day = x})] : x \in {d.day : d \in ofMonth}}

DailyChart(docs, chart) ==
  LET month == IF chart.period = "LASTMONTH" THEN MonthOf[chart.date] - 1 ELSE MonthOf[chart.date]
      ofMonth == {d \in docs : MonthOf[d.day] = month}
  IN  {[day |-> x, count |-> Cardinality({d \in ofMonth : d.day = x})] : x \in {d.day : d \in ofMonth}}

\* The days of a chart have no createdAt to compare with a range of dates; with
\* a period and no filter, a last group answers how many days there are.
Charted(docs, o) ==
  LET days == IF o.dates = <<>> THEN DailyChart(InItsPeriod(Filtered(docs, o), o), o.view.chart) ELSE {}
  IN  IF days = {} \/ (o.filterBy = {} /\ o.period # <<>>) THEN Count(days) ELSE days

Plain(docs, o) ==
  IF docs = {} \/ (o.filterBy = {} /\ (o.period # <<>> \/ o.dates # <<>>)) THEN Count(docs) ELSE Listed(docs)

\* Mutation: the orders are not matched with the caller's entity.
ItemReportOfAll(books, who, o) ==
  LET docs == Selected(Of(books, "orders"), o)
  IN  CASE o.view.name = "grossSales" -> GrossSales(docs)
        [] o.view.name = "dailyChart" -> Charted(Of(books, "orders"), o)
        [] OTHER -> Plain(docs, o)

ItemReport(books, who, o) ==
  LET scope == InEntity(books, "orders", who.entity)
      docs == Selected(scope, o)
  IN  CASE o.view.name = "topRecords" -> TopRecords(books, docs)
        [] o.view.name = "slowMoving" -> SlowMoving(books, docs)
        [] o.view.name = "noMoving" -> NoMoving(books, docs)
        [] o.view.name = "grossSales" -> GrossSales(docs)
        [] o.view.name = "avgBasketSize" -> AvgBasketSize(docs)
        [] o.view.name = "dailyChart" -> Charted(scope, o)
        [] o.view.name = "plain" -> Plain(docs, o)

\* A release's gross sales add its own lines; an item that is gone is left out.
ReleasedSales(books, docs) ==
  {[item |-> i, lines |-> Cardinality(LinesOf(docs, i)),
    price |-> MapThenSumSet(LAMBDA l : l.line.amount, LinesOf(docs, i))]
    : i \in {j \in Items(docs) : Known(books, j)}}
ReleasedMost(books, docs) ==
  {[item |-> i, count |-> Cardinality(LinesOf(docs, i))]
    : i \in {j \in Items(docs) : WithId(books, "stockitems", j) # {}}}

ReleaseTransactionReport(books, who, o) ==
  LET scope == InEntity(books, "releasetransactions", who.entity)
      docs == Selected(scope, o)
      rows == CASE o.view.name = "topRecords" -> ReleasedMost(books, docs)
                [] o.view.name = "slowMoving" -> SlowMoving(books, docs)
                [] o.view.name = "noMoving" -> NoMoving(books, docs)
                [] o.view.name = "grossSales" -> ReleasedSales(books, docs)
                [] o.view.name = "dailyChart" -> Charted(scope, o)
                [] OTHER -> Plain(docs, o)
  IN  IF rows = {} THEN Count({}) ELSE rows

TopServiceSold(books, who, o) ==
  LET docs == CustomPeriod(InEntity(books, "orders", who.entity), o.dates)
      lines == UNION {{[doc |-> d, at |-> k, line |-> d.services[k]] : k \in DOMAIN d.services} : d \in docs}
  IN  {[service |-> s, total |-> MapThenSumSet(LAMBDA l : l.line.amount, {l \in lines : l.line.item = s})]
        : s \in {l.line.item : l \in lines}}

\* The quantity on hand is that of one of the item's places alone.
WastedItem(books, who, o) ==
  LET docs == CustomPeriod(InEntity(books, "wastetransactions", who.entity), o.dates)
      places(i) == UNION {WithId(books, "warehousestockitems", p) :
                            p \in UNION {s.places : s \in WithId(books, "stockitems", i)}}
  IN  {[item |-> i, waste |-> MapThenSumSet(LAMBDA l : l.line.amount, LinesOf(docs, i)),
        qty |-> IF places(i) = {} THEN <<>> ELSE <<ByAge(places(i))[1].qty>>] : i \in Items(docs)}

-----------------------------------------------------------------------------
(* Lists and details *)

Refused(code) == {[code |-> code]}

\* An owner without an entity is refused after the documents were read.
ForOwner(books, who, rows) == IF OwnedBy(books, "entities", who.id) = {} THEN Refused("055") ELSE rows

LogsList(books, who, o) ==
  {[id |-> p[1].id, role |-> p[2].role] :
    p \in {q \in Selected(Of(books, "syslogs"), o) \X Of(books, "users") : q[1].user = q[2].id}}

CustomersAccountReportSA(books, who, o) ==
  Listed(Between({u \in Of(books, "users") : u.role = "CUSTOMER"}, o.dates))
\* A business is shown the customers of all.
CustomersAccountReport(books, who, o) ==
  ForOwner(books, who, Listed(Between({u \in Of(books, "users") : u.role = "CUSTOMER"}, o.dates)))
ProfileRoles == {"CASHIER", "CHEF", "WAITER", "INVENTORYMAN"}
BusinessAccountReport(books, who, o) ==
  ForOwner(books, who, Listed(Between({u \in OwnedBy(books, "users", who.id) : u.role \in ProfileRoles}, o.dates)))

CouponsList(books, who) == ForOwner(books, who, Listed(OwnedBy(books, "coupons", who.id)))
WarehousesList(books, who) == ForOwner(books, who, Listed(WithId(books, "warehouses", who.warehouse)))
StockCategoryList(books, who) == ForOwner(books, who, Listed(InEntity(books, "stockcategories", who.entity)))
StockItemsList(books, who) == ForOwner(books, who, Listed(InEntity(books, "stockitems", who.entity)))
ServicesList(books, who) == Listed(InEntity(books, "services", who.entity))

Details(books, who, found, missing) ==
  IF found = {} THEN Refused(missing) ELSE ForOwner(books, who, Listed(found))
CouponDetails(books, who, id) ==
  Details(books, who, {d \in OwnedBy(books, "coupons", who.id) : d.id = id}, "086")
\* No transaction has the field owner, which the query then leaves out.
AddTransactionDetails(books, who, id) == Details(books, who, WithId(books, "addtransactions", id), "019")
ReleaseTransactionDetails(books, who, id) == Details(books, who, WithId(books, "releasetransactions", id), "019")
WasteTransactionDetails(books, who, id) == Details(books, who, WithId(books, "wastetransactions", id), "019")
AduitTransactionDetails(books, who, id) == Details(books, who, WithId(books, "audittransactions", id), "019")
ShrinkageTransactionDetails(books, who, id) == Details(books, who, WithId(books, "shrinkagetransactions", id), "019")
ReverseTransactionDetails(books, who, id) == Details(books, who, WithId(books, "reversetransactions", id), "019")
RefundTransactionDetails(books, who, id) == Details(books, who, WithId(books, "refundtransactions", id), "019")

-----------------------------------------------------------------------------
(* Reports that await more than one query *)

\* Customers by the category of the first item of their first order, over the
\* count of the business's customers; dividing by none fails.
\* Mutation: every item of the customer's orders, not the first of the first.
EveryItem(books, docs, customer) ==
  UNION {WithId(books, "stockitems", i) : i \in Items({d \in docs : d.customer = customer})}

FirstItem(books, docs, customer) ==
  LET sold == ByAge({d \in docs : d.customer = customer /\ d.items # <<>>})
  IN  WithId(books, "stockitems", sold[1].items[1].item)
CustomersIn(books, flag, docs) ==
  LET buyers == {d.customer : d \in {e \in docs : e.items # <<>>}}
      categories(c) == UNION {WithId(books, "stockcategories", s.category) : s \in FirstItem(books, docs, c)}
      found == UNION {{k \in categories(c) : k[flag]} : c \in buyers}
  IN  {[category |-> k.id, customers |-> Cardinality({c \in buyers : k \in categories(c)})] : k \in found}
CustomerCountIn(books, who, o, flag, all) ==
  LET rows == CustomersIn(books, flag, CustomPeriod(InEntity(books, "orders", who.entity), o.dates))
  IN  IF rows # {} /\ all = 0 THEN Refused("500") ELSE {[row |-> r, all |-> all] : r \in rows}
CustomerCountInSection(books, who, o, all) == CustomerCountIn(books, who, o, "section", all)
CustomerCountInDepartment(books, who, o, all) == CustomerCountIn(books, who, o, "department", all)
CustomersOf(books, who) == Cardinality(OwnedBy(books, "customers", who.id))

\* The first date is the business's, the date to compare with is everyone's.
FirstSales(books, who, o) ==
  GrossSales(FilterByPeriod(InEntity(books, "orders", who.entity), o.compare[1]))
SalesToCompare(books, o) == GrossSales(FilterByPeriod(Of(books, "orders"), o.compare[2]))
Compared(sales, first) ==
  LET of(rows, i) == {r \in rows : r.item = i}
      total(rows, i) == (CHOOSE r \in of(rows, i) : TRUE).totalAmount
  IN  {[item |-> i, variance |-> IF of(sales, i) = {} \/ of(first, i) = {} THEN 100
                                 ELSE total(sales, i) - total(first, i)]
        : i \in {r.item : r \in sales \union first}}

\* The items of the period, and for each of them its quantities by place.
PeriodItems(books, who, o) == ByAge(Between(InEntity(books, "stockitems", who.entity), o.dates))
Places(books, o, item) ==
  ByAge(Between({w \in Of(books, "warehousestockitems") : w.id \in item.places}, o.dates))
ItemQtys(books, o, item) ==
  LET places == Places(books, o, item)
  IN  [k \in DOMAIN places |-> [item |-> item.id, qty |-> places[k].qty]]
ItemWithZeroQtys(books, o, item) == SelectSeq(ItemQtys(books, o, item), LAMBDA row : row.qty = 0)
ItemMarginReport(books, o, item) ==
  LET places == Places(books, o, item)
  IN  [k \in DOMAIN places |-> [item |-> item.id, cost |-> places[k].cost, selling |-> places[k].price,
                                margin |-> places[k].price - places[k].cost]]

\* The second query asks for 'transactionId' where the schema says
\* transactionID, and so finds every deferred document of everyone.
Payables(books, who, o) == ByAge(Between(OwnedBy(books, "payables", who.id), o.dates))
Recievables(books, who, o) == ByAge(Between(OwnedBy(books, "recievables", who.id), o.dates))
WithDeferred(deferred, doc) ==
  [k \in DOMAIN deferred |-> [transaction |-> doc.transaction, now |-> doc.amount,
                              later |-> deferred[k].amount, total |-> doc.amount + deferred[k].amount]]
PayablesAndDeferred(books, doc) == WithDeferred(ByAge(Of(books, "deferredpayables")), doc)
RecievablesAndDeferred(books, doc) == WithDeferred(ByAge(Of(books, "deferredrecievables")), doc)
\* The sheet of the payables repeats the last row.
PayablesSheet(rows) == [k \in DOMAIN rows |-> Last(rows)]

\* The subscriptions of a period whose owner has completed the registration.
Subscriptions(books, dates) == ByAge(Between(Of(books, "subscriptions"), dates))
\* Mutation: the second loop forgets to ask for the owner's status.
PackageOfAnyOwner(books, sub, period) ==
  LET users == {u \in WithId(books, "users", sub.owner) : period = 2 \/ u.status = "COMPLETED"}
  IN  IF users = {} THEN <<>>
      ELSE <<[period |-> period, package |-> (CHOOSE u \in users : TRUE).package, known |-> TRUE]>>

PackageOf(books, sub, period) ==
  LET users == {u \in WithId(books, "users", sub.owner) : u.status = "COMPLETED"}
  IN  IF users = {} THEN <<>>
      ELSE LET user == CHOOSE u \in users : TRUE
           IN  <<[period |-> period, package |-> user.package,
                  known |-> WithId(books, "entities", user.entity) # {}]>>
Packages == {"CASHIER", "PRO_CASHIER", "PREMIUM_CASHIER"}
Sold(rows, period, package) ==
  Len(SelectSeq(rows, LAMBDA r : r.period = period /\ r.package = package))
SubscriptionRows(rows) ==
  {[package |-> p, data1 |-> Sold(rows, 1, p), data2 |-> Sold(rows, 2, p),
    variance |-> Sold(rows, 2, p) - Sold(rows, 1, p)] : p \in Packages}

Statistic(books, dates, name) ==
  CASE name = "Stores" -> Cardinality({e \in Between(Of(books, "entities"), dates) : e.type = "STORE"})
    [] name = "Restaurants" -> Cardinality({e \in Between(Of(books, "entities"), dates) : e.type = "RESTURANT"})
    [] name = "Customers" -> Cardinality({u \in Between(Of(books, "users"), dates) : u.role = "CUSTOMER"})
    [] name = "Revenue" -> MapThenSumSet(LAMBDA s : s.price, Between(Of(books, "subscriptions"), dates))

-----------------------------------------------------------------------------
(* The requests *)

\* What a report of one query answers, over the documents it is given.
Answer(books, of, who, o) ==
  CASE of = "items" -> ItemReport(books, who, o)
    [] of = "adds" -> AddTransactionReport(books, who, o)
    [] of = "audits" -> AuditTransactionReport(books, who, o)
    [] of = "releases" -> ReleaseTransactionReport(books, who, o)
    [] of = "reverses" -> ReverseTransactionReport(books, who, o)
    [] of = "shrinkages" -> ShrinkageTransactionReport(books, who, o)
    [] of = "wastes" -> WasteTransactionReport(books, who, o)
    [] of = "deferredPayables" -> DeferredPayableReport(books, who, o)
    [] of = "deferredReceivables" -> DeferredReceivableReport(books, who, o)
    [] of = "payables" -> PayableReport(books, who, o)
    [] of = "receivables" -> ReceivableReport(books, who, o)
    [] of = "logs" -> LogsList(books, who, o)

DatedAnswer(books, of, who, o) ==
  CASE of = "services" -> TopServiceSold(books, who, o)
    [] of = "wasted" -> WastedItem(books, who, o)
    [] of = "profiles" -> BusinessAccountReport(books, who, o)
    [] of = "customers" -> CustomersAccountReport(books, who, o)
    [] of = "customersSA" -> CustomersAccountReportSA(books, who, o)

ListAnswer(books, of, who) ==
  CASE of = "couponsList" -> CouponsList(books, who)
    [] of = "warehousesList" -> WarehousesList(books, who)
    [] of = "categoriesList" -> StockCategoryList(books, who)
    [] of = "itemsList" -> StockItemsList(books, who)
    [] of = "servicesList" -> ServicesList(books, who)

DetailsAnswer(books, of, who, id) ==
  CASE of = "coupon" -> CouponDetails(books, who, id)
    [] of = "add" -> AddTransactionDetails(books, who, id)
    [] of = "release" -> ReleaseTransactionDetails(books, who, id)
    [] of = "waste" -> WasteTransactionDetails(books, who, id)
    [] of = "audit" -> AduitTransactionDetails(books, who, id)
    [] of = "shrinkage" -> ShrinkageTransactionDetails(books, who, id)
    [] of = "reverse" -> ReverseTransactionDetails(books, who, id)
    [] of = "refund" -> RefundTransactionDetails(books, who, id)

OfBusiness == {"items", "adds", "audits", "releases", "reverses", "shrinkages", "wastes",
               "deferredPayables", "deferredReceivables", "payables", "receivables"}
OfEveryone == {"logs"}
DatedOfBusiness == {"services", "wasted", "profiles"}
DatedOfEveryone == {"customers", "customersSA"}
Lists == {"couponsList", "warehousesList", "categoriesList", "itemsList", "servicesList"}
DetailsOf ==
  [coupon |-> "coupons", add |-> "addtransactions", release |-> "releasetransactions",
   waste |-> "wastetransactions", audit |-> "audittransactions", shrinkage |-> "shrinkagetransactions",
   reverse |-> "reversetransactions", refund |-> "refundtransactions"]

Step(name) == <<[step |-> name]>>
Each(docs) == [k \in DOMAIN docs |-> [step |-> "each", doc |-> docs[k]]]

\* The queries a longer report awaits one after another.
Awaits ==
  [section |-> Step("customers") \o Step("orders"), department |-> Step("customers") \o Step("orders"),
   comparison |-> Step("first") \o Step("second"),
   itemQtys |-> Step("items") \o Step("owner"), zeroQtys |-> Step("items") \o Step("owner"),
   margins |-> Step("items") \o Step("owner"),
   payablesLists |-> Step("documents") \o Step("owner"), recievablesLists |-> Step("documents") \o Step("owner"),
   subscription |-> Step("period") \o Step("period") \o Step("sheet"),
   statistics |-> Step("Stores") \o Step("Restaurants") \o Step("Customers") \o Step("Revenue")]

Asked(of, who, o, rest, rows) ==
  /\ report = NoReport
  /\ report' = [of |-> of, who |-> who, o |-> o, rest |-> rest, rows |-> rows, sum |-> 0,
                before |-> writes, packages |-> 0]
  /\ UNCHANGED <<db, writes>>

Ask(who, o) ==
  \/ \E of \in OfBusiness \union OfEveryone : Asked(of, who, {}, <<>>, Answer(db, of, who, o))
  \/ o.dates # <<>> /\ \E of \in DatedOfBusiness \union DatedOfEveryone :
                          Asked(of, who, {}, <<>>, DatedAnswer(db, of, who, o))
  \/ \E of \in Lists : Asked(of, who, {}, <<>>, ListAnswer(db, of, who))
  \/ \E of \in DOMAIN DetailsOf : \E d \in Of(db, DetailsOf[of]) :
       Asked(of, who, {}, <<>>, DetailsAnswer(db, of, who, d.id))
  \/ o.dates # <<>> /\ o.compare # <<>> /\ \E of \in DOMAIN Awaits : Asked(of, who, o, Awaits[of], <<>>)

-----------------------------------------------------------------------------
(* The queries of a longer report *)

Reading == report.of # "none" /\ report.rest # <<>>
Sent == report.of # "none" /\ report.rest = <<>>
At(reports, step) == Reading /\ report.of \in reports /\ Head(report.rest).step = step
Visited == Head(report.rest).doc

Continue(rest, rows, sum) ==
  /\ report' = [report EXCEPT !.rest = rest, !.rows = rows, !.sum = sum]
  /\ UNCHANGED <<db, writes>>
ThenEach(docs) == Continue(Each(docs) \o Tail(report.rest), report.rows, report.sum)
Append1(rows) == Continue(Tail(report.rest), report.rows \o rows, report.sum)
Answered(rows) == Continue(<<>>, rows, report.sum)

ReadCustomerCount ==
  \/ At({"section", "department"}, "customers")
       /\ Continue(Tail(report.rest), <<>>, CustomersOf(db, report.who))
  \/ At({"section"}, "orders") /\ Answered(CustomerCountInSection(db, report.who, report.o, report.sum))
  \/ At({"department"}, "orders") /\ Answered(CustomerCountInDepartment(db, report.who, report.o, report.sum))

ReadComparison ==
  \/ At({"comparison"}, "first") /\ Append1(<<FirstSales(db, report.who, report.o)>>)
  \/ At({"comparison"}, "second") /\ Answered(Compared(SalesToCompare(db, report.o), report.rows[1]))

ReadItems ==
  \/ At({"itemQtys", "zeroQtys", "margins"}, "items") /\ ThenEach(PeriodItems(db, report.who, report.o))
  \/ At({"itemQtys"}, "each") /\ Append1(ItemQtys(db, report.o, Visited))
  \/ At({"zeroQtys"}, "each") /\ Append1(ItemWithZeroQtys(db, report.o, Visited))
  \/ At({"margins"}, "each") /\ Append1(ItemMarginReport(db, report.o, Visited))

ReadMoney ==
  \/ At({"payablesLists"}, "documents") /\ ThenEach(Payables(db, report.who, report.o))
  \/ At({"recievablesLists"}, "documents") /\ ThenEach(Recievables(db, report.who, report.o))
  \/ At({"payablesLists"}, "each") /\ Append1(PayablesAndDeferred(db, Visited))
  \/ At({"recievablesLists"}, "each") /\ Append1(RecievablesAndDeferred(db, Visited))

\* The asker's entity, and for the items the warehouse, are looked up last.
ReadOwner ==
  /\ Reading /\ Head(report.rest).step = "owner"
  /\ Answered(
       CASE OwnedBy(db, "entities", report.who.id) = {} -> Refused("055")
         [] report.of \notin {"payablesLists", "recievablesLists"}
              /\ WithId(db, "warehouses", report.who.warehouse) = {} -> Refused("500")
         [] report.of = "payablesLists" -> PayablesSheet(report.rows)
         [] OTHER -> report.rows)

\* The first of the two periods is that of dates, the second that of dates2.
SecondPeriod == Len(SelectSeq(report.rest, LAMBDA s : s.step = "period")) = 0
ReadSubscription ==
  \/ At({"subscription"}, "period")
       /\ ThenEach(Subscriptions(db, IF Tail(report.rest) = Step("sheet") THEN report.o.dates2 ELSE report.o.dates))
  \/ /\ At({"subscription"}, "each")
     /\ LET row == PackageOf(db, Visited, IF SecondPeriod THEN 2 ELSE 1)
        IN  IF row # <<>> /\ ~row[1].known THEN Answered(Refused("500")) ELSE Append1(row)
  \/ At({"subscription"}, "sheet") /\ Answered(SubscriptionRows(report.rows))

ReadStatistics ==
  /\ Reading /\ report.of = "statistics"
  /\ LET name == Head(report.rest).step
     IN  Append1(<<[name |-> name, value |-> Statistic(db, report.o.dates, name)]>>)

\* The packages a write is about: itself, or every package of the user written,
\* of whom createPackage may have made several.
PackagesOf(d) ==
  CASE d.in = "subscriptions" -> 1
    [] d.in = "users" -> Cardinality({s \in Of(db, "subscriptions") : s.owner = d.id})
    [] OTHER -> 0

\* The other requests, of anyone, while the report awaits a query.
Wrote(d) ==
  /\ writes' = writes + 1
  /\ report' = [report EXCEPT !.packages = @ + PackagesOf(d)]
Save(d) ==
  /\ Reading /\ writes < MaxWrites /\ d \notin db
  /\ db' = {e \in db : e.in # d.in \/ e.id # d.id} \union {d}
  /\ Wrote(d)
Delete(d) ==
  /\ Reading /\ writes < MaxWrites
  /\ db' = db \ {d}
  /\ Wrote(d)

Deliver == Sent /\ report' = NoReport /\ UNCHANGED <<db, writes>>

Init == db \in Books /\ report = NoReport /\ writes = 0

Next ==
  \/ \E who \in Askers, o \in Options : Ask(who, o)
  \/ ReadCustomerCount \/ ReadComparison \/ ReadItems \/ ReadMoney \/ ReadOwner
  \/ ReadSubscription \/ ReadStatistics
  \/ \E d \in Documents : Save(d)
  \/ \E d \in Documents \intersect db : Delete(d)
  \/ Deliver

Spec == Init /\ [][Next]_vars

-----------------------------------------------------------------------------
(* Properties *)

\* What a business is told is a matter of its own documents: the reports scoped
\* by the caller answer the same over the caller's documents alone, whatever
\* the other businesses have sold, issued, owed and deleted.
OwnDocuments(who) ==
  {d \in db : \/ d.entity = who.entity
              \/ d.owner = who.id
              \/ d.in = "warehousestockitems"
                   /\ \E s \in InEntity(db, "stockitems", who.entity) : d.id \in s.places}
ReportsAreTheOwners ==
  report = NoReport => \A who \in Askers :
    /\ \A of \in OfBusiness, o \in Options :
         Answer(db, of, who, o) = Answer(OwnDocuments(who), of, who, o)
    /\ \A of \in DatedOfBusiness, o \in {p \in Options : p.dates # <<>>} :
         DatedAnswer(db, of, who, o) = DatedAnswer(OwnDocuments(who), of, who, o)

\* The days of a month's chart add up to the count of that month in the same
\* report, which is computed by another pipeline.
Total(rows) == MapThenSumSet(LAMBDA r : r.count, rows)
OfMonth(o, date, view) ==
  [o EXCEPT !.filterBy = {}, !.dates = <<>>, !.view = view,
            !.period = IF view.name = "plain" THEN <<[period |-> "MTD", date |-> date]>> ELSE <<>>]
DaysAddUp ==
  report = NoReport => \A who \in Askers, o \in Options, date \in DOMAIN MonthOf :
    Total(ItemReport(db, who, OfMonth(o, date, [name |-> "plain"])))
      = Total(ItemReport(db, who, OfMonth(o, date,
                [name |-> "dailyChart", chart |-> [period |-> "MTD", date |-> date]])))

\* Asked about the same dates twice over, the subscription report finds no more
\* difference between its two periods than the writes made while it read them
\* were about packages: none at all when it is alone, one for a package written,
\* and for an owner written one for each package that owner then has.
VarianceIsOfTheWrites ==
  (Sent /\ report.of = "subscription" /\ report.o.dates = report.o.dates2) =>
    \A row \in {r \in report.rows : "package" \in DOMAIN r} :
      -report.packages <= row.variance /\ row.variance <= report.packages

\* Where every buyer is one of the business's customers, the categories of a
\* section report share out no more customers than there are, but for those who
\* came or left while it was read: a customer counts in one category only, that
\* of the first item bought.
Meanwhile == writes - report.before
Buyers(who) == {d.customer : d \in InEntity(db, "orders", who.entity)}
SharesAddUp ==
  /\ Sent /\ report.of \in {"section", "department"}
  /\ Buyers(report.who) \subseteq {c.id : c \in OwnedBy(db, "customers", report.who.id)}
  => LET shares == {r \in report.rows : "row" \in DOMAIN r}
     IN  MapThenSumSet(LAMBDA r : r.row.customers, shares) <= report.sum + Meanwhile
=============================================================================

# Verification of the e-commerce backend

This directory is the verification project of the NestJS backend in
`src/src` (its libraries are in `src/libs`). It models the parts of the program
where several documents must agree while requests overlap, fail half-way or are
retried; TLC checks the models on small instances, and TLAPS proves the most
important invariants for all instances. Paths below are relative to `src/src`.

All the state of the program is in MongoDB. A request is an `async` handler of
one process: between two `await`s of one request any other request may run. Most
handlers read documents, compute in memory and write back what they computed.
Only the inventory services and three registrations use a session, and the
registrations in vain: `BaseService.create`, `update` and `updateOne`
(`core/shared/base.service.ts` 352, 423, 447) ignore their options.

## Inventory

| component | state it keeps | operations | what is hard about it |
|---|---|---|---|
| inventory services: `add-`, `release-`, `refund-`, `reverse-`, `waste-`, `shrinkage-`, `audit-transaction(s)` | `qtyOnHand` of every warehouse stock item; the ledger (`stockItemTransactions`: each entry has `qty` and `qtyRemaining`); one header document per request | one `create...` handler each, two for reversals | reads without the session of the writes; conflicts and retries of the callback, whose outer variables survive; decrements that are not awaited; header outside of the transaction; quantities that only have to be numbers |
| orders: `order` | orders (status, items); `qtyOnHold` | `createOrder`, `activeOnholdOrder`, `cancelOnHoldOrder`, `refundOrder`, `returnOrder` | no session at all; loops over the items that stop half-way; calls to the inventory before and after the checks |
| coupons: `coupons` | limit, `userIds`, `used`, `status`, `expireOn` | single and multiple creation, update, activation, redemption by `calculateTotalPrice` of an order, hourly job | find, push and mark are three calls; the limit is compared by equality |
| carts and customer orders: `cart`, `customer-order` | one cart per customer: entity, elements, `subTotal` | add, delete, increase, decrease, and emptying by an order | `subTotal` written blindly from a first read, elements updated by position after a second one; quantities of nothing and fractions |
| packages and profiles: `subscribtion`, `users` | package (users, plan, extra limit, price), a copy of it in the owner, the staff | create, upgrade, extra limit, add, remove, `createProfile`, `renewUser`, `deactiveUser`, two jobs | checks on the copy of the owner made at authentication; two documents without a session; evictions and deactivations one by one; a deactivation forgets the package |
| users and authentication: `users`, `auth`, `config` | users, email tokens | sign-up, sign-in, verification, password and email change, deactivation, two jobs | check-then-create; a token is found and then removed |
| registrations: `Entities`, `customer`, `suppliers` | entities, customers, suppliers | create and edit, one job | seven writes in a transaction none of them belongs to |
| stock items: `stock-item-data`, `stock-category`, `warehouse-management` | stock items and the places they are kept in (`warehousestockitems`), categories, warehouses | create, import, assign, remove, edit, two jobs | two documents without a session; two handlers whose rejections nobody handles, so that the process exits under the others |
| tables, services | tables, services | create, edit, delete | check-then-create |
| money: `payable`, `receivable`, `deferred-*`, `notes`, `payment`, `purchase-order`, `qoutation` | one document per request | create, list, a few edits | none |
| reports: `report` | none | thirty reports and details, for a business or for the administrator | chains of queries with other requests between them; a condition repeated by hand that scopes each to one business; weeks and months compared by their numbers |
| searches: a `findAll` in every service, `core/shared/base.service.ts` | none | a pipeline per handler, one page a request | pages of a collection that changes; stages that match after others dropped the field |
| notification, firebase, SMS, mail | messages | calls of services | nothing waits for them |
| upload, tutorial, sysLog | files, logs | store, list | none |
| core, state machine library | none | one database call a method | ignored options, see above |

The parts meet in these places. An order calls `releaseTransactions`,
`refundTransactions` and the coupon service, and looks up tables by code. A
customer order does what an order does and empties a cart. Every inventory
service writes `qtyOnHand`, which orders read before they put `qtyOnHold`. Verification
of an email makes the cart of a customer. A registered entity ends what the
package of its owner began (`PENDING`, `PAID`, `COMPLETED`).

What makes each part correct:

- inventory: as long as no negative quantities come in, `qtyOnHand` is never
  negative, the ledger never owes stock, and the two agree; a transaction leaves all
  or nothing, and every request is answered;
- orders: what is on hold is what on-hold orders ask for, an order is released
  once, a closed one stays closed, and a refund gives back what was released;
- coupons: within the limit, once for each customer, no discount unrecorded, full
  and expired coupons closed;
- carts: an element is worth what it holds, `subTotal` is the sum, one entity only;
- packages: within the limit, active staff are members and members active, the two
  copies agree;
- onboarding: what a status promises exists before the status is written, one cart
  for a code, and the status of an owner allows a next step;
- searches: a listing holds what matches the caller and the options, and its pages
  together hold what it counts;
- stock items: an item names the places it has, and what is ordered for it is short;
- reports: a business is told of its own documents, two reports of the same sales
  agree, and the parts of one report agree but for what changed meanwhile.

`PROJECT.json` lists the hazards at their lines, with the properties that watch
over each one or the reason why none does.

## Modules

Order of construction, each with what it composes:

1. `StockSession`: the collections and the session. `qtyOnHand`, `ledger`,
   `headers` are the documents; `tx[r]` is what an open transaction has written and
   `base[r]` what it saw first; `kept[r]` holds the variables outside the callback,
   `local[r]` those inside. `Set` is a write with the session, `Commit` the commit,
   and a write that conflicts starts the callback again.
2. `AddTransactions`, `ReleaseTransactions`, `RefundTransaction`,
   `ReverseTransaction`, `WasteTransaction`, `ShrinkageTransaction`,
   `AuditTransactions`: one service each, one action for each awaited call. They
   extend `StockSession`; `StockTransactions` composes all of them, adds the exit
   of the process, and states the properties. A line's quantity is an integer:
   `Accepts` says which dtos let it be negative (all but those of waste, shrinkage
   and audit, which have `@IsPositive`).
3. `Orders`: the five handlers of `order.service.ts` and the order of a customer,
   which is on hold whatever its dto says. An inventory service is one
   call here, which is refused or moves the stock of its lines.
4. `Coupons`: coupon handlers, the redemption inside of an order, and the job.
5. `Cart`: the five handlers that write a cart, repricing, and the end of a
   customer order. A quantity counts parts of a unit, `Unit` of them to one, as
   `AddItemDto` takes any number from 0 up while handlers add and take off whole units.
6. `Subscriptions`: packages, their copy in the owner, and profiles, with the
   activation and deactivation of an owner and all the staff (`deactiveUser`). An
   `extraLimit` counts parts of a user for the same reason, and an owner may bring one
   from sign-up (`SignedUp`). `Arrays` is the `$pull` of carts, packages and stock items.
7. `UserLifecycle` and `Onboarding`: the first is abstract, and says that a user
   is told to be somewhere only after obtaining what it takes: a cart, a package,
   the papers of an entity, the entity. The second models how `users`,
   `subscribtion` and `entity` services write that from three sides: sign-up, codes
   mailed, expiring and used, the cart of a customer, the package, and the documents
   of `createEntities`. `Lifecycle` is its refinement mapping; the price and the
   users of a package are in `Subscriptions`, which in turn keeps only the last write
   of `createEntities`.
8. `Pipelines` and `Listings`: the stages of an aggregation as functions of a
   sequence of documents (a document is a function from fields to sets of values),
   and the search handlers of all services as the pipelines they build. The state is
   the database and one client's `walk`: it asks for a page, others create and remove
   documents, and it asks for the next page.
9. `Reports`: every report a route reaches, as an operator of the books (a set of
   documents of all collections), the caller and the options. Reports of one query
   answer in one state; the ones that await several are read step by step into
   `report`, while `writes` counts what others save and remove, and
   `report.packages` the packages that was about.
10. `Catalogue`: the handlers that write stock items and their places, and the daily
   job. `Exit` is what follows a rejection nobody handles: the job causes one when its
   upload ends, or at an item without a place, an import at a missing column.

`MC...` modules give the constants values; `...Proofs` modules hold theorems.

Two kinds of state variable occur everywhere. `pc[r]` is the next awaited call of
request `r`: `"idle"` before it arrives, and a final value after its answer.
`call[r]` is its dto with what the guard attached to it, and `local[r]` the
variables of its handler that a later step uses. `Move` leaves the documents
alone, `Fail` answers with an exception and undoes nothing.

What is abstracted: names, messages, mails, taxes, dates other than expiry of
coupons, and prices where no property is about them. Roles that only forbid a
request are taken as passed. A check that two handlers make on fields nothing
else in the model touches is a free choice between refusing and going on.
Documents are looked up in natural order, as `findOne` does without a sort.

Mutations are definitions next to the one they change, under a comment that
begins with "Mutation"; no action uses them.

## Runs

| run | instance | shows |
|---|---|---|
| `stock_checked_writers` | 3 requests, one item, two entries, five handlers that check what they take; the same item twice in a dto, and a negative quantity; two attempts | `qtyOnHand` never negative, headers and entries together, under any interleaving, conflict, retry and exit |
| `stock_serial_books` | 3 requests one after another, two items (FIFO, LIFO), a missing document, negative quantities of one item | `qtyOnHand` and ledger agree; entries are drained as they should |
| `stock_all_handlers` | 2 requests of every kind at once under fairness, two items, releases over two entries, negative quantities of one item | each is answered; bills are right without a retry; what is left of an entry stays between nothing and its quantity |
| `orders` | 3 requests, 2 items, 2 warehouses: four kinds two at a time; one at a time all that open or close an order on hold, orders of customers and a dto that says RETURN among them, and all handlers of `order.service.ts`, with empty dtos | no negative hold, nothing refunded that was not released; holds match but for what customers ordered without one, sold once, closed stays closed |
| `orders_leave_their_graph` | 3 overlapping requests under fairness | a disagreement: VOID to ACTIVE |
| `coupons` | up to 4 requests and the job under fairness: two at a time, three at a time, and one at a time with an owner who edits | every discount recorded, only full coupons used, full ones marked, expired ones closed; once for each customer, within the limit |
| `carts` | 4 requests, two entities; two at a time with elements of nothing, and with a unit and a half; one at a time with whole units, and with nothing, fractions and two prices | elements agree with themselves; the sum, one entity, the right cart emptied |
| `packages` | any number of requests, three profiles; two at a time for an owner who signed up with half a user more; one at a time with two plans and none, half of and one extra user at sign-up or later, once without deactivations, once without what makes others active | overshoot is bounded, nothing dangles; limit, activity, prices |
| `onboarding` | any number of requests, two users, two codes, two names; customers two at a time, owners two at a time, all one at a time with and without mails repeated | `UserLifecycle` is implemented; carts, packages and documents come first and stay few; the status of an owner allows a next step |
| `listings` | every search handler, 4 documents in each of 31 collections, a new one, two callers, all combinations of options, pages of 1 and 2, two writes | a listing is what matches; paging misses and repeats only what it must |
| `reports` | two businesses, about 50 documents around a turn of the year, an owner of two packages, two writes between any two queries | reports are the owner's; days add up to months; differences and shares account for the writes |
| `catalogue` | 3 requests: three at a time for one item in two warehouses, two at a time with edits, imports and creations among categories; an item in no warehouse; the job once, at any time | items and places name each other but for what is explained; what the job orders is short |

Every run of requests says how many are served at a time: by `MaxInFlight` in the
stock modules, elsewhere by the `load` a behaviour starts with and keeps, so that
one run goes through several. In `Subscriptions` and `Onboarding` a request in `Requests` is a place
to be served in, used again and again; elsewhere it is one call. Properties whose name ends in `WhenSerial` are about one request at a
time: with two the code breaks them, which the hazards say at the lines where it
happens. They are not weak for that: they still speak of every sequence of
requests, of refusals half-way and mostly of exits, where a request leaves the
next one what it has written.

Bounds, and why they are enough. Two requests suffice for a lost update and three
for one that is lost behind a retry or a second writer; the stock runs use three
where all of them write. `MaxAttempts` is 2: a callback that is called again shows
every effect of surviving variables, a third call only repeats it. Dtos have at most
two lines, as loops distinguish the first line, the next one, and the last.
Quantities of stock are 1 to 3, so that a line can be less than, equal to and more
than an entry, and -1. In carts and extra limits `Unit` is 2: one part is a fraction
that rounds both ways, and 3 parts leave one behind when a unit is taken off. Two
warehouses and two entities are the smallest numbers where "the other one" exists.
Coupon limits are 0 and 1, and 2 by an edit: none, the boundary at the first use, and
one use short of the boundary. In most runs without liveness requests are interchangeable
(`SYMMETRY`), in `packages` profiles as well. Deadlock checking is off everywhere,
because a finite number of requests ends (and a server at rest may stay at rest).

Fairness. `FairSpec` has weak fairness of each step of a request and of each
floating decrement: the driver answers or times out, and Node runs every callback
whose promise is settled. In `Coupons` it also has it for the job,
which `@Cron` starts again whatever became of the last run; the clock may stop. A transaction is
retried at most `MaxAttempts` times, as `withTransaction` gives up after its time
limit. Nothing is assumed of arrivals and exits. `orders_leave_their_graph` uses
fairness of the handlers only so that its counterexample does not rest on a
request that stops.

## Findings

- `order.module.ts` 57-66 lets an order become ACTIVE or VOID from ONHOLD alone.
  `activeOnholdOrder` writes `dto.orderStatus` long after it found the order
  ONHOLD, and `cancelOnHoldOrder` writes VOID likewise, so two requests take an
  order from VOID to ACTIVE.

Other things were met that no document of the repository speaks of, so that no run
refutes anything. A second code, mailed before the first was used or for a
forgotten password, can be used to verify an email again, and takes an owner who
has paid back to PENDING: the package is then refused with 082 and the entity with
054 (`users.service.ts` 356-366). An exit between the two writes of
`createPackage` leaves an owner in the same place. `StatusTellsWhenSerial` is about
owners to whom neither has happened. Of the lines of an order `releaseActiveItems`
releases the last one only (`order/order.service.ts` 616). Two full withdrawals of
one order that overlap both find it ACTIVE (936), and give its stock back twice.

Numbers are validated as numbers alone in places. The quantity of an add, a refund, a
release and a partial reversal may be negative
(`add-transactions/dto/create-add-transactions.dto.ts` 58,
`release-transactions/dto/create-release-transactions.dto.ts` 23): a negative add
leaves a negative `qtyOnHand` and an entry below nothing, a negative release fills an
entry beyond its quantity, or raises `qtyOnHand` without any entry. The properties of
stock hold for the items no such call has named (`Unsigned`), and the runs have
calls of both kinds. A quantity in a cart may be 0 or a
fraction (`cart/dto/add-item.dto.ts` 17): a decrease pulls an element of a
unit or less, and takes the price of a whole unit off `subTotal` (`WholeUnits`). An
extra limit may be a fraction and then admits a whole user, priced as the part it is.

`deactiveUser` (`users/users.service.ts` 776) makes an owner and all the staff inactive
and leaves `package.users` as it is, and makes staff active who are in no package.
`createPackage` finds and then creates, and two of them leave an owner two packages
(`subscribtion/subscribtion.service.ts` 93): each counts in the report of subscriptions.

Of stock items: the daily job compares all quantities of an item with all its points
as two arrays, so that a second place that is short is missed when the first one is
not, or is at its point exactly; an item without a place stops its loop, for good.
Its last line reports to a response that is not there, and so ends the process every
night. The creation of an item is refused for the name of any category of any
business, and leaves the place it made.

In the searches: the listing of stock items unwinds their warehouses first, and counts
an item once for each of them; `findAllInBranch` takes a warehouse and ignores it
(`stock-item-data.controller.ts` 102-119); most listings sort by `index`, which no
schema has; a search term for purchase orders makes an empty `$or`, which the
database refuses; one for payables and receivables compares text with ids.

In the reports: the details of a transaction ask for an `owner` transactions do not
have, so that mongoose drops the condition and any business is answered (2519-2613 of
`report/report.service.ts`); the lists of debts join on `transactionId`, where the
schema has `transactionID`, and pair every debt with every deferred one (2155, 2239);
the waste report of a business is asked for with the user's id (`report.controller.ts`
105) and is always empty; the total of an order is added once for each of its lines
(296-340); the report of unmoved items lists all items (542-600); the week of moment
is compared with the week of the database (`base.service.ts` 93-140); a release
report asked for as a sheet is answered twice (982-997); a list includes the last date
where its count does not.

## Proofs

| module | theorem | argument |
|---|---|---|
| `StockLedgerProofs` | `TypeCorrectness` | `TypeInv` is `TypeOK` and `LineOK`: a request in the loop is at a line its dto has, and the item of that line has a document. Without `LineOK` the types of what a step reads do not follow. |
| | `NeverNegative` | `QtyInv` adds that what a transaction is about to commit to a `qtyOnHand` is not negative, and what a request remembers of one neither: handlers check it (`Checked`) before they write, and an add or a refund adds a quantity that is none below zero. |
| | `AllOrNothing` | `HeadInv` follows the entries a transaction has made until its commit: they have no reference before the header step, and name the header after it; committed ones belong to a request past its commit. |
| | `LedgerNeverOwes` | `TakesInv`: what a transaction writes of an entry is between nothing and its quantity (`Fits`), because a handler has copied the entry (`Copied`) and takes the lesser of what the copy has and what is left to take, which is never negative for an item no call names with a negative quantity (`Unsigned`, a condition on calls that once false stays so). Copies may be stale: quantities never change, so that a stale write fits still. |
| | `BilledOnce` | `BillInv`: before the commit nothing is charged, the lines counted outside of the callback are those before the present one, and at the commit what is charged and what the transaction will charge make all lines; a retry ends the claim for the request. |
| | `BooksAgree` | `BookInv` is about the two books as they will be when the request at work commits (`QtyView`, `Left(View(r), ..)`): they agree but for what its line has moved in one of them and not in the other yet (`Owed`), and for the decrements it has left floating (`Balance`). That needs to know that what a line reads none before it has written, because no item comes twice (`WritesOf`, `Fresh`), and that a callback which still has to take something holds copies of all entries that are not empty (`LocalOf`); with `LedgerNeverOwes` entries then suffice for what it takes. The sums of the ledger change by the lemmas of `ArraysProofs`. |
| `OrdersProofs` | `OrdersTypes`, `HoldsNeverNegative` | `HoldInv`: what `retrieveQtyOfOnHoldItems` remembers was at least the qty it takes, so the difference it writes is not negative whatever happened in between. |
| | `SoldOnce`, `ClosedOrdersStay` | `Frame` says of every step what it may touch: its own request and the order it names, that one only in the last step. `SerialInv` adds which orders a request may name (`NamedInv`), that one at work alone finds its order as it left it (`FoundInv`), and that an order sold is on hold no more (`SoldInv`); a closed one is then none a handler can have found. |
| | `RefundsWereReleased` | No serialisation is needed: a request that sells has released its line before it writes the order (`Paid`), an active order of one line therefore had it released, and what a refund has found is covered by it forever, as ledgers only grow (`CoveredAll`). |
| | `HoldsMatchOrders` | `BalanceInv`: for each document of the warehouse in use, what is on hold is what on-hold orders owe, less what customer orders came without, plus what the request at work has moved so far (`Moved`, a sum up to its line). `PlaceInv` says what it has read of the order and of the document still is so, and `TheDocument` that the one it has found is the one in use; its last write settles what it has moved (`WritesSettle`). |
| `CouponsProofs` | `MarkedWhenFull`, `EveryDiscountIsRecorded` | `IInv`: what a request found at the step where it stands still holds (`Backed`: one about to mark a coupon knows it full), because a step takes back neither a limit nor a user of a coupon and marks only a full one (`Grows`). `RInv` counts for each coupon and customer the redemptions that are past their push: at most as many as the list has entries, since a step adds one to the first only as it adds one to the second. |
| | `OncePerCustomer`, `LimitRespected` | One request at work is `alone`: what it read of a coupon is what the coupon says. `OnceInv`: it pushes a customer it has not found in the list. `LimitInv`: below the limit before the push, and a full coupon is marked, or is about to be by the one at work. |
| `CartProofs` | `CartItemsAreWorth` | `CInv`: with the elements of the cart, the item a request has computed and not written yet is worth its parts (`Holds`), and holds nothing only where nothing may be added (`Amount`). `Worth` also says the price is one there is: with fixed prices it is that of the element a positional update hits, which need not be the one that was read. |
| | `CartsAreForOneEntity`, `OrdersEmptyTheirCart` | `SerialInv`: one request at work finds the cart as it left it (`Stands`), so that what it pushes is not there yet and of the cart's entity, and an order has compared the entity of the cart it empties. |
| | `SubTotalsAddUp` | `SumInv`: the `subTotal` a request has computed and not written yet is that of the cart with the element it is about to push, set or pull (`Owes`), as it is where a request at work alone stands; one update then writes both. With the sums of `ArraysProofs`, appending, replacing and pulling an element change the total by that element's. |
| `SubscriptionsProofs` | `MembersExist` | `SoundInv`: what must be there for a request to stand where it stands (`Found`) stays, as no step deletes a package or a user. `Step` says what a step of a handler does by what it leaves behind, and all theorems below rest on it alone. |
| | `OvershootBounded` | `BoundInv` counts the requests past the check of the limit (`Pushers`): users and pushers together are less than limit and overlap. To pass the check is to find room for one, with all other pushers at work; to push takes one from the pushers and gives it to the users. |
| | `PricesAgree`, `WithinLimit`, `MembersAreActive` | What holds at rest does not hold between two writes: `Halfway` says what the package is then in terms of the call; `Fits` that the users of a package lowered below its number are those still to be evicted, each found under a place of its own; `ActiveAt` who is ahead of the list, or behind it, by one step (`Are`: active staff and users are compared in the direction the handlers in use keep). |
| `ArraysProofs` | lemmas | `PullLeaves`: what `$pull` leaves are the elements of the array that are not taken, each from a place of its own. `Pull` is defined by the places that stay (`NthIsAPlace`: counting the places up to each is a bijection), as a recursive `SelectSeq` would need induction; `AtLeaves` and `AtAll` say the same of any places that stay. The sums of `SumFunctionOnSet` over a finite set: that they exist and are unique is shown by a least subset where they would not be (`SumExists`, `SumUnique`), and from there how they change with one element (`SumTake`, `SumPut`, `SumTrades`) and that they do not depend on names (`SumRenamed`). |
| `OnboardingProofs` | `OnboardingTypes`, `StatusIsBacked`, `CustomersHaveCarts`, `ImplementsLifecycle` | `Inv` says of each request what it must have done, or was told on arrival, by the time it stands where it stands (`Backed`); `Grows` says no step takes any of it away, so that only the step's own request has to be looked at. The refinement follows: each step obtains one thing, tells one user, or is not seen. |
| | `StatusTells`, `StatusAdvances` | `SerialInv`: a code that is stored is the only one of its user, who has not used it and was told nothing since (`Fresh`), and one at work finds its user so. `TellsInv`: the status tells what each owner has, but for the one being sold to or opened for. |
| | `CartsAreCounted` | `CartsInv`: the carts of an email and the requests about to create one (`Pending`) are at most those at work at once, for each code spent: a request spends a code before, and those that found it with it are at work with it. |
| `CatalogueProofs` | `TypeCorrectness` | `TypeInv` is `TypeOK` and `LineOK`: a request has selected nothing before its first answer, and an import writes a row its file has. |
| | `PlacesAgree` | `PlacesAndItemsAgree` is not inductive: a step could make a document under the id of an older one, or delete a place a second item names. `NamesInv` excludes both: an id that an item names is of the past (`Past`: the request whose number it bears will not make it again, or not in a later line), no two items share an id or a place. `RequestInv` adds what stands between two writes: a place is there and bears its request's id (`OwnId`) until its item is written; one being taken out is named by the item of the call alone, and gone once it is deleted. |
| | `PurchasesAreShort` | `JobInv`: each entry the loop still has to do is short in its first place (`ShortFirst`), and what it saves has one. If all places have a point, the two arrays of `$lte` are as long as each other, so that the first elements differ in favour of the point, or are the same. |

The theorems need the assumptions the modules name and no others. Constants are well
typed, bounds and `Unit` positive. The inventory has dtos that are not empty, with any
integers as quantities, and its opening stock is what the opening entries brought
(`OpeningAgrees`); quantities in carts and extra limits are any natural numbers of
parts. No request is called `"opening"` or `"none"`; in `Catalogue` requests are
positive numbers, and the items and places there are at first name each other, share
nothing, and were made by none of them; in `Coupons` and `Subscriptions` requests are
finitely many and no code is `"none"`; in `Onboarding` the value `None` is no email and
no name. They hold for any number of requests, items, lines, attempts and overlap. Each
invariant was first checked by TLC.

Only model-checked: the searches (`ListsWhatMatches`, `PagesShiftOneWay`) and the
reports (`ReportsAreTheOwners`, `DaysAddUp`, `VarianceIsOfTheWrites`, `SharesAddUp`),
because pipelines are folds over their stages and over sequences of documents, and what
a fold computes for every input needs induction over data; and the liveness properties
(`EveryRequestEnds`, `FullCouponsAreMarked`, `ExpiredCouponsClose`), which with fairness
are out of the prover's reach. No theorem needs induction over data: sums are over
finite sets, and their lemmas rest on well-founded sets of subsets; what `$pull`,
`$lookup` and the filters of `Catalogue` leave is taken by its places (`At`).

## Not modelled

- The branches of inventory services for items tracked in batches.
- The rounding of floating-point numbers: sums of fractions are exact in the models. A
  line of a cart or an order without a quantity: it makes a total that is no number,
  which mongoose refuses to write.
- Writes of `createCustomer`, suppliers and tables (see the plan); the alert of batches
  about to expire, which writes notifications alone; guards and
  cookies; `userChangeEmail`, which nothing calls; editing of one user.
- Jobs that look for an `expireOn` equal to now (`subscribtion.service.ts` 418,
  `users.service.ts` 881): they find nothing.
- Money documents, mail, uploads, logs: one write, or none; their searches are modelled.
- `todayBudgetToTarget` and `purchaceOrderReport` (no route), the layout and upload
  of sheets, and reports asked for in two layouts at a time.
- Prices, taxes and services of an order.

## Plan

1. `createCustomer`: a customer and its user in a transaction neither of them
   belongs to, as `createEntities` does, beside `Onboarding`.
2. The composition of `Orders`, `Coupons` and `Cart`, which model the parts of a
   customer order each by itself.
3. An abstract stock (a bag of units with take and give) that serial runs of
   `StockTransactions` implement under a refinement mapping.
4. Batches in the inventory services; tables.
5. Theorems about reports and searches: pipelines as functions of the places of a
   collection, as `At` is, would bring `ReportsAreTheOwners` and `ListsWhatMatches`
   within reach.

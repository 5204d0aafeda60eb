# go-kasir-api: specifications, checks and proofs

`go-kasir-api` is a point-of-sale server: Go's `net/http`, `database/sql` and
PostgreSQL. It keeps no state of its own between requests. Every request is a
goroutine that runs SQL statements, most of them single statements through a
pool of connections, the important ones inside a `READ COMMITTED` transaction.
What is hard in it is therefore not in one function: it is in what other
requests do between two statements of a handler, in what a transaction holds
while it waits, and in what is left when a handler fails, is killed, or is
asked again. The modules here model the handlers statement by statement, at that
level.

## 1. Inventory

State lives in the tables of `src/migrations/`. "Tx" marks operations that run
in a transaction of several statements.

| Component | State | Operations | Talks to | What is hard | What makes it correct |
|---|---|---|---|---|---|
| Checkout (`internal/domain/transaction`) | `transactions`, `transaction_details`, `transaction_payments` | `Checkout` (Tx), list, get | stock, products, customers, payment types, receipts | locks taken in any order, prices and customers read before they are used, early returns after some rows were deducted, second connection inside the Tx | stock balances with what was sold; header, lines and payments agree; every request is answered |
| Branch stock (`product_stocks`) | `stock >= 0` per product and branch | `FOR UPDATE` scan, guarded `UPDATE`, upsert | checkouts, returns, receives | three handlers write it, in different lock orders | an abstract ledger of sales and restocks |
| Returns (`internal/domain/returns`) | `returns`, `return_items` | `ProcessReturnForOrg` (Tx), list, get | a committed sale, stock | several returns of one sale, prices that changed since | refunds at the price of the sale; no more returned than sold |
| Purchase orders (`internal/domain/purchaseorder`) | `purchase_orders.status`, `purchase_order_items` | create (Tx), `ReceivePOForOrg` (Tx), list, get | suppliers, products, stock | status tested outside the Tx; retries and crashes; missing prices completed in place | received exactly when its items are on the shelf, once; the total is that of the lines |
| Receipts (`internal/domain/receipt`) | `receipts.receipt_number UNIQUE` | `GenerateReceiptNumber`, `InsertReceipt` in the checkout's Tx | checkout | two clocks, three moments, concurrent counts | numbers unique and without a gap; a collision only with a receipt the count could not see |
| Payments (`internal/domain/payment`) | `payment_types` (fixed) | look up a type by its name | checkout, pool | the lookup uses the pool while the Tx holds a connection | nobody waits for ever |
| Connection pool (`internal/pkg/database`, `database/sql`) | connections in use, at most 25 | query, begin, close, end | every handler | waits without a limit; circles the database cannot see | nothing leaked, never jammed |
| Products, categories (`internal/domain/product`, `category`) | master rows, `products.category_id` | create, update, delete, list | documents, by foreign keys | rows checked in one statement and used in another | no reference to a row that is gone |
| Customers, suppliers | master rows | create, update, delete, list | sales, purchase orders | deleted while a document is written | the same, and history is kept |
| Inventory alerts (`internal/domain/inventory`) | `inventory_alerts` | set a threshold, list alerts | products, stock | product deleted meanwhile | the same |
| Sessions and users (`internal/domain/auth`, `middleware/session.go`) | `users`, `refresh_tokens`; signed access tokens held by clients | login, refresh, logout, switch branch, create user, change role, change password | every handler through `JWTAuth` | tokens outlive what they were signed from; no transaction around any handler | tokens say what was so; what was ended stays ended; a demotion takes effect |
| Branches (`internal/domain/branch`) | `branches` | list, create, rename | sessions, stock | | a token names a branch that exists |
| Reports (`internal/domain/report`) | none | read-only queries | sales | several queries without a transaction, two clocks | the figures of one report agree, and those of the same days reconcile |
| Start-up and shutdown (`cmd/api/main.go`, `database/migrate.go`) | the schema, the default organisation, branch and administrator | migrate, seed, serve, shut down | all | a crash between the statements of the seeding, two servers at once; requests cut off at shutdown | seeded once, and completely in the end |
| Helpers, middleware, configuration | none | pagination, JSON, logging, environment | handlers | arithmetic of the pagination | the pages partition the list |

`PROJECT.json` lists the same components with their files, and under "hazards"
each place in the code where one of these difficulties bites, with the
properties that watch it.

## 2. Modules

| Module | Models | Composed with |
|---|---|---|
| `StockLedger` | the abstract ledger: a sale takes from the shelf exactly what it records, a restock puts back exactly what it records; a request is entered at most once, and its client hears of a failure only if it was not | instantiated by `BranchStock` |
| `BranchStock` | the stock statements of checkout, return and receive, row locks, deadlocks, failures, crashes | implements `StockLedger` |
| `ReceiptNumber` | the last statements of a checkout, the server's and the database's calendar | extended by `Reports` |
| `Reports` | the reports and the paginated list of sales | runs beside the checkouts of `ReceiptNumber` |
| `PurchaseOrder` | creation and receipt of orders, retries, crashes | |
| `Sales` | amounts of sales, refunds and orders: totals, payments, price changes, INTEGER limits | |
| `ConnPool` | the pool, row locks and the payment lookups between them | |
| `Catalogue` | master rows, the documents that refer to them, foreign keys, deadlocks between them | |
| `Sessions` | access and refresh tokens, the middleware that believes them, users and branches | |
| `StartUp` | migrations and seeding on servers that start together, crash and start again | |
| `...Proofs` (eight) | theorems | each extends its module; `ReportsProofs` has those of `ReceiptNumber` too, which `Reports` extends |
| `MC...` | the small instance of each module that TLC checks | |

One checkout appears in six modules, each with the part of its state that its
properties need; what the others do to it is an action that may fail it
(`Abort`, `Fail`) or an early answer (`Refuse`). A single module of everything
would have the product of the state spaces and no property that the parts do
not have: stock, receipts, amounts, connections and references meet only in that
any of them may fail the transaction, and all of them end with it. The two
places where components do meet in a property are composed: `BranchStock` has
the three handlers that write one table, and `Reports` reads what the checkouts
of `ReceiptNumber` commit, on the clocks both use.

### How the modules read

* A request is served once. `pc` names the statement it runs next, or the answer
  it gave. One action is one statement, with the Go code around it up to the
  next statement: only statements are seen by other requests.
* The transaction of a request holds uncommitted work of its own (`delta`,
  `recorded`, `added`) and locks (`lock`, `locked`, `own`, `share`). `EndTx`
  drops both; `RollBack` is `EndTx` with an error answer, as the deferred
  `tx.Rollback()` is; `Commit` adds the work to the committed state first.
* PostgreSQL is modelled from how the code uses it: a writer or `FOR UPDATE`
  holds a row to the end of its transaction, a statement that meets a held row
  waits and then sees the committed value, a unique index makes the second
  inserter of a key wait and then fail, a foreign key takes a share of the row
  it names, `DELETE` takes the row and then looks for references, and in a
  circle of waiting transactions one fails (`BreakDeadlock`). These definitions
  are marked external in `PROJECT.json`.
* Retries are further requests: nothing in the code links them to the first.
* Variables marked "history" in `ReceiptNumber`, `Sessions`, `StartUp` and
  `Reports` record what a property needs of the past (`tallied`, `had`, `before`,
  `hurt`, ...). No guard reads them.

### Correspondence

| Code | Actions |
|---|---|
| `transaction/service.go: Checkout`, in order | `BranchStock!Admit`/`Refuse`; `Catalogue!HandleCheckout`; `ConnPool!BeginTx`; `Sales!ReadPrices`, `Catalogue!ReadProduct`; `BranchStock!StartLock`, `LockRow`, `CheckStock`/`OutOfStock`; `Deduct` per line; `Sales!Tally`; `ConnPool!Query`, `CloseRows` per payment, twice; `Catalogue!InsertHeader`, `InsertItems`; `ReceiptNumber!GenerateReceiptNumber`, `InsertReceipt`; `Commit`; `Reply` |
| `returns/service.go: ProcessReturnForOrg` | `Sales!StartReturn`, `ReadSale`, `TallyReturn`, `WriteReturn`; `BranchStock!Upsert`, `UpsertOverflow` per item |
| `purchaseorder/service.go: ReceivePOForOrg` | `PurchaseOrder!FindPO`, `BeginTx`, `AddItem` per item, `MarkReceived`, `Commit`, `Reply`; `BranchStock!Upsert` per item |
| `purchaseorder/service.go: CreatePOForOrg` | `PurchaseOrder!CreatePO`; `Catalogue!HandlePOs`, `ReadProduct`, `InsertHeader`, `InsertItems`, `Commit`; `Sales!StartOrder`, `ReadPrices`, `TallyOrder`, `WriteOrder` |
| the handlers of `product`, `category`, `customer`, `supplier` with their services' `CreateForOrg`, `UpdateForOrg`, `DeleteForOrg` | `Catalogue!HandleProducts`, `HandleProductByID` and so on; `FindCategory` when a product names one; then `Insert`, or `Update`, `Relink`, or `DeleteRow` followed by `CheckReferences`, or by `SetNull`, `RemoveCategory`; `Sales!SetPrice` |
| `inventory`: `HandleSetThreshold`, `UpsertThresholdForOrg` | `Catalogue!HandleSetThreshold`, `InsertItems`, `Commit` |
| `receipt/repository.go` | `ReceiptNumber!GenerateReceiptNumber`, `InsertReceipt` |
| `payment/service.go: GetPaymentTypeIDByName` | `ConnPool!Query`, `CloseRows` |
| `middleware/session.go` | `Sessions!JWTAuth`, `RequireRole`, `Enter` |
| `auth/handler.go`, `auth/service.go` | `Sessions!HandleLogin`: `Login`, `Issue`, `Sign`, `CreateRefreshToken`; `HandleRefresh`: `FindUserByRefreshToken`, `RefreshAccess`; `HandleLogout`: `RevokeRefreshToken`; `HandleSwitchBranch`: `SwitchBranch`, `BelongsToOrg`, `Sign`; `HandleChangePassword`: `ChangePassword`, `UpdatePassword`; `HandleUsers`: `CreateUser`, `Create`; `HandleUpdateUserRole`: `UpdateRole` |
| `branch/handler.go` | `Sessions!HandleBranches`, `HandleBranchByID`, `FindBranch`, `WriteBranch` |
| `report/handler.go`, `report/service.go` | `Reports!HandleTodayReport`, `HandleWeeklyReport`, `HandleMonthlyReport`, `HandleReport`, then `TopProducts`; `HandleDashboard`, then `TopProducts`, `RecentSales`; `SalesByProduct`, `SalesByCategory`, `ExportCSV` as functions of the sales |
| `transaction/handler.go: HandleTransactions`, `helpers/request.go` | `Reports!HandleTransactions`, `NextPage`, `Paginate`, `Capped` |
| `main.go: main`, `database.go`, `migrate.go` | `StartUp!Start`, `InitDB`, `RunMigrations`, `Migrated` |
| `main.go: seedDefaultOrg` | `StartUp!ReadOrg`, `InsertOrg`, `ReadBranch`, `InsertBranch`, `CountUsers`, `SeedUser`, `Adopt` per table, `Snapshot`, `Backfill`; `Fail` for a statement that fails at any of them |
| `main.go`: `Shutdown` that runs out of time, or a killed server | `Crash`; `Abort` for each transaction in `Catalogue`, `Sales`, `ReceiptNumber` |

The services also have methods without `ForOrg` from before the organisations;
no route calls them and they are not modelled. Organisations are not modelled
either, beyond the seeding of the default one: every query names the caller's,
so a request sees the rows of one.

## 3. What the runs check

Each property has a mutant: a definition changed as a plausible bug would change
it, under which TLC finds the property violated. Mutants stand before the
definition they would replace.

| Run | Instance | Shows |
|---|---|---|
| `stock` | 3 requests, 1 branch, 3 products of which one has no row there, 3 units each, carts that name the products in opposite orders | `TypeOK`, `StockBalanced`, `CheckedStockStays`, `NoLeakedLock`, `LedgerSpec` (refinement of `StockLedger`, with the answers), `EveryRequestAnswered` |
| `receipts_days` | 3 checkouts, 2 days, either calendar up to a day ahead of the other, 1 reader | `NumbersUnique`, `Consecutive`, `CollidesWithUncounted`, `EveryCheckoutEnds`; `ReportsAgree`, `ReportsReconcile`, `PagesMissNothing`, `PagesPartition` |
| `orders` | 3 receives of 2 orders with 2 items | `StockedIffReceived`, `OnceUnlessOverlapped`, `EveryReceiveAnswered` |
| `amounts` | 1 checkout, 2 returns, 1 order, 2 products, prices 1 and 2, largest amount 5 | `TypeOK`, `DocumentsAddUp`, `RefundAtSalePrice` |
| `deletes` | every choice of 3 requests out of 14 that create, change, delete or refer to rows of each table | `TypeOK`, `ReferencesHold`, `DeletedStaysDeleted`, `HistoryKept`, `EveryRequestAnswered` |
| `pool` | 3 requests, 4 connections, 2 rows, 0 or 1 payments | `TypeOK`, `NothingLeaked`, `NeverJammed`, `EveryRequestServed` |
| `sessions` | 2 administrators logged in, 3 more requests, each one of six to eight, tokens of 1 and 2 ticks | `FreshClaims`, `RevokedStaysRevoked`, `CreatedOnce`, `VerifiedPasswordStands`, `DemotionTakesEffect` |
| `startup` | 2 servers, 8 tables, 1 product, 2 faults; an empty database or an older deployment | `SeedsOnce`, `AdminIntoEmpty`, `ServesComplete`, `EventuallySeeded`, `EventuallyServes` |

and four runs that TLC finds violated, each a finding:

| Run | Claim of the repository | What happens |
|---|---|---|
| `repeated_lines_unbalanced` | "Auto-deduct stock" | a cart names one product on two lines; each line passes the check against the same stock, the second guarded `UPDATE` changes no row, nobody looks at how many rows it changed, and the sale records more units than left the shelf |
| `orders_twice` | "purchase order already received" | two overlapping receives both find the order pending, outside their transactions, and both stock its items |
| `overreturn` | "return items from a transaction" | a return may take back more than the sale had, in one request or in several |
| `pool_split` | "Support split payment" | as many transactions as connections want one row; its holder needs one more connection to look up a payment type, and all wait for ever |

### What the properties of the newer runs say, and where they stop

* **Sessions.** Access tokens outlive a logout, a demotion, a change of password
  and a switch of branch: nothing in the code looks them up, so no property says
  otherwise. What holds is that a token says what its user's row said at some
  moment *while the request that signed it ran* (`FreshClaims`), never what
  another token said; that an ended session yields nothing to whoever comes
  later (`RevokedStaysRevoked`), while a refresh that was under way may still be
  answered; and that after a demotion the administrator's tokens run out,
  including those that refreshes and switches were about to sign
  (`DemotionTakesEffect`). Two changes of one user's password that overlap may
  both have compared with the same old password: `VerifiedPasswordStands` excepts
  exactly those. `HandleUpdateUserRole` answers 200 when there is no such user,
  and a login with a wrong password answers 500 where `openapi.yaml` has
  401: the model has both, as a success without effect and as an error.
* **Receipts and midnight.** A checkout that spans midnight takes the first
  number of the new day but is counted in the old one, so the next checkout, even
  alone, generates the same number and fails: two checkouts and one clock are enough.
  `receipts_days` contains those behaviours, with either clock ahead.
  `CollidesWithUncounted` says how far this goes: a checkout fails on its number
  only when the receipt that has it was not among those it counted, as it was
  committed since or is counted on another day. No failure comes from the count
  itself, and none from a receipt the count has seen. `Consecutive` is about the
  days that no checkout spanned.
* **Reports.** Each statement sees a later moment than the one before, so a
  dashboard may list more than it counted, never less, unless a day of the
  database ends between its statements. Revenue sums `total_amount`, the other
  reports sum lines: that the two are the same sum of one sale is
  `DocumentsAddUp` of `Sales`, which `Reports` takes as `TotalsAssumption`. `GetSalesSummaryForOrg` hides a failure of its second statement: the
  summary then has no top product. A walk through the pages of the sales, which
  are never deleted and come newest first, meets all that were there; lists of
  rows that can be deleted (products, customers) may skip one, and nothing is
  claimed of them. `Paginate` panics when `(page-1)*perPage` wraps below zero;
  `PagesPartition` covers every page before that, and nothing is claimed beyond.
* **Start-up.** `failed` and `hurt` except what a failed statement leaves behind:
  `seedDefaultOrg` logs some errors and returns, ignores others, and the server
  serves in either case. Crashes are not excepted: the next start completes
  everything. A server that serves meanwhile may create a product, give it a row
  of stock, or delete one that has none: between the two moments of the last
  statement either makes the whole statement fail (a duplicate, or a foreign key).
  The model does not tell the organisations of products apart, so that its servers
  delete more than the routes let them. A migration that is cut off leaves the schema dirty, which the
  migration library refuses to continue from; the code has no way out of it.

### Bounds, and why they are enough

* **Requests.** Every interference in this code is between two requests over a
  row or a number; the third is a bystander that may commit, wait behind, or
  take part in a longer circle. `pool` has fewer requests than connections and
  `pool_split` as many, the two sides of the limit.
* **Products and rows.** Two rows are the fewest that can be locked in opposite
  orders, and a cart of two lines the shortest that fails after it deducted one.
  The third product has no row of stock until a restock creates it.
* **Quantities.** With three units, carts that take one or two succeed, compete
  for the last unit, or fail; `MaxStock` 5 is reached by restocks, so that the
  overflow of the upsert happens. `MaxAmount` 5 is reached by totals, payments
  and orders. `MaxItems` 2 makes a cart of three too long.
* **Days.** Two days have a midnight on each of two clocks, and a checkout may
  begin, count and commit on either side of both. Either clock may be the one
  ahead, by a day at most (`MaxApart`). Pages hold one sale, so three sales move across pages.
* **Tokens.** An access token lasts one tick and a refresh token two, so that a
  session can be refreshed after its access token has expired, and can expire.
* **Servers and faults.** Two servers collide at every pair of statements; with
  two crashes or failed statements a start can fail, be repeated, and fail again.
* **Carts, payments, asks** are listed in the `MC` modules: each is there for one
  path (malformed, repeated, opposite, matching at one price only, a payment of
  an unknown type or a negative amount, a route without the right role). In
  `deletes` the requests differ only in what they ask, so each choice of three
  is given to them in one order.
* `Cardinality(Requests)` bounds all else: a request is served once, so no
  counter grows without a limit and no state constraint is needed. `CHECK_DEADLOCK`
  stays on everywhere; `Finished` is the step of a run whose clients all have
  their answers (`Sales` has price changes at any time instead).
* **Symmetry** is used where only safety is checked and the permuted values are
  interchangeable in the initial states.

### Fairness

`WF(Statement(r))` for every request: the Go scheduler runs every goroutine, the
server sets no deadline on a statement, and PostgreSQL grants a free row to one
that waits for it. Weak fairness is enough, and strong fairness would say more
than the code has: nothing in the model that waits can be overtaken for ever,
as every request is served once. `WF(BreakDeadlock(r))`: PostgreSQL
looks for deadlocks after `deadlock_timeout`. In `Sessions` the clocks tick
(`WF(Tick)`). In `StartUp` a server that is down is started again, because
`docker-compose.yml` says `restart: unless-stopped`, and one that starts runs on.
Nothing is assumed of clients (`Admit`, `Arrive`, `Begin`, `Handle` need not
happen), of the readers of reports, of failures, of crashes, or of midnight. Liveness is claimed only of
requests that have begun and of servers that are restarted.

## 4. What is proved

All for every value of the constants, from the assumptions named in the modules
(sets of requests that do not contain the "nobody" value, carts that are
sequences of lines, initial stock within the column, and the like). TLC evaluates
these assumptions in every run.

| Theorem | States | Argument |
|---|---|---|
| `BranchStockProofs!TypeCorrect`, `EveryDeductionRecorded`, `NoLockLeaks` | `TypeOK`, `DeductionsRecorded` (in `BranchStockProofs`: what is on the shelf and what was sold is at least what was there and what was put back, for carts with repeated lines too, where `StockBalanced` is false), `NoLeakedLock` | `StockInv`: a transaction that has ended holds nothing; a request has locked what it has changed or read for update, so what it read is still the committed stock; a deduction never exceeds what is recorded or what there is, a restock what fits. Needed because the stock itself says nothing of uncommitted work, and `Commit` adds it. |
| `StockStaysBalanced`, `ChecksStayValid`, `ImplementsLedger` | `StockBalanced`, `CheckedStockStays`, `LedgerSpec` | under `UniqueLines`, no cart names a product twice. `ExactInv` adds: what is recorded for a row is what was taken from it, and the lines still to come find the stock that was seen. Without `UniqueLines` `StockBalanced` is false: `repeated_lines_unbalanced`. For the ledger, `Settles` reads the outcome of a request off its `pc`: only `Commit` enters it, only who has not committed fails. |
| `ReportsProofs!ReceiptNumbersUnique` | `NumbersUnique` | `UniqueInv`: a number inserted and not committed is reserved: no other checkout has it inserted or committed. |
| `SerialsConsecutive` | `Consecutive` | `DayInv`: the serial of a checkout under way is at most one more than the count of the day it began on, so on a clear day a number that is not issued and not ahead is the next one. |
| `CollisionsAreUncounted` | `CollidesWithUncounted` | `CollisionInv`: no receipt has a serial beyond the count of its own day (`Counted`), so the number a checkout generates has a higher serial than every receipt it counted (`Beyond`); what it collides with is another. |
| `PurchaseOrderProofs!ReceiptIsAtomic` | `StockedIffReceived` | `OrderInv`: a transaction under way is for an order that exists, and a marked one has added every item. |
| `SequentialReceiveOnce` | `OnceUnlessOverlapped` | `OnceInv`: for an order that no two requests overlapped on, one request at most is under way, and it began with the order pending. |
| `ConnPoolProofs!TypeCorrect`, `PoolNeverLeaks` | `TypeOK`, `NothingLeaked` | `PoolInv`: besides, a request at the lookup of a payment type has one left to make, and without payments nobody has any. |
| `SparePoolNeverJams` | `NeverJammed` | if requests are fewer than connections, or no checkout names payments: a request that waits for a row points to the holder, which has its connection or finds a free one. |
| `CatalogueProofs!TypeCorrect`, `ReferencesAlwaysHold`, `DeletionsLast`, `HistoryIsKept` | `TypeOK`, `ReferencesHold`, `DeletedStaysDeleted`, `HistoryKept` | `CatInv`: a deletion at its checks owns its row, nobody shares an owned row, a shared row exists, a document shares what it names until it commits, and a row still to be created cannot be deleted. |
| `SessionsProofs!SessionsTypes`, `ClaimsWereTrue` | `TypeOK`, `FreshClaims` | `HadInv`, `ReadInv`, `ClaimInv`: the row a request has read is one of those its user had since the request came, and a token copies it; users and branches are never deleted (`RowInv`). |
| `LogoutHolds` | `RevokedStaysRevoked` | `LogoutInv`: a session whose logout was answered is revoked, nothing undoes that, and who comes later has passed no lookup. |
| `OneCreation` | `CreatedOnce` | `NameInv`: a name that is taken stays taken, and who is answered with success found it free when inserting it, whatever the earlier lookup said. |
| `ComparedPasswordIsReplaced` | `VerifiedPasswordStands` | `RivalInv`: two changes under way for one user know of each other. |
| `StartUpProofs!StartUpTypes`, `DefaultsSeededOnce`, `AdministratorSeededOnce` | `TypeOK`, `SeedsOnce`, `AdminIntoEmpty` | `BranchInv`, `AdminInv`: who is about to insert a default saw none, or another server is about to as well, or the count failed. |
| `SeedingCompletes` | `ServesComplete` | `ReachedInv`: what each statement of a seeding without an error may rely on, by its place; other servers only add to it, or delete products, of which it claims nothing. |
| `ReportsProofs!ReportsKeepSpec` | `ReportsSpec => Spec` | every step of a reader leaves the checkouts alone, so the theorems about receipts hold beside any number of readers. |
| `ReportsReconciled` | `ReportsReconcile` | the revenue is a sum over sales of sums over lines, the other reports are sums over the same lines, grouped otherwise. `AnyOrder`: the sum over a finite set does not depend on the order in which it is taken; `GroupedSum`: nor on how it is grouped; `RenamedSum`: nor on the names of what is added. |
| `PagesArePartition` | `PagesPartition` | `ListFacts`: the list has each committed sale once, the newest first; `PaginateCuts`, `OnPage`: a page is the slice of the list at its place, for every page before the one whose start wraps. |
| `StatementsAgree`, `WalksMissNothing` | `ReportsAgree`, `PagesMissNothing` | `ReadersInv`: what a report has read so far is contained in what its next statement would read, as sales are only added; a sale that was there when a walk began and that it has not met is further down the list than the pages it has read (`Rank`), because new sales only come before it. |
| `SalesProofs!AmountsFit`, `TotalsAddUp`, `RefundsAtSalePrice` | `TypeOK`, `DocumentsAddUp`, `RefundAtSalePrice` | `MoneyInv`: a checkout at its last statement has the total of the prices it read, which its payments settle; a return has the unit prices of a sale that is written, and each of them is the price that the sale charged (`UnitPricesRead`), since a subtotal is a multiple of its quantity. `TotalIsSum`: a total that did not overflow on the way is the sum of its lines; `SettledSum` is the same of payments. |

The sums and totals are folds over lists and sets of any size. Where a fact about
them needs induction on that size, the proof takes the least number at which it
fails (`LeastNumber`, from the well-foundedness of `<`) and refutes it: `UpTo`
turns what a fold computes into an explicit row of partial results, one per line,
which the other lemmas follow from one to the next.

Assumptions of `Sales` and `Reports`: a request of `Sales` is of one kind (`KindsAssumption`);
the lines of a sale are a list with integer subtotals (`LinesAssumption`); its
`total_amount` is their sum (`TotalsAssumption`, which `TotalsAddUp` of `Sales`
proves of what a checkout writes); and the
list of sales and one page more fit Go's `int` (`ListAssumption`), which the code
has by its types, as the ids of `transactions` are `SERIAL`, of 32 bits, and an
`int` of the server has 64.

Every safety invariant and action property of the passing runs is proved, those
about stock that need `UniqueLines` and `NeverJammed` under the conditions the
table names, as without them the code violates them. Only model-checked: all liveness (`EveryRequestAnswered`, `EveryCheckoutEnds`,
`EveryReceiveAnswered`, `EveryRequestServed`, `DemotionTakesEffect`,
`EventuallySeeded`, `EventuallyServes`), which needs `ENABLED` and fairness and
is beyond the provers used.

## 5. Not modelled

* HTTP, JSON, logging, response layout, CORS, request ids, configuration: no
  state, no property depends on it. The health checks and the root page answer
  without state.
* The library that runs migrations, the PostgreSQL server and `database/sql`
  beyond what section 2 says of them. Isolation is `READ COMMITTED`, the default
  the code leaves in place. A statement of the seeding that fails is taken to
  have had no effect; `AUTO_MIGRATE=false` is a start with a new schema.
* Read-only routes besides the reports and the list of sales: one query each,
  which sees one moment. Of the dashboard, the counts of products and of low
  stock, which no other figure depends on, and the failure of a first statement,
  which is an error answer. A product keeps its category during `Reports`.
* Sales with the same `created_at`: the order of the list is then open, and so is
  what a walk through its pages meets.
* 64-bit overflow of quantity times price: a quantity that large does not fit the
  INTEGER column that it is written to, and the request fails there.
* The branch of a return, which is that of the caller and need not be that of the
  sale; the code states no rule about it.
* A client that gives up: handlers ignore the request's context, so a request
  runs on without its client.

## 6. Plan

Done, most important behaviour first:

1. `StockLedger`, `BranchStock`: stock (proved).
2. `ReceiptNumber`, `PurchaseOrder`, `Sales`, `ConnPool` (proved).
3. `Catalogue`, with every handler of the four master tables (proved).
4. `Sessions` (proved), `StartUp` (proved), `Reports` (proved).

Left:

5. `Checkout`: a composition of `BranchStock`'s transaction with the receipt, so
   that "a sale has exactly one receipt, and stock moves only with it" can be
   stated of one transaction.

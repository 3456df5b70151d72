# Warkop SaaS in TLA+

Warkop SaaS is a multi-tenant point-of-sale backend (Django, Django REST Framework,
PostgreSQL). This directory holds its formal model: what the stock, order and staff
services do to the database when several web-server threads run them at the same time,
which tenant a request may read, what the reports of a business day show of a shop that
goes on selling, the model-checking runs over small shops, and proofs for shops of every
size.

Line numbers below are those of the repository this directory belongs to.

## 1. The system

### Components

| component | state | operations |
|---|---|---|
| **Orders** `orders/` | `Order` (status, total), `OrderItem` | create, void, pay; list and fetch only read |
| **Stock and catalogue** `products/` | `Product` (name, price, stock, `is_archived`), `StockMovement` (append-only) | create, adjust, archive, unarchive, PATCH of name and price; listings only read |
| **PostgreSQL** | committed rows, row locks, constraints | READ COMMITTED transactions, `SELECT ... FOR UPDATE`, `CHECK`, partial `UNIQUE` |
| **Memberships** `tenants/` | `Tenant`, `TenantMembership` (role, `left_at`) | patch role, remove member, timezone; `get_current_active_membership` |
| **Onboarding and provisioning** `tenants/services.py`, `users/` | `User` | register owner and tenant (atomic), add staff (not atomic) |
| **Tokens and claims** `tenants/serializers.py` | none (JWT) | login and refresh put one membership into the token |
| **Tenant context** `core/` | a thread-local tenant id | set and cleared by the middleware, read by the managers |
| **Reports** `reports/` | none | today's orders, product sales, stock movements |
| **Business day** `tenants/time.py` | none | the UTC boundaries of a local day |
| configuration, routing, admin, migrations | none | not modelled: wiring and generated code |

### How they interact

A request carries a tenant id and a user. The middleware puts the tenant into a
thread-local, a permission class and `get_current_active_membership` turn the two into
a `TenantMembership`, and the view hands that membership and a validated body to a
service function. The services share state only through the database. Orders change
`Product.stock` and append to `StockMovement`; archiving reads `Order`; the tenant-aware
managers add the tenant and `is_archived = False` to their queries. There is no queue,
no background worker and no cache: all concurrency is threads (and processes) over
PostgreSQL, and all waiting is for row locks.

### What is hard, and what must be true

* **Orders.** Two orders for the last unit, void against void, void against pay, an
  order against an archive. Stock is never sold twice; an order settles once; a void puts
  back exactly what was taken; a failure leaves nothing.
* **Stock and catalogue.** A read-modify-write of the stock from four services and one
  unlocked view; names checked in one statement and written in another. Stock and journal
  agree; no pending order contains an archived product; active names are unique.
* **PostgreSQL.** Locks of several rows: nobody may wait in a circle. Rows that change
  while a statement waits for them must be filtered again.
* **Memberships.** The membership is read before the transaction and used inside it;
  role changes lock nothing. A tenant keeps an owner; members are removed by
  somebody above them, and roles changed by owners; who has left stays out.
* **Onboarding.** All or nothing, also when two requests use one e-mail.
* **Tokens and claims.** A token outlives the membership it names, and a login still names
  one that was left. It must open nothing.
* **Tenant context.** The tenant sits in the worker thread, the permission and the rows are
  separate statements. No request sees the tenant of the one before it or beside it, and
  rows go only to who was a member while he asked.
* **Reports.** Two statements that should show one moment; orders that are stamped before a
  report and committed after it; a timezone that changes meanwhile.
* **Business day.** Midnights that clocks skip or repeat, days of 23 and 25 hours.
  Consecutive days neither overlap nor leave a gap.

The full list, with the line where each hazard bites and the property that catches it,
is `hazards` in `PROJECT.json`.

## 2. The modules

```
   Database ──┬── Orders ───┐           ┌── ProductPatch ── MCProductPatch
              └── Products ─┴── Store ──┼── MCStore
                   StockLedger ╌╌╌╌╌╌╌╌╌┤   BusinessDay ─┐
                   (implemented by)     ├────────────────┴─ Reports ── MCReports
                                        └── StoreProofs ── StoreSafety ─┬─ StoreRefinement
                                                                        └─ StoreLedger ─┐
   Staff ──┬── MCStaff                                                                  │
           ├── StaffProofs ───┐                             with ProductPatch: StoreLocks ─┤
           └── TenantContext ─┴── ContextProofs             with Reports: ReportsProofs ───┘
                   └── MCContext
```

| module | stands for |
|---|---|
| `Database` | the tables, the row locks, the memory of the threads; how a request begins, waits for locks, ends, is rolled back |
| `Orders` | `create_order_service`, `order_void_service`, `order_paid_service` with their views and DTOs |
| `Products` | `create_product_service`, `adjust_stock_service`, `archive_product_service`, `unarchived_product_service` with serializers and views |
| `Store` | both on the same threads and tables; the properties |
| `ProductPatch` | `Store` with `ProductBasicPatchView` on further threads |
| `StockLedger` | the abstract shop: every sale, return, adjustment, withdrawal is one step that changes the current stock by the units it enters in the journal |
| `BusinessDay` | `tenants/time.py`: `get_business_date`, `get_business_day_boundary` |
| `Reports` | `reports/services.py` and `update_tenant_timezone_service`, over `Store` and a clock |
| `Staff` | `tenants/services.py`: `public_onboarding_orchestrator`, `staff_provising_orchestrator`, `remove_member_from_tenant_service`, `patch_staff_service`, with the permissions, serializers and views that call them |
| `TenantContext` | `core/middleware.py`, `core/thread_local.py`, `core/managers.py`, the claims of a token, the permissions, `get_current_active_membership` and the listings, over `Staff` |
| `StoreProofs`, `StoreSafety`, `StoreLedger`, `StoreRefinement` | theorems about `Store`: its inductive invariant; one action at a time; sums; the abstract shop |
| `StoreLocks` | theorems about `Store` and `ProductPatch`: deadlock, and the store beside a PATCH |
| `StaffProofs`, `ContextProofs`, `ReportsProofs` | theorems about `Staff`, `TenantContext`, `Reports` |
| `MCStore`, `MCProductPatch`, `MCStaff`, `MCContext`, `MCReports` | catalogues, zones and symmetry for the runs |

`Staff` and `Store` are apart: the order and product services take from a membership only
its tenant and role, as they were when the request began, and those are part of a request
in `Store`. That a request has them from a membership that was active while it came in is
what `TenantContext` shows: its readers use the permissions and the fetch of the actor that
every other view uses.

### State

| variable | code |
|---|---|
| `product`, `order`, `movement` | the committed tables. `OrderItem` rows are `order[o].items`: how much of each product (`CreateOrderDTO` refuses a product named twice). `StockMovement` rows are added up per product: by action, and those an order void wrote apart |
| `opening` | history: the stock a product was created with |
| `plock`, `olock` | who holds the row lock of each product and order |
| `pc`, `req`, `todo`, `rows`, `orow` | per thread: the place in its service function, the request with the actor's tenant and role, the rows its `SELECT ... FOR UPDATE` still has to lock, the `Product` and `Order` objects in its memory |
| `reply` | the last answer |
| `issued` | a bound (section 4) |

In `Staff`:

| variable | code |
|---|---|
| `account`, `shop`, `membership` | the tables `User`, `Tenant`, `TenantMembership`. The code creates an account together with its only membership, so the membership is a function of the user; `left` is `left_at` being set |
| `pc`, `req`, `actor`, `target` | per thread: the place, the request, and the two `TenantMembership` objects its view has read |

In `TenantContext`:

| variable | code |
|---|---|
| `local` | `_thread_local.tenant_id` of each worker |
| `claims` | the tenant that the last token of each user names |
| `visit` | the reading each worker serves: its user, header, view, the actor it has fetched, the tenants whose rows it was given; as history, whether the user has been entitled to them meanwhile |

In `Reports`:

| variable | code |
|---|---|
| `clock`, `timezone` | `timezone.now()`, `Tenant.timezone` |
| `created`, `moved` | `Order.created_at`; the `created_at` of the movements of each product |
| `ready` | when each thread got its last row: an `INSERT` is sent after that and before the commit |
| `report` | the report each reporter is at: its tenant, `now`, zone, window, sums, answer; as history, the orders that were live and void when it was asked for, and the products that have been active or sold ever since |

Names, prices, users, notes and timestamps that no property tells apart are left out:
`OrderItem`'s price and name snapshots, `created_by`, `notes`, `updated_at`. Names are
members of a small set, prices and quantities are integers up to a constant; `MaxInt`
stands for 2^31 - 1, and a value that leaves `0..MaxInt` makes the database raise
(`db_error`), as an `IntegerField` and its `CHECK` do.

### Steps

A service function is cut where another transaction can come in between:

* `Begin`: permission, serializer, first checks, and the start of the first statement
  that can wait. The rows a `SELECT ... FOR UPDATE` finds when it starts are `Found`.
* `LockProduct`, `GetOrder`: one row lock. The row is read again once it is locked and
  dropped when it matches no more (`Reread`), as READ COMMITTED does.
* A last step for the rest of the transaction and its commit, or for its exception and
  rollback. Every row a transaction writes is one it has locked or inserted, and it takes
  no lock after its first write, so nobody can tell its writes from its commit.
* `archive_product_service` has a step more, because it reads `Order` rows it does not
  lock (`CheckOrders`, then `Archive`), and `create_product_service` has one more because
  its two statements are in no transaction (`CreateProduct`, then `InsertProduct`).
* `Abort`: at any place of a function the connection is lost or the worker dies;
  PostgreSQL rolls back.

A report is one step for the view (`Ask` takes the time), one for the fetch of the tenant
and one for each query, because it is in no transaction. A reading in `TenantContext` is one
step per statement: the middleware, each permission, the actor, the rows.

| code | actions |
|---|---|
| `create_order_service` 190-306 | `CreateOrder`, `LockProduct`, `PlaceOrder`, `RejectOrder` |
| `order_void_service` 309-393 | `CallOnOrder`, `GetOrder`, `OrderNotFound`, `RejectStatus`, `FindItems`, `LockProduct`, `VoidOrder`, `RejectVoid` |
| `order_paid_service` 424-447 | `CallOnOrder`, `GetOrder`, `OrderNotFound`, `RejectStatus`, `PayOrder` |
| `adjust_stock_service` 67-138 | `AdjustStock`, `LockProduct`, `SaveStock`, `RejectAdjust` |
| `archive_product_service` 142-175 | `CallOnProduct`, `LockProduct`, `RejectMissing`, `CheckOrders`, `Archive` |
| `unarchived_product_service` 179-202 | `CallOnProduct`, `LockProduct`, `RejectMissing`, `Restore`, `RejectRestore` |
| `create_product_service` 33-64 | `CreateProduct`, `InsertProduct`, `RejectInsert` |
| permissions, serializers | `DenyOrderCall`, `DenyProductCall` |
| `ProductBasicPatchView` 103-116 | `ReadObject`, `ValidateName`, `SaveObject`, `RejectSave` |
| `public_onboarding_orchestrator` 30-56 | `CallRegister`, `Onboard`, `RejectOnboard` |
| `staff_provising_orchestrator` 59-93 | `CallProvision`, `ReadActor`, `CreateUser`, `AssignUser`, `RejectProvision` |
| `remove_member_from_tenant_service` 188-249 | `CallRemove`, `CallRemoveDirectly`, `ReadActor`, `RemoveMember`, `RejectRemove` |
| `patch_staff_service` 146-185 | `CallPatch`, `ReadActor`, `ReadTarget`, `SaveRole`, `KeepRole` |
| `TenantMiddleware` 8-17 | `Enter`, `Leave` |
| `IsAuthenticatedAndHasTenant`, `IsTenantManagerOrOwner` | `CheckTenant`, `CheckRole` |
| `get_current_active_membership` 252-262 | `FetchActor` (`ReadActor` in `Staff`) |
| `get_membership_list_service` 119-143, `list_order_service`, `ProductListAPIView` | `ReadRows` |
| `get_user_tenant_claim_service` 96-116 with the login and refresh serializers | `IssueToken` |
| `get_today_order_count_service` 13-37 | `Ask`, `ReadTimezone`, `CountOrders` |
| `get_today_product_sales_service` 40-119 | `Ask`, `ReadTimezone`, `SumSales`, `MergeCatalogue` |
| `get_today_stock_movement_service` 122-166 | `Ask`, `ReadTimezone`, `ListMovements` |
| `update_tenant_timezone_service` 265-277 | `UpdateTimezone` |

The services of `Staff` decide by objects their callers read in earlier statements, so the
reads (`ReadActor`, `ReadTarget`) are steps of their own. Onboarding commits once (one
step); provisioning is in no transaction and commits twice (`CreateUser`, `AssignUser`);
a removal locks the target first and is one step. `Fail` ends a request anywhere and
leaves what was committed. `StaffPatchAPIView.patch` has its parameters in the wrong order
(tenants/views.py:163: `pk` before `request`), so every request to it ends in a `TypeError`
and over HTTP nobody's role ever changes. `Spec` is therefore without role changes, and
`PatchingSpec` adds `patch_staff_service` as the tests call it, reading its two objects as
the view is written to. A removal comes in two ways, both in `Spec`: by the view, which lets
owners in (`CallRemove`), and by the service alone, as
tests/tenants/services/test_remove_member_service.py calls it with members of every role
(`CallRemoveDirectly`).

Two tests of the code cannot fail and have no action: `product.is_archived` in
`archive_product_service` (products/services.py:160; the manager has filtered the row)
and the missing products of a void (orders/services.py:355; no product is ever deleted).
`ControlOK` in `StoreProofs` proves the second: once a void has all its locks it has all
the products of its order. A PATCH with a negative price, which the `CHECK` refuses
without a trace, is left out.

## 3. Properties

| property | kind | says |
|---|---|---|
| `TypeOK` | invariant | no committed or remembered row leaves the range of its columns |
| `LedgerBalances` | invariant | stock = opening + ADD - DEDUCT |
| `MemoryIsCurrent` | invariant | a row in a transaction's memory is locked by it and equal to the committed one |
| `NoPendingOnArchived` | invariant | no pending order contains an archived product |
| `VoidedStockReturned` | invariant | the ORDER_VOID movements are the items of the void orders |
| `OrderTenantMatches` | invariant | an order contains only products of its tenant |
| `UniqueActiveName` | invariant | active products of a tenant have different names |
| `NoWaitCycle` | invariant | no set of threads waits only for locks of that set |
| `StatusIsFinal` | action | PENDING is left once; nothing else of an order changes |
| `StockCheckDecides` | action | an order is refused for stock exactly when the stock at that moment is too small |
| `CashierOnlySells` | action | no request of a cashier adds stock or settles an order |
| `TenantKeepsOwner` | invariant | every tenant has an active owner |
| `AccountsAreStaff` | invariant | an account has a membership or is about to get it |
| `RemoversOutrank` | action | a member is removed by one who is an active owner at that moment, a cashier also by a manager of the tenant; nobody removes an owner |
| `LeftForGood` | action | who has left a tenant does not come back, by a late provisioning or a late change of role |
| `OwnersMakeManagers` | action | a manager comes in by an active owner |
| `OnlyOwnersChangeRoles` | action | who changes a role is an active owner at that moment |
| `OnlyMembersProvision` | action | who adds staff is an active owner or manager at that moment |
| `ContextTypeOK` | invariant | a worker's tenant is a number or none; requests, tokens and places have their types |
| `ContextIsOwn` | invariant | a worker has the tenant of its own request's header, and none between requests |
| `MembersOnly` | invariant | rows are of the tenant the header names, and their reader was an active member of it, in a role that may see them, at some moment since he came in |
| `ClaimsNameActiveTenant` | action | the tenant a new token names is one its user is an active member of |
| `ReportTypeOK` | invariant | an order has a time exactly when it exists, and no time is to come |
| `WindowIsToday` | invariant | the window of a report holds exactly the instants of the local date it was asked on |
| `CountBracketed` | action | a count lies between the day's orders at the asking and at the answer |
| `SalesBracketed` | action | a sale of the day that was there at the asking and is not void at the answer is in the sums; one that was void before, or is of another day, is not |
| `RelevantIsListed` | action | a product that was active or sold that day at every moment of the report is in it |
| `EveryCallAnswered` | liveness | every accepted request ends |
| `ImplementsLedger` | refinement | `Store` implements `StockLedger`: a commit changes the stock it finds, and by as much as it journals |

Why several of these are not obvious: `NoPendingOnArchived` rests on two functions that
look at different tables and never lock the same *order*. The product's row lock
orders them, and the order's own re-read of `is_archived` after the wait does the rest.
`UniqueActiveName` has no lock behind it, and a restore never looks at the name: the
partial constraint alone decides. `EveryCallAnswered` needs both the order of the
product locks and the fact that nobody takes an order's lock while holding a product's.
`RemoversOutrank` compares the actor with the table when the removal *commits*, while the
code looks at an object read some statements earlier. `ImplementsLedger` has no room for a
stale adjustment: `StockLedger` enters in its journal what it adds to the stock of that
moment, so one that adds to an older stock is no step of it.

`MembersOnly` asks of a moment and not of every moment: a removal may commit between the
permission and the rows, and the code does not look again. What must not happen is that a
user who was no member at any moment of his request gets a row, by an old token, by a
header of his choice, or by a thread that still has somebody's tenant. `SalesBracketed`
brackets for the same reason: an order may commit while the report runs, and its stamp may
be older than the report.

Each property of a passing run has a mutant (`mutants` in `PROJECT.json`): a small change of
one definition, such as a `SELECT` without `FOR UPDATE`, no `order_by("id")`, a missing tenant
filter, a missing status check, or a table without its constraint. TLC finds the property
violated under the run's own configuration. `Staff` has a `TypeOK` of its own, with the
foreign keys.

## 4. Runs

| run | what is small | properties |
|---|---|---|
| `shelf` | 2 threads, 2 products, 2 orders; order, void, pay, archive, restore; fair | `TypeOK` `MemoryIsCurrent` `NoPendingOnArchived` `NoWaitCycle` `StatusIsFinal` `StockCheckDecides` `ImplementsLedger` `EveryCallAnswered` |
| `adjust` | 2 threads, 1 product yet to be created, 2 orders, owners and cashiers; create, archive, order, void, pay, adjust with reasons RESTOCK, SALE, ORDER_VOID, ADJUSTMENT, OTHER | `LedgerBalances` `VoidedStockReturned` `CashierOnlySells` `ImplementsLedger` |
| `shops` | 2 threads and a patch, 2 shops, a product of one of them and a second id, 1 name; order, create, archive, restore | `MemoryIsCurrent` `OrderTenantMatches` `UniqueActiveName` |
| `patch_stock` | 1 thread, 1 patch | `LedgerBalances`: **violated** |
| `staff` | 2 threads, 4 people, 2 tenants; everything HTTP offers, and removals by the service alone | `TypeOK` `TenantKeepsOwner` `RemoversOutrank` `LeftForGood` `OwnersMakeManagers` |
| `staff_orphan` | 1 thread, 2 people, 1 tenant | `AccountsAreStaff`: **violated** |
| `staff_demote` | 2 threads; with role changes | `OnlyOwnersChangeRoles`: **violated** |
| `staff_removed` | 2 threads, 3 people, 1 tenant | `OnlyMembersProvision`: **violated** |
| `context` | 2 workers and 1 thread of `Staff` with role changes, 2 people, 2 tenants | `ContextTypeOK` `ContextIsOwn` `MembersOnly` `TenantKeepsOwner` `OnlyOwnersChangeRoles` |
| `claims` | 1 worker, 1 thread, 2 people, 1 tenant | `ClaimsNameActiveTenant`: **violated** |
| `reports` | 1 reporter, 1 thread, 1 product, 2 orders, 2 zones, 3 instants | `ReportTypeOK` `WindowIsToday` `CountBracketed` `SalesBracketed` |
| `torn` | the same with 1 order | `RelevantIsListed`: **violated** |

Bounds, and why they are enough:

* `Thread` has two members. The properties relate one transaction to the committed rows,
  to another transaction or to a circle of waits; two products and two threads are the
  smallest circle, and two threads are both sides of every race named in the hazards.
  The theorems hold for any number.
* `MaxRequests` bounds the requests that add a row (order, adjust, create); void, pay,
  archive and restore come without a bound, so behaviours are infinite and liveness is
  not a matter of the bound. Two such requests are two orders, or an order and the
  adjustment between it and its void; `adjust` has three, because the first creates the product.
* `MaxInt` is 1 or 2, so that the limit of the column is reached: in `shelf` an order
  of a tea and a cake costs 3 > 2, in `adjust` an adjustment and a void meet above 2.
* `shops` has one name: what takes a name from under a patch is a creation while the product is
  archived. The second id is for whatever is created, by either shop.
* `ThreadSymmetry` and `Symmetry` are used where only safety is checked: not in `shelf`.
* `Staff` needs no bound but its sets: an account is used once, and a membership that was
  left stays so. Four people are an owner, a manager and whom either acts on, or two
  owners and their staff; two tenants let one tenant's owner meet the other's members.
* `context` has one thread of `Staff`: the hazards of a reading are a change of the
  memberships between two of its statements, and one thread makes every change there is.
  It also lets one request change roles at a time, which asks whether the rules of
  `patch_staff_service` are right before any race; `staff_demote` is the race. Two workers
  are a request and the one beside it or before it; two people in two tenants are a member
  and a stranger.
* `reports` has a day of six ticks and two zones, one whose clock skips the first tick of a
  day and one whose clock shows the last tick of one twice. Its three instants are the last
  before a midnight in one zone and the first after the skipped midnight in the other; a
  midnight in one and noon in the other; the repeated tick. A report
  is related to the orders that are there; one may be live at the asking and the other be
  placed, paid or voided meanwhile.
* No run turns deadlock checking off: a client can always send something that is refused,
  an owner ask for his own removal, a report be asked for.

### Fairness

`FairSpec` has weak fairness of `Run(t)`: a service function that waits for nobody goes
on. It has strong fairness of `TakeLock(t)`: PostgreSQL queues the waiters of a row lock,
so a lock that becomes free again and again comes to each of them. Clients (`Call`) and
failures (`Abort`) are not fair: nothing is assumed to be asked, and no transaction is
rescued by being killed. `Staff`, `TenantContext` and `Reports` state safety only and assume
no fairness: their steps wait for nobody.

### Findings

* `patch_stock`. `ProductBasicPatchSerializer` ends in `instance.save()` without
  `update_fields`, on a row read without a lock and outside any transaction. A sale that
  commits between the read and the save is undone in `Product.stock`, while its movement
  stays: README.md:79 has the two agree. The same save writes `is_archived` back, so a
  product archived in between is on sale again.
* `torn`. `get_today_product_sales_service` sums the sales in one statement and reads the
  active products in the next, in no transaction. A product that is active at the first, and
  is ordered, paid and archived before the second, is in neither and missing from the
  report. tests/reports/test_product_sales_service.py:72-127 has an archived product with
  sales stay in it. (`ATOMIC_REQUESTS` would not help under READ COMMITTED; one statement or
  a repeatable read would.)
* `staff_orphan`. `staff_provising_orchestrator` inserts the user and the membership in no
  transaction. A failure in between leaves an account of no tenant, whose e-mail the
  serializer refuses ever after; README.md:111 has failed operations leave nothing partial.
* `staff_removed`. The actor of a provisioning is read before, in a statement of its own, and
  never again. A manager who is removed in between, over HTTP, still adds a cashier to the
  tenant he has left, against README.md:41 and 47.
* `claims`. `get_user_tenant_claim_service` takes the user's first membership, left or not,
  while its docstring (tenants/services.py:98) and README.md:123 speak of the active one. A
  login after a removal gets a token for the tenant that was left. It opens nothing:
  `MembersOnly` holds in `context` with the very same tokens.
* `staff_demote`. `patch_staff_service` decides by memberships read without a lock, against
  README.md:64 and 47. Of two owners who patch at once, one may be made a manager and
  still have his own change saved. If they demote each other the tenant has no owner left.
  The view's `TypeError` keeps this away from HTTP today; mending the view lets it in.

One difference is between two parts of the code, and no run is about it:
`remove_member_from_tenant_service` lets a manager remove a cashier (tenants/services.py:231-242;
tests/tenants/services/test_remove_member_service.py:32-49), but the permission of the only
view that calls it lets no manager in (tenants/views.py:190). `Spec` has both ways, and
`RemoversOutrank` is the service's rule.

Everything else that was asked of the code holds. In particular the transactions keep
their promises beside a PATCH (`shops`): it waits for their locks, so it never
changes a row under them, and the constraint still guards the names.

## 5. Proofs

`tlapm` proves, for all values of the constants that satisfy the assumptions of
`Database`, `Store`, `Staff`, `TenantContext`, `BusinessDay` and `Reports`:

| theorem | module | states |
|---|---|---|
| `InvHolds` | `StoreProofs` | `Spec => []Inv` |
| `TypesHold` | `StoreProofs` | `Spec => []TypeOK` |
| `MemoryStaysCurrent` | `StoreProofs` | `Spec => []MemoryIsCurrent` |
| `TenantsIsolated` | `StoreProofs` | `Spec => []OrderTenantMatches` |
| `LedgerHolds` | `StoreLedger` | `Spec => []LedgerBalances` |
| `VoidsReturnOnce` | `StoreLedger` | `Spec => []VoidedStockReturned` |
| `OrdersSettleOnce` | `StoreSafety` | `Spec => StatusIsFinal` |
| `ArchivedNotPending` | `StoreSafety` | `Spec => []NoPendingOnArchived` |
| `NamesUnique` | `StoreSafety` | `Spec => []UniqueActiveName` |
| `NoDeadlock` | `StoreLocks` | `Spec => []NoWaitCycle` |
| `PatchInvHolds` | `StoreLocks` | `PatchSpec => []PatchInv` |
| `MemoryBesidePatch` | `StoreLocks` | `PatchSpec => []MemoryIsCurrent` |
| `NamesBesidePatch` | `StoreLocks` | `PatchSpec => []UniqueActiveName` |
| `ArchivedBesidePatch` | `StoreLocks` | `PatchSpec => []NoPendingOnArchived` |
| `VoidsBesidePatch` | `StoreLocks` | `PatchSpec => []VoidedStockReturned` |
| `NoDeadlockBesidePatch` | `StoreLocks` | `PatchSpec => []NoWaitCycle` |
| `StockDecides` | `StoreSafety` | `Spec => StockCheckDecides` |
| `CashiersOnlySell` | `StoreSafety` | `Spec => CashierOnlySells` |
| `StoreImplementsLedger` | `StoreRefinement` | `Spec => ImplementsLedger` |
| `StaffInvHolds` | `StaffProofs` | `Spec => []Inv`, of `Staff` |
| `StaffTypes` | `StaffProofs` | `Spec => []TypeOK`, of `Staff` |
| `OwnersRemain` | `StaffProofs` | `Spec => []TenantKeepsOwner` |
| `RemovalsByRank` | `StaffProofs` | `Spec => RemoversOutrank` |
| `ManagersByOwners` | `StaffProofs` | `Spec => OwnersMakeManagers` |
| `ContextInvHolds` | `ContextProofs` | `ContextSpec => []ContextInv` |
| `ContextTypes` | `ContextProofs` | `ContextSpec => []ContextTypeOK` |
| `ContextsAreOwn` | `ContextProofs` | `ContextSpec => []ContextIsOwn` |
| `RowsForMembers` | `ContextProofs` | `ContextSpec => []MembersOnly` |
| `LeaversStayOut` | `ContextProofs` | `PatchingSpec => LeftForGood` |
| `ContextServesStaff` | `ContextProofs` | `ContextSpec => PatchingSpec` |
| `WindowHoldsItsDay` | `ReportsProofs` | an instant is in the window of a date exactly when that is its local date |
| `ReportInvHolds` | `ReportsProofs` | `ReportSpec => []ReportInv` |
| `ReportTypes` | `ReportsProofs` | `ReportSpec => []ReportTypeOK` |
| `WindowsAreToday` | `ReportsProofs` | `ReportSpec => []WindowIsToday` |
| `CountsBracketed` | `ReportsProofs` | `ReportSpec => CountBracketed` |
| `SalesStayBracketed` | `ReportsProofs` | `ReportSpec => SalesBracketed` |

**Assumptions.** Ids are integers and there are finitely many (`IdAssumption`: a key is a
`bigint`; only `NoDeadlock`, the counts and the sums use the finiteness); the bounds are naturals
(`BoundAssumption`); operations and reasons are those of the code (`OpAssumption`); the
values that stand for nothing are not rows, threads or requests (`NullAssumption`,
`RequestAssumption`, `LedgerAssumption`, `HeaderAssumption`); the table at the start has no
archived product and satisfies its own constraints (`CatalogueAssumption`). A zone changes
its offset once within reach of a window (`ZoneAssumption`) and its clock jumps over no
midnight from one side to the other (`MidnightAssumption`): it may jump to midnight or from
it, which is what zones do today. Where a clock went from after a midnight back to before it
(America/St_Johns until 2011, at 00:01) one local date comes twice and no half-open window
can hold it; the code's does not, and the model leaves those zones out. Threads, workers,
users, tenants and reporters are never assumed finite.

**The inductive invariant of `Store`.** `MemoryIsCurrent` is not inductive by itself: a commit writes
rows computed from memory, so their types and tenants depend on what the memory may hold,
and that depends on where the thread is. `Inv` adds to it

* `ControlOK`: an idle thread remembers nothing; one that settles an order has it at
  hand; a void that has its locks has every product of its order and the order is still
  PENDING in memory;
* `RowsMatch`: a row in memory is one the request's query asked for, its own tenant's;
* `TypeOK` and `OrderTenantMatches`.

Each action has a lemma. The steps that end a transaction share `FinishInv`: given that the
tables have their types, that rows locked by others are unchanged (`Frame`) and that tenants
are kept, `Inv` holds again.

**What rests on it.** With `Inv` a commit's effect on one product or one order can be said
without mentioning memory (`PlaceOrderEffect`, `VoidOrderEffect`, `OrderEffect`,
`PendingEffect`, `ActiveEffect`), and `OnlyWritesWrite` says that no other step touches a
table. `LedgerHolds` strengthens `LedgerBalances` with an empty journal for ids that have
no product yet. `ArchivedNotPending` strengthens `NoPendingOnArchived` with the fact that
between `CheckOrders` and `Archive` no pending order contains the product: the thread's
lock keeps new ones out.

**Sums over orders.** `VoidedStockReturned` and `SalesBracketed` add up the items of a set of
orders with `MapThenSumSet`, whose definition chooses a recursive function. `SumExists` shows
that there is one to choose: were there a number of elements up to which it cannot be defined,
there would be a least (`LeastNumber`), and the function for one element less extends to it.
That any order of adding gives the same sum (`SumTakesAny`, `SumsAgree`) is shown on a smallest
subset for which it would not (`MinimalSubset`, from the well-foundedness of proper inclusion
on finite sets, which needs no theorem about an operator). From there sums are handled by four
facts: `UnitsOfNone`, `UnitsAdd` (one order more), `UnitsSame` (the same items, the same sum)
and `UnitsGrow` (more orders, no less).

`VoidsReturnOnce` has the invariant `Returned`: the ORDER_VOID movements of a product are the
units of the void orders, for every id and not only for those of a product. A void adds one
order to that set and its items to the journal (`VoidReturns`); no other step changes either
(`OthersReturnNothing`: an order is never void again, and no serializer accepts ORDER_VOID by
hand).

**Beside a PATCH.** `PatchInv` is everything the store keeps but its ledger (`StoreInv`) and
`EditsOK`: a PATCH holds a typed row of a product of the tenant, read when it was active, and as
old as it likes. That is enough: `SaveObject` waits for the row lock, so no transaction has
that row in memory; it writes an active row of the same tenant, so no pending order comes to
contain an archived product, no lock and no journal row moves; and the constraint guards the
name. What it does not keep is `LedgerBalances`, which is the finding of `patch_stock`.

**The inductive invariant of `Staff`.** `RemoversOutrank` is about an object that is stale
as soon as it is read. What saves it is that two things about a member only ever stay
(`OwnersStay`, `MembersStay`): no step takes an owner away, because nobody may remove an
owner and no role changes, and no step moves a membership to another tenant or role. So
`ControlAt` may say of a thread that has read its actor that the role in that object is still
his role in the table, and that one who was an owner is still an active one. It may not say
that a manager is still active: he may have been removed meanwhile, which `RemoversOutrank`
admits of a cashier's removal, and `staff_removed` shows of a provisioning. The rest of
`ControlAt` is about the account that waits for its membership, and `OnePerUser` says that no
second thread waits for the same, or `AssignUser` could overwrite an owner. `MembershipEffect`
says what any step does to one membership, and all the theorems follow from it. Under
`PatchingSpec` `OwnersStay` is false, and `staff_demote` shows what follows.

**No deadlock.** `LocksInOrder` says where each lock may be held and that a thread that has
locked a product only has larger ones to lock. In a set of threads that all wait for the set
nobody waits for an order, because who holds one is past that; so each waits for a product,
and the one whose product has the largest id would be held by a thread that waits for a
larger one. `NoEndlessIds` turns the finiteness of the ids into that maximum.

**The refinement.** `Inv`, `AllPermitted` (a request that runs passed its permission and its
serializer) and `Available` are inductive together. Under them each of the seven writing
actions is one action of `StockLedger` on the shelf and the sales that `ShelfOf` and
`SaleOf` read off the committed tables: `PlaceIsSell`, `VoidIsReturn`, `PayIsSettle`,
`SaveIsAdjust`, `ArchiveIsWithdraw`, `RestoreIsPutBack`, `InsertIsOpen`. The memory of the
threads does not occur in the abstract guards, so each lemma first replaces a remembered row
by the committed one. The abstract journal is `movement` itself: `JournalIsEntry` says that
what a commit adds to it is one entry of units in a column, and `SaveIsAdjust` that the new
stock is the committed one plus or minus those units. `OnlyWritesWrite` makes every other step
a stutter.

**The inductive invariant of `TenantContext`.** `MembersOnly` speaks of the past of a request,
and `VisitAt` says where it is kept: a request that has passed a permission has a tenant, its
thread has that tenant (`ContextIsOwn`), and its user is entitled or was (`entitled`). A step
of `Staff` moves "is" to "was", and `StaffInvKept` carries the types of `Staff` along.

**The inductive invariant of `Reports`.** `WindowHoldsItsDay` is about numbers only: midnights
are monotone in the offset rule `ToUtc` when no jump crosses one. `ReportInv` says that the
window of a report is that of its own zone and time, whatever `Tenant.timezone` is by now;
with the lemma that is `WindowIsToday`. `CountsBracketed` then compares sets of orders: no
order that was there at the asking is gone, and none changed its tenant or its time.
`SalesStayBracketed` needs what was summed two statements ago to bound what is true at the
answer. `SalesInv` says it of a report that has its sums: they lie between the units of the
orders it is sure of (live at the asking, not void now) and those that are possible (of that
day, not void at the asking). A step of the store only takes orders from the first set and
adds them to the second, so with `UnitsGrow` the bracket only widens.

**Role changes.** `LeaversStayOut` is about `PatchingSpec`, with role changes, for any number of
threads. `RowEffect` says that a step changes a membership that exists only by a removal, whose
target is active when it is locked, or by a saved role, which leaves the rest of the row alone
however old the target is that was read; and an address that has an account never gets a second
membership (`StaffInv`). `ContextServesStaff` says that the readings change nothing of `Staff`,
so that what holds of `PatchingSpec` holds of the composition.

**Only model-checked.** `EveryCallAnswered` is liveness under fairness, out of the provers'
reach. `TenantKeepsOwner` and `OnlyOwnersChangeRoles` in `context` are the rules of
`patch_staff_service` for one request at a time; with two threads `staff_demote` refutes them,
and no theorem assumes one thread. What runs find violated (`LedgerBalances` under `PatchSpec`,
`AccountsAreStaff`, `OnlyMembersProvision`, `ClaimsNameActiveTenant`, `RelevantIsListed`,
`OnlyOwnersChangeRoles` under `PatchingSpec` with two threads) has no theorem. Every other
property of a run is a theorem.

## 6. State of the plan

Done: `Database`, `Orders`, `Products`, `Store`, `StockLedger`, `ProductPatch`, `Staff`,
`TenantContext`, `BusinessDay`, `Reports`, and the theorems of section 5.

Not modelled, and why:

* The signature, expiry and blacklist of a token, and the logout: a library's, used as it
  comes. A token here is good for ever, the worst case for `MembersOnly`.
* `patch_user_service` and the profile view: one column of the user's own row, which nothing
  else reads.
* Names, gross values and the order of the rows in the sales report, and which movements the
  movement report lists beyond their times: data that no property tells apart.
* `reports/models.py`: no service writes or reads the table.
* A client that retries. In the model a second order is an order; the code promises nothing
  else. A retry of a void or a payment is covered, by `StatusIsFinal` and
  `VoidedStockReturned`.
* The composition of `Store` with `Staff`. A removed or demoted member may finish an order that
  had begun, by the same early read of the actor as in `staff_removed`; the actor of an order
  reaches the tables only through his tenant, his role and `created_by`.
* Configuration, routing, admin pages, migrations: wiring and generated code.

Theorems one could add: the action properties of `Store` beside a PATCH (`StatusIsFinal`,
`StockCheckDecides`, `CashierOnlySells`), which no run asks for; the store of `ReportSpec` as
an implementation of `Store`; and `OnlyOwnersChangeRoles` and `TenantKeepsOwner` under
`PatchingSpec`, should `patch_staff_service` come to lock and read again the two memberships
it decides by.

## 7. Running it

`tlc -workers 2 -config shelf.cfg MCStore.tla` (each `.cfg` names no module: see `runs` in
`PROJECT.json`), and `tlapm M.tla` for each `M` of section 5. The longest runs are `shelf`,
`adjust` and `reports`, with two to three minutes each.

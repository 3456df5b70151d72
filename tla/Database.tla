------------------------------ MODULE Database ------------------------------
(***************************************************************************)
(* The tables of the shop that orders/services.py and                      *)
(* products/services.py read and write, the PostgreSQL row locks their     *)
(* select_for_update() calls take, and the memory of the web-server        *)
(* threads that run the service functions.                                 *)
(*                                                                         *)
(* One thread serves one request at a time.  The service functions run in  *)
(* transaction.atomic() under READ COMMITTED: a statement sees the rows    *)
(* committed when it starts, a row lock is held until the transaction      *)
(* ends, and a row that was committed by another transaction while the     *)
(* statement waited for its lock is read again and filtered again.  Every  *)
(* row a transaction writes is one it has locked or inserted, so nobody    *)
(* sees its writes before it commits: the statements that follow the last  *)
(* lock, and the commit, are one step.                                     *)
(***************************************************************************)
EXTENDS Integers, FiniteSets

CONSTANTS
  Thread,         \* the web-server threads
  Tenant,         \* Tenant rows
  Role,           \* the roles of the memberships that send requests
  Name,           \* product names
  ProductId,      \* primary keys of Product, ordered: locks follow the order
  OrderId,        \* primary keys of Order
  MaxInt,         \* the largest value of an integer column (2^31 - 1)
  MaxQuantity,    \* bound: the largest quantity of one item or adjustment
  MaxRequests,    \* bound: how many requests that add a row are accepted
  Op,             \* the operations the clients call
  Reason,         \* the reasons they give for an adjustment
  Catalogue,      \* the Product table at the start
  NoRow,          \* stands for a row that does not exist or was not read
  NoRequest,      \* the request of a thread that serves none
  Nobody          \* the holder of a lock nobody holds

Status == {"PENDING", "PAID", "VOID"}
Action == {"ADD", "DEDUCT"}
ReasonChoices == {"RESTOCK", "DAMAGED", "EXPIRED", "SALE", "LOST",
                  "ORDER_VOID", "ADJUSTMENT", "OTHER"}
Operation == {"order", "void", "pay", "adjust", "archive", "restore", "create"}

\* The items of an order: how much of each product, 0 when it is not in it.
\* CreateOrderDTO rejects an order without items and a product named twice.
Items == [ProductId -> 0..MaxQuantity]
Contents(items) == {p \in ProductId : items[p] > 0}

ProductRow == [tenant : Tenant, name : Name, price : 0..MaxInt,
               stock : 0..MaxInt, is_archived : BOOLEAN]
OrderRow == [tenant : Tenant, status : Status, items : Items,
             total_price : 0..MaxInt]

\* The StockMovement rows of a product, added up: by action, and apart from
\* that those an order void wrote.
Tally == {"ADD", "DEDUCT", "ORDER_VOID"}

ASSUME IdAssumption ==
  /\ ProductId \subseteq Int /\ OrderId \subseteq Int
  /\ IsFiniteSet(ProductId) /\ IsFiniteSet(OrderId)
ASSUME BoundAssumption == MaxInt \in Nat /\ MaxQuantity \in Nat /\ MaxRequests \in Nat
ASSUME OpAssumption == Op \subseteq Operation /\ Reason \subseteq ReasonChoices
ASSUME NullAssumption ==
  NoRow \notin ProductRow \cup OrderRow /\ Nobody \notin Thread
ASSUME CatalogueAssumption ==
  /\ Catalogue \in [ProductId -> ProductRow \cup {NoRow}]
  /\ \A p \in ProductId : Catalogue[p] # NoRow => ~Catalogue[p].is_archived
  /\ \A p, q \in ProductId :
       /\ Catalogue[p] # NoRow
       /\ Catalogue[q] # NoRow
       /\ Catalogue[p].tenant = Catalogue[q].tenant
       /\ Catalogue[p].name = Catalogue[q].name
       => p = q

VARIABLES
  product,    \* the Product table, as committed
  order,      \* the Order table with its OrderItem rows, as committed
  movement,   \* the StockMovement table, as committed
  opening,    \* the stock each product was created with (history)
  plock,      \* who holds the lock of each Product row
  olock,      \* who holds the lock of each Order row
  pc,         \* where each thread is in its service function
  req,        \* the request it serves, with the actor's tenant and role
  todo,       \* the products its SELECT ... FOR UPDATE has not locked yet
  rows,       \* the Product objects it holds in memory
  orow,       \* the Order object it holds in memory
  reply,      \* its last answer
  issued      \* how many requests that add a row were accepted (a bound)

tables == <<product, order, movement, opening>>
locks == <<plock, olock>>
memory == <<pc, req, todo, rows, orow, reply, issued>>
vars == <<product, order, movement, opening, plock, olock,
          pc, req, todo, rows, orow, reply, issued>>

NoRows == [p \in ProductId |-> NoRow]

Init ==
  /\ product = Catalogue
  /\ order = [o \in OrderId |-> NoRow]
  /\ movement = [p \in ProductId |-> [k \in Tally |-> 0]]
  /\ opening = [p \in ProductId |->
                  IF Catalogue[p] = NoRow THEN 0 ELSE Catalogue[p].stock]
  /\ plock = [p \in ProductId |-> Nobody]
  /\ olock = [o \in OrderId |-> Nobody]
  /\ pc = [t \in Thread |-> "idle"]
  /\ req = [t \in Thread |-> NoRequest]
  /\ todo = [t \in Thread |-> {}]
  /\ rows = [t \in Thread |-> NoRows]
  /\ orow = [t \in Thread |-> NoRow]
  /\ reply = [t \in Thread |-> "none"]
  /\ issued = 0

-----------------------------------------------------------------------------
(* Requests and their first and last steps.                                *)

\* The operations that add a row to Order, Product or StockMovement without
\* an end; the others only touch rows that are there.
Growing == {"order", "adjust", "create"}

\* A request is accepted and its function runs up to its first statement
\* that can wait; next is where it stops then and wanted are the products
\* that statement found to lock.
Begin(t, r, next, wanted) ==
  /\ pc[t] = "idle"
  /\ r.op \in Op
  /\ r.op \in Growing => issued < MaxRequests
  /\ issued' = IF r.op \in Growing THEN issued + 1 ELSE issued
  /\ pc' = [pc EXCEPT ![t] = next]
  /\ req' = [req EXCEPT ![t] = r]
  /\ todo' = [todo EXCEPT ![t] = wanted]
  /\ reply' = [reply EXCEPT ![t] = "none"]
  /\ UNCHANGED <<tables, locks, rows, orow>>

\* The request is turned away by a permission, a serializer or a first check
\* before it locks or writes anything.
Deny(t, r, answer) ==
  /\ pc[t] = "idle"
  /\ r.op \in Op
  /\ reply' = [reply EXCEPT ![t] = answer]
  /\ UNCHANGED <<tables, locks, pc, req, todo, rows, orow, issued>>

\* The transaction ends, by a commit or a rollback: its locks are released,
\* its objects are forgotten and the client is answered.
Finish(t, answer) ==
  /\ plock' = [p \in ProductId |-> IF plock[p] = t THEN Nobody ELSE plock[p]]
  /\ olock' = [o \in OrderId |-> IF olock[o] = t THEN Nobody ELSE olock[o]]
  /\ pc' = [pc EXCEPT ![t] = "idle"]
  /\ req' = [req EXCEPT ![t] = NoRequest]
  /\ todo' = [todo EXCEPT ![t] = {}]
  /\ rows' = [rows EXCEPT ![t] = NoRows]
  /\ orow' = [orow EXCEPT ![t] = NoRow]
  /\ reply' = [reply EXCEPT ![t] = answer]
  /\ UNCHANGED issued

\* The transaction raises: nothing it did is kept.
Reject(t, answer) == Finish(t, answer) /\ UNCHANGED tables

\* The connection is lost or the worker dies: PostgreSQL rolls back.
Abort(t) == pc[t] # "idle" /\ Reject(t, "lost")

Goto(t, next) == pc' = [pc EXCEPT ![t] = next]

-----------------------------------------------------------------------------
(* Row locks.                                                              *)

\* Mutant of Matches: a query that forgets the tenant.
MatchesAnyTenant(r, row) ==
  row # NoRow /\ (r.op \in {"void", "restore"} \/ ~row.is_archived)

\* The WHERE clause of the product queries: the actor's tenant, and not
\* archived except where the code uses global_objects.
Matches(r, row) ==
  /\ row # NoRow
  /\ row.tenant = r.tenant
  /\ r.op \in {"void", "restore"} \/ ~row.is_archived

\* The rows of a set of products that the query finds when it starts.
Found(r, wanted) == {p \in wanted : Matches(r, product[p])}

\* Mutant of IsNext: a query without order_by.
IsNextUnordered(t, p) == p \in todo[t]

\* order_by("id"): the rows are locked in the order of their ids.
IsNext(t, p) == p \in todo[t] /\ \A q \in todo[t] : p <= q

\* Mutants: a SELECT without FOR UPDATE, which waits for nobody.
CanLockWithoutWaiting(p) == TRUE
CanLockOrderWithoutWaiting(o) == TRUE

\* FOR UPDATE waits while another transaction has the lock.
CanLock(p) == plock[p] = Nobody
CanLockOrder(o) == olock[o] = Nobody

\* Mutant of Reread: the row is not filtered again after the wait.
RereadUnfiltered(r, row) == row

\* READ COMMITTED: the row is read again once it is locked, and dropped when
\* it does not match any more.
Reread(r, row) == IF Matches(r, row) THEN row ELSE NoRow

\* SELECT ... FOR UPDATE reaches a row.
LockProduct(t) ==
  /\ pc[t] = "lock"
  /\ \E p \in todo[t] :
       /\ IsNext(t, p)
       /\ CanLock(p)
       /\ plock' = [plock EXCEPT ![p] = t]
       /\ rows' = [rows EXCEPT ![t][p] = Reread(req[t], product[p])]
       /\ todo' = [todo EXCEPT ![t] = @ \ {p}]
  /\ UNCHANGED <<tables, olock, pc, req, orow, reply, issued>>

\* Order.objects.select_for_update().get(id=..., tenant_id=...): a row that
\* is not there raises, the row of another tenant is not seen.
OrderVisible(r) == order[r.order] # NoRow /\ order[r.order].tenant = r.tenant

GetOrder(t) ==
  /\ pc[t] = "get_order"
  /\ OrderVisible(req[t])
  /\ CanLockOrder(req[t].order)
  /\ olock' = [olock EXCEPT ![req[t].order] = t]
  /\ orow' = [orow EXCEPT ![t] = order[req[t].order]]
  /\ Goto(t, "check_status")
  /\ UNCHANGED <<tables, plock, req, todo, rows, reply, issued>>

OrderNotFound(t) ==
  /\ pc[t] = "get_order"
  /\ ~OrderVisible(req[t])
  /\ Reject(t, "not_found")

\* The statement has all its rows.
Locked(t, op) == pc[t] = "lock" /\ todo[t] = {} /\ req[t].op = op

\* A row the loops below append to the StockMovement table.
Journal(tally, action, reason, quantity) ==
  [k \in Tally |-> IF k \in {action, reason} THEN tally[k] + quantity ELSE tally[k]]

\* The smallest key of a table that no row has: the sequences of the ids.
IsFree(table, id) ==
  table[id] = NoRow /\ \A i \in DOMAIN table : table[i] = NoRow => id <= i
=============================================================================

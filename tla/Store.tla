------------------------------- MODULE Store --------------------------------
(***************************************************************************)
(* Orders and products served by the same threads from the same tables:    *)
(* everything that changes the stock of a product, except the product      *)
(* patch, which module ProductPatch adds.                                  *)
(***************************************************************************)
EXTENDS Orders, Products

Request == OrderRequest \cup StatusRequest \cup AdjustRequest
             \cup ArchiveRequest \cup CreateRequest

ASSUME RequestAssumption == NoRequest \notin Request

\* Where a thread can be in its service function.
Place == {"idle", "get_order", "check_status", "lock", "archive", "insert"}

\* What the client is told; "none" while it waits, "lost" when the connection
\* or the worker is.
Answer ==
  {"none", "created", "paid", "voided", "adjusted", "archived", "restored",
   "forbidden", "invalid", "not_found", "not_pending", "insufficient_stock",
   "has_pending_order", "not_archived", "already_exists", "db_error", "lost"}

\* A client sends a request to an idle thread.
Call(t) ==
  \/ CreateOrder(t) \/ CallOnOrder(t) \/ DenyOrderCall(t)
  \/ AdjustStock(t) \/ CallOnProduct(t) \/ CreateProduct(t) \/ DenyProductCall(t)

\* A SELECT ... FOR UPDATE gets the lock it may have waited for.
TakeLock(t) == LockProduct(t) \/ GetOrder(t)

\* A step of a service function that waits for nobody.
Run(t) ==
  \/ PlaceOrder(t) \/ RejectOrder(t)
  \/ OrderNotFound(t) \/ RejectStatus(t) \/ PayOrder(t)
  \/ FindItems(t) \/ VoidOrder(t) \/ RejectVoid(t)
  \/ SaveStock(t) \/ RejectAdjust(t)
  \/ RejectMissing(t) \/ CheckOrders(t) \/ Archive(t)
  \/ Restore(t) \/ RejectRestore(t)
  \/ InsertProduct(t) \/ RejectInsert(t)

Next == \E t \in Thread : Call(t) \/ TakeLock(t) \/ Run(t) \/ Abort(t)

Spec == Init /\ [][Next]_vars

\* A function that has started goes on (weak fairness), and PostgreSQL hands
\* a row lock to its waiters in the order they came (strong fairness).
\* Neither clients nor failures are fair.
FairSpec ==
  Spec /\ \A t \in Thread : WF_vars(Run(t)) /\ SF_vars(TakeLock(t))

-----------------------------------------------------------------------------
(* Types.                                                                  *)

\* Type invariant: the CHECK constraints on price, stock and total_price
\* (products/models.py, orders/models.py) and the range of an integer column
\* hold of every committed row and of every row in memory.
TypeOK ==
  /\ product \in [ProductId -> ProductRow \cup {NoRow}]
  /\ order \in [OrderId -> OrderRow \cup {NoRow}]
  /\ movement \in [ProductId -> [Tally -> Nat]]
  /\ opening \in [ProductId -> 0..MaxInt]
  /\ plock \in [ProductId -> Thread \cup {Nobody}]
  /\ olock \in [OrderId -> Thread \cup {Nobody}]
  /\ pc \in [Thread -> Place]
  /\ req \in [Thread -> Request \cup {NoRequest}]
  /\ todo \in [Thread -> SUBSET ProductId]
  /\ rows \in [Thread -> [ProductId -> ProductRow \cup {NoRow}]]
  /\ orow \in [Thread -> OrderRow \cup {NoRow}]
  /\ reply \in [Thread -> Answer]
  /\ issued \in 0..MaxRequests

-----------------------------------------------------------------------------
(* Safety.                                                                 *)

\* The stock of a product is what it was created with plus what its
\* StockMovement rows add minus what they deduct: no sale, void or
\* adjustment is lost or counted twice, whatever runs at the same time
\* (orders/services.py:241-304, 366-389; products/services.py:96-136).
LedgerBalances ==
  \A p \in ProductId :
    product[p] # NoRow =>
      product[p].stock + movement[p]["DEDUCT"] = opening[p] + movement[p]["ADD"]

\* What a thread computes from is what is committed: a row it holds in
\* memory is locked by it and nobody has changed the row since it was read
\* (orders/services.py:203-212, 319, 342-349; products/services.py:88-92).
MemoryIsCurrent ==
  \A t \in Thread :
    /\ \A p \in ProductId :
         rows[t][p] # NoRow => plock[p] = t /\ rows[t][p] = product[p]
    /\ orow[t] # NoRow =>
         olock[req[t].order] = t /\ orow[t] = order[req[t].order]

\* No product is archived while an order that contains it is PENDING, though
\* the archive reads the orders without locking one and an order locks no
\* other order (products/services.py:163-174; orders/services.py:203-220).
NoPendingOnArchived ==
  \A o \in OrderId, p \in ProductId :
    /\ order[o] # NoRow
    /\ order[o].status = "PENDING"
    /\ order[o].items[p] > 0
    => product[p] # NoRow /\ ~product[p].is_archived

\* The units of an order come back when it is voided, once, and at no other
\* time: the ORDER_VOID movements of a product are the items of the VOID
\* orders (orders/services.py:326-329, 366-392; products/serializers.py:83-88).
VoidedStockReturned ==
  \A p \in ProductId :
    movement[p]["ORDER_VOID"] =
      Units(order, p, {o \in OrderId : order[o] # NoRow /\ order[o].status = "VOID"})

\* An order only contains products of the tenant it belongs to
\* (orders/services.py:208; core/managers.py:7-37).
OrderTenantMatches ==
  \A o \in OrderId, p \in ProductId :
    order[o] # NoRow /\ order[o].items[p] > 0 =>
      product[p] # NoRow /\ product[p].tenant = order[o].tenant

\* Two active products of a tenant never have the same name, though creation
\* checks it in a statement of its own and restoring does not check it
\* (products/services.py:41-62, 197-201; products/models.py:47-51).
UniqueActiveName ==
  \A p, q \in ProductId :
    /\ product[p] # NoRow /\ ~product[p].is_archived
    /\ product[q] # NoRow /\ ~product[q].is_archived
    /\ product[p].tenant = product[q].tenant
    /\ product[p].name = product[q].name
    => p = q

\* Nobody waits for himself through others: of any threads some thread does
\* not wait for a lock that one of them holds, so PostgreSQL never has a
\* deadlock to break (orders/services.py:201, 211, 339, 348).
WaitsFor(t, S) ==
  \/ /\ pc[t] = "lock"
     /\ \E p \in todo[t] : IsNext(t, p) /\ plock[p] \in S
  \/ /\ pc[t] = "get_order"
     /\ OrderVisible(req[t])
     /\ olock[req[t].order] \in S
NoWaitCycle ==
  \A S \in (SUBSET Thread) \ {{}} : \E t \in S : ~WaitsFor(t, S)

-----------------------------------------------------------------------------
(* What a step may do.                                                     *)

\* An order is paid or voided at most once and never both: a status other
\* than PENDING is final, and its items and total never change
\* (orders/services.py:326-329, 439-445).
StatusIsFinal ==
  [][\A o \in OrderId :
       order[o] # NoRow =>
         /\ order'[o] # NoRow
         /\ order'[o] # order[o] =>
              /\ order[o].status = "PENDING"
              /\ order'[o] = [order[o] EXCEPT !.status = order'[o].status]]_order

\* An order is refused for lack of stock exactly when a product it names
\* has too little at that moment: the CHECK constraint on the stock is never
\* what stops it (orders/services.py:228-238).
StockCheckDecides ==
  [][\A t \in Thread :
       reply'[t] # reply[t] /\ pc[t] = "lock" /\ req[t].op = "order" =>
         /\ reply'[t] = "insufficient_stock" =>
              \E p \in ProductId : req[t].items[p] > product[p].stock
         /\ reply'[t] \in {"created", "db_error"} =>
              \A p \in Contents(req[t].items) : req[t].items[p] <= product[p].stock]_vars

\* A request of a cashier never puts stock on a shelf and never settles an
\* order: the service only looks at the reason, so it rests on the
\* serializer's table of reasons and actions (products/services.py:78-84;
\* products/serializers.py:131-145; orders/services.py:314, 427).
CashierOnlySells ==
  [][\A t \in Thread :
       req[t] # NoRequest /\ req'[t] = NoRequest /\ req[t].role = "CASHIER" =>
         /\ \A p \in ProductId : movement'[p]["ADD"] = movement[p]["ADD"]
         /\ \A o \in OrderId : order[o] # NoRow => order'[o] = order[o]]_vars

-----------------------------------------------------------------------------
(* Liveness.                                                               *)

\* Every accepted request is answered: no lock is kept for ever and no
\* thread waits for ever (the order of the locks, orders/services.py:201,
\* 211, 339, 348, and the end of each transaction.atomic()).
EveryCallAnswered == \A t \in Thread : pc[t] # "idle" ~> pc[t] = "idle"

-----------------------------------------------------------------------------
(* The abstract shop.                                                      *)

\* A product without its price, an order without its total.
ShelfOf(table) ==
  [p \in ProductId |->
    IF table[p] = NoRow THEN NoRow
    ELSE [tenant |-> table[p].tenant, name |-> table[p].name,
          stock |-> table[p].stock, is_archived |-> table[p].is_archived]]
SaleOf(table) ==
  [o \in OrderId |->
    IF table[o] = NoRow THEN NoRow
    ELSE [tenant |-> table[o].tenant, status |-> table[o].status,
          items |-> table[o].items]]

\* What the abstract shop has in a table is never taken for no row.
ShelfRow == [tenant : Tenant, name : Name, stock : 0..MaxInt, is_archived : BOOLEAN]
SaleRow == [tenant : Tenant, status : Status, items : Items]
ASSUME LedgerAssumption == NoRow \notin ShelfRow \cup SaleRow

Ledger == INSTANCE StockLedger WITH
  Shelf <- ShelfOf(Catalogue),
  shelf <- ShelfOf(product), sale <- SaleOf(order), journal <- movement

\* The concurrent transactions implement the abstract shop: each takes effect
\* at once, on the stock its commit finds and by the units of the
\* StockMovement rows it writes, as if the others were not running (the
\* transactions of orders/services.py and products/services.py).
ImplementsLedger == Ledger!Spec
=============================================================================

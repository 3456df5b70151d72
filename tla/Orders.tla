------------------------------- MODULE Orders -------------------------------
(***************************************************************************)
(* orders/services.py: create_order_service, order_void_service and        *)
(* order_paid_service, as the steps of a thread.                           *)
(***************************************************************************)
EXTENDS Database, FiniteSetsExt

ALLOWED_ORDER_CREATE_ROLES == {"OWNER", "MANAGER", "CASHIER"}
ALLOWED_ORDER_VOID_ROLES == {"OWNER", "MANAGER"}
ALLOWED_ORDER_PAID_ROLES == {"OWNER", "MANAGER"}

OrderRequest == [op : {"order"}, tenant : Tenant, role : Role, items : Items]
StatusRequest == [op : {"void", "pay"}, tenant : Tenant, role : Role, order : OrderId]

MayOrder(r) == r.role \in ALLOWED_ORDER_CREATE_ROLES
MaySettle(r) ==
  r.role \in IF r.op = "void" THEN ALLOWED_ORDER_VOID_ROLES
                              ELSE ALLOWED_ORDER_PAID_ROLES

\* How much of a product some of the orders of a table contain.
Units(table, p, orders) == MapThenSumSet(LAMBDA o : table[o].items[p], orders)

-----------------------------------------------------------------------------
(* create_order_service                                                    *)

CreateOrder(t) ==
  \E r \in OrderRequest :
    /\ Contents(r.items) # {}
    /\ MayOrder(r)
    /\ Begin(t, r, "lock", Found(r, Contents(r.items)))

\* Mutants of Enough: no check at all, and >= where the code has >.
EnoughUnchecked(t) == TRUE
EnoughOffByOne(t) ==
  \A p \in Contents(req[t].items) : req[t].items[p] < rows[t][p].stock

AllFound(t) == \A p \in Contents(req[t].items) : rows[t][p] # NoRow
Enough(t) ==
  \A p \in Contents(req[t].items) : req[t].items[p] <= rows[t][p].stock
TotalPrice(t) ==
  MapThenSumSet(LAMBDA p : req[t].items[p] * rows[t][p].price,
                Contents(req[t].items))
Fits(n) == n \in 0..MaxInt

PlaceOrder(t) ==
  LET items == req[t].items
      cart == Contents(items)
  IN  /\ Locked(t, "order")
      /\ AllFound(t)
      /\ Enough(t)
      /\ Fits(TotalPrice(t))
      /\ \E o \in OrderId :
           /\ IsFree(order, o)
           /\ order' = [order EXCEPT ![o] =
                          [tenant |-> req[t].tenant, status |-> "PENDING",
                           items |-> items, total_price |-> TotalPrice(t)]]
      /\ product' = [p \in ProductId |->
           IF p \in cart
             THEN [product[p] EXCEPT !.stock = rows[t][p].stock - items[p]]
             ELSE product[p]]
      /\ movement' = [p \in ProductId |->
           IF p \in cart THEN Journal(movement[p], "DEDUCT", "SALE", items[p])
                         ELSE movement[p]]
      /\ UNCHANGED opening
      /\ Finish(t, "created")

RejectOrder(t) ==
  /\ Locked(t, "order")
  /\ \/ ~AllFound(t) /\ Reject(t, "not_found")
     \/ AllFound(t) /\ ~Enough(t) /\ Reject(t, "insufficient_stock")
     \/ /\ AllFound(t) /\ Enough(t) /\ ~Fits(TotalPrice(t))
        /\ Reject(t, "db_error")

-----------------------------------------------------------------------------
(* order_void_service and order_paid_service                               *)

CallOnOrder(t) ==
  \E r \in StatusRequest : MaySettle(r) /\ Begin(t, r, "get_order", {})

\* Mutant of IsPending: the status is not looked at.
IsPendingUnchecked(t) == TRUE

IsPending(t) == orow[t].status = "PENDING"

RejectStatus(t) ==
  /\ pc[t] = "check_status"
  /\ ~IsPending(t)
  /\ Reject(t, "not_pending")

SetStatus(t, status) ==
  order' = [order EXCEPT ![req[t].order].status = status]

PayOrder(t) ==
  /\ pc[t] = "check_status"
  /\ req[t].op = "pay"
  /\ IsPending(t)
  /\ SetStatus(t, "PAID")
  /\ UNCHANGED <<product, movement, opening>>
  /\ Finish(t, "paid")

\* The second query of the void finds the products of the order; no product
\* is ever deleted, so the code's check for missing ones cannot fail.
FindItems(t) ==
  /\ pc[t] = "check_status"
  /\ req[t].op = "void"
  /\ IsPending(t)
  /\ todo' = [todo EXCEPT ![t] = Found(req[t], Contents(orow[t].items))]
  /\ Goto(t, "lock")
  /\ UNCHANGED <<tables, locks, req, rows, orow, reply, issued>>

Restored(t, p) == rows[t][p].stock + orow[t].items[p]
RestoredFits(t) == \A p \in Contents(orow[t].items) : Fits(Restored(t, p))

VoidOrder(t) ==
  LET items == orow[t].items
  IN  /\ Locked(t, "void")
      /\ RestoredFits(t)
      /\ product' = [p \in ProductId |->
           IF p \in Contents(items)
             THEN [product[p] EXCEPT !.stock = Restored(t, p)]
             ELSE product[p]]
      /\ movement' = [p \in ProductId |->
           IF p \in Contents(items)
             THEN Journal(movement[p], "ADD", "ORDER_VOID", items[p])
             ELSE movement[p]]
      /\ SetStatus(t, "VOID")
      /\ UNCHANGED opening
      /\ Finish(t, "voided")

RejectVoid(t) == Locked(t, "void") /\ ~RestoredFits(t) /\ Reject(t, "db_error")

\* Every role may create an order, so only void and pay deny one.
DenyOrderCall(t) ==
  \E r \in StatusRequest : ~MaySettle(r) /\ Deny(t, r, "forbidden")
=============================================================================

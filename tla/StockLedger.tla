---------------------------- MODULE StockLedger -----------------------------
(***************************************************************************)
(* What the shop promises about its shelves and its sales, without         *)
(* threads, locks or objects in memory: every sale, return, adjustment,    *)
(* withdrawal and restoration happens at once, on the current stock, and   *)
(* what it adds to the stock or takes from it is what it enters in the     *)
(* journal.                                                                *)
(***************************************************************************)
EXTENDS Integers

CONSTANTS Tenant, Name, ProductId, OrderId, MaxInt, MaxQuantity, NoRow, Shelf

VARIABLES
  shelf,   \* the products: owner, name, stock and whether withdrawn
  sale,    \* the orders: owner, contents and status
  journal  \* the units put on the shelf of a product and taken from it, and
           \* those of the first that came back from a void order

vars == <<shelf, sale, journal>>

Basket == {b \in [ProductId -> 0..MaxQuantity] : \E p \in ProductId : b[p] > 0}

Column == {"ADD", "DEDUCT", "ORDER_VOID"}

Init ==
  /\ shelf = Shelf
  /\ sale = [o \in OrderId |-> NoRow]
  /\ journal = [p \in ProductId |-> [k \in Column |-> 0]]

\* The entries of a product with q units more in some of the columns.
Enter(entries, columns, q) ==
  [k \in Column |-> IF k \in columns THEN entries[k] + q ELSE entries[k]]

OnSale(p) == shelf[p] # NoRow /\ ~shelf[p].is_archived
SoldAs(tenant, name) ==
  \E q \in ProductId :
    OnSale(q) /\ shelf[q].tenant = tenant /\ shelf[q].name = name
Pending(o) == sale[o] # NoRow /\ sale[o].status = "PENDING"

\* An order takes what it contains from shelves of one tenant that have it.
Sell(o, tenant, b) ==
  /\ sale[o] = NoRow
  /\ \A p \in ProductId : b[p] > 0 =>
       OnSale(p) /\ shelf[p].tenant = tenant /\ b[p] <= shelf[p].stock
  /\ sale' = [sale EXCEPT ![o] = [tenant |-> tenant, status |-> "PENDING", items |-> b]]
  /\ shelf' = [p \in ProductId |->
       IF b[p] > 0 THEN [shelf[p] EXCEPT !.stock = @ - b[p]] ELSE shelf[p]]
  /\ journal' = [p \in ProductId |->
       IF b[p] > 0 THEN Enter(journal[p], {"DEDUCT"}, b[p]) ELSE journal[p]]

\* A pending order is paid, or voided and all it contains put back.
Settle(o) ==
  Pending(o) /\ sale' = [sale EXCEPT ![o].status = "PAID"] /\ UNCHANGED <<shelf, journal>>
Return(o) ==
  /\ Pending(o)
  /\ sale' = [sale EXCEPT ![o].status = "VOID"]
  /\ shelf' = [p \in ProductId |->
       IF sale[o].items[p] > 0 THEN [shelf[p] EXCEPT !.stock = @ + sale[o].items[p]]
                               ELSE shelf[p]]
  /\ journal' = [p \in ProductId |->
       IF sale[o].items[p] > 0
         THEN Enter(journal[p], {"ADD", "ORDER_VOID"}, sale[o].items[p])
         ELSE journal[p]]

\* The current stock of a product on sale is corrected by q units, down to
\* nothing at the most.
Adjust(p, q) ==
  /\ OnSale(p)
  /\ shelf[p].stock + q \in 0..MaxInt
  /\ shelf' = [shelf EXCEPT ![p].stock = @ + q]
  /\ journal' = [journal EXCEPT ![p] =
       IF q > 0 THEN Enter(@, {"ADD"}, q) ELSE Enter(@, {"DEDUCT"}, -q)]
  /\ UNCHANGED sale

\* A product that no pending order contains is withdrawn, or comes back.
Withdraw(p) ==
  /\ OnSale(p)
  /\ \A o \in OrderId : Pending(o) => sale[o].items[p] = 0
  /\ shelf' = [shelf EXCEPT ![p].is_archived = TRUE]
  /\ UNCHANGED <<sale, journal>>
PutBack(p) ==
  /\ shelf[p] # NoRow
  /\ shelf[p].is_archived
  /\ ~SoldAs(shelf[p].tenant, shelf[p].name)
  /\ shelf' = [shelf EXCEPT ![p].is_archived = FALSE]
  /\ UNCHANGED <<sale, journal>>

\* A new product goes on sale under a name the tenant does not sell yet.
Open(p, tenant, name, n) ==
  /\ shelf[p] = NoRow
  /\ ~SoldAs(tenant, name)
  /\ shelf' = [shelf EXCEPT ![p] = [tenant |-> tenant, name |-> name, stock |-> n,
                                    is_archived |-> FALSE]]
  /\ UNCHANGED <<sale, journal>>

\* A transaction that has not ended, or has failed, is not seen here.
Unseen == UNCHANGED vars

Next ==
  \/ Unseen
  \/ \E o \in OrderId :
       \/ \E tenant \in Tenant, b \in Basket : Sell(o, tenant, b)
       \/ Settle(o) \/ Return(o)
  \/ \E p \in ProductId :
       \/ \E q \in (-MaxInt..MaxInt) \ {0} : Adjust(p, q)
       \/ Withdraw(p) \/ PutBack(p)
       \/ \E tenant \in Tenant, name \in Name, n \in 0..MaxInt : Open(p, tenant, name, n)

Spec == Init /\ [][Next]_vars
=============================================================================

---------------------------- MODULE StoreSafety -----------------------------
(***************************************************************************)
(* What the tables of the store look like after any number of concurrent   *)
(* transactions, and what one request may do whatever the others do:       *)
(* theorems about orders, archived products, names and cashiers, proved    *)
(* from the inductive invariant Inv of StoreProofs.                        *)
(***************************************************************************)
EXTENDS StoreProofs

-----------------------------------------------------------------------------
(* The steps that write.                                                   *)

Writes(t) ==
  \/ PlaceOrder(t) \/ PayOrder(t) \/ VoidOrder(t) \/ SaveStock(t)
  \/ Archive(t) \/ Restore(t) \/ InsertProduct(t)

\* Every other step leaves the tables alone.
LEMMA OnlyWritesWrite ==
  ASSUME [Next]_vars
  PROVE  UNCHANGED tables \/ \E t \in Thread : Writes(t)
<1> USE DEF tables
<1>1. CASE UNCHANGED vars
  BY <1>1 DEF vars
<1>2. ASSUME NEW t \in Thread, Call(t) \/ TakeLock(t) \/ Run(t) \/ Abort(t)
      PROVE  UNCHANGED tables \/ Writes(t)
  <2>1. CASE Call(t)
    BY <2>1 DEF Call, CreateOrder, CallOnOrder, DenyOrderCall, AdjustStock, CallOnProduct,
                CreateProduct, DenyProductCall, Begin, Deny
  <2>2. CASE TakeLock(t)
    BY <2>2 DEF TakeLock, LockProduct, GetOrder
  <2>3. CASE Run(t)
    BY <2>3 DEF Run, Writes, Reject, RejectOrder, OrderNotFound, RejectStatus, FindItems,
                RejectVoid, RejectAdjust, RejectMissing, CheckOrders, RejectRestore,
                RejectInsert
  <2>4. CASE Abort(t)
    BY <2>4 DEF Abort, Reject
  <2> QED
    BY <1>2, <2>1, <2>2, <2>3, <2>4
<1> QED
  BY <1>1, <1>2 DEF Next

\* An order takes its items off the current stock and journals each.
LEMMA PlaceOrderEffect ==
  ASSUME Inv, NEW t \in Thread, PlaceOrder(t), NEW p \in ProductId
  PROVE  LET n == req[t].items[p]
         IN  IF n > 0
             THEN /\ n \in Nat
                  /\ product[p] # NoRow
                  /\ Matches(req[t], product[p])
                  /\ plock[p] = t
                  /\ product[p].stock - n \in 0..MaxInt
                  /\ product'[p] = [product[p] EXCEPT !.stock = product[p].stock - n]
                  /\ movement'[p] = Journal(movement[p], "DEDUCT", "SALE", n)
             ELSE product'[p] = product[p] /\ movement'[p] = movement[p]
<1>1. req[t].items \in Items
  BY RequestKinds DEF PlaceOrder, Locked, Inv, ControlOK, ControlAt
<1>2. req[t].items[p] > 0 =>
        /\ p \in Contents(req[t].items) /\ rows[t][p] # NoRow
        /\ req[t].items[p] <= rows[t][p].stock
  BY DEF PlaceOrder, AllFound, Enough, Contents
<1>3. req[t].items[p] \in Nat
  BY <1>1, BoundAssumption DEF Items
<1>4. req[t].items[p] > 0 => product[p].stock - req[t].items[p] \in 0..MaxInt
  BY <1>2, <1>3, RowAtHand, BoundAssumption DEF ProductRow
<1> QED
  BY <1>2, <1>3, <1>4, RowAtHand DEF PlaceOrder, Contents

\* A void puts the items of its order back on the current stock.
LEMMA VoidOrderEffect ==
  ASSUME Inv, NEW t \in Thread, VoidOrder(t), NEW p \in ProductId
  PROVE  LET n == orow[t].items[p]
         IN  IF n > 0
             THEN /\ n \in Nat
                  /\ product[p] # NoRow
                  /\ product[p].stock + n \in 0..MaxInt
                  /\ product'[p] = [product[p] EXCEPT !.stock = product[p].stock + n]
                  /\ movement'[p] = Journal(movement[p], "ADD", "ORDER_VOID", n)
             ELSE product'[p] = product[p] /\ movement'[p] = movement[p]
<1>1. orow[t] # NoRow /\ \A q \in Contents(orow[t].items) : rows[t][q] # NoRow
  BY DEF VoidOrder, Locked, Inv, ControlOK, ControlAt
<1>2. orow[t].items[p] \in Nat
  BY <1>1, OrderAtHand, BoundAssumption DEF OrderRow, Items
<1>3. orow[t].items[p] > 0 =>
        p \in Contents(orow[t].items) /\ rows[t][p] = product[p] /\ product[p] # NoRow
  BY <1>1, RowAtHand DEF Contents
<1>4. orow[t].items[p] > 0 => product[p].stock + orow[t].items[p] \in 0..MaxInt
  BY <1>3 DEF VoidOrder, RestoredFits, Restored, Fits
<1> QED
  BY <1>2, <1>3, <1>4 DEF VoidOrder, Restored, Contents

\* A movement counts under its action, and under ORDER_VOID when a void
\* wrote it.
LEMMA JournalEffect ==
  ASSUME NEW tally, NEW action \in Action, NEW reason \in ReasonChoices, NEW n
  PROVE  LET j == Journal(tally, action, reason, n)
         IN  /\ j["ADD"] = IF action = "ADD" THEN tally["ADD"] + n ELSE tally["ADD"]
             /\ j["DEDUCT"] = IF action = "DEDUCT" THEN tally["DEDUCT"] + n ELSE tally["DEDUCT"]
             /\ j["ORDER_VOID"] = IF reason = "ORDER_VOID" THEN tally["ORDER_VOID"] + n
                                                           ELSE tally["ORDER_VOID"]
BY DEF Journal, Tally, Action, ReasonChoices

\* The product a request is about, when its row is at hand.
LEMMA HeldRow ==
  ASSUME Inv, NEW t \in Thread, SaveStock(t) \/ Archive(t) \/ Restore(t)
  PROVE  /\ req[t].product \in ProductId
         /\ product[req[t].product] = Held(t)
         /\ product[req[t].product] \in ProductRow
         /\ plock[req[t].product] = t
<1>1. req[t].product \in ProductId
  <2>1. CASE SaveStock(t) \/ Restore(t)
    BY <2>1, RequestKinds DEF SaveStock, Restore, Locked, Inv, ControlOK, ControlAt
  <2>2. CASE Archive(t)
    BY <2>2 DEF Archive, Inv, ControlOK, ControlAt, ArchiveRequest
  <2> QED
    BY <2>1, <2>2
<1>2. Held(t) # NoRow
  BY DEF SaveStock, Archive, Restore, Inv, ControlOK, ControlAt
<1> QED
  BY <1>1, <1>2, RowAtHand DEF Held

\* No product disappears or goes to another tenant.
LEMMA ProductsStay ==
  ASSUME Inv, [Next]_vars, NEW p \in ProductId, product[p] # NoRow
  PROVE  product'[p] # NoRow /\ product'[p].tenant = product[p].tenant
<1>1. product \in [ProductId -> ProductRow \cup {NoRow}] /\ product[p] \in ProductRow
  BY DEF Inv, TypeOK
<1>2. CASE UNCHANGED tables
  BY <1>2 DEF tables
<1>3. ASSUME NEW t \in Thread, Writes(t)
      PROVE  \/ product'[p] = product[p]
             \/ \E stock \in 0..MaxInt : product'[p] = [product[p] EXCEPT !.stock = stock]
             \/ \E flag \in BOOLEAN : product'[p] = [product[p] EXCEPT !.is_archived = flag]
  <2>1. CASE PlaceOrder(t)
    BY <2>1, PlaceOrderEffect
  <2>2. CASE VoidOrder(t)
    BY <2>2, VoidOrderEffect
  <2>3. CASE SaveStock(t)
    BY <1>1, <2>3, HeldRow DEF SaveStock, SetProduct
  <2>4. CASE Archive(t) \/ Restore(t)
    <3>1. PICK flag \in BOOLEAN :
            product' = [product EXCEPT ![req[t].product] =
                         [product[req[t].product] EXCEPT !.is_archived = flag]]
      BY <2>4 DEF Archive, Restore, SetProduct
    <3> QED
      BY <1>1, <3>1
  <2>5. CASE InsertProduct(t)
    BY <1>1, <2>5 DEF InsertProduct, IsFree
  <2>6. CASE PayOrder(t)
    BY <2>6 DEF PayOrder
  <2> QED
    BY <1>3, <2>1, <2>2, <2>3, <2>4, <2>5, <2>6 DEF Writes
<1>4. ASSUME NEW t \in Thread, Writes(t)
      PROVE  product'[p] \in ProductRow /\ product'[p].tenant = product[p].tenant
  <2>1. ASSUME NEW stock \in 0..MaxInt, product'[p] = [product[p] EXCEPT !.stock = stock]
        PROVE  product'[p] \in ProductRow /\ product'[p].tenant = product[p].tenant
    BY <1>1, <2>1 DEF ProductRow
  <2>2. ASSUME NEW flag \in BOOLEAN, product'[p] = [product[p] EXCEPT !.is_archived = flag]
        PROVE  product'[p] \in ProductRow /\ product'[p].tenant = product[p].tenant
    BY <1>1, <2>2 DEF ProductRow
  <2> QED
    BY <1>1, <1>3, <1>4, <2>1, <2>2
<1> QED
  BY <1>2, <1>4, OnlyWritesWrite, NullAssumption

-----------------------------------------------------------------------------
(* The life of an order.                                                   *)

\* What a writing step does to the orders: it adds a PENDING one, or moves
\* the one PENDING order it has locked to PAID or VOID.
LEMMA OrderEffect ==
  ASSUME Inv, NEW t \in Thread, Writes(t), NEW o \in OrderId, order'[o] # order[o]
  PROVE  \/ /\ order[o] = NoRow
            /\ PlaceOrder(t)
            /\ order'[o].items = req[t].items
         \/ /\ order[o] \in OrderRow
            /\ order[o].status = "PENDING"
            /\ \E status \in {"PAID", "VOID"} :
                 order'[o] = [order[o] EXCEPT !.status = status]
<1>1. CASE PlaceOrder(t)
  <2>1. PICK n \in OrderId :
          /\ order[n] = NoRow
          /\ order' = [order EXCEPT ![n] =
                         [tenant |-> req[t].tenant, status |-> "PENDING",
                          items |-> req[t].items, total_price |-> TotalPrice(t)]]
    BY <1>1 DEF PlaceOrder, IsFree
  <2>2. order \in [OrderId -> OrderRow \cup {NoRow}]
    BY DEF Inv, TypeOK
  <2>3. o = n
    BY <2>1, <2>2
  <2>4. order'[o].items = req[t].items
    BY <2>1, <2>2, <2>3
  <2> QED
    BY <1>1, <2>1, <2>3, <2>4
<1>2. CASE PayOrder(t) \/ VoidOrder(t)
  <2>1. orow[t] # NoRow /\ IsPending(t)
    BY <1>2 DEF PayOrder, VoidOrder, Locked, Inv, ControlOK, ControlAt
  <2>2. PICK status \in {"PAID", "VOID"} : SetStatus(t, status)
    BY <1>2 DEF PayOrder, VoidOrder
  <2>3. o = req[t].order /\ order'[o] = [order[o] EXCEPT !.status = status]
    BY <2>2 DEF SetStatus, Inv, TypeOK
  <2> QED
    BY <2>1, <2>3, OrderAtHand DEF IsPending
<1>3. CASE SaveStock(t) \/ Archive(t) \/ Restore(t) \/ InsertProduct(t)
  BY <1>3 DEF SaveStock, Archive, Restore, InsertProduct
<1> QED
  BY <1>1, <1>2, <1>3 DEF Writes

\* An order is paid or voided at most once, never both, and its items and its
\* total never change (orders/services.py:326-329, 439-445).
THEOREM OrdersSettleOnce == Spec => StatusIsFinal
<1> DEFINE Final(o) ==
      order[o] # NoRow =>
        /\ order'[o] # NoRow
        /\ order'[o] # order[o] =>
             /\ order[o].status = "PENDING"
             /\ order'[o] = [order[o] EXCEPT !.status = order'[o].status]
<1>1. Inv /\ [Next]_vars => [\A o \in OrderId : Final(o)]_order
  <2> SUFFICES ASSUME Inv, [Next]_vars, order' # order, NEW o \in OrderId PROVE Final(o)
    OBVIOUS
  <2>1. PICK t \in Thread : Writes(t)
    BY OnlyWritesWrite DEF tables
  <2>2. CASE order'[o] = order[o]
    BY <2>2
  <2>3. CASE order'[o] # order[o] /\ order[o] # NoRow
    <3>1. PICK status \in {"PAID", "VOID"} : order'[o] = [order[o] EXCEPT !.status = status]
      BY <2>1, <2>3, OrderEffect
    <3>2. order[o] \in OrderRow /\ order[o].status = "PENDING"
      BY <2>1, <2>3, OrderEffect
    <3>3. order'[o] \in OrderRow /\ order'[o].status = status
      BY <3>1, <3>2 DEF OrderRow, Status
    <3> QED
      BY <3>1, <3>2, <3>3, NullAssumption
  <2> QED
    BY <2>2, <2>3
<1> QED
  BY <1>1, InvHolds, PTL DEF Spec, StatusIsFinal

-----------------------------------------------------------------------------
(* Archived products.                                                      *)

\* Between the query that found no PENDING order and the archiving, no order
\* for the product can appear, of any tenant: its row is locked.
ArchiveIsSafe ==
  \A t \in Thread, o \in OrderId :
    /\ pc[t] = "archive"
    /\ order[o] # NoRow
    /\ order[o].status = "PENDING"
    => ~(order[o].items[req[t].product] > 0)

Available == NoPendingOnArchived /\ ArchiveIsSafe

\* A thread gets to the archiving by CheckOrders only.
LEMMA OnlyCheckLeadsToArchive ==
  ASSUME Inv, [Next]_vars, NEW t \in Thread, pc'[t] = "archive"
  PROVE  \/ pc[t] = "archive" /\ req'[t] = req[t]
         \/ CheckOrders(t)
<1> USE DEF Inv, TypeOK, Goto
<1>1. CASE UNCHANGED vars
  BY <1>1 DEF vars
<1>2. ASSUME NEW u \in Thread, Call(u) \/ TakeLock(u) \/ Run(u) \/ Abort(u)
      PROVE  (pc[t] = "archive" /\ req'[t] = req[t]) \/ CheckOrders(t)
  <2>1. CASE Call(u)
    BY <2>1 DEF Call, CreateOrder, CallOnOrder, DenyOrderCall, AdjustStock, CallOnProduct,
                CreateProduct, DenyProductCall, Begin, Deny
  <2>2. CASE TakeLock(u)
    BY <2>2 DEF TakeLock, LockProduct, GetOrder
  <2>3. CASE \E answer : Finish(u, answer)
    BY <2>3 DEF Finish
  <2>4. CASE FindItems(u)
    BY <2>4 DEF FindItems
  <2>5. CASE CheckOrders(u) /\ ~\E answer : Finish(u, answer)
    <3>1. pc' = [pc EXCEPT ![u] = "archive"] /\ req' = req
      BY <2>5 DEF CheckOrders, Reject
    <3> QED
      BY <2>5, <3>1
  <2>6. Call(u) \/ TakeLock(u) \/ FindItems(u) \/ CheckOrders(u) \/ \E answer : Finish(u, answer)
    BY <1>2 DEF Abort, Run, Reject, PlaceOrder, RejectOrder, OrderNotFound, RejectStatus,
                PayOrder, VoidOrder, RejectVoid, SaveStock, RejectAdjust, RejectMissing,
                Archive, Restore, RejectRestore, InsertProduct, RejectInsert
  <2> QED
    BY <2>1, <2>2, <2>3, <2>4, <2>5, <2>6
<1> QED
  BY <1>1, <1>2 DEF Next

\* A row without a flag that a writing step changes was locked by its thread
\* for an archiving.
LEMMA OnlyArchiveArchives ==
  ASSUME Inv, NEW t \in Thread, Writes(t), NEW p \in ProductId,
         product[p] # NoRow, ~product[p].is_archived
  PROVE  \/ product'[p] # NoRow /\ ~product'[p].is_archived
         \/ Archive(t) /\ p = req[t].product
<1>1. product[p] \in ProductRow /\ product \in [ProductId -> ProductRow \cup {NoRow}]
  BY DEF Inv, TypeOK
<1>2. CASE PlaceOrder(t)
  <2>1. CASE req[t].items[p] > 0
    <3>1. /\ product'[p] = [product[p] EXCEPT !.stock = product[p].stock - req[t].items[p]]
          /\ product[p].stock - req[t].items[p] \in 0..MaxInt
      BY <1>2, <2>1, PlaceOrderEffect
    <3> QED
      BY <1>1, <3>1, NullAssumption DEF ProductRow
  <2>2. CASE ~(req[t].items[p] > 0)
    BY <1>2, <2>2, PlaceOrderEffect
  <2> QED
    BY <2>1, <2>2
<1>3. CASE VoidOrder(t)
  <2>1. CASE orow[t].items[p] > 0
    <3>1. /\ product'[p] = [product[p] EXCEPT !.stock = product[p].stock + orow[t].items[p]]
          /\ product[p].stock + orow[t].items[p] \in 0..MaxInt
      BY <1>3, <2>1, VoidOrderEffect
    <3> QED
      BY <1>1, <3>1, NullAssumption DEF ProductRow
  <2>2. CASE ~(orow[t].items[p] > 0)
    BY <1>3, <2>2, VoidOrderEffect
  <2> QED
    BY <2>1, <2>2
<1>4. CASE SaveStock(t)
  <2>1. PICK new \in 0..MaxInt :
          product' = [product EXCEPT ![req[t].product] =
                       [product[req[t].product] EXCEPT !.stock = new]]
    BY <1>4 DEF SaveStock, SetProduct
  <2> QED
    BY <1>1, <2>1, NullAssumption DEF ProductRow
<1>5. CASE Restore(t)
  <2>1. product' = [product EXCEPT ![req[t].product] =
                     [product[req[t].product] EXCEPT !.is_archived = FALSE]]
    BY <1>5 DEF Restore, SetProduct
  <2> QED
    BY <1>1, <2>1, NullAssumption DEF ProductRow
<1>6. CASE Archive(t)
  BY <1>1, <1>6 DEF Archive, SetProduct
<1>7. CASE InsertProduct(t)
  BY <1>1, <1>7 DEF InsertProduct, IsFree
<1>8. CASE PayOrder(t)
  BY <1>8 DEF PayOrder
<1> QED
  BY <1>2, <1>3, <1>4, <1>5, <1>6, <1>7, <1>8 DEF Writes

\* A PENDING order after a writing step was PENDING before, or was placed by
\* the step on rows its thread has locked and that are not archived.
LEMMA PendingEffect ==
  ASSUME Inv, NEW t \in Thread, Writes(t), NEW o \in OrderId, NEW p \in ProductId,
         order'[o] # NoRow, order'[o].status = "PENDING", order'[o].items[p] > 0
  PROVE  \/ order[o] # NoRow /\ order[o].status = "PENDING" /\ order[o].items[p] > 0
         \/ /\ PlaceOrder(t)
            /\ plock[p] = t
            /\ product[p] # NoRow
            /\ ~product[p].is_archived
<1>1. CASE order'[o] = order[o]
  BY <1>1
<1>2. CASE order'[o] # order[o] /\ order[o] # NoRow
  <2>1. /\ order[o] \in OrderRow
        /\ \E status \in {"PAID", "VOID"} : order'[o] = [order[o] EXCEPT !.status = status]
    BY <1>2, OrderEffect
  <2> QED
    BY <2>1 DEF OrderRow
<1>3. CASE order'[o] # order[o] /\ order[o] = NoRow
  <2>1. PlaceOrder(t) /\ order'[o].items = req[t].items
    BY <1>3, OrderEffect, NullAssumption
  <2>2. req[t].op = "order"
    BY <2>1 DEF PlaceOrder, Locked
  <2> QED
    BY <2>1, <2>2, PlaceOrderEffect DEF Matches
<1> QED
  BY <1>1, <1>2, <1>3

LEMMA AvailableStep ==
  ASSUME Inv, Available, [Next]_vars
  PROVE  Available'
<1>1. Inv'
  BY NextInv
<1>2. NoPendingOnArchived'
  <2>1. CASE UNCHANGED tables
    BY <2>1 DEF tables, Available, NoPendingOnArchived
  <2>2. ASSUME NEW t \in Thread, Writes(t), NEW o \in OrderId, NEW p \in ProductId,
               order'[o] # NoRow, order'[o].status = "PENDING", order'[o].items[p] > 0
        PROVE  product'[p] # NoRow /\ ~product'[p].is_archived
    <3>1. product[p] # NoRow /\ ~product[p].is_archived
      BY <2>2, PendingEffect DEF Available, NoPendingOnArchived
    <3>2. CASE Archive(t) /\ p = req[t].product
      <4>1. order[o] # NoRow /\ order[o].status = "PENDING" /\ order[o].items[p] > 0
        BY <2>2, <3>2 DEF Archive
      <4>2. pc[t] = "archive"
        BY <3>2 DEF Archive
      <4> QED
        BY <3>2, <4>1, <4>2 DEF Available, ArchiveIsSafe
    <3> QED
      BY <2>2, <3>1, <3>2, OnlyArchiveArchives
  <2> QED
    BY <2>1, <2>2, OnlyWritesWrite DEF NoPendingOnArchived
<1>3. ArchiveIsSafe'
  <2> SUFFICES ASSUME NEW t \in Thread, NEW o \in OrderId, pc'[t] = "archive",
                      order'[o] # NoRow, order'[o].status = "PENDING",
                      order'[o].items[req'[t].product] > 0
               PROVE  FALSE
    BY DEF ArchiveIsSafe
  <2> DEFINE p == req'[t].product
  <2>1. CASE CheckOrders(t)
    <3>1. /\ ~PendingOrderOf(req[t].product, req[t].tenant)
          /\ req'[t] = req[t] /\ order' = order
          /\ Held(t) # NoRow /\ pc[t] = "lock" /\ req[t].op = "archive"
      BY <2>1 DEF CheckOrders, Reject, Finish, Locked, Inv, TypeOK, tables
    <3>2. req[t].product \in ProductId
      BY <3>1, RequestKinds DEF Inv, ControlOK, ControlAt
    <3>3. product[p].tenant = req[t].tenant /\ p = req[t].product
      BY <3>1, <3>2, RowAtHand DEF Held, Matches
    <3>4. order[o].tenant = req[t].tenant
      BY <3>1, <3>2, <3>3 DEF Inv, OrderTenantMatches
    <3> QED
      BY <3>1, <3>3, <3>4 DEF PendingOrderOf
  <2>2. CASE pc[t] = "archive" /\ req'[t] = req[t]
    <3>1. p \in ProductId /\ Held(t) # NoRow /\ plock[p] = t
      BY <2>2, RowAtHand DEF Inv, ControlOK, ControlAt, ArchiveRequest, Held
    <3>2. ~(order[o] # NoRow /\ order[o].status = "PENDING" /\ order[o].items[p] > 0)
      BY <2>2 DEF Available, ArchiveIsSafe
    <3>3. ~UNCHANGED tables
      BY <3>2 DEF tables
    <3>4. PICK u \in Thread : Writes(u)
      BY <3>3, OnlyWritesWrite
    <3>5. PlaceOrder(u) /\ plock[p] = u
      BY <3>1, <3>2, <3>4, PendingEffect
    <3>6. pc[u] = "lock"
      BY <3>5 DEF PlaceOrder, Locked
    <3> QED
      BY <2>2, <3>1, <3>5, <3>6
  <2> QED
    BY <2>1, <2>2, OnlyCheckLeadsToArchive
<1> QED
  BY <1>2, <1>3 DEF Available

\* No product is archived while a PENDING order contains it
\* (products/services.py:163-174; orders/services.py:203-220).
THEOREM ArchivedNotPending == Spec => []NoPendingOnArchived
<1>1. Init => Inv /\ Available
  BY InitInv DEF Init, Available, NoPendingOnArchived, ArchiveIsSafe
<1>2. Inv /\ Available /\ [Next]_vars => (Inv /\ Available)'
  BY NextInv, AvailableStep
<1>3. Available => NoPendingOnArchived
  BY DEF Available
<1> QED
  BY <1>1, <1>2, <1>3, PTL DEF Spec

-----------------------------------------------------------------------------
(* Names.                                                                  *)

Active(p) == product[p] # NoRow /\ ~product[p].is_archived

\* An active product after a writing step was active before under the same
\* tenant and name, or its name was free and nothing else changed.
LEMMA ActiveEffect ==
  ASSUME Inv, NEW t \in Thread, Writes(t), NEW p \in ProductId, Active(p)'
  PROVE  \/ /\ Active(p)
            /\ product'[p].tenant = product[p].tenant
            /\ product'[p].name = product[p].name
         \/ /\ \A q \in ProductId \ {p} : product'[q] = product[q]
            /\ ~NameTaken(product'[p].tenant, product'[p].name, {p})
<1>1. product \in [ProductId -> ProductRow \cup {NoRow}]
  BY DEF Inv, TypeOK
<1>2. CASE PlaceOrder(t)
  <2>1. CASE req[t].items[p] > 0
    <3>1. /\ product[p] # NoRow
          /\ product'[p] = [product[p] EXCEPT !.stock = product[p].stock - req[t].items[p]]
      BY <1>2, <2>1, PlaceOrderEffect
    <3> QED
      BY <1>1, <3>1 DEF ProductRow, Active
  <2>2. CASE ~(req[t].items[p] > 0)
    BY <1>2, <2>2, PlaceOrderEffect DEF Active
  <2> QED
    BY <2>1, <2>2
<1>3. CASE VoidOrder(t)
  <2>1. CASE orow[t].items[p] > 0
    <3>1. /\ product[p] # NoRow
          /\ product'[p] = [product[p] EXCEPT !.stock = product[p].stock + orow[t].items[p]]
      BY <1>3, <2>1, VoidOrderEffect
    <3> QED
      BY <1>1, <3>1 DEF ProductRow, Active
  <2>2. CASE ~(orow[t].items[p] > 0)
    BY <1>3, <2>2, VoidOrderEffect DEF Active
  <2> QED
    BY <2>1, <2>2
<1>4. CASE SaveStock(t)
  <2>1. PICK new \in 0..MaxInt :
          product' = [product EXCEPT ![req[t].product] =
                       [product[req[t].product] EXCEPT !.stock = new]]
    BY <1>4 DEF SaveStock, SetProduct
  <2> QED
    BY <1>1, <1>4, <2>1, HeldRow, NullAssumption DEF ProductRow, Active
<1>5. CASE Restore(t)
  <2> DEFINE r == req[t].product
  <2>1. /\ product' = [product EXCEPT ![r] = [product[r] EXCEPT !.is_archived = FALSE]]
        /\ ~NameTaken(Held(t).tenant, Held(t).name, {r})
    BY <1>5 DEF Restore, SetProduct
  <2>2. r \in ProductId /\ product[r] = Held(t) /\ product[r] \in ProductRow
    BY <1>5, HeldRow
  <2>3. CASE p = r
    <3>1. product'[p].tenant = Held(t).tenant /\ product'[p].name = Held(t).name
      BY <1>1, <2>1, <2>2, <2>3 DEF ProductRow
    <3>2. \A q \in ProductId \ {p} : product'[q] = product[q]
      BY <1>1, <2>1, <2>2, <2>3
    <3> QED
      BY <2>1, <2>3, <3>1, <3>2
  <2>4. CASE p # r
    BY <1>1, <2>1, <2>4 DEF Active
  <2> QED
    BY <2>3, <2>4
<1>6. CASE Archive(t)
  <2>1. product' = [product EXCEPT ![req[t].product] =
                     [product[req[t].product] EXCEPT !.is_archived = TRUE]]
    BY <1>6 DEF Archive, SetProduct
  <2> QED
    BY <1>1, <1>6, <2>1, HeldRow DEF ProductRow, Active
<1>7. CASE InsertProduct(t)
  <2>1. PICK q \in ProductId :
          product' = [product EXCEPT ![q] =
             [tenant |-> req[t].tenant, name |-> req[t].name, price |-> req[t].price,
              stock |-> req[t].stock, is_archived |-> FALSE]]
    BY <1>7 DEF InsertProduct
  <2>2. ~NameTaken(req[t].tenant, req[t].name, {})
    BY <1>7 DEF InsertProduct, Unique
  <2>3. CASE p = q
    <3>1. product'[p].tenant = req[t].tenant /\ product'[p].name = req[t].name
      BY <1>1, <2>1, <2>3
    <3>2. ~NameTaken(req[t].tenant, req[t].name, {p})
      BY <2>2 DEF NameTaken
    <3>3. \A o \in ProductId \ {p} : product'[o] = product[o]
      BY <1>1, <2>1, <2>3
    <3> QED
      BY <3>1, <3>2, <3>3
  <2>4. CASE p # q
    BY <1>1, <2>1, <2>4 DEF Active
  <2> QED
    BY <2>3, <2>4
<1>8. CASE PayOrder(t)
  BY <1>8 DEF PayOrder, Active
<1> QED
  BY <1>2, <1>3, <1>4, <1>5, <1>6, <1>7, <1>8 DEF Writes

LEMMA NamesStep ==
  ASSUME Inv, UniqueActiveName, [Next]_vars
  PROVE  UniqueActiveName'
<1>1. CASE UNCHANGED tables
  BY <1>1 DEF tables, UniqueActiveName
<1>2. ASSUME NEW t \in Thread, Writes(t), NEW p \in ProductId, NEW q \in ProductId,
             Active(p)', Active(q)',
             product'[p].tenant = product'[q].tenant, product'[p].name = product'[q].name
      PROVE  p = q
  <2> DEFINE Same(r) == /\ Active(r)
                        /\ product'[r].tenant = product[r].tenant
                        /\ product'[r].name = product[r].name
             Fresh(r) == /\ \A o \in ProductId \ {r} : product'[o] = product[o]
                         /\ ~NameTaken(product'[r].tenant, product'[r].name, {r})
  <2>1. (Same(p) \/ Fresh(p)) /\ (Same(q) \/ Fresh(q))
    BY <1>2, ActiveEffect
  <2>2. CASE Same(p) /\ Same(q)
    BY <1>2, <2>2 DEF UniqueActiveName, Active
  <2>3. CASE Fresh(p)
    BY <1>2, <2>3 DEF NameTaken, Active
  <2>4. CASE Fresh(q)
    BY <1>2, <2>4 DEF NameTaken, Active
  <2> QED
    BY <2>1, <2>2, <2>3, <2>4
<1> QED
  BY <1>1, <1>2, OnlyWritesWrite DEF UniqueActiveName, Active

\* Two active products of a tenant never have the same name
\* (products/models.py:47-51; products/services.py:41-62, 197-201).
THEOREM NamesUnique == Spec => []UniqueActiveName
<1>1. Init => Inv /\ UniqueActiveName
  BY InitInv, CatalogueAssumption DEF Init, UniqueActiveName
<1>2. Inv /\ UniqueActiveName /\ [Next]_vars => (Inv /\ UniqueActiveName)'
  BY NextInv, NamesStep
<1> QED
  BY <1>1, <1>2, PTL DEF Spec

-----------------------------------------------------------------------------
(* What one request may do, whatever the others do meanwhile.               *)

\* Only a step of its own thread answers a request or ends it.
LEMMA OwnAnswer ==
  ASSUME Inv, [Next]_vars, NEW t \in Thread, reply'[t] # reply[t] \/ req'[t] # req[t]
  PROVE  Call(t) \/ Run(t) \/ Abort(t)
<1> USE DEF Inv, TypeOK
<1>1. PICK s \in Thread : Call(s) \/ TakeLock(s) \/ Run(s) \/ Abort(s)
  BY DEF Next, vars
<1>2. ~TakeLock(s)
  BY DEF TakeLock, LockProduct, GetOrder
<1>3. \/ \E r, next, wanted : Begin(s, r, next, wanted)
      \/ \E r, answer : Deny(s, r, answer)
      \/ \E answer : Finish(s, answer)
      \/ UNCHANGED <<req, reply>>
  <2>1. CASE Call(s)
    BY <2>1 DEF Call, CreateOrder, CallOnOrder, DenyOrderCall, AdjustStock, CallOnProduct,
       CreateProduct, DenyProductCall
  <2>2. CASE Run(s)
    <3>1. CASE \/ PlaceOrder(s) \/ PayOrder(s) \/ VoidOrder(s) \/ SaveStock(s)
               \/ Archive(s) \/ Restore(s) \/ InsertProduct(s)
      BY <3>1 DEF PlaceOrder, PayOrder, VoidOrder, SaveStock, Archive, Restore, InsertProduct
    <3>2. CASE \/ RejectOrder(s) \/ OrderNotFound(s) \/ RejectStatus(s) \/ RejectVoid(s)
               \/ RejectAdjust(s) \/ RejectMissing(s) \/ RejectRestore(s) \/ RejectInsert(s)
      BY <3>2 DEF RejectOrder, OrderNotFound, RejectStatus, RejectVoid, RejectAdjust,
         RejectMissing, RejectRestore, RejectInsert, Reject
    <3>3. CASE FindItems(s) \/ CheckOrders(s)
      BY <3>3 DEF FindItems, CheckOrders, Reject
    <3> QED
      BY <2>2, <3>1, <3>2, <3>3 DEF Run
  <2>3. CASE Abort(s)
    BY <2>3 DEF Abort, Reject
  <2> QED
    BY <1>1, <1>2, <2>1, <2>2, <2>3
<1>4. s = t
  BY <1>3 DEF Begin, Deny, Finish
<1> QED
  BY <1>1, <1>2, <1>4

-----------------------------------------------------------------------------

\* A thread that has its rows compares quantities with committed stock.
LEMMA StockAtHand ==
  ASSUME Inv, NEW t \in Thread, Locked(t, "order"), AllFound(t),
         NEW p \in Contents(req[t].items)
  PROVE  /\ p \in ProductId
         /\ rows[t][p].stock = product[p].stock
         /\ product[p].stock \in Int /\ req[t].items[p] \in Int
<1>1. pc[t] # "idle" /\ req[t].items \in Items
  BY RequestKinds DEF Locked, Inv, ControlOK, ControlAt
<1>2. p \in ProductId /\ rows[t][p] # NoRow
  BY DEF AllFound, Contents
<1>3. rows[t][p] = product[p] /\ product[p] \in ProductRow
  BY <1>2, RowAtHand
<1> QED
  BY <1>1, <1>2, <1>3, BoundAssumption DEF Items, ProductRow

\* An order is refused for its stock when a product has too little at that
\* moment, and then only (orders/services.py:228-238).
THEOREM StockDecides == Spec => StockCheckDecides
<1> DEFINE Decided(t) ==
      reply'[t] # reply[t] /\ pc[t] = "lock" /\ req[t].op = "order" =>
        /\ reply'[t] = "insufficient_stock" =>
             \E p \in ProductId : req[t].items[p] > product[p].stock
        /\ reply'[t] \in {"created", "db_error"} =>
             \A p \in Contents(req[t].items) : req[t].items[p] <= product[p].stock
<1>1. ASSUME Inv, [Next]_vars, NEW t \in Thread PROVE Decided(t)
  <2> USE <1>1
  <2>1. SUFFICES ASSUME reply'[t] # reply[t], pc[t] = "lock", req[t].op = "order"
                 PROVE  Decided(t)
    OBVIOUS
  <2>2. Call(t) \/ Run(t) \/ Abort(t)
    BY <2>1, OwnAnswer
  <2>3. ~Call(t)
    BY <2>1 DEF Call, CreateOrder, CallOnOrder, DenyOrderCall, AdjustStock, CallOnProduct,
       CreateProduct, DenyProductCall, Begin, Deny
  <2>4. \A answer : Finish(t, answer) => reply'[t] = answer
    BY DEF Finish, Inv, TypeOK
  <2>5. CASE Abort(t)
    BY <2>4, <2>5 DEF Abort, Reject
  <2>6. CASE PlaceOrder(t)
    <3>1. reply'[t] = "created" /\ Locked(t, "order") /\ AllFound(t) /\ Enough(t)
      BY <2>4, <2>6 DEF PlaceOrder
    <3>2. \A p \in Contents(req[t].items) : req[t].items[p] <= product[p].stock
      BY <3>1, StockAtHand DEF Enough
    <3> QED
      BY <3>1, <3>2
  <2>7. CASE RejectOrder(t)
    <3>1. CASE ~AllFound(t) /\ Reject(t, "not_found")
      BY <2>4, <3>1 DEF Reject
    <3>2. CASE AllFound(t) /\ ~Enough(t) /\ Reject(t, "insufficient_stock")
      <4>1. reply'[t] = "insufficient_stock" /\ Locked(t, "order")
        BY <2>4, <2>7, <3>2 DEF Reject, RejectOrder
      <4>2. PICK p \in Contents(req[t].items) : ~(req[t].items[p] <= rows[t][p].stock)
        BY <3>2 DEF Enough
      <4>3. p \in ProductId /\ req[t].items[p] > product[p].stock
        BY <3>2, <4>1, <4>2, StockAtHand
      <4> QED
        BY <4>1, <4>3
    <3>3. CASE AllFound(t) /\ Enough(t) /\ Reject(t, "db_error")
      <4>1. reply'[t] = "db_error" /\ Locked(t, "order")
        BY <2>4, <2>7, <3>3 DEF Reject, RejectOrder
      <4>2. \A p \in Contents(req[t].items) : req[t].items[p] <= product[p].stock
        BY <3>3, <4>1, StockAtHand DEF Enough
      <4> QED
        BY <4>1, <4>2
    <3> QED
      BY <2>7, <3>1, <3>2, <3>3 DEF RejectOrder
  <2>8. Run(t) => PlaceOrder(t) \/ RejectOrder(t)
    BY <2>1 DEF Run, OrderNotFound, RejectStatus, PayOrder, FindItems, VoidOrder, RejectVoid,
       SaveStock, RejectAdjust, RejectMissing, CheckOrders, Archive, Restore, RejectRestore,
       InsertProduct, RejectInsert, Locked
  <2> QED
    BY <2>2, <2>3, <2>5, <2>6, <2>7, <2>8
<1>2. Inv /\ [Next]_vars => [\A t \in Thread : Decided(t)]_vars
  BY <1>1
<1> QED
  BY <1>2, InvHolds, PTL DEF Spec, StockCheckDecides

-----------------------------------------------------------------------------

\* A request that is served is one its sender may send; an order is of
\* something.
Permitted(r) ==
  /\ r.op = "order" => Contents(r.items) # {}
  /\ r.op \in {"void", "pay"} => MaySettle(r)
  /\ r.op = "adjust" => Validates(r) /\ MayAdjust(r)
AllPermitted == \A t \in Thread : req[t] # NoRequest => Permitted(req[t])

LEMMA PermittedStep == Inv /\ AllPermitted /\ [Next]_vars => AllPermitted'
<1> SUFFICES ASSUME Inv, AllPermitted, [Next]_vars, NEW t \in Thread, req'[t] # NoRequest
             PROVE  Permitted(req'[t])
  BY DEF AllPermitted, Permitted
<1>1. CASE req'[t] = req[t]
  BY <1>1 DEF AllPermitted
<1>2. CASE req'[t] # req[t]
  <2>1. Call(t) \/ Run(t) \/ Abort(t)
    BY <1>2, OwnAnswer
  <2>2. \A answer : ~Finish(t, answer)
    BY DEF Finish, Inv, TypeOK
  <2>3. ~Run(t) /\ ~Abort(t)
    BY <1>2, <2>2 DEF Run, PlaceOrder, RejectOrder, OrderNotFound, RejectStatus, PayOrder,
       FindItems, VoidOrder, RejectVoid, SaveStock, RejectAdjust, RejectMissing, CheckOrders,
       Archive, Restore, RejectRestore, InsertProduct, RejectInsert, Abort, Reject
  <2>4. PICK r : /\ \E next, wanted : Begin(t, r, next, wanted)
                 /\ \/ r \in StatusRequest /\ MaySettle(r)
                    \/ r \in AdjustRequest /\ Validates(r) /\ MayAdjust(r)
                    \/ r \in OrderRequest /\ Contents(r.items) # {}
                    \/ r \in ArchiveRequest \cup CreateRequest
    <3>1. ~DenyOrderCall(t) /\ ~DenyProductCall(t)
      BY <1>2 DEF DenyOrderCall, DenyProductCall, Deny
    <3>2. CASE CreateOrder(t)
      BY <3>2 DEF CreateOrder
    <3>3. CASE CallOnOrder(t)
      BY <3>3 DEF CallOnOrder
    <3>4. CASE AdjustStock(t)
      BY <3>4 DEF AdjustStock
    <3>5. CASE CallOnProduct(t)
      BY <3>5 DEF CallOnProduct
    <3>6. CASE CreateProduct(t)
      BY <1>2, <3>6 DEF CreateProduct, Deny
    <3> QED
      BY <2>1, <2>3, <3>1, <3>2, <3>3, <3>4, <3>5, <3>6 DEF Call
  <2>5. req'[t] = r
    BY <2>4 DEF Begin, Inv, TypeOK
  <2>6. Permitted(r)
    BY <2>4 DEF Permitted, StatusRequest, AdjustRequest, OrderRequest, ArchiveRequest,
       CreateRequest
  <2> QED
    BY <2>5, <2>6
<1> QED
  BY <1>1, <1>2

\* A cashier takes stock away by a sale or an order, and nothing else
\* (products/services.py:78-84; products/serializers.py:131-145;
\* orders/services.py:314, 427).
THEOREM CashiersOnlySell == Spec => CashierOnlySells
<1> DEFINE Sells(t) ==
      req[t] # NoRequest /\ req'[t] = NoRequest /\ req[t].role = "CASHIER" =>
        /\ \A p \in ProductId : movement'[p]["ADD"] = movement[p]["ADD"]
        /\ \A o \in OrderId : order[o] # NoRow => order'[o] = order[o]
<1>1. ASSUME Inv, AllPermitted, [Next]_vars, NEW t \in Thread PROVE Sells(t)
  <2> USE <1>1
  <2>1. SUFFICES ASSUME req[t] # NoRequest, req'[t] = NoRequest, req[t].role = "CASHIER"
                 PROVE  Sells(t)
    OBVIOUS
  <2>2. Permitted(req[t])
    BY <2>1 DEF AllPermitted
  <2>3. Run(t) \/ Abort(t)
    <3>1. pc[t] # "idle"
      BY <2>1 DEF Inv, ControlOK, ControlAt
    <3>2. ~Call(t)
      BY <3>1 DEF Call, CreateOrder, CallOnOrder, DenyOrderCall, AdjustStock, CallOnProduct,
         CreateProduct, DenyProductCall, Begin, Deny
    <3> QED
      BY <2>1, <3>2, OwnAnswer
  <2>4. CASE UNCHANGED <<order, movement>>
    BY <2>4
  <2>5. CASE PlaceOrder(t)
    <3>1. \A p \in ProductId : movement'[p]["ADD"] = movement[p]["ADD"]
      <4> SUFFICES ASSUME NEW p \in ProductId PROVE movement'[p]["ADD"] = movement[p]["ADD"]
        OBVIOUS
      <4>1. \/ movement'[p] = movement[p]
            \/ \E n : movement'[p] = Journal(movement[p], "DEDUCT", "SALE", n)
        BY <2>5, PlaceOrderEffect
      <4> QED
        BY <4>1, JournalEffect DEF Action, ReasonChoices
    <3>2. \A o \in OrderId : order[o] # NoRow => order'[o] = order[o]
      BY <2>5 DEF PlaceOrder, IsFree, Inv, TypeOK
    <3> QED
      BY <3>1, <3>2
  <2>6. CASE SaveStock(t)
    <3>1. req[t].op = "adjust" /\ req[t] \in AdjustRequest /\ UNCHANGED order
      BY <2>6, RequestKinds DEF SaveStock, Locked, Inv, ControlOK, ControlAt
    <3>2. req[t].reason = "SALE" /\ req[t].action = "DEDUCT"
      BY <2>1, <2>2, <3>1 DEF Permitted, MayAdjust, Validates
    <3>3. Held(t) \in ProductRow /\ req[t].product \in ProductId
      BY <2>6, HeldRow
    <3> DEFINE old == Held(t).stock
               new == NewStock(req[t], old)
    <3>4. old \in Int /\ req[t].amount \in Nat /\ new = old - req[t].amount
      BY <3>1, <3>2, <3>3, BoundAssumption DEF ProductRow, AdjustRequest, NewStock
    <3>5. ~(new > old)
      BY <3>4
    <3>6. movement' = [movement EXCEPT ![req[t].product] =
            Journal(movement[req[t].product], "DEDUCT", "SALE", old - new)]
      BY <2>6, <3>2, <3>5 DEF SaveStock
    <3>7. Journal(movement[req[t].product], "DEDUCT", "SALE", old - new)["ADD"]
            = movement[req[t].product]["ADD"]
      BY JournalEffect DEF Action, ReasonChoices
    <3> QED
      BY <3>1, <3>3, <3>6, <3>7 DEF Inv, TypeOK
  <2>7. CASE PayOrder(t) \/ VoidOrder(t)
    <3>1. req[t].op \in {"void", "pay"}
      BY <2>7 DEF PayOrder, VoidOrder, Locked
    <3> QED
      BY <2>1, <2>2, <3>1 DEF Permitted, MaySettle, ALLOWED_ORDER_VOID_ROLES,
         ALLOWED_ORDER_PAID_ROLES
  <2>8. CASE Archive(t) \/ Restore(t) \/ InsertProduct(t)
    BY <2>4, <2>8 DEF Archive, Restore, InsertProduct
  <2>9. CASE \/ RejectOrder(t) \/ OrderNotFound(t) \/ RejectStatus(t) \/ RejectVoid(t)
             \/ RejectAdjust(t) \/ RejectMissing(t) \/ RejectRestore(t) \/ RejectInsert(t)
             \/ FindItems(t) \/ CheckOrders(t) \/ Abort(t)
    BY <2>4, <2>9 DEF RejectOrder, OrderNotFound, RejectStatus, RejectVoid, RejectAdjust,
       RejectMissing, RejectRestore, RejectInsert, FindItems, CheckOrders, Abort, Reject, tables
  <2> QED
    BY <2>3, <2>5, <2>6, <2>7, <2>8, <2>9 DEF Run
<1>2. Inv /\ AllPermitted /\ [Next]_vars => [\A t \in Thread : Sells(t)]_vars
  BY <1>1
<1>3. Init => AllPermitted
  BY DEF Init, AllPermitted
<1> QED
  BY <1>2, <1>3, InvHolds, PermittedStep, PTL DEF Spec, CashierOnlySells
=============================================================================

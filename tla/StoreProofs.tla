---------------------------- MODULE StoreProofs -----------------------------
(***************************************************************************)
(* Theorems about Store, for any threads, tenants, products, orders and    *)
(* bounds.                                                                 *)
(***************************************************************************)
EXTENDS Store, TLAPS

-----------------------------------------------------------------------------
(* The inductive invariant.                                                *)

\* What a thread remembers goes with where it is: an idle thread remembers
\* nothing, a thread that settles an order has the order at hand, and once a
\* void has its products, it has all the order contains.
ControlAt(t) ==
  /\ pc[t] = "idle" => req[t] = NoRequest /\ rows[t] = NoRows /\ orow[t] = NoRow
  /\ pc[t] # "idle" => req[t] \in Request
  /\ pc[t] \in {"get_order", "check_status"} =>
       req[t] \in StatusRequest /\ rows[t] = NoRows
  /\ pc[t] = "check_status" => orow[t] # NoRow
  /\ pc[t] = "lock" =>
       IF req[t].op = "void"
         THEN /\ orow[t] # NoRow
              /\ IsPending(t)
              /\ \A p \in Contents(orow[t].items) : p \in todo[t] \/ rows[t][p] # NoRow
         ELSE orow[t] = NoRow
  /\ pc[t] = "archive" =>
       req[t] \in ArchiveRequest /\ req[t].op = "archive" /\ Held(t) # NoRow /\ orow[t] = NoRow
  /\ pc[t] = "insert" => req[t] \in CreateRequest /\ orow[t] = NoRow
  /\ pc[t] = "get_order" => orow[t] = NoRow

ControlOK == \A t \in Thread : ControlAt(t)

\* A row a thread holds is one its query asked for.
RowsMatch ==
  \A t \in Thread :
    /\ \A p \in ProductId : rows[t][p] # NoRow => Matches(req[t], rows[t][p])
    /\ orow[t] # NoRow => orow[t].tenant = req[t].tenant

Inv == TypeOK /\ MemoryIsCurrent /\ ControlOK /\ RowsMatch /\ OrderTenantMatches

-----------------------------------------------------------------------------
(* What a step may do to the tables without breaking Inv.                  *)

TablesOK ==
  /\ product \in [ProductId -> ProductRow \cup {NoRow}]
  /\ order \in [OrderId -> OrderRow \cup {NoRow}]
  /\ movement \in [ProductId -> [Tally -> Nat]]
  /\ opening \in [ProductId -> 0..MaxInt]

\* The rows that other threads have in memory stay as they are.
Frame(t) ==
  /\ \A p \in ProductId :
       product[p] # NoRow /\ plock[p] # t => product'[p] = product[p]
  /\ \A o \in OrderId : order[o] # NoRow /\ olock[o] # t => order'[o] = order[o]

\* A product stays, and stays with its tenant.
KeepsTenants ==
  \A p \in ProductId :
    product[p] # NoRow => product'[p] # NoRow /\ product'[p].tenant = product[p].tenant

-----------------------------------------------------------------------------

\* A request of an operation has the fields of that operation.
LEMMA RequestKinds ==
  ASSUME NEW r \in Request
  PROVE  /\ r.tenant \in Tenant /\ r.role \in Role
         /\ r.op = "order" => r \in OrderRequest /\ r.items \in Items
         /\ r.op \in {"void", "pay"} => r \in StatusRequest /\ r.order \in OrderId
         /\ r.op = "adjust" => r \in AdjustRequest
         /\ r.op \in {"archive", "restore"} => r \in ArchiveRequest
         /\ r.op \in {"adjust", "archive", "restore"} => r.product \in ProductId
         /\ r.op = "create" => r \in CreateRequest
         /\ r.op \in Operation
  BY DEF Request, OrderRequest, StatusRequest, AdjustRequest, ArchiveRequest,
         CreateRequest, Operation

LEMMA InitInv == Init => Inv
<1> SUFFICES ASSUME Init PROVE Inv
  OBVIOUS
<1> USE DEF Init, NoRows
<1>1. TypeOK
  <2>1. opening \in [ProductId -> 0..MaxInt]
    BY CatalogueAssumption, BoundAssumption, NullAssumption DEF ProductRow
  <2>2. movement \in [ProductId -> [Tally -> Nat]]
    OBVIOUS
  <2>3. product \in [ProductId -> ProductRow \cup {NoRow}]
    BY CatalogueAssumption
  <2>4. issued \in 0..MaxRequests
    BY BoundAssumption
  <2>5. pc \in [Thread -> Place] /\ reply \in [Thread -> Answer]
    BY DEF Place, Answer
  <2>6. rows \in [Thread -> [ProductId -> ProductRow \cup {NoRow}]]
    OBVIOUS
  <2>7. /\ order \in [OrderId -> OrderRow \cup {NoRow}]
        /\ plock \in [ProductId -> Thread \cup {Nobody}]
        /\ olock \in [OrderId -> Thread \cup {Nobody}]
        /\ req \in [Thread -> Request \cup {NoRequest}]
        /\ todo \in [Thread -> SUBSET ProductId]
        /\ orow \in [Thread -> OrderRow \cup {NoRow}]
    OBVIOUS
  <2> QED
    BY <2>1, <2>2, <2>3, <2>4, <2>5, <2>6, <2>7 DEF TypeOK
<1>2. MemoryIsCurrent /\ ControlOK /\ RowsMatch /\ OrderTenantMatches
  BY DEF MemoryIsCurrent, ControlOK, ControlAt, RowsMatch, OrderTenantMatches
<1> QED
  BY <1>1, <1>2 DEF Inv

\* A transaction that ends keeps Inv when its effect on the tables is typed,
\* touches no row another thread holds, and keeps orders with their tenants.
LEMMA FinishInv ==
  ASSUME Inv, NEW t \in Thread, NEW answer \in Answer, Finish(t, answer),
         TablesOK', Frame(t), OrderTenantMatches'
  PROVE  Inv'
<1> USE DEF Inv
<1>1. TypeOK'
  BY RequestAssumption DEF Finish, TypeOK, TablesOK, NoRows, Place
<1>2. MemoryIsCurrent'
  <2> SUFFICES ASSUME NEW u \in Thread
               PROVE  /\ \A p \in ProductId :
                           (rows[u][p] # NoRow => plock[p] = u /\ rows[u][p] = product[p])'
                      /\ (orow[u] # NoRow =>
                           olock[req[u].order] = u /\ orow[u] = order[req[u].order])'
    BY DEF MemoryIsCurrent
  <2>1. CASE u = t
    <3>1. rows'[t] = NoRows /\ orow'[t] = NoRow
      BY DEF Finish, TypeOK
    <3> QED
      BY <2>1, <3>1 DEF NoRows
  <2>2. CASE u # t
    <3>1. rows'[u] = rows[u] /\ orow'[u] = orow[u] /\ req'[u] = req[u]
      BY <2>2 DEF Finish, TypeOK
    <3>2. ASSUME NEW p \in ProductId, rows[u][p] # NoRow
          PROVE  plock'[p] = u /\ rows[u][p] = product'[p]
      BY <2>2, <3>2 DEF Finish, TypeOK, MemoryIsCurrent, Frame
    <3>3. ASSUME orow[u] # NoRow
          PROVE  olock'[req[u].order] = u /\ orow[u] = order'[req[u].order]
      <4>1. req[u].order \in OrderId
        BY <3>3, RequestKinds DEF ControlOK, ControlAt, TypeOK, Place, StatusRequest
      <4> QED
        BY <2>2, <3>3, <4>1 DEF Finish, TypeOK, MemoryIsCurrent, Frame
    <3> QED
      BY <3>1, <3>2, <3>3
  <2> QED
    BY <2>1, <2>2
<1>3. ControlOK'
  <2> SUFFICES ASSUME NEW u \in Thread PROVE ControlAt(u)'
    BY DEF ControlOK
  <2>1. CASE u = t
    BY <2>1 DEF Finish, ControlAt, TypeOK
  <2>2. CASE u # t
    BY <2>2 DEF Finish, ControlAt, ControlOK, TypeOK, IsPending, Held
  <2> QED
    BY <2>1, <2>2
<1>4. RowsMatch'
  <2>1. rows'[t] = NoRows /\ orow'[t] = NoRow
    BY DEF Finish, TypeOK
  <2>2. ASSUME NEW u \in Thread, u # t
        PROVE  rows'[u] = rows[u] /\ orow'[u] = orow[u] /\ req'[u] = req[u]
    BY <2>2 DEF Finish, TypeOK
  <2> QED
    BY <2>1, <2>2 DEF RowsMatch, Matches, NoRows
<1> QED
  BY <1>1, <1>2, <1>3, <1>4

\* A transaction that raises, for whatever reason, changes no table.
LEMMA RejectInv ==
  ASSUME Inv, NEW t \in Thread, NEW answer \in Answer, Reject(t, answer)
  PROVE  Inv'
<1>1. Finish(t, answer) /\ UNCHANGED tables
  BY DEF Reject
<1>2. TablesOK' /\ Frame(t) /\ OrderTenantMatches'
  BY <1>1 DEF tables, Inv, TypeOK, TablesOK, Frame, OrderTenantMatches
<1> QED
  BY <1>1, <1>2, FinishInv

\* A request that is turned away only changes the answer.
LEMMA DenyInv ==
  ASSUME Inv, NEW t \in Thread, NEW r, NEW answer \in Answer, Deny(t, r, answer)
  PROVE  Inv'
<1> USE DEF Inv, Deny, tables, locks
<1>1. TypeOK'
  BY DEF TypeOK
<1>2. MemoryIsCurrent' /\ RowsMatch' /\ OrderTenantMatches'
  BY DEF MemoryIsCurrent, RowsMatch, Matches, OrderTenantMatches
<1>3. ControlOK'
  BY DEF ControlOK, ControlAt, IsPending, Held
<1> QED
  BY <1>1, <1>2, <1>3

\* A request that is accepted stops where its operation needs it to.
Starts(r, next, wanted) ==
  \/ r \in StatusRequest /\ next = "get_order" /\ wanted = {}
  \/ r \in OrderRequest \cup AdjustRequest \cup ArchiveRequest /\ next = "lock"
  \/ r \in CreateRequest /\ next = "insert" /\ wanted = {}

LEMMA BeginInv ==
  ASSUME Inv, NEW t \in Thread, NEW r \in Request, NEW next,
         NEW wanted \in SUBSET ProductId,
         Begin(t, r, next, wanted), Starts(r, next, wanted)
  PROVE  Inv'
<1> USE DEF Inv, Begin, tables, locks
<1>1. next \in Place /\ next # "idle"
  BY DEF Starts, Place
<1>2. TypeOK'
  BY <1>1, BoundAssumption DEF TypeOK, Answer
<1>3. rows[t] = NoRows /\ orow[t] = NoRow
  BY DEF ControlOK, ControlAt
<1>4. MemoryIsCurrent'
  BY <1>3 DEF MemoryIsCurrent, NoRows, TypeOK
<1>5. ControlOK'
  <2> SUFFICES ASSUME NEW u \in Thread PROVE ControlAt(u)'
    BY DEF ControlOK
  <2>1. CASE u # t
    BY <2>1 DEF ControlAt, ControlOK, TypeOK, IsPending, Held
  <2>2. CASE u = t
    <3>1. pc'[t] = next /\ req'[t] = r /\ rows'[t] = NoRows /\ orow'[t] = NoRow
      BY <1>3 DEF TypeOK
    <3> QED
      BY <1>1, <2>2, <3>1, <1>3
         DEF ControlAt, Starts, OrderRequest, AdjustRequest, ArchiveRequest
  <2> QED
    BY <2>1, <2>2
<1>6. RowsMatch'
  BY <1>3 DEF RowsMatch, NoRows, TypeOK, Matches
<1>7. OrderTenantMatches'
  BY DEF OrderTenantMatches
<1> QED
  BY <1>2, <1>4, <1>5, <1>6, <1>7

-----------------------------------------------------------------------------
(* Every action keeps Inv.                                                 *)

LEMMA CallInv ==
  ASSUME Inv, NEW t \in Thread, Call(t)
  PROVE  Inv'
<1> USE DEF Starts, Request
<1>1. CASE CreateOrder(t)
  <2>1. PICK r \in OrderRequest : Begin(t, r, "lock", Found(r, Contents(r.items)))
    BY <1>1 DEF CreateOrder
  <2> QED
    BY <2>1, BeginInv DEF Found, Contents
<1>2. CASE CallOnOrder(t)
  <2>1. PICK r \in StatusRequest : Begin(t, r, "get_order", {})
    BY <1>2 DEF CallOnOrder
  <2> QED
    BY <2>1, BeginInv
<1>3. CASE DenyOrderCall(t)
  BY <1>3, DenyInv DEF DenyOrderCall, Answer
<1>4. CASE AdjustStock(t)
  <2>1. PICK r \in AdjustRequest : Begin(t, r, "lock", Found(r, {r.product}))
    BY <1>4 DEF AdjustStock
  <2>2. Found(r, {r.product}) \in SUBSET ProductId
    BY DEF Found, AdjustRequest
  <2> QED
    BY <2>1, <2>2, BeginInv
<1>5. CASE CallOnProduct(t)
  <2>1. PICK r \in ArchiveRequest : Begin(t, r, "lock", Found(r, {r.product}))
    BY <1>5 DEF CallOnProduct
  <2>2. Found(r, {r.product}) \in SUBSET ProductId
    BY DEF Found, ArchiveRequest
  <2> QED
    BY <2>1, <2>2, BeginInv
<1>6. CASE CreateProduct(t)
  <2>1. PICK r \in CreateRequest :
          Deny(t, r, "already_exists") \/ Begin(t, r, "insert", {})
    BY <1>6 DEF CreateProduct
  <2> QED
    BY <2>1, BeginInv, DenyInv DEF Answer
<1>7. CASE DenyProductCall(t)
  BY <1>7, DenyInv DEF DenyProductCall, Answer
<1> QED
  BY <1>1, <1>2, <1>3, <1>4, <1>5, <1>6, <1>7 DEF Call

LEMMA LockProductInv ==
  ASSUME Inv, NEW t \in Thread, LockProduct(t)
  PROVE  Inv'
<1> USE DEF Inv, tables
<1>1. PICK p \in todo[t] :
        /\ plock[p] = Nobody
        /\ plock' = [plock EXCEPT ![p] = t]
        /\ rows' = [rows EXCEPT ![t][p] = Reread(req[t], product[p])]
        /\ todo' = [todo EXCEPT ![t] = @ \ {p}]
  BY DEF LockProduct, CanLock
<1>2. /\ pc[t] = "lock"
      /\ UNCHANGED <<product, order, movement, opening, olock, pc, req, orow, reply, issued>>
  BY DEF LockProduct
<1>3. p \in ProductId
  BY DEF TypeOK
<1>4. TypeOK'
  <2>1. rows' \in [Thread -> [ProductId -> ProductRow \cup {NoRow}]]
    BY <1>1, <1>3 DEF TypeOK, Reread
  <2> QED
    BY <1>1, <1>2, <1>3, <2>1 DEF TypeOK
<1>5. ASSUME NEW u \in Thread, NEW q \in ProductId
      PROVE  rows'[u][q] = IF u = t /\ q = p THEN Reread(req[t], product[p]) ELSE rows[u][q]
  BY <1>1, <1>3 DEF TypeOK
<1>6. MemoryIsCurrent'
  <2>1. ASSUME NEW u \in Thread, NEW q \in ProductId, rows'[u][q] # NoRow
        PROVE  plock'[q] = u /\ rows'[u][q] = product'[q]
    <3>1. CASE u = t /\ q = p
      BY <1>1, <1>2, <1>3, <1>5, <2>1, <3>1 DEF Reread, TypeOK
    <3>2. CASE ~(u = t /\ q = p)
      <4>1. plock[q] = u /\ rows[u][q] = product[q]
        BY <1>5, <2>1, <3>2 DEF MemoryIsCurrent
      <4>2. q # p
        BY <1>1, <4>1, NullAssumption
      <4> QED
        BY <1>1, <1>2, <1>3, <1>5, <3>2, <4>1, <4>2 DEF TypeOK
    <3> QED
      BY <3>1, <3>2
  <2> QED
    BY <1>2, <2>1 DEF MemoryIsCurrent
<1>7. ControlOK'
  <2> SUFFICES ASSUME NEW u \in Thread PROVE ControlAt(u)'
    BY DEF ControlOK
  <2>1. ControlAt(u)
    BY DEF ControlOK
  <2>2. CASE u # t
    <3>1. rows'[u] = rows[u] /\ todo'[u] = todo[u]
      BY <1>1, <2>2 DEF TypeOK
    <3> QED
      BY <1>2, <2>1, <3>1 DEF ControlAt, IsPending, Held
  <2>3. CASE u = t
    <3>1. ASSUME req[t].op = "void", NEW q \in Contents(orow[t].items)
          PROVE  q \in todo'[t] \/ rows'[t][q] # NoRow
      <4>1. q \in todo[t] \/ rows[t][q] # NoRow
        BY <1>2, <2>1, <2>3, <3>1 DEF ControlAt
      <4>2. CASE q # p
        BY <1>1, <1>5, <4>1, <4>2 DEF TypeOK, Contents
      <4>3. CASE q = p
        <5>1. req[t] \in StatusRequest /\ orow[t] # NoRow /\ req[t].order \in OrderId
          BY <1>2, <2>1, <2>3, <3>1, RequestKinds DEF ControlAt
        <5>2. orow[t] = order[req[t].order]
          BY <5>1 DEF MemoryIsCurrent
        <5>3. order[req[t].order].items[p] > 0
          BY <4>3, <5>2 DEF Contents
        <5>4. product[p] # NoRow /\ product[p].tenant = orow[t].tenant
          BY <1>3, <5>1, <5>2, <5>3 DEF OrderTenantMatches
        <5>5. Matches(req[t], product[p])
          BY <3>1, <5>1, <5>4 DEF Matches, RowsMatch
        <5> QED
          BY <1>3, <1>5, <4>3, <5>4, <5>5 DEF Reread
      <4> QED
        BY <4>2, <4>3
    <3> QED
      BY <1>2, <2>1, <2>3, <3>1 DEF ControlAt, IsPending
  <2> QED
    BY <2>2, <2>3
<1>8. RowsMatch'
  BY <1>2, <1>5 DEF RowsMatch, Matches, Reread
<1>9. OrderTenantMatches'
  BY <1>2 DEF OrderTenantMatches
<1> QED
  BY <1>4, <1>6, <1>7, <1>8, <1>9

LEMMA GetOrderInv ==
  ASSUME Inv, NEW t \in Thread, GetOrder(t)
  PROVE  Inv'
<1> USE DEF Inv, tables, GetOrder, Goto
<1> DEFINE o == req[t].order
<1>1. req[t] \in StatusRequest /\ o \in OrderId /\ rows[t] = NoRows
  BY DEF ControlOK, ControlAt, StatusRequest
<1>2. order[o] # NoRow /\ order[o].tenant = req[t].tenant /\ olock[o] = Nobody
  BY DEF OrderVisible, CanLockOrder
<1>3. TypeOK'
  BY <1>1 DEF TypeOK, Place
<1>4. orow' = [orow EXCEPT ![t] = order[o]] /\ olock' = [olock EXCEPT ![o] = t]
  OBVIOUS
<1>5. MemoryIsCurrent'
  <2> SUFFICES ASSUME NEW u \in Thread, orow'[u] # NoRow
               PROVE  olock'[req[u].order] = u /\ orow'[u] = order[req[u].order]
    BY DEF MemoryIsCurrent
  <2>1. CASE u = t
    BY <1>1, <1>4, <2>1 DEF TypeOK
  <2>2. CASE u # t
    <3>1. olock[req[u].order] = u /\ orow[u] = order[req[u].order]
      BY <1>4, <2>2 DEF TypeOK, MemoryIsCurrent
    <3>2. req[u].order # o
      BY <1>2, <3>1, NullAssumption
    <3> QED
      BY <1>4, <2>2, <3>1, <3>2 DEF TypeOK
  <2> QED
    BY <2>1, <2>2
<1>6. ControlOK'
  <2> SUFFICES ASSUME NEW u \in Thread PROVE ControlAt(u)'
    BY DEF ControlOK
  <2>1. CASE u = t
    BY <1>1, <1>2, <2>1, RequestAssumption DEF TypeOK, ControlAt, ControlOK
  <2>2. CASE u # t
    BY <2>2 DEF TypeOK, ControlAt, ControlOK, IsPending, Held
  <2> QED
    BY <2>1, <2>2
<1>7. RowsMatch'
  BY <1>2, <1>4 DEF RowsMatch, Matches, TypeOK
<1>8. OrderTenantMatches'
  BY DEF OrderTenantMatches
<1> QED
  BY <1>3, <1>5, <1>6, <1>7, <1>8

LEMMA FindItemsInv ==
  ASSUME Inv, NEW t \in Thread, FindItems(t)
  PROVE  Inv'
<1> USE DEF Inv, tables, locks, FindItems, Goto
<1>1. /\ orow[t] # NoRow
      /\ orow[t] = order[req[t].order]
      /\ orow[t].tenant = req[t].tenant
      /\ req[t].order \in OrderId
  BY DEF ControlOK, ControlAt, MemoryIsCurrent, RowsMatch, StatusRequest
<1>2. Contents(orow[t].items) \subseteq Found(req[t], Contents(orow[t].items))
  BY <1>1 DEF Contents, Found, Matches, OrderTenantMatches
<1>3. TypeOK'
  BY DEF TypeOK, Place, Found, Contents
<1>4. MemoryIsCurrent' /\ RowsMatch' /\ OrderTenantMatches'
  BY DEF MemoryIsCurrent, RowsMatch, Matches, OrderTenantMatches
<1>5. ControlOK'
  <2> SUFFICES ASSUME NEW u \in Thread PROVE ControlAt(u)'
    BY DEF ControlOK
  <2>1. CASE u = t
    <3>1. pc'[t] = "lock" /\ todo'[t] = Found(req[t], Contents(orow[t].items))
      BY DEF TypeOK
    <3>2. req[t] \in Request
      BY DEF ControlOK, ControlAt
    <3> QED
      BY <1>1, <1>2, <2>1, <3>1, <3>2 DEF ControlAt, IsPending
  <2>2. CASE u # t
    BY <2>2 DEF TypeOK, ControlAt, ControlOK, IsPending, Held
  <2> QED
    BY <2>1, <2>2
<1> QED
  BY <1>3, <1>4, <1>5

LEMMA CheckOrdersInv ==
  ASSUME Inv, NEW t \in Thread, CheckOrders(t)
  PROVE  Inv'
<1>1. CASE PendingOrderOf(req[t].product, req[t].tenant)
  BY <1>1, RejectInv DEF CheckOrders, Answer
<1>2. CASE ~PendingOrderOf(req[t].product, req[t].tenant)
  <2> USE DEF Inv, tables, locks, Goto, Locked
  <2>1. /\ pc[t] = "lock" /\ req[t].op = "archive" /\ Held(t) # NoRow
        /\ pc' = [pc EXCEPT ![t] = "archive"]
        /\ UNCHANGED <<product, order, movement, opening, plock, olock>>
        /\ UNCHANGED <<req, todo, rows, orow, reply, issued>>
    BY <1>2 DEF CheckOrders
  <2>2. req[t] \in Request /\ orow[t] = NoRow
    BY <2>1 DEF ControlOK, ControlAt
  <2>3. TypeOK'
    BY <2>1 DEF TypeOK, Place
  <2>4. MemoryIsCurrent' /\ RowsMatch' /\ OrderTenantMatches'
    BY <2>1 DEF MemoryIsCurrent, RowsMatch, Matches, OrderTenantMatches
  <2>5. ControlOK'
    <3> SUFFICES ASSUME NEW u \in Thread PROVE ControlAt(u)'
      BY DEF ControlOK
    <3>1. CASE u = t
      BY <2>1, <2>2, <3>1, RequestKinds DEF TypeOK, ControlAt, Held
    <3>2. CASE u # t
      BY <2>1, <3>2 DEF TypeOK, ControlAt, ControlOK, IsPending, Held
    <3> QED
      BY <3>1, <3>2
  <2> QED
    BY <2>3, <2>4, <2>5
<1> QED
  BY <1>1, <1>2

\* A thread that settles an order holds its row, which is PENDING.
LEMMA OrderAtHand ==
  ASSUME Inv, NEW t \in Thread, orow[t] # NoRow
  PROVE  /\ req[t].order \in OrderId
         /\ orow[t] = order[req[t].order]
         /\ orow[t] \in OrderRow
         /\ olock[req[t].order] = t
         /\ orow[t].tenant = req[t].tenant
<1>1. pc[t] \in {"check_status", "lock"} /\ ControlAt(t)
  BY DEF Inv, TypeOK, Place, ControlOK, ControlAt
<1>2. req[t] \in Request /\ req[t].op \in {"void", "pay"}
  BY <1>1 DEF ControlAt, StatusRequest
<1>3. req[t].order \in OrderId
  BY <1>2, RequestKinds
<1> QED
  BY <1>3 DEF Inv, TypeOK, MemoryIsCurrent, RowsMatch

\* A row at hand is a Product row, committed and locked.
LEMMA RowAtHand ==
  ASSUME Inv, NEW t \in Thread, NEW p \in ProductId, rows[t][p] # NoRow
  PROVE  /\ rows[t][p] = product[p]
         /\ rows[t][p] \in ProductRow
         /\ plock[p] = t
         /\ Matches(req[t], product[p])
BY DEF Inv, TypeOK, MemoryIsCurrent, RowsMatch

\* Journal appends to a tally.
LEMMA JournalType ==
  ASSUME NEW tally \in [Tally -> Nat], NEW action, NEW reason, NEW quantity \in Nat
  PROVE  Journal(tally, action, reason, quantity) \in [Tally -> Nat]
BY DEF Journal

\* When products stay with their tenants, so do the orders that exist.
LEMMA TenantsKept ==
  ASSUME Inv, KeepsTenants,
         \A o \in OrderId :
           order[o] # NoRow =>
             /\ order'[o] # NoRow
             /\ order'[o].tenant = order[o].tenant
             /\ order'[o].items = order[o].items,
         \A o \in OrderId : order[o] = NoRow => order'[o] = NoRow
  PROVE  OrderTenantMatches'
BY DEF Inv, OrderTenantMatches, KeepsTenants

LEMMA PlaceOrderInv ==
  ASSUME Inv, NEW t \in Thread, PlaceOrder(t)
  PROVE  Inv'
<1> DEFINE items == req[t].items
           cart == Contents(items)
<1>1. req[t] \in OrderRequest /\ items \in Items
  BY RequestKinds DEF PlaceOrder, Locked, Inv, ControlOK, ControlAt
<1>2. ASSUME NEW p \in cart
      PROVE  /\ p \in ProductId /\ plock[p] = t /\ product[p] \in ProductRow
             /\ rows[t][p] = product[p] /\ product[p].tenant = req[t].tenant
             /\ items[p] \in Nat /\ items[p] <= product[p].stock
  <2>1. p \in ProductId /\ rows[t][p] # NoRow /\ items[p] <= rows[t][p].stock
    BY <1>2 DEF PlaceOrder, AllFound, Enough, Contents
  <2> QED
    BY <1>1, <2>1, RowAtHand, BoundAssumption DEF Items, Matches
<1>3. PICK o \in OrderId :
        /\ order[o] = NoRow
        /\ order' = [order EXCEPT ![o] =
                       [tenant |-> req[t].tenant, status |-> "PENDING",
                        items |-> items, total_price |-> TotalPrice(t)]]
  BY DEF PlaceOrder, IsFree
<1>4. product' = [p \in ProductId |->
        IF p \in cart THEN [product[p] EXCEPT !.stock = rows[t][p].stock - items[p]]
                      ELSE product[p]]
  BY DEF PlaceOrder
<1>5. movement' = [p \in ProductId |->
        IF p \in cart THEN Journal(movement[p], "DEDUCT", "SALE", items[p])
                      ELSE movement[p]]
  BY DEF PlaceOrder
<1>6. TablesOK'
  <2>1. product' \in [ProductId -> ProductRow \cup {NoRow}]
    <3>1. ASSUME NEW p \in cart
          PROVE  [product[p] EXCEPT !.stock = rows[t][p].stock - items[p]] \in ProductRow
      BY <1>2, <3>1, BoundAssumption DEF ProductRow
    <3> QED
      BY <1>4, <3>1 DEF Inv, TypeOK
  <2>2. movement' \in [ProductId -> [Tally -> Nat]]
    BY <1>2, <1>5, JournalType DEF Inv, TypeOK
  <2>3. order' \in [OrderId -> OrderRow \cup {NoRow}]
    <3>1. TotalPrice(t) \in 0..MaxInt
      BY DEF PlaceOrder, Fits
    <3> QED
      BY <1>1, <1>3, <3>1, RequestKinds DEF Inv, TypeOK, OrderRow, OrderRequest, Status
  <2> QED
    BY <2>1, <2>2, <2>3 DEF PlaceOrder, TablesOK, Inv, TypeOK
<1>7. Frame(t)
  BY <1>2, <1>3, <1>4 DEF Frame, Inv, TypeOK
<1>8. KeepsTenants
  <2>1. ASSUME NEW p \in cart
        PROVE product'[p] # NoRow /\ product'[p].tenant = product[p].tenant
    <3>1. product'[p] = [product[p] EXCEPT !.stock = rows[t][p].stock - items[p]]
      BY <1>2, <1>4
    <3>2. product'[p] \in ProductRow /\ product'[p].tenant = product[p].tenant
      BY <1>2, <3>1, BoundAssumption DEF ProductRow
    <3> QED
      BY <3>2, NullAssumption
  <2> QED
    BY <1>4, <2>1 DEF KeepsTenants
<1>9. OrderTenantMatches'
  <2> SUFFICES ASSUME NEW n \in OrderId, NEW p \in ProductId,
                      order'[n] # NoRow, order'[n].items[p] > 0
               PROVE  product'[p] # NoRow /\ product'[p].tenant = order'[n].tenant
    BY DEF OrderTenantMatches
  <2>1. CASE n = o
    <3>1. order'[o].items = items /\ order'[o].tenant = req[t].tenant
      BY <1>3 DEF Inv, TypeOK
    <3>2. p \in cart
      BY <2>1, <3>1 DEF Contents
    <3> QED
      BY <1>2, <1>8, <2>1, <3>1, <3>2, NullAssumption DEF KeepsTenants
  <2>2. CASE n # o
    BY <1>3, <1>8, <2>2 DEF Inv, TypeOK, OrderTenantMatches, KeepsTenants
  <2> QED
    BY <2>1, <2>2
<1> QED
  BY <1>6, <1>7, <1>9, FinishInv DEF PlaceOrder, Answer

\* A new status leaves the rest of an order at hand as it is.
LEMMA SetStatusEffect ==
  ASSUME Inv, NEW t \in Thread, orow[t] # NoRow, NEW status \in Status,
         SetStatus(t, status)
  PROVE  /\ order' \in [OrderId -> OrderRow \cup {NoRow}]
         /\ \A o \in OrderId : order[o] # NoRow /\ olock[o] # t => order'[o] = order[o]
         /\ \A o \in OrderId :
              order[o] # NoRow =>
                /\ order'[o] # NoRow
                /\ order'[o].tenant = order[o].tenant
                /\ order'[o].items = order[o].items
         /\ \A o \in OrderId : order[o] = NoRow => order'[o] = NoRow
<1> DEFINE n == req[t].order
           row == [order[n] EXCEPT !.status = status]
<1>1. n \in OrderId /\ order[n] \in OrderRow /\ order[n] # NoRow /\ olock[n] = t
  BY OrderAtHand, NullAssumption
<1>2. row \in OrderRow /\ row.tenant = order[n].tenant /\ row.items = order[n].items
  BY <1>1 DEF OrderRow
<1>3. order' = [order EXCEPT ![n] = row]
  BY DEF SetStatus
<1>4. order \in [OrderId -> OrderRow \cup {NoRow}]
  BY DEF Inv, TypeOK
<1> HIDE DEF row, n
<1> QED
  BY <1>1, <1>2, <1>3, <1>4, NullAssumption

LEMMA PayOrderInv ==
  ASSUME Inv, NEW t \in Thread, PayOrder(t)
  PROVE  Inv'
<1>1. orow[t] # NoRow
  BY DEF PayOrder, Inv, ControlOK, ControlAt
<1>2. SetStatus(t, "PAID") /\ UNCHANGED <<product, movement, opening>>
  BY DEF PayOrder
<1>3. TablesOK' /\ Frame(t)
  BY <1>1, <1>2, SetStatusEffect DEF TablesOK, Frame, Inv, TypeOK, Status
<1>4. OrderTenantMatches'
  BY <1>1, <1>2, SetStatusEffect, TenantsKept DEF KeepsTenants, Status
<1> QED
  BY <1>3, <1>4, FinishInv DEF PayOrder, Answer

LEMMA VoidOrderInv ==
  ASSUME Inv, NEW t \in Thread, VoidOrder(t)
  PROVE  Inv'
<1> DEFINE items == orow[t].items
           cart == Contents(items)
<1>1. orow[t] # NoRow /\ \A p \in cart : rows[t][p] # NoRow
  BY DEF VoidOrder, Locked, Inv, ControlOK, ControlAt
<1>2. items \in Items
  BY <1>1, OrderAtHand DEF OrderRow
<1>3. ASSUME NEW p \in cart
      PROVE  /\ p \in ProductId /\ plock[p] = t /\ product[p] \in ProductRow
             /\ rows[t][p] = product[p] /\ items[p] \in Nat
             /\ Restored(t, p) \in 0..MaxInt
  <2>1. p \in ProductId
    BY DEF Contents
  <2>2. Restored(t, p) \in 0..MaxInt
    BY DEF VoidOrder, RestoredFits, Fits
  <2>3. items[p] \in Nat
    BY <1>2, <2>1, BoundAssumption DEF Items
  <2> QED
    BY <1>1, <1>3, <2>1, <2>2, <2>3, RowAtHand
<1>4. /\ SetStatus(t, "VOID")
      /\ UNCHANGED opening
      /\ product' = [p \in ProductId |->
           IF p \in cart THEN [product[p] EXCEPT !.stock = Restored(t, p)]
                         ELSE product[p]]
      /\ movement' = [p \in ProductId |->
           IF p \in cart THEN Journal(movement[p], "ADD", "ORDER_VOID", items[p])
                         ELSE movement[p]]
  BY DEF VoidOrder
<1>5. ASSUME NEW p \in cart
      PROVE  /\ product'[p] \in ProductRow
             /\ product'[p].tenant = product[p].tenant
  <2>1. product'[p] = [product[p] EXCEPT !.stock = Restored(t, p)]
    BY <1>3, <1>4
  <2> QED
    BY <1>3, <2>1 DEF ProductRow
<1>6. TablesOK'
  <2>1. product' \in [ProductId -> ProductRow \cup {NoRow}]
    BY <1>4, <1>5 DEF Inv, TypeOK
  <2>2. movement' \in [ProductId -> [Tally -> Nat]]
    BY <1>3, <1>4, JournalType DEF Inv, TypeOK
  <2> QED
    BY <1>1, <1>4, <2>1, <2>2, SetStatusEffect DEF TablesOK, Inv, TypeOK, Status
<1>7. Frame(t)
  BY <1>1, <1>3, <1>4, SetStatusEffect DEF Frame, Status
<1>8. KeepsTenants
  BY <1>4, <1>5, NullAssumption DEF KeepsTenants
<1>9. OrderTenantMatches'
  BY <1>1, <1>4, <1>8, SetStatusEffect, TenantsKept DEF Status
<1> QED
  BY <1>6, <1>7, <1>9, FinishInv DEF VoidOrder, Answer

\* A row at hand is replaced by one of the same tenant.
LEMMA SetProductEffect ==
  ASSUME Inv, NEW t \in Thread, req[t].product \in ProductId, Held(t) # NoRow,
         NEW row \in ProductRow, row.tenant = Held(t).tenant,
         SetProduct(t, row), UNCHANGED order
  PROVE  /\ product' \in [ProductId -> ProductRow \cup {NoRow}]
         /\ Frame(t)
         /\ OrderTenantMatches'
<1>1. product' = [product EXCEPT ![req[t].product] = row]
  BY DEF SetProduct
<1>2. plock[req[t].product] = t /\ product[req[t].product] = Held(t)
  BY RowAtHand DEF Held
<1>3. product \in [ProductId -> ProductRow \cup {NoRow}]
  BY DEF Inv, TypeOK
<1>4. KeepsTenants
  BY <1>1, <1>2, <1>3, NullAssumption DEF KeepsTenants
<1> QED
  BY <1>1, <1>2, <1>3, <1>4, TenantsKept DEF Frame

LEMMA SaveStockInv ==
  ASSUME Inv, NEW t \in Thread, SaveStock(t)
  PROVE  Inv'
<1> DEFINE p == req[t].product
           old == Held(t).stock
           new == NewStock(req[t], old)
           row == [product[p] EXCEPT !.stock = new]
<1>1. req[t] \in Request /\ req[t].op = "adjust" /\ p \in ProductId
  BY RequestKinds DEF SaveStock, Locked, Inv, ControlOK, ControlAt
<1>2. Held(t) # NoRow /\ new \in 0..MaxInt /\ SetProduct(t, row) /\ UNCHANGED <<order, opening>>
  BY DEF SaveStock
<1>3. Held(t) = product[p] /\ Held(t) \in ProductRow
  BY <1>1, <1>2, RowAtHand DEF Held
<1>4. row \in ProductRow /\ row.tenant = Held(t).tenant
  BY <1>2, <1>3 DEF ProductRow
<1>5. movement' \in [ProductId -> [Tally -> Nat]]
  <2>1. old \in 0..MaxInt
    BY <1>3 DEF ProductRow
  <2>2. /\ Journal(movement[p], "ADD", req[t].reason, new - old) \in [Tally -> Nat]
          \/ ~(new > old)
        /\ Journal(movement[p], "DEDUCT", req[t].reason, old - new) \in [Tally -> Nat]
          \/ new > old
    <3> HIDE DEF new, old
    <3>1. movement[p] \in [Tally -> Nat]
      BY <1>1 DEF Inv, TypeOK
    <3>2. CASE new > old
      <4>1. new - old \in Nat
        BY <1>2, <2>1, <3>2, BoundAssumption
      <4> QED
        BY <3>1, <3>2, <4>1, JournalType
    <3>3. CASE ~(new > old)
      <4>1. old - new \in Nat
        BY <1>2, <2>1, <3>3, BoundAssumption
      <4> QED
        BY <3>1, <3>3, <4>1, JournalType
    <3> QED
      BY <3>2, <3>3
  <2>3. movement' = [movement EXCEPT ![p] =
          IF new > old THEN Journal(@, "ADD", req[t].reason, new - old)
                       ELSE Journal(@, "DEDUCT", req[t].reason, old - new)]
    BY DEF SaveStock
  <2> HIDE DEF new, old, p
  <2> QED
    BY <2>2, <2>3 DEF Inv, TypeOK
<1> HIDE DEF p, new, row
<1>6. TablesOK' /\ Frame(t) /\ OrderTenantMatches'
  BY <1>1, <1>2, <1>4, <1>5, SetProductEffect DEF TablesOK, Inv, TypeOK, p
<1> QED
  BY <1>6, FinishInv DEF SaveStock, Answer

\* Archiving and restoring write the flag of the row at hand.
LEMMA SetFlagInv ==
  ASSUME Inv, NEW t \in Thread, req[t].product \in ProductId, Held(t) # NoRow,
         NEW flag \in BOOLEAN, NEW answer \in Answer,
         SetProduct(t, [product[req[t].product] EXCEPT !.is_archived = flag]),
         UNCHANGED <<order, movement, opening>>,
         Finish(t, answer)
  PROVE  Inv'
<1> DEFINE row == [product[req[t].product] EXCEPT !.is_archived = flag]
<1>1. Held(t) = product[req[t].product] /\ Held(t) \in ProductRow
  BY RowAtHand DEF Held
<1>2. row \in ProductRow /\ row.tenant = Held(t).tenant
  BY <1>1 DEF ProductRow
<1> HIDE DEF row
<1>3. TablesOK' /\ Frame(t) /\ OrderTenantMatches'
  BY <1>2, SetProductEffect DEF TablesOK, Inv, TypeOK, row
<1> QED
  BY <1>3, FinishInv

LEMMA ArchiveInv ==
  ASSUME Inv, NEW t \in Thread, Archive(t)
  PROVE  Inv'
<1>1. req[t].product \in ProductId /\ Held(t) # NoRow
  BY DEF Archive, Inv, ControlOK, ControlAt, ArchiveRequest
<1> QED
  BY <1>1, SetFlagInv DEF Archive, Answer

LEMMA RestoreInv ==
  ASSUME Inv, NEW t \in Thread, Restore(t)
  PROVE  Inv'
<1>1. req[t].product \in ProductId /\ Held(t) # NoRow
  BY RequestKinds DEF Restore, Locked, Inv, ControlOK, ControlAt
<1> QED
  BY <1>1, SetFlagInv DEF Restore, Answer

LEMMA InsertProductInv ==
  ASSUME Inv, NEW t \in Thread, InsertProduct(t)
  PROVE  Inv'
<1> DEFINE row == [tenant |-> req[t].tenant, name |-> req[t].name,
                   price |-> req[t].price, stock |-> req[t].stock,
                   is_archived |-> FALSE]
<1>1. PICK p \in ProductId :
        /\ product[p] = NoRow
        /\ product' = [product EXCEPT ![p] = row]
        /\ opening' = [opening EXCEPT ![p] = req[t].stock]
  BY DEF InsertProduct, IsFree
<1>2. UNCHANGED <<order, movement>>
  BY DEF InsertProduct
<1>3. req[t] \in CreateRequest
  BY DEF InsertProduct, Inv, ControlOK, ControlAt
<1>4. row \in ProductRow /\ req[t].stock \in 0..MaxInt
  BY <1>3, BoundAssumption DEF CreateRequest, ProductRow
<1> HIDE DEF row
<1>5. TablesOK'
  BY <1>1, <1>2, <1>4 DEF TablesOK, Inv, TypeOK
<1>6. Frame(t) /\ KeepsTenants
  BY <1>1, <1>2 DEF Frame, KeepsTenants, Inv, TypeOK
<1>7. OrderTenantMatches'
  BY <1>2, <1>6, TenantsKept
<1> QED
  BY <1>5, <1>6, <1>7, FinishInv DEF InsertProduct, Answer

LEMMA NextInv == Inv /\ [Next]_vars => Inv'
<1> SUFFICES ASSUME Inv, [Next]_vars PROVE Inv'
  OBVIOUS
<1>1. CASE UNCHANGED vars
  BY <1>1 DEF vars, Inv, TypeOK, MemoryIsCurrent, ControlOK, ControlAt, RowsMatch,
              Matches, OrderTenantMatches, IsPending, Held
<1>2. ASSUME NEW t \in Thread, Call(t) \/ TakeLock(t) \/ Run(t) \/ Abort(t)
      PROVE  Inv'
  <2>1. CASE Call(t)
    BY <2>1, CallInv
  <2>2. CASE TakeLock(t)
    BY <2>2, LockProductInv, GetOrderInv DEF TakeLock
  <2>3. CASE Run(t)
    <3>1. CASE \E answer \in Answer : Reject(t, answer)
      BY <3>1, RejectInv
    <3>2. CASE PlaceOrder(t) \/ PayOrder(t) \/ FindItems(t) \/ VoidOrder(t)
      BY <3>2, PlaceOrderInv, PayOrderInv, FindItemsInv, VoidOrderInv
    <3>3. CASE SaveStock(t) \/ CheckOrders(t) \/ Archive(t) \/ Restore(t) \/ InsertProduct(t)
      BY <3>3, SaveStockInv, CheckOrdersInv, ArchiveInv, RestoreInv, InsertProductInv
    <3>4. CASE \/ RejectOrder(t) \/ OrderNotFound(t) \/ RejectStatus(t) \/ RejectVoid(t)
               \/ RejectAdjust(t) \/ RejectMissing(t) \/ RejectRestore(t) \/ RejectInsert(t)
      <4>1. \E answer \in Answer : Reject(t, answer)
        BY <3>4 DEF RejectOrder, OrderNotFound, RejectStatus, RejectVoid, RejectAdjust,
                    RejectMissing, RejectRestore, RejectInsert, Answer
      <4> QED
        BY <3>1, <4>1
    <3> QED
      BY <2>3, <3>2, <3>3, <3>4 DEF Run
  <2>4. CASE Abort(t)
    BY <2>4, RejectInv DEF Abort, Answer
  <2> QED
    BY <1>2, <2>1, <2>2, <2>3, <2>4
<1> QED
  BY <1>1, <1>2 DEF Next

-----------------------------------------------------------------------------
(* The theorems.                                                           *)

\* The inductive invariant holds of every state of the store.
THEOREM InvHolds == Spec => []Inv
<1>1. Init => Inv
  BY InitInv
<1>2. Inv /\ [Next]_vars => Inv'
  BY NextInv
<1> QED
  BY <1>1, <1>2, PTL DEF Spec

\* Every row the store keeps or has in memory fits its columns: no sale takes
\* the stock below 0 and no total leaves the range of an integer
\* (products/models.py:40-45, orders/models.py:38-42).
THEOREM TypesHold == Spec => []TypeOK
<1>1. Inv => TypeOK
  BY DEF Inv
<1> QED
  BY <1>1, InvHolds, PTL

\* Whatever transactions run at the same time, a service function computes
\* from committed rows that it has locked (orders/services.py:203-212, 319,
\* 342-349; products/services.py:88-92, 153-156, 190-193).
THEOREM MemoryStaysCurrent == Spec => []MemoryIsCurrent
<1>1. Inv => MemoryIsCurrent
  BY DEF Inv
<1> QED
  BY <1>1, InvHolds, PTL

\* No order ever contains a product of another tenant
\* (orders/services.py:208; core/managers.py:28-37).
THEOREM TenantsIsolated == Spec => []OrderTenantMatches
<1>1. Inv => OrderTenantMatches
  BY DEF Inv
<1> QED
  BY <1>1, InvHolds, PTL
=============================================================================

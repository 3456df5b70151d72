----------------------------- MODULE StoreLocks -----------------------------
(***************************************************************************)
(* What the row locks of the store are worth, for any number of threads,   *)
(* editors, products and orders.  They never form a cycle: a thread locks  *)
(* the row of an order before it locks a product, and products by growing  *)
(* ids.  And a PATCH, which takes none but waits for them, breaks nothing  *)
(* but the balance of the ledger.                                          *)
(***************************************************************************)
EXTENDS ProductPatch, StoreLedger

-----------------------------------------------------------------------------
(* The order of the locks.                                                 *)

\* A thread that has locked a product waits for larger ones only; one that
\* has locked anything waits for no order.
LocksAt(t) ==
  /\ \A p \in ProductId :
       plock[p] = t =>
         /\ pc[t] \in {"lock", "archive"}
         /\ \A q \in todo[t] : p < q
  /\ \A o \in OrderId : olock[o] = t => pc[t] \in {"check_status", "lock", "archive"}

LocksInOrder == \A t \in Thread : LocksAt(t)

LockInv == Inv /\ LocksInOrder

\* Nobody holds a lock at the start.
LEMMA LocksInit == Init => LocksInOrder
BY NullAssumption DEF Init, LocksInOrder, LocksAt

\* A transaction that ends has no lock.
LEMMA FinishLocks ==
  ASSUME LockInv, NEW t \in Thread, NEW answer, Finish(t, answer)
  PROVE  LocksInOrder'
<1> USE DEF LockInv, Inv, TypeOK
<1>1. /\ \A p \in ProductId : plock'[p] # t
      /\ \A o \in OrderId : olock'[o] # t
  BY NullAssumption DEF Finish
<1>2. ASSUME NEW s \in Thread, s # t PROVE LocksAt(s)'
  <2>1. LocksAt(s) /\ pc'[s] = pc[s] /\ todo'[s] = todo[s]
    BY <1>2 DEF Finish, LocksInOrder
  <2>2. /\ \A p \in ProductId : plock'[p] = s => plock[p] = s
        /\ \A o \in OrderId : olock'[o] = s => olock[o] = s
    BY <1>2, NullAssumption DEF Finish
  <2> QED
    BY <2>1, <2>2 DEF LocksAt
<1>3. LocksAt(t)'
  BY <1>1 DEF LocksAt
<1> QED
  BY <1>2, <1>3 DEF LocksInOrder

\* A step that takes no lock, to where the locks of the thread may be kept.
LEMMA MoveLocks ==
  ASSUME LockInv, NEW t \in Thread, NEW next, UNCHANGED locks,
         pc' = [pc EXCEPT ![t] = next],
         \A s \in Thread : s # t => todo'[s] = todo[s],
         \/ pc[t] = "idle"
         \/ pc[t] = "check_status" /\ next = "lock"
         \/ pc[t] = "lock" /\ next = "archive" /\ todo'[t] = todo[t]
  PROVE  LocksInOrder'
<1> USE DEF LockInv, Inv, TypeOK, locks
<1>1. LocksAt(t)
  BY DEF LocksInOrder
<1>2. LocksAt(t)'
  BY <1>1 DEF LocksAt
<1>3. ASSUME NEW s \in Thread, s # t PROVE LocksAt(s)'
  <2>1. LocksAt(s)
    BY DEF LocksInOrder
  <2> QED
    BY <1>3, <2>1 DEF LocksAt
<1> QED
  BY <1>2, <1>3 DEF LocksInOrder

\* ORDER BY id: the next row is the smallest that is left.
LEMMA LockProductLocks ==
  ASSUME LockInv, NEW t \in Thread, LockProduct(t)
  PROVE  LocksInOrder'
<1> USE DEF LockInv, Inv, TypeOK
<1>1. PICK p \in todo[t] :
        /\ IsNext(t, p)
        /\ plock[p] = Nobody
        /\ plock' = [plock EXCEPT ![p] = t]
        /\ todo' = [todo EXCEPT ![t] = @ \ {p}]
  BY DEF LockProduct, CanLock
<1>2. pc[t] = "lock" /\ UNCHANGED <<pc, olock>> /\ p \in ProductId
  BY DEF LockProduct
<1>3. todo[t] \subseteq Int
  BY IdAssumption
<1>4. ASSUME NEW s \in Thread PROVE LocksAt(s)'
  <2>1. LocksAt(s)
    BY DEF LocksInOrder
  <2>2. CASE s # t
    <3>1. \A q \in ProductId : plock'[q] = s => plock[q] = s
      BY <1>1, <2>2
    <3>2. todo'[s] = todo[s]
      BY <1>1, <2>2
    <3> QED
      BY <1>2, <2>1, <3>1, <3>2 DEF LocksAt
  <2>3. CASE s = t
    <3>1. \A q \in todo'[t] : q \in todo[t] /\ p < q
      <4>1. todo'[t] = todo[t] \ {p}
        BY <1>1
      <4>2. SUFFICES ASSUME NEW q \in todo[t], q # p PROVE p < q
        BY <4>1
      <4>3. p \in Int /\ q \in Int /\ p <= q
        BY <1>1, <1>3 DEF IsNext
      <4> QED
        BY <4>2, <4>3
    <3>2. \A q \in ProductId : plock'[q] = t => q = p \/ plock[q] = t
      BY <1>1
    <3> QED
      BY <1>2, <2>1, <2>3, <3>1, <3>2 DEF LocksAt
  <2> QED
    BY <2>2, <2>3
<1> QED
  BY <1>4 DEF LocksInOrder

\* An order is locked by a thread that has locked nothing.
LEMMA GetOrderLocks ==
  ASSUME LockInv, NEW t \in Thread, GetOrder(t)
  PROVE  LocksInOrder'
<1> USE DEF LockInv, Inv, TypeOK
<1>1. /\ pc[t] = "get_order" /\ pc' = [pc EXCEPT ![t] = "check_status"]
      /\ UNCHANGED <<plock, todo>>
      /\ olock' = [olock EXCEPT ![req[t].order] = t]
  BY DEF GetOrder, Goto
<1>2. ASSUME NEW s \in Thread PROVE LocksAt(s)'
  <2>1. LocksAt(s)
    BY DEF LocksInOrder
  <2>2. CASE s # t
    <3>1. \A o \in OrderId : olock'[o] = s => olock[o] = s
      BY <1>1, <2>2
    <3> QED
      BY <1>1, <2>1, <2>2, <3>1 DEF LocksAt
  <2>3. CASE s = t
    BY <1>1, <2>1, <2>3 DEF LocksAt
  <2> QED
    BY <2>2, <2>3
<1> QED
  BY <1>2 DEF LocksInOrder

\* Every step keeps the locks in order.
LEMMA LockInvStep == LockInv /\ [Next]_vars => LockInv'
<1> SUFFICES ASSUME LockInv, [Next]_vars PROVE LockInv'
  OBVIOUS
<1>1. Inv'
  BY NextInv DEF LockInv
<1>2. CASE UNCHANGED vars
  BY <1>1, <1>2 DEF vars, LockInv, LocksInOrder, LocksAt
<1>3. ASSUME NEW t \in Thread, Call(t) \/ TakeLock(t) \/ Run(t) \/ Abort(t)
      PROVE  LocksInOrder'
  <2>1. ASSUME NEW r, NEW next, NEW wanted, Begin(t, r, next, wanted) PROVE LocksInOrder'
    BY <2>1, MoveLocks DEF Begin, LockInv, Inv, TypeOK
  <2>2. ASSUME NEW r, NEW answer, Deny(t, r, answer) PROVE LocksInOrder'
    BY <2>2 DEF Deny, LockInv, LocksInOrder, LocksAt, locks
  <2>3. ASSUME NEW answer, Finish(t, answer) PROVE LocksInOrder'
    BY <2>3, FinishLocks
  <2>4. CASE Call(t)
    BY <2>1, <2>2, <2>4 DEF Call, CreateOrder, CallOnOrder, DenyOrderCall, AdjustStock,
       CallOnProduct, CreateProduct, DenyProductCall
  <2>5. CASE TakeLock(t)
    BY <2>5, LockProductLocks, GetOrderLocks DEF TakeLock
  <2>6. CASE FindItems(t)
    BY <2>6, MoveLocks DEF FindItems, Goto, LockInv, Inv, TypeOK
  <2>7. CASE CheckOrders(t)
    BY <2>3, <2>7, MoveLocks DEF CheckOrders, Goto, Locked, Reject
  <2>8. CASE \/ PlaceOrder(t) \/ PayOrder(t) \/ VoidOrder(t) \/ SaveStock(t)
             \/ Archive(t) \/ Restore(t) \/ InsertProduct(t)
    BY <2>3, <2>8 DEF PlaceOrder, PayOrder, VoidOrder, SaveStock, Archive, Restore,
       InsertProduct
  <2>9. CASE \/ RejectOrder(t) \/ OrderNotFound(t) \/ RejectStatus(t) \/ RejectVoid(t)
             \/ RejectAdjust(t) \/ RejectMissing(t) \/ RejectRestore(t) \/ RejectInsert(t)
             \/ Abort(t)
    BY <2>3, <2>9 DEF RejectOrder, OrderNotFound, RejectStatus, RejectVoid, RejectAdjust,
       RejectMissing, RejectRestore, RejectInsert, Abort, Reject
  <2> QED
    BY <1>3, <2>4, <2>5, <2>6, <2>7, <2>8, <2>9 DEF Run
<1> QED
  BY <1>1, <1>2, <1>3 DEF Next, LockInv

-----------------------------------------------------------------------------

\* A set of ids that has a larger one for each of its ids is empty.
LEMMA NoEndlessIds ==
  ASSUME NEW W \in SUBSET ProductId, \A p \in W : \E q \in W : p < q
  PROVE  W = {}
<1> DEFINE Above(i) == {j \in W : i < j}
           T == {Above(p) : p \in W}
<1>1. W \subseteq Int /\ IsFiniteSet(ProductId)
  BY IdAssumption
<1>2. SUFFICES ASSUME W # {} PROVE FALSE
  OBVIOUS
<1>3. PICK x \in T : \A y \in T : y \subseteq x => y = x
  <2>1. \A p \in W : Above(p) \in SUBSET ProductId
    OBVIOUS
  <2>2. \A x \in T : x \in SUBSET ProductId
    BY <2>1
  <2>3. T # {}
    BY <1>2
  <2> HIDE DEF T
  <2> QED
    BY <1>1, <2>2, <2>3, MinimalSubset
<1>4. PICK p \in W : x = Above(p)
  BY <1>3
<1>5. PICK q \in W : p < q
  BY <1>4
<1>6. p \in Int /\ q \in Int /\ \A r \in W : q < r => p < r
  BY <1>1, <1>5
<1>7. Above(q) \subseteq Above(p)
  BY <1>6
<1>8. q \in Above(p) /\ q \notin Above(q)
  BY <1>5, <1>6
<1> QED
  BY <1>3, <1>4, <1>7, <1>8

\* Locks that are taken in order form no cycle.
LEMMA OrderMeansNoCycle ==
  ASSUME LockInv
  PROVE  NoWaitCycle
<1>0. SUFFICES ASSUME NEW S \in SUBSET Thread, S # {}
               PROVE  \E t \in S : ~WaitsFor(t, S)
  BY DEF NoWaitCycle
<1>1. SUFFICES ASSUME \A t \in S : WaitsFor(t, S)
               PROVE  FALSE
  OBVIOUS
<1> USE DEF LockInv, Inv, TypeOK
<1> DEFINE W == {p \in ProductId : plock[p] \in S}
<1>2. ASSUME NEW t \in S, pc[t] = "lock"
      PROVE  \E p \in todo[t] : p \in W
  BY <1>1, <1>2 DEF WaitsFor
<1>3. W # {}
  <2>1. PICK t \in S : TRUE
    BY <1>0
  <2>2. CASE pc[t] = "lock"
    BY <1>2, <2>2
  <2>3. CASE pc[t] = "get_order"
    <3>1. PICK s \in S : olock[req[t].order] = s
      BY <1>1, <2>3 DEF WaitsFor
    <3>2. req[t].order \in OrderId
      BY <2>3, RequestKinds DEF ControlOK, ControlAt, StatusRequest
    <3>3. pc[s] # "get_order"
      BY <3>1, <3>2 DEF LocksInOrder, LocksAt
    <3>4. pc[s] = "lock"
      BY <1>1, <3>3 DEF WaitsFor
    <3> QED
      BY <1>2, <3>4
  <2> QED
    BY <1>1, <2>2, <2>3 DEF WaitsFor
<1>4. ASSUME NEW p \in W PROVE \E q \in W : p < q
  <2> DEFINE s == plock[p]
  <2>1. s \in S /\ LocksAt(s) /\ p \in ProductId
    BY DEF LocksInOrder
  <2>2. pc[s] \in {"lock", "archive"} /\ \A q \in todo[s] : p < q
    BY <2>1 DEF LocksAt
  <2>3. pc[s] = "lock"
    BY <1>1, <2>1, <2>2 DEF WaitsFor
  <2> QED
    BY <1>2, <2>1, <2>2, <2>3
<1> QED
  BY <1>3, <1>4, NoEndlessIds

\* Of any threads, one does not wait for the others: PostgreSQL never finds a
\* deadlock to break (orders/services.py:201, 211, 339, 348).
THEOREM NoDeadlock == Spec => []NoWaitCycle
<1>1. Init => LockInv
  BY InitInv, LocksInit DEF LockInv
<1> QED
  BY <1>1, LockInvStep, OrderMeansNoCycle, PTL DEF Spec

-----------------------------------------------------------------------------
(* A PATCH beside the store.                                               *)

\* Everything that holds of the store alone except the balance of its ledger.
StoreInv ==
  /\ LockInv
  /\ AllPermitted
  /\ Available
  /\ UniqueActiveName
  /\ Returned

\* An editor holds a typed row of a product of its tenant, read when it was
\* not archived; it may be as old as it likes otherwise.
EditRow == [at : {"idle", "validate", "save"}, product : ProductId \cup {0},
            row : ProductRow \cup {NoRow}]
EditAt(e) ==
  edit[e].at # "idle" =>
    /\ edit[e].product \in ProductId
    /\ edit[e].row \in ProductRow
    /\ ~edit[e].row.is_archived
    /\ product[edit[e].product] # NoRow
    /\ product[edit[e].product].tenant = edit[e].row.tenant
EditsOK == edit \in [Editor -> EditRow] /\ \A e \in Editor : EditAt(e)

PatchInv == StoreInv /\ EditsOK

LEMMA PatchInitInv == PatchInit => PatchInv
<1> SUFFICES ASSUME PatchInit PROVE PatchInv
  OBVIOUS
<1>1. Init
  BY DEF PatchInit
<1>2. Available /\ AllPermitted
  BY <1>1 DEF Init, Available, NoPendingOnArchived, ArchiveIsSafe, AllPermitted
<1>3. UniqueActiveName
  BY <1>1, CatalogueAssumption DEF Init, UniqueActiveName
<1>4. EditsOK
  BY DEF PatchInit, EditsOK, EditAt, EditRow, NoEdit
<1> QED
  BY <1>1, <1>2, <1>3, <1>4, InitInv, LocksInit, ReturnedInit DEF PatchInv, StoreInv, LockInv

LEMMA StoreInvStep ==
  ASSUME StoreInv, [Next]_vars
  PROVE  StoreInv'
BY LockInvStep, PermittedStep, AvailableStep, NamesStep, ReturnedStep DEF StoreInv, LockInv

\* The store goes on: what an editor has read stays a product of its tenant.
LEMMA StoreBesidePatch ==
  ASSUME PatchInv, [Next]_vars, UNCHANGED patchVars
  PROVE  PatchInv'
<1>1. StoreInv'
  BY StoreInvStep DEF PatchInv
<1>2. edit' = edit
  BY DEF patchVars
<1>3. ASSUME NEW e \in Editor PROVE EditAt(e)'
  BY <1>2, ProductsStay DEF PatchInv, StoreInv, LockInv, EditsOK, EditAt
<1> QED
  BY <1>1, <1>2, <1>3 DEF PatchInv, EditsOK

\* The steps of a PATCH before its UPDATE touch its own row only.
LEMMA EditInv ==
  ASSUME PatchInv, NEW e \in Editor,
         ReadObject(e) \/ ValidateName(e) \/ RejectSave(e), UNCHANGED storeVars
  PROVE  PatchInv'
<1> USE DEF PatchInv, EditsOK
<1>1. StoreInv'
  <2>1. UNCHANGED vars
    BY DEF storeVars
  <2> QED
    BY <2>1, StoreInvStep
<1>2. product' = product
  BY DEF storeVars, vars
<1> DEFINE Fine(m) ==
      /\ m \in EditRow
      /\ m.at # "idle" =>
           /\ m.product \in ProductId /\ m.row \in ProductRow /\ ~m.row.is_archived
           /\ product[m.product] # NoRow /\ product[m.product].tenant = m.row.tenant
<1>3. \E m : edit' = [edit EXCEPT ![e] = m] /\ Fine(m)
  <2>0. Fine(NoEdit)
    BY DEF NoEdit, EditRow
  <2>1. CASE ReadObject(e)
    <3>1. PICK p \in ProductId, name \in Name, price \in 0..MaxInt :
            /\ product[p] # NoRow /\ ~product[p].is_archived
            /\ \E at \in AfterRead(p, name) :
                 edit' = [edit EXCEPT ![e] =
                   [at |-> at, product |-> p,
                    row |-> [product[p] EXCEPT !.name = name, !.price = price]]]
      BY <2>1 DEF ReadObject
    <3>2. PICK at \in {"validate", "save"} :
            edit' = [edit EXCEPT ![e] =
              [at |-> at, product |-> p,
               row |-> [product[p] EXCEPT !.name = name, !.price = price]]]
      BY <3>1 DEF AfterRead
    <3> DEFINE row == [product[p] EXCEPT !.name = name, !.price = price]
               m == [at |-> at, product |-> p, row |-> row]
    <3>3. product[p] \in ProductRow
      BY <3>1 DEF StoreInv, LockInv, Inv, TypeOK
    <3>4. row \in ProductRow /\ ~row.is_archived /\ row.tenant = product[p].tenant
      BY <3>1, <3>3 DEF ProductRow
    <3>5. Fine(m)
      <4> HIDE DEF row
      <4> QED
        BY <3>1, <3>4 DEF EditRow
    <3> QED
      BY <3>2, <3>5
  <2>2. CASE ValidateName(e)
    <3>1. CASE edit' = [edit EXCEPT ![e] = [edit[e] EXCEPT !.at = "save"]]
      <4> DEFINE m == [edit[e] EXCEPT !.at = "save"]
      <4>1. edit[e] \in EditRow /\ edit[e].at = "validate"
        BY <2>2 DEF ValidateName
      <4>2. m \in EditRow /\ m.product = edit[e].product /\ m.row = edit[e].row
        BY <4>1 DEF EditRow
      <4> HIDE DEF m
      <4>3. Fine(m)
        BY <4>1, <4>2 DEF EditAt
      <4> QED
        BY <3>1, <4>3 DEF m
    <3>2. CASE edit' = [edit EXCEPT ![e] = NoEdit]
      BY <2>0, <3>2
    <3> QED
      BY <2>2, <3>1, <3>2 DEF ValidateName
  <2>3. CASE RejectSave(e)
    BY <2>0, <2>3 DEF RejectSave
  <2> QED
    BY <2>1, <2>2, <2>3
<1>4. PICK m : edit' = [edit EXCEPT ![e] = m] /\ Fine(m)
  BY <1>3
<1>5. edit' \in [Editor -> EditRow] /\ edit'[e] = m
  BY <1>4
<1>6. \A d \in Editor : EditAt(d)'
  BY <1>2, <1>4, <1>5 DEF EditAt
<1> QED
  BY <1>1, <1>5, <1>6

\* The UPDATE of a PATCH replaces an unlocked row by an active one of the same
\* tenant, under a name that is free.
LEMMA SaveObjectInv ==
  ASSUME PatchInv, NEW e \in Editor, SaveObject(e)
  PROVE  PatchInv'
<1> USE DEF PatchInv, EditsOK, StoreInv, LockInv
<1> DEFINE p == edit[e].product
           row == edit[e].row
<1>1. /\ p \in ProductId /\ row \in ProductRow /\ ~row.is_archived
      /\ product[p] # NoRow /\ product[p].tenant = row.tenant
  BY DEF SaveObject, EditAt
<1>2. /\ plock[p] = Nobody /\ ~NameTaken(row.tenant, row.name, {p})
      /\ product' = [product EXCEPT ![p] = row]
      /\ edit' = [edit EXCEPT ![e] = NoEdit]
      /\ UNCHANGED <<order, movement, opening, plock, olock, pc, req, todo, rows, orow,
                     reply, issued>>
  BY DEF SaveObject, CanWrite, Clashes, locks, memory
<1> HIDE DEF p, row
<1>3. /\ product \in [ProductId -> ProductRow \cup {NoRow}]
      /\ row # NoRow
  BY <1>1, NullAssumption DEF Inv, TypeOK
<1>4. Inv'
  <2>1. TypeOK'
    BY <1>1, <1>2 DEF Inv, TypeOK
  <2>2. MemoryIsCurrent'
    <3>1. \A t \in Thread : plock[p] # t
      BY <1>2, NullAssumption
    <3> QED
      BY <1>2, <1>3, <3>1 DEF Inv, MemoryIsCurrent
  <2>3. ControlOK' /\ RowsMatch'
    BY <1>2 DEF Inv, ControlOK, ControlAt, IsPending, Held, RowsMatch, Matches
  <2>4. OrderTenantMatches'
    BY <1>1, <1>2, <1>3 DEF Inv, OrderTenantMatches
  <2> QED
    BY <2>1, <2>2, <2>3, <2>4 DEF Inv
<1>5. LocksInOrder' /\ AllPermitted' /\ Returned'
  BY <1>2 DEF LocksInOrder, LocksAt, AllPermitted, Returned, ReturnedAt, Voided
<1>6. Available'
  BY <1>1, <1>2, <1>3 DEF Available, NoPendingOnArchived, ArchiveIsSafe
<1>7. UniqueActiveName'
  <2> SUFFICES ASSUME NEW q \in ProductId, NEW r \in ProductId,
                      product'[q] # NoRow, ~product'[q].is_archived,
                      product'[r] # NoRow, ~product'[r].is_archived,
                      product'[q].tenant = product'[r].tenant,
                      product'[q].name = product'[r].name
               PROVE  q = r
    BY DEF UniqueActiveName
  <2>1. CASE q # p /\ r # p
    BY <1>2, <1>3, <2>1 DEF UniqueActiveName
  <2>2. CASE q = p
    BY <1>1, <1>2, <1>3, <2>2 DEF NameTaken
  <2>3. CASE r = p
    BY <1>1, <1>2, <1>3, <2>3 DEF NameTaken
  <2> QED
    BY <2>1, <2>2, <2>3
<1>8. edit' \in [Editor -> EditRow]
  BY <1>2 DEF NoEdit, EditRow
<1>9. ASSUME NEW d \in Editor PROVE EditAt(d)'
  BY <1>1, <1>2, <1>3 DEF EditAt, NoEdit
<1> QED
  BY <1>4, <1>5, <1>6, <1>7, <1>8, <1>9

\* The invariants of the store, but for its ledger, hold beside any number of
\* PATCH requests (products/views.py:103-116).
THEOREM PatchInvHolds == PatchSpec => []PatchInv
<1>1. ASSUME PatchInv, [PatchNext]_allVars PROVE PatchInv'
  <2>1. CASE UNCHANGED allVars
    BY <1>1, <2>1, StoreBesidePatch DEF allVars, patchVars
  <2>2. CASE Next /\ UNCHANGED patchVars
    BY <1>1, <2>2, StoreBesidePatch
  <2>3. ASSUME NEW e \in Editor, Patch(e) PROVE PatchInv'
    BY <1>1, <2>3, EditInv, SaveObjectInv DEF Patch
  <2> QED
    BY <1>1, <2>1, <2>2, <2>3 DEF PatchNext
<1> QED
  BY <1>1, PatchInitInv, PTL DEF PatchSpec

\* A PATCH never changes a row that a transaction has locked: what it computes
\* from stays what is committed (orders/services.py:203-212, 342-349).
THEOREM MemoryBesidePatch == PatchSpec => []MemoryIsCurrent
<1>1. PatchInv => MemoryIsCurrent
  BY DEF PatchInv, StoreInv, LockInv, Inv
<1> QED
  BY <1>1, PatchInvHolds, PTL

\* validate_name looks for the name in a statement of its own; it is the
\* constraint that keeps active names apart (products/serializers.py,
\* products/models.py:47-51).
THEOREM NamesBesidePatch == PatchSpec => []UniqueActiveName
<1>1. PatchInv => UniqueActiveName
  BY DEF PatchInv, StoreInv
<1> QED
  BY <1>1, PatchInvHolds, PTL

\* A PATCH may put an archived product back on sale, but never takes one with
\* a PENDING order off it (products/services.py:163-174).
THEOREM ArchivedBesidePatch == PatchSpec => []NoPendingOnArchived
<1>1. PatchInv => NoPendingOnArchived
  BY DEF PatchInv, StoreInv, Available
<1> QED
  BY <1>1, PatchInvHolds, PTL

\* The voids still bring back exactly what the void orders contain, whatever a
\* PATCH makes of the stock (orders/services.py:366-392).
THEOREM VoidsBesidePatch == PatchSpec => []VoidedStockReturned
<1>1. PatchInv => VoidedStockReturned
  BY DEF PatchInv, StoreInv, Returned, ReturnedAt, Voided, VoidedStockReturned
<1> QED
  BY <1>1, PatchInvHolds, PTL

\* A PATCH waits for one lock and holds none: it adds nothing to a cycle
\* (products/views.py:103-116).
THEOREM NoDeadlockBesidePatch == PatchSpec => []NoWaitCycle
<1>1. PatchInv => NoWaitCycle
  BY OrderMeansNoCycle DEF PatchInv, StoreInv
<1> QED
  BY <1>1, PatchInvHolds, PTL
=============================================================================

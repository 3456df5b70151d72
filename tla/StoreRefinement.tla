-------------------------- MODULE StoreRefinement ---------------------------
(***************************************************************************)
(* The concurrent store implements the abstract shop: every transaction    *)
(* that writes is one step of StockLedger on the state its commit finds,   *)
(* and everything else is no step at all, for any number of threads,       *)
(* products, orders and tenants.                                           *)
(***************************************************************************)
EXTENDS StoreSafety

\* A product as it stands on the abstract shelf.
Bare(row) ==
  [tenant |-> row.tenant, name |-> row.name, stock |-> row.stock,
   is_archived |-> row.is_archived]

\* The shelf has what the table has.
LEMMA ShelfRows ==
  ASSUME NEW table \in [ProductId -> ProductRow \cup {NoRow}], NEW p \in ProductId
  PROVE  IF table[p] = NoRow THEN ShelfOf(table)[p] = NoRow
         ELSE /\ table[p] \in ProductRow
              /\ ShelfOf(table)[p] = Bare(table[p])
              /\ ShelfOf(table)[p] \in ShelfRow
              /\ ShelfOf(table)[p] # NoRow
<1>1. CASE table[p] = NoRow
  BY <1>1 DEF ShelfOf
<1>2. CASE table[p] # NoRow
  <2>1. table[p] \in ProductRow /\ ShelfOf(table)[p] = Bare(table[p])
    BY <1>2 DEF ShelfOf, Bare
  <2>2. Bare(table[p]) \in ShelfRow
    BY <2>1 DEF Bare, ProductRow, ShelfRow
  <2> QED
    BY <1>2, <2>1, <2>2, LedgerAssumption
<1> QED
  BY <1>1, <1>2

\* A sale is there when its order is.
LEMMA SaleRows ==
  ASSUME NEW table \in [OrderId -> OrderRow \cup {NoRow}], NEW o \in OrderId
  PROVE  IF table[o] = NoRow THEN SaleOf(table)[o] = NoRow
         ELSE /\ table[o] \in OrderRow
              /\ SaleOf(table)[o] = [tenant |-> table[o].tenant, status |-> table[o].status,
                                     items |-> table[o].items]
              /\ SaleOf(table)[o] # NoRow
<1>1. CASE table[o] = NoRow
  BY <1>1 DEF SaleOf
<1>2. CASE table[o] # NoRow
  <2>1. /\ table[o] \in OrderRow
        /\ SaleOf(table)[o] = [tenant |-> table[o].tenant, status |-> table[o].status,
                               items |-> table[o].items]
    BY <1>2 DEF SaleOf
  <2>2. SaleOf(table)[o] \in SaleRow
    BY <2>1 DEF OrderRow, SaleRow
  <2> QED
    BY <1>2, <2>1, <2>2, LedgerAssumption
<1> QED
  BY <1>1, <1>2

\* What the abstract guards look at.
LEMMA LedgerGuards ==
  ASSUME Inv
  PROVE  /\ \A p \in ProductId : Ledger!OnSale(p) <=> Active(p)
         /\ \A tenant, name : Ledger!SoldAs(tenant, name) <=> NameTaken(tenant, name, {})
         /\ \A o \in OrderId :
              Ledger!Pending(o) <=> order[o] # NoRow /\ order[o].status = "PENDING"
<1>1. product \in [ProductId -> ProductRow \cup {NoRow}]
      /\ order \in [OrderId -> OrderRow \cup {NoRow}]
  BY DEF Inv, TypeOK
<1>2. ASSUME NEW p \in ProductId PROVE Ledger!OnSale(p) <=> Active(p)
  <2>1. CASE product[p] = NoRow
    BY <1>1, <2>1, ShelfRows DEF Ledger!OnSale, Active
  <2>2. CASE product[p] # NoRow
    <3>1. ShelfOf(product)[p] # NoRow /\ ShelfOf(product)[p] = Bare(product[p])
      BY <1>1, <2>2, ShelfRows
    <3>2. Bare(product[p]).is_archived = product[p].is_archived
      BY DEF Bare
    <3> QED
      BY <2>2, <3>1, <3>2 DEF Ledger!OnSale, Active
  <2> QED
    BY <2>1, <2>2
<1>3. ASSUME NEW tenant, NEW name
      PROVE  Ledger!SoldAs(tenant, name) <=> NameTaken(tenant, name, {})
  <2>1. ASSUME NEW q \in ProductId, Active(q)
        PROVE  /\ ShelfOf(product)[q].tenant = product[q].tenant
               /\ ShelfOf(product)[q].name = product[q].name
    <3>1. ShelfOf(product)[q] = Bare(product[q])
      BY <1>1, <2>1, ShelfRows DEF Active
    <3> QED
      BY <3>1 DEF Bare
  <2> QED
    BY <1>2, <2>1 DEF Ledger!SoldAs, NameTaken, Active
<1>4. ASSUME NEW o \in OrderId
      PROVE  Ledger!Pending(o) <=> order[o] # NoRow /\ order[o].status = "PENDING"
  <2>1. CASE order[o] = NoRow
    BY <1>1, <2>1, SaleRows DEF Ledger!Pending
  <2>2. CASE order[o] # NoRow
    <3>1. /\ SaleOf(order)[o] # NoRow
          /\ SaleOf(order)[o] = [tenant |-> order[o].tenant, status |-> order[o].status,
                                 items |-> order[o].items]
      BY <1>1, <2>2, SaleRows
    <3>2. SaleOf(order)[o].status = order[o].status
      BY <3>1
    <3> QED
      BY <2>2, <3>1, <3>2 DEF Ledger!Pending
  <2> QED
    BY <2>1, <2>2
<1> QED
  BY <1>2, <1>3, <1>4

\* One product is written: one place of the shelf changes.
LEMMA OneShelf ==
  ASSUME Inv, NEW p \in ProductId, NEW row \in ProductRow,
         product' = [product EXCEPT ![p] = row]
  PROVE  ShelfOf(product)' = [ShelfOf(product) EXCEPT ![p] = Bare(row)]
<1>1. product \in [ProductId -> ProductRow \cup {NoRow}] /\ row # NoRow
  BY NullAssumption DEF Inv, TypeOK
<1>2. \A q \in ProductId : product'[q] = IF q = p THEN row ELSE product[q]
  BY <1>1
<1> QED
  BY <1>1, <1>2 DEF ShelfOf, Bare

\* One order is written.
LEMMA OneSale ==
  ASSUME Inv, NEW o \in OrderId, NEW row \in OrderRow,
         order' = [order EXCEPT ![o] = row]
  PROVE  SaleOf(order)' =
           [SaleOf(order) EXCEPT ![o] = [tenant |-> row.tenant, status |-> row.status,
                                         items |-> row.items]]
<1>1. order \in [OrderId -> OrderRow \cup {NoRow}] /\ row # NoRow
  BY NullAssumption DEF Inv, TypeOK
<1>2. \A q \in OrderId : order'[q] = IF q = o THEN row ELSE order[q]
  BY <1>1
<1> QED
  BY <1>1, <1>2 DEF SaleOf

\* What a transaction journals is what it enters in the abstract journal.
LEMMA JournalIsEntry ==
  ASSUME NEW entries, NEW q
  PROVE  /\ \A action \in Action, reason \in ReasonChoices \ {"ORDER_VOID"} :
              Journal(entries, action, reason, q) = Ledger!Enter(entries, {action}, q)
         /\ Journal(entries, "ADD", "ORDER_VOID", q) =
              Ledger!Enter(entries, {"ADD", "ORDER_VOID"}, q)
<1>1. Ledger!Column = Tally
  BY DEF Ledger!Column, Tally
<1>2. ASSUME NEW action \in Action, NEW reason \in ReasonChoices \ {"ORDER_VOID"}
      PROVE  Journal(entries, action, reason, q) = Ledger!Enter(entries, {action}, q)
  <2>1. \A k \in Tally : k \in {action, reason} <=> k \in {action}
    BY DEF Tally, Action, ReasonChoices
  <2> QED
    BY <1>1, <2>1 DEF Journal, Ledger!Enter
<1> QED
  BY <1>1, <1>2 DEF Journal, Ledger!Enter

-----------------------------------------------------------------------------
(* The transactions.                                                       *)

\* The order that is settled.
LEMMA StatusStep ==
  ASSUME Inv, NEW t \in Thread, NEW status \in {"PAID", "VOID"},
         orow[t] # NoRow, IsPending(t), SetStatus(t, status)
  PROVE  /\ req[t].order \in OrderId
         /\ Ledger!Pending(req[t].order)
         /\ SaleOf(order)[req[t].order].items = orow[t].items
         /\ SaleOf(order)' = [SaleOf(order) EXCEPT ![req[t].order].status = status]
<1> DEFINE o == req[t].order
           row == [order[o] EXCEPT !.status = status]
<1>1. o \in OrderId /\ order[o] = orow[t] /\ order[o] \in OrderRow /\ order[o] # NoRow
  BY OrderAtHand, NullAssumption
<1>2. order[o].status = "PENDING"
  BY <1>1 DEF IsPending
<1>3. row \in OrderRow /\ order' = [order EXCEPT ![o] = row]
  BY <1>1 DEF OrderRow, Status, SetStatus
<1>4. SaleOf(order)[o] = [tenant |-> order[o].tenant, status |-> order[o].status,
                          items |-> order[o].items]
  BY <1>1 DEF SaleOf
<1>5. [tenant |-> row.tenant, status |-> row.status, items |-> row.items] =
        [SaleOf(order)[o] EXCEPT !.status = status]
  BY <1>1, <1>4 DEF OrderRow
<1>6. SaleOf(order)' =
        [SaleOf(order) EXCEPT ![o] = [tenant |-> row.tenant, status |-> row.status,
                                      items |-> row.items]]
  <2> HIDE DEF row
  <2> QED
    BY <1>1, <1>3, OneSale
<1>7. SaleOf(order)' = [SaleOf(order) EXCEPT ![o].status = status]
  <2> HIDE DEF row
  <2> QED
    BY <1>5, <1>6
<1>8. SaleOf(order)[o].items = orow[t].items
  BY <1>1, <1>4
<1> QED
  BY <1>1, <1>2, <1>7, <1>8, LedgerGuards

\* An order that is placed is a sale from stock that is there.
LEMMA PlaceIsSell ==
  ASSUME Inv, AllPermitted, NEW t \in Thread, PlaceOrder(t)
  PROVE  \E o \in OrderId : Ledger!Sell(o, req[t].tenant, req[t].items)
<1> DEFINE b == req[t].items
           tenant == req[t].tenant
<1>1. product \in [ProductId -> ProductRow \cup {NoRow}]
      /\ order \in [OrderId -> OrderRow \cup {NoRow}]
  BY DEF Inv, TypeOK
<1>2. tenant \in Tenant /\ b \in Items
  BY RequestKinds DEF PlaceOrder, Locked, Inv, ControlOK, ControlAt
<1>3. PICK o \in OrderId :
        /\ order[o] = NoRow
        /\ order' = [order EXCEPT ![o] =
                       [tenant |-> tenant, status |-> "PENDING", items |-> b,
                        total_price |-> TotalPrice(t)]]
        /\ Fits(TotalPrice(t))
  BY DEF PlaceOrder, IsFree
<1>4. SaleOf(order)[o] = NoRow
  BY <1>3 DEF SaleOf
<1>5. SaleOf(order)' =
        [SaleOf(order) EXCEPT ![o] = [tenant |-> tenant, status |-> "PENDING", items |-> b]]
  <2> DEFINE row == [tenant |-> tenant, status |-> "PENDING", items |-> b,
                     total_price |-> TotalPrice(t)]
  <2>1. row \in OrderRow
    BY <1>2, <1>3 DEF OrderRow, Status, Fits
  <2>2. /\ row.tenant = tenant /\ row.status = "PENDING" /\ row.items = b
        /\ order' = [order EXCEPT ![o] = row]
    BY <1>3
  <2> HIDE DEF row
  <2> QED
    BY <2>1, <2>2, OneSale
<1>6. ASSUME NEW p \in ProductId, b[p] > 0
      PROVE  /\ Ledger!OnSale(p)
             /\ ShelfOf(product)[p].tenant = tenant
             /\ b[p] <= ShelfOf(product)[p].stock
             /\ ShelfOf(product)'[p] =
                  [ShelfOf(product)[p] EXCEPT !.stock = ShelfOf(product)[p].stock - b[p]]
  <2>1. /\ b[p] \in Nat
        /\ product[p] # NoRow
        /\ Matches(req[t], product[p])
        /\ product[p].stock - b[p] \in 0..MaxInt
        /\ product'[p] = [product[p] EXCEPT !.stock = product[p].stock - b[p]]
    BY <1>6, PlaceOrderEffect
  <2>2. product[p] \in ProductRow /\ product[p].stock \in Int
    BY <1>1, <2>1, BoundAssumption DEF ProductRow
  <2>3. req[t].op = "order"
    BY DEF PlaceOrder, Locked
  <2>4. Active(p) /\ product[p].tenant = tenant
    BY <2>1, <2>3 DEF Matches, Active
  <2>5. ShelfOf(product)[p] = Bare(product[p])
    BY <1>1, <2>1, ShelfRows
  <2>6. b[p] <= product[p].stock
    BY <2>1, <2>2, BoundAssumption
  <2>7. ShelfOf(product)'[p] = Bare(product'[p])
    <3>1. product'[p] # NoRow
      BY <2>1, <2>2, NullAssumption DEF ProductRow
    <3> QED
      BY <3>1 DEF ShelfOf, Bare
  <2>8. Bare(product'[p]) = [Bare(product[p]) EXCEPT !.stock = product[p].stock - b[p]]
    BY <2>1, <2>2 DEF Bare, ProductRow
  <2>9. Bare(product[p]).tenant = product[p].tenant /\ Bare(product[p]).stock = product[p].stock
    BY DEF Bare
  <2> QED
    BY <2>4, <2>5, <2>6, <2>7, <2>8, <2>9, LedgerGuards
<1>7. ASSUME NEW p \in ProductId, ~(b[p] > 0)
      PROVE  ShelfOf(product)'[p] = ShelfOf(product)[p]
  <2>1. product'[p] = product[p]
    BY <1>7, PlaceOrderEffect
  <2> QED
    BY <2>1 DEF ShelfOf
<1>8. ShelfOf(product)' = [p \in ProductId |->
        IF b[p] > 0 THEN [ShelfOf(product)[p] EXCEPT !.stock = @ - b[p]]
                    ELSE ShelfOf(product)[p]]
  <2>1. ShelfOf(product)' = [p \in ProductId |-> ShelfOf(product)'[p]]
    BY DEF ShelfOf
  <2> QED
    BY <1>6, <1>7, <2>1
<1>9. movement' = [p \in ProductId |->
        IF b[p] > 0 THEN Ledger!Enter(movement[p], {"DEDUCT"}, b[p]) ELSE movement[p]]
  <2>1. \A p \in ProductId : Journal(movement[p], "DEDUCT", "SALE", b[p]) =
                              Ledger!Enter(movement[p], {"DEDUCT"}, b[p])
    BY JournalIsEntry DEF Action, ReasonChoices
  <2>2. movement' = [p \in ProductId |->
          IF p \in Contents(b) THEN Journal(movement[p], "DEDUCT", "SALE", b[p])
                               ELSE movement[p]]
    BY DEF PlaceOrder
  <2> QED
    BY <2>1, <2>2 DEF Contents
<1> QED
  BY <1>4, <1>5, <1>6, <1>8, <1>9 DEF Ledger!Sell

\* A void puts back what its order contains.
LEMMA VoidIsReturn ==
  ASSUME Inv, NEW t \in Thread, VoidOrder(t)
  PROVE  req[t].order \in OrderId /\ Ledger!Return(req[t].order)
<1> DEFINE b == orow[t].items
<1>1. product \in [ProductId -> ProductRow \cup {NoRow}]
  BY DEF Inv, TypeOK
<1>2. orow[t] # NoRow /\ IsPending(t) /\ SetStatus(t, "VOID")
  BY DEF VoidOrder, Locked, Inv, ControlOK, ControlAt
<1>3. /\ req[t].order \in OrderId
      /\ Ledger!Pending(req[t].order)
      /\ SaleOf(order)[req[t].order].items = b
      /\ SaleOf(order)' = [SaleOf(order) EXCEPT ![req[t].order].status = "VOID"]
  BY <1>2, StatusStep
<1>4. ASSUME NEW p \in ProductId, b[p] > 0
      PROVE  ShelfOf(product)'[p] =
               [ShelfOf(product)[p] EXCEPT !.stock = ShelfOf(product)[p].stock + b[p]]
  <2>1. /\ product[p] # NoRow
        /\ product'[p] = [product[p] EXCEPT !.stock = product[p].stock + b[p]]
    BY <1>4, VoidOrderEffect
  <2>2. product[p] \in ProductRow
    BY <1>1, <2>1
  <2>3. ShelfOf(product)[p] = Bare(product[p])
    BY <1>1, <2>1, ShelfRows
  <2>4. ShelfOf(product)'[p] = Bare(product'[p])
    <3>1. product'[p] # NoRow
      <4>1. product[p].stock + b[p] \in 0..MaxInt
        BY <1>4, VoidOrderEffect
      <4>2. product'[p] \in ProductRow
        BY <2>1, <2>2, <4>1 DEF ProductRow
      <4> QED
        BY <4>2, NullAssumption
    <3> QED
      BY <3>1 DEF ShelfOf, Bare
  <2>5. Bare(product'[p]) = [Bare(product[p]) EXCEPT !.stock = product[p].stock + b[p]]
    BY <2>1, <2>2 DEF Bare, ProductRow
  <2>6. Bare(product[p]).stock = product[p].stock
    BY DEF Bare
  <2> QED
    BY <2>3, <2>4, <2>5, <2>6
<1>5. ASSUME NEW p \in ProductId, ~(b[p] > 0)
      PROVE  ShelfOf(product)'[p] = ShelfOf(product)[p]
  <2>1. product'[p] = product[p]
    BY <1>5, VoidOrderEffect
  <2> QED
    BY <2>1 DEF ShelfOf
<1>6. ShelfOf(product)' = [p \in ProductId |->
        IF SaleOf(order)[req[t].order].items[p] > 0
          THEN [ShelfOf(product)[p] EXCEPT !.stock = @ + SaleOf(order)[req[t].order].items[p]]
          ELSE ShelfOf(product)[p]]
  <2>1. ShelfOf(product)' = [p \in ProductId |-> ShelfOf(product)'[p]]
    BY DEF ShelfOf
  <2> QED
    BY <1>3, <1>4, <1>5, <2>1
<1>7. movement' = [p \in ProductId |->
        IF SaleOf(order)[req[t].order].items[p] > 0
          THEN Ledger!Enter(movement[p], {"ADD", "ORDER_VOID"},
                            SaleOf(order)[req[t].order].items[p])
          ELSE movement[p]]
  <2>1. movement' = [p \in ProductId |->
          IF p \in Contents(b) THEN Journal(movement[p], "ADD", "ORDER_VOID", b[p])
                               ELSE movement[p]]
    BY DEF VoidOrder
  <2> QED
    BY <1>3, <2>1, JournalIsEntry DEF Contents
<1> QED
  BY <1>3, <1>6, <1>7 DEF Ledger!Return

\* A saved adjustment corrects the current stock of a product on sale, by the
\* units it journals.
LEMMA SaveIsAdjust ==
  ASSUME Inv, AllPermitted, NEW t \in Thread, SaveStock(t)
  PROVE  /\ req[t].product \in ProductId
         /\ \E q \in (-MaxInt..MaxInt) \ {0} : Ledger!Adjust(req[t].product, q)
<1> DEFINE p == req[t].product
           old == product[p].stock
           new == NewStock(req[t], old)
           q == new - old
<1>1. p \in ProductId /\ product[p] = Held(t) /\ product[p] \in ProductRow
  BY HeldRow
<1>2. /\ old \in 0..MaxInt /\ new \in 0..MaxInt /\ new # old
      /\ product' = [product EXCEPT ![p] = [product[p] EXCEPT !.stock = new]]
      /\ movement' = [movement EXCEPT ![p] =
           IF new > old THEN Journal(@, "ADD", req[t].reason, new - old)
                        ELSE Journal(@, "DEDUCT", req[t].reason, old - new)]
      /\ UNCHANGED order
  BY <1>1 DEF SaveStock, SetProduct, ProductRow
<1> HIDE DEF old, new
<1>3. /\ q \in (-MaxInt..MaxInt) \ {0}
      /\ old + q = new
      /\ old - new = -q
      /\ new > old <=> q > 0
  BY <1>2, BoundAssumption
<1> HIDE DEF q
<1>4. Active(p)
  <2>1. Matches(req[t], Held(t)) /\ req[t].op = "adjust"
    BY <1>1 DEF SaveStock, Locked, Inv, RowsMatch, Held
  <2> QED
    BY <1>1, <2>1 DEF Matches, Active
<1>5. ShelfOf(product)[p] = Bare(product[p]) /\ ShelfOf(product)[p].stock = old
  BY <1>1, <1>4 DEF ShelfOf, Bare, Active, old
<1>6. ShelfOf(product)' = [ShelfOf(product) EXCEPT ![p].stock = ShelfOf(product)[p].stock + q]
  <2> DEFINE row == [product[p] EXCEPT !.stock = new]
  <2>1. row \in ProductRow /\ Bare(row) = [Bare(product[p]) EXCEPT !.stock = new]
    BY <1>1, <1>2 DEF ProductRow, Bare
  <2>2. product' = [product EXCEPT ![p] = row]
    BY <1>2
  <2> HIDE DEF row
  <2>3. ShelfOf(product)' = [ShelfOf(product) EXCEPT ![p] = Bare(row)]
    BY <1>1, <2>1, <2>2, OneShelf
  <2> QED
    BY <1>3, <1>5, <2>1, <2>3
<1>7. req[t].reason \in ReasonChoices \ {"ORDER_VOID"}
  <2>1. req[t] \in AdjustRequest /\ req[t].op = "adjust" /\ req[t] # NoRequest
    BY RequestKinds, RequestAssumption DEF SaveStock, Locked, Inv, ControlOK, ControlAt
  <2> QED
    BY <2>1, OpAssumption DEF AllPermitted, Permitted, Validates, AdjustRequest
<1>8. movement' = [movement EXCEPT ![p] =
        IF q > 0 THEN Ledger!Enter(@, {"ADD"}, q) ELSE Ledger!Enter(@, {"DEDUCT"}, -q)]
  <2>1. /\ Journal(movement[p], "ADD", req[t].reason, q) =
             Ledger!Enter(movement[p], {"ADD"}, q)
        /\ Journal(movement[p], "DEDUCT", req[t].reason, -q) =
             Ledger!Enter(movement[p], {"DEDUCT"}, -q)
    BY <1>7, JournalIsEntry DEF Action
  <2>2. new - old = q
    BY DEF q
  <2> QED
    BY <1>2, <1>3, <2>1, <2>2
<1>9. UNCHANGED SaleOf(order)
  BY <1>2 DEF SaleOf
<1>10. ShelfOf(product)[p].stock + q \in 0..MaxInt
  BY <1>2, <1>3, <1>5
<1> QED
  BY <1>1, <1>3, <1>4, <1>6, <1>8, <1>9, <1>10, LedgerGuards DEF Ledger!Adjust

\* What the two flags do to the shelf.
LEMMA FlagStep ==
  ASSUME Inv, NEW t \in Thread, Archive(t) \/ Restore(t), NEW flag \in BOOLEAN,
         product' = [product EXCEPT ![req[t].product] =
                       [product[req[t].product] EXCEPT !.is_archived = flag]]
  PROVE  /\ ShelfOf(product)[req[t].product] = Bare(product[req[t].product])
         /\ ShelfOf(product)[req[t].product] # NoRow
         /\ ShelfOf(product)' = [ShelfOf(product) EXCEPT ![req[t].product].is_archived = flag]
<1> DEFINE p == req[t].product
           row == [product[p] EXCEPT !.is_archived = flag]
<1>1. p \in ProductId /\ product[p] \in ProductRow /\ product[p] # NoRow
  BY HeldRow, NullAssumption
<1>2. ShelfOf(product)[p] = Bare(product[p]) /\ ShelfOf(product)[p] # NoRow
  BY <1>1, ShelfRows DEF Inv, TypeOK
<1>3. row \in ProductRow /\ Bare(row) = [Bare(product[p]) EXCEPT !.is_archived = flag]
  BY <1>1 DEF ProductRow, Bare
<1>4. product' = [product EXCEPT ![p] = row]
  OBVIOUS
<1>5. ShelfOf(product)' = [ShelfOf(product) EXCEPT ![p] = Bare(row)]
  <2> HIDE DEF row
  <2> QED
    BY <1>1, <1>3, <1>4, OneShelf
<1>6. ShelfOf(product)' = [ShelfOf(product) EXCEPT ![p].is_archived = flag]
  <2> HIDE DEF row
  <2> QED
    BY <1>2, <1>3, <1>5
<1> QED
  BY <1>2, <1>6

\* A product is archived while no pending order contains it.
LEMMA ArchiveIsWithdraw ==
  ASSUME Inv, Available, NEW t \in Thread, Archive(t)
  PROVE  req[t].product \in ProductId /\ Ledger!Withdraw(req[t].product)
<1> DEFINE p == req[t].product
<1>1. p \in ProductId /\ product[p] = Held(t) /\ product[p] \in ProductRow
  BY HeldRow
<1>2. Active(p)
  <2>1. pc[t] = "archive" /\ req[t].op = "archive" /\ Held(t) # NoRow
    BY DEF Archive, Inv, ControlOK, ControlAt
  <2>2. Matches(req[t], Held(t))
    BY <1>1, <2>1 DEF Inv, RowsMatch, Held
  <2> QED
    BY <1>1, <2>1, <2>2 DEF Matches, Active
<1>3. ASSUME NEW o \in OrderId, Ledger!Pending(o)
      PROVE  SaleOf(order)[o].items[p] = 0
  <2>1. order[o] # NoRow /\ order[o].status = "PENDING"
    BY <1>3, LedgerGuards
  <2>2. order[o] \in OrderRow
    BY <2>1 DEF Inv, TypeOK
  <2>3. order[o].items[p] \in Nat
    BY <1>1, <2>2, BoundAssumption DEF OrderRow, Items
  <2>4. ~(order[o].items[p] > 0)
    BY <2>1 DEF Archive, Available, ArchiveIsSafe
  <2>5. SaleOf(order)[o].items = order[o].items
    BY <2>1 DEF SaleOf
  <2> QED
    BY <2>3, <2>4, <2>5
<1>4. product' = [product EXCEPT ![p] = [product[p] EXCEPT !.is_archived = TRUE]]
  BY DEF Archive, SetProduct
<1>5. ShelfOf(product)' = [ShelfOf(product) EXCEPT ![p].is_archived = TRUE]
  BY <1>4, FlagStep
<1>6. UNCHANGED <<SaleOf(order), movement>>
  BY DEF Archive, SaleOf
<1> QED
  BY <1>1, <1>2, <1>3, <1>5, <1>6, LedgerGuards DEF Ledger!Withdraw

\* A product that is restored comes back under a name that is free.
LEMMA RestoreIsPutBack ==
  ASSUME Inv, NEW t \in Thread, Restore(t)
  PROVE  req[t].product \in ProductId /\ Ledger!PutBack(req[t].product)
<1> DEFINE p == req[t].product
<1>1. p \in ProductId /\ product[p] = Held(t) /\ product[p] \in ProductRow
  BY HeldRow
<1>2. product' = [product EXCEPT ![p] = [product[p] EXCEPT !.is_archived = FALSE]]
  BY DEF Restore, SetProduct
<1>3. /\ ShelfOf(product)[p] = Bare(product[p])
      /\ ShelfOf(product)[p] # NoRow
      /\ ShelfOf(product)' = [ShelfOf(product) EXCEPT ![p].is_archived = FALSE]
  BY <1>2, FlagStep
<1>4. product[p].is_archived /\ ~NameTaken(product[p].tenant, product[p].name, {p})
  BY <1>1 DEF Restore
<1>5. ~NameTaken(product[p].tenant, product[p].name, {})
  BY <1>4 DEF NameTaken
<1>6. /\ ShelfOf(product)[p].tenant = product[p].tenant
      /\ ShelfOf(product)[p].name = product[p].name
      /\ ShelfOf(product)[p].is_archived = product[p].is_archived
  BY <1>3 DEF Bare
<1>7. UNCHANGED <<SaleOf(order), movement>>
  BY DEF Restore, SaleOf
<1> QED
  BY <1>1, <1>3, <1>4, <1>5, <1>6, <1>7, LedgerGuards DEF Ledger!PutBack

\* A created product goes on sale under a name that is free.
LEMMA InsertIsOpen ==
  ASSUME Inv, NEW t \in Thread, InsertProduct(t)
  PROVE  \E p \in ProductId, tenant \in Tenant, name \in Name, n \in 0..MaxInt :
           Ledger!Open(p, tenant, name, n)
<1>1. req[t] \in CreateRequest
  BY DEF InsertProduct, Inv, ControlOK, ControlAt
<1>2. req[t].tenant \in Tenant /\ req[t].name \in Name /\ req[t].stock \in 0..MaxInt
      /\ req[t].price \in 0..MaxInt
  BY <1>1 DEF CreateRequest
<1> DEFINE row == [tenant |-> req[t].tenant, name |-> req[t].name, price |-> req[t].price,
                   stock |-> req[t].stock, is_archived |-> FALSE]
<1>3. PICK p \in ProductId : product[p] = NoRow /\ product' = [product EXCEPT ![p] = row]
  BY DEF InsertProduct, IsFree
<1>4. row \in ProductRow
  BY <1>2 DEF ProductRow
<1>5. Bare(row) = [tenant |-> req[t].tenant, name |-> req[t].name, stock |-> req[t].stock,
                   is_archived |-> FALSE]
  BY DEF Bare
<1>6. ShelfOf(product)' = [ShelfOf(product) EXCEPT ![p] = Bare(row)]
  <2> HIDE DEF row
  <2> QED
    BY <1>3, <1>4, OneShelf
<1>7. ShelfOf(product)[p] = NoRow
  BY <1>3 DEF ShelfOf
<1>8. ~Ledger!SoldAs(req[t].tenant, req[t].name)
  BY LedgerGuards DEF InsertProduct, Unique
<1>9. UNCHANGED <<SaleOf(order), movement>>
  BY DEF InsertProduct, SaleOf
<1>10. Ledger!Open(p, req[t].tenant, req[t].name, req[t].stock)
  BY <1>5, <1>6, <1>7, <1>8, <1>9 DEF Ledger!Open
<1> QED
  BY <1>2, <1>10

\* A payment settles a pending order and moves no stock.
LEMMA PayIsSettle ==
  ASSUME Inv, NEW t \in Thread, PayOrder(t)
  PROVE  req[t].order \in OrderId /\ Ledger!Settle(req[t].order)
<1>1. /\ orow[t] # NoRow /\ IsPending(t) /\ SetStatus(t, "PAID")
      /\ UNCHANGED <<product, movement>>
  BY DEF PayOrder, Inv, ControlOK, ControlAt
<1>2. UNCHANGED ShelfOf(product)
  BY <1>1 DEF ShelfOf
<1> QED
  BY <1>1, <1>2, StatusStep DEF Ledger!Settle

-----------------------------------------------------------------------------

\* Every step of the store is a step of the abstract shop, or none.
LEMMA LedgerStep ==
  ASSUME Inv, AllPermitted, Available, [Next]_vars
  PROVE  [Ledger!Next]_Ledger!vars
<1>1. CASE UNCHANGED tables
  <2>1. UNCHANGED <<ShelfOf(product), SaleOf(order), movement>>
    BY <1>1 DEF tables, ShelfOf, SaleOf
  <2> QED
    BY <2>1 DEF Ledger!vars
<1>2. ASSUME NEW t \in Thread, Writes(t)
      PROVE  Ledger!Next
  <2>1. CASE PlaceOrder(t)
    <3>1. PICK o \in OrderId : Ledger!Sell(o, req[t].tenant, req[t].items)
      BY <2>1, PlaceIsSell
    <3>2. req[t] # NoRequest /\ req[t].op = "order" /\ req[t] \in Request
      BY <2>1, RequestAssumption DEF PlaceOrder, Locked, Inv, ControlOK, ControlAt
    <3>3. req[t].tenant \in Tenant /\ req[t].items \in Items
      BY <3>2, RequestKinds
    <3>4. \E p \in ProductId : req[t].items[p] > 0
      BY <3>2 DEF AllPermitted, Permitted, Contents
    <3>5. req[t].items \in Ledger!Basket
      BY <3>3, <3>4 DEF Items, Ledger!Basket
    <3> QED
      BY <3>1, <3>3, <3>5 DEF Ledger!Next
  <2>2. CASE PayOrder(t)
    BY <2>2, PayIsSettle DEF Ledger!Next
  <2>3. CASE VoidOrder(t)
    BY <2>3, VoidIsReturn DEF Ledger!Next
  <2>4. CASE SaveStock(t)
    BY <2>4, SaveIsAdjust DEF Ledger!Next
  <2>5. CASE Archive(t)
    BY <2>5, ArchiveIsWithdraw DEF Ledger!Next
  <2>6. CASE Restore(t)
    BY <2>6, RestoreIsPutBack DEF Ledger!Next
  <2>7. CASE InsertProduct(t)
    BY <2>7, InsertIsOpen DEF Ledger!Next
  <2> QED
    BY <1>2, <2>1, <2>2, <2>3, <2>4, <2>5, <2>6, <2>7 DEF Writes
<1> QED
  BY <1>1, <1>2, OnlyWritesWrite

\* Every concurrent run of the order and product transactions is a run of the
\* abstract shop, in which each sale, return, adjustment, withdrawal and
\* restoration happens at once, on the current stock and by the units it
\* journals (orders/services.py; products/services.py).
THEOREM StoreImplementsLedger == Spec => ImplementsLedger
<1>1. Init => Ledger!Init
  BY DEF Init, Ledger!Init, Ledger!Column, Tally, SaleOf
<1>2. Init => Inv /\ AllPermitted /\ Available
  BY InitInv DEF Init, AllPermitted, Available, NoPendingOnArchived, ArchiveIsSafe
<1>3. Inv /\ AllPermitted /\ Available /\ [Next]_vars
        => (Inv /\ AllPermitted /\ Available)'
  BY NextInv, PermittedStep, AvailableStep
<1>4. Inv /\ AllPermitted /\ Available /\ [Next]_vars => [Ledger!Next]_Ledger!vars
  BY LedgerStep
<1> QED
  BY <1>1, <1>2, <1>3, <1>4, PTL DEF Spec, ImplementsLedger, Ledger!Spec
=============================================================================

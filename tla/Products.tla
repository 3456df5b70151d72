------------------------------ MODULE Products ------------------------------
(***************************************************************************)
(* products/services.py: adjust_stock_service, archive_product_service,    *)
(* unarchived_product_service and create_product_service, as the steps of  *)
(* a thread, behind the serializers and permissions of products/views.py.  *)
(***************************************************************************)
EXTENDS Database

ALLOWED_PRODUCT_CREATOR_ROLES == {"OWNER", "MANAGER"}
ALLOWED_PRODUCT_ARCHIVED_ROLES == {"OWNER", "MANAGER"}

\* The body of a stock adjustment: an action and a quantity, or, written
\* "SET" here, a target_stock.
AdjustRequest ==
  [op : {"adjust"}, tenant : Tenant, role : Role, product : ProductId,
   reason : Reason, action : Action \cup {"SET"}, amount : 0..MaxQuantity]
ArchiveRequest ==
  [op : {"archive", "restore"}, tenant : Tenant, role : Role, product : ProductId]
CreateRequest ==
  [op : {"create"}, tenant : Tenant, role : Role, name : Name,
   price : 0..MaxInt, stock : 0..MaxInt]

\* The one row of the request, in memory; NoRow when it was not found.
Held(t) == rows[t][req[t].product]

SetProduct(t, row) == product' = [product EXCEPT ![req[t].product] = row]

-----------------------------------------------------------------------------
(* adjust_stock_service                                                    *)

\* Mutant of Validates: the table of expected actions is left out.
ValidatesAnyAction(r) ==
  /\ r.reason # "ORDER_VOID"
  /\ r.action = "SET" <=> r.reason = "ADJUSTMENT"
  /\ r.action # "SET" => r.amount >= 1

\* StockAdjustmentSerializer.validate: which action goes with which reason.
Validates(r) ==
  /\ r.reason # "ORDER_VOID"
  /\ r.action = "SET" <=> r.reason = "ADJUSTMENT"
  /\ r.action # "SET" => r.amount >= 1
  /\ r.reason = "RESTOCK" => r.action = "ADD"
  /\ r.reason \in {"SALE", "DAMAGED", "EXPIRED", "LOST"} => r.action = "DEDUCT"

MayAdjust(r) == r.role = "CASHIER" => r.reason = "SALE"

AdjustStock(t) ==
  \E r \in AdjustRequest :
    /\ Validates(r)
    /\ MayAdjust(r)
    /\ Begin(t, r, "lock", Found(r, {r.product}))

\* The stock after the adjustment, below 0 when there is too little.
NewStock(r, stock) ==
  CASE r.action = "SET" -> r.amount
    [] r.action = "ADD" -> stock + r.amount
    [] r.action = "DEDUCT" -> stock - r.amount

SaveStock(t) ==
  LET old == Held(t).stock
      new == NewStock(req[t], old)
  IN  /\ Locked(t, "adjust")
      /\ Held(t) # NoRow
      /\ new \in 0..MaxInt
      /\ new # old
      /\ SetProduct(t, [product[req[t].product] EXCEPT !.stock = new])
      /\ movement' = [movement EXCEPT ![req[t].product] =
           IF new > old THEN Journal(@, "ADD", req[t].reason, new - old)
                        ELSE Journal(@, "DEDUCT", req[t].reason, old - new)]
      /\ UNCHANGED <<order, opening>>
      /\ Finish(t, "adjusted")

RejectAdjust(t) ==
  LET old == Held(t).stock
      new == NewStock(req[t], old)
  IN  /\ Locked(t, "adjust")
      /\ \/ Held(t) = NoRow /\ Reject(t, "not_found")
         \/ Held(t) # NoRow /\ (new < 0 \/ new = old) /\ Reject(t, "invalid")
         \/ Held(t) # NoRow /\ new > MaxInt /\ Reject(t, "db_error")

-----------------------------------------------------------------------------
(* archive_product_service and unarchived_product_service                  *)

MayArchive(r) == r.role \in ALLOWED_PRODUCT_ARCHIVED_ROLES

CallOnProduct(t) ==
  \E r \in ArchiveRequest :
    MayArchive(r) /\ Begin(t, r, "lock", Found(r, {r.product}))

RejectMissing(t) ==
  /\ \E op \in {"archive", "restore"} : Locked(t, op)
  /\ Held(t) = NoRow
  /\ Reject(t, "not_found")

\* Mutant of PendingOrderOf: it looks for paid orders.
PaidOrderOf(p, tenant) ==
  \E o \in OrderId :
    /\ order[o] # NoRow
    /\ order[o].tenant = tenant
    /\ order[o].status = "PAID"
    /\ order[o].items[p] > 0

\* Order.objects.filter(items__product_id=..., status=PENDING): the orders of
\* the actor's tenant, as committed when the query starts.
PendingOrderOf(p, tenant) ==
  \E o \in OrderId :
    /\ order[o] # NoRow
    /\ order[o].tenant = tenant
    /\ order[o].status = "PENDING"
    /\ order[o].items[p] > 0

\* The row was filtered by is_archived=False, so the code's own test of the
\* flag cannot fail.
CheckOrders(t) ==
  /\ Locked(t, "archive")
  /\ Held(t) # NoRow
  /\ IF PendingOrderOf(req[t].product, req[t].tenant)
       THEN Reject(t, "has_pending_order")
       ELSE /\ Goto(t, "archive")
            /\ UNCHANGED <<tables, locks, req, todo, rows, orow, reply, issued>>

Archive(t) ==
  /\ pc[t] = "archive"
  /\ SetProduct(t, [product[req[t].product] EXCEPT !.is_archived = TRUE])
  /\ UNCHANGED <<order, movement, opening>>
  /\ Finish(t, "archived")

\* unique_tenant_name_product: an active product of the tenant has the name.
NameTaken(tenant, name, but) ==
  \E q \in ProductId \ but :
    /\ product[q] # NoRow
    /\ product[q].tenant = tenant
    /\ product[q].name = name
    /\ ~product[q].is_archived

Restore(t) ==
  /\ Locked(t, "restore")
  /\ Held(t) # NoRow
  /\ Held(t).is_archived
  /\ ~NameTaken(Held(t).tenant, Held(t).name, {req[t].product})
  /\ SetProduct(t, [product[req[t].product] EXCEPT !.is_archived = FALSE])
  /\ UNCHANGED <<order, movement, opening>>
  /\ Finish(t, "restored")

RejectRestore(t) ==
  /\ Locked(t, "restore")
  /\ Held(t) # NoRow
  /\ \/ ~Held(t).is_archived /\ Reject(t, "not_archived")
     \/ /\ Held(t).is_archived
        /\ NameTaken(Held(t).tenant, Held(t).name, {req[t].product})
        /\ Reject(t, "db_error")

-----------------------------------------------------------------------------
(* create_product_service: no transaction around its two statements        *)

MayCreate(r) == r.role \in ALLOWED_PRODUCT_CREATOR_ROLES

CreateProduct(t) ==
  \E r \in CreateRequest :
    /\ MayCreate(r)
    /\ IF NameTaken(r.tenant, r.name, {})
         THEN Deny(t, r, "already_exists")
         ELSE Begin(t, r, "insert", {})

\* Mutant of Unique: a table without the constraint.
UniqueUnchecked(t) == TRUE

Unique(t) == ~NameTaken(req[t].tenant, req[t].name, {})

InsertProduct(t) ==
  /\ pc[t] = "insert"
  /\ Unique(t)
  /\ \E p \in ProductId :
       /\ IsFree(product, p)
       /\ product' = [product EXCEPT ![p] =
            [tenant |-> req[t].tenant, name |-> req[t].name,
             price |-> req[t].price, stock |-> req[t].stock,
             is_archived |-> FALSE]]
       /\ opening' = [opening EXCEPT ![p] = req[t].stock]
  /\ UNCHANGED <<order, movement>>
  /\ Finish(t, "created")

RejectInsert(t) ==
  /\ pc[t] = "insert"
  /\ ~Unique(t)
  /\ Reject(t, "already_exists")

DenyProductCall(t) ==
  \/ \E r \in AdjustRequest : ~Validates(r) /\ Deny(t, r, "invalid")
  \/ \E r \in AdjustRequest : Validates(r) /\ ~MayAdjust(r) /\ Deny(t, r, "forbidden")
  \/ \E r \in ArchiveRequest : ~MayArchive(r) /\ Deny(t, r, "forbidden")
  \/ \E r \in CreateRequest : ~MayCreate(r) /\ Deny(t, r, "forbidden")
=============================================================================

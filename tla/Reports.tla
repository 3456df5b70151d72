------------------------------- MODULE Reports --------------------------------
(***************************************************************************)
(* reports/services.py: the three reports of a tenant's current business   *)
(* day, against a store that goes on selling and a clock that goes on.     *)
(*                                                                         *)
(* A report takes no lock and no transaction: its view takes the time, the *)
(* service reads the tenant's timezone and then queries, each statement on *)
(* the rows committed when it starts.  An order and its movements carry    *)
(* the time of their INSERT, which is after the transaction got its last   *)
(* lock and before it commits.                                             *)
(***************************************************************************)
EXTENDS Store, BusinessDay

CONSTANTS
  Reporter,       \* the threads that serve reports, apart from Thread
  Instant,        \* the instants the clock shows
  DefaultZone     \* the timezone of a new tenant

ASSUME ClockAssumption ==
  /\ Instant \subseteq Int
  /\ \E first \in Instant : \A i \in Instant : first <= i
ASSUME DefaultZoneAssumption == DefaultZone \in Zone

VARIABLES
  clock,       \* the time
  timezone,    \* Tenant.timezone
  ready,       \* when each thread got its last row, NoRow when it is idle
  created,     \* Order.created_at
  moved,       \* the StockMovement.created_at of each product
  report       \* the report each reporter is at

reportVars == <<clock, timezone, ready, created, moved, report>>
storeVars == vars
allVars == <<vars, clock, timezone, ready, created, moved, report>>

\* Where a report is or which one it was, whom it is for, the locals of the
\* service and its answer; and, as history, the orders that were live and
\* those that were void when it was asked for, and the products that have
\* been active or sold at every moment since the sales were summed.
NoReport ==
  [at |-> "idle", tenant |-> NoRow, now |-> 0,
   zone |-> NoRow, window |-> NoRow, sold |-> NoRow, answer |-> NoRow,
   live |-> {}, void |-> {}, kept |-> {}]

ReportInit ==
  /\ Init
  /\ clock = CHOOSE i \in Instant : \A j \in Instant : i <= j
  /\ timezone = [tenant \in Tenant |-> DefaultZone]
  /\ ready = [t \in Thread |-> NoRow]
  /\ created = [o \in OrderId |-> NoRow]
  /\ moved = [p \in ProductId |-> {}]
  /\ report = [r \in Reporter |-> NoReport]

-----------------------------------------------------------------------------
(* What the reports select.                                                *)

OrderOf(o, tenant) == order[o] # NoRow /\ order[o].tenant = tenant

\* order__status__in=[PENDING, PAID]
Counts(o) == order[o].status \in {"PENDING", "PAID"}

OrdersWithin(tenant, window) ==
  {o \in OrderId : OrderOf(o, tenant) /\ Within(window, created[o])}
SalesWithin(tenant, window) == {o \in OrdersWithin(tenant, window) : Counts(o)}
ActiveProducts(tenant) ==
  {p \in ProductId : product[p] # NoRow /\ product[p].tenant = tenant
                       /\ ~product[p].is_archived}
SoldProducts(tenant, window) ==
  {p \in ProductId : \E o \in SalesWithin(tenant, window) : order[o].items[p] > 0}
Relevant(r) ==
  ActiveProducts(report[r].tenant) \cup SoldProducts(report[r].tenant, report[r].window)

-----------------------------------------------------------------------------
(* The clock, the tenants and the store.                                   *)

Tick ==
  /\ \E i \in Instant : i > clock /\ clock' = i
  /\ UNCHANGED <<storeVars, timezone, ready, created, moved, report>>

\* update_tenant_timezone_service, called by an owner.
UpdateTimezone ==
  /\ "OWNER" \in Role
  /\ \E tenant \in Tenant, z \in Zone : timezone' = [timezone EXCEPT ![tenant] = z]
  /\ UNCHANGED <<storeVars, clock, ready, created, moved, report>>

\* The instants at which a thread may have sent the INSERTs of this step.
Since(t) ==
  IF ready[t] = NoRow THEN {clock}
                      ELSE {i \in Instant : ready[t] <= i /\ i <= clock}

\* Mutant of NewOrders: created_at without auto_now_add.
NewOrdersUnstamped == {}

NewOrders == {o \in OrderId : order[o] = NoRow /\ order'[o] # NoRow}
NewMovements == {p \in ProductId : movement'[p] # movement[p]}

\* A step of a thread of the store, with the times auto_now_add gives.
StoreStep(t) ==
  /\ Call(t) \/ TakeLock(t) \/ Run(t) \/ Abort(t)
  /\ ready' = [ready EXCEPT ![t] = IF pc'[t] = "idle" THEN NoRow ELSE clock]
  /\ \E sold \in Since(t), noted \in Since(t) :
       /\ sold <= noted
       /\ created' = [o \in OrderId |-> IF o \in NewOrders THEN sold ELSE created[o]]
       /\ moved' = [p \in ProductId |->
            IF p \in NewMovements THEN moved[p] \cup {noted} ELSE moved[p]]
  /\ report' = [r \in Reporter |->
       IF report[r].at = "catalogue"
         THEN [report[r] EXCEPT !.kept = @ \cap Relevant(r)]
         ELSE report[r]]
  /\ UNCHANGED <<clock, timezone>>

-----------------------------------------------------------------------------
(* The reports.                                                            *)

\* The view has read the actor and takes the time.  What the three services
\* do first is the same: which one it is shows in its query.
Ask(r) ==
  /\ report[r].at = "idle"
  /\ \E tenant \in Tenant :
       report' = [report EXCEPT ![r] =
         [NoReport EXCEPT !.at = "timezone", !.tenant = tenant, !.now = clock,
            !.live = {o \in OrderId : OrderOf(o, tenant) /\ order[o].status # "VOID"},
            !.void = {o \in OrderId : OrderOf(o, tenant) /\ order[o].status = "VOID"}]]

\* tenant.timezone is fetched when it is used; the boundaries are those of
\* the date that now has in it.
ReadTimezone(r) ==
  LET z == timezone[report[r].tenant]
  IN  /\ report[r].at = "timezone"
      /\ report' = [report EXCEPT
           ![r].at = "query",
           ![r].zone = z,
           ![r].window = Boundary(z, BusinessDate(z, report[r].now))]

AnswerWith(r, kind, answer) ==
  report' = [report EXCEPT ![r].at = kind, ![r].answer = answer]

\* get_today_order_count_service: void orders are counted.
CountOrders(r) ==
  /\ report[r].at = "query"
  /\ AnswerWith(r, "count", Cardinality(OrdersWithin(report[r].tenant, report[r].window)))

\* get_today_stock_movement_service, for owners and managers
ListMovements(r) ==
  /\ report[r].at = "query"
  /\ \E role \in Role : role \in {"OWNER", "MANAGER"}
  /\ AnswerWith(r, "movements", [p \in ProductId |->
       IF product[p] # NoRow /\ product[p].tenant = report[r].tenant
         THEN {i \in moved[p] : Within(report[r].window, i)} ELSE {}])

\* get_today_product_sales_service, its first statement: the items of the
\* day's orders, added up by product.
SumSales(r) ==
  /\ report[r].at = "query"
  /\ report' = [report EXCEPT
       ![r].at = "catalogue",
       ![r].sold = [p \in ProductId |->
          Units(order, p, SalesWithin(report[r].tenant, report[r].window))],
       ![r].kept = Relevant(r)]

\* Mutant of Listed: what is archived is left out.
ListedActive(r) == ActiveProducts(report[r].tenant)

\* Its second statement: what is active now, and what was sold.
Listed(r) ==
  ActiveProducts(report[r].tenant) \cup {p \in ProductId : report[r].sold[p] > 0}

MergeCatalogue(r) ==
  /\ report[r].at = "catalogue"
  /\ AnswerWith(r, "sales", [p \in Listed(r) |-> report[r].sold[p]])

\* The response is sent, or the reporter dies.
Close(r) ==
  /\ report[r].at # "idle"
  /\ report' = [report EXCEPT ![r] = NoReport]

Report(r) ==
  /\ \/ Ask(r) \/ ReadTimezone(r) \/ CountOrders(r) \/ ListMovements(r)
     \/ SumSales(r) \/ MergeCatalogue(r) \/ Close(r)
  /\ UNCHANGED <<storeVars, clock, timezone, ready, created, moved>>

ReportNext ==
  \/ Tick \/ UpdateTimezone
  \/ \E t \in Thread : StoreStep(t)
  \/ \E r \in Reporter : Report(r)

ReportSpec == ReportInit /\ [][ReportNext]_allVars

-----------------------------------------------------------------------------

\* Type invariant: every order has its time, and no time is to come
\* (orders/models.py:19; products/models.py:96).
ReportTypeOK ==
  /\ clock \in Instant
  /\ timezone \in [Tenant -> Zone]
  /\ \A t \in Thread : ready[t] # NoRow => ready[t] \in Instant /\ ready[t] <= clock
  /\ \A o \in OrderId :
       IF order[o] = NoRow THEN created[o] = NoRow
                           ELSE created[o] \in Instant /\ created[o] <= clock
  /\ \A p \in ProductId : moved[p] \subseteq {i \in Instant : i <= clock}
  /\ \A r \in Reporter :
       report[r].at \in {"idle", "timezone", "query", "catalogue",
                         "count", "movements", "sales"}

\* The window a report queries holds the instant it was asked at and exactly
\* the instants of the same local date, however short or long the clocks
\* make that day (reports/services.py:23-31; tenants/time.py:7-39).
WindowIsToday ==
  \A r \in Reporter :
    report[r].at \in {"query", "catalogue"} =>
      \A i \in Instant :
        Within(report[r].window, i) <=>
          BusinessDate(report[r].zone, i) =
            BusinessDate(report[r].zone, report[r].now)

\* The orders of the day a report is about, by their own local dates.
OfThatDay(m) ==
  {o \in OrderId :
     /\ order[o] # NoRow
     /\ order[o].tenant = m.tenant
     /\ BusinessDate(m.zone, created[o]) = BusinessDate(m.zone, m.now)}

\* A count is not torn: it lies between the orders of the day that were there
\* when it was asked for and those that are there when it is answered
\* (reports/services.py:33-37).
CountBracketed ==
  [][\A r \in Reporter :
       report[r].at = "query" /\ report'[r].at = "count" =>
         LET day == OfThatDay(report[r])
         IN  /\ report'[r].answer >= Cardinality(day \cap (report[r].live \cup report[r].void))
             /\ report'[r].answer <= Cardinality(day)]_allVars

\* A sale of the day that was committed before the report was asked for and
\* is not voided when it is answered is in it; one that was void before, or
\* belongs to another day, is not (reports/services.py:56-72, 110).
SalesBracketed ==
  [][\A r \in Reporter :
       report[r].at = "catalogue" /\ report'[r].at = "sales" =>
         LET day == OfThatDay(report[r])
             answer == report'[r].answer
         IN  \A p \in ProductId :
               LET units == IF p \in DOMAIN answer THEN answer[p] ELSE 0
               IN  /\ units >= Units(order, p,
                                     {o \in day \cap report[r].live : order[o].status # "VOID"})
                   /\ units <= Units(order, p, day \ report[r].void)]_allVars

\* A product that has been active, or sold on that day, at every moment since
\* the report summed the sales is in it
\* (tests/reports/test_product_sales_service.py:72-127).
RelevantIsListed ==
  [][\A r \in Reporter :
       report[r].at = "catalogue" /\ report'[r].at = "sales" =>
         report[r].kept \cap Relevant(r) \subseteq DOMAIN report'[r].answer]_allVars
===============================================================================

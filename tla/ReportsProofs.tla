--------------------------- MODULE ReportsProofs ----------------------------
(***************************************************************************)
(* Theorems about BusinessDay and Reports, for any zones that do not jump  *)
(* over a midnight, any clock and any number of shops and threads: the two *)
(* instants that bound a business date bound exactly its instants, a       *)
(* report asks for the day it was asked on, its count is that of the day,  *)
(* and so are its sales.                                                   *)
(***************************************************************************)
EXTENDS Reports, StoreLedger

-----------------------------------------------------------------------------
(* The business day.                                                       *)

\* A product with a positive number keeps the order.
LEMMA TimesDay ==
  ASSUME NEW a \in Int, NEW b \in Int
  PROVE  a < b <=> a * Day < b * Day
<1>1. ASSUME a < b PROVE a * Day < b * Day
  <2>1. (b - a) * Day > 0
    BY <1>1, DayAssumption
  <2>2. (b - a) * Day = b * Day - a * Day
    BY DayAssumption
  <2> QED
    BY <2>1, <2>2, DayAssumption
<1>2. ASSUME b <= a PROVE b * Day <= a * Day
  <2>1. (a - b) * Day >= 0
    BY <1>2, DayAssumption
  <2>2. (a - b) * Day = a * Day - b * Day
    BY DayAssumption
  <2> QED
    BY <2>1, <2>2, DayAssumption
<1> QED
  BY <1>1, <1>2, DayAssumption

\* The date a wall clock shows: the one whose midnights are about it.
LEMMA DateOfWall ==
  ASSUME NEW wall \in Int, NEW d \in Int
  PROVE  /\ wall \div Day \in Int
         /\ d * Day <= wall <=> d <= wall \div Day
<1> DEFINE q == wall \div Day
<1>1. q \in Int /\ q * Day <= wall /\ wall < q * Day + Day
  BY DayAssumption
<1>2. (q + 1) * Day = q * Day + Day
  BY <1>1, DayAssumption
<1>3. q < d <=> q * Day < d * Day
  BY <1>1, TimesDay
<1>4. d < q + 1 <=> d * Day < (q + 1) * Day
  BY <1>1, TimesDay
<1>5. d * Day \in Int /\ q * Day \in Int
  BY <1>1, DayAssumption
<1> HIDE DEF q
<1>6. ASSUME d <= q PROVE d * Day <= wall
  <2>1. ~(q * Day < d * Day)
    BY <1>1, <1>3, <1>6
  <2> QED
    BY <1>1, <1>5, <2>1
<1>7. ASSUME q < d PROVE ~(d * Day <= wall)
  <2>1. ~(d * Day < q * Day + Day)
    BY <1>1, <1>2, <1>4, <1>7
  <2> QED
    BY <1>1, <1>5, <2>1, DayAssumption
<1>8. d * Day <= wall <=> d <= q
  BY <1>1, <1>6, <1>7
<1> QED
  BY <1>1, <1>8 DEF q

\* No midnight lies strictly between what a clock shows before and after it
\* is changed.
LEMMA NoMidnightIsJumped ==
  ASSUME NEW z \in Zone, NEW d \in Int
  PROVE  LET here == z.at + z.before
             there == z.at + z.after
         IN  ~(Smaller(here, there) < d * Day /\ d * Day < Larger(here, there))
<1> DEFINE low == Smaller(z.at + z.before, z.at + z.after)
           high == Larger(z.at + z.before, z.at + z.after)
<1>1. z.at \in Int /\ z.before \in Int /\ z.after \in Int
  BY ZoneAssumption
<1>2. low \in Int /\ high \in Int
  BY <1>1 DEF Smaller, Larger
<1>3. (high - 1) \div Day <= low \div Day
  BY MidnightAssumption
<1>4. d * Day \in Int
  BY DayAssumption
<1>5. SUFFICES ASSUME low < d * Day, d * Day < high PROVE FALSE
  OBVIOUS
<1>6. d <= (high - 1) \div Day /\ (high - 1) \div Day \in Int
  BY <1>2, <1>4, <1>5, DateOfWall
<1>7. ~(d <= low \div Day) /\ low \div Day \in Int
  BY <1>2, <1>4, <1>5, DateOfWall
<1> QED
  BY <1>3, <1>6, <1>7

\* A date starts at the first instant whose wall clock has reached it.
LEMMA StartOfDate ==
  ASSUME NEW z \in Zone, NEW t \in Int, NEW d \in Int
  PROVE  DayStart(z, d) \in Int /\ (DayStart(z, d) <= t <=> d <= BusinessDate(z, t))
<1> DEFINE m == d * Day
           wall == t + UtcOffset(z, t)
<1>1. z.at \in Int /\ z.before \in Int /\ z.after \in Int
  BY ZoneAssumption
<1>2. m \in Int /\ wall \in Int
  BY <1>1, DayAssumption DEF UtcOffset
<1>3. m <= wall <=> d <= BusinessDate(z, t)
  BY <1>2, DateOfWall DEF BusinessDate
<1>4. ~(Smaller(z.at + z.before, z.at + z.after) < m
          /\ m < Larger(z.at + z.before, z.at + z.after))
  BY NoMidnightIsJumped
<1>5. ToUtc(z, m) \in Int /\ (ToUtc(z, m) <= t <=> m <= wall)
  <2> HIDE DEF m
  <2> QED
    BY <1>1, <1>2, <1>4 DEF ToUtc, UtcOffset, Smaller, Larger
<1> QED
  BY <1>3, <1>5 DEF DayStart

\* The window of a date holds exactly the instants of that local date, though
\* the day may last longer or shorter than others (tenants/time.py:7-39;
\* reports/services.py:35-36).
THEOREM WindowHoldsItsDay ==
  ASSUME NEW z \in Zone, NEW t \in Int, NEW d \in Int
  PROVE  Within(Boundary(z, d), t) <=> BusinessDate(z, t) = d
<1>1. BusinessDate(z, t) \in Int
  <2>1. t + UtcOffset(z, t) \in Int
    BY ZoneAssumption DEF UtcOffset
  <2> QED
    BY <2>1, DateOfWall DEF BusinessDate
<1>2. DayStart(z, d) <= t <=> d <= BusinessDate(z, t)
  BY StartOfDate
<1>3. DayStart(z, d + 1) \in Int /\ (DayStart(z, d + 1) <= t <=> d + 1 <= BusinessDate(z, t))
  BY StartOfDate
<1> QED
  BY <1>1, <1>2, <1>3 DEF Within, Boundary

-----------------------------------------------------------------------------
(* The reports.                                                            *)

\* What a report has in hand: when it was asked, and the window of that day
\* in the timezone it read.
ReportAt(r) ==
  /\ DOMAIN report[r] = DOMAIN NoReport
  /\ report[r].at # "idle" => report[r].tenant \in Tenant /\ report[r].now \in Instant
  /\ report[r].at \in {"query", "catalogue"} =>
       /\ report[r].zone \in Zone
       /\ report[r].window =
            Boundary(report[r].zone, BusinessDate(report[r].zone, report[r].now))

ReportInv ==
  /\ Inv
  /\ ReportTypeOK
  /\ report = [r \in Reporter |-> report[r]]
  /\ DOMAIN ready = Thread /\ DOMAIN created = OrderId /\ DOMAIN moved = ProductId
  /\ \A r \in Reporter : ReportAt(r)

LEMMA ReportInitInv == ReportInit => ReportInv
<1> SUFFICES ASSUME ReportInit PROVE ReportInv
  OBVIOUS
<1> USE DEF ReportInit
<1>1. Inv
  BY InitInv
<1>2. clock \in Instant
  <2> DEFINE IsFirst(i) == \A j \in Instant : i <= j
  <2>1. \E i \in Instant : IsFirst(i)
    BY ClockAssumption
  <2>2. (CHOOSE i \in Instant : IsFirst(i)) \in Instant
    BY <2>1
  <2> QED
    BY <2>2
<1>3. ReportTypeOK
  BY <1>2, DefaultZoneAssumption DEF ReportTypeOK, Init, NoReport
<1>4. \A r \in Reporter : ReportAt(r)
  BY DEF ReportAt, NoReport
<1> QED
  BY <1>1, <1>3, <1>4 DEF ReportInv

LEMMA TickInv ==
  ASSUME ReportInv, Tick
  PROVE  ReportInv'
<1>1. PICK i \in Instant : i > clock /\ clock' = i
  BY DEF Tick
<1>2. UNCHANGED <<vars, timezone, ready, created, moved, report>>
  BY DEF Tick, storeVars
<1>3. Inv'
  BY <1>2, NextInv DEF ReportInv
<1>4. \A j \in Instant : j <= clock => j <= clock'
  BY <1>1, ClockAssumption DEF ReportInv, ReportTypeOK
<1>5. ReportTypeOK'
  BY <1>1, <1>2, <1>4 DEF ReportInv, ReportTypeOK, vars
<1> QED
  BY <1>2, <1>3, <1>5 DEF ReportInv, ReportAt

LEMMA TimezoneInv ==
  ASSUME ReportInv, UpdateTimezone
  PROVE  ReportInv'
<1>1. PICK tenant \in Tenant, z \in Zone : timezone' = [timezone EXCEPT ![tenant] = z]
  BY DEF UpdateTimezone
<1>2. UNCHANGED <<vars, clock, ready, created, moved, report>>
  BY DEF UpdateTimezone, storeVars
<1>3. Inv'
  BY <1>2, NextInv DEF ReportInv
<1>4. ReportTypeOK'
  BY <1>1, <1>2 DEF ReportInv, ReportTypeOK, vars
<1> QED
  BY <1>2, <1>3, <1>4 DEF ReportInv, ReportAt

\* No order disappears, its tenant and its items stay, and so does VOID.
LEMMA OrdersStay ==
  ASSUME Inv, [Next]_vars, NEW o \in OrderId, order[o] # NoRow
  PROVE  /\ order'[o] # NoRow
         /\ order'[o].tenant = order[o].tenant
         /\ order'[o].items = order[o].items
         /\ order[o].status = "VOID" => order'[o].status = "VOID"
<1>1. CASE UNCHANGED tables
  BY <1>1 DEF tables
<1>2. ASSUME NEW t \in Thread, Writes(t), order'[o] # order[o]
      PROVE  /\ order'[o] # NoRow
             /\ order'[o].tenant = order[o].tenant
             /\ order'[o].items = order[o].items
             /\ order[o].status = "VOID" => order'[o].status = "VOID"
  <2>1. PICK status \in {"PAID", "VOID"} :
          /\ order[o] \in OrderRow /\ order[o].status = "PENDING"
          /\ order'[o] = [order[o] EXCEPT !.status = status]
    BY <1>2, OrderEffect
  <2>2. /\ order'[o] \in OrderRow /\ order'[o].tenant = order[o].tenant
        /\ order'[o].items = order[o].items
    BY <2>1 DEF OrderRow, Status
  <2> QED
    BY <2>1, <2>2, NullAssumption
<1> QED
  BY <1>1, <1>2, OnlyWritesWrite

\* A row gets a time between the last lock of its transaction and now.
LEMMA StoreStepInv ==
  ASSUME ReportInv, NEW t \in Thread, StoreStep(t)
  PROVE  ReportInv'
<1> USE DEF ReportInv
<1>1. Next
  BY DEF StoreStep, Next
<1>2. Inv'
  BY <1>1, NextInv
<1>3. PICK sold \in Since(t), noted \in Since(t) :
        /\ created' = [o \in OrderId |-> IF o \in NewOrders THEN sold ELSE created[o]]
        /\ moved' = [p \in ProductId |->
             IF p \in NewMovements THEN moved[p] \cup {noted} ELSE moved[p]]
  BY DEF StoreStep
<1>4. /\ clock' = clock /\ timezone' = timezone
      /\ ready' = [ready EXCEPT ![t] = IF pc'[t] = "idle" THEN NoRow ELSE clock]
      /\ report' = [r \in Reporter |->
           IF report[r].at = "catalogue"
             THEN [report[r] EXCEPT !.kept = @ \cap Relevant(r)]
             ELSE report[r]]
  BY DEF StoreStep
<1>5. \A i \in Since(t) : i \in Instant /\ i <= clock
  BY ClockAssumption DEF Since, ReportTypeOK
<1>6. ASSUME NEW o \in OrderId
      PROVE  IF order'[o] = NoRow THEN created'[o] = NoRow
                                  ELSE created'[o] \in Instant /\ created'[o] <= clock
  <2>1. order[o] # NoRow => order'[o] # NoRow
    BY <1>1, OrdersStay
  <2>2. CASE o \in NewOrders
    BY <1>3, <1>5, <2>2 DEF NewOrders
  <2>3. CASE o \notin NewOrders
    BY <1>3, <2>1, <2>3 DEF NewOrders, ReportTypeOK
  <2> QED
    BY <2>2, <2>3
<1>7. \A p \in ProductId : moved'[p] \subseteq {i \in Instant : i <= clock}
  BY <1>3, <1>5 DEF ReportTypeOK
<1>8. \A s \in Thread : ready'[s] # NoRow => ready'[s] \in Instant /\ ready'[s] <= clock
  BY <1>4, ClockAssumption DEF ReportTypeOK
<1>9. ASSUME NEW r \in Reporter
      PROVE  /\ DOMAIN report'[r] = DOMAIN report[r]
             /\ report'[r].at = report[r].at /\ report'[r].tenant = report[r].tenant
             /\ report'[r].now = report[r].now /\ report'[r].zone = report[r].zone
             /\ report'[r].window = report[r].window
  BY <1>4
<1>10. ReportTypeOK'
  BY <1>4, <1>6, <1>7, <1>8, <1>9 DEF ReportTypeOK
<1>11. \A r \in Reporter : ReportAt(r)'
  BY <1>9 DEF ReportAt
<1> QED
  BY <1>2, <1>3, <1>4, <1>10, <1>11

\* A step of a reporter.
LEMMA ReportStepInv ==
  ASSUME ReportInv, NEW r \in Reporter, Report(r)
  PROVE  ReportInv'
<1> USE DEF ReportInv
<1>1. UNCHANGED <<vars, clock, timezone, ready, created, moved>>
  BY DEF Report, storeVars
<1>2. Inv'
  BY <1>1, NextInv
<1> DEFINE Becomes(m) == report' = [report EXCEPT ![r] = m]
           Fine(m) ==
             /\ DOMAIN m = DOMAIN NoReport
             /\ m.at \in {"idle", "timezone", "query", "catalogue",
                         "count", "movements", "sales"}
             /\ m.at # "idle" => m.tenant \in Tenant /\ m.now \in Instant
             /\ m.at \in {"query", "catalogue"} =>
                  m.zone \in Zone /\ m.window = Boundary(m.zone, BusinessDate(m.zone, m.now))
<1>3. \E m : Becomes(m) /\ Fine(m)
  <2> USE DEF ReportAt
  <2>1. CASE Ask(r)
    <3>1. PICK tenant \in Tenant :
            Becomes([NoReport EXCEPT !.at = "timezone", !.tenant = tenant, !.now = clock,
               !.live = {o \in OrderId : OrderOf(o, tenant) /\ order[o].status # "VOID"},
               !.void = {o \in OrderId : OrderOf(o, tenant) /\ order[o].status = "VOID"}])
      BY <2>1 DEF Ask
    <3> DEFINE m == [NoReport EXCEPT !.at = "timezone", !.tenant = tenant, !.now = clock,
                 !.live = {o \in OrderId : OrderOf(o, tenant) /\ order[o].status # "VOID"},
                 !.void = {o \in OrderId : OrderOf(o, tenant) /\ order[o].status = "VOID"}]
    <3>2. /\ DOMAIN m = DOMAIN NoReport /\ m.at = "timezone" /\ m.tenant = tenant
          /\ m.now = clock
      BY DEF NoReport
    <3>3. Fine(m)
      <4> HIDE DEF m
      <4> QED
        BY <3>2 DEF ReportTypeOK
    <3> QED
      BY <3>1, <3>3
  <2>2. CASE ReadTimezone(r)
    <3> DEFINE z == timezone[report[r].tenant]
               m == [report[r] EXCEPT !.at = "query", !.zone = z,
                       !.window = Boundary(z, BusinessDate(z, report[r].now))]
    <3>1. report[r].at = "timezone" /\ Becomes(m)
      BY <2>2 DEF ReadTimezone
    <3>2. /\ DOMAIN m = DOMAIN NoReport /\ m.at = "query" /\ m.tenant = report[r].tenant
          /\ m.now = report[r].now /\ m.zone = z
          /\ m.window = Boundary(z, BusinessDate(z, report[r].now))
      BY DEF NoReport
    <3>3. z \in Zone /\ report[r].tenant \in Tenant /\ report[r].now \in Instant
      BY <3>1 DEF ReportTypeOK
    <3>4. Fine(m)
      <4> HIDE DEF m, z
      <4> QED
        BY <3>2, <3>3
    <3> QED
      BY <3>1, <3>4
  <2>3. CASE CountOrders(r) \/ ListMovements(r) \/ MergeCatalogue(r)
    <3>1. PICK kind, answer :
            /\ kind \in {"count", "movements", "sales"}
            /\ AnswerWith(r, kind, answer)
            /\ report[r].at # "idle"
      <4>1. CASE CountOrders(r)
        BY <4>1 DEF CountOrders
      <4>2. CASE ListMovements(r)
        BY <4>2 DEF ListMovements
      <4>3. CASE MergeCatalogue(r)
        BY <4>3 DEF MergeCatalogue
      <4> QED
        BY <2>3, <4>1, <4>2, <4>3
    <3> DEFINE m == [report[r] EXCEPT !.at = kind, !.answer = answer]
    <3>2. Becomes(m)
      BY <3>1 DEF AnswerWith
    <3>3. /\ DOMAIN m = DOMAIN NoReport /\ m.at = kind
          /\ m.tenant = report[r].tenant /\ m.now = report[r].now
      BY DEF NoReport
    <3>4. Fine(m)
      <4> HIDE DEF m
      <4> QED
        BY <3>1, <3>3
    <3> QED
      BY <3>2, <3>4
  <2>4. CASE SumSales(r)
    <3>1. PICK sold, kept :
            /\ report' = [report EXCEPT ![r].at = "catalogue", ![r].sold = sold, ![r].kept = kept]
            /\ report[r].at = "query"
      BY <2>4 DEF SumSales
    <3> DEFINE m == [report[r] EXCEPT !.at = "catalogue", !.sold = sold, !.kept = kept]
    <3>2. Becomes(m)
      BY <3>1
    <3>3. /\ DOMAIN m = DOMAIN NoReport /\ m.at = "catalogue"
          /\ m.tenant = report[r].tenant /\ m.now = report[r].now
          /\ m.zone = report[r].zone /\ m.window = report[r].window
      BY DEF NoReport
    <3>4. Fine(m)
      <4> HIDE DEF m
      <4> QED
        BY <3>1, <3>3
    <3> QED
      BY <3>2, <3>4
  <2>5. CASE Close(r)
    <3>1. Becomes(NoReport) /\ Fine(NoReport)
      BY <2>5 DEF Close, NoReport
    <3> QED
      BY <3>1
  <2> QED
    BY <2>1, <2>2, <2>3, <2>4, <2>5 DEF Report
<1>4. /\ Fine(report'[r])
      /\ \A s \in Reporter : s # r => report'[s] = report[s]
      /\ report' = [s \in Reporter |-> report'[s]]
  <2>1. PICK m : Becomes(m) /\ Fine(m)
    BY <1>3
  <2>2. report'[r] = m
    BY <2>1
  <2> QED
    BY <2>1, <2>2
<1> HIDE DEF Becomes
<1>5. ReportTypeOK'
  BY <1>1, <1>4 DEF ReportTypeOK, vars
<1>6. \A s \in Reporter : ReportAt(s)'
  BY <1>4 DEF ReportAt
<1> QED
  BY <1>1, <1>2, <1>4, <1>5, <1>6

LEMMA ReportInvStep == ReportInv /\ [ReportNext]_allVars => ReportInv'
<1> SUFFICES ASSUME ReportInv, [ReportNext]_allVars PROVE ReportInv'
  OBVIOUS
<1>1. CASE UNCHANGED allVars
  <2>1. Inv'
    BY <1>1, NextInv DEF allVars, ReportInv
  <2>2. ReportTypeOK'
    BY <1>1 DEF allVars, vars, ReportInv, ReportTypeOK
  <2> QED
    BY <1>1, <2>1, <2>2 DEF allVars, ReportInv, ReportAt
<1> QED
  BY <1>1, TickInv, TimezoneInv, StoreStepInv, ReportStepInv DEF ReportNext

-----------------------------------------------------------------------------

\* The invariant of the store holds under the clock and the reports, every
\* time is one the clock has shown, and every window is the one of its report.
THEOREM ReportInvHolds == ReportSpec => []ReportInv
BY ReportInitInv, ReportInvStep, PTL DEF ReportSpec

\* Every order has its time and no time is to come
\* (orders/models.py:19; products/models.py:96).
THEOREM ReportTypes == ReportSpec => []ReportTypeOK
BY ReportInvHolds, PTL DEF ReportInv

\* A report that has its window asks for the local date it was asked on.
LEMMA TodayOnly ==
  ASSUME ReportInv, NEW r \in Reporter, report[r].at \in {"query", "catalogue"},
         NEW i \in Instant
  PROVE  Within(report[r].window, i) <=>
           BusinessDate(report[r].zone, i) = BusinessDate(report[r].zone, report[r].now)
<1> DEFINE z == report[r].zone
           now == report[r].now
<1>1. /\ z \in Zone /\ now \in Instant
      /\ report[r].window = Boundary(z, BusinessDate(z, now))
  BY DEF ReportInv, ReportAt
<1>2. i \in Int /\ now \in Int
  BY <1>1, ClockAssumption
<1>3. BusinessDate(z, now) \in Int
  <2>1. now + UtcOffset(z, now) \in Int
    BY <1>1, <1>2, ZoneAssumption DEF UtcOffset
  <2> QED
    BY <2>1, DateOfWall DEF BusinessDate
<1> QED
  BY <1>1, <1>2, <1>3, WindowHoldsItsDay

\* For every zone and every clock, and whatever becomes of the timezone in
\* between, the window of a report is the day of the instant it was asked at
\* (reports/services.py:23-31; tenants/time.py:7-39).
THEOREM WindowsAreToday == ReportSpec => []WindowIsToday
<1>1. ReportInv => WindowIsToday
  BY TodayOnly DEF WindowIsToday
<1> QED
  BY <1>1, ReportInvHolds, PTL

\* A count is the number of orders of that day at the moment of its query, so
\* it misses none that was there before (reports/services.py:33-37).
THEOREM CountsBracketed == ReportSpec => CountBracketed
<1> DEFINE Bracketed(r) ==
      report[r].at = "query" /\ report'[r].at = "count" =>
        LET day == OfThatDay(report[r])
        IN  /\ report'[r].answer >= Cardinality(day \cap (report[r].live \cup report[r].void))
            /\ report'[r].answer <= Cardinality(day)
<1>1. ASSUME ReportInv, [ReportNext]_allVars, NEW r \in Reporter,
             report[r].at = "query", report'[r].at = "count"
      PROVE  CountOrders(r)
  <2> USE <1>1 DEF ReportInv
  <2>1. report' # report
    OBVIOUS
  <2>2. ASSUME NEW t \in Thread, StoreStep(t) PROVE FALSE
    BY <2>2 DEF StoreStep
  <2>3. ~Tick /\ ~UpdateTimezone /\ allVars' # allVars
    BY <2>1 DEF Tick, UpdateTimezone, allVars
  <2>4. PICK s \in Reporter : Report(s)
    BY <2>2, <2>3 DEF ReportNext
  <2>5. s = r
    BY <2>4 DEF Report, Ask, ReadTimezone, CountOrders, ListMovements, SumSales,
       MergeCatalogue, AnswerWith, Close
  <2>6. \A q \in Reporter : DOMAIN report[q] = DOMAIN NoReport
    BY DEF ReportAt
  <2>7. ~Ask(r) /\ ~ReadTimezone(r) /\ ~MergeCatalogue(r)
    BY DEF Ask, ReadTimezone, MergeCatalogue
  <2>8. ~SumSales(r) /\ ~ListMovements(r) /\ ~Close(r)
    BY <2>6 DEF SumSales, ListMovements, AnswerWith, Close, NoReport
  <2> QED
    BY <2>4, <2>5, <2>7, <2>8 DEF Report
<1>2. ASSUME ReportInv, [ReportNext]_allVars, NEW r \in Reporter
      PROVE  Bracketed(r)
  <2> USE <1>2
  <2> DEFINE day == OfThatDay(report[r])
             seen == OrdersWithin(report[r].tenant, report[r].window)
             before == day \cap (report[r].live \cup report[r].void)
  <2>1. SUFFICES ASSUME report[r].at = "query", report'[r].at = "count"
                 PROVE  report'[r].answer >= Cardinality(before)
                        /\ report'[r].answer <= Cardinality(day)
    OBVIOUS
  <2>2. CountOrders(r)
    BY <1>1, <2>1
  <2>3. report'[r].answer = Cardinality(seen)
    BY <2>2 DEF CountOrders, AnswerWith, ReportInv, ReportAt, NoReport
  <2>4. seen = day
    <3>1. \A o \in OrderId : order[o] # NoRow => created[o] \in Instant
      BY DEF ReportInv, ReportTypeOK
    <3>2. \A o \in OrderId : order[o] # NoRow =>
            (Within(report[r].window, created[o]) <=>
               BusinessDate(report[r].zone, created[o]) =
                 BusinessDate(report[r].zone, report[r].now))
      BY <2>1, <3>1, TodayOnly
    <3> QED
      BY <3>2 DEF OrdersWithin, OrderOf, OfThatDay
  <2>5. IsFiniteSet(day) /\ before \subseteq day
    <3>1. day \in SUBSET OrderId
      BY DEF OfThatDay
    <3> QED
      BY <3>1, IdAssumption, FS_Subset
  <2>6. Cardinality(before) <= Cardinality(day) /\ IsFiniteSet(before)
    BY <2>5, FS_Subset
  <2>7. Cardinality(before) \in Nat /\ Cardinality(day) \in Nat
    BY <2>5, <2>6, FS_CardinalityType
  <2> QED
    BY <2>3, <2>4, <2>6, <2>7
<1>3. ReportInv /\ [ReportNext]_allVars => [\A r \in Reporter : Bracketed(r)]_allVars
  BY <1>2
<1> QED
  BY <1>3, ReportInvHolds, PTL DEF ReportSpec, CountBracketed
-----------------------------------------------------------------------------
(* The sales.                                                              *)

\* Of the orders of the day a report is about, those that are in it for sure
\* and those that can be in it.
SureOf(r) == {o \in OfThatDay(report[r]) \cap report[r].live : order[o].status # "VOID"}
PossibleOf(r) == OfThatDay(report[r]) \ report[r].void

\* What was there when a report was asked for is still there, and what was
\* void is; once the sales are summed, they lie between the two.
SalesAt(r) ==
  /\ \A o \in report[r].live \cup report[r].void : o \in OrderId /\ order[o] # NoRow
  /\ \A o \in report[r].void : order[o].status = "VOID"
  /\ report[r].at = "catalogue" =>
       \A p \in ProductId :
         /\ report[r].sold[p] \in Nat
         /\ Units(order, p, SureOf(r)) <= report[r].sold[p]
         /\ report[r].sold[p] <= Units(order, p, PossibleOf(r))
SalesInv == \A r \in Reporter : SalesAt(r)

\* Orders contain natural numbers of a product.
LEMMA ItemsAreNumbers ==
  ASSUME Inv, NEW o \in OrderId, order[o] # NoRow, NEW p \in ProductId
  PROVE  order[o].items[p] \in Nat
BY BoundAssumption DEF Inv, TypeOK, OrderRow, Items

\* The orders of the window that count are those of the day that are not
\* void: the sum is between what is sure and what is possible.
LEMMA SumIsBetween ==
  ASSUME ReportInv, NEW r \in Reporter, SalesAt(r), report[r].at = "query",
         NEW p \in ProductId
  PROVE  LET sum == Units(order, p, SalesWithin(report[r].tenant, report[r].window))
         IN  /\ sum \in Nat
             /\ Units(order, p, SureOf(r)) <= sum
             /\ sum <= Units(order, p, PossibleOf(r))
<1> USE DEF ReportInv
<1> DEFINE summed == SalesWithin(report[r].tenant, report[r].window)
<1>1. \A o \in OrderId : order[o] # NoRow =>
        (Within(report[r].window, created[o]) <=>
           BusinessDate(report[r].zone, created[o]) =
             BusinessDate(report[r].zone, report[r].now))
  BY TodayOnly DEF ReportTypeOK
<1>2. \A o \in OrderId : order[o] # NoRow => (Counts(o) <=> order[o].status # "VOID")
  BY DEF Inv, TypeOK, OrderRow, Status, Counts
<1>3. summed = {o \in OfThatDay(report[r]) : order[o].status # "VOID"}
  BY <1>1, <1>2 DEF SalesWithin, OrdersWithin, OrderOf, OfThatDay
<1>4. SureOf(r) \subseteq summed /\ summed \subseteq PossibleOf(r)
  BY <1>3 DEF SureOf, PossibleOf, SalesAt
<1>5. IsFiniteSet(PossibleOf(r)) /\ IsFiniteSet(summed)
  BY <1>3, OrdersAreFinite DEF PossibleOf, OfThatDay
<1>6. \A o \in PossibleOf(r) : order[o].items[p] \in Nat
  BY ItemsAreNumbers DEF PossibleOf, OfThatDay
<1>7. Units(order, p, SureOf(r)) <= Units(order, p, summed)
  BY <1>4, <1>5, <1>6, UnitsGrow
<1>8. /\ Units(order, p, summed) \in Nat
      /\ Units(order, p, summed) <= Units(order, p, PossibleOf(r))
  BY <1>4, <1>5, <1>6, UnitsGrow
<1> QED
  BY <1>7, <1>8

LEMMA SalesInit == ReportInit => SalesInv
BY DEF ReportInit, SalesInv, SalesAt, NoReport

\* While the shop goes on selling the sure orders get fewer and the possible
\* ones more.
LEMMA StoreStepSales ==
  ASSUME ReportInv, SalesInv, NEW t \in Thread, StoreStep(t), NEW r \in Reporter
  PROVE  SalesAt(r)'
<1> USE DEF ReportInv
<1>1. SalesAt(r) /\ [Next]_vars
  BY DEF SalesInv, StoreStep, Next
<1>2. /\ report'[r].at = report[r].at /\ report'[r].tenant = report[r].tenant
      /\ report'[r].now = report[r].now /\ report'[r].zone = report[r].zone
      /\ report'[r].live = report[r].live /\ report'[r].void = report[r].void
      /\ report'[r].sold = report[r].sold
  BY DEF StoreStep
<1>3. \A o \in OrderId : order[o] # NoRow =>
        /\ order'[o] # NoRow /\ order'[o].tenant = order[o].tenant
        /\ order'[o].items = order[o].items
        /\ order[o].status = "VOID" => order'[o].status = "VOID"
        /\ created'[o] = created[o]
  BY <1>1, OrdersStay DEF StoreStep, NewOrders
<1>4. /\ \A o \in report'[r].live \cup report'[r].void : o \in OrderId /\ order'[o] # NoRow
      /\ \A o \in report'[r].void : order'[o].status = "VOID"
  BY <1>1, <1>2, <1>3 DEF SalesAt
<1>5. ASSUME report[r].at = "catalogue", NEW p \in ProductId
      PROVE  /\ Units(order', p, SureOf(r)') <= Units(order, p, SureOf(r))
             /\ Units(order, p, PossibleOf(r)) <= Units(order', p, PossibleOf(r)')
             /\ Units(order, p, SureOf(r)) \in Int /\ Units(order', p, SureOf(r)') \in Int
             /\ Units(order, p, PossibleOf(r)) \in Int
             /\ Units(order', p, PossibleOf(r)') \in Int
  <2>1. SureOf(r)' \subseteq SureOf(r)
    BY <1>1, <1>2, <1>3 DEF SureOf, SalesAt, OfThatDay
  <2>2. PossibleOf(r) \subseteq PossibleOf(r)'
    BY <1>1, <1>2, <1>3 DEF PossibleOf, OfThatDay
  <2>3. /\ IsFiniteSet(SureOf(r)) /\ IsFiniteSet(SureOf(r)')
        /\ IsFiniteSet(PossibleOf(r)) /\ IsFiniteSet(PossibleOf(r)')
    BY OrdersAreFinite DEF SureOf, PossibleOf, OfThatDay
  <2>4. /\ \A o \in SureOf(r) : order[o].items[p] \in Nat
        /\ \A o \in PossibleOf(r) : order[o].items[p] \in Nat
    BY ItemsAreNumbers DEF SureOf, PossibleOf, OfThatDay
  <2>5. Inv'
    BY <1>1, NextInv
  <2>6. \A o \in PossibleOf(r)' : order'[o].items[p] \in Nat
    BY <2>5, BoundAssumption DEF PossibleOf, OfThatDay, Inv, TypeOK, OrderRow, Items
  <2>7. /\ \A o \in SureOf(r)' : order'[o].items[p] = order[o].items[p]
        /\ \A o \in PossibleOf(r) : order'[o].items[p] = order[o].items[p]
    BY <1>3, <2>1 DEF SureOf, PossibleOf, OfThatDay
  <2>8. /\ Units(order', p, SureOf(r)') = Units(order, p, SureOf(r)')
        /\ Units(order', p, PossibleOf(r)) = Units(order, p, PossibleOf(r))
    BY <2>3, <2>7, UnitsSame
  <2>9. /\ Units(order, p, SureOf(r)') <= Units(order, p, SureOf(r))
        /\ Units(order, p, SureOf(r)') \in Nat /\ Units(order, p, SureOf(r)) \in Nat
    BY <2>1, <2>3, <2>4, UnitsGrow
  <2>10. /\ Units(order', p, PossibleOf(r)) <= Units(order', p, PossibleOf(r)')
         /\ Units(order', p, PossibleOf(r)) \in Nat /\ Units(order', p, PossibleOf(r)') \in Nat
    BY <2>2, <2>3, <2>6, UnitsGrow
  <2> QED
    BY <2>8, <2>9, <2>10
<1>6. ASSUME report'[r].at = "catalogue", NEW p \in ProductId
      PROVE  /\ report'[r].sold[p] \in Nat
             /\ Units(order', p, SureOf(r)') <= report'[r].sold[p]
             /\ report'[r].sold[p] <= Units(order', p, PossibleOf(r)')
  <2>1. /\ report[r].sold[p] \in Nat
        /\ Units(order, p, SureOf(r)) <= report[r].sold[p]
        /\ report[r].sold[p] <= Units(order, p, PossibleOf(r))
    BY <1>1, <1>2, <1>6 DEF SalesAt
  <2> QED
    BY <1>2, <1>5, <1>6, <2>1
<1> QED
  BY <1>4, <1>6 DEF SalesAt

\* A report that goes on has its sum from SumSales.
LEMMA ReportStepSales ==
  ASSUME ReportInv, SalesInv, NEW s \in Reporter, Report(s), NEW r \in Reporter
  PROVE  SalesAt(r)'
<1> USE DEF ReportInv
<1>1. SalesAt(r) /\ UNCHANGED <<order, created>>
  BY DEF SalesInv, Report, storeVars, vars
<1>2. CASE report'[r] = report[r]
  BY <1>1, <1>2 DEF SalesAt, SureOf, PossibleOf, OfThatDay
<1>3. CASE report'[r] # report[r]
  <2>1. s = r
    BY <1>3 DEF Report, Ask, ReadTimezone, CountOrders, ListMovements, SumSales,
       MergeCatalogue, AnswerWith, Close
  <2>2. DOMAIN report[r] = DOMAIN NoReport
    BY DEF ReportAt
  <2>3. CASE Ask(r)
    <3>1. PICK tenant \in Tenant :
            report' = [report EXCEPT ![r] =
              [NoReport EXCEPT !.at = "timezone", !.tenant = tenant, !.now = clock,
                 !.live = {o \in OrderId : OrderOf(o, tenant) /\ order[o].status # "VOID"},
                 !.void = {o \in OrderId : OrderOf(o, tenant) /\ order[o].status = "VOID"}]]
      BY <2>3 DEF Ask
    <3> DEFINE live == {o \in OrderId : OrderOf(o, tenant) /\ order[o].status # "VOID"}
               void == {o \in OrderId : OrderOf(o, tenant) /\ order[o].status = "VOID"}
               m == [NoReport EXCEPT !.at = "timezone", !.tenant = tenant, !.now = clock,
                       !.live = live, !.void = void]
    <3>2. m.at = "timezone" /\ m.live = live /\ m.void = void
      BY DEF NoReport
    <3>3. report'[r] = m
      BY <3>1
    <3>4. /\ \A o \in live \cup void : o \in OrderId /\ order[o] # NoRow
          /\ \A o \in void : order[o].status = "VOID"
      BY DEF OrderOf
    <3> HIDE DEF m, live, void
    <3> QED
      BY <1>1, <3>2, <3>3, <3>4 DEF SalesAt
  <2>4. CASE Close(r)
    BY <2>4 DEF Close, SalesAt, NoReport
  <2>5. CASE SumSales(r)
    <3>1. /\ report'[r].at = "catalogue" /\ report'[r].tenant = report[r].tenant
          /\ report'[r].now = report[r].now /\ report'[r].zone = report[r].zone
          /\ report'[r].live = report[r].live /\ report'[r].void = report[r].void
          /\ report'[r].sold = [p \in ProductId |->
               Units(order, p, SalesWithin(report[r].tenant, report[r].window))]
      BY <2>2, <2>5 DEF SumSales, NoReport
    <3>2. SureOf(r)' = SureOf(r) /\ PossibleOf(r)' = PossibleOf(r)
      BY <1>1, <3>1 DEF SureOf, PossibleOf, OfThatDay
    <3>3. report[r].at = "query"
      BY <2>5 DEF SumSales
    <3>4. \A p \in ProductId :
            /\ report'[r].sold[p] \in Nat
            /\ Units(order, p, SureOf(r)) <= report'[r].sold[p]
            /\ report'[r].sold[p] <= Units(order, p, PossibleOf(r))
      BY <1>1, <3>1, <3>3, SumIsBetween
    <3> QED
      BY <1>1, <3>1, <3>2, <3>4 DEF SalesAt
  <2>6. CASE ReadTimezone(r) \/ CountOrders(r) \/ ListMovements(r) \/ MergeCatalogue(r)
    <3>1. /\ report'[r].at # "catalogue"
          /\ report'[r].live = report[r].live /\ report'[r].void = report[r].void
      BY <2>2, <2>6 DEF ReadTimezone, CountOrders, ListMovements, MergeCatalogue, AnswerWith,
         NoReport
    <3> QED
      BY <1>1, <3>1 DEF SalesAt
  <2> QED
    BY <2>1, <2>3, <2>4, <2>5, <2>6 DEF Report
<1> QED
  BY <1>2, <1>3

LEMMA SalesStep == ReportInv /\ SalesInv /\ [ReportNext]_allVars => SalesInv'
<1> SUFFICES ASSUME ReportInv, SalesInv, [ReportNext]_allVars, NEW r \in Reporter
             PROVE  SalesAt(r)'
  BY DEF SalesInv
<1>1. CASE UNCHANGED <<order, created, report>>
  BY <1>1 DEF SalesInv, SalesAt, SureOf, PossibleOf, OfThatDay
<1>2. UNCHANGED allVars \/ Tick \/ UpdateTimezone => UNCHANGED <<order, created, report>>
  BY DEF allVars, Tick, UpdateTimezone, storeVars, vars
<1> QED
  BY <1>1, <1>2, StoreStepSales, ReportStepSales DEF ReportNext

\* A report of the day's sales misses no sale that was there before it was
\* asked for and still stands, and invents none, though it reads the shop in
\* two statements while the shop goes on selling
\* (reports/services.py:56-72, 110).
THEOREM SalesStayBracketed == ReportSpec => SalesBracketed
<1> DEFINE Bracketed(r) ==
      report[r].at = "catalogue" /\ report'[r].at = "sales" =>
        LET day == OfThatDay(report[r])
            answer == report'[r].answer
        IN  \A p \in ProductId :
              LET units == IF p \in DOMAIN answer THEN answer[p] ELSE 0
              IN  /\ units >= Units(order, p,
                                    {o \in day \cap report[r].live : order[o].status # "VOID"})
                  /\ units <= Units(order, p, day \ report[r].void)
<1>1. ASSUME ReportInv, [ReportNext]_allVars, NEW r \in Reporter,
             report[r].at = "catalogue", report'[r].at = "sales"
      PROVE  MergeCatalogue(r)
  <2> USE <1>1 DEF ReportInv
  <2>1. ~Tick /\ ~UpdateTimezone /\ allVars' # allVars
    BY DEF Tick, UpdateTimezone, allVars
  <2>2. ASSUME NEW t \in Thread, StoreStep(t) PROVE FALSE
    BY <2>2 DEF StoreStep
  <2>3. PICK s \in Reporter : Report(s)
    BY <2>1, <2>2 DEF ReportNext
  <2>4. s = r
    BY <2>3 DEF Report, Ask, ReadTimezone, CountOrders, ListMovements, SumSales,
       MergeCatalogue, AnswerWith, Close
  <2>5. ~Close(r)
    BY DEF Close, NoReport
  <2> QED
    BY <2>3, <2>4, <2>5
       DEF Report, Ask, ReadTimezone, CountOrders, ListMovements, SumSales
<1>2. ASSUME ReportInv, SalesInv, [ReportNext]_allVars, NEW r \in Reporter
      PROVE  Bracketed(r)
  <2> USE <1>2
  <2> DEFINE answer == report'[r].answer
  <2>1. SUFFICES ASSUME report[r].at = "catalogue", report'[r].at = "sales", NEW p \in ProductId
                 PROVE  LET units == IF p \in DOMAIN answer THEN answer[p] ELSE 0
                        IN  /\ units >= Units(order, p, SureOf(r))
                            /\ units <= Units(order, p, PossibleOf(r))
    BY DEF SureOf, PossibleOf
  <2>2. answer = [q \in Listed(r) |-> report[r].sold[q]]
    <3>1. AnswerWith(r, "sales", [q \in Listed(r) |-> report[r].sold[q]])
      BY <1>1, <2>1 DEF MergeCatalogue
    <3>2. DOMAIN report = Reporter /\ DOMAIN report[r] = DOMAIN NoReport
      BY DEF ReportInv, ReportAt
    <3>3. "answer" \in DOMAIN report[r]
      BY <3>2 DEF NoReport
    <3> QED
      BY <3>1, <3>2, <3>3 DEF AnswerWith
  <2>3. /\ report[r].sold[p] \in Nat
        /\ Units(order, p, SureOf(r)) <= report[r].sold[p]
        /\ report[r].sold[p] <= Units(order, p, PossibleOf(r))
    BY <2>1 DEF SalesInv, SalesAt
  <2>4. p \notin Listed(r) => report[r].sold[p] = 0
    BY <2>3 DEF Listed
  <2>5. (IF p \in DOMAIN answer THEN answer[p] ELSE 0) = report[r].sold[p]
    BY <2>2, <2>4
  <2>6. Units(order, p, SureOf(r)) \in Int /\ Units(order, p, PossibleOf(r)) \in Int
    <3>1. /\ \A o \in SureOf(r) \cup PossibleOf(r) : order[o].items[p] \in Nat
          /\ IsFiniteSet(SureOf(r)) /\ IsFiniteSet(PossibleOf(r))
      BY ItemsAreNumbers, OrdersAreFinite DEF SureOf, PossibleOf, OfThatDay, ReportInv
    <3> QED
      BY <3>1, UnitsGrow
  <2> QED
    BY <2>3, <2>5, <2>6
<1>3. ReportInv /\ SalesInv /\ [ReportNext]_allVars => [\A r \in Reporter : Bracketed(r)]_allVars
  BY <1>2
<1>4. ReportSpec => []SalesInv
  <2>1. ReportInit => SalesInv
    BY SalesInit
  <2>2. ReportInv /\ SalesInv /\ [ReportNext]_allVars => SalesInv'
    BY SalesStep
  <2> QED
    BY <2>1, <2>2, ReportInvHolds, PTL DEF ReportSpec
<1> QED
  BY <1>3, <1>4, ReportInvHolds, PTL DEF ReportSpec, SalesBracketed
=============================================================================

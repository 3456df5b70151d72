---------------------------- MODULE StoreLedger -----------------------------
(***************************************************************************)
(* The books of the store: the stock of every product agrees with its      *)
(* StockMovement rows, and what the voids brought back is what the void    *)
(* orders contain.  The second is about a sum over orders, so the module   *)
(* begins with what a sum over a finite set does when the set grows.       *)
(***************************************************************************)
EXTENDS StoreSafety, FiniteSetTheorems, WellFoundedInduction

-----------------------------------------------------------------------------
(* Sums over orders.                                                       *)

\* One step of the recursion MapThenSumSet makes over the subsets of a set,
\* and a function that solves it.
Summed(h, table, p, s) ==
  IF s = {} THEN 0
  ELSE LET x == CHOOSE x \in s : TRUE IN table[x].items[p] + h[s \ {x}]
IsSum(h, table, p, S) == h = [s \in SUBSET S |-> Summed(h, table, p, s)]

\* Of some subsets of a finite set one has no other in it.
LEMMA MinimalSubset ==
  ASSUME NEW S, IsFiniteSet(S), NEW Bad \in SUBSET (SUBSET S), Bad # {}
  PROVE  \E u \in Bad : \A v \in Bad : v \subseteq u => v = u
<1> DEFINE R == StrictSubsetOrdering(S)
<1>1. IsWellFoundedOn(R, SUBSET S)
  BY FS_StrictSubsetOrderingWellFounded, FS_FiniteSubsetsOfFinite
<1>2. PICK u \in Bad : \A v \in Bad : ~(<<v, u>> \in R)
  BY <1>1, WFMin
<1> QED
  BY <1>2 DEF StrictSubsetOrdering

\* The smallest of some numbers up to a bound.
LEMMA LeastNumber ==
  ASSUME NEW N \in Nat, NEW Bad \in SUBSET (0..N), Bad # {}
  PROVE  \E n \in Bad : \A m \in Bad : n <= m
<1> DEFINE Numbers == 0..N
           Sets == {0..n : n \in Bad}
<1>1. IsFiniteSet(Numbers)
  BY FS_Interval
<1>2. Sets \in SUBSET (SUBSET Numbers) /\ Sets # {}
  <2>1. \A n \in Bad : 0..n \in SUBSET Numbers
    OBVIOUS
  <2>2. \A s \in Sets : s \in SUBSET Numbers
    BY <2>1
  <2>3. Sets # {}
    OBVIOUS
  <2> HIDE DEF Sets
  <2> QED
    BY <2>2, <2>3
<1>3. PICK u \in Sets : \A v \in Sets : v \subseteq u => v = u
  <2> HIDE DEF Numbers, Sets
  <2> QED
    BY <1>1, <1>2, MinimalSubset
<1>4. PICK n \in Bad : u = 0..n
  BY <1>3
<1>5. ASSUME NEW m \in Bad, m < n PROVE FALSE
  <2>1. 0..m \in Sets /\ 0..m \subseteq u /\ n \in u /\ n \notin 0..m
    BY <1>4, <1>5
  <2> QED
    BY <1>3, <2>1
<1> QED
  BY <1>5

\* The recursion of a sum over a finite set has a solution: one that is right
\* for the sets of up to n elements can be made right for n + 1.
LEMMA SumExists ==
  ASSUME NEW table, NEW p, NEW S, IsFiniteSet(S)
  PROVE  \E h : IsSum(h, table, p, S)
<1> DEFINE N == Cardinality(S)
           Small(h, n) == [s \in SUBSET S |->
              IF Cardinality(s) <= n THEN Summed(h, table, p, s) ELSE 0]
           Solved(n) == \E h : h = Small(h, n)
           Bad == {n \in 0..N : ~Solved(n)}
<1>1. N \in Nat /\ \A s \in SUBSET S : Cardinality(s) \in Nat /\ Cardinality(s) <= N
  BY FS_CardinalityType, FS_Subset
<1>2. Solved(0)
  <2> DEFINE h == [s \in SUBSET S |-> 0]
  <2>1. \A s \in SUBSET S : Cardinality(s) <= 0 => s = {}
    BY <1>1, FS_EmptySet, FS_Subset
  <2>2. h = Small(h, 0)
    BY <2>1 DEF Summed
  <2> QED
    BY <2>2
<1>3. ASSUME NEW n \in Nat, Solved(n) PROVE Solved(n + 1)
  <2>1. PICK h : h = Small(h, n)
    BY <1>3
  <2> DEFINE k == Small(h, n + 1)
  <2>2. ASSUME NEW s \in SUBSET S, Cardinality(s) <= n + 1
        PROVE  Summed(h, table, p, s) = Summed(k, table, p, s)
    <3>1. CASE s = {}
      BY <3>1 DEF Summed
    <3>2. CASE s # {}
      <4> DEFINE x == CHOOSE x \in s : TRUE
      <4>1. x \in s /\ s \ {x} \in SUBSET S
        BY <3>2
      <4>2. Cardinality(s \ {x}) <= n
        <5>1. IsFiniteSet(s) /\ Cardinality(s) \in Nat
          BY <1>1, FS_Subset
        <5>2. Cardinality(s \ {x}) = Cardinality(s) - 1
          BY <4>1, <5>1, FS_RemoveElement
        <5> QED
          BY <2>2, <5>1, <5>2
      <4>3. h[s \ {x}] = Summed(h, table, p, s \ {x})
        BY <2>1, <4>1, <4>2
      <4>4. k[s \ {x}] = Summed(h, table, p, s \ {x})
        BY <1>1, <4>1, <4>2
      <4> QED
        BY <3>2, <4>3, <4>4 DEF Summed
    <3> QED
      BY <3>1, <3>2
  <2>3. k = Small(k, n + 1)
    BY <2>2
  <2> QED
    BY <2>3
<1>4. Bad = {}
  <2> SUFFICES ASSUME Bad # {} PROVE FALSE
    OBVIOUS
  <2>1. Bad \in SUBSET (0..N)
    OBVIOUS
  <2>2. PICK n \in Bad : \A m \in Bad : n <= m
    <3> HIDE DEF Bad
    <3> QED
      BY <1>1, <2>1, LeastNumber
  <2> HIDE DEF Solved
  <2>3. n # 0 /\ n - 1 \in 0..N /\ n - 1 \notin Bad
    BY <1>1, <1>2, <2>2
  <2> QED
    BY <1>1, <1>3, <2>2, <2>3
<1>5. PICK h : h = Small(h, N)
  <2>1. Solved(N)
    <3> HIDE DEF Solved
    <3> QED
      BY <1>1, <1>4
  <2> QED
    BY <2>1
<1>6. IsSum(h, table, p, S)
  BY <1>1, <1>5 DEF IsSum
<1> QED
  BY <1>6

\* Units is a solution of its recursion, at the whole set.
LEMMA UnitsIsSum ==
  ASSUME NEW table, NEW p, NEW S, IsFiniteSet(S)
  PROVE  \E h : IsSum(h, table, p, S) /\ Units(table, p, S) = h[S]
<1> DEFINE F(h) == [s \in SUBSET S |-> Summed(h, table, p, s)]
           it == CHOOSE h : h = F(h)
<1>1. Units(table, p, S) = it[S]
  BY DEF Units, MapThenSumSet, MapThenFoldSet, Summed
<1>2. PICK h : IsSum(h, table, p, S)
  BY SumExists
<1>3. it = F(it)
  <2>1. h = F(h)
    BY <1>2 DEF IsSum
  <2> HIDE DEF F
  <2> QED
    BY <2>1
<1> QED
  BY <1>1, <1>3 DEF IsSum

\* Two sums agree where both are defined and add up the same.
LEMMA SumsAgree ==
  ASSUME NEW table, NEW other, NEW p, NEW S, IsFiniteSet(S), NEW T, NEW h, NEW k,
         IsSum(h, table, p, S), IsSum(k, other, p, T),
         \A o \in S \cap T : table[o].items[p] = other[o].items[p],
         NEW u \in SUBSET (S \cap T)
  PROVE  h[u] = k[u]
<1> DEFINE Bad == {v \in SUBSET (S \cap T) : h[v] # k[v]}
<1>1. SUFFICES ASSUME Bad # {} PROVE FALSE
  OBVIOUS
<1>2. PICK v \in Bad : \A w \in Bad : w \subseteq v => w = v
  <2>1. Bad \in SUBSET (SUBSET S)
    OBVIOUS
  <2> HIDE DEF Bad
  <2> QED
    BY <1>1, <2>1, MinimalSubset
<1>3. h[v] = Summed(h, table, p, v) /\ k[v] = Summed(k, other, p, v)
  BY DEF IsSum
<1>4. v # {}
  BY <1>3 DEF Summed
<1> DEFINE x == CHOOSE x \in v : TRUE
<1>5. x \in v /\ v \ {x} \notin Bad
  BY <1>2, <1>4
<1> QED
  BY <1>3, <1>4, <1>5 DEF Summed

\* The order in which a sum takes its elements does not matter.
LEMMA SumTakesAny ==
  ASSUME NEW table, NEW p, NEW S, IsFiniteSet(S), NEW h, IsSum(h, table, p, S),
         \A o \in S : table[o].items[p] \in Nat,
         NEW u \in SUBSET S
  PROVE  h[u] \in Nat /\ \A x \in u : h[u] = table[x].items[p] + h[u \ {x}]
<1> DEFINE f(o) == table[o].items[p]
           Good(v) == h[v] \in Nat /\ \A x \in v : h[v] = f(x) + h[v \ {x}]
           Bad == {v \in SUBSET S : ~Good(v)}
<1>1. SUFFICES ASSUME Bad # {} PROVE FALSE
  OBVIOUS
<1>2. PICK v \in Bad : \A w \in Bad : w \subseteq v => w = v
  <2>1. Bad \in SUBSET (SUBSET S)
    OBVIOUS
  <2> HIDE DEF Bad
  <2> QED
    BY <1>1, <2>1, MinimalSubset
<1>3. h[v] = Summed(h, table, p, v)
  BY DEF IsSum
<1>4. v # {}
  BY <1>3 DEF Summed
<1> DEFINE c == CHOOSE x \in v : TRUE
<1>5. /\ c \in v /\ f(c) \in Nat
      /\ h[v] = f(c) + h[v \ {c}]
  BY <1>3, <1>4 DEF Summed
<1>6. ASSUME NEW x \in v PROVE Good(v \ {x})
  BY <1>2, <1>6
<1>7. h[v] \in Nat
  <2>1. h[v \ {c}] \in Nat
    BY <1>5, <1>6
  <2> HIDE DEF f, c
  <2> QED
    BY <1>5, <2>1
<1>8. ASSUME NEW x \in v, x # c PROVE h[v] = f(x) + h[v \ {x}]
  <2> DEFINE rest == (v \ {x}) \ {c}
  <2>1. /\ h[v \ {c}] = f(x) + h[(v \ {c}) \ {x}]
        /\ h[v \ {x}] = f(c) + h[rest]
    BY <1>5, <1>6, <1>8
  <2>2. (v \ {c}) \ {x} = rest
    OBVIOUS
  <2>3. f(x) \in Nat /\ h[v \ {x}] \in Nat
    BY <1>6, <1>8
  <2>4. Good(rest)
    BY <1>2, <1>5, <1>8
  <2>5. h[rest] \in Nat /\ h[v \ {c}] = f(x) + h[rest]
    BY <2>1, <2>2, <2>4
  <2> HIDE DEF f, c, rest
  <2> QED
    BY <1>5, <2>1, <2>3, <2>5
<1> QED
  BY <1>5, <1>7, <1>8


\* No orders contain nothing.
LEMMA UnitsOfNone ==
  ASSUME NEW table, NEW p
  PROVE  Units(table, p, {}) = 0
<1>1. PICK h : IsSum(h, table, p, {}) /\ Units(table, p, {}) = h[{}]
  BY UnitsIsSum, FS_EmptySet
<1> QED
  BY <1>1 DEF IsSum, Summed

\* One more order contains what it contains more.
LEMMA UnitsAdd ==
  ASSUME NEW table, NEW p, NEW S, IsFiniteSet(S), NEW o, o \notin S,
         \A n \in S \cup {o} : table[n].items[p] \in Nat
  PROVE  Units(table, p, S \cup {o}) = Units(table, p, S) + table[o].items[p]
<1> DEFINE T == S \cup {o}
<1>1. IsFiniteSet(T)
  BY FS_AddElement
<1>2. PICK h : IsSum(h, table, p, S) /\ Units(table, p, S) = h[S]
  BY UnitsIsSum
<1>3. PICK k : IsSum(k, table, p, T) /\ Units(table, p, T) = k[T]
  BY <1>1, UnitsIsSum
<1>4. h[S] = k[S]
  BY <1>2, <1>3, SumsAgree
<1>5. k[T] = table[o].items[p] + k[T \ {o}] /\ k[S] \in Nat
  <2>1. /\ \A n \in T : table[n].items[p] \in Nat
        /\ S \in SUBSET T /\ T \in SUBSET T /\ o \in T
    OBVIOUS
  <2> HIDE DEF T
  <2> QED
    BY <1>1, <1>3, <2>1, SumTakesAny
<1>6. T \ {o} = S
  OBVIOUS
<1>7. table[o].items[p] \in Nat
  OBVIOUS
<1>8. k[T] = table[o].items[p] + k[S] /\ k[S] \in Nat
  BY <1>5, <1>6
<1> SUFFICES Units(table, p, T) = Units(table, p, S) + table[o].items[p]
  OBVIOUS
<1> HIDE DEF T
<1> QED
  BY <1>2, <1>3, <1>4, <1>7, <1>8

\* Only the items of the orders themselves count.
LEMMA UnitsSame ==
  ASSUME NEW table, NEW other, NEW p, NEW S, IsFiniteSet(S),
         \A o \in S : table[o].items[p] = other[o].items[p]
  PROVE  Units(table, p, S) = Units(other, p, S)
<1>1. PICK h : IsSum(h, table, p, S) /\ Units(table, p, S) = h[S]
  BY UnitsIsSum
<1>2. PICK k : IsSum(k, other, p, S) /\ Units(other, p, S) = k[S]
  BY UnitsIsSum
<1> QED
  BY <1>1, <1>2, SumsAgree

\* Units are counted in natural numbers, and more orders contain no less.
LEMMA UnitsGrow ==
  ASSUME NEW table, NEW p, NEW T, IsFiniteSet(T), NEW S \in SUBSET T,
         \A o \in T : table[o].items[p] \in Nat
  PROVE  /\ Units(table, p, S) \in Nat /\ Units(table, p, T) \in Nat
         /\ Units(table, p, S) <= Units(table, p, T)
<1>1. IsFiniteSet(S)
  BY FS_Subset
<1>2. PICK h : IsSum(h, table, p, S) /\ Units(table, p, S) = h[S]
  BY <1>1, UnitsIsSum
<1>3. PICK k : IsSum(k, table, p, T) /\ Units(table, p, T) = k[T]
  BY UnitsIsSum
<1>4. h[S] = k[S]
  BY <1>1, <1>2, <1>3, SumsAgree
<1>5. ASSUME NEW u \in SUBSET T
      PROVE  k[u] \in Nat /\ \A x \in u : k[u] = table[x].items[p] + k[u \ {x}]
  <2>1. IsSum(k, table, p, T)
    BY <1>3
  <2> QED
    BY <2>1, SumTakesAny
<1> DEFINE Bad == {u \in SUBSET T : \E v \in SUBSET u : ~(k[v] <= k[u])}
<1>6. Bad = {}
  <2> SUFFICES ASSUME Bad # {} PROVE FALSE
    OBVIOUS
  <2>1. PICK u \in Bad : \A w \in Bad : w \subseteq u => w = u
    <3>1. Bad \in SUBSET (SUBSET T)
      OBVIOUS
    <3> HIDE DEF Bad
    <3> QED
      BY <3>1, MinimalSubset
  <2>2. PICK v \in SUBSET u : ~(k[v] <= k[u])
    BY <2>1
  <2>3. PICK x \in u : x \notin v
    <3>1. k[u] \in Nat
      BY <1>5, <2>1
    <3>2. v # u
      BY <2>2, <3>1
    <3> QED
      BY <2>2, <3>2
  <2>4. k[v] <= k[u \ {x}]
    BY <2>1, <2>2, <2>3
  <2>5. /\ k[u] = table[x].items[p] + k[u \ {x}]
        /\ table[x].items[p] \in Nat /\ k[u \ {x}] \in Nat /\ k[v] \in Nat
    BY <1>5, <2>2, <2>3
  <2> QED
    BY <2>2, <2>4, <2>5
<1>7. k[S] <= k[T]
  BY <1>6
<1> QED
  BY <1>2, <1>3, <1>4, <1>5, <1>7
-----------------------------------------------------------------------------
(* The ledger.                                                             *)

\* One product: balanced when it exists, nothing journalled before it does.
BalancedAt(p) ==
  IF product[p] = NoRow
    THEN movement[p]["ADD"] = 0 /\ movement[p]["DEDUCT"] = 0
    ELSE product[p].stock + movement[p]["DEDUCT"] = opening[p] + movement[p]["ADD"]
Balanced == \A p \in ProductId : BalancedAt(p)

LEMMA BalancedInit == Init => Balanced
BY CatalogueAssumption DEF Init, Balanced, BalancedAt, Tally, ProductRow

LEMMA BalancedStep ==
  ASSUME Inv, Balanced, NEW t \in Thread, Writes(t), NEW p \in ProductId
  PROVE  BalancedAt(p)'
<1>1. /\ BalancedAt(p)
      /\ product[p] \in ProductRow \cup {NoRow}
      /\ movement[p] \in [Tally -> Nat]
      /\ opening[p] \in Nat
  BY BoundAssumption DEF Balanced, Inv, TypeOK
<1>2. movement[p]["ADD"] \in Nat /\ movement[p]["DEDUCT"] \in Nat
  BY <1>1 DEF Tally
<1>3. product[p] # NoRow => product[p].stock \in Nat
  BY <1>1, BoundAssumption DEF ProductRow
<1>4. CASE PlaceOrder(t)
  <2> DEFINE n == req[t].items[p]
  <2>1. opening' = opening
    BY <1>4 DEF PlaceOrder
  <2>2. CASE n > 0
    <3>1. /\ n \in Nat /\ product[p] # NoRow
          /\ product[p].stock - n \in 0..MaxInt
          /\ product'[p] = [product[p] EXCEPT !.stock = product[p].stock - n]
          /\ movement'[p] = Journal(movement[p], "DEDUCT", "SALE", n)
      BY <1>4, <2>2, PlaceOrderEffect
    <3>2. product'[p] # NoRow /\ product'[p].stock = product[p].stock - n
      BY <1>1, <3>1, NullAssumption DEF ProductRow
    <3>3. movement'[p]["ADD"] = movement[p]["ADD"]
          /\ movement'[p]["DEDUCT"] = movement[p]["DEDUCT"] + n
      BY <3>1, JournalEffect DEF Action, ReasonChoices
    <3> QED
      BY <1>1, <1>2, <1>3, <2>1, <3>1, <3>2, <3>3 DEF BalancedAt
  <2>3. CASE ~(n > 0)
    BY <1>1, <1>4, <2>1, <2>3, PlaceOrderEffect DEF BalancedAt
  <2> QED
    BY <2>2, <2>3
<1>5. CASE VoidOrder(t)
  <2> DEFINE n == orow[t].items[p]
  <2>1. opening' = opening
    BY <1>5 DEF VoidOrder
  <2>2. CASE n > 0
    <3>1. /\ n \in Nat /\ product[p] # NoRow
          /\ product[p].stock + n \in 0..MaxInt
          /\ product'[p] = [product[p] EXCEPT !.stock = product[p].stock + n]
          /\ movement'[p] = Journal(movement[p], "ADD", "ORDER_VOID", n)
      BY <1>5, <2>2, VoidOrderEffect
    <3>2. product'[p] # NoRow /\ product'[p].stock = product[p].stock + n
      BY <1>1, <3>1, NullAssumption DEF ProductRow
    <3>3. movement'[p]["ADD"] = movement[p]["ADD"] + n
          /\ movement'[p]["DEDUCT"] = movement[p]["DEDUCT"]
      BY <3>1, JournalEffect DEF Action, ReasonChoices
    <3> QED
      BY <1>1, <1>2, <1>3, <2>1, <3>1, <3>2, <3>3 DEF BalancedAt
  <2>3. CASE ~(n > 0)
    BY <1>1, <1>5, <2>1, <2>3, VoidOrderEffect DEF BalancedAt
  <2> QED
    BY <2>2, <2>3
<1>6. CASE SaveStock(t)
  <2> DEFINE old == product[req[t].product].stock
             new == NewStock(req[t], old)
  <2>1. /\ req[t].product \in ProductId
        /\ product[req[t].product] = Held(t)
        /\ product[req[t].product] \in ProductRow
    BY <1>6, HeldRow
  <2>2. /\ new \in 0..MaxInt
        /\ product' = [product EXCEPT ![req[t].product] =
                         [product[req[t].product] EXCEPT !.stock = new]]
        /\ movement' = [movement EXCEPT ![req[t].product] =
             IF new > old THEN Journal(@, "ADD", req[t].reason, new - old)
                          ELSE Journal(@, "DEDUCT", req[t].reason, old - new)]
        /\ opening' = opening
    BY <1>6, <2>1 DEF SaveStock, SetProduct
  <2>3. req[t].reason \in ReasonChoices
    BY <1>6, RequestKinds, OpAssumption DEF SaveStock, Locked, Inv, ControlOK, ControlAt, AdjustRequest
  <2>4. CASE p # req[t].product
    BY <1>1, <2>1, <2>2, <2>4 DEF BalancedAt, Inv, TypeOK
  <2>5. CASE p = req[t].product
    <3>1. old \in Nat /\ new \in Int
      BY <1>3, <2>1, <2>2, <2>5, NullAssumption
    <3> HIDE DEF new, old
    <3>2. /\ product'[p] = [product[p] EXCEPT !.stock = new]
          /\ movement'[p] = IF new > old
                             THEN Journal(movement[p], "ADD", req[t].reason, new - old)
                             ELSE Journal(movement[p], "DEDUCT", req[t].reason, old - new)
      BY <2>1, <2>2, <2>5 DEF Inv, TypeOK
    <3>3. product'[p] # NoRow /\ product'[p].stock = new
      BY <2>1, <2>2, <2>5, <3>2, NullAssumption DEF ProductRow
    <3>4. /\ old = product[p].stock
          /\ product[p].stock + movement[p]["DEDUCT"] = opening[p] + movement[p]["ADD"]
          /\ opening'[p] = opening[p] /\ opening[p] \in Nat
      BY <1>1, <2>1, <2>2, <2>5, NullAssumption DEF BalancedAt, old
    <3>5. CASE new > old
      <4>1. movement'[p]["ADD"] = movement[p]["ADD"] + (new - old)
            /\ movement'[p]["DEDUCT"] = movement[p]["DEDUCT"]
        BY <2>3, <3>2, <3>5, JournalEffect DEF Action
      <4> QED
        BY <1>2, <3>1, <3>3, <3>4, <4>1 DEF BalancedAt
    <3>6. CASE ~(new > old)
      <4>1. movement'[p]["ADD"] = movement[p]["ADD"]
            /\ movement'[p]["DEDUCT"] = movement[p]["DEDUCT"] + (old - new)
        BY <2>3, <3>2, <3>6, JournalEffect DEF Action
      <4> QED
        BY <1>2, <3>1, <3>3, <3>4, <4>1 DEF BalancedAt
    <3> QED
      BY <3>5, <3>6
  <2> QED
    BY <2>4, <2>5
<1>7. CASE PayOrder(t)
  BY <1>1, <1>7 DEF PayOrder, BalancedAt
<1>8. CASE Archive(t) \/ Restore(t)
  <2>1. /\ req[t].product \in ProductId
        /\ product[req[t].product] \in ProductRow
    BY <1>8, HeldRow
  <2>2. PICK flag \in BOOLEAN :
          product' = [product EXCEPT ![req[t].product] =
                       [product[req[t].product] EXCEPT !.is_archived = flag]]
    BY <1>8 DEF Archive, Restore, SetProduct
  <2>3. UNCHANGED <<movement, opening>>
    BY <1>8 DEF Archive, Restore
  <2>4. product[p] # NoRow => product'[p] # NoRow /\ product'[p].stock = product[p].stock
    BY <1>1, <2>1, <2>2, NullAssumption DEF ProductRow, Inv, TypeOK
  <2>5. product[p] = NoRow => product'[p] = NoRow
    BY <2>1, <2>2, NullAssumption DEF Inv, TypeOK
  <2> QED
    BY <1>1, <2>3, <2>4, <2>5 DEF BalancedAt
<1>9. CASE InsertProduct(t)
  <2>1. PICK q \in ProductId :
          /\ product[q] = NoRow
          /\ product' = [product EXCEPT ![q] =
               [tenant |-> req[t].tenant, name |-> req[t].name, price |-> req[t].price,
                stock |-> req[t].stock, is_archived |-> FALSE]]
          /\ opening' = [opening EXCEPT ![q] = req[t].stock]
    BY <1>9 DEF InsertProduct, IsFree
  <2>2. movement' = movement
    BY <1>9 DEF InsertProduct
  <2>3. CASE p = q
    <3>1. req[t].stock \in Nat
      BY <1>9, BoundAssumption DEF InsertProduct, Inv, ControlOK, ControlAt, CreateRequest
    <3>2. product'[p].stock = req[t].stock /\ opening'[p] = req[t].stock
      BY <2>1, <2>3 DEF Inv, TypeOK
    <3>3. movement[p]["ADD"] = 0 /\ movement[p]["DEDUCT"] = 0
      BY <1>1, <2>1, <2>3 DEF BalancedAt
    <3> QED
      BY <2>2, <3>1, <3>2, <3>3 DEF BalancedAt
  <2>4. CASE p # q
    BY <1>1, <2>1, <2>2, <2>4 DEF BalancedAt, Inv, TypeOK
  <2> QED
    BY <2>3, <2>4
<1> QED
  BY <1>4, <1>5, <1>6, <1>7, <1>8, <1>9 DEF Writes

\* The stock and the StockMovement rows of a product agree at all times
\* (orders/services.py:241-304, 366-389; products/services.py:96-136).
THEOREM LedgerHolds == Spec => []LedgerBalances
<1>1. Init => Inv /\ Balanced
  BY InitInv, BalancedInit
<1>2. Inv /\ Balanced /\ [Next]_vars => (Inv /\ Balanced)'
  <2> SUFFICES ASSUME Inv, Balanced, [Next]_vars PROVE Inv' /\ Balanced'
    OBVIOUS
  <2>1. CASE UNCHANGED tables
    BY <2>1, NextInv DEF tables, Balanced, BalancedAt
  <2>2. CASE \E t \in Thread : Writes(t)
    BY <2>2, NextInv, BalancedStep DEF Balanced
  <2> QED
    BY <2>1, <2>2, OnlyWritesWrite
<1>3. Balanced => LedgerBalances
  BY DEF Balanced, BalancedAt, LedgerBalances
<1> QED
  BY <1>1, <1>2, <1>3, PTL DEF Spec
-----------------------------------------------------------------------------
(* What the voids brought back.                                            *)

\* The journal of every id, with or without a product, is that of the void orders.
Voided == {o \in OrderId : order[o] # NoRow /\ order[o].status = "VOID"}
ReturnedAt(p) == movement[p]["ORDER_VOID"] = Units(order, p, Voided)
Returned == \A p \in ProductId : ReturnedAt(p)

LEMMA OrdersAreFinite ==
  ASSUME NEW S \in SUBSET OrderId
  PROVE  IsFiniteSet(S)
BY IdAssumption, FS_Subset

LEMMA ReturnedInit == Init => Returned
<1> SUFFICES ASSUME Init, NEW p \in ProductId PROVE ReturnedAt(p)
  BY DEF Returned
<1>1. Voided = {} /\ movement[p]["ORDER_VOID"] = 0
  BY DEF Init, Voided, Tally
<1> QED
  BY <1>1, UnitsOfNone DEF ReturnedAt

\* A void adds one order to the void ones.
LEMMA VoidReturns ==
  ASSUME Inv, Returned, NEW t \in Thread, VoidOrder(t), NEW p \in ProductId
  PROVE  ReturnedAt(p)'
<1> DEFINE o == req[t].order
           n == order[o].items[p]
<1>1. orow[t] # NoRow /\ IsPending(t)
  BY DEF VoidOrder, Locked, Inv, ControlOK, ControlAt
<1>2. /\ o \in OrderId /\ order[o] \in OrderRow /\ orow[t] = order[o]
      /\ order[o].status = "PENDING"
  BY <1>1, OrderAtHand DEF IsPending
<1>3. order' = [order EXCEPT ![o].status = "VOID"]
  BY DEF VoidOrder, SetStatus
<1>4. /\ \A m \in OrderId : m # o => order'[m] = order[m]
      /\ order'[o] \in OrderRow /\ order'[o].status = "VOID"
      /\ order'[o].items = order[o].items
  BY <1>2, <1>3 DEF Inv, TypeOK, OrderRow, Status
<1>5. Voided' = Voided \cup {o} /\ o \notin Voided
  BY <1>2, <1>4, NullAssumption DEF Voided
<1>6. \A m \in Voided \cup {o} : order[m].items[p] \in Nat
  BY <1>2, BoundAssumption DEF Inv, TypeOK, OrderRow, Items, Voided
<1>7. Units(order', p, Voided') = Units(order, p, Voided) + n
  <2>1. IsFiniteSet(Voided) /\ IsFiniteSet(Voided \cup {o})
    BY <1>2, OrdersAreFinite DEF Voided
  <2>2. Units(order, p, Voided \cup {o}) = Units(order, p, Voided) + n
    BY <1>5, <1>6, <2>1, UnitsAdd
  <2>3. \A m \in Voided \cup {o} : order'[m].items[p] = order[m].items[p]
    BY <1>4 DEF Voided
  <2>4. Units(order', p, Voided \cup {o}) = Units(order, p, Voided \cup {o})
    BY <2>1, <2>3, UnitsSame
  <2> QED
    BY <1>5, <2>2, <2>4
<1>8. movement'[p]["ORDER_VOID"] = movement[p]["ORDER_VOID"] + n
  <2>1. CASE n > 0
    <3>1. movement'[p] = Journal(movement[p], "ADD", "ORDER_VOID", n)
      BY <1>2, <2>1, VoidOrderEffect
    <3> QED
      BY <3>1, JournalEffect DEF Action, ReasonChoices
  <2>2. CASE ~(n > 0)
    <3>1. movement'[p] = movement[p]
      BY <1>2, <2>2, VoidOrderEffect
    <3>2. n = 0 /\ movement[p]["ORDER_VOID"] \in Nat
      BY <1>6, <2>2 DEF Inv, TypeOK, Tally
    <3> QED
      BY <3>1, <3>2
  <2> QED
    BY <2>1, <2>2
<1> QED
  BY <1>7, <1>8 DEF Returned, ReturnedAt

\* Every other step leaves the void orders as they are, and writes no
\* movement with the reason of a void: the serializer refuses it.
LEMMA OthersReturnNothing ==
  ASSUME Inv, AllPermitted, Returned, NEW t \in Thread, Writes(t), ~VoidOrder(t),
         NEW p \in ProductId
  PROVE  ReturnedAt(p)'
<1>1. Voided' = Voided /\ \A o \in Voided : order'[o] = order[o]
  <2>1. CASE PlaceOrder(t)
    <3>1. PICK n \in OrderId :
            /\ order[n] = NoRow
            /\ order' = [order EXCEPT ![n] =
                           [tenant |-> req[t].tenant, status |-> "PENDING",
                            items |-> req[t].items, total_price |-> TotalPrice(t)]]
      BY <2>1 DEF PlaceOrder, IsFree
    <3>2. /\ order'[n].status = "PENDING"
          /\ \A o \in OrderId : o # n => order'[o] = order[o]
      BY <3>1 DEF Inv, TypeOK
    <3> QED
      BY <3>1, <3>2 DEF Voided
  <2>2. CASE PayOrder(t)
    <3>1. orow[t] # NoRow /\ IsPending(t)
      BY <2>2 DEF PayOrder, Inv, ControlOK, ControlAt
    <3>2. /\ req[t].order \in OrderId /\ order[req[t].order] \in OrderRow
          /\ order[req[t].order].status = "PENDING"
      BY <3>1, OrderAtHand DEF IsPending
    <3>3. /\ \A o \in OrderId : o # req[t].order => order'[o] = order[o]
          /\ order'[req[t].order].status = "PAID"
      BY <2>2, <3>2 DEF PayOrder, SetStatus, Inv, TypeOK, OrderRow
    <3> QED
      BY <3>2, <3>3 DEF Voided
  <2>3. CASE UNCHANGED order
    BY <2>3 DEF Voided
  <2> QED
    BY <2>1, <2>2, <2>3 DEF Writes, SaveStock, Archive, Restore, InsertProduct
<1>2. Units(order', p, Voided') = Units(order, p, Voided)
  <2>1. IsFiniteSet(Voided)
    BY OrdersAreFinite DEF Voided
  <2> QED
    BY <1>1, <2>1, UnitsSame
<1>3. movement'[p]["ORDER_VOID"] = movement[p]["ORDER_VOID"]
  <2>1. CASE PlaceOrder(t)
    <3>1. \/ movement'[p] = movement[p]
          \/ \E n : movement'[p] = Journal(movement[p], "DEDUCT", "SALE", n)
      BY <2>1, PlaceOrderEffect
    <3> QED
      BY <3>1, JournalEffect DEF Action, ReasonChoices
  <2>2. CASE SaveStock(t)
    <3>1. /\ req[t] \in AdjustRequest /\ req[t].op = "adjust" /\ req[t] # NoRequest
      BY <2>2, RequestKinds, RequestAssumption
         DEF SaveStock, Locked, Inv, ControlOK, ControlAt
    <3>2. req[t].reason \in ReasonChoices /\ req[t].reason # "ORDER_VOID"
      BY <3>1, OpAssumption DEF AllPermitted, Permitted, Validates, AdjustRequest
    <3>3. PICK action \in Action :
            \E n : movement' = [movement EXCEPT ![req[t].product] =
                                  Journal(@, action, req[t].reason, n)]
      BY <2>2 DEF SaveStock, Action
    <3>4. \/ movement'[p] = movement[p]
          \/ \E n : movement'[p] = Journal(movement[p], action, req[t].reason, n)
      BY <3>3 DEF Inv, TypeOK
    <3> QED
      BY <3>2, <3>4, JournalEffect
  <2>3. CASE UNCHANGED movement
    BY <2>3
  <2> QED
    BY <2>1, <2>2, <2>3 DEF Writes, PayOrder, Archive, Restore, InsertProduct
<1> QED
  BY <1>2, <1>3 DEF Returned, ReturnedAt

LEMMA ReturnedStep ==
  ASSUME Inv, AllPermitted, Returned, [Next]_vars
  PROVE  Returned'
<1>1. CASE UNCHANGED tables
  BY <1>1 DEF tables, Returned, ReturnedAt, Voided
<1>2. CASE \E t \in Thread : Writes(t)
  BY <1>2, VoidReturns, OthersReturnNothing DEF Returned
<1> QED
  BY <1>1, <1>2, OnlyWritesWrite

\* The ORDER_VOID movements of a product are the items of the VOID orders,
\* however many voids, retries and payments there were
\* (orders/services.py:326-329, 366-392; products/serializers.py:83-88).
THEOREM VoidsReturnOnce == Spec => []VoidedStockReturned
<1>1. Init => Inv /\ AllPermitted /\ Returned
  BY InitInv, ReturnedInit DEF Init, AllPermitted
<1>2. Inv /\ AllPermitted /\ Returned /\ [Next]_vars => (Inv /\ AllPermitted /\ Returned)'
  BY NextInv, PermittedStep, ReturnedStep
<1>3. Returned => VoidedStockReturned
  BY DEF Returned, ReturnedAt, Voided, VoidedStockReturned
<1> QED
  BY <1>1, <1>2, <1>3, PTL DEF Spec
=============================================================================

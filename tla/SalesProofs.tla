---------------------------- MODULE SalesProofs ----------------------------
(***************************************************************************)
(* What Sales guarantees for any requests, carts and prices: every amount  *)
(* that is committed fits its column, the header of a document is what its *)
(* lines and its payments come to, and a refund is at the price of the     *)
(* sale.  The sums are folds over lists of any length: the first part      *)
(* shows what a fold computes, by induction on the length of the list.     *)
(***************************************************************************)
EXTENDS Sales, SequenceTheorems, WellFoundedInduction, TLAPS

(* Induction. *)

\* Every set of naturals that is not empty has a least element.
LEMMA LeastNumber ==
  ASSUME NEW S \in SUBSET Nat, S # {}
  PROVE  \E n \in S : \A m \in S : n <= m
<1>1. PICK n \in S : \A m \in S : ~ (<<m, n>> \in OpToRel(<, Nat))
  BY NatLessThanWellFounded, WFMin
<1>2. \A m \in S : ~ (m < n)
  BY <1>1 DEF OpToRel
<1> QED
  BY <1>2

\* Induction up to a number, for a set in the place of the predicate.
LEMMA UpTo ==
  ASSUME NEW n \in Nat, NEW T,
         0 \in T,
         \A k \in 0..(n - 1) : k \in T => k + 1 \in T
  PROVE  \A k \in 0..n : k \in T
<1> SUFFICES ASSUME NEW j \in 0..n, j \notin T
             PROVE  FALSE
  OBVIOUS
<1> DEFINE S == {k \in 0..n : k \notin T}
<1>0. S \in SUBSET Nat /\ S # {}
  OBVIOUS
<1>1. PICK k \in S : \A m \in S : k <= m
  <2> HIDE DEF S
  <2> QED
    BY <1>0, LeastNumber
<1>2. k # 0 /\ k - 1 \in 0..(n - 1) /\ k - 1 \notin S
  BY <1>1
<1>3. k - 1 \in T
  BY <1>2
<1> QED
  BY <1>1, <1>2, <1>3

\* The largest of some numbers is one of them.
LEMMA MaxOfNumbers ==
  ASSUME NEW n \in Nat, NEW s \in SUBSET Nat, s # {}, \A x \in s : x <= n
  PROVE  Max(s) \in s /\ \A x \in s : x <= Max(s)
<1> DEFINE S == {k \in Nat : \A x \in s : x <= k}
<1>1. n \in S /\ S \in SUBSET Nat
  OBVIOUS
<1>2. PICK m \in S : \A k \in S : m <= k
  BY <1>1, LeastNumber
<1>3. m \in s
  <2>1. SUFFICES ASSUME m \notin s PROVE FALSE
    OBVIOUS
  <2>2. m > 0
    <3>1. PICK x \in s : TRUE
      OBVIOUS
    <3> QED
      BY <1>2, <2>1, <3>1
  <2>3. m - 1 \in S
    BY <2>1, <2>2, <1>2
  <2> QED
    BY <1>2, <2>3
<1>4. \A x \in s : m >= x
  BY <1>2
<1>5. \E x \in s : \A y \in s : x >= y
  BY <1>3, <1>4
<1>6. Max(s) \in s /\ \A y \in s : Max(s) >= y
  BY <1>5 DEF Max
<1> QED
  BY <1>6
-----------------------------------------------------------------------------
(* What the folds compute. *)

\* The recursion by which Total is defined has a solution.
LEMMA TotalSolved ==
  ASSUME NEW n \in Nat, NEW a \in [1..n -> Int]
  PROVE  \E g : g = [s \in SUBSET (1..n) |->
                       IF s = {} THEN 0 ELSE Plus(g[s \ {Max(s)}], a[Max(s)])]
<1> DEFINE Sol(g, k) == g = [s \in SUBSET (1..k) |->
                       IF s = {} THEN 0 ELSE Plus(g[s \ {Max(s)}], a[Max(s)])]
           T == {k \in 0..n : \E g : Sol(g, k)}
<1>1. 0 \in T
  <2> DEFINE g == [s \in SUBSET (1..0) |-> 0]
  <2>1. \A s \in SUBSET (1..0) : s = {}
    OBVIOUS
  <2>2. Sol(g, 0)
    BY <2>1
  <2> QED
    BY <2>2
<1>2. ASSUME NEW k \in 0..(n - 1), k \in T
      PROVE  k + 1 \in T
  <2>1. PICK g : Sol(g, k)
    BY <1>2
  <2> DEFINE h == [s \in SUBSET (1..(k + 1)) |->
                     IF s = {} THEN 0 ELSE Plus(g[s \ {Max(s)}], a[Max(s)])]
  <2>2. \A s \in SUBSET (1..k) : h[s] = g[s]
    <3> SUFFICES ASSUME NEW s \in SUBSET (1..k)
                 PROVE  h[s] = g[s]
      OBVIOUS
    <3>1. g[s] = IF s = {} THEN 0 ELSE Plus(g[s \ {Max(s)}], a[Max(s)])
      BY <2>1
    <3>2. s \in SUBSET (1..(k + 1))
      OBVIOUS
    <3> QED
      BY <3>1, <3>2
  <2>3. ASSUME NEW s \in SUBSET (1..(k + 1)), s # {}
        PROVE  s \ {Max(s)} \in SUBSET (1..k)
    <3> DEFINE m == Max(s)
    <3>1. k + 1 \in Nat /\ s \in SUBSET Nat /\ \A x \in s : x <= k + 1
      OBVIOUS
    <3>2. m \in s /\ \A x \in s : x <= m
      BY <2>3, <3>1, MaxOfNumbers
    <3> HIDE DEF m
    <3>3. s \ {m} \in SUBSET (1..k)
      BY <3>2
    <3> QED
      BY <3>3 DEF m
  <2>4. h = [s \in SUBSET (1..(k + 1)) |->
                     IF s = {} THEN 0 ELSE Plus(h[s \ {Max(s)}], a[Max(s)])]
    BY <2>2, <2>3
  <2> HIDE DEF h
  <2>5. \E f : Sol(f, k + 1)
    BY <2>4
  <2>6. k + 1 \in 0..n
    OBVIOUS
  <2> HIDE DEF Sol
  <2> QED
    BY <2>5, <2>6
<1>3. \A k \in 0..n : k \in T
  <2> HIDE DEF T
  <2> QED
    BY <1>1, <1>2, UpTo
<1>4. n \in T
  <2> HIDE DEF T
  <2> QED
    BY <1>3
<1> QED
  BY <1>4

\* Total adds up a list from left to right.
LEMMA RunningTotal ==
  ASSUME NEW n \in Nat, NEW a \in [1..n -> Int]
  PROVE  \E P : /\ P[0] = 0
                /\ \A k \in 1..n : P[k] = Plus(P[k - 1], a[k])
                /\ Total(a) = P[n]
<1> DEFINE Sol(g) == g = [s \in SUBSET (1..n) |->
                       IF s = {} THEN 0 ELSE Plus(g[s \ {Max(s)}], a[Max(s)])]
           g == CHOOSE g : Sol(g)
           P == [k \in 0..n |-> g[1..k]]
<1>1. Sol(g)
  BY TotalSolved
<1>2. Total(a) = g[DOMAIN a]
  BY DEF Total, FoldLeft, MapThenFoldSet
<1>3. DOMAIN a = 1..n
  OBVIOUS
<1> HIDE DEF g
<1>4. g[1..0] = 0
  BY <1>1
<1>5. ASSUME NEW k \in 1..n
      PROVE  g[1..k] = Plus(g[1..(k - 1)], a[k])
  <2>1. /\ 1..k # {} /\ 1..k \in SUBSET (1..n) /\ 1..k \in SUBSET Nat
        /\ k \in Nat /\ \A x \in 1..k : x <= k
    OBVIOUS
  <2>2. Max(1..k) = k
    <3> DEFINE I == 1..k
    <3>0. I # {} /\ I \in SUBSET Nat /\ k \in Nat /\ (\A x \in I : x <= k) /\ k \in I
      BY <2>1
    <3> HIDE DEF I
    <3>1. Max(I) \in I /\ k <= Max(I)
      BY <3>0, MaxOfNumbers
    <3> USE DEF I
    <3> QED
      BY <3>1
  <2>3. (1..k) \ {k} = 1..(k - 1)
    OBVIOUS
  <2> QED
    BY <1>1, <2>1, <2>2, <2>3
<1>6. /\ P[0] = 0
      /\ \A k \in 1..n : P[k] = Plus(P[k - 1], a[k])
      /\ Total(a) = P[n]
  <2>1. \A k \in 0..n : P[k] = g[1..k]
    OBVIOUS
  <2> HIDE DEF P
  <2>2. P[0] = 0 /\ Total(a) = P[n]
    BY <1>2, <1>3, <1>4, <2>1
  <2>3. ASSUME NEW k \in 1..n
        PROVE  P[k] = Plus(P[k - 1], a[k])
    <3>1. P[k] = g[1..k] /\ P[k - 1] = g[1..(k - 1)]
      BY <2>1
    <3> QED
      BY <1>5, <3>1
  <2> QED
    BY <2>2, <2>3
<1> HIDE DEF P
<1> QED
  BY <1>6

\* The recursion by which SumOf is defined has a solution.
LEMMA SumSolved ==
  ASSUME NEW n \in Nat, NEW a \in [1..n -> Int]
  PROVE  \E g : g = [s \in SUBSET (1..n) |->
                       IF s = {} THEN 0 ELSE g[s \ {Max(s)}] + a[Max(s)]]
<1> DEFINE Sol(g, k) == g = [s \in SUBSET (1..k) |->
                       IF s = {} THEN 0 ELSE g[s \ {Max(s)}] + a[Max(s)]]
           T == {k \in 0..n : \E g : Sol(g, k)}
<1>1. 0 \in T
  <2> DEFINE g == [s \in SUBSET (1..0) |-> 0]
  <2>1. \A s \in SUBSET (1..0) : s = {}
    OBVIOUS
  <2>2. Sol(g, 0)
    BY <2>1
  <2> QED
    BY <2>2
<1>2. ASSUME NEW k \in 0..(n - 1), k \in T
      PROVE  k + 1 \in T
  <2>1. PICK g : Sol(g, k)
    BY <1>2
  <2> DEFINE h == [s \in SUBSET (1..(k + 1)) |->
                     IF s = {} THEN 0 ELSE g[s \ {Max(s)}] + a[Max(s)]]
  <2>2. \A s \in SUBSET (1..k) : h[s] = g[s]
    <3> SUFFICES ASSUME NEW s \in SUBSET (1..k)
                 PROVE  h[s] = g[s]
      OBVIOUS
    <3>1. g[s] = IF s = {} THEN 0 ELSE g[s \ {Max(s)}] + a[Max(s)]
      BY <2>1
    <3>2. s \in SUBSET (1..(k + 1))
      OBVIOUS
    <3> QED
      BY <3>1, <3>2
  <2>3. ASSUME NEW s \in SUBSET (1..(k + 1)), s # {}
        PROVE  s \ {Max(s)} \in SUBSET (1..k)
    <3> DEFINE m == Max(s)
    <3>1. k + 1 \in Nat /\ s \in SUBSET Nat /\ \A x \in s : x <= k + 1
      OBVIOUS
    <3>2. m \in s /\ \A x \in s : x <= m
      BY <2>3, <3>1, MaxOfNumbers
    <3> HIDE DEF m
    <3>3. s \ {m} \in SUBSET (1..k)
      BY <3>2
    <3> QED
      BY <3>3 DEF m
  <2>4. h = [s \in SUBSET (1..(k + 1)) |->
                     IF s = {} THEN 0 ELSE h[s \ {Max(s)}] + a[Max(s)]]
    BY <2>2, <2>3
  <2> HIDE DEF h
  <2>5. \E f : Sol(f, k + 1)
    BY <2>4
  <2>6. k + 1 \in 0..n
    OBVIOUS
  <2> HIDE DEF Sol
  <2> QED
    BY <2>5, <2>6
<1>3. \A k \in 0..n : k \in T
  <2> HIDE DEF T
  <2> QED
    BY <1>1, <1>2, UpTo
<1>4. n \in T
  <2> HIDE DEF T
  <2> QED
    BY <1>3
<1> QED
  BY <1>4

\* SumOf adds up a list from left to right.
LEMMA RunningSum ==
  ASSUME NEW n \in Nat, NEW a \in [1..n -> Int]
  PROVE  \E P : /\ P[0] = 0
                /\ \A k \in 1..n : P[k] = P[k - 1] + a[k]
                /\ SumOf(a) = P[n]
<1> DEFINE Sol(g) == g = [s \in SUBSET (1..n) |->
                       IF s = {} THEN 0 ELSE g[s \ {Max(s)}] + a[Max(s)]]
           g == CHOOSE g : Sol(g)
           P == [k \in 0..n |-> g[1..k]]
<1>1. Sol(g)
  BY SumSolved
<1>2. SumOf(a) = g[DOMAIN a]
  BY DEF SumOf, FoldLeft, MapThenFoldSet
<1>3. DOMAIN a = 1..n
  OBVIOUS
<1> HIDE DEF g
<1>4. g[1..0] = 0
  BY <1>1
<1>5. ASSUME NEW k \in 1..n
      PROVE  g[1..k] = g[1..(k - 1)] + a[k]
  <2>1. /\ 1..k # {} /\ 1..k \in SUBSET (1..n) /\ 1..k \in SUBSET Nat
        /\ k \in Nat /\ \A x \in 1..k : x <= k
    OBVIOUS
  <2>2. Max(1..k) = k
    <3> DEFINE I == 1..k
    <3>0. I # {} /\ I \in SUBSET Nat /\ k \in Nat /\ (\A x \in I : x <= k) /\ k \in I
      BY <2>1
    <3> HIDE DEF I
    <3>1. Max(I) \in I /\ k <= Max(I)
      BY <3>0, MaxOfNumbers
    <3> USE DEF I
    <3> QED
      BY <3>1
  <2>3. (1..k) \ {k} = 1..(k - 1)
    OBVIOUS
  <2> QED
    BY <1>1, <2>1, <2>2, <2>3
<1>6. /\ P[0] = 0
      /\ \A k \in 1..n : P[k] = P[k - 1] + a[k]
      /\ SumOf(a) = P[n]
  <2>1. \A k \in 0..n : P[k] = g[1..k]
    OBVIOUS
  <2> HIDE DEF P
  <2>2. P[0] = 0 /\ SumOf(a) = P[n]
    BY <1>2, <1>3, <1>4, <2>1
  <2>3. ASSUME NEW k \in 1..n
        PROVE  P[k] = P[k - 1] + a[k]
    <3>1. P[k] = g[1..k] /\ P[k - 1] = g[1..(k - 1)]
      BY <2>1
    <3> QED
      BY <1>5, <3>1
  <2> QED
    BY <2>2, <2>3
<1> HIDE DEF P
<1> QED
  BY <1>6

\* The guarded sum of a list of naturals is an amount that fits, and their sum,
\* or else it is Overflow.
LEMMA TotalIsSum ==
  ASSUME NEW a \in Seq(Nat)
  PROVE  /\ Total(a) \in 0..MaxAmount \cup {Overflow}
         /\ Total(a) # Overflow => Total(a) = SumOf(a)
<1> DEFINE n == Len(a)
<1>1. n \in Nat /\ a \in [1..n -> Int] /\ \A k \in 1..n : a[k] \in Nat
  OBVIOUS
<1>2. PICK P : /\ P[0] = 0
               /\ \A k \in 1..n : P[k] = Plus(P[k - 1], a[k])
               /\ Total(a) = P[n]
  BY <1>1, RunningTotal
<1>3. PICK Q : /\ Q[0] = 0
               /\ \A k \in 1..n : Q[k] = Q[k - 1] + a[k]
               /\ SumOf(a) = Q[n]
  BY <1>1, RunningSum
<1> HIDE DEF n
<1> DEFINE T == {k \in 0..n : /\ P[k] \in 0..MaxAmount \cup {Overflow}
                              /\ P[k] # Overflow => P[k] = Q[k]}
<1>4. 0 \in T
  BY <1>1, <1>2, <1>3, AmountsAssumption DEF Overflow
<1>5. ASSUME NEW k \in 0..(n - 1), k \in T
      PROVE  k + 1 \in T
  <2>1. k + 1 \in 1..n /\ k + 1 \in 0..n /\ (k + 1) - 1 = k /\ a[k + 1] \in Nat
    BY <1>1
  <2>2. P[k + 1] = Plus(P[k], a[k + 1]) /\ Q[k + 1] = Q[k] + a[k + 1]
    BY <1>2, <1>3, <2>1
  <2>3. /\ P[k] \in 0..MaxAmount \cup {Overflow}
        /\ P[k] # Overflow => P[k] = Q[k]
    BY <1>5
  <2>4. /\ P[k + 1] \in 0..MaxAmount \cup {Overflow}
        /\ P[k + 1] # Overflow => P[k + 1] = Q[k + 1]
    BY <2>1, <2>2, <2>3, AmountsAssumption DEF Plus, Overflow
  <2> QED
    BY <2>1, <2>4
<1>6. \A k \in 0..n : k \in T
  <2> HIDE DEF T
  <2> QED
    BY <1>1, <1>4, <1>5, UpTo
<1>7. n \in T
  <2> HIDE DEF T
  <2> QED
    BY <1>1, <1>6
<1> QED
  BY <1>2, <1>3, <1>7
-----------------------------------------------------------------------------
(* Lines. *)

Line == [product : Products, quantity : Nat \ {0}, subtotal : Nat]

\* Items that may be sold or returned.
GoodItems(items) == items \in Seq(Item) /\ WellFormed(items)

LEMMA ItemFacts ==
  ASSUME NEW items, GoodItems(items)
  PROVE  /\ Len(items) \in Nat \ {0}
         /\ DOMAIN items = 1..Len(items)
         /\ \A k \in 1..Len(items) : /\ items[k].product \in Products
                                     /\ items[k].quantity \in Nat \ {0}
<1>1. items \in Seq(Item) /\ items # <<>> /\ \A k \in DOMAIN items : items[k].quantity > 0
  BY DEF GoodItems, WellFormed
<1>2. Len(items) \in Nat \ {0} /\ DOMAIN items = 1..Len(items)
  BY <1>1
<1>3. \A k \in 1..Len(items) : items[k] \in Item
  BY <1>1
<1> QED
  BY <1>1, <1>2, <1>3 DEF Item

\* The lines written for good items: one for each, with its product, its quantity
\* and what they cost, and their subtotals are amounts.
LEMMA PricedFacts ==
  ASSUME NEW items, GoodItems(items), NEW prices,
         \A k \in 1..Len(items) : prices[items[k].product] \in Nat
  PROVE  LET lines == Priced(items, prices)
         IN  /\ lines # <<>>
             /\ lines \in Seq(Line)
             /\ DOMAIN lines = 1..Len(items) /\ Len(lines) = Len(items)
             /\ \A k \in 1..Len(items) :
                  /\ lines[k].product = items[k].product
                  /\ lines[k].quantity = items[k].quantity
                  /\ lines[k].subtotal = prices[items[k].product] * items[k].quantity
             /\ Subtotals(lines) \in Seq(Nat)
<1> DEFINE n == Len(items)
           lines == Priced(items, prices)
<1>1. /\ n \in Nat \ {0} /\ DOMAIN items = 1..n
      /\ \A k \in 1..n : items[k].product \in Products /\ items[k].quantity \in Nat \ {0}
  BY ItemFacts
<1>2. lines = [k \in 1..n |-> [product |-> items[k].product, quantity |-> items[k].quantity,
                               subtotal |-> prices[items[k].product] * items[k].quantity]]
  BY <1>1 DEF Priced
<1> HIDE DEF n, lines
<1>3. /\ DOMAIN lines = 1..n
      /\ \A k \in 1..n : /\ lines[k].product = items[k].product
                         /\ lines[k].quantity = items[k].quantity
                         /\ lines[k].subtotal = prices[items[k].product] * items[k].quantity
  BY <1>2
<1>4. \A k \in 1..n : prices[items[k].product] * items[k].quantity \in Nat
  BY <1>1 DEF n
<1>5. lines \in [1..n -> Line]
  BY <1>1, <1>2, <1>4 DEF Line
<1>6. lines \in Seq(Line)
  BY <1>1, <1>5, IsASeq
<1>7. Len(lines) = n /\ lines # <<>>
  BY <1>1, <1>3, <1>6
<1>8. Subtotals(lines) \in [1..n -> Nat]
  BY <1>3, <1>4 DEF Subtotals
<1>9. Subtotals(lines) \in Seq(Nat)
  BY <1>1, <1>8, IsASeq
<1> QED
  BY <1>3, <1>6, <1>7, <1>9 DEF n, lines

\* A quotient without a rest.
LEMMA ExactQuotient ==
  ASSUME NEW v \in Nat, NEW q \in Nat \ {0}
  PROVE  (v * q) \div q = v
OBVIOUS

\* The unit prices read off the lines of a sale are those it was made at, however
\* many lines a product has.
LEMMA UnitPricesRead ==
  ASSUME NEW items, GoodItems(items), NEW prices \in [Products -> Nat]
  PROVE  LET unit == UnitPrices(Priced(items, prices))
         IN  /\ DOMAIN unit = {items[k].product : k \in 1..Len(items)}
             /\ \A p \in DOMAIN unit : unit[p] = prices[p]
<1> DEFINE n == Len(items)
           lines == Priced(items, prices)
           sold == {items[k].product : k \in 1..n}
<1>1. /\ n \in Nat \ {0}
      /\ \A k \in 1..n : items[k].product \in Products /\ items[k].quantity \in Nat \ {0}
  BY ItemFacts
<1>2. /\ DOMAIN lines = 1..n /\ Len(lines) = n
      /\ \A k \in 1..n : /\ lines[k].product = items[k].product
                         /\ lines[k].quantity = items[k].quantity
                         /\ lines[k].subtotal = prices[items[k].product] * items[k].quantity
  BY <1>1, PricedFacts
<1> HIDE DEF n, lines
<1>3. ToSet([k \in DOMAIN lines |-> lines[k].product]) = sold
  BY <1>2 DEF ToSet
<1>4. ASSUME NEW p \in sold
      PROVE  LET k == SelectLastInSeq(lines, LAMBDA l : l.product = p)
             IN  lines[k].subtotal \div lines[k].quantity = prices[p]
  <2> DEFINE I == {i \in 1..Len(lines) : lines[i].product = p}
             k == Max(I)
  <2>1. I # {}
    BY <1>2, <1>4
  <2>2. SelectLastInSeq(lines, LAMBDA l : l.product = p) = k
    BY <2>1 DEF SelectLastInSeq
  <2>3. I \in SUBSET Nat /\ \A x \in I : x <= n
    BY <1>1, <1>2
  <2>4. k \in I
    <3> HIDE DEF I
    <3> QED
      BY <1>1, <2>1, <2>3, MaxOfNumbers
  <2> HIDE DEF k
  <2>5. k \in 1..n /\ lines[k].product = p
    BY <1>2, <2>4
  <2>6. /\ lines[k].subtotal = prices[p] * items[k].quantity
        /\ lines[k].quantity = items[k].quantity
        /\ prices[p] \in Nat /\ items[k].quantity \in Nat \ {0}
    BY <1>1, <1>2, <2>5
  <2>7. lines[k].subtotal \div lines[k].quantity = prices[p]
    BY <2>6, ExactQuotient
  <2> QED
    BY <2>2, <2>7
<1>5. UnitPrices(lines) =
        [p \in sold |->
           LET k == SelectLastInSeq(lines, LAMBDA l : l.product = p)
           IN  lines[k].subtotal \div lines[k].quantity]
  BY <1>3 DEF UnitPrices
<1>6. DOMAIN UnitPrices(lines) = sold /\ \A p \in sold : UnitPrices(lines)[p] = prices[p]
  BY <1>4, <1>5
<1> QED
  BY <1>6 DEF n, lines
\* The items of a purchase order, with and without prices of their own.
GoodOrder(items) == items \in Seq(OrderItem) /\ WellFormed(items)
Costed(items) == \A k \in 1..Len(items) : items[k].unitPrice \in Nat

LEMMA OrderItemFacts ==
  ASSUME NEW items, GoodOrder(items)
  PROVE  /\ Len(items) \in Nat \ {0}
         /\ DOMAIN items = 1..Len(items)
         /\ \A k \in 1..Len(items) : /\ items[k] \in OrderItem
                                     /\ items[k].product \in Products
                                     /\ items[k].quantity \in Nat \ {0}
                                     /\ items[k].unitPrice \in Int
<1>1. items \in Seq(OrderItem) /\ items # <<>> /\ \A k \in DOMAIN items : items[k].quantity > 0
  BY DEF GoodOrder, WellFormed
<1>2. Len(items) \in Nat \ {0} /\ DOMAIN items = 1..Len(items)
  BY <1>1
<1>3. \A k \in 1..Len(items) : items[k] \in OrderItem
  BY <1>1
<1> QED
  BY <1>1, <1>2, <1>3 DEF OrderItem

\* Completing the items of an order leaves no item without a price.
LEMMA ResolvedFacts ==
  ASSUME NEW items, GoodOrder(items), NEW prices \in [Products -> Nat]
  PROVE  GoodOrder(Resolved(items, prices)) /\ Costed(Resolved(items, prices))
<1> DEFINE n == Len(items)
           full == Resolved(items, prices)
           one(k) == [items[k] EXCEPT !.unitPrice =
                        IF @ <= 0 THEN prices[items[k].product] ELSE @]
<1>1. /\ n \in Nat \ {0} /\ DOMAIN items = 1..n
      /\ \A k \in 1..n : /\ items[k] \in OrderItem
                         /\ items[k].product \in Products
                         /\ items[k].quantity \in Nat \ {0}
                         /\ items[k].unitPrice \in Int
  BY OrderItemFacts
<1>2. ASSUME NEW k \in 1..n
      PROVE  one(k) \in OrderItem /\ one(k).quantity > 0 /\ one(k).unitPrice \in Nat
  BY <1>1 DEF OrderItem
<1>3. full = [k \in 1..n |-> one(k)]
  BY <1>1 DEF Resolved
<1> HIDE DEF n, full, one
<1>4. full \in [1..n -> OrderItem] /\ \A k \in 1..n : full[k] = one(k)
  BY <1>2, <1>3
<1>5. full \in Seq(OrderItem)
  BY <1>1, <1>4, IsASeq
<1>6. Len(full) = n /\ DOMAIN full = 1..n /\ full # <<>>
  BY <1>1, <1>4, <1>5
<1>7. GoodOrder(full)
  BY <1>2, <1>4, <1>5, <1>6 DEF GoodOrder, WellFormed
<1>8. Costed(full)
  BY <1>2, <1>4, <1>6 DEF Costed
<1> QED
  BY <1>7, <1>8 DEF full

LEMMA OrderLinesFacts ==
  ASSUME NEW items, GoodOrder(items), Costed(items)
  PROVE  OrderLines(items) # <<>> /\ Subtotals(OrderLines(items)) \in Seq(Nat)
<1> DEFINE n == Len(items)
           lines == OrderLines(items)
<1>1. /\ n \in Nat \ {0} /\ DOMAIN items = 1..n
      /\ \A k \in 1..n : items[k].quantity \in Nat \ {0} /\ items[k].unitPrice \in Nat
  BY OrderItemFacts DEF Costed
<1>2. lines = [k \in 1..n |-> [product |-> items[k].product, quantity |-> items[k].quantity,
                               subtotal |-> items[k].unitPrice * items[k].quantity]]
  BY <1>1 DEF OrderLines
<1> HIDE DEF n, lines
<1>3. DOMAIN lines = 1..n /\ \A k \in 1..n : lines[k].subtotal = items[k].unitPrice * items[k].quantity
  BY <1>2
<1>4. lines # <<>>
  BY <1>1, <1>3
<1>5. Subtotals(lines) \in [1..n -> Nat]
  BY <1>1, <1>3 DEF Subtotals
<1>6. Subtotals(lines) \in Seq(Nat)
  BY <1>1, <1>5, IsASeq
<1> QED
  BY <1>4, <1>6 DEF lines

\* Payments that settle an amount add up to it.
LEMMA SettledSum ==
  ASSUME NEW payments \in Seq(Payment), NEW due, due # Overflow,
         Settles(payments, due), payments # <<>>
  PROVE  due = SumOf([k \in DOMAIN payments |-> payments[k].amount])
<1> DEFINE n == Len(payments)
           amounts == [k \in DOMAIN payments |-> payments[k].amount]
<1>1. n \in Nat /\ DOMAIN payments = 1..n /\ \A k \in 1..n : payments[k] \in Payment
  OBVIOUS
<1>2. \A k \in 1..n : payments[k].amount \in Nat
  BY <1>1 DEF Settles, Payment
<1>3. amounts \in [1..n -> Nat]
  BY <1>1, <1>2
<1>4. Total(amounts) = due
  BY DEF Settles
<1> HIDE DEF amounts, n
<1>5. amounts \in Seq(Nat)
  BY <1>1, <1>3, IsASeq
<1>6. due = SumOf(amounts)
  BY <1>4, <1>5, TotalIsSum
<1> QED
  BY <1>6 DEF amounts
-----------------------------------------------------------------------------
(* The invariant. *)

Busy == {"price", "tally", "write"}

\* Lines of a sale at some prices.
AtPrices(lines) ==
  \E items, prices : /\ GoodItems(items)
                     /\ prices \in [Products -> Nat]
                     /\ lines = Priced(items, prices)

SaleDoc(s) ==
  /\ s.total \in 0..MaxAmount /\ AtPrices(s.lines) /\ s.lines # <<>>
  /\ s.total = SumOf(Subtotals(s.lines))
  /\ s.payments # <<>> =>
       s.total = SumOf([k \in DOMAIN s.payments |-> s.payments[k].amount])

RefundDoc(s, lines) ==
  /\ s.total \in 0..MaxAmount /\ s.lines # <<>>
  /\ s.total = SumOf(Subtotals(s.lines))
  /\ \A k \in DOMAIN s.lines, j \in DOMAIN lines :
        lines[j].product = s.lines[k].product =>
           s.lines[k].subtotal * lines[j].quantity = lines[j].subtotal * s.lines[k].quantity

OrderDoc(s) ==
  s.total \in 0..MaxAmount /\ s.lines # <<>> /\ s.total = SumOf(Subtotals(s.lines))

\* What each statement of a checkout may rely on: good items, the prices it has
\* read, and a total that the payments settle; a sale is written last.
CheckoutOK(c) ==
  /\ tendered[c] \in Seq(Payment)
  /\ pc[c] \in Busy => GoodItems(cart[c])
  /\ pc[c] \in {"tally", "write"} => read[c] \in [Products -> Prices]
  /\ pc[c] = "write" => /\ total[c] = CartTotal(c) /\ total[c] # Overflow
                        /\ Settles(tendered[c], total[c])
  /\ sales[c] # None => pc[c] = "committed" /\ SaleDoc(sales[c])

\* A return is for a sale that is written, and has read the prices of its lines.
ReturnOK(r) ==
  /\ pc[r] \in Busy => GoodItems(cart[r])
  /\ pc[r] \in Busy \cup {"committed"} => of[r] \in Sold
  /\ pc[r] \in {"tally", "write"} => read[r] = UnitPrices(sales[of[r]].lines)
  /\ pc[r] = "write" => /\ total[r] = CartTotal(r) /\ total[r] # Overflow
                        /\ \A k \in DOMAIN cart[r] : cart[r][k].product \in DOMAIN read[r]
  /\ refunds[r] # None => pc[r] = "committed" /\ RefundDoc(refunds[r], sales[of[r]].lines)

\* An order that is written has no item without a price.
OrderOK(o) ==
  /\ pc[o] \in Busy => GoodOrder(cart[o])
  /\ pc[o] = "tally" => read[o] \in [Products -> Prices]
  /\ pc[o] = "write" => /\ Costed(cart[o])
                        /\ total[o] = OrderTotal(cart[o]) /\ total[o] # Overflow
  /\ orders[o] # None => pc[o] = "committed" /\ OrderDoc(orders[o])

Shapes ==
  /\ price \in [Products -> Prices]
  /\ pc \in [Requests -> {"idle", "refused", "failed", "committed"} \cup Busy]
  /\ DOMAIN cart = Requests /\ DOMAIN read = Requests /\ DOMAIN total = Requests
  /\ DOMAIN tendered = Checkouts /\ DOMAIN sales = Checkouts
  /\ DOMAIN of = Returns /\ DOMAIN refunds = Returns
  /\ DOMAIN orders = Orders

MoneyInv ==
  /\ Shapes
  /\ \A c \in Checkouts : CheckoutOK(c)
  /\ \A r \in Returns : ReturnOK(r)
  /\ \A o \in Orders : OrderOK(o)

LEMMA InvMeans == MoneyInv => TypeOK /\ DocumentsAddUp /\ RefundAtSalePrice
<1> SUFFICES ASSUME MoneyInv
             PROVE  TypeOK /\ DocumentsAddUp /\ RefundAtSalePrice
  OBVIOUS
<1>1. \A c \in Sold : SaleDoc(sales[c])
  BY DEF MoneyInv, CheckoutOK, Sold
<1>2. \A r \in Refunded : RefundDoc(refunds[r], sales[of[r]].lines)
  BY DEF MoneyInv, ReturnOK, Refunded
<1>3. \A o \in Ordered : OrderDoc(orders[o])
  BY DEF MoneyInv, OrderOK, Ordered
<1>4. TypeOK
  BY <1>1, <1>2, <1>3 DEF MoneyInv, Shapes, Busy, TypeOK, SaleDoc, RefundDoc, OrderDoc
<1>5. DocumentsAddUp
  BY <1>1, <1>2, <1>3 DEF DocumentsAddUp, SaleDoc, RefundDoc, OrderDoc
<1>6. RefundAtSalePrice
  BY <1>2 DEF RefundAtSalePrice, RefundDoc
<1> QED
  BY <1>4, <1>5, <1>6

LEMMA MoneyInit == Init => MoneyInv
<1> SUFFICES ASSUME Init
             PROVE  MoneyInv
  OBVIOUS
<1>1. Shapes
  BY DEF Init, Shapes
<1>2. ASSUME NEW r \in Requests
      PROVE  pc[r] = "idle"
  BY <1>2 DEF Init
<1>3. ASSUME NEW c \in Checkouts
      PROVE  CheckoutOK(c)
  <2>1. tendered[c] = <<>> /\ sales[c] = None
    BY DEF Init
  <2> QED
    BY <1>2, <2>1 DEF Requests, CheckoutOK, Busy
<1>4. ASSUME NEW r \in Returns
      PROVE  ReturnOK(r)
  <2>1. refunds[r] = None
    BY DEF Init
  <2> QED
    BY <1>2, <2>1 DEF Requests, ReturnOK, Busy
<1>5. ASSUME NEW o \in Orders
      PROVE  OrderOK(o)
  <2>1. orders[o] = None
    BY DEF Init
  <2> QED
    BY <1>2, <2>1 DEF Requests, OrderOK, Busy
<1> QED
  BY <1>1, <1>3, <1>4, <1>5 DEF MoneyInv
-----------------------------------------------------------------------------
(* One request moves at a time. *)

\* Only request q is touched by the step, and no sale that is written.
Moves(q) ==
  /\ Shapes'
  /\ \A x \in Requests \ {q} : /\ pc'[x] = pc[x] /\ cart'[x] = cart[x]
                               /\ read'[x] = read[x] /\ total'[x] = total[x]
  /\ \A c \in Checkouts \ {q} : tendered'[c] = tendered[c] /\ sales'[c] = sales[c]
  /\ \A r \in Returns \ {q} : of'[r] = of[r] /\ refunds'[r] = refunds[r]
  /\ \A o \in Orders \ {q} : orders'[o] = orders[o]
  /\ \A c \in Sold : sales'[c] = sales[c]

LEMMA OthersKeep ==
  ASSUME MoneyInv, NEW q, Moves(q)
  PROVE  /\ \A c \in Checkouts \ {q} : CheckoutOK(c)'
         /\ \A r \in Returns \ {q} : ReturnOK(r)'
         /\ \A o \in Orders \ {q} : OrderOK(o)'
<1>1. ASSUME NEW c \in Checkouts \ {q}
      PROVE  CheckoutOK(c)'
  <2>1. /\ pc'[c] = pc[c] /\ cart'[c] = cart[c] /\ read'[c] = read[c] /\ total'[c] = total[c]
        /\ tendered'[c] = tendered[c] /\ sales'[c] = sales[c]
    BY DEF Moves, Requests
  <2>2. CheckoutOK(c)
    BY DEF MoneyInv
  <2> QED
    BY <2>1, <2>2 DEF CheckoutOK, CartTotal
<1>2. ASSUME NEW r \in Returns \ {q}
      PROVE  ReturnOK(r)'
  <2>1. /\ pc'[r] = pc[r] /\ cart'[r] = cart[r] /\ read'[r] = read[r] /\ total'[r] = total[r]
        /\ of'[r] = of[r] /\ refunds'[r] = refunds[r]
        /\ \A c \in Sold : sales'[c] = sales[c]
    BY DEF Moves, Requests
  <2>2. ReturnOK(r)
    BY DEF MoneyInv
  <2>3. of[r] \in Sold => of'[r] \in Sold' /\ sales'[of'[r]] = sales[of[r]]
    BY <2>1 DEF Sold
  <2>4. CartTotal(r)' = CartTotal(r)
    BY <2>1 DEF CartTotal
  <2>5. /\ pc'[r] \in Busy => GoodItems(cart'[r])
        /\ pc'[r] \in Busy \cup {"committed"} => of'[r] \in Sold'
    BY <2>1, <2>2, <2>3 DEF ReturnOK
  <2>6. pc'[r] \in {"tally", "write"} => read'[r] = UnitPrices(sales'[of'[r]].lines)
    BY <2>1, <2>2, <2>3 DEF ReturnOK, Busy
  <2>7. pc'[r] = "write" => /\ total'[r] = CartTotal(r)' /\ total'[r] # Overflow
                            /\ \A k \in DOMAIN cart'[r] : cart'[r][k].product \in DOMAIN read'[r]
    BY <2>1, <2>2, <2>4 DEF ReturnOK
  <2>8. refunds'[r] # None => pc'[r] = "committed" /\ RefundDoc(refunds'[r], sales'[of'[r]].lines)
    BY <2>1, <2>2, <2>3 DEF ReturnOK
  <2> QED
    BY <2>5, <2>6, <2>7, <2>8 DEF ReturnOK
<1>3. ASSUME NEW o \in Orders \ {q}
      PROVE  OrderOK(o)'
  <2>1. /\ pc'[o] = pc[o] /\ cart'[o] = cart[o] /\ read'[o] = read[o] /\ total'[o] = total[o]
        /\ orders'[o] = orders[o]
    BY DEF Moves, Requests
  <2>2. OrderOK(o)
    BY DEF MoneyInv
  <2> QED
    BY <2>1, <2>2 DEF OrderOK
<1> QED
  BY <1>1, <1>2, <1>3

\* So the invariant is kept if it is kept for the request that moves.
LEMMA CheckoutKeeps ==
  ASSUME MoneyInv, NEW c \in Checkouts, Moves(c), CheckoutOK(c)'
  PROVE  MoneyInv'
<1>1. c \notin Returns /\ c \notin Orders
  BY KindsAssumption
<1> QED
  BY <1>1, OthersKeep DEF MoneyInv, Moves

LEMMA ReturnKeeps ==
  ASSUME MoneyInv, NEW r \in Returns, Moves(r), ReturnOK(r)'
  PROVE  MoneyInv'
<1>1. r \notin Checkouts /\ r \notin Orders
  BY KindsAssumption
<1> QED
  BY <1>1, OthersKeep DEF MoneyInv, Moves

LEMMA OrderKeeps ==
  ASSUME MoneyInv, NEW o \in Orders, Moves(o), OrderOK(o)'
  PROVE  MoneyInv'
<1>1. o \notin Checkouts /\ o \notin Returns
  BY KindsAssumption
<1> QED
  BY <1>1, OthersKeep DEF MoneyInv, Moves
-----------------------------------------------------------------------------
(* The statements of a checkout. *)

LEMMA StartCheckoutKeeps ==
  ASSUME MoneyInv, NEW c \in Checkouts, NEW items \in Carts, NEW payments \in Payments,
         StartCheckout(c, items, payments)
  PROVE  MoneyInv'
<1>1. Shapes /\ CheckoutOK(c) /\ c \in Requests
  BY DEF MoneyInv, Requests
<1>2. Moves(c)
  BY <1>1 DEF StartCheckout, Moves, Shapes, Busy, Requests
<1>3. CheckoutOK(c)'
  <2>1. /\ cart'[c] = items /\ tendered'[c] = payments /\ sales'[c] = sales[c]
        /\ pc'[c] = IF WellFormed(items) THEN "price" ELSE "refused"
        /\ pc[c] = "idle"
    BY <1>1 DEF StartCheckout, Shapes
  <2>2. items \in Seq(Item) /\ payments \in Seq(Payment)
    BY ListsAssumption
  <2> QED
    BY <1>1, <2>1, <2>2 DEF CheckoutOK, GoodItems, Busy
<1> QED
  BY <1>2, <1>3, CheckoutKeeps

LEMMA ReadPricesKeeps ==
  ASSUME MoneyInv, NEW r \in Checkouts \cup Orders, ReadPrices(r)
  PROVE  MoneyInv'
<1>1. Shapes /\ r \in Requests
  BY DEF MoneyInv, Requests
<1>2. Moves(r)
  BY <1>1 DEF ReadPrices, Moves, Shapes, Busy, Requests
<1>3. /\ pc[r] = "price" /\ pc'[r] = "tally" /\ cart'[r] = cart[r]
      /\ read'[r] = price /\ price \in [Products -> Prices]
      /\ UNCHANGED <<tendered, sales, orders>>
  BY <1>1 DEF ReadPrices, Shapes
<1>4. CASE r \in Checkouts
  <2>1. CheckoutOK(r)
    BY <1>4 DEF MoneyInv
  <2>2. CheckoutOK(r)'
    BY <1>3, <2>1 DEF CheckoutOK, Busy
  <2> QED
    BY <1>2, <1>4, <2>2, CheckoutKeeps
<1>5. CASE r \in Orders
  <2>1. OrderOK(r)
    BY <1>5 DEF MoneyInv
  <2>2. OrderOK(r)'
    BY <1>3, <2>1 DEF OrderOK, Busy
  <2> QED
    BY <1>2, <1>5, <2>2, OrderKeeps
<1> QED
  BY <1>4, <1>5

LEMMA TallyKeeps ==
  ASSUME MoneyInv, NEW c \in Checkouts, Tally(c)
  PROVE  MoneyInv'
<1>1. Shapes /\ CheckoutOK(c) /\ c \in Requests
  BY DEF MoneyInv, Requests
<1>2. Moves(c)
  BY <1>1 DEF Tally, Moves, Shapes, Busy, Requests
<1>3. /\ pc[c] = "tally" /\ total'[c] = CartTotal(c)
      /\ pc'[c] = IF CartTotal(c) # Overflow /\ Settles(tendered[c], CartTotal(c))
                  THEN "write" ELSE "failed"
      /\ UNCHANGED <<cart, tendered, read, sales>>
  BY <1>1 DEF Tally, Shapes
<1>4. CartTotal(c)' = CartTotal(c)
  BY <1>3 DEF CartTotal
<1>5. CheckoutOK(c)'
  BY <1>1, <1>3, <1>4 DEF CheckoutOK, Busy
<1> QED
  BY <1>2, <1>5, CheckoutKeeps

LEMMA WriteSaleKeeps ==
  ASSUME MoneyInv, NEW c \in Checkouts, WriteSale(c)
  PROVE  MoneyInv'
<1> DEFINE lines == Priced(cart[c], read[c])
           s == [total |-> total[c], lines |-> lines, payments |-> tendered[c]]
<1>1. Shapes /\ CheckoutOK(c) /\ c \in Requests
  BY DEF MoneyInv, Requests
<1>2. /\ pc[c] = "write" /\ pc'[c] = "committed" /\ sales'[c] = s
      /\ sales[c] = None /\ UNCHANGED tendered
  BY <1>1 DEF WriteSale, Shapes, CheckoutOK
<1>3. Moves(c)
  BY <1>1, <1>2 DEF WriteSale, Moves, Shapes, Busy, Requests, Sold
<1>4. /\ GoodItems(cart[c]) /\ read[c] \in [Products -> Nat]
      /\ total[c] = CartTotal(c) /\ total[c] # Overflow /\ Settles(tendered[c], total[c])
      /\ tendered[c] \in Seq(Payment)
  BY <1>1, <1>2, AmountsAssumption DEF CheckoutOK, Busy
<1>5. \A k \in 1..Len(cart[c]) : read[c][cart[c][k].product] \in Nat
  BY <1>4, ItemFacts
<1>6. lines # <<>> /\ Subtotals(lines) \in Seq(Nat)
  BY <1>4, <1>5, PricedFacts
<1>7. AtPrices(lines)
  BY <1>4 DEF AtPrices
<1>8. total[c] = Total(Subtotals(lines))
  BY <1>4 DEF CartTotal
<1> HIDE DEF lines
<1>9. total[c] \in 0..MaxAmount /\ total[c] = SumOf(Subtotals(lines))
  BY <1>4, <1>6, <1>8, TotalIsSum
<1>10. tendered[c] # <<>> =>
          total[c] = SumOf([k \in DOMAIN tendered[c] |-> tendered[c][k].amount])
  BY <1>4, SettledSum
<1>11. SaleDoc(s)
  BY <1>6, <1>7, <1>9, <1>10 DEF SaleDoc
<1>12. CheckoutOK(c)'
  BY <1>2, <1>4, <1>11 DEF CheckoutOK, Busy
<1> QED
  BY <1>3, <1>12, CheckoutKeeps
-----------------------------------------------------------------------------
(* The statements of a return. *)

LEMMA StartReturnKeeps ==
  ASSUME MoneyInv, NEW r \in Returns, NEW c \in Checkouts, NEW items \in Carts,
         StartReturn(r, c, items)
  PROVE  MoneyInv'
<1>1. Shapes /\ ReturnOK(r) /\ r \in Requests
  BY DEF MoneyInv, Requests
<1>2. Moves(r)
  BY <1>1 DEF StartReturn, Moves, Shapes, Busy, Requests
<1>3. ReturnOK(r)'
  <2>1. /\ cart'[r] = items /\ of'[r] = c /\ pc[r] = "idle"
        /\ UNCHANGED <<sales, refunds>>
        /\ pc'[r] = IF WellFormed(items) /\ sales[c] # None THEN "price" ELSE "refused"
    BY <1>1 DEF StartReturn, Shapes
  <2>2. items \in Seq(Item)
    BY ListsAssumption
  <2> QED
    BY <1>1, <2>1, <2>2 DEF ReturnOK, GoodItems, Busy, Sold
<1> QED
  BY <1>2, <1>3, ReturnKeeps

LEMMA ReadSaleKeeps ==
  ASSUME MoneyInv, NEW r \in Returns, NEW c \in Checkouts, ReadSale(r, c)
  PROVE  MoneyInv'
<1>1. Shapes /\ ReturnOK(r) /\ r \in Requests
  BY DEF MoneyInv, Requests
<1>2. Moves(r)
  BY <1>1 DEF ReadSale, Moves, Shapes, Busy, Requests
<1>3. /\ pc[r] = "price" /\ pc'[r] = "tally" /\ of[r] = c
      /\ read'[r] = UnitPrices(sales[c].lines)
      /\ UNCHANGED <<cart, of, sales, refunds>>
  BY <1>1 DEF ReadSale, Shapes
<1>4. ReturnOK(r)'
  BY <1>1, <1>3 DEF ReturnOK, Busy, Sold
<1> QED
  BY <1>2, <1>4, ReturnKeeps

LEMMA TallyReturnKeeps ==
  ASSUME MoneyInv, NEW r \in Returns, TallyReturn(r)
  PROVE  MoneyInv'
<1>1. Shapes /\ ReturnOK(r) /\ r \in Requests
  BY DEF MoneyInv, Requests
<1>2. Moves(r)
  BY <1>1 DEF TallyReturn, Moves, Shapes, Busy, Requests
<1>3. /\ pc[r] = "tally" /\ pc'[r] \in {"write", "failed"}
      /\ pc'[r] = "write" =>
           /\ total'[r] = CartTotal(r) /\ CartTotal(r) # Overflow
           /\ \A k \in DOMAIN cart[r] : cart[r][k].product \in DOMAIN read[r]
      /\ UNCHANGED <<cart, of, sales, refunds, read>>
  BY <1>1 DEF TallyReturn, Shapes
<1>4. CartTotal(r)' = CartTotal(r) /\ Sold' = Sold
  BY <1>3 DEF CartTotal, Sold
<1>5. ReturnOK(r)'
  BY <1>1, <1>3, <1>4 DEF ReturnOK, Busy
<1> QED
  BY <1>2, <1>5, ReturnKeeps

\* Two lines of one product at the same price cost the same for each unit.
LEMMA SamePrice ==
  ASSUME NEW v \in Nat, NEW m \in Nat, NEW n \in Nat
  PROVE  (v * m) * n = (v * n) * m
OBVIOUS

LEMMA WriteReturnKeeps ==
  ASSUME MoneyInv, NEW r \in Returns, WriteReturn(r)
  PROVE  MoneyInv'
<1> DEFINE lines == Priced(cart[r], read[r])
           s == [total |-> total[r], lines |-> lines]
           sold == sales[of[r]].lines
<1>1. Shapes /\ ReturnOK(r) /\ r \in Requests
  BY DEF MoneyInv, Requests
<1>2. /\ pc[r] = "write" /\ pc'[r] = "committed" /\ refunds'[r] = s
      /\ UNCHANGED <<of, sales>>
  BY <1>1 DEF WriteReturn, Shapes
<1>3. Moves(r)
  BY <1>1, <1>2 DEF WriteReturn, Moves, Shapes, Busy, Requests
<1>4. /\ GoodItems(cart[r]) /\ of[r] \in Sold /\ read[r] = UnitPrices(sold)
      /\ total[r] = CartTotal(r) /\ total[r] # Overflow
      /\ \A k \in DOMAIN cart[r] : cart[r][k].product \in DOMAIN read[r]
  BY <1>1, <1>2 DEF ReturnOK, Busy
<1>5. AtPrices(sold)
  BY <1>4 DEF MoneyInv, CheckoutOK, Sold, SaleDoc
<1>6. PICK items, prices : /\ GoodItems(items) /\ prices \in [Products -> Nat]
                           /\ sold = Priced(items, prices)
  BY <1>5 DEF AtPrices
<1> HIDE DEF lines, sold
<1>7. \A p \in DOMAIN read[r] : read[r][p] = prices[p]
  <2>1. \A p \in DOMAIN UnitPrices(Priced(items, prices)) :
           UnitPrices(Priced(items, prices))[p] = prices[p]
    BY <1>6, UnitPricesRead
  <2>2. read[r] = UnitPrices(Priced(items, prices))
    BY <1>4, <1>6
  <2> QED
    BY <2>1, <2>2
<1>8. /\ Len(cart[r]) \in Nat \ {0} /\ DOMAIN cart[r] = 1..Len(cart[r])
      /\ \A k \in 1..Len(cart[r]) : /\ cart[r][k].product \in Products
                                    /\ cart[r][k].quantity \in Nat \ {0}
  BY <1>4, ItemFacts
<1>9. \A k \in 1..Len(cart[r]) : /\ read[r][cart[r][k].product] = prices[cart[r][k].product]
                                 /\ read[r][cart[r][k].product] \in Nat
  BY <1>4, <1>6, <1>7, <1>8
<1>10. /\ lines # <<>> /\ Subtotals(lines) \in Seq(Nat)
       /\ DOMAIN lines = 1..Len(cart[r])
       /\ \A k \in DOMAIN lines :
            /\ lines[k].product = cart[r][k].product
            /\ lines[k].quantity = cart[r][k].quantity
            /\ lines[k].subtotal = read[r][cart[r][k].product] * cart[r][k].quantity
  BY <1>4, <1>9, PricedFacts DEF lines
<1>11. total[r] = Total(Subtotals(lines))
  BY <1>4 DEF CartTotal, lines
<1>12. total[r] \in 0..MaxAmount /\ total[r] = SumOf(Subtotals(lines))
  BY <1>4, <1>10, <1>11, TotalIsSum
<1>13. ASSUME NEW k \in DOMAIN lines, NEW j \in DOMAIN sold,
              sold[j].product = lines[k].product
       PROVE  lines[k].subtotal * sold[j].quantity = sold[j].subtotal * lines[k].quantity
  <2> DEFINE v == prices[lines[k].product]
             m == lines[k].quantity
             n == sold[j].quantity
  <2>1. /\ v \in Nat /\ m \in Nat /\ lines[k].subtotal = v * m
    BY <1>6, <1>8, <1>9, <1>10
  <2>2. \A i \in 1..Len(items) : items[i].product \in Products /\ items[i].quantity \in Nat \ {0}
    BY <1>6, ItemFacts
  <2>3. \A i \in 1..Len(items) : prices[items[i].product] \in Nat
    BY <1>6, <2>2
  <2>4. /\ DOMAIN sold = 1..Len(items)
        /\ \A i \in 1..Len(items) : /\ sold[i].product = items[i].product
                                    /\ sold[i].quantity = items[i].quantity
                                    /\ sold[i].subtotal = prices[items[i].product] * items[i].quantity
    BY <1>6, <2>3, PricedFacts
  <2>5. n \in Nat /\ sold[j].subtotal = v * n
    BY <1>13, <2>2, <2>4
  <2> HIDE DEF v, m, n
  <2>6. (v * m) * n = (v * n) * m
    BY <2>1, <2>5, SamePrice
  <2> QED
    BY <2>1, <2>5, <2>6 DEF m, n
<1>14. RefundDoc(s, sold)
  BY <1>10, <1>12, <1>13 DEF RefundDoc
<1>15. ReturnOK(r)'
  BY <1>2, <1>4, <1>14 DEF ReturnOK, Busy, Sold, sold
<1> QED
  BY <1>3, <1>15, ReturnKeeps
-----------------------------------------------------------------------------
(* The statements of a purchase order, and the other steps. *)

LEMMA StartOrderKeeps ==
  ASSUME MoneyInv, NEW o \in Orders, NEW items \in OrderCarts, StartOrder(o, items)
  PROVE  MoneyInv'
<1>1. Shapes /\ OrderOK(o) /\ o \in Requests
  BY DEF MoneyInv, Requests
<1>2. Moves(o)
  BY <1>1 DEF StartOrder, Moves, Shapes, Busy, Requests
<1>3. OrderOK(o)'
  <2>1. /\ cart'[o] = items /\ UNCHANGED orders /\ pc[o] = "idle"
        /\ pc'[o] = IF WellFormed(items) THEN "price" ELSE "refused"
    BY <1>1 DEF StartOrder, Shapes
  <2>2. items \in Seq(OrderItem)
    BY ListsAssumption
  <2> QED
    BY <1>1, <2>1, <2>2 DEF OrderOK, GoodOrder, Busy
<1> QED
  BY <1>2, <1>3, OrderKeeps

LEMMA TallyOrderKeeps ==
  ASSUME MoneyInv, NEW o \in Orders, TallyOrder(o)
  PROVE  MoneyInv'
<1> DEFINE items == Resolved(cart[o], read[o])
<1>1. Shapes /\ OrderOK(o) /\ o \in Requests
  BY DEF MoneyInv, Requests
<1>2. Moves(o)
  BY <1>1 DEF TallyOrder, Moves, Shapes, Busy, Requests
<1>3. /\ pc[o] = "tally" /\ cart'[o] = items /\ total'[o] = OrderTotal(items)
      /\ pc'[o] = IF OrderTotal(items) # Overflow THEN "write" ELSE "failed"
      /\ UNCHANGED orders
  BY <1>1 DEF TallyOrder, Shapes
<1>4. GoodOrder(cart[o]) /\ read[o] \in [Products -> Nat]
  BY <1>1, <1>3, AmountsAssumption DEF OrderOK, Busy
<1>5. GoodOrder(items) /\ Costed(items)
  BY <1>4, ResolvedFacts
<1> HIDE DEF items
<1>6. OrderOK(o)'
  BY <1>1, <1>3, <1>5 DEF OrderOK, Busy
<1> QED
  BY <1>2, <1>6, OrderKeeps

LEMMA WriteOrderKeeps ==
  ASSUME MoneyInv, NEW o \in Orders, WriteOrder(o)
  PROVE  MoneyInv'
<1> DEFINE lines == OrderLines(cart[o])
           s == [total |-> total[o], lines |-> lines]
<1>1. Shapes /\ OrderOK(o) /\ o \in Requests
  BY DEF MoneyInv, Requests
<1>2. pc[o] = "write" /\ pc'[o] = "committed" /\ orders'[o] = s
  BY <1>1 DEF WriteOrder, Shapes
<1>3. Moves(o)
  BY <1>1, <1>2 DEF WriteOrder, Moves, Shapes, Busy, Requests
<1>4. /\ GoodOrder(cart[o]) /\ Costed(cart[o])
      /\ total[o] = Total(Subtotals(lines)) /\ total[o] # Overflow
  BY <1>1, <1>2 DEF OrderOK, Busy, OrderTotal
<1>5. lines # <<>> /\ Subtotals(lines) \in Seq(Nat)
  BY <1>4, OrderLinesFacts
<1> HIDE DEF lines
<1>6. total[o] \in 0..MaxAmount /\ total[o] = SumOf(Subtotals(lines))
  BY <1>4, <1>5, TotalIsSum
<1>7. OrderDoc(s)
  BY <1>5, <1>6 DEF OrderDoc
<1>8. OrderOK(o)'
  BY <1>2, <1>7 DEF OrderOK, Busy
<1> QED
  BY <1>3, <1>8, OrderKeeps

LEMMA AbortKeeps ==
  ASSUME MoneyInv, NEW r \in Requests, Abort(r)
  PROVE  MoneyInv'
<1>1. Shapes
  BY DEF MoneyInv
<1>2. Moves(r)
  BY <1>1 DEF Abort, Moves, Shapes, Busy, Requests
<1>3. /\ pc[r] \in Busy /\ pc'[r] = "failed"
      /\ UNCHANGED <<tendered, of, sales, refunds, orders>>
  BY <1>1 DEF Abort, Shapes, Busy
<1>4. CASE r \in Checkouts
  <2>1. CheckoutOK(r)'
    BY <1>3, <1>4 DEF MoneyInv, CheckoutOK, Busy
  <2> QED
    BY <1>2, <1>4, <2>1, CheckoutKeeps
<1>5. CASE r \in Returns
  <2>1. ReturnOK(r)'
    BY <1>3, <1>5 DEF MoneyInv, ReturnOK, Busy
  <2> QED
    BY <1>2, <1>5, <2>1, ReturnKeeps
<1>6. CASE r \in Orders
  <2>1. OrderOK(r)'
    BY <1>3, <1>6 DEF MoneyInv, OrderOK, Busy
  <2> QED
    BY <1>2, <1>6, <2>1, OrderKeeps
<1> QED
  BY <1>4, <1>5, <1>6 DEF Requests

\* A new price changes no request: none of them reads it but ReadPrices.
LEMMA PriceKeeps ==
  ASSUME MoneyInv, price' \in [Products -> Prices],
         UNCHANGED <<pc, cart, tendered, read, total, of, sales, refunds, orders>>
  PROVE  MoneyInv'
<1>1. Shapes'
  BY DEF MoneyInv, Shapes
<1>2. Sold' = Sold /\ \A r : CartTotal(r)' = CartTotal(r)
  BY DEF Sold, CartTotal
<1>3. \A c \in Checkouts : CheckoutOK(c)'
  BY <1>2 DEF MoneyInv, CheckoutOK
<1>4. \A r \in Returns : ReturnOK(r)'
  BY <1>2 DEF MoneyInv, ReturnOK
<1>5. \A o \in Orders : OrderOK(o)'
  BY DEF MoneyInv, OrderOK
<1> QED
  BY <1>1, <1>3, <1>4, <1>5 DEF MoneyInv

LEMMA MoneyStep == MoneyInv /\ [Next]_vars => MoneyInv'
<1> SUFFICES ASSUME MoneyInv, [Next]_vars
             PROVE  MoneyInv'
  OBVIOUS
<1>1. ASSUME NEW p \in Products, NEW v \in Prices, SetPrice(p, v)
      PROVE  MoneyInv'
  <2>1. price' \in [Products -> Prices]
    BY <1>1 DEF SetPrice, MoneyInv, Shapes
  <2> QED
    BY <1>1, <2>1, PriceKeeps DEF SetPrice
<1>2. CASE UNCHANGED vars
  BY <1>2, PriceKeeps DEF vars, MoneyInv, Shapes
<1> QED
  BY <1>1, <1>2, StartCheckoutKeeps, TallyKeeps, WriteSaleKeeps, StartReturnKeeps, ReadSaleKeeps,
     TallyReturnKeeps, WriteReturnKeeps, StartOrderKeeps, TallyOrderKeeps, WriteOrderKeeps,
     ReadPricesKeeps, AbortKeeps DEF Next

LEMMA MoneyInvariant == Spec => []MoneyInv
BY MoneyInit, MoneyStep, PTL DEF Spec

\* Every committed amount fits its column and no committed document is empty, for
\* any carts, prices and largest amount.
THEOREM AmountsFit == Spec => []TypeOK
<1>1. MoneyInv => TypeOK
  BY InvMeans
<1> QED
  BY <1>1, MoneyInvariant, PTL

\* The total of a sale is the sum of its lines and, when it names payments, of its
\* payments; the totals of a return and of a purchase order are the sums of their
\* items: for lists of any length and whatever the prices become while the documents are made.
THEOREM TotalsAddUp == Spec => []DocumentsAddUp
<1>1. MoneyInv => DocumentsAddUp
  BY InvMeans
<1> QED
  BY <1>1, MoneyInvariant, PTL

\* A refund pays for a unit what the sale charged for it, however often its price
\* has changed since and however many lines of the sale name the product.
THEOREM RefundsAtSalePrice == Spec => []RefundAtSalePrice
<1>1. MoneyInv => RefundAtSalePrice
  BY InvMeans
<1> QED
  BY <1>1, MoneyInvariant, PTL
=============================================================================

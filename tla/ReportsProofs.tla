--------------------------- MODULE ReportsProofs ---------------------------
(***************************************************************************)
(* What Reports and ReceiptNumber guarantee for any number of checkouts    *)
(* and readers.  First the receipts: their numbers are unique whatever the *)
(* clocks do, on the days that no checkout spans they are consecutive, and *)
(* no checkout collides with one it counted.  Then the readers, who do not *)
(* disturb the checkouts: the reports of the same days reconcile, because a sum does   *)
(* not depend on the order or on the grouping of its terms; the pages are  *)
(* a partition of the list; the statements of a report agree; and a walk   *)
(* through the list misses nothing.                                        *)
(***************************************************************************)
EXTENDS Reports, FiniteSetTheorems, SequenceTheorems, WellFoundedInduction, TLAPS

(* Receipts. *)

\* The number of an inserted receipt is nobody else's.
Reserved ==
  /\ \A c \in Checkouts : pc[c] = "inserted" => number[c] \notin Issued
  /\ \A b, c \in Checkouts :
        pc[b] = "inserted" /\ pc[c] = "inserted" /\ number[b] = number[c] => b = c
  /\ \A c \in Checkouts : pc[c] \in {"numbered", "inserted"} => number[c] \in Number

UniqueInv == TypeOK /\ IsFiniteSet(receipts) /\ Reserved /\ NumbersUnique

-----------------------------------------------------------------------------
(* Unique numbers. *)

LEMMA CountType ==
  ASSUME UniqueInv, NEW d
  PROVE  CountOf(d) \in Nat
<1>1. IsFiniteSet(ReceiptsOf(d))
  BY FS_Subset DEF UniqueInv, ReceiptsOf
<1> QED
  BY <1>1, FS_CardinalityType DEF CountOf

LEMMA UniqueInit == Init => UniqueInv
BY DaysAssumption, FS_EmptySet
   DEF Init, UniqueInv, TypeOK, Reserved, NumbersUnique, Days, Issued

LEMMA UniqueStep == UniqueInv /\ [Next]_vars => UniqueInv'
<1> SUFFICES ASSUME UniqueInv, [Next]_vars
             PROVE  UniqueInv'
  OBVIOUS
<1> USE DEF UniqueInv
<1>1. ASSUME NEW c \in Checkouts, Begin(c)
      PROVE  UniqueInv'
  <2>1. TypeOK'
    BY <1>1 DEF Begin, TypeOK, InFlight
  <2>2. Reserved'
    BY <1>1 DEF Begin, TypeOK, Reserved, Issued
  <2>3. NumbersUnique' /\ IsFiniteSet(receipts)'
    BY <1>1 DEF Begin, NumbersUnique
  <2> QED
    BY <2>1, <2>2, <2>3
<1>2. ASSUME NEW c \in Checkouts, GenerateReceiptNumber(c)
      PROVE  UniqueInv'
  <2> DEFINE n == [day |-> appDay, serial |-> CountOf(began[c]) + 1]
  <2>1. n \in Number
    BY CountType DEF Number, TypeOK
  <2>2. /\ UNCHANGED <<dbDay, appDay, began, receipts>>
        /\ pc' = [pc EXCEPT ![c] = "numbered"]
        /\ number' = [number EXCEPT ![c] = n]
        /\ tallied' = [tallied EXCEPT ![c] = ReceiptsOf(began[c])]
    BY <1>2 DEF GenerateReceiptNumber
  <2> HIDE DEF n
  <2>3. TypeOK'
    BY <2>1, <2>2 DEF TypeOK, InFlight, ReceiptsOf
  <2>4. Reserved'
    BY <2>1, <2>2 DEF TypeOK, Reserved, Issued
  <2>5. NumbersUnique' /\ IsFiniteSet(receipts)'
    BY <2>2 DEF NumbersUnique
  <2> QED
    BY <2>3, <2>4, <2>5
<1>3. ASSUME NEW c \in Checkouts, InsertReceipt(c)
      PROVE  UniqueInv'
  <2>1. TypeOK'
    BY <1>3 DEF InsertReceipt, TypeOK, InFlight, Ended
  <2>2. Reserved'
    BY <1>3 DEF InsertReceipt, TypeOK, Reserved, Issued
  <2>3. NumbersUnique' /\ IsFiniteSet(receipts)'
    BY <1>3 DEF InsertReceipt, NumbersUnique
  <2> QED
    BY <2>1, <2>2, <2>3
<1>4. ASSUME NEW c \in Checkouts, Commit(c)
      PROVE  UniqueInv'
  <2> DEFINE x == [checkout |-> c, day |-> began[c], number |-> number[c]]
  <2>1. number[c] \in Number /\ number[c] \notin Issued /\ x.number = number[c]
    BY <1>4 DEF Commit, Reserved
  <2>2. x \in Receipt
    BY <2>1 DEF Receipt, TypeOK
  <2>3. /\ UNCHANGED <<dbDay, appDay, began, number, tallied>>
        /\ pc' = [pc EXCEPT ![c] = "committed"]
        /\ receipts' = receipts \cup {x}
        /\ pc[c] = "inserted"
    BY <1>4 DEF Commit
  <2> HIDE DEF x
  <2>4. TypeOK'
    BY <2>2, <2>3 DEF TypeOK, Ended
  <2>5. IsFiniteSet(receipts)'
    BY <2>3, FS_AddElement
  <2>6. Issued' = Issued \cup {number[c]}
    BY <2>1, <2>3 DEF Issued
  <2>7. Reserved'
    BY <2>3, <2>6 DEF TypeOK, Reserved
  <2>8. NumbersUnique'
    BY <2>1, <2>3 DEF NumbersUnique, Issued
  <2> QED
    BY <2>4, <2>5, <2>7, <2>8
<1>5. ASSUME NEW c \in Checkouts, Abort(c)
      PROVE  UniqueInv'
  <2>1. TypeOK'
    BY <1>5 DEF Abort, TypeOK, Ended
  <2>2. Reserved'
    BY <1>5 DEF Abort, TypeOK, Reserved, Issued
  <2>3. NumbersUnique' /\ IsFiniteSet(receipts)'
    BY <1>5 DEF Abort, NumbersUnique
  <2> QED
    BY <2>1, <2>2, <2>3
<1>6. ASSUME AppMidnight \/ DbMidnight
      PROVE  UniqueInv'
  <2>1. UNCHANGED <<pc, began, number, tallied, receipts>>
    BY <1>6 DEF AppMidnight, DbMidnight
  <2>2. dbDay' \in Days /\ appDay' \in Days
    BY <1>6, DaysAssumption DEF AppMidnight, DbMidnight, TypeOK, Days
  <2> QED
    BY <2>1, <2>2 DEF TypeOK, Reserved, NumbersUnique, Issued
<1>7. ASSUME UNCHANGED vars
      PROVE  UniqueInv'
  BY <1>7 DEF vars, TypeOK, Reserved, NumbersUnique, Issued
<1> QED
  BY <1>1, <1>2, <1>3, <1>4, <1>5, <1>6, <1>7 DEF Next, Statement, Finished

LEMMA UniqueInvariant == Spec => []UniqueInv
BY UniqueInit, UniqueStep, PTL DEF Spec

\* No two receipts share a number, for any number of checkouts and any days the
\* two clocks show.
THEOREM ReceiptNumbersUnique == Spec => []NumbersUnique
<1>1. UniqueInv => NumbersUnique
  BY DEF UniqueInv
<1> QED
  BY <1>1, UniqueInvariant, PTL
-----------------------------------------------------------------------------
(* Consecutive numbers on the days no checkout spans. *)

\* No checkout is ahead of the next serial of the day it began on.
Bounded ==
  \A c \in Checkouts :
     pc[c] \in {"numbered", "inserted"} =>
        number[c].serial <= CountOf(began[c]) + 1

DayInv == UniqueInv /\ Consecutive /\ Bounded

\* A number of a clear day that is not issued and not ahead is the next one.
LEMMA NextSerial ==
  ASSUME DayInv, NEW d \in Days, ClearDay(d),
         NEW n \in Number, n.day = d, n \notin Issued, n.serial <= CountOf(d) + 1
  PROVE  n.serial = CountOf(d) + 1
<1>1. CountOf(d) \in Nat /\ n.serial \in Nat \ {0}
  BY CountType DEF DayInv, Number
<1>2. SUFFICES ASSUME n.serial \in 1..CountOf(d)
               PROVE  FALSE
  BY <1>1
<1>3. PICK x \in receipts : x.day = d /\ x.number.serial = n.serial
  BY <1>2 DEF DayInv, Consecutive
<1>4. x.number \in Number /\ x.number.day = n.day
  BY <1>3 DEF DayInv, UniqueInv, TypeOK, Receipt, ClearDay
<1>5. x.number = n
  BY <1>3, <1>4 DEF Number
<1> QED
  BY <1>3, <1>5 DEF Issued

LEMMA DayInit == Init => DayInv
<1> SUFFICES ASSUME Init
             PROVE  DayInv
  OBVIOUS
<1>1. ASSUME NEW d \in Days
      PROVE  {x.number.serial : x \in {y \in receipts : y.day = d}} = 1..CountOf(d)
  <2>1. {y \in receipts : y.day = d} = {} /\ ReceiptsOf(d) = {}
    BY DEF Init, ReceiptsOf
  <2>2. CountOf(d) = 0
    BY <2>1, FS_EmptySet DEF CountOf
  <2> QED
    BY <2>1, <2>2
<1>2. Consecutive
  BY <1>1 DEF Consecutive
<1>3. Bounded
  BY DEF Init, Bounded
<1> QED
  BY <1>2, <1>3, UniqueInit DEF DayInv

\* The step that adds a receipt: only its own day changes, and that day stays
\* without a gap if it stays clear.
LEMMA DayCommit ==
  ASSUME DayInv, NEW c \in Checkouts, Commit(c)
  PROVE  Consecutive' /\ Bounded'
<1> DEFINE x == [checkout |-> c, day |-> began[c], number |-> number[c]]
           k == CountOf(began[c])
<1>0. TypeOK /\ IsFiniteSet(receipts)
  BY DEF DayInv, UniqueInv
<1>1. /\ number[c] \in Number /\ number[c] \notin Issued
      /\ number[c].serial <= k + 1
      /\ began[c] \in Days
  BY <1>0 DEF Commit, DayInv, UniqueInv, Reserved, Bounded, TypeOK
<1>2. x \notin receipts /\ x.day = began[c] /\ x.number = number[c]
  BY <1>1 DEF Issued
<1>3. receipts' = receipts \cup {x} /\ UNCHANGED <<number, began>>
  BY DEF Commit
<1> HIDE DEF x
<1>4. \A d \in Days : CountOf(d) \in Nat
  BY CountType DEF DayInv
<1>5. ASSUME NEW d \in Days
      PROVE  CountOf(d)' = IF d = began[c] THEN CountOf(d) + 1 ELSE CountOf(d)
  <2>1. IsFiniteSet({y \in receipts : y.day = d})
    BY <1>0, FS_Subset
  <2>2. CASE d = began[c]
    <3>1. {y \in receipts' : y.day = d} = {y \in receipts : y.day = d} \cup {x}
      BY <1>2, <1>3, <2>2
    <3>2. x \notin {y \in receipts : y.day = d}
      BY <1>2
    <3>3. Cardinality({y \in receipts' : y.day = d})
             = Cardinality({y \in receipts : y.day = d}) + 1
      BY <2>1, <3>1, <3>2, FS_AddElement
    <3> QED
      BY <2>2, <3>3 DEF CountOf, ReceiptsOf
  <2>3. CASE d # began[c]
    <3>1. {y \in receipts' : y.day = d} = {y \in receipts : y.day = d}
      BY <1>2, <1>3, <2>3
    <3> QED
      BY <2>3, <3>1 DEF CountOf, ReceiptsOf
  <2> QED
    BY <2>2, <2>3
<1>6. ASSUME NEW d \in Days, ClearDay(d)'
      PROVE  {y.number.serial : y \in {z \in receipts' : z.day = d}} = 1..CountOf(d)'
  <2>1. ClearDay(d)
    BY <1>3, <1>6 DEF ClearDay
  <2>2. {y.number.serial : y \in {z \in receipts : z.day = d}} = 1..CountOf(d)
    BY <2>1 DEF DayInv, Consecutive
  <2>3. CASE d = began[c]
    <3>1. x \in receipts'
      BY <1>3
    <3>2. number[c].day = d
      BY <1>2, <1>6, <2>3, <3>1 DEF ClearDay
    <3>3. number[c].serial = CountOf(d) + 1
      BY <1>1, <2>1, <2>3, <3>2, NextSerial
    <3>4. {z \in receipts' : z.day = d} = {z \in receipts : z.day = d} \cup {x}
      BY <1>2, <1>3, <2>3
    <3>5. {y.number.serial : y \in {z \in receipts' : z.day = d}}
             = {y.number.serial : y \in {z \in receipts : z.day = d}} \cup {CountOf(d) + 1}
      BY <1>2, <3>3, <3>4
    <3>6. (1..CountOf(d)) \cup {CountOf(d) + 1} = 1..(CountOf(d) + 1)
      BY <1>4
    <3>7. CountOf(d)' = CountOf(d) + 1
      BY <1>5, <2>3
    <3> QED
      BY <2>2, <3>5, <3>6, <3>7
  <2>4. CASE d # began[c]
    <3>1. {z \in receipts' : z.day = d} = {z \in receipts : z.day = d}
      BY <1>2, <1>3, <2>4
    <3>2. CountOf(d)' = CountOf(d)
      BY <1>5, <2>4
    <3> QED
      BY <2>2, <3>1, <3>2
  <2> QED
    BY <2>3, <2>4
<1>7. Consecutive'
  BY <1>6 DEF Consecutive, Days
<1>8. \A b \in Checkouts : pc'[b] \in {"numbered", "inserted"} =>
                              pc[b] \in {"numbered", "inserted"}
  BY <1>0 DEF Commit, TypeOK
<1>9. ASSUME NEW b \in Checkouts, pc[b] \in {"numbered", "inserted"}
      PROVE  number[b].serial <= CountOf(began[b])' + 1
  <2>1. /\ number[b].serial \in Nat /\ began[b] \in Days
        /\ number[b].serial <= CountOf(began[b]) + 1
    BY <1>0, <1>9 DEF DayInv, UniqueInv, Reserved, Number, Bounded, TypeOK
  <2>2. CountOf(began[b]) \in Nat
    BY <1>4, <2>1
  <2>3. CountOf(began[b])' = IF began[b] = began[c] THEN CountOf(began[b]) + 1
                                                   ELSE CountOf(began[b])
    <3> DEFINE e == began[b]
    <3>1. e' = e /\ e \in Days
      BY <1>3, <2>1
    <3> HIDE DEF e
    <3>2. CountOf(e)' = IF e = began[c] THEN CountOf(e) + 1 ELSE CountOf(e)
      BY <1>5, <3>1 DEF CountOf, ReceiptsOf
    <3> QED
      BY <1>3, <3>2 DEF e, CountOf, ReceiptsOf
  <2> QED
    BY <2>1, <2>2, <2>3
<1>10. Bounded'
  BY <1>3, <1>8, <1>9 DEF Bounded, CountOf, ReceiptsOf
<1> QED
  BY <1>7, <1>10

LEMMA DayStep == DayInv /\ [Next]_vars => DayInv'
<1> SUFFICES ASSUME DayInv, [Next]_vars
             PROVE  Consecutive' /\ Bounded'
  BY UniqueStep DEF DayInv
<1>0. TypeOK
  BY DEF DayInv, UniqueInv
<1>1. ASSUME UNCHANGED receipts,
             \A c \in Checkouts : pc'[c] \in {"numbered", "inserted"} =>
                /\ pc[c] \in {"numbered", "inserted"}
                /\ number'[c] = number[c] /\ began'[c] = began[c]
      PROVE  Consecutive' /\ Bounded'
  BY <1>1 DEF DayInv, Consecutive, ClearDay, Bounded, CountOf, ReceiptsOf
<1>2. ASSUME NEW c \in Checkouts, GenerateReceiptNumber(c)
      PROVE  Consecutive' /\ Bounded'
  <2>1. CountOf(began[c]) \in Nat
    BY CountType DEF DayInv
  <2>2. number'[c].serial = CountOf(began[c]) + 1
    BY <1>0, <1>2 DEF GenerateReceiptNumber, TypeOK
  <2>3. receipts' = receipts /\ began' = began
    BY <1>2 DEF GenerateReceiptNumber
  <2>4. \A b \in Checkouts \ {c} : pc'[b] = pc[b] /\ number'[b] = number[b]
    BY <1>0, <1>2 DEF GenerateReceiptNumber, TypeOK
  <2>5. Consecutive'
    BY <2>3 DEF DayInv, Consecutive, ClearDay, CountOf, ReceiptsOf
  <2>6. ASSUME NEW b \in Checkouts, pc'[b] \in {"numbered", "inserted"}
        PROVE  number'[b].serial <= CountOf(began[b]) + 1
    <3>1. CASE b = c
      BY <2>1, <2>2, <3>1
    <3>2. CASE b # c
      BY <2>4, <2>6, <3>2 DEF DayInv, Bounded
    <3> QED
      BY <3>1, <3>2
  <2>7. Bounded'
    BY <2>3, <2>6 DEF Bounded, CountOf, ReceiptsOf
  <2> QED
    BY <2>5, <2>7
<1>3. ASSUME NEW c \in Checkouts, Commit(c)
      PROVE  Consecutive' /\ Bounded'
  BY <1>3, DayCommit
<1>4. ASSUME NEW c \in Checkouts, Begin(c) \/ InsertReceipt(c) \/ Abort(c)
      PROVE  Consecutive' /\ Bounded'
  <2>1. UNCHANGED <<receipts, number>>
    BY <1>4 DEF Begin, InsertReceipt, Abort
  <2>2. \A b \in Checkouts : pc'[b] \in {"numbered", "inserted"} =>
           pc[b] \in {"numbered", "inserted"} /\ began'[b] = began[b]
    BY <1>0, <1>4 DEF Begin, InsertReceipt, Abort, TypeOK
  <2> QED
    BY <1>1, <2>1, <2>2
<1>5. ASSUME AppMidnight \/ DbMidnight \/ UNCHANGED vars
      PROVE  Consecutive' /\ Bounded'
  BY <1>1, <1>5 DEF AppMidnight, DbMidnight, vars
<1> QED
  BY <1>2, <1>3, <1>4, <1>5 DEF Next, Statement, Finished

LEMMA DayInvariant == Spec => []DayInv
BY DayInit, DayStep, PTL DEF Spec

\* The receipts of a day that no checkout spans are numbered without a gap, for
\* any number of concurrent checkouts, days and clocks.
THEOREM SerialsConsecutive == Spec => []Consecutive
<1>1. DayInv => Consecutive
  BY DEF DayInv
<1> QED
  BY <1>1, DayInvariant, PTL

-----------------------------------------------------------------------------
(* Collisions. *)

\* Every serial of a day is within the count of the day, even when the day is not
\* clear and serials are missing or there twice.
Counted == \A x \in receipts : x.number.serial <= CountOf(x.day)

\* A checkout's serial is beyond those of the receipts it counted, and it has
\* collided only with a number that is there.
Beyond ==
  /\ \A c \in Checkouts : pc[c] \in {"numbered", "inserted", "collided"} =>
        \A x \in tallied[c] : x.number.serial < number[c].serial
  /\ \A c \in Checkouts : pc[c] = "collided" => number[c] \in Issued

CollisionInv == DayInv /\ Counted /\ Beyond

LEMMA CollisionInit == Init => CollisionInv
BY DayInit DEF Init, CollisionInv, Counted, Beyond

LEMMA CollisionStep == CollisionInv /\ [Next]_vars => CollisionInv'
<1> SUFFICES ASSUME CollisionInv, [Next]_vars
             PROVE  Counted' /\ Beyond'
  BY DayStep DEF CollisionInv
<1>0. TypeOK
  BY DEF CollisionInv, DayInv, UniqueInv
<1>1. ASSUME UNCHANGED <<receipts, number, tallied>>,
             \A c \in Checkouts : pc'[c] \in {"numbered", "inserted", "collided"} =>
                /\ pc[c] \in {"numbered", "inserted", "collided"}
                /\ pc'[c] = "collided" => number[c] \in Issued
      PROVE  Counted' /\ Beyond'
  BY <1>1 DEF CollisionInv, Counted, Beyond, CountOf, ReceiptsOf, Issued
<1>2. ASSUME NEW c \in Checkouts, GenerateReceiptNumber(c)
      PROVE  Counted' /\ Beyond'
  <2>1. CountOf(began[c]) \in Nat
    BY CountType DEF CollisionInv, DayInv
  <2>2. /\ number'[c].serial = CountOf(began[c]) + 1
        /\ tallied'[c] = ReceiptsOf(began[c])
        /\ pc'[c] = "numbered"
    BY <1>0, <1>2 DEF GenerateReceiptNumber, TypeOK
  <2>3. receipts' = receipts
    BY <1>2 DEF GenerateReceiptNumber
  <2>4. \A b \in Checkouts \ {c} :
           pc'[b] = pc[b] /\ number'[b] = number[b] /\ tallied'[b] = tallied[b]
    BY <1>0, <1>2 DEF GenerateReceiptNumber, TypeOK
  <2>5. \A x \in tallied'[c] : x.number.serial < number'[c].serial
    <3> SUFFICES ASSUME NEW x \in receipts, x.day = began[c]
                 PROVE  x.number.serial < CountOf(began[c]) + 1
      BY <2>2 DEF ReceiptsOf
    <3>1. x.number.serial <= CountOf(began[c]) /\ x.number.serial \in Nat
      BY <1>0 DEF CollisionInv, Counted, TypeOK, Receipt, Number
    <3> QED
      BY <2>1, <3>1
  <2>6. Beyond'
    BY <2>2, <2>3, <2>4, <2>5 DEF CollisionInv, Beyond, Issued
  <2> QED
    BY <2>3, <2>6 DEF CollisionInv, Counted, CountOf, ReceiptsOf
<1>3. ASSUME NEW c \in Checkouts, InsertReceipt(c)
      PROVE  Counted' /\ Beyond'
  BY <1>0, <1>1, <1>3 DEF InsertReceipt, TypeOK, CollisionInv, Beyond
<1>4. ASSUME NEW c \in Checkouts, Commit(c)
      PROVE  Counted' /\ Beyond'
  <2> DEFINE x == [checkout |-> c, day |-> began[c], number |-> number[c]]
  <2>1. receipts' = receipts \cup {x} /\ UNCHANGED <<number, tallied>>
    BY <1>4 DEF Commit
  <2>2. \A b \in Checkouts : pc'[b] \in {"numbered", "inserted", "collided"} => pc'[b] = pc[b]
    BY <1>0, <1>4 DEF Commit, TypeOK
  <2>3. Issued \subseteq Issued'
    BY <2>1 DEF Issued
  <2>4. Beyond'
    BY <2>1, <2>2, <2>3 DEF CollisionInv, Beyond
  <2>5. x.day = began[c] /\ x.number = number[c]
    OBVIOUS
  <2> HIDE DEF x
  <2>6. IsFiniteSet(receipts) /\ IsFiniteSet(receipts')
    BY UniqueStep DEF CollisionInv, DayInv, UniqueInv
  <2>7. \A d : /\ CountOf(d) \in Nat /\ CountOf(d)' \in Nat
               /\ CountOf(d) <= CountOf(d)'
    <3> TAKE d
    <3>1. ReceiptsOf(d) \in SUBSET ReceiptsOf(d)' /\ ReceiptsOf(d)' \in SUBSET receipts'
      BY <2>1 DEF ReceiptsOf
    <3>2. IsFiniteSet(ReceiptsOf(d)')
      BY <2>6, <3>1, FS_Subset
    <3>3. IsFiniteSet(ReceiptsOf(d))
      BY <3>1, <3>2, FS_Subset
    <3> DEFINE A == ReceiptsOf(d)
               B == ReceiptsOf(d)'
    <3> HIDE DEF A, B
    <3>4. Cardinality(A) \in Nat /\ Cardinality(B) \in Nat /\ Cardinality(A) <= Cardinality(B)
      BY <3>1, <3>2, <3>3, FS_Subset, FS_CardinalityType DEF A, B
    <3> QED
      BY <3>4 DEF A, B, CountOf
  <2>8. ReceiptsOf(began[c])' = ReceiptsOf(began[c]) \cup {x} /\ x \notin ReceiptsOf(began[c])
    <3>1. number[c] \notin Issued
      BY <1>4 DEF Commit, CollisionInv, DayInv, UniqueInv, Reserved
    <3>2. began' = began
      BY <1>4 DEF Commit
    <3> QED
      BY <2>1, <2>5, <3>1, <3>2 DEF ReceiptsOf, Issued
  <2>9. CountOf(began[c])' = CountOf(began[c]) + 1
    <3>1. IsFiniteSet(ReceiptsOf(began[c]))
      BY <2>6, FS_Subset DEF ReceiptsOf
    <3> QED
      BY <2>8, <3>1, FS_AddElement DEF CountOf
  <2>10. number[c].serial <= CountOf(began[c])'
    BY <1>4, <2>9 DEF Commit, CollisionInv, DayInv, Bounded
  <2>11. ASSUME NEW y \in receipts'
         PROVE  y.number.serial <= CountOf(y.day)'
    <3>1. CASE y = x
      <4>1. CountOf(y.day)' = CountOf(began[c])'
        BY <1>4, <2>5, <3>1 DEF Commit
      <4> QED
        BY <2>5, <2>10, <3>1, <4>1
    <3>2. CASE y \in receipts
      <4>1. y.number.serial <= CountOf(y.day) /\ y.number.serial \in Nat
        BY <1>0, <3>2 DEF CollisionInv, Counted, TypeOK, Receipt, Number
      <4> QED
        BY <2>7, <4>1
    <3> QED
      BY <2>1, <3>1, <3>2
  <2> QED
    BY <2>4, <2>11 DEF Counted, CountOf, ReceiptsOf
<1>5. ASSUME NEW c \in Checkouts, Begin(c) \/ Abort(c)
      PROVE  Counted' /\ Beyond'
  BY <1>0, <1>1, <1>5 DEF Begin, Abort, TypeOK, CollisionInv, Beyond
<1>6. ASSUME AppMidnight \/ DbMidnight \/ UNCHANGED vars
      PROVE  Counted' /\ Beyond'
  BY <1>1, <1>6 DEF AppMidnight, DbMidnight, vars, CollisionInv, Beyond
<1> QED
  BY <1>2, <1>3, <1>4, <1>5, <1>6 DEF Next, Statement, Finished

LEMMA CollisionInvariant == Spec => []CollisionInv
BY CollisionInit, CollisionStep, PTL DEF Spec

\* A checkout fails on its number only because of a receipt it did not count, for
\* any number of checkouts and days, whichever clock is ahead.
THEOREM CollisionsAreUncounted == Spec => []CollidesWithUncounted
<1>1. CollisionInv => CollidesWithUncounted
  <2> SUFFICES ASSUME CollisionInv, NEW c \in Checkouts, pc[c] = "collided"
               PROVE  \E x \in receipts \ tallied[c] : x.number = number[c]
    BY DEF CollidesWithUncounted
  <2>1. PICK x \in receipts : x.number = number[c]
    BY DEF CollisionInv, Beyond, Issued
  <2>2. x.number.serial \in Nat
    BY DEF CollisionInv, DayInv, UniqueInv, TypeOK, Receipt, Number
  <2>3. x \notin tallied[c]
    BY <2>1, <2>2 DEF CollisionInv, Beyond
  <2> QED
    BY <2>1, <2>3
<1> QED
  BY <1>1, CollisionInvariant, PTL
-----------------------------------------------------------------------------
(* Induction. *)

\* Every set of naturals that is not empty has a least element.
LEMMA LeastNumber ==
  ASSUME NEW S \in SUBSET Nat, S # {}
  PROVE  \E n \in S : \A m \in S : n <= m
<1>1. PICK n \in S : \A m \in S : ~ (<<m, n>> \in OpToRel(<, Nat))
  BY NatLessThanWellFounded, WFMin
<1>2. \A m \in S : ~ (m < n)
  BY <1>1 DEF OpToRel
<1> QED
  BY <1>2

\* Induction up to a number, for a set in the place of the predicate.
LEMMA UpTo ==
  ASSUME NEW n \in Nat, NEW T,
         0 \in T,
         \A k \in 0..(n - 1) : k \in T => k + 1 \in T
  PROVE  \A k \in 0..n : k \in T
<1> SUFFICES ASSUME NEW j \in 0..n, j \notin T
             PROVE  FALSE
  OBVIOUS
<1> DEFINE S == {k \in 0..n : k \notin T}
<1>0. S \in SUBSET Nat /\ S # {}
  OBVIOUS
<1>1. PICK k \in S : \A m \in S : k <= m
  <2> HIDE DEF S
  <2> QED
    BY <1>0, LeastNumber
<1>2. k # 0 /\ k - 1 \in 0..(n - 1) /\ k - 1 \notin S
  BY <1>1
<1>3. k - 1 \in T
  BY <1>2
<1> QED
  BY <1>1, <1>2, <1>3

-----------------------------------------------------------------------------
(* Sums over finite sets: the sum of a function is a fold that takes the   *)
(* indices in an order of its own.                                         *)

\* The index that the fold takes first.
First(s) == CHOOSE x \in s : TRUE

\* What the fold over the parts of D computes.
Folded(g, D, f) ==
  g = [s \in SUBSET D |-> IF s = {} THEN 0 ELSE f[First(s)] + g[s \ {First(s)}]]

\* Parts of D with at most k elements.
Parts(D, k) == {s \in SUBSET D : Cardinality(s) <= k}

LEMMA PartFacts ==
  ASSUME NEW D, IsFiniteSet(D), NEW s \in SUBSET D
  PROVE  /\ IsFiniteSet(s) /\ Cardinality(s) \in 0..Cardinality(D)
         /\ Cardinality(s) = 0 <=> s = {}
         /\ \A x \in s : s \ {x} \in SUBSET D /\ Cardinality(s \ {x}) = Cardinality(s) - 1
<1>1. IsFiniteSet(s) /\ Cardinality(s) <= Cardinality(D)
  BY FS_Subset
<1>2. Cardinality(s) \in Nat /\ Cardinality(D) \in Nat
  BY <1>1, FS_CardinalityType
<1>3. Cardinality(s) = 0 <=> s = {}
  BY <1>1, FS_EmptySet
<1>4. \A x \in s : Cardinality(s \ {x}) = Cardinality(s) - 1
  BY <1>1, FS_RemoveElement
<1> QED
  BY <1>1, <1>2, <1>3, <1>4

\* The fold's recursion has a solution.
LEMMA FoldSolved ==
  ASSUME NEW D, IsFiniteSet(D), NEW f
  PROVE  \E g : Folded(g, D, f)
<1> DEFINE n == Cardinality(D)
           Sol(g, k) == g = [s \in Parts(D, k) |->
                       IF s = {} THEN 0 ELSE f[First(s)] + g[s \ {First(s)}]]
           T == {k \in 0..n : \E g : Sol(g, k)}
<1>0. n \in Nat
  BY FS_CardinalityType
<1>1. 0 \in T
  <2> DEFINE g == [s \in Parts(D, 0) |-> 0]
  <2>1. \A s \in Parts(D, 0) : s = {}
    BY PartFacts DEF Parts
  <2>2. Sol(g, 0)
    BY <2>1
  <2> HIDE DEF Sol
  <2>3. \E h : Sol(h, 0)
    BY <2>2
  <2> QED
    BY <1>0, <2>3
<1>2. ASSUME NEW k \in 0..(n - 1), k \in T
      PROVE  k + 1 \in T
  <2>1. PICK g : Sol(g, k)
    BY <1>2
  <2> DEFINE h == [s \in Parts(D, k + 1) |->
                     IF s = {} THEN 0 ELSE f[First(s)] + g[s \ {First(s)}]]
  <2>2. \A s \in Parts(D, k) : h[s] = g[s]
    <3> SUFFICES ASSUME NEW s \in Parts(D, k)
                 PROVE  h[s] = g[s]
      OBVIOUS
    <3>1. g[s] = IF s = {} THEN 0 ELSE f[First(s)] + g[s \ {First(s)}]
      BY <2>1
    <3>2. s \in Parts(D, k + 1)
      BY <1>0, PartFacts DEF Parts
    <3> QED
      BY <3>1, <3>2
  <2>3. ASSUME NEW s \in Parts(D, k + 1), s # {}
        PROVE  s \ {First(s)} \in Parts(D, k)
    <3>1. First(s) \in s /\ s \in SUBSET D
      BY <2>3 DEF First, Parts
    <3>2. Cardinality(s \ {First(s)}) = Cardinality(s) - 1 /\ Cardinality(s) \in 0..n
      BY <3>1, PartFacts
    <3> QED
      BY <1>0, <3>1, <3>2 DEF Parts
  <2>4. h = [s \in Parts(D, k + 1) |->
                     IF s = {} THEN 0 ELSE f[First(s)] + h[s \ {First(s)}]]
    BY <2>2, <2>3
  <2> HIDE DEF h
  <2>5. \E e : Sol(e, k + 1)
    BY <2>4
  <2>6. k + 1 \in 0..n
    BY <1>0
  <2> HIDE DEF Sol
  <2> QED
    BY <2>5, <2>6
<1>3. n \in T
  <2> HIDE DEF T, n
  <2>1. \A k \in 0..n : k \in T
    BY <1>0, <1>1, <1>2, UpTo
  <2> QED
    BY <1>0, <2>1
<1>4. PICK g : Sol(g, n)
  BY <1>3
<1>5. Parts(D, n) = SUBSET D
  BY PartFacts DEF Parts
<1> QED
  BY <1>4, <1>5 DEF Folded

\* It has only one.
LEMMA FoldUnique ==
  ASSUME NEW D, IsFiniteSet(D), NEW f, NEW g, NEW h, Folded(g, D, f), Folded(h, D, f)
  PROVE  g = h
<1> DEFINE n == Cardinality(D)
           T == {k \in 0..n : \A s \in SUBSET D : Cardinality(s) = k => g[s] = h[s]}
<1>0. n \in Nat
  BY FS_CardinalityType
<1>1. 0 \in T
  <2>1. ASSUME NEW s \in SUBSET D, Cardinality(s) = 0
        PROVE  g[s] = h[s]
    <3>1. s = {}
      BY <2>1, PartFacts
    <3> QED
      BY <3>1 DEF Folded
  <2> QED
    BY <1>0, <2>1
<1>2. ASSUME NEW k \in 0..(n - 1), k \in T
      PROVE  k + 1 \in T
  <2>1. ASSUME NEW s \in SUBSET D, Cardinality(s) = k + 1
        PROVE  g[s] = h[s]
    <3>1. s # {}
      BY <2>1, <1>0, PartFacts
    <3>2. First(s) \in s
      BY <3>1 DEF First
    <3>3. s \ {First(s)} \in SUBSET D /\ Cardinality(s \ {First(s)}) = k
      BY <2>1, <3>2, <1>0, PartFacts
    <3>4. g[s \ {First(s)}] = h[s \ {First(s)}]
      BY <1>2, <3>3
    <3>5. g[s] = f[First(s)] + g[s \ {First(s)}]
      BY <3>1 DEF Folded
    <3>6. h[s] = f[First(s)] + h[s \ {First(s)}]
      BY <3>1 DEF Folded
    <3> QED
      BY <3>4, <3>5, <3>6
  <2> QED
    BY <1>0, <2>1
<1>3. \A k \in 0..n : k \in T
  <2> HIDE DEF T, n
  <2> QED
    BY <1>0, <1>1, <1>2, UpTo
<1>4. \A s \in SUBSET D : g[s] = h[s]
  BY <1>3, PartFacts
<1>5. g = [s \in SUBSET D |-> g[s]]
  BY DEF Folded
<1>6. h = [s \in SUBSET D |-> h[s]]
  BY DEF Folded
<1> QED
  BY <1>4, <1>5, <1>6

\* SumFunction is the fold of the whole domain.
LEMMA SumIsFold ==
  ASSUME NEW D, IsFiniteSet(D), NEW f, DOMAIN f = D, NEW g, Folded(g, D, f)
  PROVE  SumFunction(f) = g[D]
<1> DEFINE e == CHOOSE e : e = [s \in SUBSET D |->
                  IF s = {} THEN 0 ELSE f[First(s)] + e[s \ {First(s)}]]
<1>1. SumFunction(f) = e[D]
  BY DEF SumFunction, SumFunctionOnSet, FoldFunctionOnSet, MapThenFoldSet, First
<1>2. Folded(e, D, f)
  BY FoldSolved DEF Folded
<1> HIDE DEF e
<1> QED
  BY <1>1, <1>2, FoldUnique

\* The terms of a sum may be taken in any order.
LEMMA AnyOrder ==
  ASSUME NEW D, IsFiniteSet(D), NEW f \in [D -> Int], NEW g, Folded(g, D, f)
  PROVE  /\ \A s \in SUBSET D : g[s] \in Int
         /\ \A s \in SUBSET D, x \in D : x \in s => g[s] = f[x] + g[s \ {x}]
<1> DEFINE n == Cardinality(D)
           OK(s) == g[s] \in Int /\ \A x \in s : g[s] = f[x] + g[s \ {x}]
           T == {k \in 0..n : \A s \in SUBSET D : Cardinality(s) \in 0..k => OK(s)}
<1>0. n \in Nat
  BY FS_CardinalityType
<1>1. 0 \in T
  <2>1. ASSUME NEW s \in SUBSET D, Cardinality(s) \in 0..0
        PROVE  OK(s)
    <3>1. s = {}
      BY <2>1, PartFacts
    <3>2. g[s] = 0
      BY <3>1 DEF Folded
    <3> QED
      BY <3>1, <3>2
  <2> QED
    BY <1>0, <2>1
<1>2. ASSUME NEW k \in 0..(n - 1), k \in T
      PROVE  k + 1 \in T
  <2>1. ASSUME NEW s \in SUBSET D, Cardinality(s) = k + 1
        PROVE  OK(s)
    <3> DEFINE c == First(s)
    <3>1. s # {} /\ c \in s
      BY <2>1, <1>0, PartFacts DEF First
    <3>2. \A x \in s : s \ {x} \in SUBSET D /\ Cardinality(s \ {x}) = k
      BY <2>1, <1>0, PartFacts
    <3>3. \A x \in s : OK(s \ {x}) /\ f[x] \in Int
      BY <1>2, <3>2
    <3>4. g[s] = f[c] + g[s \ {c}]
      BY <3>1 DEF Folded
    <3> HIDE DEF c
    <3>5. ASSUME NEW x \in s
          PROVE  g[s] = f[x] + g[s \ {x}]
      <4>1. CASE x = c
        BY <3>4, <4>1
      <4>2. CASE x # c
        <5>1. x \in s \ {c} /\ c \in s \ {x} /\ (s \ {c}) \ {x} = (s \ {x}) \ {c}
          BY <3>1, <4>2
        <5>2. (s \ {c}) \ {x} \in SUBSET D /\ Cardinality((s \ {c}) \ {x}) \in 0..k
          <6> DEFINE u == s \ {c}
          <6>1. u \in SUBSET D /\ Cardinality(u) = k /\ x \in u
            BY <3>1, <3>2, <5>1
          <6> HIDE DEF u
          <6>2. u \ {x} \in SUBSET D /\ Cardinality(u \ {x}) = k - 1
            BY <6>1, PartFacts
          <6>3. Cardinality(u \ {x}) \in 0..n
            BY <6>2, PartFacts
          <6>4. u \ {x} \in SUBSET D /\ Cardinality(u \ {x}) \in 0..k
            BY <1>0, <6>2, <6>3
          <6> QED
            BY <6>4 DEF u
        <5>3. g[(s \ {c}) \ {x}] \in Int
          BY <1>2, <5>2
        <5>4. g[s \ {c}] = f[x] + g[(s \ {c}) \ {x}]
          BY <3>1, <3>3, <5>1
        <5>5. g[s \ {x}] = f[c] + g[(s \ {x}) \ {c}]
          BY <3>1, <3>3, <5>1
        <5> DEFINE z == g[(s \ {c}) \ {x}]
        <5>6. z \in Int /\ f[x] \in Int /\ f[c] \in Int
          BY <3>1, <3>3, <5>3
        <5>7. g[s] = f[c] + (f[x] + z) /\ g[s \ {x}] = f[c] + z
          BY <3>4, <5>1, <5>4, <5>5
        <5> HIDE DEF z
        <5> QED
          BY <5>6, <5>7
      <4> QED
        BY <4>1, <4>2
    <3>6. g[s] \in Int
      BY <3>1, <3>3, <3>4
    <3> QED
      BY <3>5, <3>6
  <2>2. ASSUME NEW s \in SUBSET D, Cardinality(s) \in 0..(k + 1)
        PROVE  OK(s)
    <3>1. CASE Cardinality(s) = k + 1
      BY <2>1, <3>1
    <3>2. CASE Cardinality(s) \in 0..k
      BY <1>2, <3>2
    <3> QED
      BY <2>2, <3>1, <3>2
  <2> HIDE DEF OK
  <2> QED
    BY <1>0, <2>2
<1>3. \A k \in 0..n : k \in T
  <2> HIDE DEF T, n
  <2> QED
    BY <1>0, <1>1, <1>2, UpTo
<1>4. \A s \in SUBSET D : Cardinality(s) \in 0..n
  BY PartFacts
<1>5. n \in T
  <2> HIDE DEF T, n
  <2> QED
    BY <1>0, <1>3
<1> QED
  BY <1>4, <1>5

\* A sum is an integer, 0 for no term, and any term may be taken out of it.
LEMMA SumFacts ==
  ASSUME NEW D, IsFiniteSet(D), NEW f \in [D -> Int]
  PROVE  /\ SumFunction(f) \in Int
         /\ D = {} => SumFunction(f) = 0
         /\ \A x \in D : SumFunction(f) = f[x] + SumFunction([y \in D \ {x} |-> f[y]])
<1>1. PICK g : Folded(g, D, f)
  BY FoldSolved
<1>2. SumFunction(f) = g[D]
  BY <1>1, SumIsFold
<1>3. g[D] \in Int /\ \A x \in D : g[D] = f[x] + g[D \ {x}]
  BY <1>1, AnyOrder
<1>4. D = {} => g[D] = 0
  BY <1>1 DEF Folded
<1>5. ASSUME NEW x \in D
      PROVE  SumFunction([y \in D \ {x} |-> f[y]]) = g[D \ {x}]
  <2> DEFINE E == D \ {x}
             e == [y \in E |-> f[y]]
             h == [s \in SUBSET E |-> g[s]]
  <2>1. IsFiniteSet(E)
    BY FS_RemoveElement
  <2>2. ASSUME NEW s \in SUBSET E
        PROVE  h[s] = IF s = {} THEN 0 ELSE e[First(s)] + h[s \ {First(s)}]
    <3>1. s \in SUBSET D
      OBVIOUS
    <3>2. g[s] = IF s = {} THEN 0 ELSE f[First(s)] + g[s \ {First(s)}]
      BY <1>1, <3>1 DEF Folded
    <3>3. s # {} => First(s) \in s
      BY DEF First
    <3> QED
      BY <3>2, <3>3
  <2>3. Folded(h, E, e)
    <3>1. h = [s \in SUBSET E |-> h[s]]
      OBVIOUS
    <3> HIDE DEF h, e, E
    <3> QED
      BY <2>2, <3>1 DEF Folded
  <2>4. SumFunction(e) = h[E]
    <3>1. DOMAIN e = E
      OBVIOUS
    <3> HIDE DEF h, e, E
    <3> QED
      BY <2>1, <2>3, <3>1, SumIsFold
  <2>5. h[E] = g[E]
    OBVIOUS
  <2> QED
    BY <2>4, <2>5
<1> QED
  BY <1>2, <1>3, <1>4, <1>5
-----------------------------------------------------------------------------
(* Sums by group. *)

\* A sum of zeros is 0.
LEMMA SumOfZeros ==
  ASSUME NEW K, IsFiniteSet(K)
  PROVE  SumFunction([k \in K |-> 0]) = 0
<1> DEFINE n == Cardinality(K)
           T == {i \in 0..n : \A s \in SUBSET K :
                    Cardinality(s) = i => SumFunction([k \in s |-> 0]) = 0}
<1>0. n \in Nat
  BY FS_CardinalityType
<1>1. 0 \in T
  <2>1. ASSUME NEW s \in SUBSET K, Cardinality(s) = 0
        PROVE  SumFunction([k \in s |-> 0]) = 0
    <3> DEFINE z == [k \in s |-> 0]
    <3>1. s = {} /\ IsFiniteSet(s) /\ z \in [s -> Int]
      BY <2>1, PartFacts
    <3> HIDE DEF z
    <3>2. SumFunction(z) = 0
      BY <3>1, SumFacts
    <3> QED
      BY <3>2 DEF z
  <2> QED
    BY <1>0, <2>1
<1>2. ASSUME NEW i \in 0..(n - 1), i \in T
      PROVE  i + 1 \in T
  <2>1. ASSUME NEW s \in SUBSET K, Cardinality(s) = i + 1
        PROVE  SumFunction([k \in s |-> 0]) = 0
    <3> DEFINE z == [k \in s |-> 0]
    <3>1. PICK x \in s : TRUE
      BY <1>0, <2>1, PartFacts
    <3>2. /\ IsFiniteSet(s) /\ z \in [s -> Int] /\ z[x] = 0
          /\ [y \in s \ {x} |-> z[y]] = [y \in s \ {x} |-> 0]
      BY PartFacts
    <3>3. SumFunction([y \in s \ {x} |-> 0]) = 0
      <4>1. s \ {x} \in SUBSET K /\ Cardinality(s \ {x}) = i
        BY <1>0, <2>1, PartFacts
      <4> QED
        BY <1>2, <4>1
    <3> HIDE DEF z
    <3>4. SumFunction(z) = z[x] + SumFunction([y \in s \ {x} |-> z[y]])
      BY <3>2, SumFacts
    <3>5. SumFunction(z) = 0
      BY <3>2, <3>3, <3>4
    <3> QED
      BY <3>5 DEF z
  <2> QED
    BY <1>0, <2>1
<1>3. n \in T
  <2> HIDE DEF T, n
  <2>1. \A i \in 0..n : i \in T
    BY <1>0, <1>1, <1>2, UpTo
  <2> QED
    BY <1>0, <2>1
<1> QED
  BY <1>3

\* The part of s with the key k.
Group(s, key, k) == {x \in s : key[x] = k}

\* What the groups of s come to.
GroupSums(s, f, key, K) ==
  [k \in K |-> SumFunction([x \in Group(s, key, k) |-> f[x]])]

\* However the terms are grouped, the sums of the groups add up to the sum.
LEMMA GroupedSum ==
  ASSUME NEW D, IsFiniteSet(D), NEW K, IsFiniteSet(K),
         NEW f \in [D -> Int], NEW key \in [D -> K]
  PROVE  SumFunction(GroupSums(D, f, key, K)) = SumFunction(f)
<1> DEFINE n == Cardinality(D)
           Same(s) == SumFunction(GroupSums(s, f, key, K))
                         = SumFunction([x \in s |-> f[x]])
           T == {i \in 0..n : \A s \in SUBSET D : Cardinality(s) = i => Same(s)}
<1>0. n \in Nat
  BY FS_CardinalityType
<1>a. ASSUME NEW s \in SUBSET D
      PROVE  /\ IsFiniteSet(s)
             /\ [x \in s |-> f[x]] \in [s -> Int]
             /\ SumFunction([x \in s |-> f[x]]) \in Int
             /\ s = {} => SumFunction([x \in s |-> f[x]]) = 0
             /\ \A x \in s : SumFunction([y \in s |-> f[y]])
                              = f[x] + SumFunction([y \in s \ {x} |-> f[y]])
  <2> DEFINE e == [x \in s |-> f[x]]
  <2>1. IsFiniteSet(s) /\ e \in [s -> Int] /\ \A x \in s : e[x] = f[x]
    BY PartFacts
  <2>2. \A x \in s : [y \in s \ {x} |-> e[y]] = [y \in s \ {x} |-> f[y]]
    OBVIOUS
  <2> HIDE DEF e
  <2>3. /\ SumFunction(e) \in Int
        /\ s = {} => SumFunction(e) = 0
        /\ \A x \in s : SumFunction(e) = e[x] + SumFunction([y \in s \ {x} |-> e[y]])
    BY <2>1, SumFacts
  <2>4. \A x \in s : SumFunction(e) = f[x] + SumFunction([y \in s \ {x} |-> f[y]])
    BY <2>1, <2>2, <2>3
  <2> QED
    BY <2>1, <2>3, <2>4 DEF e
<1>b. ASSUME NEW s \in SUBSET D
      PROVE  GroupSums(s, f, key, K) \in [K -> Int]
  BY <1>a DEF GroupSums, Group
<1>1. 0 \in T
  <2>1. ASSUME NEW s \in SUBSET D, Cardinality(s) = 0
        PROVE  Same(s)
    <3>1. s = {}
      BY <2>1, PartFacts
    <3>2. \A k \in K : Group(s, key, k) = {}
      BY <3>1 DEF Group
    <3>3. SumFunction([x \in {} |-> f[x]]) = 0
      BY <1>a
    <3>4. GroupSums(s, f, key, K) = [k \in K |-> 0]
      BY <3>2, <3>3 DEF GroupSums
    <3> QED
      BY <3>1, <3>3, <3>4, SumOfZeros
  <2> QED
    BY <1>0, <2>1
<1>2. ASSUME NEW i \in 0..(n - 1), i \in T
      PROVE  i + 1 \in T
  <2>1. ASSUME NEW s \in SUBSET D, Cardinality(s) = i + 1
        PROVE  Same(s)
    <3>1. PICK x \in s : TRUE
      BY <1>0, <2>1, PartFacts
    <3> DEFINE u == s \ {x}
               j == key[x]
               F == GroupSums(s, f, key, K)
               G == GroupSums(u, f, key, K)
               R == SumFunction([k \in K \ {j} |-> F[k]])
    <3>2. u \in SUBSET D /\ Cardinality(u) = i /\ j \in K /\ f[x] \in Int
      BY <1>0, <2>1, PartFacts
    <3>3. Same(u)
      BY <1>2, <3>2
    <3>4. F \in [K -> Int] /\ G \in [K -> Int]
      BY <1>b, <3>2
    <3>5. \A k \in K \ {j} : F[k] = G[k]
      <4>1. \A k \in K \ {j} : Group(s, key, k) = Group(u, key, k)
        BY DEF Group
      <4> QED
        BY <4>1 DEF GroupSums
    <3>6. F[j] = f[x] + G[j]
      <4>1. x \in Group(s, key, j) /\ Group(u, key, j) = Group(s, key, j) \ {x}
        BY DEF Group
      <4>2. Group(s, key, j) \in SUBSET D
        BY DEF Group
      <4>3. SumFunction([y \in Group(s, key, j) |-> f[y]])
              = f[x] + SumFunction([y \in Group(u, key, j) |-> f[y]])
        BY <1>a, <4>1, <4>2
      <4> QED
        BY <3>2, <4>3 DEF GroupSums
    <3>7. [k \in K \ {j} |-> F[k]] = [k \in K \ {j} |-> G[k]]
      BY <3>5
    <3>8. SumFunction([y \in s |-> f[y]]) = f[x] + SumFunction([y \in u |-> f[y]])
      BY <1>a
    <3> HIDE DEF F, G, u, j
    <3>9. SumFunction(F) = F[j] + R
      BY <3>2, <3>4, SumFacts
    <3>10. SumFunction(G) = G[j] + R
      <4>1. \A k \in K : SumFunction(G) = G[k] + SumFunction([y \in K \ {k} |-> G[y]])
        BY <3>4, SumFacts
      <4>2. SumFunction(G) = G[j] + SumFunction([y \in K \ {j} |-> G[y]])
        BY <3>2, <4>1
      <4> QED
        BY <3>7, <4>2
    <3>11. R \in Int
      <4> DEFINE H == [k \in K \ {j} |-> F[k]]
      <4>1. H \in [K \ {j} -> Int] /\ IsFiniteSet(K \ {j})
        BY <3>4, FS_RemoveElement
      <4> HIDE DEF H
      <4>2. SumFunction(H) \in Int
        BY <4>1, SumFacts
      <4> QED
        BY <4>2 DEF H
    <3>12. SumFunction(F) = f[x] + SumFunction(G)
      <4> HIDE DEF R
      <4> QED
        BY <3>2, <3>4, <3>6, <3>9, <3>10, <3>11
    <3> QED
      BY <3>3, <3>8, <3>12 DEF F, G, u
  <2> HIDE DEF Same
  <2> QED
    BY <1>0, <2>1
<1>3. n \in T
  <2> HIDE DEF T, n
  <2>1. \A i \in 0..n : i \in T
    BY <1>0, <1>1, <1>2, UpTo
  <2> QED
    BY <1>0, <2>1
<1>4. Same(D)
  BY <1>3
<1>5. [x \in D |-> f[x]] = f
  OBVIOUS
<1> QED
  BY <1>4, <1>5

\* A sum over other names of the same terms.
LEMMA RenamedSum ==
  ASSUME NEW D, IsFiniteSet(D), NEW E, NEW f \in [E -> Int], NEW b \in Bijection(D, E)
  PROVE  SumFunction([x \in D |-> f[b[x]]]) = SumFunction(f)
<1> DEFINE e == [x \in D |-> f[b[x]]]
<1>1. b \in [D -> E] /\ b \in Surjection(D, E) /\ b \in Injection(D, E)
  BY DEF Bijection, Injection, Surjection
<1>2. IsFiniteSet(E)
  BY <1>1, FS_Surjection
<1>3. e \in [D -> Int] /\ \A x \in D : e[x] = f[b[x]]
  BY <1>1
<1> HIDE DEF e
<1>4. ASSUME NEW k \in E
      PROVE  SumFunction([x \in Group(D, b, k) |-> e[x]]) = f[k]
  <2>1. PICK x \in D : b[x] = k
    BY <1>1 DEF Surjection
  <2>2. Group(D, b, k) = {x}
    BY <1>1, <2>1 DEF Group, Injection, IsInjective
  <2> DEFINE h == [y \in {x} |-> e[y]]
  <2>3. h \in [{x} -> Int] /\ IsFiniteSet({x}) /\ h[x] = f[k]
    BY <1>3, <2>1, FS_Singleton
  <2> HIDE DEF h
  <2>4. SumFunction(h) = h[x] + SumFunction([y \in {x} \ {x} |-> h[y]])
    BY <2>3, SumFacts
  <2>5. SumFunction([y \in {x} \ {x} |-> h[y]]) = 0
    <3> DEFINE o == [y \in {} |-> h[y]]
    <3>1. o \in [{} -> Int] /\ IsFiniteSet({}) /\ {x} \ {x} = {}
      BY FS_EmptySet
    <3> HIDE DEF o
    <3>2. SumFunction(o) = 0
      BY <3>1, SumFacts
    <3> QED
      BY <3>1, <3>2 DEF o
  <2> QED
    BY <2>2, <2>3, <2>4, <2>5 DEF h
<1>5. GroupSums(D, e, b, E) = f
  BY <1>4 DEF GroupSums
<1>6. SumFunction(GroupSums(D, e, b, E)) = SumFunction(e)
  BY <1>1, <1>2, <1>3, GroupedSum
<1> QED
  BY <1>5, <1>6 DEF e
-----------------------------------------------------------------------------
(* The reports of the same days. *)

LEMMA FiniteImage ==
  ASSUME NEW S, IsFiniteSet(S), NEW f
  PROVE  IsFiniteSet({f[x] : x \in S})
<1> DEFINE T == {f[x] : x \in S}
           g == [x \in S |-> f[x]]
<1>1. g \in Surjection(S, T)
  BY DEF Surjection
<1> HIDE DEF T, g
<1>2. IsFiniteSet(T)
  BY <1>1, FS_Surjection
<1> QED
  BY <1>2 DEF T

SubtotalOf(row) == Lines[row[1]][row[2]].subtotal

LEMMA DetailFacts ==
  ASSUME NEW S \in SUBSET Checkouts
  PROVE  /\ IsFiniteSet(S) /\ IsFiniteSet(Details(S))
         /\ \A row \in Details(S) : row[1] \in S /\ SubtotalOf(row) \in Int
<1>1. IsFiniteSet(S)
  BY ListAssumption, FS_Subset
<1> DEFINE f == [c \in S |-> {<<c, i>> : i \in DOMAIN Lines[c]}]
<1>2. ASSUME NEW c \in S
      PROVE  IsFiniteSet(f[c])
  <2> DEFINE n == Len(Lines[c])
             g == [i \in 1..n |-> <<c, i>>]
  <2>1. n \in Nat /\ DOMAIN Lines[c] = 1..n
    BY LinesAssumption
  <2> HIDE DEF n
  <2>2. f[c] = {g[i] : i \in 1..n}
    BY <2>1
  <2>3. IsFiniteSet(1..n)
    BY <2>1, FS_Interval
  <2> HIDE DEF f, g
  <2>4. IsFiniteSet({g[i] : i \in 1..n})
    BY <2>3, FiniteImage
  <2> QED
    BY <2>2, <2>4
<1>3. Details(S) = UNION {f[c] : c \in S}
  BY DEF Details
<1>4. IsFiniteSet(Details(S))
  <2> DEFINE U == {f[c] : c \in S}
  <2>1. \A u \in U : IsFiniteSet(u)
    BY <1>2
  <2>2. IsFiniteSet(U)
    <3> HIDE DEF f
    <3> QED
      BY <1>1, FiniteImage
  <2>3. Details(S) = UNION U
    BY <1>3
  <2> HIDE DEF U
  <2> QED
    BY <2>1, <2>2, <2>3, FS_UNION
<1>5. ASSUME NEW row \in Details(S)
      PROVE  row[1] \in S /\ SubtotalOf(row) \in Int
  <2>0. PICK c \in S : row \in {<<c, i>> : i \in DOMAIN Lines[c]}
    BY DEF Details
  <2>1. PICK i \in DOMAIN Lines[c] : row = <<c, i>>
    BY <2>0
  <2>2. Lines[c][i].subtotal \in Int
    BY LinesAssumption
  <2> QED
    BY <2>1, <2>2 DEF SubtotalOf
<1> QED
  BY <1>1, <1>4, <1>5

\* A report by any key of the rows adds up to what the rows come to.
LEMMA AnyReport ==
  ASSUME NEW S \in SUBSET Checkouts, NEW key
  PROVE  SumFunction([k \in {key[row] : row \in Details(S)} |->
                        SumOf({row \in Details(S) : key[row] = k})])
           = SumOf(Details(S))
<1> DEFINE D == Details(S)
           K == {key[row] : row \in D}
           f == [row \in D |-> SubtotalOf(row)]
           e == [row \in D |-> key[row]]
<1>1. IsFiniteSet(D)
  BY DetailFacts
<1>2. f \in [D -> Int]
  BY DetailFacts
<1>3. e \in [D -> K]
  OBVIOUS
<1>4. SumOf(D) = SumFunction(f)
  BY DEF SumOf, SubtotalOf
<1>5. ASSUME NEW k \in K
      PROVE  SumOf({row \in D : key[row] = k})
               = SumFunction([row \in Group(D, e, k) |-> f[row]])
  <2>1. Group(D, e, k) = {row \in D : key[row] = k}
    BY DEF Group
  <2>2. [row \in {x \in D : key[x] = k} |-> f[row]]
          = [row \in {x \in D : key[x] = k} |-> SubtotalOf(row)]
    OBVIOUS
  <2> QED
    BY <2>1, <2>2 DEF SumOf, SubtotalOf
<1>6. [k \in K |-> SumOf({row \in D : key[row] = k})] = GroupSums(D, f, e, K)
  BY <1>5 DEF GroupSums
<1>7. IsFiniteSet(K)
  <2> HIDE DEF D
  <2> QED
    BY <1>1, FiniteImage
<1> HIDE DEF D, K, f, e
<1>8. SumFunction(GroupSums(D, f, e, K)) = SumFunction(f)
  BY <1>1, <1>2, <1>3, <1>7, GroupedSum
<1>9. SumFunction([k \in K |-> SumOf({row \in D : key[row] = k})]) = SumOf(D)
  BY <1>4, <1>6, <1>8
<1> QED
  BY <1>9 DEF D, K

LEMMA TotalType ==
  ASSUME NEW c \in Checkouts
  PROVE  TotalAmount[c] \in Int
<1> DEFINE D == DOMAIN Lines[c]
           f == [i \in D |-> Lines[c][i].subtotal]
<1>1. IsFiniteSet(D)
  BY LinesAssumption, FS_Interval
<1>2. f \in [D -> Int]
  BY LinesAssumption
<1> HIDE DEF D, f
<1>3. SumFunction(f) \in Int
  BY <1>1, <1>2, SumFacts
<1> QED
  BY <1>3, TotalsAssumption DEF D, f

\* The revenue is what the rows come to.
LEMMA RevenueOfDetails ==
  ASSUME NEW S \in SUBSET Checkouts
  PROVE  Revenue(S) = SumOf(Details(S))
<1> DEFINE D == Details(S)
           f == [row \in D |-> SubtotalOf(row)]
           e == [row \in D |-> row[1]]
<1>1. /\ IsFiniteSet(D) /\ IsFiniteSet(S)
      /\ f \in [D -> Int] /\ e \in [D -> S]
  BY DetailFacts
<1>2. ASSUME NEW c \in S
      PROVE  SumFunction([row \in Group(D, e, c) |-> f[row]]) = TotalAmount[c]
  <2> DEFINE I == DOMAIN Lines[c]
             E == {<<c, i>> : i \in I}
             g == [row \in E |-> SubtotalOf(row)]
             b == [i \in I |-> <<c, i>>]
  <2>1. Group(D, e, c) = E
    BY DEF Details, Group
  <2>2. [row \in E |-> f[row]] = g
    BY DEF Details
  <2>3. IsFiniteSet(I)
    BY LinesAssumption, FS_Interval
  <2>4. g \in [E -> Int]
    <3>1. \A row \in E : row \in D
      BY DEF Details
    <3> QED
      BY <3>1, DetailFacts
  <2>5. b \in Bijection(I, E)
    BY DEF Bijection, Injection, Surjection, IsInjective
  <2>6. [i \in I |-> g[b[i]]] = [i \in I |-> Lines[c][i].subtotal]
    <3>1. \A i \in I : g[b[i]] = Lines[c][i].subtotal
      BY DEF SubtotalOf
    <3> HIDE DEF g, b
    <3> QED
      BY <3>1
  <2>7. TotalAmount[c] = SumFunction([i \in I |-> g[b[i]]])
    BY <2>6, TotalsAssumption
  <2> HIDE DEF I, E, g, b
  <2>8. SumFunction([i \in I |-> g[b[i]]]) = SumFunction(g)
    BY <2>3, <2>4, <2>5, RenamedSum
  <2> QED
    BY <2>1, <2>2, <2>7, <2>8
<1>3. [c \in S |-> TotalAmount[c]] = GroupSums(D, f, e, S)
  BY <1>2 DEF GroupSums
<1>4. SumOf(D) = SumFunction(f)
  BY DEF SumOf, SubtotalOf
<1> HIDE DEF D, f, e
<1>5. SumFunction(GroupSums(D, f, e, S)) = SumFunction(f)
  BY <1>1, GroupedSum
<1> QED
  BY <1>3, <1>4, <1>5 DEF Revenue, D

LEMMA ByProduct ==
  ASSUME NEW S \in SUBSET Checkouts
  PROVE  SumFunction(SalesByProduct(S)) = Revenue(S)
<1> DEFINE D == Details(S)
           key == [row \in D |-> ProductOf(row)]
<1>1. \A row \in D : key[row] = ProductOf(row)
  OBVIOUS
<1> HIDE DEF key
<1>2. SalesByProduct(S) = [k \in {key[row] : row \in D} |->
                             SumOf({row \in D : key[row] = k})]
  <2>1. {key[row] : row \in D} = {ProductOf(row) : row \in D}
    BY <1>1
  <2>2. \A k : {row \in D : key[row] = k} = {row \in D : ProductOf(row) = k}
    BY <1>1
  <2> QED
    BY <2>1, <2>2 DEF SalesByProduct
<1> QED
  BY <1>2, AnyReport, RevenueOfDetails

LEMMA ByCategory ==
  ASSUME NEW S \in SUBSET Checkouts
  PROVE  SumFunction(SalesByCategory(S)) = Revenue(S)
<1> DEFINE D == Details(S)
           key == [row \in D |-> Category[ProductOf(row)]]
<1>1. \A row \in D : key[row] = Category[ProductOf(row)]
  OBVIOUS
<1> HIDE DEF key
<1>2. SalesByCategory(S) = [k \in {key[row] : row \in D} |->
                              SumOf({row \in D : key[row] = k})]
  <2>1. {key[row] : row \in D} = {Category[ProductOf(row)] : row \in D}
    BY <1>1
  <2>2. \A k : {row \in D : key[row] = k} = {row \in D : Category[ProductOf(row)] = k}
    BY <1>1
  <2> QED
    BY <2>1, <2>2 DEF SalesByCategory
<1> QED
  BY <1>2, AnyReport, RevenueOfDetails

LEMMA ByExport ==
  ASSUME NEW S \in SUBSET Checkouts
  PROVE  SumFunction([row \in ExportCSV(S) |-> row.total]) = Revenue(S)
<1> DEFINE E == ExportCSV(S)
           f == [row \in E |-> row.total]
           b == [c \in S |-> [sale |-> c, total |-> TotalAmount[c], payment |-> PaidWith[c]]]
<1>1. IsFiniteSet(S)
  BY DetailFacts
<1>2. \A c \in S : b[c] \in E /\ b[c].sale = c /\ b[c].total = TotalAmount[c]
  BY DEF ExportCSV
<1>3. \A row \in E : \E c \in S : row = b[c]
  BY DEF ExportCSV
<1>4. b \in [S -> E]
  BY <1>2
<1> HIDE DEF b, E
<1>5. b \in Bijection(S, E)
  <2>1. \A x, y \in S : b[x] = b[y] => x = y
    BY <1>2
  <2> QED
    BY <1>3, <1>4, <2>1 DEF Bijection, Injection, Surjection, IsInjective
<1>6. f \in [E -> Int]
  <2>1. \A row \in E : row.total \in Int
    BY <1>2, <1>3, TotalType
  <2> QED
    BY <2>1
<1>7. [c \in S |-> f[b[c]]] = [c \in S |-> TotalAmount[c]]
  <2>1. \A c \in S : f[b[c]] = TotalAmount[c]
    BY <1>2
  <2> HIDE DEF f
  <2> QED
    BY <2>1
<1> HIDE DEF f
<1>8. SumFunction([c \in S |-> f[b[c]]]) = SumFunction(f)
  BY <1>1, <1>5, <1>6, RenamedSum
<1> QED
  BY <1>7, <1>8 DEF Revenue, f, E

\* The Monday that a week begins on.
LEMMA Mondays ==
  ASSUME NEW d \in 0..6
  PROVE  WeekStart(d) \in (d - 6)..d /\ (FirstWeekday + WeekStart(d)) % 7 = 1
BY ReportsAssumption DEF WeekStart
-----------------------------------------------------------------------------
(* The list of sales and its pages. *)

Decreasing(s) == \A i, j \in DOMAIN s : i < j => s[i] > s[j]

\* Every finite set of checkouts can be listed, the newest first.
LEMMA Listed ==
  ASSUME NEW S \in SUBSET Nat, IsFiniteSet(S)
  PROVE  \E s \in [1..Cardinality(S) -> S] : Decreasing(s)
<1> DEFINE n == Cardinality(S)
           T == {k \in 0..n : \A R \in SUBSET S :
                    Cardinality(R) = k => \E s \in [1..k -> R] : Decreasing(s)}
<1>0. n \in Nat
  BY FS_CardinalityType
<1>1. 0 \in T
  <2>1. ASSUME NEW R \in SUBSET S
        PROVE  \E s \in [1..0 -> R] : Decreasing(s)
    <3> DEFINE s == [i \in 1..0 |-> 0]
    <3>1. s \in [1..0 -> R] /\ Decreasing(s)
      BY DEF Decreasing
    <3> QED
      BY <3>1
  <2> QED
    BY <1>0, <2>1
<1>2. ASSUME NEW k \in 0..(n - 1), k \in T
      PROVE  k + 1 \in T
  <2>1. ASSUME NEW R \in SUBSET S, Cardinality(R) = k + 1
        PROVE  \E s \in [1..(k + 1) -> R] : Decreasing(s)
    <3>1. R # {} /\ R \in SUBSET Nat
      BY <1>0, <2>1, PartFacts
    <3>2. PICK m \in R : \A x \in R : m <= x
      BY <3>1, LeastNumber
    <3>3. R \ {m} \in SUBSET S /\ Cardinality(R \ {m}) = k
      <4>1. Cardinality(R \ {m}) = Cardinality(R) - 1
        BY PartFacts, Zenon
      <4> QED
        BY <1>0, <2>1, <4>1
    <3>4. PICK t \in [1..k -> R \ {m}] : Decreasing(t)
      BY <1>2, <3>3
    <3> DEFINE s == [i \in 1..(k + 1) |-> IF i = k + 1 THEN m ELSE t[i]]
    <3>5. s \in [1..(k + 1) -> R]
      BY <3>4
    <3>6. ASSUME NEW i \in 1..(k + 1), NEW j \in 1..(k + 1), i < j
          PROVE  s[i] > s[j]
      <4>0. i \in 1..k /\ k \in Nat
        BY <1>0, <3>6
      <4>a. s[i] = t[i]
        BY <3>6, <4>0
      <4>b. t[i] \in R \ {m}
        BY <3>4, <4>0
      <4>1. s[i] = t[i] /\ t[i] \in R \ {m} /\ t[i] \in Nat /\ m \in Nat
        BY <3>1, <4>a, <4>b
      <4>2. CASE j = k + 1
        BY <3>2, <4>1, <4>2
      <4>3. CASE j \in 1..k
        BY <3>4, <3>6, <4>0, <4>1, <4>3 DEF Decreasing
      <4> QED
        BY <4>2, <4>3
    <3>7. Decreasing(s)
      BY <3>6 DEF Decreasing
    <3> QED
      BY <3>5, <3>7
  <2> QED
    BY <1>0, <2>1
<1>3. n \in T
  <2> HIDE DEF T, n
  <2>1. \A k \in 0..n : k \in T
    BY <1>0, <1>1, <1>2, UpTo
  <2> QED
    BY <1>0, <2>1
<1> QED
  BY <1>3

\* The place of b in that list.
Rank(S, b) == Cardinality({c \in S : c >= b})

\* The list has every sale once, at its rank.
LEMMA ListFacts ==
  ASSUME NEW S \in SUBSET Nat, IsFiniteSet(S)
  PROVE  LET s == NewestFirst(S)
             n == Cardinality(S)
         IN  /\ n \in Nat /\ s \in [1..n -> S] /\ s \in Seq(S) /\ Len(s) = n
             /\ \A b \in S : Rank(S, b) \in 1..n /\ s[Rank(S, b)] = b
<1> DEFINE s == NewestFirst(S)
           n == Cardinality(S)
<1>1. s \in [1..n -> S] /\ Decreasing(s)
  BY Listed DEF NewestFirst, Decreasing
<1>2. n \in Nat
  BY FS_CardinalityType
<1> HIDE DEF s
<1>3. \A i, j \in 1..n : s[i] = s[j] => i = j
  <2> SUFFICES ASSUME NEW i \in 1..n, NEW j \in 1..n, i < j, s[i] = s[j]
               PROVE  FALSE
    BY <1>2
  <2>1. s[i] \in Nat /\ s[i] > s[j]
    BY <1>1 DEF Decreasing
  <2> QED
    BY <2>1
<1>4. \A b \in S : \E i \in 1..n : s[i] = b
  <2> HIDE DEF n
  <2>1. s \in Injection(1..n, S)
    BY <1>1, <1>3 DEF Injection, IsInjective
  <2>2. IsFiniteSet(1..n) /\ Cardinality(1..n) = n
    BY <1>2, FS_Interval
  <2>3. s \in Surjection(1..n, S)
    BY <2>1, <2>2, FS_Injection DEF n
  <2> QED
    BY <2>3 DEF Surjection
<1>5. ASSUME NEW i \in 1..n
      PROVE  Rank(S, s[i]) = i
  <2> DEFINE R == {c \in S : c >= s[i]}
             t == [j \in 1..i |-> s[j]]
  <2>1. \A j \in 1..n : s[j] \in Nat /\ (s[j] >= s[i] <=> j <= i)
    <3> SUFFICES ASSUME NEW j \in 1..n
                 PROVE  s[j] \in Nat /\ (s[j] >= s[i] <=> j <= i)
      OBVIOUS
    <3>1. s[i] \in Nat /\ s[j] \in Nat /\ i \in Nat /\ j \in Nat
      <4>1. \A k \in 1..n : s[k] \in Nat
        <5> HIDE DEF n
        <5> QED
          BY <1>1
      <4> QED
        BY <1>2, <4>1
    <3>2. (j < i => s[j] > s[i]) /\ (i < j => s[i] > s[j])
      BY <1>1 DEF Decreasing
    <3> QED
      BY <3>1, <3>2
  <2>2. \A j \in 1..i : j \in 1..n /\ t[j] = s[j]
    BY <1>2
  <2>3. t \in [1..i -> R]
    BY <1>1, <2>1, <2>2
  <2>4. \A c \in R : \E j \in 1..i : t[j] = c
    <3> SUFFICES ASSUME NEW c \in R
                 PROVE  \E j \in 1..i : t[j] = c
      OBVIOUS
    <3>1. PICK j \in 1..n : s[j] = c
      BY <1>4
    <3>2. j \in 1..i
      BY <1>2, <2>1, <3>1
    <3> QED
      BY <3>1, <3>2
  <2>5. t \in Bijection(1..i, R)
    <3>1. \A j, k \in 1..i : t[j] = t[k] => j = k
      BY <1>3, <2>2
    <3> HIDE DEF t, R
    <3> QED
      BY <2>3, <2>4, <3>1 DEF Bijection, Injection, Surjection, IsInjective
  <2>6. IsFiniteSet(1..i) /\ Cardinality(1..i) = i
    BY <1>2, FS_Interval
  <2> HIDE DEF t
  <2>7. Cardinality(R) = i
    BY <2>5, <2>6, FS_Bijection DEF ExistsBijection
  <2> QED
    BY <2>7 DEF Rank
<1>6. s \in Seq(S) /\ Len(s) = n
  BY <1>1, <1>2
<1>7. \A b \in S : Rank(S, b) \in 1..n /\ s[Rank(S, b)] = b
  BY <1>4, <1>5
<1> QED
  BY <1>1, <1>2, <1>6, <1>7 DEF s

LEMMA SmallMod ==
  ASSUME NEW m \in Nat \ {0}, NEW a \in 0..(m - 1)
  PROVE  a % m = a
OBVIOUS

LEMMA ProductNat ==
  ASSUME NEW p \in Nat \ {0}, NEW z \in Nat
  PROVE  (p - 1) * z \in Nat
OBVIOUS

LEMMA Times ==
  ASSUME NEW a \in Int, NEW b \in Int, a <= b, NEW z \in Nat
  PROVE  a * z <= b * z /\ a * z \in Int /\ b * z \in Int
<1>1. (b - a) * z >= 0
  OBVIOUS
<1>2. (b - a) * z = b * z - a * z
  OBVIOUS
<1>3. a * z \in Int /\ b * z \in Int
  OBVIOUS
<1> DEFINE x == a * z
           y == b * z
<1>4. y - x >= 0 /\ x \in Int /\ y \in Int
  BY <1>1, <1>2, <1>3
<1> HIDE DEF x, y
<1>5. x <= y
  BY <1>4
<1> QED
  BY <1>3, <1>5 DEF x, y

\* The entries of page p are those between its ends.
LEMMA OnPage ==
  ASSUME NEW size \in Nat \ {0}, NEW p \in Nat \ {0}, NEW i \in Nat \ {0}
  PROVE  (i - 1) \div size = p - 1
           <=> (p - 1) * size < i /\ i <= (p - 1) * size + size
<1> DEFINE q == (i - 1) \div size
<1>1. q \in Int /\ q * size <= i - 1 /\ i - 1 < q * size + size
  <2>1. q \in Int /\ (i - 1) % size \in 0..(size - 1)
    OBVIOUS
  <2>2. i - 1 = size * q + ((i - 1) % size)
    OBVIOUS
  <2>3. size * q = q * size
    BY <2>1
  <2> HIDE DEF q
  <2> DEFINE y == q * size
             z == (i - 1) % size
  <2>4. y \in Int /\ z \in 0..(size - 1) /\ i - 1 = y + z
    <3>1. y \in Int
      BY <2>1
    <3>2. i - 1 = y + z
      BY <2>2, <2>3
    <3> HIDE DEF y, z
    <3> QED
      BY <2>1, <3>1, <3>2 DEF z
  <2> HIDE DEF y, z
  <2>5. y <= i - 1 /\ i - 1 < y + size
    BY <2>4
  <2> QED
    BY <2>1, <2>5 DEF y
<1> HIDE DEF q
<1>2. CASE q = p - 1
  <2> DEFINE y == q * size
  <2>1. y \in Int /\ y <= i - 1 /\ i - 1 < y + size
    BY <1>1
  <2> HIDE DEF y
  <2>2. y < i /\ i <= y + size
    BY <2>1
  <2> QED
    BY <1>2, <2>2 DEF q, y
<1>3. CASE q < p - 1
  <2>1. (q + 1) * size <= (p - 1) * size /\ (p - 1) * size \in Int
    BY <1>1, <1>3, Times
  <2>2. (q + 1) * size = q * size + size
    BY <1>1
  <2> DEFINE y == q * size
             w == (p - 1) * size
  <2>3. y \in Int /\ w \in Int /\ i - 1 < y + size /\ y + size <= w
    BY <1>1, <2>1, <2>2
  <2> HIDE DEF y, w
  <2>4. ~ (w < i)
    BY <2>3
  <2> QED
    BY <1>1, <1>3, <2>4 DEF q, w
<1>4. CASE p - 1 < q
  <2>1. p * size <= q * size /\ p * size \in Int
    BY <1>1, <1>4, Times
  <2>2. p * size = (p - 1) * size + size
    OBVIOUS
  <2> DEFINE y == q * size
             w == (p - 1) * size
  <2>3. y \in Int /\ w \in Int /\ y <= i - 1 /\ w + size <= y
    BY <1>1, <2>1, <2>2
  <2> HIDE DEF y, w
  <2>4. ~ (i <= w + size)
    BY <2>3
  <2> QED
    BY <1>1, <1>4, <2>4 DEF q, w
<1> QED
  BY <1>1, <1>2, <1>3, <1>4

\* The entries from start on, at most size of them.
Cut(items, start, size) ==
  LET end == IF start + size > Len(items) THEN Len(items) ELSE start + size
  IN IF start >= Len(items) THEN <<>> ELSE SubSeq(items, start + 1, end)

\* What Paginate cuts out of a list, where nothing wraps.
LEMMA PaginateCuts ==
  ASSUME NEW items, NEW p, NEW size, (p - 1) * size \in 0..MaxInt
  PROVE  Paginate(items, p, size) = Cut(items, (p - 1) * size, size)
<1> DEFINE start == (p - 1) * size
<1>1. MaxInt \in Nat /\ start \in 0..MaxInt
  BY ReportsAssumption
<1> HIDE DEF start
<1>2. Wrapped(start) = start
  <2> DEFINE m == 2 * (MaxInt + 1)
             a == start + MaxInt + 1
  <2>1. m \in Nat \ {0} /\ a \in 0..(m - 1)
    BY <1>1
  <2> HIDE DEF m, a
  <2>2. a % m = a
    BY <2>1, SmallMod
  <2> QED
    BY <1>1, <2>2 DEF Wrapped, m, a
<1>3. Wrapped((p - 1) * size) = start
  BY <1>2 DEF start
<1>4. Paginate(items, p, size) = Cut(items, start, size)
  BY <1>3 DEF Paginate, Cut
<1> QED
  BY <1>4 DEF start

LEMMA CutFacts ==
  ASSUME NEW S, NEW items \in Seq(S), NEW start \in Nat, NEW size \in Nat \ {0}
  PROVE  /\ Cut(items, start, size) \in Seq(S)
         /\ Len(Cut(items, start, size)) =
              IF start >= Len(items) THEN 0
              ELSE IF start + size > Len(items) THEN Len(items) - start ELSE size
         /\ \A k \in 1..Len(Cut(items, start, size)) :
              Cut(items, start, size)[k] = items[start + k]
<1> DEFINE n == Len(items)
           cut == Cut(items, start, size)
           end == IF start + size > n THEN n ELSE start + size
<1>1. n \in Nat
  OBVIOUS
<1>2. cut = IF start >= n THEN <<>> ELSE SubSeq(items, start + 1, end)
  BY DEF Cut
<1> HIDE DEF cut, end
<1>3. CASE start >= n
  <2>1. cut = <<>>
    BY <1>2, <1>3
  <2> QED
    BY <1>1, <1>3, <2>1 DEF cut
<1>4. CASE ~ (start >= n)
  <2>1. cut = SubSeq(items, start + 1, end)
    BY <1>2, <1>4
  <2>2. end \in Nat /\ end <= n /\ start + 1 <= end
    BY <1>1, <1>4 DEF end
  <2>3. \A i \in (start + 1)..end : items[i] \in S
    BY <1>1, <2>2
  <2>4. /\ cut \in Seq(S)
        /\ Len(cut) = end - (start + 1) + 1
        /\ \A i \in 1..(end - (start + 1) + 1) : cut[i] = items[start + 1 + i - 1]
    BY <1>1, <2>1, <2>2, <2>3, SubSeqProperties
  <2>5. Len(cut) = end - start /\ \A i \in 1..(end - start) : cut[i] = items[start + i]
    <3>1. end - (start + 1) + 1 = end - start
      BY <1>1, <2>2
    <3>2. \A i \in 1..(end - start) : start + 1 + i - 1 = start + i
      BY <1>1, <2>2
    <3> QED
      BY <2>4, <3>1, <3>2
  <2>6. Len(cut) = IF start + size > n THEN n - start ELSE size
    BY <1>1, <2>2, <2>5 DEF end
  <2>7. \A k \in 1..Len(cut) : cut[k] = items[start + k]
    BY <1>1, <2>2, <2>5
  <2> QED
    BY <1>1, <1>4, <2>4, <2>6, <2>7 DEF cut
<1> QED
  BY <1>1, <1>3, <1>4

-----------------------------------------------------------------------------
(* The readers beside the checkouts. *)

LEMMA CommittedFacts ==
  ASSUME UniqueInv
  PROVE  /\ Committed \in SUBSET Checkouts /\ Committed \in SUBSET Nat
         /\ IsFiniteSet(Committed)
         /\ Cardinality(Committed) \in Nat
         /\ Cardinality(Committed) <= Cardinality(Checkouts)
         /\ Cardinality(Checkouts) \in Nat
         /\ \A a, b : Of(a, b) \in SUBSET Committed
<1>1. Committed \in SUBSET Checkouts
  BY DEF Committed, UniqueInv, TypeOK, Receipt
<1>2. /\ IsFiniteSet(Committed)
      /\ Cardinality(Committed) <= Cardinality(Checkouts)
  BY <1>1, ListAssumption, FS_Subset
<1>3. Committed \in SUBSET Nat
  BY <1>1, ReportsAssumption
<1>4. Cardinality(Committed) \in Nat /\ Cardinality(Checkouts) \in Nat
  BY <1>2, ListAssumption, FS_CardinalityType
<1>5. \A a, b : Of(a, b) \in SUBSET Committed
  BY DEF Of, Committed
<1> QED
  BY <1>1, <1>2, <1>3, <1>4, <1>5

\* A step of a reader changes no receipt and no clock.
LEMMA ReaderLeaves ==
  ASSUME [ReportsNext]_<<vars, reader>>
  PROVE  [Next]_vars
<1>1. ASSUME NEW r \in Readers,
             \/ HandleTodayReport(r) \/ HandleWeeklyReport(r) \/ HandleMonthlyReport(r)
             \/ HandleReport(r) \/ HandleDashboard(r) \/ HandleTransactions(r)
             \/ Read(r) \/ FailRead(r)
      PROVE  UNCHANGED vars
  BY <1>1 DEF HandleTodayReport, HandleWeeklyReport, HandleMonthlyReport, HandleReport,
     HandleDashboard, HandleTransactions, Summary, Ask, Read, TopProducts, RecentSales,
     NextPage, FailRead
<1>2. ASSUME Sell
      PROVE  Next
  BY <1>2 DEF Sell, BeginInOrder, Next
<1>3. ASSUME AllFinished
      PROVE  Next
  BY <1>3 DEF AllFinished, Next
<1> QED
  BY <1>1, <1>2, <1>3 DEF ReportsNext

\* The readers do not disturb the checkouts: with them, the checkouts are still
\* those of ReceiptNumber, and its theorems hold of them.
THEOREM ReportsKeepSpec == ReportsSpec => Spec
<1>1. ReportsInit => Init
  BY DEF ReportsInit
<1>2. [ReportsNext]_<<vars, reader>> => [Next]_vars
  BY ReaderLeaves
<1> QED
  BY <1>1, <1>2, PTL DEF ReportsSpec, Spec

LEMMA ReportsUnique == ReportsSpec => []UniqueInv
BY ReportsKeepSpec, UniqueInvariant, PTL

-----------------------------------------------------------------------------
(* The pages of the list. *)

LEMMA RangeSize ==
  ASSUME NEW n \in Nat, NEW start \in Nat, NEW size \in Nat \ {0},
         NEW range, range = {i \in 1..n : start < i /\ i <= start + size}
  PROVE  Cardinality(range) = IF start >= n THEN 0
                              ELSE IF start + size > n THEN n - start ELSE size
<1> DEFINE end == IF start + size > n THEN n ELSE start + size
<1>1. end \in Int /\ start + 1 \in Int /\ end - (start + 1) + 1 = end - start
  OBVIOUS
<1>2. range = (start + 1)..end
  OBVIOUS
<1>3. Cardinality(range) = IF start + 1 > end THEN 0 ELSE end - start
  <2> HIDE DEF end
  <2> QED
    BY <1>1, <1>2, FS_Interval
<1> QED
  BY <1>3

LEMMA Pages ==
  ASSUME UniqueInv
  PROVE  PagesPartition
<1> SUFFICES ASSUME NEW perPage \in 1..(MaxPerPage + 1), NEW p \in 1..(MaxInt + 1)
             PROVE  LET reference == {i \in 1..Len(FindAllForOrg) :
                                        (i - 1) \div Capped(perPage) = p - 1}
                    IN  (p - 1) * Capped(perPage) <= MaxInt =>
                        Paginate(FindAllForOrg, p, Capped(perPage)) =
                          [k \in 1..Cardinality(reference) |->
                             FindAllForOrg[(p - 1) * Capped(perPage) + k]]
  BY DEF PagesPartition
<1> DEFINE size == Capped(perPage)
           list == FindAllForOrg
           n == Len(list)
           start == (p - 1) * size
           reference == {i \in 1..n : (i - 1) \div size = p - 1}
<1>1. size \in Nat \ {0} /\ p \in Nat \ {0}
  BY ReportsAssumption DEF Capped
<1>2. start \in Nat
  <2> HIDE DEF size
  <2> QED
    BY <1>1, ProductNat
<1>3. list \in Seq(Committed) /\ n \in Nat
  <2>1. Committed \in SUBSET Nat /\ IsFiniteSet(Committed)
    BY CommittedFacts
  <2>2. NewestFirst(Committed) \in Seq(Committed)
    BY <2>1, ListFacts
  <2> QED
    BY <2>2 DEF FindAllForOrg
<1>4. reference = {i \in 1..n : start < i /\ i <= start + size}
  <2> HIDE DEF size, n
  <2>1. \A i \in 1..n : (i - 1) \div size = p - 1 <=> start < i /\ i <= start + size
    <3>1. \A i \in 1..n : i \in Nat \ {0}
      OBVIOUS
    <3> QED
      BY <1>1, <3>1, OnPage
  <2> HIDE DEF start
  <2> QED
    BY <2>1
<1>5. start <= MaxInt => Paginate(list, p, size) = Cut(list, start, size)
  <2> HIDE DEF size, list
  <2>1. start <= MaxInt => start \in 0..MaxInt
    <3> HIDE DEF start
    <3> QED
      BY <1>2, ReportsAssumption
  <2> QED
    BY <2>1, PaginateCuts
<1> HIDE DEF size, list, start, reference
<1>6. Cut(list, start, size) = [k \in 1..Cardinality(reference) |-> list[start + k]]
  <2> DEFINE cut == Cut(list, start, size)
  <2>1. /\ cut \in Seq(Committed)
        /\ Len(cut) = IF start >= Len(list) THEN 0
                      ELSE IF start + size > Len(list) THEN Len(list) - start ELSE size
        /\ \A k \in 1..Len(cut) : cut[k] = list[start + k]
    BY <1>1, <1>2, <1>3, CutFacts
  <2> HIDE DEF cut, n
  <2>2. Cardinality(reference) = IF start >= n THEN 0
                                 ELSE IF start + size > n THEN n - start ELSE size
    BY <1>1, <1>2, <1>3, <1>4, RangeSize
  <2>3. Cardinality(reference) = Len(cut)
    BY <2>1, <2>2 DEF n
  <2>4. cut = [k \in 1..Len(cut) |-> cut[k]]
    BY <2>1
  <2>5. cut = [k \in 1..Cardinality(reference) |-> list[start + k]]
    BY <2>1, <2>3, <2>4
  <2> QED
    BY <2>5 DEF cut
<1>7. start <= MaxInt =>
        Paginate(list, p, size) = [k \in 1..Cardinality(reference) |-> list[start + k]]
  BY <1>5, <1>6
<1> QED
  BY <1>7 DEF size, list, start, reference

\* Up to the page where the start of a page no longer fits an int, the pages
\* are a partition of the list, for any list and any page size.
THEOREM PagesArePartition == ReportsSpec => []PagesPartition
<1>1. UniqueInv => PagesPartition
  BY Pages
<1> QED
  BY <1>1, ReportsUnique, PTL

\* The reports of the same days reconcile with the revenue, for any sales, lines
\* and categories, and the week of any day begins on a Monday.
THEOREM ReportsReconciled == ReportsSpec => []ReportsReconcile
<1>1. UniqueInv => ReportsReconcile
  <2> SUFFICES ASSUME UniqueInv
               PROVE  ReportsReconcile
    OBVIOUS
  <2>1. \A a, b : Of(a, b) \in SUBSET Checkouts
    BY CommittedFacts
  <2> QED
    BY <2>1, Mondays, ByProduct, ByCategory, ByExport DEF ReportsReconcile
<1> QED
  BY <1>1, ReportsUnique, PTL
-----------------------------------------------------------------------------
(* What each reader has seen so far. *)

\* The arrays have an entry for every reader.
Shapes ==
  /\ DOMAIN doing = Readers /\ DOMAIN kind = Readers /\ DOMAIN from = Readers
  /\ DOMAIN to = Readers /\ DOMAIN counted = Readers /\ DOMAIN top = Readers
  /\ DOMAIN recent = Readers /\ DOMAIN page = Readers /\ DOMAIN met = Readers
  /\ DOMAIN before = Readers

\* Each kind of request has its own statements, and a walk begins at page 1.
Phase(r) ==
  /\ doing[r] = "idle" => page[r] = 1
  /\ doing[r] = "top" => kind[r] \in {"summary", "dashboard"}
  /\ doing[r] = "recent" => kind[r] = "dashboard"
  /\ doing[r] = "pages" => kind[r] = "list"

\* What a summary has counted stays within its days until the top products are
\* read from them.
SummaryAgrees(r) ==
  /\ doing[r] = "top" => counted[r] \subseteq Of(from[r], to[r])
  /\ doing[r] = "ok" /\ r \notin lost => counted[r] \subseteq top[r]

\* What a dashboard has counted stays within the day while the day lasts.
DashboardAgrees(r) ==
  /\ doing[r] \in {"top", "recent"} => counted[r] \subseteq Of(dbDay, dbDay)
  /\ doing[r] \in {"recent", "ok"} => counted[r] \subseteq top[r]
  /\ doing[r] = "ok" => Len(recent[r]) >= Limit \/ counted[r] \subseteq ToSet(recent[r])

\* A sale that was there at the start has been met or is on the pages to come,
\* however many others have moved it; and the pages do not go far past the end.
WalkMeets(r) ==
  /\ doing[r] = "pages" =>
       /\ page[r] \in Nat \ {0}
       /\ (page[r] - 1) * PerPage < Cardinality(Committed) + PerPage
       /\ \A b \in before[r] :
            b \in Committed /\ (b \in met[r] \/ Rank(Committed, b) > (page[r] - 1) * PerPage)
  /\ doing[r] = "ok" => before[r] \subseteq met[r]

ReaderOK(r) ==
  /\ Phase(r)
  /\ kind[r] = "summary" => SummaryAgrees(r)
  /\ kind[r] = "dashboard" /\ r \notin spanned => DashboardAgrees(r)
  /\ kind[r] = "list" => WalkMeets(r)

ReadersInv == Shapes /\ \A r \in Readers : ReaderOK(r)

LEMMA ReadersStart == ReportsInit => ReadersInv
BY DEF ReportsInit, ReadersInv, Shapes, ReaderOK, Phase

\* A step that changes nothing of reader r.
Untouched(r) ==
  /\ doing'[r] = doing[r] /\ kind'[r] = kind[r] /\ from'[r] = from[r] /\ to'[r] = to[r]
  /\ counted'[r] = counted[r] /\ top'[r] = top[r] /\ recent'[r] = recent[r]
  /\ page'[r] = page[r] /\ met'[r] = met[r] /\ before'[r] = before[r]
  /\ r \in lost' <=> r \in lost

\* A day of the database that ends within a dashboard is noticed.
Outside(r) ==
  r \notin spanned' => /\ r \notin spanned
                       /\ dbDay' = dbDay \/ kind[r] # "dashboard" \/ doing[r] \notin {"top", "recent"}

LEMMA OfGrows ==
  ASSUME receipts \subseteq receipts', NEW a, NEW b
  PROVE  Of(a, b) \subseteq Of(a, b)'
BY DEF Of

\* A sale never moves forward in the list.
LEMMA RankGrows ==
  ASSUME UniqueInv, UniqueInv', receipts \subseteq receipts', NEW b
  PROVE  /\ Committed \subseteq Committed'
         /\ Rank(Committed, b) \in Nat /\ Rank(Committed, b)' \in Nat
         /\ Rank(Committed, b) <= Rank(Committed, b)'
         /\ Cardinality(Committed) <= Cardinality(Committed)'
         /\ Cardinality(Committed) \in Nat /\ Cardinality(Committed)' \in Nat
<1>1. Committed \subseteq Committed'
  BY DEF Committed
<1>2. IsFiniteSet(Committed)
  BY CommittedFacts
<1>3. Committed' \in SUBSET Checkouts
  BY DEF Committed, UniqueInv, TypeOK, Receipt
<1> DEFINE C == Committed
           D == Committed'
<1>4. IsFiniteSet(D)
  BY <1>3, ListAssumption, FS_Subset
<1> HIDE DEF C, D
<1>5. C \subseteq D /\ IsFiniteSet(C)
  BY <1>1, <1>2 DEF C, D
<1>6. {c \in C : c >= b} \in SUBSET {c \in D : c >= b} /\ {c \in D : c >= b} \in SUBSET D
  BY <1>5
<1>7. IsFiniteSet({c \in D : c >= b}) /\ IsFiniteSet({c \in C : c >= b})
  BY <1>4, <1>6, FS_Subset
<1>8. Rank(C, b) <= Rank(D, b) /\ Rank(C, b) \in Nat /\ Rank(D, b) \in Nat
  BY <1>6, <1>7, FS_Subset, FS_CardinalityType DEF Rank
<1>9. Cardinality(C) <= Cardinality(D) /\ Cardinality(C) \in Nat /\ Cardinality(D) \in Nat
  BY <1>4, <1>5, FS_Subset, FS_CardinalityType
<1>10. Rank(Committed, b)' = Rank(D, b)
  BY DEF Rank, D
<1> QED
  BY <1>1, <1>8, <1>9, <1>10 DEF C, D

\* The invariant of a reader survives what the checkouts and the other readers do.
LEMMA ReaderKept ==
  ASSUME UniqueInv, UniqueInv', receipts \subseteq receipts', NEW r \in Readers,
         Untouched(r), ReaderOK(r), Outside(r)
  PROVE  ReaderOK(r)'
<1>1. Phase(r)'
  BY DEF ReaderOK, Phase, Untouched
<1>2. ASSUME kind'[r] = "summary"
      PROVE  SummaryAgrees(r)'
  BY <1>2, OfGrows DEF ReaderOK, SummaryAgrees, Untouched
<1>3. ASSUME kind'[r] = "dashboard", r \notin spanned'
      PROVE  DashboardAgrees(r)'
  <2>1. /\ DashboardAgrees(r)
        /\ dbDay' = dbDay \/ doing[r] \notin {"top", "recent"}
    BY <1>3 DEF ReaderOK, Untouched, Outside
  <2>2. CASE dbDay' = dbDay
    <3>1. Of(dbDay, dbDay) \subseteq Of(dbDay, dbDay)'
      BY <2>2 DEF Of
    <3> QED
      BY <2>1, <3>1 DEF DashboardAgrees, Untouched
  <2>3. CASE doing[r] \notin {"top", "recent"}
    BY <2>1, <2>3 DEF DashboardAgrees, Untouched
  <2> QED
    BY <2>1, <2>2, <2>3
<1>4. ASSUME kind'[r] = "list"
      PROVE  WalkMeets(r)'
  <2>1. WalkMeets(r)
    BY <1>4 DEF ReaderOK, Untouched
  <2>2. ASSUME doing'[r] = "pages"
        PROVE  /\ page'[r] \in Nat \ {0}
               /\ (page'[r] - 1) * PerPage < Cardinality(Committed)' + PerPage
               /\ \A b \in before'[r] :
                    /\ b \in Committed'
                    /\ b \in met'[r] \/ Rank(Committed, b)' > (page'[r] - 1) * PerPage
    <3> DEFINE start == (page[r] - 1) * PerPage
    <3>1. /\ page[r] \in Nat \ {0} /\ start < Cardinality(Committed) + PerPage
          /\ \A b \in before[r] :
               b \in Committed /\ (b \in met[r] \/ Rank(Committed, b) > start)
      BY <2>1, <2>2 DEF WalkMeets, Untouched
    <3>2. start \in Nat /\ PerPage \in Nat
      <4>1. PerPage \in Nat
        BY ReportsAssumption
      <4> QED
        BY <3>1, <4>1, ProductNat
    <3>3. (page'[r] - 1) * PerPage = start /\ page'[r] \in Nat \ {0}
      BY <3>1 DEF Untouched
    <3> HIDE DEF start
    <3>4. start < Cardinality(Committed)' + PerPage
      BY <3>1, <3>2, RankGrows
    <3>5. \A b \in before[r] :
            b \in Committed' /\ (b \in met[r] \/ Rank(Committed, b)' > start)
      BY <3>1, <3>2, RankGrows
    <3> QED
      BY <3>3, <3>4, <3>5 DEF Untouched
  <2>3. doing'[r] = "ok" => before'[r] \subseteq met'[r]
    BY <2>1 DEF WalkMeets, Untouched
  <2> QED
    BY <2>2, <2>3 DEF WalkMeets
<1> QED
  BY <1>1, <1>2, <1>3, <1>4 DEF ReaderOK

\* A step of reader r.
Turn(r) ==
  /\ UNCHANGED vars
  /\ \A q \in Readers \ {r} : Untouched(q) /\ (q \notin spanned' => q \notin spanned)
  /\ ReaderOK(r)'
  /\ Shapes'

LEMMA TurnKeeps ==
  ASSUME UniqueInv, UniqueInv', ReadersInv, NEW r \in Readers, Turn(r)
  PROVE  ReadersInv'
<1>1. receipts \subseteq receipts' /\ dbDay' = dbDay
  BY DEF Turn, vars
<1>2. ASSUME NEW q \in Readers \ {r}
      PROVE  ReaderOK(q)'
  BY <1>1, <1>2, ReaderKept DEF Turn, ReadersInv, Outside
<1> QED
  BY <1>2 DEF Turn, ReadersInv

LEMMA AskTurn ==
  ASSUME UniqueInv, ReadersInv, NEW r \in Readers, NEW what, NEW a, NEW b, NEW S, NEW next,
         Ask(r, what, a, b, S, next),
         \/ what = "summary" /\ next = "top" /\ S = Of(a, b)
         \/ what = "dashboard" /\ next = "top" /\ S = Of(dbDay, dbDay)
         \/ what = "list" /\ next = "pages"
  PROVE  Turn(r)
<1>1. Shapes /\ Phase(r)
  BY DEF ReadersInv, ReaderOK
<1>2. /\ doing[r] = "idle" /\ UNCHANGED vars
      /\ doing'[r] = next /\ kind'[r] = what /\ from'[r] = a /\ to'[r] = b
      /\ counted'[r] = S /\ page'[r] = 1
      /\ before'[r] = IF what = "list" THEN Committed ELSE {}
  BY <1>1 DEF Ask, Shapes, Phase
<1>3. Shapes'
  BY <1>1 DEF Ask, Shapes
<1>4. \A q \in Readers \ {r} : Untouched(q) /\ (q \notin spanned' => q \notin spanned)
  BY <1>1 DEF Ask, Shapes, Untouched
<1>5. receipts' = receipts /\ dbDay' = dbDay
  BY <1>2 DEF vars
<1>6. CASE what = "summary" /\ next = "top" /\ S = Of(a, b)
  <2>1. counted'[r] \subseteq Of(from[r], to[r])'
    BY <1>2, <1>5, <1>6 DEF Of
  <2>2. ReaderOK(r)'
    BY <1>2, <1>6, <2>1 DEF ReaderOK, Phase, SummaryAgrees
  <2> QED
    BY <1>2, <1>3, <1>4, <2>2 DEF Turn
<1>7. CASE what = "dashboard" /\ next = "top" /\ S = Of(dbDay, dbDay)
  <2>1. counted'[r] \subseteq Of(dbDay, dbDay)'
    BY <1>2, <1>5, <1>7 DEF Of
  <2>2. ReaderOK(r)'
    BY <1>2, <1>7, <2>1 DEF ReaderOK, Phase, DashboardAgrees
  <2> QED
    BY <1>2, <1>3, <1>4, <2>2 DEF Turn
<1>8. CASE what = "list" /\ next = "pages"
  <2>1. PerPage \in Nat \ {0} /\ Cardinality(Committed) \in Nat
    BY ReportsAssumption, CommittedFacts
  <2>2. \A c \in Committed : Rank(Committed, c) \in Nat \ {0}
    <3>1. \A c \in Committed : Rank(Committed, c) \in 1..Cardinality(Committed)
      BY CommittedFacts, ListFacts
    <3> QED
      BY <2>1, <3>1
  <2>3. Committed' = Committed /\ \A c : Rank(Committed, c)' = Rank(Committed, c)
    BY <1>5 DEF Committed, Rank
  <2>4. (page'[r] - 1) * PerPage = 0
    BY <1>2, <2>1
  <2>5. WalkMeets(r)'
    <3>1. \A c \in before'[r] : c \in Committed' /\ Rank(Committed, c)' > 0
      BY <1>2, <1>8, <2>2, <2>3
    <3>2. 0 < Cardinality(Committed)' + PerPage
      BY <2>1, <2>3
    <3> QED
      BY <1>2, <1>8, <2>4, <3>1, <3>2 DEF WalkMeets
  <2>6. ReaderOK(r)'
    BY <1>2, <1>8, <2>5 DEF ReaderOK, Phase
  <2> QED
    BY <1>2, <1>3, <1>4, <2>6 DEF Turn
<1> QED
  BY <1>6, <1>7, <1>8

LEMMA TopTurn ==
  ASSUME UniqueInv, ReadersInv, NEW r \in Readers, TopProducts(r)
  PROVE  Turn(r)
<1>1. Shapes /\ ReaderOK(r)
  BY DEF ReadersInv
<1>2. /\ doing[r] = "top" /\ kind[r] \in {"summary", "dashboard"} /\ UNCHANGED vars
      /\ doing'[r] = IF kind[r] = "dashboard" THEN "recent" ELSE "ok"
      /\ top'[r] = IF kind[r] = "dashboard" THEN Of(dbDay, dbDay) ELSE Of(from[r], to[r])
      /\ UNCHANGED <<kind, counted, spanned, lost>>
  BY <1>1 DEF TopProducts, Shapes, ReaderOK, Phase
<1>3. Shapes'
  BY <1>1 DEF TopProducts, Shapes
<1>4. \A q \in Readers \ {r} : Untouched(q) /\ (q \notin spanned' => q \notin spanned)
  BY <1>1 DEF TopProducts, Shapes, Untouched
<1>5. CASE kind[r] = "summary"
  <2>1. counted'[r] \subseteq top'[r]
    BY <1>1, <1>2, <1>5 DEF ReaderOK, SummaryAgrees
  <2>2. ReaderOK(r)'
    BY <1>2, <1>5, <2>1 DEF ReaderOK, Phase, SummaryAgrees
  <2> QED
    BY <1>2, <1>3, <1>4, <2>2 DEF Turn
<1>6. CASE kind[r] = "dashboard"
  <2>1. ASSUME r \notin spanned'
        PROVE  counted'[r] \subseteq top'[r] /\ counted'[r] \subseteq Of(dbDay, dbDay)'
    <3>1. counted[r] \subseteq Of(dbDay, dbDay)
      BY <1>1, <1>2, <1>6, <2>1 DEF ReaderOK, DashboardAgrees
    <3>2. Of(dbDay, dbDay)' = Of(dbDay, dbDay)
      BY <1>2 DEF Of, vars
    <3> QED
      BY <1>2, <1>6, <3>1, <3>2
  <2>2. ReaderOK(r)'
    BY <1>2, <1>6, <2>1 DEF ReaderOK, Phase, DashboardAgrees
  <2> QED
    BY <1>2, <1>3, <1>4, <2>2 DEF Turn
<1> QED
  BY <1>2, <1>5, <1>6

LEMMA RecentTurn ==
  ASSUME UniqueInv, ReadersInv, NEW r \in Readers, RecentSales(r)
  PROVE  Turn(r)
<1> DEFINE S == Of(dbDay, dbDay)
           sales == NewestFirst(S)
           shown == SubSeq(sales, 1, IF Len(sales) < Limit THEN Len(sales) ELSE Limit)
<1>1. Shapes /\ ReaderOK(r)
  BY DEF ReadersInv
<1>2. /\ doing[r] = "recent" /\ kind[r] = "dashboard" /\ UNCHANGED vars
      /\ doing'[r] = "ok" /\ recent'[r] = shown
      /\ UNCHANGED <<kind, counted, top, spanned, lost>>
  BY <1>1 DEF RecentSales, Shapes, ReaderOK, Phase
<1>3. Shapes'
  BY <1>1 DEF RecentSales, Shapes
<1>4. \A q \in Readers \ {r} : Untouched(q) /\ (q \notin spanned' => q \notin spanned)
  BY <1>1 DEF RecentSales, Shapes, Untouched
<1>5. S \in SUBSET Nat /\ IsFiniteSet(S)
  BY CommittedFacts, FS_Subset
<1>6. Len(shown) >= Limit \/ ToSet(shown) = S
  <2> HIDE DEF S
  <2>1. /\ sales \in Seq(S) /\ Len(sales) \in Nat /\ Limit \in Nat
        /\ \A b \in S : \E i \in 1..Len(sales) : sales[i] = b
    BY <1>5, ListFacts, ReportsAssumption
  <2> HIDE DEF sales
  <2>2. CASE Len(sales) < Limit
    <3>1. shown = sales
      BY <2>1, <2>2, SubSeqFull
    <3>2. ToSet(sales) = S
      BY <2>1 DEF ToSet
    <3> QED
      BY <3>1, <3>2
  <2>3. CASE ~ (Len(sales) < Limit)
    <3>1. \A i \in 1..Limit : sales[i] \in S
      BY <2>1, <2>3
    <3>2. Len(SubSeq(sales, 1, Limit)) = IF 1 <= Limit THEN Limit - 1 + 1 ELSE 0
      BY <2>1, <3>1, SubSeqProperties
    <3> QED
      BY <2>1, <2>3, <3>2
  <2> QED
    BY <2>2, <2>3
<1> HIDE DEF shown
<1>7. r \notin spanned => counted[r] \subseteq S /\ counted[r] \subseteq top[r]
  BY <1>1, <1>2 DEF ReaderOK, DashboardAgrees
<1>8. ReaderOK(r)'
  BY <1>2, <1>6, <1>7 DEF ReaderOK, Phase, DashboardAgrees
<1> QED
  BY <1>2, <1>3, <1>4, <1>8 DEF Turn

LEMMA FailTurn ==
  ASSUME ReadersInv, NEW r \in Readers, FailRead(r)
  PROVE  Turn(r)
<1>1. Shapes /\ ReaderOK(r)
  BY DEF ReadersInv
<1>2. Shapes' /\ UNCHANGED vars
  BY <1>1 DEF FailRead, Shapes
<1>3. \A q \in Readers \ {r} : Untouched(q) /\ (q \notin spanned' => q \notin spanned)
  BY <1>1 DEF FailRead, Shapes, Untouched
<1>4. ReaderOK(r)'
  <2>1. CASE doing[r] = "top" /\ kind[r] = "summary"
    <3>1. doing'[r] = "ok" /\ r \in lost' /\ kind'[r] = "summary"
      BY <1>1, <2>1 DEF FailRead, Shapes
    <3> QED
      BY <3>1 DEF ReaderOK, Phase, SummaryAgrees
  <2>2. CASE ~ (doing[r] = "top" /\ kind[r] = "summary")
    <3>1. doing'[r] = "error"
      BY <1>1, <2>2 DEF FailRead, Shapes
    <3> QED
      BY <3>1 DEF ReaderOK, Phase, SummaryAgrees, DashboardAgrees, WalkMeets
  <2> QED
    BY <2>1, <2>2
<1> QED
  BY <1>2, <1>3, <1>4 DEF Turn

LEMMA PageTurn ==
  ASSUME UniqueInv, ReadersInv, NEW r \in Readers, NextPage(r)
  PROVE  Turn(r)
<1> DEFINE C == Committed
           n == Cardinality(C)
           p == page[r]
           start == (p - 1) * PerPage
           list == NewestFirst(C)
           cut == Paginate(list, p, PerPage)
<1>1. Shapes /\ ReaderOK(r)
  BY DEF ReadersInv
<1>2. Capped(PerPage) = PerPage /\ PerPage \in Nat \ {0} /\ PerPage <= MaxPerPage
      /\ MaxPerPage \in Nat /\ MaxInt \in Nat
  BY ReportsAssumption DEF Capped
<1>3. /\ doing[r] = "pages" /\ kind[r] = "list" /\ UNCHANGED vars
      /\ doing'[r] = IF cut = <<>> THEN "ok" ELSE "pages"
      /\ page'[r] = p + 1 /\ met'[r] = met[r] \cup ToSet(cut)
      /\ UNCHANGED <<kind, before, spanned, lost>>
  BY <1>1, <1>2 DEF NextPage, FindAllForOrg, Shapes, ReaderOK, Phase
<1>4. Shapes'
  BY <1>1 DEF NextPage, Shapes
<1>5. \A q \in Readers \ {r} : Untouched(q) /\ (q \notin spanned' => q \notin spanned)
  BY <1>1 DEF NextPage, Shapes, Untouched
<1>6. /\ p \in Nat \ {0} /\ start < n + PerPage
      /\ \A b \in before[r] : b \in C /\ (b \in met[r] \/ Rank(C, b) > start)
  BY <1>1, <1>3 DEF ReaderOK, WalkMeets
<1>7. C \in SUBSET Nat /\ IsFiniteSet(C) /\ n \in Nat /\ n <= Cardinality(Checkouts)
      /\ Cardinality(Checkouts) \in Nat
  BY CommittedFacts
<1>8. C' = C /\ n' = n /\ \A b : Rank(Committed, b)' = Rank(C, b)
  BY <1>3 DEF Committed, Rank, vars
<1>9. start \in Nat
  BY <1>2, <1>6, ProductNat
<1>10. start <= MaxInt
  BY <1>2, <1>6, <1>7, <1>9, ListAssumption
<1>11. p * PerPage = start + PerPage /\ (p + 1 - 1) * PerPage = p * PerPage
  BY <1>2, <1>6
<1>12. /\ list \in Seq(C) /\ Len(list) = n
       /\ \A b \in C : Rank(C, b) \in 1..n /\ list[Rank(C, b)] = b
  <2> HIDE DEF C
  <2> QED
    BY <1>7, ListFacts
<1>13. /\ cut \in Seq(C)
       /\ Len(cut) = IF start >= n THEN 0
                     ELSE IF start + PerPage > n THEN n - start ELSE PerPage
       /\ \A k \in 1..Len(cut) : cut[k] = list[start + k]
  <2> HIDE DEF C, n, list, p
  <2>1. list \in Seq(C) /\ Len(list) = n
    BY <1>12
  <2>2. cut = Cut(list, start, PerPage)
    <3>1. start \in 0..MaxInt
      <4> HIDE DEF start
      <4> QED
        BY <1>2, <1>9, <1>10
    <3> QED
      BY <3>1, PaginateCuts
  <2> HIDE DEF start, cut
  <2>3. /\ cut \in Seq(C)
        /\ Len(cut) = IF start >= Len(list) THEN 0
                      ELSE IF start + PerPage > Len(list) THEN Len(list) - start ELSE PerPage
        /\ \A k \in 1..Len(cut) : cut[k] = list[start + k]
    BY <1>2, <1>9, <2>1, <2>2, CutFacts
  <2> QED
    BY <2>1, <2>3
<1>14. page'[r] \in Nat \ {0} /\ (page'[r] - 1) * PerPage = start + PerPage
  BY <1>3, <1>6, <1>11
<1> HIDE DEF C, n, p, start, list, cut
\* The sales whose turn it is are on this page.
<1>15. ASSUME NEW b \in before[r]
       PROVE  b \in C /\ (b \in met'[r] \/ Rank(C, b) > start + PerPage)
  <2>1. b \in C /\ (b \in met[r] \/ Rank(C, b) > start)
    BY <1>6
  <2>2. CASE b \in met[r]
    BY <1>3, <2>1, <2>2
  <2>3. CASE Rank(C, b) > start /\ Rank(C, b) <= start + PerPage
    <3> DEFINE k == Rank(C, b) - start
    <3>1. Rank(C, b) \in 1..n /\ list[Rank(C, b)] = b
      BY <1>12, <2>1
    <3>2. k \in 1..Len(cut) /\ start + k = Rank(C, b)
      BY <1>2, <1>7, <1>9, <1>13, <2>3, <3>1
    <3>3. cut[k] = b
      BY <1>13, <3>1, <3>2
    <3>4. b \in ToSet(cut)
      BY <1>13, <3>2, <3>3 DEF ToSet
    <3> QED
      BY <1>3, <2>1, <3>4
  <2>4. CASE Rank(C, b) > start + PerPage
    BY <2>1, <2>4
  <2>5. Rank(C, b) \in Int
    BY <1>12, <2>1
  <2> QED
    BY <1>2, <1>9, <2>1, <2>2, <2>3, <2>4, <2>5
<1>16. CASE cut = <<>>
  <2>1. start >= n
    BY <1>2, <1>7, <1>9, <1>13, <1>16
  <2>2. \A b \in before[r] : b \in met'[r]
    <3> SUFFICES ASSUME NEW b \in before[r]
                 PROVE  b \in met'[r]
      OBVIOUS
    <3>1. b \in C /\ (b \in met[r] \/ Rank(C, b) > start)
      BY <1>6
    <3>2. Rank(C, b) \in 1..n
      BY <1>12, <3>1
    <3> QED
      BY <1>3, <1>7, <1>9, <2>1, <3>1, <3>2
  <2>3. doing'[r] = "ok" /\ before'[r] \subseteq met'[r] /\ kind'[r] = "list"
    BY <1>3, <1>16, <2>2
  <2>4. ReaderOK(r)'
    BY <2>3 DEF ReaderOK, Phase, WalkMeets
  <2> QED
    BY <1>3, <1>4, <1>5, <2>4 DEF Turn
<1>17. CASE cut # <<>>
  <2>1. start < n
    <3> SUFFICES ASSUME start >= n
                 PROVE  FALSE
      BY <1>7, <1>9
    <3>1. Len(cut) = 0
      BY <1>13
    <3> QED
      BY <1>13, <1>17, <3>1
  <2>2. /\ doing'[r] = "pages" /\ kind'[r] = "list" /\ before'[r] = before[r]
    BY <1>3, <1>17
  <2>3. start + PerPage < Cardinality(Committed)' + PerPage
    BY <1>2, <1>7, <1>8, <1>9, <2>1 DEF n, C
  <2>4. \A b \in before'[r] :
          b \in Committed' /\ (b \in met'[r] \/ Rank(Committed, b)' > start + PerPage)
    BY <1>8, <1>15, <2>2 DEF C
  <2>5. WalkMeets(r)'
    BY <1>14, <2>2, <2>3, <2>4 DEF WalkMeets
  <2>6. ReaderOK(r)'
    BY <2>2, <2>5 DEF ReaderOK, Phase
  <2> QED
    BY <1>3, <1>4, <1>5, <2>6 DEF Turn
<1> QED
  BY <1>16, <1>17

LEMMA ReadersStep ==
  ASSUME UniqueInv, UniqueInv', ReadersInv, [ReportsNext]_<<vars, reader>>
  PROVE  ReadersInv'
<1>1. ASSUME NEW r \in Readers,
             \/ HandleTodayReport(r) \/ HandleWeeklyReport(r) \/ HandleMonthlyReport(r)
             \/ HandleReport(r) \/ HandleDashboard(r) \/ HandleTransactions(r)
      PROVE  Turn(r)
  <2>1. ASSUME NEW a, NEW b, Summary(r, a, b)
        PROVE  Turn(r)
    BY <2>1, AskTurn DEF Summary
  <2>2. ASSUME HandleDashboard(r)
        PROVE  Turn(r)
    BY <2>2, AskTurn DEF HandleDashboard
  <2>3. ASSUME HandleTransactions(r)
        PROVE  Turn(r)
    BY <2>3, AskTurn DEF HandleTransactions
  <2> QED
    BY <1>1, <2>1, <2>2, <2>3
       DEF HandleTodayReport, HandleWeeklyReport, HandleMonthlyReport, HandleReport
<1>2. ASSUME NEW r \in Readers, Read(r) \/ FailRead(r)
      PROVE  Turn(r)
  BY <1>2, TopTurn, RecentTurn, PageTurn, FailTurn DEF Read
<1>3. ASSUME UNCHANGED reader, receipts \subseteq receipts', dbDay' = dbDay
      PROVE  ReadersInv'
  <2>1. \A r \in Readers : Untouched(r) /\ Outside(r)
    BY <1>3 DEF Untouched, Outside, reader
  <2>2. \A r \in Readers : ReaderOK(r)'
    BY <1>3, <2>1, ReaderKept DEF ReadersInv
  <2>3. Shapes'
    BY <1>3 DEF ReadersInv, Shapes, reader
  <2> QED
    BY <2>2, <2>3 DEF ReadersInv
<1>4. ASSUME Sell
      PROVE  ReadersInv'
  <2>1. receipts \subseteq receipts'
    BY <1>4 DEF Sell, BeginInOrder, Begin, Statement, GenerateReceiptNumber, InsertReceipt,
       Commit, Abort, AppMidnight, DbMidnight
  <2>2. \A r \in Readers : Untouched(r) /\ Outside(r)
    BY <1>4 DEF Sell, Untouched, Outside
  <2>3. \A r \in Readers : ReaderOK(r)'
    BY <2>1, <2>2, ReaderKept DEF ReadersInv
  <2>4. Shapes'
    BY <1>4 DEF Sell, ReadersInv, Shapes
  <2> QED
    BY <2>3, <2>4 DEF ReadersInv
<1>5. ASSUME AllFinished \/ UNCHANGED <<vars, reader>>
      PROVE  ReadersInv'
  BY <1>3, <1>5 DEF AllFinished, Finished, vars
<1> QED
  BY <1>1, <1>2, <1>4, <1>5, TurnKeeps DEF ReportsNext

LEMMA ReadersInvariant == ReportsSpec => []ReadersInv
<1>1. UniqueInv /\ UniqueInv' /\ ReadersInv /\ [ReportsNext]_<<vars, reader>> => ReadersInv'
  BY ReadersStep
<1> QED
  BY <1>1, ReadersStart, ReportsUnique, PTL DEF ReportsSpec

\* The statements of one report agree, for any number of readers, sales and days.
THEOREM StatementsAgree == ReportsSpec => []ReportsAgree
<1>1. ReadersInv => ReportsAgree
  BY DEF ReadersInv, ReaderOK, SummaryAgrees, DashboardAgrees, ReportsAgree
<1> QED
  BY <1>1, ReadersInvariant, PTL

\* A walk through the list meets every sale that was there at its start, for any
\* list that fits an int and any page size.
THEOREM WalksMissNothing == ReportsSpec => []PagesMissNothing
<1>1. ReadersInv => PagesMissNothing
  BY DEF ReadersInv, ReaderOK, WalkMeets, PagesMissNothing
<1> QED
  BY <1>1, ReadersInvariant, PTL
=============================================================================

--------------------------- MODULE ConnPoolProofs ---------------------------
(***************************************************************************)
(* When the pool cannot jam: for any requests and rows, as long as the     *)
(* requests are fewer than the connections, or no checkout names payments. *)
(* NeverJammed is not inductive.  It follows from who may hold what:       *)
(* connections and rows are held only by requests that are at a statement  *)
(* that uses them, and a request that looks up payment types has some left.*)
(***************************************************************************)
EXTENDS ConnPool, FunctionTheorems, FiniteSetTheorems, TLAPS

\* A request is at a lookup of a payment type only while it has one to make.
LookupsLeft ==
  \A r \in Requests : pc[r] \in {"lookup", "typing"} => lookups[r] > 0

\* Without payments there is nothing to look up.
NothingToLookUp ==
  Tenders = {0} => \A r \in Requests : lookups[r] = 0

PoolInv == TypeOK /\ NothingLeaked /\ LookupsLeft /\ NothingToLookUp

USE DEF Querying, Holding, InTx, Answered
-----------------------------------------------------------------------------
(* Counting connections. *)

\* The connections in use are finitely many.
LEMMA ConnsFinite ==
  ASSUME TypeOK
  PROVE  IsFiniteSet(conns) /\ Cardinality(conns) \in Nat
<1>1. IsFiniteSet({"query", "tx"})
  <2>1. IsFiniteSet({"query"})
    BY FS_Singleton
  <2>2. IsFiniteSet({"query"} \cup {"tx"})
    BY <2>1, FS_AddElement
  <2>3. {"query", "tx"} = {"query"} \cup {"tx"}
    OBVIOUS
  <2> QED
    BY <2>2, <2>3
<1>2. IsFiniteSet(Requests \X {"query", "tx"})
  BY <1>1, RequestsAssumption, FS_Product
<1>3. conns \in SUBSET (Requests \X {"query", "tx"})
  BY DEF TypeOK
<1>4. IsFiniteSet(conns)
  BY <1>2, <1>3, FS_Subset
<1> QED
  BY <1>4, FS_CardinalityType

\* A connection more, when one is free, and a connection less keep to the limit.
LEMMA TakeConn ==
  ASSUME TypeOK, HasFree, NEW x
  PROVE  Cardinality(conns \cup {x}) <= MaxOpen
BY ConnsFinite, FS_AddElement, PoolAssumption DEF HasFree

LEMMA GiveConns ==
  ASSUME TypeOK, NEW S \in SUBSET conns
  PROVE  Cardinality(S) <= MaxOpen
<1>1. IsFiniteSet(S) /\ Cardinality(S) <= Cardinality(conns)
  BY ConnsFinite, FS_Subset
<1>2. Cardinality(S) \in Nat
  BY <1>1, FS_CardinalityType
<1> QED
  BY <1>1, <1>2, ConnsFinite, PoolAssumption DEF TypeOK

\* A connection in use has an owner.
LEMMA ConnOwner ==
  ASSUME TypeOK, NEW c \in conns
  PROVE  c[1] \in Requests /\ (c = <<c[1], "query">> \/ c = <<c[1], "tx">>)
<1>1. PICK r \in Requests, k \in {"query", "tx"} : c = <<r, k>>
  BY DEF TypeOK
<1> QED
  BY <1>1

\* While no query is open, each connection in use belongs to another request.
LEMMA OneConnEach ==
  ASSUME TypeOK, NothingLeaked, \A r \in Requests : pc[r] \notin Querying
  PROVE  Cardinality(conns) <= Cardinality(Requests)
<1> DEFINE f == [c \in conns |-> c[1]]
<1>1. \A c \in conns : c[1] \in Requests /\ c = <<c[1], "tx">>
  <2> SUFFICES ASSUME NEW c \in conns
               PROVE  c[1] \in Requests /\ c = <<c[1], "tx">>
    OBVIOUS
  <2>1. c[1] \in Requests /\ (c = <<c[1], "query">> \/ c = <<c[1], "tx">>)
    BY ConnOwner
  <2>2. c # <<c[1], "query">>
    BY <2>1 DEF NothingLeaked
  <2> QED
    BY <2>1, <2>2
<1>2. f \in [conns -> Requests]
  BY <1>1
<1>3. \A c, d \in conns : f[c] = f[d] => c = d
  BY <1>1
<1>4. f \in Injection(conns, Requests)
  BY <1>2, <1>3 DEF Injection, IsInjective
<1> QED
  BY <1>4, RequestsAssumption, FS_Injection
-----------------------------------------------------------------------------
(* The invariant. *)

LEMMA PoolInit == Init => PoolInv
<1> SUFFICES ASSUME Init
             PROVE  PoolInv
  OBVIOUS
<1>1. PICK tenders \in [Requests -> Tenders] :
         lookups = [r \in Requests |-> 2 * tenders[r]]
  BY DEF Init
<1>2. \A r \in Requests : lookups[r] \in Nat /\ (Tenders = {0} => lookups[r] = 0)
  <2> SUFFICES ASSUME NEW r \in Requests
               PROVE  lookups[r] \in Nat /\ (Tenders = {0} => lookups[r] = 0)
    OBVIOUS
  <2>1. tenders[r] \in Tenders /\ tenders[r] \in Nat
    BY PoolAssumption
  <2>2. lookups[r] = 2 * tenders[r]
    BY <1>1
  <2> QED
    BY <2>1, <2>2
<1>3. Cardinality(conns) <= MaxOpen
  BY FS_EmptySet, PoolAssumption DEF Init
<1>4. TypeOK
  BY <1>1, <1>2, <1>3 DEF Init, TypeOK
<1>5. NothingLeaked /\ LookupsLeft /\ NothingToLookUp
  BY <1>2 DEF Init, NothingLeaked, LookupsLeft, NothingToLookUp
<1> QED
  BY <1>4, <1>5 DEF PoolInv

LEMMA PoolStep == PoolInv /\ [Next]_vars => PoolInv'
<1> SUFFICES ASSUME PoolInv, [Next]_vars
             PROVE  PoolInv'
  OBVIOUS
<1> USE DEF PoolInv
<1>1. ASSUME NEW r \in Requests, Arrive(r)
      PROVE  PoolInv'
  <2>1. TypeOK'
    BY <1>1 DEF Arrive, TypeOK
  <2>2. NothingLeaked'
    BY <1>1, RequestsAssumption DEF Arrive, TypeOK, NothingLeaked
  <2>3. LookupsLeft' /\ NothingToLookUp'
    BY <1>1 DEF Arrive, TypeOK, LookupsLeft, NothingToLookUp
  <2> QED
    BY <2>1, <2>2, <2>3
<1>2. ASSUME NEW r \in Requests, Query(r)
      PROVE  PoolInv'
  <2>1. \/ pc[r] = "find" /\ pc' = [pc EXCEPT ![r] = "finding"]
        \/ pc[r] = "lookup" /\ pc' = [pc EXCEPT ![r] = "typing"]
        \/ pc[r] = "read" /\ pc' = [pc EXCEPT ![r] = "reading"]
    BY <1>2 DEF Query
  <2>2. /\ conns' = conns \cup {<<r, "query">>}
        /\ UNCHANGED <<row, lookups, lock>>
    BY <1>2 DEF Query
  <2>3. Cardinality(conns') <= MaxOpen
    BY <1>2, <2>2, TakeConn DEF Query
  <2>4. TypeOK'
    BY <2>1, <2>2, <2>3 DEF TypeOK
  <2>5. NothingLeaked'
    BY <2>1, <2>2, RequestsAssumption DEF TypeOK, NothingLeaked
  <2>6. LookupsLeft' /\ NothingToLookUp'
    BY <2>1, <2>2 DEF TypeOK, LookupsLeft, NothingToLookUp
  <2> QED
    BY <2>4, <2>5, <2>6
<1>3. ASSUME NEW r \in Requests, CloseRows(r)
      PROVE  PoolInv'
  <2>1. \/ pc[r] = "finding" /\ pc' = [pc EXCEPT ![r] = "begin"] /\ lookups' = lookups
        \/ pc[r] = "reading" /\ pc' = [pc EXCEPT ![r] = "ok"] /\ lookups' = lookups
        \/ /\ pc[r] = "typing"
           /\ lookups' = [lookups EXCEPT ![r] = lookups[r] - 1]
           /\ pc' = [pc EXCEPT ![r] = IF lookups[r] = 1 THEN "write" ELSE "lookup"]
    <3>1. CASE pc[r] = "finding"
      <4>1. lookups' = [lookups EXCEPT ![r] = lookups[r]]
        BY <1>3, <3>1 DEF CloseRows
      <4> QED
        BY <1>3, <3>1, <4>1 DEF CloseRows, AfterRows, TypeOK
    <3>2. CASE pc[r] = "reading"
      <4>1. lookups' = [lookups EXCEPT ![r] = lookups[r]]
        BY <1>3, <3>2 DEF CloseRows
      <4> QED
        BY <1>3, <3>2, <4>1 DEF CloseRows, AfterRows, TypeOK
    <3>3. CASE pc[r] = "typing"
      BY <1>3, <3>3 DEF CloseRows, AfterRows
    <3> QED
      BY <1>3, <3>1, <3>2, <3>3 DEF CloseRows
  <2>2. /\ conns' = conns \ {<<r, "query">>}
        /\ UNCHANGED <<row, lock>>
    BY <1>3 DEF CloseRows
  <2>3. Cardinality(conns') <= MaxOpen
    BY <2>2, GiveConns
  <2>4. lookups' \in [Requests -> Nat] /\ LookupsLeft' /\ NothingToLookUp'
    BY <2>1 DEF TypeOK, LookupsLeft, NothingToLookUp
  <2>5. TypeOK'
    BY <2>1, <2>2, <2>3, <2>4 DEF TypeOK
  <2>6. NothingLeaked'
    BY <2>1, <2>2, RequestsAssumption DEF TypeOK, NothingLeaked
  <2> QED
    BY <2>4, <2>5, <2>6
<1>4. ASSUME NEW r \in Requests, BeginTx(r)
      PROVE  PoolInv'
  <2>1. Cardinality(conns') <= MaxOpen
    BY <1>4, TakeConn DEF BeginTx
  <2>2. TypeOK'
    BY <1>4, <2>1 DEF BeginTx, TypeOK
  <2>3. NothingLeaked'
    BY <1>4, RequestsAssumption DEF BeginTx, TypeOK, NothingLeaked
  <2>4. LookupsLeft' /\ NothingToLookUp'
    BY <1>4 DEF BeginTx, TypeOK, LookupsLeft, NothingToLookUp
  <2> QED
    BY <2>2, <2>3, <2>4
<1>5. ASSUME NEW r \in Requests, LockRow(r)
      PROVE  PoolInv'
  <2>1. TypeOK'
    BY <1>5 DEF LockRow, TypeOK
  <2>2. NothingLeaked'
    BY <1>5, RequestsAssumption DEF LockRow, TypeOK, NothingLeaked
  <2>3. LookupsLeft' /\ NothingToLookUp'
    BY <1>5 DEF LockRow, TypeOK, LookupsLeft, NothingToLookUp
  <2> QED
    BY <2>1, <2>2, <2>3
<1>6. ASSUME NEW r \in Requests, Commit(r) \/ Fail(r)
      PROVE  PoolInv'
  <2>1. /\ pc' = [pc EXCEPT ![r] = "read"] \/ pc' = [pc EXCEPT ![r] = "failed"]
        /\ conns' \subseteq conns
        /\ <<r, "tx">> \notin conns'
        /\ lock' = [w \in Rows |-> IF lock[w] = r THEN NoOne ELSE lock[w]]
        /\ UNCHANGED <<row, lookups>>
    BY <1>6 DEF Commit, Fail, EndTx
  <2>2. <<r, "query">> \notin conns'
    BY <1>6 DEF Commit, Fail, NothingLeaked
  <2>3. Cardinality(conns') <= MaxOpen
    BY <2>1, GiveConns
  <2>4. TypeOK'
    BY <2>1, <2>3 DEF TypeOK
  <2>5. NothingLeaked'
    BY <2>1, <2>2, RequestsAssumption DEF TypeOK, NothingLeaked
  <2>6. LookupsLeft' /\ NothingToLookUp'
    BY <2>1 DEF TypeOK, LookupsLeft, NothingToLookUp
  <2> QED
    BY <2>4, <2>5, <2>6
<1>7. CASE UNCHANGED vars
  BY <1>7 DEF vars, TypeOK, NothingLeaked, LookupsLeft, NothingToLookUp
<1> QED
  BY <1>1, <1>2, <1>3, <1>4, <1>5, <1>6, <1>7 DEF Next, Statement, Finished

\* The connections and rows in use are those of open queries and transactions,
\* within the limit of the pool: InitDB, the deferred Close and Rollback.
THEOREM PoolInvariant == Spec => []PoolInv
<1> QED
  BY PoolInit, PoolStep, PTL DEF Spec

\* The state keeps its types and the pool its limit.
THEOREM TypeCorrect == Spec => []TypeOK
<1>1. PoolInv => TypeOK
  BY DEF PoolInv
<1> QED
  BY <1>1, PoolInvariant, PTL

\* No way out of a handler leaves a connection or a row taken.
THEOREM PoolNeverLeaks == Spec => []NothingLeaked
<1>1. PoolInv => NothingLeaked
  BY DEF PoolInv
<1> QED
  BY <1>1, PoolInvariant, PTL
-----------------------------------------------------------------------------
(* The pool does not jam. *)

\* With a connection free, the holder of a row never waits.
LEMMA FreeConnRuns ==
  ASSUME PoolInv, HasFree
  PROVE  NeverJammed
<1> DEFINE active == {r \in Requests : pc[r] \notin {"idle"} \cup Answered}
<1> SUFFICES ASSUME NEW r \in active, \A s \in active : Waits(s)
             PROVE  FALSE
  BY DEF NeverJammed
<1>1. pc[r] = "lock" /\ lock[row[r]] # NoOne
  BY DEF Waits
<1>2. row[r] \in Rows /\ lock[row[r]] \in Requests
  BY <1>1 DEF PoolInv, TypeOK
<1>3. pc[lock[row[r]]] \in Holding
  BY <1>1, <1>2 DEF PoolInv, NothingLeaked
<1>4. lock[row[r]] \in active
  BY <1>2, <1>3
<1>5. ~Waits(lock[row[r]])
  BY <1>3 DEF Waits
<1> QED
  BY <1>4, <1>5

\* With fewer requests than connections, a request that waits for a connection
\* waits only for queries to be closed.
LEMMA SpareConnRuns ==
  ASSUME PoolInv, Cardinality(Requests) < MaxOpen
  PROVE  NeverJammed
<1> DEFINE active == {r \in Requests : pc[r] \notin {"idle"} \cup Answered}
<1> SUFFICES ASSUME \A r \in active : Waits(r)
             PROVE  NeverJammed
  BY DEF NeverJammed
<1>1. \A r \in Requests : pc[r] \notin Querying
  BY DEF Waits
<1>2. Cardinality(conns) <= Cardinality(Requests)
  BY <1>1, OneConnEach DEF PoolInv
<1>3. HasFree
  BY <1>2, ConnsFinite, RequestsAssumption, FS_CardinalityType, PoolAssumption
     DEF HasFree, PoolInv
<1> QED
  BY <1>3, FreeConnRuns

\* Without lookups, the owner of a connection runs, or waits for a row whose
\* holder runs.
LEMMA PlainTxRuns ==
  ASSUME PoolInv, Tenders = {0}
  PROVE  NeverJammed
<1> DEFINE active == {r \in Requests : pc[r] \notin {"idle"} \cup Answered}
<1> SUFFICES ASSUME \A r \in active : Waits(r)
             PROVE  NeverJammed
  BY DEF NeverJammed
<1>1. \A r \in Requests : pc[r] \notin Querying \cup {"lookup", "write"}
  <2>1. \A r \in Requests : pc[r] \notin Querying \cup {"write"}
    BY DEF Waits
  <2>2. \A r \in Requests : pc[r] # "lookup"
    BY DEF PoolInv, LookupsLeft, NothingToLookUp
  <2> QED
    BY <2>1, <2>2
<1>2. \A w \in Rows : lock[w] = NoOne
  BY <1>1 DEF PoolInv, TypeOK, NothingLeaked
<1>3. \A r \in Requests : pc[r] # "lock"
  BY <1>2 DEF Waits, PoolInv, TypeOK
<1>4. conns = {}
  <2> SUFFICES ASSUME NEW c \in conns
               PROVE  FALSE
    OBVIOUS
  <2>1. c[1] \in Requests /\ (c = <<c[1], "query">> \/ c = <<c[1], "tx">>)
    BY ConnOwner DEF PoolInv
  <2>2. CASE c = <<c[1], "query">>
    <3>1. <<c[1], "query">> \in conns
      BY <2>2
    <3> QED
      BY <1>1, <2>1, <3>1 DEF PoolInv, NothingLeaked
  <2>3. CASE c = <<c[1], "tx">>
    <3>1. <<c[1], "tx">> \in conns
      BY <2>3
    <3> QED
      BY <1>1, <1>3, <2>1, <3>1 DEF PoolInv, NothingLeaked
  <2> QED
    BY <2>1, <2>2, <2>3
<1>5. HasFree
  BY <1>4, FS_EmptySet, PoolAssumption DEF HasFree
<1> QED
  BY <1>5, FreeConnRuns

\* The pool never jams when the requests under way are fewer than its connections
\* (InitDB allows 25), and never when no checkout names payments, however many
\* requests there are: GetPaymentTypeIDByName inside the transaction is what makes
\* the limit matter.
THEOREM SparePoolNeverJams ==
  ASSUME Cardinality(Requests) < MaxOpen \/ Tenders = {0}
  PROVE  Spec => []NeverJammed
<1>1. PoolInv => NeverJammed
  BY SpareConnRuns, PlainTxRuns
<1> QED
  BY <1>1, PoolInvariant, PTL
=============================================================================

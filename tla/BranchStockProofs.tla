------------------------- MODULE BranchStockProofs -------------------------
(***************************************************************************)
(* What BranchStock guarantees for any number of requests, branches,       *)
(* products and item lists.                                                *)
(***************************************************************************)
EXTENDS BranchStock, TLAPS

-----------------------------------------------------------------------------
(* The inductive invariant, request by request. *)

\* Outside a transaction a request holds no lock and no uncommitted change.
Clean(r) ==
  pc[r] \notin InTx =>
     \A w \in Rows : /\ lock[w] # r
                     /\ delta[r][w] = 0
                     /\ recorded[r][w] = 0
                     /\ seen[r][w] = -1

\* The statement a request has reached agrees with its kind and its items.
Staged(r) ==
  /\ pc[r] \in InTx => WellFormed(r)
  /\ pc[r] \in {"begin", "lock", "deduct"} => req[r].kind = "checkout"
  /\ pc[r] = "upsert" => req[r].kind # "checkout"
  /\ pc[r] \in {"deduct", "upsert"} => idx[r] \in DOMAIN Lines(r)
  /\ pc[r] \notin {"deduct", "upsert", "write"} => idx[r] = 1
  /\ pc[r] \in {"begin", "lock"} =>
        \A w \in Rows : delta[r][w] = 0 /\ recorded[r][w] = 0

\* What a request has changed, or read for update, it has locked, so what it
\* read is still the committed stock.
Guarded(r) ==
  \A w \in Rows :
     /\ delta[r][w] # 0 => lock[w] = r
     /\ seen[r][w] # -1 => lock[w] = r /\ seen[r][w] = stock[w]

\* A checkout takes no more than it records and no more than there is; a restock
\* adds what it records, and no more than fits.
Covered(r) ==
  \A w \in Rows :
     IF req[r].kind = "checkout"
     THEN /\ delta[r][w] <= 0
          /\ -delta[r][w] <= recorded[r][w]
          /\ stock[w] + delta[r][w] >= 0
     ELSE /\ delta[r][w] = recorded[r][w]
          /\ stock[w] + delta[r][w] <= MaxStock

TxInv == \A r \in Requests : Clean(r) /\ Staged(r) /\ Guarded(r) /\ Covered(r)

\* Nothing leaves the shelf unrecorded: stock that is gone is in some committed
\* sale.  Unlike StockBalanced it does not depend on the carts.
DeductionsRecorded ==
  \A w \in Rows : stock[w] + sold[w] >= InitialStock[w] + restocked[w]

StockInv == TypeOK /\ TxInv /\ DeductionsRecorded

\* No item list names a product twice.
UniqueLines ==
  \A c \in Carts : \A i, j \in DOMAIN c : c[i].product = c[j].product => i = j

\* Then a checkout takes exactly what it records, and the lines it has still to
\* deduct are untouched and covered by what it saw.
Exact(r) ==
  req[r].kind = "checkout" => \A w \in Rows : delta[r][w] = -recorded[r][w]

Pending(r) ==
  pc[r] = "deduct" =>
     /\ EnoughSeen(r)
     /\ \A k \in idx[r]..Len(Lines(r)) : delta[r][RowAt(r, k)] = 0

LineInv == \A r \in Requests : Exact(r) /\ Pending(r)

ExactInv == StockInv /\ LineInv /\ StockBalanced
-----------------------------------------------------------------------------
(* Types. *)

\* The items of a request are lines, each of a row and with a quantity.
LEMMA ItemTypes ==
  ASSUME TypeOK, NEW r \in Requests
  PROVE  /\ req[r].kind \in Kinds
         /\ Lines(r) \in Seq(Line)
         /\ Len(Lines(r)) \in Nat
         /\ DOMAIN Lines(r) = 1..Len(Lines(r))
         /\ \A k \in DOMAIN Lines(r) : RowAt(r, k) \in Rows /\ QuantityAt(r, k) \in Int
<1>1. req[r] \in [kind : Kinds, branch : Branches, lines : Carts]
  BY DEF TypeOK
<1>2. Lines(r) \in Seq(Line)
  BY <1>1, CartsAssumption DEF Lines
<1>3. Len(Lines(r)) \in Nat /\ DOMAIN Lines(r) = 1..Len(Lines(r))
  BY <1>2
<1>4. ASSUME NEW k \in DOMAIN Lines(r)
      PROVE  RowAt(r, k) \in Rows /\ QuantityAt(r, k) \in Int
  <2>1. Lines(r)[k] \in Line
    BY <1>2, <1>3, <1>4
  <2> QED
    BY <2>1, <1>1 DEF RowAt, QuantityAt, Rows, Line
<1> QED
  BY <1>1, <1>2, <1>3, <1>4

\* The end of a transaction keeps the types of what it touches.
LEMMA EndTxTypes ==
  ASSUME TypeOK, NEW S \in SUBSET Requests, EndTx(S)
  PROVE  /\ idx' \in [Requests -> Nat \ {0}]
         /\ todo' \in [Requests -> SUBSET Rows]
         /\ want' \in [Requests -> Rows \cup {NoRow}]
         /\ seen' \in [Requests -> [Rows -> Int]]
         /\ lock' \in [Rows -> Requests \cup {NoOne}]
         /\ delta' \in [Requests -> [Rows -> Int]]
         /\ recorded' \in [Requests -> [Rows -> Nat]]
<1>1. /\ idx' \in [Requests -> Nat \ {0}]
      /\ todo' \in [Requests -> SUBSET Rows]
      /\ want' \in [Requests -> Rows \cup {NoRow}]
  BY DEF TypeOK, EndTx
<1>2. seen' \in [Requests -> [Rows -> Int]]
  BY DEF TypeOK, EndTx
<1>3. lock' \in [Rows -> Requests \cup {NoOne}]
  BY DEF TypeOK, EndTx
<1>4. delta' \in [Requests -> [Rows -> Int]]
  BY DEF TypeOK, EndTx
<1>5. recorded' \in [Requests -> [Rows -> Nat]]
  BY DEF TypeOK, EndTx
<1> QED
  BY <1>1, <1>2, <1>3, <1>4, <1>5

\* A rollback keeps the types.
LEMMA RollBackTypes ==
  ASSUME TypeOK, NEW r \in Requests, RollBack(r)
  PROVE  TypeOK'
<1>1. EndTx({r}) /\ {r} \in SUBSET Requests
  BY DEF RollBack
<1>2. pc' \in [Requests -> {"idle", "committed"} \cup InTx \cup Answered]
  BY DEF TypeOK, RollBack, Answered
<1> QED
  BY <1>1, <1>2, EndTxTypes DEF TypeOK, RollBack, committed

\* Every step keeps the types; that the stock column stays in its range needs
\* the rest of the invariant.
LEMMA TypesPreserved ==
  ASSUME StockInv, [Next]_vars
  PROVE  TypeOK'
<1> USE DEF StockInv
<1>1. ASSUME NEW r \in Requests, Admit(r)
      PROVE  TypeOK'
  BY <1>1 DEF TypeOK, Admit, committed, InTx
<1>2. ASSUME NEW r \in Requests, Refuse(r)
      PROVE  TypeOK'
  BY <1>2 DEF TypeOK, Refuse, committed, Answered
<1>3. ASSUME NEW r \in Requests, StartLock(r)
      PROVE  TypeOK'
  <2>1. CartRows(r) \cap present \in SUBSET Rows
    BY DEF TypeOK
  <2> QED
    BY <1>3, <2>1 DEF TypeOK, StartLock, committed, InTx
<1>4. ASSUME NEW r \in Requests, LockRow(r)
      PROVE  TypeOK'
  <2>1. want[r] \in Rows
    BY <1>4 DEF LockRow, TypeOK
  <2>2. stock[want[r]] \in Int
    BY <2>1 DEF TypeOK
  <2>3. seen' \in [Requests -> [Rows -> Int]]
    BY <1>4, <2>1, <2>2 DEF LockRow, TypeOK
  <2>4. lock' \in [Rows -> Requests \cup {NoOne}]
    BY <1>4, <2>1 DEF LockRow, TypeOK
  <2>5. todo' \in [Requests -> SUBSET Rows] /\ want' \in [Requests -> Rows \cup {NoRow}]
    BY <1>4, <2>1 DEF LockRow, TypeOK
  <2> QED
    BY <1>4, <2>3, <2>4, <2>5 DEF TypeOK, LockRow, committed
<1>5. ASSUME NEW r \in Requests, CheckStock(r)
      PROVE  TypeOK'
  BY <1>5 DEF TypeOK, CheckStock, committed, InTx
<1>6. ASSUME NEW r \in Requests, NextItem(r)
      PROVE  /\ idx' \in [Requests -> Nat \ {0}]
             /\ pc' \in [Requests -> {"idle", "committed"} \cup InTx \cup Answered]
  <2>1. CASE idx[r] < Len(Lines(r))
    <3>1. idx' = [idx EXCEPT ![r] = @ + 1] /\ pc' = pc
      BY <1>6, <2>1 DEF NextItem
    <3> QED
      BY <3>1 DEF TypeOK
  <2>2. CASE ~(idx[r] < Len(Lines(r)))
    <3>1. pc' = [pc EXCEPT ![r] = "write"] /\ idx' = idx
      BY <1>6, <2>2 DEF NextItem
    <3> QED
      BY <3>1 DEF TypeOK, InTx
  <2> QED
    BY <2>1, <2>2
<1>7. ASSUME NEW r \in Requests, pc[r] \in {"deduct", "upsert"}
      PROVE  /\ RowAt(r, idx[r]) \in Rows
             /\ QuantityAt(r, idx[r]) \in Nat
  <2>1. idx[r] \in DOMAIN Lines(r) /\ WellFormed(r)
    BY <1>7 DEF TxInv, Staged, InTx
  <2>2. QuantityAt(r, idx[r]) \in Int /\ QuantityAt(r, idx[r]) > 0
    BY <2>1, ItemTypes DEF WellFormed
  <2> QED
    BY <2>1, <2>2, ItemTypes
<1>8. ASSUME NEW r \in Requests, Deduct(r)
      PROVE  TypeOK'
  <2> DEFINE w == RowAt(r, idx[r])
             q == QuantityAt(r, idx[r])
  <2>1. w \in Rows /\ q \in Nat
    BY <1>7, <1>8 DEF Deduct
  <2>2. NextItem(r) /\ UNCHANGED <<req, todo, want, seen, committed>>
    BY <1>8 DEF Deduct
  <2>3. recorded' = [recorded EXCEPT ![r][w] = @ + q]
    BY <1>8 DEF Deduct
  <2>4. \/ delta' = [delta EXCEPT ![r][w] = @ - q] /\ lock' = [lock EXCEPT ![w] = r]
        \/ UNCHANGED <<delta, lock>>
    BY <1>8 DEF Deduct
  <2> HIDE DEF w, q
  <2>5. recorded' \in [Requests -> [Rows -> Nat]]
    BY <2>1, <2>3 DEF TypeOK
  <2>6. delta' \in [Requests -> [Rows -> Int]]
    <3>1. delta \in [Requests -> [Rows -> Int]] /\ delta[r][w] - q \in Int
      BY <2>1 DEF TypeOK
    <3>2. CASE delta' = [delta EXCEPT ![r][w] = @ - q]
      BY <2>1, <3>1, <3>2
    <3>3. CASE delta' = delta
      BY <3>1, <3>3
    <3> QED
      BY <2>4, <3>2, <3>3
  <2>7. lock' \in [Rows -> Requests \cup {NoOne}]
    BY <2>1, <2>4 DEF TypeOK
  <2> QED
    BY <2>2, <2>5, <2>6, <2>7, <1>6 DEF TypeOK, committed
<1>9. ASSUME NEW r \in Requests, Upsert(r)
      PROVE  TypeOK'
  <2> DEFINE w == RowAt(r, idx[r])
             q == QuantityAt(r, idx[r])
  <2>1. w \in Rows /\ q \in Nat
    BY <1>7, <1>9 DEF Upsert
  <2>2. NextItem(r) /\ UNCHANGED <<req, todo, want, seen, committed>>
    BY <1>9 DEF Upsert
  <2>3. /\ recorded' = [recorded EXCEPT ![r][w] = @ + q]
        /\ delta' = [delta EXCEPT ![r][w] = @ + q]
        /\ lock' = [lock EXCEPT ![w] = r]
    BY <1>9 DEF Upsert
  <2> HIDE DEF w, q
  <2>5. recorded' \in [Requests -> [Rows -> Nat]]
    BY <2>1, <2>3 DEF TypeOK
  <2>6. delta' \in [Requests -> [Rows -> Int]] /\ lock' \in [Rows -> Requests \cup {NoOne}]
    BY <2>1, <2>3 DEF TypeOK
  <2> QED
    BY <2>2, <2>5, <2>6, <1>6 DEF TypeOK, committed
<1>10. ASSUME NEW r \in Requests, OutOfStock(r) \/ UpsertOverflow(r) \/ Abort(r) \/ BreakDeadlock(r)
       PROVE  TypeOK'
  <2>1. RollBack(r)
    BY <1>10 DEF OutOfStock, UpsertOverflow, Abort, BreakDeadlock
  <2> QED
    BY <2>1, RollBackTypes
<1>11. ASSUME NEW r \in Requests, Commit(r)
       PROVE  TypeOK'
  <2>1. EndTx({r}) /\ {r} \in SUBSET Requests
    BY <1>11 DEF Commit
  <2>2. ASSUME NEW w \in Rows
        PROVE  stock[w] + delta[r][w] \in 0..MaxStock
    <3>1. /\ stock[w] \in Int /\ 0 <= stock[w] /\ stock[w] <= MaxStock
          /\ delta[r][w] \in Int /\ recorded[r][w] \in Nat
          /\ MaxStock \in Nat
      BY <2>2, BoundsAssumption DEF TypeOK
    <3>2. Covered(r)
      BY DEF TxInv
    <3> QED
      BY <3>1, <3>2, <2>2 DEF Covered
  <2>3. stock' \in [Rows -> 0..MaxStock]
    BY <1>11, <2>2 DEF Commit
  <2>4. sold' \in [Rows -> Nat] /\ restocked' \in [Rows -> Nat]
    BY <1>11 DEF Commit, TypeOK
  <2>5. pc' \in [Requests -> {"idle", "committed"} \cup InTx \cup Answered]
    BY <1>11 DEF Commit, TypeOK
  <2>6. present' \in SUBSET Rows
    BY <1>11 DEF Commit, TypeOK
  <2>7. req' \in [Requests -> [kind : Kinds, branch : Branches, lines : Carts]]
    BY <1>11 DEF Commit, TypeOK
  <2> QED
    BY <2>1, <2>3, <2>4, <2>5, <2>6, <2>7, EndTxTypes DEF TypeOK
<1>12. ASSUME NEW r \in Requests, Reply(r)
       PROVE  TypeOK'
  BY <1>12 DEF TypeOK, Reply, committed, Answered
<1>13. ASSUME Crash
       PROVE  TypeOK'
  <2> DEFINE S == {r \in Requests : pc[r] \in InTx}
  <2>1. EndTx(S) /\ S \in SUBSET Requests
    BY <1>13 DEF Crash
  <2>2. pc' \in [Requests -> {"idle", "committed"} \cup InTx \cup Answered]
    BY <1>13 DEF Crash, TypeOK, Answered
  <2>3. UNCHANGED <<req, committed>>
    BY <1>13 DEF Crash
  <2> QED
    BY <2>1, <2>2, <2>3, EndTxTypes DEF TypeOK, committed
<1>14. ASSUME UNCHANGED vars
       PROVE  TypeOK'
  BY <1>14 DEF TypeOK, vars
<1> QED
  BY <1>1, <1>2, <1>3, <1>4, <1>5, <1>8, <1>9, <1>10, <1>11, <1>12, <1>13, <1>14
     DEF Next, Statement, Finished
-----------------------------------------------------------------------------
(* The invariant of one request under the steps of the others, and its own. *)

ReqInv(r) == Clean(r) /\ Staged(r) /\ Guarded(r) /\ Covered(r)

\* A step that leaves request s, its locks and the rows it has locked as they
\* are keeps its invariant.
LEMMA OthersKeep ==
  ASSUME TypeOK, TypeOK', NEW s \in Requests, ReqInv(s),
         req' = req, pc'[s] = pc[s], idx'[s] = idx[s],
         delta'[s] = delta[s], recorded'[s] = recorded[s], seen'[s] = seen[s],
         \A w \in Rows : lock'[w] = s <=> lock[w] = s,
         \A w \in Rows : lock[w] = s => stock'[w] = stock[w]
  PROVE  ReqInv(s)'
<1>1. Clean(s)'
  BY DEF ReqInv, Clean
<1>2. Staged(s)'
  <2>1. Lines(s)' = Lines(s) /\ WellFormed(s)' = WellFormed(s)
    BY DEF Lines, WellFormed, QuantityAt
  <2> QED
    BY <2>1 DEF ReqInv, Staged
<1>3. Guarded(s)'
  BY DEF ReqInv, Guarded
<1>4. Covered(s)'
  <2> SUFFICES ASSUME NEW w \in Rows
               PROVE  IF req[s].kind = "checkout"
                      THEN /\ delta[s][w] <= 0
                           /\ -delta[s][w] <= recorded[s][w]
                           /\ stock'[w] + delta[s][w] >= 0
                      ELSE /\ delta[s][w] = recorded[s][w]
                           /\ stock'[w] + delta[s][w] <= MaxStock
    BY DEF Covered
  <2>1. CASE delta[s][w] = 0
    BY <2>1, BoundsAssumption DEF ReqInv, Covered, TypeOK
  <2>2. CASE delta[s][w] # 0
    <3>1. stock'[w] = stock[w]
      BY <2>2 DEF ReqInv, Guarded
    <3> QED
      BY <3>1 DEF ReqInv, Covered
  <2> QED
    BY <2>1, <2>2
<1> QED
  BY <1>1, <1>2, <1>3, <1>4 DEF ReqInv

\* The requests whose transaction ends satisfy theirs, whatever their answer;
\* the others are not touched.
LEMMA EndTxKeeps ==
  ASSUME StockInv, TypeOK', NEW S \in SUBSET Requests, EndTx(S), req' = req,
         \A s \in S : pc'[s] \notin InTx,
         \A s \in Requests \ S : pc'[s] = pc[s],
         \A s \in Requests \ S : \A w \in Rows : lock[w] = s => stock'[w] = stock[w]
  PROVE  TxInv'
<1> SUFFICES ASSUME NEW s \in Requests
             PROVE  ReqInv(s)'
  BY DEF TxInv, ReqInv
<1>1. CASE s \in S
  <2>1. \A w \in Rows : /\ lock'[w] # s
                        /\ delta'[s][w] = 0
                        /\ recorded'[s][w] = 0
                        /\ seen'[s][w] = -1
    BY <1>1, NothingAssumption DEF EndTx
  <2>2. idx'[s] = 1
    BY <1>1 DEF EndTx
  <2>3. pc'[s] \notin InTx
    BY <1>1
  <2>4. Clean(s)'
    BY <2>1 DEF Clean
  <2>5. Staged(s)'
    BY <2>2, <2>3 DEF Staged, InTx
  <2>6. Guarded(s)'
    BY <2>1 DEF Guarded
  <2>7. Covered(s)'
    <3>1. \A w \in Rows : stock'[w] \in 0..MaxStock
      BY DEF TypeOK
    <3> QED
      BY <2>1, <3>1, BoundsAssumption DEF Covered
  <2> QED
    BY <2>4, <2>5, <2>6, <2>7 DEF ReqInv
<1>2. CASE s \notin S
  <2>1. ReqInv(s)
    BY DEF StockInv, TxInv, ReqInv
  <2>2. /\ delta'[s] = delta[s] /\ recorded'[s] = recorded[s] /\ seen'[s] = seen[s]
        /\ idx'[s] = idx[s]
    BY <1>2 DEF EndTx
  <2>3. \A w \in Rows : lock'[w] = s <=> lock[w] = s
    BY <1>2, NothingAssumption DEF EndTx
  <2> QED
    BY <1>2, <2>1, <2>2, <2>3, OthersKeep DEF StockInv
<1> QED
  BY <1>1, <1>2

\* A loop over the items either goes on within their list or is over.
LEMMA LoopStep ==
  ASSUME TypeOK, NEW r \in Requests, NextItem(r), idx[r] \in DOMAIN Lines(r),
         pc[r] \in {"deduct", "upsert"}
  PROVE  /\ \A s \in Requests \ {r} : pc'[s] = pc[s] /\ idx'[s] = idx[s]
         /\ pc'[r] \in {pc[r], "write"}
         /\ pc'[r] = pc[r] => idx'[r] = idx[r] + 1 /\ idx'[r] \in DOMAIN Lines(r)
<1>1. CASE idx[r] < Len(Lines(r))
  <2>1. idx' = [idx EXCEPT ![r] = @ + 1] /\ pc' = pc
    BY <1>1 DEF NextItem
  <2>2. idx[r] + 1 \in DOMAIN Lines(r)
    BY <1>1, ItemTypes
  <2> QED
    BY <2>1, <2>2 DEF TypeOK
<1>2. CASE ~(idx[r] < Len(Lines(r)))
  <2>1. pc' = [pc EXCEPT ![r] = "write"] /\ idx' = idx
    BY <1>2 DEF NextItem
  <2> QED
    BY <2>1 DEF TypeOK
<1> QED
  BY <1>1, <1>2

\* Every step keeps every request's part of the invariant.
LEMMA TxPreserved ==
  ASSUME StockInv, TypeOK', [Next]_vars
  PROVE  TxInv'
<1> USE DEF StockInv
<1>0. ASSUME NEW r \in Requests,
             ReqInv(r)', req' = req, stock' = stock,
             \A s \in Requests \ {r} :
                /\ pc'[s] = pc[s] /\ idx'[s] = idx[s] /\ delta'[s] = delta[s]
                /\ recorded'[s] = recorded[s] /\ seen'[s] = seen[s]
                /\ \A w \in Rows : lock'[w] = s <=> lock[w] = s
      PROVE  TxInv'
  <2> SUFFICES ASSUME NEW s \in Requests \ {r}
               PROVE  ReqInv(s)'
    BY <1>0 DEF TxInv, ReqInv
  <2>1. ReqInv(s)
    BY DEF TxInv, ReqInv
  <2> QED
    BY <1>0, <2>1, OthersKeep
<1>1. ASSUME NEW r \in Requests, Admit(r)
      PROVE  TxInv'
  <2>1. /\ UNCHANGED <<req, idx, lock, delta, recorded, seen, stock>>
        /\ pc[r] = "idle" /\ WellFormed(r)
        /\ pc' = [pc EXCEPT ![r] = IF req[r].kind = "checkout" THEN "begin" ELSE "upsert"]
    BY <1>1 DEF Admit, committed
  <2>2. Clean(r) /\ Staged(r) /\ Guarded(r) /\ Covered(r)
    BY DEF TxInv
  <2>3. pc'[r] = IF req[r].kind = "checkout" THEN "begin" ELSE "upsert"
    BY <2>1 DEF TypeOK
  <2>4. Lines(r)' = Lines(r) /\ WellFormed(r)'
    BY <2>1 DEF Lines, WellFormed, QuantityAt
  <2>5. idx[r] = 1 /\ 1 \in DOMAIN Lines(r)
    <3>1. idx[r] = 1
      BY <2>1, <2>2 DEF Staged
    <3>2. Lines(r) # <<>>
      BY <2>1 DEF WellFormed
    <3> QED
      BY <3>1, <3>2, ItemTypes
  <2>6. Clean(r)'
    BY <2>3 DEF Clean, InTx
  <2>7. \A w \in Rows : delta[r][w] = 0 /\ recorded[r][w] = 0
    BY <2>1, <2>2 DEF Clean, InTx
  <2>8. Staged(r)'
    BY <2>1, <2>3, <2>4, <2>5, <2>7 DEF Staged
  <2>9. Guarded(r)' /\ Covered(r)'
    BY <2>1, <2>2 DEF Guarded, Covered
  <2>10. ReqInv(r)'
    BY <2>6, <2>8, <2>9 DEF ReqInv
  <2>11. \A s \in Requests \ {r} : pc'[s] = pc[s]
    BY <2>1 DEF TypeOK
  <2> QED
    BY <2>1, <2>10, <2>11, <1>0
<1>2. ASSUME NEW r \in Requests, Refuse(r) \/ Reply(r)
      PROVE  TxInv'
  <2>1. /\ UNCHANGED <<req, idx, lock, delta, recorded, seen, stock>>
        /\ pc[r] \in {"idle", "committed"}
        /\ \E a \in Answered : pc' = [pc EXCEPT ![r] = a]
    BY <1>2 DEF Refuse, Reply, committed, Answered
  <2>2. Clean(r) /\ Staged(r) /\ Guarded(r) /\ Covered(r)
    BY DEF TxInv
  <2>3. pc'[r] \in Answered
    BY <2>1 DEF TypeOK
  <2>4. Clean(r)' /\ Staged(r)'
    BY <2>1, <2>2, <2>3 DEF Clean, Staged, InTx, Answered
  <2>5. Guarded(r)' /\ Covered(r)'
    BY <2>1, <2>2 DEF Guarded, Covered
  <2>6. \A s \in Requests \ {r} : pc'[s] = pc[s]
    BY <2>1 DEF TypeOK
  <2> QED
    BY <2>1, <2>4, <2>5, <2>6, <1>0 DEF ReqInv
<1>3. ASSUME NEW r \in Requests, StartLock(r)
      PROVE  TxInv'
  <2>1. /\ UNCHANGED <<req, idx, lock, delta, recorded, seen, stock>>
        /\ pc[r] = "begin"
        /\ pc' = [pc EXCEPT ![r] = "lock"]
    BY <1>3 DEF StartLock, committed
  <2>2. Clean(r) /\ Staged(r) /\ Guarded(r) /\ Covered(r)
    BY DEF TxInv
  <2>3. pc'[r] = "lock"
    BY <2>1 DEF TypeOK
  <2>4. Lines(r)' = Lines(r) /\ WellFormed(r)' = WellFormed(r)
    BY <2>1 DEF Lines, WellFormed, QuantityAt
  <2>5. Clean(r)' /\ Staged(r)'
    BY <2>1, <2>2, <2>3, <2>4 DEF Clean, Staged, InTx
  <2>6. Guarded(r)' /\ Covered(r)'
    BY <2>1, <2>2 DEF Guarded, Covered
  <2>7. \A s \in Requests \ {r} : pc'[s] = pc[s]
    BY <2>1 DEF TypeOK
  <2> QED
    BY <2>1, <2>5, <2>6, <2>7, <1>0 DEF ReqInv
<1>4. ASSUME NEW r \in Requests, LockRow(r)
      PROVE  TxInv'
  <2> DEFINE w0 == want[r]
  <2>1. /\ UNCHANGED <<req, pc, idx, delta, recorded, stock>>
        /\ pc[r] = "lock" /\ w0 \in Rows /\ lock[w0] = NoOne
        /\ lock' = [lock EXCEPT ![w0] = r]
        /\ seen' = [seen EXCEPT ![r][w0] = stock[w0]]
    BY <1>4 DEF LockRow, committed, TypeOK
  <2>2. Clean(r) /\ Staged(r) /\ Guarded(r) /\ Covered(r)
    BY DEF TxInv
  <2> HIDE DEF w0
  <2>3. /\ lock'[w0] = r /\ seen'[r][w0] = stock[w0]
        /\ \A w \in Rows \ {w0} : lock'[w] = lock[w] /\ seen'[r][w] = seen[r][w]
        /\ \A s \in Requests \ {r} : seen'[s] = seen[s]
    BY <2>1 DEF TypeOK
  <2>4. Lines(r)' = Lines(r) /\ WellFormed(r)' = WellFormed(r)
    BY <2>1 DEF Lines, WellFormed, QuantityAt
  <2>5. Clean(r)' /\ Staged(r)'
    BY <2>1, <2>2, <2>4 DEF Clean, Staged, InTx
  <2>6. Guarded(r)'
    BY <2>1, <2>2, <2>3 DEF Guarded
  <2>7. Covered(r)'
    BY <2>1, <2>2 DEF Covered
  <2>8. \A s \in Requests \ {r} : \A w \in Rows : lock'[w] = s <=> lock[w] = s
    BY <2>1, <2>3, NothingAssumption
  <2> QED
    BY <2>1, <2>3, <2>5, <2>6, <2>7, <2>8, <1>0 DEF ReqInv
<1>5. ASSUME NEW r \in Requests, CheckStock(r)
      PROVE  TxInv'
  <2>1. /\ UNCHANGED <<req, idx, lock, delta, recorded, seen, stock>>
        /\ pc[r] = "lock"
        /\ pc' = [pc EXCEPT ![r] = "deduct"]
    BY <1>5 DEF CheckStock, committed
  <2>2. Clean(r) /\ Staged(r) /\ Guarded(r) /\ Covered(r)
    BY DEF TxInv
  <2>3. pc'[r] = "deduct"
    BY <2>1 DEF TypeOK
  <2>4. Lines(r)' = Lines(r) /\ WellFormed(r)' = WellFormed(r)
    BY <2>1 DEF Lines, WellFormed, QuantityAt
  <2>5. idx[r] \in DOMAIN Lines(r)
    <3>1. idx[r] = 1 /\ WellFormed(r)
      BY <2>1, <2>2 DEF Staged, InTx
    <3> QED
      BY <3>1, ItemTypes DEF WellFormed
  <2>6. Clean(r)' /\ Staged(r)'
    BY <2>1, <2>2, <2>3, <2>4, <2>5 DEF Clean, Staged, InTx
  <2>7. Guarded(r)' /\ Covered(r)'
    BY <2>1, <2>2 DEF Guarded, Covered
  <2>8. \A s \in Requests \ {r} : pc'[s] = pc[s]
    BY <2>1 DEF TypeOK
  <2> QED
    BY <2>1, <2>6, <2>7, <2>8, <1>0 DEF ReqInv
<1>6. ASSUME NEW r \in Requests, Deduct(r)
      PROVE  TxInv'
  <2> DEFINE w0 == RowAt(r, idx[r])
             q == QuantityAt(r, idx[r])
  <2>1. Clean(r) /\ Staged(r) /\ Guarded(r) /\ Covered(r)
    BY DEF TxInv
  <2>2. /\ UNCHANGED <<req, seen, stock>> /\ pc[r] = "deduct" /\ NextItem(r)
        /\ recorded' = [recorded EXCEPT ![r][w0] = @ + q]
    BY <1>6 DEF Deduct, committed
  <2>3. \/ /\ stock[w0] + delta[r][w0] >= q
           /\ delta' = [delta EXCEPT ![r][w0] = @ - q] /\ lock' = [lock EXCEPT ![w0] = r]
        \/ UNCHANGED <<delta, lock>>
    BY <1>6 DEF Deduct, Current
  <2>4. idx[r] \in DOMAIN Lines(r) /\ WellFormed(r) /\ lock[w0] \in {NoOne, r}
    BY <1>6, <2>1, <2>2 DEF Staged, InTx, Deduct, Available
  <2>5. w0 \in Rows /\ q \in Nat
    BY <2>4, ItemTypes DEF WellFormed
  <2> HIDE DEF w0, q
  <2>6. /\ recorded'[r][w0] = recorded[r][w0] + q
        /\ \A w \in Rows \ {w0} : recorded'[r][w] = recorded[r][w]
        /\ \A s \in Requests \ {r} : recorded'[s] = recorded[s]
    BY <2>2, <2>5 DEF TypeOK
  <2>7. \/ /\ stock[w0] + delta[r][w0] >= q
           /\ lock'[w0] = r /\ delta'[r][w0] = delta[r][w0] - q
        \/ lock'[w0] = lock[w0] /\ delta'[r][w0] = delta[r][w0]
    BY <2>3, <2>5 DEF TypeOK
  <2>8. /\ \A w \in Rows \ {w0} : lock'[w] = lock[w] /\ delta'[r][w] = delta[r][w]
        /\ \A s \in Requests \ {r} : delta'[s] = delta[s]
    BY <2>3, <2>5 DEF TypeOK
  <2>9. /\ \A s \in Requests \ {r} : pc'[s] = pc[s] /\ idx'[s] = idx[s]
        /\ pc'[r] \in {"deduct", "write"}
        /\ pc'[r] = "deduct" => idx'[r] \in DOMAIN Lines(r)
    BY <2>2, <2>4, LoopStep
  <2>10. Lines(r)' = Lines(r) /\ WellFormed(r)' = WellFormed(r)
    BY <2>2 DEF Lines, WellFormed, QuantityAt
  <2>11. Clean(r)' /\ Staged(r)'
    BY <2>1, <2>2, <2>4, <2>9, <2>10 DEF Clean, Staged, InTx
  <2>12. Guarded(r)'
    BY <2>1, <2>2, <2>4, <2>5, <2>7, <2>8 DEF Guarded
  <2>13. req[r].kind = "checkout"
    BY <2>1, <2>2 DEF Staged
  <2>14. Covered(r)'
    <3> SUFFICES ASSUME NEW w \in Rows
                 PROVE  /\ delta'[r][w] <= 0
                        /\ -delta'[r][w] <= recorded'[r][w]
                        /\ stock[w] + delta'[r][w] >= 0
      BY <2>2, <2>13 DEF Covered
    <3>1. /\ delta[r][w] \in Int /\ recorded[r][w] \in Nat
          /\ stock[w] \in Nat
      BY BoundsAssumption DEF TypeOK
    <3>2. CASE w = w0
      BY <2>1, <2>5, <2>6, <2>7, <2>13, <3>1, <3>2 DEF Covered
    <3>3. CASE w # w0
      BY <2>1, <2>6, <2>8, <2>13, <3>3 DEF Covered
    <3> QED
      BY <3>2, <3>3
  <2>15. \A s \in Requests \ {r} : \A w \in Rows : lock'[w] = s <=> lock[w] = s
    BY <2>3, <2>4, <2>5, <2>8, NothingAssumption DEF TypeOK
  <2> QED
    BY <2>2, <2>6, <2>8, <2>9, <2>11, <2>12, <2>14, <2>15, <1>0 DEF ReqInv
<1>7. ASSUME NEW r \in Requests, Upsert(r)
      PROVE  TxInv'
  <2> DEFINE w0 == RowAt(r, idx[r])
             q == QuantityAt(r, idx[r])
  <2>1. Clean(r) /\ Staged(r) /\ Guarded(r) /\ Covered(r)
    BY DEF TxInv
  <2>2. /\ UNCHANGED <<req, seen, stock>> /\ pc[r] = "upsert" /\ NextItem(r)
        /\ recorded' = [recorded EXCEPT ![r][w0] = @ + q]
    BY <1>7 DEF Upsert, committed
  <2>3. /\ stock[w0] + delta[r][w0] + q <= MaxStock
        /\ delta' = [delta EXCEPT ![r][w0] = @ + q] /\ lock' = [lock EXCEPT ![w0] = r]
    BY <1>7 DEF Upsert, Current
  <2>4. idx[r] \in DOMAIN Lines(r) /\ WellFormed(r) /\ lock[w0] \in {NoOne, r}
    BY <1>7, <2>1, <2>2 DEF Staged, InTx, Upsert, Available
  <2>5. w0 \in Rows /\ q \in Nat
    BY <2>4, ItemTypes DEF WellFormed
  <2> HIDE DEF w0, q
  <2>6. /\ recorded'[r][w0] = recorded[r][w0] + q
        /\ \A w \in Rows \ {w0} : recorded'[r][w] = recorded[r][w]
        /\ \A s \in Requests \ {r} : recorded'[s] = recorded[s]
    BY <2>2, <2>5 DEF TypeOK
  <2>7. /\ stock[w0] + delta[r][w0] + q <= MaxStock
        /\ lock'[w0] = r /\ delta'[r][w0] = delta[r][w0] + q
    BY <2>3, <2>5 DEF TypeOK
  <2>8. /\ \A w \in Rows \ {w0} : lock'[w] = lock[w] /\ delta'[r][w] = delta[r][w]
        /\ \A s \in Requests \ {r} : delta'[s] = delta[s]
    BY <2>3, <2>5 DEF TypeOK
  <2>9. /\ \A s \in Requests \ {r} : pc'[s] = pc[s] /\ idx'[s] = idx[s]
        /\ pc'[r] \in {"upsert", "write"}
        /\ pc'[r] = "upsert" => idx'[r] \in DOMAIN Lines(r)
    BY <2>2, <2>4, LoopStep
  <2>10. Lines(r)' = Lines(r) /\ WellFormed(r)' = WellFormed(r)
    BY <2>2 DEF Lines, WellFormed, QuantityAt
  <2>11. Clean(r)' /\ Staged(r)'
    BY <2>1, <2>2, <2>4, <2>9, <2>10 DEF Clean, Staged, InTx
  <2>12. Guarded(r)'
    BY <2>1, <2>2, <2>4, <2>5, <2>7, <2>8 DEF Guarded
  <2>13. req[r].kind # "checkout"
    BY <2>1, <2>2 DEF Staged
  <2>14. Covered(r)'
    <3> SUFFICES ASSUME NEW w \in Rows
                 PROVE  /\ delta'[r][w] = recorded'[r][w]
                        /\ stock[w] + delta'[r][w] <= MaxStock
      BY <2>2, <2>13 DEF Covered
    <3>1. /\ delta[r][w] \in Int /\ recorded[r][w] \in Nat
          /\ stock[w] \in Nat
      BY BoundsAssumption DEF TypeOK
    <3>2. CASE w = w0
      BY <2>1, <2>5, <2>6, <2>7, <2>13, <3>1, <3>2 DEF Covered
    <3>3. CASE w # w0
      BY <2>1, <2>6, <2>8, <2>13, <3>3 DEF Covered
    <3> QED
      BY <3>2, <3>3
  <2>15. \A s \in Requests \ {r} : \A w \in Rows : lock'[w] = s <=> lock[w] = s
    BY <2>3, <2>4, <2>5, <2>8, NothingAssumption DEF TypeOK
  <2> QED
    BY <2>2, <2>6, <2>8, <2>9, <2>11, <2>12, <2>14, <2>15, <1>0 DEF ReqInv
<1>8. ASSUME NEW r \in Requests,
             OutOfStock(r) \/ UpsertOverflow(r) \/ Abort(r) \/ BreakDeadlock(r)
      PROVE  TxInv'
  <2>1. RollBack(r)
    BY <1>8 DEF OutOfStock, UpsertOverflow, Abort, BreakDeadlock
  <2>2. /\ EndTx({r}) /\ req' = req /\ stock' = stock
        /\ pc'[r] = "failed" /\ \A s \in Requests \ {r} : pc'[s] = pc[s]
    BY <2>1 DEF RollBack, committed, TypeOK
  <2> QED
    BY <2>2, EndTxKeeps DEF InTx
<1>9. ASSUME NEW r \in Requests, Commit(r)
      PROVE  TxInv'
  <2>1. /\ EndTx({r}) /\ req' = req
        /\ pc'[r] = "committed" /\ \A s \in Requests \ {r} : pc'[s] = pc[s]
    BY <1>9 DEF Commit, TypeOK
  <2>2. \A s \in Requests \ {r} : \A w \in Rows : lock[w] = s => stock'[w] = stock[w]
    <3> SUFFICES ASSUME NEW s \in Requests \ {r}, NEW w \in Rows, lock[w] = s
                 PROVE  stock'[w] = stock[w]
      OBVIOUS
    <3>1. delta[r][w] = 0
      BY DEF TxInv, Guarded
    <3>2. stock'[w] = stock[w] + delta[r][w] /\ stock[w] \in Int
      BY <1>9 DEF Commit, TypeOK
    <3> QED
      BY <3>1, <3>2
  <2> QED
    BY <2>1, <2>2, EndTxKeeps DEF InTx
<1>10. ASSUME Crash
       PROVE  TxInv'
  <2> DEFINE S == {r \in Requests : pc[r] \in InTx}
  <2>1. EndTx(S) /\ req' = req /\ stock' = stock
    BY <1>10 DEF Crash, committed
  <2>2. pc' = [r \in Requests |-> CASE pc[r] \in InTx -> "failed"
                                    [] pc[r] = "committed" -> "error"
                                    [] OTHER -> pc[r]]
    BY <1>10 DEF Crash
  <2>3. \A s \in S : pc'[s] \notin InTx
    BY <2>2 DEF InTx
  <2>4. \A s \in Requests \ S :
           pc'[s] = pc[s] \/ (pc[s] = "committed" /\ pc'[s] = "error")
    BY <2>2 DEF InTx
  <2> SUFFICES ASSUME NEW s \in Requests
               PROVE  ReqInv(s)'
    BY DEF TxInv, ReqInv
  <2> HIDE DEF S
  <2>5. ReqInv(s)
    BY DEF TxInv, ReqInv
  <2>6. S \in SUBSET Requests
    BY DEF S
  <2>7. CASE s \in S
    <3>1. /\ \A w \in Rows : lock'[w] # s /\ delta'[s][w] = 0 /\ recorded'[s][w] = 0 /\ seen'[s][w] = -1
          /\ idx'[s] = 1
      BY <2>1, <2>7, NothingAssumption DEF EndTx
    <3>2. \A w \in Rows : stock[w] \in 0..MaxStock
      BY DEF TypeOK
    <3>3. Clean(s)' /\ Staged(s)' /\ Guarded(s)'
      BY <2>3, <2>7, <3>1 DEF Clean, Staged, Guarded, InTx
    <3>4. Covered(s)'
      BY <2>1, <3>1, <3>2, BoundsAssumption DEF Covered
    <3> QED
      BY <3>3, <3>4 DEF ReqInv
  <2>8. CASE s \notin S
    <3>1. /\ delta'[s] = delta[s] /\ recorded'[s] = recorded[s] /\ seen'[s] = seen[s]
          /\ idx'[s] = idx[s]
          /\ \A w \in Rows : lock'[w] = s <=> lock[w] = s
      BY <2>1, <2>8, NothingAssumption DEF EndTx
    <3>2. CASE pc'[s] = pc[s]
      BY <2>1, <2>5, <3>1, <3>2, OthersKeep
    <3>3. CASE pc[s] = "committed" /\ pc'[s] = "error"
      <4>1. Clean(s)' /\ Staged(s)' /\ Guarded(s)' /\ Covered(s)'
        BY <2>1, <2>5, <3>1, <3>3 DEF ReqInv, Clean, Staged, Guarded, Covered, InTx
      <4> QED
        BY <4>1 DEF ReqInv
    <3> QED
      BY <2>4, <2>8, <3>2, <3>3
  <2> QED
    BY <2>7, <2>8
<1>11. ASSUME UNCHANGED vars
       PROVE  TxInv'
  <2> SUFFICES ASSUME NEW s \in Requests
               PROVE  ReqInv(s)'
    BY DEF TxInv, ReqInv
  <2>1. ReqInv(s)
    BY DEF TxInv, ReqInv
  <2> QED
    BY <1>11, <2>1, OthersKeep DEF vars
<1> QED
  BY <1>1, <1>2, <1>3, <1>4, <1>5, <1>6, <1>7, <1>8, <1>9, <1>10, <1>11
     DEF Next, Statement, Finished
-----------------------------------------------------------------------------
(* The books. *)

\* Only a commit changes what is committed.
LEMMA OnlyCommits ==
  [Next]_vars => UNCHANGED committed \/ \E r \in Requests : Commit(r)
BY DEF Next, Statement, Finished, Admit, Refuse, StartLock, LockRow, CheckStock,
       OutOfStock, Deduct, Upsert, UpsertOverflow, Reply, Abort, BreakDeadlock,
       RollBack, Crash, vars, committed

\* It records at least what it takes.
LEMMA BooksPreserved ==
  ASSUME StockInv, [Next]_vars
  PROVE  DeductionsRecorded'
<1> USE DEF StockInv
<1>1. ASSUME NEW r \in Requests, Commit(r)
      PROVE  DeductionsRecorded'
  <2> SUFFICES ASSUME NEW w \in Rows
               PROVE  stock'[w] + sold'[w] >= InitialStock[w] + restocked'[w]
    BY DEF DeductionsRecorded
  <2>1. /\ stock[w] \in Nat /\ sold[w] \in Nat /\ restocked[w] \in Nat
        /\ InitialStock[w] \in Nat
        /\ delta[r][w] \in Int /\ recorded[r][w] \in Nat
    BY BoundsAssumption, StockAssumption DEF TypeOK
  <2>2. stock[w] + sold[w] >= InitialStock[w] + restocked[w]
    BY DEF DeductionsRecorded
  <2>3. stock'[w] = stock[w] + delta[r][w] /\ Covered(r)
    BY <1>1 DEF Commit, TxInv
  <2>4. CASE req[r].kind = "checkout"
    <3>1. sold'[w] = sold[w] + recorded[r][w] /\ restocked'[w] = restocked[w]
      BY <1>1, <2>4 DEF Commit
    <3> QED
      BY <2>1, <2>2, <2>3, <2>4, <3>1 DEF Covered
  <2>5. CASE req[r].kind # "checkout"
    <3>1. restocked'[w] = restocked[w] + recorded[r][w] /\ sold'[w] = sold[w]
      BY <1>1, <2>5 DEF Commit
    <3> QED
      BY <2>1, <2>2, <2>3, <2>5, <3>1 DEF Covered
  <2> QED
    BY <2>4, <2>5
<1>2. ASSUME UNCHANGED committed
      PROVE  DeductionsRecorded'
  BY <1>2 DEF DeductionsRecorded, committed
<1> QED
  BY <1>1, <1>2, OnlyCommits

LEMMA InitInv == Init => StockInv
<1> SUFFICES ASSUME Init
             PROVE  StockInv
  OBVIOUS
<1>1. TypeOK
  BY StockAssumption, NothingAssumption DEF Init, TypeOK
<1>2. \A r \in Requests : Clean(r) /\ Staged(r) /\ Guarded(r)
  BY NothingAssumption DEF Init, Clean, Staged, Guarded, InTx
<1>3. \A r \in Requests : Covered(r)
  BY StockAssumption, BoundsAssumption DEF Init, Covered
<1>4. DeductionsRecorded
  BY StockAssumption, BoundsAssumption DEF Init, DeductionsRecorded
<1> QED
  BY <1>1, <1>2, <1>3, <1>4 DEF StockInv, TxInv

THEOREM StockInvariant == Spec => []StockInv
<1>1. Init => StockInv
  BY InitInv
<1>2. StockInv /\ [Next]_vars => StockInv'
  <2> SUFFICES ASSUME StockInv, [Next]_vars
               PROVE  StockInv'
    OBVIOUS
  <2>1. TypeOK'
    BY TypesPreserved
  <2>2. TxInv'
    BY <2>1, TxPreserved
  <2>3. DeductionsRecorded'
    BY BooksPreserved
  <2> QED
    BY <2>1, <2>2, <2>3 DEF StockInv
<1> QED
  BY <1>1, <1>2, PTL DEF Spec

\* The stock column is in its range in every reachable state, for any number of
\* requests, rows and item lists, repeated products included.
THEOREM TypeCorrect == Spec => []TypeOK
<1>1. StockInv => TypeOK
  BY DEF StockInv
<1> QED
  BY <1>1, StockInvariant, PTL

\* No unit leaves the shelf without a committed sale that records it, for any
\* carts: those with a product on several lines, which break the balance, too.
THEOREM EveryDeductionRecorded == Spec => []DeductionsRecorded
<1>1. StockInv => DeductionsRecorded
  BY DEF StockInv
<1> QED
  BY <1>1, StockInvariant, PTL

\* No handler returns with a row still locked.
THEOREM NoLockLeaks == Spec => []NoLeakedLock
<1>1. StockInv => NoLeakedLock
  <2> SUFFICES ASSUME StockInv, NEW w \in Rows, lock[w] # NoOne
               PROVE  pc[lock[w]] \in InTx
    BY DEF NoLeakedLock
  <2>1. lock[w] \in Requests
    BY DEF StockInv, TypeOK
  <2> QED
    BY <2>1 DEF StockInv, TxInv, Clean
<1> QED
  BY <1>1, StockInvariant, PTL
-----------------------------------------------------------------------------
(* When no list names a product twice, the check of a checkout is exact. *)

\* What a step leaves alone keeps its line invariant.
LEMMA LinesKept ==
  ASSUME NEW s \in Requests, Exact(s), Pending(s),
         req' = req, pc'[s] = pc[s] \/ pc'[s] # "deduct", idx'[s] = idx[s],
         delta'[s] = delta[s], recorded'[s] = recorded[s], seen'[s] = seen[s]
  PROVE  Exact(s)' /\ Pending(s)'
<1>1. Exact(s)'
  BY DEF Exact
<1>2. Pending(s)'
  <2> SUFFICES ASSUME pc'[s] = "deduct"
               PROVE  Pending(s)'
    BY DEF Pending
  <2>1. /\ EnoughSeen(s)
        /\ \A k \in idx[s]..Len(Lines(s)) : delta[s][RowAt(s, k)] = 0
    BY DEF Pending
  <2>2. EnoughSeen(s)'
    BY <2>1 DEF EnoughSeen, Lines, RowAt, QuantityAt
  <2> QED
    BY <2>1, <2>2 DEF Pending, Lines, RowAt
<1> QED
  BY <1>1, <1>2

\* A line still to deduct finds the stock its checkout saw.
LEMMA LineCovered ==
  ASSUME StockInv, LineInv, NEW r \in Requests, pc[r] = "deduct",
         NEW k \in idx[r]..Len(Lines(r))
  PROVE  /\ k \in DOMAIN Lines(r)
         /\ delta[r][RowAt(r, k)] = 0
         /\ stock[RowAt(r, k)] >= QuantityAt(r, k)
<1>1. /\ idx[r] \in Nat \ {0}
      /\ WellFormed(r) /\ Guarded(r) /\ Pending(r)
  BY DEF StockInv, TypeOK, TxInv, Staged, LineInv, InTx
<1>2. k \in DOMAIN Lines(r)
  BY <1>1, ItemTypes DEF StockInv
<1>3. /\ RowAt(r, k) \in Rows
      /\ QuantityAt(r, k) \in Int /\ QuantityAt(r, k) > 0
      /\ seen[r][RowAt(r, k)] \in Int
  BY <1>1, <1>2, ItemTypes DEF StockInv, WellFormed, TypeOK
<1>4. seen[r][RowAt(r, k)] >= QuantityAt(r, k) /\ delta[r][RowAt(r, k)] = 0
  BY <1>1, <1>2 DEF Pending, EnoughSeen
<1>5. seen[r][RowAt(r, k)] = stock[RowAt(r, k)]
  BY <1>1, <1>3, <1>4 DEF Guarded
<1> QED
  BY <1>2, <1>4, <1>5

\* Two items of one list are of different rows.
LEMMA RowsDiffer ==
  ASSUME UniqueLines, TypeOK, NEW r \in Requests,
         NEW i \in DOMAIN Lines(r), NEW j \in DOMAIN Lines(r), i # j
  PROVE  RowAt(r, i) # RowAt(r, j)
<1>1. Lines(r) \in Carts
  BY DEF TypeOK, Lines
<1>2. Lines(r)[i].product # Lines(r)[j].product
  BY <1>1 DEF UniqueLines
<1> QED
  BY <1>2 DEF RowAt

\* Every step keeps the line invariant.
LEMMA LinesPreserved ==
  ASSUME UniqueLines, StockInv, LineInv, [Next]_vars
  PROVE  LineInv'
<1> USE DEF StockInv
<1>1. ASSUME NEW r \in Requests, Exact(r)', Pending(r)', req' = req,
             \A s \in Requests \ {r} :
                /\ pc'[s] = pc[s] /\ idx'[s] = idx[s] /\ delta'[s] = delta[s]
                /\ recorded'[s] = recorded[s] /\ seen'[s] = seen[s]
      PROVE  LineInv'
  BY <1>1, LinesKept DEF LineInv
<1>2. ASSUME NEW r \in Requests, Deduct(r)
      PROVE  LineInv'
  <2> DEFINE k0 == idx[r]
             w0 == RowAt(r, k0)
             q == QuantityAt(r, k0)
  <2>1. /\ pc[r] = "deduct" /\ NextItem(r)
        /\ UNCHANGED <<req, seen, stock>>
        /\ recorded' = [recorded EXCEPT ![r][w0] = @ + q]
    BY <1>2 DEF Deduct, committed
  <2>2. k0 \in DOMAIN Lines(r) /\ k0 \in idx[r]..Len(Lines(r))
    BY <2>1, ItemTypes DEF TxInv, Staged
  <2>3. w0 \in Rows /\ q \in Int /\ delta[r][w0] = 0 /\ stock[w0] >= q
    BY <2>1, <2>2, ItemTypes, LineCovered
  <2>4. delta' = [delta EXCEPT ![r][w0] = @ - q]
    <3>1. stock[w0] + delta[r][w0] >= q
      BY <2>3 DEF TypeOK
    <3> QED
      BY <1>2, <3>1 DEF Deduct, Current
  <2>5. /\ \A s \in Requests \ {r} : pc'[s] = pc[s] /\ idx'[s] = idx[s]
        /\ pc'[r] \in {"deduct", "write"}
        /\ pc'[r] = "deduct" => idx'[r] = k0 + 1
    BY <2>1, <2>2, LoopStep
  <2>6. Exact(r)'
    <3> SUFFICES ASSUME req[r].kind = "checkout", NEW w \in Rows
                 PROVE  delta'[r][w] = -recorded'[r][w]
      BY <2>1 DEF Exact
    <3>1. delta[r][w] = -recorded[r][w] /\ recorded[r][w] \in Int
      BY DEF LineInv, Exact, TypeOK
    <3> HIDE DEF w0, q
    <3>2. CASE w = w0
      <4>1. delta'[r][w0] = delta[r][w0] - q /\ recorded'[r][w0] = recorded[r][w0] + q
        BY <2>1, <2>3, <2>4 DEF TypeOK
      <4> QED
        BY <2>3, <3>1, <3>2, <4>1
    <3>3. CASE w # w0
      <4>1. delta'[r][w] = delta[r][w] /\ recorded'[r][w] = recorded[r][w]
        BY <2>1, <2>3, <2>4, <3>3 DEF TypeOK
      <4> QED
        BY <3>1, <4>1
    <3> QED
      BY <3>2, <3>3
  <2>7. Pending(r)'
    <3> SUFFICES ASSUME pc'[r] = "deduct"
                 PROVE  /\ EnoughSeen(r)'
                        /\ \A k \in k0 + 1..Len(Lines(r)) : delta'[r][RowAt(r, k)] = 0
      BY <2>1, <2>5 DEF Pending, Lines, RowAt
    <3>1. EnoughSeen(r)'
      BY <2>1 DEF LineInv, Pending, EnoughSeen, Lines, RowAt, QuantityAt
    <3>2. ASSUME NEW k \in k0 + 1..Len(Lines(r))
          PROVE  delta'[r][RowAt(r, k)] = 0
      <4>1. k0 \in Nat /\ k \in idx[r]..Len(Lines(r)) /\ k # k0
        BY ItemTypes DEF TypeOK
      <4>2. k \in DOMAIN Lines(r) /\ delta[r][RowAt(r, k)] = 0 /\ RowAt(r, k) \in Rows
        BY <2>1, <4>1, LineCovered, ItemTypes
      <4>3. RowAt(r, k) # w0
        BY <2>2, <4>1, <4>2, RowsDiffer
      <4> HIDE DEF w0, q
      <4> QED
        BY <2>3, <2>4, <4>2, <4>3 DEF TypeOK
    <3> QED
      BY <3>1, <3>2
  <2>8. \A s \in Requests \ {r} :
           delta'[s] = delta[s] /\ recorded'[s] = recorded[s] /\ seen'[s] = seen[s]
    BY <2>1, <2>4 DEF TypeOK
  <2> QED
    BY <2>1, <2>5, <2>6, <2>7, <2>8, <1>1
<1>3. ASSUME NEW r \in Requests, Upsert(r)
      PROVE  LineInv'
  <2>1. /\ pc[r] = "upsert" /\ NextItem(r) /\ req' = req /\ seen' = seen
        /\ req[r].kind # "checkout" /\ idx[r] \in DOMAIN Lines(r)
    BY <1>3 DEF Upsert, TxInv, Staged
  <2>2. /\ \A s \in Requests \ {r} : pc'[s] = pc[s] /\ idx'[s] = idx[s]
        /\ pc'[r] \in {"upsert", "write"}
    BY <2>1, LoopStep
  <2>3. \A s \in Requests \ {r} : delta'[s] = delta[s] /\ recorded'[s] = recorded[s]
    BY <1>3 DEF Upsert, TypeOK
  <2>4. Exact(r)' /\ Pending(r)'
    BY <2>1, <2>2 DEF Exact, Pending
  <2> QED
    BY <2>1, <2>2, <2>3, <2>4, <1>1
<1>4. ASSUME NEW r \in Requests, CheckStock(r)
      PROVE  LineInv'
  <2>1. /\ pc[r] = "lock" /\ EnoughSeen(r) /\ pc' = [pc EXCEPT ![r] = "deduct"]
        /\ UNCHANGED <<req, idx, delta, recorded, seen>>
    BY <1>4 DEF CheckStock
  <2>2. /\ \A w \in Rows : delta[r][w] = 0
        /\ idx[r] = 1
    BY <2>1 DEF TxInv, Staged
  <2>3. Exact(r)'
    BY <2>1 DEF LineInv, Exact
  <2>4. \A k \in idx[r]..Len(Lines(r)) : delta[r][RowAt(r, k)] = 0
    BY <2>2, ItemTypes
  <2>5. Pending(r)'
    BY <2>1, <2>4 DEF Pending, EnoughSeen, Lines, RowAt, QuantityAt
  <2> QED
    BY <2>1, <2>3, <2>5, <1>1 DEF TypeOK
<1>5. ASSUME NEW r \in Requests, LockRow(r)
      PROVE  LineInv'
  <2>1. /\ pc[r] = "lock" /\ UNCHANGED <<req, pc, idx, delta, recorded>>
        /\ \A s \in Requests \ {r} : seen'[s] = seen[s]
    BY <1>5 DEF LockRow, TypeOK
  <2>2. Exact(r)' /\ Pending(r)'
    BY <2>1 DEF LineInv, Exact, Pending
  <2> QED
    BY <2>1, <2>2, <1>1
<1>6. ASSUME NEW r \in Requests,
             Admit(r) \/ Refuse(r) \/ StartLock(r) \/ Reply(r)
      PROVE  LineInv'
  <2>1. /\ UNCHANGED <<req, idx, delta, recorded, seen>>
        /\ \E a \in {"begin", "upsert", "lock", "refused", "ok", "error"} :
              pc' = [pc EXCEPT ![r] = a]
    BY <1>6 DEF Admit, Refuse, StartLock, Reply
  <2>2. \A s \in Requests : pc'[s] = pc[s] \/ pc'[s] # "deduct"
    BY <2>1 DEF TypeOK
  <2> QED
    BY <2>1, <2>2, LinesKept DEF LineInv
<1>7. ASSUME NEW S \in SUBSET Requests, EndTx(S), req' = req,
             \A s \in Requests : IF s \in S THEN pc'[s] # "deduct"
                                 ELSE pc'[s] = pc[s] \/ pc'[s] # "deduct"
      PROVE  LineInv'
  <2> SUFFICES ASSUME NEW s \in Requests
               PROVE  Exact(s)' /\ Pending(s)'
    BY DEF LineInv
  <2>1. CASE s \in S
    <3>1. \A w \in Rows : delta'[s][w] = 0 /\ recorded'[s][w] = 0
      BY <1>7, <2>1 DEF EndTx
    <3>2. Exact(s)'
      BY <3>1 DEF Exact
    <3> QED
      BY <1>7, <2>1, <3>2 DEF Pending
  <2>2. CASE s \notin S
    <3>1. /\ idx'[s] = idx[s] /\ delta'[s] = delta[s]
          /\ recorded'[s] = recorded[s] /\ seen'[s] = seen[s]
      BY <1>7, <2>2 DEF EndTx
    <3> QED
      BY <1>7, <2>2, <3>1, LinesKept DEF LineInv
  <2> QED
    BY <2>1, <2>2
<1>8. ASSUME NEW r \in Requests,
             \/ OutOfStock(r) \/ UpsertOverflow(r) \/ Abort(r) \/ BreakDeadlock(r)
             \/ Commit(r)
      PROVE  LineInv'
  <2>1. /\ EndTx({r}) /\ req' = req
        /\ \E a \in {"failed", "committed"} : pc' = [pc EXCEPT ![r] = a]
    BY <1>8 DEF OutOfStock, UpsertOverflow, Abort, BreakDeadlock, RollBack, Commit
  <2> QED
    BY <2>1, <1>7 DEF TypeOK
<1>9. ASSUME Crash
      PROVE  LineInv'
  <2>1. /\ EndTx({r \in Requests : pc[r] \in InTx}) /\ req' = req
        /\ \A s \in Requests : pc'[s] = pc[s] \/ pc'[s] \in {"failed", "error"}
        /\ \A s \in {r \in Requests : pc[r] \in InTx} : pc'[s] = "failed"
    BY <1>9 DEF Crash, InTx
  <2> QED
    BY <2>1, <1>7
<1>10. ASSUME UNCHANGED vars
       PROVE  LineInv'
  BY <1>10, LinesKept DEF vars, LineInv
<1> QED
  BY <1>2, <1>3, <1>4, <1>5, <1>6, <1>8, <1>9, <1>10 DEF Next, Statement, Finished
-----------------------------------------------------------------------------
(* With it, each commit is one entry of the ledger. *)

\* A commit moves exactly what it records.
LEMMA CommitMoves ==
  ASSUME StockInv, LineInv, NEW r \in Requests, Commit(r), NEW w \in Rows
  PROVE  /\ stock[w] \in Nat /\ sold[w] \in Nat /\ restocked[w] \in Nat
         /\ recorded[r][w] \in Nat
         /\ req[r].kind = "checkout" =>
               /\ stock'[w] = stock[w] - recorded[r][w]
               /\ sold'[w] = sold[w] + recorded[r][w]
         /\ req[r].kind # "checkout" =>
               /\ stock'[w] = stock[w] + recorded[r][w]
               /\ restocked'[w] = restocked[w] + recorded[r][w]
<1>1. /\ stock[w] \in Nat /\ sold[w] \in Nat /\ restocked[w] \in Nat
      /\ recorded[r][w] \in Nat /\ delta[r][w] \in Int
  BY BoundsAssumption DEF StockInv, TypeOK
<1>2. stock'[w] = stock[w] + delta[r][w]
  BY DEF Commit
<1>3. CASE req[r].kind = "checkout"
  <2>1. delta[r][w] = -recorded[r][w]
    BY <1>3 DEF LineInv, Exact
  <2>2. sold'[w] = sold[w] + recorded[r][w]
    BY <1>3 DEF Commit
  <2> QED
    BY <1>1, <1>2, <1>3, <2>1, <2>2
<1>4. CASE req[r].kind # "checkout"
  <2>1. delta[r][w] = recorded[r][w]
    BY <1>4 DEF StockInv, TxInv, Covered
  <2>2. restocked'[w] = restocked[w] + recorded[r][w]
    BY <1>4 DEF Commit
  <2> QED
    BY <1>1, <1>2, <1>4, <2>1, <2>2
<1> QED
  BY <1>3, <1>4

LEMMA ExactInvariant == ASSUME UniqueLines PROVE Spec => []ExactInv
<1>1. Init => LineInv /\ StockBalanced
  <2> SUFFICES ASSUME Init
               PROVE  LineInv /\ StockBalanced
    OBVIOUS
  <2>1. \A r \in Requests : Exact(r) /\ Pending(r)
    <3>1. \A r \in Requests : Exact(r)
      <4>1. \A r \in Requests : \A w \in Rows : delta[r][w] = 0 /\ recorded[r][w] = 0
        BY DEF Init
      <4> QED
        BY <4>1 DEF Exact
    <3>2. \A r \in Requests : Pending(r)
      BY DEF Init, Pending
    <3> QED
      BY <3>1, <3>2
  <2>2. StockBalanced
    BY StockAssumption, BoundsAssumption DEF Init, StockBalanced
  <2> QED
    BY <2>1, <2>2 DEF LineInv
<1>2. StockInv /\ (LineInv /\ StockBalanced) /\ [Next]_vars => (LineInv /\ StockBalanced)'
  <2> SUFFICES ASSUME StockInv, LineInv, StockBalanced, [Next]_vars
               PROVE  LineInv' /\ StockBalanced'
    OBVIOUS
  <2>1. LineInv'
    BY LinesPreserved
  <2>2. CASE UNCHANGED committed
    BY <2>1, <2>2 DEF StockBalanced, committed
  <2>3. ASSUME NEW r \in Requests, Commit(r)
        PROVE  StockBalanced'
    <3> SUFFICES ASSUME NEW w \in Rows
                 PROVE  stock'[w] + sold'[w] = InitialStock[w] + restocked'[w]
      BY DEF StockBalanced
    <3>1. stock[w] + sold[w] = InitialStock[w] + restocked[w] /\ InitialStock[w] \in Nat
      BY StockAssumption, BoundsAssumption DEF StockBalanced
    <3>2. CASE req[r].kind = "checkout"
      <4>1. restocked' = restocked
        BY <2>3, <3>2 DEF Commit
      <4> QED
        BY <2>3, <3>1, <3>2, <4>1, CommitMoves
    <3>3. CASE req[r].kind # "checkout"
      <4>1. sold' = sold
        BY <2>3, <3>3 DEF Commit
      <4> QED
        BY <2>3, <3>1, <3>3, <4>1, CommitMoves
    <3> QED
      BY <3>2, <3>3
  <2> QED
    BY <2>1, <2>2, <2>3, OnlyCommits
<1>3. Spec => [](LineInv /\ StockBalanced)
  BY <1>1, <1>2, StockInvariant, PTL DEF Spec
<1> QED
  BY <1>3, StockInvariant, PTL DEF ExactInv

\* The books balance in every reachable state when no list names a product twice.
THEOREM StockStaysBalanced == ASSUME UniqueLines PROVE Spec => []StockBalanced
<1>1. ExactInv => StockBalanced
  BY DEF ExactInv
<1> QED
  BY <1>1, ExactInvariant, PTL

\* The stock a checkout compared its lines with is there when it deducts them.
THEOREM ChecksStayValid == ASSUME UniqueLines PROVE Spec => []CheckedStockStays
<1>1. ExactInv => CheckedStockStays
  <2> SUFFICES ASSUME ExactInv, NEW r \in Requests, pc[r] = "deduct",
                      NEW k \in idx[r]..Len(Lines(r))
               PROVE  Current(r, RowAt(r, k)) >= QuantityAt(r, k)
    BY DEF CheckedStockStays
  <2>1. /\ k \in DOMAIN Lines(r)
        /\ delta[r][RowAt(r, k)] = 0
        /\ stock[RowAt(r, k)] >= QuantityAt(r, k)
    BY LineCovered DEF ExactInv
  <2>2. stock[RowAt(r, k)] \in Int
    BY <2>1, ItemTypes DEF ExactInv, StockInv, TypeOK
  <2> QED
    BY <2>1, <2>2 DEF Current
<1> QED
  BY <1>1, ExactInvariant, PTL

\* A step of the ledger that touches no stock: request s fails or is answered, or
\* stays as it is.
Settles(s) ==
  \/ Outcome(s)' = Outcome(s)
  \/ Outcome(s) = "open" /\ Outcome(s)' = "failed"
  \/ Outcome(s) = "entered" /\ Outcome(s)' \in {"ok", "error"}

\* All but the commits settle requests.
LEMMA OthersSettle ==
  ASSUME StockInv, [Next]_vars
  PROVE  \/ \E r \in Requests : Commit(r)
         \/ UNCHANGED committed /\ \A s \in Requests : Settles(s)
<1>0. TypeOK
  BY DEF StockInv
<1>1. ASSUME NEW r \in Requests,
             \/ Admit(r) \/ StartLock(r) \/ LockRow(r) \/ CheckStock(r)
             \/ Deduct(r) \/ Upsert(r)
      PROVE  \A s \in Requests : Settles(s)
  <2>1. /\ pc[r] \in {"idle"} \cup InTx /\ pc'[r] \in InTx
        /\ \A s \in Requests \ {r} : pc'[s] = pc[s]
    BY <1>0, <1>1 DEF TypeOK, Admit, StartLock, LockRow, CheckStock, Deduct, Upsert,
       NextItem, InTx
  <2> QED
    BY <2>1 DEF Settles, Outcome, InTx
<1>2. ASSUME NEW r \in Requests,
             \/ Refuse(r) \/ OutOfStock(r) \/ UpsertOverflow(r) \/ Abort(r)
             \/ BreakDeadlock(r)
      PROVE  \A s \in Requests : Settles(s)
  <2>1. CASE BreakDeadlock(r)
    <3>1. Wanted(r) # NoRow
      BY <2>1, NothingAssumption DEF BreakDeadlock, Deadlocked, WaitsFor
    <3>2. pc[r] \in InTx
      BY <3>1 DEF Wanted, InTx
    <3>3. pc'[r] = "failed" /\ \A s \in Requests \ {r} : pc'[s] = pc[s]
      BY <1>0, <2>1 DEF TypeOK, BreakDeadlock, RollBack
    <3> QED
      BY <3>2, <3>3 DEF Settles, Outcome, InTx
  <2>2. CASE Refuse(r) \/ OutOfStock(r) \/ UpsertOverflow(r) \/ Abort(r)
    <3>1. /\ pc[r] \in {"idle"} \cup InTx /\ pc'[r] \in {"refused", "failed"}
          /\ \A s \in Requests \ {r} : pc'[s] = pc[s]
      BY <1>0, <2>2 DEF TypeOK, Refuse, OutOfStock, UpsertOverflow, Abort, RollBack, InTx
    <3> QED
      BY <3>1 DEF Settles, Outcome, InTx
  <2> QED
    BY <1>2, <2>1, <2>2
<1>3. ASSUME NEW r \in Requests, Reply(r)
      PROVE  \A s \in Requests : Settles(s)
  <2>1. /\ pc[r] = "committed" /\ pc'[r] \in {"ok", "error"}
        /\ \A s \in Requests \ {r} : pc'[s] = pc[s]
    BY <1>0, <1>3 DEF TypeOK, Reply
  <2> QED
    BY <2>1 DEF Settles, Outcome
<1>4. ASSUME Crash
      PROVE  \A s \in Requests : Settles(s)
  <2>1. \A s \in Requests : pc'[s] = CASE pc[s] \in InTx -> "failed"
                                       [] pc[s] = "committed" -> "error"
                                       [] OTHER -> pc[s]
    BY <1>4 DEF Crash
  <2> QED
    BY <2>1 DEF Settles, Outcome, InTx
<1>5. ASSUME Finished \/ UNCHANGED vars
      PROVE  \A s \in Requests : Settles(s)
  BY <1>5 DEF Finished, vars, Settles, Outcome
<1>6. (\E r \in Requests : Commit(r)) \/ \A s \in Requests : Settles(s)
  BY <1>1, <1>2, <1>3, <1>4, <1>5 DEF Next, Statement
<1> QED
  BY <1>6, OnlyCommits

\* The statements of the requests implement the ledger.
THEOREM ImplementsLedger == ASSUME UniqueLines PROVE Spec => LedgerSpec
<1>1. Init => Ledger!Init
  BY DEF Init, Ledger!Init, Outcome
<1>2. ExactInv /\ ExactInv' /\ [Next]_vars => [Ledger!Next]_(Ledger!ledger)
  <2> SUFFICES ASSUME ExactInv, ExactInv', [Next]_vars
               PROVE  [Ledger!Next]_(Ledger!ledger)
    OBVIOUS
  <2>0. /\ stock' \in [Rows -> Nat]
        /\ sold' \in [Rows -> Nat]
        /\ restocked' \in [Rows -> Nat]
    <3>1. /\ stock' \in [Rows -> 0..MaxStock]
          /\ sold' \in [Rows -> Nat]
          /\ restocked' \in [Rows -> Nat]
      BY DEF ExactInv, StockInv, TypeOK
    <3>2. 0..MaxStock \subseteq Nat
      BY BoundsAssumption
    <3> QED
      BY <3>1, <3>2
  <2>1. ASSUME UNCHANGED committed, \A s \in Requests : Settles(s)
        PROVE  Ledger!Settle
    <3>1. [r \in Requests |-> Outcome(r)]' \in [Requests -> Ledger!Outcomes]
      <4>1. \A r \in Requests : Outcome(r)' \in Ledger!Outcomes
        BY DEF Outcome, Ledger!Outcomes
      <4> QED
        BY <4>1
    <3>2. UNCHANGED <<stock, sold, restocked>>
      BY <2>1 DEF committed
    <3> QED
      BY <2>1, <3>1, <3>2 DEF Ledger!Settle, Settles
  <2>2. ASSUME NEW r \in Requests, Commit(r)
        PROVE  Ledger!Enter(r)
    <3>1. /\ Outcome(r) = "open" /\ Outcome(r)' = "entered"
          /\ \A s \in Requests \ {r} : Outcome(s)' = Outcome(s)
      BY <2>2 DEF Commit, Outcome, ExactInv, StockInv, TypeOK
    <3> QED
      BY <3>1 DEF Ledger!Enter
  <2>3. ASSUME NEW r \in Requests, Commit(r), req[r].kind = "checkout"
        PROVE  Ledger!Sell(r)
    <3>1. restocked' = restocked
      BY <2>3 DEF Commit
    <3>2. ASSUME NEW w \in Rows
          PROVE  sold[w] <= sold'[w] /\ stock[w] - stock'[w] = sold'[w] - sold[w]
      BY <2>3, CommitMoves DEF ExactInv
    <3> QED
      BY <2>0, <2>2, <2>3, <3>1, <3>2 DEF Ledger!Sell
  <2>4. ASSUME NEW r \in Requests, Commit(r), req[r].kind # "checkout"
        PROVE  Ledger!Restock(r)
    <3>1. sold' = sold
      BY <2>4 DEF Commit
    <3>2. ASSUME NEW w \in Rows
          PROVE  /\ restocked[w] <= restocked'[w]
                 /\ stock'[w] - stock[w] = restocked'[w] - restocked[w]
      BY <2>4, CommitMoves DEF ExactInv
    <3> QED
      BY <2>0, <2>2, <2>4, <3>1, <3>2 DEF Ledger!Restock
  <2>5. StockInv
    BY DEF ExactInv
  <2> QED
    BY <2>1, <2>3, <2>4, <2>5, OthersSettle DEF Ledger!Next
<1> QED
  BY <1>1, <1>2, ExactInvariant, PTL DEF Spec, LedgerSpec, Ledger!Spec
=============================================================================

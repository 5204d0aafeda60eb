------------------------ MODULE PurchaseOrderProofs ------------------------
(***************************************************************************)
(* What PurchaseOrder guarantees for any number of orders, items and       *)
(* receive requests: an order is received with all its items or not at     *)
(* all, and once when the requests for it do not overlap.                  *)
(***************************************************************************)
EXTENDS PurchaseOrder, TLAPS

\* A request in its transaction has an order, and has marked it only after all
\* its items.
Directed ==
  \A r \in Receivers :
     /\ pc[r] \in InTx \cup {"committed"} => order[r] \in Orders
     /\ pc[r] \in InTx => status[order[r]] # "none"
     /\ pc[r] = "marked" => added[r] = Items

OrderInv == TypeOK /\ Directed /\ StockedIffReceived

-----------------------------------------------------------------------------
(* All the items or none. *)

LEMMA OrderInit == Init => OrderInv
BY NobodyAssumption DEF Init, OrderInv, TypeOK, Directed, StockedIffReceived, InTx

LEMMA OrderStep == OrderInv /\ [Next]_vars => OrderInv'
<1> SUFFICES ASSUME OrderInv, [Next]_vars
             PROVE  OrderInv'
  OBVIOUS
<1> USE DEF OrderInv
<1>1. ASSUME NEW o \in Orders, CreatePO(o)
      PROVE  OrderInv'
  <2>1. TypeOK' /\ Directed'
    BY <1>1 DEF CreatePO, TypeOK, Directed, InTx
  <2>2. StockedIffReceived'
    BY <1>1 DEF CreatePO, TypeOK, StockedIffReceived
  <2> QED
    BY <2>1, <2>2
<1>2. ASSUME NEW r \in Receivers, NEW o \in Orders, FindPO(r, o)
      PROVE  OrderInv'
  <2>1. pc' = [pc EXCEPT ![r] = CASE status[o] = "none" -> "notFound"
                                  [] status[o] = "pending" -> "begin"
                                  [] status[o] = "received" -> "alreadyReceived"]
    BY <1>2 DEF FindPO
  <2>2. \/ status[o] = "none" /\ pc'[r] = "notFound"
        \/ status[o] = "pending" /\ pc'[r] = "begin"
        \/ status[o] = "received" /\ pc'[r] = "alreadyReceived"
    BY <2>1 DEF TypeOK
  <2>3. TypeOK'
    BY <1>2, <2>1, <2>2 DEF FindPO, TypeOK, InTx, Answered
  <2>4. Directed'
    BY <1>2, <2>1, <2>2 DEF FindPO, TypeOK, Directed, InTx
  <2>5. StockedIffReceived'
    BY <1>2 DEF FindPO, StockedIffReceived
  <2> QED
    BY <2>3, <2>4, <2>5
<1>3. ASSUME NEW r \in Receivers, BeginTx(r) \/ AddItem(r) \/ MarkReceived(r)
      PROVE  OrderInv'
  <2>1. order[r] \in Orders /\ status' = status /\ stock' = stock
    BY <1>3 DEF BeginTx, AddItem, MarkReceived, Directed, InTx
  <2>2. TypeOK'
    <3>1. CASE BeginTx(r)
      BY <3>1 DEF BeginTx, TypeOK, InTx
    <3>2. CASE AddItem(r)
      BY <3>2 DEF AddItem, TypeOK
    <3>3. CASE MarkReceived(r)
      BY <2>1, <3>3 DEF MarkReceived, TypeOK, InTx
    <3> QED
      BY <1>3, <3>1, <3>2, <3>3
  <2>3. Directed'
    BY <1>3 DEF BeginTx, AddItem, MarkReceived, TypeOK, Directed, InTx
  <2>4. StockedIffReceived'
    BY <2>1 DEF StockedIffReceived
  <2> QED
    BY <2>2, <2>3, <2>4
<1>4. ASSUME NEW r \in Receivers, Commit(r)
      PROVE  OrderInv'
  <2>1. /\ order[r] \in Orders /\ added[r] = Items /\ status[order[r]] # "none"
        /\ pc[r] = "marked"
    BY <1>4 DEF Commit, Directed, InTx
  <2>2. /\ stock' = [stock EXCEPT ![order[r]] = [i \in Items |-> stock[order[r]][i] + 1]]
        /\ status' = [status EXCEPT ![order[r]] = "received"]
        /\ pc' = [pc EXCEPT ![r] = "committed"]
        /\ UNCHANGED <<order, overlapped>>
        /\ EndTx({r})
    BY <1>4, <2>1 DEF Commit
  <2>3. TypeOK'
    BY <2>1, <2>2 DEF TypeOK, EndTx
  <2>4. Directed'
    BY <2>1, <2>2 DEF TypeOK, Directed, EndTx, InTx
  <2>5. StockedIffReceived'
    <3> SUFFICES ASSUME NEW o \in Orders, NEW i \in Items
                 PROVE  /\ status'[o] = "received" <=> stock'[o][i] > 0
                        /\ \A j \in Items : stock'[o][i] = stock'[o][j]
      BY DEF StockedIffReceived
    <3>1. CASE o = order[r]
      BY <2>1, <2>2, <3>1 DEF TypeOK, StockedIffReceived
    <3>2. CASE o # order[r]
      BY <2>1, <2>2, <3>2 DEF TypeOK, StockedIffReceived
    <3> QED
      BY <3>1, <3>2
  <2> QED
    BY <2>3, <2>4, <2>5
<1>5. ASSUME NEW r \in Receivers, Reply(r)
      PROVE  OrderInv'
  BY <1>5 DEF Reply, TypeOK, Directed, StockedIffReceived, InTx, Answered
<1>6. ASSUME NEW S \in SUBSET Receivers, EndTx(S),
             UNCHANGED <<status, stock, order, overlapped>>,
             pc' \in [Receivers -> {"idle", "committed"} \cup InTx \cup Answered],
             \A r \in S : pc'[r] \in Answered,
             \A r \in Receivers \ S : pc'[r] = pc[r] \/ pc'[r] \in Answered
      PROVE  OrderInv'
  <2>1. TypeOK'
    BY <1>6 DEF EndTx, TypeOK
  <2>2. Directed'
    BY <1>6 DEF EndTx, Directed, InTx, Answered
  <2>3. StockedIffReceived'
    BY <1>6 DEF StockedIffReceived
  <2> QED
    BY <2>1, <2>2, <2>3
<1>7. ASSUME NEW r \in Receivers, Abort(r)
      PROVE  OrderInv'
  BY <1>6, <1>7 DEF Abort, RollBack, TypeOK, Answered
<1>8. ASSUME Crash
      PROVE  OrderInv'
  <2> DEFINE S == {r \in Receivers : pc[r] \in InTx}
  <2>1. EndTx(S) /\ UNCHANGED <<status, stock, order, overlapped>>
    BY <1>8 DEF Crash
  <2>2. /\ pc' \in [Receivers -> {"idle", "committed"} \cup InTx \cup Answered]
        /\ \A r \in S : pc'[r] \in Answered
        /\ \A r \in Receivers \ S : pc'[r] = pc[r] \/ pc'[r] \in Answered
    BY <1>8 DEF Crash, TypeOK, Answered, InTx
  <2> HIDE DEF S
  <2>3. S \in SUBSET Receivers
    BY DEF S
  <2> QED
    BY <1>6, <2>1, <2>2, <2>3
<1>9. ASSUME UNCHANGED vars
      PROVE  OrderInv'
  BY <1>9 DEF vars, TypeOK, Directed, StockedIffReceived
<1> QED
  BY <1>1, <1>2, <1>3, <1>4, <1>5, <1>7, <1>8, <1>9 DEF Next, Statement, Finished

LEMMA OrderInvariant == Spec => []OrderInv
BY OrderInit, OrderStep, PTL DEF Spec

\* An order is received exactly when all its items are on the shelf.
THEOREM ReceiptIsAtomic == Spec => []StockedIffReceived
<1>1. OrderInv => StockedIffReceived
  BY DEF OrderInv
<1> QED
  BY <1>1, OrderInvariant, PTL

-----------------------------------------------------------------------------
(* Once, when the requests for an order do not overlap. *)

InFlight == InTx \cup {"committed"}

\* One request at most is under way for an order that was not overlapped, and
\* until it commits the order is still the pending one that it found.
Alone ==
  /\ \A r, s \in Receivers :
        /\ pc[r] \in InFlight /\ pc[s] \in InFlight
        /\ order[r] = order[s] /\ order[r] \notin overlapped
        => r = s
  /\ \A r \in Receivers :
        pc[r] \in InTx /\ order[r] \notin overlapped => status[order[r]] = "pending"

OnceInv == OrderInv /\ Alone /\ OnceUnlessOverlapped

LEMMA OnceStep == OnceInv /\ [Next]_vars => OnceInv'
<1> SUFFICES ASSUME OnceInv, [Next]_vars
             PROVE  Alone' /\ OnceUnlessOverlapped'
  BY OrderStep DEF OnceInv
<1> USE DEF OnceInv, OrderInv, InFlight
<1>1. ASSUME NEW o \in Orders, CreatePO(o)
      PROVE  Alone' /\ OnceUnlessOverlapped'
  BY <1>1 DEF CreatePO, TypeOK, Alone, OnceUnlessOverlapped, Directed, InTx
<1>2. ASSUME NEW r \in Receivers, NEW o \in Orders, FindPO(r, o)
      PROVE  Alone' /\ OnceUnlessOverlapped'
  <2>1. /\ UNCHANGED <<status, stock>>
        /\ order' = [order EXCEPT ![r] = o]
        /\ overlapped' = IF Receiving(o) = {} THEN overlapped ELSE overlapped \cup {o}
        /\ pc' = [pc EXCEPT ![r] = CASE status[o] = "none" -> "notFound"
                                     [] status[o] = "pending" -> "begin"
                                     [] status[o] = "received" -> "alreadyReceived"]
    BY <1>2 DEF FindPO
  <2>2. \/ status[o] = "none" /\ pc'[r] = "notFound"
        \/ status[o] = "pending" /\ pc'[r] = "begin"
        \/ status[o] = "received" /\ pc'[r] = "alreadyReceived"
    BY <2>1 DEF TypeOK
  <2>3. /\ order'[r] = o
        /\ \A s \in Receivers \ {r} : pc'[s] = pc[s] /\ order'[s] = order[s]
    BY <2>1 DEF TypeOK
  <2>4. /\ overlapped \subseteq overlapped'
        /\ o \notin overlapped' =>
              \A s \in Receivers : pc[s] \in InFlight => order[s] # o
    BY <2>1 DEF Receiving
  <2>5. Alone'
    BY <2>1, <2>2, <2>3, <2>4 DEF Alone, InTx
  <2> QED
    BY <2>1, <2>4, <2>5 DEF OnceUnlessOverlapped
<1>3. ASSUME NEW r \in Receivers, BeginTx(r) \/ AddItem(r) \/ MarkReceived(r)
      PROVE  Alone' /\ OnceUnlessOverlapped'
  <2>1. /\ UNCHANGED <<status, stock, order, overlapped>>
        /\ \A s \in Receivers : pc'[s] \in InTx => pc[s] \in InTx
        /\ \A s \in Receivers : pc'[s] \in InFlight => pc[s] \in InFlight
    BY <1>3 DEF BeginTx, AddItem, MarkReceived, TypeOK, InTx
  <2> QED
    BY <2>1 DEF Alone, OnceUnlessOverlapped
<1>4. ASSUME NEW r \in Receivers, Commit(r)
      PROVE  Alone' /\ OnceUnlessOverlapped'
  <2>1. order[r] \in Orders /\ pc[r] = "marked" /\ added[r] = Items
    BY <1>4 DEF Commit, Directed, InTx
  <2>2. /\ stock' = [stock EXCEPT ![order[r]] = [i \in Items |-> stock[order[r]][i] + 1]]
        /\ status' = [status EXCEPT ![order[r]] = "received"]
        /\ pc' = [pc EXCEPT ![r] = "committed"]
        /\ UNCHANGED <<order, overlapped>>
    BY <1>4, <2>1 DEF Commit
  <2>3. Alone'
    BY <2>1, <2>2 DEF Alone, TypeOK, InTx
  <2>4. ASSUME NEW i \in Items, order[r] \notin overlapped
        PROVE  stock[order[r]][i] = 0
    <3>1. status[order[r]] = "pending"
      BY <2>1, <2>4 DEF Alone, InTx
    <3> QED
      BY <2>1, <3>1 DEF TypeOK, StockedIffReceived
  <2>5. ASSUME NEW o \in Orders \ overlapped, NEW i \in Items
        PROVE  stock'[o][i] <= 1
    <3>1. CASE o = order[r]
      BY <2>1, <2>2, <2>4, <2>5, <3>1 DEF TypeOK
    <3>2. CASE o # order[r]
      BY <2>1, <2>2, <2>5, <3>2 DEF OnceUnlessOverlapped, TypeOK
    <3> QED
      BY <3>1, <3>2
  <2>6. OnceUnlessOverlapped'
    BY <2>2, <2>5 DEF OnceUnlessOverlapped, Items
  <2> QED
    BY <2>3, <2>6
<1>5. ASSUME NEW r \in Receivers, Reply(r) \/ Abort(r)
      PROVE  Alone' /\ OnceUnlessOverlapped'
  <2>1. /\ UNCHANGED <<status, stock, order, overlapped>>
        /\ \A s \in Receivers : pc'[s] = pc[s] \/ pc'[s] \notin InFlight
    BY <1>5 DEF Reply, Abort, RollBack, TypeOK, InTx
  <2> QED
    BY <2>1 DEF Alone, OnceUnlessOverlapped
<1>6. ASSUME Crash
      PROVE  Alone' /\ OnceUnlessOverlapped'
  <2>1. /\ UNCHANGED <<status, stock, order, overlapped>>
        /\ \A s \in Receivers : pc'[s] = pc[s] \/ pc'[s] \notin InFlight
    BY <1>6 DEF Crash, InTx
  <2> QED
    BY <2>1 DEF Alone, OnceUnlessOverlapped
<1>7. ASSUME UNCHANGED vars
      PROVE  Alone' /\ OnceUnlessOverlapped'
  BY <1>7 DEF vars, Alone, OnceUnlessOverlapped
<1> QED
  BY <1>1, <1>2, <1>3, <1>4, <1>5, <1>6, <1>7 DEF Next, Statement, Finished

\* An order is received once, whatever is retried, unless a request for it came
\* while another was under way.
THEOREM SequentialReceiveOnce == Spec => []OnceUnlessOverlapped
<1>1. Init => OnceInv
  BY OrderInit DEF OnceInv, Init, Alone, OnceUnlessOverlapped, InFlight, InTx
<1>2. OnceInv /\ [Next]_vars => OnceInv'
  BY OnceStep
<1>3. OnceInv => OnceUnlessOverlapped
  BY DEF OnceInv
<1> QED
  BY <1>1, <1>2, <1>3, PTL DEF Spec
=============================================================================

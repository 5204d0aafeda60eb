--------------------------- MODULE PurchaseOrder ---------------------------
(***************************************************************************)
(* Purchase orders and the requests that receive them.  ReceivePOForOrg    *)
(* reads the order and tests its status before it begins its transaction;  *)
(* inside, it adds the items to the stock one by one, marks the order      *)
(* received without testing the status again, and commits.  The order's    *)
(* row is locked from the mark to the end of the transaction.  The locks   *)
(* of the stock rows are the subject of BranchStock; here stock counts how *)
(* often each item of an order has been put on the shelf.                  *)
(***************************************************************************)
EXTENDS Integers

CONSTANTS
  Orders,        \* the purchase orders that may be created
  Receivers,     \* the receive requests, each served once
  ItemCount,     \* the items of an order
  NoOne,         \* the holder of a free row
  NoOrder        \* the order of a request that has not come yet

ASSUME ItemsAssumption == ItemCount \in Nat \ {0}
ASSUME NobodyAssumption == NoOne \notin Receivers /\ NoOrder \notin Orders

Items == 1..ItemCount

VARIABLES
  status,        \* purchase_orders.status, "none" before the order exists
  stock,         \* how often each item of each order was put on the shelf
  pc,            \* the statement each receive request runs next, or its answer
  order,         \* the order it receives
  added,         \* the items its open transaction has added to the stock
  lock,          \* the request that holds the row of each order
  overlapped     \* history: the orders asked for while a request was under way

vars == <<status, stock, pc, order, added, lock, overlapped>>

InTx == {"begin", "add", "marked"}
Answered == {"notFound", "alreadyReceived", "failed", "ok", "error"}

\* The requests for order o that have not been answered.
Receiving(o) == {r \in Receivers :
                   order[r] = o /\ pc[r] \in InTx \cup {"committed"}}
-----------------------------------------------------------------------------
Init ==
  /\ status = [o \in Orders |-> "none"]
  /\ stock = [o \in Orders |-> [i \in Items |-> 0]]
  /\ pc = [r \in Receivers |-> "idle"]
  /\ order = [r \in Receivers |-> NoOrder]
  /\ added = [r \in Receivers |-> {}]
  /\ lock = [o \in Orders |-> NoOne]
  /\ overlapped = {}

\* POST /purchase-orders: the order and its items appear in one transaction.
CreatePO(o) ==
  /\ status[o] = "none"
  /\ status' = [status EXCEPT ![o] = "pending"]
  /\ UNCHANGED <<stock, pc, order, added, lock, overlapped>>

\* Mutant: no test of the status.
FindPOUntested(r, o) ==
  /\ pc[r] = "idle"
  /\ overlapped' = IF Receiving(o) = {} THEN overlapped ELSE overlapped \cup {o}
  /\ order' = [order EXCEPT ![r] = o]
  /\ pc' = [pc EXCEPT ![r] = IF status[o] = "none" THEN "notFound" ELSE "begin"]
  /\ UNCHANGED <<status, stock, added, lock>>

\* FindByIDForOrg and the test of what it returned, outside any transaction.
FindPO(r, o) ==
  /\ pc[r] = "idle"
  /\ overlapped' = IF Receiving(o) = {} THEN overlapped ELSE overlapped \cup {o}
  /\ order' = [order EXCEPT ![r] = o]
  /\ pc' = [pc EXCEPT ![r] = CASE status[o] = "none" -> "notFound"
                               [] status[o] = "pending" -> "begin"
                               [] status[o] = "received" -> "alreadyReceived"]
  /\ UNCHANGED <<status, stock, added, lock>>

BeginTx(r) ==
  /\ pc[r] = "begin"
  /\ pc' = [pc EXCEPT ![r] = "add"]
  /\ UNCHANGED <<status, stock, order, added, lock, overlapped>>

\* The upsert of the next item, in the order of the items.
AddItem(r) ==
  /\ pc[r] = "add"
  /\ \E i \in Items \ added[r] :
        /\ \A j \in 1..i - 1 : j \in added[r]
        /\ added' = [added EXCEPT ![r] = @ \cup {i}]
  /\ UNCHANGED <<status, stock, pc, order, lock, overlapped>>

\* Mutant: the order is marked through the pool and not the transaction.
MarkOutside(r) ==
  /\ pc[r] = "add"
  /\ added[r] = Items
  /\ lock[order[r]] = NoOne
  /\ status' = [status EXCEPT ![order[r]] = "received"]
  /\ pc' = [pc EXCEPT ![r] = "marked"]
  /\ UNCHANGED <<stock, order, added, lock, overlapped>>

\* UPDATE purchase_orders SET status = 'received': waits for the order's row.
MarkReceived(r) ==
  /\ pc[r] = "add"
  /\ added[r] = Items
  /\ lock[order[r]] = NoOne
  /\ lock' = [lock EXCEPT ![order[r]] = r]
  /\ pc' = [pc EXCEPT ![r] = "marked"]
  /\ UNCHANGED <<status, stock, order, added, overlapped>>

\* The transactions of the requests in S end and their locks are released.
EndTx(S) ==
  /\ added' = [r \in Receivers |-> IF r \in S THEN {} ELSE added[r]]
  /\ lock' = [o \in Orders |-> IF lock[o] \in S THEN NoOne ELSE lock[o]]

\* Mutant: an error return that leaves the transaction open.
RollBackForgotten(r) ==
  /\ pc' = [pc EXCEPT ![r] = "failed"]
  /\ UNCHANGED <<status, stock, order, added, lock, overlapped>>

\* The deferred tx.Rollback() of a request that returns an error.
RollBack(r) ==
  /\ EndTx({r})
  /\ pc' = [pc EXCEPT ![r] = "failed"]
  /\ UNCHANGED <<status, stock, order, overlapped>>

Commit(r) ==
  /\ pc[r] = "marked"
  /\ stock' = [stock EXCEPT ![order[r]] =
                 [i \in Items |-> @[i] + IF i \in added[r] THEN 1 ELSE 0]]
  /\ status' = [status EXCEPT ![order[r]] = "received"]
  /\ EndTx({r})
  /\ pc' = [pc EXCEPT ![r] = "committed"]
  /\ UNCHANGED <<order, overlapped>>

\* The order is read back; if that fails the client gets an error for an order
\* that was received.
Reply(r) ==
  /\ pc[r] = "committed"
  /\ \E answer \in {"ok", "error"} : pc' = [pc EXCEPT ![r] = answer]
  /\ UNCHANGED <<status, stock, order, added, lock, overlapped>>

\* A statement fails.
Abort(r) ==
  /\ pc[r] \in InTx
  /\ RollBack(r)

\* The server process dies with its open transactions.
Crash ==
  /\ \E r \in Receivers : pc[r] \in InTx \cup {"committed"}
  /\ EndTx({r \in Receivers : pc[r] \in InTx})
  /\ pc' = [r \in Receivers |-> CASE pc[r] \in InTx -> "failed"
                                  [] pc[r] = "committed" -> "error"
                                  [] OTHER -> pc[r]]
  /\ UNCHANGED <<status, stock, order, overlapped>>

Finished ==
  /\ \A r \in Receivers : pc[r] \in Answered
  /\ UNCHANGED vars
-----------------------------------------------------------------------------
Statement(r) ==
  BeginTx(r) \/ AddItem(r) \/ MarkReceived(r) \/ Commit(r) \/ Reply(r)

Next ==
  \/ \E o \in Orders : CreatePO(o)
  \/ \E r \in Receivers :
        \/ \E o \in Orders : FindPO(r, o)
        \/ Statement(r)
        \/ Abort(r)
  \/ Crash
  \/ Finished

Spec == Init /\ [][Next]_vars

\* A goroutine runs on; nothing makes a client call or a statement fail.
FairSpec == Spec /\ \A r \in Receivers : WF_vars(Statement(r))
-----------------------------------------------------------------------------
(* Properties *)

\* The types of the state.
TypeOK ==
  /\ status \in [Orders -> {"none", "pending", "received"}]
  /\ stock \in [Orders -> [Items -> Nat]]
  /\ pc \in [Receivers -> {"idle", "committed"} \cup InTx \cup Answered]
  /\ order \in [Receivers -> Orders \cup {NoOrder}]
  /\ added \in [Receivers -> SUBSET Items]
  /\ lock \in [Orders -> Receivers \cup {NoOne}]
  /\ overlapped \subseteq Orders

\* The status becomes received and the branch stock increases, both or neither:
\* an order is received exactly when all its items are on the shelf, whatever
\* failed or crashed, and no item without the others.
StockedIffReceived ==
  \A o \in Orders : \A i \in Items :
     /\ status[o] = "received" <=> stock[o][i] > 0
     /\ \A j \in Items : stock[o][i] = stock[o][j]

\* An order that has been received is not received again ("purchase order
\* already received"): its items are put on the shelf once.
ReceivedOnce == \A o \in Orders : \A i \in Items : stock[o][i] <= 1

\* Whatever clients retry after errors and crashes, an order is received once if
\* no two requests for it were under way together.
OnceUnlessOverlapped ==
  \A o \in Orders \ overlapped : \A i \in Items : stock[o][i] <= 1

\* A request that waits for the row of an order is answered.
EveryReceiveAnswered ==
  \A r \in Receivers : pc[r] \in InTx ~> pc[r] \in Answered
=============================================================================

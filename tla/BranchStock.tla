---------------------------- MODULE BranchStock ----------------------------
(***************************************************************************)
(* The rows of product_stocks under the three requests that move stock:    *)
(* POST /checkout, POST /returns and PUT /purchase-orders/{id}/receive.    *)
(* Each request is a goroutine of the HTTP server that runs its statements *)
(* one by one inside one READ COMMITTED PostgreSQL transaction; an action  *)
(* below is one statement.  A statement that writes a row holds the row's  *)
(* lock until the transaction ends, so does SELECT ... FOR UPDATE, and a   *)
(* statement that meets a row locked by another transaction waits.         *)
(* Uncommitted changes are kept in delta, which COMMIT adds to stock.      *)
(*                                                                         *)
(* A customer return and a received purchase order reach product_stocks    *)
(* through the same upsert, one item at a time in the order of the items:  *)
(* both are the kind "restock" here.  What else they do is in the modules  *)
(* Sales and PurchaseOrder.                                                *)
(***************************************************************************)
EXTENDS Integers, Sequences

CONSTANTS
  Requests,      \* the requests, each served once
  Branches,
  Products,
  Carts,         \* the item lists a client may send
  MaxItems,      \* maxItemsPerCheckout
  MaxStock,      \* the largest value of an INTEGER column
  InitialRows,   \* the rows that exist at the start
  InitialStock,  \* their stock, 0 where there is no row
  NoOne,         \* the holder of a free row
  NoRow          \* a request's next row when it waits for none

Rows == Branches \X Products
Line == [product : Products, quantity : Int]
Kinds == {"checkout", "restock"}

ASSUME CartsAssumption == Carts \subseteq Seq(Line)
ASSUME BoundsAssumption == MaxItems \in Nat /\ MaxStock \in Nat
ASSUME StockAssumption ==
  /\ InitialRows \subseteq Rows
  /\ InitialStock \in [Rows -> 0..MaxStock]
ASSUME NothingAssumption == NoOne \notin Requests /\ NoRow \notin Rows

VARIABLES
  req,        \* what each request asks: its kind, the caller's branch, its items
  pc,         \* the statement each request runs next, or its answer
  idx,        \* the item that statement is for
  todo,       \* rows the FOR UPDATE scan of a checkout has still to lock
  want,       \* the row it locks next
  seen,       \* the stock the scan returned for a row, -1 if it returned none
  lock,       \* the request that holds each row's lock
  delta,      \* each request's uncommitted change of each row
  recorded,   \* the quantity its detail rows hold for each row
  stock,      \* product_stocks.stock, committed
  present,    \* the committed rows of product_stocks
  sold,       \* SUM(quantity) of the committed transaction_details
  restocked   \* SUM(quantity) of the committed return items and received items

vars == <<req, pc, idx, todo, want, seen, lock, delta, recorded,
          stock, present, sold, restocked>>
committed == <<stock, present, sold, restocked>>

InTx == {"begin", "lock", "deduct", "upsert", "write"}
Answered == {"refused", "failed", "ok", "error"}
-----------------------------------------------------------------------------
Lines(r) == req[r].lines
RowAt(r, k) == <<req[r].branch, Lines(r)[k].product>>
QuantityAt(r, k) == Lines(r)[k].quantity
CartRows(r) == {RowAt(r, k) : k \in DOMAIN Lines(r)}

\* What a statement of request r sees in a row: r's own changes included.
Current(r, w) == stock[w] + delta[r][w]

\* A row is available to r when its lock is free or r's own.
Available(r, w) == lock[w] \in {NoOne, r}

\* The row r's next statement needs.
Wanted(r) == CASE pc[r] = "lock" -> want[r]
               [] pc[r] \in {"deduct", "upsert"} -> RowAt(r, idx[r])
               [] OTHER -> NoRow

WaitsFor(r, s) == /\ r # s
                  /\ Wanted(r) \in Rows
                  /\ lock[Wanted(r)] = s

\* r is on a cycle of the waits-for graph (a request waits for one other).
Deadlocked(r) ==
  \E C \in SUBSET Requests :
     /\ r \in C
     /\ \A x \in C : /\ \E y \in C : WaitsFor(x, y)
                     /\ \E z \in C : WaitsFor(z, x)
-----------------------------------------------------------------------------
Init ==
  /\ req \in [Requests -> [kind : Kinds, branch : Branches, lines : Carts]]
  /\ pc = [r \in Requests |-> "idle"]
  /\ idx = [r \in Requests |-> 1]
  /\ todo = [r \in Requests |-> {}]
  /\ want = [r \in Requests |-> NoRow]
  /\ seen = [r \in Requests |-> [w \in Rows |-> -1]]
  /\ lock = [w \in Rows |-> NoOne]
  /\ delta = [r \in Requests |-> [w \in Rows |-> 0]]
  /\ recorded = [r \in Requests |-> [w \in Rows |-> 0]]
  /\ stock = InitialStock
  /\ present = InitialRows
  /\ sold = [w \in Rows |-> 0]
  /\ restocked = [w \in Rows |-> 0]

\* The checks both services make of the items before BEGIN.
WellFormed(r) ==
  /\ Lines(r) # <<>>
  /\ req[r].kind = "checkout" => Len(Lines(r)) <= MaxItems
  /\ \A k \in DOMAIN Lines(r) : QuantityAt(r, k) > 0

Admit(r) ==
  /\ pc[r] = "idle"
  /\ WellFormed(r)
  /\ pc' = [pc EXCEPT ![r] = IF req[r].kind = "checkout" THEN "begin" ELSE "upsert"]
  /\ UNCHANGED <<req, idx, todo, want, seen, lock, delta, recorded, committed>>

\* A malformed request, or one whose customer, sale or order is not found.
Refuse(r) ==
  /\ pc[r] = "idle"
  /\ pc' = [pc EXCEPT ![r] = "refused"]
  /\ UNCHANGED <<req, idx, todo, want, seen, lock, delta, recorded, committed>>

\* The transactions of the requests in S end: their locks are released and
\* what they had not committed is gone.
EndTx(S) ==
  /\ lock' = [w \in Rows |-> IF lock[w] \in S THEN NoOne ELSE lock[w]]
  /\ delta' = [r \in Requests |-> IF r \in S THEN [w \in Rows |-> 0] ELSE delta[r]]
  /\ recorded' = [r \in Requests |-> IF r \in S THEN [w \in Rows |-> 0] ELSE recorded[r]]
  /\ seen' = [r \in Requests |-> IF r \in S THEN [w \in Rows |-> -1] ELSE seen[r]]
  /\ todo' = [r \in Requests |-> IF r \in S THEN {} ELSE todo[r]]
  /\ want' = [r \in Requests |-> IF r \in S THEN NoRow ELSE want[r]]
  /\ idx' = [r \in Requests |-> IF r \in S THEN 1 ELSE idx[r]]

\* Mutant: an error return that leaves the transaction open.
RollBackForgotten(r) ==
  /\ pc' = [pc EXCEPT ![r] = "failed"]
  /\ UNCHANGED <<req, idx, todo, want, seen, lock, delta, recorded, committed>>

\* The deferred tx.Rollback() of a request that returns an error.
RollBack(r) ==
  /\ EndTx({r})
  /\ pc' = [pc EXCEPT ![r] = "failed"]
  /\ UNCHANGED <<req, committed>>

\* The next row of the scan, any one of those left: the query has no ORDER BY.
NextWanted(rows, w) == IF rows = {} THEN w = NoRow ELSE w \in rows

\* SELECT ... FOR UPDATE starts: its snapshot finds the committed rows only.
StartLock(r) ==
  /\ pc[r] = "begin"
  /\ pc' = [pc EXCEPT ![r] = "lock"]
  /\ todo' = [todo EXCEPT ![r] = CartRows(r) \cap present]
  /\ \E w \in Rows \cup {NoRow} :
        /\ NextWanted(CartRows(r) \cap present, w)
        /\ want' = [want EXCEPT ![r] = w]
  /\ UNCHANGED <<req, idx, seen, lock, delta, recorded, committed>>

\* Mutant: SELECT without FOR UPDATE.
LockRowUnlocked(r) ==
  /\ pc[r] = "lock"
  /\ want[r] \in todo[r]
  /\ seen' = [seen EXCEPT ![r][want[r]] = stock[want[r]]]
  /\ todo' = [todo EXCEPT ![r] = @ \ {want[r]}]
  /\ \E w \in Rows \cup {NoRow} :
        /\ NextWanted(todo[r] \ {want[r]}, w)
        /\ want' = [want EXCEPT ![r] = w]
  /\ UNCHANGED <<req, pc, idx, lock, delta, recorded, committed>>

\* It locks one more row and reads the row's latest committed stock.
LockRow(r) ==
  /\ pc[r] = "lock"
  /\ want[r] \in todo[r]
  /\ lock[want[r]] = NoOne
  /\ lock' = [lock EXCEPT ![want[r]] = r]
  /\ seen' = [seen EXCEPT ![r][want[r]] = stock[want[r]]]
  /\ todo' = [todo EXCEPT ![r] = @ \ {want[r]}]
  /\ \E w \in Rows \cup {NoRow} :
        /\ NextWanted(todo[r] \ {want[r]}, w)
        /\ want' = [want EXCEPT ![r] = w]
  /\ UNCHANGED <<req, pc, idx, delta, recorded, committed>>

\* Each line is compared on its own with what the scan returned for its row.
EnoughSeen(r) ==
  \A k \in DOMAIN Lines(r) : seen[r][RowAt(r, k)] >= QuantityAt(r, k)

CheckStock(r) ==
  /\ pc[r] = "lock"
  /\ todo[r] = {}
  /\ EnoughSeen(r)
  /\ pc' = [pc EXCEPT ![r] = "deduct"]
  /\ UNCHANGED <<req, idx, todo, want, seen, lock, delta, recorded, committed>>

OutOfStock(r) ==
  /\ pc[r] = "lock"
  /\ todo[r] = {}
  /\ ~EnoughSeen(r)
  /\ RollBack(r)

\* To the next item, or past the loop.
NextItem(r) ==
  IF idx[r] < Len(Lines(r))
  THEN idx' = [idx EXCEPT ![r] = @ + 1] /\ UNCHANGED pc
  ELSE pc' = [pc EXCEPT ![r] = "write"] /\ UNCHANGED idx

\* UPDATE ... SET stock = stock - q WHERE ... AND stock >= q.  When the row has
\* less it changes nothing and reports no error; the line is recorded anyway.
Deduct(r) ==
  LET w == RowAt(r, idx[r])
      q == QuantityAt(r, idx[r])
  IN /\ pc[r] = "deduct"
     /\ Available(r, w)
     /\ IF Current(r, w) >= q
        THEN /\ delta' = [delta EXCEPT ![r][w] = @ - q]
             /\ lock' = [lock EXCEPT ![w] = r]
        ELSE UNCHANGED <<delta, lock>>
     /\ recorded' = [recorded EXCEPT ![r][w] = @ + q]
     /\ NextItem(r)
     /\ UNCHANGED <<req, todo, want, seen, committed>>

\* Mutant: the sum is not tested against the range of the column.
UpsertUnbounded(r) ==
  LET w == RowAt(r, idx[r])
      q == QuantityAt(r, idx[r])
  IN /\ pc[r] = "upsert"
     /\ Available(r, w)
     /\ delta' = [delta EXCEPT ![r][w] = @ + q]
     /\ lock' = [lock EXCEPT ![w] = r]
     /\ recorded' = [recorded EXCEPT ![r][w] = @ + q]
     /\ NextItem(r)
     /\ UNCHANGED <<req, todo, want, seen, committed>>

\* INSERT ... ON CONFLICT DO UPDATE SET stock = stock + q.  An inserted row is
\* locked like an updated one: a second insert of its key waits for the first.
Upsert(r) ==
  LET w == RowAt(r, idx[r])
      q == QuantityAt(r, idx[r])
  IN /\ pc[r] = "upsert"
     /\ Available(r, w)
     /\ Current(r, w) + q <= MaxStock
     /\ delta' = [delta EXCEPT ![r][w] = @ + q]
     /\ lock' = [lock EXCEPT ![w] = r]
     /\ recorded' = [recorded EXCEPT ![r][w] = @ + q]
     /\ NextItem(r)
     /\ UNCHANGED <<req, todo, want, seen, committed>>

\* The sum does not fit an INTEGER: the statement fails, and so does the request.
UpsertOverflow(r) ==
  LET w == RowAt(r, idx[r])
  IN /\ pc[r] = "upsert"
     /\ Available(r, w)
     /\ Current(r, w) + QuantityAt(r, idx[r]) > MaxStock
     /\ RollBack(r)

\* The header, detail and receipt rows are written and the transaction commits.
Commit(r) ==
  /\ pc[r] = "write"
  /\ stock' = [w \in Rows |-> stock[w] + delta[r][w]]
  /\ present' = present \cup {w \in Rows : lock[w] = r}
  /\ IF req[r].kind = "checkout"
     THEN /\ sold' = [w \in Rows |-> sold[w] + recorded[r][w]]
          /\ UNCHANGED restocked
     ELSE /\ restocked' = [w \in Rows |-> restocked[w] + recorded[r][w]]
          /\ UNCHANGED sold
  /\ EndTx({r})
  /\ pc' = [pc EXCEPT ![r] = "committed"]
  /\ UNCHANGED req

\* Mutant: the request is served again when the row cannot be read back.
ReplyOrRetry(r) ==
  /\ pc[r] = "committed"
  /\ \E next \in {"ok", "idle"} : pc' = [pc EXCEPT ![r] = next]
  /\ UNCHANGED <<req, idx, todo, want, seen, lock, delta, recorded, committed>>

\* The row is read back after the commit; if that fails the client gets an
\* error for a request that took effect.
Reply(r) ==
  /\ pc[r] = "committed"
  /\ \E answer \in {"ok", "error"} : pc' = [pc EXCEPT ![r] = answer]
  /\ UNCHANGED <<req, idx, todo, want, seen, lock, delta, recorded, committed>>

\* Any statement may fail: a product that is not the organisation's, an amount
\* that overflows, payments that do not match, a taken receipt number, a lost
\* connection.
Abort(r) ==
  /\ pc[r] \in InTx
  /\ RollBack(r)

\* PostgreSQL finds a cycle of waiting transactions and fails one of them.
BreakDeadlock(r) ==
  /\ Deadlocked(r)
  /\ RollBack(r)

\* The server process dies: the database rolls back every open transaction.
Crash ==
  /\ \E r \in Requests : pc[r] \in InTx \cup {"committed"}
  /\ EndTx({r \in Requests : pc[r] \in InTx})
  /\ pc' = [r \in Requests |-> CASE pc[r] \in InTx -> "failed"
                                 [] pc[r] = "committed" -> "error"
                                 [] OTHER -> pc[r]]
  /\ UNCHANGED <<req, committed>>

\* Every request has its answer.
Finished ==
  /\ \A r \in Requests : pc[r] \in Answered
  /\ UNCHANGED vars
-----------------------------------------------------------------------------
Statement(r) ==
  \/ StartLock(r) \/ LockRow(r) \/ CheckStock(r) \/ OutOfStock(r)
  \/ Deduct(r) \/ Upsert(r) \/ UpsertOverflow(r) \/ Commit(r) \/ Reply(r)

Next ==
  \/ \E r \in Requests :
        Admit(r) \/ Refuse(r) \/ Statement(r) \/ Abort(r) \/ BreakDeadlock(r)
  \/ Crash
  \/ Finished

Spec == Init /\ [][Next]_vars

\* A goroutine runs on, a free row is granted, a deadlock is broken; nothing
\* makes a client call, a statement fail or the server crash.
Fairness ==
  \A r \in Requests : WF_vars(Statement(r)) /\ WF_vars(BreakDeadlock(r))

FairSpec == Spec /\ Fairness
-----------------------------------------------------------------------------
(* Properties *)

\* The types of the state, and the range of the stock column: CHECK (stock >= 0)
\* and INTEGER.
TypeOK ==
  /\ req \in [Requests -> [kind : Kinds, branch : Branches, lines : Carts]]
  /\ pc \in [Requests -> {"idle", "committed"} \cup InTx \cup Answered]
  /\ idx \in [Requests -> Nat \ {0}]
  /\ todo \in [Requests -> SUBSET Rows]
  /\ want \in [Requests -> Rows \cup {NoRow}]
  /\ seen \in [Requests -> [Rows -> Int]]
  /\ lock \in [Rows -> Requests \cup {NoOne}]
  /\ delta \in [Requests -> [Rows -> Int]]
  /\ recorded \in [Requests -> [Rows -> Nat]]
  /\ stock \in [Rows -> 0..MaxStock]
  /\ present \in SUBSET Rows
  /\ sold \in [Rows -> Nat]
  /\ restocked \in [Rows -> Nat]

\* The books balance: what the shelf holds is what it held, plus every unit
\* returned or received, minus every unit sold.  (Auto-deduct stock.)
StockBalanced ==
  \A w \in Rows : stock[w] + sold[w] = InitialStock[w] + restocked[w]

\* The stock a checkout compared its lines with is still there when each line is
\* deducted, although other requests may have waited for, or committed, the same
\* rows between its check and its update.
CheckedStockStays ==
  \A r \in Requests : pc[r] = "deduct" =>
     \A k \in idx[r]..Len(Lines(r)) : Current(r, RowAt(r, k)) >= QuantityAt(r, k)

\* A row stays locked only by a request whose transaction is open: whatever way a
\* handler returns, it leaves no row that later checkouts would wait for.
NoLeakedLock ==
  \A w \in Rows : lock[w] # NoOne => pc[lock[w]] \in InTx

\* A request that began its transaction is answered: no lock cycle and no failed
\* or crashed transaction makes it wait for ever.
EveryRequestAnswered ==
  \A r \in Requests : pc[r] \in InTx ~> pc[r] \in Answered

\* What the ledger knows of a request.
Outcome(r) ==
  CASE pc[r] = "committed" -> "entered"
    [] pc[r] \in {"ok", "error"} -> pc[r]
    [] pc[r] \in {"refused", "failed"} -> "failed"
    [] OTHER -> "open"

\* The statements implement the ledger: each request is at most one sale or one
\* restock of exactly what it recorded, and one that is refused or failed is none,
\* whereas the error of reading back what was committed comes with its effect.
Ledger == INSTANCE StockLedger WITH
  Requests <- Requests, Rows <- Rows, InitialStock <- InitialStock,
  stock <- stock, sold <- sold, restocked <- restocked,
  outcome <- [r \in Requests |-> Outcome(r)]
LedgerSpec == Ledger!Spec
=============================================================================

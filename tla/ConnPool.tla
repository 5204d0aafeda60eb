------------------------------ MODULE ConnPool ------------------------------
(***************************************************************************)
(* The connections of database/sql under the requests that use them.       *)
(* InitDB caps the pool at MaxOpen; a query through the pool holds a       *)
(* connection until its rows are closed, a transaction until it ends.  A   *)
(* request that finds every connection in use waits without a limit: no    *)
(* call passes a context.  Checkout looks up the type of each payment      *)
(* through the pool, twice, while its transaction holds a connection and   *)
(* the locks of its rows, so that connections and row locks may be waited  *)
(* for in a circle that PostgreSQL cannot see.                             *)
(*                                                                         *)
(* A transaction without payments stands for a return, a received purchase *)
(* order and a checkout that names none.  Each transaction locks one row   *)
(* here; BranchStock has the locks of several rows.                        *)
(***************************************************************************)
EXTENDS Integers, FiniteSets

CONSTANTS
  Requests,      \* the requests, each served once
  Rows,          \* the rows they lock
  Tenders,       \* how many payments a checkout may name
  MaxOpen,       \* SetMaxOpenConns
  NoOne          \* the holder of a free row

ASSUME RequestsAssumption == IsFiniteSet(Requests) /\ NoOne \notin Requests
ASSUME PoolAssumption == MaxOpen \in Nat \ {0} /\ Tenders \subseteq Nat

VARIABLES
  pc,            \* where each request is
  row,           \* the row its transaction locks
  lookups,       \* the lookups of payment types it has still to make
  conns,         \* the connections in use, each by a query or a transaction
  lock           \* the request whose transaction holds each row

vars == <<pc, row, lookups, conns, lock>>

Querying == {"finding", "typing", "reading"}
Holding == {"lookup", "typing", "write"}
InTx == {"lock"} \cup Holding
Answered == {"failed", "ok"}

\* Mutant: InitDB sets no limit.
HasFreeAlways == TRUE

HasFree == Cardinality(conns) < MaxOpen
-----------------------------------------------------------------------------
Init ==
  /\ pc = [r \in Requests |-> "idle"]
  /\ row \in [Requests -> Rows]
  /\ \E tenders \in [Requests -> Tenders] : lookups = [r \in Requests |-> 2 * tenders[r]]
  /\ conns = {}
  /\ lock = [w \in Rows |-> NoOne]

\* A transaction may be preceded by a query (the customer, the sale, the order);
\* a request that only reads is one query.
Arrive(r) ==
  /\ pc[r] = "idle"
  /\ \E next \in {"find", "begin", "read"} : pc' = [pc EXCEPT ![r] = next]
  /\ UNCHANGED <<row, lookups, conns, lock>>

\* db.Query and db.QueryRow.
Query(r) ==
  /\ pc[r] \in {"find", "lookup", "read"}
  /\ HasFree
  /\ conns' = conns \cup {<<r, "query">>}
  /\ pc' = [pc EXCEPT ![r] = CASE pc[r] = "find" -> "finding"
                               [] pc[r] = "lookup" -> "typing"
                               [] pc[r] = "read" -> "reading"]
  /\ UNCHANGED <<row, lookups, lock>>

\* Where a request goes on when the rows of its query are closed.
AfterRows(r) ==
  CASE pc[r] = "finding" -> "begin"
    [] pc[r] = "typing" -> IF lookups[r] = 1 THEN "write" ELSE "lookup"
    [] pc[r] = "reading" -> "ok"

\* Mutant: FindAllPaymentTypes does not close its rows.
CloseRowsOpen(r) ==
  /\ pc[r] \in Querying
  /\ pc' = [pc EXCEPT ![r] = AfterRows(r)]
  /\ conns' = IF pc[r] = "typing" THEN conns ELSE conns \ {<<r, "query">>}
  /\ lookups' = [lookups EXCEPT ![r] = IF pc[r] = "typing" THEN @ - 1 ELSE @]
  /\ UNCHANGED <<row, lock>>

\* The deferred rows.Close(), or Scan for a single row.
CloseRows(r) ==
  /\ pc[r] \in Querying
  /\ pc' = [pc EXCEPT ![r] = AfterRows(r)]
  /\ conns' = conns \ {<<r, "query">>}
  /\ lookups' = [lookups EXCEPT ![r] = IF pc[r] = "typing" THEN @ - 1 ELSE @]
  /\ UNCHANGED <<row, lock>>

\* db.Begin takes the connection of the transaction.
BeginTx(r) ==
  /\ pc[r] = "begin"
  /\ HasFree
  /\ conns' = conns \cup {<<r, "tx">>}
  /\ pc' = [pc EXCEPT ![r] = "lock"]
  /\ UNCHANGED <<row, lookups, lock>>

\* The statement that locks the row, and all up to the next use of the pool.
LockRow(r) ==
  /\ pc[r] = "lock"
  /\ lock[row[r]] = NoOne
  /\ lock' = [lock EXCEPT ![row[r]] = r]
  /\ pc' = [pc EXCEPT ![r] = IF lookups[r] > 0 THEN "lookup" ELSE "write"]
  /\ UNCHANGED <<row, lookups, conns>>

\* The transaction of r ends, if it has one: its connection is free, and its row.
EndTx(r) ==
  lock' = [w \in Rows |-> IF lock[w] = r THEN NoOne ELSE lock[w]]

Commit(r) ==
  /\ pc[r] = "write"
  /\ EndTx(r)
  /\ conns' = conns \ {<<r, "tx">>}
  /\ pc' = [pc EXCEPT ![r] = "read"]
  /\ UNCHANGED <<row, lookups>>

\* Mutant: no deferred tx.Rollback().
FailOpen(r) ==
  /\ pc[r] \in Querying \cup {"lock", "write"}
  /\ conns' = conns \ {<<r, "query">>}
  /\ pc' = [pc EXCEPT ![r] = "failed"]
  /\ UNCHANGED <<row, lookups, lock>>

\* A statement that has its connection fails, or what it returned is refused.
Fail(r) ==
  /\ pc[r] \in Querying \cup {"lock", "write"}
  /\ EndTx(r)
  /\ conns' = conns \ {<<r, "query">>, <<r, "tx">>}
  /\ pc' = [pc EXCEPT ![r] = "failed"]
  /\ UNCHANGED <<row, lookups>>

Finished ==
  /\ \A r \in Requests : pc[r] \in Answered
  /\ UNCHANGED vars
-----------------------------------------------------------------------------
Statement(r) ==
  Query(r) \/ CloseRows(r) \/ BeginTx(r) \/ LockRow(r) \/ Commit(r)

Next ==
  \/ \E r \in Requests : Arrive(r) \/ Statement(r) \/ Fail(r)
  \/ Finished

Spec == Init /\ [][Next]_vars

\* A goroutine runs on, a free connection goes to a request that waits for one,
\* a free row likewise; nothing makes a client call or a statement fail.
FairSpec == Spec /\ \A r \in Requests : WF_vars(Statement(r))
-----------------------------------------------------------------------------
(* Properties *)

\* The types of the state, and the limit of the pool.
TypeOK ==
  /\ pc \in [Requests -> {"idle", "find", "begin", "read"}
                          \cup Querying \cup InTx \cup Answered]
  /\ row \in [Requests -> Rows]
  /\ lookups \in [Requests -> Nat]
  /\ conns \subseteq Requests \X {"query", "tx"}
  /\ Cardinality(conns) <= MaxOpen
  /\ lock \in [Rows -> Requests \cup {NoOne}]

\* A connection is in use only by a query whose rows are open or a transaction
\* that is, and a row is locked only by such a transaction: whatever way a
\* request ends, it gives back what it took.
NothingLeaked ==
  /\ \A r \in Requests : /\ <<r, "query">> \in conns => pc[r] \in Querying
                         /\ <<r, "tx">> \in conns => pc[r] \in InTx
  /\ \A w \in Rows : lock[w] # NoOne => pc[lock[w]] \in Holding

\* r waits for a connection, or for the row of another transaction.
Waits(r) ==
  \/ pc[r] \in {"find", "begin", "lookup", "read"} /\ ~HasFree
  \/ pc[r] = "lock" /\ lock[row[r]] # NoOne

\* The requests under way never all wait for each other: as long as one waits,
\* another can take a step.
NeverJammed ==
  LET active == {r \in Requests : pc[r] \notin {"idle"} \cup Answered}
  IN active # {} => \E r \in active : ~Waits(r)

\* A request is answered, however many want the same connections and rows.
EveryRequestServed ==
  \A r \in Requests : pc[r] # "idle" ~> pc[r] \in Answered
=============================================================================

---------------------------- MODULE StockLedger ----------------------------
(***************************************************************************)
(* What the stock of the shop promises, with no lock or statement in       *)
(* sight: a ledger in which a sale takes from the shelf exactly what it    *)
(* records, never more than the shelf holds, and a restock (a customer     *)
(* return or a received purchase order) puts back exactly what it records. *)
(* A request is entered at most once, its client hears of a failure only   *)
(* if it was not entered, and an error says nothing more than success:     *)
(* the request has taken effect.  BranchStock implements it.               *)
(***************************************************************************)
EXTENDS Integers

CONSTANTS
  Requests,
  Rows,          \* the rows of product_stocks: a product in a branch
  InitialStock   \* what each row holds when the ledger is opened

VARIABLES
  stock,         \* units on the shelf, by row
  sold,          \* units in the sales recorded so far, by row
  restocked,     \* units in the returns and receipts recorded so far, by row
  outcome        \* what has become of each request

ledger == <<stock, sold, restocked, outcome>>

\* "open" until it is entered or fails; "entered" until its client is answered.
Outcomes == {"open", "entered", "failed", "ok", "error"}

Init ==
  /\ stock = InitialStock
  /\ sold = [w \in Rows |-> 0]
  /\ restocked = [w \in Rows |-> 0]
  /\ outcome = [r \in Requests |-> "open"]

Enter(r) ==
  /\ outcome[r] = "open"
  /\ outcome' = [outcome EXCEPT ![r] = "entered"]

\* A sale moves each row's units from the shelf to the sales.
Sell(r) ==
  /\ Enter(r)
  /\ stock' \in [Rows -> Nat]
  /\ sold' \in [Rows -> Nat]
  /\ \A w \in Rows : /\ sold[w] <= sold'[w]
                     /\ stock[w] - stock'[w] = sold'[w] - sold[w]
  /\ UNCHANGED restocked

\* A restock records units and puts them on the shelf.
Restock(r) ==
  /\ Enter(r)
  /\ stock' \in [Rows -> Nat]
  /\ restocked' \in [Rows -> Nat]
  /\ \A w \in Rows : /\ restocked[w] <= restocked'[w]
                     /\ stock'[w] - stock[w] = restocked'[w] - restocked[w]
  /\ UNCHANGED sold

\* Requests fail without effect and clients are answered, several of them at
\* once in a crash.
Settle ==
  /\ outcome' \in [Requests -> Outcomes]
  /\ \A r \in Requests :
        \/ outcome'[r] = outcome[r]
        \/ outcome[r] = "open" /\ outcome'[r] = "failed"
        \/ outcome[r] = "entered" /\ outcome'[r] \in {"ok", "error"}
  /\ UNCHANGED <<stock, sold, restocked>>

Next == Settle \/ \E r \in Requests : Sell(r) \/ Restock(r)

Spec == Init /\ [][Next]_ledger
=============================================================================

----------------------------- MODULE Catalogue -----------------------------
(***************************************************************************)
(* The master rows (products, categories, customers, suppliers), the       *)
(* requests that create, change and delete them, and the documents (sales, *)
(* purchase orders, stock thresholds) that refer to them.  A handler looks *)
(* up the rows it refers to and writes in a later statement, when they may *)
(* be gone: what then happens is decided by the foreign keys.  Inserting a *)
(* reference takes a share of the row it names until the transaction ends; *)
(* DELETE takes the row for itself, waits for the sharers, and then fails  *)
(* when a committed row refers to it, except that the products of a        *)
(* deleted category lose it (ON DELETE SET NULL).                          *)
(*                                                                         *)
(* Stock rows are never deleted, and a checkout locks them FOR UPDATE,     *)
(* which the check of a product's deletion waits for.  A document names    *)
(* one product, and the customer of a sale or the supplier of an order.    *)
(* Returns and received orders refer to products that a document already   *)
(* names.  Names, prices and the other columns are left out.               *)
(***************************************************************************)
EXTENDS FiniteSets

CONSTANTS
  Requests,      \* the requests, each served once
  Products,
  Categories,
  Customers,
  Suppliers,
  Stocked,       \* the products that have a stock row in the branch
  InitialRows,      \* the master rows at the start
  InitialCategory,  \* the category of each product then
  Asks,          \* what the requests may ask, each way as a function of the request
  NoOne,         \* the holder of a free row
  Nil            \* no partner, no category

Partners == Customers \cup Suppliers
Rows == Products \cup Categories \cup Partners
Documents == [by : Requests, product : Products, partner : Partners \cup {Nil}]
Ask ==
  [kind : {"sale"}, row : Products, partner : Customers \cup {Nil}, category : {Nil}]
  \cup [kind : {"order"}, row : Products, partner : Suppliers, category : {Nil}]
  \cup [kind : {"threshold"}, row : Products, partner : {Nil}, category : {Nil}]
  \cup [kind : {"create", "update", "delete"}, row : Products,
         partner : {Nil}, category : Categories \cup {Nil}]
  \cup [kind : {"create", "update", "delete"}, row : Categories \cup Partners,
         partner : {Nil}, category : {Nil}]

ASSUME AsksAssumption == Asks \subseteq [Requests -> Ask]
ASSUME RowsAssumption == Stocked \subseteq InitialRows \cap Products /\ InitialRows \subseteq Rows
ASSUME CategoryAssumption == InitialCategory \in [Products -> (Categories \cap InitialRows) \cup {Nil}]
ASSUME NothingAssumption ==
  /\ NoOne \notin Requests
  /\ Nil \notin Rows
  /\ Products \cap Categories = {}
  /\ Partners \cap (Products \cup Categories) = {}

VARIABLES
  ask,           \* what each request asks
  pc,            \* the statement each request runs next, or its answer
  exists,        \* the committed master rows
  category,      \* products.category_id, committed
  documents,     \* the committed documents
  share,         \* the requests that hold a share of each row
  own,           \* the request that deletes or updates each row
  locked         \* the checkout that holds the stock row of each product

vars == <<ask, pc, exists, category, documents, share, own, locked>>
locks == <<share, own, locked>>

InTx == {"read", "stock", "header", "items", "commit",
         "insert", "update", "relink", "delete", "check"}
Answered == {"notFound", "failed", "ok", "error"}
-----------------------------------------------------------------------------
Refers(d, m) == m \in {d.product, d.partner}

\* The row of inventory_alerts of a product; product_id is unique there.
Thresholds(p) == {d \in documents : d.product = p /\ ask[d.by].kind = "threshold"}
Inserting(p) == {r \in Requests : ask[r].kind = "threshold" /\ ask[r].row = p /\ pc[r] = "commit"}

\* The request that is deleting row m, if there is one.
Deleter(m) == {r \in Requests : own[m] = r /\ ask[r].kind = "delete" /\ ask[r].row = m}

\* The products from which the deletion of a category has still to take it.
Left(r) == {p \in Products \cap exists : category[p] = ask[r].row /\ own[p] # r}
NextProduct(r) == CHOOSE p \in Left(r) : TRUE

\* Who holds what the next statement of r needs.
Blockers(r) ==
  LET m == ask[r].row
  IN CASE pc[r] = "stock" -> {locked[m]} \ {NoOne}
       [] pc[r] = "header" /\ ask[r].partner # Nil -> Deleter(ask[r].partner)
       [] pc[r] = "items" ->
            Deleter(m) \cup (IF ask[r].kind = "threshold" THEN Inserting(m) ELSE {})
       [] pc[r] \in {"insert", "relink"} /\ ask[r].category # Nil -> Deleter(ask[r].category)
       [] pc[r] = "update" -> {own[m]} \ {NoOne}
       [] pc[r] = "delete" -> ({own[m]} \ {NoOne}) \cup share[m]
       [] pc[r] = "check" /\ m \in Stocked /\ ~\E d \in documents : Refers(d, m) ->
            {locked[m]} \ {NoOne}
       [] pc[r] = "check" /\ m \in Categories /\ Left(r) # {} ->
            {own[NextProduct(r)]} \ {NoOne}
       [] OTHER -> {}

\* Every request of a set that holds r waits, directly or not, for every other.
Deadlocked(r) ==
  \E C \in SUBSET Requests :
     /\ r \in C
     /\ C # {r}
     /\ \A D \in SUBSET C :
           D \notin {{}, C} => \E x \in D, y \in C \ D : y \in Blockers(x)
-----------------------------------------------------------------------------
\* The id of a row is new: it is created by one request and never again.
Init ==
  /\ ask \in Asks
  /\ \A r, s \in Requests :
        ask[r].kind = "create" =>
           /\ ask[r].row \notin InitialRows
           /\ r # s /\ ask[s].kind = "create" => ask[r].row # ask[s].row
  /\ pc = [r \in Requests |-> "idle"]
  /\ exists = InitialRows
  /\ category = InitialCategory
  /\ documents = {}
  /\ share = [m \in Rows |-> {}]
  /\ own = [m \in Rows |-> NoOne]
  /\ locked = [p \in Products |-> NoOne]

Goto(r, where) == pc' = [pc EXCEPT ![r] = where]

\* The transaction of r ends: it holds nothing any more.
EndTx(r) ==
  /\ share' = [m \in Rows |-> share[m] \ {r}]
  /\ own' = [m \in Rows |-> IF own[m] = r THEN NoOne ELSE own[m]]
  /\ locked' = [p \in Products |-> IF locked[p] = r THEN NoOne ELSE locked[p]]

\* Mutant: an error return that leaves the transaction open.
RollBackForgotten(r) ==
  /\ Goto(r, "failed")
  /\ UNCHANGED <<ask, exists, category, documents, locks>>

RollBack(r) ==
  /\ EndTx(r)
  /\ Goto(r, "failed")
  /\ UNCHANGED <<ask, exists, category, documents>>
-----------------------------------------------------------------------------
(* The handlers, up to their first statement or to what they look up.      *)

Enter(r, kinds, rows) == pc[r] = "idle" /\ ask[r].kind \in kinds /\ ask[r].row \in rows

\* FindByIDForOrg of row m, then the statement next.
Find(r, m, next) ==
  /\ Goto(r, IF m \in exists THEN next ELSE "notFound")
  /\ UNCHANGED <<ask, exists, category, documents, locks>>

\* A body that does not decode, a name that is empty, a price below zero.
Refuse(r) ==
  /\ pc[r] = "idle"
  /\ Goto(r, "failed")
  /\ UNCHANGED <<ask, exists, category, documents, locks>>

\* A sale may name a customer, an order always names its supplier.
HandleCheckout(r) ==
  /\ Enter(r, {"sale"}, Products)
  /\ IF ask[r].partner = Nil
     THEN Goto(r, "read") /\ UNCHANGED <<ask, exists, category, documents, locks>>
     ELSE Find(r, ask[r].partner, "read")

HandlePOs(r) == Enter(r, {"order"}, Products) /\ Find(r, ask[r].partner, "read")

\* UpsertThresholdForOrg: INSERT ... SELECT, no row when there is no product.
HandleSetThreshold(r) == Enter(r, {"threshold"}, Products) /\ Find(r, ask[r].row, "items")

CreateRow(r, rows) ==
  /\ Enter(r, {"create"}, rows)
  /\ Goto(r, IF ask[r].category = Nil THEN "insert" ELSE "category")
  /\ UNCHANGED <<ask, exists, category, documents, locks>>

UpdateRow(r, rows) ==
  /\ Enter(r, {"update"}, rows)
  /\ Find(r, ask[r].row, IF ask[r].category = Nil THEN "update" ELSE "category")

DeleteForOrg(r, rows) == Enter(r, {"delete"}, rows) /\ Find(r, ask[r].row, "delete")

HandleProducts(r) == CreateRow(r, Products)
HandleProductByID(r) == UpdateRow(r, Products) \/ DeleteForOrg(r, Products)
HandleCategories(r) == CreateRow(r, Categories)
HandleCategoryByID(r) == UpdateRow(r, Categories) \/ DeleteForOrg(r, Categories)
HandleCustomers(r) == CreateRow(r, Customers)
HandleCustomerByID(r) == UpdateRow(r, Customers) \/ DeleteForOrg(r, Customers)
HandleSuppliers(r) == CreateRow(r, Suppliers)
HandleSupplierByID(r) == UpdateRow(r, Suppliers) \/ DeleteForOrg(r, Suppliers)

-----------------------------------------------------------------------------
\* ExistsForOrg, when a product names a category.
FindCategory(r) ==
  /\ pc[r] = "category"
  /\ Goto(r, CASE ask[r].category \notin exists -> "notFound"
               [] ask[r].kind = "create" -> "insert"
               [] OTHER -> "update")
  /\ UNCHANGED <<ask, exists, category, documents, locks>>

\* LockProductsForOrg, which locks nothing.
ReadProduct(r) ==
  /\ pc[r] = "read"
  /\ Goto(r, CASE ask[r].row \notin exists -> "notFound"
               [] ask[r].kind = "sale" -> "stock"
               [] OTHER -> "header")
  /\ UNCHANGED <<ask, exists, category, documents, locks>>
-----------------------------------------------------------------------------
(* A document: its stock row if it is a sale, its header, its items. *)

LockStock(r) ==
  /\ pc[r] = "stock"
  /\ Blockers(r) = {}
  /\ IF ask[r].row \in Stocked
     THEN locked' = [locked EXCEPT ![ask[r].row] = r] /\ Goto(r, "header")
     ELSE UNCHANGED locked /\ Goto(r, "notFound")
  /\ UNCHANGED <<ask, exists, category, documents, share, own>>

\* An INSERT that refers to row m: it shares m, or fails when m is gone.
Refer(r, m, next) ==
  IF m \in exists
  THEN /\ share' = [share EXCEPT ![m] = @ \cup {r}]
       /\ Goto(r, next)
       /\ UNCHANGED <<ask, exists, category, documents, own, locked>>
  ELSE RollBack(r)

InsertHeader(r) ==
  /\ pc[r] = "header"
  /\ Blockers(r) = {}
  /\ IF ask[r].partner = Nil
     THEN Goto(r, "items") /\ UNCHANGED <<ask, exists, category, documents, locks>>
     ELSE Refer(r, ask[r].partner, "items")

\* Mutant: product_id is not declared to reference products.
InsertItemsUnchecked(r) ==
  /\ pc[r] = "items"
  /\ Goto(r, "commit")
  /\ UNCHANGED <<ask, exists, category, documents, locks>>

\* ON CONFLICT: a second threshold changes the columns of the first.
InsertItems(r) ==
  /\ pc[r] = "items"
  /\ Blockers(r) = {}
  /\ IF ask[r].kind = "threshold" /\ Thresholds(ask[r].row) # {}
     THEN Goto(r, "ok") /\ UNCHANGED <<ask, exists, category, documents, locks>>
     ELSE Refer(r, ask[r].row, "commit")

\* Mutant: a sale without a customer names the customer 0.
CommitCustomerZero(r) ==
  /\ pc[r] = "commit"
  /\ documents' = documents \cup
        {[by |-> r, product |-> ask[r].row,
          partner |-> IF ask[r].partner = Nil THEN NoOne ELSE ask[r].partner]}
  /\ EndTx(r)
  /\ Goto(r, "ok")
  /\ UNCHANGED <<ask, exists, category>>

\* The answer is read back after the commit, which may fail.
Commit(r) ==
  /\ pc[r] = "commit"
  /\ documents' = documents \cup
        {[by |-> r, product |-> ask[r].row, partner |-> ask[r].partner]}
  /\ EndTx(r)
  /\ \E answer \in {"ok", "error"} : Goto(r, answer)
  /\ UNCHANGED <<ask, exists, category>>
-----------------------------------------------------------------------------
(* Creating, changing and deleting a master row: one statement each. *)

\* INSERT; the category of a product must still be there.
Insert(r) ==
  /\ pc[r] = "insert"
  /\ Blockers(r) = {}
  /\ IF ask[r].category \in exists \cup {Nil}
     THEN /\ exists' = exists \cup {ask[r].row}
          /\ category' = [p \in Products |->
                            IF p = ask[r].row THEN ask[r].category ELSE category[p]]
          /\ Goto(r, "ok")
          /\ UNCHANGED <<ask, documents, locks>>
     ELSE RollBack(r)

\* UPDATE, of every column.  A row that is gone is not an error.  A new category
\* of a product is referred to once the row is locked.
Update(r) ==
  LET m == ask[r].row
      c == ask[r].category
  IN /\ pc[r] = "update"
     /\ Blockers(r) = {}
     /\ IF m \in Products \cap exists /\ c \notin {Nil, category[m]}
        THEN /\ own' = [own EXCEPT ![m] = r]
             /\ Goto(r, "relink")
             /\ UNCHANGED category
        ELSE /\ category' = [p \in Products |->
                               IF p = m /\ m \in exists THEN c ELSE category[p]]
             /\ Goto(r, "ok")
             /\ UNCHANGED own
     /\ UNCHANGED <<ask, exists, documents, share, locked>>

Relink(r) ==
  /\ pc[r] = "relink"
  /\ Blockers(r) = {}
  /\ IF ask[r].category \in exists
     THEN /\ category' = [category EXCEPT ![ask[r].row] = ask[r].category]
          /\ EndTx(r)
          /\ Goto(r, "ok")
          /\ UNCHANGED <<ask, exists, documents>>
     ELSE RollBack(r)

\* DELETE takes the row, unless it is gone, which is not an error.
DeleteRow(r) ==
  /\ pc[r] = "delete"
  /\ Blockers(r) = {}
  /\ IF ask[r].row \in exists
     THEN own' = [own EXCEPT ![ask[r].row] = r] /\ Goto(r, "check")
     ELSE UNCHANGED own /\ Goto(r, "ok")
  /\ UNCHANGED <<ask, exists, category, documents, share, locked>>

Remove(r) ==
  /\ exists' = exists \ {ask[r].row}
  /\ EndTx(r)
  /\ Goto(r, "ok")
  /\ UNCHANGED ask

\* Mutant: the references to a deleted row are declared ON DELETE CASCADE.
CheckReferencesCascade(r) ==
  /\ pc[r] = "check"
  /\ ask[r].row \notin Categories
  /\ Remove(r)
  /\ documents' = {d \in documents : ~Refers(d, ask[r].row)}
  /\ UNCHANGED category

\* Mutant: the error of the DELETE is not returned.
CheckReferencesSilently(r) ==
  /\ pc[r] = "check"
  /\ ask[r].row \notin Categories
  /\ Blockers(r) = {}
  /\ IF ask[r].row \in Stocked \/ \E d \in documents : Refers(d, ask[r].row)
     THEN EndTx(r) /\ Goto(r, "ok") /\ UNCHANGED <<ask, exists>>
     ELSE Remove(r)
  /\ UNCHANGED <<category, documents>>

\* A row that a document or a stock row refers to is not deleted.
CheckReferences(r) ==
  /\ pc[r] = "check"
  /\ ask[r].row \notin Categories
  /\ Blockers(r) = {}
  /\ IF ask[r].row \in Stocked \/ \E d \in documents : Refers(d, ask[r].row)
     THEN RollBack(r)
     ELSE Remove(r) /\ UNCHANGED <<category, documents>>

\* ON DELETE SET NULL locks the products of the category one by one.
SetNull(r) ==
  /\ pc[r] = "check"
  /\ ask[r].row \in Categories
  /\ Left(r) # {}
  /\ Blockers(r) = {}
  /\ own' = [own EXCEPT ![NextProduct(r)] = r]
  /\ UNCHANGED <<ask, pc, exists, category, documents, share, locked>>

RemoveCategory(r) ==
  /\ pc[r] = "check"
  /\ ask[r].row \in Categories
  /\ Left(r) = {}
  /\ category' = [p \in Products |->
                    IF category[p] = ask[r].row THEN Nil ELSE category[p]]
  /\ Remove(r)
  /\ UNCHANGED documents
-----------------------------------------------------------------------------
\* A statement fails, or the server dies and the database ends its transactions.
Abort(r) ==
  /\ pc[r] \in InTx
  /\ RollBack(r)

\* PostgreSQL fails one of the requests that wait for each other.
BreakDeadlock(r) ==
  /\ Deadlocked(r)
  /\ RollBack(r)

Finished ==
  /\ \A r \in Requests : pc[r] \in Answered
  /\ UNCHANGED vars

Handle(r) ==
  \/ Refuse(r) \/ HandleCheckout(r) \/ HandlePOs(r) \/ HandleSetThreshold(r)
  \/ HandleProducts(r) \/ HandleProductByID(r)
  \/ HandleCategories(r) \/ HandleCategoryByID(r)
  \/ HandleCustomers(r) \/ HandleCustomerByID(r)
  \/ HandleSuppliers(r) \/ HandleSupplierByID(r)

Statement(r) ==
  \/ FindCategory(r) \/ ReadProduct(r)
  \/ LockStock(r) \/ InsertHeader(r) \/ InsertItems(r) \/ Commit(r)
  \/ Insert(r) \/ Update(r) \/ Relink(r)
  \/ DeleteRow(r) \/ CheckReferences(r) \/ SetNull(r) \/ RemoveCategory(r)

Next ==
  \/ \E r \in Requests : Handle(r) \/ Statement(r) \/ Abort(r) \/ BreakDeadlock(r)
  \/ Finished

Spec == Init /\ [][Next]_vars

\* A goroutine runs on, a free row is granted, a deadlock is broken; nothing
\* makes a client call or a statement fail.
Fairness ==
  \A r \in Requests : WF_vars(Statement(r)) /\ WF_vars(BreakDeadlock(r))

FairSpec == Spec /\ Fairness
-----------------------------------------------------------------------------
(* Properties *)

\* The types of the state.
TypeOK ==
  /\ ask \in [Requests -> Ask]
  /\ pc \in [Requests -> {"idle", "category"} \cup InTx \cup Answered]
  /\ exists \subseteq Rows
  /\ category \in [Products -> Categories \cup {Nil}]
  /\ documents \subseteq Documents
  /\ share \in [Rows -> SUBSET Requests]
  /\ own \in [Rows -> Requests \cup {NoOne}]
  /\ locked \in [Products -> Requests \cup {NoOne}]

\* A sale, an order and a product never name a row that is gone, although the
\* handler looked the row up in an earlier statement and it may have been deleted
\* since.
ReferencesHold ==
  /\ \A d \in documents : d.product \in exists /\ d.partner \in exists \cup {Nil}
  /\ \A p \in Products \cap exists : category[p] \in exists \cup {Nil}
  /\ Stocked \subseteq exists

\* Deleting a product, a customer or a supplier never takes a recorded sale or
\* order with it.
HistoryKept == [][documents \subseteq documents']_vars

\* A deletion that was answered with success is not undone: the row is gone for
\* good, whatever updates and documents were under way.
DeletedStaysDeleted ==
  \A r \in Requests : pc[r] = "ok" /\ ask[r].kind = "delete" => ask[r].row \notin exists

\* A request that began to write is answered: checkouts, deletions and changes of
\* categories that lock rows in opposite orders do not wait for ever.
EveryRequestAnswered ==
  \A r \in Requests : pc[r] \in InTx ~> pc[r] \in Answered
=============================================================================

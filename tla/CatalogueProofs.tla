-------------------------- MODULE CatalogueProofs --------------------------
(***************************************************************************)
(* Proofs about Catalogue.  The invariant says what the shares and locks   *)
(* of a transaction guarantee at each of its statements: a row that is     *)
(* being deleted has no sharer, a shared row exists, and a document about  *)
(* to be committed shares every row it names.                              *)
(***************************************************************************)
EXTENDS Catalogue, TLAPS

\* The statements of each kind of request.
KindInv ==
  \A r \in Requests :
     /\ pc[r] \in {"read", "stock", "header", "items", "commit"} =>
          ask[r].kind \in {"sale", "order", "threshold"}
     /\ pc[r] = "category" => ask[r].kind \in {"create", "update"}
     /\ pc[r] = "insert" => ask[r].kind = "create"
     /\ pc[r] \in {"update", "relink"} => ask[r].kind = "update"
     /\ pc[r] \in {"delete", "check"} => ask[r].kind = "delete"

\* A deletion that has got as far as its checks owns its row, which is there.
Owning ==
  \A r \in Requests : pc[r] = "check" => own[ask[r].row] = r /\ ask[r].row \in exists

\* Nobody shares the row that a deletion owns.
Unshared ==
  \A r \in Requests : ask[r].kind = "delete" /\ own[ask[r].row] = r => share[ask[r].row] = {}

\* A shared row exists.
SharedExist == \A m \in Rows : \A s \in share[m] : m \in exists

\* A document shares the rows it names from their insert to its commit.
Sharing ==
  \A r \in Requests :
     /\ pc[r] \in {"items", "commit"} /\ ask[r].partner # Nil => r \in share[ask[r].partner]
     /\ pc[r] = "commit" => r \in share[ask[r].row]

LockInv == Owning /\ Unshared /\ SharedExist /\ Sharing

\* The references of committed rows, of products that do not exist included.
RefInv ==
  /\ \A d \in documents : d.product \in exists /\ d.partner \in exists \cup {Nil}
  /\ \A p \in Products : category[p] \in exists \cup {Nil}
  /\ Stocked \subseteq exists

\* A row that is still to be created does not exist and cannot be deleted.
FreshInv ==
  \A s \in Requests : ask[s].kind = "create" =>
     /\ pc[s] # "ok" =>
          /\ ask[s].row \notin exists
          /\ \A r \in Requests : ask[r].kind = "delete" /\ ask[r].row = ask[s].row =>
                pc[r] \in {"idle", "notFound", "failed"}
     /\ \A r \in Requests : r # s /\ ask[r].kind = "create" => ask[r].row # ask[s].row

CatInv == TypeOK /\ KindInv /\ LockInv /\ RefInv /\ FreshInv /\ DeletedStaysDeleted
-----------------------------------------------------------------------------
USE DEF InTx, Answered, Rows, Partners, locks, Goto

\* What a request asks, whatever its kind.
LEMMA AskTyped ==
  TypeOK => \A q \in Requests :
     /\ ask[q].row \in Rows
     /\ ask[q].partner \in Partners \cup {Nil}
     /\ ask[q].category \in Categories \cup {Nil}
     /\ ask[q].kind \in {"sale", "order", "threshold"} => ask[q].row \in Products
     /\ ask[q].category # Nil => ask[q].row \in Products
     /\ ask[q].kind = "threshold" => ask[q].partner = Nil
PROOF
  <1> SUFFICES ASSUME TypeOK, NEW q \in Requests
      PROVE  /\ ask[q].row \in Rows
             /\ ask[q].partner \in Partners \cup {Nil}
             /\ ask[q].category \in Categories \cup {Nil}
             /\ ask[q].kind \in {"sale", "order", "threshold"} => ask[q].row \in Products
             /\ ask[q].category # Nil => ask[q].row \in Products
             /\ ask[q].kind = "threshold" => ask[q].partner = Nil
    OBVIOUS
  <1>1. ask[q] \in Ask
    BY DEF TypeOK
  <1>2. QED
    BY <1>1 DEF Ask

\* A request that waits for another has an open transaction or statement.
LEMMA WaitersInTx ==
  ASSUME NEW r \in Requests, Deadlocked(r)
  PROVE  pc[r] \in InTx
PROOF
  <1>1. PICK C \in SUBSET Requests : /\ r \in C
                                    /\ C # {r}
                                    /\ \A D \in SUBSET C :
                                          D \notin {{}, C} => \E x \in D, y \in C \ D : y \in Blockers(x)
    BY DEF Deadlocked
  <1>2. {r} \in SUBSET C /\ {r} \notin {{}, C}
    BY <1>1
  <1>3. Blockers(r) # {}
    BY <1>1, <1>2
  <1>4. QED
    BY <1>3 DEF Blockers

LEMMA CatInit == Init => CatInv
PROOF
  <1> SUFFICES ASSUME Init PROVE CatInv
    OBVIOUS
  <1> USE AsksAssumption, RowsAssumption, CategoryAssumption, NothingAssumption DEF Init
  <1>1. TypeOK
    BY DEF TypeOK
  <1>2. KindInv /\ DeletedStaysDeleted
    BY DEF KindInv, DeletedStaysDeleted
  <1>3. LockInv
    BY <1>1 DEF TypeOK, Ask, LockInv, Owning, Unshared, SharedExist, Sharing
  <1>4. RefInv
    BY DEF RefInv
  <1>5. FreshInv
    BY DEF FreshInv
  <1>6. QED
    BY <1>1, <1>2, <1>3, <1>4, <1>5 DEF CatInv

\* Each statement keeps the invariant.
LEMMA RollBackKeeps ==
  ASSUME CatInv, NEW r \in Requests, RollBack(r), pc[r] \in InTx
  PROVE  CatInv'
PROOF
  <1> USE NothingAssumption, AskTyped DEF CatInv, RollBack, EndTx
  <1>1. TypeOK'
    BY DEF TypeOK
  <1>2. KindInv'
    BY DEF TypeOK, KindInv
  <1>3. LockInv'
    <2>1. Owning'
      BY DEF TypeOK, LockInv, Owning
    <2>2. Unshared'
      BY DEF TypeOK, LockInv, Unshared
    <2>3. SharedExist'
      BY DEF LockInv, SharedExist
    <2>4. Sharing'
      BY DEF TypeOK, LockInv, Sharing
    <2>5. QED
      BY <2>1, <2>2, <2>3, <2>4 DEF LockInv
  <1>4. RefInv'
    BY DEF RefInv
  <1>5. FreshInv'
    BY DEF TypeOK, FreshInv
  <1>6. DeletedStaysDeleted'
    BY DEF TypeOK, DeletedStaysDeleted
  <1>7. QED
    BY <1>1, <1>2, <1>3, <1>4, <1>5, <1>6

\* The statement a handler may begin with, by what is asked.
Begins(r, where) ==
  \/ where \in {"failed", "notFound"}
  \/ where \in {"read", "items"} /\ ask[r].kind \in {"sale", "order", "threshold"}
  \/ where = "category" /\ ask[r].kind \in {"create", "update"}
  \/ where = "insert" /\ ask[r].kind = "create"
  \/ where = "update" /\ ask[r].kind = "update"
  \/ where = "delete" /\ ask[r].kind = "delete" /\ ask[r].row \in exists

\* Only a threshold, which names no partner, begins with its insert.
LEMMA HandlersBegin ==
  ASSUME TypeOK, NEW r \in Requests, Handle(r)
  PROVE  /\ pc[r] = "idle"
         /\ UNCHANGED <<ask, exists, category, documents, locks>>
         /\ \E where : Goto(r, where) /\ Begins(r, where)
                      /\ (where = "items" => ask[r].partner = Nil)
PROOF
  <1> USE DEF Enter, Find, Begins
  <1>1. CASE Refuse(r)
    <2>1. Goto(r, "failed") /\ Begins(r, "failed")
      BY <1>1 DEF Refuse
    <2>2. QED
      BY <1>1, <2>1 DEF Refuse
  <1>2. CASE HandleCheckout(r)
    <2>1. Goto(r, "read") \/ Goto(r, "notFound")
      BY <1>2, Zenon DEF HandleCheckout
    <2>2. Begins(r, "read") /\ Begins(r, "notFound")
      BY <1>2 DEF HandleCheckout
    <2>3. pc[r] = "idle" /\ UNCHANGED <<ask, exists, category, documents, locks>>
      BY <1>2 DEF HandleCheckout
    <2>4. QED
      BY <2>1, <2>2, <2>3
  <1>3. CASE HandlePOs(r)
    <2>1. Goto(r, "read") \/ Goto(r, "notFound")
      BY <1>3, Zenon DEF HandlePOs
    <2>2. Begins(r, "read") /\ Begins(r, "notFound")
      BY <1>3 DEF HandlePOs
    <2>3. pc[r] = "idle" /\ UNCHANGED <<ask, exists, category, documents, locks>>
      BY <1>3 DEF HandlePOs
    <2>4. QED
      BY <2>1, <2>2, <2>3
  <1>4. CASE HandleSetThreshold(r)
    BY <1>4, AskTyped DEF HandleSetThreshold
  <1>5. CASE \E rows : CreateRow(r, rows)
    BY <1>5 DEF CreateRow
  <1>6. CASE \E rows : UpdateRow(r, rows)
    BY <1>6 DEF UpdateRow
  <1>7. CASE \E rows : DeleteForOrg(r, rows)
    BY <1>7 DEF DeleteForOrg
  <1>8. QED
    BY <1>1, <1>2, <1>3, <1>4, <1>5, <1>6, <1>7
       DEF Handle, HandleProducts, HandleProductByID, HandleCategories, HandleCategoryByID,
           HandleCustomers, HandleCustomerByID, HandleSuppliers, HandleSupplierByID

LEMMA HandleKeeps ==
  ASSUME CatInv, NEW r \in Requests, Handle(r)
  PROVE  CatInv'
PROOF
  <1>a. /\ pc[r] = "idle"
        /\ UNCHANGED <<ask, exists, category, documents, locks>>
    BY HandlersBegin DEF CatInv
  <1>b. PICK where : /\ Goto(r, where)
                     /\ Begins(r, where)
                     /\ where = "items" => ask[r].partner = Nil
    BY HandlersBegin DEF CatInv
  <1> USE <1>a, <1>b, NothingAssumption, AskTyped DEF CatInv, Begins
  <1>1. TypeOK'
    BY DEF TypeOK
  <1>2. KindInv'
    BY DEF TypeOK, KindInv
  <1>3. LockInv'
    <2>1. Owning'
      BY DEF TypeOK, LockInv, Owning
    <2>2. Unshared'
      BY DEF TypeOK, LockInv, Unshared
    <2>3. SharedExist'
      BY DEF LockInv, SharedExist
    <2>4. Sharing'
      BY DEF TypeOK, LockInv, Sharing
    <2>5. QED
      BY <2>1, <2>2, <2>3, <2>4 DEF LockInv
  <1>4. RefInv'
    BY DEF RefInv
  <1>5. FreshInv'
    BY DEF TypeOK, FreshInv
  <1>6. DeletedStaysDeleted'
    BY DEF TypeOK, DeletedStaysDeleted
  <1>7. QED
    BY <1>1, <1>2, <1>3, <1>4, <1>5, <1>6

LEMMA FindCategoryKeeps ==
  ASSUME CatInv, NEW r \in Requests, FindCategory(r)
  PROVE  CatInv'
PROOF
  <1> USE NothingAssumption, AskTyped DEF CatInv, FindCategory
  <1>1. TypeOK'
    BY DEF TypeOK
  <1>2. KindInv'
    BY DEF TypeOK, KindInv
  <1>3. LockInv'
    <2>1. Owning'
      BY DEF TypeOK, LockInv, Owning
    <2>2. Unshared'
      BY DEF TypeOK, LockInv, Unshared
    <2>3. SharedExist'
      BY DEF LockInv, SharedExist
    <2>4. Sharing'
      BY DEF TypeOK, LockInv, Sharing
    <2>5. QED
      BY <2>1, <2>2, <2>3, <2>4 DEF LockInv
  <1>4. RefInv'
    BY DEF RefInv
  <1>5. FreshInv'
    BY DEF TypeOK, FreshInv
  <1>6. DeletedStaysDeleted'
    BY DEF TypeOK, DeletedStaysDeleted
  <1>7. QED
    BY <1>1, <1>2, <1>3, <1>4, <1>5, <1>6

LEMMA ReadProductKeeps ==
  ASSUME CatInv, NEW r \in Requests, ReadProduct(r)
  PROVE  CatInv'
PROOF
  <1> USE NothingAssumption, AskTyped DEF CatInv, ReadProduct
  <1>1. TypeOK'
    BY DEF TypeOK
  <1>2. KindInv'
    BY DEF TypeOK, KindInv
  <1>3. LockInv'
    <2>1. Owning'
      BY DEF TypeOK, LockInv, Owning
    <2>2. Unshared'
      BY DEF TypeOK, LockInv, Unshared
    <2>3. SharedExist'
      BY DEF LockInv, SharedExist
    <2>4. Sharing'
      BY DEF TypeOK, LockInv, Sharing
    <2>5. QED
      BY <2>1, <2>2, <2>3, <2>4 DEF LockInv
  <1>4. RefInv'
    BY DEF RefInv
  <1>5. FreshInv'
    BY DEF TypeOK, FreshInv
  <1>6. DeletedStaysDeleted'
    BY DEF TypeOK, DeletedStaysDeleted
  <1>7. QED
    BY <1>1, <1>2, <1>3, <1>4, <1>5, <1>6

LEMMA LockStockKeeps ==
  ASSUME CatInv, NEW r \in Requests, LockStock(r)
  PROVE  CatInv'
PROOF
  <1> USE NothingAssumption, AskTyped DEF CatInv, LockStock
  <1>1. TypeOK'
    BY DEF TypeOK
  <1>2. KindInv'
    BY DEF TypeOK, KindInv
  <1>3. LockInv'
    <2>1. Owning'
      BY DEF TypeOK, LockInv, Owning
    <2>2. Unshared'
      BY DEF TypeOK, LockInv, Unshared
    <2>3. SharedExist'
      BY DEF LockInv, SharedExist
    <2>4. Sharing'
      BY DEF TypeOK, LockInv, Sharing
    <2>5. QED
      BY <2>1, <2>2, <2>3, <2>4 DEF LockInv
  <1>4. RefInv'
    BY DEF RefInv
  <1>5. FreshInv'
    BY DEF TypeOK, FreshInv
  <1>6. DeletedStaysDeleted'
    BY DEF TypeOK, DeletedStaysDeleted
  <1>7. QED
    BY <1>1, <1>2, <1>3, <1>4, <1>5, <1>6

LEMMA InsertHeaderKeeps ==
  ASSUME CatInv, NEW r \in Requests, InsertHeader(r)
  PROVE  CatInv'
PROOF
  <1> USE NothingAssumption, AskTyped DEF CatInv, InsertHeader, Refer
  <1>0. CASE RollBack(r)
    BY <1>0, RollBackKeeps
  <1> SUFFICES ASSUME ~RollBack(r) PROVE CatInv'
    BY <1>0
  <1>1. TypeOK'
    BY DEF TypeOK
  <1>2. KindInv'
    BY DEF TypeOK, KindInv
  <1>3. LockInv'
    <2>1. Owning'
      BY DEF TypeOK, LockInv, Owning
    <2>2. Unshared'
      BY DEF TypeOK, Deleter, Blockers, LockInv, Unshared
    <2>3. SharedExist'
      BY DEF TypeOK, LockInv, SharedExist
    <2>4. Sharing'
      BY DEF TypeOK, LockInv, Sharing
    <2>5. QED
      BY <2>1, <2>2, <2>3, <2>4 DEF LockInv
  <1>4. RefInv'
    BY DEF RefInv
  <1>5. FreshInv'
    BY DEF TypeOK, FreshInv
  <1>6. DeletedStaysDeleted'
    BY DEF TypeOK, DeletedStaysDeleted
  <1>7. QED
    BY <1>1, <1>2, <1>3, <1>4, <1>5, <1>6

LEMMA InsertItemsKeeps ==
  ASSUME CatInv, NEW r \in Requests, InsertItems(r)
  PROVE  CatInv'
PROOF
  <1> USE NothingAssumption, AskTyped DEF CatInv, InsertItems, Refer
  <1>0. CASE RollBack(r)
    BY <1>0, RollBackKeeps
  <1> SUFFICES ASSUME ~RollBack(r) PROVE CatInv'
    BY <1>0
  <1>1. TypeOK'
    BY DEF TypeOK
  <1>2. KindInv'
    BY DEF TypeOK, KindInv
  <1>3. LockInv'
    <2>1. Owning'
      BY DEF TypeOK, LockInv, Owning
    <2>2. Unshared'
      <3>1. pc[r] = "items" /\ Blockers(r) = {}
        OBVIOUS
      <3>2. Deleter(ask[r].row) = {}
        BY <3>1 DEF Blockers
      <3>3. QED
        BY <3>2 DEF TypeOK, Deleter, LockInv, Unshared
    <2>3. SharedExist'
      BY DEF TypeOK, LockInv, SharedExist
    <2>4. Sharing'
      BY DEF TypeOK, LockInv, Sharing
    <2>5. QED
      BY <2>1, <2>2, <2>3, <2>4 DEF LockInv
  <1>4. RefInv'
    BY DEF RefInv
  <1>5. FreshInv'
    BY DEF TypeOK, FreshInv
  <1>6. DeletedStaysDeleted'
    BY DEF TypeOK, DeletedStaysDeleted
  <1>7. QED
    BY <1>1, <1>2, <1>3, <1>4, <1>5, <1>6

LEMMA CommitKeeps ==
  ASSUME CatInv, NEW r \in Requests, Commit(r)
  PROVE  CatInv'
PROOF
  <1> USE NothingAssumption, AskTyped DEF CatInv, Commit, EndTx
  <1>1. TypeOK'
    BY DEF TypeOK, Documents, KindInv
  <1>2. KindInv'
    BY DEF TypeOK, KindInv
  <1>3. LockInv'
    <2>1. Owning'
      BY DEF TypeOK, LockInv, Owning
    <2>2. Unshared'
      BY DEF TypeOK, LockInv, Unshared
    <2>3. SharedExist'
      BY DEF LockInv, SharedExist
    <2>4. Sharing'
      BY DEF TypeOK, LockInv, Sharing
    <2>5. QED
      BY <2>1, <2>2, <2>3, <2>4 DEF LockInv
  <1>4. RefInv'
    BY DEF TypeOK, LockInv, SharedExist, Sharing, RefInv
  <1>5. FreshInv'
    BY DEF TypeOK, FreshInv
  <1>6. DeletedStaysDeleted'
    BY DEF TypeOK, KindInv, DeletedStaysDeleted
  <1>7. QED
    BY <1>1, <1>2, <1>3, <1>4, <1>5, <1>6

LEMMA InsertKeeps ==
  ASSUME CatInv, NEW r \in Requests, Insert(r)
  PROVE  CatInv'
PROOF
  <1> USE NothingAssumption, AskTyped DEF CatInv, Insert
  <1>0. CASE RollBack(r)
    BY <1>0, RollBackKeeps
  <1> SUFFICES ASSUME ~RollBack(r) PROVE CatInv'
    BY <1>0
  <1>1. TypeOK'
    BY DEF TypeOK
  <1>2. KindInv'
    BY DEF TypeOK, KindInv
  <1>3. LockInv'
    <2>1. Owning'
      BY DEF TypeOK, LockInv, Owning
    <2>2. Unshared'
      BY DEF TypeOK, LockInv, Unshared
    <2>3. SharedExist'
      BY DEF LockInv, SharedExist
    <2>4. Sharing'
      BY DEF TypeOK, LockInv, Sharing
    <2>5. QED
      BY <2>1, <2>2, <2>3, <2>4 DEF LockInv
  <1>4. RefInv'
    BY DEF RefInv
  <1>5. FreshInv'
    BY DEF TypeOK, KindInv, FreshInv
  <1>6. DeletedStaysDeleted'
    BY DEF TypeOK, KindInv, FreshInv, DeletedStaysDeleted
  <1>7. QED
    BY <1>1, <1>2, <1>3, <1>4, <1>5, <1>6

LEMMA UpdateKeeps ==
  ASSUME CatInv, NEW r \in Requests, Update(r)
  PROVE  CatInv'
PROOF
  <1> USE NothingAssumption, AskTyped DEF CatInv, Update
  <1>1. TypeOK'
    BY DEF TypeOK
  <1>2. KindInv'
    BY DEF TypeOK, KindInv
  <1>3. LockInv'
    <2>1. Owning'
      BY DEF TypeOK, Blockers, LockInv, Owning
    <2>2. Unshared'
      BY DEF TypeOK, KindInv, LockInv, Unshared
    <2>3. SharedExist'
      BY DEF LockInv, SharedExist
    <2>4. Sharing'
      BY DEF TypeOK, LockInv, Sharing
    <2>5. QED
      BY <2>1, <2>2, <2>3, <2>4 DEF LockInv
  <1>4. RefInv'
    BY DEF RefInv
  <1>5. FreshInv'
    BY DEF TypeOK, FreshInv
  <1>6. DeletedStaysDeleted'
    BY DEF TypeOK, KindInv, DeletedStaysDeleted
  <1>7. QED
    BY <1>1, <1>2, <1>3, <1>4, <1>5, <1>6

LEMMA RelinkKeeps ==
  ASSUME CatInv, NEW r \in Requests, Relink(r)
  PROVE  CatInv'
PROOF
  <1> USE NothingAssumption, AskTyped DEF CatInv, Relink, EndTx
  <1>0. CASE RollBack(r)
    BY <1>0, RollBackKeeps
  <1> SUFFICES ASSUME ~RollBack(r) PROVE CatInv'
    BY <1>0
  <1>1. TypeOK'
    BY DEF TypeOK
  <1>2. KindInv'
    BY DEF TypeOK, KindInv
  <1>3. LockInv'
    <2>1. Owning'
      BY DEF TypeOK, LockInv, Owning
    <2>2. Unshared'
      BY DEF TypeOK, LockInv, Unshared
    <2>3. SharedExist'
      BY DEF LockInv, SharedExist
    <2>4. Sharing'
      BY DEF TypeOK, LockInv, Sharing
    <2>5. QED
      BY <2>1, <2>2, <2>3, <2>4 DEF LockInv
  <1>4. RefInv'
    BY DEF TypeOK, RefInv
  <1>5. FreshInv'
    BY DEF TypeOK, FreshInv
  <1>6. DeletedStaysDeleted'
    BY DEF TypeOK, KindInv, DeletedStaysDeleted
  <1>7. QED
    BY <1>1, <1>2, <1>3, <1>4, <1>5, <1>6

LEMMA DeleteRowKeeps ==
  ASSUME CatInv, NEW r \in Requests, DeleteRow(r)
  PROVE  CatInv'
PROOF
  <1> USE NothingAssumption, AskTyped DEF CatInv, DeleteRow
  <1>1. TypeOK'
    BY DEF TypeOK
  <1>2. KindInv'
    BY DEF TypeOK, KindInv
  <1>3. LockInv'
    <2>1. Owning'
      BY DEF TypeOK, Blockers, LockInv, Owning
    <2>2. Unshared'
      BY DEF TypeOK, Blockers, LockInv, Unshared
    <2>3. SharedExist'
      BY DEF LockInv, SharedExist
    <2>4. Sharing'
      BY DEF TypeOK, LockInv, Sharing
    <2>5. QED
      BY <2>1, <2>2, <2>3, <2>4 DEF LockInv
  <1>4. RefInv'
    BY DEF RefInv
  <1>5. FreshInv'
    BY DEF TypeOK, FreshInv
  <1>6. DeletedStaysDeleted'
    BY DEF TypeOK, DeletedStaysDeleted
  <1>7. QED
    BY <1>1, <1>2, <1>3, <1>4, <1>5, <1>6

LEMMA CheckReferencesKeeps ==
  ASSUME CatInv, NEW r \in Requests, CheckReferences(r)
  PROVE  CatInv'
PROOF
  <1> USE NothingAssumption, AskTyped DEF CatInv, CheckReferences, Remove, EndTx
  <1>0. CASE RollBack(r)
    BY <1>0, RollBackKeeps
  <1> SUFFICES ASSUME ~RollBack(r) PROVE CatInv'
    BY <1>0
  <1>1. TypeOK'
    BY DEF TypeOK
  <1>2. KindInv'
    BY DEF TypeOK, KindInv
  <1>3. LockInv'
    <2>1. Owning'
      BY DEF TypeOK, LockInv, Owning
    <2>2. Unshared'
      BY DEF TypeOK, LockInv, Unshared
    <2>3. SharedExist'
      BY DEF KindInv, LockInv, Unshared, Owning, SharedExist
    <2>4. Sharing'
      BY DEF TypeOK, LockInv, Sharing
    <2>5. QED
      BY <2>1, <2>2, <2>3, <2>4 DEF LockInv
  <1>4. RefInv'
    BY DEF TypeOK, RefInv, Refers
  <1>5. FreshInv'
    BY DEF TypeOK, FreshInv
  <1>6. DeletedStaysDeleted'
    BY DEF TypeOK, DeletedStaysDeleted
  <1>7. QED
    BY <1>1, <1>2, <1>3, <1>4, <1>5, <1>6

LEMMA SetNullKeeps ==
  ASSUME CatInv, NEW r \in Requests, SetNull(r)
  PROVE  CatInv'
PROOF
  <1> USE NothingAssumption, AskTyped DEF CatInv, SetNull
  <1>0. NextProduct(r) \in Products \cap exists
    BY DEF NextProduct, Left
  <1>9. own[NextProduct(r)] = NoOne
    <2>1. ({own[NextProduct(r)]} \ {NoOne}) = {}
      BY RowsAssumption DEF Blockers
    <2>2. QED
      BY <2>1
  <1>1. TypeOK'
    BY <1>0 DEF TypeOK
  <1>2. KindInv'
    BY DEF TypeOK, KindInv
  <1>3. LockInv'
    <2>1. Owning'
      BY <1>0, <1>9 DEF TypeOK, LockInv, Owning
    <2>2. Unshared'
      BY <1>0, <1>9 DEF TypeOK, LockInv, Unshared
    <2>3. SharedExist'
      BY DEF LockInv, SharedExist
    <2>4. Sharing'
      BY DEF TypeOK, LockInv, Sharing
    <2>5. QED
      BY <2>1, <2>2, <2>3, <2>4 DEF LockInv
  <1>4. RefInv'
    BY DEF RefInv
  <1>5. FreshInv'
    BY DEF TypeOK, FreshInv
  <1>6. DeletedStaysDeleted'
    BY DEF TypeOK, DeletedStaysDeleted
  <1>7. QED
    BY <1>1, <1>2, <1>3, <1>4, <1>5, <1>6

LEMMA RemoveCategoryKeeps ==
  ASSUME CatInv, NEW r \in Requests, RemoveCategory(r)
  PROVE  CatInv'
PROOF
  <1> USE NothingAssumption, AskTyped DEF CatInv, RemoveCategory, Remove, EndTx
  <1>1. TypeOK'
    BY DEF TypeOK
  <1>2. KindInv'
    BY DEF TypeOK, KindInv
  <1>3. LockInv'
    <2>1. Owning'
      BY DEF TypeOK, LockInv, Owning
    <2>2. Unshared'
      BY DEF TypeOK, LockInv, Unshared
    <2>3. SharedExist'
      BY DEF KindInv, LockInv, Unshared, Owning, SharedExist
    <2>4. Sharing'
      BY DEF TypeOK, LockInv, Sharing
    <2>5. QED
      BY <2>1, <2>2, <2>3, <2>4 DEF LockInv
  <1>4. RefInv'
    <2>1. \A d \in documents : d.product \in exists' /\ d.partner \in exists' \cup {Nil}
      BY DEF TypeOK, Documents, RefInv
    <2>2. \A p \in Products : category'[p] \in exists' \cup {Nil}
      BY DEF RefInv
    <2>3. Stocked \subseteq exists'
      BY RowsAssumption DEF RefInv
    <2>4. QED
      BY <2>1, <2>2, <2>3 DEF RefInv
  <1>5. FreshInv'
    BY DEF TypeOK, FreshInv
  <1>6. DeletedStaysDeleted'
    BY DEF TypeOK, DeletedStaysDeleted
  <1>7. QED
    BY <1>1, <1>2, <1>3, <1>4, <1>5, <1>6

LEMMA CatStep == CatInv /\ [Next]_vars => CatInv'
PROOF
  <1> SUFFICES ASSUME CatInv, [Next]_vars PROVE CatInv'
    OBVIOUS
  <1>1. ASSUME NEW r \in Requests, Statement(r) PROVE CatInv'
    BY <1>1, FindCategoryKeeps, ReadProductKeeps, LockStockKeeps, InsertHeaderKeeps, InsertItemsKeeps, CommitKeeps, InsertKeeps, UpdateKeeps, RelinkKeeps, DeleteRowKeeps, CheckReferencesKeeps, SetNullKeeps, RemoveCategoryKeeps DEF Statement
  <1>2. ASSUME NEW r \in Requests, Handle(r) PROVE CatInv'
    BY <1>2, HandleKeeps
  <1>3. ASSUME NEW r \in Requests, Abort(r) PROVE CatInv'
    BY <1>3, RollBackKeeps DEF Abort
  <1>4. ASSUME NEW r \in Requests, BreakDeadlock(r) PROVE CatInv'
    BY <1>4, RollBackKeeps, WaitersInTx DEF BreakDeadlock
  <1>5. CASE UNCHANGED vars
    BY <1>5 DEF CatInv, vars, TypeOK, KindInv, LockInv, Owning, Unshared, SharedExist, Sharing, RefInv, FreshInv,
                DeletedStaysDeleted
  <1>6. QED
    BY <1>1, <1>2, <1>3, <1>4, <1>5 DEF Next, Finished

\* The inductive invariant holds in every state of the catalogue.
THEOREM CatalogueInvariant == Spec => []CatInv
PROOF
  BY CatInit, CatStep, PTL DEF Spec

\* The state of the catalogue keeps its types.
THEOREM TypeCorrect == Spec => []TypeOK
PROOF
  <1>1. CatInv => TypeOK
    BY DEF CatInv
  <1>2. QED
    BY <1>1, CatalogueInvariant, PTL

\* No document, product or stock row names a row that is gone, whatever was
\* deleted between a handler's lookup and its insert.
THEOREM ReferencesAlwaysHold == Spec => []ReferencesHold
PROOF
  <1>1. CatInv => ReferencesHold
    BY DEF CatInv, RefInv, ReferencesHold
  <1>2. QED
    BY <1>1, CatalogueInvariant, PTL

\* What was deleted with success stays deleted.
THEOREM DeletionsLast == Spec => []DeletedStaysDeleted
PROOF
  <1>1. CatInv => DeletedStaysDeleted
    BY DEF CatInv
  <1>2. QED
    BY <1>1, CatalogueInvariant, PTL

\* No step takes a recorded document away.
THEOREM HistoryIsKept == Spec => HistoryKept
PROOF
  <1>1. ASSUME [Next]_vars PROVE documents \subseteq documents'
    <2>1. ASSUME NEW r \in Requests, Statement(r) PROVE documents \subseteq documents'
      BY <2>1 DEF Statement, FindCategory, ReadProduct, LockStock, InsertHeader, InsertItems,
                  Refer, RollBack, Commit, Insert, Update, Relink, DeleteRow,
                  CheckReferences, SetNull, RemoveCategory
    <2>2. ASSUME NEW r \in Requests, Handle(r) PROVE documents \subseteq documents'
      BY <2>2 DEF Handle, Refuse, HandleCheckout, HandlePOs, HandleSetThreshold, CreateRow,
                  UpdateRow, DeleteForOrg, HandleProducts, HandleProductByID, HandleCategories,
                  HandleCategoryByID, HandleCustomers, HandleCustomerByID, HandleSuppliers,
                  HandleSupplierByID, Find
    <2>3. QED
      BY <1>1, <2>1, <2>2 DEF Next, vars, Abort, BreakDeadlock, RollBack, Finished
  <1>2. QED
    BY <1>1, PTL DEF Spec, HistoryKept
=============================================================================

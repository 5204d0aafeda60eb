--------------------------- MODULE StartUpProofs ---------------------------
(***************************************************************************)
(* Proofs about StartUp.  The invariant follows a seeding from step to     *)
(* step: what a server without an error has found or inserted is there,    *)
(* the tables it has passed are adopted, and who is about to insert a      *)
(* branch or the administrator had a reason to.                            *)
(***************************************************************************)
EXTENDS StartUp, TLAPS

Early == {"connect", "migrate", "migrating", "readOrg", "insertOrg", "readBranch",
          "insertBranch", "countUsers", "seedUser"}
AfterOrg == {"readBranch", "insertBranch", "countUsers", "seedUser", "adopt",
             "snapshot", "backfill", "serving"}
AfterBranch == AfterOrg \ {"readBranch", "insertBranch"}
AfterUser == {"adopt", "snapshot", "backfill", "serving"}
AfterTables == {"snapshot", "backfill", "serving"}

\* Where a server is in the list of tables.
NextInv == \A s \in Servers :
  /\ pc[s] \in Early => next[s] = 1
  /\ pc[s] = "adopt" => next[s] <= Len(Tables)

\* What a seeding without an error has reached.
Reached(s) ==
  /\ pc[s] \in AfterOrg => orgID[s] # 0
  /\ pc[s] \in AfterBranch => branchID[s] # 0
  /\ pc[s] = "seedUser" => legacy = {}
  /\ pc[s] \in AfterUser => HasUsers
  /\ pc[s] = "adopt" => \A i \in 1..(next[s] - 1) : Tables[i] \notin orphans
  /\ pc[s] \in AfterTables => orphans = {}
  /\ pc[s] = "backfill" =>
       \A p \in old[s] \cap products : p \in seen[s] \/ <<p, branchID[s]>> \in stocked
  /\ pc[s] = "serving" => \A p \in old[s] \cap products : <<p, branchID[s]>> \in stocked

ReachedInv == \A s \in Servers : s \notin hurt => Reached(s)

\* What was there before is there or deleted, and so is not created again.
SeenInv == \A s \in Servers : old[s] \subseteq products \cup gone

\* Only an older deployment leaves rows without an organisation.
LegacyInv == legacy = {} => orphans = {}

\* Who is about to insert the administrator found no user, or could not count.
AdminInv ==
  /\ \A s \in Servers : pc[s] = "seedUser" /\ legacy # {} => miscounted
  /\ AdminIntoEmpty

\* Who is about to insert the branch saw none.
BranchInv ==
  /\ \A s \in Servers : pc[s] = "insertBranch" /\ branches > 0 => overlapped
  /\ \A s, t \in Servers :
       s # t /\ pc[s] = "insertBranch" /\ pc[t] = "insertBranch" => overlapped
  /\ SeedsOnce

Inv == /\ TypeOK /\ NextInv /\ ReachedInv /\ SeenInv /\ LegacyInv /\ AdminInv
       /\ BranchInv
-----------------------------------------------------------------------------
LEMMA StartUpInit == Init => Inv
PROOF
  <1> SUFFICES ASSUME Init PROVE Inv
    OBVIOUS
  <1> USE TablesAssumption, FaultsAssumption, NoneAssumption DEF Init
  <1>1. TypeOK
    <2>1. legacy \subseteq {"kasir", "other"} /\ orphans \subseteq TableSet
          /\ products \subseteq Products
      OBVIOUS
    <2>2. next \in [Servers -> 1..(Len(Tables) + 1)] /\ faults \in 0..MaxFaults
      OBVIOUS
    <2>3. orgID \in [Servers -> 0..orgs] /\ branchID \in [Servers -> 0..branches]
      OBVIOUS
    <2>4. stocked \subseteq products \X (1..branches)
      OBVIOUS
    <2>5. pc \in [Servers -> Steps \cup {"down", "serving"}]
      OBVIOUS
    <2>6. seen \in [Servers -> SUBSET Products] /\ old \in [Servers -> SUBSET Products]
      OBVIOUS
    <2>7. /\ schema \in {"old", "dirty", "new"} /\ lock \in Servers \cup {None}
          /\ orgs \in Nat /\ branches \in Nat /\ seeded \in Nat /\ hurt \subseteq Servers
          /\ failed \in BOOLEAN /\ miscounted \in BOOLEAN /\ overlapped \in BOOLEAN
      OBVIOUS
    <2>8. QED
      BY <2>1, <2>2, <2>3, <2>4, <2>5, <2>6, <2>7 DEF TypeOK
  <1>2. NextInv /\ SeenInv /\ LegacyInv
    BY DEF NextInv, SeenInv, LegacyInv, Early
  <1>3. ReachedInv
    BY DEF ReachedInv, Reached, AfterOrg, AfterBranch, AfterUser, AfterTables
  <1>4. AdminInv /\ BranchInv
    BY DEF AdminInv, BranchInv, AdminIntoEmpty, SeedsOnce
  <1>5. QED
    BY <1>1, <1>2, <1>3, <1>4 DEF Inv

\* Only server s moves.
Alone(s) ==
  \A t \in Servers : t # s =>
    /\ pc'[t] = pc[t] /\ orgID'[t] = orgID[t] /\ branchID'[t] = branchID[t]
    /\ next'[t] = next[t] /\ seen'[t] = seen[t] /\ old'[t] = old[t]
    /\ (t \in hurt) <=> (t \in hurt')

\* The others keep what they have reached, while the database only fills and no
\* table loses its organisation.
LEMMA OthersReached ==
  ASSUME TypeOK, ReachedInv, NEW s \in Servers, Alone(s),
         legacy' = legacy, seeded' >= seeded, seeded' \in Nat,
         orphans' \subseteq orphans, products' = products, stocked \subseteq stocked'
  PROVE  \A t \in Servers : t # s /\ t \notin hurt' => Reached(t)'
PROOF
  <1> SUFFICES ASSUME NEW t \in Servers, t # s, t \notin hurt' PROVE Reached(t)'
    OBVIOUS
  <1>1. /\ pc'[t] = pc[t] /\ orgID'[t] = orgID[t] /\ branchID'[t] = branchID[t]
        /\ next'[t] = next[t] /\ seen'[t] = seen[t] /\ old'[t] = old[t]
        /\ Reached(t)
    BY DEF Alone, ReachedInv
  <1>2. HasUsers => HasUsers'
    BY DEF HasUsers, TypeOK
  <1>3. QED
    BY <1>1, <1>2 DEF Reached

\* Steps that leave the database alone, or almost.
LEMMA BeginKeeps ==
  ASSUME Inv, NEW s \in Servers,
         Start(s) \/ InitDB(s) \/ RunMigrations(s) \/ Migrated(s) \/ Crash(s)
  PROVE  Inv'
PROOF
  <1> USE DEF Inv, Goto, shared, local, history
  <1>1. /\ UNCHANGED <<orgs, branches, legacy, seeded, orphans, products, gone, stocked,
                       failed, miscounted, overlapped>>
        /\ Alone(s)
        /\ pc'[s] \in {"down", "connect", "migrate", "migrating", "readOrg"}
        /\ pc'[s] = "down" \/ next'[s] = 1
        /\ old'[s] \subseteq products \cup gone
    BY DEF Start, InitDB, RunMigrations, Migrated, Crash, TypeOK, NextInv, SeenInv, Early, Alone
  <1>2. TypeOK'
    <2>1. CASE Start(s)
      BY <2>1, TablesAssumption DEF TypeOK, Start, Steps
    <2>2. CASE InitDB(s)
      BY <2>2 DEF TypeOK, InitDB, Steps
    <2>3. CASE RunMigrations(s) \/ Migrated(s)
      BY <2>3 DEF TypeOK, RunMigrations, Migrated, Steps
    <2>4. CASE Crash(s)
      BY <2>4, FaultsAssumption DEF TypeOK, Crash
    <2>5. QED
      BY <2>1, <2>2, <2>3, <2>4
  <1>3. NextInv' /\ SeenInv' /\ LegacyInv'
    BY <1>1 DEF NextInv, SeenInv, LegacyInv, Alone, Early
  <1>4. ReachedInv'
    <2>1. \A t \in Servers : t # s /\ t \notin hurt' => Reached(t)'
      <3>1. seeded' >= seeded /\ seeded' \in Nat
        BY <1>1 DEF TypeOK
      <3>2. QED
        BY <1>1, <3>1, OthersReached
    <2>2. Reached(s)'
      BY <1>1 DEF Reached, AfterOrg, AfterBranch, AfterUser, AfterTables
    <2>3. QED
      BY <2>1, <2>2 DEF ReachedInv
  <1>5. AdminInv' /\ BranchInv'
    BY <1>1 DEF AdminInv, BranchInv, AdminIntoEmpty, SeedsOnce, Alone
  <1>6. QED
    BY <1>2, <1>3, <1>4, <1>5 DEF Inv

LEMMA OrgKeeps ==
  ASSUME Inv, NEW s \in Servers, ReadOrg(s) \/ InsertOrg(s)
  PROVE  Inv'
PROOF
  <1> USE DEF Inv, Goto, LogAndReturn, shared, local, history
  <1>1. /\ UNCHANGED <<branches, branchID, next, legacy, seeded, orphans, products, gone,
                       stocked, seen, old, failed, miscounted, overlapped>>
        /\ Alone(s)
        /\ pc'[s] \in {"insertOrg", "readBranch", "serving"}
        /\ pc'[s] = "serving" => s \in hurt'
        /\ pc'[s] = "readBranch" => orgID'[s] = 1
        /\ next[s] = 1
    BY DEF ReadOrg, InsertOrg, TypeOK, NextInv, Early, Alone
  <1>2. TypeOK' /\ orgs' <= 1
    <2>1. CASE ReadOrg(s)
      <3>1. orgID' \in [Servers -> 0..orgs] /\ orgs <= 1
        BY <2>1 DEF TypeOK, ReadOrg, BranchInv, SeedsOnce
      <3>2. pc' \in [Servers -> Steps \cup {"down", "serving"}]
        BY <2>1 DEF TypeOK, ReadOrg, Steps
      <3>3. QED
        BY <2>1, <3>1, <3>2 DEF TypeOK, ReadOrg
    <2>2. CASE InsertOrg(s)
      <3>1. orgs' \in Nat /\ orgs' <= 1 /\ orgs <= orgs'
        BY <2>2 DEF TypeOK, InsertOrg, BranchInv, SeedsOnce
      <3>2. orgID' \in [Servers -> 0..orgs']
        <4>1. orgID \in [Servers -> 0..orgs] /\ orgs \in Nat
          BY DEF TypeOK
        <4>2. orgID' = orgID \/ (orgID' = [orgID EXCEPT ![s] = 1] /\ orgs' = 1)
          BY <2>2 DEF InsertOrg
        <4>3. QED
          BY <3>1, <4>1, <4>2
      <3>3. QED
        BY <2>2, <3>1, <3>2 DEF TypeOK, InsertOrg, Steps
    <2>3. QED
      BY <2>1, <2>2
  <1>3. NextInv' /\ SeenInv' /\ LegacyInv'
    BY <1>1 DEF NextInv, SeenInv, LegacyInv, Alone, Early
  <1>4. ReachedInv'
    <2>1. \A t \in Servers : t # s /\ t \notin hurt' => Reached(t)'
      <3>1. seeded' >= seeded /\ seeded' \in Nat
        BY <1>1 DEF TypeOK
      <3>2. QED
        BY <1>1, <3>1, OthersReached
    <2>2. s \notin hurt' => Reached(s)'
      BY <1>1 DEF Reached, AfterOrg, AfterBranch, AfterUser, AfterTables
    <2>3. QED
      BY <2>1, <2>2 DEF ReachedInv
  <1>5. AdminInv' /\ BranchInv'
    BY <1>1, <1>2 DEF AdminInv, BranchInv, AdminIntoEmpty, SeedsOnce, Alone
  <1>6. QED
    BY <1>2, <1>3, <1>4, <1>5 DEF Inv

LEMMA BranchKeeps ==
  ASSUME Inv, NEW s \in Servers, ReadBranch(s) \/ InsertBranch(s)
  PROVE  Inv'
PROOF
  <1> USE DEF Inv, Goto, LogAndReturn, shared, local, history
  <1>1. /\ UNCHANGED <<orgs, orgID, next, legacy, seeded, orphans, products, gone,
                       stocked, seen, old, failed, miscounted>>
        /\ Alone(s)
        /\ pc'[s] \in {"insertBranch", "countUsers", "serving"}
        /\ pc[s] \in {"readBranch", "insertBranch"}
        /\ pc'[s] = "serving" => s \in hurt'
        /\ s \in hurt => s \in hurt'
        /\ pc'[s] = "countUsers" => branchID'[s] # 0
        /\ next[s] = 1
        /\ overlapped => overlapped'
    BY DEF ReadBranch, InsertBranch, TypeOK, NextInv, Early, Alone
  <1>2. TypeOK'
    <2>1. CASE ReadBranch(s)
      <3>1. branchID' \in [Servers -> 0..branches]
        <4>1. branchID \in [Servers -> 0..branches] /\ branches \in Nat
          BY DEF TypeOK
        <4>2. \/ branchID' = branchID
              \/ branchID' = [branchID EXCEPT ![s] = 1] /\ branches # 0
          BY <2>1 DEF ReadBranch
        <4>3. QED
          BY <4>1, <4>2
      <3>2. pc' \in [Servers -> Steps \cup {"down", "serving"}]
        BY <2>1 DEF TypeOK, ReadBranch, Steps
      <3>3. QED
        BY <2>1, <3>1, <3>2 DEF TypeOK, ReadBranch
    <2>2. CASE InsertBranch(s)
      <3>1. branches' \in Nat /\ branches <= branches'
        BY <2>2 DEF TypeOK, InsertBranch
      <3>2. branchID' \in [Servers -> 0..branches']
        <4>1. branchID \in [Servers -> 0..branches] /\ branches \in Nat
          BY DEF TypeOK
        <4>2. \/ branchID' = branchID
              \/ branchID' = [branchID EXCEPT ![s] = branches + 1] /\ branches' = branches + 1
          BY <2>2 DEF InsertBranch
        <4>3. QED
          BY <3>1, <4>1, <4>2
      <3>3. stocked \subseteq products \X (1..branches')
        BY <3>1 DEF TypeOK
      <3>4. QED
        BY <2>2, <3>1, <3>2, <3>3 DEF TypeOK, InsertBranch, Steps
    <2>3. QED
      BY <2>1, <2>2
  <1>3. NextInv' /\ SeenInv' /\ LegacyInv'
    BY <1>1 DEF NextInv, SeenInv, LegacyInv, Alone, Early
  <1>4. ReachedInv'
    <2>1. \A t \in Servers : t # s /\ t \notin hurt' => Reached(t)'
      <3>1. seeded' >= seeded /\ seeded' \in Nat
        BY <1>1 DEF TypeOK
      <3>2. QED
        BY <1>1, <3>1, OthersReached
    <2>2. s \notin hurt' => Reached(s)'
      BY <1>1 DEF Reached, AfterOrg, AfterBranch, AfterUser, AfterTables, ReachedInv
    <2>3. QED
      BY <2>1, <2>2 DEF ReachedInv
  <1>5. AdminInv'
    BY <1>1 DEF AdminInv, AdminIntoEmpty, Alone
  <1>6. BranchInv'
    <2>1. CASE ReadBranch(s)
      <3>1. branches' = branches /\ pc \in [Servers -> Steps \cup {"down", "serving"}]
        BY <2>1 DEF ReadBranch, TypeOK
      <3>2. pc'[s] = "insertBranch" =>
              /\ branches = 0
              /\ (\E t \in Servers : pc[t] = "insertBranch") => overlapped'
        BY <2>1, <3>1 DEF ReadBranch
      <3>3. \A t \in Servers : t # s => pc'[t] = pc[t]
        BY <1>1 DEF Alone
      <3>4. QED
        BY <1>1, <3>1, <3>2, <3>3 DEF BranchInv, SeedsOnce
    <2>2. CASE InsertBranch(s)
      <3>1. /\ pc[s] = "insertBranch" /\ pc'[s] # "insertBranch"
            /\ orgs' = orgs /\ overlapped' = overlapped
            /\ branches \in Nat /\ branches' \in {branches, branches + 1}
        BY <1>1, <2>2 DEF InsertBranch, TypeOK
      <3>2. \A t \in Servers : t # s => pc'[t] = pc[t]
        BY <1>1 DEF Alone
      <3>3. BranchInv
        OBVIOUS
      <3>4. QED
        BY <3>1, <3>2, <3>3 DEF BranchInv, SeedsOnce
    <2>3. QED
      BY <2>1, <2>2
  <1>7. QED
    BY <1>2, <1>3, <1>4, <1>5, <1>6 DEF Inv

LEMMA UserKeeps ==
  ASSUME Inv, NEW s \in Servers, CountUsers(s) \/ SeedUser(s)
  PROVE  Inv'
PROOF
  <1> USE DEF Inv, Goto, LogAndReturn, shared, local, history
  <1>1. /\ UNCHANGED <<orgs, orgID, branches, branchID, legacy, orphans, products, gone,
                       stocked, seen, old, failed, miscounted, overlapped>>
        /\ Alone(s)
        /\ pc'[s] \in {"seedUser", "adopt", "snapshot", "serving"}
        /\ pc[s] \in {"countUsers", "seedUser"}
        /\ pc'[s] = "serving" => s \in hurt'
        /\ s \in hurt => s \in hurt'
        /\ next[s] = 1
        /\ seeded' \in Nat /\ seeded' >= seeded
    BY DEF CountUsers, SeedUser, TypeOK, NextInv, Early, Alone
  <1>2. TypeOK'
    <2>1. next' \in [Servers -> 1..(Len(Tables) + 1)]
      <3>1. next \in [Servers -> 1..(Len(Tables) + 1)]
        BY DEF TypeOK
      <3>2. next' = next \/ next' = [next EXCEPT ![s] = 2]
        BY DEF CountUsers, SeedUser
      <3>3. 2 \in 1..(Len(Tables) + 1)
        BY TablesAssumption
      <3>4. QED
        BY <3>1, <3>2, <3>3
    <2>2. pc' \in [Servers -> Steps \cup {"down", "serving"}]
      BY DEF CountUsers, SeedUser, TypeOK, Steps
    <2>3. QED
      BY <1>1, <2>1, <2>2 DEF CountUsers, SeedUser, TypeOK
  <1>3. /\ pc'[s] = "seedUser" => next'[s] = 1 /\ ~HasUsers
        /\ pc'[s] = "adopt" => \/ next'[s] = 1 /\ HasUsers
                               \/ next'[s] = 2 /\ seeded' > 0 /\ Len(Tables) > 1
                                  /\ pc[s] = "seedUser"
        /\ pc'[s] = "snapshot" => pc[s] = "seedUser" /\ Len(Tables) <= 1 /\ seeded' > 0
    BY <1>1, TablesAssumption DEF CountUsers, SeedUser, TypeOK
  <1>4. NextInv' /\ SeenInv' /\ LegacyInv'
    BY <1>1, <1>3, TablesAssumption DEF NextInv, SeenInv, LegacyInv, Alone, Early
  <1>5. ReachedInv'
    <2>1. \A t \in Servers : t # s /\ t \notin hurt' => Reached(t)'
      <3>1. seeded' >= seeded /\ seeded' \in Nat
        BY <1>1 DEF TypeOK
      <3>2. QED
        BY <1>1, <3>1, OthersReached
    <2>2. s \notin hurt' => Reached(s)'
      <3> SUFFICES ASSUME s \notin hurt' PROVE Reached(s)'
        OBVIOUS
      <3>1. Reached(s) /\ pc'[s] # "serving"
        BY <1>1 DEF ReachedInv
      <3>2. pc[s] = "seedUser" => orphans = {}
        BY <3>1 DEF Reached, LegacyInv
      <3>3. /\ orgID[s] # 0 /\ branchID[s] # 0
        BY <1>1, <3>1 DEF Reached, AfterOrg, AfterBranch
      <3>4. pc'[s] \in {"adopt", "snapshot"} => HasUsers'
        BY <1>1, <1>3 DEF HasUsers, TypeOK
      <3>5. pc'[s] = "seedUser" => legacy = {}
        BY <1>3 DEF HasUsers
      <3>6. pc'[s] = "adopt" => \A i \in 1..(next'[s] - 1) : Tables[i] \notin orphans
        BY <1>3, <3>2
      <3>7. QED
        BY <1>1, <1>3, <3>1, <3>2, <3>3, <3>4, <3>5, <3>6
           DEF Reached, AfterUser, AfterTables
    <2>3. QED
      BY <2>1, <2>2 DEF ReachedInv
  <1>6. AdminInv'
    <2>1. CASE CountUsers(s)
      BY <1>1, <1>3, <2>1 DEF CountUsers, AdminInv, AdminIntoEmpty, Alone, HasUsers
    <2>2. CASE SeedUser(s)
      BY <1>1, <2>2 DEF SeedUser, AdminInv, AdminIntoEmpty, Alone, TypeOK
    <2>3. QED
      BY <2>1, <2>2
  <1>7. BranchInv'
    BY <1>1 DEF BranchInv, SeedsOnce, Alone
  <1>8. QED
    BY <1>2, <1>4, <1>5, <1>6, <1>7 DEF Inv

\* A table is done with, well or not.
LEMMA TableKeeps ==
  ASSUME Inv, NEW s \in Servers, pc[s] = "adopt", NextTable(s), Alone(s),
         UNCHANGED <<schema, lock, orgs, branches, legacy, seeded, products, gone, stocked,
                     orgID, branchID, seen, old, overlapped>>,
         orphans' = orphans \/ orphans' = orphans \ {Tables[next[s]]},
         hurt' = hurt \/ hurt' = hurt \cup {s},
         s \notin hurt' => Tables[next[s]] \notin orphans',
         failed' \in BOOLEAN, miscounted' = miscounted, faults' \in 0..MaxFaults
  PROVE  Inv'
PROOF
  <1> USE DEF Inv, Goto
  <1>1. /\ next[s] \in 1..Len(Tables) /\ next'[s] = next[s] + 1
        /\ Len(Tables) \in Nat
        /\ pc'[s] = IF next[s] < Len(Tables) THEN "adopt" ELSE "snapshot"
        /\ orphans' \subseteq orphans
    BY TablesAssumption DEF TypeOK, NextTable, NextInv
  <1>2. TypeOK'
    <2>1. next' \in [Servers -> 1..(Len(Tables) + 1)]
      <3>1. next \in [Servers -> 1..(Len(Tables) + 1)]
        BY DEF TypeOK
      <3>2. next' = [next EXCEPT ![s] = next[s] + 1]
        BY DEF NextTable
      <3>3. QED
        BY <1>1, <3>1, <3>2
    <2>2. pc' \in [Servers -> Steps \cup {"down", "serving"}]
      BY DEF NextTable, TypeOK, Steps
    <2>3. hurt' \subseteq Servers /\ orphans' \subseteq TableSet
      BY <1>1 DEF TypeOK
    <2>4. QED
      BY <2>1, <2>2, <2>3 DEF TypeOK
  <1>3. NextInv' /\ SeenInv' /\ LegacyInv'
    BY <1>1 DEF NextInv, SeenInv, LegacyInv, Alone, Early
  <1>4. ReachedInv'
    <2>1. \A t \in Servers : t # s /\ t \notin hurt' => Reached(t)'
      <3>1. seeded' >= seeded /\ seeded' \in Nat
        BY DEF TypeOK
      <3>2. QED
        BY <1>1, <3>1, OthersReached
    <2>2. s \notin hurt' => Reached(s)'
      <3> SUFFICES ASSUME s \notin hurt' PROVE Reached(s)'
        OBVIOUS
      <3>1. /\ orgID[s] # 0 /\ branchID[s] # 0 /\ HasUsers
            /\ \A i \in 1..(next[s] - 1) : Tables[i] \notin orphans
        BY DEF ReachedInv, Reached, AfterOrg, AfterBranch, AfterUser
      <3>2. \A i \in 1..next[s] : Tables[i] \notin orphans'
        <4> SUFFICES ASSUME NEW i \in 1..next[s] PROVE Tables[i] \notin orphans'
          OBVIOUS
        <4>1. CASE i = next[s]
          BY <4>1
        <4>2. CASE i # next[s]
          BY <1>1, <3>1, <4>2
        <4>3. QED
          BY <4>1, <4>2
      <3>3. pc'[s] = "snapshot" => orphans' = {}
        <4> SUFFICES ASSUME ~(next[s] < Len(Tables)) PROVE orphans' = {}
          BY <1>1
        <4>1. next[s] = Len(Tables)
          BY <1>1
        <4>2. orphans' \subseteq {Tables[i] : i \in 1..Len(Tables)}
          BY <1>1 DEF TypeOK, TableSet
        <4>3. QED
          BY <3>2, <4>1, <4>2
      <3>4. HasUsers'
        BY <3>1 DEF HasUsers
      <3>5. next'[s] - 1 = next[s]
        BY <1>1
      <3>6. QED
        BY <1>1, <3>1, <3>2, <3>3, <3>4, <3>5 DEF Reached, AfterTables
    <2>3. QED
      BY <2>1, <2>2 DEF ReachedInv
  <1>5. AdminInv' /\ BranchInv'
    BY <1>1 DEF AdminInv, BranchInv, AdminIntoEmpty, SeedsOnce, Alone
  <1>6. QED
    BY <1>2, <1>3, <1>4, <1>5 DEF Inv

LEMMA AdoptKeeps ==
  ASSUME Inv, NEW s \in Servers, Adopt(s)
  PROVE  Inv'
PROOF
  <1> DEFINE t == Tables[next[s]]
             valid == orgID[s] # 0 /\ (t \in WithBranch => branchID[s] # 0)
  <1>1. /\ pc[s] = "adopt" /\ NextTable(s)
        /\ orphans' = IF valid THEN orphans \ {t} ELSE orphans
        /\ hurt' = IF valid \/ t \notin orphans THEN hurt ELSE hurt \cup {s}
        /\ UNCHANGED <<schema, lock, orgs, branches, legacy, seeded, products, gone, stocked,
                       orgID, branchID, seen, old, failed, miscounted, overlapped, faults>>
    BY DEF Adopt
  <1>2. Alone(s)
    BY <1>1 DEF Alone, NextTable, Goto, Inv, TypeOK
  <1>3. s \notin hurt' => t \notin orphans'
    BY <1>1
  <1>4. failed' \in BOOLEAN /\ faults' \in 0..MaxFaults
    BY <1>1 DEF Inv, TypeOK
  <1>5. /\ orphans' = orphans \/ orphans' = orphans \ {t}
        /\ hurt' = hurt \/ hurt' = hurt \cup {s}
    BY <1>1
  <1> HIDE DEF valid
  <1>6. QED
    BY <1>1, <1>2, <1>3, <1>4, <1>5, TableKeeps

\* The rows of stock.
LEMMA StockKeeps ==
  ASSUME Inv, NEW s \in Servers, Snapshot(s) \/ Backfill(s)
  PROVE  Inv'
PROOF
  <1> USE DEF Inv, Goto, shared, local, history
  <1> DEFINE rows == seen[s] \X {branchID[s]}
  <1>1. /\ UNCHANGED <<schema, lock, orgs, orgID, branches, branchID, legacy, seeded,
                       orphans, products, gone, next, old, failed, miscounted, overlapped,
                       faults>>
        /\ Alone(s)
        /\ pc[s] \in {"snapshot", "backfill"} /\ pc'[s] \in {"backfill", "serving"}
        /\ s \in hurt => s \in hurt'
        /\ hurt' \subseteq Servers
        /\ pc' \in [Servers -> Steps \cup {"down", "serving"}]
    BY DEF Snapshot, Backfill, TypeOK, Alone, Steps
  <1>2. /\ \/ stocked' = stocked
           \/ /\ stocked' = stocked \cup rows
              /\ rows = {} \/ (branchID[s] # 0 /\ seen[s] \subseteq products)
        /\ seen' = seen \/ seen' = [seen EXCEPT
             ![s] = {p \in products : <<p, branchID[s]>> \notin stocked}]
    BY DEF Snapshot, Backfill
  <1>3. stocked \subseteq stocked'
    BY <1>2
  <1>4. TypeOK'
    <2>1. branchID[s] # 0 /\ seen[s] \subseteq products =>
            rows \subseteq products \X (1..branches)
      BY DEF TypeOK
    <2>2. stocked' \subseteq products \X (1..branches)
      BY <1>2, <2>1 DEF TypeOK
    <2>3. seen' \in [Servers -> SUBSET Products]
      BY <1>2 DEF TypeOK
    <2>4. QED
      BY <1>1, <2>2, <2>3 DEF TypeOK
  <1>5. NextInv' /\ SeenInv' /\ LegacyInv'
    BY <1>1, <1>3 DEF NextInv, SeenInv, LegacyInv, Alone, Early
  <1>6. ReachedInv'
    <2>1. \A t \in Servers : t # s /\ t \notin hurt' => Reached(t)'
      <3>1. seeded' >= seeded /\ seeded' \in Nat
        BY <1>1 DEF TypeOK
      <3>2. QED
        BY <1>1, <1>3, <3>1, OthersReached
    <2>2. s \notin hurt' => Reached(s)'
      <3> SUFFICES ASSUME s \notin hurt' PROVE Reached(s)'
        OBVIOUS
      <3>1. /\ orgID[s] # 0 /\ branchID[s] # 0 /\ HasUsers /\ orphans = {}
            /\ pc[s] = "backfill" =>
                 \A p \in old[s] \cap products :
                    p \in seen[s] \/ <<p, branchID[s]>> \in stocked
        BY <1>1 DEF ReachedInv, Reached, AfterOrg, AfterBranch, AfterUser, AfterTables
      <3>2. HasUsers'
        BY <1>1, <3>1 DEF HasUsers
      <3>3. CASE Snapshot(s)
        <4>1. /\ pc'[s] = "backfill" /\ stocked' = stocked
              /\ seen'[s] = {p \in products : <<p, branchID[s]>> \notin stocked}
          BY <3>3 DEF Snapshot, TypeOK
        <4>2. \A p \in old'[s] \cap products : p \in seen'[s] \/ <<p, branchID'[s]>> \in stocked'
          BY <1>1, <3>1, <4>1
        <4>3. QED
          BY <1>1, <3>1, <3>2, <4>1, <4>2 DEF Reached
      <3>4. CASE Backfill(s)
        <4>1. /\ pc'[s] = "serving" /\ pc[s] = "backfill"
              /\ stocked' = stocked \cup rows \/ rows = {}
          BY <3>4 DEF Backfill, TypeOK
        <4>2. \A p \in old'[s] \cap products : <<p, branchID'[s]>> \in stocked'
          BY <1>1, <1>3, <3>1, <4>1
        <4>3. QED
          BY <1>1, <3>1, <3>2, <4>1, <4>2 DEF Reached
      <3>5. QED
        BY <3>3, <3>4
    <2>3. QED
      BY <2>1, <2>2 DEF ReachedInv
  <1>7. AdminInv' /\ BranchInv'
    BY <1>1 DEF AdminInv, BranchInv, AdminIntoEmpty, SeedsOnce, Alone
  <1>8. QED
    BY <1>4, <1>5, <1>6, <1>7 DEF Inv

\* Who fails has nothing to keep, but counts no users.
LEMMA FailKeeps ==
  ASSUME Inv, NEW s \in Servers, Fail(s)
  PROVE  Inv'
PROOF
  <1> USE DEF Inv, Goto, shared, history
  <1>1. /\ UNCHANGED <<shared, orgID, branchID, seen, old, overlapped>>
        /\ hurt' = hurt \cup {s} /\ failed' = TRUE
        /\ faults' \in 0..MaxFaults
        /\ miscounted' = (miscounted \/ pc[s] = "countUsers")
        /\ pc' = [pc EXCEPT ![s] = AfterFailure(s)]
        /\ pc[s] \in Steps \ {"migrating"}
    BY FaultsAssumption DEF Fail, TypeOK
  <1>2. Alone(s)
    BY <1>1 DEF Alone, Fail, TypeOK
  <1>3. CASE pc[s] = "adopt"
    <2>1. NextTable(s)
      BY <1>1, <1>3 DEF Fail, NextTable, AfterFailure
    <2>2. s \in hurt' /\ failed' \in BOOLEAN /\ miscounted' = miscounted
      BY <1>1, <1>3 DEF TypeOK
    <2>3. QED
      BY <1>1, <1>2, <1>3, <2>1, <2>2, TableKeeps
  <1>4. CASE pc[s] # "adopt"
    <2>1. /\ next' = next
          /\ pc'[s] = AfterFailure(s)
          /\ pc'[s] \in {"down", "readBranch", "countUsers", "seedUser", "serving"}
          /\ pc'[s] = "seedUser" => pc[s] = "countUsers"
          /\ pc'[s] \in Early => pc[s] \in Early
      BY <1>1, <1>4 DEF Fail, AfterFailure, TypeOK, Early, Steps
    <2>2. TypeOK'
      <3>1. pc' \in [Servers -> Steps \cup {"down", "serving"}]
        BY <1>1, <2>1 DEF TypeOK, Steps
      <3>2. hurt' \subseteq Servers /\ failed' \in BOOLEAN /\ miscounted' \in BOOLEAN
        BY <1>1 DEF TypeOK
      <3>3. QED
        BY <1>1, <2>1, <3>1, <3>2 DEF TypeOK
    <2>3. NextInv' /\ SeenInv' /\ LegacyInv'
      BY <1>1, <1>2, <2>1 DEF NextInv, SeenInv, LegacyInv, Alone
    <2>4. ReachedInv'
      <3>1. \A t \in Servers : t # s /\ t \notin hurt' => Reached(t)'
        <4>1. seeded' >= seeded /\ seeded' \in Nat
          BY <1>1 DEF TypeOK
        <4>2. QED
          BY <1>1, <1>2, <4>1, OthersReached
      <3>2. QED
        BY <1>1, <3>1 DEF ReachedInv
    <2>5. AdminInv'
      BY <1>1, <1>2, <2>1 DEF AdminInv, AdminIntoEmpty, Alone, TypeOK
    <2>6. BranchInv'
      BY <1>1, <1>2, <2>1 DEF BranchInv, SeedsOnce, Alone
    <2>7. QED
      BY <2>2, <2>3, <2>4, <2>5, <2>6 DEF Inv
  <1>5. QED
    BY <1>3, <1>4

LEMMA ServeKeeps ==
  ASSUME Inv, NEW s \in Servers, Serve(s)
  PROVE  Inv'
PROOF
  <1> USE DEF Inv, local, history
  <1>1. /\ UNCHANGED <<schema, lock, orgs, branches, legacy, seeded, orphans, pc, local,
                       history>>
        /\ products' \subseteq Products /\ gone' \subseteq Products \ products'
        /\ products \cup gone \subseteq products' \cup gone'
        /\ products' \cap (products \cup gone) \subseteq products
        /\ stocked \subseteq stocked'
        /\ stocked' \subseteq products' \X (1..branches)
    <2>1. /\ stocked \subseteq products \X (1..branches) /\ products \subseteq Products
          /\ gone \subseteq Products \ products
      BY DEF TypeOK
    <2>2. UNCHANGED <<schema, lock, orgs, branches, legacy, seeded, orphans, pc, local,
                      history>>
      BY DEF Serve
    <2>3. CASE \E p \in Products \ (products \cup gone) :
                 products' = products \cup {p} /\ UNCHANGED <<gone, stocked>>
      BY <2>1, <2>2, <2>3
    <2>4. CASE \E p \in products, b \in 1..branches :
                 stocked' = stocked \cup {<<p, b>>} /\ UNCHANGED <<products, gone>>
      BY <2>1, <2>2, <2>4
    <2>5. ASSUME NEW p \in products, \A b \in 1..branches : <<p, b>> \notin stocked,
                 products' = products \ {p}, gone' = gone \cup {p}, UNCHANGED stocked
          PROVE  /\ products' \subseteq Products /\ gone' \subseteq Products \ products'
                 /\ products \cup gone \subseteq products' \cup gone'
                 /\ products' \cap (products \cup gone) \subseteq products
                 /\ stocked' \subseteq products' \X (1..branches)
      <3>1. stocked \subseteq (products \ {p}) \X (1..branches)
        BY <2>1, <2>5
      <3>2. QED
        BY <2>1, <2>5, <3>1
    <2>6. QED
      BY <2>2, <2>3, <2>4, <2>5 DEF Serve
  <1>2. TypeOK'
    BY <1>1 DEF TypeOK
  <1>3. NextInv' /\ SeenInv' /\ LegacyInv'
    BY <1>1 DEF NextInv, SeenInv, LegacyInv
  <1>4. \A t \in Servers : old'[t] \cap products' \subseteq old[t] \cap products
    BY <1>1 DEF SeenInv
  <1>5. ReachedInv'
    BY <1>1, <1>4 DEF ReachedInv, Reached, HasUsers
  <1>6. AdminInv' /\ BranchInv'
    BY <1>1 DEF AdminInv, BranchInv, AdminIntoEmpty, SeedsOnce
  <1>7. QED
    BY <1>2, <1>3, <1>5, <1>6 DEF Inv

THEOREM StartUpInv == Spec => []Inv
PROOF
  <1>1. Inv /\ [Next]_vars => Inv'
    <2> SUFFICES ASSUME Inv, [Next]_vars PROVE Inv'
      OBVIOUS
    <2>1. CASE \E s \in Servers : Start(s) \/ Crash(s)
      BY <2>1, BeginKeeps
    <2>2. CASE \E s \in Servers : Step(s)
      BY <2>2, BeginKeeps, OrgKeeps, BranchKeeps, UserKeeps, AdoptKeeps, StockKeeps
         DEF Step, Seed
    <2>3. CASE \E s \in Servers : Fail(s) \/ Serve(s)
      BY <2>3, FailKeeps, ServeKeeps
    <2>4. CASE Finished \/ UNCHANGED vars
      <3>1. UNCHANGED <<shared, pc, local, history>>
        BY <2>4 DEF Finished, vars
      <3> USE DEF shared, local, history, Inv
      <3>2. TypeOK' /\ NextInv' /\ SeenInv' /\ LegacyInv'
        BY <3>1 DEF TypeOK, NextInv, SeenInv, LegacyInv
      <3>3. ReachedInv'
        BY <3>1 DEF ReachedInv, Reached, HasUsers
      <3>4. AdminInv' /\ BranchInv'
        BY <3>1 DEF AdminInv, BranchInv, AdminIntoEmpty, SeedsOnce
      <3>5. QED
        BY <3>2, <3>3, <3>4
    <2>5. QED
      BY <2>1, <2>2, <2>3, <2>4 DEF Next
  <1>2. QED
    BY <1>1, StartUpInit, PTL DEF Spec

\* A starting server, and a row of stock, know only what exists in the database.
THEOREM StartUpTypes == Spec => []TypeOK
PROOF
  <1>1. Inv => TypeOK
    BY DEF Inv
  <1>2. QED
    BY <1>1, StartUpInv, PTL

\* seedDefaultOrg inserts one organisation, and a second branch only when two
\* servers were about to insert theirs together, for any number of servers.
THEOREM DefaultsSeededOnce == Spec => []SeedsOnce
PROOF
  <1>1. Inv => SeedsOnce
    BY DEF Inv, BranchInv
  <1>2. QED
    BY <1>1, StartUpInv, PTL

\* seedDefaultOrg inserts the administrator once, into a database without users,
\* unless its count of them failed.
THEOREM AdministratorSeededOnce == Spec => []AdminIntoEmpty
PROOF
  <1>1. Inv => AdminIntoEmpty
    BY DEF Inv, AdminInv
  <1>2. QED
    BY <1>1, StartUpInv, PTL

\* A server whose seeding met no error serves a complete database, however many
\* others start, fail and serve beside it.
THEOREM SeedingCompletes == Spec => []ServesComplete
PROOF
  <1>1. Inv => ServesComplete
    <2> SUFFICES ASSUME Inv, NEW s \in Servers, pc[s] = "serving", s \notin hurt
                 PROVE  /\ orgs > 0 /\ branches > 0 /\ HasUsers /\ orphans = {}
                        /\ \A p \in old[s] \cap products : <<p, branchID[s]>> \in stocked
      BY DEF ServesComplete
    <2>1. Reached(s)
      BY DEF Inv, ReachedInv
    <2>2. /\ orgID[s] \in 0..orgs /\ orgs \in Nat
          /\ branchID[s] \in 0..branches /\ branches \in Nat
      BY DEF Inv, TypeOK
    <2>3. QED
      BY <2>1, <2>2 DEF Reached, AfterOrg, AfterBranch, AfterUser, AfterTables
  <1>2. QED
    BY <1>1, StartUpInv, PTL
=============================================================================

------------------------------ MODULE StartUp ------------------------------
(***************************************************************************)
(* The start of a server: it connects, migrates the schema, and seeds the  *)
(* default organisation, branch and administrator, adopts the rows of an   *)
(* older deployment and gives every product a row of stock.  seedDefaultOrg *)
(* runs its statements one by one outside any transaction, at every start; *)
(* most of its errors are ignored, the others end the seeding, and the     *)
(* server serves in any case.  Servers may start together, crash anywhere  *)
(* and are started again.  A statement that fails has no effect.           *)
(***************************************************************************)
EXTENDS Integers, Sequences

CONSTANTS
  Servers,
  Tables,      \* the tables with an organization_id, in the order of seedDefaultOrg
  WithBranch,  \* those among them with a branch_id
  Products,
  MaxFaults,   \* bound on crashes and failed statements
  None         \* no server

TableSet == {Tables[i] : i \in 1..Len(Tables)}

ASSUME TablesAssumption ==
  /\ Len(Tables) \in Nat \ {0}
  /\ Tables \in Seq(TableSet)
  /\ Tables[1] = "users"
  /\ WithBranch \subseteq TableSet
ASSUME NoneAssumption == None \notin Servers
ASSUME FaultsAssumption == MaxFaults \in Nat

VARIABLES
  schema,      \* "old", "dirty" while a migration runs or was cut off, or "new"
  lock,        \* who holds the advisory lock of the migrations
  orgs,        \* the number of organisations
  branches,    \* the number of branches; their ids are 1..branches
  legacy,      \* the users of the older deployment
  seeded,      \* how often the administrator was inserted
  orphans,     \* the tables with rows of no organisation
  products,
  gone,        \* the products that were deleted: a SERIAL id is not given again
  stocked,     \* product_stocks: pairs of a product and a branch
  pc,          \* what each server does next
  orgID,       \* its variables in seedDefaultOrg
  branchID,
  next,        \* the table it adopts next
  seen,        \* the products its backfill found without stock
  old,         \* history: the products when it started
  hurt,        \* history: servers with an error in their last seeding
  failed,      \* history: a statement has failed
  miscounted,  \* history: COUNT(*) FROM users has failed
  overlapped,  \* history: two servers were about to insert the branch
  faults

shared == <<schema, lock, orgs, branches, legacy, seeded, orphans, products, gone, stocked>>
local == <<orgID, branchID, next, seen, old>>
history == <<hurt, failed, miscounted, overlapped, faults>>
vars == <<shared, pc, local, history>>

Steps == {"connect", "migrate", "migrating", "readOrg", "insertOrg", "readBranch",
          "insertBranch", "countUsers", "seedUser", "adopt", "snapshot", "backfill"}

\* There is a user.
HasUsers == legacy # {} \/ seeded > 0
-----------------------------------------------------------------------------
\* An empty database, or that of an older deployment.
Init ==
  /\ schema \in {"old", "new"}
  /\ lock = None
  /\ orgs = 0 /\ branches = 0 /\ seeded = 0
  /\ \E upgrade \in BOOLEAN :
       /\ legacy \in IF upgrade THEN {{"kasir"}, {"other"}} ELSE {{}}
       /\ orphans = IF upgrade THEN TableSet ELSE {}
       /\ products \in IF upgrade THEN SUBSET Products ELSE {{}}
  /\ gone = {} /\ stocked = {}
  /\ pc = [s \in Servers |-> "down"]
  /\ orgID = [s \in Servers |-> 0]
  /\ branchID = [s \in Servers |-> 0]
  /\ next = [s \in Servers |-> 1]
  /\ seen = [s \in Servers |-> {}]
  /\ old = [s \in Servers |-> {}]
  /\ hurt = {} /\ failed = FALSE /\ miscounted = FALSE /\ overlapped = FALSE
  /\ faults = 0

\* Server s goes on at the given step.
Goto(s, step) == pc' = [pc EXCEPT ![s] = step]

\* An error is logged and ends the seeding: the server serves all the same.
LogAndReturn(s) == Goto(s, "serving") /\ hurt' = hurt \cup {s}

Start(s) ==
  /\ pc[s] = "down"
  /\ Goto(s, "connect")
  /\ orgID' = [orgID EXCEPT ![s] = 0]
  /\ branchID' = [branchID EXCEPT ![s] = 0]
  /\ next' = [next EXCEPT ![s] = 1]
  /\ seen' = [seen EXCEPT ![s] = {}]
  /\ old' = [old EXCEPT ![s] = products]
  /\ hurt' = hurt \ {s}
  /\ UNCHANGED <<shared, failed, miscounted, overlapped, faults>>

InitDB(s) ==
  /\ pc[s] = "connect"
  /\ Goto(s, "migrate")
  /\ UNCHANGED <<shared, local, history>>

\* Mutant: ErrNoChange is an error.
RunMigrationsChanging(s) ==
  /\ pc[s] = "migrate"
  /\ lock = None
  /\ IF schema = "old"
     THEN schema' = "dirty" /\ lock' = s /\ Goto(s, "migrating")
     ELSE Goto(s, "down") /\ UNCHANGED <<schema, lock>>
  /\ UNCHANGED <<orgs, branches, legacy, seeded, orphans, products, gone, stocked,
                 local, history>>

\* Up waits for the lock.  A schema that a migration left dirty is an error,
\* which ends the program; a schema that is up to date is none.
RunMigrations(s) ==
  /\ pc[s] = "migrate"
  /\ lock = None
  /\ \/ /\ schema = "old"
        /\ schema' = "dirty" /\ lock' = s
        /\ Goto(s, "migrating")
     \/ /\ schema = "dirty"
        /\ Goto(s, "down")
        /\ UNCHANGED <<schema, lock>>
     \/ /\ schema = "new"
        /\ Goto(s, "readOrg")
        /\ UNCHANGED <<schema, lock>>
  /\ UNCHANGED <<orgs, branches, legacy, seeded, orphans, products, gone, stocked,
                 local, history>>

Migrated(s) ==
  /\ pc[s] = "migrating"
  /\ schema' = "new" /\ lock' = None
  /\ Goto(s, "readOrg")
  /\ UNCHANGED <<orgs, branches, legacy, seeded, orphans, products, gone, stocked,
                 local, history>>

\* Mutant: an organisation means that all has been seeded.
ReadOrgReturns(s) ==
  /\ pc[s] = "readOrg"
  /\ Goto(s, IF orgs = 0 THEN "insertOrg" ELSE "serving")
  /\ UNCHANGED <<shared, local, history>>

ReadOrg(s) ==
  /\ pc[s] = "readOrg"
  /\ IF orgs = 0
     THEN Goto(s, "insertOrg") /\ UNCHANGED orgID
     ELSE Goto(s, "readBranch") /\ orgID' = [orgID EXCEPT ![s] = 1]
  /\ UNCHANGED <<shared, branchID, next, seen, old, history>>

\* Mutant: slug is not unique.
InsertOrgAgain(s) ==
  /\ pc[s] = "insertOrg"
  /\ orgs' = orgs + 1
  /\ orgID' = [orgID EXCEPT ![s] = 1]
  /\ Goto(s, "readBranch")
  /\ UNCHANGED <<schema, lock, branches, legacy, seeded, orphans, products, gone,
                 stocked, branchID, next, seen, old, history>>

\* The slug is unique: the second of two servers ends its seeding here.
InsertOrg(s) ==
  /\ pc[s] = "insertOrg"
  /\ IF orgs = 0
     THEN /\ orgs' = 1
          /\ orgID' = [orgID EXCEPT ![s] = 1]
          /\ Goto(s, "readBranch")
          /\ UNCHANGED hurt
     ELSE LogAndReturn(s) /\ UNCHANGED <<orgs, orgID>>
  /\ UNCHANGED <<schema, lock, branches, legacy, seeded, orphans, products, gone,
                 stocked, branchID, next, seen, old, failed, miscounted,
                 overlapped, faults>>

ReadBranch(s) ==
  /\ pc[s] = "readBranch"
  /\ IF branches = 0
     THEN /\ Goto(s, "insertBranch")
          /\ overlapped' = (overlapped \/ \E t \in Servers : pc[t] = "insertBranch")
          /\ UNCHANGED branchID
     ELSE /\ Goto(s, "countUsers")
          /\ branchID' = [branchID EXCEPT ![s] = 1]
          /\ UNCHANGED overlapped
  /\ UNCHANGED <<shared, orgID, next, seen, old, hurt, failed, miscounted, faults>>

\* Nothing makes a branch unique; its organisation must exist.
InsertBranch(s) ==
  /\ pc[s] = "insertBranch"
  /\ IF orgID[s] # 0
     THEN /\ branches' = branches + 1
          /\ branchID' = [branchID EXCEPT ![s] = branches + 1]
          /\ Goto(s, "countUsers")
          /\ UNCHANGED hurt
     ELSE LogAndReturn(s) /\ UNCHANGED <<branches, branchID>>
  /\ UNCHANGED <<schema, lock, orgs, legacy, seeded, orphans, products, gone, stocked,
                 orgID, next, seen, old, failed, miscounted, overlapped, faults>>

\* Mutant: where there are users there is nothing to do.
CountUsersReturns(s) ==
  /\ pc[s] = "countUsers"
  /\ Goto(s, IF HasUsers THEN "serving" ELSE "seedUser")
  /\ UNCHANGED <<shared, local, history>>

\* Mutant: the administrator is always inserted.
CountNoUsers(s) ==
  /\ pc[s] = "countUsers"
  /\ Goto(s, "seedUser")
  /\ UNCHANGED <<shared, local, history>>

CountUsers(s) ==
  /\ pc[s] = "countUsers"
  /\ Goto(s, IF HasUsers THEN "adopt" ELSE "seedUser")
  /\ UNCHANGED <<shared, local, history>>

\* The username is unique and its organisation and branch must exist.  A server
\* that inserts the administrator does not adopt the users.
SeedUser(s) ==
  /\ pc[s] = "seedUser"
  /\ IF "kasir" \notin legacy /\ seeded = 0 /\ orgID[s] # 0 /\ branchID[s] # 0
     THEN /\ seeded' = seeded + 1
          /\ next' = [next EXCEPT ![s] = 2]
          /\ Goto(s, IF Len(Tables) > 1 THEN "adopt" ELSE "snapshot")
          /\ UNCHANGED hurt
     ELSE LogAndReturn(s) /\ UNCHANGED <<seeded, next>>
  /\ UNCHANGED <<schema, lock, orgs, branches, legacy, orphans, products, gone, stocked,
                 orgID, branchID, seen, old, failed, miscounted, overlapped, faults>>

\* Server s is done with a table, well or not.
NextTable(s) ==
  /\ next' = [next EXCEPT ![s] = @ + 1]
  /\ Goto(s, IF next[s] < Len(Tables) THEN "adopt" ELSE "snapshot")

\* UPDATE ... WHERE organization_id IS NULL: without rows to change the foreign
\* keys are not looked at; the error of an update is ignored.
Adopt(s) ==
  LET t == Tables[next[s]]
      valid == orgID[s] # 0 /\ (t \in WithBranch => branchID[s] # 0)
  IN /\ pc[s] = "adopt"
     /\ NextTable(s)
     /\ orphans' = IF valid THEN orphans \ {t} ELSE orphans
     /\ hurt' = IF valid \/ t \notin orphans THEN hurt ELSE hurt \cup {s}
     /\ UNCHANGED <<schema, lock, orgs, branches, legacy, seeded, products, gone, stocked,
                    orgID, branchID, seen, old, failed, miscounted, overlapped,
                    faults>>

\* INSERT INTO product_stocks ... SELECT takes a snapshot; a row that another
\* transaction has inserted since, or a product it has deleted, fails the whole
\* statement.
Snapshot(s) ==
  /\ pc[s] = "snapshot"
  /\ seen' = [seen EXCEPT ![s] = {p \in products : <<p, branchID[s]>> \notin stocked}]
  /\ Goto(s, "backfill")
  /\ UNCHANGED <<shared, orgID, branchID, next, old, history>>

Backfill(s) ==
  LET rows == seen[s] \X {branchID[s]}
      valid == rows = {} \/ (/\ branchID[s] # 0 /\ seen[s] \subseteq products
                           /\ rows \cap stocked = {})
  IN /\ pc[s] = "backfill"
     /\ Goto(s, "serving")
     /\ stocked' = IF valid THEN stocked \cup rows ELSE stocked
     /\ hurt' = IF valid THEN hurt ELSE hurt \cup {s}
     /\ UNCHANGED <<schema, lock, orgs, branches, legacy, seeded, orphans, products, gone,
                    local, failed, miscounted, overlapped, faults>>

\* The statement of server s fails: where it goes on.
AfterFailure(s) ==
  CASE pc[s] \in {"connect", "migrate"} -> "down"
    [] pc[s] = "readOrg" -> "readBranch"
    [] pc[s] = "readBranch" -> "countUsers"
    [] pc[s] = "countUsers" -> "seedUser"
    [] pc[s] = "adopt" -> IF next[s] < Len(Tables) THEN "adopt" ELSE "snapshot"
    [] OTHER -> "serving"

Fail(s) ==
  /\ pc[s] \in Steps \ {"migrating"}
  /\ faults < MaxFaults
  /\ faults' = faults + 1
  /\ Goto(s, AfterFailure(s))
  /\ next' = IF pc[s] = "adopt" THEN [next EXCEPT ![s] = @ + 1] ELSE next
  /\ hurt' = hurt \cup {s}
  /\ failed' = TRUE
  /\ miscounted' = (miscounted \/ pc[s] = "countUsers")
  /\ UNCHANGED <<shared, orgID, branchID, seen, old, overlapped>>

\* A server is killed or shut down; its connection gives the lock back, but a
\* migration that was running leaves the schema dirty.
Crash(s) ==
  /\ pc[s] # "down"
  /\ faults < MaxFaults
  /\ faults' = faults + 1
  /\ Goto(s, "down")
  /\ lock' = IF lock = s THEN None ELSE lock
  /\ UNCHANGED <<schema, orgs, branches, legacy, seeded, orphans, products, gone, stocked,
                 local, hurt, failed, miscounted, overlapped>>

\* A server that serves creates a product, or its first row of stock, or deletes
\* a product: the foreign key keeps one that has a row.
Serve(s) ==
  /\ pc[s] = "serving"
  /\ HasUsers /\ orgs > 0
  /\ \/ /\ \E p \in Products \ (products \cup gone) : products' = products \cup {p}
        /\ UNCHANGED <<gone, stocked>>
     \/ /\ \E p \in products, b \in 1..branches :
             <<p, b>> \notin stocked /\ stocked' = stocked \cup {<<p, b>>}
        /\ UNCHANGED <<products, gone>>
     \/ /\ \E p \in {q \in products : \A b \in 1..branches : <<q, b>> \notin stocked} :
             products' = products \ {p} /\ gone' = gone \cup {p}
        /\ UNCHANGED stocked
  /\ UNCHANGED <<schema, lock, orgs, branches, legacy, seeded, orphans, pc, local,
                 history>>

Finished ==
  /\ \A s \in Servers : pc[s] = "serving"
  /\ UNCHANGED vars
-----------------------------------------------------------------------------
Seed(s) ==
  \/ ReadOrg(s) \/ InsertOrg(s) \/ ReadBranch(s) \/ InsertBranch(s)
  \/ CountUsers(s) \/ SeedUser(s) \/ Adopt(s) \/ Snapshot(s) \/ Backfill(s)

Step(s) == InitDB(s) \/ RunMigrations(s) \/ Migrated(s) \/ Seed(s)

Next ==
  \/ \E s \in Servers : Start(s) \/ Step(s) \/ Fail(s) \/ Crash(s) \/ Serve(s)
  \/ Finished

Spec == Init /\ [][Next]_vars

\* The container of a server that has ended is started again (restart:
\* unless-stopped), and a server that runs goes on.
FairSpec == Spec /\ \A s \in Servers : WF_vars(Start(s)) /\ WF_vars(Step(s))
-----------------------------------------------------------------------------
(* Properties *)

\* The types of the state: a server and a row of stock know only organisations
\* and branches that exist, and a product with a row is not deleted.
TypeOK ==
  /\ schema \in {"old", "dirty", "new"}
  /\ lock \in Servers \cup {None}
  /\ orgs \in Nat /\ branches \in Nat /\ seeded \in Nat
  /\ legacy \subseteq {"kasir", "other"}
  /\ orphans \subseteq TableSet
  /\ products \subseteq Products
  /\ gone \subseteq Products \ products
  /\ stocked \subseteq products \X (1..branches)
  /\ pc \in [Servers -> Steps \cup {"down", "serving"}]
  /\ orgID \in [Servers -> 0..orgs]
  /\ branchID \in [Servers -> 0..branches]
  /\ next \in [Servers -> 1..(Len(Tables) + 1)]
  /\ seen \in [Servers -> SUBSET Products]
  /\ old \in [Servers -> SUBSET Products]
  /\ hurt \subseteq Servers
  /\ failed \in BOOLEAN /\ miscounted \in BOOLEAN /\ overlapped \in BOOLEAN
  /\ faults \in 0..MaxFaults

\* However often and however many servers start, crash and fail, there is one
\* default organisation, and a second main branch only when two servers were
\* about to insert theirs at the same time.
SeedsOnce == orgs <= 1 /\ (branches > 1 => overlapped)

\* The administrator is inserted once, and only into a database without users
\* ("when the database is empty"), unless the count of users failed; a user who
\* has the name is left alone even then.
AdminIntoEmpty ==
  /\ seeded <= 1
  /\ legacy # {} /\ seeded > 0 => miscounted /\ "kasir" \notin legacy

\* A server that serves after a seeding without an error, its own or a collision
\* with another server, serves a complete database: an organisation, a branch,
\* a user, no row of an older deployment left over, and a row of stock in its
\* branch for every product there was when it started and there still is.
ServesComplete ==
  \A s \in Servers : pc[s] = "serving" /\ s \notin hurt =>
    /\ orgs > 0 /\ branches > 0 /\ HasUsers
    /\ orphans = {}
    /\ \A p \in old[s] \cap products : <<p, branchID[s]>> \in stocked

Complete == orgs > 0 /\ branches > 0 /\ HasUsers /\ orphans = {}

\* Crashes and collisions between servers never keep the database from being
\* seeded in the end; a failed statement may, and a migration that was cut off.
EventuallySeeded == <>[](Complete \/ failed \/ schema = "dirty")

\* Every server ends serving, unless a migration was cut off.
EventuallyServes == \A s \in Servers : <>[](pc[s] = "serving" \/ schema = "dirty")
=============================================================================

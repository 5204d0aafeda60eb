------------------------------ MODULE Sessions ------------------------------
(***************************************************************************)
(* Sessions, users and branches.  A login answers with two tokens: an      *)
(* access token, a signed copy of the user's row that the server does not  *)
(* keep, and a refresh token, whose hash is a row of refresh_tokens.  The  *)
(* routes behind JWTAuth believe what the access token says until it       *)
(* expires.  A handler runs its statements one by one outside any          *)
(* transaction, so the row a token is signed from, and the password a      *)
(* change was compared with, may be old when they are used.  A request     *)
(* that has been answered stands for the client that keeps its tokens.     *)
(* There is one organisation: no route creates another.  Requests that are *)
(* refused by their form alone are left out.                               *)
(***************************************************************************)
EXTENDS Integers

CONSTANTS
  Requests,        \* the requests, each served once
  Earlier,         \* the logins among them that were answered before the start
  EarlierUser,     \* the user of each of them
  Users,           \* the usernames
  Passwords,
  Branches,        \* the branches that may be created
  InitialUsers,    \* the rows of users at the start
  InitialBranches, \* the branches at the start
  Names,           \* the names of branches
  Asks,            \* what each request may ask for
  AccessTTL,       \* ACCESS_TOKEN_TTL, in ticks
  RefreshTTL,      \* REFRESH_TOKEN_TTL, in ticks
  None             \* no row, no token, no request

Roles == {"admin", "cashier", ""}
Row == [password : Passwords, role : Roles, branch : Branches]
Access == [user : Users, role : Roles, branch : Branches, left : 0..AccessTTL]
Refresh == [user : Users, left : 0..RefreshTTL, revoked : BOOLEAN]

\* A request and what it presents: by is the request whose access token it
\* carries, of the login whose refresh token it names.
Ask ==
       [kind : {"login"}, user : Users, password : Passwords]
  \cup [kind : {"refresh"}, of : Requests]
  \cup [kind : {"logout"}, by : Requests, of : Requests \cup {None}]
  \cup [kind : {"switch"}, by : Requests, branch : Branches]
  \cup [kind : {"password"}, by : Requests, old : Passwords, new : Passwords]
  \cup [kind : {"role"}, by : Requests, user : Users, role : Roles]
  \cup [kind : {"create"}, by : Requests, user : Users, password : Passwords,
        role : Roles]
  \cup [kind : {"branch"}, by : Requests, name : Names]
  \cup [kind : {"rename"}, by : Requests, branch : Branches, name : Names]

ASSUME TTLAssumption == AccessTTL \in Nat \ {0} /\ RefreshTTL \in Nat \ {0}
ASSUME RequestsAssumption ==
  /\ Earlier \subseteq Requests
  /\ EarlierUser \in [Earlier -> Users]
  /\ Asks \in [Requests -> SUBSET Ask]
ASSUME RowsAssumption ==
  /\ InitialUsers \in [Users -> Row \cup {None}]
  /\ InitialBranches \in [Branches -> Names \cup {None}]
  /\ \A r \in Earlier : InitialUsers[EarlierUser[r]] # None
  /\ \A u \in Users :
       InitialUsers[u] # None => InitialBranches[InitialUsers[u].branch] # None
ASSUME NoneAssumption ==
  None \notin Row \cup Access \cup Refresh \cup Ask \cup Names \cup Requests

VARIABLES
  users,       \* the rows of users
  branches,    \* the name of each branch
  refresh,     \* the row of refresh_tokens each login inserted
  pc,          \* the statement each request runs next, or its answer
  ask,         \* what it asks for
  read,        \* the row of its user that it read
  token,       \* the access token it signed
  had,         \* history: the rows its user had since it came
  tooLate,     \* history: refreshes that came after the end of their session
  overlapped   \* history: password changes of one user under way together

vars == <<users, branches, refresh, pc, ask, read, token, had, tooLate,
          overlapped>>

Statements == {"find", "check", "sign", "store", "write"}
Answers == {"ok", "error", "unauthorized", "forbidden", "rejected"}
InFlight(r) == pc[r] \in Statements

\* The user a request is about.
Subject(a) ==
  CASE a.kind \in {"login", "role", "create"} -> a.user
    [] a.kind = "refresh" -> refresh[a.of].user
    [] OTHER -> token[a.by].user

\* The client has the tokens of answer r.
HasAccess(r) == pc[r] = "ok" /\ token[r] # None
HasRefresh(r) == pc[r] = "ok" /\ refresh[r] # None
-----------------------------------------------------------------------------
Init ==
  /\ users = InitialUsers
  /\ branches = InitialBranches
  /\ pc = [r \in Requests |-> IF r \in Earlier THEN "ok" ELSE "new"]
  /\ ask = [r \in Requests |->
              IF r \in Earlier
              THEN [kind |-> "login", user |-> EarlierUser[r],
                    password |-> InitialUsers[EarlierUser[r]].password]
              ELSE None]
  /\ read = [r \in Requests |->
               IF r \in Earlier THEN InitialUsers[EarlierUser[r]] ELSE None]
  /\ token = [r \in Requests |->
                IF r \in Earlier
                THEN [user |-> EarlierUser[r],
                      role |-> InitialUsers[EarlierUser[r]].role,
                      branch |-> InitialUsers[EarlierUser[r]].branch,
                      left |-> AccessTTL]
                ELSE None]
  /\ refresh = [r \in Requests |->
                  IF r \in Earlier
                  THEN [user |-> EarlierUser[r], left |-> RefreshTTL,
                        revoked |-> FALSE]
                  ELSE None]
  /\ had = [r \in Requests |->
              IF r \in Earlier THEN {InitialUsers[EarlierUser[r]]} ELSE {}]
  /\ tooLate = {}
  /\ overlapped = {}

\* JWTAuth and RequireRole judge the token a request presents by its claims
\* alone.
JWTAuth(t) == t.left # 0
RequireRole(t) == t.role = "admin"

\* The first statement of a request behind JWTAuth, and behind both.
Behind(t, first) == IF JWTAuth(t) THEN first ELSE "unauthorized"
BehindAdmin(t, first) ==
  Behind(t, IF RequireRole(t) THEN first ELSE "forbidden")

\* The password changes that are under way for the user of the change a.
Rivals(a) ==
  {s \in Requests : /\ a.kind = "password"
                    /\ InFlight(s)
                    /\ ask[s].kind = "password"
                    /\ Subject(ask[s]) = Subject(a)}

\* The refresh a comes after its session was logged out or has expired.
Late(a) ==
  /\ a.kind = "refresh"
  /\ \/ refresh[a.of].left = 0
     \/ \E s \in Requests : /\ pc[s] = "ok"
                            /\ ask[s].kind = "logout"
                            /\ ask[s].of = a.of

\* Request r comes and asks for a.
Enter(r, a, first) ==
  /\ ask' = [ask EXCEPT ![r] = a]
  /\ pc' = [pc EXCEPT ![r] = first]
  /\ had' = [had EXCEPT ![r] = {users[Subject(a)]} \ {None}]
  /\ tooLate' = IF Late(a) THEN tooLate \cup {r} ELSE tooLate
  /\ overlapped' = IF Rivals(a) = {} THEN overlapped
                                     ELSE overlapped \cup Rivals(a) \cup {r}
  /\ UNCHANGED <<users, branches, refresh, read, token>>

HandleLogin(r, a) == a.kind = "login" /\ Enter(r, a, "find")

HandleRefresh(r, a) ==
  a.kind = "refresh" /\ HasRefresh(a.of) /\ Enter(r, a, "find")

\* A logout may name no refresh token: then there is nothing to revoke.
HandleLogout(r, a) ==
  /\ a.kind = "logout"
  /\ HasAccess(a.by)
  /\ a.of # None => HasRefresh(a.of)
  /\ Enter(r, a, Behind(token[a.by], IF a.of = None THEN "ok" ELSE "write"))

HandleSwitchBranch(r, a) ==
  /\ a.kind = "switch"
  /\ HasAccess(a.by)
  /\ Enter(r, a, Behind(token[a.by], "find"))

HandleChangePassword(r, a) ==
  /\ a.kind = "password"
  /\ HasAccess(a.by)
  /\ Enter(r, a, Behind(token[a.by], "find"))

\* POST /users looks the name up first; PUT /users/{id} writes the role at once.
HandleUsers(r, a) ==
  /\ a.kind = "create"
  /\ HasAccess(a.by)
  /\ Enter(r, a, BehindAdmin(token[a.by], "find"))

HandleUpdateUserRole(r, a) ==
  /\ a.kind = "role"
  /\ HasAccess(a.by)
  /\ Enter(r, a, BehindAdmin(token[a.by], "write"))

HandleBranches(r, a) ==
  /\ a.kind = "branch"
  /\ HasAccess(a.by)
  /\ Enter(r, a, BehindAdmin(token[a.by], "write"))

HandleBranchByID(r, a) ==
  /\ a.kind = "rename"
  /\ HasAccess(a.by)
  /\ Enter(r, a, BehindAdmin(token[a.by], "find"))

Arrive(r) ==
  /\ pc[r] = "new"
  /\ \E a \in Asks[r] :
       \/ HandleLogin(r, a) \/ HandleRefresh(r, a) \/ HandleLogout(r, a)
       \/ HandleSwitchBranch(r, a) \/ HandleChangePassword(r, a)
       \/ HandleUsers(r, a) \/ HandleUpdateUserRole(r, a)
       \/ HandleBranches(r, a) \/ HandleBranchByID(r, a)

\* Request r of this kind has read a row of users, and goes on or is answered.
Read(r, kind, row, next) ==
  /\ pc[r] = "find"
  /\ ask[r].kind = kind
  /\ read' = [read EXCEPT ![r] = row]
  /\ pc' = [pc EXCEPT ![r] = next]
  /\ UNCHANGED <<users, branches, refresh, ask, token, had, tooLate, overlapped>>

\* The row of the user a request is about, or None: FindByUsername and FindByID.
UserRow(r) == users[Subject(ask[r])]

\* An unknown name and a wrong password are answered as an error of the server:
\* Login does not return the ErrInvalidCredentials its handler looks for.
Login(r) ==
  LET row == UserRow(r)
      known == row # None /\ row.password = ask[r].password
  IN Read(r, "login", IF known THEN row ELSE None,
          IF known THEN "sign" ELSE "error")

CreateUser(r) ==
  Read(r, "create", None, IF UserRow(r) = None THEN "write" ELSE "rejected")

\* Mutant: the user is what the token says.
SwitchBranchFromClaims(r) ==
  Read(r, "switch", [UserRow(r) EXCEPT !.role = token[ask[r].by].role], "check")

SwitchBranch(r) == Read(r, "switch", UserRow(r), "check")

\* Mutant: the current password is not compared.
ChangePasswordUnverified(r) == Read(r, "password", UserRow(r), "write")

ChangePassword(r) ==
  Read(r, "password", UserRow(r),
       IF UserRow(r).password = ask[r].old THEN "write" ELSE "rejected")

\* Mutant: the query forgets revoked_at.
FindUserByRevokedToken(r) == refresh[ask[r].of].left > 0

\* The query of a refresh finds its user.
FindUserByRefreshToken(r) ==
  ~refresh[ask[r].of].revoked /\ refresh[ask[r].of].left > 0

RefreshAccess(r) ==
  Read(r, "refresh", IF FindUserByRefreshToken(r) THEN UserRow(r) ELSE None,
       IF FindUserByRefreshToken(r) THEN "sign" ELSE "unauthorized")

BelongsToOrg(r) ==
  /\ pc[r] = "check"
  /\ pc' = [pc EXCEPT ![r] = IF branches[ask[r].branch] # None THEN "sign"
                                                               ELSE "rejected"]
  /\ UNCHANGED <<users, branches, refresh, ask, read, token, had, tooLate,
                 overlapped>>

\* Request r signs a token; a login then stores its refresh token.
Issue(r, t) ==
  /\ pc[r] = "sign"
  /\ token' = [token EXCEPT ![r] = t]
  /\ pc' = [pc EXCEPT ![r] = IF ask[r].kind = "login" THEN "store" ELSE "ok"]
  /\ UNCHANGED <<users, branches, refresh, ask, read, had, tooLate, overlapped>>

\* Mutant: the claims have no exp.
SignWithoutExp(r) ==
  Issue(r, [user |-> Subject(ask[r]), role |-> read[r].role,
            branch |-> IF ask[r].kind = "switch" THEN ask[r].branch
                                                 ELSE read[r].branch,
            left |-> -1])

\* signAccessToken, and the claims of SwitchBranch, which differ in the branch.
Sign(r) ==
  Issue(r, [user |-> Subject(ask[r]), role |-> read[r].role,
            branch |-> IF ask[r].kind = "switch" THEN ask[r].branch
                                                 ELSE read[r].branch,
            left |-> AccessTTL])

\* A write took effect; its answer may be an error all the same.
Written(r) == \E answer \in {"ok", "error"} : pc' = [pc EXCEPT ![r] = answer]

CreateRefreshToken(r) ==
  /\ pc[r] = "store"
  /\ refresh' = [refresh EXCEPT ![r] = [user |-> ask[r].user,
                                        left |-> RefreshTTL, revoked |-> FALSE]]
  /\ Written(r)
  /\ UNCHANGED <<users, branches, ask, read, token, had, tooLate, overlapped>>

RevokeRefreshToken(r) ==
  /\ pc[r] = "write"
  /\ ask[r].kind = "logout"
  /\ refresh' = [refresh EXCEPT ![ask[r].of].revoked = TRUE]
  /\ Written(r)
  /\ UNCHANGED <<users, branches, ask, read, token, had, tooLate, overlapped>>

\* The row of user u becomes row; the requests under way for u see it pass.
SetUser(u, row) ==
  /\ users' = [users EXCEPT ![u] = row]
  /\ had' = [s \in Requests |->
               IF InFlight(s) /\ Subject(ask[s]) = u THEN had[s] \cup {row}
                                                     ELSE had[s]]
  /\ UNCHANGED <<branches, refresh, ask, read, token, tooLate, overlapped>>

UpdatePassword(r) ==
  LET u == Subject(ask[r])
  IN /\ pc[r] = "write"
     /\ ask[r].kind = "password"
     /\ SetUser(u, [users[u] EXCEPT !.password = ask[r].new])
     /\ Written(r)

\* UPDATE users SET role: changing no row is no error.
UpdateRole(r) ==
  LET u == ask[r].user
  IN /\ pc[r] = "write"
     /\ ask[r].kind = "role"
     /\ IF users[u] # None
        THEN SetUser(u, [users[u] EXCEPT !.role = ask[r].role])
        ELSE UNCHANGED <<users, branches, refresh, ask, read, token, had,
                         tooLate, overlapped>>
     /\ Written(r)

\* The row CreateUser inserts, in the branch of the token.
NewRow(r) ==
  [password |-> ask[r].password,
   role |-> IF ask[r].role = "" THEN "cashier" ELSE ask[r].role,
   branch |-> token[ask[r].by].branch]

\* Mutant: an upsert, or no unique index.
CreateAgain(r) ==
  /\ pc[r] = "write"
  /\ ask[r].kind = "create"
  /\ SetUser(ask[r].user, NewRow(r))
  /\ Written(r)

\* INSERT INTO users: the unique username decides between those that looked the
\* name up together; every error is answered as a bad request.
Create(r) ==
  /\ pc[r] = "write"
  /\ ask[r].kind = "create"
  /\ IF users[ask[r].user] = None
     THEN /\ SetUser(ask[r].user, NewRow(r))
          /\ \E answer \in {"ok", "rejected"} : pc' = [pc EXCEPT ![r] = answer]
     ELSE /\ pc' = [pc EXCEPT ![r] = "rejected"]
          /\ UNCHANGED <<users, branches, refresh, ask, read, token, had,
                         tooLate, overlapped>>

\* HandleBranchByID looks the branch up before it renames it.
FindBranch(r) ==
  /\ pc[r] = "find"
  /\ ask[r].kind = "rename"
  /\ pc' = [pc EXCEPT ![r] = IF branches[ask[r].branch] # None THEN "write"
                                                               ELSE "rejected"]
  /\ UNCHANGED <<users, branches, refresh, ask, read, token, had, tooLate,
                 overlapped>>

\* INSERT INTO branches under a new id, or UPDATE branches.
WriteBranch(r) ==
  /\ pc[r] = "write"
  /\ \E b \in Branches :
       /\ \/ ask[r].kind = "branch" /\ branches[b] = None
          \/ ask[r].kind = "rename" /\ ask[r].branch = b
       /\ branches' = [branches EXCEPT ![b] = ask[r].name]
  /\ \E answer \in {"ok", "rejected"} : pc' = [pc EXCEPT ![r] = answer]
  /\ UNCHANGED <<users, refresh, ask, read, token, had, tooLate, overlapped>>

\* A statement fails, or the server dies: the request ends without effect.  A
\* lookup of CreateUser that fails is answered as if the name were taken.
Fail(r) ==
  /\ InFlight(r)
  /\ pc' = [pc EXCEPT ![r] = IF ask[r].kind \in {"create", "branch", "rename"}
                             THEN "rejected" ELSE "error"]
  /\ UNCHANGED <<users, branches, refresh, ask, read, token, had, tooLate,
                 overlapped>>

\* Time passes for every token.
Tick ==
  /\ \E r \in Requests : \/ token[r] # None /\ token[r].left > 0
                         \/ refresh[r] # None /\ refresh[r].left > 0
  /\ token' = [r \in Requests |->
                 IF token[r] # None /\ token[r].left > 0
                 THEN [token[r] EXCEPT !.left = @ - 1] ELSE token[r]]
  /\ refresh' = [r \in Requests |->
                   IF refresh[r] # None /\ refresh[r].left > 0
                   THEN [refresh[r] EXCEPT !.left = @ - 1] ELSE refresh[r]]
  /\ UNCHANGED <<users, branches, pc, ask, read, had, tooLate, overlapped>>

Finished ==
  /\ \A r \in Requests : pc[r] \in Answers
  /\ UNCHANGED vars
-----------------------------------------------------------------------------
Statement(r) ==
  \/ Login(r) \/ CreateUser(r) \/ SwitchBranch(r) \/ ChangePassword(r)
  \/ RefreshAccess(r)
  \/ BelongsToOrg(r) \/ Sign(r) \/ CreateRefreshToken(r)
  \/ RevokeRefreshToken(r) \/ UpdatePassword(r) \/ UpdateRole(r) \/ Create(r)
  \/ FindBranch(r) \/ WriteBranch(r)

Next ==
  \/ \E r \in Requests : Arrive(r) \/ Statement(r) \/ Fail(r)
  \/ Tick
  \/ Finished

Spec == Init /\ [][Next]_vars

\* A goroutine runs on and time passes; nothing makes a client come or a
\* statement fail.
FairSpec == Spec /\ WF_vars(Tick) /\ \A r \in Requests : WF_vars(Statement(r))
-----------------------------------------------------------------------------
(* Properties *)

\* The types of the state.
TypeOK ==
  /\ users \in [Users -> Row \cup {None}]
  /\ branches \in [Branches -> Names \cup {None}]
  /\ refresh \in [Requests -> Refresh \cup {None}]
  /\ pc \in [Requests -> {"new"} \cup Statements \cup Answers]
  /\ ask \in [Requests -> Ask \cup {None}]
  /\ read \in [Requests -> Row \cup {None}]
  /\ token \in [Requests -> Access \cup {None}]
  /\ had \in [Requests -> SUBSET Row]
  /\ tooLate \subseteq Requests
  /\ overlapped \subseteq Requests

\* A token says of its user what was so at some moment while the request that
\* signed it ran, never what another token said: one row of that time has its
\* role, its branch unless the request switched it, and the password a login
\* gave (signAccessToken and SwitchBranch sign from a row they have read).
FreshClaims ==
  \A r \in Requests : token[r] # None =>
    /\ branches[token[r].branch] # None
    /\ \E row \in had[r] :
         /\ row.role = token[r].role
         /\ ask[r].kind # "switch" => row.branch = token[r].branch
         /\ ask[r].kind = "login" => row.password = ask[r].password

\* Once a logout has been answered, or its refresh token has expired, a session
\* yields no new access token to a request that comes later, whatever failed.
RevokedStaysRevoked == \A r \in tooLate : pc[r] # "ok"

\* At most one of the requests that create a user is answered with success, and
\* none for a name that was taken, although they look the name up before they
\* insert it ("username already exists").
CreatedOnce ==
  \A r, s \in {q \in Requests : pc[q] = "ok" /\ ask[q].kind = "create"} :
    /\ InitialUsers[ask[r].user] = None
    /\ ask[r].user = ask[s].user => r = s

\* A password is replaced by someone who knew it: what ChangePassword compared
\* is still the password when it writes, unless two changes of one user ran
\* together.
VerifiedPasswordStands ==
  \A r \in Requests \ overlapped :
    pc[r] = "write" /\ ask[r].kind = "password"
      => users[Subject(ask[r])].password = ask[r].old

\* A client holds a token that opens the admin routes for user u.
AdminToken(u) == \E r \in Requests : /\ HasAccess(r)
                                      /\ token[r].user = u
                                      /\ JWTAuth(token[r])
                                      /\ RequireRole(token[r])

\* A change of role does not touch the tokens that are out, but it takes effect:
\* a user who stays demoted ends without a token for the admin routes, refreshes
\* and switches of branch that were under way included.
DemotionTakesEffect ==
  \A u \in Users :
    <>[](users[u] # None /\ users[u].role # "admin") => <>[]~AdminToken(u)
=============================================================================

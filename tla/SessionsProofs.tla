--------------------------- MODULE SessionsProofs ---------------------------
(***************************************************************************)
(* Proofs about Sessions.  The invariant says what every statement can     *)
(* rely on: what a request presents was given out and stays, the row it    *)
(* has read is one its user had since it came, tokens name users and       *)
(* branches that exist, and what was answered stays answered.              *)
(***************************************************************************)
EXTENDS Sessions, TLAPS

Guarded == {"logout", "switch", "password", "role", "create", "branch", "rename"}

\* What a request presents was given to a client.
Presented(a) ==
  /\ a.kind \in Guarded => HasAccess(a.by)
  /\ a.kind = "refresh" => HasRefresh(a.of)
  /\ a.kind = "logout" /\ a.of # None => HasRefresh(a.of)

AskInv == \A r \in Requests :
  /\ pc[r] = "new" <=> ask[r] = None
  /\ ask[r] # None => Presented(ask[r])

\* The statements of each kind of request.
StageInv == \A r \in Requests :
  /\ pc[r] = "check" => ask[r].kind = "switch"
  /\ pc[r] = "sign" => ask[r].kind \in {"login", "switch", "refresh"}
  /\ pc[r] = "store" => ask[r].kind = "login"
  /\ pc[r] = "write" => /\ ask[r].kind \in Guarded \ {"switch"}
                        /\ ask[r].kind = "logout" => ask[r].of # None

\* Tokens are signed late and name users and branches that exist.
TokenInv == \A r \in Requests :
  /\ token[r] # None => /\ pc[r] \in {"store", "ok", "error"}
                        /\ users[token[r].user] # None
                        /\ branches[token[r].branch] # None
  /\ refresh[r] # None => /\ pc[r] \in {"ok", "error"}
                          /\ users[refresh[r].user] # None

\* The branch of a user exists.
RowInv == \A u \in Users : users[u] # None => branches[users[u].branch] # None

\* A request has seen the rows of its user pass, and read one of them.
HadInv == \A r \in Requests :
  InFlight(r) /\ users[Subject(ask[r])] # None => users[Subject(ask[r])] \in had[r]

ReadInv == \A r \in Requests : pc[r] \in {"check", "sign", "store"} =>
  /\ users[Subject(ask[r])] # None
  /\ read[r] \in had[r]
  /\ branches[read[r].branch] # None
  /\ ask[r].kind = "login" => read[r].password = ask[r].password
  /\ pc[r] = "sign" /\ ask[r].kind = "switch" => branches[ask[r].branch] # None

\* A token says what one of the rows said.
ClaimInv == \A r \in Requests : token[r] # None =>
  \E row \in had[r] :
    /\ row.role = token[r].role
    /\ ask[r].kind # "switch" => row.branch = token[r].branch
    /\ ask[r].kind = "login" => row.password = ask[r].password

\* Sessions that have ended stay so, and who came too late finds no user.
LogoutInv ==
  /\ \A r \in Requests :
       pc[r] = "ok" /\ ask[r].kind = "logout" /\ ask[r].of # None
         => refresh[ask[r].of].revoked
  /\ \A r \in tooLate :
       /\ ask[r] # None /\ ask[r].kind = "refresh"
       /\ refresh[ask[r].of].left = 0 \/ refresh[ask[r].of].revoked
       /\ pc[r] \in {"find", "error", "unauthorized"}

\* A name that is taken stays taken, and was free when it was created.
NameInv ==
  /\ \A u \in Users : InitialUsers[u] # None => users[u] # None
  /\ \A r \in Requests :
       pc[r] = "ok" /\ ask[r].kind = "create" =>
         /\ users[ask[r].user] # None
         /\ InitialUsers[ask[r].user] = None
  /\ CreatedOnce

\* Two changes of a user's password under way together know of each other.
Changing(r) == InFlight(r) /\ ask[r].kind = "password"

RivalInv ==
  /\ \A r, s \in Requests :
       r # s /\ Changing(r) /\ Changing(s) /\ Subject(ask[r]) = Subject(ask[s])
         => r \in overlapped
  /\ VerifiedPasswordStands

Inv == /\ TypeOK /\ AskInv /\ StageInv /\ TokenInv /\ RowInv /\ HadInv /\ ReadInv
       /\ ClaimInv /\ LogoutInv /\ NameInv /\ RivalInv
-----------------------------------------------------------------------------
\* What a request says, by its kind.
LEMMA AskFields ==
  ASSUME NEW a \in Ask
  PROVE  /\ a.kind \in Guarded \cup {"login", "refresh"}
         /\ a.kind \in {"login", "role", "create"} => a.user \in Users
         /\ a.kind \in {"login", "create"} => a.password \in Passwords
         /\ a.kind \in {"role", "create"} => a.role \in Roles
         /\ a.kind \in Guarded => a.by \in Requests
         /\ a.kind = "refresh" => a.of \in Requests
         /\ a.kind = "logout" /\ a.of # None => a.of \in Requests
         /\ a.kind \in {"switch", "rename"} => a.branch \in Branches
         /\ a.kind = "password" => a.old \in Passwords /\ a.new \in Passwords
         /\ a.kind \in {"branch", "rename"} => a.name \in Names
PROOF
  BY DEF Ask, Guarded

\* No step takes back what was given to a client.
Kept ==
  /\ \A x \in Requests : HasAccess(x) =>
       HasAccess(x)' /\ token'[x].user = token[x].user
  /\ \A x \in Requests : HasRefresh(x) =>
       HasRefresh(x)' /\ refresh'[x].user = refresh[x].user

LEMMA SubjectStays ==
  ASSUME Kept, NEW a \in Ask, Presented(a)
  PROVE  Presented(a)' /\ Subject(a)' = Subject(a)
PROOF
  BY AskFields DEF Kept, Presented, Subject, Guarded

\* The user of a request under way that is neither a login nor a creation exists.
LEMMA SubjectTypes ==
  ASSUME TypeOK, TokenInv, NEW a \in Ask, Presented(a)
  PROVE  /\ Subject(a) \in Users
         /\ a.kind \notin {"login", "create", "role"} => users[Subject(a)] # None
         /\ users[Subject(a)] \in Row \cup {None}
PROOF
  <1>1. CASE a.kind \in {"login", "create", "role"}
    BY <1>1, AskFields DEF Subject, TypeOK
  <1>2. CASE a.kind = "refresh"
    BY <1>2, AskFields, NoneAssumption
       DEF Subject, TypeOK, Presented, HasRefresh, TokenInv, Refresh
  <1>3. CASE a.kind \in Guarded \ {"create", "role"}
    BY <1>3, AskFields, NoneAssumption
       DEF Subject, TypeOK, Presented, HasAccess, TokenInv, Access, Guarded
  <1>4. QED
    BY <1>1, <1>2, <1>3, AskFields

LEMMA SessionsInit == Init => Inv
PROOF
  <1> SUFFICES ASSUME Init PROVE Inv
    OBVIOUS
  <1> USE RequestsAssumption, RowsAssumption, NoneAssumption, TTLAssumption DEF Init
  <1>1. \A r \in Earlier : InitialUsers[EarlierUser[r]] \in Row
    OBVIOUS
  <1>2. \A r \in Earlier :
          /\ InitialUsers[EarlierUser[r]].password \in Passwords
          /\ InitialUsers[EarlierUser[r]].role \in Roles
          /\ InitialUsers[EarlierUser[r]].branch \in Branches
    BY <1>1 DEF Row
  <1>3. \A r \in Earlier :
          [kind |-> "login", user |-> EarlierUser[r],
           password |-> InitialUsers[EarlierUser[r]].password] \in Ask
    BY <1>2 DEF Ask
  <1>4. TypeOK
    <2>1. token \in [Requests -> Access \cup {None}]
      BY <1>2 DEF Access
    <2>2. refresh \in [Requests -> Refresh \cup {None}]
      BY DEF Refresh
    <2>3. ask \in [Requests -> Ask \cup {None}]
      BY <1>3
    <2>4. /\ read \in [Requests -> Row \cup {None}]
          /\ had \in [Requests -> SUBSET Row]
          /\ pc \in [Requests -> {"new"} \cup Statements \cup Answers]
      BY <1>1 DEF Statements, Answers
    <2>5. users \in [Users -> Row \cup {None}] /\ branches \in [Branches -> Names \cup {None}]
      OBVIOUS
    <2>6. tooLate \subseteq Requests /\ overlapped \subseteq Requests
      OBVIOUS
    <2>7. QED
      BY <2>1, <2>2, <2>3, <2>4, <2>5, <2>6 DEF TypeOK
  <1>5. AskInv
    <2>1. \A r \in Earlier : ask[r] \in Ask
      BY <1>3
    <2>2. None \notin Ask
      BY NoneAssumption
    <2>3. QED
      BY <2>1, <2>2 DEF AskInv, Presented, Guarded
  <1>6. StageInv
    BY DEF StageInv
  <1>7. TokenInv /\ RowInv
    BY <1>1 DEF TokenInv, RowInv, Row
  <1>8. HadInv /\ ReadInv /\ LogoutInv /\ NameInv /\ RivalInv
    BY DEF HadInv, ReadInv, LogoutInv, NameInv, RivalInv, VerifiedPasswordStands,
           CreatedOnce, InFlight, Statements, Changing
  <1>9. ClaimInv
    BY DEF ClaimInv
  <1>10. QED
    BY <1>4, <1>5, <1>6, <1>7, <1>8, <1>9 DEF Inv

\* Coming in keeps the invariant, whatever lets the request through.
LEMMA EnterKeeps ==
  ASSUME Inv, NEW r \in Requests, NEW a \in Ask, NEW first,
         pc[r] = "new", Presented(a), Enter(r, a, first),
         first \in {"find", "write", "ok", "unauthorized", "forbidden"},
         first = "write" => /\ a.kind \in {"logout", "role", "branch"}
                            /\ a.kind = "logout" => a.of # None,
         first = "ok" => a.kind = "logout" /\ a.of = None,
         a.kind = "refresh" => first = "find"
  PROVE  Inv'
PROOF
  <1> USE DEF Inv, Enter
  <1>1. Kept /\ \A b \in Ask : Presented(b) => Presented(b)' /\ Subject(b)' = Subject(b)
    <2>1. Kept
      BY DEF TypeOK, Kept, HasAccess, HasRefresh
    <2>2. QED
      BY <2>1, SubjectStays
  <1>2. \A s \in Requests : ask[s] # None => ask[s] \in Ask /\ Presented(ask[s])
    BY DEF TypeOK, AskInv
  <1>3. ask' \in [Requests -> Ask \cup {None}] /\ ask'[r] = a /\ a # None
    BY NoneAssumption DEF TypeOK
  <1>4. \A s \in Requests : s # r => ask'[s] = ask[s] /\ pc'[s] = pc[s] /\ had'[s] = had[s]
    BY DEF TypeOK
  <1>5. pc'[r] = first /\ had'[r] = {users[Subject(a)]} \ {None} /\ ask[r] = None
    BY DEF TypeOK, AskInv
  <1>6. r \notin tooLate /\ token[r] = None /\ refresh[r] = None
    BY <1>5 DEF LogoutInv, TokenInv
  <1>7. TypeOK'
    <2>1. had' \in [Requests -> SUBSET Row]
      BY SubjectTypes DEF TypeOK
    <2>2. overlapped' \subseteq Requests /\ tooLate' \subseteq Requests
      BY DEF TypeOK, Rivals
    <2>3. pc' \in [Requests -> {"new"} \cup Statements \cup Answers]
      BY DEF TypeOK, Statements, Answers
    <2>4. QED
      BY <1>3, <2>1, <2>2, <2>3 DEF TypeOK
  <1>8. AskInv'
    BY <1>1, <1>2, <1>3, <1>4, <1>5 DEF AskInv
  <1>9. StageInv'
    BY <1>3, <1>4, <1>5 DEF StageInv, Guarded
  <1>10. TokenInv'
    BY <1>4, <1>5, <1>6 DEF TokenInv
  <1>11. RowInv'
    BY DEF RowInv
  <1>12. HadInv'
    <2>1. \A s \in Requests : s # r => (InFlight(s)' <=> InFlight(s))
      BY <1>4 DEF InFlight
    <2>2. \A s \in Requests : s # r /\ InFlight(s) => Subject(ask[s])' = Subject(ask[s])
      BY <1>1, <1>2, <1>4 DEF InFlight, Statements, AskInv, TypeOK
    <2>3. Subject(ask[r])' = Subject(a)
      BY <1>1, <1>3
    <2>4. QED
      BY <1>4, <1>5, <2>1, <2>2, <2>3 DEF HadInv
  <1>13. ReadInv'
    <2>1. \A s \in Requests : s # r /\ pc[s] # "new" => Subject(ask[s])' = Subject(ask[s])
      BY <1>1, <1>2, <1>4 DEF AskInv
    <2>2. QED
      BY <1>4, <1>5, <2>1 DEF ReadInv
  <1>14. ClaimInv'
    BY <1>4, <1>6 DEF ClaimInv
  <1>15. LogoutInv'
    <2>1. \A s \in Requests : pc'[s] = "ok" /\ ask'[s].kind = "logout" /\ ask'[s].of # None
            => refresh'[ask'[s].of].revoked
      BY <1>3, <1>4, <1>5 DEF LogoutInv
    <2>2. Late(a) => refresh[a.of].left = 0 \/ refresh[a.of].revoked
      BY AskFields, NoneAssumption DEF Late, LogoutInv
    <2>3. Late(a) => a.kind = "refresh" /\ first = "find"
      BY DEF Late
    <2>4. QED
      BY <1>3, <1>4, <1>5, <1>6, <2>1, <2>2, <2>3 DEF LogoutInv
  <1>16. NameInv'
    BY <1>3, <1>4, <1>5 DEF NameInv, CreatedOnce
  <1>17. RivalInv'
    <2>1. \A s \in Requests : s # r => (Changing(s)' <=> Changing(s))
      BY <1>4 DEF InFlight, Changing
    <2>2. \A s \in Requests : Changing(s) => Subject(ask[s])' = Subject(ask[s])
      BY <1>1, <1>2, <1>4 DEF InFlight, Statements, AskInv, TypeOK, Changing
    <2>3. Subject(ask[r])' = Subject(a)
      BY <1>1, <1>3
    <2>4. overlapped \subseteq overlapped'
      OBVIOUS
    <2>5. \A s \in Requests : Changing(s) /\ Subject(ask[s]) = Subject(a) /\ a.kind = "password"
            => s \in overlapped' /\ r \in overlapped'
      BY DEF Rivals, Changing
    <2>6. VerifiedPasswordStands'
      <3>1. \A s \in Requests : s # r /\ pc[s] = "write" /\ ask[s].kind = "password" => Changing(s)
        BY DEF Changing, InFlight, Statements
      <3>2. ~(pc'[r] = "write" /\ ask'[r].kind = "password")
        BY <1>3, <1>5
      <3>3. QED
        BY <1>4, <2>2, <2>4, <3>1, <3>2 DEF VerifiedPasswordStands, RivalInv
    <2>7. QED
      BY <1>3, <1>4, <2>1, <2>2, <2>3, <2>4, <2>5, <2>6 DEF RivalInv, Changing
  <1>18. QED
    BY <1>7, <1>8, <1>9, <1>10, <1>11, <1>12, <1>13, <1>14, <1>15, <1>16, <1>17 DEF Inv

\* So does a statement that only reads, or a failure.
LEMMA MoveKeeps ==
  ASSUME Inv, NEW r \in Requests, InFlight(r), NEW next,
         pc' = [pc EXCEPT ![r] = next],
         read' \in [Requests -> Row \cup {None}],
         \A s \in Requests : s # r => read'[s] = read[s],
         UNCHANGED <<users, branches, refresh, ask, token, had, tooLate, overlapped>>,
         next \in {"check", "sign", "write", "ok", "error", "unauthorized", "rejected"},
         next = "ok" => ask[r].kind = "role",
         next = "check" => ask[r].kind = "switch",
         next = "sign" => ask[r].kind \in {"login", "switch", "refresh"},
         next = "write" => ask[r].kind \in {"create", "password", "rename"},
         next \in {"check", "sign"} =>
           /\ UserRow(r) # None
           /\ read'[r] \in had[r]
           /\ branches[read'[r].branch] # None
           /\ ask[r].kind = "login" => read'[r].password = ask[r].password,
         next = "sign" /\ ask[r].kind = "switch" => branches[ask[r].branch] # None,
         next = "write" /\ ask[r].kind = "password" =>
           users[Subject(ask[r])].password = ask[r].old,
         r \in tooLate => next \in {"error", "unauthorized"},
         pc[r] = "store" => next = "error"
  PROVE  Inv'
PROOF
  <1> USE DEF Inv
  <1>1. /\ pc'[r] = next
        /\ \A s \in Requests : s # r => pc'[s] = pc[s]
        /\ pc[r] \in Statements
    BY DEF TypeOK, InFlight
  <1>2. \A a : Subject(a)' = Subject(a)
    BY DEF Subject
  <1>3. \A s \in Requests : (HasAccess(s) => HasAccess(s)') /\ (HasRefresh(s) => HasRefresh(s)')
    BY <1>1 DEF HasAccess, HasRefresh, Statements
  <1>4. TypeOK'
    <2>1. pc' \in [Requests -> {"new"} \cup Statements \cup Answers]
      BY DEF TypeOK, Statements, Answers
    <2>2. QED
      BY <2>1 DEF TypeOK
  <1>5. AskInv'
    <2>1. \A s \in Requests : ask[s] # None => Presented(ask[s])'
      BY <1>3, AskFields DEF AskInv, Presented, TypeOK
    <2>2. QED
      BY <1>1, <2>1 DEF AskInv, Statements
  <1>6. StageInv'
    BY <1>1 DEF StageInv, Guarded
  <1>7. TokenInv' /\ RowInv'
    BY <1>1 DEF TokenInv, RowInv, Statements
  <1>8. HadInv'
    BY <1>1, <1>2 DEF HadInv, InFlight
  <1>9. ReadInv'
    BY <1>1, <1>2 DEF ReadInv, UserRow
  <1>10. ClaimInv'
    BY DEF ClaimInv
  <1>11. LogoutInv'
    BY <1>1 DEF LogoutInv
  <1>12. NameInv'
    BY <1>1 DEF NameInv, CreatedOnce
  <1>13. RivalInv'
    <2>1. \A s \in Requests : Changing(s)' => Changing(s)
      BY <1>1 DEF Changing, InFlight
    <2>2. VerifiedPasswordStands'
      BY <1>1, <1>2 DEF RivalInv, VerifiedPasswordStands
    <2>3. QED
      BY <1>2, <2>1, <2>2 DEF RivalInv
  <1>14. QED
    BY <1>4, <1>5, <1>6, <1>7, <1>8, <1>9, <1>10, <1>11, <1>12, <1>13 DEF Inv

\* What is known of a request under way.
LEMMA Underway ==
  ASSUME Inv, NEW r \in Requests, InFlight(r)
  PROVE  /\ ask[r] \in Ask /\ Presented(ask[r])
         /\ Subject(ask[r]) \in Users
         /\ UserRow(r) \in Row \cup {None}
         /\ UserRow(r) # None => UserRow(r) \in had[r] /\ branches[UserRow(r).branch] # None
         /\ ask[r].kind \notin {"login", "create", "role"} => UserRow(r) # None
PROOF
  <1>1. ask[r] \in Ask /\ Presented(ask[r])
    BY DEF Inv, TypeOK, AskInv, InFlight, Statements
  <1>2. QED
    BY <1>1, SubjectTypes DEF Inv, UserRow, HadInv, RowInv

LEMMA ReadKeeps ==
  ASSUME Inv, NEW r \in Requests,
         Login(r) \/ CreateUser(r) \/ SwitchBranch(r) \/ ChangePassword(r) \/ RefreshAccess(r)
  PROVE  Inv'
PROOF
  <1>1. InFlight(r) /\ pc[r] = "find"
    BY DEF Login, CreateUser, SwitchBranch, ChangePassword, RefreshAccess, Read,
           InFlight, Statements
  <1>2. /\ UserRow(r) \in Row \cup {None}
        /\ UserRow(r) # None => UserRow(r) \in had[r] /\ branches[UserRow(r).branch] # None
        /\ ask[r].kind \notin {"login", "create", "role"} => UserRow(r) # None
    BY <1>1, Underway
  <1>3. r \in tooLate =>
          ask[r].kind = "refresh" /\ (refresh[ask[r].of].left = 0 \/ refresh[ask[r].of].revoked)
    BY DEF Inv, LogoutInv
  <1>4. read \in [Requests -> Row \cup {None}]
    BY DEF Inv, TypeOK
  <1>5. CASE Login(r)
    <2> DEFINE known == UserRow(r) # None /\ UserRow(r).password = ask[r].password
    <2>1. Read(r, "login", IF known THEN UserRow(r) ELSE None, IF known THEN "sign" ELSE "error")
      BY <1>5 DEF Login
    <2>2. QED
      <3> DEFINE next == IF known THEN "sign" ELSE "error"
      <3>1. /\ pc' = [pc EXCEPT ![r] = next]
            /\ read'[r] = IF known THEN UserRow(r) ELSE None
            /\ \A s \in Requests : s # r => read'[s] = read[s]
            /\ read' \in [Requests -> Row \cup {None}]
            /\ UNCHANGED <<users, branches, refresh, ask, token, had, tooLate, overlapped>>
            /\ ask[r].kind = "login"
        BY <1>2, <1>4, <2>1 DEF Read
      <3>2. next \in {"sign", "error"} /\ (next = "sign" => known)
        OBVIOUS
      <3> HIDE DEF next
      <3>3. QED
        BY <1>1, <1>2, <1>3, <3>1, <3>2, MoveKeeps
  <1>6. CASE CreateUser(r)
    BY <1>1, <1>2, <1>3, <1>4, <1>6, MoveKeeps DEF Read, CreateUser
  <1>7. CASE SwitchBranch(r)
    BY <1>1, <1>2, <1>3, <1>4, <1>7, MoveKeeps DEF Read, SwitchBranch
  <1>8. CASE ChangePassword(r)
    <2> DEFINE next == IF UserRow(r).password = ask[r].old THEN "write" ELSE "rejected"
    <2>1. /\ pc' = [pc EXCEPT ![r] = next]
          /\ read' = [read EXCEPT ![r] = UserRow(r)]
          /\ UNCHANGED <<users, branches, refresh, ask, token, had, tooLate, overlapped>>
          /\ ask[r].kind = "password"
      BY <1>8 DEF ChangePassword, Read
    <2>2. /\ next \in {"write", "rejected"}
          /\ next = "write" => users[Subject(ask[r])].password = ask[r].old
      BY DEF UserRow
    <2>3. /\ \A s \in Requests : s # r => read'[s] = read[s]
          /\ read' \in [Requests -> Row \cup {None}]
      BY <1>2, <1>4, <2>1
    <2> HIDE DEF next
    <2>4. QED
      BY <1>1, <1>3, <2>1, <2>2, <2>3, MoveKeeps
  <1>9. CASE RefreshAccess(r)
    <2> DEFINE found == FindUserByRefreshToken(r)
               next == IF found THEN "sign" ELSE "unauthorized"
    <2>1. /\ pc' = [pc EXCEPT ![r] = next]
          /\ read' = [read EXCEPT ![r] = IF found THEN UserRow(r) ELSE None]
          /\ UNCHANGED <<users, branches, refresh, ask, token, had, tooLate, overlapped>>
          /\ ask[r].kind = "refresh"
      BY <1>9 DEF RefreshAccess, Read
    <2>2. /\ next \in {"sign", "unauthorized"}
          /\ next = "sign" => found
          /\ r \in tooLate => ~found
      BY <1>3 DEF FindUserByRefreshToken
    <2>3. /\ \A s \in Requests : s # r => read'[s] = read[s]
          /\ read' \in [Requests -> Row \cup {None}]
          /\ found => read'[r] = UserRow(r)
      BY <1>2, <1>4, <2>1
    <2> HIDE DEF next, found
    <2>4. QED
      BY <1>1, <1>2, <2>1, <2>2, <2>3, MoveKeeps
  <1>10. QED
    BY <1>5, <1>6, <1>7, <1>8, <1>9

\* The other statements that only move a request.
LEMMA LookupKeeps ==
  ASSUME Inv, NEW r \in Requests, BelongsToOrg(r) \/ FindBranch(r) \/ Fail(r)
  PROVE  Inv'
PROOF
  <1>1. InFlight(r) /\ read' = read /\ read \in [Requests -> Row \cup {None}]
    BY DEF BelongsToOrg, FindBranch, Fail, InFlight, Statements, Inv, TypeOK
  <1>2. r \in tooLate => ask[r].kind = "refresh" /\ pc[r] \notin {"check", "sign", "store", "write"}
    BY DEF Inv, LogoutInv
  <1>3. CASE BelongsToOrg(r)
    <2>1. /\ ask[r].kind = "switch"
          /\ UserRow(r) # None
          /\ read[r] \in had[r]
          /\ branches[read[r].branch] # None
      BY <1>3 DEF BelongsToOrg, Inv, StageInv, ReadInv, UserRow
    <2>2. QED
      BY <1>1, <1>2, <1>3, <2>1, MoveKeeps DEF BelongsToOrg
  <1>4. CASE FindBranch(r)
    BY <1>1, <1>2, <1>4, MoveKeeps DEF FindBranch
  <1>5. CASE Fail(r)
    <2>1. pc[r] = "store" => ask[r].kind = "login"
      BY DEF Inv, StageInv
    <2>2. QED
      BY <1>1, <1>2, <1>5, <2>1, MoveKeeps DEF Fail
  <1>6. QED
    BY <1>3, <1>4, <1>5

\* Signing a token, storing a refresh token and revoking one.
LEMMA SignKeeps ==
  ASSUME Inv, NEW r \in Requests, Sign(r)
  PROVE  Inv'
PROOF
  <1> USE DEF Inv
  <1> DEFINE t == [user |-> Subject(ask[r]), role |-> read[r].role,
                   branch |-> IF ask[r].kind = "switch" THEN ask[r].branch
                                                        ELSE read[r].branch,
                   left |-> AccessTTL]
             next == IF ask[r].kind = "login" THEN "store" ELSE "ok"
  <1>1. /\ pc[r] = "sign"
        /\ token' = [token EXCEPT ![r] = t]
        /\ pc' = [pc EXCEPT ![r] = next]
        /\ UNCHANGED <<users, branches, refresh, ask, read, had, tooLate, overlapped>>
    BY DEF Sign, Issue
  <1>2. InFlight(r) /\ ask[r].kind \in {"login", "switch", "refresh"}
    BY <1>1 DEF InFlight, Statements, StageInv
  <1>3. /\ ask[r] \in Ask /\ Subject(ask[r]) \in Users
        /\ read[r] \in had[r] /\ read[r] \in Row
        /\ branches[read[r].branch] # None
        /\ ask[r].kind = "switch" => branches[ask[r].branch] # None
        /\ ask[r].kind = "login" => read[r].password = ask[r].password
    BY <1>1, <1>2, Underway DEF ReadInv, TypeOK
  <1>4. users[Subject(ask[r])] # None
    BY <1>1 DEF ReadInv
  <1> HIDE DEF t, next
  <1>5. /\ pc'[r] = next /\ token'[r] = t
        /\ \A s \in Requests : s # r => pc'[s] = pc[s] /\ token'[s] = token[s]
    BY <1>1 DEF TypeOK
  <1>6. /\ t \in Access
        /\ t.user = Subject(ask[r]) /\ t.role = read[r].role
        /\ ask[r].kind = "switch" => t.branch = ask[r].branch
        /\ ask[r].kind # "switch" => t.branch = read[r].branch
        /\ next \in {"store", "ok"}
        /\ next = "store" <=> ask[r].kind = "login"
    BY <1>3, AskFields, TTLAssumption DEF t, next, Access, Row
  <1>7. token[r] = None /\ refresh[r] = None
    BY <1>1 DEF TokenInv
  <1>8. Kept
    BY <1>1, <1>5, <1>7 DEF Kept, HasAccess, HasRefresh
  <1>9. \A s \in Requests : pc[s] # "new" =>
          ask[s] \in Ask /\ Presented(ask[s])' /\ Subject(ask[s])' = Subject(ask[s])
    BY <1>1, <1>8, SubjectStays DEF TypeOK, AskInv
  <1>10. TypeOK'
    <2>1. pc' \in [Requests -> {"new"} \cup Statements \cup Answers]
      BY <1>1, <1>6 DEF TypeOK, Statements, Answers
    <2>2. token' \in [Requests -> Access \cup {None}]
      BY <1>1, <1>6 DEF TypeOK
    <2>3. QED
      BY <1>1, <2>1, <2>2 DEF TypeOK
  <1>11. AskInv'
    BY <1>1, <1>5, <1>6, <1>9 DEF AskInv
  <1>12. StageInv'
    BY <1>1, <1>5, <1>6 DEF StageInv
  <1>13. TokenInv' /\ RowInv'
    BY <1>1, <1>3, <1>4, <1>5, <1>6, <1>7 DEF TokenInv, RowInv
  <1>14. HadInv'
    BY <1>1, <1>2, <1>5, <1>9 DEF HadInv, InFlight, Statements
  <1>15. ReadInv'
    BY <1>1, <1>5, <1>6, <1>9 DEF ReadInv
  <1>16. ClaimInv'
    BY <1>1, <1>3, <1>5, <1>6 DEF ClaimInv
  <1>17. LogoutInv' /\ NameInv'
    BY <1>1, <1>2, <1>5, <1>6 DEF LogoutInv, NameInv, CreatedOnce
  <1>18. RivalInv'
    <2>1. \A s \in Requests : Changing(s)' => Changing(s) /\ pc[s] # "new" /\ s # r
      BY <1>1, <1>2, <1>5 DEF Changing, InFlight, Statements
    <2>2. VerifiedPasswordStands'
      BY <1>1, <1>5, <1>6, <1>9 DEF RivalInv, VerifiedPasswordStands
    <2>3. QED
      BY <1>1, <1>9, <2>1, <2>2 DEF RivalInv
  <1>19. QED
    BY <1>10, <1>11, <1>12, <1>13, <1>14, <1>15, <1>16, <1>17, <1>18 DEF Inv

LEMMA StoreKeeps ==
  ASSUME Inv, NEW r \in Requests, CreateRefreshToken(r)
  PROVE  Inv'
PROOF
  <1> USE DEF Inv
  <1> DEFINE row == [user |-> ask[r].user, left |-> RefreshTTL, revoked |-> FALSE]
  <1>1. PICK next \in {"ok", "error"} : pc' = [pc EXCEPT ![r] = next]
    BY DEF CreateRefreshToken, Written
  <1>2. /\ pc[r] = "store" /\ ask[r].kind = "login"
        /\ refresh' = [refresh EXCEPT ![r] = row]
        /\ UNCHANGED <<users, branches, ask, read, token, had, tooLate, overlapped>>
    BY DEF CreateRefreshToken, StageInv
  <1>3. InFlight(r) /\ ask[r] \in Ask /\ ask[r].user \in Users /\ users[ask[r].user] # None
    BY <1>2, Underway, AskFields DEF InFlight, Statements, ReadInv, Subject
  <1>4. row \in Refresh /\ row.user = ask[r].user
    BY <1>3, TTLAssumption DEF Refresh
  <1> HIDE DEF row
  <1>5. /\ pc'[r] = next /\ refresh'[r] = row
        /\ \A s \in Requests : s # r => pc'[s] = pc[s] /\ refresh'[s] = refresh[s]
    BY <1>1, <1>2 DEF TypeOK
  <1>6. refresh[r] = None
    BY <1>2 DEF TokenInv
  <1>7. Kept
    BY <1>2, <1>5, <1>6 DEF Kept, HasAccess, HasRefresh
  <1>8. \A s \in Requests : pc[s] # "new" =>
          ask[s] \in Ask /\ Presented(ask[s]) /\ Presented(ask[s])'
            /\ Subject(ask[s])' = Subject(ask[s])
    BY <1>2, <1>7, SubjectStays DEF TypeOK, AskInv
  <1>9. \A s \in Requests : ask[s] # None /\ ask[s].kind \in {"logout", "refresh"}
          /\ (ask[s].kind = "logout" => ask[s].of # None) => ask[s].of # r
    BY <1>2, <1>8 DEF AskInv, Presented, HasRefresh
  <1>10. TypeOK'
    <2>1. pc' \in [Requests -> {"new"} \cup Statements \cup Answers]
      BY <1>1 DEF TypeOK, Statements, Answers
    <2>2. refresh' \in [Requests -> Refresh \cup {None}]
      BY <1>2, <1>4 DEF TypeOK
    <2>3. QED
      BY <1>2, <2>1, <2>2 DEF TypeOK
  <1>11. AskInv'
    BY <1>2, <1>5, <1>8 DEF AskInv
  <1>12. StageInv'
    BY <1>1, <1>2, <1>5 DEF StageInv
  <1>13. TokenInv' /\ RowInv'
    BY <1>1, <1>2, <1>3, <1>4, <1>5 DEF TokenInv, RowInv
  <1>14. HadInv'
    BY <1>1, <1>2, <1>5, <1>8 DEF HadInv, InFlight, Statements
  <1>15. ReadInv' /\ ClaimInv'
    BY <1>1, <1>2, <1>5, <1>8 DEF ReadInv, ClaimInv
  <1>16. LogoutInv'
    <2>1. \A s \in Requests : pc'[s] = "ok" /\ ask'[s].kind = "logout" /\ ask'[s].of # None
            => s # r /\ ask[s].of # r /\ ask[s].of \in Requests
      BY <1>1, <1>2, <1>5, <1>8, <1>9, AskFields DEF AskInv
    <2>2. \A s \in tooLate : s # r /\ ask[s].of # r /\ ask[s].of \in Requests
      BY <1>2, <1>8, <1>9, AskFields DEF AskInv, LogoutInv, TypeOK
    <2>3. QED
      BY <1>2, <1>5, <2>1, <2>2 DEF LogoutInv, TypeOK
  <1>17. NameInv'
    BY <1>1, <1>2, <1>5 DEF NameInv, CreatedOnce
  <1>18. RivalInv'
    <2>1. \A s \in Requests : Changing(s)' => Changing(s) /\ pc[s] # "new" /\ s # r
      BY <1>1, <1>2, <1>5 DEF Changing, InFlight, Statements
    <2>2. VerifiedPasswordStands'
      BY <1>1, <1>2, <1>5, <1>8 DEF RivalInv, VerifiedPasswordStands
    <2>3. QED
      BY <1>2, <1>8, <2>1, <2>2 DEF RivalInv
  <1>19. QED
    BY <1>10, <1>11, <1>12, <1>13, <1>14, <1>15, <1>16, <1>17, <1>18 DEF Inv

LEMMA RevokeKeeps ==
  ASSUME Inv, NEW r \in Requests, RevokeRefreshToken(r)
  PROVE  Inv'
PROOF
  <1> USE DEF Inv
  <1> DEFINE of == ask[r].of
  <1>1. PICK next \in {"ok", "error"} : pc' = [pc EXCEPT ![r] = next]
    BY DEF RevokeRefreshToken, Written
  <1>2. /\ pc[r] = "write" /\ ask[r].kind = "logout" /\ of # None
        /\ refresh' = [refresh EXCEPT ![of].revoked = TRUE]
        /\ UNCHANGED <<users, branches, ask, read, token, had, tooLate, overlapped>>
    BY DEF RevokeRefreshToken, StageInv
  <1>3. /\ of \in Requests /\ HasRefresh(of) /\ refresh[of] \in Refresh /\ of # r
    BY <1>2, Underway, AskFields DEF InFlight, Statements, Presented, HasRefresh, TypeOK
  <1> HIDE DEF of
  <1>4. /\ pc'[r] = next
        /\ \A s \in Requests : s # r => pc'[s] = pc[s]
        /\ refresh'[of] = [refresh[of] EXCEPT !.revoked = TRUE]
        /\ \A s \in Requests : s # of => refresh'[s] = refresh[s]
    BY <1>1, <1>2, <1>3 DEF TypeOK
  <1>5. /\ refresh'[of] \in Refresh /\ refresh'[of] # None /\ refresh'[of].revoked
        /\ refresh'[of].user = refresh[of].user /\ refresh'[of].left = refresh[of].left
    BY <1>3, <1>4, NoneAssumption DEF Refresh
  <1>6. Kept
    BY <1>2, <1>4, <1>5 DEF Kept, HasAccess, HasRefresh
  <1>7. \A s \in Requests : pc[s] # "new" =>
          ask[s] \in Ask /\ Presented(ask[s])' /\ Subject(ask[s])' = Subject(ask[s])
    BY <1>2, <1>6, SubjectStays DEF TypeOK, AskInv
  <1>8. \A s \in Requests :
          /\ refresh[s] # None <=> refresh'[s] # None
          /\ refresh[s] # None => refresh'[s].user = refresh[s].user
                                  /\ refresh'[s].left = refresh[s].left
                                  /\ (refresh[s].revoked => refresh'[s].revoked)
    BY <1>3, <1>4, <1>5 DEF HasRefresh
  <1>9. TypeOK'
    <2>1. pc' \in [Requests -> {"new"} \cup Statements \cup Answers]
      BY <1>1 DEF TypeOK, Statements, Answers
    <2>2. refresh' \in [Requests -> Refresh \cup {None}]
      BY <1>2, <1>3, <1>4, <1>5 DEF TypeOK
    <2>3. QED
      BY <1>2, <2>1, <2>2 DEF TypeOK
  <1>10. AskInv'
    BY <1>2, <1>4, <1>7 DEF AskInv
  <1>11. StageInv'
    BY <1>1, <1>2, <1>4 DEF StageInv
  <1>12. TokenInv' /\ RowInv'
    BY <1>1, <1>2, <1>4, <1>8 DEF TokenInv, RowInv
  <1>13. HadInv'
    BY <1>1, <1>2, <1>4, <1>7 DEF HadInv, InFlight, Statements
  <1>14. ReadInv' /\ ClaimInv'
    BY <1>1, <1>2, <1>4, <1>7 DEF ReadInv, ClaimInv
  <1>15. LogoutInv'
    <2>1. \A s \in Requests : s # r /\ pc'[s] = "ok" /\ ask'[s].kind = "logout" /\ ask'[s].of # None
            => refresh'[ask'[s].of].revoked
      <3> SUFFICES ASSUME NEW s \in Requests, s # r, pc[s] = "ok", ask[s].kind = "logout",
                          ask[s].of # None
                   PROVE  refresh'[ask[s].of].revoked
        BY <1>2, <1>4
      <3>1. ask[s] \in Ask /\ HasRefresh(ask[s].of) /\ ask[s].of \in Requests
        BY AskFields DEF TypeOK, AskInv, Presented
      <3>2. refresh[ask[s].of].revoked
        BY DEF LogoutInv
      <3>3. QED
        BY <1>8, <3>1, <3>2 DEF HasRefresh
    <2>2. \A s \in tooLate : /\ s \in Requests /\ s # r
                             /\ ask[s].of \in Requests /\ refresh[ask[s].of] # None
      BY <1>2, AskFields DEF TypeOK, AskInv, Presented, LogoutInv, HasRefresh
    <2>3. QED
      BY <1>2, <1>4, <1>5, <1>8, <2>1, <2>2 DEF LogoutInv, of
  <1>16. NameInv'
    BY <1>1, <1>2, <1>4 DEF NameInv, CreatedOnce
  <1>17. RivalInv'
    <2>1. \A s \in Requests : Changing(s)' => Changing(s) /\ pc[s] # "new" /\ s # r
      BY <1>1, <1>2, <1>4 DEF Changing, InFlight, Statements
    <2>2. VerifiedPasswordStands'
      BY <1>1, <1>2, <1>4, <1>7 DEF RivalInv, VerifiedPasswordStands
    <2>3. QED
      BY <1>2, <1>7, <2>1, <2>2 DEF RivalInv
  <1>18. QED
    BY <1>9, <1>10, <1>11, <1>12, <1>13, <1>14, <1>15, <1>16, <1>17 DEF Inv

\* A row of users is written: only a change of password touches the password
\* of a row that was there.
LEMMA SetUserKeeps ==
  ASSUME Inv, NEW r \in Requests, NEW u \in Users, NEW row \in Row, NEW next,
         next \in {"ok", "error", "rejected"},
         pc[r] = "write", pc' = [pc EXCEPT ![r] = next],
         SetUser(u, row),
         ask[r].kind \in {"password", "role", "create"},
         Subject(ask[r]) = u,
         branches[row.branch] # None,
         ask[r].kind = "create" <=> users[u] = None,
         ask[r].kind = "role" => row.password = users[u].password
  PROVE  Inv'
PROOF
  <1> USE DEF Inv, SetUser
  <1>1. /\ pc'[r] = next /\ users'[u] = row /\ row # None
        /\ \A s \in Requests : s # r => pc'[s] = pc[s]
        /\ \A v \in Users : v # u => users'[v] = users[v]
        /\ InFlight(r)
    BY NoneAssumption DEF TypeOK, InFlight, Statements
  <1>2. /\ \A a : Subject(a)' = Subject(a)
        /\ \A s \in Requests : had[s] \subseteq had'[s]
        /\ \A s \in Requests : InFlight(s) /\ Subject(ask[s]) = u => row \in had'[s]
    BY DEF Subject, TypeOK
  <1>3. \A s \in Requests : (HasAccess(s) => HasAccess(s)') /\ (HasRefresh(s) => HasRefresh(s)')
    BY <1>1 DEF HasAccess, HasRefresh
  <1>4. \A v \in Users : users[v] # None => users'[v] # None
    BY <1>1
  <1>5. \A s \in Requests : InFlight(s)' => InFlight(s) /\ s # r /\ Subject(ask[s]) \in Users
    BY <1>1, Underway DEF InFlight, Statements
  <1>6. r \notin tooLate
    BY DEF LogoutInv
  <1>7. TypeOK'
    <2>1. pc' \in [Requests -> {"new"} \cup Statements \cup Answers]
      BY DEF TypeOK, Statements, Answers
    <2>2. users' \in [Users -> Row \cup {None}] /\ had' \in [Requests -> SUBSET Row]
      BY DEF TypeOK
    <2>3. QED
      BY <2>1, <2>2 DEF TypeOK
  <1>8. AskInv'
    <2>1. \A s \in Requests : ask[s] # None => Presented(ask[s])'
      BY <1>3, AskFields DEF AskInv, Presented, TypeOK
    <2>2. QED
      BY <1>1, <2>1 DEF AskInv
  <1>9. StageInv'
    BY <1>1 DEF StageInv
  <1>10. TokenInv'
    BY <1>1, <1>4, NoneAssumption DEF TokenInv, TypeOK, Access, Refresh
  <1>11. RowInv'
    BY <1>1 DEF RowInv
  <1>12. HadInv'
    BY <1>1, <1>2, <1>5 DEF HadInv
  <1>13. ReadInv'
    <2>1. \A s \in Requests : pc'[s] \in {"check", "sign", "store"} =>
            InFlight(s)' /\ s # r /\ pc'[s] = pc[s]
      BY <1>1 DEF InFlight, Statements
    <2>2. QED
      BY <1>2, <1>4, <1>5, <2>1 DEF ReadInv
  <1>14. ClaimInv'
    BY <1>2 DEF ClaimInv
  <1>15. LogoutInv'
    BY <1>1, <1>6 DEF LogoutInv, TypeOK
  <1>16. NameInv'
    <2>1. ask[r].kind = "create" =>
            /\ ask[r].user = u /\ InitialUsers[u] = None
            /\ \A s \in Requests : pc[s] = "ok" /\ ask[s].kind = "create" => ask[s].user # u
      BY DEF NameInv, Subject
    <2>2. \A s \in Requests : ask[s] # None /\ ask[s].kind = "create" => ask[s].user \in Users
      BY AskFields DEF TypeOK
    <2>3. \A s \in Requests : pc[s] = "ok" => ask[s] # None
      BY DEF AskInv
    <2>4. \A s \in Requests : pc'[s] = "ok" /\ ask'[s].kind = "create" =>
            users'[ask'[s].user] # None /\ InitialUsers[ask'[s].user] = None
      BY <1>1, <1>4, <2>1, <2>2, <2>3 DEF NameInv
    <2>5. CreatedOnce'
      BY <1>1, <2>1, <2>4 DEF NameInv, CreatedOnce
    <2>6. QED
      BY <1>4, <2>4, <2>5 DEF NameInv
  <1>17. RivalInv'
    <2>1. \A s \in Requests : Changing(s)' => Changing(s) /\ s # r
      BY <1>5 DEF Changing
    <2>2. VerifiedPasswordStands'
      <3> SUFFICES ASSUME NEW s \in Requests \ overlapped, pc'[s] = "write",
                          ask[s].kind = "password"
                   PROVE  users'[Subject(ask[s])].password = ask[s].old
        BY <1>2 DEF VerifiedPasswordStands
      <3>1. s # r /\ pc[s] = "write" /\ Changing(s) /\ Subject(ask[s]) \in Users
        BY <1>1, <1>5 DEF Changing, InFlight, Statements
      <3>2. users[Subject(ask[s])].password = ask[s].old /\ users[Subject(ask[s])] # None
        BY <3>1, Underway DEF RivalInv, VerifiedPasswordStands, Changing, UserRow
      <3>3. CASE Subject(ask[s]) = u
        <4>1. ask[r].kind # "password"
          BY <1>1, <3>1, <3>3 DEF RivalInv, Changing
        <4>2. row.password = users[u].password
          BY <3>2, <3>3, <4>1
        <4>3. QED
          BY <1>1, <3>2, <3>3, <4>2
      <3>4. QED
        BY <1>1, <3>1, <3>2, <3>3
    <2>3. QED
      BY <1>2, <2>1, <2>2 DEF RivalInv
  <1>18. QED
    BY <1>7, <1>8, <1>9, <1>10, <1>11, <1>12, <1>13, <1>14, <1>15, <1>16, <1>17 DEF Inv

\* A write that finds its row gone, or there, changes nothing.
LEMMA UserWritesKeep ==
  ASSUME Inv, NEW r \in Requests, UpdatePassword(r) \/ UpdateRole(r) \/ Create(r)
  PROVE  Inv'
PROOF
  <1> DEFINE u == Subject(ask[r])
  <1>1. InFlight(r) /\ pc[r] = "write" /\ ask[r].kind \in {"password", "role", "create"}
    BY DEF UpdatePassword, UpdateRole, Create, InFlight, Statements
  <1>2. /\ ask[r] \in Ask /\ Presented(ask[r]) /\ u \in Users
        /\ users[u] \in Row \cup {None}
        /\ users[u] # None => branches[users[u].branch] # None
        /\ ask[r].kind = "password" => users[u] # None
    BY <1>1, Underway DEF UserRow
  <1>3. r \notin tooLate
    BY <1>1 DEF Inv, LogoutInv
  <1>4. ask[r].kind \in {"role", "create"} => u = ask[r].user
    BY DEF Subject
  <1>5. CASE UpdatePassword(r)
    <2> DEFINE row == [users[u] EXCEPT !.password = ask[r].new]
    <2>1. ask[r].kind = "password" /\ SetUser(u, row)
      BY <1>5 DEF UpdatePassword
    <2>2. PICK next \in {"ok", "error"} : pc' = [pc EXCEPT ![r] = next]
      BY <1>5 DEF UpdatePassword, Written
    <2>3. row \in Row /\ row.branch = users[u].branch
      BY <1>2, <2>1, AskFields DEF Row
    <2> HIDE DEF row, u
    <2>4. QED
      BY <1>1, <1>2, <2>1, <2>2, <2>3, SetUserKeeps DEF u
  <1>6. CASE UpdateRole(r)
    <2>1. PICK next \in {"ok", "error"} : pc' = [pc EXCEPT ![r] = next]
      BY <1>6 DEF UpdateRole, Written
    <2>2. ask[r].kind = "role"
      BY <1>6 DEF UpdateRole
    <2>3. CASE users[u] # None
      <3> DEFINE row == [users[u] EXCEPT !.role = ask[r].role]
      <3>1. SetUser(u, row)
        BY <1>4, <1>6, <2>2, <2>3 DEF UpdateRole
      <3>2. row \in Row /\ row.branch = users[u].branch /\ row.password = users[u].password
        BY <1>2, <2>2, <2>3, AskFields DEF Row
      <3> HIDE DEF row, u
      <3>3. QED
        BY <1>1, <1>2, <2>1, <2>2, <2>3, <3>1, <3>2, SetUserKeeps DEF u
    <2>4. CASE users[u] = None
      <3>1. UNCHANGED <<users, branches, refresh, ask, read, token, had, tooLate, overlapped>>
        BY <1>4, <1>6, <2>2, <2>4 DEF UpdateRole
      <3>2. read \in [Requests -> Row \cup {None}]
        BY DEF Inv, TypeOK
      <3> HIDE DEF u
      <3>3. QED
        BY <1>1, <1>3, <2>1, <2>2, <3>1, <3>2, MoveKeeps
    <2>5. QED
      BY <2>3, <2>4
  <1>7. CASE Create(r)
    <2>1. ask[r].kind = "create" /\ u = ask[r].user
      BY <1>4, <1>7 DEF Create
    <2>2. CASE users[u] = None
      <3>1. SetUser(u, NewRow(r))
        BY <1>7, <2>1, <2>2 DEF Create
      <3>2. PICK next \in {"ok", "rejected"} : pc' = [pc EXCEPT ![r] = next]
        BY <1>7, <2>1, <2>2 DEF Create
      <3>3. token[ask[r].by] \in Access /\ branches[token[ask[r].by].branch] # None
        BY <1>2, <2>1, AskFields
           DEF Presented, Guarded, HasAccess, Inv, TypeOK, TokenInv
      <3>4. NewRow(r) \in Row /\ branches[NewRow(r).branch] # None
        BY <1>2, <2>1, <3>3, AskFields DEF NewRow, Row, Access, Roles
      <3> HIDE DEF u
      <3>5. QED
        BY <1>1, <1>2, <2>1, <2>2, <3>1, <3>2, <3>4, SetUserKeeps DEF u
    <2>3. CASE users[u] # None
      <3>1. /\ pc' = [pc EXCEPT ![r] = "rejected"]
            /\ UNCHANGED <<users, branches, refresh, ask, read, token, had, tooLate, overlapped>>
        BY <1>7, <2>1, <2>3 DEF Create
      <3>2. read \in [Requests -> Row \cup {None}]
        BY DEF Inv, TypeOK
      <3> HIDE DEF u
      <3>3. QED
        BY <1>1, <1>3, <2>1, <3>1, <3>2, MoveKeeps
    <2>4. QED
      BY <2>2, <2>3
  <1>8. QED
    BY <1>5, <1>6, <1>7

LEMMA WriteBranchKeeps ==
  ASSUME Inv, NEW r \in Requests, WriteBranch(r)
  PROVE  Inv'
PROOF
  <1> USE DEF Inv
  <1>1. PICK next \in {"ok", "rejected"} : pc' = [pc EXCEPT ![r] = next]
    BY DEF WriteBranch
  <1>2. /\ pc[r] = "write" /\ ask[r].kind \in {"branch", "rename"}
        /\ UNCHANGED <<users, refresh, ask, read, token, had, tooLate, overlapped>>
    BY DEF WriteBranch
  <1>3. ask[r].name \in Names
    BY <1>2, Underway, AskFields DEF InFlight, Statements
  <1>4. /\ branches' \in [Branches -> Names \cup {None}]
        /\ \A b \in Branches : branches[b] # None => branches'[b] # None
    BY <1>3, NoneAssumption DEF WriteBranch, TypeOK
  <1>5. /\ pc'[r] = next
        /\ \A s \in Requests : s # r => pc'[s] = pc[s]
    BY <1>1 DEF TypeOK
  <1>6. \A a : Subject(a)' = Subject(a)
    BY <1>2 DEF Subject
  <1>7. \A s \in Requests : (HasAccess(s) => HasAccess(s)') /\ (HasRefresh(s) => HasRefresh(s)')
    BY <1>2, <1>5 DEF HasAccess, HasRefresh
  <1>8. TypeOK'
    <2>1. pc' \in [Requests -> {"new"} \cup Statements \cup Answers]
      BY <1>1 DEF TypeOK, Statements, Answers
    <2>2. QED
      BY <1>2, <1>4, <2>1 DEF TypeOK
  <1>9. AskInv'
    <2>1. \A s \in Requests : ask[s] # None => Presented(ask[s])'
      BY <1>2, <1>7, AskFields DEF AskInv, Presented, TypeOK
    <2>2. QED
      BY <1>2, <1>5, <2>1 DEF AskInv
  <1>10. StageInv'
    BY <1>2, <1>5 DEF StageInv
  <1>11. TokenInv' /\ RowInv'
    <2>1. \A s \in Requests : token[s] # None => token[s].branch \in Branches
      BY DEF TypeOK, Access
    <2>2. \A v \in Users : users[v] # None => users[v].branch \in Branches
      BY DEF TypeOK, Row
    <2>3. QED
      BY <1>1, <1>2, <1>4, <1>5, <2>1, <2>2 DEF TokenInv, RowInv
  <1>12. HadInv'
    BY <1>1, <1>2, <1>5, <1>6 DEF HadInv, InFlight, Statements
  <1>13. ReadInv'
    <2> SUFFICES ASSUME NEW s \in Requests, pc'[s] \in {"check", "sign", "store"}
                 PROVE  /\ users[Subject(ask[s])] # None
                        /\ read[s] \in had[s]
                        /\ branches'[read[s].branch] # None
                        /\ ask[s].kind = "login" => read[s].password = ask[s].password
                        /\ pc[s] = "sign" /\ ask[s].kind = "switch"
                             => branches'[ask[s].branch] # None
                        /\ pc'[s] = pc[s]
      BY <1>2, <1>6 DEF ReadInv
    <2>1. s # r /\ pc'[s] = pc[s]
      BY <1>1, <1>5
    <2>2. read[s] \in Row /\ ask[s] \in Ask
      BY <2>1 DEF ReadInv, TypeOK, AskInv
    <2>3. QED
      BY <1>4, <2>1, <2>2, AskFields DEF ReadInv, Row
  <1>14. ClaimInv'
    BY <1>2 DEF ClaimInv
  <1>15. LogoutInv' /\ NameInv'
    BY <1>2, <1>5 DEF LogoutInv, NameInv, CreatedOnce, TypeOK
  <1>16. RivalInv'
    <2>1. \A s \in Requests : Changing(s)' => Changing(s)
      BY <1>2, <1>1, <1>5 DEF Changing, InFlight, Statements
    <2>2. VerifiedPasswordStands'
      BY <1>1, <1>2, <1>5, <1>6 DEF RivalInv, VerifiedPasswordStands
    <2>3. QED
      BY <1>2, <1>6, <2>1, <2>2 DEF RivalInv
  <1>17. QED
    BY <1>8, <1>9, <1>10, <1>11, <1>12, <1>13, <1>14, <1>15, <1>16 DEF Inv

\* What is left of a token is all that time changes.
LEMMA TickKeeps ==
  ASSUME Inv, Tick
  PROVE  Inv'
PROOF
  <1> USE DEF Inv
  <1>1. UNCHANGED <<users, branches, pc, ask, read, had, tooLate, overlapped>>
    BY DEF Tick
  <1>2. token' \in [Requests -> Access \cup {None}]
    <2>1. \A r \in Requests : token[r] # None /\ token[r].left > 0
            => [token[r] EXCEPT !.left = @ - 1] \in Access
      BY TTLAssumption DEF TypeOK, Access
    <2>2. QED
      BY <2>1 DEF Tick, TypeOK
  <1>3. refresh' \in [Requests -> Refresh \cup {None}]
    <2>1. \A r \in Requests : refresh[r] # None /\ refresh[r].left > 0
            => [refresh[r] EXCEPT !.left = @ - 1] \in Refresh
      BY TTLAssumption DEF TypeOK, Refresh
    <2>2. QED
      BY <2>1 DEF Tick, TypeOK
  <1>4. \A r \in Requests :
          /\ token'[r] # None <=> token[r] # None
          /\ token[r] # None => /\ token'[r].user = token[r].user
                                /\ token'[r].role = token[r].role
                                /\ token'[r].branch = token[r].branch
    <2>1. \A r \in Requests : token[r] # None /\ token[r].left > 0
            => [token[r] EXCEPT !.left = @ - 1] \in Access
      BY TTLAssumption DEF TypeOK, Access
    <2>2. QED
      BY <2>1, NoneAssumption DEF Tick, TypeOK, Access
  <1>5. \A r \in Requests :
          /\ refresh'[r] # None <=> refresh[r] # None
          /\ refresh[r] # None => /\ refresh'[r].user = refresh[r].user
                                  /\ refresh'[r].revoked = refresh[r].revoked
                                  /\ refresh[r].left = 0 => refresh'[r].left = 0
    <2>1. \A r \in Requests : refresh[r] # None /\ refresh[r].left > 0
            => [refresh[r] EXCEPT !.left = @ - 1] \in Refresh
      BY TTLAssumption DEF TypeOK, Refresh
    <2>2. QED
      BY <2>1, NoneAssumption DEF Tick, TypeOK, Refresh
  <1>6. Kept
    BY <1>1, <1>4, <1>5 DEF Kept, HasAccess, HasRefresh
  <1>7. \A r \in Requests : ask[r] # None =>
          ask[r] \in Ask /\ Presented(ask[r]) /\ Presented(ask[r])'
            /\ Subject(ask[r])' = Subject(ask[r])
    BY <1>1, <1>6, SubjectStays DEF TypeOK, AskInv
  <1>8. \A r \in Requests : InFlight(r) \/ pc[r] \in {"check", "sign", "store", "write", "ok"}
          => ask[r] # None
    BY DEF AskInv, InFlight, Statements
  <1>9. TypeOK' /\ AskInv' /\ StageInv'
    BY <1>1, <1>2, <1>3, <1>7 DEF TypeOK, AskInv, StageInv
  <1>10. TokenInv' /\ RowInv'
    BY <1>1, <1>4, <1>5 DEF TokenInv, RowInv
  <1>11. HadInv'
    BY <1>1, <1>7, <1>8 DEF HadInv, InFlight
  <1>12. ReadInv' /\ ClaimInv'
    BY <1>1, <1>4, <1>7, <1>8 DEF ReadInv, ClaimInv
  <1>13. LogoutInv'
    <2>1. \A r \in Requests :
            pc[r] = "ok" /\ ask[r].kind = "logout" /\ ask[r].of # None
              => ask[r].of \in Requests /\ refresh[ask[r].of] # None
      BY <1>7, <1>8, AskFields DEF Presented, HasRefresh
    <2>2. \A r \in tooLate : ask[r].of \in Requests /\ refresh[ask[r].of] # None
      BY <1>7, AskFields DEF Presented, HasRefresh, LogoutInv, TypeOK
    <2>3. QED
      BY <1>1, <1>5, <2>1, <2>2 DEF LogoutInv, TypeOK
  <1>14. NameInv'
    BY <1>1 DEF NameInv, CreatedOnce
  <1>15. RivalInv'
    BY <1>1, <1>7, <1>8 DEF RivalInv, Changing, InFlight, VerifiedPasswordStands
  <1>16. QED
    BY <1>9, <1>10, <1>11, <1>12, <1>13, <1>14, <1>15 DEF Inv

LEMMA ArriveKeeps ==
  ASSUME Inv, NEW r \in Requests, Arrive(r)
  PROVE  Inv'
PROOF
  <1>1. PICK a \in Asks[r] :
          \/ HandleLogin(r, a) \/ HandleRefresh(r, a) \/ HandleLogout(r, a)
          \/ HandleSwitchBranch(r, a) \/ HandleChangePassword(r, a)
          \/ HandleUsers(r, a) \/ HandleUpdateUserRole(r, a)
          \/ HandleBranches(r, a) \/ HandleBranchByID(r, a)
    BY DEF Arrive
  <1>2. a \in Ask /\ pc[r] = "new"
    BY RequestsAssumption DEF Arrive
  <1>3. CASE HandleLogin(r, a)
    BY <1>2, <1>3, EnterKeeps DEF HandleLogin, Presented, Guarded
  <1>4. CASE HandleRefresh(r, a)
    BY <1>2, <1>4, EnterKeeps DEF HandleRefresh, Presented, Guarded
  <1>5. CASE HandleLogout(r, a)
    <2> DEFINE first == Behind(token[a.by], IF a.of = None THEN "ok" ELSE "write")
    <2>1. /\ first \in {"write", "ok", "unauthorized"}
          /\ first = "write" => a.of # None
          /\ first = "ok" => a.of = None
      BY DEF Behind
    <2>2. Presented(a) /\ a.kind = "logout" /\ Enter(r, a, first)
      BY <1>5 DEF HandleLogout, Presented, Guarded
    <2> HIDE DEF first
    <2>3. QED
      BY <1>2, <2>1, <2>2, EnterKeeps
  <1>6. CASE HandleSwitchBranch(r, a)
    BY <1>2, <1>6, EnterKeeps DEF HandleSwitchBranch, Behind, Presented, Guarded
  <1>7. CASE HandleChangePassword(r, a)
    BY <1>2, <1>7, EnterKeeps DEF HandleChangePassword, Behind, Presented, Guarded
  <1>8. CASE HandleUsers(r, a)
    BY <1>2, <1>8, EnterKeeps DEF HandleUsers, BehindAdmin, Behind, Presented, Guarded
  <1>9. CASE HandleUpdateUserRole(r, a)
    BY <1>2, <1>9, EnterKeeps DEF HandleUpdateUserRole, BehindAdmin, Behind, Presented, Guarded
  <1>10. CASE HandleBranches(r, a)
    BY <1>2, <1>10, EnterKeeps DEF HandleBranches, BehindAdmin, Behind, Presented, Guarded
  <1>11. CASE HandleBranchByID(r, a)
    BY <1>2, <1>11, EnterKeeps DEF HandleBranchByID, BehindAdmin, Behind, Presented, Guarded
  <1>12. QED
    BY <1>1, <1>3, <1>4, <1>5, <1>6, <1>7, <1>8, <1>9, <1>10, <1>11

LEMMA StutterKeeps ==
  ASSUME Inv, UNCHANGED vars
  PROVE  Inv'
PROOF
  <1> USE DEF Inv, vars
  <1>1. \A a : Subject(a)' = Subject(a)
    BY DEF Subject
  <1>2. /\ \A r \in Requests : (HasAccess(r)' <=> HasAccess(r)) /\ (HasRefresh(r)' <=> HasRefresh(r))
        /\ \A r \in Requests : InFlight(r)' <=> InFlight(r)
    BY DEF HasAccess, HasRefresh, InFlight
  <1>3. TypeOK' /\ StageInv' /\ TokenInv' /\ RowInv' /\ ClaimInv' /\ LogoutInv'
    BY DEF TypeOK, StageInv, TokenInv, RowInv, ClaimInv, LogoutInv
  <1>4. AskInv'
    <2>1. \A s \in Requests : ask[s] # None => Presented(ask[s])'
      BY <1>2, AskFields DEF AskInv, Presented, TypeOK
    <2>2. QED
      BY <2>1 DEF AskInv
  <1>5. HadInv' /\ ReadInv'
    BY <1>1, <1>2 DEF HadInv, ReadInv
  <1>6. NameInv' /\ RivalInv'
    BY <1>1, <1>2 DEF NameInv, CreatedOnce, RivalInv, VerifiedPasswordStands, Changing
  <1>7. QED
    BY <1>3, <1>4, <1>5, <1>6 DEF Inv

THEOREM SessionsInv == Spec => []Inv
PROOF
  <1>1. Inv /\ [Next]_vars => Inv'
    <2> SUFFICES ASSUME Inv, [Next]_vars PROVE Inv'
      OBVIOUS
    <2>1. CASE \E r \in Requests : Arrive(r) \/ Fail(r)
      BY <2>1, ArriveKeeps, LookupKeeps
    <2>2. CASE \E r \in Requests : Statement(r)
      BY <2>2, ReadKeeps, LookupKeeps, SignKeeps, StoreKeeps, RevokeKeeps,
         UserWritesKeep, WriteBranchKeeps DEF Statement
    <2>3. CASE Tick
      BY <2>3, TickKeeps
    <2>4. CASE Finished \/ UNCHANGED vars
      BY <2>4, StutterKeeps DEF Finished
    <2>5. QED
      BY <2>1, <2>2, <2>3, <2>4 DEF Next
  <1>2. QED
    BY <1>1, SessionsInit, PTL DEF Spec

\* The state of sessions, users and branches is always of its type.
THEOREM SessionsTypes == Spec => []TypeOK
PROOF
  <1>1. Inv => TypeOK
    BY DEF Inv
  <1>2. QED
    BY <1>1, SessionsInv, PTL

\* signAccessToken and SwitchBranch sign what the user's row said at some moment
\* of the request that signs, whoever changes the user meanwhile.
THEOREM ClaimsWereTrue == Spec => []FreshClaims
PROOF
  <1>1. Inv => FreshClaims
    BY DEF Inv, ClaimInv, TokenInv, FreshClaims
  <1>2. QED
    BY <1>1, SessionsInv, PTL

\* The query of FindUserByRefreshToken lets no one in after a logout was
\* answered or the refresh token has expired.
THEOREM LogoutHolds == Spec => []RevokedStaysRevoked
PROOF
  <1>1. Inv => RevokedStaysRevoked
    BY DEF Inv, LogoutInv, RevokedStaysRevoked
  <1>2. QED
    BY <1>1, SessionsInv, PTL

\* However many requests look a free username up, CreateUser succeeds for one.
THEOREM OneCreation == Spec => []CreatedOnce
PROOF
  <1>1. Inv => CreatedOnce
    BY DEF Inv, NameInv
  <1>2. QED
    BY <1>1, SessionsInv, PTL

\* ChangePassword writes over the password it has compared, unless another change
\* for the same user runs at the same time.
THEOREM ComparedPasswordIsReplaced == Spec => []VerifiedPasswordStands
PROOF
  <1>1. Inv => VerifiedPasswordStands
    BY DEF Inv, RivalInv
  <1>2. QED
    BY <1>1, SessionsInv, PTL
=============================================================================

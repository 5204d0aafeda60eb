----------------------------- MODULE MCSessions -----------------------------
(***************************************************************************)
(* A small instance of Sessions: two administrators are logged in, one of   *)
(* whom may be demoted; three more requests come.                          *)
(***************************************************************************)
EXTENDS Sessions

CONSTANTS budi, ani, siti, main, mall, e1, e2, r1, r2, r3, p1, p2, p3

MCEarlierUser == [r \in {e1, e2} |-> IF r = e1 THEN budi ELSE ani]
MCInitialUsers ==
  [u \in {budi, ani, siti} |->
     CASE u = budi -> [password |-> p1, role |-> "admin", branch |-> main]
       [] u = ani -> [password |-> p1, role |-> "admin", branch |-> main]
       [] u = siti -> None]
MCInitialBranches == [b \in {main, mall} |-> IF b = main THEN "n1" ELSE None]

Role(r, u, role) == [kind |-> "role", by |-> r, user |-> u, role |-> role]
Make(r, role) == [kind |-> "create", by |-> r, user |-> siti, password |-> p2,
                  role |-> role]
SignIn(u, p) == [kind |-> "login", user |-> u, password |-> p]
Refreshing(r) == [kind |-> "refresh", of |-> r]
Logout(r, s) == [kind |-> "logout", by |-> r, of |-> s]
Switch(r, b) == [kind |-> "switch", by |-> r, branch |-> b]
Change(r, p, q) == [kind |-> "password", by |-> r, old |-> p, new |-> q]

\* What the administrator budi does, what ani does, and what comes after.
MCAsks ==
  [r \in {e1, e2, r1, r2, r3} |->
     CASE r = r1 -> {Role(e1, ani, "cashier"), Role(e1, siti, ""),
                     Make(e1, ""), Logout(e1, None), Logout(e2, e2),
                     [kind |-> "branch", by |-> e1, name |-> "n2"],
                     Change(e2, p1, p2)}
       [] r = r2 -> {SignIn(ani, p1), Refreshing(e2), Switch(e2, mall),
                     Change(e2, p1, p3), Make(e2, "admin"),
                     [kind |-> "rename", by |-> e2, branch |-> mall,
                      name |-> "n1"]}
       [] r = r3 -> {Refreshing(r2), Refreshing(e2), Switch(r2, main),
                     SignIn(siti, p2), SignIn(ani, p2), Role(r2, budi, "cashier"),
                     Change(r2, p1, p2), Make(r2, "cashier")}
       [] OTHER -> {}]
=============================================================================

---------------------------- MODULE MCCatalogue ----------------------------
(***************************************************************************)
(* A small instance of Catalogue: two products, one of them stocked, in    *)
(* one category, one customer and one supplier, and a row of each table    *)
(* that may be created.  Requests differ only in what they ask, so each    *)
(* choice of three asks is given to them in one order.                     *)
(***************************************************************************)
EXTENDS Catalogue, Sequences, Naturals, TLC

CONSTANTS r1, r2, r3, tea, rice, milk, drinks, food, ana, eko, budi, tono

Doc(kind, p, who) == [kind |-> kind, row |-> p, partner |-> who, category |-> Nil]
Edit(kind, m, c) == [kind |-> kind, row |-> m, partner |-> Nil, category |-> c]

MCAsk ==
  << Doc("sale", tea, ana), Doc("sale", rice, Nil), Doc("order", rice, budi),
     Doc("threshold", rice, Nil),
     Edit("create", milk, drinks), Edit("update", rice, drinks),
     Edit("delete", tea, Nil), Edit("delete", rice, Nil), Edit("delete", drinks, Nil),
     Edit("delete", ana, Nil), Edit("delete", budi, Nil),
     Edit("create", food, Nil), Edit("create", eko, Nil), Edit("create", tono, Nil) >>

MCAsks ==
  UNION {{r1 :> MCAsk[i] @@ r2 :> MCAsk[j] @@ r3 :> MCAsk[k] : i \in 1..j, k \in j..Len(MCAsk)} :
         j \in DOMAIN MCAsk}

MCInitialCategory == [p \in Products |-> IF p = tea THEN drinks ELSE Nil]
=============================================================================

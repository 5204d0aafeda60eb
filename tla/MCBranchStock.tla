--------------------------- MODULE MCBranchStock ---------------------------
(***************************************************************************)
(* Small instances of BranchStock: two products with a row in the branch   *)
(* and a third that it has never stocked.                                  *)
(***************************************************************************)
EXTENDS BranchStock, TLC

CONSTANTS r1, r2, r3, main, tea, rice, salt

OneLine(p, n) == <<[product |-> p, quantity |-> n]>>

\* Opposite orders of the same two products (a lock cycle for restocks, and for
\* a checkout whatever its order), and lines that contend for the last units.
MCCarts == {OneLine(tea, 1) \o OneLine(rice, 1),
            OneLine(rice, 1) \o OneLine(tea, 2)}

\* A product without a row besides.
MCWideCarts == MCCarts \cup {OneLine(salt, 1)}

\* The same product on two lines, a malformed cart and one too long.
MCRepeatedCarts == {OneLine(tea, 0), OneLine(tea, 1) \o OneLine(rice, 1) \o OneLine(salt, 1),
                    OneLine(tea, 2) \o OneLine(tea, 2),
                    OneLine(tea, 1) \o OneLine(rice, 1)}

MCInitialRows == {<<main, tea>>, <<main, rice>>}
MCInitialStock == [w \in Rows |-> IF w \in MCInitialRows THEN 3 ELSE 0]

MCSymmetry == Permutations(Requests)
=============================================================================

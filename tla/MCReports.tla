----------------------------- MODULE MCReports -----------------------------
(***************************************************************************)
(* Three checkouts over two days and a reader.  Two products, one without  *)
(* a category; a checkout with two lines of one product and one paid in    *)
(* two parts.                                                              *)
(***************************************************************************)
EXTENDS Reports

CONSTANTS tea, cup, drinks

MCLines == <<
  <<[product |-> tea, quantity |-> 1, subtotal |-> 2],
    [product |-> tea, quantity |-> 1, subtotal |-> 2]>>,
  <<[product |-> cup, quantity |-> 1, subtotal |-> 3]>>,
  <<[product |-> tea, quantity |-> 1, subtotal |-> 2],
    [product |-> cup, quantity |-> 2, subtotal |-> 6]>> >>
MCTotalAmount == <<4, 3, 8>>
MCCategory == (tea :> drinks) @@ (cup :> NoCategory)
MCPaidWith == <<{"cash"}, {"cash", "card"}, {"card"}>>
=============================================================================

------------------------------ MODULE MCSales ------------------------------
(***************************************************************************)
(* Small instances of Sales: carts with two products, with one product on  *)
(* two lines and malformed; payments that are right for some prices only.  *)
(***************************************************************************)
EXTENDS Sales, TLC

CONSTANTS c1, c2, r1, r2, o1, tea, rice

Of(p, n) == [product |-> p, quantity |-> n]
Buy(p, n, v) == [product |-> p, quantity |-> n, unitPrice |-> v]
Pay(t, n) == [type |-> t, amount |-> n]

MCCarts == {<<Of(tea, 1), Of(rice, 2)>>, <<Of(tea, 2), Of(tea, 1)>>, <<Of(rice, 0)>>}
MCOrderCarts == {<<Buy(tea, 1, 0), Buy(rice, 1, 2)>>, <<Buy(tea, 2, 3)>>}
MCPayments == {<<>>, <<Pay("cash", 3)>>, <<Pay("cash", 2), Pay("qris", 1)>>,
               <<Pay("cash", 4), Pay("cheque", 1)>>, <<Pay("cash", 4), Pay("qris", -1)>>}

MCSymmetry == Permutations(Returns)
=============================================================================

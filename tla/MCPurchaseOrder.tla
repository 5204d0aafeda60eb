-------------------------- MODULE MCPurchaseOrder --------------------------
(***************************************************************************)
(* Small instances of PurchaseOrder.                                       *)
(***************************************************************************)
EXTENDS PurchaseOrder, TLC

CONSTANTS o1, o2, r1, r2, r3

MCSymmetry == Permutations(Receivers) \cup Permutations(Orders)
=============================================================================

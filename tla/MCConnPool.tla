----------------------------- MODULE MCConnPool -----------------------------
(***************************************************************************)
(* Small instances of ConnPool.                                            *)
(***************************************************************************)
EXTENDS ConnPool, TLC

CONSTANTS r1, r2, r3, r4, tea, rice

MCSymmetry == Permutations(Requests) \cup Permutations(Rows)
=============================================================================

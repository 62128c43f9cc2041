------------------------------- MODULE MCPort -------------------------------
(* Small instances of Port.                                                  *)
EXTENDS Port, TLC
CONSTANTS w1, w2, p1, p2, u1, i1, k1
=============================================================================

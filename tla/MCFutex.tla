------------------------------ MODULE MCFutex ------------------------------
(* Small instances of Futex.                                                 *)
EXTENDS Futex, TLC
CONSTANTS w1, w2, a, b
=============================================================================

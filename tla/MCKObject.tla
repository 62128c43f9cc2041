------------------------------ MODULE MCKObject ------------------------------
(* Small instances of KObject: two objects, a waiter on both and one on the  *)
(* first only.                                                               *)
EXTENDS KObject, TLC
CONSTANTS o1, o2, w1, w2, b1, b2, s1, s2

Both == {[o \in {o1} |-> {s1}], [o \in {o1, o2} |-> {s1}]}
=============================================================================

------------------------------- MODULE MCTask -------------------------------
(* Small instances of Task.                                                  *)
EXTENDS Task, TLC
CONSTANTS root, j1, p1, t1, t2, k1, k2

OneChild == [j \in {j1} |-> root]
InChild == [p \in {p1} |-> j1]
InFirst == [t \in {t1, t2} |-> p1]
=============================================================================

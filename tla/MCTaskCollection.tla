-------------------------- MODULE MCTaskCollection --------------------------
(* Small instances of TaskCollection.                                        *)
EXTENDS TaskCollection, TLC

CONSTANTS t1, t2, e1, e2, w1, c1, c2

\* Two executors on two CPUs: the owner of the collection and a thief.
MCCpuOf == [e \in Execs |-> IF e = e1 THEN c1 ELSE c2]
OneCpu  == [e \in Execs |-> c1]
OnePage == [s \in Slots |-> 1]
TwoPages == [s \in Slots |-> s + 1]

\* Affinity masks: no choice, pinned to one CPU or the other.
OneMask == {Cpus}
Pinned  == {{c} : c \in Cpus}

SymAll == Permutations(Tasks) \cup Permutations(Execs)
=============================================================================

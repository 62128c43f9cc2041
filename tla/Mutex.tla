------------------------------- MODULE Mutex -------------------------------
(* What a kernel lock promises its callers: a queue of owners per lock,      *)
(* served in the order in which they asked, one at a time.                   *)
EXTENDS Sequences, Functions

CONSTANTS Procs, Locks

VARIABLES queue,    \* queue[l]: who asked for l and has not released it, oldest first
          granted   \* granted[l]: the first of them is in its critical section

vars == <<queue, granted>>

Init ==
  /\ queue = [l \in Locks |-> <<>>]
  /\ granted = [l \in Locks |-> FALSE]

\* A caller asks for the lock and is put behind the others.
Request(p, l) ==
  /\ p \notin Range(queue[l])
  /\ queue' = [queue EXCEPT ![l] = Append(@, p)]
  /\ UNCHANGED granted

\* The caller in front enters.
Grant(l) ==
  /\ queue[l] # <<>> /\ ~granted[l]
  /\ granted' = [granted EXCEPT ![l] = TRUE]
  /\ UNCHANGED queue

\* A caller that does not wait enters only if nobody is queued.
TryAcquire(p, l) ==
  /\ queue[l] = <<>>
  /\ queue' = [queue EXCEPT ![l] = <<p>>]
  /\ granted' = [granted EXCEPT ![l] = TRUE]

Release(l) ==
  /\ granted[l]
  /\ queue' = [queue EXCEPT ![l] = Tail(@)]
  /\ granted' = [granted EXCEPT ![l] = FALSE]

Next ==
  \E l \in Locks :
    \/ Grant(l) \/ Release(l)
    \/ \E p \in Procs : Request(p, l) \/ TryAcquire(p, l)

Fairness == \A l \in Locks : WF_vars(Grant(l))

Spec == Init /\ [][Next]_vars /\ Fairness
=============================================================================

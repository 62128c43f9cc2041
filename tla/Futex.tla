------------------------------- MODULE Futex -------------------------------
(***************************************************************************)
(* Futexes (zircon-object/src/signal/futex.rs), used by both the Zircon    *)
(* and the Linux futex system calls.  Every waiter is one FutexFuture;     *)
(* every caller performs one wake, wake_single_owner or requeue.  A        *)
(* critical section of Futex::inner (both of them in requeue) or of        *)
(* Waiter::inner is one action; wakes and retargeting happen one waiter at *)
(* a time after the queue locks were released.                             *)
(***************************************************************************)
EXTENDS Integers, Sequences, FiniteSets

CONSTANTS
  Futexes,
  Waiters,     \* FutexFutures; each waits once, on behalf of its own thread
  Callers,     \* threads that each make one of the calls below
  Kinds,       \* calls they make: "publish", "wake", "single", "requeue"
  Counts,      \* wake_count and requeue_count arguments
  NewOwners,   \* new_owner arguments: threads or None
  MaxValue,    \* bound on the futex words, which user space only increments
  None

ASSUME FutexAssumption ==
  /\ Counts \subseteq Nat /\ MaxValue \in Nat
  /\ None \notin Waiters /\ None \notin Futexes
  /\ IsFiniteSet(Waiters) /\ NewOwners \subseteq Waiters \cup {None}

VARIABLES
  value,       \* the user space words
  queue,       \* FutexInner::waiter_queue
  owner,       \* FutexInner::owner: a waiter's thread or None
  fut,         \* FutexFuture and its Waiter
  runnable,    \* waiters whose waker was invoked
  op           \* caller -> the call in progress

vars == <<value, queue, owner, fut, runnable, op>>

NewFuture == [pc |-> "new", futex |-> None, at |-> None, expect |-> 0,
              newOwner |-> None, woken |-> FALSE, waker |-> FALSE]
NewOp == [pc |-> "idle", kind |-> "wake", f |-> None, want |-> 0, n |-> 0,
          hand |-> <<>>, to |-> None, retarget |-> <<>>, saw |-> {}]

Init ==
  /\ value = [f \in Futexes |-> 0]
  /\ queue = [f \in Futexes |-> <<>>]
  /\ owner = [f \in Futexes |-> None]
  /\ fut = [w \in Waiters |-> NewFuture]
  /\ runnable = {}
  /\ op = [c \in Callers |-> NewOp]

Members(s) == {s[i] : i \in 1..Len(s)}
Asleep(w)  == fut[w].pc \in {"asleep", "expired"} /\ ~fut[w].woken
Least(a, b) == IF a <= b THEN a ELSE b
Front(s, k) == SubSeq(s, 1, Least(k, Len(s)))
Rest(s, k)  == SubSeq(s, Least(k, Len(s)) + 1, Len(s))

-----------------------------------------------------------------------------
(* FutexFuture.                                                              *)

\* The thread read v in user space and asks to sleep on f.
Call(w, f, v, o) ==
  /\ fut[w].pc = "new" /\ v <= value[f]
  /\ fut' = [fut EXCEPT ![w] = [NewFuture EXCEPT !.pc = "poll", !.futex = f,
               !.at = f, !.expect = v, !.newOwner = o]]
  /\ UNCHANGED <<value, queue, owner, runnable, op>>

\* First poll, under the queue lock: BAD_STATE or INVALID_ARGS.
Refuse(w) ==
  LET f == fut[w].futex IN
  /\ fut[w].pc = "poll"
  /\ \/ value[f] # fut[w].expect
     \/ fut[w].newOwner \in Members(queue[f])
  /\ fut' = [fut EXCEPT ![w].pc = "refused"]
  /\ UNCHANGED <<value, queue, owner, runnable, op>>

\* Mutant: the value was compared before the lock was taken.
EnqueueUnchecked(w) ==
  LET f == fut[w].futex IN
  /\ fut[w].pc = "poll"
  /\ fut[w].newOwner \notin Members(queue[f])
  /\ fut' = [fut EXCEPT ![w].pc = "asleep", ![w].waker = TRUE]
  /\ queue' = [queue EXCEPT ![f] = Append(@, w)]
  /\ UNCHANGED <<value, owner, runnable, op>>

\* First poll: the word still has the expected value.
Enqueue(w) ==
  LET f == fut[w].futex IN
  /\ fut[w].pc = "poll"
  /\ value[f] = fut[w].expect
  /\ fut[w].newOwner \notin Members(queue[f])
  /\ fut' = [fut EXCEPT ![w].pc = "asleep", ![w].waker = TRUE]
  /\ queue' = [queue EXCEPT ![f] = Append(@, w)]
  /\ UNCHANGED <<value, owner, runnable, op>>

\* A later poll finds `woken`: the futex's owner becomes new_owner.
PollWoken(w) ==
  /\ fut[w].pc = "asleep" /\ w \in runnable /\ fut[w].woken
  /\ owner' = [owner EXCEPT ![fut[w].futex] = fut[w].newOwner]
  /\ fut' = [fut EXCEPT ![w].pc = "ok"]
  /\ runnable' = runnable \ {w}
  /\ UNCHANGED <<value, queue, op>>

\* blocking_run: the future is Pending, then the deadline (or the killer)
\* turns out to be ready.
Expire(w) ==
  /\ fut[w].pc = "asleep" /\ ~fut[w].woken
  /\ fut' = [fut EXCEPT ![w].pc = "expired"]
  /\ UNCHANGED <<value, queue, owner, runnable, op>>

\* VecDeque::swap_remove_back
SwapRemove(s, w) ==
  IF w \notin Members(s) THEN s
  ELSE [i \in 1..(Len(s) - 1) |-> IF s[i] = w THEN s[Len(s)] ELSE s[i]]

\* Drop for FutexFuture: tombstone, and leave the queue if still in it.
Cancel(w) ==
  /\ fut[w].pc = "expired"
  /\ fut' = [fut EXCEPT ![w].pc = "timed_out", ![w].woken = TRUE]
  /\ queue' = IF fut[w].woken THEN queue
              ELSE [queue EXCEPT ![fut[w].futex] = SwapRemove(@, w)]
  /\ UNCHANGED <<value, owner, runnable, op>>

-----------------------------------------------------------------------------
(* wake                                                                      *)

Sleepers(f) == {w \in Members(queue[f]) : Asleep(w)}
Begin(kind, f, want) ==
  [NewOp EXCEPT !.pc = "run", !.kind = kind, !.f = f, !.want = want,
                !.saw = Sleepers(f)]

\* User space stores the next value; the futex_wake for everybody follows.
Publish(c, f) ==
  /\ "publish" \in Kinds
  /\ op[c].pc = "idle" /\ value[f] < MaxValue
  /\ value' = [value EXCEPT ![f] = @ + 1]
  /\ op' = [op EXCEPT ![c] = [NewOp EXCEPT !.pc = "published", !.f = f]]
  /\ UNCHANGED <<queue, owner, fut, runnable>>

\* The first critical section of wake: a batch, and the owner is cleared.
PopBatch(c, f, k) ==
  /\ queue' = [queue EXCEPT ![f] = Rest(@, k)]
  /\ owner' = [owner EXCEPT ![f] = None]
  /\ op' = [op EXCEPT ![c] = [Begin("wake", f, k) EXCEPT !.hand = Front(queue[f], k)]]
  /\ UNCHANGED <<value, fut, runnable>>

WakeAll(c) ==
  /\ op[c].pc = "published"
  /\ PopBatch(c, op[c].f, Cardinality(Waiters))

Wake(c, f, k) ==
  /\ "wake" \in Kinds /\ op[c].pc = "idle"
  /\ PopBatch(c, f, k)

\* Mutant: the waiter is marked but its waker is not invoked.
WakeSilently(c) ==
  /\ op[c].pc = "run" /\ op[c].retarget = <<>> /\ op[c].hand # <<>>
  /\ LET w == Head(op[c].hand) IN
       /\ op' = [op EXCEPT ![c].hand = Tail(@),
                           ![c].n = IF fut[w].woken THEN @ ELSE @ + 1]
       /\ fut' = [fut EXCEPT ![w].woken = TRUE]
       /\ UNCHANGED runnable
  /\ UNCHANGED <<value, queue, owner>>

\* Waiter::wake: FALSE, and not counted, for a tombstone.
WakeOne(c) ==
  /\ op[c].pc = "run" /\ op[c].retarget = <<>> /\ op[c].hand # <<>>
  /\ LET w == Head(op[c].hand)
         live == ~fut[w].woken
     IN /\ op' = [op EXCEPT ![c].hand = Tail(@),
                            ![c].n = IF live THEN @ + 1 ELSE @]
        /\ fut' = IF live THEN [fut EXCEPT ![w].woken = TRUE, ![w].waker = FALSE]
                          ELSE fut
        /\ runnable' = IF live THEN runnable \cup {w} ELSE runnable
  /\ UNCHANGED <<value, queue, owner>>

\* Tombstone top-up: pop one more.
TopUp(c) ==
  LET f == op[c].f IN
  /\ op[c].pc = "run" /\ op[c].kind = "wake" /\ op[c].hand = <<>>
  /\ op[c].n < op[c].want /\ queue[f] # <<>>
  /\ op' = [op EXCEPT ![c].hand = <<Head(queue[f])>>]
  /\ queue' = [queue EXCEPT ![f] = Tail(@)]
  /\ UNCHANGED <<value, owner, fut, runnable>>

\* Mutant: the batch was the call's share, tombstones or not.
ReturnWithoutTopUp(c) ==
  /\ op[c].pc = "run" /\ op[c].hand = <<>> /\ op[c].retarget = <<>>
  /\ op' = [op EXCEPT ![c].pc = "done"]
  /\ UNCHANGED <<value, queue, owner, fut, runnable>>

\* The call returns: wake only when it has its count or the queue is empty.
Return(c) ==
  /\ op[c].pc = "run" /\ op[c].hand = <<>> /\ op[c].retarget = <<>>
  /\ op[c].kind = "wake" =>
       op[c].n >= op[c].want \/ queue[op[c].f] = <<>>
  /\ op' = [op EXCEPT ![c].pc = "done"]
  /\ UNCHANGED <<value, queue, owner, fut, runnable>>

-----------------------------------------------------------------------------
(* wake_single_owner and requeue                                             *)

WakeSingleOwner(c, f) ==
  LET next == IF queue[f] = <<>> THEN None ELSE Head(queue[f]) IN
  /\ "single" \in Kinds /\ op[c].pc = "idle"
  /\ op' = [op EXCEPT ![c] = [Begin("single", f, 1) EXCEPT !.hand = Front(queue[f], 1)]]
  /\ queue' = [queue EXCEPT ![f] = Rest(@, 1)]
  /\ owner' = [owner EXCEPT ![f] = next]
  /\ UNCHANGED <<value, fut, runnable>>

\* CMP_REQUEUE with a stale value.
RequeueBadState(c, f, v) ==
  /\ "requeue" \in Kinds /\ op[c].pc = "idle"
  /\ v < value[f]
  /\ op' = [op EXCEPT ![c].pc = "done"]
  /\ UNCHANGED <<value, queue, owner, fut, runnable>>

\* History: a moved waiter no longer waits for the word it slept on.
Displaced(moved) ==
  [w \in Waiters |-> IF w \in Members(moved) THEN [fut[w] EXCEPT !.at = None]
                                             ELSE fut[w]]

\* History: the calls in progress no longer count on the moved waiters.
Unseen(moved) ==
  [c \in Callers |-> [op[c] EXCEPT !.saw = @ \ Members(moved)]]

\* Mutant: the moved waiters reach the target queue with the retargeting.
RequeueInTwoSteps(c, f, g, k, r, o) ==
  LET moved == Front(Rest(queue[f], k), r) IN
  /\ "requeue" \in Kinds /\ op[c].pc = "idle" /\ f # g
  /\ queue' = [queue EXCEPT ![f] = Rest(Rest(@, k), r)]
  /\ op' = [Unseen(moved) EXCEPT ![c] = [Begin("requeue", f, k) EXCEPT
       !.hand = Front(queue[f], k), !.to = g, !.retarget = moved]]
  /\ owner' = [owner EXCEPT ![f] = None, ![g] = o]
  /\ fut' = Displaced(moved)
  /\ UNCHANGED <<value, runnable>>

\* Both queue locks are held: pop the waiters to wake, move the others.
\* A requeue onto the same futex is a plain wake.
Requeue(c, f, g, k, r, o) ==
  LET moved == Front(Rest(queue[f], k), r) IN
  /\ "requeue" \in Kinds /\ op[c].pc = "idle" /\ f # g
  /\ queue' = [queue EXCEPT ![f] = Rest(Rest(@, k), r), ![g] = @ \o moved]
  /\ op' = [Unseen(moved) EXCEPT ![c] = [Begin("requeue", f, k) EXCEPT
       !.hand = Front(queue[f], k), !.to = g, !.retarget = moved]]
  /\ owner' = [owner EXCEPT ![f] = None, ![g] = o]
  /\ fut' = Displaced(moved)
  /\ UNCHANGED <<value, runnable>>

\* reset_futex, one waiter at a time, after both locks were released.
Retarget(c) ==
  /\ op[c].pc = "run" /\ op[c].retarget # <<>>
  /\ fut' = [fut EXCEPT ![Head(op[c].retarget)].futex = op[c].to]
  /\ op' = [op EXCEPT ![c].retarget = Tail(@)]
  /\ UNCHANGED <<value, queue, owner, runnable>>

-----------------------------------------------------------------------------
WaiterStep(w) == Refuse(w) \/ Enqueue(w) \/ PollWoken(w) \/ Cancel(w)

CallerStep(c) == WakeAll(c) \/ WakeOne(c) \/ TopUp(c) \/ Return(c) \/ Retarget(c)

Owners == Waiters \cup {None}

Next ==
  \/ \E w \in Waiters : WaiterStep(w) \/ Expire(w)
  \/ \E w \in Waiters, f \in Futexes, v \in 0..MaxValue, o \in NewOwners :
       Call(w, f, v, o)
  \/ \E c \in Callers : CallerStep(c)
  \/ \E c \in Callers, f \in Futexes :
       \/ Publish(c, f) \/ WakeSingleOwner(c, f)
       \/ \E k \in Counts : Wake(c, f, k)
       \/ \E v \in 0..MaxValue : RequeueBadState(c, f, v)
       \/ \E g \in Futexes, k, r \in Counts, o \in NewOwners :
            Requeue(c, f, g, k, r, o)

Spec == Init /\ [][Next]_vars

\* Calls that began go on, woken tasks are polled, futures that lost the
\* select are dropped.
FairSpec ==
  /\ Spec
  /\ \A w \in Waiters : WF_vars(WaiterStep(w))
  /\ \A c \in Callers : WF_vars(CallerStep(c))

-----------------------------------------------------------------------------
(* Types; a call never wakes more waiters than it was asked to               *)
(* (Futex::wake, "It wakes at most `wake_count`").                           *)
TypeOK ==
  /\ value \in [Futexes -> 0..MaxValue]
  /\ owner \in [Futexes -> Owners]
  /\ runnable \subseteq Waiters
  /\ \A f \in Futexes : Members(queue[f]) \subseteq Waiters
  /\ \A w \in Waiters :
       /\ fut[w].pc \in {"new", "poll", "refused", "asleep", "ok", "expired",
                         "timed_out"}
       /\ fut[w].futex \in Futexes \cup {None}
       /\ fut[w].waker => fut[w].pc \in {"asleep", "expired", "timed_out"}
  /\ \A c \in Callers :
       /\ op[c].pc \in {"idle", "published", "run", "done"}
       /\ op[c].n \in 0..op[c].want

\* Where a waiter can be found: the queues and the hands of callers.
Places(w) ==
  {<<"queue", f, i>> : f \in Futexes, i \in 1..Cardinality(Waiters)} \cup
  {<<"hand", c, i>> : c \in Callers, i \in 1..Cardinality(Waiters)}
IsAt(w, p) ==
  LET s == IF p[1] = "queue" THEN queue[p[2]] ELSE op[p[2]].hand
  IN p[3] <= Len(s) /\ s[p[3]] = w

(* requeue, "Hold BOTH queue locks while moving waiters": a thread asleep on *)
(* a futex is at every moment in exactly one queue, or held by exactly one   *)
(* caller that is about to wake it, whatever wakes, requeues and             *)
(* cancellations are in progress.                                            *)
SleeperInOnePlace ==
  \A w \in Waiters : Asleep(w) =>
    Cardinality({p \in Places(w) : IsAt(w, p)}) = 1

(* FutexFuture::poll, "the check-and-enqueue is atomic": a thread that slept *)
(* on an old value is in the queue only until the publisher of the new one   *)
(* has made its wake.                                                        *)
NoLostPublish ==
  \A f \in Futexes : \A w \in Members(queue[f]) :
    Asleep(w) /\ fut[w].at = f /\ fut[w].expect # value[f] =>
      \E c \in Callers : op[c].pc = "published" /\ op[c].f = f

\* w was asleep in the queue when the call began, and sleeps still; no
\* requeue has moved it meanwhile.
LeftAsleep(c) == {w \in op[c].saw : Asleep(w)}
Short(c) == op[c].pc = "done" /\ op[c].n < op[c].want

(* wake, "we must wake exactly up to `wake_count` live waiters when          *)
(* available": a call that returns short of its count has left none of the   *)
(* threads it found asleep in the queue, unless a requeue took them away     *)
(* (and a second one brought them back).                                     *)
WakeIsExact ==
  \A c \in Callers : op[c].kind = "wake" /\ Short(c) =>
    \A w \in LeftAsleep(c) : w \notin Members(queue[op[c].f])

\* Asleep on a value that is no longer the futex's.
OutOfDate(w) ==
  Asleep(w) /\ fut[w].at # None /\ fut[w].expect # value[fut[w].at]

(* wake delivers after the queue lock was released: a thread that slept on a *)
(* value which has changed since returns from its wait, or was requeued.     *)
PublishedWakes ==
  \A w \in Waiters :
    OutOfDate(w) ~> (fut[w].pc \in {"ok", "timed_out"} \/ fut[w].at = None)
=============================================================================

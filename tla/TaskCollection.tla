--------------------------- MODULE TaskCollection ---------------------------
(***************************************************************************)
(* One per-CPU task collection of the executor crate                       *)
(* (vendor/PreemptiveScheduler): the slab of tasks, its waker pages, the   *)
(* generator coroutine that hands out runnable tasks, and the executors    *)
(* (the owner's and thieves from other CPUs) that poll them.  Wakers run   *)
(* anywhere (interrupt handlers, other CPUs) and touch only the page.      *)
(*                                                                         *)
(* One action is one access to shared memory.  Everything the generator    *)
(* does between two accesses that another actor can observe is merged; the *)
(* slab is only touched under the `inner` lock.                            *)
(***************************************************************************)
EXTENDS Integers, FiniteSets

CONSTANTS
  Slots,      \* slab keys; a set of naturals, BitIter visits them in order
  PageOf,     \* PageOf[s] \in 1..NPages: the waker page that holds slot s
  NPages,
  Tasks,      \* every task that is ever spawned; each is inserted once
  Execs,      \* executors that take from this collection
  CpuOf,      \* CpuOf[e]: the CPU executor e runs on
  Cpus,
  Masks,      \* the affinity masks spawners and set_affinity choose from
  Wakers,     \* contexts that may be inside wake_by_ref at the same time
  None

ASSUME CollectionAssumption ==
  /\ Slots \subseteq Nat /\ IsFiniteSet(Slots)
  /\ NPages \in Nat \ {0}
  /\ PageOf \in [Slots -> 1..NPages]
  /\ CpuOf \in [Execs -> Cpus]
  /\ Masks \subseteq (SUBSET Cpus) \ {{}}
  /\ None \notin Tasks /\ None \notin Execs /\ None \notin Slots

VARIABLES
  slab,       \* FutureCollection::slab: slot -> task or None
  notified, dropped, borrowed,   \* the three bit vectors of the WakerPages
  finish,     \* Task::finish, shared with every WakerRef of the task
  home,       \* the slot a task was inserted in: WakerRef::idx
  affinity,   \* Task::affinity: the set of CPUs allowed
  armed,      \* tasks whose waker the future may have cloned
  taskNum,    \* TaskCollection::task_num
  uncounted,  \* tasks inserted whose spawner has not yet done fetch_add
  genLock,    \* holder of TaskCollection::generator
  inner,      \* TRUE: the generator holds the FutureCollection lock
  gpc, gpage, graw, gdropped, gnot, gdrop, gfound, gcpu, \* coroutine locals
  pc, key, task,  \* per executor
  wtask,      \* per waker: the task it found unfinished, None when idle
  owed,       \* history: tasks woken (or born) and not polled since
  late        \* history: a wake has landed on a vacant slot

page  == <<notified, dropped, borrowed>>
tasks == <<slab, finish, home, affinity, armed>>
count == <<taskNum, uncounted>>
locks == <<genLock, inner>>
gen   == <<gpc, gpage, graw, gdropped, gnot, gdrop, gfound, gcpu>>
execs == <<pc, key, task>>
hist  == <<owed, late>>
vars  == <<page, tasks, count, locks, gen, execs, wtask, hist>>

InPage(S) == {s \in S : PageOf[s] = gpage}
Occupied  == {s \in Slots : slab[s] # None}

ExecPC == {"idle", "gen", "lookup", "mark", "check", "lock", "poll",
           "finish", "drop", "release", "panicked"}
GenPC  == {"start", "swap", "load_dropped", "load_borrowed", "defer",
           "take_dropped", "bits", "relock", "remove"}

Init ==
  /\ slab = [s \in Slots |-> None]
  /\ notified = {} /\ dropped = {} /\ borrowed = {}
  /\ finish = [t \in Tasks |-> FALSE]
  /\ home = [t \in Tasks |-> None]
  /\ affinity = [t \in Tasks |-> Cpus]
  /\ armed = {}
  /\ taskNum = 0 /\ uncounted = {}
  /\ genLock = None /\ inner = FALSE
  /\ gpc = "start" /\ gpage = 1 /\ gfound = FALSE /\ gcpu = None
  /\ graw = {} /\ gdropped = {} /\ gnot = {} /\ gdrop = {}
  /\ pc = [e \in Execs |-> "idle"]
  /\ key = [e \in Execs |-> None]
  /\ task = [e \in Execs |-> None]
  /\ wtask = [w \in Wakers |-> None]
  /\ owed = {} /\ late = FALSE

-----------------------------------------------------------------------------
(* Spawning: priority_add_task, FutureCollection::insert.                   *)

\* insert: slab.insert, then page.initialize, under the inner lock.  The new
\* task's mask is whatever the spawner passes.
Insert(t, s, mask) ==
  /\ ~inner
  /\ home[t] = None /\ slab[s] = None
  /\ slab' = [slab EXCEPT ![s] = t]
  /\ home' = [home EXCEPT ![t] = s]
  /\ affinity' = [affinity EXCEPT ![t] = mask]
  /\ notified' = notified \cup {s}
  /\ dropped'  = dropped \ {s}
  /\ borrowed' = borrowed \ {s}
  /\ uncounted' = uncounted \cup {t}
  /\ owed' = owed \cup {t}
  /\ UNCHANGED <<finish, armed, taskNum, locks, gen, execs, wtask, late>>

\* task_num.fetch_add(1), after the inner lock has been released.
CountTask(t) ==
  /\ t \in uncounted
  /\ uncounted' = uncounted \ {t}
  /\ taskNum' = taskNum + 1
  /\ UNCHANGED <<page, tasks, locks, gen, execs, wtask, hist>>

\* sched_setaffinity: Thread::set_affinity stores into the shared mask at any
\* time, from any thread.
SetAffinity(t, mask) ==
  /\ home[t] # None
  /\ affinity' = [affinity EXCEPT ![t] = mask]
  /\ UNCHANGED <<page, slab, finish, home, armed, count, locks, gen, execs,
                 wtask, hist>>

-----------------------------------------------------------------------------
(* Wakers: WakerRef::wake_by_ref is a load and then, maybe, a fetch_or.      *)

WakeLoad(w, t) ==
  /\ wtask[w] = None
  /\ t \in armed
  /\ ~finish[t]
  /\ wtask' = [wtask EXCEPT ![w] = t]
  /\ UNCHANGED <<page, tasks, count, locks, gen, execs, hist>>

\* Nothing keeps the slot alive in between: the task may have finished and
\* been removed since the load, and the bit then belongs to nobody.
WakeNotify(w) ==
  /\ wtask[w] # None
  /\ notified' = notified \cup {home[wtask[w]]}
  /\ owed' = owed \cup {wtask[w]}
  /\ late' = (late \/ slab[home[wtask[w]]] = None)
  /\ wtask' = [wtask EXCEPT ![w] = None]
  /\ UNCHANGED <<dropped, borrowed, tasks, count, locks, gen, execs>>

-----------------------------------------------------------------------------
(* The generator coroutine.  Only the holder of genLock runs it; it keeps    *)
(* its locals across yields.                                                 *)

Running(e, at) == genLock = e /\ pc[e] = "gen" /\ gpc = at

\* take_task (spins) and try_take_task (a thief: gives up when it is held)
\* both enter the generator only when its lock is free.
TakeTask(e) ==
  /\ pc[e] = "idle" /\ genLock = None
  /\ genLock' = e
  /\ pc' = [pc EXCEPT ![e] = "gen"]
  /\ UNCHANGED <<page, tasks, count, inner, gen, key, task, wtask, hist>>

GenStart(e) ==
  /\ Running(e, "start")
  /\ inner' = TRUE /\ gfound' = FALSE /\ gpage' = 1 /\ gpc' = "swap"
  /\ UNCHANGED <<page, tasks, count, genLock, graw, gdropped, gnot, gdrop,
                 gcpu, execs, wtask, hist>>

\* take_notified, access by access
GenSwapNotified(e) ==
  /\ Running(e, "swap")
  /\ graw' = InPage(notified)
  /\ notified' = notified \ InPage(notified)
  /\ gpc' = "load_dropped"
  /\ UNCHANGED <<dropped, borrowed, tasks, count, locks, gpage, gdropped,
                 gnot, gdrop, gfound, gcpu, execs, wtask, hist>>

GenLoadDropped(e) ==
  /\ Running(e, "load_dropped")
  /\ gdropped' = InPage(dropped)
  /\ gpc' = "load_borrowed"
  /\ UNCHANGED <<page, tasks, count, locks, gpage, graw, gnot, gdrop, gfound,
                 gcpu, execs, wtask, hist>>

\* Mutant: wakes of borrowed tasks are discarded with the swap.
DiscardDeferred(e) ==
  /\ Running(e, "load_borrowed")
  /\ graw' = {}
  /\ gnot' = (graw \ gdropped) \ borrowed
  /\ gpc' = "defer"
  /\ UNCHANGED <<page, tasks, count, locks, gpage, gdropped, gdrop, gfound,
                 gcpu, execs, wtask, hist>>

\* The borrowed load; graw keeps the deferred bits, gnot the result.
GenLoadBorrowed(e) ==
  /\ Running(e, "load_borrowed")
  /\ graw' = (graw \cap borrowed) \ gdropped
  /\ gnot' = (graw \ gdropped) \ borrowed
  /\ gpc' = "defer"
  /\ UNCHANGED <<page, tasks, count, locks, gpage, gdropped, gdrop, gfound,
                 gcpu, execs, wtask, hist>>

GenDefer(e) ==
  /\ Running(e, "defer")
  /\ notified' = notified \cup graw
  /\ graw' = {} /\ gdropped' = {}
  /\ gpc' = "take_dropped"
  /\ UNCHANGED <<dropped, borrowed, tasks, count, locks, gpage, gnot, gdrop,
                 gfound, gcpu, execs, wtask, hist>>

\* take_dropped, and `let cpu = cpu_id()`, read once per page
GenTakeDropped(e) ==
  /\ Running(e, "take_dropped")
  /\ gdrop' = InPage(dropped)
  /\ dropped' = dropped \ InPage(dropped)
  /\ gcpu' = IF gnot # {} THEN CpuOf[e] ELSE None
  /\ gpc' = "bits"
  /\ UNCHANGED <<notified, borrowed, tasks, count, locks, gpage, graw,
                 gdropped, gnot, gfound, execs, wtask, hist>>

NextBit(s) == s \in gnot /\ \A r \in gnot : s <= r
Allowed(s) == slab[s] # None => gcpu \in affinity[slab[s]]

\* The bit's task may not run on this CPU: re-arm it and go on.
GenSkip(e, s) ==
  /\ Running(e, "bits") /\ NextBit(s) /\ ~Allowed(s)
  /\ gnot' = gnot \ {s}
  /\ notified' = notified \cup {s}
  /\ UNCHANGED <<dropped, borrowed, tasks, count, locks, gpc, gpage, graw,
                 gdropped, gdrop, gfound, gcpu, execs, wtask, hist>>

\* Mutant: the borrow bit is left to the executor.
YieldUnborrowed(e, s) ==
  /\ Running(e, "bits") /\ NextBit(s) /\ Allowed(s)
  /\ gnot' = gnot \ {s}
  /\ gfound' = TRUE
  /\ inner' = FALSE
  /\ gpc' = "relock"
  /\ key' = [key EXCEPT ![e] = s]
  /\ pc' = [pc EXCEPT ![e] = "lookup"]
  /\ UNCHANGED <<page, tasks, count, genLock, gpage, graw, gdropped, gdrop,
                 gcpu, task, wtask, hist>>

\* Mutant: every hand-out restarts the scan at the lowest bit.
YieldAndRestart(e, s) ==
  /\ Running(e, "bits") /\ NextBit(s) /\ Allowed(s)
  /\ gnot' = {}
  /\ notified' = notified \cup (gnot \ {s})
  /\ borrowed' = borrowed \cup {s}
  /\ gfound' = TRUE
  /\ inner' = FALSE
  /\ gpc' = "relock"
  /\ key' = [key EXCEPT ![e] = s]
  /\ pc' = [pc EXCEPT ![e] = "lookup"]
  /\ UNCHANGED <<dropped, tasks, count, genLock, gpage, graw, gdropped, gdrop,
                 gcpu, task, wtask, hist>>

\* mark_borrowed under the inner lock, drop(inner), yield found_key.
GenYieldKey(e, s) ==
  /\ Running(e, "bits") /\ NextBit(s) /\ Allowed(s)
  /\ gnot' = gnot \ {s}
  /\ borrowed' = borrowed \cup {s}
  /\ gfound' = TRUE
  /\ inner' = FALSE
  /\ gpc' = "relock"
  /\ key' = [key EXCEPT ![e] = s]
  /\ pc' = [pc EXCEPT ![e] = "lookup"]
  /\ UNCHANGED <<notified, dropped, tasks, count, genLock, gpage, graw,
                 gdropped, gdrop, gcpu, task, wtask, hist>>

\* The next resume continues behind the yield: inner = get_mut_inner().
GenRelock(e) ==
  /\ Running(e, "relock")
  /\ inner' = TRUE /\ gpc' = "bits"
  /\ UNCHANGED <<page, tasks, count, genLock, gpage, graw, gdropped, gnot,
                 gdrop, gfound, gcpu, execs, wtask, hist>>

\* No bit is left: go on to the dropped tasks of the page.
GenBitsDone(e) ==
  /\ Running(e, "bits") /\ gnot = {}
  /\ gpc' = "remove" /\ gcpu' = None
  /\ UNCHANGED <<page, tasks, count, locks, gpage, graw, gdropped, gnot,
                 gdrop, gfound, execs, wtask, hist>>

\* task_num.fetch_sub(1); FutureCollection::remove = page.clear, slab.remove.
GenRemove(e, s) ==
  /\ Running(e, "remove") /\ s \in gdrop
  /\ gdrop' = gdrop \ {s}
  /\ taskNum' = taskNum - 1
  /\ notified' = notified \ {s}
  /\ dropped'  = dropped \ {s}
  /\ borrowed' = borrowed \ {s}
  /\ slab' = [slab EXCEPT ![s] = None]
  /\ UNCHANGED <<finish, home, affinity, armed, uncounted, locks, gpc, gpage,
                 graw, gdropped, gnot, gfound, gcpu, execs, wtask, hist>>

\* Mutant: one page too many.
NextPageOffByOne(e) ==
  /\ Running(e, "remove") /\ gdrop = {} /\ gpage <= NPages
  /\ gpage' = gpage + 1 /\ gpc' = "swap"
  /\ UNCHANGED <<page, tasks, count, locks, graw, gdropped, gnot, gdrop,
                 gfound, gcpu, execs, wtask, hist>>

GenNextPage(e) ==
  /\ Running(e, "remove") /\ gdrop = {} /\ gpage < NPages
  /\ gpage' = gpage + 1 /\ gpc' = "swap"
  /\ UNCHANGED <<page, tasks, count, locks, graw, gdropped, gnot, gdrop,
                 gfound, gcpu, execs, wtask, hist>>

\* All pages scanned and something was handed out: scan again.
GenRescan(e) ==
  /\ Running(e, "remove") /\ gdrop = {} /\ gpage = NPages /\ gfound
  /\ inner' = FALSE /\ gpc' = "start"
  /\ UNCHANGED <<page, tasks, count, genLock, gpage, graw, gdropped, gnot,
                 gdrop, gfound, gcpu, execs, wtask, hist>>

\* Nothing found: yield None; take_task returns None and frees the generator.
GenYieldNone(e) ==
  /\ Running(e, "remove") /\ gdrop = {} /\ gpage = NPages /\ ~gfound
  /\ inner' = FALSE /\ gpc' = "start"
  /\ genLock' = None
  /\ pc' = [pc EXCEPT ![e] = "idle"]
  /\ UNCHANGED <<page, tasks, count, gpage, graw, gdropped, gnot, gdrop,
                 gfound, gcpu, key, task, wtask, hist>>

-----------------------------------------------------------------------------
(* resume_generator's lookup and Executor::run.                              *)

\* slab.get(key).unwrap() under the inner lock; the generator lock is then
\* released.  An empty slot panics the kernel.
Lookup(e) ==
  /\ pc[e] = "lookup" /\ ~inner
  /\ task' = [task EXCEPT ![e] = slab[key[e]]]
  /\ pc' = [pc EXCEPT ![e] = IF slab[key[e]] = None THEN "panicked" ELSE "mark"]
  /\ genLock' = None
  /\ UNCHANGED <<page, tasks, count, inner, gen, key, wtask, hist>>

MarkBorrowed(e) ==
  /\ pc[e] = "mark"
  /\ borrowed' = borrowed \cup {key[e]}
  /\ pc' = [pc EXCEPT ![e] = "check"]
  /\ UNCHANGED <<notified, dropped, tasks, count, locks, gen, key, task, wtask,
                 hist>>

\* Task::poll: a finished task counts as Ready without being polled.
CheckFinish(e) ==
  /\ pc[e] = "check"
  /\ pc' = [pc EXCEPT ![e] = IF finish[task[e]] THEN "finish" ELSE "lock"]
  /\ UNCHANGED <<page, tasks, count, locks, gen, key, task, wtask, hist>>

Polling(t) == \E e \in Execs : pc[e] = "poll" /\ task[e] = t

\* Task::poll: the future's mutex, then future.poll(cx) begins.
BeginPoll(e) ==
  /\ pc[e] = "lock" /\ ~Polling(task[e])
  /\ pc' = [pc EXCEPT ![e] = "poll"]
  /\ armed' = armed \cup {task[e]}
  /\ owed' = owed \ {task[e]}
  /\ UNCHANGED <<page, slab, finish, home, affinity, count, locks, gen, key,
                 task, wtask, late>>

\* Mutant: the old order, mark_borrowed(false) before drop_by_ref.
ReadyReleasesFirst(e) ==
  /\ pc[e] = "poll"
  /\ pc' = [pc EXCEPT ![e] = "finish"]
  /\ borrowed' = borrowed \ {key[e]}
  /\ UNCHANGED <<notified, dropped, tasks, count, locks, gen, key, task, wtask,
                 hist>>

PollReady(e) ==
  /\ pc[e] = "poll"
  /\ pc' = [pc EXCEPT ![e] = "finish"]
  /\ UNCHANGED <<page, tasks, count, locks, gen, key, task, wtask, hist>>

PollPending(e) ==
  /\ pc[e] = "poll"
  /\ pc' = [pc EXCEPT ![e] = "release"]
  /\ UNCHANGED <<page, tasks, count, locks, gen, key, task, wtask, hist>>

\* drop_by_ref: finish.swap(true); only the first to set it marks the page.
DropSwap(e) ==
  /\ pc[e] = "finish"
  /\ finish' = [finish EXCEPT ![task[e]] = TRUE]
  /\ pc' = [pc EXCEPT ![e] = IF finish[task[e]] THEN "idle" ELSE "drop"]
  /\ UNCHANGED <<page, slab, home, affinity, armed, count, locks, gen, key,
                 task, wtask, hist>>

\* Mutant: the completed task is not published as dropped.
DropUnmarked(e) ==
  /\ pc[e] = "drop"
  /\ pc' = [pc EXCEPT ![e] = "idle"]
  /\ UNCHANGED <<page, tasks, count, locks, gen, key, task, wtask, hist>>

DropMark(e) ==
  /\ pc[e] = "drop"
  /\ dropped' = dropped \cup {key[e]}
  /\ pc' = [pc EXCEPT ![e] = "idle"]
  /\ UNCHANGED <<notified, borrowed, tasks, count, locks, gen, key, task, wtask,
                 hist>>

ReleaseBorrow(e) ==
  /\ pc[e] = "release"
  /\ borrowed' = borrowed \ {key[e]}
  /\ pc' = [pc EXCEPT ![e] = "idle"]
  /\ UNCHANGED <<notified, dropped, tasks, count, locks, gen, key, task, wtask,
                 hist>>

-----------------------------------------------------------------------------
GenStep(e) ==
  \/ GenStart(e) \/ GenSwapNotified(e) \/ GenLoadDropped(e)
  \/ GenLoadBorrowed(e) \/ GenDefer(e) \/ GenTakeDropped(e)
  \/ (\E s \in Slots : GenSkip(e, s) \/ GenYieldKey(e, s) \/ GenRemove(e, s))
  \/ GenRelock(e) \/ GenBitsDone(e) \/ GenNextPage(e) \/ GenRescan(e)
  \/ GenYieldNone(e)

PollStep(e) ==
  \/ Lookup(e) \/ MarkBorrowed(e) \/ CheckFinish(e) \/ BeginPoll(e)
  \/ PollReady(e) \/ PollPending(e) \/ DropSwap(e) \/ DropMark(e)
  \/ ReleaseBorrow(e)

ExecStep(e) == TakeTask(e) \/ GenStep(e) \/ PollStep(e)

Environment ==
  \/ \E t \in Tasks, s \in Slots, m \in Masks : Insert(t, s, m)
  \/ \E t \in Tasks, w \in Wakers : WakeLoad(w, t)
  \/ \E t \in Tasks, m \in Masks : SetAffinity(t, m)

Next ==
  \/ Environment
  \/ \E e \in Execs : ExecStep(e)
  \/ \E w \in Wakers : WakeNotify(w)
  \/ \E t \in Tasks : CountTask(t)

Spec == Init /\ [][Next]_vars

\* Executors never stop scanning, polls return and a started wake completes.
\* Spawning, waking and re-pinning are up to the environment.
Fairness ==
  /\ \A e \in Execs : WF_vars(ExecStep(e))
  /\ \A w \in Wakers : WF_vars(WakeNotify(w))

FairSpec == Spec /\ Fairness

-----------------------------------------------------------------------------
(* Properties.                                                               *)

(* Types of the page words, the slab and the program counters; the walk of   *)
(* the generator stays on existing pages.                                    *)
TypeOK ==
  /\ slab \in [Slots -> Tasks \cup {None}]
  /\ notified \subseteq Slots /\ dropped \subseteq Slots
  /\ borrowed \subseteq Slots
  /\ finish \in [Tasks -> BOOLEAN]
  /\ home \in [Tasks -> Slots \cup {None}]
  /\ affinity \in [Tasks -> SUBSET Cpus]
  /\ armed \subseteq Tasks /\ uncounted \subseteq Tasks
  /\ owed \subseteq Tasks /\ late \in BOOLEAN
  /\ taskNum \in Int
  /\ genLock \in Execs \cup {None} /\ inner \in BOOLEAN
  /\ gpc \in GenPC /\ gpage \in 1..NPages /\ gfound \in BOOLEAN
  /\ graw \subseteq Slots /\ gdropped \subseteq Slots
  /\ gnot \subseteq Slots /\ gdrop \subseteq Slots
  /\ gcpu \in Cpus \cup {None}
  /\ pc \in [Execs -> ExecPC]
  /\ key \in [Execs -> Slots \cup {None}]
  /\ task \in [Execs -> Tasks \cup {None}]
  /\ wtask \in [Wakers -> Tasks \cup {None}]

Owning(e)  == pc[e] \in {"mark", "check", "lock", "poll", "finish", "drop",
                         "release"}
Holding(e) == pc[e] = "lookup" \/ Owning(e)

(* Executor::run, waker_page.rs mark_borrowed: from the moment the generator *)
(* yields a key until the borrow is released or the task is dropped, no      *)
(* other executor is handed the same task, so one future is never polled by  *)
(* two executors.  Only a wake that lands on a vacant slot breaks it: insert *)
(* clears the borrow bit of a key that has already been yielded.             *)
SingleOwner ==
  ~late =>
    \A e, f \in Execs :
      e # f /\ Holding(e) /\ Holding(f) => key[e] # key[f]

(* resume_generator's unwrap(): the key the generator yields names a slot    *)
(* that holds a task, and still the same task until the executor is done, as *)
(* long as no wake has landed on a vacant slot.                              *)
HandOutIsLive ==
  ~late =>
    \A e \in Execs :
      /\ pc[e] # "panicked"
      /\ pc[e] = "lookup" => slab[key[e]] # None
      /\ Owning(e) => slab[key[e]] = task[e]

(* Executor::run / drop_by_ref: a future that returned Ready is never polled *)
(* again, whatever wakes were in flight when it completed, under the same    *)
(* condition.                                                                *)
NoPollAfterReady ==
  ~late => \A e \in Execs : pc[e] \in {"lock", "poll"} => ~finish[task[e]]

(* executor.rs:216-218, on a completed task: "take_notified masks dropped    *)
(* tasks, so the task can never be handed out again".  A hand-out of the     *)
(* slot of a task that is gone panics in resume_generator's unwrap().        *)
UnwrapSucceeds == \A e \in Execs : pc[e] # "panicked"

\* Where the generator or an executor keeps a wake of t it has consumed.
Delivering(t) ==
  \/ home[t] \in notified \cup gnot
  \/ gpc \in {"load_dropped", "load_borrowed", "defer"} /\ home[t] \in graw
  \/ \E e \in Execs : \/ pc[e] = "lookup" /\ key[e] = home[t]
                      \/ pc[e] \in {"mark", "check", "lock"} /\ task[e] = t

(* take_notified: a wake that lands while its task is being polled, scanned  *)
(* or refused for its affinity is never forgotten before the next poll, not  *)
(* even when other wakes have landed on vacant slots.                        *)
NoLostWake ==
  \A t \in owed : slab[home[t]] = t /\ ~finish[t] => Delivering(t)

(* executor: a task that was woken is eventually polled or finishes, as long *)
(* as its mask ends up allowing the CPUs of the executors, whatever other    *)
(* tasks do and however often the mask changed before; or the unwrap above   *)
(* has taken the kernel down.                                                *)
WakeIsServed ==
  \A t \in Tasks :
    <>[](\A e \in Execs : CpuOf[e] \in affinity[t]) =>
      (t \in owed ~> (t \notin owed \/ finish[t] \/ ~UnwrapSucceeds))

(* generator: the slot of a finished task is eventually freed for reuse,     *)
(* unless the unwrap above takes the kernel down.                            *)
FinishedIsReclaimed ==
  \A t \in Tasks :
    finish[t] ~> ((\A s \in Slots : slab[s] # t) \/ ~UnwrapSucceeds)
=============================================================================

------------------------ MODULE TaskCollection_proofs ------------------------
(***************************************************************************)
(* Two inductive invariants of TaskCollection and the safety theorems that *)
(* follow.  BaseInv holds in every state: it carries the types and the     *)
(* bookkeeping that keeps wakes.  OwnInv is what an executor relies on     *)
(* between two accesses to the page; it holds as long as no wake has       *)
(* landed on a vacant slot.                                                *)
(***************************************************************************)
EXTENDS TaskCollection, TLAPS

\* Who is inside the generator, and when it holds the inner lock.
LockInv ==
  /\ \A e \in Execs : genLock = e <=> pc[e] \in {"gen", "lookup"}
  /\ inner <=> gpc \notin {"start", "relock"}
  /\ \A e \in Execs : pc[e] = "lookup" => gpc = "relock"
  /\ inner => genLock # None

\* The coroutine's locals live only between the steps that set and drain them.
ScopeInv ==
  /\ graw # {} => gpc \in {"load_dropped", "load_borrowed", "defer"}
  /\ gdropped # {} => gpc \in {"load_borrowed", "defer"}
  /\ gnot # {} => gpc \in {"defer", "take_dropped", "bits", "relock"}

\* Slab and task agree; an unfinished task stays in its slot; what has been
\* armed, woken or is being woken has been inserted.
SlabInv ==
  /\ \A s \in Slots : slab[s] # None => home[slab[s]] = s
  /\ \A t \in Tasks : home[t] # None /\ ~finish[t] => slab[home[t]] = t
  /\ \A t \in Tasks : home[t] = None => ~finish[t] /\ t \notin armed
                                                  /\ t \notin owed
  /\ \A w \in Wakers : wtask[w] # None => home[wtask[w]] # None

\* Only finished tasks are dropped, each by one executor.
FinishInv ==
  /\ \A s \in dropped \cup gdrop \cup gdropped :
        slab[s] # None /\ finish[slab[s]]
  /\ \A e \in Execs :
        /\ Holding(e) => key[e] # None
        /\ Owning(e) => task[e] # None /\ home[task[e]] = key[e]
        /\ pc[e] = "drop" => /\ finish[task[e]] /\ slab[key[e]] = task[e]
                             /\ key[e] \notin dropped \cup gdrop
  /\ \A e, f \in Execs :
        e # f /\ pc[e] = "drop" /\ pc[f] = "drop" => task[e] # task[f]

BaseInv ==
  TypeOK /\ LockInv /\ ScopeInv /\ SlabInv /\ FinishInv /\ NoLostWake

\* Only an occupied slot is ever notified or scanned.
NotifiedInv == \A s \in notified \cup graw \cup gnot : slab[s] # None

\* A finished task keeps its borrow bit until it is removed.
BorrowInv ==
  /\ \A s \in Slots : slab[s] # None /\ finish[slab[s]] => s \in borrowed
  /\ \A s \in gnot : s \notin borrowed

\* What an executor may assume of the task it was handed.
HoldInv ==
  \A e \in Execs :
    /\ Holding(e) =>
         /\ slab[key[e]] # None /\ key[e] \in borrowed
         /\ key[e] \notin dropped /\ key[e] \notin gdrop
    /\ Owning(e) => slab[key[e]] = task[e]
    /\ Holding(e) => (finish[slab[key[e]]] <=> pc[e] = "drop")
    /\ pc[e] # "panicked"

OwnInv == NotifiedInv /\ BorrowInv /\ HoldInv /\ SingleOwner

-----------------------------------------------------------------------------
\* insert fills a free slot that nobody refers to.
LEMMA InsertStep ==
  ASSUME BaseInv, NEW t \in Tasks, NEW s \in Slots, NEW m \in Masks,
         Insert(t, s, m)
  PROVE  BaseInv' /\ (OwnInv /\ ~late' => OwnInv')
<1>1. TypeOK'
  BY CollectionAssumption DEF Insert, BaseInv, TypeOK, ExecPC, GenPC, page,
         tasks, count, locks, gen, execs, hist
<1>2. LockInv' /\ ScopeInv'
  BY CollectionAssumption DEF Insert, BaseInv, TypeOK, LockInv, ScopeInv,
         page, tasks, count, locks, gen, execs, hist
<1>3. SlabInv'
  BY CollectionAssumption DEF Insert, BaseInv, TypeOK, SlabInv, FinishInv,
         Holding, Owning, page, tasks, count, locks, gen, execs, hist
<1>4. FinishInv'
  BY CollectionAssumption DEF Insert, BaseInv, TypeOK, ScopeInv, SlabInv,
         FinishInv, Holding, Owning, page, tasks, count, locks, gen, execs,
         hist
<1>5. NoLostWake'
  BY CollectionAssumption DEF Insert, BaseInv, TypeOK, ScopeInv, SlabInv,
         FinishInv, NoLostWake, Delivering, Holding, Owning, page, tasks,
         count, locks, gen, execs, hist
<1>6. ASSUME OwnInv, ~late' PROVE NotifiedInv' /\ BorrowInv'
  BY <1>6, CollectionAssumption DEF Insert, BaseInv, OwnInv, TypeOK,
         LockInv, ScopeInv, SlabInv, FinishInv, NotifiedInv, BorrowInv,
         HoldInv, Holding, Owning, page, tasks, count, locks, gen, execs,
         hist
<1>7. ASSUME OwnInv, ~late' PROVE HoldInv'
  BY <1>7, CollectionAssumption DEF Insert, BaseInv, OwnInv, TypeOK,
         LockInv, ScopeInv, SlabInv, FinishInv, NotifiedInv, BorrowInv,
         HoldInv, SingleOwner, Holding, Owning, page, tasks, count, locks,
         gen, execs, hist
<1>8. ASSUME OwnInv, ~late' PROVE SingleOwner'
  BY <1>8, CollectionAssumption DEF Insert, BaseInv, OwnInv, TypeOK,
         LockInv, ScopeInv, NotifiedInv, BorrowInv, HoldInv, SingleOwner,
         Holding, Owning, page, tasks, count, locks, gen, execs, hist
<1> QED BY <1>1, <1>2, <1>3, <1>4, <1>5, <1>6, <1>7, <1>8 DEF BaseInv, OwnInv

\* fetch_add touches the counter only.
LEMMA CountTaskStep ==
  ASSUME BaseInv, NEW t \in Tasks,
         CountTask(t)
  PROVE  BaseInv' /\ (OwnInv /\ ~late' => OwnInv')
<1>1. TypeOK'
  BY CollectionAssumption DEF CountTask, BaseInv, TypeOK, ExecPC, GenPC,
         page, tasks, count, locks, gen, execs, hist
<1>2. LockInv' /\ ScopeInv'
  BY CollectionAssumption DEF CountTask, BaseInv, TypeOK, LockInv, ScopeInv,
         page, tasks, count, locks, gen, execs, hist
<1>3. SlabInv'
  BY CollectionAssumption DEF CountTask, BaseInv, TypeOK, SlabInv,
         FinishInv, Holding, Owning, page, tasks, count, locks, gen, execs,
         hist
<1>4. FinishInv'
  BY CollectionAssumption DEF CountTask, BaseInv, TypeOK, ScopeInv, SlabInv,
         FinishInv, Holding, Owning, page, tasks, count, locks, gen, execs,
         hist
<1>5. NoLostWake'
  BY CollectionAssumption DEF CountTask, BaseInv, TypeOK, ScopeInv, SlabInv,
         FinishInv, NoLostWake, Delivering, Holding, Owning, page, tasks,
         count, locks, gen, execs, hist
<1>6. ASSUME OwnInv, ~late' PROVE NotifiedInv' /\ BorrowInv'
  BY <1>6, CollectionAssumption DEF CountTask, BaseInv, OwnInv, TypeOK,
         LockInv, ScopeInv, SlabInv, FinishInv, NotifiedInv, BorrowInv,
         HoldInv, Holding, Owning, page, tasks, count, locks, gen, execs,
         hist
<1>7. ASSUME OwnInv, ~late' PROVE HoldInv'
  BY <1>7, CollectionAssumption DEF CountTask, BaseInv, OwnInv, TypeOK,
         LockInv, ScopeInv, SlabInv, FinishInv, NotifiedInv, BorrowInv,
         HoldInv, SingleOwner, Holding, Owning, page, tasks, count, locks,
         gen, execs, hist
<1>8. ASSUME OwnInv, ~late' PROVE SingleOwner'
  BY <1>8, CollectionAssumption DEF CountTask, BaseInv, OwnInv, TypeOK,
         LockInv, ScopeInv, NotifiedInv, BorrowInv, HoldInv, SingleOwner,
         Holding, Owning, page, tasks, count, locks, gen, execs, hist
<1> QED BY <1>1, <1>2, <1>3, <1>4, <1>5, <1>6, <1>7, <1>8 DEF BaseInv, OwnInv

\* set_affinity touches the mask only.
LEMMA SetAffinityStep ==
  ASSUME BaseInv, NEW t \in Tasks, NEW m \in Masks,
         SetAffinity(t, m)
  PROVE  BaseInv' /\ (OwnInv /\ ~late' => OwnInv')
<1>1. TypeOK'
  BY CollectionAssumption DEF SetAffinity, BaseInv, TypeOK, ExecPC, GenPC,
         page, tasks, count, locks, gen, execs, hist
<1>2. LockInv' /\ ScopeInv'
  BY CollectionAssumption DEF SetAffinity, BaseInv, TypeOK, LockInv,
         ScopeInv, page, tasks, count, locks, gen, execs, hist
<1>3. SlabInv'
  BY CollectionAssumption DEF SetAffinity, BaseInv, TypeOK, SlabInv,
         FinishInv, Holding, Owning, page, tasks, count, locks, gen, execs,
         hist
<1>4. FinishInv'
  BY CollectionAssumption DEF SetAffinity, BaseInv, TypeOK, ScopeInv,
         SlabInv, FinishInv, Holding, Owning, page, tasks, count, locks,
         gen, execs, hist
<1>5. NoLostWake'
  BY CollectionAssumption DEF SetAffinity, BaseInv, TypeOK, ScopeInv,
         SlabInv, FinishInv, NoLostWake, Delivering, Holding, Owning, page,
         tasks, count, locks, gen, execs, hist
<1>6. ASSUME OwnInv, ~late' PROVE NotifiedInv' /\ BorrowInv'
  BY <1>6, CollectionAssumption DEF SetAffinity, BaseInv, OwnInv, TypeOK,
         LockInv, ScopeInv, SlabInv, FinishInv, NotifiedInv, BorrowInv,
         HoldInv, Holding, Owning, page, tasks, count, locks, gen, execs,
         hist
<1>7. ASSUME OwnInv, ~late' PROVE HoldInv'
  BY <1>7, CollectionAssumption DEF SetAffinity, BaseInv, OwnInv, TypeOK,
         LockInv, ScopeInv, SlabInv, FinishInv, NotifiedInv, BorrowInv,
         HoldInv, SingleOwner, Holding, Owning, page, tasks, count, locks,
         gen, execs, hist
<1>8. ASSUME OwnInv, ~late' PROVE SingleOwner'
  BY <1>8, CollectionAssumption DEF SetAffinity, BaseInv, OwnInv, TypeOK,
         LockInv, ScopeInv, NotifiedInv, BorrowInv, HoldInv, SingleOwner,
         Holding, Owning, page, tasks, count, locks, gen, execs, hist
<1> QED BY <1>1, <1>2, <1>3, <1>4, <1>5, <1>6, <1>7, <1>8 DEF BaseInv, OwnInv

\* An armed task has a home.
LEMMA WakeLoadStep ==
  ASSUME BaseInv, NEW w \in Wakers, NEW t \in Tasks,
         WakeLoad(w, t)
  PROVE  BaseInv' /\ (OwnInv /\ ~late' => OwnInv')
<1>1. TypeOK'
  BY CollectionAssumption DEF WakeLoad, BaseInv, TypeOK, ExecPC, GenPC,
         page, tasks, count, locks, gen, execs, hist
<1>2. LockInv' /\ ScopeInv'
  BY CollectionAssumption DEF WakeLoad, BaseInv, TypeOK, LockInv, ScopeInv,
         page, tasks, count, locks, gen, execs, hist
<1>3. SlabInv'
  BY CollectionAssumption DEF WakeLoad, BaseInv, TypeOK, SlabInv, FinishInv,
         Holding, Owning, page, tasks, count, locks, gen, execs, hist
<1>4. FinishInv'
  BY CollectionAssumption DEF WakeLoad, BaseInv, TypeOK, ScopeInv, SlabInv,
         FinishInv, Holding, Owning, page, tasks, count, locks, gen, execs,
         hist
<1>5. NoLostWake'
  BY CollectionAssumption DEF WakeLoad, BaseInv, TypeOK, ScopeInv, SlabInv,
         FinishInv, NoLostWake, Delivering, Holding, Owning, page, tasks,
         count, locks, gen, execs, hist
<1>6. ASSUME OwnInv, ~late' PROVE NotifiedInv' /\ BorrowInv'
  BY <1>6, CollectionAssumption DEF WakeLoad, BaseInv, OwnInv, TypeOK,
         LockInv, ScopeInv, SlabInv, FinishInv, NotifiedInv, BorrowInv,
         HoldInv, Holding, Owning, page, tasks, count, locks, gen, execs,
         hist
<1>7. ASSUME OwnInv, ~late' PROVE HoldInv'
  BY <1>7, CollectionAssumption DEF WakeLoad, BaseInv, OwnInv, TypeOK,
         LockInv, ScopeInv, SlabInv, FinishInv, NotifiedInv, BorrowInv,
         HoldInv, SingleOwner, Holding, Owning, page, tasks, count, locks,
         gen, execs, hist
<1>8. ASSUME OwnInv, ~late' PROVE SingleOwner'
  BY <1>8, CollectionAssumption DEF WakeLoad, BaseInv, OwnInv, TypeOK,
         LockInv, ScopeInv, NotifiedInv, BorrowInv, HoldInv, SingleOwner,
         Holding, Owning, page, tasks, count, locks, gen, execs, hist
<1> QED BY <1>1, <1>2, <1>3, <1>4, <1>5, <1>6, <1>7, <1>8 DEF BaseInv, OwnInv

\* The bit is set; a wake that is not late finds its slot occupied.
LEMMA WakeNotifyStep ==
  ASSUME BaseInv, NEW w \in Wakers,
         WakeNotify(w)
  PROVE  BaseInv' /\ (OwnInv /\ ~late' => OwnInv')
<1>1. TypeOK'
  <2>1. home[wtask[w]] \in Slots
    BY DEF WakeNotify, BaseInv, TypeOK, SlabInv
  <2>2. late' \in BOOLEAN
    BY DEF WakeNotify
  <2>. QED
    BY <2>1, <2>2 DEF WakeNotify, BaseInv, TypeOK, page, tasks, count, locks, gen,
       execs
<1>2. LockInv' /\ ScopeInv'
  BY CollectionAssumption DEF WakeNotify, BaseInv, TypeOK, LockInv,
         ScopeInv, page, tasks, count, locks, gen, execs, hist
<1>3. SlabInv'
  BY CollectionAssumption DEF WakeNotify, BaseInv, TypeOK, SlabInv,
         FinishInv, Holding, Owning, page, tasks, count, locks, gen, execs,
         hist
<1>4. FinishInv'
  BY CollectionAssumption DEF WakeNotify, BaseInv, TypeOK, ScopeInv,
         SlabInv, FinishInv, Holding, Owning, page, tasks, count, locks,
         gen, execs, hist
<1>5. NoLostWake'
  BY CollectionAssumption DEF WakeNotify, BaseInv, TypeOK, ScopeInv,
         SlabInv, FinishInv, NoLostWake, Delivering, Holding, Owning, page,
         tasks, count, locks, gen, execs, hist
<1>6. ASSUME OwnInv, ~late' PROVE NotifiedInv' /\ BorrowInv'
  BY <1>6, CollectionAssumption DEF WakeNotify, BaseInv, OwnInv, TypeOK,
         LockInv, ScopeInv, SlabInv, FinishInv, NotifiedInv, BorrowInv,
         HoldInv, Holding, Owning, page, tasks, count, locks, gen, execs,
         hist
<1>7. ASSUME OwnInv, ~late' PROVE HoldInv'
  BY <1>7, CollectionAssumption DEF WakeNotify, BaseInv, OwnInv, TypeOK,
         LockInv, ScopeInv, SlabInv, FinishInv, NotifiedInv, BorrowInv,
         HoldInv, SingleOwner, Holding, Owning, page, tasks, count, locks,
         gen, execs, hist
<1>8. ASSUME OwnInv, ~late' PROVE SingleOwner'
  BY <1>8, CollectionAssumption DEF WakeNotify, BaseInv, OwnInv, TypeOK,
         LockInv, ScopeInv, NotifiedInv, BorrowInv, HoldInv, SingleOwner,
         Holding, Owning, page, tasks, count, locks, gen, execs, hist
<1> QED BY <1>1, <1>2, <1>3, <1>4, <1>5, <1>6, <1>7, <1>8 DEF BaseInv, OwnInv

\* The generator lock changes hands.
LEMMA TakeTaskStep ==
  ASSUME BaseInv, NEW e \in Execs,
         TakeTask(e)
  PROVE  BaseInv' /\ (OwnInv /\ ~late' => OwnInv')
<1>1. TypeOK'
  BY CollectionAssumption DEF TakeTask, BaseInv, TypeOK, ExecPC, GenPC,
         page, tasks, count, locks, gen, execs, hist
<1>2. LockInv' /\ ScopeInv'
  BY CollectionAssumption DEF TakeTask, BaseInv, TypeOK, LockInv, ScopeInv,
         page, tasks, count, locks, gen, execs, hist
<1>3. SlabInv'
  BY CollectionAssumption DEF TakeTask, BaseInv, TypeOK, SlabInv, FinishInv,
         Holding, Owning, page, tasks, count, locks, gen, execs, hist
<1>4. FinishInv'
  BY CollectionAssumption DEF TakeTask, BaseInv, TypeOK, ScopeInv, SlabInv,
         FinishInv, Holding, Owning, page, tasks, count, locks, gen, execs,
         hist
<1>5. NoLostWake'
  BY CollectionAssumption DEF TakeTask, BaseInv, TypeOK, ScopeInv, SlabInv,
         FinishInv, NoLostWake, Delivering, Holding, Owning, page, tasks,
         count, locks, gen, execs, hist
<1>6. ASSUME OwnInv, ~late' PROVE NotifiedInv' /\ BorrowInv'
  BY <1>6, CollectionAssumption DEF TakeTask, BaseInv, OwnInv, TypeOK,
         LockInv, ScopeInv, SlabInv, FinishInv, NotifiedInv, BorrowInv,
         HoldInv, Holding, Owning, page, tasks, count, locks, gen, execs,
         hist
<1>7. ASSUME OwnInv, ~late' PROVE HoldInv'
  BY <1>7, CollectionAssumption DEF TakeTask, BaseInv, OwnInv, TypeOK,
         LockInv, ScopeInv, SlabInv, FinishInv, NotifiedInv, BorrowInv,
         HoldInv, SingleOwner, Holding, Owning, page, tasks, count, locks,
         gen, execs, hist
<1>8. ASSUME OwnInv, ~late' PROVE SingleOwner'
  BY <1>8, CollectionAssumption DEF TakeTask, BaseInv, OwnInv, TypeOK,
         LockInv, ScopeInv, NotifiedInv, BorrowInv, HoldInv, SingleOwner,
         Holding, Owning, page, tasks, count, locks, gen, execs, hist
<1> QED BY <1>1, <1>2, <1>3, <1>4, <1>5, <1>6, <1>7, <1>8 DEF BaseInv, OwnInv

\* The generator takes the inner lock.
LEMMA GenStartStep ==
  ASSUME BaseInv, NEW e \in Execs,
         GenStart(e)
  PROVE  BaseInv' /\ (OwnInv /\ ~late' => OwnInv')
<1>1. TypeOK'
  <2>1. gpage' \in 1..NPages
    BY CollectionAssumption DEF GenStart
  <2>2. inner' \in BOOLEAN /\ gfound' \in BOOLEAN /\ gpc' \in GenPC
    BY DEF GenStart, GenPC
  <2>. QED
    BY <2>1, <2>2 DEF GenStart, BaseInv, TypeOK, page, tasks, count, execs, hist
<1>2. LockInv' /\ ScopeInv'
  BY CollectionAssumption DEF GenStart, Running, BaseInv, TypeOK, LockInv,
         ScopeInv, page, tasks, count, locks, gen, execs, hist
<1>3. SlabInv'
  BY CollectionAssumption DEF GenStart, Running, BaseInv, TypeOK, SlabInv,
         FinishInv, Holding, Owning, page, tasks, count, locks, gen, execs,
         hist
<1>4. FinishInv'
  BY CollectionAssumption DEF GenStart, Running, BaseInv, TypeOK, ScopeInv,
         SlabInv, FinishInv, Holding, Owning, page, tasks, count, locks,
         gen, execs, hist
<1>5. NoLostWake'
  BY CollectionAssumption DEF GenStart, Running, BaseInv, TypeOK, ScopeInv,
         SlabInv, FinishInv, NoLostWake, Delivering, Holding, Owning, page,
         tasks, count, locks, gen, execs, hist
<1>6. ASSUME OwnInv, ~late' PROVE NotifiedInv' /\ BorrowInv'
  BY <1>6, CollectionAssumption DEF GenStart, Running, BaseInv, OwnInv,
         TypeOK, LockInv, ScopeInv, SlabInv, FinishInv, NotifiedInv,
         BorrowInv, HoldInv, Holding, Owning, page, tasks, count, locks,
         gen, execs, hist
<1>7. ASSUME OwnInv, ~late' PROVE HoldInv'
  BY <1>7, CollectionAssumption DEF GenStart, Running, BaseInv, OwnInv,
         TypeOK, LockInv, ScopeInv, SlabInv, FinishInv, NotifiedInv,
         BorrowInv, HoldInv, SingleOwner, Holding, Owning, page, tasks,
         count, locks, gen, execs, hist
<1>8. ASSUME OwnInv, ~late' PROVE SingleOwner'
  BY <1>8, CollectionAssumption DEF GenStart, Running, BaseInv, OwnInv,
         TypeOK, LockInv, ScopeInv, NotifiedInv, BorrowInv, HoldInv,
         SingleOwner, Holding, Owning, page, tasks, count, locks, gen,
         execs, hist
<1> QED BY <1>1, <1>2, <1>3, <1>4, <1>5, <1>6, <1>7, <1>8 DEF BaseInv, OwnInv

\* The notified bits of the page move to graw.
LEMMA GenSwapNotifiedStep ==
  ASSUME BaseInv, NEW e \in Execs,
         GenSwapNotified(e)
  PROVE  BaseInv' /\ (OwnInv /\ ~late' => OwnInv')
<1>1. TypeOK'
  BY CollectionAssumption DEF GenSwapNotified, Running, InPage, BaseInv,
         TypeOK, ExecPC, GenPC, page, tasks, count, locks, gen, execs, hist
<1>2. LockInv' /\ ScopeInv'
  BY CollectionAssumption DEF GenSwapNotified, Running, InPage, BaseInv,
         TypeOK, LockInv, ScopeInv, page, tasks, count, locks, gen, execs,
         hist
<1>3. SlabInv'
  BY CollectionAssumption DEF GenSwapNotified, Running, InPage, BaseInv,
         TypeOK, SlabInv, FinishInv, Holding, Owning, page, tasks, count,
         locks, gen, execs, hist
<1>4. FinishInv'
  BY CollectionAssumption DEF GenSwapNotified, Running, InPage, BaseInv,
         TypeOK, ScopeInv, SlabInv, FinishInv, Holding, Owning, page, tasks,
         count, locks, gen, execs, hist
<1>5. NoLostWake'
  BY CollectionAssumption DEF GenSwapNotified, Running, InPage, BaseInv,
         TypeOK, ScopeInv, SlabInv, FinishInv, NoLostWake, Delivering,
         Holding, Owning, page, tasks, count, locks, gen, execs, hist
<1>6. ASSUME OwnInv, ~late' PROVE NotifiedInv' /\ BorrowInv'
  BY <1>6, CollectionAssumption DEF GenSwapNotified, Running, InPage,
         BaseInv, OwnInv, TypeOK, LockInv, ScopeInv, SlabInv, FinishInv,
         NotifiedInv, BorrowInv, HoldInv, Holding, Owning, page, tasks,
         count, locks, gen, execs, hist
<1>7. ASSUME OwnInv, ~late' PROVE HoldInv'
  BY <1>7, CollectionAssumption DEF GenSwapNotified, Running, InPage,
         BaseInv, OwnInv, TypeOK, LockInv, ScopeInv, SlabInv, FinishInv,
         NotifiedInv, BorrowInv, HoldInv, SingleOwner, Holding, Owning,
         page, tasks, count, locks, gen, execs, hist
<1>8. ASSUME OwnInv, ~late' PROVE SingleOwner'
  BY <1>8, CollectionAssumption DEF GenSwapNotified, Running, InPage,
         BaseInv, OwnInv, TypeOK, LockInv, ScopeInv, NotifiedInv, BorrowInv,
         HoldInv, SingleOwner, Holding, Owning, page, tasks, count, locks,
         gen, execs, hist
<1> QED BY <1>1, <1>2, <1>3, <1>4, <1>5, <1>6, <1>7, <1>8 DEF BaseInv, OwnInv

\* Every dropped task has finished.
LEMMA GenLoadDroppedStep ==
  ASSUME BaseInv, NEW e \in Execs,
         GenLoadDropped(e)
  PROVE  BaseInv' /\ (OwnInv /\ ~late' => OwnInv')
<1>1. TypeOK'
  BY CollectionAssumption DEF GenLoadDropped, Running, InPage, BaseInv,
         TypeOK, ExecPC, GenPC, page, tasks, count, locks, gen, execs, hist
<1>2. LockInv' /\ ScopeInv'
  BY CollectionAssumption DEF GenLoadDropped, Running, InPage, BaseInv,
         TypeOK, LockInv, ScopeInv, page, tasks, count, locks, gen, execs,
         hist
<1>3. SlabInv'
  BY CollectionAssumption DEF GenLoadDropped, Running, InPage, BaseInv,
         TypeOK, SlabInv, FinishInv, Holding, Owning, page, tasks, count,
         locks, gen, execs, hist
<1>4. FinishInv'
  BY CollectionAssumption DEF GenLoadDropped, Running, InPage, BaseInv,
         TypeOK, ScopeInv, SlabInv, FinishInv, Holding, Owning, page, tasks,
         count, locks, gen, execs, hist
<1>5. NoLostWake'
  BY CollectionAssumption DEF GenLoadDropped, Running, InPage, BaseInv,
         TypeOK, ScopeInv, SlabInv, FinishInv, NoLostWake, Delivering,
         Holding, Owning, page, tasks, count, locks, gen, execs, hist
<1>6. ASSUME OwnInv, ~late' PROVE NotifiedInv' /\ BorrowInv'
  BY <1>6, CollectionAssumption DEF GenLoadDropped, Running, InPage,
         BaseInv, OwnInv, TypeOK, LockInv, ScopeInv, SlabInv, FinishInv,
         NotifiedInv, BorrowInv, HoldInv, Holding, Owning, page, tasks,
         count, locks, gen, execs, hist
<1>7. ASSUME OwnInv, ~late' PROVE HoldInv'
  BY <1>7, CollectionAssumption DEF GenLoadDropped, Running, InPage,
         BaseInv, OwnInv, TypeOK, LockInv, ScopeInv, SlabInv, FinishInv,
         NotifiedInv, BorrowInv, HoldInv, SingleOwner, Holding, Owning,
         page, tasks, count, locks, gen, execs, hist
<1>8. ASSUME OwnInv, ~late' PROVE SingleOwner'
  BY <1>8, CollectionAssumption DEF GenLoadDropped, Running, InPage,
         BaseInv, OwnInv, TypeOK, LockInv, ScopeInv, NotifiedInv, BorrowInv,
         HoldInv, SingleOwner, Holding, Owning, page, tasks, count, locks,
         gen, execs, hist
<1> QED BY <1>1, <1>2, <1>3, <1>4, <1>5, <1>6, <1>7, <1>8 DEF BaseInv, OwnInv

\* What is neither dropped nor borrowed becomes gnot, the borrowed rest stays.
LEMMA GenLoadBorrowedStep ==
  ASSUME BaseInv, NEW e \in Execs,
         GenLoadBorrowed(e)
  PROVE  BaseInv' /\ (OwnInv /\ ~late' => OwnInv')
<1>1. TypeOK'
  BY CollectionAssumption DEF GenLoadBorrowed, Running, BaseInv, TypeOK,
         ExecPC, GenPC, page, tasks, count, locks, gen, execs, hist
<1>2. LockInv' /\ ScopeInv'
  BY CollectionAssumption DEF GenLoadBorrowed, Running, BaseInv, TypeOK,
         LockInv, ScopeInv, page, tasks, count, locks, gen, execs, hist
<1>3. SlabInv'
  BY CollectionAssumption DEF GenLoadBorrowed, Running, BaseInv, TypeOK,
         SlabInv, FinishInv, Holding, Owning, page, tasks, count, locks,
         gen, execs, hist
<1>4. FinishInv'
  BY CollectionAssumption DEF GenLoadBorrowed, Running, BaseInv, TypeOK,
         ScopeInv, SlabInv, FinishInv, Holding, Owning, page, tasks, count,
         locks, gen, execs, hist
<1>5. NoLostWake'
  <2> SUFFICES ASSUME NEW t \in owed, slab[home[t]] = t, ~finish[t]
               PROVE  Delivering(t)'
    BY DEF GenLoadBorrowed, NoLostWake, tasks, execs, hist
  <2>1. Delivering(t) /\ t \in Tasks /\ home[t] \in Slots
    BY DEF BaseInv, TypeOK, NoLostWake, SlabInv
  <2>2. home[t] \notin gdropped
    BY DEF BaseInv, FinishInv
  <2>3. gnot = {} /\ gpc' = "defer"
    BY DEF GenLoadBorrowed, Running, BaseInv, ScopeInv
  <2>4. CASE home[t] \in graw
    BY <2>2, <2>3, <2>4 DEF GenLoadBorrowed, Delivering, tasks
  <2>5. CASE home[t] \notin graw
    BY <2>1, <2>3, <2>5 DEF GenLoadBorrowed, Delivering, page, tasks, execs
  <2>. QED BY <2>4, <2>5
<1>6. ASSUME OwnInv, ~late' PROVE NotifiedInv' /\ BorrowInv'
  BY <1>6, CollectionAssumption DEF GenLoadBorrowed, Running, BaseInv,
         OwnInv, TypeOK, LockInv, ScopeInv, SlabInv, FinishInv, NotifiedInv,
         BorrowInv, HoldInv, Holding, Owning, page, tasks, count, locks,
         gen, execs, hist
<1>7. ASSUME OwnInv, ~late' PROVE HoldInv'
  BY <1>7, CollectionAssumption DEF GenLoadBorrowed, Running, BaseInv,
         OwnInv, TypeOK, LockInv, ScopeInv, SlabInv, FinishInv, NotifiedInv,
         BorrowInv, HoldInv, SingleOwner, Holding, Owning, page, tasks,
         count, locks, gen, execs, hist
<1>8. ASSUME OwnInv, ~late' PROVE SingleOwner'
  BY <1>8, CollectionAssumption DEF GenLoadBorrowed, Running, BaseInv,
         OwnInv, TypeOK, LockInv, ScopeInv, NotifiedInv, BorrowInv, HoldInv,
         SingleOwner, Holding, Owning, page, tasks, count, locks, gen,
         execs, hist
<1> QED BY <1>1, <1>2, <1>3, <1>4, <1>5, <1>6, <1>7, <1>8 DEF BaseInv, OwnInv

\* The deferred wakes return to the page.
LEMMA GenDeferStep ==
  ASSUME BaseInv, NEW e \in Execs,
         GenDefer(e)
  PROVE  BaseInv' /\ (OwnInv /\ ~late' => OwnInv')
<1>1. TypeOK'
  BY CollectionAssumption DEF GenDefer, Running, BaseInv, TypeOK, ExecPC,
         GenPC, page, tasks, count, locks, gen, execs, hist
<1>2. LockInv' /\ ScopeInv'
  BY CollectionAssumption DEF GenDefer, Running, BaseInv, TypeOK, LockInv,
         ScopeInv, page, tasks, count, locks, gen, execs, hist
<1>3. SlabInv'
  BY CollectionAssumption DEF GenDefer, Running, BaseInv, TypeOK, SlabInv,
         FinishInv, Holding, Owning, page, tasks, count, locks, gen, execs,
         hist
<1>4. FinishInv'
  BY CollectionAssumption DEF GenDefer, Running, BaseInv, TypeOK, ScopeInv,
         SlabInv, FinishInv, Holding, Owning, page, tasks, count, locks,
         gen, execs, hist
<1>5. NoLostWake'
  BY CollectionAssumption DEF GenDefer, Running, BaseInv, TypeOK, ScopeInv,
         SlabInv, FinishInv, NoLostWake, Delivering, Holding, Owning, page,
         tasks, count, locks, gen, execs, hist
<1>6. ASSUME OwnInv, ~late' PROVE NotifiedInv' /\ BorrowInv'
  BY <1>6, CollectionAssumption DEF GenDefer, Running, BaseInv, OwnInv,
         TypeOK, LockInv, ScopeInv, SlabInv, FinishInv, NotifiedInv,
         BorrowInv, HoldInv, Holding, Owning, page, tasks, count, locks,
         gen, execs, hist
<1>7. ASSUME OwnInv, ~late' PROVE HoldInv'
  BY <1>7, CollectionAssumption DEF GenDefer, Running, BaseInv, OwnInv,
         TypeOK, LockInv, ScopeInv, SlabInv, FinishInv, NotifiedInv,
         BorrowInv, HoldInv, SingleOwner, Holding, Owning, page, tasks,
         count, locks, gen, execs, hist
<1>8. ASSUME OwnInv, ~late' PROVE SingleOwner'
  BY <1>8, CollectionAssumption DEF GenDefer, Running, BaseInv, OwnInv,
         TypeOK, LockInv, ScopeInv, NotifiedInv, BorrowInv, HoldInv,
         SingleOwner, Holding, Owning, page, tasks, count, locks, gen,
         execs, hist
<1> QED BY <1>1, <1>2, <1>3, <1>4, <1>5, <1>6, <1>7, <1>8 DEF BaseInv, OwnInv

\* The dropped bits of the page move to gdrop.
LEMMA GenTakeDroppedStep ==
  ASSUME BaseInv, NEW e \in Execs,
         GenTakeDropped(e)
  PROVE  BaseInv' /\ (OwnInv /\ ~late' => OwnInv')
<1>1. TypeOK'
  BY CollectionAssumption DEF GenTakeDropped, Running, InPage, BaseInv,
         TypeOK, ExecPC, GenPC, page, tasks, count, locks, gen, execs, hist
<1>2. LockInv' /\ ScopeInv'
  BY CollectionAssumption DEF GenTakeDropped, Running, InPage, BaseInv,
         TypeOK, LockInv, ScopeInv, page, tasks, count, locks, gen, execs,
         hist
<1>3. SlabInv'
  BY CollectionAssumption DEF GenTakeDropped, Running, InPage, BaseInv,
         TypeOK, SlabInv, FinishInv, Holding, Owning, page, tasks, count,
         locks, gen, execs, hist
<1>4. FinishInv'
  BY CollectionAssumption DEF GenTakeDropped, Running, InPage, BaseInv,
         TypeOK, ScopeInv, SlabInv, FinishInv, Holding, Owning, page, tasks,
         count, locks, gen, execs, hist
<1>5. NoLostWake'
  BY CollectionAssumption DEF GenTakeDropped, Running, InPage, BaseInv,
         TypeOK, ScopeInv, SlabInv, FinishInv, NoLostWake, Delivering,
         Holding, Owning, page, tasks, count, locks, gen, execs, hist
<1>6. ASSUME OwnInv, ~late' PROVE NotifiedInv' /\ BorrowInv'
  BY <1>6, CollectionAssumption DEF GenTakeDropped, Running, InPage,
         BaseInv, OwnInv, TypeOK, LockInv, ScopeInv, SlabInv, FinishInv,
         NotifiedInv, BorrowInv, HoldInv, Holding, Owning, page, tasks,
         count, locks, gen, execs, hist
<1>7. ASSUME OwnInv, ~late' PROVE HoldInv'
  BY <1>7, CollectionAssumption DEF GenTakeDropped, Running, InPage,
         BaseInv, OwnInv, TypeOK, LockInv, ScopeInv, SlabInv, FinishInv,
         NotifiedInv, BorrowInv, HoldInv, SingleOwner, Holding, Owning,
         page, tasks, count, locks, gen, execs, hist
<1>8. ASSUME OwnInv, ~late' PROVE SingleOwner'
  BY <1>8, CollectionAssumption DEF GenTakeDropped, Running, InPage,
         BaseInv, OwnInv, TypeOK, LockInv, ScopeInv, NotifiedInv, BorrowInv,
         HoldInv, SingleOwner, Holding, Owning, page, tasks, count, locks,
         gen, execs, hist
<1> QED BY <1>1, <1>2, <1>3, <1>4, <1>5, <1>6, <1>7, <1>8 DEF BaseInv, OwnInv

\* A refused bit returns to the page.
LEMMA GenSkipStep ==
  ASSUME BaseInv, NEW e \in Execs, NEW s \in Slots,
         GenSkip(e, s)
  PROVE  BaseInv' /\ (OwnInv /\ ~late' => OwnInv')
<1>1. TypeOK'
  BY CollectionAssumption DEF GenSkip, Running, NextBit, BaseInv, TypeOK,
         ExecPC, GenPC, page, tasks, count, locks, gen, execs, hist
<1>2. LockInv' /\ ScopeInv'
  BY CollectionAssumption DEF GenSkip, Running, NextBit, BaseInv, TypeOK,
         LockInv, ScopeInv, page, tasks, count, locks, gen, execs, hist
<1>3. SlabInv'
  BY CollectionAssumption DEF GenSkip, Running, NextBit, BaseInv, TypeOK,
         SlabInv, FinishInv, Holding, Owning, page, tasks, count, locks,
         gen, execs, hist
<1>4. FinishInv'
  BY CollectionAssumption DEF GenSkip, Running, NextBit, BaseInv, TypeOK,
         ScopeInv, SlabInv, FinishInv, Holding, Owning, page, tasks, count,
         locks, gen, execs, hist
<1>5. NoLostWake'
  BY CollectionAssumption DEF GenSkip, Running, NextBit, BaseInv, TypeOK,
         ScopeInv, SlabInv, FinishInv, NoLostWake, Delivering, Holding,
         Owning, page, tasks, count, locks, gen, execs, hist
<1>6. ASSUME OwnInv, ~late' PROVE NotifiedInv' /\ BorrowInv'
  BY <1>6, CollectionAssumption DEF GenSkip, Running, NextBit, BaseInv,
         OwnInv, TypeOK, LockInv, ScopeInv, SlabInv, FinishInv, NotifiedInv,
         BorrowInv, HoldInv, Holding, Owning, page, tasks, count, locks,
         gen, execs, hist
<1>7. ASSUME OwnInv, ~late' PROVE HoldInv'
  BY <1>7, CollectionAssumption DEF GenSkip, Running, NextBit, BaseInv,
         OwnInv, TypeOK, LockInv, ScopeInv, SlabInv, FinishInv, NotifiedInv,
         BorrowInv, HoldInv, SingleOwner, Holding, Owning, page, tasks,
         count, locks, gen, execs, hist
<1>8. ASSUME OwnInv, ~late' PROVE SingleOwner'
  BY <1>8, CollectionAssumption DEF GenSkip, Running, NextBit, BaseInv,
         OwnInv, TypeOK, LockInv, ScopeInv, NotifiedInv, BorrowInv, HoldInv,
         SingleOwner, Holding, Owning, page, tasks, count, locks, gen,
         execs, hist
<1> QED BY <1>1, <1>2, <1>3, <1>4, <1>5, <1>6, <1>7, <1>8 DEF BaseInv, OwnInv

\* A bit of gnot is borrowed by nobody: its executor is the only one.
LEMMA GenYieldKeyStep ==
  ASSUME BaseInv, NEW e \in Execs, NEW s \in Slots,
         GenYieldKey(e, s)
  PROVE  BaseInv' /\ (OwnInv /\ ~late' => OwnInv')
<1>1. TypeOK'
  <2>1. s \in Slots /\ gfound' \in BOOLEAN /\ inner' \in BOOLEAN /\ gpc' \in GenPC
    BY DEF GenYieldKey, GenPC
  <2>2. pc' \in [Execs -> ExecPC] /\ key' \in [Execs -> Slots \cup {None}]
    BY DEF GenYieldKey, BaseInv, TypeOK, ExecPC
  <2>. QED
    BY <2>1, <2>2 DEF GenYieldKey, BaseInv, TypeOK, tasks, count, hist
<1>2. LockInv' /\ ScopeInv'
  BY CollectionAssumption DEF GenYieldKey, Running, NextBit, BaseInv,
         TypeOK, LockInv, ScopeInv, page, tasks, count, locks, gen, execs,
         hist
<1>3. SlabInv'
  BY CollectionAssumption DEF GenYieldKey, Running, NextBit, BaseInv,
         TypeOK, SlabInv, FinishInv, Holding, Owning, page, tasks, count,
         locks, gen, execs, hist
<1>4. FinishInv'
  BY CollectionAssumption DEF GenYieldKey, Running, NextBit, BaseInv,
         TypeOK, ScopeInv, SlabInv, FinishInv, Holding, Owning, page, tasks,
         count, locks, gen, execs, hist
<1>5. NoLostWake'
  BY CollectionAssumption DEF GenYieldKey, Running, NextBit, BaseInv,
         TypeOK, ScopeInv, SlabInv, FinishInv, NoLostWake, Delivering,
         Holding, Owning, page, tasks, count, locks, gen, execs, hist
<1>6. ASSUME OwnInv, ~late' PROVE NotifiedInv' /\ BorrowInv'
  BY <1>6, CollectionAssumption DEF GenYieldKey, Running, NextBit, BaseInv,
         OwnInv, TypeOK, LockInv, ScopeInv, SlabInv, FinishInv, NotifiedInv,
         BorrowInv, HoldInv, Holding, Owning, page, tasks, count, locks,
         gen, execs, hist
<1>7. ASSUME OwnInv, ~late' PROVE HoldInv'
  BY <1>7, CollectionAssumption DEF GenYieldKey, Running, NextBit, BaseInv,
         OwnInv, TypeOK, LockInv, ScopeInv, SlabInv, FinishInv, NotifiedInv,
         BorrowInv, HoldInv, SingleOwner, Holding, Owning, page, tasks,
         count, locks, gen, execs, hist
<1>8. ASSUME OwnInv, ~late' PROVE SingleOwner'
  BY <1>8, CollectionAssumption DEF GenYieldKey, Running, NextBit, BaseInv,
         OwnInv, TypeOK, LockInv, ScopeInv, NotifiedInv, BorrowInv, HoldInv,
         SingleOwner, Holding, Owning, page, tasks, count, locks, gen,
         execs, hist
<1> QED BY <1>1, <1>2, <1>3, <1>4, <1>5, <1>6, <1>7, <1>8 DEF BaseInv, OwnInv

\* The generator resumes behind its yield.
LEMMA GenRelockStep ==
  ASSUME BaseInv, NEW e \in Execs,
         GenRelock(e)
  PROVE  BaseInv' /\ (OwnInv /\ ~late' => OwnInv')
<1>1. TypeOK'
  BY CollectionAssumption DEF GenRelock, Running, BaseInv, TypeOK, ExecPC,
         GenPC, page, tasks, count, locks, gen, execs, hist
<1>2. LockInv' /\ ScopeInv'
  BY CollectionAssumption DEF GenRelock, Running, BaseInv, TypeOK, LockInv,
         ScopeInv, page, tasks, count, locks, gen, execs, hist
<1>3. SlabInv'
  BY CollectionAssumption DEF GenRelock, Running, BaseInv, TypeOK, SlabInv,
         FinishInv, Holding, Owning, page, tasks, count, locks, gen, execs,
         hist
<1>4. FinishInv'
  BY CollectionAssumption DEF GenRelock, Running, BaseInv, TypeOK, ScopeInv,
         SlabInv, FinishInv, Holding, Owning, page, tasks, count, locks,
         gen, execs, hist
<1>5. NoLostWake'
  BY CollectionAssumption DEF GenRelock, Running, BaseInv, TypeOK, ScopeInv,
         SlabInv, FinishInv, NoLostWake, Delivering, Holding, Owning, page,
         tasks, count, locks, gen, execs, hist
<1>6. ASSUME OwnInv, ~late' PROVE NotifiedInv' /\ BorrowInv'
  BY <1>6, CollectionAssumption DEF GenRelock, Running, BaseInv, OwnInv,
         TypeOK, LockInv, ScopeInv, SlabInv, FinishInv, NotifiedInv,
         BorrowInv, HoldInv, Holding, Owning, page, tasks, count, locks,
         gen, execs, hist
<1>7. ASSUME OwnInv, ~late' PROVE HoldInv'
  BY <1>7, CollectionAssumption DEF GenRelock, Running, BaseInv, OwnInv,
         TypeOK, LockInv, ScopeInv, SlabInv, FinishInv, NotifiedInv,
         BorrowInv, HoldInv, SingleOwner, Holding, Owning, page, tasks,
         count, locks, gen, execs, hist
<1>8. ASSUME OwnInv, ~late' PROVE SingleOwner'
  BY <1>8, CollectionAssumption DEF GenRelock, Running, BaseInv, OwnInv,
         TypeOK, LockInv, ScopeInv, NotifiedInv, BorrowInv, HoldInv,
         SingleOwner, Holding, Owning, page, tasks, count, locks, gen,
         execs, hist
<1> QED BY <1>1, <1>2, <1>3, <1>4, <1>5, <1>6, <1>7, <1>8 DEF BaseInv, OwnInv

\* gnot is drained.
LEMMA GenBitsDoneStep ==
  ASSUME BaseInv, NEW e \in Execs,
         GenBitsDone(e)
  PROVE  BaseInv' /\ (OwnInv /\ ~late' => OwnInv')
<1>1. TypeOK'
  BY CollectionAssumption DEF GenBitsDone, Running, BaseInv, TypeOK, ExecPC,
         GenPC, page, tasks, count, locks, gen, execs, hist
<1>2. LockInv' /\ ScopeInv'
  BY CollectionAssumption DEF GenBitsDone, Running, BaseInv, TypeOK,
         LockInv, ScopeInv, page, tasks, count, locks, gen, execs, hist
<1>3. SlabInv'
  BY CollectionAssumption DEF GenBitsDone, Running, BaseInv, TypeOK,
         SlabInv, FinishInv, Holding, Owning, page, tasks, count, locks,
         gen, execs, hist
<1>4. FinishInv'
  BY CollectionAssumption DEF GenBitsDone, Running, BaseInv, TypeOK,
         ScopeInv, SlabInv, FinishInv, Holding, Owning, page, tasks, count,
         locks, gen, execs, hist
<1>5. NoLostWake'
  BY CollectionAssumption DEF GenBitsDone, Running, BaseInv, TypeOK,
         ScopeInv, SlabInv, FinishInv, NoLostWake, Delivering, Holding,
         Owning, page, tasks, count, locks, gen, execs, hist
<1>6. ASSUME OwnInv, ~late' PROVE NotifiedInv' /\ BorrowInv'
  BY <1>6, CollectionAssumption DEF GenBitsDone, Running, BaseInv, OwnInv,
         TypeOK, LockInv, ScopeInv, SlabInv, FinishInv, NotifiedInv,
         BorrowInv, HoldInv, Holding, Owning, page, tasks, count, locks,
         gen, execs, hist
<1>7. ASSUME OwnInv, ~late' PROVE HoldInv'
  BY <1>7, CollectionAssumption DEF GenBitsDone, Running, BaseInv, OwnInv,
         TypeOK, LockInv, ScopeInv, SlabInv, FinishInv, NotifiedInv,
         BorrowInv, HoldInv, SingleOwner, Holding, Owning, page, tasks,
         count, locks, gen, execs, hist
<1>8. ASSUME OwnInv, ~late' PROVE SingleOwner'
  BY <1>8, CollectionAssumption DEF GenBitsDone, Running, BaseInv, OwnInv,
         TypeOK, LockInv, ScopeInv, NotifiedInv, BorrowInv, HoldInv,
         SingleOwner, Holding, Owning, page, tasks, count, locks, gen,
         execs, hist
<1> QED BY <1>1, <1>2, <1>3, <1>4, <1>5, <1>6, <1>7, <1>8 DEF BaseInv, OwnInv

\* A dropped slot holds a finished task that nobody is about to drop.
LEMMA GenRemoveStep ==
  ASSUME BaseInv, NEW e \in Execs, NEW s \in Slots,
         GenRemove(e, s)
  PROVE  BaseInv' /\ (OwnInv /\ ~late' => OwnInv')
<1>1. TypeOK'
  BY CollectionAssumption DEF GenRemove, Running, BaseInv, TypeOK, ExecPC,
         GenPC, page, tasks, count, locks, gen, execs, hist
<1>2. LockInv' /\ ScopeInv'
  BY CollectionAssumption DEF GenRemove, Running, BaseInv, TypeOK, LockInv,
         ScopeInv, page, tasks, count, locks, gen, execs, hist
<1>3. SlabInv'
  BY CollectionAssumption DEF GenRemove, Running, BaseInv, TypeOK, SlabInv,
         FinishInv, Holding, Owning, page, tasks, count, locks, gen, execs,
         hist
<1>4. FinishInv'
  BY CollectionAssumption DEF GenRemove, Running, BaseInv, TypeOK, ScopeInv,
         SlabInv, FinishInv, Holding, Owning, page, tasks, count, locks,
         gen, execs, hist
<1>5. NoLostWake'
  BY CollectionAssumption DEF GenRemove, Running, BaseInv, TypeOK, ScopeInv,
         SlabInv, FinishInv, NoLostWake, Delivering, Holding, Owning, page,
         tasks, count, locks, gen, execs, hist
<1>6. ASSUME OwnInv, ~late' PROVE NotifiedInv' /\ BorrowInv'
  BY <1>6, CollectionAssumption DEF GenRemove, Running, BaseInv, OwnInv,
         TypeOK, LockInv, ScopeInv, SlabInv, FinishInv, NotifiedInv,
         BorrowInv, HoldInv, Holding, Owning, page, tasks, count, locks,
         gen, execs, hist
<1>7. ASSUME OwnInv, ~late' PROVE HoldInv'
  BY <1>7, CollectionAssumption DEF GenRemove, Running, BaseInv, OwnInv,
         TypeOK, LockInv, ScopeInv, SlabInv, FinishInv, NotifiedInv,
         BorrowInv, HoldInv, SingleOwner, Holding, Owning, page, tasks,
         count, locks, gen, execs, hist
<1>8. ASSUME OwnInv, ~late' PROVE SingleOwner'
  BY <1>8, CollectionAssumption DEF GenRemove, Running, BaseInv, OwnInv,
         TypeOK, LockInv, ScopeInv, NotifiedInv, BorrowInv, HoldInv,
         SingleOwner, Holding, Owning, page, tasks, count, locks, gen,
         execs, hist
<1> QED BY <1>1, <1>2, <1>3, <1>4, <1>5, <1>6, <1>7, <1>8 DEF BaseInv, OwnInv

\* The scan moves on.
LEMMA GenNextPageStep ==
  ASSUME BaseInv, NEW e \in Execs,
         GenNextPage(e)
  PROVE  BaseInv' /\ (OwnInv /\ ~late' => OwnInv')
<1>1. TypeOK'
  BY CollectionAssumption DEF GenNextPage, Running, BaseInv, TypeOK, ExecPC,
         GenPC, page, tasks, count, locks, gen, execs, hist
<1>2. LockInv' /\ ScopeInv'
  BY CollectionAssumption DEF GenNextPage, Running, BaseInv, TypeOK,
         LockInv, ScopeInv, page, tasks, count, locks, gen, execs, hist
<1>3. SlabInv'
  BY CollectionAssumption DEF GenNextPage, Running, BaseInv, TypeOK,
         SlabInv, FinishInv, Holding, Owning, page, tasks, count, locks,
         gen, execs, hist
<1>4. FinishInv'
  BY CollectionAssumption DEF GenNextPage, Running, BaseInv, TypeOK,
         ScopeInv, SlabInv, FinishInv, Holding, Owning, page, tasks, count,
         locks, gen, execs, hist
<1>5. NoLostWake'
  BY CollectionAssumption DEF GenNextPage, Running, BaseInv, TypeOK,
         ScopeInv, SlabInv, FinishInv, NoLostWake, Delivering, Holding,
         Owning, page, tasks, count, locks, gen, execs, hist
<1>6. ASSUME OwnInv, ~late' PROVE NotifiedInv' /\ BorrowInv'
  BY <1>6, CollectionAssumption DEF GenNextPage, Running, BaseInv, OwnInv,
         TypeOK, LockInv, ScopeInv, SlabInv, FinishInv, NotifiedInv,
         BorrowInv, HoldInv, Holding, Owning, page, tasks, count, locks,
         gen, execs, hist
<1>7. ASSUME OwnInv, ~late' PROVE HoldInv'
  BY <1>7, CollectionAssumption DEF GenNextPage, Running, BaseInv, OwnInv,
         TypeOK, LockInv, ScopeInv, SlabInv, FinishInv, NotifiedInv,
         BorrowInv, HoldInv, SingleOwner, Holding, Owning, page, tasks,
         count, locks, gen, execs, hist
<1>8. ASSUME OwnInv, ~late' PROVE SingleOwner'
  BY <1>8, CollectionAssumption DEF GenNextPage, Running, BaseInv, OwnInv,
         TypeOK, LockInv, ScopeInv, NotifiedInv, BorrowInv, HoldInv,
         SingleOwner, Holding, Owning, page, tasks, count, locks, gen,
         execs, hist
<1> QED BY <1>1, <1>2, <1>3, <1>4, <1>5, <1>6, <1>7, <1>8 DEF BaseInv, OwnInv

\* The scan starts over.
LEMMA GenRescanStep ==
  ASSUME BaseInv, NEW e \in Execs,
         GenRescan(e)
  PROVE  BaseInv' /\ (OwnInv /\ ~late' => OwnInv')
<1>1. TypeOK'
  BY CollectionAssumption DEF GenRescan, Running, BaseInv, TypeOK, ExecPC,
         GenPC, page, tasks, count, locks, gen, execs, hist
<1>2. LockInv' /\ ScopeInv'
  BY CollectionAssumption DEF GenRescan, Running, BaseInv, TypeOK, LockInv,
         ScopeInv, page, tasks, count, locks, gen, execs, hist
<1>3. SlabInv'
  BY CollectionAssumption DEF GenRescan, Running, BaseInv, TypeOK, SlabInv,
         FinishInv, Holding, Owning, page, tasks, count, locks, gen, execs,
         hist
<1>4. FinishInv'
  BY CollectionAssumption DEF GenRescan, Running, BaseInv, TypeOK, ScopeInv,
         SlabInv, FinishInv, Holding, Owning, page, tasks, count, locks,
         gen, execs, hist
<1>5. NoLostWake'
  BY CollectionAssumption DEF GenRescan, Running, BaseInv, TypeOK, ScopeInv,
         SlabInv, FinishInv, NoLostWake, Delivering, Holding, Owning, page,
         tasks, count, locks, gen, execs, hist
<1>6. ASSUME OwnInv, ~late' PROVE NotifiedInv' /\ BorrowInv'
  BY <1>6, CollectionAssumption DEF GenRescan, Running, BaseInv, OwnInv,
         TypeOK, LockInv, ScopeInv, SlabInv, FinishInv, NotifiedInv,
         BorrowInv, HoldInv, Holding, Owning, page, tasks, count, locks,
         gen, execs, hist
<1>7. ASSUME OwnInv, ~late' PROVE HoldInv'
  BY <1>7, CollectionAssumption DEF GenRescan, Running, BaseInv, OwnInv,
         TypeOK, LockInv, ScopeInv, SlabInv, FinishInv, NotifiedInv,
         BorrowInv, HoldInv, SingleOwner, Holding, Owning, page, tasks,
         count, locks, gen, execs, hist
<1>8. ASSUME OwnInv, ~late' PROVE SingleOwner'
  BY <1>8, CollectionAssumption DEF GenRescan, Running, BaseInv, OwnInv,
         TypeOK, LockInv, ScopeInv, NotifiedInv, BorrowInv, HoldInv,
         SingleOwner, Holding, Owning, page, tasks, count, locks, gen,
         execs, hist
<1> QED BY <1>1, <1>2, <1>3, <1>4, <1>5, <1>6, <1>7, <1>8 DEF BaseInv, OwnInv

\* The generator yields None.
LEMMA GenYieldNoneStep ==
  ASSUME BaseInv, NEW e \in Execs,
         GenYieldNone(e)
  PROVE  BaseInv' /\ (OwnInv /\ ~late' => OwnInv')
<1>1. TypeOK'
  BY CollectionAssumption DEF GenYieldNone, Running, BaseInv, TypeOK,
         ExecPC, GenPC, page, tasks, count, locks, gen, execs, hist
<1>2. LockInv' /\ ScopeInv'
  BY CollectionAssumption DEF GenYieldNone, Running, BaseInv, TypeOK,
         LockInv, ScopeInv, page, tasks, count, locks, gen, execs, hist
<1>3. SlabInv'
  BY CollectionAssumption DEF GenYieldNone, Running, BaseInv, TypeOK,
         SlabInv, FinishInv, Holding, Owning, page, tasks, count, locks,
         gen, execs, hist
<1>4. FinishInv'
  BY CollectionAssumption DEF GenYieldNone, Running, BaseInv, TypeOK,
         ScopeInv, SlabInv, FinishInv, Holding, Owning, page, tasks, count,
         locks, gen, execs, hist
<1>5. NoLostWake'
  BY CollectionAssumption DEF GenYieldNone, Running, BaseInv, TypeOK,
         ScopeInv, SlabInv, FinishInv, NoLostWake, Delivering, Holding,
         Owning, page, tasks, count, locks, gen, execs, hist
<1>6. ASSUME OwnInv, ~late' PROVE NotifiedInv' /\ BorrowInv'
  BY <1>6, CollectionAssumption DEF GenYieldNone, Running, BaseInv, OwnInv,
         TypeOK, LockInv, ScopeInv, SlabInv, FinishInv, NotifiedInv,
         BorrowInv, HoldInv, Holding, Owning, page, tasks, count, locks,
         gen, execs, hist
<1>7. ASSUME OwnInv, ~late' PROVE HoldInv'
  BY <1>7, CollectionAssumption DEF GenYieldNone, Running, BaseInv, OwnInv,
         TypeOK, LockInv, ScopeInv, SlabInv, FinishInv, NotifiedInv,
         BorrowInv, HoldInv, SingleOwner, Holding, Owning, page, tasks,
         count, locks, gen, execs, hist
<1>8. ASSUME OwnInv, ~late' PROVE SingleOwner'
  BY <1>8, CollectionAssumption DEF GenYieldNone, Running, BaseInv, OwnInv,
         TypeOK, LockInv, ScopeInv, NotifiedInv, BorrowInv, HoldInv,
         SingleOwner, Holding, Owning, page, tasks, count, locks, gen,
         execs, hist
<1> QED BY <1>1, <1>2, <1>3, <1>4, <1>5, <1>6, <1>7, <1>8 DEF BaseInv, OwnInv

\* A vacant slot panics; otherwise the executor now holds its task.
LEMMA LookupStep ==
  ASSUME BaseInv, NEW e \in Execs,
         Lookup(e)
  PROVE  BaseInv' /\ (OwnInv /\ ~late' => OwnInv')
<1>1. TypeOK'
  <2>1. key[e] \in Slots
    BY DEF Lookup, BaseInv, TypeOK, FinishInv, Holding
  <2>2. task' \in [Execs -> Tasks \cup {None}] /\ pc' \in [Execs -> ExecPC]
    BY <2>1 DEF Lookup, BaseInv, TypeOK, ExecPC
  <2>. QED
    BY <2>2 DEF Lookup, BaseInv, TypeOK, page, tasks, count, gen, hist
<1>2. LockInv' /\ ScopeInv'
  BY CollectionAssumption DEF Lookup, BaseInv, TypeOK, LockInv, ScopeInv,
         page, tasks, count, locks, gen, execs, hist
<1>3. SlabInv'
  BY CollectionAssumption DEF Lookup, BaseInv, TypeOK, SlabInv, FinishInv,
         Holding, Owning, page, tasks, count, locks, gen, execs, hist
<1>4. FinishInv'
  <2>1. key[e] \in Slots /\ pc[e] = "lookup"
    BY DEF Lookup, BaseInv, TypeOK, FinishInv, Holding
  <2>2. slab[key[e]] # None => slab[key[e]] \in Tasks /\ home[slab[key[e]]] = key[e]
    BY <2>1 DEF BaseInv, TypeOK, SlabInv
  <2>3. \A f \in Execs : f # e => /\ pc'[f] = pc[f] /\ task'[f] = task[f]
                                  /\ key'[f] = key[f]
    BY DEF Lookup, BaseInv, TypeOK
  <2>4. /\ key'[e] = key[e] /\ task'[e] = slab[key[e]]
        /\ pc'[e] = IF slab[key[e]] = None THEN "panicked" ELSE "mark"
    BY DEF Lookup, BaseInv, TypeOK
  <2>5. UNCHANGED <<slab, finish, home, dropped, gdrop, gdropped>>
    BY DEF Lookup, page, tasks, gen
  <2>. QED
    BY <2>1, <2>2, <2>3, <2>4, <2>5, CollectionAssumption DEF BaseInv, FinishInv,
       Holding, Owning
<1>5. NoLostWake'
  BY CollectionAssumption DEF Lookup, BaseInv, TypeOK, ScopeInv, SlabInv,
         FinishInv, NoLostWake, Delivering, Holding, Owning, page, tasks,
         count, locks, gen, execs, hist
<1>6. ASSUME OwnInv, ~late' PROVE NotifiedInv' /\ BorrowInv'
  BY <1>6, CollectionAssumption DEF Lookup, BaseInv, OwnInv, TypeOK,
         LockInv, ScopeInv, SlabInv, FinishInv, NotifiedInv, BorrowInv,
         HoldInv, Holding, Owning, page, tasks, count, locks, gen, execs,
         hist
<1>7. ASSUME OwnInv, ~late' PROVE HoldInv'
  BY <1>7, CollectionAssumption DEF Lookup, BaseInv, OwnInv, TypeOK,
         LockInv, ScopeInv, SlabInv, FinishInv, NotifiedInv, BorrowInv,
         HoldInv, SingleOwner, Holding, Owning, page, tasks, count, locks,
         gen, execs, hist
<1>8. ASSUME OwnInv, ~late' PROVE SingleOwner'
  BY <1>8, CollectionAssumption DEF Lookup, BaseInv, OwnInv, TypeOK,
         LockInv, ScopeInv, NotifiedInv, BorrowInv, HoldInv, SingleOwner,
         Holding, Owning, page, tasks, count, locks, gen, execs, hist
<1> QED BY <1>1, <1>2, <1>3, <1>4, <1>5, <1>6, <1>7, <1>8 DEF BaseInv, OwnInv

\* The borrow bit is already set.
LEMMA MarkBorrowedStep ==
  ASSUME BaseInv, NEW e \in Execs,
         MarkBorrowed(e)
  PROVE  BaseInv' /\ (OwnInv /\ ~late' => OwnInv')
<1>1. TypeOK'
  <2>1. key[e] \in Slots
    BY DEF MarkBorrowed, BaseInv, TypeOK, FinishInv, Holding, Owning
  <2>. QED
    BY <2>1 DEF MarkBorrowed, BaseInv, TypeOK, ExecPC, tasks, count, locks, gen, hist
<1>2. LockInv' /\ ScopeInv'
  BY CollectionAssumption DEF MarkBorrowed, BaseInv, TypeOK, LockInv,
         ScopeInv, page, tasks, count, locks, gen, execs, hist
<1>3. SlabInv'
  BY CollectionAssumption DEF MarkBorrowed, BaseInv, TypeOK, SlabInv,
         FinishInv, Holding, Owning, page, tasks, count, locks, gen, execs,
         hist
<1>4. FinishInv'
  BY CollectionAssumption DEF MarkBorrowed, BaseInv, TypeOK, ScopeInv,
         SlabInv, FinishInv, Holding, Owning, page, tasks, count, locks,
         gen, execs, hist
<1>5. NoLostWake'
  BY CollectionAssumption DEF MarkBorrowed, BaseInv, TypeOK, ScopeInv,
         SlabInv, FinishInv, NoLostWake, Delivering, Holding, Owning, page,
         tasks, count, locks, gen, execs, hist
<1>6. ASSUME OwnInv, ~late' PROVE NotifiedInv' /\ BorrowInv'
  BY <1>6, CollectionAssumption DEF MarkBorrowed, BaseInv, OwnInv, TypeOK,
         LockInv, ScopeInv, SlabInv, FinishInv, NotifiedInv, BorrowInv,
         HoldInv, Holding, Owning, page, tasks, count, locks, gen, execs,
         hist
<1>7. ASSUME OwnInv, ~late' PROVE HoldInv'
  BY <1>7, CollectionAssumption DEF MarkBorrowed, BaseInv, OwnInv, TypeOK,
         LockInv, ScopeInv, SlabInv, FinishInv, NotifiedInv, BorrowInv,
         HoldInv, SingleOwner, Holding, Owning, page, tasks, count, locks,
         gen, execs, hist
<1>8. ASSUME OwnInv, ~late' PROVE SingleOwner'
  BY <1>8, CollectionAssumption DEF MarkBorrowed, BaseInv, OwnInv, TypeOK,
         LockInv, ScopeInv, NotifiedInv, BorrowInv, HoldInv, SingleOwner,
         Holding, Owning, page, tasks, count, locks, gen, execs, hist
<1> QED BY <1>1, <1>2, <1>3, <1>4, <1>5, <1>6, <1>7, <1>8 DEF BaseInv, OwnInv

\* A finished task is not polled.
LEMMA CheckFinishStep ==
  ASSUME BaseInv, NEW e \in Execs,
         CheckFinish(e)
  PROVE  BaseInv' /\ (OwnInv /\ ~late' => OwnInv')
<1>1. TypeOK'
  BY CollectionAssumption DEF CheckFinish, BaseInv, TypeOK, ExecPC, GenPC,
         page, tasks, count, locks, gen, execs, hist
<1>2. LockInv' /\ ScopeInv'
  BY CollectionAssumption DEF CheckFinish, BaseInv, TypeOK, LockInv,
         ScopeInv, page, tasks, count, locks, gen, execs, hist
<1>3. SlabInv'
  BY CollectionAssumption DEF CheckFinish, BaseInv, TypeOK, SlabInv,
         FinishInv, Holding, Owning, page, tasks, count, locks, gen, execs,
         hist
<1>4. FinishInv'
  BY CollectionAssumption DEF CheckFinish, BaseInv, TypeOK, ScopeInv,
         SlabInv, FinishInv, Holding, Owning, page, tasks, count, locks,
         gen, execs, hist
<1>5. NoLostWake'
  BY CollectionAssumption DEF CheckFinish, BaseInv, TypeOK, ScopeInv,
         SlabInv, FinishInv, NoLostWake, Delivering, Holding, Owning, page,
         tasks, count, locks, gen, execs, hist
<1>6. ASSUME OwnInv, ~late' PROVE NotifiedInv' /\ BorrowInv'
  BY <1>6, CollectionAssumption DEF CheckFinish, BaseInv, OwnInv, TypeOK,
         LockInv, ScopeInv, SlabInv, FinishInv, NotifiedInv, BorrowInv,
         HoldInv, Holding, Owning, page, tasks, count, locks, gen, execs,
         hist
<1>7. ASSUME OwnInv, ~late' PROVE HoldInv'
  BY <1>7, CollectionAssumption DEF CheckFinish, BaseInv, OwnInv, TypeOK,
         LockInv, ScopeInv, SlabInv, FinishInv, NotifiedInv, BorrowInv,
         HoldInv, SingleOwner, Holding, Owning, page, tasks, count, locks,
         gen, execs, hist
<1>8. ASSUME OwnInv, ~late' PROVE SingleOwner'
  BY <1>8, CollectionAssumption DEF CheckFinish, BaseInv, OwnInv, TypeOK,
         LockInv, ScopeInv, NotifiedInv, BorrowInv, HoldInv, SingleOwner,
         Holding, Owning, page, tasks, count, locks, gen, execs, hist
<1> QED BY <1>1, <1>2, <1>3, <1>4, <1>5, <1>6, <1>7, <1>8 DEF BaseInv, OwnInv

\* The poll serves the wake.
LEMMA BeginPollStep ==
  ASSUME BaseInv, NEW e \in Execs,
         BeginPoll(e)
  PROVE  BaseInv' /\ (OwnInv /\ ~late' => OwnInv')
<1>1. TypeOK'
  <2>1. task[e] \in Tasks
    BY DEF BeginPoll, BaseInv, TypeOK, FinishInv, Owning
  <2>2. pc' \in [Execs -> ExecPC]
    BY DEF BeginPoll, BaseInv, TypeOK, ExecPC
  <2>. QED
    BY <2>1, <2>2 DEF BeginPoll, BaseInv, TypeOK, page, count, locks, gen
<1>2. LockInv' /\ ScopeInv'
  BY CollectionAssumption DEF BeginPoll, Polling, BaseInv, TypeOK, LockInv,
         ScopeInv, page, tasks, count, locks, gen, execs, hist
<1>3. SlabInv'
  BY CollectionAssumption DEF BeginPoll, Polling, BaseInv, TypeOK, SlabInv,
         FinishInv, Holding, Owning, page, tasks, count, locks, gen, execs,
         hist
<1>4. FinishInv'
  BY CollectionAssumption DEF BeginPoll, Polling, BaseInv, TypeOK, ScopeInv,
         SlabInv, FinishInv, Holding, Owning, page, tasks, count, locks,
         gen, execs, hist
<1>5. NoLostWake'
  BY CollectionAssumption DEF BeginPoll, Polling, BaseInv, TypeOK, ScopeInv,
         SlabInv, FinishInv, NoLostWake, Delivering, Holding, Owning, page,
         tasks, count, locks, gen, execs, hist
<1>6. ASSUME OwnInv, ~late' PROVE NotifiedInv' /\ BorrowInv'
  BY <1>6, CollectionAssumption DEF BeginPoll, Polling, BaseInv, OwnInv,
         TypeOK, LockInv, ScopeInv, SlabInv, FinishInv, NotifiedInv,
         BorrowInv, HoldInv, Holding, Owning, page, tasks, count, locks,
         gen, execs, hist
<1>7. ASSUME OwnInv, ~late' PROVE HoldInv'
  BY <1>7, CollectionAssumption DEF BeginPoll, Polling, BaseInv, OwnInv,
         TypeOK, LockInv, ScopeInv, SlabInv, FinishInv, NotifiedInv,
         BorrowInv, HoldInv, SingleOwner, Holding, Owning, page, tasks,
         count, locks, gen, execs, hist
<1>8. ASSUME OwnInv, ~late' PROVE SingleOwner'
  BY <1>8, CollectionAssumption DEF BeginPoll, Polling, BaseInv, OwnInv,
         TypeOK, LockInv, ScopeInv, NotifiedInv, BorrowInv, HoldInv,
         SingleOwner, Holding, Owning, page, tasks, count, locks, gen,
         execs, hist
<1> QED BY <1>1, <1>2, <1>3, <1>4, <1>5, <1>6, <1>7, <1>8 DEF BaseInv, OwnInv

\* The future completed.
LEMMA PollReadyStep ==
  ASSUME BaseInv, NEW e \in Execs,
         PollReady(e)
  PROVE  BaseInv' /\ (OwnInv /\ ~late' => OwnInv')
<1>1. TypeOK'
  BY CollectionAssumption DEF PollReady, BaseInv, TypeOK, ExecPC, GenPC,
         page, tasks, count, locks, gen, execs, hist
<1>2. LockInv' /\ ScopeInv'
  BY CollectionAssumption DEF PollReady, BaseInv, TypeOK, LockInv, ScopeInv,
         page, tasks, count, locks, gen, execs, hist
<1>3. SlabInv'
  BY CollectionAssumption DEF PollReady, BaseInv, TypeOK, SlabInv,
         FinishInv, Holding, Owning, page, tasks, count, locks, gen, execs,
         hist
<1>4. FinishInv'
  BY CollectionAssumption DEF PollReady, BaseInv, TypeOK, ScopeInv, SlabInv,
         FinishInv, Holding, Owning, page, tasks, count, locks, gen, execs,
         hist
<1>5. NoLostWake'
  BY CollectionAssumption DEF PollReady, BaseInv, TypeOK, ScopeInv, SlabInv,
         FinishInv, NoLostWake, Delivering, Holding, Owning, page, tasks,
         count, locks, gen, execs, hist
<1>6. ASSUME OwnInv, ~late' PROVE NotifiedInv' /\ BorrowInv'
  BY <1>6, CollectionAssumption DEF PollReady, BaseInv, OwnInv, TypeOK,
         LockInv, ScopeInv, SlabInv, FinishInv, NotifiedInv, BorrowInv,
         HoldInv, Holding, Owning, page, tasks, count, locks, gen, execs,
         hist
<1>7. ASSUME OwnInv, ~late' PROVE HoldInv'
  BY <1>7, CollectionAssumption DEF PollReady, BaseInv, OwnInv, TypeOK,
         LockInv, ScopeInv, SlabInv, FinishInv, NotifiedInv, BorrowInv,
         HoldInv, SingleOwner, Holding, Owning, page, tasks, count, locks,
         gen, execs, hist
<1>8. ASSUME OwnInv, ~late' PROVE SingleOwner'
  BY <1>8, CollectionAssumption DEF PollReady, BaseInv, OwnInv, TypeOK,
         LockInv, ScopeInv, NotifiedInv, BorrowInv, HoldInv, SingleOwner,
         Holding, Owning, page, tasks, count, locks, gen, execs, hist
<1> QED BY <1>1, <1>2, <1>3, <1>4, <1>5, <1>6, <1>7, <1>8 DEF BaseInv, OwnInv

\* The future is pending.
LEMMA PollPendingStep ==
  ASSUME BaseInv, NEW e \in Execs,
         PollPending(e)
  PROVE  BaseInv' /\ (OwnInv /\ ~late' => OwnInv')
<1>1. TypeOK'
  BY CollectionAssumption DEF PollPending, BaseInv, TypeOK, ExecPC, GenPC,
         page, tasks, count, locks, gen, execs, hist
<1>2. LockInv' /\ ScopeInv'
  BY CollectionAssumption DEF PollPending, BaseInv, TypeOK, LockInv,
         ScopeInv, page, tasks, count, locks, gen, execs, hist
<1>3. SlabInv'
  BY CollectionAssumption DEF PollPending, BaseInv, TypeOK, SlabInv,
         FinishInv, Holding, Owning, page, tasks, count, locks, gen, execs,
         hist
<1>4. FinishInv'
  BY CollectionAssumption DEF PollPending, BaseInv, TypeOK, ScopeInv,
         SlabInv, FinishInv, Holding, Owning, page, tasks, count, locks,
         gen, execs, hist
<1>5. NoLostWake'
  BY CollectionAssumption DEF PollPending, BaseInv, TypeOK, ScopeInv,
         SlabInv, FinishInv, NoLostWake, Delivering, Holding, Owning, page,
         tasks, count, locks, gen, execs, hist
<1>6. ASSUME OwnInv, ~late' PROVE NotifiedInv' /\ BorrowInv'
  BY <1>6, CollectionAssumption DEF PollPending, BaseInv, OwnInv, TypeOK,
         LockInv, ScopeInv, SlabInv, FinishInv, NotifiedInv, BorrowInv,
         HoldInv, Holding, Owning, page, tasks, count, locks, gen, execs,
         hist
<1>7. ASSUME OwnInv, ~late' PROVE HoldInv'
  BY <1>7, CollectionAssumption DEF PollPending, BaseInv, OwnInv, TypeOK,
         LockInv, ScopeInv, SlabInv, FinishInv, NotifiedInv, BorrowInv,
         HoldInv, SingleOwner, Holding, Owning, page, tasks, count, locks,
         gen, execs, hist
<1>8. ASSUME OwnInv, ~late' PROVE SingleOwner'
  BY <1>8, CollectionAssumption DEF PollPending, BaseInv, OwnInv, TypeOK,
         LockInv, ScopeInv, NotifiedInv, BorrowInv, HoldInv, SingleOwner,
         Holding, Owning, page, tasks, count, locks, gen, execs, hist
<1> QED BY <1>1, <1>2, <1>3, <1>4, <1>5, <1>6, <1>7, <1>8 DEF BaseInv, OwnInv

\* The first to finish a task finds it in its slot.
LEMMA DropSwapStep ==
  ASSUME BaseInv, NEW e \in Execs,
         DropSwap(e)
  PROVE  BaseInv' /\ (OwnInv /\ ~late' => OwnInv')
<1>1. TypeOK'
  BY CollectionAssumption DEF DropSwap, BaseInv, TypeOK, ExecPC, GenPC,
         page, tasks, count, locks, gen, execs, hist
<1>2. LockInv' /\ ScopeInv'
  BY CollectionAssumption DEF DropSwap, BaseInv, TypeOK, LockInv, ScopeInv,
         page, tasks, count, locks, gen, execs, hist
<1>3. SlabInv'
  BY CollectionAssumption DEF DropSwap, BaseInv, TypeOK, SlabInv, FinishInv,
         Holding, Owning, page, tasks, count, locks, gen, execs, hist
<1>4. FinishInv'
  <2> DEFINE t == task[e]
  <2>1. /\ t \in Tasks /\ home[t] = key[e] /\ key[e] # None /\ key[e] \in Slots
        /\ pc[e] = "finish"
    BY DEF DropSwap, BaseInv, TypeOK, FinishInv, Holding, Owning
  <2>2. \A f \in Execs : f # e => pc'[f] = pc[f]
    BY DEF DropSwap, BaseInv, TypeOK
  <2>3. pc'[e] = IF finish[t] THEN "idle" ELSE "drop"
    BY DEF DropSwap, BaseInv, TypeOK
  <2>4. finish'[t] /\ \A u \in Tasks : finish[u] => finish'[u]
    BY <2>1 DEF DropSwap, BaseInv, TypeOK
  <2>5. UNCHANGED <<slab, home, dropped, gdrop, gdropped, key, task>>
    BY DEF DropSwap, page, gen
  <2>6. ~finish[t] => /\ slab[key[e]] = t /\ key[e] \notin dropped \cup gdrop
                      /\ \A f \in Execs : pc[f] = "drop" => task[f] # t
    BY <2>1 DEF BaseInv, SlabInv, FinishInv
  <2>7. \A s \in dropped' \cup gdrop' \cup gdropped' : slab'[s] # None /\ finish'[slab'[s]]
    BY <2>4, <2>5 DEF BaseInv, TypeOK, FinishInv
  <2>8. \A f \in Execs :
          /\ Holding(f)' => key'[f] # None
          /\ Owning(f)' => task'[f] # None /\ home'[task'[f]] = key'[f]
    BY <2>1, <2>2, <2>3, <2>5 DEF BaseInv, FinishInv, Holding, Owning
  <2>9. \A f \in Execs :
          pc'[f] = "drop" => /\ finish'[task'[f]] /\ slab'[key'[f]] = task'[f]
                             /\ key'[f] \notin dropped' \cup gdrop'
    <3>1. \A f \in Execs : pc[f] = "drop" => task[f] \in Tasks
      BY DEF BaseInv, TypeOK, FinishInv, Owning
    <3>. QED
      BY <2>1, <2>2, <2>3, <2>4, <2>5, <2>6, <3>1 DEF BaseInv, FinishInv
  <2>10. \A f, g \in Execs :
           f # g /\ pc'[f] = "drop" /\ pc'[g] = "drop" => task'[f] # task'[g]
    BY <2>1, <2>2, <2>3, <2>5, <2>6 DEF BaseInv, FinishInv
  <2>. QED
    BY <2>7, <2>8, <2>9, <2>10 DEF FinishInv
<1>5. NoLostWake'
  BY CollectionAssumption DEF DropSwap, BaseInv, TypeOK, ScopeInv, SlabInv,
         FinishInv, NoLostWake, Delivering, Holding, Owning, page, tasks,
         count, locks, gen, execs, hist
<1>6. ASSUME OwnInv, ~late' PROVE NotifiedInv' /\ BorrowInv'
  BY <1>6, CollectionAssumption DEF DropSwap, BaseInv, OwnInv, TypeOK,
         LockInv, ScopeInv, SlabInv, FinishInv, NotifiedInv, BorrowInv,
         HoldInv, Holding, Owning, page, tasks, count, locks, gen, execs,
         hist
<1>7. ASSUME OwnInv, ~late' PROVE HoldInv'
  <2>1. /\ pc[e] = "finish" /\ task[e] \in Tasks /\ slab[key[e]] = task[e]
        /\ ~finish[task[e]]
    BY <1>7 DEF DropSwap, BaseInv, OwnInv, TypeOK, FinishInv, HoldInv, Holding, Owning
  <2>2. \A f \in Execs : pc'[f] = IF f = e THEN "drop" ELSE pc[f]
    BY <2>1 DEF DropSwap, BaseInv, TypeOK
  <2>3. UNCHANGED <<slab, borrowed, dropped, gdrop, key, task>>
    BY DEF DropSwap, page, gen
  <2>4. \A u \in Tasks : finish'[u] <=> (finish[u] \/ u = task[e])
    BY <2>1 DEF DropSwap, BaseInv, TypeOK
  <2>5. \A f \in Execs : f # e /\ Holding(f) => slab[key[f]] # task[e]
    <3>1. ~late
      BY <1>7 DEF DropSwap, hist
    <3>2. key[e] # None /\ home[task[e]] = key[e]
      BY <2>1 DEF BaseInv, FinishInv, Holding, Owning
    <3>3. \A f \in Execs : Holding(f) => key[f] \in Slots /\ slab[key[f]] # None
      BY <1>7 DEF BaseInv, OwnInv, TypeOK, HoldInv, FinishInv
    <3>4. \A f \in Execs : Holding(f) => home[slab[key[f]]] = key[f]
      BY <3>3 DEF BaseInv, SlabInv
    <3>5. \A f \in Execs : f # e /\ Holding(f) => key[f] # key[e]
      BY <1>7, <2>1, <3>1 DEF OwnInv, SingleOwner, Holding, Owning
    <3>. QED BY <3>2, <3>4, <3>5
  <2>6. \A f \in Execs : Holding(f) => slab[key[f]] \in Tasks
    BY <1>7 DEF BaseInv, OwnInv, TypeOK, HoldInv, FinishInv
  <2>. QED
    BY <1>7, <2>1, <2>2, <2>3, <2>4, <2>5, <2>6 DEF OwnInv, HoldInv, Holding, Owning
<1>8. ASSUME OwnInv, ~late' PROVE SingleOwner'
  BY <1>8, CollectionAssumption DEF DropSwap, BaseInv, OwnInv, TypeOK,
         LockInv, ScopeInv, NotifiedInv, BorrowInv, HoldInv, SingleOwner,
         Holding, Owning, page, tasks, count, locks, gen, execs, hist
<1> QED BY <1>1, <1>2, <1>3, <1>4, <1>5, <1>6, <1>7, <1>8 DEF BaseInv, OwnInv

\* The task that is dropped has finished and is in its slot.
LEMMA DropMarkStep ==
  ASSUME BaseInv, NEW e \in Execs,
         DropMark(e)
  PROVE  BaseInv' /\ (OwnInv /\ ~late' => OwnInv')
<1>1. TypeOK'
  <2>1. key[e] \in Slots
    BY DEF DropMark, BaseInv, TypeOK, FinishInv, Holding, Owning
  <2>. QED
    BY <2>1 DEF DropMark, BaseInv, TypeOK, ExecPC, tasks, count, locks, gen, hist
<1>2. LockInv' /\ ScopeInv'
  BY CollectionAssumption DEF DropMark, BaseInv, TypeOK, LockInv, ScopeInv,
         page, tasks, count, locks, gen, execs, hist
<1>3. SlabInv'
  BY CollectionAssumption DEF DropMark, BaseInv, TypeOK, SlabInv, FinishInv,
         Holding, Owning, page, tasks, count, locks, gen, execs, hist
<1>4. FinishInv'
  BY CollectionAssumption DEF DropMark, BaseInv, TypeOK, ScopeInv, SlabInv,
         FinishInv, Holding, Owning, page, tasks, count, locks, gen, execs,
         hist
<1>5. NoLostWake'
  BY CollectionAssumption DEF DropMark, BaseInv, TypeOK, ScopeInv, SlabInv,
         FinishInv, NoLostWake, Delivering, Holding, Owning, page, tasks,
         count, locks, gen, execs, hist
<1>6. ASSUME OwnInv, ~late' PROVE NotifiedInv' /\ BorrowInv'
  BY <1>6, CollectionAssumption DEF DropMark, BaseInv, OwnInv, TypeOK,
         LockInv, ScopeInv, SlabInv, FinishInv, NotifiedInv, BorrowInv,
         HoldInv, Holding, Owning, page, tasks, count, locks, gen, execs,
         hist
<1>7. ASSUME OwnInv, ~late' PROVE HoldInv'
  BY <1>7, CollectionAssumption DEF DropMark, BaseInv, OwnInv, TypeOK,
         LockInv, ScopeInv, SlabInv, FinishInv, NotifiedInv, BorrowInv,
         HoldInv, SingleOwner, Holding, Owning, page, tasks, count, locks,
         gen, execs, hist
<1>8. ASSUME OwnInv, ~late' PROVE SingleOwner'
  BY <1>8, CollectionAssumption DEF DropMark, BaseInv, OwnInv, TypeOK,
         LockInv, ScopeInv, NotifiedInv, BorrowInv, HoldInv, SingleOwner,
         Holding, Owning, page, tasks, count, locks, gen, execs, hist
<1> QED BY <1>1, <1>2, <1>3, <1>4, <1>5, <1>6, <1>7, <1>8 DEF BaseInv, OwnInv

\* The only owner of a pending task gives it back.
LEMMA ReleaseBorrowStep ==
  ASSUME BaseInv, NEW e \in Execs,
         ReleaseBorrow(e)
  PROVE  BaseInv' /\ (OwnInv /\ ~late' => OwnInv')
<1>1. TypeOK'
  BY CollectionAssumption DEF ReleaseBorrow, BaseInv, TypeOK, ExecPC, GenPC,
         page, tasks, count, locks, gen, execs, hist
<1>2. LockInv' /\ ScopeInv'
  BY CollectionAssumption DEF ReleaseBorrow, BaseInv, TypeOK, LockInv,
         ScopeInv, page, tasks, count, locks, gen, execs, hist
<1>3. SlabInv'
  BY CollectionAssumption DEF ReleaseBorrow, BaseInv, TypeOK, SlabInv,
         FinishInv, Holding, Owning, page, tasks, count, locks, gen, execs,
         hist
<1>4. FinishInv'
  BY CollectionAssumption DEF ReleaseBorrow, BaseInv, TypeOK, ScopeInv,
         SlabInv, FinishInv, Holding, Owning, page, tasks, count, locks,
         gen, execs, hist
<1>5. NoLostWake'
  BY CollectionAssumption DEF ReleaseBorrow, BaseInv, TypeOK, ScopeInv,
         SlabInv, FinishInv, NoLostWake, Delivering, Holding, Owning, page,
         tasks, count, locks, gen, execs, hist
<1>6. ASSUME OwnInv, ~late' PROVE NotifiedInv' /\ BorrowInv'
  BY <1>6, CollectionAssumption DEF ReleaseBorrow, BaseInv, OwnInv, TypeOK,
         LockInv, ScopeInv, SlabInv, FinishInv, NotifiedInv, BorrowInv,
         HoldInv, Holding, Owning, page, tasks, count, locks, gen, execs,
         hist
<1>7. ASSUME OwnInv, ~late' PROVE HoldInv'
  BY <1>7, CollectionAssumption DEF ReleaseBorrow, BaseInv, OwnInv, TypeOK,
         LockInv, ScopeInv, SlabInv, FinishInv, NotifiedInv, BorrowInv,
         HoldInv, SingleOwner, Holding, Owning, page, tasks, count, locks,
         gen, execs, hist
<1>8. ASSUME OwnInv, ~late' PROVE SingleOwner'
  BY <1>8, CollectionAssumption DEF ReleaseBorrow, BaseInv, OwnInv, TypeOK,
         LockInv, ScopeInv, NotifiedInv, BorrowInv, HoldInv, SingleOwner,
         Holding, Owning, page, tasks, count, locks, gen, execs, hist
<1> QED BY <1>1, <1>2, <1>3, <1>4, <1>5, <1>6, <1>7, <1>8 DEF BaseInv, OwnInv

-----------------------------------------------------------------------------
\* Nothing is spawned yet.
LEMMA InitInv == Init => BaseInv /\ OwnInv
<1> SUFFICES ASSUME Init PROVE BaseInv /\ OwnInv
  OBVIOUS
<1>1. TypeOK
  <2>1. gpage \in 1..NPages /\ taskNum \in Int
    BY CollectionAssumption DEF Init
  <2>2. inner \in BOOLEAN /\ gfound \in BOOLEAN /\ late \in BOOLEAN /\ gpc \in GenPC
    BY DEF Init, GenPC
  <2>. QED
    BY <2>1, <2>2 DEF Init, TypeOK, ExecPC
<1>2. LockInv /\ ScopeInv
  BY CollectionAssumption DEF Init, LockInv, ScopeInv
<1>3. SlabInv /\ NotifiedInv /\ BorrowInv
  BY DEF Init, SlabInv, NotifiedInv, BorrowInv
<1>4. FinishInv /\ HoldInv /\ SingleOwner /\ NoLostWake
  BY DEF Init, FinishInv, HoldInv, SingleOwner, NoLostWake, Holding, Owning
<1> QED BY <1>1, <1>2, <1>3, <1>4 DEF BaseInv, OwnInv

\* Every step of every actor preserves BaseInv, and OwnInv until a wake is late.
LEMMA NextInv ==
  ASSUME BaseInv, [Next]_vars
  PROVE  BaseInv' /\ (OwnInv /\ ~late' => OwnInv')
<1> DEFINE Goal == BaseInv' /\ (OwnInv /\ ~late' => OwnInv')
<1>1. CASE Environment
  BY <1>1, InsertStep, WakeLoadStep, SetAffinityStep DEF Environment
<1>2. ASSUME NEW e \in Execs, TakeTask(e) PROVE Goal
  BY <1>2, TakeTaskStep
<1>3. ASSUME NEW e \in Execs, GenStep(e) PROVE Goal
  BY <1>3, GenStartStep, GenSwapNotifiedStep, GenLoadDroppedStep,
     GenLoadBorrowedStep, GenDeferStep, GenTakeDroppedStep, GenSkipStep,
     GenYieldKeyStep, GenRelockStep, GenBitsDoneStep, GenRemoveStep,
     GenNextPageStep, GenRescanStep, GenYieldNoneStep DEF GenStep
<1>4. ASSUME NEW e \in Execs, PollStep(e) PROVE Goal
  BY <1>4, LookupStep, MarkBorrowedStep, CheckFinishStep, BeginPollStep,
     PollReadyStep, PollPendingStep, DropSwapStep, DropMarkStep,
     ReleaseBorrowStep DEF PollStep
<1>5. ASSUME NEW w \in Wakers, WakeNotify(w) PROVE Goal
  BY <1>5, WakeNotifyStep
<1>6. ASSUME NEW t \in Tasks, CountTask(t) PROVE Goal
  BY <1>6, CountTaskStep
<1>7. CASE UNCHANGED vars
  BY <1>7 DEF vars, page, tasks, count, locks, gen, execs, hist, BaseInv, OwnInv,
     TypeOK, LockInv, ScopeInv, SlabInv, FinishInv, NotifiedInv, BorrowInv,
     HoldInv, SingleOwner, NoLostWake, Delivering, Holding, Owning
<1> QED
  BY <1>1, <1>2, <1>3, <1>4, <1>5, <1>6, <1>7 DEF Next, ExecStep

\* `late` is never reset.
LEMMA LateStays ==
  ASSUME BaseInv, late, [Next]_vars
  PROVE  late'
<1>1. Environment => late'
  BY DEF Environment, Insert, WakeLoad, SetAffinity, hist
<1>2. ASSUME NEW e \in Execs, TakeTask(e) \/ PollStep(e) PROVE late'
  BY <1>2 DEF TakeTask, PollStep, Lookup, MarkBorrowed, CheckFinish, BeginPoll,
     PollReady, PollPending, DropSwap, DropMark, ReleaseBorrow, hist
<1>3. ASSUME NEW e \in Execs, GenStep(e) PROVE late'
  BY <1>3 DEF GenStep, GenStart, GenSwapNotified, GenLoadDropped, GenLoadBorrowed,
     GenDefer, GenTakeDropped, GenSkip, GenYieldKey, GenRelock, GenBitsDone,
     GenRemove, GenNextPage, GenRescan, GenYieldNone, hist
<1>4. ASSUME NEW w \in Wakers, WakeNotify(w) PROVE late'
  BY <1>4 DEF WakeNotify
<1>5. ASSUME NEW t \in Tasks, CountTask(t) PROVE late'
  BY <1>5 DEF CountTask, hist
<1> QED
  BY <1>1, <1>2, <1>3, <1>4, <1>5 DEF Next, ExecStep, vars, hist

\* The two invariants together.
LEMMA Invariance == Spec => [](BaseInv /\ (late \/ OwnInv))
<1>1. BaseInv /\ (late \/ OwnInv) /\ [Next]_vars => (BaseInv /\ (late \/ OwnInv))'
  BY NextInv, LateStays
<1> QED BY <1>1, InitInv, PTL DEF Spec

(* TaskCollection / WakerPage: the variables keep their types, in every      *)
(* behaviour of the code.                                                    *)
THEOREM TypeCorrect == Spec => []TypeOK
<1>1. BaseInv => TypeOK BY DEF BaseInv
<1> QED BY <1>1, Invariance, PTL

(* Executor::run: for any number of executors, slots, pages and wakers, a    *)
(* task is never owned by two executors before a wake lands on a vacant slot.*)
THEOREM OneExecutorPerTask == Spec => []SingleOwner
<1>1. late \/ OwnInv => SingleOwner BY DEF OwnInv, SingleOwner
<1> QED BY <1>1, Invariance, PTL

(* resume_generator: until a wake lands on a vacant slot, unwrap() does not  *)
(* fail, the slot is not reused under the executor that was handed it, and a *)
(* completed future is not polled again.                                     *)
THEOREM HandOutsAreLive == Spec => [](HandOutIsLive /\ NoPollAfterReady)
<1>1. BaseInv /\ (late \/ OwnInv) => HandOutIsLive /\ NoPollAfterReady
  BY DEF BaseInv, OwnInv, TypeOK, HoldInv, HandOutIsLive, NoPollAfterReady, Holding,
     Owning
<1> QED BY <1>1, Invariance, PTL

(* take_notified: no wake is forgotten, wherever it lands in the scan, late  *)
(* wakes or not.                                                             *)
THEOREM WakesAreKept == Spec => []NoLostWake
<1>1. BaseInv => NoLostWake BY DEF BaseInv
<1> QED BY <1>1, Invariance, PTL
=============================================================================

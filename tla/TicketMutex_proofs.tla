------------------------- MODULE TicketMutex_proofs -------------------------
(***************************************************************************)
(* The inductive invariant of TicketMutex, for any number of CPUs and      *)
(* locks: how the outstanding tickets of a lock are numbered, and how the  *)
(* nesting counter, the saved flag and the interrupt flag of a CPU follow  *)
(* the guards of the context it executes.                                  *)
(***************************************************************************)
EXTENDS TicketMutex, FiniteSetTheorems, SequenceTheorems, TLAPS

\* x has a ticket of l that has not been given back.
Waits(x, l) == l \in held[x] \/ (pc[x] = "spin" /\ want[x] = l)

\* Between push_off and pop_off outside any guard of its own.
Inside(x) == pc[x] \in {"ticket", "spin", "try_load", "try_check", "try_swap", "pop"}

Busy(x) == held[x] # {} \/ Inside(x)

\* The flag that x finds outside all locks.
Flag(x) == x[2] = "base" /\ chosen[Cpu(x)]

\* A context on its way to a lock has named it, and is not its owner.
WantInv ==
  \A x \in Ctx :
    /\ pc[x] \notin {"idle", "pop"} => want[x] \in Locks
    /\ pc[x] \in {"off_lock", "ticket", "spin"} => want[x] \notin held[x]

\* The outstanding tickets lie between the two counters, no two contexts
\* have the same one, and a guard stands for the ticket that is served.
TicketInv ==
  /\ \A l \in Locks : next_serving[l] <= next_ticket[l]
  /\ \A x \in Ctx, l \in Locks :
       /\ Waits(x, l) => next_serving[l] <= ticket[x][l] /\ ticket[x][l] < next_ticket[l]
       /\ l \in held[x] => ticket[x][l] = next_serving[l]
  /\ \A x, y \in Ctx, l \in Locks :
       x # y /\ Waits(x, l) /\ Waits(y, l) => ticket[x][l] # ticket[y][l]

\* Every ticket that was handed out and not served is somebody's.
NoGapInv ==
  \A l \in Locks, n \in Nat :
    next_serving[l] <= n /\ n < next_ticket[l]
      => \E x \in Ctx : Waits(x, l) /\ ticket[x][l] = n

\* What try_lock saw is not ahead of the service.
SeenInv ==
  \A x \in Ctx : pc[x] = "try_swap" => seen[x] <= next_serving[want[x]]

\* A context that does not run is outside all locks: a handler has not begun,
\* and a base context was interrupted while its flag was set.
RunInv ==
  \A x \in Ctx :
    ~Running(x) => /\ held[x] = {} /\ pc[x] \in {"idle", "off_lock", "off_try"}
                   /\ x[2] = "irq" => pc[x] = "idle"
                   /\ x[2] = "base" => chosen[Cpu(x)]

\* The interrupt flag of a CPU, what push_off saved of it, and what push_off
\* is about to save.
FlagAt(x) ==
  /\ Running(x) =>
       /\ Busy(x) => ~intr[Cpu(x)] /\ (interrupt_enable[Cpu(x)] <=> Flag(x))
       /\ ~Busy(x) => (intr[Cpu(x)] <=> Flag(x))
  /\ pc[x] \in {"off_lock", "off_try"} /\ held[x] = {} => (old[x] <=> Flag(x))

FlagInv == \A x \in Ctx : FlagAt(x)

\* The nesting counter counts the guards of the context that runs.
DepthAt(x) ==
  /\ IsFiniteSet(held[x])
  /\ Running(x) => noff[Cpu(x)] = Cardinality(held[x]) + (IF Inside(x) THEN 1 ELSE 0)

DepthInv == \A x \in Ctx : DepthAt(x)

IInv == TypeOK /\ WantInv /\ TicketInv /\ NoGapInv /\ SeenInv /\ RunInv /\ FlagInv /\ DepthInv

-----------------------------------------------------------------------------
\* A context is the base or the handler of a CPU.
LEMMA CtxFacts ==
  /\ \A c \in Cpus : <<c, "base">> \in Ctx /\ <<c, "irq">> \in Ctx
  /\ \A x \in Ctx : /\ Cpu(x) \in Cpus /\ x[2] \in {"base", "irq"}
  BY DEF Ctx, Cpu

\* The two of them make up a context.
LEMMA CtxPairs ==
  /\ \A c \in Cpus, i \in {"base", "irq"} : Cpu(<<c, i>>) = c /\ <<c, i>>[2] = i
  /\ \A x, y \in Ctx : Cpu(x) = Cpu(y) /\ x[2] = y[2] => x = y
  /\ \A x \in Ctx : x = <<Cpu(x), x[2]>>
  BY DEF Ctx, Cpu

\* A CPU executes one context at a time.
LEMMA OneRuns ==
  ASSUME NEW x \in Ctx, NEW y \in Ctx, x # y, Running(x)
  PROVE  Cpu(y) # Cpu(x) \/ ~Running(y)
  BY CtxPairs DEF Running

LEMMA InitInv == Init => IInv
<1>. SUFFICES ASSUME Init PROVE IInv
  OBVIOUS
<1>1. TypeOK
  BY CtxFacts DEF Init, TypeOK, PCs
<1>2. WantInv /\ TicketInv /\ NoGapInv /\ SeenInv
  BY LockAssumption DEF Init, WantInv, TicketInv, NoGapInv, SeenInv, Waits
<1>3. RunInv

  BY CtxFacts DEF Init, RunInv, Running
<1>4. FlagInv
  BY CtxFacts DEF Init, FlagInv, FlagAt, Running, Busy, Inside, Flag
<1>5. DepthInv
  BY CtxFacts, FS_EmptySet DEF Init, DepthInv, DepthAt, Running, Inside
<1>. QED
  BY <1>1, <1>2, <1>3, <1>4, <1>5 DEF IInv

\* Every step keeps the types.
LEMMA TypeStep ==
  ASSUME IInv, [Next]_vars
  PROVE  TypeOK'
<1>BeginLock. ASSUME NEW x \in Ctx, NEW l \in Locks, BeginLock(x, l) PROVE TypeOK'
  BY <1>BeginLock, CtxFacts
     DEF BeginLock, IInv, TypeOK, WantInv, lockVars, cpuVars, PCs, Cpu, Running
<1>BeginTry. ASSUME NEW x \in Ctx, NEW l \in Locks, BeginTry(x, l) PROVE TypeOK'
  BY <1>BeginTry, CtxFacts
     DEF BeginTry, IInv, TypeOK, WantInv, lockVars, cpuVars, PCs, Cpu, Running
<1>Unlock. ASSUME NEW x \in Ctx, NEW l \in Locks, Unlock(x, l) PROVE TypeOK'
  BY <1>Unlock, CtxFacts
     DEF Unlock, IInv, TypeOK, WantInv, lockVars, cpuVars, PCs, Cpu, Running
<1>PushOff. ASSUME NEW x \in Ctx, PushOff(x) PROVE TypeOK'
  BY <1>PushOff, CtxFacts
     DEF PushOff, IInv, TypeOK, WantInv, lockVars, cpuVars, PCs, Cpu, Running
<1>FetchTicket. ASSUME NEW x \in Ctx, FetchTicket(x) PROVE TypeOK'

  <2>1. want[x] \in Locks
    BY <1>FetchTicket, LockAssumption DEF FetchTicket, IInv, TypeOK, WantInv
  <2>2. ticket' \in [Ctx -> [Locks -> Nat]]
    BY <1>FetchTicket, <2>1 DEF FetchTicket, IInv, TypeOK
  <2>. QED
    BY <1>FetchTicket, <2>1, <2>2 DEF FetchTicket, IInv, TypeOK, lockVars, cpuVars, PCs
<1>Enter. ASSUME NEW x \in Ctx, Enter(x) PROVE TypeOK'
  BY <1>Enter, CtxFacts
     DEF Enter, IInv, TypeOK, WantInv, lockVars, cpuVars, PCs, Cpu, Running
<1>TryLoad. ASSUME NEW x \in Ctx, TryLoad(x) PROVE TypeOK'
  BY <1>TryLoad, CtxFacts
     DEF TryLoad, IInv, TypeOK, WantInv, lockVars, cpuVars, PCs, Cpu, Running
<1>TryCheck. ASSUME NEW x \in Ctx, TryCheck(x) PROVE TypeOK'
  BY <1>TryCheck, CtxFacts
     DEF TryCheck, IInv, TypeOK, WantInv, lockVars, cpuVars, PCs, Cpu, Running
<1>TrySwap. ASSUME NEW x \in Ctx, TrySwap(x) PROVE TypeOK'

  <2>1. want[x] \in Locks
    BY <1>TrySwap, LockAssumption DEF TrySwap, IInv, TypeOK, WantInv
  <2>2. ticket' \in [Ctx -> [Locks -> Nat]]
    BY <1>TrySwap, <2>1 DEF TrySwap, IInv, TypeOK
  <2>. QED
    BY <1>TrySwap, <2>1, <2>2 DEF TrySwap, IInv, TypeOK, lockVars, cpuVars, PCs
<1>TrySwapFails. ASSUME NEW x \in Ctx, TrySwapFails(x) PROVE TypeOK'
  BY <1>TrySwapFails, CtxFacts
     DEF TrySwapFails, IInv, TypeOK, WantInv, lockVars, cpuVars, PCs, Cpu, Running
<1>PopOff. ASSUME NEW x \in Ctx, PopOff(x) PROVE TypeOK'
  BY <1>PopOff, CtxFacts
     DEF PopOff, IInv, TypeOK, WantInv, lockVars, cpuVars, PCs, Cpu, Running
<1>TakeInterrupt. ASSUME NEW c \in Cpus, TakeInterrupt(c) PROVE TypeOK'
  BY <1>TakeInterrupt, CtxFacts
     DEF TakeInterrupt, IInv, TypeOK, WantInv, lockVars, cpuVars, PCs, Cpu, Running
<1>ReturnFromInterrupt. ASSUME NEW c \in Cpus, ReturnFromInterrupt(c) PROVE TypeOK'
  BY <1>ReturnFromInterrupt, CtxFacts
     DEF ReturnFromInterrupt, IInv, TypeOK, WantInv, lockVars, cpuVars, PCs, Cpu,
         Running
<1>ChangeFlag. ASSUME NEW c \in Cpus, ChangeFlag(c) PROVE TypeOK'
  BY <1>ChangeFlag, CtxFacts
     DEF ChangeFlag, IInv, TypeOK, WantInv, lockVars, cpuVars, PCs, Cpu, Running
<1>Stutter. CASE UNCHANGED vars
  BY <1>Stutter, CtxFacts
     DEF vars, IInv, TypeOK, WantInv, lockVars, cpuVars, PCs, Cpu, Running
<1>. QED
  BY <1>BeginLock, <1>BeginTry, <1>Unlock, <1>PushOff, <1>FetchTicket, <1>Enter,
     <1>TryLoad, <1>TryCheck, <1>TrySwap, <1>TrySwapFails, <1>PopOff,
     <1>TakeInterrupt, <1>ReturnFromInterrupt, <1>ChangeFlag, <1>Stutter
     DEF Next

\* A context names the lock it goes for.
LEMMA WantStep ==
  ASSUME IInv, [Next]_vars
  PROVE  WantInv'
<1>BeginLock. ASSUME NEW x \in Ctx, NEW l \in Locks, BeginLock(x, l) PROVE WantInv'
  BY <1>BeginLock, LockAssumption
     DEF BeginLock, IInv, TypeOK, WantInv, lockVars, cpuVars, PCs
<1>BeginTry. ASSUME NEW x \in Ctx, NEW l \in Locks, BeginTry(x, l) PROVE WantInv'
  BY <1>BeginTry, LockAssumption
     DEF BeginTry, IInv, TypeOK, WantInv, lockVars, cpuVars, PCs
<1>Unlock. ASSUME NEW x \in Ctx, NEW l \in Locks, Unlock(x, l) PROVE WantInv'
  BY <1>Unlock, LockAssumption DEF Unlock, IInv, TypeOK, WantInv, lockVars, cpuVars, PCs
<1>PushOff. ASSUME NEW x \in Ctx, PushOff(x) PROVE WantInv'
  BY <1>PushOff, LockAssumption DEF PushOff, IInv, TypeOK, WantInv, lockVars, cpuVars, PCs
<1>FetchTicket. ASSUME NEW x \in Ctx, FetchTicket(x) PROVE WantInv'
  BY <1>FetchTicket, LockAssumption
     DEF FetchTicket, IInv, TypeOK, WantInv, lockVars, cpuVars, PCs
<1>Enter. ASSUME NEW x \in Ctx, Enter(x) PROVE WantInv'
  BY <1>Enter, LockAssumption DEF Enter, IInv, TypeOK, WantInv, lockVars, cpuVars, PCs
<1>TryLoad. ASSUME NEW x \in Ctx, TryLoad(x) PROVE WantInv'
  BY <1>TryLoad, LockAssumption DEF TryLoad, IInv, TypeOK, WantInv, lockVars, cpuVars, PCs
<1>TryCheck. ASSUME NEW x \in Ctx, TryCheck(x) PROVE WantInv'
  BY <1>TryCheck, LockAssumption
     DEF TryCheck, IInv, TypeOK, WantInv, lockVars, cpuVars, PCs
<1>TrySwap. ASSUME NEW x \in Ctx, TrySwap(x) PROVE WantInv'
  BY <1>TrySwap, LockAssumption DEF TrySwap, IInv, TypeOK, WantInv, lockVars, cpuVars, PCs
<1>TrySwapFails. ASSUME NEW x \in Ctx, TrySwapFails(x) PROVE WantInv'
  BY <1>TrySwapFails, LockAssumption
     DEF TrySwapFails, IInv, TypeOK, WantInv, lockVars, cpuVars, PCs
<1>PopOff. ASSUME NEW x \in Ctx, PopOff(x) PROVE WantInv'
  BY <1>PopOff, LockAssumption DEF PopOff, IInv, TypeOK, WantInv, lockVars, cpuVars, PCs
<1>TakeInterrupt. ASSUME NEW c \in Cpus, TakeInterrupt(c) PROVE WantInv'
  BY <1>TakeInterrupt, LockAssumption
     DEF TakeInterrupt, IInv, TypeOK, WantInv, lockVars, cpuVars, PCs
<1>ReturnFromInterrupt. ASSUME NEW c \in Cpus, ReturnFromInterrupt(c) PROVE WantInv'
  BY <1>ReturnFromInterrupt, LockAssumption
     DEF ReturnFromInterrupt, IInv, TypeOK, WantInv, lockVars, cpuVars, PCs
<1>ChangeFlag. ASSUME NEW c \in Cpus, ChangeFlag(c) PROVE WantInv'
  BY <1>ChangeFlag, LockAssumption
     DEF ChangeFlag, IInv, TypeOK, WantInv, lockVars, cpuVars, PCs
<1>Stutter. CASE UNCHANGED vars
  BY <1>Stutter, LockAssumption DEF vars, IInv, TypeOK, WantInv, lockVars, cpuVars, PCs
<1>. QED
  BY <1>BeginLock, <1>BeginTry, <1>Unlock, <1>PushOff, <1>FetchTicket, <1>Enter,
     <1>TryLoad, <1>TryCheck, <1>TrySwap, <1>TrySwapFails, <1>PopOff,
     <1>TakeInterrupt, <1>ReturnFromInterrupt, <1>ChangeFlag, <1>Stutter
     DEF Next

\* next_serving only grows under a try_lock.
LEMMA SeenStep ==
  ASSUME IInv, [Next]_vars
  PROVE  SeenInv'
<1>BeginLock. ASSUME NEW x \in Ctx, NEW l \in Locks, BeginLock(x, l) PROVE SeenInv'
  BY <1>BeginLock, LockAssumption, WantStep
     DEF BeginLock, IInv, TypeOK, WantInv, TicketInv, SeenInv, lockVars, cpuVars,
         Waits
<1>BeginTry. ASSUME NEW x \in Ctx, NEW l \in Locks, BeginTry(x, l) PROVE SeenInv'
  BY <1>BeginTry, LockAssumption, WantStep
     DEF BeginTry, IInv, TypeOK, WantInv, TicketInv, SeenInv, lockVars, cpuVars, Waits
<1>Unlock. ASSUME NEW x \in Ctx, NEW l \in Locks, Unlock(x, l) PROVE SeenInv'
  BY <1>Unlock, LockAssumption, WantStep
     DEF Unlock, IInv, TypeOK, WantInv, TicketInv, SeenInv, lockVars, cpuVars, Waits
<1>PushOff. ASSUME NEW x \in Ctx, PushOff(x) PROVE SeenInv'
  BY <1>PushOff, LockAssumption, WantStep
     DEF PushOff, IInv, TypeOK, WantInv, TicketInv, SeenInv, lockVars, cpuVars, Waits
<1>FetchTicket. ASSUME NEW x \in Ctx, FetchTicket(x) PROVE SeenInv'
  BY <1>FetchTicket, LockAssumption, WantStep
     DEF FetchTicket, IInv, TypeOK, WantInv, TicketInv, SeenInv, lockVars, cpuVars,
         Waits
<1>Enter. ASSUME NEW x \in Ctx, Enter(x) PROVE SeenInv'
  BY <1>Enter, LockAssumption, WantStep
     DEF Enter, IInv, TypeOK, WantInv, TicketInv, SeenInv, lockVars, cpuVars, Waits
<1>TryLoad. ASSUME NEW x \in Ctx, TryLoad(x) PROVE SeenInv'
  BY <1>TryLoad, LockAssumption, WantStep
     DEF TryLoad, IInv, TypeOK, WantInv, TicketInv, SeenInv, lockVars, cpuVars, Waits
<1>TryCheck. ASSUME NEW x \in Ctx, TryCheck(x) PROVE SeenInv'
  BY <1>TryCheck, LockAssumption, WantStep
     DEF TryCheck, IInv, TypeOK, WantInv, TicketInv, SeenInv, lockVars, cpuVars, Waits
<1>TrySwap. ASSUME NEW x \in Ctx, TrySwap(x) PROVE SeenInv'
  BY <1>TrySwap, LockAssumption, WantStep
     DEF TrySwap, IInv, TypeOK, WantInv, TicketInv, SeenInv, lockVars, cpuVars, Waits
<1>TrySwapFails. ASSUME NEW x \in Ctx, TrySwapFails(x) PROVE SeenInv'
  BY <1>TrySwapFails, LockAssumption, WantStep
     DEF TrySwapFails, IInv, TypeOK, WantInv, TicketInv, SeenInv, lockVars, cpuVars,
         Waits
<1>PopOff. ASSUME NEW x \in Ctx, PopOff(x) PROVE SeenInv'
  BY <1>PopOff, LockAssumption, WantStep
     DEF PopOff, IInv, TypeOK, WantInv, TicketInv, SeenInv, lockVars, cpuVars, Waits
<1>TakeInterrupt. ASSUME NEW c \in Cpus, TakeInterrupt(c) PROVE SeenInv'
  BY <1>TakeInterrupt, LockAssumption, WantStep
     DEF TakeInterrupt, IInv, TypeOK, WantInv, TicketInv, SeenInv, lockVars, cpuVars,
         Waits
<1>ReturnFromInterrupt. ASSUME NEW c \in Cpus, ReturnFromInterrupt(c) PROVE SeenInv'
  BY <1>ReturnFromInterrupt, LockAssumption, WantStep
     DEF ReturnFromInterrupt, IInv, TypeOK, WantInv, TicketInv, SeenInv, lockVars,
         cpuVars, Waits
<1>ChangeFlag. ASSUME NEW c \in Cpus, ChangeFlag(c) PROVE SeenInv'
  BY <1>ChangeFlag, LockAssumption, WantStep
     DEF ChangeFlag, IInv, TypeOK, WantInv, TicketInv, SeenInv, lockVars, cpuVars,
         Waits
<1>Stutter. CASE UNCHANGED vars
  BY <1>Stutter, LockAssumption, WantStep
     DEF vars, IInv, TypeOK, WantInv, TicketInv, SeenInv, lockVars, cpuVars, Waits
<1>. QED
  BY <1>BeginLock, <1>BeginTry, <1>Unlock, <1>PushOff, <1>FetchTicket, <1>Enter,
     <1>TryLoad, <1>TryCheck, <1>TrySwap, <1>TrySwapFails, <1>PopOff,
     <1>TakeInterrupt, <1>ReturnFromInterrupt, <1>ChangeFlag, <1>Stutter
     DEF Next

\* Tickets are handed out and given back in order.
LEMMA TicketStep ==
  ASSUME IInv, [Next]_vars
  PROVE  TicketInv'
<1>BeginLock. ASSUME NEW x \in Ctx, NEW l \in Locks, BeginLock(x, l) PROVE TicketInv'
  BY <1>BeginLock, LockAssumption
     DEF BeginLock, IInv, TypeOK, WantInv, TicketInv, SeenInv, lockVars, cpuVars,
         Waits
<1>BeginTry. ASSUME NEW x \in Ctx, NEW l \in Locks, BeginTry(x, l) PROVE TicketInv'
  BY <1>BeginTry, LockAssumption
     DEF BeginTry, IInv, TypeOK, WantInv, TicketInv, SeenInv, lockVars, cpuVars, Waits
<1>Unlock. ASSUME NEW x \in Ctx, NEW l \in Locks, Unlock(x, l) PROVE TicketInv'

  <2>1. /\ ticket[x][l] = next_serving[l] /\ ticket[x][l] < next_ticket[l]
        /\ next_serving' = [next_serving EXCEPT ![l] = next_serving[l] + 1]
    BY <1>Unlock DEF Unlock, IInv, TypeOK, TicketInv, Waits
  <2>2. \A y \in Ctx, m \in Locks :
          Waits(y, m)' => Waits(y, m) /\ (y # x \/ m # l) /\ ticket'[y][m] = ticket[y][m]
    BY <1>Unlock DEF Unlock, IInv, TypeOK, WantInv, Waits
  <2>3. \A y \in Ctx, m \in Locks : m \in held'[y] => m \in held[y] /\ Waits(y, m)'
    BY <1>Unlock DEF Unlock, IInv, TypeOK, Waits
  <2>4. \A y \in Ctx : y # x => ~(Waits(y, l) /\ ticket[y][l] = next_serving[l])
    BY <1>Unlock, <2>1 DEF Unlock, IInv, TicketInv, Waits
  <2>5. \A m \in Locks : next_ticket'[m] = next_ticket[m] /\ next_ticket[m] \in Nat
                         /\ next_serving[m] \in Nat
                         /\ next_serving'[m] = IF m = l THEN next_serving[l] + 1 ELSE next_serving[m]
    BY <1>Unlock, <2>1 DEF Unlock, IInv, TypeOK
  <2>6. \A y \in Ctx, m \in Locks : ticket[y][m] \in Nat
    BY DEF IInv, TypeOK
  <2>. QED
    BY <2>1, <2>2, <2>3, <2>4, <2>5, <2>6 DEF IInv, TicketInv, Waits
<1>PushOff. ASSUME NEW x \in Ctx, PushOff(x) PROVE TicketInv'
  BY <1>PushOff, LockAssumption
     DEF PushOff, IInv, TypeOK, WantInv, TicketInv, SeenInv, lockVars, cpuVars, Waits
<1>FetchTicket. ASSUME NEW x \in Ctx, FetchTicket(x) PROVE TicketInv'
  BY <1>FetchTicket, LockAssumption
     DEF FetchTicket, IInv, TypeOK, WantInv, TicketInv, SeenInv, lockVars, cpuVars,
         Waits
<1>Enter. ASSUME NEW x \in Ctx, Enter(x) PROVE TicketInv'
  BY <1>Enter, LockAssumption
     DEF Enter, IInv, TypeOK, WantInv, TicketInv, SeenInv, lockVars, cpuVars, Waits
<1>TryLoad. ASSUME NEW x \in Ctx, TryLoad(x) PROVE TicketInv'
  BY <1>TryLoad, LockAssumption
     DEF TryLoad, IInv, TypeOK, WantInv, TicketInv, SeenInv, lockVars, cpuVars, Waits
<1>TryCheck. ASSUME NEW x \in Ctx, TryCheck(x) PROVE TicketInv'
  BY <1>TryCheck, LockAssumption
     DEF TryCheck, IInv, TypeOK, WantInv, TicketInv, SeenInv, lockVars, cpuVars, Waits
<1>TrySwap. ASSUME NEW x \in Ctx, TrySwap(x) PROVE TicketInv'
  BY <1>TrySwap, LockAssumption
     DEF TrySwap, IInv, TypeOK, WantInv, TicketInv, SeenInv, lockVars, cpuVars, Waits
<1>TrySwapFails. ASSUME NEW x \in Ctx, TrySwapFails(x) PROVE TicketInv'
  BY <1>TrySwapFails, LockAssumption
     DEF TrySwapFails, IInv, TypeOK, WantInv, TicketInv, SeenInv, lockVars, cpuVars,
         Waits
<1>PopOff. ASSUME NEW x \in Ctx, PopOff(x) PROVE TicketInv'
  BY <1>PopOff, LockAssumption
     DEF PopOff, IInv, TypeOK, WantInv, TicketInv, SeenInv, lockVars, cpuVars, Waits
<1>TakeInterrupt. ASSUME NEW c \in Cpus, TakeInterrupt(c) PROVE TicketInv'
  BY <1>TakeInterrupt, LockAssumption
     DEF TakeInterrupt, IInv, TypeOK, WantInv, TicketInv, SeenInv, lockVars, cpuVars,
         Waits
<1>ReturnFromInterrupt. ASSUME NEW c \in Cpus, ReturnFromInterrupt(c) PROVE TicketInv'
  BY <1>ReturnFromInterrupt, LockAssumption
     DEF ReturnFromInterrupt, IInv, TypeOK, WantInv, TicketInv, SeenInv, lockVars,
         cpuVars, Waits
<1>ChangeFlag. ASSUME NEW c \in Cpus, ChangeFlag(c) PROVE TicketInv'
  BY <1>ChangeFlag, LockAssumption
     DEF ChangeFlag, IInv, TypeOK, WantInv, TicketInv, SeenInv, lockVars, cpuVars,
         Waits
<1>Stutter. CASE UNCHANGED vars
  BY <1>Stutter, LockAssumption
     DEF vars, IInv, TypeOK, WantInv, TicketInv, SeenInv, lockVars, cpuVars, Waits
<1>. QED
  BY <1>BeginLock, <1>BeginTry, <1>Unlock, <1>PushOff, <1>FetchTicket, <1>Enter,
     <1>TryLoad, <1>TryCheck, <1>TrySwap, <1>TrySwapFails, <1>PopOff,
     <1>TakeInterrupt, <1>ReturnFromInterrupt, <1>ChangeFlag, <1>Stutter
     DEF Next

\* The exchange of try_lock succeeds only when nobody has a ticket.
LEMMA SwapFree ==
  ASSUME IInv, NEW x \in Ctx, TrySwap(x)
  PROVE  /\ want[x] \in Locks
         /\ next_ticket[want[x]] = seen[x] /\ next_serving[want[x]] = seen[x]
         /\ \A y \in Ctx : ~Waits(y, want[x])
<1>1. want[x] \in Locks
  BY DEF TrySwap, IInv, WantInv
<1>2. next_ticket[want[x]] = seen[x] /\ next_serving[want[x]] = seen[x]

  <2>1. next_serving[want[x]] \in Nat /\ next_ticket[want[x]] \in Nat /\ seen[x] \in Nat
    BY <1>1 DEF IInv, TypeOK
  <2>. QED
    BY <1>1, <2>1 DEF TrySwap, IInv, TicketInv, SeenInv
<1>. QED
  BY <1>1, <1>2 DEF IInv, TypeOK, TicketInv

\* A ticket leaves the range between the counters only when it is served.
LEMMA NoGapStep ==
  ASSUME IInv, [Next]_vars
  PROVE  NoGapInv'
<1>BeginLock. ASSUME NEW x \in Ctx, NEW l \in Locks, BeginLock(x, l) PROVE NoGapInv'
  BY <1>BeginLock DEF BeginLock, IInv, TypeOK, NoGapInv, Waits, lockVars, cpuVars
<1>BeginTry. ASSUME NEW x \in Ctx, NEW l \in Locks, BeginTry(x, l) PROVE NoGapInv'
  BY <1>BeginTry DEF BeginTry, IInv, TypeOK, NoGapInv, Waits, lockVars, cpuVars
<1>Unlock. ASSUME NEW x \in Ctx, NEW l \in Locks, Unlock(x, l) PROVE NoGapInv'
  <2>1. \A m \in Locks : next_ticket'[m] = next_ticket[m] /\ next_serving[m] \in Nat
                         /\ next_serving'[m] = IF m = l THEN next_serving[l] + 1 ELSE next_serving[m]
    BY <1>Unlock DEF Unlock, IInv, TypeOK, TicketInv
  <2>2. ASSUME NEW m \in Locks, NEW n \in Nat, next_serving'[m] <= n, n < next_ticket'[m]
        PROVE  \E y \in Ctx : Waits(y, m)' /\ ticket'[y][m] = n
    <3>1. next_serving[m] <= n /\ n < next_ticket[m] /\ (m = l => n # next_serving[l])
      BY <2>1, <2>2
    <3>2. PICK y \in Ctx : Waits(y, m) /\ ticket[y][m] = n
      BY <3>1 DEF IInv, NoGapInv
    <3>3. y # x \/ m # l
      BY <1>Unlock, <3>1, <3>2 DEF Unlock, IInv, TicketInv
    <3>4. Waits(y, m)' /\ ticket'[y][m] = ticket[y][m]
      BY <1>Unlock, <3>2, <3>3 DEF Unlock, IInv, TypeOK, Waits
    <3>. QED
      BY <3>2, <3>4
  <2>. QED
    BY <2>2 DEF NoGapInv
<1>PushOff. ASSUME NEW x \in Ctx, PushOff(x) PROVE NoGapInv'
  BY <1>PushOff DEF PushOff, IInv, TypeOK, NoGapInv, Waits, lockVars, cpuVars
<1>FetchTicket. ASSUME NEW x \in Ctx, FetchTicket(x) PROVE NoGapInv'

  <2>1. PICK l \in Locks : l = want[x] /\ ~Waits(x, l)
    BY <1>FetchTicket, LockAssumption DEF FetchTicket, IInv, TypeOK, WantInv, Waits
  <2>2. Waits(x, l)' /\ ticket'[x][l] = next_ticket[l]
    BY <1>FetchTicket, <2>1 DEF FetchTicket, IInv, TypeOK, Waits
  <2>3. \A m \in Locks : /\ next_serving'[m] = next_serving[m] /\ next_ticket[m] \in Nat
                         /\ next_ticket'[m] = next_ticket[m] + (IF m = l THEN 1 ELSE 0)
    BY <1>FetchTicket, <2>1 DEF FetchTicket, IInv, TypeOK
  <2>4. \A y \in Ctx, m \in Locks :
          Waits(y, m) => Waits(y, m)' /\ ticket'[y][m] = ticket[y][m]
    BY <1>FetchTicket, <2>1 DEF FetchTicket, IInv, TypeOK, Waits
  <2>5. ASSUME NEW m \in Locks, NEW n \in Nat, next_serving'[m] <= n, n < next_ticket'[m]
        PROVE  \E y \in Ctx : Waits(y, m)' /\ ticket'[y][m] = n
    <3>1. CASE n < next_ticket[m]
      BY <2>3, <2>4, <2>5, <3>1 DEF IInv, NoGapInv
    <3>2. CASE ~(n < next_ticket[m])
      <4>1. m = l /\ n = next_ticket[m]
        BY <2>3, <2>5, <3>2
      <4>. QED
        BY <2>2, <4>1
    <3>. QED
      BY <3>1, <3>2
  <2>. QED
    BY <2>5 DEF NoGapInv
<1>Enter. ASSUME NEW x \in Ctx, Enter(x) PROVE NoGapInv'
  BY <1>Enter DEF Enter, IInv, TypeOK, NoGapInv, WantInv, Waits, lockVars, cpuVars
<1>TryLoad. ASSUME NEW x \in Ctx, TryLoad(x) PROVE NoGapInv'
  BY <1>TryLoad DEF TryLoad, IInv, TypeOK, NoGapInv, Waits, lockVars, cpuVars
<1>TryCheck. ASSUME NEW x \in Ctx, TryCheck(x) PROVE NoGapInv'
  BY <1>TryCheck DEF TryCheck, IInv, TypeOK, NoGapInv, Waits, lockVars, cpuVars
<1>TrySwap. ASSUME NEW x \in Ctx, TrySwap(x) PROVE NoGapInv'

  <2>1. PICK l \in Locks : l = want[x] /\ ~Waits(x, l)
    BY <1>TrySwap, SwapFree
  <2>2. Waits(x, l)' /\ ticket'[x][l] = next_ticket[l]
    BY <1>TrySwap, <2>1, SwapFree DEF TrySwap, IInv, TypeOK, Waits
  <2>3. \A m \in Locks : /\ next_serving'[m] = next_serving[m] /\ next_ticket[m] \in Nat
                         /\ next_ticket'[m] = next_ticket[m] + (IF m = l THEN 1 ELSE 0)
    BY <1>TrySwap, <2>1 DEF TrySwap, IInv, TypeOK
  <2>4. \A y \in Ctx, m \in Locks :
          Waits(y, m) => Waits(y, m)' /\ ticket'[y][m] = ticket[y][m]
    BY <1>TrySwap, <2>1 DEF TrySwap, IInv, TypeOK, Waits
  <2>5. ASSUME NEW m \in Locks, NEW n \in Nat, next_serving'[m] <= n, n < next_ticket'[m]
        PROVE  \E y \in Ctx : Waits(y, m)' /\ ticket'[y][m] = n
    <3>1. CASE n < next_ticket[m]
      BY <2>3, <2>4, <2>5, <3>1 DEF IInv, NoGapInv
    <3>2. CASE ~(n < next_ticket[m])
      <4>1. m = l /\ n = next_ticket[m]
        BY <2>3, <2>5, <3>2
      <4>. QED
        BY <2>2, <4>1
    <3>. QED
      BY <3>1, <3>2
  <2>. QED
    BY <2>5 DEF NoGapInv
<1>TrySwapFails. ASSUME NEW x \in Ctx, TrySwapFails(x) PROVE NoGapInv'
  BY <1>TrySwapFails DEF TrySwapFails, IInv, TypeOK, NoGapInv, Waits, lockVars, cpuVars
<1>PopOff. ASSUME NEW x \in Ctx, PopOff(x) PROVE NoGapInv'
  BY <1>PopOff DEF PopOff, IInv, TypeOK, NoGapInv, Waits, lockVars, cpuVars
<1>TakeInterrupt. ASSUME NEW c \in Cpus, TakeInterrupt(c) PROVE NoGapInv'
  BY <1>TakeInterrupt DEF TakeInterrupt, IInv, TypeOK, NoGapInv, Waits, lockVars, cpuVars
<1>ReturnFromInterrupt. ASSUME NEW c \in Cpus, ReturnFromInterrupt(c) PROVE NoGapInv'
  BY <1>ReturnFromInterrupt
     DEF ReturnFromInterrupt, IInv, TypeOK, NoGapInv, Waits, lockVars, cpuVars
<1>ChangeFlag. ASSUME NEW c \in Cpus, ChangeFlag(c) PROVE NoGapInv'
  BY <1>ChangeFlag DEF ChangeFlag, IInv, TypeOK, NoGapInv, Waits, lockVars, cpuVars
<1>Stutter. CASE UNCHANGED vars
  BY <1>Stutter DEF vars, IInv, NoGapInv, Waits
<1>. QED
  BY <1>BeginLock, <1>BeginTry, <1>Unlock, <1>PushOff, <1>FetchTicket, <1>Enter,
     <1>TryLoad, <1>TryCheck, <1>TrySwap, <1>TrySwapFails, <1>PopOff,
     <1>TakeInterrupt, <1>ReturnFromInterrupt, <1>ChangeFlag, <1>Stutter
     DEF Next

\* Handlers come and go outside locks.
LEMMA RunStep ==
  ASSUME IInv, [Next]_vars
  PROVE  RunInv'
<1>BeginLock. ASSUME NEW x \in Ctx, NEW l \in Locks, BeginLock(x, l) PROVE RunInv'
  BY <1>BeginLock, CtxFacts, CtxPairs
     DEF BeginLock, IInv, TypeOK, RunInv, FlagInv, FlagAt, lockVars, cpuVars, Running,
         Busy, Inside, Flag
<1>BeginTry. ASSUME NEW x \in Ctx, NEW l \in Locks, BeginTry(x, l) PROVE RunInv'
  BY <1>BeginTry, CtxFacts, CtxPairs
     DEF BeginTry, IInv, TypeOK, RunInv, FlagInv, FlagAt, lockVars, cpuVars, Running,
         Busy, Inside, Flag
<1>Unlock. ASSUME NEW x \in Ctx, NEW l \in Locks, Unlock(x, l) PROVE RunInv'
  BY <1>Unlock, CtxFacts, CtxPairs
     DEF Unlock, IInv, TypeOK, RunInv, FlagInv, FlagAt, lockVars, cpuVars, Running,
         Busy, Inside, Flag
<1>PushOff. ASSUME NEW x \in Ctx, PushOff(x) PROVE RunInv'
  BY <1>PushOff, CtxFacts, CtxPairs
     DEF PushOff, IInv, TypeOK, RunInv, FlagInv, FlagAt, lockVars, cpuVars, Running,
         Busy, Inside, Flag
<1>FetchTicket. ASSUME NEW x \in Ctx, FetchTicket(x) PROVE RunInv'
  BY <1>FetchTicket, CtxFacts, CtxPairs
     DEF FetchTicket, IInv, TypeOK, RunInv, FlagInv, FlagAt, lockVars, cpuVars,
         Running, Busy, Inside, Flag
<1>Enter. ASSUME NEW x \in Ctx, Enter(x) PROVE RunInv'
  BY <1>Enter, CtxFacts, CtxPairs
     DEF Enter, IInv, TypeOK, RunInv, FlagInv, FlagAt, lockVars, cpuVars, Running,
         Busy, Inside, Flag
<1>TryLoad. ASSUME NEW x \in Ctx, TryLoad(x) PROVE RunInv'
  BY <1>TryLoad, CtxFacts, CtxPairs
     DEF TryLoad, IInv, TypeOK, RunInv, FlagInv, FlagAt, lockVars, cpuVars, Running,
         Busy, Inside, Flag
<1>TryCheck. ASSUME NEW x \in Ctx, TryCheck(x) PROVE RunInv'
  BY <1>TryCheck, CtxFacts, CtxPairs
     DEF TryCheck, IInv, TypeOK, RunInv, FlagInv, FlagAt, lockVars, cpuVars, Running,
         Busy, Inside, Flag
<1>TrySwap. ASSUME NEW x \in Ctx, TrySwap(x) PROVE RunInv'
  BY <1>TrySwap, CtxFacts, CtxPairs
     DEF TrySwap, IInv, TypeOK, RunInv, FlagInv, FlagAt, lockVars, cpuVars, Running,
         Busy, Inside, Flag
<1>TrySwapFails. ASSUME NEW x \in Ctx, TrySwapFails(x) PROVE RunInv'
  BY <1>TrySwapFails, CtxFacts, CtxPairs
     DEF TrySwapFails, IInv, TypeOK, RunInv, FlagInv, FlagAt, lockVars, cpuVars,
         Running, Busy, Inside, Flag
<1>PopOff. ASSUME NEW x \in Ctx, PopOff(x) PROVE RunInv'
  BY <1>PopOff, CtxFacts, CtxPairs
     DEF PopOff, IInv, TypeOK, RunInv, FlagInv, FlagAt, lockVars, cpuVars, Running,
         Busy, Inside, Flag
<1>TakeInterrupt. ASSUME NEW c \in Cpus, TakeInterrupt(c) PROVE RunInv'

  <2>1. \A y \in Ctx : Cpu(y) # c => (Running(y)' <=> Running(y))
    BY <1>TakeInterrupt, CtxFacts DEF TakeInterrupt, IInv, TypeOK, Running
  <2>2. \A y \in Ctx : Cpu(y) = c => (Running(y) <=> y[2] = "base") /\ (Running(y)' <=> y[2] = "irq")
    BY <1>TakeInterrupt, CtxFacts DEF TakeInterrupt, IInv, TypeOK, Running
  <2>3. \A y \in Ctx : Cpu(y) = c /\ y[2] = "base" => ~Busy(y) /\ chosen[c]
    BY <1>TakeInterrupt, <2>2 DEF TakeInterrupt, IInv, FlagInv, FlagAt, Flag
  <2>4. \A y \in Ctx : y[2] = "base" \/ y[2] = "irq"
    BY CtxFacts
  <2>. QED
    BY <1>TakeInterrupt, <2>1, <2>2, <2>3, <2>4
       DEF TakeInterrupt, IInv, TypeOK, RunInv, Busy, Inside, PCs, lockVars
<1>ReturnFromInterrupt. ASSUME NEW c \in Cpus, ReturnFromInterrupt(c) PROVE RunInv'


  <2>1. \A y \in Ctx : Cpu(y) # c => (Running(y)' <=> Running(y))
    BY <1>ReturnFromInterrupt, CtxFacts DEF ReturnFromInterrupt, IInv, TypeOK, Running
  <2>2. \A y \in Ctx : Cpu(y) = c => (Running(y) <=> y[2] = "irq") /\ (Running(y)' <=> y[2] = "base")
    BY <1>ReturnFromInterrupt, CtxFacts DEF ReturnFromInterrupt, IInv, TypeOK, Running
  <2>3. \A y \in Ctx : y = <<Cpu(y), y[2]>> /\ (y[2] = "base" \/ y[2] = "irq")
    BY CtxFacts, CtxPairs
  <2>. QED
    BY <1>ReturnFromInterrupt, <2>1, <2>2, <2>3
       DEF ReturnFromInterrupt, IInv, RunInv, lockVars
<1>ChangeFlag. ASSUME NEW c \in Cpus, ChangeFlag(c) PROVE RunInv'
  BY <1>ChangeFlag, CtxFacts, CtxPairs
     DEF ChangeFlag, IInv, TypeOK, RunInv, FlagInv, FlagAt, lockVars, cpuVars,
         Running, Busy, Inside, Flag
<1>Stutter. CASE UNCHANGED vars
  BY <1>Stutter, CtxFacts, CtxPairs
     DEF vars, IInv, TypeOK, RunInv, FlagInv, FlagAt, lockVars, cpuVars, Running,
         Busy, Inside, Flag
<1>. QED
  BY <1>BeginLock, <1>BeginTry, <1>Unlock, <1>PushOff, <1>FetchTicket, <1>Enter,
     <1>TryLoad, <1>TryCheck, <1>TrySwap, <1>TrySwapFails, <1>PopOff,
     <1>TakeInterrupt, <1>ReturnFromInterrupt, <1>ChangeFlag, <1>Stutter
     DEF Next

\* The flag goes off with the first guard and comes back with the last.
LEMMA FlagStep ==
  ASSUME IInv, [Next]_vars
  PROVE  FlagInv'
<1>BeginLock. ASSUME NEW x \in Ctx, NEW l \in Locks, BeginLock(x, l) PROVE FlagInv'
  BY <1>BeginLock, CtxFacts, CtxPairs
     DEF BeginLock, IInv, TypeOK, RunInv, FlagInv, FlagAt, DepthInv, DepthAt,
         lockVars, cpuVars, Running, Busy, Inside, Flag
<1>BeginTry. ASSUME NEW x \in Ctx, NEW l \in Locks, BeginTry(x, l) PROVE FlagInv'
  BY <1>BeginTry, CtxFacts, CtxPairs
     DEF BeginTry, IInv, TypeOK, RunInv, FlagInv, FlagAt, DepthInv, DepthAt, lockVars,
         cpuVars, Running, Busy, Inside, Flag
<1>Unlock. ASSUME NEW x \in Ctx, NEW l \in Locks, Unlock(x, l) PROVE FlagInv'
  BY <1>Unlock, CtxFacts, CtxPairs
     DEF Unlock, IInv, TypeOK, RunInv, FlagInv, FlagAt, DepthInv, DepthAt, lockVars,
         cpuVars, Running, Busy, Inside, Flag
<1>PushOff. ASSUME NEW x \in Ctx, PushOff(x) PROVE FlagInv'

  <2>1. ASSUME NEW y \in Ctx, y # x PROVE FlagAt(y)'
    BY <1>PushOff, <2>1, OneRuns, CtxFacts
       DEF PushOff, IInv, TypeOK, FlagInv, FlagAt, lockVars, cpuVars, Running, Busy, Inside, Flag
  <2>2. FlagAt(x)'
    <3>1. noff[Cpu(x)] = 0 <=> held[x] = {}
      BY <1>PushOff, FS_EmptySet, FS_CardinalityType
         DEF PushOff, IInv, DepthInv, DepthAt, Inside
    <3>2. /\ ~intr'[Cpu(x)] /\ Busy(x)' /\ (Flag(x)' <=> Flag(x))
          /\ pc'[x] \notin {"off_lock", "off_try"}
      BY <1>PushOff, CtxFacts DEF PushOff, IInv, TypeOK, Busy, Inside, Flag
    <3>3. interrupt_enable'[Cpu(x)] <=> Flag(x)
      <4>1. CASE held[x] = {}
        BY <1>PushOff, <3>1, <4>1, CtxFacts
           DEF PushOff, IInv, TypeOK, FlagInv, FlagAt, Busy
      <4>2. CASE held[x] # {}
        BY <1>PushOff, <3>1, <4>2, CtxFacts
           DEF PushOff, IInv, TypeOK, FlagInv, FlagAt, Busy
      <4>. QED
        BY <4>1, <4>2
    <3>. QED
      BY <3>2, <3>3 DEF FlagAt
  <2>. QED
    BY <2>1, <2>2 DEF FlagInv
<1>FetchTicket. ASSUME NEW x \in Ctx, FetchTicket(x) PROVE FlagInv'
  BY <1>FetchTicket, CtxFacts, CtxPairs
     DEF FetchTicket, IInv, TypeOK, RunInv, FlagInv, FlagAt, DepthInv, DepthAt,
         lockVars, cpuVars, Running, Busy, Inside, Flag
<1>Enter. ASSUME NEW x \in Ctx, Enter(x) PROVE FlagInv'

  <2>1. ASSUME NEW y \in Ctx, y # x PROVE FlagAt(y)'
    BY <1>Enter, <2>1, OneRuns, CtxFacts
       DEF Enter, IInv, TypeOK, FlagInv, FlagAt, lockVars, cpuVars, Running, Busy, Inside, Flag
  <2>2. FlagAt(x)'
    <3>1. Busy(x) /\ Busy(x)' /\ pc'[x] = "idle" /\ (Running(x)' <=> Running(x))
      BY <1>Enter, LockAssumption DEF Enter, IInv, TypeOK, Busy, Inside, Running, cpuVars
    <3>. QED
      BY <1>Enter, <3>1 DEF Enter, IInv, FlagInv, FlagAt, Flag, cpuVars
  <2>. QED
    BY <2>1, <2>2 DEF FlagInv
<1>TryLoad. ASSUME NEW x \in Ctx, TryLoad(x) PROVE FlagInv'
  BY <1>TryLoad, CtxFacts, CtxPairs
     DEF TryLoad, IInv, TypeOK, RunInv, FlagInv, FlagAt, DepthInv, DepthAt, lockVars,
         cpuVars, Running, Busy, Inside, Flag
<1>TryCheck. ASSUME NEW x \in Ctx, TryCheck(x) PROVE FlagInv'
  BY <1>TryCheck, CtxFacts, CtxPairs
     DEF TryCheck, IInv, TypeOK, RunInv, FlagInv, FlagAt, DepthInv, DepthAt, lockVars,
         cpuVars, Running, Busy, Inside, Flag
<1>TrySwap. ASSUME NEW x \in Ctx, TrySwap(x) PROVE FlagInv'

  <2>1. ASSUME NEW y \in Ctx, y # x PROVE FlagAt(y)'
    BY <1>TrySwap, <2>1, OneRuns, CtxFacts
       DEF TrySwap, IInv, TypeOK, FlagInv, FlagAt, lockVars, cpuVars, Running, Busy, Inside, Flag
  <2>2. FlagAt(x)'
    <3>1. Busy(x) /\ Busy(x)' /\ pc'[x] = "idle" /\ (Running(x)' <=> Running(x))
      BY <1>TrySwap, LockAssumption
         DEF TrySwap, IInv, TypeOK, Busy, Inside, Running, cpuVars
    <3>. QED
      BY <1>TrySwap, <3>1 DEF TrySwap, IInv, FlagInv, FlagAt, Flag, cpuVars
  <2>. QED
    BY <2>1, <2>2 DEF FlagInv
<1>TrySwapFails. ASSUME NEW x \in Ctx, TrySwapFails(x) PROVE FlagInv'
  BY <1>TrySwapFails, CtxFacts, CtxPairs
     DEF TrySwapFails, IInv, TypeOK, RunInv, FlagInv, FlagAt, DepthInv, DepthAt,
         lockVars, cpuVars, Running, Busy, Inside, Flag
<1>PopOff. ASSUME NEW x \in Ctx, PopOff(x) PROVE FlagInv'

  <2>1. ASSUME NEW y \in Ctx, y # x PROVE FlagAt(y)'
    BY <1>PopOff, <2>1, OneRuns, CtxFacts
       DEF PopOff, IInv, TypeOK, FlagInv, FlagAt, lockVars, cpuVars, Running, Busy, Inside, Flag
  <2>2. FlagAt(x)'
    <3>1. noff[Cpu(x)] = 1 <=> held[x] = {}
      BY <1>PopOff, FS_EmptySet, FS_CardinalityType
         DEF PopOff, IInv, DepthInv, DepthAt, Inside
    <3>2. /\ Running(x) /\ Busy(x) /\ (Busy(x)' <=> held[x] # {})
          /\ (Flag(x)' <=> Flag(x)) /\ pc'[x] = "idle"
      BY <1>PopOff, CtxFacts DEF PopOff, IInv, TypeOK, Busy, Inside, Flag
    <3>3. intr'[Cpu(x)] <=> (held[x] = {} /\ Flag(x))
      BY <1>PopOff, <3>1, <3>2, CtxFacts DEF PopOff, IInv, TypeOK, FlagInv, FlagAt
    <3>4. interrupt_enable'[Cpu(x)] <=> Flag(x)
      BY <1>PopOff, <3>2 DEF PopOff, IInv, FlagInv, FlagAt
    <3>. QED
      BY <3>2, <3>3, <3>4 DEF FlagAt
  <2>. QED
    BY <2>1, <2>2 DEF FlagInv
<1>TakeInterrupt. ASSUME NEW c \in Cpus, TakeInterrupt(c) PROVE FlagInv'
  BY <1>TakeInterrupt, CtxFacts, CtxPairs
     DEF TakeInterrupt, IInv, TypeOK, RunInv, FlagInv, FlagAt, DepthInv, DepthAt,
         lockVars, cpuVars, Running, Busy, Inside, Flag
<1>ReturnFromInterrupt. ASSUME NEW c \in Cpus, ReturnFromInterrupt(c) PROVE FlagInv'
  BY <1>ReturnFromInterrupt, CtxFacts, CtxPairs
     DEF ReturnFromInterrupt, IInv, TypeOK, RunInv, FlagInv, FlagAt, DepthInv,
         DepthAt, lockVars, cpuVars, Running, Busy, Inside, Flag
<1>ChangeFlag. ASSUME NEW c \in Cpus, ChangeFlag(c) PROVE FlagInv'

  <2>1. ASSUME NEW y \in Ctx, Cpu(y) # c PROVE FlagAt(y)'
    BY <1>ChangeFlag, <2>1, CtxFacts
       DEF ChangeFlag, IInv, TypeOK, FlagInv, FlagAt, lockVars, Running, Busy, Inside, Flag
  <2>2. ASSUME NEW y \in Ctx, Cpu(y) = c, y[2] = "irq" PROVE FlagAt(y)'
    <3>1. ~Running(y) /\ ~Running(y)' /\ pc'[y] = "idle"
      BY <1>ChangeFlag, <2>2 DEF ChangeFlag, Running, IInv, RunInv
    <3>. QED
      BY <3>1 DEF FlagAt
  <2>3. ASSUME NEW y \in Ctx, Cpu(y) = c, y[2] = "base" PROVE FlagAt(y)'
    <3>1. y = <<c, "base">>
      BY <2>3, CtxPairs
    <3>2. ~Busy(y)' /\ pc'[y] = "idle"
      BY <1>ChangeFlag, <3>1 DEF ChangeFlag, Busy, Inside
    <3>3. intr'[c] <=> chosen'[c]
      BY <1>ChangeFlag DEF ChangeFlag, IInv, TypeOK
    <3>. QED
      BY <2>3, <3>2, <3>3 DEF FlagAt, Flag
  <2>. QED
    BY <2>1, <2>2, <2>3, CtxFacts DEF FlagInv
<1>Stutter. CASE UNCHANGED vars
  BY <1>Stutter, CtxFacts, CtxPairs
     DEF vars, IInv, TypeOK, RunInv, FlagInv, FlagAt, DepthInv, DepthAt, lockVars,
         cpuVars, Running, Busy, Inside, Flag
<1>. QED
  BY <1>BeginLock, <1>BeginTry, <1>Unlock, <1>PushOff, <1>FetchTicket, <1>Enter,
     <1>TryLoad, <1>TryCheck, <1>TrySwap, <1>TrySwapFails, <1>PopOff,
     <1>TakeInterrupt, <1>ReturnFromInterrupt, <1>ChangeFlag, <1>Stutter
     DEF Next

\* The counter goes up and down with the guards of the running context.
LEMMA DepthStep ==
  ASSUME IInv, [Next]_vars
  PROVE  DepthInv'
<1>BeginLock. ASSUME NEW x \in Ctx, NEW l \in Locks, BeginLock(x, l) PROVE DepthInv'
  BY <1>BeginLock, CtxFacts
     DEF BeginLock, IInv, TypeOK, DepthInv, DepthAt, lockVars, cpuVars, Running,
         Inside
<1>BeginTry. ASSUME NEW x \in Ctx, NEW l \in Locks, BeginTry(x, l) PROVE DepthInv'
  BY <1>BeginTry, CtxFacts
     DEF BeginTry, IInv, TypeOK, DepthInv, DepthAt, lockVars, cpuVars, Running, Inside
<1>Unlock. ASSUME NEW x \in Ctx, NEW l \in Locks, Unlock(x, l) PROVE DepthInv'
  <2>1. ASSUME NEW y \in Ctx, y # x PROVE DepthAt(y)'
    BY <1>Unlock, <2>1, OneRuns, CtxFacts
       DEF Unlock, IInv, TypeOK, DepthInv, DepthAt, lockVars, cpuVars, Running, Inside
  <2>2. DepthAt(x)'
    <3>1. l \in held[x] /\ held'[x] = held[x] \ {l}
      BY <1>Unlock DEF Unlock, IInv, TypeOK
    <3>2. IsFiniteSet(held'[x]) /\ Cardinality(held'[x]) = Cardinality(held[x]) - 1
      <4>1. IsFiniteSet(held[x])
        BY DEF IInv, DepthInv, DepthAt
      <4>. QED
        BY <3>1, <4>1, FS_RemoveElement
    <3>3. Running(x) /\ ~Inside(x) /\ Inside(x)' /\ noff' = noff
      BY <1>Unlock DEF Unlock, IInv, TypeOK, Inside, cpuVars
    <3>4. Cardinality(held[x]) \in Nat /\ noff[Cpu(x)] = Cardinality(held[x])
      BY <3>3, FS_CardinalityType DEF IInv, DepthInv, DepthAt
    <3>. QED
      BY <3>2, <3>3, <3>4 DEF DepthAt
  <2>. QED
    BY <2>1, <2>2 DEF DepthInv
<1>PushOff. ASSUME NEW x \in Ctx, PushOff(x) PROVE DepthInv'
  <2>1. ASSUME NEW y \in Ctx, y # x PROVE DepthAt(y)'
    BY <1>PushOff, <2>1, OneRuns, CtxFacts
       DEF PushOff, IInv, TypeOK, DepthInv, DepthAt, lockVars, cpuVars, Running, Inside
  <2>2. DepthAt(x)'
    <3>1. /\ Running(x) /\ ~Inside(x) /\ Inside(x)' /\ held' = held
          /\ noff'[Cpu(x)] = noff[Cpu(x)] + 1
      BY <1>PushOff, CtxFacts DEF PushOff, IInv, TypeOK, Inside
    <3>2. Cardinality(held[x]) \in Nat /\ noff[Cpu(x)] = Cardinality(held[x])
      BY <3>1, FS_CardinalityType DEF IInv, DepthInv, DepthAt
    <3>. QED
      BY <3>1, <3>2 DEF IInv, DepthInv, DepthAt
  <2>. QED
    BY <2>1, <2>2 DEF DepthInv
<1>FetchTicket. ASSUME NEW x \in Ctx, FetchTicket(x) PROVE DepthInv'
  BY <1>FetchTicket, CtxFacts
     DEF FetchTicket, IInv, TypeOK, DepthInv, DepthAt, lockVars, cpuVars, Running,
         Inside
<1>Enter. ASSUME NEW x \in Ctx, Enter(x) PROVE DepthInv'
  <2>1. ASSUME NEW y \in Ctx, y # x PROVE DepthAt(y)'
    BY <1>Enter, <2>1, OneRuns, CtxFacts
       DEF Enter, IInv, TypeOK, DepthInv, DepthAt, lockVars, cpuVars, Running, Inside
  <2>2. DepthAt(x)'
    <3>1. want[x] \notin held[x] /\ held'[x] = held[x] \cup {want[x]}
      BY <1>Enter DEF Enter, IInv, TypeOK, WantInv
    <3>2. IsFiniteSet(held'[x]) /\ Cardinality(held'[x]) = Cardinality(held[x]) + 1
      <4>1. IsFiniteSet(held[x])
        BY DEF IInv, DepthInv, DepthAt
      <4>. QED
        BY ZenonT(30), <3>1, <4>1, FS_AddElement
    <3>3. Running(x) /\ Inside(x) /\ ~Inside(x)' /\ noff' = noff
      BY <1>Enter DEF Enter, IInv, TypeOK, Inside, cpuVars
    <3>4. Cardinality(held[x]) \in Nat /\ noff[Cpu(x)] = Cardinality(held[x]) + 1
      BY <3>3, FS_CardinalityType DEF IInv, DepthInv, DepthAt
    <3>. QED
      BY <3>2, <3>3, <3>4 DEF DepthAt
  <2>. QED
    BY <2>1, <2>2 DEF DepthInv
<1>TryLoad. ASSUME NEW x \in Ctx, TryLoad(x) PROVE DepthInv'
  BY <1>TryLoad, CtxFacts
     DEF TryLoad, IInv, TypeOK, DepthInv, DepthAt, lockVars, cpuVars, Running, Inside
<1>TryCheck. ASSUME NEW x \in Ctx, TryCheck(x) PROVE DepthInv'
  BY <1>TryCheck, CtxFacts
     DEF TryCheck, IInv, TypeOK, DepthInv, DepthAt, lockVars, cpuVars, Running, Inside
<1>TrySwap. ASSUME NEW x \in Ctx, TrySwap(x) PROVE DepthInv'
  <2>1. ASSUME NEW y \in Ctx, y # x PROVE DepthAt(y)'
    BY <1>TrySwap, <2>1, OneRuns, CtxFacts
       DEF TrySwap, IInv, TypeOK, DepthInv, DepthAt, lockVars, cpuVars, Running, Inside
  <2>2. DepthAt(x)'
    <3>1. held'[x] = held[x] \cup {want[x]}
      BY <1>TrySwap DEF TrySwap, IInv, TypeOK
    <3>2. want[x] \notin held[x]
      BY <1>TrySwap, SwapFree DEF Waits
    <3>3. IsFiniteSet(held'[x]) /\ Cardinality(held'[x]) = Cardinality(held[x]) + 1
      <4>1. IsFiniteSet(held[x])
        BY DEF IInv, DepthInv, DepthAt
      <4>. QED
        BY ZenonT(30), <3>1, <3>2, <4>1, FS_AddElement
    <3>4. Running(x) /\ Inside(x) /\ ~Inside(x)' /\ noff' = noff
      BY <1>TrySwap DEF TrySwap, IInv, TypeOK, Inside, cpuVars
    <3>5. Cardinality(held[x]) \in Nat /\ noff[Cpu(x)] = Cardinality(held[x]) + 1
      BY <3>4, FS_CardinalityType DEF IInv, DepthInv, DepthAt
    <3>. QED
      BY <3>3, <3>4, <3>5 DEF DepthAt
  <2>. QED
    BY <2>1, <2>2 DEF DepthInv
<1>TrySwapFails. ASSUME NEW x \in Ctx, TrySwapFails(x) PROVE DepthInv'
  BY <1>TrySwapFails, CtxFacts
     DEF TrySwapFails, IInv, TypeOK, DepthInv, DepthAt, lockVars, cpuVars, Running,
         Inside
<1>PopOff. ASSUME NEW x \in Ctx, PopOff(x) PROVE DepthInv'
  <2>1. ASSUME NEW y \in Ctx, y # x PROVE DepthAt(y)'
    BY <1>PopOff, <2>1, OneRuns, CtxFacts
       DEF PopOff, IInv, TypeOK, DepthInv, DepthAt, lockVars, cpuVars, Running, Inside
  <2>2. DepthAt(x)'
    <3>1. /\ Running(x) /\ Inside(x) /\ ~Inside(x)' /\ held' = held
          /\ noff'[Cpu(x)] = noff[Cpu(x)] - 1
      BY <1>PopOff, CtxFacts DEF PopOff, IInv, TypeOK, Inside
    <3>2. Cardinality(held[x]) \in Nat /\ noff[Cpu(x)] = Cardinality(held[x]) + 1
      BY <3>1, FS_CardinalityType DEF IInv, DepthInv, DepthAt
    <3>. QED
      BY <3>1, <3>2 DEF IInv, DepthInv, DepthAt
  <2>. QED
    BY <2>1, <2>2 DEF DepthInv
<1>TakeInterrupt. ASSUME NEW c \in Cpus, TakeInterrupt(c) PROVE DepthInv'
  <2>1. ASSUME NEW y \in Ctx, Cpu(y) # c PROVE DepthAt(y)'
    BY <1>TakeInterrupt, <2>1, CtxFacts
       DEF TakeInterrupt, IInv, TypeOK, DepthInv, DepthAt, lockVars, Running, Inside
  <2>2. noff[c] = 0
    <3>. DEFINE b == <<c, "base">>
    <3>1. b \in Ctx /\ Cpu(b) = c /\ b[2] = "base"
      BY CtxFacts, CtxPairs
    <3>2. Running(b) /\ ~Busy(b)
      BY <1>TakeInterrupt, <3>1
         DEF TakeInterrupt, IInv, FlagInv, FlagAt, Running, Busy, Inside
    <3>3. DepthAt(b)
      BY <3>1 DEF IInv, DepthInv
    <3>. QED
      BY <3>1, <3>2, <3>3, FS_EmptySet DEF DepthAt, Busy
  <2>3. ASSUME NEW y \in Ctx, Cpu(y) = c, Running(y)' PROVE DepthAt(y)'
    <3>1. ~Running(y)
      BY <1>TakeInterrupt, <2>3 DEF TakeInterrupt, IInv, TypeOK, Running
    <3>2. held'[y] = {} /\ ~Inside(y)' /\ noff'[c] = 0
      BY <1>TakeInterrupt, <2>2, <3>1 DEF TakeInterrupt, IInv, RunInv, Inside
    <3>. QED
      BY <2>3, <3>2, FS_EmptySet DEF DepthAt
  <2>4. ASSUME NEW y \in Ctx, ~Running(y)' PROVE DepthAt(y)'
    BY <1>TakeInterrupt, <2>4 DEF TakeInterrupt, IInv, DepthInv, DepthAt
  <2>. QED
    BY <2>1, <2>3, <2>4 DEF DepthInv
<1>ReturnFromInterrupt. ASSUME NEW c \in Cpus, ReturnFromInterrupt(c) PROVE DepthInv'
  <2>1. ASSUME NEW y \in Ctx, Cpu(y) # c PROVE DepthAt(y)'
    BY <1>ReturnFromInterrupt, <2>1, CtxFacts
       DEF ReturnFromInterrupt, IInv, TypeOK, DepthInv, DepthAt, lockVars, Running, Inside
  <2>2. noff[c] = 0
    <3>. DEFINE b == <<c, "irq">>
    <3>1. b \in Ctx /\ Cpu(b) = c /\ b[2] = "irq"
      BY CtxFacts, CtxPairs
    <3>2. Running(b) /\ ~Busy(b)
      BY <1>ReturnFromInterrupt, <3>1
         DEF ReturnFromInterrupt, IInv, FlagInv, FlagAt, Running, Busy, Inside
    <3>3. DepthAt(b)
      BY <3>1 DEF IInv, DepthInv
    <3>. QED
      BY <3>1, <3>2, <3>3, FS_EmptySet DEF DepthAt, Busy
  <2>3. ASSUME NEW y \in Ctx, Cpu(y) = c, Running(y)' PROVE DepthAt(y)'
    <3>1. ~Running(y)
      BY <1>ReturnFromInterrupt, <2>3 DEF ReturnFromInterrupt, IInv, TypeOK, Running
    <3>2. held'[y] = {} /\ ~Inside(y)' /\ noff'[c] = 0
      BY <1>ReturnFromInterrupt, <2>2, <3>1 DEF ReturnFromInterrupt, IInv, RunInv, Inside
    <3>. QED
      BY <2>3, <3>2, FS_EmptySet DEF DepthAt
  <2>4. ASSUME NEW y \in Ctx, ~Running(y)' PROVE DepthAt(y)'
    BY <1>ReturnFromInterrupt, <2>4 DEF ReturnFromInterrupt, IInv, DepthInv, DepthAt
  <2>. QED
    BY <2>1, <2>3, <2>4 DEF DepthInv
<1>ChangeFlag. ASSUME NEW c \in Cpus, ChangeFlag(c) PROVE DepthInv'
  BY <1>ChangeFlag, CtxFacts
     DEF ChangeFlag, IInv, TypeOK, DepthInv, DepthAt, lockVars, cpuVars, Running,
         Inside
<1>Stutter. CASE UNCHANGED vars
  BY <1>Stutter DEF vars, IInv, DepthInv, DepthAt, Running, Inside
<1>. QED
  BY <1>BeginLock, <1>BeginTry, <1>Unlock, <1>PushOff, <1>FetchTicket, <1>Enter,
     <1>TryLoad, <1>TryCheck, <1>TrySwap, <1>TrySwapFails, <1>PopOff,
     <1>TakeInterrupt, <1>ReturnFromInterrupt, <1>ChangeFlag, <1>Stutter
     DEF Next

-----------------------------------------------------------------------------
\* IInv holds throughout.
LEMMA Inductive == Spec => []IInv
<1>1. IInv /\ [Next]_vars => IInv'
  BY TypeStep, WantStep, SeenStep, TicketStep, NoGapStep, RunStep, FlagStep, DepthStep
     DEF IInv
<1>. QED
  BY InitInv, <1>1, PTL DEF Spec

\* The types of all variables, in every state of every behaviour.
THEOREM TypeCorrect == Spec => []TypeOK
  BY Inductive, PTL DEF IInv

\* Two guards of one lock never exist at once, for any number of CPUs, locks
\* and tickets: the guards of a lock stand for one ticket, and no two contexts
\* have the same.
THEOREM MutualExclusionHolds == Spec => []MutualExclusion
<1>1. IInv => MutualExclusion
  BY DEF IInv, TypeOK, TicketInv, Waits, MutualExclusion
<1>. QED
  BY Inductive, <1>1, PTL

\* A handler never finds a lock held or awaited below it: the flag is clear
\* from the push_off of the first guard to the pop_off of the last.
THEOREM HandlerFindsNoLockHolds == Spec => []HandlerFindsNoLock
<1>1. IInv => HandlerFindsNoLock
  BY CtxFacts, CtxPairs DEF IInv, RunInv, Running, HandlerFindsNoLock
<1>. QED
  BY Inductive, <1>1, PTL

\* push_off and pop_off match: pop_off never panics, and the flag comes back.
THEOREM FlagRestoredHolds == Spec => []FlagRestored
<1>1. ASSUME IInv, NEW x \in Ctx, pc[x] = "pop"
      PROVE  Running(x) /\ ~intr[Cpu(x)] /\ noff[Cpu(x)] >= 1
  <2>1. Running(x) /\ Inside(x)
    BY <1>1 DEF IInv, RunInv, Inside
  <2>2. FlagAt(x) /\ DepthAt(x)
    BY <1>1 DEF IInv, FlagInv, DepthInv
  <2>. QED
    BY <2>1, <2>2, FS_CardinalityType DEF FlagAt, DepthAt, Busy
<1>2. ASSUME IInv, NEW x \in Ctx, Running(x), pc[x] = "idle", held[x] = {}
      PROVE  intr[Cpu(x)] = (x[2] = "base" /\ chosen[Cpu(x)])
  <2>1. intr[Cpu(x)] <=> (x[2] = "base" /\ chosen[Cpu(x)])
    BY <1>2 DEF IInv, FlagInv, FlagAt, Busy, Inside, Flag
  <2>2. intr[Cpu(x)] \in BOOLEAN
    BY <1>2, CtxFacts DEF IInv, TypeOK
  <2>. QED
    BY <2>1, <2>2
<1>3. IInv => FlagRestored
  BY <1>1, <1>2 DEF FlagRestored
<1>. QED
  BY Inductive, <1>3, PTL

-----------------------------------------------------------------------------
(* The refinement: the outstanding tickets of a lock, in order, are the      *)
(* queue of the mutex.                                                       *)

\* How many tickets of l are outstanding.
Size(l) == next_ticket[l] - next_serving[l]

\* The i-th of the queue has the i-th ticket from the one that is served.
QueueIs(l) ==
  /\ Size(l) \in Nat
  /\ Queue(l) \in Seq(Ctx) /\ Len(Queue(l)) = Size(l)
  /\ \A i \in 1 .. Size(l) : /\ Waits(Queue(l)[i], l)
                             /\ ticket[Queue(l)[i]][l] = next_serving[l] + i - 1

\* Everybody with a ticket is in the queue, at the place of the ticket.
Placed(l) ==
  \A x \in Ctx : Waits(x, l) =>
    /\ ticket[x][l] - next_serving[l] + 1 \in 1 .. Size(l)
    /\ x = Queue(l)[ticket[x][l] - next_serving[l] + 1]

AllQueues == \A l \in Locks : QueueIs(l) /\ Placed(l)

\* There are as many outstanding contexts as outstanding tickets.
LEMMA OutstandingCount ==
  ASSUME IInv, NEW l \in Locks
  PROVE  Size(l) \in Nat /\ Cardinality(Outstanding(l)) = Size(l)
<1>. DEFINE T == next_serving[l] .. next_ticket[l] - 1
            f == [x \in Outstanding(l) |-> ticket[x][l]]
<1>1. /\ next_serving[l] \in Nat /\ next_ticket[l] \in Nat /\ next_serving[l] <= next_ticket[l]
      /\ \A x \in Ctx : ticket[x][l] \in Nat
  BY DEF IInv, TypeOK, TicketInv
<1>2. \A x \in Outstanding(l) : x \in Ctx /\ Waits(x, l) /\ ticket[x][l] \in T
  BY <1>1 DEF IInv, TicketInv, Outstanding, Waits
<1>3. f \in Injection(Outstanding(l), T)
  <2>1. f \in [Outstanding(l) -> T]
    BY <1>2
  <2>2. \A x, y \in Outstanding(l) : f[x] = f[y] => x = y
    BY <1>2 DEF IInv, TicketInv
  <2>. QED
    BY <2>1, <2>2 DEF Injection, IsInjective
<1>4. f \in Surjection(Outstanding(l), T)
  <2>1. f \in [Outstanding(l) -> T]
    BY <1>2
  <2>2. ASSUME NEW n \in T PROVE \E x \in Outstanding(l) : f[x] = n
    <3>1. PICK x \in Ctx : Waits(x, l) /\ ticket[x][l] = n
      BY <1>1 DEF IInv, NoGapInv
    <3>. QED
      BY <3>1 DEF Outstanding, Waits
  <2>. QED
    BY <2>1, <2>2 DEF Surjection
<1>5. IsFiniteSet(T) /\ Cardinality(T) = Size(l) /\ Size(l) \in Nat
  <2>1. PICK a \in Int, b \in Int : a = next_serving[l] /\ b = next_ticket[l] - 1
    BY <1>1
  <2>2. /\ IsFiniteSet(a .. b)
        /\ Cardinality(a .. b) = IF a > b THEN 0 ELSE b - a + 1
    BY FS_Interval, Zenon
  <2>. QED
    BY <1>1, <2>1, <2>2 DEF Size
<1>6. Cardinality(Outstanding(l)) = Cardinality(T)
  BY <1>3, <1>4, <1>5, FS_Injection
<1>. QED
  BY <1>5, <1>6

\* The queue is the contexts in the order of their tickets.
LEMMA QueueShape == IInv => AllQueues
<1>. SUFFICES ASSUME IInv, NEW l \in Locks PROVE QueueIs(l) /\ Placed(l)
  BY DEF AllQueues
<1>1. Size(l) \in Nat /\ Cardinality(Outstanding(l)) = Size(l)
  BY OutstandingCount
<1>2. /\ next_serving[l] \in Nat /\ next_ticket[l] \in Nat
      /\ \A x \in Ctx : ticket[x][l] \in Nat
  BY DEF IInv, TypeOK
<1>3. ASSUME NEW i \in 1 .. Size(l)
      PROVE  /\ Queue(l)[i] \in Outstanding(l)
             /\ ticket[Queue(l)[i]][l] = next_serving[l] + i - 1
  <2>1. \E x \in Outstanding(l) : ticket[x][l] = next_serving[l] + i - 1
    <3>1. /\ next_serving[l] + i - 1 \in Nat /\ next_serving[l] <= next_serving[l] + i - 1
          /\ next_serving[l] + i - 1 < next_ticket[l]
      BY <1>2 DEF Size
    <3>. QED
      BY <3>1 DEF IInv, NoGapInv, Outstanding, Waits
  <2>2. Queue(l)[i] = CHOOSE x \in Outstanding(l) : ticket[x][l] = next_serving[l] + i - 1
    BY <1>1 DEF Queue
  <2>. QED
    BY <2>1, <2>2
<1>4. Queue(l) \in [1 .. Size(l) -> Ctx]
  BY <1>1, <1>3 DEF Queue, Outstanding
<1>5. Queue(l) \in Seq(Ctx) /\ Len(Queue(l)) = Size(l)
  BY <1>1, <1>4
<1>6. QueueIs(l)
  BY <1>1, <1>3, <1>5 DEF QueueIs, Outstanding, Waits
<1>7. ASSUME NEW x \in Ctx, Waits(x, l)
      PROVE  /\ ticket[x][l] - next_serving[l] + 1 \in 1 .. Size(l)
             /\ x = Queue(l)[ticket[x][l] - next_serving[l] + 1]
  <2>. DEFINE i == ticket[x][l] - next_serving[l] + 1
              y == Queue(l)[i]
  <2>1. i \in 1 .. Size(l)
    BY <1>2, <1>7 DEF IInv, TicketInv, Size
  <2>2. y \in Ctx /\ Waits(y, l) /\ ticket[y][l] = next_serving[l] + i - 1
    BY <1>3, <2>1 DEF Outstanding, Waits
  <2>3. ticket[y][l] = ticket[x][l]
    BY <1>2, <2>2
  <2>. QED
    BY <1>7, <2>1, <2>2, <2>3 DEF IInv, TicketInv
<1>8. Placed(l)
  BY <1>7 DEF Placed
<1>. QED
  BY <1>6, <1>8

\* A lock whose tickets and holders do not change keeps its queue.
LEMMA QueueSame ==
  ASSUME IInv, IInv', NEW l \in Locks,
         next_ticket'[l] = next_ticket[l], next_serving'[l] = next_serving[l],
         \A y \in Ctx : Waits(y, l) => Waits(y, l)' /\ ticket'[y][l] = ticket[y][l]
  PROVE  Queue(l)' = Queue(l)
<1>1. QueueIs(l) /\ QueueIs(l)' /\ Placed(l)'
  <2>1. IInv' => AllQueues'
    BY QueueShape, PTL
  <2>. QED
    BY <2>1, QueueShape DEF AllQueues
<1>2. Size(l)' = Size(l)
  BY DEF Size
<1>3. \A i \in 1 .. Size(l) : Queue(l)'[i] = Queue(l)[i]
  <2>. SUFFICES ASSUME NEW i \in 1 .. Size(l) PROVE Queue(l)'[i] = Queue(l)[i]
    OBVIOUS
  <2>. DEFINE y == Queue(l)[i]
  <2>1. y \in Ctx /\ Waits(y, l) /\ ticket[y][l] = next_serving[l] + i - 1
    BY <1>1, ElementOfSeq DEF QueueIs
  <2>. QED
    BY <1>1, <1>2, <2>1 DEF Placed, IInv, TypeOK
<1>. QED
  BY <1>1, <1>2, <1>3, SeqEqual DEF QueueIs

\* The queues after a step.
LEMMA QueueShapeNext == IInv' => AllQueues'
  BY QueueShape, PTL

\* A lock that nobody moves on keeps its grant.
LEMMA GrantedSame ==
  ASSUME NEW l \in Locks, \A y \in Ctx : l \in held'[y] <=> l \in held[y]
  PROVE  Granted(l)' = Granted(l)
  BY DEF Granted

\* The fetch_add of lock() is the request.
LEMMA FetchTicketRefines ==
  ASSUME IInv, IInv', NEW x \in Ctx, FetchTicket(x)
  PROVE  Served!Next
<1>1. PICK l \in Locks : l = want[x] /\ ~Waits(x, l)
  BY LockAssumption DEF FetchTicket, IInv, TypeOK, WantInv, Waits
<1>2. /\ Waits(x, l)' /\ ticket'[x][l] = next_ticket[l]
      /\ next_serving'[l] = next_serving[l] /\ next_ticket'[l] = next_ticket[l] + 1
      /\ next_serving[l] \in Nat /\ next_ticket[l] \in Nat
  BY <1>1 DEF FetchTicket, IInv, TypeOK, Waits
<1>3. \A y \in Ctx, m \in Locks : Waits(y, m) => Waits(y, m)' /\ ticket'[y][m] = ticket[y][m]
  BY <1>1 DEF FetchTicket, IInv, TypeOK, Waits
<1>4. \A m \in Locks : m # l => Queue(m)' = Queue(m)
  <2>1. \A m \in Locks : /\ m # l => next_ticket'[m] = next_ticket[m]
                         /\ next_serving'[m] = next_serving[m]
    BY <1>1 DEF FetchTicket, IInv, TypeOK
  <2>. QED
    BY <1>2, <1>3, <2>1, QueueSame
<1>5. QueueIs(l) /\ QueueIs(l)' /\ Placed(l)'
  BY QueueShape, QueueShapeNext DEF AllQueues
<1>6. \A i \in 1 .. Size(l) : Queue(l)[i] \in Ctx
  BY <1>5, ElementOfSeq DEF QueueIs
<1>7. x \notin Served!Range(Queue(l))
  <2>1. DOMAIN Queue(l) = 1 .. Size(l)
    BY <1>5, LenProperties DEF QueueIs
  <2>. QED
    BY <1>1, <1>5, <2>1 DEF QueueIs, Served!Range
<1>8. Queue(l)' = Append(Queue(l), x)
  <2>1. Size(l)' = Size(l) + 1 /\ Size(l) \in Nat
    BY <1>2 , <1>5 DEF Size, QueueIs
  <2>2. ASSUME NEW i \in 1 .. Size(l) PROVE Queue(l)'[i] = Queue(l)[i]
    <3>1. PICK y \in Ctx : /\ y = Queue(l)[i] /\ Waits(y, l)'
                           /\ ticket'[y][l] = next_serving[l] + i - 1
      BY <1>3, <1>5, <1>6 DEF QueueIs
    <3>2. ticket'[y][l] - next_serving'[l] + 1 = i
      BY <1>2, <2>1, <3>1
    <3>. QED
      BY <1>5, <3>1, <3>2 DEF Placed
  <2>3. Queue(l)'[Size(l) + 1] = x
    <3>1. ticket'[x][l] - next_serving'[l] + 1 = Size(l) + 1
      BY <1>2 DEF Size
    <3>. QED
      BY <1>2, <1>5, <3>1 DEF Placed
  <2>4. /\ Append(Queue(l), x) \in Seq(Ctx) /\ Len(Append(Queue(l), x)) = Size(l) + 1
        /\ \A i \in 1 .. Size(l) : Append(Queue(l), x)[i] = Queue(l)[i]
        /\ Append(Queue(l), x)[Size(l) + 1] = x
    BY <1>5, AppendProperties DEF QueueIs
  <2>5. Queue(l)' \in Seq(Ctx) /\ Len(Queue(l)') = Size(l) + 1
    BY <1>5, <2>1 DEF QueueIs
  <2>6. \A i \in 1 .. Size(l) + 1 : Queue(l)'[i] = Append(Queue(l), x)[i]
    BY <2>1, <2>2, <2>3, <2>4
  <2>. QED
    BY <2>4, <2>5, <2>6, SeqEqual
<1>9. \A m \in Locks : Granted(m)' = Granted(m)
  BY GrantedSame DEF FetchTicket
<1>10. Served!Request(x, l)
  BY <1>4, <1>7, <1>8, <1>9 DEF Served!Request
<1>. QED
  BY <1>10 DEF Served!Next

\* The load that ends the spin loop is the grant.
LEMMA EnterRefines ==
  ASSUME IInv, IInv', NEW x \in Ctx, Enter(x)
  PROVE  Served!Next
<1>1. PICK l \in Locks : l = want[x] /\ Waits(x, l) /\ l \notin held[x]
  BY DEF Enter, IInv, WantInv, Waits
<1>2. \A y \in Ctx, m \in Locks : Waits(y, m) => Waits(y, m)' /\ ticket'[y][m] = ticket[y][m]
  BY <1>1 DEF Enter, IInv, TypeOK, Waits, lockVars
<1>3. \A m \in Locks : Queue(m)' = Queue(m)
  BY <1>2, QueueSame DEF Enter, lockVars
<1>4. Queue(l) # <<>>
  <2>1. QueueIs(l) /\ Placed(l)
    BY QueueShape DEF AllQueues
  <2>2. 1 .. Len(Queue(l)) # {}
    BY <1>1, <2>1 DEF QueueIs, Placed
  <2>. QED
    BY <2>2, EmptySeq
<1>5. ~Granted(l)
  BY <1>1 DEF Enter, IInv, TicketInv, Waits, Granted
<1>6. Granted(l)'
  BY <1>1 DEF Enter, IInv, TypeOK, Granted
<1>7. \A m \in Locks : m # l => Granted(m)' = Granted(m)
  <2>1. \A y \in Ctx, m \in Locks : m # l => (m \in held'[y] <=> m \in held[y])
    BY <1>1 DEF Enter, IInv, TypeOK
  <2>. QED
    BY <2>1, GrantedSame
<1>8. Served!Grant(l)
  BY <1>3, <1>4, <1>5, <1>6, <1>7 DEF Served!Grant
<1>. QED
  BY <1>8 DEF Served!Next

\* The exchange of try_lock is the acquisition of a free lock.
LEMMA TrySwapRefines ==
  ASSUME IInv, IInv', NEW x \in Ctx, TrySwap(x)
  PROVE  Served!Next
<1>1. PICK l \in Locks : /\ l = want[x] /\ next_ticket[l] = seen[x]
                         /\ next_serving[l] = seen[x] /\ \A y \in Ctx : ~Waits(y, l)
  BY SwapFree
<1>2. /\ Waits(x, l)' /\ ticket'[x][l] = next_serving[l]
      /\ next_serving'[l] = next_serving[l] /\ next_ticket'[l] = next_ticket[l] + 1
      /\ next_serving[l] \in Nat
  BY <1>1 DEF TrySwap, IInv, TypeOK, Waits
<1>3. \A y \in Ctx, m \in Locks : Waits(y, m) => Waits(y, m)' /\ ticket'[y][m] = ticket[y][m]
  BY <1>1 DEF TrySwap, IInv, TypeOK, Waits
<1>4. \A m \in Locks : m # l => Queue(m)' = Queue(m)
  <2>1. \A m \in Locks : /\ m # l => next_ticket'[m] = next_ticket[m]
                         /\ next_serving'[m] = next_serving[m]
    BY <1>1 DEF TrySwap, IInv, TypeOK
  <2>. QED
    BY <1>3, <2>1, QueueSame
<1>5. QueueIs(l) /\ QueueIs(l)' /\ Placed(l)'
  BY QueueShape, QueueShapeNext DEF AllQueues
<1>6. Size(l) = 0 /\ Size(l)' = 1
  BY <1>1, <1>2 DEF Size
<1>7. Queue(l) = <<>>
  BY <1>5, <1>6, EmptySeq DEF QueueIs
<1>8. Queue(l)' = <<x>>
  <2>1. ticket'[x][l] - next_serving'[l] + 1 = 1
    BY <1>2
  <2>2. Queue(l)'[1] = x
    BY <1>2, <1>5, <2>1 DEF Placed
  <2>3. Queue(l)' \in Seq(Ctx) /\ Len(Queue(l)') = 1
    BY <1>5, <1>6 DEF QueueIs
  <2>4. <<x>> \in Seq(Ctx) /\ Len(<<x>>) = 1 /\ <<x>>[1] = x
    OBVIOUS
  <2>5. \A i \in 1 .. 1 : Queue(l)'[i] = <<x>>[i]
    BY <2>2, <2>4
  <2>. QED
    BY <2>3, <2>4, <2>5, SeqEqual
<1>9. Granted(l)'
  BY <1>1 DEF TrySwap, IInv, TypeOK, Granted
<1>10. \A m \in Locks : m # l => Granted(m)' = Granted(m)
  <2>1. \A y \in Ctx, m \in Locks : m # l => (m \in held'[y] <=> m \in held[y])
    BY <1>1 DEF TrySwap, IInv, TypeOK
  <2>. QED
    BY <2>1, GrantedSame
<1>11. Served!TryAcquire(x, l)
  BY <1>4, <1>7, <1>8, <1>9, <1>10 DEF Served!TryAcquire
<1>. QED
  BY <1>11 DEF Served!Next

\* The drop of the guard is the release: the queue moves up by one.
LEMMA UnlockRefines ==
  ASSUME IInv, IInv', NEW x \in Ctx, NEW l \in Locks, Unlock(x, l)
  PROVE  Served!Next
<1>1. /\ l \in held[x] /\ Waits(x, l) /\ ticket[x][l] = next_serving[l]
      /\ next_serving'[l] = next_serving[l] + 1 /\ next_ticket'[l] = next_ticket[l]
      /\ next_serving[l] \in Nat /\ next_ticket[l] \in Nat /\ next_serving[l] < next_ticket[l]
  BY DEF Unlock, IInv, TypeOK, TicketInv, Waits
<1>2. \A y \in Ctx, m \in Locks : Waits(y, m) /\ (y # x \/ m # l)
                                    => Waits(y, m)' /\ ticket'[y][m] = ticket[y][m]
  BY DEF Unlock, IInv, TypeOK, Waits
<1>3. \A m \in Locks : m # l => Queue(m)' = Queue(m)
  <2>1. \A m \in Locks : m # l => /\ next_ticket'[m] = next_ticket[m]
                                  /\ next_serving'[m] = next_serving[m]
    BY DEF Unlock, IInv, TypeOK
  <2>. QED
    BY <1>2, <2>1, QueueSame
<1>4. QueueIs(l) /\ QueueIs(l)' /\ Placed(l) /\ Placed(l)'
  BY QueueShape, QueueShapeNext DEF AllQueues
<1>5. Size(l) \in Nat /\ Size(l) # 0 /\ Size(l)' = Size(l) - 1
  BY <1>1 DEF Size
<1>6. Queue(l)' = Tail(Queue(l))
  <2>1. Queue(l) # <<>>
    BY <1>4, <1>5, EmptySeq DEF QueueIs
  <2>2. /\ Tail(Queue(l)) \in Seq(Ctx) /\ Len(Tail(Queue(l))) = Size(l) - 1
        /\ \A i \in 1 .. Size(l) - 1 : Tail(Queue(l))[i] = Queue(l)[i + 1]
    BY <1>4, <2>1, HeadTailProperties DEF QueueIs
  <2>3. Queue(l)' \in Seq(Ctx) /\ Len(Queue(l)') = Size(l) - 1
    BY <1>4, <1>5 DEF QueueIs
  <2>4. ASSUME NEW i \in 1 .. Size(l) - 1 PROVE Queue(l)'[i] = Queue(l)[i + 1]
    <3>1. i + 1 \in 1 .. Size(l) /\ i \in Nat /\ i # 0
      BY <1>5
    <3>2. PICK y \in Ctx : /\ y = Queue(l)[i + 1] /\ Waits(y, l)
                           /\ ticket[y][l] = next_serving[l] + (i + 1) - 1
      BY <1>4, <3>1, ElementOfSeq DEF QueueIs
    <3>3. y # x
      BY <1>1, <3>1, <3>2
    <3>4. Waits(y, l)' /\ ticket'[y][l] = ticket[y][l]
      BY <1>2, <3>2, <3>3
    <3>5. ticket'[y][l] - next_serving'[l] + 1 = i
      BY <1>1, <3>1, <3>2, <3>4
    <3>. QED
      BY <1>4, <3>2, <3>4, <3>5 DEF Placed
  <2>5. \A i \in 1 .. Size(l) - 1 : Queue(l)'[i] = Tail(Queue(l))[i]
    BY <2>2, <2>4
  <2>. QED
    BY <2>2, <2>3, <2>5, SeqEqual
<1>7. Granted(l)
  BY <1>1 DEF Granted
<1>8. Granted(l)' = FALSE
  BY <1>1 DEF Unlock, IInv, TypeOK, TicketInv, Waits, Granted
<1>9. \A m \in Locks : m # l => Granted(m)' = Granted(m)
  <2>1. \A y \in Ctx, m \in Locks : m # l => (m \in held'[y] <=> m \in held[y])
    BY DEF Unlock, IInv, TypeOK
  <2>. QED
    BY <2>1, GrantedSame
<1>10. Served!Release(l)
  BY <1>3, <1>6, <1>7, <1>8, <1>9 DEF Served!Release
<1>. QED
  BY <1>10 DEF Served!Next

\* Every other step leaves the abstract mutex alone.
LEMMA StutterRefines ==
  ASSUME IInv, IInv', next_ticket' = next_ticket, next_serving' = next_serving,
         ticket' = ticket, held' = held,
         \A y \in Ctx, m \in Locks : Waits(y, m) => Waits(y, m)'
  PROVE  UNCHANGED Served!vars
<1>1. \A m \in Locks : Queue(m)' = Queue(m)
  BY QueueSame
<1>2. \A m \in Locks : Granted(m)' = Granted(m)
  BY GrantedSame
<1>. QED
  BY <1>1, <1>2 DEF Served!vars

\* Every step of the ticket lock is a step of the mutex or leaves it alone.
LEMMA StepRefines ==
  ASSUME IInv, IInv', [Next]_vars
  PROVE  [Served!Next]_Served!vars
<1>BeginLock. ASSUME NEW x \in Ctx, NEW l \in Locks, BeginLock(x, l) PROVE [Served!Next]_Served!vars
  BY <1>BeginLock, StutterRefines DEF BeginLock, IInv, TypeOK, Waits, lockVars
<1>BeginTry. ASSUME NEW x \in Ctx, NEW l \in Locks, BeginTry(x, l) PROVE [Served!Next]_Served!vars
  BY <1>BeginTry, StutterRefines DEF BeginTry, IInv, TypeOK, Waits, lockVars
<1>Unlock. ASSUME NEW x \in Ctx, NEW l \in Locks, Unlock(x, l) PROVE [Served!Next]_Served!vars
  BY <1>Unlock, UnlockRefines
<1>PushOff. ASSUME NEW x \in Ctx, PushOff(x) PROVE [Served!Next]_Served!vars
  BY <1>PushOff, StutterRefines DEF PushOff, IInv, TypeOK, Waits, lockVars
<1>FetchTicket. ASSUME NEW x \in Ctx, FetchTicket(x) PROVE [Served!Next]_Served!vars
  BY <1>FetchTicket, FetchTicketRefines
<1>Enter. ASSUME NEW x \in Ctx, Enter(x) PROVE [Served!Next]_Served!vars
  BY <1>Enter, EnterRefines
<1>TryLoad. ASSUME NEW x \in Ctx, TryLoad(x) PROVE [Served!Next]_Served!vars
  BY <1>TryLoad, StutterRefines DEF TryLoad, IInv, TypeOK, Waits, lockVars
<1>TryCheck. ASSUME NEW x \in Ctx, TryCheck(x) PROVE [Served!Next]_Served!vars
  BY <1>TryCheck, StutterRefines DEF TryCheck, IInv, TypeOK, Waits, lockVars
<1>TrySwap. ASSUME NEW x \in Ctx, TrySwap(x) PROVE [Served!Next]_Served!vars
  BY <1>TrySwap, TrySwapRefines
<1>TrySwapFails. ASSUME NEW x \in Ctx, TrySwapFails(x) PROVE [Served!Next]_Served!vars
  BY <1>TrySwapFails, StutterRefines DEF TrySwapFails, IInv, TypeOK, Waits, lockVars
<1>PopOff. ASSUME NEW x \in Ctx, PopOff(x) PROVE [Served!Next]_Served!vars
  BY <1>PopOff, StutterRefines DEF PopOff, IInv, TypeOK, Waits, lockVars
<1>TakeInterrupt. ASSUME NEW c \in Cpus, TakeInterrupt(c) PROVE [Served!Next]_Served!vars
  BY <1>TakeInterrupt, StutterRefines DEF TakeInterrupt, IInv, TypeOK, Waits, lockVars
<1>ReturnFromInterrupt. ASSUME NEW c \in Cpus, ReturnFromInterrupt(c) PROVE [Served!Next]_Served!vars
  BY <1>ReturnFromInterrupt, StutterRefines
     DEF ReturnFromInterrupt, IInv, TypeOK, Waits, lockVars
<1>ChangeFlag. ASSUME NEW c \in Cpus, ChangeFlag(c) PROVE [Served!Next]_Served!vars
  BY <1>ChangeFlag, StutterRefines DEF ChangeFlag, IInv, TypeOK, Waits, lockVars
<1>Stutter. CASE UNCHANGED vars
  BY <1>Stutter, StutterRefines DEF vars, Waits
<1>. QED
  BY <1>BeginLock, <1>BeginTry, <1>Unlock, <1>PushOff, <1>FetchTicket, <1>Enter,
     <1>TryLoad, <1>TryCheck, <1>TrySwap, <1>TrySwapFails, <1>PopOff,
     <1>TakeInterrupt, <1>ReturnFromInterrupt, <1>ChangeFlag, <1>Stutter
     DEF Next

\* Nobody has asked in the initial states.
LEMMA InitRefines == Init => Served!Init
<1>. SUFFICES ASSUME Init PROVE Served!Init
  OBVIOUS
<1>1. \A l \in Locks : Granted(l) = FALSE
  BY DEF Init, Granted
<1>2. \A l \in Locks : Queue(l) = <<>>
  <2>. SUFFICES ASSUME NEW l \in Locks PROVE Queue(l) = <<>>
    OBVIOUS
  <2>1. QueueIs(l) /\ Size(l) = 0
    BY InitInv, QueueShape DEF AllQueues, Init, Size
  <2>. QED
    BY <2>1, EmptySeq DEF QueueIs
<1>. QED
  BY <1>1, <1>2 DEF Served!Init

\* The ticket lock implements the first-come first-served mutex: lock's
\* fetch_add joins the queue, the load that finds the ticket served and
\* try_lock's exchange enter, Drop leaves, and no other access shows. (The
\* fairness of ImplementsMutex is left to the run.)
THEOREM MutexImplemented == Spec => Served!Init /\ [][Served!Next]_Served!vars
<1>1. IInv /\ IInv' /\ [Next]_vars => [Served!Next]_Served!vars
  BY StepRefines
<1>. QED
  BY InitRefines, Inductive, <1>1, PTL DEF Spec

=============================================================================

---------------------------- MODULE TicketMutex ----------------------------
(* The kernel's ticket locks (vendor/kernel-sync/src/ticket.rs) together     *)
(* with the interrupt discipline they keep (push_off and pop_off in          *)
(* interrupt.rs). Every CPU runs a base context and, when an interrupt comes *)
(* in, a handler on top of it; both take locks. An action is one access to   *)
(* an atomic or one stretch of code that runs with interrupts off on data    *)
(* of its own CPU.                                                           *)
EXTENDS Integers, FiniteSets

CONSTANTS Cpus,
          Locks,     \* naturals: the order in which nested locks are taken
          MaxTicket, \* bound: tickets handed out per lock (2^64 are never used up)
          None

ASSUME LockAssumption ==
  /\ IsFiniteSet(Cpus)
  /\ Locks \subseteq Nat
  /\ None \notin Locks
  /\ MaxTicket \in Nat

VARIABLES
  next_ticket, next_serving,   \* per lock
  intr,                        \* per CPU: the interrupt flag
  noff, interrupt_enable,      \* per CPU: struct Cpu
  run,                         \* per CPU: the context it executes
  pc, want, old, seen,         \* per context: where it is, and its locals
  ticket, held,                \* per context: the guards it holds
  chosen                       \* per CPU, history: the flag the code outside locks set

lockVars == <<next_ticket, next_serving>>
cpuVars  == <<intr, noff, interrupt_enable>>
vars == <<next_ticket, next_serving, intr, noff, interrupt_enable, run,
          pc, want, old, seen, ticket, held, chosen>>

Ctx == Cpus \X {"base", "irq"}
Cpu(x) == x[1]
Running(x) == run[Cpu(x)] = x[2]

Init ==
  /\ next_ticket = [l \in Locks |-> 0] /\ next_serving = [l \in Locks |-> 0]
  /\ intr \in [Cpus -> BOOLEAN] /\ chosen = intr
  /\ noff = [c \in Cpus |-> 0] /\ interrupt_enable = [c \in Cpus |-> FALSE]
  /\ run = [c \in Cpus |-> "base"]
  /\ pc = [x \in Ctx |-> "idle"] /\ want = [x \in Ctx |-> None]
  /\ old = [x \in Ctx |-> FALSE] /\ seen = [x \in Ctx |-> 0]
  /\ ticket = [x \in Ctx |-> [l \in Locks |-> 0]]
  /\ held = [x \in Ctx |-> {}]

-----------------------------------------------------------------------------
(* push_off: the flag is read, then interrupts go off and the nesting is     *)
(* recorded. An interrupt may come in between the two.                       *)

\* lock() is entered. Nested locks are taken in one order.
BeginLock(x, l) ==
  /\ Running(x) /\ pc[x] = "idle" /\ \A h \in held[x] : h < l
  /\ next_ticket[l] < MaxTicket
  /\ pc' = [pc EXCEPT ![x] = "off_lock"]
  /\ want' = [want EXCEPT ![x] = l]
  /\ old' = [old EXCEPT ![x] = intr[Cpu(x)]]
  /\ UNCHANGED <<lockVars, cpuVars, run, seen, ticket, held, chosen>>

\* try_lock() is entered; it may name any lock, its caller's own included.
BeginTry(x, l) ==
  /\ Running(x) /\ pc[x] = "idle" /\ next_ticket[l] < MaxTicket
  /\ pc' = [pc EXCEPT ![x] = "off_try"]
  /\ want' = [want EXCEPT ![x] = l]
  /\ old' = [old EXCEPT ![x] = intr[Cpu(x)]]
  /\ UNCHANGED <<lockVars, cpuVars, run, seen, ticket, held, chosen>>

\* Mutant: the nesting is not looked at.
PushOffAlwaysSaves(x) ==
  LET c == Cpu(x) IN
  /\ Running(x) /\ pc[x] \in {"off_lock", "off_try"}
  /\ intr' = [intr EXCEPT ![c] = FALSE]
  /\ interrupt_enable' = [interrupt_enable EXCEPT ![c] = old[x]]
  /\ noff' = [noff EXCEPT ![c] = @ + 1]
  /\ pc' = [pc EXCEPT ![x] = IF @ = "off_lock" THEN "ticket" ELSE "try_load"]
  /\ old' = [old EXCEPT ![x] = FALSE]
  /\ UNCHANGED <<lockVars, run, want, seen, ticket, held, chosen>>

PushOff(x) ==
  LET c == Cpu(x) IN
  /\ Running(x) /\ pc[x] \in {"off_lock", "off_try"}
  /\ intr' = [intr EXCEPT ![c] = FALSE]
  /\ interrupt_enable' =
       [interrupt_enable EXCEPT ![c] = IF noff[c] = 0 THEN old[x] ELSE @]
  /\ noff' = [noff EXCEPT ![c] = @ + 1]
  /\ pc' = [pc EXCEPT ![x] = IF @ = "off_lock" THEN "ticket" ELSE "try_load"]
  /\ old' = [old EXCEPT ![x] = FALSE]
  /\ UNCHANGED <<lockVars, run, want, seen, ticket, held, chosen>>

-----------------------------------------------------------------------------
(* lock                                                                      *)

FetchTicket(x) ==
  LET l == want[x] IN
  /\ Running(x) /\ pc[x] = "ticket"
  /\ ticket' = [ticket EXCEPT ![x][l] = next_ticket[l]]
  /\ next_ticket' = [next_ticket EXCEPT ![l] = @ + 1]
  /\ pc' = [pc EXCEPT ![x] = "spin"]
  /\ UNCHANGED <<next_serving, cpuVars, run, want, old, seen, held, chosen>>

\* The load of the spin loop that finds the ticket served. The other loads
\* change nothing, nor does the report after DEADLOCK_SPINS of them.
Enter(x) ==
  LET l == want[x] IN
  /\ Running(x) /\ pc[x] = "spin" /\ next_serving[l] = ticket[x][l]
  /\ held' = [held EXCEPT ![x] = @ \cup {l}]
  /\ pc' = [pc EXCEPT ![x] = "idle"]
  /\ want' = [want EXCEPT ![x] = None]
  /\ UNCHANGED <<lockVars, cpuVars, run, old, seen, ticket, chosen>>

-----------------------------------------------------------------------------
(* try_lock: fetch_update is a load, the closure's check and a               *)
(* compare-exchange that may fail and starts over with the value it saw.     *)

TryLoad(x) ==
  /\ Running(x) /\ pc[x] = "try_load"
  /\ seen' = [seen EXCEPT ![x] = next_ticket[want[x]]]
  /\ pc' = [pc EXCEPT ![x] = "try_check"]
  /\ UNCHANGED <<lockVars, cpuVars, run, want, old, ticket, held, chosen>>

\* Mutant: next_serving is not compared.
TryCheckSkipped(x) ==
  /\ Running(x) /\ pc[x] = "try_check"
  /\ pc' = [pc EXCEPT ![x] = "try_swap"]
  /\ UNCHANGED <<lockVars, cpuVars, run, want, old, seen, ticket, held, chosen>>

\* The closure: next_serving is compared with the value of next_ticket.
TryCheck(x) ==
  /\ Running(x) /\ pc[x] = "try_check"
  /\ pc' = [pc EXCEPT ![x] =
              IF next_serving[want[x]] = seen[x] THEN "try_swap" ELSE "pop"]
  /\ UNCHANGED <<lockVars, cpuVars, run, want, old, seen, ticket, held, chosen>>

\* Mutant: a plain store instead of the exchange.
StoreTicket(x) ==
  LET l == want[x] IN
  /\ Running(x) /\ pc[x] = "try_swap"
  /\ next_ticket' = [next_ticket EXCEPT ![l] = seen[x] + 1]
  /\ ticket' = [ticket EXCEPT ![x][l] = seen[x]]
  /\ held' = [held EXCEPT ![x] = @ \cup {l}]
  /\ pc' = [pc EXCEPT ![x] = "idle"]
  /\ want' = [want EXCEPT ![x] = None] /\ seen' = [seen EXCEPT ![x] = 0]
  /\ UNCHANGED <<next_serving, cpuVars, run, old, chosen>>

TrySwap(x) ==
  LET l == want[x] IN
  /\ Running(x) /\ pc[x] = "try_swap" /\ next_ticket[l] = seen[x]
  /\ next_ticket' = [next_ticket EXCEPT ![l] = @ + 1]
  /\ ticket' = [ticket EXCEPT ![x][l] = seen[x]]
  /\ held' = [held EXCEPT ![x] = @ \cup {l}]
  /\ pc' = [pc EXCEPT ![x] = "idle"]
  /\ want' = [want EXCEPT ![x] = None] /\ seen' = [seen EXCEPT ![x] = 0]
  /\ UNCHANGED <<next_serving, cpuVars, run, old, chosen>>

\* The exchange fails because another CPU took a ticket. (A spurious failure
\* repeats the check with the same result: the lock is free until somebody
\* takes a ticket.)
TrySwapFails(x) ==
  /\ Running(x) /\ pc[x] = "try_swap" /\ next_ticket[want[x]] # seen[x]
  /\ seen' = [seen EXCEPT ![x] = next_ticket[want[x]]]
  /\ pc' = [pc EXCEPT ![x] = "try_check"]
  /\ UNCHANGED <<lockVars, cpuVars, run, want, old, ticket, held, chosen>>

-----------------------------------------------------------------------------
(* Drop of the guard, and the way out of a try_lock that failed.             *)

Unlock(x, l) ==
  /\ Running(x) /\ pc[x] = "idle" /\ l \in held[x]
  /\ next_serving' = [next_serving EXCEPT ![l] = ticket[x][l] + 1]
  /\ held' = [held EXCEPT ![x] = @ \ {l}]
  /\ pc' = [pc EXCEPT ![x] = "pop"]
  /\ ticket' = [ticket EXCEPT ![x][l] = 0]
  /\ UNCHANGED <<next_ticket, cpuVars, run, want, old, seen, chosen>>

\* Mutant: interrupts come back although an outer guard is left.
PopOffEnablesEarly(x) ==
  LET c == Cpu(x) IN
  /\ Running(x) /\ pc[x] = "pop" /\ ~intr[c] /\ noff[c] >= 1
  /\ noff' = [noff EXCEPT ![c] = @ - 1]
  /\ intr' = [intr EXCEPT ![c] = interrupt_enable[c]]
  /\ pc' = [pc EXCEPT ![x] = "idle"]
  /\ want' = [want EXCEPT ![x] = None]
  /\ seen' = [seen EXCEPT ![x] = 0]
  /\ UNCHANGED <<lockVars, interrupt_enable, run, old, ticket, held, chosen>>

PopOff(x) ==
  LET c == Cpu(x) IN
  /\ Running(x) /\ pc[x] = "pop" /\ ~intr[c] /\ noff[c] >= 1
  /\ noff' = [noff EXCEPT ![c] = @ - 1]
  /\ intr' = [intr EXCEPT ![c] = noff[c] = 1 /\ interrupt_enable[c]]
  /\ pc' = [pc EXCEPT ![x] = "idle"]
  /\ want' = [want EXCEPT ![x] = None]
  /\ seen' = [seen EXCEPT ![x] = 0]
  /\ UNCHANGED <<lockVars, interrupt_enable, run, old, ticket, held, chosen>>

-----------------------------------------------------------------------------
(* The CPU (external): an interrupt is taken when the flag is set, its       *)
(* handler runs with the flag clear and returns to the flag that was set.    *)
(* Code outside locks may change the flag.                                   *)

TakeInterrupt(c) ==
  /\ run[c] = "base" /\ intr[c]
  /\ run' = [run EXCEPT ![c] = "irq"]
  /\ intr' = [intr EXCEPT ![c] = FALSE]
  /\ UNCHANGED <<lockVars, noff, interrupt_enable, pc, want, old, seen, ticket, held, chosen>>

ReturnFromInterrupt(c) ==
  /\ run[c] = "irq" /\ pc[<<c, "irq">>] = "idle" /\ held[<<c, "irq">>] = {}
  /\ run' = [run EXCEPT ![c] = "base"]
  /\ intr' = [intr EXCEPT ![c] = TRUE]
  /\ UNCHANGED <<lockVars, noff, interrupt_enable, pc, want, old, seen, ticket, held, chosen>>

ChangeFlag(c) ==
  /\ run[c] = "base" /\ pc[<<c, "base">>] = "idle" /\ held[<<c, "base">>] = {}
  /\ intr' = [intr EXCEPT ![c] = ~@]
  /\ chosen' = [chosen EXCEPT ![c] = ~intr[c]]
  /\ UNCHANGED <<lockVars, noff, interrupt_enable, run, pc, want, old, seen, ticket, held>>

Next ==
  \/ \E x \in Ctx, l \in Locks : BeginLock(x, l) \/ BeginTry(x, l) \/ Unlock(x, l)
  \/ \E x \in Ctx : \/ PushOff(x) \/ FetchTicket(x) \/ Enter(x)
                    \/ TryLoad(x) \/ TryCheck(x) \/ TrySwap(x) \/ TrySwapFails(x)
                    \/ PopOff(x)
  \/ \E c \in Cpus : TakeInterrupt(c) \/ ReturnFromInterrupt(c) \/ ChangeFlag(c)

Spec == Init /\ [][Next]_vars

\* A CPU goes on executing, and critical sections end: a context that is
\* again and again in a position to drop a guard drops it.
Progress(x) == PushOff(x) \/ FetchTicket(x) \/ Enter(x) \/ PopOff(x)
               \/ TryLoad(x) \/ TryCheck(x) \/ TrySwap(x) \/ TrySwapFails(x)

Fairness ==
  \A x \in Ctx : /\ WF_vars(Progress(x))
                 /\ \A l \in Locks : SF_vars(Unlock(x, l))

FairSpec == Spec /\ Fairness

-----------------------------------------------------------------------------
(* Properties                                                                *)

PCs == {"idle", "off_lock", "off_try", "ticket", "spin", "try_load",
        "try_check", "try_swap", "pop"}

TypeOK ==
  /\ next_ticket \in [Locks -> Nat] /\ next_serving \in [Locks -> Nat]
  /\ intr \in [Cpus -> BOOLEAN] /\ chosen \in [Cpus -> BOOLEAN]
  /\ noff \in [Cpus -> Nat] /\ interrupt_enable \in [Cpus -> BOOLEAN]
  /\ run \in [Cpus -> {"base", "irq"}]
  /\ pc \in [Ctx -> PCs] /\ want \in [Ctx -> Locks \cup {None}]
  /\ old \in [Ctx -> BOOLEAN] /\ seen \in [Ctx -> Nat]
  /\ ticket \in [Ctx -> [Locks -> Nat]] /\ held \in [Ctx -> SUBSET Locks]

\* Mutual exclusion (ticket.rs:74, "there's no other thread accessing the
\* data"): two guards of one lock never exist at once, whichever way they
\* were obtained.
MutualExclusion ==
  \A x, y \in Ctx : x # y => held[x] \cap held[y] = {}

\* An interrupt handler never runs on top of a context that holds a lock or
\* waits for one: it could not get the lock before that context goes on.
HandlerFindsNoLock ==
  \A c \in Cpus :
    run[c] = "irq" => /\ held[<<c, "base">>] = {}
                      /\ pc[<<c, "base">>] \in {"idle", "off_lock", "off_try"}

\* push_off and pop_off are matched: pop_off never panics, and outside all
\* locks a context finds the interrupt flag as it was, and a handler finds it
\* clear, although a handler may have overwritten what push_off saved.
FlagRestored ==
  \A x \in Ctx :
    /\ pc[x] = "pop" => Running(x) /\ ~intr[Cpu(x)] /\ noff[Cpu(x)] >= 1
    /\ Running(x) /\ pc[x] = "idle" /\ held[x] = {}
         => intr[Cpu(x)] = (x[2] = "base" /\ chosen[Cpu(x)])

Outstanding(l) ==
  {x \in Ctx : l \in held[x] \/ (pc[x] = "spin" /\ want[x] = l)}

\* The order of service: a lock is handed over in the order of the tickets.
Queue(l) ==
  [i \in 1 .. Cardinality(Outstanding(l)) |->
     CHOOSE x \in Outstanding(l) : ticket[x][l] = next_serving[l] + i - 1]

Granted(l) == \E x \in Ctx : l \in held[x]

Served == INSTANCE Mutex WITH
  Procs <- Ctx,
  queue <- [l \in Locks |-> Queue(l)],
  granted <- [l \in Locks |-> Granted(l)]

\* The ticket lock is a fair first-come first-served mutex (ticket.rs, lock,
\* try_lock and Drop).
ImplementsMutex == Served!Spec
=============================================================================

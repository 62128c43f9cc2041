------------------------------ MODULE KObject ------------------------------
(***************************************************************************)
(* Waiting for signals on kernel objects (zircon-object/src/object/mod.rs):*)
(* wait_signal and wait_signal_many futures polled by the executor, and    *)
(* send_signal_to_port_async subscriptions, against any interleaving of    *)
(* signal changes.  Each read of an object's signal and each registration  *)
(* is a critical section of its own, as in the code.                       *)
(***************************************************************************)
EXTENDS Signals

CONSTANTS
  Objects, Bits,
  Waiters,     \* threads that call object_wait_one / object_wait_many
  Observers,   \* object_wait_async subscriptions, each made once
  Targets,     \* the target lists a waiter may pass: [SUBSET Objects -> want]
  MaxWaits,    \* bound: waits per thread
  Pulses,      \* may an asserted signal be cleared again?
  Timeouts     \* may a wait be abandoned (deadline, kill)?

ASSUME KObjectAssumption ==
  /\ MaxWaits \in Nat /\ Pulses \in BOOLEAN /\ Timeouts \in BOOLEAN
  /\ Waiters \cap Observers = {}
  /\ Targets \subseteq UNION {[S -> SUBSET Bits] : S \in SUBSET Objects}

VARIABLES
  base,     \* object -> KObjectBase
  fut,      \* waiter -> its SignalManyFuture; fired, refused: did one of its
            \* callbacks run, was one not taken because the table was full?
  woken,    \* waiters whose waker was called and that were not polled since
  obs       \* observer -> subscription and packets pushed to its port

kvars == <<base, fut, woken, obs>>

Idle == [pc |-> "idle", targets |-> <<>>, first |-> TRUE, todo |-> {},
         hit |-> FALSE, n |-> 0, fired |-> FALSE, refused |-> FALSE]

KInit ==
  /\ base = [o \in Objects |-> NewBase({})]
  /\ fut = [w \in Waiters |-> Idle]
  /\ woken = {}
  /\ obs = [b \in Observers |-> [pc |-> "new", object |-> {}, want |-> {},
                                 packets |-> 0]]

\* A waiter's callback carries the wait it belongs to (n); an observer's not.
WaitCallback(w, o) == [who |-> w, n |-> fut[w].n, want |-> fut[w].targets[o]]
PortCallback(b)    == [who |-> b, n |-> 0, want |-> obs[b].want]

-----------------------------------------------------------------------------
(* The waiting future.                                                       *)

\* A new future is polled for the first time.
StartWait(w, targets) ==
  /\ fut[w].pc = "idle" /\ fut[w].n < MaxWaits
  /\ fut' = [fut EXCEPT ![w] = [pc |-> "scan", targets |-> targets,
               first |-> TRUE, todo |-> DOMAIN targets, hit |-> FALSE,
               n |-> fut[w].n + 1, fired |-> FALSE, refused |-> FALSE]]
  /\ UNCHANGED <<base, woken, obs>>

\* obj.signal(): one short critical section per target.
ReadSignal(w, o) ==
  /\ fut[w].pc = "scan" /\ o \in fut[w].todo
  /\ fut' = [fut EXCEPT
       ![w].todo = @ \ {o},
       ![w].hit  = @ \/ base[o].signal \cap fut[w].targets[o] # {}]
  /\ UNCHANGED <<base, woken, obs>>

\* happened(): the future is Ready.
WaitReady(w) ==
  /\ fut[w].pc = "scan" /\ fut[w].todo = {} /\ fut[w].hit
  /\ fut' = [fut EXCEPT ![w] = [Idle EXCEPT !.n = fut[w].n]]
  /\ UNCHANGED <<base, woken, obs>>

\* Mutant: go to sleep without registering.
ScanMissUnregistered(w) ==
  /\ fut[w].pc = "scan" /\ fut[w].todo = {} /\ ~fut[w].hit
  /\ fut' = [fut EXCEPT ![w].pc = "pending"]
  /\ UNCHANGED <<base, woken, obs>>

\* Nothing happened: register the callbacks, but on the first poll only.
ScanMiss(w) ==
  /\ fut[w].pc = "scan" /\ fut[w].todo = {} /\ ~fut[w].hit
  /\ fut' = [fut EXCEPT
       ![w].pc = IF fut[w].first THEN "register" ELSE "pending",
       ![w].todo = IF fut[w].first THEN DOMAIN fut[w].targets ELSE {}]
  /\ UNCHANGED <<base, woken, obs>>

\* Mutant: the callback is not run when it is added.
RegisterUnchecked(w, o) ==
  /\ fut[w].pc = "register" /\ o \in fut[w].todo
  /\ base' = [base EXCEPT ![o].callbacks = @ \cup {WaitCallback(w, o)}]
  /\ fut' = [fut EXCEPT ![w].todo = @ \ {o}]
  /\ UNCHANGED <<woken, obs>>

\* add_signal_callback on one target; the callback may fire at once.
RegisterWait(w, o) ==
  /\ fut[w].pc = "register" /\ o \in fut[w].todo
  /\ LET cb == WaitCallback(w, o)
         hit == Meets(base[o].signal, cb)
     IN /\ base' = [base EXCEPT ![o] = AddSignalCallback(@, cb)]
        /\ woken' = IF hit THEN woken \cup {w} ELSE woken
        /\ fut' = [fut EXCEPT ![w].todo = @ \ {o}, ![w].fired = @ \/ hit,
                              ![w].refused = @ \/ (~hit /\ Full(base[o]))]
  /\ UNCHANGED obs

\* first = false; Poll::Pending.
RegisterDone(w) ==
  /\ fut[w].pc = "register" /\ fut[w].todo = {}
  /\ fut' = [fut EXCEPT ![w].pc = "pending", ![w].first = FALSE]
  /\ UNCHANGED <<base, woken, obs>>

\* The executor polls the task because its waker was called.
PollAgain(w) ==
  /\ fut[w].pc = "pending" /\ w \in woken
  /\ woken' = woken \ {w}
  /\ fut' = [fut EXCEPT ![w].pc = "scan", ![w].todo = DOMAIN fut[w].targets,
                        ![w].hit = FALSE]
  /\ UNCHANGED <<base, obs>>

\* The wait is abandoned; dropping the future leaves its callbacks behind.
CancelWait(w) ==
  /\ Timeouts
  /\ fut[w].pc = "pending"
  /\ fut' = [fut EXCEPT ![w] = [Idle EXCEPT !.n = fut[w].n]]
  /\ UNCHANGED <<base, woken, obs>>

-----------------------------------------------------------------------------
(* signal_change, and the callbacks it runs under the object's lock.         *)

ChangeSignal(o, clear, set) ==
  /\ clear = {} \/ Pulses
  /\ Changed(base[o], clear, set) # base[o].signal
  /\ LET fired == Fired(base[o], clear, set)
         who   == {cb.who : cb \in fired}
     IN /\ base' = [base EXCEPT ![o] = SignalChange(@, clear, set)]
        /\ woken' = woken \cup (who \cap Waiters)
        /\ fut' = [w \in Waiters |->
             IF \E cb \in fired : cb.who = w /\ cb.n = fut[w].n
             THEN [fut[w] EXCEPT !.fired = TRUE] ELSE fut[w]]
        /\ obs' = [b \in Observers |->
             IF b \in who THEN [obs[b] EXCEPT !.pc = "done", !.packets = @ + 1]
                          ELSE obs[b]]

-----------------------------------------------------------------------------
(* send_signal_to_port_async.                                                *)

\* The signal is asserted already: one packet at once.
ObserveNow(b, o, want) ==
  /\ obs[b].pc = "new"
  /\ base[o].signal \cap want # {}
  /\ obs' = [obs EXCEPT ![b] = [pc |-> "done", object |-> {o}, want |-> want,
                                packets |-> 1]]
  /\ UNCHANGED <<base, fut, woken>>

\* Not asserted when read; the callback is added in a second critical section.
ObserveLater(b, o, want) ==
  /\ obs[b].pc = "new"
  /\ base[o].signal \cap want = {}
  /\ obs' = [obs EXCEPT ![b] = [pc |-> "register", object |-> {o}, want |-> want,
                                packets |-> 0]]
  /\ UNCHANGED <<base, fut, woken>>

\* Mutant: the callback is not run when it is added.
ObserveUnchecked(b, o) ==
  /\ obs[b].pc = "register" /\ o \in obs[b].object
  /\ base' = [base EXCEPT ![o].callbacks = @ \cup {PortCallback(b)}]
  /\ obs' = [obs EXCEPT ![b].pc = "armed"]
  /\ UNCHANGED <<fut, woken>>

RegisterObserver(b, o) ==
  /\ obs[b].pc = "register" /\ o \in obs[b].object
  /\ base' = [base EXCEPT ![o] = AddSignalCallback(@, PortCallback(b))]
  /\ obs' = IF Meets(base[o].signal, PortCallback(b))
            THEN [obs EXCEPT ![b].pc = "done", ![b].packets = @ + 1]
            ELSE [obs EXCEPT ![b].pc = IF Full(base[o]) THEN "lost" ELSE "armed"]
  /\ UNCHANGED <<fut, woken>>

-----------------------------------------------------------------------------
WaiterStep(w) ==
  \/ \E o \in Objects : ReadSignal(w, o) \/ RegisterWait(w, o)
  \/ WaitReady(w) \/ ScanMiss(w) \/ RegisterDone(w) \/ PollAgain(w)

Wants == (SUBSET Bits) \ {{}}

KNext ==
  \/ \E w \in Waiters : WaiterStep(w) \/ CancelWait(w)
  \/ \E w \in Waiters, t \in Targets : StartWait(w, t)
  \/ \E o \in Objects, clear, set \in SUBSET Bits : ChangeSignal(o, clear, set)
  \/ \E b \in Observers, o \in Objects, want \in Wants :
       ObserveNow(b, o, want) \/ ObserveLater(b, o, want)
  \/ \E b \in Observers, o \in Objects : RegisterObserver(b, o)

KSpec == KInit /\ [][KNext]_kvars

\* The executor polls every task that was woken, and a poll runs to its end.
KFairSpec == KSpec /\ \A w \in Waiters : WF_kvars(WaiterStep(w))

-----------------------------------------------------------------------------
(* Types; every registered callback belongs to a wait that was started or to *)
(* a subscription (KObjectBase::signal_callbacks).                           *)
KTypeOK ==
  /\ \A o \in Objects :
       /\ base[o].signal \subseteq Bits
       /\ \A cb \in base[o].callbacks :
            cb.who \in Waiters \cup Observers /\ cb.n \in 0..MaxWaits
  /\ woken \subseteq Waiters
  /\ \A w \in Waiters :
       /\ fut[w].pc \in {"idle", "scan", "register", "pending"}
       /\ fut[w].n \in 0..MaxWaits /\ fut[w].todo \subseteq Objects
  /\ \A b \in Observers :
       /\ obs[b].pc \in {"new", "register", "armed", "lost", "done"}
       /\ obs[b].packets \in 0..1

Asserted(w) ==
  \E o \in DOMAIN fut[w].targets : base[o].signal \cap fut[w].targets[o] # {}

(* add_signal_callback's comment "in case that a signal arrives just before  *)
(* the call": a wait that sleeps, none of whose callbacks has fired or found *)
(* a full table, has a callback on every target, and no target is asserted,  *)
(* so the next assertion will wake it.                                       *)
SleepsArmed ==
  \A w \in Waiters :
    fut[w].pc = "pending" /\ ~fut[w].fired /\ ~fut[w].refused =>
      /\ ~Asserted(w)
      /\ \A o \in DOMAIN fut[w].targets : WaitCallback(w, o) \in base[o].callbacks

(* send_signal_to_port_async: a subscription pushes exactly one packet; one  *)
(* that is armed has pushed none, its callback is in the table, and no       *)
(* wanted signal has been asserted behind its back.                          *)
OnePacketPerObserver ==
  \A b \in Observers :
    /\ obs[b].pc = "done" => obs[b].packets = 1
    /\ obs[b].pc = "armed" => /\ obs[b].packets = 0
                              /\ \A o \in obs[b].object :
                                   /\ base[o].signal \cap obs[b].want = {}
                                   /\ PortCallback(b) \in base[o].callbacks

\* The wait was woken and polled again too late to see its signal: its
\* callbacks are used up and no new ones are registered; or the table was full.
Spent(w) ==
  fut[w].pc = "pending" /\ (fut[w].fired \/ fut[w].refused) /\ w \notin woken

(* add_signal_callback, signal_change: a wait with an asserted signal ends,  *)
(* unless the signal is cleared again or the wait has used up its callbacks: *)
(* reading and registering the targets one by one loses no assertion.        *)
ArmedWaitCompletes ==
  \A w \in Waiters :
    (fut[w].pc = "pending" /\ Asserted(w)) ~>
      (fut[w].pc = "idle" \/ ~Asserted(w) \/ Spent(w))
=============================================================================

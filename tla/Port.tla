-------------------------------- MODULE Port --------------------------------
(***************************************************************************)
(* A port (zircon-object/src/signal/port.rs): packets and interrupt        *)
(* packets pushed from any thread or interrupt handler, and threads inside *)
(* Port::wait, which sleeps in wait_signal(READABLE) (KObject.tla's future *)
(* with one target) and then takes a packet under the port's lock.  The    *)
(* queue update and the signal update of a push are two critical sections. *)
(***************************************************************************)
EXTENDS Signals, Sequences

CONSTANTS
  PortWaiters,    \* threads that call port_wait
  Pushers,        \* contexts that push packets
  UserPackets,    \* packets queued with push_user, each pushed once
  KernelPackets,  \* packets the kernel pushes (async waits), each once
  Interrupts,     \* interrupt packets, each pushed once
  MaxPackets,     \* MAX_ALLOCATED_PACKET_COUNT_PER_PORT
  BindInterrupt,  \* PortOptions::BIND_TO_INTERUPT
  NoPacket

ASSUME PortAssumption ==
  /\ MaxPackets \in Nat /\ BindInterrupt \in BOOLEAN
  /\ NoPacket \notin UserPackets \cup KernelPackets \cup Interrupts
  /\ UserPackets \cap Interrupts = {} /\ KernelPackets \cap Interrupts = {}
  /\ UserPackets \cap KernelPackets = {}

Ordinary == UserPackets \cup KernelPackets
Packets  == Ordinary \cup Interrupts
Readable == {"readable"}

VARIABLES
  pbase,        \* the port's KObjectBase
  pqueue, iqueue, grave,   \* PortInner
  push,         \* pusher -> [pc, packet]
  pushed,       \* the packets enqueued, in order (history)
  refused,      \* user packets refused with SHOULD_WAIT
  cancelled,    \* interrupt packets taken back by remove_interrupt
  wait,         \* waiter -> [pc, first]
  pwoken, got    \* got: the packets returned, in order (history)

port == <<pqueue, iqueue, grave>>
phist == <<pushed, refused, cancelled>>
pvars == <<pbase, port, push, phist, wait, pwoken, got>>

PortInit ==
  /\ pbase = NewBase({})
  /\ pqueue = <<>> /\ iqueue = <<>> /\ grave = {}
  /\ push = [p \in Pushers |-> [pc |-> "idle", packet |-> NoPacket]]
  /\ pushed = <<>> /\ refused = {} /\ cancelled = {}
  /\ wait = [w \in PortWaiters |-> [pc |-> "idle", first |-> TRUE]]
  /\ pwoken = {} /\ got = <<>>

RangeOf(s) == {s[i] : i \in 1..Len(s)}
InPush == {push[p].packet : p \in Pushers}
Fresh(k) == k \notin RangeOf(pushed) \cup refused \cup InPush

\* signal_set / signal_clear on the port, with the waiters it wakes.
SetReadable ==
  /\ pbase' = SignalChange(pbase, {}, Readable)
  /\ pwoken' = pwoken \cup {cb.who : cb \in Fired(pbase, {}, Readable)}

-----------------------------------------------------------------------------
(* Pushing.                                                                  *)

\* push_user: the length check is a critical section of its own.
CheckRoom(p, k) ==
  /\ push[p].pc = "idle" /\ k \in UserPackets /\ Fresh(k)
  /\ Len(pqueue) <= MaxPackets
  /\ push' = [push EXCEPT ![p] = [pc |-> "enqueue", packet |-> k]]
  /\ UNCHANGED <<pbase, port, phist, wait, pwoken, got>>

RefuseUser(p, k) ==
  /\ push[p].pc = "idle" /\ k \in UserPackets /\ Fresh(k)
  /\ Len(pqueue) > MaxPackets
  /\ refused' = refused \cup {k}
  /\ UNCHANGED <<pbase, port, push, pushed, cancelled, wait, pwoken, got>>

\* The kernel pushes without a check.
BeginPush(p, k) ==
  /\ push[p].pc = "idle" /\ k \in KernelPackets /\ Fresh(k)
  /\ push' = [push EXCEPT ![p] = [pc |-> "enqueue", packet |-> k]]
  /\ UNCHANGED <<pbase, port, phist, wait, pwoken, got>>

\* push
Enqueue(p) ==
  /\ push[p].pc = "enqueue"
  /\ pqueue' = Append(pqueue, push[p].packet)
  /\ pushed' = Append(pushed, push[p].packet)
  /\ push' = [push EXCEPT ![p].pc = "signal"]
  /\ UNCHANGED <<pbase, iqueue, grave, refused, cancelled, wait, pwoken, got>>

\* push_interrupt
EnqueueInterrupt(p, k) ==
  /\ BindInterrupt
  /\ push[p].pc = "idle" /\ k \in Interrupts /\ Fresh(k)
  /\ iqueue' = Append(iqueue, k)
  /\ grave' = grave \cup {k}
  /\ pushed' = Append(pushed, k)
  /\ push' = [push EXCEPT ![p] = [pc |-> "signal", packet |-> k]]
  /\ UNCHANGED <<pbase, pqueue, refused, cancelled, wait, pwoken, got>>

\* signal_set(READABLE), after the port's lock was released.
SignalPush(p) ==
  /\ push[p].pc = "signal"
  /\ push' = [push EXCEPT ![p] = [pc |-> "idle", packet |-> NoPacket]]
  /\ SetReadable
  /\ UNCHANGED <<port, phist, wait, got>>

\* remove_interrupt (Interrupt::ack / destroy): only the grave entry goes.
RemoveInterrupt(k) ==
  /\ k \in grave
  /\ grave' = grave \ {k}
  /\ cancelled' = cancelled \cup {k}
  /\ UNCHANGED <<pbase, pqueue, iqueue, push, pushed, refused, wait, pwoken, got>>

-----------------------------------------------------------------------------
(* Port::wait.                                                               *)

StartPortWait(w) ==
  /\ wait[w].pc = "idle"
  /\ wait' = [wait EXCEPT ![w] = [pc |-> "poll", first |-> TRUE]]
  /\ UNCHANGED <<pbase, port, push, phist, pwoken, got>>

\* SignalFuture::poll, the signal is asserted: go and take a packet.
PortReady(w) ==
  /\ wait[w].pc = "poll" /\ pbase.signal # {}
  /\ wait' = [wait EXCEPT ![w].pc = "take"]
  /\ UNCHANGED <<pbase, port, push, phist, pwoken, got>>

\* SignalFuture::poll, not asserted: register on the first poll, then sleep.
WaitMiss(w) ==
  /\ wait[w].pc = "poll" /\ pbase.signal = {}
  /\ wait' = [wait EXCEPT ![w].pc = IF wait[w].first THEN "register" ELSE "asleep"]
  /\ UNCHANGED <<pbase, port, push, phist, pwoken, got>>

Callback(w) == [who |-> w, want |-> Readable]

\* Mutant: the callback is not run when it is added.
WaitRegisterUnchecked(w) ==
  /\ wait[w].pc = "register"
  /\ pbase' = [pbase EXCEPT !.callbacks = @ \cup {Callback(w)}]
  /\ wait' = [wait EXCEPT ![w] = [pc |-> "asleep", first |-> FALSE]]
  /\ UNCHANGED <<port, push, phist, pwoken, got>>

\* add_signal_callback; it fires at once if the signal was raised meanwhile.
WaitRegister(w) ==
  /\ wait[w].pc = "register"
  /\ pbase' = AddSignalCallback(pbase, Callback(w))
  /\ pwoken' = IF Meets(pbase.signal, Callback(w)) THEN pwoken \cup {w} ELSE pwoken
  /\ wait' = [wait EXCEPT ![w] = [pc |-> "asleep", first |-> FALSE]]
  /\ UNCHANGED <<port, push, phist, got>>

PollWaitAgain(w) ==
  /\ wait[w].pc = "asleep" /\ w \in pwoken
  /\ pwoken' = pwoken \ {w}
  /\ wait' = [wait EXCEPT ![w].pc = "poll"]
  /\ UNCHANGED <<pbase, port, push, phist, got>>

\* The interrupt packets at the head that were taken back are skipped.
Dead(iq) == {i \in 1..Len(iq) : \A j \in 1..i : iq[j] \notin grave}
LiveOrCancelled(iq) == iq   \* Mutant: the grave is not consulted
Live(iq) == SubSeq(iq, Cardinality(Dead(iq)) + 1, Len(iq))

\* READABLE is cleared when the pop that empties both queues is done.
ClearIf(empty) ==
  pbase' = IF empty THEN SignalChange(pbase, Readable, {}) ELSE pbase

TakeInterrupt(w) ==
  /\ BindInterrupt /\ wait[w].pc = "take" /\ Live(iqueue) # <<>>
  /\ iqueue' = Tail(Live(iqueue))
  /\ grave' = grave \ {Head(Live(iqueue))}
  /\ got' = Append(got, Head(Live(iqueue)))
  /\ ClearIf(pqueue = <<>> /\ Tail(Live(iqueue)) = <<>>)
  /\ wait' = [wait EXCEPT ![w].pc = "idle"]
  /\ UNCHANGED <<pqueue, push, phist, pwoken>>

\* The dead interrupt packets are dropped, then a packet is taken.
TakeUser(w) ==
  /\ wait[w].pc = "take"
  /\ BindInterrupt => Live(iqueue) = <<>>
  /\ pqueue # <<>>
  /\ iqueue' = IF BindInterrupt THEN <<>> ELSE iqueue
  /\ pqueue' = Tail(pqueue)
  /\ got' = Append(got, Head(pqueue))
  /\ ClearIf(Tail(pqueue) = <<>>)
  /\ wait' = [wait EXCEPT ![w].pc = "idle"]
  /\ UNCHANGED <<grave, push, phist, pwoken>>

\* Nothing there: loop, with a new wait_signal future, without yielding.
\* The signal is cleared only if a dead interrupt packet was popped.
TakeNothing(w) ==
  /\ wait[w].pc = "take"
  /\ BindInterrupt => Live(iqueue) = <<>>
  /\ pqueue = <<>>
  /\ iqueue' = IF BindInterrupt THEN <<>> ELSE iqueue
  /\ ClearIf(BindInterrupt /\ iqueue # <<>>)
  /\ wait' = [wait EXCEPT ![w] = [pc |-> "poll", first |-> TRUE]]
  /\ UNCHANGED <<pqueue, grave, push, phist, pwoken, got>>

-----------------------------------------------------------------------------
PushStep(p) == Enqueue(p) \/ SignalPush(p)

WaitStep(w) ==
  \/ PortReady(w) \/ WaitMiss(w) \/ WaitRegister(w) \/ PollWaitAgain(w)
  \/ TakeInterrupt(w) \/ TakeUser(w) \/ TakeNothing(w)

PortNext ==
  \/ \E p \in Pushers : PushStep(p)
  \/ \E p \in Pushers, k \in Packets :
         \/ CheckRoom(p, k) \/ RefuseUser(p, k) \/ BeginPush(p, k)
         \/ EnqueueInterrupt(p, k)
  \/ \E k \in Interrupts : RemoveInterrupt(k)
  \/ \E w \in PortWaiters : StartPortWait(w) \/ WaitStep(w)

PortSpec == PortInit /\ [][PortNext]_pvars

\* A push that began completes; the executor polls woken waiters.
PortFairSpec ==
  /\ PortSpec
  /\ \A p \in Pushers : WF_pvars(PushStep(p))
  /\ \A w \in PortWaiters : WF_pvars(WaitStep(w))

-----------------------------------------------------------------------------
(* Types; user packets and interrupt packets stay on their own queues        *)
(* (PortInner::queue and interrupt_queue).                                   *)
PortTypeOK ==
  /\ pbase.signal \subseteq Readable
  /\ \A cb \in pbase.callbacks : cb.who \in PortWaiters
  /\ RangeOf(pqueue) \subseteq Ordinary /\ RangeOf(iqueue) \subseteq Interrupts
  /\ grave \subseteq Interrupts
  /\ \A p \in Pushers : /\ push[p].pc \in {"idle", "enqueue", "signal"}
                        /\ push[p].packet \in Packets \cup {NoPacket}
  /\ \A w \in PortWaiters : wait[w].pc \in {"idle", "poll", "register", "asleep", "take"}
  /\ pwoken \subseteq PortWaiters

(* Port::wait, "take out the earliest (in FIFO order) available packet":     *)
(* what is returned was pushed; a packet of the queue is returned after all  *)
(* those that were queued before it; no packet is returned twice, and none   *)
(* that remove_interrupt has taken back.                                     *)
DeliveredOnceInOrder ==
  /\ RangeOf(got) \subseteq RangeOf(pushed)
  /\ \A i \in 1..Len(got), m, n \in 1..Len(pushed) :
       m < n /\ got[i] = pushed[n] /\ pushed[m] \in Ordinary /\ pushed[n] \in Ordinary =>
         \E h \in 1..(i - 1) : got[h] = pushed[m]
  /\ RangeOf(got) \cap cancelled = {}
  /\ \A i, j \in 1..Len(got) : i # j => got[i] # got[j]

\* The waiter lost the packet it was woken for to another one and went back
\* to sleep in the same wait_signal future, which registers only once.
LostRace(w) ==
  wait[w].pc = "asleep" /\ w \notin pwoken /\ Callback(w) \notin pbase.callbacks

(* Port::wait, "Asynchronous wait until at least one packet is available":   *)
(* a packet does not stay in the port while a thread waits for it, as long   *)
(* as that thread has not lost its callback to a race with another waiter.   *)
PacketReachesWaiter ==
  \A w \in PortWaiters :
    (pqueue # <<>> /\ wait[w].pc = "asleep") ~>
      (pqueue = <<>> \/ wait[w].pc # "asleep" \/ LostRace(w))
=============================================================================

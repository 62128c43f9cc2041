-------------------------------- MODULE Pipe --------------------------------
(* A pipe of the linux personality (linux-object/src/fs/pipe.rs) with its    *)
(* event bus (sync/event_bus.rs), the blocking reads of fs/file.rs and one   *)
(* epoll instance (fs/epoll.rs) that watches its ends. An action is one      *)
(* section under the lock of the pipe, or of the epoll. A byte is its place  *)
(* in what was written.                                                      *)
EXTENDS Integers, Sequences, Functions

CONSTANTS Readers,       \* threads that call a read that blocks
          Poller,        \* the thread that calls epoll_wait
          MaxBytes,      \* bound: bytes written
          MaxFds,        \* bound, per end: open files that refer to it
          MaxCallbacks   \* MAX_EVENT_CALLBACKS

ASSUME PipeAssumption ==
  /\ Poller \notin Readers
  /\ MaxBytes \in Nat /\ MaxFds \in [{"r", "w"} -> Nat \ {0}] /\ MaxCallbacks \in Nat \ {0}

VARIABLES
  buf, cnt, event, callbacks,   \* PipeData: read_cnt and write_cnt, the bus
  fds,                          \* per end: open files that refer to it
  pc, woken,                    \* per task; tasks the executor has to poll
  late,                         \* per reader, history: what it missed
  interest,                     \* interest_list of the epoll
  snap, todo, cur, ready,       \* locals of Epoll::wait
  written, got, eof             \* history: bytes written, bytes read, a read of 0

pipeVars == <<buf, cnt>>
busVars  == <<event, callbacks, woken>>
waitVars == <<snap, todo, cur, ready>>
history  == <<written, got, eof>>
vars == <<buf, cnt, event, callbacks, fds, pc, woken, late, interest,
          snap, todo, cur, ready, written, got, eof>>

Ends  == {"r", "w"}
Tasks == Readers \cup {Poller}

Init ==
  /\ buf = <<>> /\ cnt = [x \in Ends |-> 1] /\ event = {} /\ callbacks = <<>>
  /\ fds = [x \in Ends |-> 1]
  /\ pc = [t \in Tasks |-> "idle"] /\ woken = {}
  /\ late = [r \in Readers |-> "no"]
  /\ interest = {} /\ snap = {} /\ todo = {} /\ cur = "none" /\ ready = {}
  /\ written = 0 /\ got = <<>> /\ eof = FALSE

-----------------------------------------------------------------------------
(* The event bus                                                             *)

\* Mutant: only the oldest callback is called.
ChangeWakesOne(reset, set) ==
  /\ event' = (event \ reset) \cup set
  /\ IF event' # event /\ callbacks # <<>>
     THEN callbacks' = Tail(callbacks) /\ woken' = woken \cup {Head(callbacks)}
     ELSE UNCHANGED <<callbacks, woken>>

\* EventBus::change; the callbacks of a pipe always ask to be removed.
Change(reset, set) ==
  /\ event' = (event \ reset) \cup set
  /\ IF event' # event
     THEN callbacks' = <<>> /\ woken' = woken \cup Range(callbacks)
     ELSE UNCHANGED <<callbacks, woken>>

\* The reader whose only callback is thrown out of a full table.
Evicted(t) ==
  IF Len(callbacks) < MaxCallbacks THEN {}
  ELSE Readers \cap ({Head(callbacks)} \ (Range(Tail(callbacks)) \cup {t}))

Subscribe(t) ==
  callbacks' = Append(IF Len(callbacks) >= MaxCallbacks THEN Tail(callbacks) ELSE callbacks, t)

-----------------------------------------------------------------------------
(* The ends of the pipe are reference counted.                               *)

\* Ends that some file, read, epoll or scan holds.
Held(f, i, s, p) ==
  {x \in Ends : f[x] > 0 \/ x \in i \/ x \in s \/ (x = "r" /\ \E r \in Readers : p[r] # "idle")}

\* Mutant: every close of a file counts as the end of its end.
DropWithFile ==
  LET gone == {x \in Ends : fds'[x] < fds[x] /\ cnt[x] > 0} IN
  /\ cnt' = [x \in Ends |-> IF x \in gone THEN cnt[x] - 1 ELSE cnt[x]]
  /\ IF gone = {} THEN UNCHANGED busVars ELSE Change({}, {"CLOSED"})

\* Drop of the ends whose last reference goes in this step.
DropEnds ==
  LET gone == Held(fds, interest, snap, pc) \ Held(fds', interest', snap', pc') IN
  /\ cnt' = [x \in Ends |-> IF x \in gone THEN cnt[x] - 1 ELSE cnt[x]]
  /\ IF gone = {} THEN UNCHANGED busVars ELSE Change({}, {"CLOSED"})

\* dup and fork.
Dup(x) ==
  /\ fds[x] \in 1 .. MaxFds[x] - 1 /\ fds' = [fds EXCEPT ![x] = @ + 1]
  /\ UNCHANGED <<pipeVars, busVars, pc, late, interest, waitVars, history>>

Close(x) ==
  /\ fds[x] > 0 /\ fds' = [fds EXCEPT ![x] = @ - 1]
  /\ UNCHANGED <<buf, pc, late, interest, waitVars, history>>
  /\ DropEnds

-----------------------------------------------------------------------------
(* write and read                                                            *)

CanRead  == buf # <<>> \/ cnt["w"] = 0
CanWrite == cnt["r"] > 0

\* A write of 0 bytes (pwrite, writev) sets READABLE all the same.
Write(n) ==
  /\ fds["w"] > 0 /\ written + n <= MaxBytes
  /\ buf' = buf \o [i \in 1 .. n |-> written + i]
  /\ written' = written + n
  /\ Change({}, {"READABLE"})
  /\ UNCHANGED <<cnt, fds, pc, late, interest, waitVars, got, eof>>

BeginRead(r) ==
  /\ pc[r] = "idle" /\ fds["r"] > 0
  /\ pc' = [pc EXCEPT ![r] = "read"]
  /\ UNCHANGED <<pipeVars, busVars, fds, late, interest, waitVars, history>>

\* read_at has nothing.
ReadAgain(r) ==
  /\ pc[r] = "read" /\ ~CanRead
  /\ pc' = [pc EXCEPT ![r] = "poll"]
  /\ UNCHANGED <<pipeVars, busVars, fds, late, interest, waitVars, history>>

\* read_at with a buffer of n > 0 bytes; 0 bytes mean the end of the file. (An
\* empty buffer returns before the pipe is touched.)
Take(n) ==
  LET len == IF n < Len(buf) THEN n ELSE Len(buf) IN
  /\ CanRead
  /\ buf' = SubSeq(buf, len + 1, Len(buf))
  /\ got' = got \o SubSeq(buf, 1, len)
  /\ eof' = (eof \/ len = 0)
  /\ IF buf' = <<>> THEN Change({"READABLE"}, {}) ELSE UNCHANGED busVars

Read(r, n) ==
  /\ pc[r] = "read" /\ Take(n)
  /\ pc' = [pc EXCEPT ![r] = "return"]
  /\ UNCHANGED <<cnt, fds, late, interest, waitVars, written>>

\* A read of a file that does not block (any thread); without bytes: EAGAIN.
ReadNonBlock(n) ==
  /\ fds["r"] > 0 /\ Take(n)
  /\ UNCHANGED <<cnt, fds, pc, late, interest, waitVars, written>>

\* PipeFuture::poll looks at the pipe, releases the lock, and subscribes.
PollPipe(r) ==
  /\ pc[r] = "poll"
  /\ pc' = [pc EXCEPT ![r] = IF CanRead THEN "read" ELSE "subscribe"]
  /\ UNCHANGED <<pipeVars, busVars, fds, late, interest, waitVars, history>>

\* What the reader will not be told of when it goes to sleep: the close of the
\* last writer, or bytes, because READABLE is already set. It is set because
\* the bytes came first, or by a write of 0 bytes to the empty pipe.
Missed ==
  IF cnt["w"] = 0 THEN "close" ELSE IF "READABLE" \in event THEN "bytes" ELSE "no"

SubscribeReader(r) ==
  /\ pc[r] = "subscribe" /\ pc' = [pc EXCEPT ![r] = "sleep"]
  /\ Subscribe(r)
  /\ late' = [x \in Readers |-> IF x = r THEN Missed
                               ELSE IF x \in Evicted(r) THEN "evicted" ELSE late[x]]
  /\ UNCHANGED <<pipeVars, event, woken, fds, interest, waitVars, history>>

WakeReader(r) ==
  /\ pc[r] = "sleep" /\ r \in woken
  /\ woken' = woken \ {r} /\ pc' = [pc EXCEPT ![r] = "poll"]
  /\ late' = [late EXCEPT ![r] = "no"]
  /\ UNCHANGED <<pipeVars, event, callbacks, fds, interest, waitVars, history>>

ReturnRead(r) ==
  /\ pc[r] = "return" /\ pc' = [pc EXCEPT ![r] = "idle"]
  /\ UNCHANGED <<buf, fds, late, interest, waitVars, history>>
  /\ DropEnds

-----------------------------------------------------------------------------
(* epoll                                                                     *)

Ready(x) == IF x = "r" THEN CanRead ELSE CanWrite

CtlAdd(x) ==
  /\ x \notin interest /\ fds[x] > 0 /\ interest' = interest \cup {x}
  /\ UNCHANGED <<pipeVars, busVars, fds, pc, late, waitVars, history>>

CtlDel(x) ==
  /\ x \in interest /\ interest' = interest \ {x}
  /\ UNCHANGED <<buf, fds, pc, late, waitVars, history>>
  /\ DropEnds

Goto(p) == pc' = [pc EXCEPT ![Poller] = p]

BeginWait ==
  /\ pc[Poller] = "idle" /\ Goto("loop")
  /\ UNCHANGED <<pipeVars, busVars, fds, late, interest, waitVars, history>>

\* A turn of the loop: a signal ends it, else the list is copied.
Interrupted ==
  /\ pc[Poller] = "loop" /\ Goto("return")
  /\ UNCHANGED <<pipeVars, busVars, fds, late, interest, waitVars, history>>

Snapshot ==
  /\ pc[Poller] = "loop" /\ Goto("scan")
  /\ snap' = interest /\ todo' = interest /\ ready' = {}
  /\ UNCHANGED <<pipeVars, busVars, fds, late, interest, cur, history>>

\* The scan polls the next file once: it is ready, or a waker is left on it.
ScanEnd(x) ==
  /\ pc[Poller] = "scan" /\ x \in todo
  /\ cur' = x /\ todo' = todo \ {x}
  /\ Goto(IF Ready(x) THEN "status" ELSE "subscribe")
  /\ UNCHANGED <<pipeVars, busVars, fds, late, interest, snap, ready, history>>

\* PipeFuture reads the status under the lock a second time. maxevents may
\* end the scan.
Status ==
  /\ pc[Poller] = "status" /\ Goto("scan")
  /\ IF Ready(cur)
     THEN ready' = ready \cup {cur} /\ todo' \in {todo, {}}
     ELSE UNCHANGED <<ready, todo>>
  /\ cur' = "none"
  /\ UNCHANGED <<pipeVars, busVars, fds, late, interest, snap, history>>

SubscribeScan ==
  /\ pc[Poller] = "subscribe" /\ Goto("scan")
  /\ Subscribe(Poller) /\ cur' = "none"
  /\ late' = [x \in Readers |-> IF x \in Evicted(Poller) THEN "evicted" ELSE late[x]]
  /\ UNCHANGED <<pipeVars, event, woken, fds, interest, snap, todo, ready, history>>

\* Events are returned; without any, the deadline may have passed, or the
\* task sleeps in IoMultiplexWait.
Scanned ==
  /\ pc[Poller] = "scan" /\ todo = {} /\ ready # {} /\ Goto("return")
  /\ UNCHANGED <<pipeVars, busVars, fds, late, interest, waitVars, history>>

TimedOut ==
  /\ pc[Poller] = "scan" /\ todo = {} /\ ready = {} /\ Goto("return")
  /\ UNCHANGED <<pipeVars, busVars, fds, late, interest, waitVars, history>>

Sleep ==
  /\ pc[Poller] = "scan" /\ todo = {} /\ ready = {} /\ Goto("sleep")
  /\ UNCHANGED <<pipeVars, busVars, fds, late, interest, waitVars, history>>

\* Mutant: the timer goes off without a waker.
TickSilently == pc[Poller] = "sleep" /\ UNCHANGED vars

\* The timer of IO_WAIT_TICK_MS.
Tick ==
  /\ pc[Poller] = "sleep" /\ woken' = woken \cup {Poller}
  /\ UNCHANGED <<pipeVars, event, callbacks, fds, pc, late, interest, waitVars, history>>

WakePoller ==
  /\ pc[Poller] = "sleep" /\ Poller \in woken
  /\ Goto("wake")
  /\ woken' = woken \ {Poller}
  /\ UNCHANGED <<pipeVars, event, callbacks, fds, late, interest, waitVars, history>>

\* The turn ends, and with it the copy of the list.
EndTurn ==
  /\ \/ pc[Poller] = "wake" /\ Goto("loop")
     \/ pc[Poller] = "return" /\ Goto("idle")
  /\ snap' = {} /\ todo' = {} /\ ready' = {}
  /\ UNCHANGED <<buf, fds, late, interest, cur, history>>
  /\ DropEnds

-----------------------------------------------------------------------------
ReaderStep(r) ==
  \/ ReadAgain(r) \/ (\E n \in 1 .. 2 : Read(r, n)) \/ PollPipe(r) \/ SubscribeReader(r)
  \/ WakeReader(r) \/ ReturnRead(r)

PollerStep ==
  \/ Snapshot \/ (\E x \in Ends : ScanEnd(x)) \/ Status \/ SubscribeScan \/ Scanned
  \/ Sleep \/ WakePoller \/ EndTurn

Next ==
  \/ \E x \in Ends : Dup(x) \/ Close(x) \/ CtlAdd(x) \/ CtlDel(x)
  \/ \E n \in 0 .. 2 : Write(n)
  \/ \E n \in 1 .. 2 : ReadNonBlock(n)
  \/ \E r \in Readers : BeginRead(r) \/ ReaderStep(r)
  \/ BeginWait \/ Interrupted \/ TimedOut \/ PollerStep \/ Tick

Spec == Init /\ [][Next]_vars

\* The executor polls woken tasks and the timer goes off. Nobody has to
\* write, close, read or wait, and a deadline need not come.
FairSpec ==
  /\ Spec
  /\ \A r \in Readers : WF_vars(ReaderStep(r))
  /\ WF_vars(PollerStep) /\ WF_vars(Tick)

-----------------------------------------------------------------------------
(* Properties                                                                *)

\* The counts stay within the ends that exist and the table within its limit.
TypeOK ==
  /\ buf \in Seq(1 .. MaxBytes) /\ cnt \in [Ends -> 0 .. 1]
  /\ event \subseteq {"READABLE", "CLOSED"}
  /\ callbacks \in Seq(Tasks) /\ Len(callbacks) <= MaxCallbacks
  /\ \A x \in Ends : fds[x] \in 0 .. MaxFds[x]
  /\ pc \in [Tasks -> {"idle", "read", "poll", "subscribe", "sleep", "return",
                       "loop", "scan", "status", "wake"}]
  /\ woken \subseteq Tasks
  /\ late \in [Readers -> {"no", "bytes", "close", "evicted"}]
  /\ interest \subseteq Ends /\ snap \subseteq Ends /\ todo \subseteq Ends
  /\ cur \in Ends \cup {"none"} /\ ready \subseteq Ends
  /\ written \in 0 .. MaxBytes /\ got \in Seq(1 .. MaxBytes) /\ eof \in BOOLEAN

\* What the readers get is what was written, once and in order, and a read
\* that returned 0 was the end of it: every byte had been delivered and no
\* file, fork or epoll is left through which more could come.
StreamThenEof ==
  /\ got \o buf = [i \in 1 .. written |-> i]
  /\ eof => buf = <<>> /\ cnt["w"] = 0 /\ fds["w"] = 0

\* A sleeping reader is woken by bytes or by the close of the last writer.
\* Left out are the readers the code loses: those that subscribed after the
\* close, or while READABLE was set (such a reader is still told of the
\* close), and those that were evicted.
ReadCompletes ==
  \A r \in Readers :
    (/\ pc[r] = "sleep"
     /\ \/ late[r] = "no" /\ CanRead
        \/ late[r] \in {"no", "bytes"} /\ cnt["w"] = 0) ~> pc[r] # "sleep"

\* epoll_wait does not depend on the bus: it returns although its wake was
\* missed or evicted, or the file was added while it slept.
PollReports ==
  \A x \in Ends : []<>(pc[Poller] = "idle" \/ x \notin interest \/ ~Ready(x))
=============================================================================

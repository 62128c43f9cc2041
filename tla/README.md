# Eclipse kernel: a TLA+ verification project

Eclipse is an operating-system kernel, written in Rust, that grew out of zCore. It runs Linux
programs and keeps a complete Zircon object layer below them. This directory
models the concurrent core of that kernel in TLA+, checks the models with TLC and
proves, with TLAPS, every safety property that a passing run checks, for every size of
the instance: the executor, the locks, the task tree, threads, signals, ports, channels,
futexes, pipes and the DHCP client.

Everything in the kernel that waits is a Rust future. The futures are polled by
per-CPU executors that steal from each other; they are woken through atomic bit
pages; kernel objects turn state changes into wake-ups through a callback table;
ports, channels and futexes are built on that; and jobs, processes and threads
create and destroy the whole. Below all of it are the kernel's locks, above it the
Linux personality and a few programs of the system's own. These layers are what the
project is about: short critical sections, in an order that only another CPU, an
interrupt or a message from outside can disturb.

The repository also keeps some 490,000 lines of C, nearly all of them third-party
(mbedtls, zlib, apk, the vendor part of a graphics driver). The system's own logic is
Rust, and so is most of what the modules map to; of the C, the project models the DHCP
client. Measured against the C lines alone the map therefore covers next to nothing,
and that is by intent: there is no point in a model of a vendored library here.

## 1. Inventory

| component | source | state | operations |
|---|---|---|---|
| executor: task collection, waker pages | `vendor/PreemptiveScheduler/src/{task_collection,waker_page,executor}.rs` | a slab of tasks, the words `notified`, `dropped`, `borrowed` per page of 64 slots, `task_num`, a generator coroutine | insert, wake, take_task, poll, drop, remove |
| runtime | `vendor/PreemptiveScheduler/src/runtime.rs` | a collection per CPU, strong and weak executors | choice of a CPU, stealing, preemption of a poll |
| kernel object base | `zircon-object/src/object/mod.rs` | signal word, callback table | signal_change, add_signal_callback, wait_signal(_many), send_signal_to_port_async |
| port | `zircon-object/src/signal/port.rs` | two packet queues, a grave of cancelled interrupts | push, push_user, push_interrupt, remove_interrupt, wait |
| channel | `zircon-object/src/ipc/channel.rs` | receive queue, reply senders by transaction id | write, read, call, drop |
| futex | `zircon-object/src/signal/futex.rs` | waiter queue, owner; per waiter a waker, a flag, a futex | wait, wake, wake_single_owner, requeue, cancel |
| job, process, thread | `zircon-object/src/task/*.rs` | lists of children, processes and threads, status, exit code, `killed` | create, start, exit, kill, terminate, find |
| thread | `zircon-object/src/task/{thread,suspend_token}.rs`, `loader/src/zircon.rs` | state, suspend count, context, waker, killer, signals | the loop of a thread, suspend, resume, stop, blocking_run, dying_run |
| exceptions | `zircon-object/src/task/exception.rs` | a channel per task, the current exception | create, send, set state and strategy, close |
| ticket lock, interrupt nesting | `vendor/kernel-sync/src/{ticket,interrupt}.rs` | two counters per lock; flag, depth and saved flag per CPU | lock, try_lock, drop, push_off, pop_off |
| event bus, pipe, epoll | `linux-object/src/{sync/event_bus,fs/pipe,fs/epoll,fs/file,net/wait}.rs` | event word and callbacks, bytes, ends, interest list | read, write, close, dup, epoll_ctl, epoll_wait |
| DHCP client | `tools/edhcpc/edhcpc.c` | the negotiation; address, route, resolv.conf | one run of the program |
| account tool, installer | `tools/eclipse-useradd`, `tools/install-eclipse` | three files in /etc; a disk | user commands; installation |
| socket, fifo | `zircon-object/src/ipc/{socket,fifo}.rs` | ring of bytes or elements | read, write, shutdown |
| timer, event, eventpair | `zircon-object/src/signal/` | deadline, peer | set, cancel, touch |
| virtual memory | `zircon-object/src/vm/` | address regions, copy-on-write trees | map, clone, commit |
| Linux personality | `linux-object`, `linux-syscall` | processes, signals, files, sockets | the Linux system calls |
| HAL, drivers, file systems, loader, build tools | `kernel-hal`, `drivers`, `vendor/rcore-fs*`, `loader`, `xtask`, `hunter` | hardware state, disk | |

How they interact: a system call runs on a thread's future; it calls an object,
whose critical section may run callbacks; a callback wakes a task, that is, sets a
bit in a waker page; an executor finds the bit and polls the future again. Killing
a task sends on its `killer`, which ends the wait in `blocking_run`. The Linux files
use an event bus of their own in the place of the signal word; epoll polls many of them
once per turn and falls back on a timer. Every critical section is a ticket lock held
with interrupts off.

What is hard here: interleavings of CPUs between two critical sections, wakes that
race with polls and removals, futures dropped by a timeout while a wake is on its
way, locks taken in both directions of the task tree, and values read before a
yield and used after it; interrupt handlers between two instructions; messages that
are lost, repeated or late; callback tables at their limit. `PROJECT.json` lists the
hazards at their lines.

What makes each part correct:

* executor: a task is polled by one CPU at a time, never after it completed, and
  no wake is lost; a woken task is polled, a finished one is freed;
* object base: a wait never sleeps over an asserted signal, a subscription gives
  exactly one packet;
* port: delivery in order, once, never after cancellation, and to somebody;
* channel: a message is in one place at a time, a call gets its reply or an end;
* futex: a published value leaves no sleeper, a wake reaches its count;
* tasks: a kill reaches everybody and ends, termination is reported when it is true;
* thread: what it shows (state, signals, registers) is consistent at every moment, it
  stops when told to, runs when resumed, dies when killed, and faults are not lost;
* locks: one owner at a time, first come first served, interrupts restored exactly;
* pipe and epoll: bytes once and in order, the end of file last, sleepers woken;
* DHCP client: it configures only what a server committed to it, and it ends.

## 2. Modules

| module | models | extends |
|---|---|---|
| `TaskCollection` | the collection, its generator, executors, wakers | |
| `TaskCollection_proofs` | theorems about it | `TaskCollection`, `TLAPS` |
| `Signals` | one `KObjectBase`: signal word and callback table, as operators | |
| `KObject` | waits and subscriptions on several objects | `Signals` |
| `Port` | a port with its pushers and waiters | `Signals` |
| `Channel` | the two endpoints of a channel and their threads | |
| `Futex` | futexes, waiters and callers | |
| `Task` | jobs, processes, threads and the calls on them | |
| `Thread` | the loop of a user thread, suspension, exceptions | |
| `Mutex` | abstract: a queue of owners per lock | |
| `TicketMutex` | ticket locks, interrupt nesting; implements `Mutex` | |
| `Pipe` | a pipe on its event bus, its readers, an epoll | |
| `Dhcp` | the DHCP client; servers and network external | |
| `TicketMutex_proofs`, `Thread_proofs`, `Pipe_proofs`, `Futex_proofs`, `Task_proofs`, `Dhcp_proofs` | theorems about the module of that name | it and `TLAPS` |
| `Ipc_proofs` | theorems about channels, signals and ports | `Channel`, `KObject`, `Port`, `TLAPS` |
| `MC*` | small instances | the module of that name |

Each module says which code a definition stands for, and `PROJECT.json` maps every
definition to its lines. Definitions whose comment begins with "Mutant" are
plausible mistakes in the code that the properties are shown to notice; they are
not part of any specification.

**TaskCollection.** One action per atomic access. `take_notified` is four of them
(swap of `notified`, load of `dropped`, load of `borrowed`, re-arm of the deferred
bits), because wakers and other executors run between them. The generator is a
coroutine: its locals (`gpc`, `gpage`, `graw`, `gnot`, ...) survive a yield, and
whoever holds `genLock` runs it. An executor goes through `pc`: idle, in the
generator, looking its key up, marking, checking `finish`, polling, and then either
releasing the borrow bit or marking the slot dropped. A bit word is the set of its
slots. `wake_by_ref` loads `finish` and sets the bit in two actions, and a removal waits for
neither, as in the code. `owed` is history: tasks woken and not yet polled; so is `late`: a
wake has landed on a slot that was freed under it.

**Signals, KObject.** `Signals` defines what one critical section of `KObjectBase`
does to a record of signal word and callbacks. `KObject` runs the poll of
`SignalManyFuture` target by target: each read and each registration is a section
of its own, as in the code. `wait_signal` is the case of one target. `fired` and
`refused` of a future are history: one of its callbacks ran, or was not taken because the
table was full; a subscription that met a full table is "lost". The code tells neither of
the two. Specification and invariants of `KObject` and `Port` carry a prefix (`KSpec`,
`PortSpec`), so that `Ipc_proofs` can extend both together with `Channel`.

**Port.** `push` is two actions, the enqueue under the lock and the signal after
it; so is `push_user`, whose room check is a third. The loop of `wait` is: wait for
READABLE (a `SignalFuture` on the same base), take under the lock, or wait again.

**Channel.** `write` looks for the reply sender in one section and pushes to the
peer in another. `call` writes, pushes and then registers its sender, in that
order. A message may carry any transaction id, one that a call waits for or not. An
endpoint dies with its last handle; its `Drop` signals the peer and then drains the
peer's senders.

**Futex.** A section of `Futex::inner` (both locks in `requeue`) or of
`Waiter::inner` is one action; wakes and retargeting happen one waiter at a time
after the locks are released, so that a caller holds popped waiters in its hand.
Stores to the futex word are user space, hence marked external: `Publish` is the
store that precedes a `futex_wake`. `saw` is history: the waiters a wake found in its
queue, less those a requeue has moved since.

**Task.** These operations call each other through the tree and keep some locks
while they do. Every actor has a stack of instructions (`todo`); a step executes
the first one, a critical section, and replaces it by the calls it makes. Locks
held across steps are in `lock`: the process in `exit` and in the critical kill,
the thread in `terminate`, the jobs in the tree walks. Jobs are reference counted:
an upgraded weak reference is a pending `drop`, and the actor that drops the last
one runs `Job::drop` on its own stack. The loop of a walk over the children is an
instruction too (`walk`, with the children that are left); the search that found its
process returns through it, which only unlocks (`Return`).

**Thread.** A runner is the future made by the loader: wait until not suspended, take
the context, run user code, put the context back, handle the trap; `pc` says where it
is. `sys_thread_start` asks for a living process and for a context, nothing more: every
accepted start makes a runner of its own (`CheckStatus`, `SetupContext`, `Start`), and the
runners share the state, the context, the waker and the killer of the one thread object.
A kill may come before the start and between its steps; the start overwrites it. The
asserts and unwraps that may then fail lead to the place `panic`, an overwritten waker to
the place `lost`. `restarted` is history: the thread was started when it was not New, a
second time or after a stop. A system call sleeps in `blocking_run` or, for the console,
outside of it (`console`), where a kill does not reach it. A step is a section under the lock of the thread, of the exception or of an
exceptionate. `Visible` is `ThreadInner::state`, by which a suspended thread keeps its
own state below. `blocking_run` is `EnterBlocking`, a wait and `LeaveBlocking`; its
killer is `killer` and `killsig`. An exception goes along `Chain`, one exceptionate at
a time: it is sent, its handler may read it, set its state and strategy, and close it,
and then the runner looks at `handled`. Handlers bind and close their channels at any
time and need not answer.

**TicketMutex, Mutex.** Each CPU has a base context and an interrupt handler that may
come in whenever the flag is set. `push_off` is the read of the flag and, as a second
step, the rest of it; `try_lock` is the load of `next_ticket`, the comparison with
`next_serving`, and the exchange, which fails when somebody took a ticket meanwhile.
`Mutex` is what a caller may rely on: requests are queued and granted in order. The
refinement maps its queue to the contexts that hold a ticket, sorted by it, and
`granted` to the existence of a guard; the code's spin loop is the fairness of `Grant`.

**Pipe.** An action is a section under the lock of the pipe. `DropEnds` is the `Drop` of
an end in whichever step gives up its last reference: open files, reads in progress, the
interest list, and the copy of the list that `epoll_wait` works on. `PipeFuture::poll`
looks in one section and subscribes in another, as the code does; the history variable
`late` records what a reader missed by that, or will miss because READABLE is already set,
and whether its callback was evicted. A write may be of no bytes and sets READABLE all the
same, as an empty `writev` or `pwrite` does. The
read end is polled for reading, the write end for writing.

**Dhcp.** A run of the program opens its sockets, sends DISCOVER, waits, sends REQUEST,
waits, and applies address, route and resolv.conf; every call that can fail may fail,
and the program may be killed at every step. `resolv.conf` is opened, which empties it,
written and closed in steps of their own. The network is the set of all messages ever
sent: a delivery copies one of them into a socket, so that messages are lost, repeated,
delayed beyond the end of a run and reordered. Servers keep, commit, refuse and forget
addresses as the protocol lets them.

## 3. Runs

| run | question | result |
|---|---|---|
| `executor_safety` | two executors, a waker, two tasks on two pages: single owner and live hand-outs until a late wake, no lost wake | holds |
| `executor_liveness` | is every woken task polled and every finished one freed, with changing masks? | holds |
| `executor_late_wake` | does the `unwrap` of a handed-out slot always succeed, as `executor.rs:216` has it? | violated |
| `signals` | waits on one or two objects, a subscription, pulses, abandoned waits, a callback table that fills up | holds |
| `port` | order, cancellation, delivery with two waiters | holds |
| `channel` | one place per message, exact READABLE, close and calls | holds |
| `futex` | sleepers in one place, published values, exact counts, delivery | holds |
| `task` | kill, exit, terminate, create and start against each other | holds |
| `thread` | one start, two suspend tokens, kills at any time, handlers on four exceptionates | holds |
| `ticket_lock` | two CPUs with handlers: exclusion, order of service, interrupt flag, refinement of `Mutex` | holds |
| `pipe` | bytes, end of file, wake-ups and epoll with a table of two callbacks | holds |
| `dhcp` | two runs of the client, two servers, an unreliable network | holds |

Every property of a passing run has a mutant: a definition replaced by its mutated
form, under which TLC finds that property violated. `TypeOK` of each module (`KTypeOK`,
`PortTypeOK`) states the types of its variables; it is proved for every module with a proof module. Only the
executor's is also checked by a run: the properties of the runs are spent on the hazards.

### What the violation shows

`executor_late_wake`: `wake_by_ref` reads `finish` and sets the bit in two steps.
If the task completes and its slot is removed in between, the bit is set on a vacant
slot, which is handed out; `unwrap` panics. When the slot was reused, its new task gets a
spurious poll. The models of the other executor runs and of the proofs are the same: a
late wake happens there, too. `SingleOwner`, `HandOutIsLive` and `NoPollAfterReady` are
stated until it does (`late`), the two liveness properties end in the panic as well, and
`NoLostWake` and the types hold regardless.

### Further behaviours the models reach

These are known, excluded by name where a property would meet them, and have no run
of their own. Where an operator or a variable is named, the model has the behaviour.

* A wait registers its callback on its first poll only (`object/mod.rs:338`). A signal
  asserted and cleared before the second poll uses the callback up, and nothing wakes the
  future again although the signal may be asserted later. `ArmedWaitCompletes` is what
  does hold: a wait with a callback left, or not fired, ends.
* `Channel::call` ("Send a message to a channel and await a reply", `channel.rs:115`)
  makes its request visible before it registers its sender; a reply written in between is
  queued as an ordinary message and the call goes on waiting. No property speaks of it:
  the message is in one place, and nothing says that a call must get its reply.
* `wake_single_owner` ("Wake exactly one thread from the futex wait queue",
  `futex.rs:273`) and `requeue` do not replace a popped waiter that is being cancelled by
  the next one, as `wake` does: nobody is woken.
* `Process::exit` locks process, then thread; `Thread::terminate` thread, then process.
  Both can wait for each other for good, and the process, whose comment says that it
  "will terminate after all its child threads are terminated" (`process.rs:274`), stays
  in its job, with its status published and PROCESS_TERMINATED never asserted
  (`ExitDeadlock` in `Task`).
* The generator reads the CPU number once per page and goes on with it after a
  yield; when a thief resumes it, tasks are compared with the wrong CPU
  (`task_collection.rs:302`).
* The callback table drops a callback silently when it is full, and abandoned waits
  stay in it (`object/mod.rs:300`). The wait then sleeps, and the subscription stays
  silent, whatever is asserted (`refused` and "lost" in `KObject`).
* A port waiter that was woken and lost the packet sleeps without a callback until
  it is polled anew (`LostRace` in `Port`); a push that signals after its packet was
  taken leaves READABLE over an empty port, and `wait` spins inside one poll. Interrupt
  packets go ahead of the others although the comment at `port.rs:109` says FIFO;
  `DeliveredOnceInOrder` is about the order of the queued packets. A wait abandoned at
  its deadline is not modelled.
* A futex wake that lands between the timeout and the drop of the future is counted
  although the wait returns TIMED_OUT; the woken future overwrites the owner that
  `wake_single_owner` set; two opposite requeues can leave a waiter pointing at the
  wrong queue.
* A tree walk that drops the last reference to a child job takes its own lock again
  (`WalkDeadlock` in `Task`), although "Taking only one job lock at a time breaks the
  cycle" (`job.rs:257`); a thread killed before it was started never terminates,
  nor does its job (`NeverEnds`); a thread created between the last `remove_thread`
  and `terminate`, or started after it was killed, stays behind (`escaped`).
* A thread that is parked in a call outside of `blocking_run` when it is killed stays
  there: `sys_debug_read` awaits the console (`zircon-syscall/src/debug.rs:28`), and the
  calls of the Linux personality do so by design (`process.rs:292-301`). `Thread` has the
  first (`console`); in `Task` a dying thread need not come back (`Away`).
* `sys_thread_start` accepts a thread that already runs (`thread.rs:396-407, 511-521`): a
  second runner takes what it finds. In `Thread` this makes the assert of `blocking_run`
  (`thread.rs:792`) fail in the first runner, lets a thread shown in an exception run user
  code, leaves a runner without a waker, and takes a context that is not there.
  `SignalsMatch` and `OneContext` survive it. A thread that was killed and is then
  started runs, its state overwritten (`thread.rs:399`), although a stopped thread "will
  terminate after some cleanups" (`thread.rs:526`). `Task` leaves the second start of a
  running thread out.
* `set_status_running` (`process.rs:268`), used by the fork of the Linux personality, is
  outside of `Task`: `ExitCodeStable` is about processes of the Zircon calls.
* An exception handler that sets its strategy at once is refused with BAD_STATE: the
  channel type is set after the exception was sent (`exception.rs:420`).
* A pipe reader that looks, misses a write or the close of the last writer, and then
  subscribes, sleeps until the next change (`late` in `Pipe`, `pipe.rs:173`). The comment
  at `event_bus.rs:93` asks callers to hold the writers' lock over both. A write of no
  bytes leaves READABLE set on an empty pipe (`pipe.rs:144`): the next write of bytes
  changes no event, and a reader that subscribed before it sleeps over them.
* Each turn of `epoll_wait` leaves a new callback on every idle file. On a long idle pipe
  they fill the table and evict the callback of a blocked reader (`event_bus.rs:102`).
* The interest list of an epoll owns its files: a write end that was closed but is still
  watched gives no end of file. A write to a pipe without readers succeeds.
* A semaphore's future subscribes once (`semaphore.rs:93`), so that a waiter that was
  woken and lost the count is not woken again; a `poll` with a negative timeout other
  than -1 arms no timer (`poll.rs:193`). Read in the source, not modelled.
* The DHCP client sends each message once, does not renew its lease, does not compare the
  server of an ACK, ignores `--timeout` (`edhcpc.c:779`), and leaves the old route when a
  new server gives none.
* The account tool locks the file it is about to replace by a rename
  (`eclipse-useradd.c:729`), so that later commands lock other files; and it saves three
  files one after the other (`:2106`), so that a crash between them leaves an account
  without a password or a password without an account. Read in the source, not modelled.

### Bounds

Named constants carry every bound. Two executors, two tasks, two pages and one waker
give all pairs of (poll, wake, removal, steal) that a slot can meet; more tasks add
only independent slots. `MaxWaits`, `Counts`, `MaxValue`, `MaxCalls` and the finite
sets of packets and messages bound how often the environment acts; two are enough for
each action to meet every other one. `MaxSignalCallbacks` stands for 1024; it is 2 in
`signals`, where abandoned waits fill the table, and not reached in `port`, where
`wait` drops no future. `MaxPackets` stands for 2048 and is 0 so that the first
packet already fills the port, `TxMod` stands for 2^32. In `Futex` each waiter waits
once and each caller makes one call. In `Task` one process with two threads sits in
one child of the root, so that there is a parent, a sibling thread and two outside
callers; a process object is never freed. The executor runs use symmetry of tasks and
of executors where only invariants are checked.

`MaxTicket` bounds the tickets per lock; the 2^64 of the code are not used up in the life
of a machine. Three let a context wait behind a holder and a third one try. In `Thread`
two tokens give nested suspensions, `Runners` bounds the starts and `Handlers` the
exceptionates that are listened to; the loop runs for ever. The run has one start, which
may follow a kill, and leaves out the handler of the process, which comes right after that
of the thread and is treated like it. `SignalsMatch`, `OneContext`, `DebuggerSeesContext` and
`NoPanic` were also run with two starts, one token and one handler (some 620,000 states up
to the symmetry of the runners), and all six properties of the run and `OneContext` with
two starts, two tokens and no handler; the theorems are about any number. In
`Pipe` two bytes, two files on the write end and a table of two callbacks (for 4096) let
a read split what was written, an end survive a close, and the table overflow; the
invariants were also run with two blocking readers. In `Dhcp` two runs let replies of the
first reach the second, one frame per socket lets either socket be first, and the servers
differ in which of their messages carry the options.

Deadlock is not checked where the system really may stop, that is, where the bounded
environment has done all it may, and the DHCP client, which ends; it is checked in the
executor, thread, lock and pipe runs.

### Fairness

Nearly all of it is weak fairness of steps the code takes without waiting for anybody:
executors loop for ever; a wake, spawn or push that began completes; a woken task is
polled, which is what the executor runs establish; a future that lost its `select` is
dropped; a call in the kernel goes on when its lock is free (by default the locks are ticket
locks, and the models bound contention by `MaxCalls`); a runner whose thread need not wait
takes its next step; a thread in user mode is interrupted by the timer; the timer of
`epoll_wait` goes off; the DHCP client executes and its clock runs. Of a dying thread
nothing is assumed in `Task`, because a kill does not end every blocking call (see above):
`KilledJobTerminates` says that the job terminates or a dying thread is away for ever. In
`Thread` a kill ends the waits of `blocking_run` and `dying_run` by steps of the model;
the input of the console is the environment's, and `KilledDies` names a wait for it.
The lock run has strong fairness of `Unlock`: code inside a critical section may take and
release other locks in between, but in the end it drops its guard.
Nothing is assumed about spawning, waking, signalling, closing, killing, writing,
resuming, about handlers, servers or the network answering, or about futures completing.

## 4. Proofs

Ten models are proved about, in eight modules. In each of them the properties are not
inductive as they stand; the invariant that is (`IInv`; `KInv` and `PortInv` in the second
and third part of `Ipc_proofs`) is a conjunction of named parts. The layout is the same
everywhere: a lemma per action (split by conjunct where an action disturbs several), `Init => IInv`,
`IInv /\ [Next]_vars => IInv'`, and the theorems as consequences. The assumptions are
the ones named in the model, and TLC evaluates them in the runs.

### TaskCollection

`TaskCollection_proofs` proves, for every set of tasks, executors, wakers, slots,
pages, CPUs and masks that satisfies `CollectionAssumption`:

* `TypeCorrect`: the types;
* `WakesAreKept`: `NoLostWake`;
* `OneExecutorPerTask`: `SingleOwner`;
* `HandOutsAreLive`: `HandOutIsLive` and `NoPollAfterReady`.

Nothing is assumed of wakes and removals. The last two theorems speak, as the properties
do, of the time before a wake lands on a freed slot; after that they are false, as
`executor_late_wake` shows. There are two invariants accordingly, `BaseInv` in every
state and `OwnInv` until then. `BaseInv` says who is in the generator and when it holds
the inner lock (`LockInv`), when the coroutine's locals are in use (`ScopeInv`), that
slab and tasks agree (`SlabInv`), and that only finished tasks are dropped, each by one
executor (`FinishInv`); this is enough for `NoLostWake`, because an unfinished task keeps
its slot whatever happens to others. `OwnInv` adds that only occupied slots are notified
or scanned (`NotifiedInv`), which is what a late wake breaks, that a finished task keeps
its borrow bit until it is removed (`BorrowInv`), and what an executor may assume of the
task it holds (`HoldInv`). The argument turns on the last two: a key is handed out only
if its borrow bit was clear under the generator lock, the bit is set before the lock is
released, and completion leaves it set, so that no scan can produce the key again before
the slot is emptied. There is a lemma per action, split by conjunct where the action
disturbs several.

### TicketMutex

For any CPUs, locks and `MaxTicket`: `MutualExclusionHolds`, `HandlerFindsNoLockHolds`,
`FlagRestoredHolds`, and `MutexImplemented`, the refinement of the abstract `Mutex`: its
initial condition and its next-state relation, hence the safety part of
`ImplementsMutex`. The fairness part stays with TLC.

Exclusion rests on the tickets: those handed out and not yet served are exactly
`next_serving .. next_ticket - 1`, no two contexts have the same one (`TicketInv`), and
each of them belongs to somebody (`NoGapInv`; without it the queue of `Mutex` would have
holes). `SeenInv` says that what `try_lock` loaded is not ahead of the service, so that an
exchange that succeeds finds the lock free. `DepthInv` says that the nesting depth of a CPU
is the number of guards of the context that runs, `FlagInv` what the flag and the saved
flag then are, and `RunInv` that a context which does not run is outside all locks.

### Thread

For any runners, suspend tokens and handlers: `TypeCorrect`, `SignalsMatchHolds`,
`OneContextHolds`, `DebuggerSeesContextHolds`, `NoPanicHolds`, and the action property
`FaultIsHandledHolds`. The first three hold however often the thread is started, and so
does `BaseInv`: `PlaceInv` says, per runner, which exception it handles, on which link of
the chain, and which state it will put back; `CountInv` that the suspend count is the
number of living tokens, which is what keeps it from falling below zero. The others are
stated, and `OwnInv` holds, until the thread is started when it is not New. `SoleInv` says
that one runner at most runs, that waker and killer are its own, and that its killer is
used only when the thread is dying; `StateInv` relates the state and the place of the
runner; `ContextInv` says that the context is away exactly from `wait_for_run` to the
trap, and for good once the loop is left; `FaultInv` that a fault is over only when its
last handler closed it as handled or the thread dies. `NoneAssumption` says that `None`
is not the name of an exception, of a state or of a runner, `HandlersAssumption` that
handlers listen to exceptionates.

### Pipe

For any readers, files and bytes: `StreamThenEofHolds` and `EndsAreCounted`. The second
one is the key to the first: `read_cnt` and `write_cnt` are what the references to an end
say (`CntInv`, with `SnapInv` for the copies that `epoll_wait` works on), so that end of
file is seen only when no write can follow. `StreamInv` is the equation between bytes
read, held and written, as sequences.

### Task

For any tree of jobs, any processes, threads and callers, and any bound on the calls:
`KillReachesAllHolds`, `ExitReachesAllHolds`, `TerminatedJobIsDeadHolds`, and the action
property `ExitCodeStableHolds`. What a kill or an exit has not reached yet must be on
somebody's stack, so the invariant speaks of `Pending(op, x)`: some actor has still to
execute `op` on `x`. The lemmas on stacks say that a step loses only the head of one stack
and adds only what the code of that head calls. The lists are right when calls are
counted in: what is on a list exists and belongs there (`ListInv`, `ExistInv`); a thread
leaves its process dead or escaped (`ThreadInv`), a process its job with all its threads
gone (`ProcInv`), a job its parent terminated (`ChildInv`); a job terminates killed and
empty, or dropped (`EndInv`), and is dropped after all that refers to it (`DropInv`).
`TaskAssumption` says that a thread is not one of the outside callers.

### KObject

For any objects, target lists, waiters, subscriptions and table size: `SleepsArmedHolds`
and `OnePacketPerObserverHolds`. `WaitInv` says at every step of a poll, not only when
the future sleeps, that a callback which was added, did not run and was not refused is in
the table and its signal is not asserted; it is what makes reading first and registering
later safe. `ObsInv` says that a subscription is for one object and only an armed one has
a callback, so that a second packet has nowhere to come from. `KObjectAssumption` says
that waiters and subscriptions are different and that a target list names objects and
signals.

### Port

For any pushers, waiters and packets, any limit, with and without interrupts:
`DeliveredOnceInOrderHolds`. `InOrder` relates three sequences, what was pushed, what is
queued and what was returned: the queue has the order of the pushes, and a packet is
returned after all that were queued before it. `GraveInv` says that an interrupt packet
in the grave is neither returned nor taken back, so that the search for the first living
one (`Live`) never repeats a delivery; `PushInv` that a packet checked and not yet
enqueued is in one pusher's hand. `PortAssumption` keeps the kinds of packets apart.

### Channel

For any threads, messages and width of transaction ids: `EachMessageOnceHolds`,
`ReadableExactHolds`, `ClosedMeansDrainedHolds`, and `NeverRevived`, an action property:
an endpoint without references gets none again. `EachMessageOnce` needs that a write in
progress still owns its message (`FlightInv`), that queues have no repetitions
(`DistinctInv`) and that queues, flights, answers and the read are pairwise apart
(`ApartInv`). `DrainInv` is the argument for PEER_CLOSED: a reader is told so only when its
queue is empty and the peer is dead, and a write in progress would keep its own end alive. The assumption
`"PEER_CLOSED" \notin Msgs` keeps a result apart from a message.

### Futex

For any futexes, waiters, callers (each waits or calls once), counts and values: `SleeperInOnePlaceHolds`,
`NoLostPublishHolds` and `WakeIsExactHolds`. `OnceInv` and `ApartInv` say that a waiter is
once in one queue or in one caller's hand, `FreshInv` that a waiter which has not
enqueued is nowhere, `WhereInv` that whoever sleeps is somewhere; `OpInv` what a call in
progress has in its hand at each of its steps.

The attempt to prove `WakeIsExact` showed that an earlier form of it, "nobody it found in
the queue is still there", is false with three callers, one more than the run has: a wake
pops a waiter that times out, a requeue takes the other one away, the wake returns short
because its queue is empty, and a second requeue brings that waiter back. The code is
right to return. The property now speaks of the waiters that no requeue has moved since
the wake found them, which is what `Unseen` keeps in `saw`.

### Dhcp

For any servers, addresses, runs and any loss, repetition, delay or reordering:
`AppliesCommittedHolds` and `OneServerHolds`, both action properties. `MsgInv` says what
every message ever sent vouches for, `QueueInv` that sockets hold copies of such messages,
`HeldInv` and `StepInv` that the client holds an offer or an ACK for its own transaction
where its program counter says so, and `LeaseInv` that a lease of the current run is not
given to anybody else while the program runs. `AppliesCommitted` says of route and
`resolv.conf` that they change only under an ACK for the address that is set, from a lease
committed to this run; it does not say that the run succeeds, because a kill may leave the
file empty or the run half done. `OneServer` then says that what was written is from the
server the run asked.

### Only model-checked

* All liveness, with the fairness part of `ImplementsMutex`: fairness and ENABLED are out
  of the prover's reach.

Every invariant of a passing run has a theorem, and no module a RECURSIVE operator.

## 5. Not modelled

Drivers, page tables, traps, file systems and the network stack are I/O or third-party
code; system-call decoding has no state of its own; rights and policies are bit tests.
The vendored C libraries and the installer are left out for the same reasons. Not
modelled although they have state of their own: sockets and fifos, timers, the virtual
memory objects, Linux processes and signals, semaphores, the other files on the event
bus, the account tool, the MCS and read-write locks, and the preemptive switch between
strong and weak executors. Memory ordering is not modelled: accesses are sequentially
consistent here, and outside `TicketMutex` a critical section is one step.

## 6. Plan

1. Done: executor, signals, ports, channels, futexes, task lifetime, threads and
   exceptions, the ticket lock with its abstract specification, pipe and epoll, the DHCP
   client; the safety theorems of section 4.
2. Candidates for further modules: sockets and fifos, timers, the semaphore on the event
   bus, the account tool with crashes between its files, Linux wait and signals.

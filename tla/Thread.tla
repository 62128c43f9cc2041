------------------------------- MODULE Thread -------------------------------
(* One user thread: the loop that runs it (run_user and handler_user_trap in *)
(* loader/src/zircon.rs), the state it shows to others (task/thread.rs), and *)
(* the exceptions it raises (task/exception.rs), against starters,           *)
(* suspenders, killers and exception handlers. It is the only thread of its  *)
(* process. Every start that is accepted makes a runner of its own. An       *)
(* action is one section under the lock of the thread, of the exception or   *)
(* of an exceptionate.                                                       *)
EXTENDS Integers, Sequences

CONSTANTS Runners,   \* bound: one for each call that starts the thread
          Tokens,    \* suspend tokens
          Handlers,  \* bound: the exceptionates that user space listens to
          None

ASSUME NoneAssumption ==
  /\ None \notin {"ProcessStarting", "ThreadStarting", "ThreadExiting", "Fault"}
  /\ None \notin {"New", "Running", "Blocked", "BlockedException", "Dying", "Dead"}
  /\ None \notin Runners

ASSUME HandlersAssumption ==
  Handlers \subseteq {"Debugger", "Thread", "Process", "Job", "JobDebugger"}

VARIABLES
  state, suspend_count, context, killed,   \* ThreadInner
  waker, killer,         \* ThreadInner: the runner the waker wakes, the killer ends
  signals,               \* of the thread object
  status,                \* of the process
  suspended,             \* tokens that exist
  bound,                 \* per exceptionate: Init or closed, Bind, or Shutdown
  pc,                    \* per runner: where it is, from the call of the starter on
  old_state,             \* per runner: local of blocking_run
  killsig,               \* per runner: the receiving end of its killer is done
  exc,                   \* per runner: type of the current exception
  pos,                   \* per runner: the exceptionate of the chain that is next
  handled, second_chance, channel_type,   \* per runner: ExceptionInner
  object,                \* per runner: the exception object of the current exception
  restarted              \* history: a start of a thread that was not New

inner  == <<state, suspend_count, context, waker, killer, killed, signals>>
locals == <<old_state, killsig, exc, pos>>
excep  == <<handled, second_chance, channel_type, object>>
others == <<status, suspended, bound, restarted>>
vars   == <<state, suspend_count, context, waker, killer, killed, signals, status,
            suspended, bound, pc, old_state, killsig, exc, pos, handled, second_chance,
            channel_type, object, restarted>>

Exceptionates == {"Debugger", "Thread", "Process", "Job", "JobDebugger"}

\* The exceptionates an exception is offered to. The second turn of the
\* debugger depends on second_chance.
Chain(e) ==
  CASE e = "ProcessStarting" -> <<"JobDebugger">>
    [] e \in {"ThreadStarting", "ThreadExiting"} -> <<"Debugger">>
    [] e = "Fault" -> <<"Debugger", "Thread", "Process", "Debugger", "Job">>

FirstOnly(e) == e = "ProcessStarting"
IsSynth(e) == e # "Fault"

\* Mutant: a running thread shows itself suspended before it has stopped.
VisibleEarly(st, count, ctx) ==
  IF count = 0 \/ st \in {"BlockedException", "Dying", "Dead"} THEN st ELSE "Suspended"

\* ThreadInner::state: what others see, of a thread with these fields.
Visible(st, count, ctx) ==
  IF count = 0 \/ ~ctx \/ st \in {"BlockedException", "Dying", "Dead"}
  THEN st ELSE "Suspended"

State == Visible(state, suspend_count, context)

SignalsOf(v) ==
  CASE v = "Dead" -> {"TERMINATED"}
    [] v \in {"New", "Dying"} -> {}
    [] v = "Suspended" -> {"SUSPENDED"}
    [] OTHER -> {"RUNNING"}

\* ThreadInner::change_state, for the fields as they are after the step.
ChangeState(st) ==
  /\ state' = st
  /\ signals' = SignalsOf(Visible(st, suspend_count', context'))

Goto(r, place) == pc' = [pc EXCEPT ![r] = place]

Init ==
  /\ state = "New" /\ suspend_count = 0 /\ context = TRUE /\ waker = None
  /\ killer = None /\ killed = FALSE /\ signals = {} /\ status = "Init" /\ suspended = {}
  /\ bound = [x \in Exceptionates |-> "none"]
  /\ pc = [r \in Runners |-> "new"]
  /\ old_state = [r \in Runners |-> None]
  /\ killsig = [r \in Runners |-> FALSE]
  /\ exc = [r \in Runners |-> None]
  /\ pos = [r \in Runners |-> 0]
  /\ handled = [r \in Runners |-> FALSE]
  /\ second_chance = [r \in Runners |-> FALSE]
  /\ channel_type = [r \in Runners |-> None]
  /\ object = [r \in Runners |-> None]
  /\ restarted = FALSE

-----------------------------------------------------------------------------
(* What others do to the thread.                                             *)

\* SuspendToken::create and its drop.
Suspend(k) ==
  /\ k \notin suspended /\ suspended' = suspended \cup {k}
  /\ suspend_count' = suspend_count + 1
  /\ UNCHANGED <<context, waker, killer, killed>>
  /\ ChangeState(state)
  /\ UNCHANGED <<status, bound, pc, locals, excep, restarted>>

\* Mutant: the resumed thread is not woken.
ResumeSilently(k) ==
  /\ k \in suspended /\ suspended' = suspended \ {k}
  /\ suspend_count' = suspend_count - 1
  /\ UNCHANGED <<context, waker, killer, killed>>
  /\ ChangeState(state)
  /\ UNCHANGED <<status, bound, pc, locals, excep, restarted>>

Resume(k) ==
  /\ k \in suspended /\ suspended' = suspended \ {k}
  /\ suspend_count' = suspend_count - 1
  /\ UNCHANGED <<context, killer, killed>>
  /\ IF suspend_count = 1
     THEN ChangeState(state) /\ waker' = None
     ELSE UNCHANGED <<state, signals, waker>>
  /\ UNCHANGED <<status, bound, pc, locals, excep, restarted>>

\* The killer is used, or dropped by a runner r that puts another (or none)
\* in its place: either ends the wait of the runner that stored it.
TakeKiller == killsig' = [q \in Runners |-> killsig[q] \/ q = killer]
ReplaceKiller(r) ==
  killsig' = [q \in Runners |-> q # r /\ (killsig[q] \/ q = killer)]

\* stop: the waker and the killer are taken and used.
Stop(kill) ==
  /\ UNCHANGED <<suspend_count, context>>
  /\ killed' = (killed \/ (kill /\ state # "Dead"))
  /\ IF state \in {"Dying", "Dead"}
     THEN /\ UNCHANGED <<state, signals, waker>>
          /\ IF state = "Dying" /\ kill THEN killer' = None /\ TakeKiller
                                        ELSE UNCHANGED <<killer, killsig>>
     ELSE ChangeState("Dying") /\ waker' = None /\ killer' = None /\ TakeKiller

Kill ==
  /\ Stop(TRUE)
  /\ UNCHANGED <<others, pc, old_state, exc, pos, excep>>

\* The process exits, unless it already has; it stops its thread.
Exit ==
  IF status = "Exited" THEN UNCHANGED <<inner, killsig, status>>
                       ELSE status' = "Exited" /\ Stop(TRUE)

KillProcess ==
  /\ status # "Exited" /\ Exit
  /\ UNCHANGED <<suspended, bound, restarted, pc, old_state, exc, pos, excep>>

-----------------------------------------------------------------------------
(* What exception handlers do (user space, through the exception channel).   *)

\* create_channel; a channel whose user end is closed may be replaced.
CreateChannel(x) ==
  /\ bound[x] = "none" /\ bound' = [bound EXCEPT ![x] = "open"]
  /\ UNCHANGED <<inner, status, suspended, restarted, pc, locals, excep>>

\* The user end is closed, and with it a message that was not read.
CloseChannel(x) ==
  /\ bound[x] = "open" /\ bound' = [bound EXCEPT ![x] = "none"]
  /\ object' = [r \in Runners |->
                  IF object[r] = [at |-> x, st |-> "queued"]
                  THEN [at |-> x, st |-> "closed"] ELSE object[r]]
  /\ UNCHANGED <<inner, status, suspended, restarted, pc, locals,
                 handled, second_chance, channel_type>>

ReadObject(r) ==
  /\ object[r] # None /\ object[r].st = "queued" /\ bound[object[r].at] = "open"
  /\ object' = [object EXCEPT ![r].st = "held"]
  /\ UNCHANGED <<inner, others, pc, locals, handled, second_chance, channel_type>>

SetState(r, h) ==
  /\ object[r] # None /\ object[r].st = "held" /\ handled' = [handled EXCEPT ![r] = h]
  /\ UNCHANGED <<inner, others, pc, locals, second_chance, channel_type, object>>

SetStrategy(r, s) ==
  /\ object[r] # None /\ object[r].st = "held"
  /\ channel_type[r] \in {"Debugger", "JobDebugger"}
  /\ second_chance' = [second_chance EXCEPT ![r] = s]
  /\ UNCHANGED <<inner, others, pc, locals, handled, channel_type, object>>

CloseObject(r) ==
  /\ object[r] # None /\ object[r].st = "held"
  /\ object' = [object EXCEPT ![r].st = "closed"]
  /\ UNCHANGED <<inner, others, pc, locals, handled, second_chance, channel_type>>

-----------------------------------------------------------------------------
(* handle_exception                                                          *)

\* The exception is made.
Raise(r, e) ==
  /\ exc' = [exc EXCEPT ![r] = e] /\ pos' = [pos EXCEPT ![r] = 1]
  /\ object' = [object EXCEPT ![r] = None]
  /\ handled' = [handled EXCEPT ![r] = FALSE]
  /\ second_chance' = [second_chance EXCEPT ![r] = FALSE]
  /\ channel_type' = [channel_type EXCEPT ![r] = None]

\* First section of blocking_run, for a state st to be shown.
EnterBlocking(r, st, next, stopped) ==
  /\ UNCHANGED <<suspend_count, context, waker, killed>>
  /\ IF State = "Dying"
     THEN Goto(r, stopped) /\ UNCHANGED <<state, signals, killer, killsig, old_state>>
     ELSE /\ killer' = r /\ ReplaceKiller(r)
          /\ old_state' = [old_state EXCEPT ![r] = state]
          /\ ChangeState(st) /\ Goto(r, next)

BlockException(r) ==
  /\ pc[r] = "raise" /\ EnterBlocking(r, "BlockedException", "send", "raised")
  /\ UNCHANGED <<others, exc, pos, excep>>

\* The iterator passes over the second turn of the debugger.
NoSecondChance(r) == exc[r] = "Fault" /\ pos[r] = 4 /\ ~second_chance[r]

\* send_exception succeeds: the object goes to the handler.
SendException(r) ==
  /\ pc[r] \in {"send", "exitsend"} /\ pos[r] <= Len(Chain(exc[r])) /\ ~NoSecondChance(r)
  /\ bound[Chain(exc[r])[pos[r]]] = "open"
  /\ object' = [object EXCEPT ![r] = [at |-> Chain(exc[r])[pos[r]], st |-> "queued"]]
  /\ Goto(r, IF pc[r] = "send" THEN "sent" ELSE "exitwait")
  /\ UNCHANGED <<inner, others, locals, handled, second_chance, channel_type>>

SetChannelType(r) ==
  /\ pc[r] = "sent" /\ Goto(r, "await")
  /\ channel_type' = [channel_type EXCEPT ![r] = Chain(exc[r])[pos[r]]]
  /\ UNCHANGED <<inner, others, locals, handled, second_chance, object>>

\* There is no handler: the next one is tried.
SendNext(r) ==
  /\ pc[r] \in {"send", "exitsend"} /\ pos[r] <= Len(Chain(exc[r]))
  /\ NoSecondChance(r) \/ bound[Chain(exc[r])[pos[r]]] # "open"
  /\ IF pc[r] = "send" THEN pos' = [pos EXCEPT ![r] = @ + 1] /\ UNCHANGED pc
                       ELSE Goto(r, "raised") /\ UNCHANGED pos
  /\ UNCHANGED <<inner, others, old_state, killsig, exc, excep>>

\* The handler has closed the object.
Answered(r) ==
  /\ pc[r] = "await" /\ object[r].st = "closed"
  /\ channel_type' = [channel_type EXCEPT ![r] = None]
  /\ IF handled[r] \/ FirstOnly(exc[r])
     THEN Goto(r, "leave") /\ UNCHANGED pos
     ELSE Goto(r, "send") /\ pos' = [pos EXCEPT ![r] = @ + 1]
  /\ UNCHANGED <<inner, others, old_state, killsig, exc, handled, second_chance, object>>

\* Mutant: an exception nobody handles is dropped.
UnhandledIgnored(r) ==
  /\ pc[r] = "send" /\ pos[r] > Len(Chain(exc[r])) /\ Goto(r, "leave")
  /\ UNCHANGED <<inner, others, locals, excep>>

\* Nobody handled it: an exception of the hardware ends the process.
Unhandled(r) ==
  /\ pc[r] = "send" /\ pos[r] > Len(Chain(exc[r])) /\ Goto(r, "leave")
  /\ IF IsSynth(exc[r]) THEN UNCHANGED <<inner, killsig, status>> ELSE Exit
  /\ UNCHANGED <<suspended, bound, restarted, old_state, exc, pos, excep>>

\* The killer wins over an object that is not closed.
KilledWhileWaiting(r) ==
  /\ killsig[r]
  /\ \/ pc[r] = "await" /\ object[r].st # "closed" /\ Goto(r, "leave")
     \/ pc[r] = "blocked" /\ Goto(r, "leave")
     \/ pc[r] = "exitblocked" /\ Goto(r, "raised")
  /\ UNCHANGED <<inner, others, locals, excep>>

\* The state blocking_run has set and asserts to find again.
BlockedState(r) == IF exc[r] = None THEN "Blocked" ELSE "BlockedException"

\* Last section of blocking_run. The assert on the state may fail.
LeaveBlocking(r) ==
  /\ pc[r] = "leave"
  /\ killer' = None /\ ReplaceKiller(r)
  /\ UNCHANGED <<suspend_count, context, waker, killed>>
  /\ LET over == IF exc[r] = None THEN "sysret" ELSE "raised" IN
     \/ State = "Dying" /\ Goto(r, over) /\ UNCHANGED <<state, signals>>
     \/ /\ State # "Dying" /\ state = BlockedState(r)
        /\ Goto(r, over) /\ ChangeState(old_state[r])
     \/ /\ State # "Dying" /\ state # BlockedState(r)
        /\ Goto(r, "panic") /\ UNCHANGED <<state, signals>>
  /\ UNCHANGED <<others, old_state, exc, pos, excep>>

\* Mutant: a kill that came before the killer was stored is not looked for.
DyingRunUnchecked(r) ==
  /\ pc[r] = "exitwait" /\ Goto(r, "exitblocked") /\ killer' = r /\ ReplaceKiller(r)
  /\ UNCHANGED <<state, suspend_count, context, waker, killed, signals, others,
                 old_state, exc, pos, excep>>

\* dying_run: the debugger holds up an exit, unless the thread is killed.
DyingRun(r) ==
  /\ pc[r] = "exitwait"
  /\ IF killed THEN Goto(r, "raised") /\ UNCHANGED <<killer, killsig>>
               ELSE Goto(r, "exitblocked") /\ killer' = r /\ ReplaceKiller(r)
  /\ UNCHANGED <<state, suspend_count, context, waker, killed, signals, others,
                 old_state, exc, pos, excep>>

ExitAnswered(r) ==
  /\ pc[r] = "exitblocked" /\ object[r].st = "closed" /\ Goto(r, "raised")
  /\ UNCHANGED <<inner, others, locals, excep>>

\* The end of handle_exception, and what the runner does next.
ExceptionOver(r) ==
  /\ pc[r] = "raised"
  /\ \/ exc[r] = "ProcessStarting" /\ Raise(r, "ThreadStarting") /\ Goto(r, "raise")
     \/ /\ exc[r] \in {"ThreadStarting", "Fault", "ThreadExiting"}
        /\ Goto(r, IF exc[r] = "ThreadExiting" THEN "drop" ELSE "wait")
        /\ exc' = [exc EXCEPT ![r] = None] /\ object' = [object EXCEPT ![r] = None]
        /\ UNCHANGED <<pos, handled, second_chance, channel_type>>
  /\ UNCHANGED <<inner, others, old_state, killsig>>

-----------------------------------------------------------------------------
(* Starting the thread: process_start once, thread_start any number of times *)

CheckStatus(r) ==
  /\ pc[r] = "new" /\ Goto(r, "check")
  /\ status \in {"Init", "Running"} /\ status' = "Running"
  /\ UNCHANGED <<inner, suspended, bound, restarted, locals, excep>>

\* start_with_entry writes the context, if it is there.
SetupContext(r) ==
  /\ pc[r] = "check" /\ Goto(r, IF context THEN "start" ELSE "refused")
  /\ UNCHANGED <<inner, others, locals, excep>>

Start(r) ==
  /\ pc[r] = "start" /\ Goto(r, "raise")
  /\ UNCHANGED <<suspend_count, context, waker, killer, killed>>
  /\ ChangeState("Running")
  /\ Raise(r, "ProcessStarting")
  /\ restarted' = (restarted \/ state # "New")
  /\ UNCHANGED <<status, suspended, bound, old_state, killsig>>

-----------------------------------------------------------------------------
(* run_user                                                                  *)

\* A poll of wait_for_run: the context is taken, or the waker left. There
\* may be no context to take.
TakeContext(r) ==
  /\ pc[r] = "wait" /\ State # "Suspended"
  /\ Goto(r, IF context THEN "taken" ELSE "panic")
  /\ context' = FALSE
  /\ UNCHANGED <<state, suspend_count, waker, killer, killed, signals, others, locals, excep>>

\* A waker of another runner is overwritten: nothing will wake that one.
Park(r) ==
  /\ pc[r] = "wait" /\ State = "Suspended"
  /\ pc' = [q \in Runners |-> IF q = r THEN "parked"
                              ELSE IF q = waker THEN "lost" ELSE pc[q]]
  /\ waker' = r
  /\ UNCHANGED <<state, suspend_count, context, killer, killed, signals, others, locals, excep>>

\* Whoever took the waker has woken the task.
Unpark(r) ==
  /\ pc[r] = "parked" /\ waker # r /\ Goto(r, "wait")
  /\ UNCHANGED <<inner, others, locals, excep>>

EnterUser(r) ==
  /\ pc[r] = "taken" /\ State # "Dying" /\ Goto(r, "user")
  /\ UNCHANGED <<inner, others, locals, excep>>

\* The context is dropped and the loop left.
BreakDying(r) ==
  /\ pc[r] = "taken" /\ State = "Dying" /\ Goto(r, "exitsend") /\ Raise(r, "ThreadExiting")
  /\ UNCHANGED <<inner, others, old_state, killsig>>

\* Mutant: the context comes back without a change of the signals.
PutContextSilently ==
  /\ context' = TRUE
  /\ UNCHANGED <<state, suspend_count, waker, killer, killed, signals>>

PutContext ==
  /\ context' = TRUE
  /\ UNCHANGED <<suspend_count, waker, killer, killed>>
  /\ ChangeState(state)

\* Mutant: a fault is reported before the context is put back.
TrapReportsFirst(r) ==
  /\ pc[r] = "user"
  /\ \/ PutContext /\ \E p \in {"wait", "syscall", "fault"} : Goto(r, p)
     \/ Goto(r, "fault") /\ UNCHANGED inner
  /\ UNCHANGED <<others, locals, excep>>

\* The context is put back at a trap: an interrupt or a page fault that is
\* resolved, a system call, or a fault.
Trap(r) ==
  /\ pc[r] = "user" /\ PutContext
  /\ \E p \in {"wait", "syscall", "fault"} : Goto(r, p)
  /\ UNCHANGED <<others, locals, excep>>

\* A system call that does not sleep, or that awaits the console (debug_read)
\* outside of blocking_run.
Syscall(r) ==
  /\ pc[r] = "syscall" /\ \E p \in {"sysret", "console"} : Goto(r, p)
  /\ UNCHANGED <<inner, others, locals, excep>>

BlockInSyscall(r) ==
  /\ pc[r] = "syscall" /\ EnterBlocking(r, "Blocked", "blocked", "sysret")
  /\ UNCHANGED <<others, exc, pos, excep>>

ExitSelf(r) ==
  /\ pc[r] = "syscall" /\ Goto(r, "sysret") /\ Stop(FALSE)
  /\ UNCHANGED <<others, old_state, exc, pos, excep>>

\* The event, the deadline or the cancellation comes; the console has input.
Unblocked(r) ==
  /\ \/ pc[r] = "blocked" /\ Goto(r, "leave")
     \/ pc[r] = "console" /\ Goto(r, "sysret")
  /\ UNCHANGED <<inner, others, locals, excep>>

\* The result is written into the context; without one the loop is left.
SyscallReturn(r) ==
  /\ pc[r] = "sysret"
  /\ \/ context /\ Goto(r, "wait") /\ UNCHANGED <<exc, pos, excep>>
     \/ ~context /\ Goto(r, "exitsend") /\ Raise(r, "ThreadExiting")
  /\ UNCHANGED <<inner, others, old_state, killsig>>

\* A fault is reported with the context, which has to be there.
Fault(r) ==
  /\ pc[r] = "fault"
  /\ \/ context /\ Goto(r, "raise") /\ Raise(r, "Fault")
     \/ ~context /\ Goto(r, "panic") /\ UNCHANGED <<exc, pos, excep>>
  /\ UNCHANGED <<inner, others, old_state, killsig>>

\* Drop of CurrentThread: terminate; with its last thread the process ends.
Terminate(r) ==
  /\ pc[r] = "drop" /\ Goto(r, "dead")
  /\ UNCHANGED <<suspend_count, context, waker, killer, killed>>
  /\ ChangeState("Dead")
  /\ status' = "Exited"
  /\ bound' = [x \in Exceptionates |->
                 IF x \in {"Thread", "Process", "Debugger"} THEN "shutdown" ELSE bound[x]]
  /\ UNCHANGED <<suspended, restarted, locals, excep>>

Runner(r) ==
  \/ BlockException(r) \/ SendException(r) \/ SetChannelType(r) \/ SendNext(r) \/ Answered(r)
  \/ Unhandled(r) \/ KilledWhileWaiting(r) \/ LeaveBlocking(r) \/ DyingRun(r)
  \/ ExitAnswered(r) \/ ExceptionOver(r) \/ TakeContext(r) \/ Park(r) \/ Unpark(r)
  \/ EnterUser(r) \/ BreakDying(r) \/ Trap(r) \/ Syscall(r) \/ BlockInSyscall(r)
  \/ ExitSelf(r) \/ SyscallReturn(r) \/ Fault(r) \/ Terminate(r)

Next ==
  \/ \E r \in Runners : \/ CheckStatus(r) \/ SetupContext(r) \/ Start(r)
                        \/ Runner(r) \/ Unblocked(r) \/ ReadObject(r) \/ CloseObject(r)
                        \/ \E b \in BOOLEAN : SetState(r, b) \/ SetStrategy(r, b)
  \/ Kill \/ KillProcess
  \/ \E k \in Tokens : Suspend(k) \/ Resume(k)
  \/ \E x \in Handlers : CreateChannel(x) \/ CloseChannel(x)

Spec == Init /\ [][Next]_vars

\* The executor polls a runner that can go on; a thread in user mode is
\* interrupted by the timer.
FairSpec == Spec /\ \A r \in Runners : WF_vars(Runner(r))

-----------------------------------------------------------------------------
(* Properties                                                                *)

States == {"New", "Running", "Blocked", "BlockedException", "Dying", "Dead"}

TypeOK ==
  /\ state \in States /\ suspend_count \in Nat
  /\ context \in BOOLEAN /\ killed \in BOOLEAN
  /\ waker \in Runners \cup {None} /\ killer \in Runners \cup {None}
  /\ signals \subseteq {"RUNNING", "SUSPENDED", "TERMINATED"}
  /\ status \in {"Init", "Running", "Exited"}
  /\ suspended \subseteq Tokens
  /\ bound \in [Exceptionates -> {"none", "open", "shutdown"}]
  /\ pc \in [Runners -> {"new", "check", "start", "refused", "raise", "send", "sent",
                         "await", "leave", "raised", "exitsend", "exitwait", "exitblocked",
                         "wait", "parked", "lost", "taken", "user", "syscall", "sysret",
                         "blocked", "console", "fault", "drop", "dead", "panic"}]
  /\ old_state \in [Runners -> States \cup {None}]
  /\ killsig \in [Runners -> BOOLEAN]
  /\ exc \in [Runners -> {None, "ProcessStarting", "ThreadStarting", "ThreadExiting", "Fault"}]
  /\ pos \in [Runners -> 0 .. 6]
  /\ handled \in [Runners -> BOOLEAN] /\ second_chance \in [Runners -> BOOLEAN]
  /\ channel_type \in [Runners -> Exceptionates \cup {None}]
  /\ object \in [Runners -> {None} \cup [at : Exceptionates, st : {"queued", "held", "closed"}]]
  /\ restarted \in BOOLEAN

\* The signals of the thread are those of the state it shows, although the
\* context, the suspend count and the state change in different sections, and
\* several runners may change them.
SignalsMatch == signals = SignalsOf(State)

\* A debugger that finds the thread suspended or in an exception finds its
\* registers in the thread object, and no user code is running (read_state
\* and write_state). Excluded by name is a thread that was started when it was
\* not New: a second runner knows nothing of the first one.
DebuggerSeesContext ==
  ~restarted /\ State \in {"Suspended", "BlockedException"} =>
    context /\ \A r \in Runners : pc[r] # "user"

\* No resume goes below zero, and none of the asserts and unwraps of a runner
\* fails, unless the thread was started when it was not New: the context is
\* there when it is taken and when a fault is reported, the state is the one
\* blocking_run left, and one waker is enough.
NoPanic ==
  /\ suspended # {} => suspend_count > 0
  /\ ~restarted => \A r \in Runners : pc[r] \notin {"panic", "lost"}

\* The registers of the thread are in one place, however often it is started:
\* one runner at most has taken them to user mode, and then they are not in
\* the thread object.
OneContext ==
  \A r \in Runners : pc[r] \in {"taken", "user"} =>
    ~context /\ \A q \in Runners : pc[q] \in {"taken", "user"} => q = r

\* A thread that faulted goes back to user code only if a handler said so.
FaultIsHandled ==
  [][\A r \in Runners : pc[r] = "raised" /\ exc[r] = "Fault" /\ pc'[r] = "wait" =>
        handled[r] \/ state = "Dying" \/ restarted]_vars

\* The start has made a runner.
Runs(r) == pc[r] \notin {"new", "check", "start", "refused"}

\* A thread that is killed after it was started terminates, whether it runs,
\* sleeps, is suspended, or is held by handlers that never answer; unless it
\* waits for the console for ever, or was started when it was not New.
KilledDies ==
  (killed /\ \E r \in Runners : Runs(r)) ~>
    (state = "Dead" \/ restarted \/ [](\E r \in Runners : pc[r] = "console"))

\* A runner parked for a suspension goes on when the last token is dropped.
ResumedRuns ==
  \A r \in Runners :
    (pc[r] = "parked" /\ suspend_count = 0) ~> (pc[r] # "parked" \/ suspend_count > 0)
=============================================================================

--------------------------- MODULE Thread_proofs ---------------------------
(***************************************************************************)
(* The inductive invariant of Thread, for any number of starts and any set *)
(* of suspend tokens: what holds of every runner and of the state they     *)
(* share; and, while the thread is started once, what the place of its     *)
(* runner says about the state the thread shows, its context and its       *)
(* exception. Every step of starters, runners, suspenders, killers and     *)
(* handlers preserves it; the theorems follow.                             *)
(***************************************************************************)
EXTENDS Thread, FiniteSetTheorems, TLAPS

\* The types: the scalars, and what a runner has of its own. (The signals are
\* typed by SignalsMatch.)
Places == {"new", "check", "start", "refused", "raise", "send", "sent", "await", "leave",
           "raised", "exitsend", "exitwait", "exitblocked", "wait", "parked", "lost", "taken",
           "user", "syscall", "sysret", "blocked", "console", "fault", "drop", "dead", "panic"}
Exceptions == {None, "ProcessStarting", "ThreadStarting", "ThreadExiting", "Fault"}
Objects == [at : Exceptionates, st : {"queued", "held", "closed"}]

SharedOK ==
  /\ state \in States /\ suspend_count \in Nat
  /\ waker \in Runners \cup {None} /\ killer \in Runners \cup {None}
  /\ status \in {"Init", "Running", "Exited"} /\ suspended \subseteq Tokens
  /\ bound \in [Exceptionates -> {"none", "open", "shutdown"}]

BoolOK ==
  /\ context \in BOOLEAN /\ killed \in BOOLEAN /\ restarted \in BOOLEAN
  /\ killsig \in [Runners -> BOOLEAN] /\ handled \in [Runners -> BOOLEAN]
  /\ second_chance \in [Runners -> BOOLEAN]

LocalOK ==
  /\ pc \in [Runners -> Places] /\ old_state \in [Runners -> States \cup {None}]
  /\ exc \in [Runners -> Exceptions] /\ pos \in [Runners -> 0 .. 6]
  /\ channel_type \in [Runners -> Exceptionates \cup {None}]
  /\ object \in [Runners -> {None} \cup Objects]

\* A runner is between the two sections of blocking_run, with an exception.
Offering(r) == pc[r] \in {"send", "sent", "await"}

\* A runner has left its loop.
Leaving(r) == \/ pc[r] \in {"exitsend", "exitwait", "exitblocked", "drop"}
              \/ pc[r] = "raised" /\ exc[r] = "ThreadExiting"

\* The exception a runner handles, the turn of its chain, and the state it
\* will put back.
PlaceInv(r) ==
  /\ pc[r] = "raise" \/ Offering(r) => exc[r] \in {"ProcessStarting", "ThreadStarting", "Fault"}
  /\ pc[r] \in {"exitsend", "exitwait", "exitblocked"} => exc[r] = "ThreadExiting"
  /\ pc[r] = "raised" => exc[r] # None
  /\ pc[r] = "leave" => exc[r] # "ThreadExiting"
  /\ pc[r] \in {"wait", "taken", "user", "parked", "syscall", "sysret", "blocked",
            "console", "fault"} => exc[r] = None
  /\ pc[r] \in {"sent", "await", "exitwait", "exitblocked"} => object[r] \in Objects
  /\ pc[r] \in {"raise", "exitsend"} => pos[r] = 1
  /\ pc[r] = "send" => pos[r] \in 1 .. Len(Chain(exc[r])) + 1
  /\ pc[r] \in {"sent", "await"} => pos[r] \in 1 .. Len(Chain(exc[r]))
  /\ Offering(r) \/ pc[r] \in {"leave", "blocked"} => old_state[r] # None

\* Every token counts once.
CountInv == IsFiniteSet(suspended) /\ suspend_count = Cardinality(suspended)

\* What holds however often the thread is started.
BaseInv == /\ TypeOK /\ CountInv /\ SignalsMatch /\ OneContext
           /\ \A r \in Runners : PlaceInv(r)

\* The rest holds while the thread is started once. Only one runner runs; the
\* killer and the waker are its own; the killer fires, and the process exits,
\* only at a thread that is dying.
SoleInv ==
  /\ \A r, q \in Runners : Runs(r) /\ Runs(q) => r = q
  /\ (\A r \in Runners : ~Runs(r)) => context
  /\ state \in {"New", "Dying"} \/ \E r \in Runners : Runs(r)
  /\ killer # None => Runs(killer)
  /\ waker # None => Runs(waker)
  /\ \A r \in Runners : killsig[r] => state \in {"Dying", "Dead"}
  /\ status = "Exited" => state \in {"Dying", "Dead"}

\* The state that others see is the one the runner left, or Dying.
StateInv(r) ==
  /\ state # "New" /\ pc[r] \notin {"lost", "panic"}
  /\ pc[r] = "dead" <=> state = "Dead"
  /\ Offering(r) \/ (pc[r] = "leave" /\ exc[r] # None) => state \in {"BlockedException", "Dying"}
  /\ pc[r] = "blocked" \/ (pc[r] = "leave" /\ exc[r] = None) => state \in {"Blocked", "Dying"}
  /\ Offering(r) \/ pc[r] \in {"leave", "blocked"} => old_state[r] = "Running"
  /\ pc[r] \in {"raise", "raised", "wait", "parked", "taken", "user", "syscall", "sysret",
                "console", "fault"} => state \in {"Running", "Dying"}
  /\ Leaving(r) => state = "Dying"

\* The context is out of the thread from wait_for_run to the trap, and for
\* good once the loop is left.
ContextInv(r) == context <=> ~(pc[r] \in {"taken", "user", "dead"} \/ Leaving(r))

\* A fault is over only when its last handler has closed it as handled, or
\* the thread dies.
FaultInv(r) ==
  pc[r] \in {"leave", "raised"} /\ exc[r] = "Fault" =>
    state = "Dying" \/ (handled[r] /\ object[r].st = "closed")

RunInv(r) == StateInv(r) /\ ContextInv(r) /\ FaultInv(r)

OwnInv == SoleInv /\ \A r \in Runners : Runs(r) => RunInv(r)

IInv == BaseInv /\ (restarted \/ OwnInv)

-----------------------------------------------------------------------------
\* The chains and their lengths.
LEMMA ChainFacts ==
  /\ Len(Chain("ProcessStarting")) = 1 /\ Len(Chain("ThreadStarting")) = 1
  /\ Len(Chain("ThreadExiting")) = 1 /\ Len(Chain("Fault")) = 5
  /\ \A e \in {"ProcessStarting", "ThreadStarting", "ThreadExiting", "Fault"} :
       \A i \in 1 .. Len(Chain(e)) : Chain(e)[i] \in Exceptionates
<1>1. /\ Chain("ProcessStarting") = <<"JobDebugger">>
      /\ Chain("ThreadStarting") = <<"Debugger">> /\ Chain("ThreadExiting") = <<"Debugger">>
      /\ Chain("Fault") = <<"Debugger", "Thread", "Process", "Debugger", "Job">>
  BY Zenon DEF Chain
<1>. QED
  BY <1>1 DEF Exceptionates

\* Which signals a state may show.
LEMMA SignalsType == \A v : SignalsOf(v) \subseteq {"RUNNING", "SUSPENDED", "TERMINATED"}
  BY Zenon DEF SignalsOf

\* A suspended thread counts its suspensions.
LEMMA CountPositive ==
  ASSUME CountInv, NEW k \in suspended
  PROVE  suspend_count \in Nat /\ suspend_count > 0
  BY FS_EmptySet, FS_CardinalityType DEF CountInv

\* The exceptionate whose turn it is.
LEMMA TurnFacts ==
  ASSUME LocalOK, NEW r \in Runners, PlaceInv(r),
         pc[r] \in {"send", "sent", "await", "exitsend"}
  PROVE  /\ exc[r] \in Exceptions \ {None} /\ Len(Chain(exc[r])) \in 1 .. 5
         /\ pos[r] \in 1 .. 6 /\ pos[r] <= Len(Chain(exc[r])) + 1
         /\ pc[r] # "send" => pos[r] <= Len(Chain(exc[r]))
         /\ pos[r] <= Len(Chain(exc[r])) =>
              Chain(exc[r])[pos[r]] \in Exceptionates /\ pos[r] + 1 \in 1 .. 6
<1>1. exc[r] \in {"ProcessStarting", "ThreadStarting", "ThreadExiting", "Fault"}
  BY DEF PlaceInv, Offering
<1>2. PICK n \in 1 .. 5 : n = Len(Chain(exc[r]))
  BY <1>1, ChainFacts
<1>3. pos[r] \in 1 .. n + 1 /\ (pc[r] # "send" => pos[r] \in 1 .. n)
  <2>1. CASE pc[r] = "send"
    BY <1>2, <2>1 DEF PlaceInv
  <2>2. CASE pc[r] \in {"sent", "await"}
    BY <1>2, <2>2 DEF PlaceInv
  <2>3. CASE pc[r] = "exitsend"
    <3>1. pos[r] = 1
      BY <2>3 DEF PlaceInv
    <3>2. 1 \in 1 .. n + 1 /\ 1 \in 1 .. n
      OBVIOUS
    <3>. QED
      BY <3>1, <3>2
  <2>. QED
    BY <2>1, <2>2, <2>3
<1>4. \A i \in 1 .. n : Chain(exc[r])[i] \in Exceptionates
  BY <1>1, <1>2, ChainFacts
<1>5. exc[r] # None
  BY <1>1, NoneAssumption
<1>6. \A p \in 1 .. n + 1 :
        p \in 1 .. 6 /\ p <= n + 1 /\ (p <= n => p \in 1 .. n /\ p + 1 \in 1 .. 6)
  OBVIOUS
<1>7. \A p \in 1 .. n : p <= n
  OBVIOUS
<1>8. /\ pos[r] \in 1 .. 6 /\ pos[r] <= n + 1 /\ (pc[r] # "send" => pos[r] <= n)
      /\ pos[r] <= n => pos[r] \in 1 .. n /\ pos[r] + 1 \in 1 .. 6
  BY <1>3, <1>6, <1>7
<1>. QED
  BY <1>1, <1>2, <1>4, <1>5, <1>8 DEF Exceptions


\* The shared variables keep their types.
LEMMA SharedStep ==
  ASSUME IInv, [Next]_vars
  PROVE  SharedOK'
<1>0. /\ TypeOK /\ SharedOK /\ CountInv
      /\ \A r \in Runners : pc[r] = "leave" => old_state[r] # None
  BY DEF IInv, BaseInv, TypeOK, SharedOK, PlaceInv
<1>Other. ASSUME UNCHANGED <<state, suspend_count, waker, killer, status, suspended, bound>> PROVE SharedOK'
  BY <1>0, <1>Other DEF SharedOK, TypeOK, States
<1>BlockException. ASSUME NEW r \in Runners, BlockException(r) PROVE SharedOK'
  BY <1>0, <1>BlockException, CountPositive
     DEF BlockException, EnterBlocking, ReplaceKiller, Goto, ChangeState, State, Visible,
         SharedOK, TypeOK, States, inner, others, locals, excep
<1>SendException. ASSUME NEW r \in Runners, SendException(r) PROVE SharedOK'
  BY <1>SendException, <1>Other DEF SendException, Goto, inner, others, locals, excep
<1>SetChannelType. ASSUME NEW r \in Runners, SetChannelType(r) PROVE SharedOK'
  BY <1>SetChannelType, <1>Other DEF SetChannelType, Goto, inner, others, locals, excep
<1>SendNext. ASSUME NEW r \in Runners, SendNext(r) PROVE SharedOK'
  BY <1>SendNext, <1>Other DEF SendNext, Goto, inner, others, locals, excep
<1>Answered. ASSUME NEW r \in Runners, Answered(r) PROVE SharedOK'
  BY <1>Answered, <1>Other DEF Answered, Goto, inner, others, locals, excep
<1>Unhandled. ASSUME NEW r \in Runners, Unhandled(r) PROVE SharedOK'
  BY <1>0, <1>Unhandled, CountPositive
     DEF Unhandled, Goto, Exit, Stop, TakeKiller, ChangeState, State, Visible, SharedOK, TypeOK,
         States, inner, others, locals, excep
<1>KilledWhileWaiting. ASSUME NEW r \in Runners, KilledWhileWaiting(r) PROVE SharedOK'
  BY <1>KilledWhileWaiting, <1>Other DEF KilledWhileWaiting, Goto, inner, others, locals, excep
<1>LeaveBlocking. ASSUME NEW r \in Runners, LeaveBlocking(r) PROVE SharedOK'
  BY <1>0, <1>LeaveBlocking, CountPositive
     DEF LeaveBlocking, ReplaceKiller, BlockedState, Goto, ChangeState, State, Visible,
         SharedOK, TypeOK, States, inner, others, locals, excep
<1>DyingRun. ASSUME NEW r \in Runners, DyingRun(r) PROVE SharedOK'
  BY <1>0, <1>DyingRun, CountPositive
     DEF DyingRun, ReplaceKiller, Goto, SharedOK, TypeOK, States, inner, others, locals, excep
<1>ExitAnswered. ASSUME NEW r \in Runners, ExitAnswered(r) PROVE SharedOK'
  BY <1>ExitAnswered, <1>Other DEF ExitAnswered, Goto, inner, others, locals, excep
<1>ExceptionOver. ASSUME NEW r \in Runners, ExceptionOver(r) PROVE SharedOK'
  BY <1>ExceptionOver, <1>Other DEF ExceptionOver, Goto, Raise, inner, others, locals, excep
<1>TakeContext. ASSUME NEW r \in Runners, TakeContext(r) PROVE SharedOK'
  BY <1>TakeContext, <1>Other DEF TakeContext, Goto, inner, others, locals, excep
<1>Park. ASSUME NEW r \in Runners, Park(r) PROVE SharedOK'
  BY <1>0, <1>Park, CountPositive
     DEF Park, State, Visible, SharedOK, TypeOK, States, inner, others, locals, excep
<1>Unpark. ASSUME NEW r \in Runners, Unpark(r) PROVE SharedOK'
  BY <1>Unpark, <1>Other DEF Unpark, Goto, inner, others, locals, excep
<1>EnterUser. ASSUME NEW r \in Runners, EnterUser(r) PROVE SharedOK'
  BY <1>EnterUser, <1>Other DEF EnterUser, Goto, inner, others, locals, excep
<1>BreakDying. ASSUME NEW r \in Runners, BreakDying(r) PROVE SharedOK'
  BY <1>BreakDying, <1>Other DEF BreakDying, Goto, Raise, inner, others, locals, excep
<1>Trap. ASSUME NEW r \in Runners, Trap(r) PROVE SharedOK'
  BY <1>0, <1>Trap, CountPositive
     DEF Trap, Goto, PutContext, ChangeState, State, Visible, SharedOK, TypeOK, States, inner,
         others, locals, excep
<1>Syscall. ASSUME NEW r \in Runners, Syscall(r) PROVE SharedOK'
  BY <1>Syscall, <1>Other DEF Syscall, Goto, inner, others, locals, excep
<1>BlockInSyscall. ASSUME NEW r \in Runners, BlockInSyscall(r) PROVE SharedOK'
  BY <1>0, <1>BlockInSyscall, CountPositive
     DEF BlockInSyscall, EnterBlocking, ReplaceKiller, Goto, ChangeState, State, Visible,
         SharedOK, TypeOK, States, inner, others, locals, excep
<1>ExitSelf. ASSUME NEW r \in Runners, ExitSelf(r) PROVE SharedOK'
  BY <1>0, <1>ExitSelf, CountPositive
     DEF ExitSelf, Goto, Stop, TakeKiller, ChangeState, State, Visible, SharedOK, TypeOK,
         States, inner, others, locals, excep
<1>SyscallReturn. ASSUME NEW r \in Runners, SyscallReturn(r) PROVE SharedOK'
  BY <1>SyscallReturn, <1>Other DEF SyscallReturn, Goto, Raise, inner, others, locals, excep
<1>Fault. ASSUME NEW r \in Runners, Fault(r) PROVE SharedOK'
  BY <1>Fault, <1>Other DEF Fault, Goto, Raise, inner, others, locals, excep
<1>Terminate. ASSUME NEW r \in Runners, Terminate(r) PROVE SharedOK'
  BY <1>0, <1>Terminate, CountPositive
     DEF Terminate, Goto, ChangeState, SharedOK, TypeOK, States, inner, others, locals, excep
<1>Unblocked. ASSUME NEW r \in Runners, Unblocked(r) PROVE SharedOK'
  BY <1>Unblocked, <1>Other DEF Unblocked, Goto, inner, others, locals, excep
<1>CheckStatus. ASSUME NEW r \in Runners, CheckStatus(r) PROVE SharedOK'
  BY <1>0, <1>CheckStatus, CountPositive
     DEF CheckStatus, Goto, SharedOK, TypeOK, States, inner, others, locals, excep
<1>SetupContext. ASSUME NEW r \in Runners, SetupContext(r) PROVE SharedOK'
  BY <1>SetupContext, <1>Other DEF SetupContext, Goto, inner, others, locals, excep
<1>Start. ASSUME NEW r \in Runners, Start(r) PROVE SharedOK'
  BY <1>0, <1>Start, CountPositive
     DEF Start, Goto, Raise, ChangeState, SharedOK, TypeOK, States, inner, others, locals, excep
<1>ReadObject. ASSUME NEW r \in Runners, ReadObject(r) PROVE SharedOK'
  BY <1>ReadObject, <1>Other DEF ReadObject, inner, others, locals, excep
<1>CloseObject. ASSUME NEW r \in Runners, CloseObject(r) PROVE SharedOK'
  BY <1>CloseObject, <1>Other DEF CloseObject, inner, others, locals, excep
<1>SetState. ASSUME NEW r \in Runners, NEW b \in BOOLEAN, SetState(r, b) PROVE SharedOK'
  BY <1>SetState, <1>Other DEF SetState, inner, others, locals, excep
<1>SetStrategy. ASSUME NEW r \in Runners, NEW b \in BOOLEAN, SetStrategy(r, b) PROVE SharedOK'
  BY <1>SetStrategy, <1>Other DEF SetStrategy, inner, others, locals, excep
<1>Kill. CASE Kill
  BY <1>0, <1>Kill, CountPositive
     DEF Kill, Stop, TakeKiller, ChangeState, State, Visible, SharedOK, TypeOK, States, inner,
         others, locals, excep
<1>KillProcess. CASE KillProcess
  BY <1>0, <1>KillProcess, CountPositive
     DEF KillProcess, Exit, Stop, TakeKiller, ChangeState, State, Visible, SharedOK, TypeOK,
         States, inner, others, locals, excep
<1>Suspend. ASSUME NEW k \in Tokens, Suspend(k) PROVE SharedOK'
  BY <1>0, <1>Suspend, CountPositive
     DEF Suspend, ChangeState, State, Visible, SharedOK, TypeOK, States, inner, others, locals,
         excep
<1>Resume. ASSUME NEW k \in Tokens, Resume(k) PROVE SharedOK'
  BY <1>0, <1>Resume, CountPositive
     DEF Resume, ChangeState, State, Visible, SharedOK, TypeOK, States, inner, others, locals,
         excep
<1>CreateChannel. ASSUME NEW x \in Handlers, CreateChannel(x) PROVE SharedOK'
  BY <1>0, <1>CreateChannel, CountPositive, HandlersAssumption
     DEF CreateChannel, SharedOK, TypeOK, States, inner, others, locals, excep
<1>CloseChannel. ASSUME NEW x \in Handlers, CloseChannel(x) PROVE SharedOK'
  BY <1>0, <1>CloseChannel, CountPositive, HandlersAssumption
     DEF CloseChannel, SharedOK, TypeOK, States, inner, others, locals, excep
<1>Stutter. CASE UNCHANGED vars
  BY <1>Stutter, <1>Other DEF vars
<1>. QED
  BY <1>BlockException, <1>SendException, <1>SetChannelType, <1>SendNext, <1>Answered,
     <1>Unhandled, <1>KilledWhileWaiting, <1>LeaveBlocking, <1>DyingRun, <1>ExitAnswered,
     <1>ExceptionOver, <1>TakeContext, <1>Park, <1>Unpark, <1>EnterUser, <1>BreakDying, <1>Trap,
     <1>Syscall, <1>BlockInSyscall, <1>ExitSelf, <1>SyscallReturn, <1>Fault, <1>Terminate,
     <1>Unblocked, <1>CheckStatus, <1>SetupContext, <1>Start, <1>ReadObject, <1>CloseObject,
     <1>SetState, <1>SetStrategy, <1>Kill, <1>KillProcess, <1>Suspend, <1>Resume,
     <1>CreateChannel, <1>CloseChannel, <1>Stutter
     DEF Next, Runner

\* A Boolean stays one.
LEMMA BoolStep ==
  ASSUME IInv, [Next]_vars
  PROVE  BoolOK'
<1>0. BoolOK
  BY DEF IInv, BaseInv, TypeOK, BoolOK
<1>Other. ASSUME UNCHANGED <<context, killed, restarted, killsig, handled, second_chance>> PROVE BoolOK'
  BY <1>0, <1>Other DEF BoolOK
<1>BlockException. ASSUME NEW r \in Runners, BlockException(r) PROVE BoolOK'
  BY <1>0, <1>BlockException
     DEF BlockException, EnterBlocking, ReplaceKiller, Goto, ChangeState, State, Visible,
         BoolOK, inner, others, locals, excep
<1>SendException. ASSUME NEW r \in Runners, SendException(r) PROVE BoolOK'
  BY <1>SendException, <1>Other DEF SendException, Goto, inner, others, locals, excep
<1>SetChannelType. ASSUME NEW r \in Runners, SetChannelType(r) PROVE BoolOK'
  BY <1>SetChannelType, <1>Other DEF SetChannelType, Goto, inner, others, locals, excep
<1>SendNext. ASSUME NEW r \in Runners, SendNext(r) PROVE BoolOK'
  BY <1>SendNext, <1>Other DEF SendNext, Goto, inner, others, locals, excep
<1>Answered. ASSUME NEW r \in Runners, Answered(r) PROVE BoolOK'
  BY <1>Answered, <1>Other DEF Answered, Goto, inner, others, locals, excep
<1>Unhandled. ASSUME NEW r \in Runners, Unhandled(r) PROVE BoolOK'
  BY <1>0, <1>Unhandled
     DEF Unhandled, Goto, Exit, Stop, TakeKiller, ChangeState, State, Visible, BoolOK, inner,
         others, locals, excep
<1>KilledWhileWaiting. ASSUME NEW r \in Runners, KilledWhileWaiting(r) PROVE BoolOK'
  BY <1>KilledWhileWaiting, <1>Other DEF KilledWhileWaiting, Goto, inner, others, locals, excep
<1>LeaveBlocking. ASSUME NEW r \in Runners, LeaveBlocking(r) PROVE BoolOK'
  BY <1>0, <1>LeaveBlocking
     DEF LeaveBlocking, ReplaceKiller, BlockedState, Goto, ChangeState, State, Visible, BoolOK,
         inner, others, locals, excep
<1>DyingRun. ASSUME NEW r \in Runners, DyingRun(r) PROVE BoolOK'
  BY <1>0, <1>DyingRun DEF DyingRun, ReplaceKiller, Goto, BoolOK, inner, others, locals, excep
<1>ExitAnswered. ASSUME NEW r \in Runners, ExitAnswered(r) PROVE BoolOK'
  BY <1>ExitAnswered, <1>Other DEF ExitAnswered, Goto, inner, others, locals, excep
<1>ExceptionOver. ASSUME NEW r \in Runners, ExceptionOver(r) PROVE BoolOK'
  BY <1>0, <1>ExceptionOver DEF ExceptionOver, Goto, Raise, BoolOK, inner, others, locals, excep
<1>TakeContext. ASSUME NEW r \in Runners, TakeContext(r) PROVE BoolOK'
  BY <1>0, <1>TakeContext
     DEF TakeContext, Goto, State, Visible, BoolOK, inner, others, locals, excep
<1>Park. ASSUME NEW r \in Runners, Park(r) PROVE BoolOK'
  BY <1>Park, <1>Other DEF Park, inner, others, locals, excep
<1>Unpark. ASSUME NEW r \in Runners, Unpark(r) PROVE BoolOK'
  BY <1>Unpark, <1>Other DEF Unpark, Goto, inner, others, locals, excep
<1>EnterUser. ASSUME NEW r \in Runners, EnterUser(r) PROVE BoolOK'
  BY <1>EnterUser, <1>Other DEF EnterUser, Goto, inner, others, locals, excep
<1>BreakDying. ASSUME NEW r \in Runners, BreakDying(r) PROVE BoolOK'
  BY <1>0, <1>BreakDying
     DEF BreakDying, Goto, Raise, State, Visible, BoolOK, inner, others, locals, excep
<1>Trap. ASSUME NEW r \in Runners, Trap(r) PROVE BoolOK'
  BY <1>0, <1>Trap
     DEF Trap, Goto, PutContext, ChangeState, State, Visible, BoolOK, inner, others, locals,
         excep
<1>Syscall. ASSUME NEW r \in Runners, Syscall(r) PROVE BoolOK'
  BY <1>Syscall, <1>Other DEF Syscall, Goto, inner, others, locals, excep
<1>BlockInSyscall. ASSUME NEW r \in Runners, BlockInSyscall(r) PROVE BoolOK'
  BY <1>0, <1>BlockInSyscall
     DEF BlockInSyscall, EnterBlocking, ReplaceKiller, Goto, ChangeState, State, Visible,
         BoolOK, inner, others, locals, excep
<1>ExitSelf. ASSUME NEW r \in Runners, ExitSelf(r) PROVE BoolOK'
  BY <1>0, <1>ExitSelf
     DEF ExitSelf, Goto, Stop, TakeKiller, ChangeState, State, Visible, BoolOK, inner, others,
         locals, excep
<1>SyscallReturn. ASSUME NEW r \in Runners, SyscallReturn(r) PROVE BoolOK'
  BY <1>0, <1>SyscallReturn DEF SyscallReturn, Goto, Raise, BoolOK, inner, others, locals, excep
<1>Fault. ASSUME NEW r \in Runners, Fault(r) PROVE BoolOK'
  BY <1>0, <1>Fault DEF Fault, Goto, Raise, BoolOK, inner, others, locals, excep
<1>Terminate. ASSUME NEW r \in Runners, Terminate(r) PROVE BoolOK'
  BY <1>Terminate, <1>Other DEF Terminate, Goto, ChangeState, inner, others, locals, excep
<1>Unblocked. ASSUME NEW r \in Runners, Unblocked(r) PROVE BoolOK'
  BY <1>Unblocked, <1>Other DEF Unblocked, Goto, inner, others, locals, excep
<1>CheckStatus. ASSUME NEW r \in Runners, CheckStatus(r) PROVE BoolOK'
  BY <1>CheckStatus, <1>Other DEF CheckStatus, Goto, inner, others, locals, excep
<1>SetupContext. ASSUME NEW r \in Runners, SetupContext(r) PROVE BoolOK'
  BY <1>SetupContext, <1>Other DEF SetupContext, Goto, inner, others, locals, excep
<1>Start. ASSUME NEW r \in Runners, Start(r) PROVE BoolOK'
  BY <1>0, <1>Start DEF Start, Goto, Raise, ChangeState, BoolOK, inner, others, locals, excep
<1>ReadObject. ASSUME NEW r \in Runners, ReadObject(r) PROVE BoolOK'
  BY <1>ReadObject, <1>Other DEF ReadObject, inner, others, locals, excep
<1>CloseObject. ASSUME NEW r \in Runners, CloseObject(r) PROVE BoolOK'
  BY <1>CloseObject, <1>Other DEF CloseObject, inner, others, locals, excep
<1>SetState. ASSUME NEW r \in Runners, NEW b \in BOOLEAN, SetState(r, b) PROVE BoolOK'
  BY <1>0, <1>SetState DEF SetState, BoolOK, inner, others, locals, excep
<1>SetStrategy. ASSUME NEW r \in Runners, NEW b \in BOOLEAN, SetStrategy(r, b) PROVE BoolOK'
  BY <1>0, <1>SetStrategy DEF SetStrategy, BoolOK, inner, others, locals, excep
<1>Kill. CASE Kill
  BY <1>0, <1>Kill
     DEF Kill, Stop, TakeKiller, ChangeState, State, Visible, BoolOK, inner, others, locals,
         excep
<1>KillProcess. CASE KillProcess
  BY <1>0, <1>KillProcess
     DEF KillProcess, Exit, Stop, TakeKiller, ChangeState, State, Visible, BoolOK, inner,
         others, locals, excep
<1>Suspend. ASSUME NEW k \in Tokens, Suspend(k) PROVE BoolOK'
  BY <1>Suspend, <1>Other DEF Suspend, ChangeState, inner, others, locals, excep
<1>Resume. ASSUME NEW k \in Tokens, Resume(k) PROVE BoolOK'
  BY <1>Resume, <1>Other DEF Resume, ChangeState, inner, others, locals, excep
<1>CreateChannel. ASSUME NEW x \in Handlers, CreateChannel(x) PROVE BoolOK'
  BY <1>CreateChannel, <1>Other DEF CreateChannel, inner, others, locals, excep
<1>CloseChannel. ASSUME NEW x \in Handlers, CloseChannel(x) PROVE BoolOK'
  BY <1>CloseChannel, <1>Other DEF CloseChannel, inner, others, locals, excep
<1>Stutter. CASE UNCHANGED vars
  BY <1>Stutter, <1>Other DEF vars
<1>. QED
  BY <1>BlockException, <1>SendException, <1>SetChannelType, <1>SendNext, <1>Answered,
     <1>Unhandled, <1>KilledWhileWaiting, <1>LeaveBlocking, <1>DyingRun, <1>ExitAnswered,
     <1>ExceptionOver, <1>TakeContext, <1>Park, <1>Unpark, <1>EnterUser, <1>BreakDying, <1>Trap,
     <1>Syscall, <1>BlockInSyscall, <1>ExitSelf, <1>SyscallReturn, <1>Fault, <1>Terminate,
     <1>Unblocked, <1>CheckStatus, <1>SetupContext, <1>Start, <1>ReadObject, <1>CloseObject,
     <1>SetState, <1>SetStrategy, <1>Kill, <1>KillProcess, <1>Suspend, <1>Resume,
     <1>CreateChannel, <1>CloseChannel, <1>Stutter
     DEF Next, Runner

\* What a runner has of its own keeps its type.
LEMMA LocalStep ==
  ASSUME IInv, [Next]_vars
  PROVE  LocalOK'
<1>0. /\ TypeOK /\ LocalOK
      /\ \A r \in Runners : PlaceInv(r)
  BY DEF IInv, BaseInv, TypeOK, LocalOK, Places, Exceptions, Objects
<1>Other. ASSUME UNCHANGED <<pc, old_state, exc, pos, channel_type, object>> PROVE LocalOK'
  BY <1>0, <1>Other DEF LocalOK, TypeOK, States, Places, Exceptions, Objects
<1>BlockException. ASSUME NEW r \in Runners, BlockException(r) PROVE LocalOK'
  BY <1>0, <1>BlockException, ChainFacts
     DEF BlockException, EnterBlocking, ReplaceKiller, Goto, ChangeState, State, Visible,
         LocalOK, TypeOK, States, Places, Exceptions, Objects, inner, others, locals, excep
<1>SendException. ASSUME NEW r \in Runners, SendException(r) PROVE LocalOK'
  <2>1. PICK x \in Exceptionates : x = Chain(exc[r])[pos[r]]
    BY <1>0, <1>SendException, TurnFacts DEF SendException
  <2>2. [at |-> x, st |-> "queued"] \in Objects
    BY DEF Objects
  <2>. QED
    BY <1>0, <1>SendException, <2>1, <2>2 DEF SendException, Goto, LocalOK, Places, locals
<1>SetChannelType. ASSUME NEW r \in Runners, SetChannelType(r) PROVE LocalOK'
  <2>1. Chain(exc[r])[pos[r]] \in Exceptionates
    BY <1>0, <1>SetChannelType, TurnFacts DEF SetChannelType
  <2>. QED
    BY <1>0, <1>SetChannelType, <2>1 DEF SetChannelType, Goto, LocalOK, Places, locals
<1>SendNext. ASSUME NEW r \in Runners, SendNext(r) PROVE LocalOK'
  <2>1. pos[r] + 1 \in 0 .. 6
    BY <1>0, <1>SendNext, TurnFacts DEF SendNext
  <2>. QED
    BY <1>0, <1>SendNext, <2>1 DEF SendNext, Goto, LocalOK, Places, excep
<1>Answered. ASSUME NEW r \in Runners, Answered(r) PROVE LocalOK'
  <2>1. pos[r] + 1 \in 0 .. 6
    BY <1>0, <1>Answered, TurnFacts DEF Answered
  <2>. QED
    BY <1>0, <1>Answered, <2>1 DEF Answered, Goto, LocalOK, Places
<1>Unhandled. ASSUME NEW r \in Runners, Unhandled(r) PROVE LocalOK'
  BY <1>0, <1>Unhandled, ChainFacts
     DEF Unhandled, Goto, Exit, Stop, TakeKiller, ChangeState, State, Visible, LocalOK, TypeOK,
         States, Places, Exceptions, Objects, inner, others, locals, excep
<1>KilledWhileWaiting. ASSUME NEW r \in Runners, KilledWhileWaiting(r) PROVE LocalOK'
  BY <1>0, <1>KilledWhileWaiting, ChainFacts
     DEF KilledWhileWaiting, Goto, LocalOK, TypeOK, States, Places, Exceptions, Objects, inner,
         others, locals, excep
<1>LeaveBlocking. ASSUME NEW r \in Runners, LeaveBlocking(r) PROVE LocalOK'
  BY <1>0, <1>LeaveBlocking, ChainFacts
     DEF LeaveBlocking, ReplaceKiller, BlockedState, Goto, ChangeState, State, Visible, LocalOK,
         TypeOK, States, Places, Exceptions, Objects, inner, others, locals, excep
<1>DyingRun. ASSUME NEW r \in Runners, DyingRun(r) PROVE LocalOK'
  BY <1>0, <1>DyingRun, ChainFacts
     DEF DyingRun, ReplaceKiller, Goto, LocalOK, TypeOK, States, Places, Exceptions, Objects,
         inner, others, locals, excep
<1>ExitAnswered. ASSUME NEW r \in Runners, ExitAnswered(r) PROVE LocalOK'
  BY <1>0, <1>ExitAnswered, ChainFacts
     DEF ExitAnswered, Goto, LocalOK, TypeOK, States, Places, Exceptions, Objects, inner,
         others, locals, excep
<1>ExceptionOver. ASSUME NEW r \in Runners, ExceptionOver(r) PROVE LocalOK'
  <2>1. ASSUME NEW e \in Exceptions, Raise(r, e) PROVE
          /\ exc' \in [Runners -> Exceptions] /\ pos' \in [Runners -> 0 .. 6]
          /\ channel_type' \in [Runners -> Exceptionates \cup {None}]
          /\ object' \in [Runners -> {None} \cup Objects]
    BY <1>0, <2>1 DEF Raise, LocalOK, Objects
  <2>2. pc' \in [Runners -> Places] /\ old_state' = old_state
    BY <1>0, <1>ExceptionOver DEF ExceptionOver, Goto, LocalOK, Places
  <2>3. CASE Raise(r, "ThreadStarting")
    BY <1>0, <2>1, <2>2, <2>3 DEF LocalOK, Exceptions
  <2>4. CASE ~Raise(r, "ThreadStarting")
    BY <1>0, <1>ExceptionOver, <2>2, <2>4 DEF ExceptionOver, LocalOK, Exceptions, Objects
  <2>. QED
    BY <2>3, <2>4
<1>TakeContext. ASSUME NEW r \in Runners, TakeContext(r) PROVE LocalOK'
  BY <1>0, <1>TakeContext, ChainFacts
     DEF TakeContext, Goto, State, Visible, LocalOK, TypeOK, States, Places, Exceptions,
         Objects, inner, others, locals, excep
<1>Park. ASSUME NEW r \in Runners, Park(r) PROVE LocalOK'
  BY <1>0, <1>Park, ChainFacts
     DEF Park, State, Visible, LocalOK, TypeOK, States, Places, Exceptions, Objects, inner,
         others, locals, excep
<1>Unpark. ASSUME NEW r \in Runners, Unpark(r) PROVE LocalOK'
  BY <1>0, <1>Unpark, ChainFacts
     DEF Unpark, Goto, LocalOK, TypeOK, States, Places, Exceptions, Objects, inner, others,
         locals, excep
<1>EnterUser. ASSUME NEW r \in Runners, EnterUser(r) PROVE LocalOK'
  BY <1>0, <1>EnterUser, ChainFacts
     DEF EnterUser, Goto, State, Visible, LocalOK, TypeOK, States, Places, Exceptions, Objects,
         inner, others, locals, excep
<1>BreakDying. ASSUME NEW r \in Runners, BreakDying(r) PROVE LocalOK'
  BY <1>0, <1>BreakDying, ChainFacts
     DEF BreakDying, Goto, Raise, State, Visible, LocalOK, TypeOK, States, Places, Exceptions,
         Objects, inner, others, locals, excep
<1>Trap. ASSUME NEW r \in Runners, Trap(r) PROVE LocalOK'
  BY <1>0, <1>Trap, ChainFacts
     DEF Trap, Goto, PutContext, ChangeState, State, Visible, LocalOK, TypeOK, States, Places,
         Exceptions, Objects, inner, others, locals, excep
<1>Syscall. ASSUME NEW r \in Runners, Syscall(r) PROVE LocalOK'
  BY <1>0, <1>Syscall, ChainFacts
     DEF Syscall, Goto, LocalOK, TypeOK, States, Places, Exceptions, Objects, inner, others,
         locals, excep
<1>BlockInSyscall. ASSUME NEW r \in Runners, BlockInSyscall(r) PROVE LocalOK'
  BY <1>0, <1>BlockInSyscall, ChainFacts
     DEF BlockInSyscall, EnterBlocking, ReplaceKiller, Goto, ChangeState, State, Visible,
         LocalOK, TypeOK, States, Places, Exceptions, Objects, inner, others, locals, excep
<1>ExitSelf. ASSUME NEW r \in Runners, ExitSelf(r) PROVE LocalOK'
  BY <1>0, <1>ExitSelf, ChainFacts
     DEF ExitSelf, Goto, Stop, TakeKiller, ChangeState, State, Visible, LocalOK, TypeOK, States,
         Places, Exceptions, Objects, inner, others, locals, excep
<1>SyscallReturn. ASSUME NEW r \in Runners, SyscallReturn(r) PROVE LocalOK'
  <2>1. pc' \in [Runners -> Places] /\ old_state' = old_state
    BY <1>0, <1>SyscallReturn DEF SyscallReturn, Goto, LocalOK, Places
  <2>2. CASE Raise(r, "ThreadExiting")
    BY <1>0, <2>1, <2>2 DEF Raise, LocalOK, Exceptions, Objects
  <2>3. CASE UNCHANGED <<exc, pos, excep>>
    BY <1>0, <2>1, <2>3 DEF LocalOK, excep
  <2>. QED
    BY <1>SyscallReturn, <2>2, <2>3 DEF SyscallReturn
<1>Fault. ASSUME NEW r \in Runners, Fault(r) PROVE LocalOK'
  <2>1. pc' \in [Runners -> Places] /\ old_state' = old_state
    BY <1>0, <1>Fault DEF Fault, Goto, LocalOK, Places
  <2>2. CASE Raise(r, "Fault")
    BY <1>0, <2>1, <2>2 DEF Raise, LocalOK, Exceptions, Objects
  <2>3. CASE UNCHANGED <<exc, pos, excep>>
    BY <1>0, <2>1, <2>3 DEF LocalOK, excep
  <2>. QED
    BY <1>Fault, <2>2, <2>3 DEF Fault
<1>Terminate. ASSUME NEW r \in Runners, Terminate(r) PROVE LocalOK'
  BY <1>0, <1>Terminate, ChainFacts
     DEF Terminate, Goto, ChangeState, LocalOK, TypeOK, States, Places, Exceptions, Objects,
         inner, others, locals, excep
<1>Unblocked. ASSUME NEW r \in Runners, Unblocked(r) PROVE LocalOK'
  BY <1>0, <1>Unblocked, ChainFacts
     DEF Unblocked, Goto, LocalOK, TypeOK, States, Places, Exceptions, Objects, inner, others,
         locals, excep
<1>CheckStatus. ASSUME NEW r \in Runners, CheckStatus(r) PROVE LocalOK'
  BY <1>0, <1>CheckStatus, ChainFacts
     DEF CheckStatus, Goto, LocalOK, TypeOK, States, Places, Exceptions, Objects, inner, others,
         locals, excep
<1>SetupContext. ASSUME NEW r \in Runners, SetupContext(r) PROVE LocalOK'
  BY <1>0, <1>SetupContext, ChainFacts
     DEF SetupContext, Goto, LocalOK, TypeOK, States, Places, Exceptions, Objects, inner,
         others, locals, excep
<1>Start. ASSUME NEW r \in Runners, Start(r) PROVE LocalOK'
  BY <1>0, <1>Start, ChainFacts
     DEF Start, Goto, Raise, ChangeState, LocalOK, TypeOK, States, Places, Exceptions, Objects,
         inner, others, locals, excep
<1>ReadObject. ASSUME NEW r \in Runners, ReadObject(r) PROVE LocalOK'
  BY <1>0, <1>ReadObject, ChainFacts
     DEF ReadObject, LocalOK, TypeOK, States, Places, Exceptions, Objects, inner, others,
         locals, excep
<1>CloseObject. ASSUME NEW r \in Runners, CloseObject(r) PROVE LocalOK'
  BY <1>0, <1>CloseObject, ChainFacts
     DEF CloseObject, LocalOK, TypeOK, States, Places, Exceptions, Objects, inner, others,
         locals, excep
<1>SetState. ASSUME NEW r \in Runners, NEW b \in BOOLEAN, SetState(r, b) PROVE LocalOK'
  BY <1>SetState, <1>Other DEF SetState, inner, others, locals, excep
<1>SetStrategy. ASSUME NEW r \in Runners, NEW b \in BOOLEAN, SetStrategy(r, b) PROVE LocalOK'
  BY <1>SetStrategy, <1>Other DEF SetStrategy, inner, others, locals, excep
<1>Kill. CASE Kill
  BY <1>Kill, <1>Other DEF Kill, Stop, ChangeState, inner, others, locals, excep
<1>KillProcess. CASE KillProcess
  BY <1>KillProcess, <1>Other
     DEF KillProcess, Exit, Stop, ChangeState, inner, others, locals, excep
<1>Suspend. ASSUME NEW k \in Tokens, Suspend(k) PROVE LocalOK'
  BY <1>Suspend, <1>Other DEF Suspend, ChangeState, inner, others, locals, excep
<1>Resume. ASSUME NEW k \in Tokens, Resume(k) PROVE LocalOK'
  BY <1>Resume, <1>Other DEF Resume, ChangeState, inner, others, locals, excep
<1>CreateChannel. ASSUME NEW x \in Handlers, CreateChannel(x) PROVE LocalOK'
  BY <1>CreateChannel, <1>Other DEF CreateChannel, inner, others, locals, excep
<1>CloseChannel. ASSUME NEW x \in Handlers, CloseChannel(x) PROVE LocalOK'
  <2>1. [at |-> x, st |-> "closed"] \in Objects
    BY HandlersAssumption DEF Objects, Exceptionates
  <2>2. object' \in [Runners -> {None} \cup Objects]
    BY <1>0, <1>CloseChannel, <2>1 DEF CloseChannel, LocalOK
  <2>. QED
    BY <1>0, <1>CloseChannel, <2>2 DEF CloseChannel, LocalOK, locals
<1>Stutter. CASE UNCHANGED vars
  BY <1>Stutter, <1>Other DEF vars
<1>. QED
  BY <1>BlockException, <1>SendException, <1>SetChannelType, <1>SendNext, <1>Answered,
     <1>Unhandled, <1>KilledWhileWaiting, <1>LeaveBlocking, <1>DyingRun, <1>ExitAnswered,
     <1>ExceptionOver, <1>TakeContext, <1>Park, <1>Unpark, <1>EnterUser, <1>BreakDying, <1>Trap,
     <1>Syscall, <1>BlockInSyscall, <1>ExitSelf, <1>SyscallReturn, <1>Fault, <1>Terminate,
     <1>Unblocked, <1>CheckStatus, <1>SetupContext, <1>Start, <1>ReadObject, <1>CloseObject,
     <1>SetState, <1>SetStrategy, <1>Kill, <1>KillProcess, <1>Suspend, <1>Resume,
     <1>CreateChannel, <1>CloseChannel, <1>Stutter
     DEF Next, Runner

\* A runner keeps to its exception and to the turn of its chain.
LEMMA PlaceStep ==
  ASSUME IInv, [Next]_vars, NEW q \in Runners
  PROVE  PlaceInv(q)'
<1>0. LocalOK /\ PlaceInv(q)
  BY DEF IInv, BaseInv, TypeOK, LocalOK, Places, Exceptions, Objects
<1>1. state # None
  BY NoneAssumption DEF IInv, BaseInv, TypeOK, States
<1>Other. ASSUME UNCHANGED <<pc, old_state, exc, pos, object>> PROVE PlaceInv(q)'
  BY <1>0, <1>Other DEF PlaceInv, Offering, LocalOK
<1>BlockException. ASSUME NEW r \in Runners, BlockException(r) PROVE PlaceInv(q)'
  BY <1>0, <1>BlockException, NoneAssumption, <1>1
     DEF BlockException, EnterBlocking, ReplaceKiller, Goto, ChangeState, State, Visible,
         PlaceInv, Offering, LocalOK, inner, others, locals, excep
<1>SendException. ASSUME NEW r \in Runners, SendException(r) PROVE PlaceInv(q)'
  <2>1. PICK x \in Exceptionates : x = Chain(exc[r])[pos[r]]
    BY <1>0, <1>SendException, TurnFacts DEF SendException, IInv, BaseInv
  <2>2. [at |-> x, st |-> "queued"] \in Objects
    BY DEF Objects
  <2>3. pos[r] \in 1 .. Len(Chain(exc[r]))
    BY <1>0, <1>SendException, TurnFacts DEF SendException, IInv, BaseInv
  <2>. QED
    BY <1>0, <1>SendException, <2>1, <2>2, <2>3
       DEF SendException, Goto, PlaceInv, Offering, LocalOK, inner, locals
<1>SetChannelType. ASSUME NEW r \in Runners, SetChannelType(r) PROVE PlaceInv(q)'
  BY <1>0, <1>SetChannelType, NoneAssumption
     DEF SetChannelType, Goto, PlaceInv, Offering, LocalOK, inner, others, locals, excep
<1>SendNext. ASSUME NEW r \in Runners, SendNext(r) PROVE PlaceInv(q)'
  BY <1>0, <1>SendNext, NoneAssumption
     DEF SendNext, Goto, PlaceInv, Offering, LocalOK, inner, others, locals, excep
<1>Answered. ASSUME NEW r \in Runners, Answered(r) PROVE PlaceInv(q)'
  BY <1>0, <1>Answered, NoneAssumption
     DEF Answered, Goto, PlaceInv, Offering, LocalOK, inner, others, locals, excep
<1>Unhandled. ASSUME NEW r \in Runners, Unhandled(r) PROVE PlaceInv(q)'
  BY <1>0, <1>Unhandled, NoneAssumption
     DEF Unhandled, Goto, Exit, Stop, TakeKiller, ChangeState, State, Visible, PlaceInv,
         Offering, LocalOK, inner, others, locals, excep
<1>KilledWhileWaiting. ASSUME NEW r \in Runners, KilledWhileWaiting(r) PROVE PlaceInv(q)'
  BY <1>0, <1>KilledWhileWaiting, NoneAssumption
     DEF KilledWhileWaiting, Goto, PlaceInv, Offering, LocalOK, inner, others, locals, excep
<1>LeaveBlocking. ASSUME NEW r \in Runners, LeaveBlocking(r) PROVE PlaceInv(q)'
  BY <1>0, <1>LeaveBlocking, NoneAssumption
     DEF LeaveBlocking, ReplaceKiller, BlockedState, Goto, ChangeState, State, Visible,
         PlaceInv, Offering, LocalOK, inner, others, locals, excep
<1>DyingRun. ASSUME NEW r \in Runners, DyingRun(r) PROVE PlaceInv(q)'
  BY <1>0, <1>DyingRun, NoneAssumption
     DEF DyingRun, ReplaceKiller, Goto, PlaceInv, Offering, LocalOK, inner, others, locals,
         excep
<1>ExitAnswered. ASSUME NEW r \in Runners, ExitAnswered(r) PROVE PlaceInv(q)'
  BY <1>0, <1>ExitAnswered, NoneAssumption
     DEF ExitAnswered, Goto, PlaceInv, Offering, LocalOK, inner, others, locals, excep
<1>ExceptionOver. ASSUME NEW r \in Runners, ExceptionOver(r) PROVE PlaceInv(q)'
  BY <1>0, <1>ExceptionOver, NoneAssumption
     DEF ExceptionOver, Goto, Raise, PlaceInv, Offering, LocalOK, inner, others, locals, excep
<1>TakeContext. ASSUME NEW r \in Runners, TakeContext(r) PROVE PlaceInv(q)'
  BY <1>0, <1>TakeContext, NoneAssumption
     DEF TakeContext, Goto, State, Visible, PlaceInv, Offering, LocalOK, inner, others, locals,
         excep
<1>Park. ASSUME NEW r \in Runners, Park(r) PROVE PlaceInv(q)'
  BY <1>0, <1>Park, NoneAssumption
     DEF Park, State, Visible, PlaceInv, Offering, LocalOK, inner, others, locals, excep
<1>Unpark. ASSUME NEW r \in Runners, Unpark(r) PROVE PlaceInv(q)'
  BY <1>0, <1>Unpark, NoneAssumption
     DEF Unpark, Goto, PlaceInv, Offering, LocalOK, inner, others, locals, excep
<1>EnterUser. ASSUME NEW r \in Runners, EnterUser(r) PROVE PlaceInv(q)'
  BY <1>0, <1>EnterUser, NoneAssumption
     DEF EnterUser, Goto, State, Visible, PlaceInv, Offering, LocalOK, inner, others, locals,
         excep
<1>BreakDying. ASSUME NEW r \in Runners, BreakDying(r) PROVE PlaceInv(q)'
  BY <1>0, <1>BreakDying, NoneAssumption
     DEF BreakDying, Goto, Raise, State, Visible, PlaceInv, Offering, LocalOK, inner, others,
         locals, excep
<1>Trap. ASSUME NEW r \in Runners, Trap(r) PROVE PlaceInv(q)'
  BY <1>0, <1>Trap, NoneAssumption
     DEF Trap, Goto, PutContext, ChangeState, State, Visible, PlaceInv, Offering, LocalOK,
         inner, others, locals, excep
<1>Syscall. ASSUME NEW r \in Runners, Syscall(r) PROVE PlaceInv(q)'
  BY <1>0, <1>Syscall, NoneAssumption
     DEF Syscall, Goto, PlaceInv, Offering, LocalOK, inner, others, locals, excep
<1>BlockInSyscall. ASSUME NEW r \in Runners, BlockInSyscall(r) PROVE PlaceInv(q)'
  BY <1>0, <1>BlockInSyscall, NoneAssumption, <1>1
     DEF BlockInSyscall, EnterBlocking, ReplaceKiller, Goto, ChangeState, State, Visible,
         PlaceInv, Offering, LocalOK, inner, others, locals, excep
<1>ExitSelf. ASSUME NEW r \in Runners, ExitSelf(r) PROVE PlaceInv(q)'
  BY <1>0, <1>ExitSelf, NoneAssumption
     DEF ExitSelf, Goto, Stop, TakeKiller, ChangeState, State, Visible, PlaceInv, Offering,
         LocalOK, inner, others, locals, excep
<1>SyscallReturn. ASSUME NEW r \in Runners, SyscallReturn(r) PROVE PlaceInv(q)'
  <2>1. CASE Raise(r, "ThreadExiting") /\ Goto(r, "exitsend")
    BY <1>0, <1>SyscallReturn, <2>1, NoneAssumption
       DEF SyscallReturn, Goto, Raise, PlaceInv, Offering, LocalOK
  <2>2. CASE UNCHANGED <<exc, pos, excep>> /\ Goto(r, "wait")
    BY <1>0, <1>SyscallReturn, <2>2 DEF SyscallReturn, Goto, PlaceInv, Offering, LocalOK, excep
  <2>. QED
    BY <1>SyscallReturn, <2>1, <2>2 DEF SyscallReturn
<1>Fault. ASSUME NEW r \in Runners, Fault(r) PROVE PlaceInv(q)'
  BY <1>0, <1>Fault, NoneAssumption
     DEF Fault, Goto, Raise, PlaceInv, Offering, LocalOK, inner, others, locals, excep
<1>Terminate. ASSUME NEW r \in Runners, Terminate(r) PROVE PlaceInv(q)'
  BY <1>0, <1>Terminate, NoneAssumption
     DEF Terminate, Goto, ChangeState, PlaceInv, Offering, LocalOK, inner, others, locals, excep
<1>Unblocked. ASSUME NEW r \in Runners, Unblocked(r) PROVE PlaceInv(q)'
  BY <1>0, <1>Unblocked, NoneAssumption
     DEF Unblocked, Goto, PlaceInv, Offering, LocalOK, inner, others, locals, excep
<1>CheckStatus. ASSUME NEW r \in Runners, CheckStatus(r) PROVE PlaceInv(q)'
  BY <1>0, <1>CheckStatus, NoneAssumption
     DEF CheckStatus, Goto, PlaceInv, Offering, LocalOK, inner, others, locals, excep
<1>SetupContext. ASSUME NEW r \in Runners, SetupContext(r) PROVE PlaceInv(q)'
  BY <1>0, <1>SetupContext, NoneAssumption
     DEF SetupContext, Goto, PlaceInv, Offering, LocalOK, inner, others, locals, excep
<1>Start. ASSUME NEW r \in Runners, Start(r) PROVE PlaceInv(q)'
  BY <1>0, <1>Start, NoneAssumption
     DEF Start, Goto, Raise, ChangeState, PlaceInv, Offering, LocalOK, inner, others, locals,
         excep
<1>ReadObject. ASSUME NEW r \in Runners, ReadObject(r) PROVE PlaceInv(q)'
  <2>1. object[r] \in Objects /\ object' = [object EXCEPT ![r] = [object[r] EXCEPT !.st = "held"]]
    BY <1>0, <1>ReadObject DEF ReadObject, LocalOK
  <2>2. [object[r] EXCEPT !.st = "held"] \in Objects
    BY <2>1 DEF Objects
  <2>3. UNCHANGED <<pc, old_state, exc, pos>> /\ (object[q] \in Objects => object'[q] \in Objects)
    BY <1>0, <1>ReadObject, <2>1, <2>2 DEF ReadObject, LocalOK, locals
  <2>. QED
    BY <1>0, <2>3 DEF PlaceInv, Offering
<1>CloseObject. ASSUME NEW r \in Runners, CloseObject(r) PROVE PlaceInv(q)'
  <2>1. object[r] \in Objects /\ object' = [object EXCEPT ![r] = [object[r] EXCEPT !.st = "closed"]]
    BY <1>0, <1>CloseObject DEF CloseObject, LocalOK
  <2>2. [object[r] EXCEPT !.st = "closed"] \in Objects
    BY <2>1 DEF Objects
  <2>3. UNCHANGED <<pc, old_state, exc, pos>> /\ (object[q] \in Objects => object'[q] \in Objects)
    BY <1>0, <1>CloseObject, <2>1, <2>2 DEF CloseObject, LocalOK, locals
  <2>. QED
    BY <1>0, <2>3 DEF PlaceInv, Offering
<1>SetState. ASSUME NEW r \in Runners, NEW b \in BOOLEAN, SetState(r, b) PROVE PlaceInv(q)'
  BY <1>SetState, <1>Other DEF SetState, inner, others, locals, excep
<1>SetStrategy. ASSUME NEW r \in Runners, NEW b \in BOOLEAN, SetStrategy(r, b)
                PROVE  PlaceInv(q)'
  BY <1>SetStrategy, <1>Other DEF SetStrategy, inner, others, locals, excep
<1>Kill. CASE Kill
  BY <1>Kill, <1>Other DEF Kill, Stop, ChangeState, inner, others, locals, excep
<1>KillProcess. CASE KillProcess
  BY <1>KillProcess, <1>Other
     DEF KillProcess, Exit, Stop, ChangeState, inner, others, locals, excep
<1>Suspend. ASSUME NEW k \in Tokens, Suspend(k) PROVE PlaceInv(q)'
  BY <1>Suspend, <1>Other DEF Suspend, ChangeState, inner, others, locals, excep
<1>Resume. ASSUME NEW k \in Tokens, Resume(k) PROVE PlaceInv(q)'
  BY <1>Resume, <1>Other DEF Resume, ChangeState, inner, others, locals, excep
<1>CreateChannel. ASSUME NEW x \in Handlers, CreateChannel(x) PROVE PlaceInv(q)'
  BY <1>CreateChannel, <1>Other DEF CreateChannel, inner, others, locals, excep
<1>CloseChannel. ASSUME NEW x \in Handlers, CloseChannel(x) PROVE PlaceInv(q)'
  <2>1. [at |-> x, st |-> "closed"] \in Objects
    BY HandlersAssumption DEF Objects, Exceptionates
  <2>2. UNCHANGED <<pc, old_state, exc, pos>> /\ (object[q] \in Objects => object'[q] \in Objects)
    BY <1>0, <1>CloseChannel, <2>1 DEF CloseChannel, LocalOK, locals
  <2>. QED
    BY <1>0, <2>2 DEF PlaceInv, Offering
<1>Stutter. CASE UNCHANGED vars
  BY <1>Stutter, <1>Other DEF vars
<1>. QED
  BY <1>BlockException, <1>SendException, <1>SetChannelType, <1>SendNext, <1>Answered,
     <1>Unhandled, <1>KilledWhileWaiting, <1>LeaveBlocking, <1>DyingRun, <1>ExitAnswered,
     <1>ExceptionOver, <1>TakeContext, <1>Park, <1>Unpark, <1>EnterUser, <1>BreakDying, <1>Trap,
     <1>Syscall, <1>BlockInSyscall, <1>ExitSelf, <1>SyscallReturn, <1>Fault, <1>Terminate,
     <1>Unblocked, <1>CheckStatus, <1>SetupContext, <1>Start, <1>ReadObject, <1>CloseObject,
     <1>SetState, <1>SetStrategy, <1>Kill, <1>KillProcess, <1>Suspend, <1>Resume,
     <1>CreateChannel, <1>CloseChannel, <1>Stutter
     DEF Next, Runner

\* A token is counted when it is made and when it is dropped.
LEMMA CountStep ==
  ASSUME IInv, [Next]_vars
  PROVE  CountInv'
<1>0. CountInv
  BY DEF IInv, BaseInv
<1>Other. ASSUME UNCHANGED <<suspended, suspend_count>> PROVE CountInv'
  BY <1>0, <1>Other DEF CountInv
<1>BlockException. ASSUME NEW r \in Runners, BlockException(r) PROVE CountInv'
  BY <1>BlockException, <1>Other
     DEF BlockException, EnterBlocking, Goto, ChangeState, inner, others, locals, excep
<1>SendException. ASSUME NEW r \in Runners, SendException(r) PROVE CountInv'
  BY <1>SendException, <1>Other DEF SendException, Goto, inner, others, locals, excep
<1>SetChannelType. ASSUME NEW r \in Runners, SetChannelType(r) PROVE CountInv'
  BY <1>SetChannelType, <1>Other DEF SetChannelType, Goto, inner, others, locals, excep
<1>SendNext. ASSUME NEW r \in Runners, SendNext(r) PROVE CountInv'
  BY <1>SendNext, <1>Other DEF SendNext, Goto, inner, others, locals, excep
<1>Answered. ASSUME NEW r \in Runners, Answered(r) PROVE CountInv'
  BY <1>Answered, <1>Other DEF Answered, Goto, inner, others, locals, excep
<1>Unhandled. ASSUME NEW r \in Runners, Unhandled(r) PROVE CountInv'
  BY <1>Unhandled, <1>Other
     DEF Unhandled, Goto, Exit, Stop, ChangeState, inner, others, locals, excep
<1>KilledWhileWaiting. ASSUME NEW r \in Runners, KilledWhileWaiting(r) PROVE CountInv'
  BY <1>KilledWhileWaiting, <1>Other DEF KilledWhileWaiting, Goto, inner, others, locals, excep
<1>LeaveBlocking. ASSUME NEW r \in Runners, LeaveBlocking(r) PROVE CountInv'
  BY <1>LeaveBlocking, <1>Other
     DEF LeaveBlocking, Goto, ChangeState, inner, others, locals, excep
<1>DyingRun. ASSUME NEW r \in Runners, DyingRun(r) PROVE CountInv'
  BY <1>DyingRun, <1>Other DEF DyingRun, Goto, inner, others, locals, excep
<1>ExitAnswered. ASSUME NEW r \in Runners, ExitAnswered(r) PROVE CountInv'
  BY <1>ExitAnswered, <1>Other DEF ExitAnswered, Goto, inner, others, locals, excep
<1>ExceptionOver. ASSUME NEW r \in Runners, ExceptionOver(r) PROVE CountInv'
  BY <1>ExceptionOver, <1>Other DEF ExceptionOver, Goto, Raise, inner, others, locals, excep
<1>TakeContext. ASSUME NEW r \in Runners, TakeContext(r) PROVE CountInv'
  BY <1>TakeContext, <1>Other DEF TakeContext, Goto, inner, others, locals, excep
<1>Park. ASSUME NEW r \in Runners, Park(r) PROVE CountInv'
  BY <1>Park, <1>Other DEF Park, inner, others, locals, excep
<1>Unpark. ASSUME NEW r \in Runners, Unpark(r) PROVE CountInv'
  BY <1>Unpark, <1>Other DEF Unpark, Goto, inner, others, locals, excep
<1>EnterUser. ASSUME NEW r \in Runners, EnterUser(r) PROVE CountInv'
  BY <1>EnterUser, <1>Other DEF EnterUser, Goto, inner, others, locals, excep
<1>BreakDying. ASSUME NEW r \in Runners, BreakDying(r) PROVE CountInv'
  BY <1>BreakDying, <1>Other DEF BreakDying, Goto, Raise, inner, others, locals, excep
<1>Trap. ASSUME NEW r \in Runners, Trap(r) PROVE CountInv'
  BY <1>Trap, <1>Other DEF Trap, Goto, PutContext, ChangeState, inner, others, locals, excep
<1>Syscall. ASSUME NEW r \in Runners, Syscall(r) PROVE CountInv'
  BY <1>Syscall, <1>Other DEF Syscall, Goto, inner, others, locals, excep
<1>BlockInSyscall. ASSUME NEW r \in Runners, BlockInSyscall(r) PROVE CountInv'
  BY <1>BlockInSyscall, <1>Other
     DEF BlockInSyscall, EnterBlocking, Goto, ChangeState, inner, others, locals, excep
<1>ExitSelf. ASSUME NEW r \in Runners, ExitSelf(r) PROVE CountInv'
  BY <1>ExitSelf, <1>Other DEF ExitSelf, Goto, Stop, ChangeState, inner, others, locals, excep
<1>SyscallReturn. ASSUME NEW r \in Runners, SyscallReturn(r) PROVE CountInv'
  BY <1>SyscallReturn, <1>Other DEF SyscallReturn, Goto, Raise, inner, others, locals, excep
<1>Fault. ASSUME NEW r \in Runners, Fault(r) PROVE CountInv'
  BY <1>Fault, <1>Other DEF Fault, Goto, Raise, inner, others, locals, excep
<1>Terminate. ASSUME NEW r \in Runners, Terminate(r) PROVE CountInv'
  BY <1>Terminate, <1>Other DEF Terminate, Goto, ChangeState, inner, others, locals, excep
<1>Unblocked. ASSUME NEW r \in Runners, Unblocked(r) PROVE CountInv'
  BY <1>Unblocked, <1>Other DEF Unblocked, Goto, inner, others, locals, excep
<1>CheckStatus. ASSUME NEW r \in Runners, CheckStatus(r) PROVE CountInv'
  BY <1>CheckStatus, <1>Other DEF CheckStatus, Goto, inner, others, locals, excep
<1>SetupContext. ASSUME NEW r \in Runners, SetupContext(r) PROVE CountInv'
  BY <1>SetupContext, <1>Other DEF SetupContext, Goto, inner, others, locals, excep
<1>Start. ASSUME NEW r \in Runners, Start(r) PROVE CountInv'
  BY <1>Start, <1>Other DEF Start, Goto, Raise, ChangeState, inner, others, locals, excep
<1>ReadObject. ASSUME NEW r \in Runners, ReadObject(r) PROVE CountInv'
  BY <1>ReadObject, <1>Other DEF ReadObject, inner, others, locals, excep
<1>CloseObject. ASSUME NEW r \in Runners, CloseObject(r) PROVE CountInv'
  BY <1>CloseObject, <1>Other DEF CloseObject, inner, others, locals, excep
<1>SetState. ASSUME NEW r \in Runners, NEW b \in BOOLEAN, SetState(r, b) PROVE CountInv'
  BY <1>SetState, <1>Other DEF SetState, inner, others, locals, excep
<1>SetStrategy. ASSUME NEW r \in Runners, NEW b \in BOOLEAN, SetStrategy(r, b) PROVE CountInv'
  BY <1>SetStrategy, <1>Other DEF SetStrategy, inner, others, locals, excep
<1>Kill. CASE Kill
  BY <1>Kill, <1>Other DEF Kill, Stop, ChangeState, inner, others, locals, excep
<1>KillProcess. CASE KillProcess
  BY <1>KillProcess, <1>Other
     DEF KillProcess, Exit, Stop, ChangeState, inner, others, locals, excep
<1>Suspend. ASSUME NEW k \in Tokens, Suspend(k) PROVE CountInv'
  BY <1>0, <1>Suspend, FS_AddElement, FS_RemoveElement
     DEF Suspend, ChangeState, State, Visible, CountInv, inner, others, locals, excep
<1>Resume. ASSUME NEW k \in Tokens, Resume(k) PROVE CountInv'
  BY <1>0, <1>Resume, FS_AddElement, FS_RemoveElement
     DEF Resume, ChangeState, State, Visible, CountInv, inner, others, locals, excep
<1>CreateChannel. ASSUME NEW x \in Handlers, CreateChannel(x) PROVE CountInv'
  BY <1>CreateChannel, <1>Other DEF CreateChannel, inner, others, locals, excep
<1>CloseChannel. ASSUME NEW x \in Handlers, CloseChannel(x) PROVE CountInv'
  BY <1>CloseChannel, <1>Other DEF CloseChannel, inner, others, locals, excep
<1>Stutter. CASE UNCHANGED vars
  BY <1>Stutter, <1>Other DEF vars
<1>. QED
  BY <1>BlockException, <1>SendException, <1>SetChannelType, <1>SendNext, <1>Answered,
     <1>Unhandled, <1>KilledWhileWaiting, <1>LeaveBlocking, <1>DyingRun, <1>ExitAnswered,
     <1>ExceptionOver, <1>TakeContext, <1>Park, <1>Unpark, <1>EnterUser, <1>BreakDying, <1>Trap,
     <1>Syscall, <1>BlockInSyscall, <1>ExitSelf, <1>SyscallReturn, <1>Fault, <1>Terminate,
     <1>Unblocked, <1>CheckStatus, <1>SetupContext, <1>Start, <1>ReadObject, <1>CloseObject,
     <1>SetState, <1>SetStrategy, <1>Kill, <1>KillProcess, <1>Suspend, <1>Resume,
     <1>CreateChannel, <1>CloseChannel, <1>Stutter
     DEF Next, Runner

\* Every section that changes what is shown sets the signals.
LEMMA SignalsStep ==
  ASSUME IInv, [Next]_vars
  PROVE  SignalsMatch'
<1>0. TypeOK /\ SignalsMatch /\ CountInv
  BY DEF IInv, BaseInv
<1>Other. ASSUME UNCHANGED <<state, suspend_count, context, signals>> PROVE SignalsMatch'
  BY <1>0, <1>Other DEF SignalsMatch, State, Visible, TypeOK
<1>BlockException. ASSUME NEW r \in Runners, BlockException(r) PROVE SignalsMatch'
  BY <1>0, <1>BlockException, CountPositive
     DEF BlockException, EnterBlocking, ReplaceKiller, Goto, ChangeState, State, Visible,
         SignalsMatch, TypeOK, inner, others, locals, excep
<1>SendException. ASSUME NEW r \in Runners, SendException(r) PROVE SignalsMatch'
  BY <1>SendException, <1>Other DEF SendException, Goto, inner, others, locals, excep
<1>SetChannelType. ASSUME NEW r \in Runners, SetChannelType(r) PROVE SignalsMatch'
  BY <1>SetChannelType, <1>Other DEF SetChannelType, Goto, inner, others, locals, excep
<1>SendNext. ASSUME NEW r \in Runners, SendNext(r) PROVE SignalsMatch'
  BY <1>SendNext, <1>Other DEF SendNext, Goto, inner, others, locals, excep
<1>Answered. ASSUME NEW r \in Runners, Answered(r) PROVE SignalsMatch'
  BY <1>Answered, <1>Other DEF Answered, Goto, inner, others, locals, excep
<1>Unhandled. ASSUME NEW r \in Runners, Unhandled(r) PROVE SignalsMatch'
  BY <1>0, <1>Unhandled, CountPositive
     DEF Unhandled, Goto, Exit, Stop, TakeKiller, ChangeState, State, Visible, SignalsMatch,
         TypeOK, inner, others, locals, excep
<1>KilledWhileWaiting. ASSUME NEW r \in Runners, KilledWhileWaiting(r) PROVE SignalsMatch'
  BY <1>KilledWhileWaiting, <1>Other DEF KilledWhileWaiting, Goto, inner, others, locals, excep
<1>LeaveBlocking. ASSUME NEW r \in Runners, LeaveBlocking(r) PROVE SignalsMatch'
  BY <1>0, <1>LeaveBlocking, CountPositive
     DEF LeaveBlocking, ReplaceKiller, BlockedState, Goto, ChangeState, State, Visible,
         SignalsMatch, TypeOK, inner, others, locals, excep
<1>DyingRun. ASSUME NEW r \in Runners, DyingRun(r) PROVE SignalsMatch'
  BY <1>DyingRun, <1>Other DEF DyingRun, Goto, inner, others, locals, excep
<1>ExitAnswered. ASSUME NEW r \in Runners, ExitAnswered(r) PROVE SignalsMatch'
  BY <1>ExitAnswered, <1>Other DEF ExitAnswered, Goto, inner, others, locals, excep
<1>ExceptionOver. ASSUME NEW r \in Runners, ExceptionOver(r) PROVE SignalsMatch'
  BY <1>ExceptionOver, <1>Other DEF ExceptionOver, Goto, Raise, inner, others, locals, excep
<1>TakeContext. ASSUME NEW r \in Runners, TakeContext(r) PROVE SignalsMatch'
  BY <1>0, <1>TakeContext, CountPositive
     DEF TakeContext, Goto, State, Visible, SignalsMatch, TypeOK, inner, others, locals, excep
<1>Park. ASSUME NEW r \in Runners, Park(r) PROVE SignalsMatch'
  BY <1>Park, <1>Other DEF Park, inner, others, locals, excep
<1>Unpark. ASSUME NEW r \in Runners, Unpark(r) PROVE SignalsMatch'
  BY <1>Unpark, <1>Other DEF Unpark, Goto, inner, others, locals, excep
<1>EnterUser. ASSUME NEW r \in Runners, EnterUser(r) PROVE SignalsMatch'
  BY <1>EnterUser, <1>Other DEF EnterUser, Goto, inner, others, locals, excep
<1>BreakDying. ASSUME NEW r \in Runners, BreakDying(r) PROVE SignalsMatch'
  BY <1>BreakDying, <1>Other DEF BreakDying, Goto, Raise, inner, others, locals, excep
<1>Trap. ASSUME NEW r \in Runners, Trap(r) PROVE SignalsMatch'
  BY <1>0, <1>Trap, CountPositive
     DEF Trap, Goto, PutContext, ChangeState, State, Visible, SignalsMatch, TypeOK, inner,
         others, locals, excep
<1>Syscall. ASSUME NEW r \in Runners, Syscall(r) PROVE SignalsMatch'
  BY <1>Syscall, <1>Other DEF Syscall, Goto, inner, others, locals, excep
<1>BlockInSyscall. ASSUME NEW r \in Runners, BlockInSyscall(r) PROVE SignalsMatch'
  BY <1>0, <1>BlockInSyscall, CountPositive
     DEF BlockInSyscall, EnterBlocking, ReplaceKiller, Goto, ChangeState, State, Visible,
         SignalsMatch, TypeOK, inner, others, locals, excep
<1>ExitSelf. ASSUME NEW r \in Runners, ExitSelf(r) PROVE SignalsMatch'
  BY <1>0, <1>ExitSelf, CountPositive
     DEF ExitSelf, Goto, Stop, TakeKiller, ChangeState, State, Visible, SignalsMatch, TypeOK,
         inner, others, locals, excep
<1>SyscallReturn. ASSUME NEW r \in Runners, SyscallReturn(r) PROVE SignalsMatch'
  BY <1>SyscallReturn, <1>Other DEF SyscallReturn, Goto, Raise, inner, others, locals, excep
<1>Fault. ASSUME NEW r \in Runners, Fault(r) PROVE SignalsMatch'
  BY <1>Fault, <1>Other DEF Fault, Goto, Raise, inner, others, locals, excep
<1>Terminate. ASSUME NEW r \in Runners, Terminate(r) PROVE SignalsMatch'
  BY <1>0, <1>Terminate, CountPositive
     DEF Terminate, Goto, ChangeState, SignalsMatch, State, Visible, TypeOK, inner, others,
         locals, excep
<1>Unblocked. ASSUME NEW r \in Runners, Unblocked(r) PROVE SignalsMatch'
  BY <1>Unblocked, <1>Other DEF Unblocked, Goto, inner, others, locals, excep
<1>CheckStatus. ASSUME NEW r \in Runners, CheckStatus(r) PROVE SignalsMatch'
  BY <1>CheckStatus, <1>Other DEF CheckStatus, Goto, inner, others, locals, excep
<1>SetupContext. ASSUME NEW r \in Runners, SetupContext(r) PROVE SignalsMatch'
  BY <1>SetupContext, <1>Other DEF SetupContext, Goto, inner, others, locals, excep
<1>Start. ASSUME NEW r \in Runners, Start(r) PROVE SignalsMatch'
  BY <1>0, <1>Start, CountPositive
     DEF Start, Goto, Raise, ChangeState, SignalsMatch, State, Visible, TypeOK, inner, others,
         locals, excep
<1>ReadObject. ASSUME NEW r \in Runners, ReadObject(r) PROVE SignalsMatch'
  BY <1>ReadObject, <1>Other DEF ReadObject, inner, others, locals, excep
<1>CloseObject. ASSUME NEW r \in Runners, CloseObject(r) PROVE SignalsMatch'
  BY <1>CloseObject, <1>Other DEF CloseObject, inner, others, locals, excep
<1>SetState. ASSUME NEW r \in Runners, NEW b \in BOOLEAN, SetState(r, b) PROVE SignalsMatch'
  BY <1>SetState, <1>Other DEF SetState, inner, others, locals, excep
<1>SetStrategy. ASSUME NEW r \in Runners, NEW b \in BOOLEAN, SetStrategy(r, b)
                PROVE  SignalsMatch'
  BY <1>SetStrategy, <1>Other DEF SetStrategy, inner, others, locals, excep
<1>Kill. CASE Kill
  BY <1>0, <1>Kill, CountPositive
     DEF Kill, Stop, TakeKiller, ChangeState, State, Visible, SignalsMatch, TypeOK, inner,
         others, locals, excep
<1>KillProcess. CASE KillProcess
  BY <1>0, <1>KillProcess, CountPositive
     DEF KillProcess, Exit, Stop, TakeKiller, ChangeState, State, Visible, SignalsMatch, TypeOK,
         inner, others, locals, excep
<1>Suspend. ASSUME NEW k \in Tokens, Suspend(k) PROVE SignalsMatch'
  BY <1>0, <1>Suspend, CountPositive
     DEF Suspend, ChangeState, State, Visible, SignalsMatch, TypeOK, inner, others, locals,
         excep
<1>Resume. ASSUME NEW k \in Tokens, Resume(k) PROVE SignalsMatch'
  BY <1>0, <1>Resume, CountPositive
     DEF Resume, ChangeState, State, Visible, SignalsMatch, TypeOK, inner, others, locals, excep
<1>CreateChannel. ASSUME NEW x \in Handlers, CreateChannel(x) PROVE SignalsMatch'
  BY <1>CreateChannel, <1>Other DEF CreateChannel, inner, others, locals, excep
<1>CloseChannel. ASSUME NEW x \in Handlers, CloseChannel(x) PROVE SignalsMatch'
  BY <1>CloseChannel, <1>Other DEF CloseChannel, inner, others, locals, excep
<1>Stutter. CASE UNCHANGED vars
  BY <1>Stutter, <1>Other DEF vars
<1>. QED
  BY <1>BlockException, <1>SendException, <1>SetChannelType, <1>SendNext, <1>Answered,
     <1>Unhandled, <1>KilledWhileWaiting, <1>LeaveBlocking, <1>DyingRun, <1>ExitAnswered,
     <1>ExceptionOver, <1>TakeContext, <1>Park, <1>Unpark, <1>EnterUser, <1>BreakDying, <1>Trap,
     <1>Syscall, <1>BlockInSyscall, <1>ExitSelf, <1>SyscallReturn, <1>Fault, <1>Terminate,
     <1>Unblocked, <1>CheckStatus, <1>SetupContext, <1>Start, <1>ReadObject, <1>CloseObject,
     <1>SetState, <1>SetStrategy, <1>Kill, <1>KillProcess, <1>Suspend, <1>Resume,
     <1>CreateChannel, <1>CloseChannel, <1>Stutter
     DEF Next, Runner

\* The context moves, and is never copied.
LEMMA OneContextStep ==
  ASSUME IInv, [Next]_vars
  PROVE  OneContext'
<1>0. LocalOK /\ OneContext
  BY DEF IInv, BaseInv, TypeOK, LocalOK, Places, Exceptions, Objects
<1>Other. ASSUME UNCHANGED <<pc, context>> PROVE OneContext'
  BY <1>0, <1>Other DEF OneContext, LocalOK
<1>BlockException. ASSUME NEW r \in Runners, BlockException(r) PROVE OneContext'
  BY <1>0, <1>BlockException
     DEF BlockException, EnterBlocking, ReplaceKiller, Goto, ChangeState, State, Visible,
         OneContext, LocalOK, inner, others, locals, excep
<1>SendException. ASSUME NEW r \in Runners, SendException(r) PROVE OneContext'
  BY <1>0, <1>SendException
     DEF SendException, Goto, OneContext, LocalOK, inner, others, locals, excep
<1>SetChannelType. ASSUME NEW r \in Runners, SetChannelType(r) PROVE OneContext'
  BY <1>0, <1>SetChannelType
     DEF SetChannelType, Goto, OneContext, LocalOK, inner, others, locals, excep
<1>SendNext. ASSUME NEW r \in Runners, SendNext(r) PROVE OneContext'
  BY <1>0, <1>SendNext DEF SendNext, Goto, OneContext, LocalOK, inner, others, locals, excep
<1>Answered. ASSUME NEW r \in Runners, Answered(r) PROVE OneContext'
  BY <1>0, <1>Answered DEF Answered, Goto, OneContext, LocalOK, inner, others, locals, excep
<1>Unhandled. ASSUME NEW r \in Runners, Unhandled(r) PROVE OneContext'
  BY <1>0, <1>Unhandled
     DEF Unhandled, Goto, Exit, Stop, TakeKiller, ChangeState, State, Visible, OneContext,
         LocalOK, inner, others, locals, excep
<1>KilledWhileWaiting. ASSUME NEW r \in Runners, KilledWhileWaiting(r) PROVE OneContext'
  BY <1>0, <1>KilledWhileWaiting
     DEF KilledWhileWaiting, Goto, OneContext, LocalOK, inner, others, locals, excep
<1>LeaveBlocking. ASSUME NEW r \in Runners, LeaveBlocking(r) PROVE OneContext'
  BY <1>0, <1>LeaveBlocking
     DEF LeaveBlocking, ReplaceKiller, BlockedState, Goto, ChangeState, State, Visible,
         OneContext, LocalOK, inner, others, locals, excep
<1>DyingRun. ASSUME NEW r \in Runners, DyingRun(r) PROVE OneContext'
  BY <1>0, <1>DyingRun
     DEF DyingRun, ReplaceKiller, Goto, OneContext, LocalOK, inner, others, locals, excep
<1>ExitAnswered. ASSUME NEW r \in Runners, ExitAnswered(r) PROVE OneContext'
  BY <1>0, <1>ExitAnswered
     DEF ExitAnswered, Goto, OneContext, LocalOK, inner, others, locals, excep
<1>ExceptionOver. ASSUME NEW r \in Runners, ExceptionOver(r) PROVE OneContext'
  BY <1>0, <1>ExceptionOver
     DEF ExceptionOver, Goto, Raise, OneContext, LocalOK, inner, others, locals, excep
<1>TakeContext. ASSUME NEW r \in Runners, TakeContext(r) PROVE OneContext'
  BY <1>0, <1>TakeContext
     DEF TakeContext, Goto, State, Visible, OneContext, LocalOK, inner, others, locals, excep
<1>Park. ASSUME NEW r \in Runners, Park(r) PROVE OneContext'
  BY <1>0, <1>Park DEF Park, State, Visible, OneContext, LocalOK, inner, others, locals, excep
<1>Unpark. ASSUME NEW r \in Runners, Unpark(r) PROVE OneContext'
  BY <1>0, <1>Unpark DEF Unpark, Goto, OneContext, LocalOK, inner, others, locals, excep
<1>EnterUser. ASSUME NEW r \in Runners, EnterUser(r) PROVE OneContext'
  BY <1>0, <1>EnterUser
     DEF EnterUser, Goto, State, Visible, OneContext, LocalOK, inner, others, locals, excep
<1>BreakDying. ASSUME NEW r \in Runners, BreakDying(r) PROVE OneContext'
  BY <1>0, <1>BreakDying
     DEF BreakDying, Goto, Raise, State, Visible, OneContext, LocalOK, inner, others, locals,
         excep
<1>Trap. ASSUME NEW r \in Runners, Trap(r) PROVE OneContext'
  BY <1>0, <1>Trap
     DEF Trap, Goto, PutContext, ChangeState, State, Visible, OneContext, LocalOK, inner,
         others, locals, excep
<1>Syscall. ASSUME NEW r \in Runners, Syscall(r) PROVE OneContext'
  BY <1>0, <1>Syscall DEF Syscall, Goto, OneContext, LocalOK, inner, others, locals, excep
<1>BlockInSyscall. ASSUME NEW r \in Runners, BlockInSyscall(r) PROVE OneContext'
  BY <1>0, <1>BlockInSyscall
     DEF BlockInSyscall, EnterBlocking, ReplaceKiller, Goto, ChangeState, State, Visible,
         OneContext, LocalOK, inner, others, locals, excep
<1>ExitSelf. ASSUME NEW r \in Runners, ExitSelf(r) PROVE OneContext'
  BY <1>0, <1>ExitSelf
     DEF ExitSelf, Goto, Stop, TakeKiller, ChangeState, State, Visible, OneContext, LocalOK,
         inner, others, locals, excep
<1>SyscallReturn. ASSUME NEW r \in Runners, SyscallReturn(r) PROVE OneContext'
  BY <1>0, <1>SyscallReturn
     DEF SyscallReturn, Goto, Raise, OneContext, LocalOK, inner, others, locals, excep
<1>Fault. ASSUME NEW r \in Runners, Fault(r) PROVE OneContext'
  BY <1>0, <1>Fault DEF Fault, Goto, Raise, OneContext, LocalOK, inner, others, locals, excep
<1>Terminate. ASSUME NEW r \in Runners, Terminate(r) PROVE OneContext'
  BY <1>0, <1>Terminate
     DEF Terminate, Goto, ChangeState, OneContext, LocalOK, inner, others, locals, excep
<1>Unblocked. ASSUME NEW r \in Runners, Unblocked(r) PROVE OneContext'
  BY <1>0, <1>Unblocked DEF Unblocked, Goto, OneContext, LocalOK, inner, others, locals, excep
<1>CheckStatus. ASSUME NEW r \in Runners, CheckStatus(r) PROVE OneContext'
  BY <1>0, <1>CheckStatus
     DEF CheckStatus, Goto, OneContext, LocalOK, inner, others, locals, excep
<1>SetupContext. ASSUME NEW r \in Runners, SetupContext(r) PROVE OneContext'
  BY <1>0, <1>SetupContext
     DEF SetupContext, Goto, OneContext, LocalOK, inner, others, locals, excep
<1>Start. ASSUME NEW r \in Runners, Start(r) PROVE OneContext'
  BY <1>0, <1>Start
     DEF Start, Goto, Raise, ChangeState, OneContext, LocalOK, inner, others, locals, excep
<1>ReadObject. ASSUME NEW r \in Runners, ReadObject(r) PROVE OneContext'
  BY <1>ReadObject, <1>Other DEF ReadObject, inner, others, locals, excep
<1>CloseObject. ASSUME NEW r \in Runners, CloseObject(r) PROVE OneContext'
  BY <1>CloseObject, <1>Other DEF CloseObject, inner, others, locals, excep
<1>SetState. ASSUME NEW r \in Runners, NEW b \in BOOLEAN, SetState(r, b) PROVE OneContext'
  BY <1>SetState, <1>Other DEF SetState, inner, others, locals, excep
<1>SetStrategy. ASSUME NEW r \in Runners, NEW b \in BOOLEAN, SetStrategy(r, b) PROVE OneContext'
  BY <1>SetStrategy, <1>Other DEF SetStrategy, inner, others, locals, excep
<1>Kill. CASE Kill
  BY <1>Kill, <1>Other DEF Kill, Stop, ChangeState, inner, others, locals, excep
<1>KillProcess. CASE KillProcess
  BY <1>KillProcess, <1>Other
     DEF KillProcess, Exit, Stop, ChangeState, inner, others, locals, excep
<1>Suspend. ASSUME NEW k \in Tokens, Suspend(k) PROVE OneContext'
  BY <1>Suspend, <1>Other DEF Suspend, ChangeState, inner, others, locals, excep
<1>Resume. ASSUME NEW k \in Tokens, Resume(k) PROVE OneContext'
  BY <1>Resume, <1>Other DEF Resume, ChangeState, inner, others, locals, excep
<1>CreateChannel. ASSUME NEW x \in Handlers, CreateChannel(x) PROVE OneContext'
  BY <1>CreateChannel, <1>Other DEF CreateChannel, inner, others, locals, excep
<1>CloseChannel. ASSUME NEW x \in Handlers, CloseChannel(x) PROVE OneContext'
  BY <1>CloseChannel, <1>Other DEF CloseChannel, inner, others, locals, excep
<1>Stutter. CASE UNCHANGED vars
  BY <1>Stutter, <1>Other DEF vars
<1>. QED
  BY <1>BlockException, <1>SendException, <1>SetChannelType, <1>SendNext, <1>Answered,
     <1>Unhandled, <1>KilledWhileWaiting, <1>LeaveBlocking, <1>DyingRun, <1>ExitAnswered,
     <1>ExceptionOver, <1>TakeContext, <1>Park, <1>Unpark, <1>EnterUser, <1>BreakDying, <1>Trap,
     <1>Syscall, <1>BlockInSyscall, <1>ExitSelf, <1>SyscallReturn, <1>Fault, <1>Terminate,
     <1>Unblocked, <1>CheckStatus, <1>SetupContext, <1>Start, <1>ReadObject, <1>CloseObject,
     <1>SetState, <1>SetStrategy, <1>Kill, <1>KillProcess, <1>Suspend, <1>Resume,
     <1>CreateChannel, <1>CloseChannel, <1>Stutter
     DEF Next, Runner

-----------------------------------------------------------------------------
(* While the thread is started once                                          *)

\* The parts of the type invariant.
LEMMA Types ==
  ASSUME IInv
  PROVE  LocalOK /\ SharedOK /\ BoolOK
  BY DEF IInv, BaseInv, TypeOK, LocalOK, SharedOK, BoolOK, Places, Exceptions, Objects

\* The history only grows: the thread has not been started again before.
LEMMA NotBefore ==
  ASSUME [Next]_vars, ~restarted'
  PROVE  ~restarted
<1>1. ASSUME NEW r \in Runners, Runner(r) \/ Unblocked(r) PROVE restarted' = restarted
  BY <1>1
     DEF Runner, BlockException, SendException, SetChannelType, SendNext, Answered, Unhandled,
         KilledWhileWaiting, LeaveBlocking, DyingRun, ExitAnswered, ExceptionOver, TakeContext,
         Park, Unpark, EnterUser, BreakDying, Trap, Syscall, BlockInSyscall, ExitSelf,
         SyscallReturn, Fault, Terminate, Unblocked, others
<1>2. ASSUME NEW r \in Runners, Start(r) PROVE ~restarted
  BY <1>2 DEF Start
<1>. QED
  BY <1>1, <1>2
     DEF Next, CheckStatus, SetupContext, ReadObject, CloseObject, SetState, SetStrategy, Kill,
         KillProcess, Suspend, Resume, CreateChannel, CloseChannel, others, vars

\* Whoever takes a step of the loop runs.
LEMMA RunnerRuns ==
  ASSUME NEW r \in Runners, Runner(r) \/ Unblocked(r)
  PROVE  Runs(r)
  BY
     DEF Runner, BlockException, SendException, SetChannelType, SendNext, Answered, Unhandled,
         KilledWhileWaiting, LeaveBlocking, DyingRun, ExitAnswered, ExceptionOver, TakeContext,
         Park, Unpark, EnterUser, BreakDying, Trap, Syscall, BlockInSyscall, ExitSelf,
         SyscallReturn, Fault, Terminate, Unblocked, Runs

\* The runner that takes a step is the only one.
LEMMA Sole ==
  ASSUME IInv, [Next]_vars, ~restarted'
  PROVE  /\ OwnInv
         /\ \A r, q \in Runners : (Runner(r) \/ Unblocked(r)) /\ Runs(q)' => r = q
<1>1. OwnInv
  BY NotBefore DEF IInv
<1>2. ASSUME NEW r \in Runners, Runner(r) \/ Unblocked(r), NEW q \in Runners, Runs(q)'
      PROVE  r = q
  <2>1. CASE q # r /\ pc'[q] = pc[q]
    BY <1>1, <1>2, <2>1, RunnerRuns DEF OwnInv, SoleInv, Runs
  <2>2. CASE Park(r)
    <3>1. pc[r] = "wait" /\ Runs(r) /\ (q # r /\ q # waker => pc'[q] = pc[q])
      BY <2>2, Types DEF Park, Runs, LocalOK
    <3>2. q = waker => q = r
      BY <1>1, <3>1, NoneAssumption DEF OwnInv, SoleInv
    <3>. QED
      BY <2>1, <3>1, <3>2
  <2>3. CASE ~Park(r)
    <3>1. pc' = pc \/ \E p : Goto(r, p)
      BY <1>2, <2>3
         DEF Runner, BlockException, SendException, SetChannelType, SendNext, Answered,
             Unhandled, KilledWhileWaiting, LeaveBlocking, DyingRun, ExitAnswered,
             ExceptionOver, TakeContext, Park, Unpark, EnterUser, BreakDying, Trap, Syscall,
             BlockInSyscall, ExitSelf, SyscallReturn, Fault, Terminate, Unblocked, EnterBlocking
    <3>. QED
      BY <2>1, <3>1, Types DEF Goto, LocalOK
  <2>. QED
    BY <2>2, <2>3
<1>. QED
  BY <1>1, <1>2

\* The state shown follows the runner.
LEMMA StateStep ==
  ASSUME IInv, [Next]_vars, ~restarted', NEW q \in Runners, Runs(q)'
  PROVE  StateInv(q)'
<1>0. LocalOK /\ SharedOK /\ PlaceInv(q) /\ OwnInv /\ (Runs(q) => RunInv(q))
  BY Sole, Types DEF IInv, BaseInv, OwnInv
<1>Other. ASSUME UNCHANGED <<state, pc, exc, old_state>>, Runs(q) PROVE StateInv(q)'
  BY <1>0, <1>Other DEF RunInv, StateInv, Offering, Leaving, LocalOK, SharedOK, States, PlaceInv
<1>Runner. ASSUME NEW r \in Runners, Runner(r) \/ Unblocked(r) PROVE StateInv(q)'
  <2>0. r = q /\ Runs(q) /\ StateInv(q) /\ ContextInv(q) /\ FaultInv(q)
    BY <1>0, <1>Runner, Sole, RunnerRuns DEF RunInv
  <2>BlockException. CASE BlockException(q)
    BY <1>0, <2>0, <2>BlockException, NoneAssumption
       DEF BlockException, EnterBlocking, ReplaceKiller, Goto, ChangeState, State, Visible,
           StateInv, Offering, Leaving, LocalOK, SharedOK, States, PlaceInv, inner, others,
           locals, excep
  <2>SendException. CASE SendException(q)
    BY <1>0, <2>0, <2>SendException, NoneAssumption
       DEF SendException, Goto, StateInv, Offering, Leaving, LocalOK, SharedOK, States,
           PlaceInv, inner, others, locals, excep
  <2>SetChannelType. CASE SetChannelType(q)
    BY <1>0, <2>0, <2>SetChannelType, NoneAssumption
       DEF SetChannelType, Goto, StateInv, Offering, Leaving, LocalOK, SharedOK, States,
           PlaceInv, inner, others, locals, excep
  <2>SendNext. CASE SendNext(q)
    BY <1>0, <2>0, <2>SendNext, NoneAssumption
       DEF SendNext, Goto, StateInv, Offering, Leaving, LocalOK, SharedOK, States, PlaceInv,
           inner, others, locals, excep
  <2>Answered. CASE Answered(q)
    BY <1>0, <2>0, <2>Answered, NoneAssumption
       DEF Answered, Goto, StateInv, Offering, Leaving, LocalOK, SharedOK, States, PlaceInv,
           inner, others, locals, excep
  <2>Unhandled. CASE Unhandled(q)
    BY <1>0, <2>0, <2>Unhandled, NoneAssumption
       DEF Unhandled, Goto, Exit, Stop, TakeKiller, ChangeState, State, Visible, StateInv,
           Offering, Leaving, LocalOK, SharedOK, States, PlaceInv, inner, others, locals, excep
  <2>KilledWhileWaiting. CASE KilledWhileWaiting(q)
    BY <1>0, <2>0, <2>KilledWhileWaiting, NoneAssumption
       DEF KilledWhileWaiting, Goto, StateInv, Offering, Leaving, LocalOK, SharedOK, States,
           PlaceInv, inner, others, locals, excep
  <2>LeaveBlocking. CASE LeaveBlocking(q)
    BY <1>0, <2>0, <2>LeaveBlocking, NoneAssumption
       DEF LeaveBlocking, ReplaceKiller, BlockedState, Goto, ChangeState, State, Visible,
           StateInv, Offering, Leaving, LocalOK, SharedOK, States, PlaceInv, inner, others,
           locals, excep
  <2>DyingRun. CASE DyingRun(q)
    BY <1>0, <2>0, <2>DyingRun, NoneAssumption
       DEF DyingRun, ReplaceKiller, Goto, StateInv, Offering, Leaving, LocalOK, SharedOK,
           States, PlaceInv, inner, others, locals, excep
  <2>ExitAnswered. CASE ExitAnswered(q)
    BY <1>0, <2>0, <2>ExitAnswered, NoneAssumption
       DEF ExitAnswered, Goto, StateInv, Offering, Leaving, LocalOK, SharedOK, States, PlaceInv,
           inner, others, locals, excep
  <2>ExceptionOver. CASE ExceptionOver(q)
    BY <1>0, <2>0, <2>ExceptionOver, NoneAssumption
       DEF ExceptionOver, Goto, Raise, StateInv, Offering, Leaving, LocalOK, SharedOK, States,
           PlaceInv, inner, others, locals, excep
  <2>TakeContext. CASE TakeContext(q)
    BY <1>0, <2>0, <2>TakeContext, NoneAssumption
       DEF TakeContext, Goto, State, Visible, StateInv, Offering, Leaving, LocalOK, SharedOK,
           States, PlaceInv, ContextInv, inner, others, locals, excep
  <2>Park. CASE Park(q)
    BY <1>0, <2>0, <2>Park, NoneAssumption
       DEF Park, State, Visible, StateInv, Offering, Leaving, LocalOK, SharedOK, States,
           PlaceInv, inner, others, locals, excep
  <2>Unpark. CASE Unpark(q)
    BY <1>0, <2>0, <2>Unpark, NoneAssumption
       DEF Unpark, Goto, StateInv, Offering, Leaving, LocalOK, SharedOK, States, PlaceInv,
           inner, others, locals, excep
  <2>EnterUser. CASE EnterUser(q)
    BY <1>0, <2>0, <2>EnterUser, NoneAssumption
       DEF EnterUser, Goto, State, Visible, StateInv, Offering, Leaving, LocalOK, SharedOK,
           States, PlaceInv, inner, others, locals, excep
  <2>BreakDying. CASE BreakDying(q)
    BY <1>0, <2>0, <2>BreakDying, NoneAssumption
       DEF BreakDying, Goto, Raise, State, Visible, StateInv, Offering, Leaving, LocalOK,
           SharedOK, States, PlaceInv, inner, others, locals, excep
  <2>Trap. CASE Trap(q)
    BY <1>0, <2>0, <2>Trap, NoneAssumption
       DEF Trap, Goto, PutContext, ChangeState, State, Visible, StateInv, Offering, Leaving,
           LocalOK, SharedOK, States, PlaceInv, inner, others, locals, excep
  <2>Syscall. CASE Syscall(q)
    BY <1>0, <2>0, <2>Syscall, NoneAssumption
       DEF Syscall, Goto, StateInv, Offering, Leaving, LocalOK, SharedOK, States, PlaceInv,
           inner, others, locals, excep
  <2>BlockInSyscall. CASE BlockInSyscall(q)
    BY <1>0, <2>0, <2>BlockInSyscall, NoneAssumption
       DEF BlockInSyscall, EnterBlocking, ReplaceKiller, Goto, ChangeState, State, Visible,
           StateInv, Offering, Leaving, LocalOK, SharedOK, States, PlaceInv, inner, others,
           locals, excep
  <2>ExitSelf. CASE ExitSelf(q)
    BY <1>0, <2>0, <2>ExitSelf, NoneAssumption
       DEF ExitSelf, Goto, Stop, TakeKiller, ChangeState, State, Visible, StateInv, Offering,
           Leaving, LocalOK, SharedOK, States, PlaceInv, inner, others, locals, excep
  <2>SyscallReturn. CASE SyscallReturn(q)
    BY <1>0, <2>0, <2>SyscallReturn, NoneAssumption
       DEF SyscallReturn, Goto, Raise, StateInv, Offering, Leaving, LocalOK, SharedOK, States,
           PlaceInv, ContextInv, inner, others, locals, excep
  <2>Fault. CASE Fault(q)
    BY <1>0, <2>0, <2>Fault, NoneAssumption
       DEF Fault, Goto, Raise, StateInv, Offering, Leaving, LocalOK, SharedOK, States, PlaceInv,
           ContextInv, inner, others, locals, excep
  <2>Terminate. CASE Terminate(q)
    BY <1>0, <2>0, <2>Terminate, NoneAssumption
       DEF Terminate, Goto, ChangeState, StateInv, Offering, Leaving, LocalOK, SharedOK, States,
           PlaceInv, inner, others, locals, excep
  <2>Unblocked. CASE Unblocked(q)
    BY <1>0, <2>0, <2>Unblocked, NoneAssumption
       DEF Unblocked, Goto, StateInv, Offering, Leaving, LocalOK, SharedOK, States, PlaceInv,
           inner, others, locals, excep
  <2>. QED
    BY <1>Runner, <2>0, <2>BlockException, <2>SendException, <2>SetChannelType, <2>SendNext,
       <2>Answered, <2>Unhandled, <2>KilledWhileWaiting, <2>LeaveBlocking, <2>DyingRun,
       <2>ExitAnswered, <2>ExceptionOver, <2>TakeContext, <2>Park, <2>Unpark, <2>EnterUser,
       <2>BreakDying, <2>Trap, <2>Syscall, <2>BlockInSyscall, <2>ExitSelf, <2>SyscallReturn,
       <2>Fault, <2>Terminate, <2>Unblocked
       DEF Runner
<1>Start. CASE Start(q)
  BY <1>0, <1>Start, NoneAssumption
     DEF Start, Goto, Raise, ChangeState, OwnInv, SoleInv, Runs, StateInv, Offering, Leaving,
         LocalOK, SharedOK, States, PlaceInv
<1>Kill. CASE Kill
  BY <1>0, <1>Kill, NoneAssumption
     DEF Kill, Stop, TakeKiller, ChangeState, State, Visible, Runs, RunInv, StateInv, Offering,
         Leaving, LocalOK, SharedOK, States, PlaceInv, inner, others, locals, excep
<1>KillProcess. CASE KillProcess
  BY <1>0, <1>KillProcess, NoneAssumption
     DEF KillProcess, Exit, Stop, TakeKiller, ChangeState, State, Visible, Runs, RunInv,
         StateInv, Offering, Leaving, LocalOK, SharedOK, States, PlaceInv, inner, others,
         locals, excep
<1>ReadObject. ASSUME NEW r \in Runners, ReadObject(r) PROVE StateInv(q)'
  BY <1>ReadObject, <1>Other DEF ReadObject, Runs, inner, others, locals, excep
<1>CloseObject. ASSUME NEW r \in Runners, CloseObject(r) PROVE StateInv(q)'
  BY <1>CloseObject, <1>Other DEF CloseObject, Runs, inner, others, locals, excep
<1>SetState. ASSUME NEW r \in Runners, NEW b \in BOOLEAN, SetState(r, b) PROVE StateInv(q)'
  BY <1>SetState, <1>Other DEF SetState, Runs, inner, others, locals, excep
<1>SetStrategy. ASSUME NEW r \in Runners, NEW b \in BOOLEAN, SetStrategy(r, b)
                PROVE  StateInv(q)'
  BY <1>SetStrategy, <1>Other DEF SetStrategy, Runs, inner, others, locals, excep
<1>Suspend. ASSUME NEW k \in Tokens, Suspend(k) PROVE StateInv(q)'
  BY <1>Suspend, <1>Other DEF Suspend, ChangeState, Runs, inner, others, locals, excep
<1>Resume. ASSUME NEW k \in Tokens, Resume(k) PROVE StateInv(q)'
  BY <1>Resume, <1>Other DEF Resume, ChangeState, Runs, inner, others, locals, excep
<1>CreateChannel. ASSUME NEW x \in Handlers, CreateChannel(x) PROVE StateInv(q)'
  BY <1>CreateChannel, <1>Other DEF CreateChannel, Runs, inner, others, locals, excep
<1>CloseChannel. ASSUME NEW x \in Handlers, CloseChannel(x) PROVE StateInv(q)'
  BY <1>CloseChannel, <1>Other DEF CloseChannel, Runs, inner, others, locals, excep
<1>Idle. ASSUME NEW r \in Runners, CheckStatus(r) \/ SetupContext(r) PROVE StateInv(q)'
  <2>1. /\ UNCHANGED <<inner, restarted, locals, excep>> /\ r # q /\ Runs(q)
        /\ pc'[q] = pc[q]
    BY <1>0, <1>Idle DEF CheckStatus, SetupContext, Goto, Runs, LocalOK, others, locals, excep
  <2>. QED
    BY <1>0, <2>1
       DEF RunInv, StateInv, Offering, Leaving, LocalOK, SharedOK, States, PlaceInv, inner,
           locals, excep
<1>Stutter. CASE UNCHANGED vars
  BY <1>Stutter, <1>Other DEF vars, Runs
<1>Begin. ASSUME NEW r \in Runners, Start(r) PROVE StateInv(q)'
  <2>1. r = q
    BY <1>0, <1>Begin DEF Start, Goto, OwnInv, SoleInv, RunInv, StateInv, Runs, LocalOK
  <2>. QED
    BY <1>Begin, <1>Start, <2>1
<1>. QED
  BY <1>Runner, <1>Begin, <1>Idle, <1>Kill, <1>KillProcess, <1>ReadObject, <1>CloseObject,
     <1>SetState, <1>SetStrategy, <1>Suspend, <1>Resume, <1>CreateChannel, <1>CloseChannel,
     <1>Stutter
     DEF Next

\* The context follows the runner.
LEMMA ContextStep ==
  ASSUME IInv, [Next]_vars, ~restarted', NEW q \in Runners, Runs(q)'
  PROVE  ContextInv(q)'
<1>0. LocalOK /\ SharedOK /\ PlaceInv(q) /\ OwnInv /\ (Runs(q) => RunInv(q))
  BY Sole, Types DEF IInv, BaseInv, OwnInv
<1>Other. ASSUME UNCHANGED <<context, pc, exc>>, Runs(q) PROVE ContextInv(q)'
  BY <1>0, <1>Other DEF RunInv, ContextInv, Leaving, LocalOK
<1>Runner. ASSUME NEW r \in Runners, Runner(r) \/ Unblocked(r) PROVE ContextInv(q)'
  <2>0. r = q /\ Runs(q) /\ StateInv(q) /\ ContextInv(q) /\ FaultInv(q)
    BY <1>0, <1>Runner, Sole, RunnerRuns DEF RunInv
  <2>BlockException. CASE BlockException(q)
    BY <1>0, <2>0, <2>BlockException, NoneAssumption
       DEF BlockException, EnterBlocking, ReplaceKiller, Goto, ChangeState, State, Visible,
           ContextInv, Leaving, LocalOK, PlaceInv, Offering, inner, others, locals, excep
  <2>SendException. CASE SendException(q)
    BY <1>0, <2>0, <2>SendException, NoneAssumption
       DEF SendException, Goto, ContextInv, Leaving, LocalOK, inner, others, locals, excep
  <2>SetChannelType. CASE SetChannelType(q)
    BY <1>0, <2>0, <2>SetChannelType, NoneAssumption
       DEF SetChannelType, Goto, ContextInv, Leaving, LocalOK, inner, others, locals, excep
  <2>SendNext. CASE SendNext(q)
    BY <1>0, <2>0, <2>SendNext, NoneAssumption
       DEF SendNext, Goto, ContextInv, Leaving, LocalOK, PlaceInv, Offering, inner, others,
           locals, excep
  <2>Answered. CASE Answered(q)
    BY <1>0, <2>0, <2>Answered, NoneAssumption
       DEF Answered, Goto, ContextInv, Leaving, LocalOK, inner, others, locals, excep
  <2>Unhandled. CASE Unhandled(q)
    BY <1>0, <2>0, <2>Unhandled, NoneAssumption
       DEF Unhandled, Goto, Exit, Stop, TakeKiller, ChangeState, State, Visible, ContextInv,
           Leaving, LocalOK, inner, others, locals, excep
  <2>KilledWhileWaiting. CASE KilledWhileWaiting(q)
    BY <1>0, <2>0, <2>KilledWhileWaiting, NoneAssumption
       DEF KilledWhileWaiting, Goto, ContextInv, Leaving, LocalOK, PlaceInv, Offering, inner,
           others, locals, excep
  <2>LeaveBlocking. CASE LeaveBlocking(q)
    BY <1>0, <2>0, <2>LeaveBlocking, NoneAssumption
       DEF LeaveBlocking, ReplaceKiller, BlockedState, Goto, ChangeState, State, Visible,
           ContextInv, Leaving, LocalOK, PlaceInv, Offering, inner, others, locals, excep
  <2>DyingRun. CASE DyingRun(q)
    BY <1>0, <2>0, <2>DyingRun, NoneAssumption
       DEF DyingRun, ReplaceKiller, Goto, ContextInv, Leaving, LocalOK, PlaceInv, Offering,
           inner, others, locals, excep
  <2>ExitAnswered. CASE ExitAnswered(q)
    BY <1>0, <2>0, <2>ExitAnswered, NoneAssumption
       DEF ExitAnswered, Goto, ContextInv, Leaving, LocalOK, PlaceInv, Offering, inner, others,
           locals, excep
  <2>ExceptionOver. CASE ExceptionOver(q)
    BY <1>0, <2>0, <2>ExceptionOver, NoneAssumption
       DEF ExceptionOver, Goto, Raise, ContextInv, Leaving, LocalOK, inner, others, locals,
           excep
  <2>TakeContext. CASE TakeContext(q)
    BY <1>0, <2>0, <2>TakeContext, NoneAssumption
       DEF TakeContext, Goto, State, Visible, ContextInv, Leaving, LocalOK, inner, others,
           locals, excep
  <2>Park. CASE Park(q)
    BY <1>0, <2>0, <2>Park, NoneAssumption
       DEF Park, State, Visible, ContextInv, Leaving, LocalOK, inner, others, locals, excep
  <2>Unpark. CASE Unpark(q)
    BY <1>0, <2>0, <2>Unpark, NoneAssumption
       DEF Unpark, Goto, ContextInv, Leaving, LocalOK, inner, others, locals, excep
  <2>EnterUser. CASE EnterUser(q)
    BY <1>0, <2>0, <2>EnterUser, NoneAssumption
       DEF EnterUser, Goto, State, Visible, ContextInv, Leaving, LocalOK, inner, others, locals,
           excep
  <2>BreakDying. CASE BreakDying(q)
    BY <1>0, <2>0, <2>BreakDying, NoneAssumption
       DEF BreakDying, Goto, Raise, State, Visible, ContextInv, Leaving, LocalOK, inner, others,
           locals, excep
  <2>Trap. CASE Trap(q)
    BY <1>0, <2>0, <2>Trap, NoneAssumption
       DEF Trap, Goto, PutContext, ChangeState, State, Visible, ContextInv, Leaving, LocalOK,
           inner, others, locals, excep
  <2>Syscall. CASE Syscall(q)
    BY <1>0, <2>0, <2>Syscall, NoneAssumption
       DEF Syscall, Goto, ContextInv, Leaving, LocalOK, inner, others, locals, excep
  <2>BlockInSyscall. CASE BlockInSyscall(q)
    BY <1>0, <2>0, <2>BlockInSyscall, NoneAssumption
       DEF BlockInSyscall, EnterBlocking, ReplaceKiller, Goto, ChangeState, State, Visible,
           ContextInv, Leaving, LocalOK, inner, others, locals, excep
  <2>ExitSelf. CASE ExitSelf(q)
    BY <1>0, <2>0, <2>ExitSelf, NoneAssumption
       DEF ExitSelf, Goto, Stop, TakeKiller, ChangeState, State, Visible, ContextInv, Leaving,
           LocalOK, inner, others, locals, excep
  <2>SyscallReturn. CASE SyscallReturn(q)
    BY <1>0, <2>0, <2>SyscallReturn, NoneAssumption
       DEF SyscallReturn, Goto, Raise, ContextInv, Leaving, LocalOK, inner, others, locals,
           excep
  <2>Fault. CASE Fault(q)
    BY <1>0, <2>0, <2>Fault, NoneAssumption
       DEF Fault, Goto, Raise, ContextInv, Leaving, LocalOK, inner, others, locals, excep
  <2>Terminate. CASE Terminate(q)
    BY <1>0, <2>0, <2>Terminate, NoneAssumption
       DEF Terminate, Goto, ChangeState, ContextInv, Leaving, LocalOK, inner, others, locals,
           excep
  <2>Unblocked. CASE Unblocked(q)
    BY <1>0, <2>0, <2>Unblocked, NoneAssumption
       DEF Unblocked, Goto, ContextInv, Leaving, LocalOK, inner, others, locals, excep
  <2>. QED
    BY <1>Runner, <2>0, <2>BlockException, <2>SendException, <2>SetChannelType, <2>SendNext,
       <2>Answered, <2>Unhandled, <2>KilledWhileWaiting, <2>LeaveBlocking, <2>DyingRun,
       <2>ExitAnswered, <2>ExceptionOver, <2>TakeContext, <2>Park, <2>Unpark, <2>EnterUser,
       <2>BreakDying, <2>Trap, <2>Syscall, <2>BlockInSyscall, <2>ExitSelf, <2>SyscallReturn,
       <2>Fault, <2>Terminate, <2>Unblocked
       DEF Runner
<1>Start. CASE Start(q)
  <2>1. state = "New"
    BY <1>Start DEF Start
  <2>2. context
    BY <1>0, <2>1 DEF OwnInv, SoleInv, RunInv, StateInv
  <2>. QED
    BY <1>0, <1>Start, <2>2 DEF Start, Goto, Raise, ContextInv, Leaving, LocalOK
<1>Kill. CASE Kill
  BY <1>0, <1>Kill, NoneAssumption
     DEF Kill, Stop, TakeKiller, ChangeState, State, Visible, Runs, RunInv, ContextInv, Leaving,
         LocalOK, inner, others, locals, excep
<1>KillProcess. CASE KillProcess
  BY <1>0, <1>KillProcess, NoneAssumption
     DEF KillProcess, Exit, Stop, TakeKiller, ChangeState, State, Visible, Runs, RunInv,
         ContextInv, Leaving, LocalOK, inner, others, locals, excep
<1>ReadObject. ASSUME NEW r \in Runners, ReadObject(r) PROVE ContextInv(q)'
  BY <1>ReadObject, <1>Other DEF ReadObject, Runs, inner, others, locals, excep
<1>CloseObject. ASSUME NEW r \in Runners, CloseObject(r) PROVE ContextInv(q)'
  BY <1>CloseObject, <1>Other DEF CloseObject, Runs, inner, others, locals, excep
<1>SetState. ASSUME NEW r \in Runners, NEW b \in BOOLEAN, SetState(r, b) PROVE ContextInv(q)'
  BY <1>SetState, <1>Other DEF SetState, Runs, inner, others, locals, excep
<1>SetStrategy. ASSUME NEW r \in Runners, NEW b \in BOOLEAN, SetStrategy(r, b)
                PROVE  ContextInv(q)'
  BY <1>SetStrategy, <1>Other DEF SetStrategy, Runs, inner, others, locals, excep
<1>Suspend. ASSUME NEW k \in Tokens, Suspend(k) PROVE ContextInv(q)'
  BY <1>Suspend, <1>Other DEF Suspend, ChangeState, Runs, inner, others, locals, excep
<1>Resume. ASSUME NEW k \in Tokens, Resume(k) PROVE ContextInv(q)'
  BY <1>Resume, <1>Other DEF Resume, ChangeState, Runs, inner, others, locals, excep
<1>CreateChannel. ASSUME NEW x \in Handlers, CreateChannel(x) PROVE ContextInv(q)'
  BY <1>CreateChannel, <1>Other DEF CreateChannel, Runs, inner, others, locals, excep
<1>CloseChannel. ASSUME NEW x \in Handlers, CloseChannel(x) PROVE ContextInv(q)'
  BY <1>CloseChannel, <1>Other DEF CloseChannel, Runs, inner, others, locals, excep
<1>Idle. ASSUME NEW r \in Runners, CheckStatus(r) \/ SetupContext(r) PROVE ContextInv(q)'
  <2>1. /\ UNCHANGED <<inner, restarted, locals, excep>> /\ r # q /\ Runs(q)
        /\ pc'[q] = pc[q]
    BY <1>0, <1>Idle DEF CheckStatus, SetupContext, Goto, Runs, LocalOK, others, locals, excep
  <2>. QED
    BY <1>0, <2>1 DEF RunInv, ContextInv, Leaving, LocalOK, inner, locals, excep
<1>Stutter. CASE UNCHANGED vars
  BY <1>Stutter, <1>Other DEF vars, Runs
<1>Begin. ASSUME NEW r \in Runners, Start(r) PROVE ContextInv(q)'
  <2>1. r = q
    BY <1>0, <1>Begin DEF Start, Goto, OwnInv, SoleInv, RunInv, StateInv, Runs, LocalOK
  <2>. QED
    BY <1>Begin, <1>Start, <2>1
<1>. QED
  BY <1>Runner, <1>Begin, <1>Idle, <1>Kill, <1>KillProcess, <1>ReadObject, <1>CloseObject,
     <1>SetState, <1>SetStrategy, <1>Suspend, <1>Resume, <1>CreateChannel, <1>CloseChannel,
     <1>Stutter
     DEF Next

\* A fault is over when it is handled or the thread dies.
LEMMA FaultStep ==
  ASSUME IInv, [Next]_vars, ~restarted', NEW q \in Runners, Runs(q)'
  PROVE  FaultInv(q)'
<1>0. LocalOK /\ SharedOK /\ PlaceInv(q) /\ OwnInv /\ (Runs(q) => RunInv(q))
  BY Sole, Types DEF IInv, BaseInv, OwnInv
<1>Other. ASSUME UNCHANGED <<state, pc, exc, handled, object>>, Runs(q) PROVE FaultInv(q)'
  BY <1>0, <1>Other DEF RunInv, FaultInv, LocalOK
<1>Runner. ASSUME NEW r \in Runners, Runner(r) \/ Unblocked(r) PROVE FaultInv(q)'
  <2>0. r = q /\ Runs(q) /\ StateInv(q) /\ ContextInv(q) /\ FaultInv(q)
    BY <1>0, <1>Runner, Sole, RunnerRuns DEF RunInv
  <2>BlockException. CASE BlockException(q)
    BY <1>0, <2>0, <2>BlockException, NoneAssumption
       DEF BlockException, EnterBlocking, ReplaceKiller, Goto, ChangeState, State, Visible,
           FaultInv, LocalOK, inner, others, locals, excep
  <2>SendException. CASE SendException(q)
    BY <1>0, <2>0, <2>SendException, NoneAssumption
       DEF SendException, Goto, FaultInv, LocalOK, inner, others, locals, excep
  <2>SetChannelType. CASE SetChannelType(q)
    BY <1>0, <2>0, <2>SetChannelType, NoneAssumption
       DEF SetChannelType, Goto, FaultInv, LocalOK, inner, others, locals, excep
  <2>SendNext. CASE SendNext(q)
    BY <1>0, <2>0, <2>SendNext, NoneAssumption
       DEF SendNext, Goto, FaultInv, LocalOK, PlaceInv, Offering, inner, others, locals, excep
  <2>Answered. CASE Answered(q)
    BY <1>0, <2>0, <2>Answered, NoneAssumption
       DEF Answered, Goto, FaultInv, LocalOK, FirstOnly, inner, others, locals, excep
  <2>Unhandled. CASE Unhandled(q)
    <3>1. CASE IsSynth(exc[q])
      BY <1>0, <2>Unhandled, <3>1 DEF Unhandled, Goto, IsSynth, FaultInv, LocalOK
    <3>2. CASE ~IsSynth(exc[q])
      <4>1. state \in {"BlockedException", "Dying"}
        BY <2>0, <2>Unhandled DEF Unhandled, StateInv, Offering
      <4>2. state' = "Dying"
        BY <1>0, <2>Unhandled, <3>2, <4>1
           DEF Unhandled, Exit, Stop, ChangeState, OwnInv, SoleInv, inner
      <4>. QED
        BY <4>2 DEF FaultInv
    <3>. QED
      BY <3>1, <3>2
  <2>KilledWhileWaiting. CASE KilledWhileWaiting(q)
    <3>1. state \in {"Dying", "Dead"} /\ state' = state
      BY <1>0, <2>KilledWhileWaiting DEF KilledWhileWaiting, OwnInv, SoleInv, inner
    <3>2. pc[q] # "dead"
      BY <2>KilledWhileWaiting DEF KilledWhileWaiting
    <3>. QED
      BY <2>0, <3>1, <3>2 DEF StateInv, FaultInv
  <2>LeaveBlocking. CASE LeaveBlocking(q)
    BY <1>0, <2>0, <2>LeaveBlocking, NoneAssumption
       DEF LeaveBlocking, ReplaceKiller, BlockedState, Goto, ChangeState, State, Visible,
           FaultInv, LocalOK, inner, others, locals, excep
  <2>DyingRun. CASE DyingRun(q)
    BY <1>0, <2>0, <2>DyingRun, NoneAssumption
       DEF DyingRun, ReplaceKiller, Goto, FaultInv, LocalOK, PlaceInv, Offering, inner, others,
           locals, excep
  <2>ExitAnswered. CASE ExitAnswered(q)
    BY <1>0, <2>0, <2>ExitAnswered, NoneAssumption
       DEF ExitAnswered, Goto, FaultInv, LocalOK, PlaceInv, Offering, inner, others, locals,
           excep
  <2>ExceptionOver. CASE ExceptionOver(q)
    BY <1>0, <2>0, <2>ExceptionOver, NoneAssumption
       DEF ExceptionOver, Goto, Raise, FaultInv, LocalOK, inner, others, locals, excep
  <2>TakeContext. CASE TakeContext(q)
    BY <1>0, <2>0, <2>TakeContext, NoneAssumption
       DEF TakeContext, Goto, State, Visible, FaultInv, LocalOK, inner, others, locals, excep
  <2>Park. CASE Park(q)
    BY <1>0, <2>0, <2>Park, NoneAssumption
       DEF Park, State, Visible, FaultInv, LocalOK, inner, others, locals, excep
  <2>Unpark. CASE Unpark(q)
    BY <1>0, <2>0, <2>Unpark, NoneAssumption
       DEF Unpark, Goto, FaultInv, LocalOK, inner, others, locals, excep
  <2>EnterUser. CASE EnterUser(q)
    BY <1>0, <2>0, <2>EnterUser, NoneAssumption
       DEF EnterUser, Goto, State, Visible, FaultInv, LocalOK, inner, others, locals, excep
  <2>BreakDying. CASE BreakDying(q)
    BY <1>0, <2>0, <2>BreakDying, NoneAssumption
       DEF BreakDying, Goto, Raise, State, Visible, FaultInv, LocalOK, inner, others, locals,
           excep
  <2>Trap. CASE Trap(q)
    BY <1>0, <2>0, <2>Trap, NoneAssumption
       DEF Trap, Goto, PutContext, ChangeState, State, Visible, FaultInv, LocalOK, inner,
           others, locals, excep
  <2>Syscall. CASE Syscall(q)
    BY <1>0, <2>0, <2>Syscall, NoneAssumption
       DEF Syscall, Goto, FaultInv, LocalOK, inner, others, locals, excep
  <2>BlockInSyscall. CASE BlockInSyscall(q)
    BY <1>0, <2>0, <2>BlockInSyscall, NoneAssumption
       DEF BlockInSyscall, EnterBlocking, ReplaceKiller, Goto, ChangeState, State, Visible,
           FaultInv, LocalOK, inner, others, locals, excep
  <2>ExitSelf. CASE ExitSelf(q)
    BY <1>0, <2>0, <2>ExitSelf, NoneAssumption
       DEF ExitSelf, Goto, Stop, TakeKiller, ChangeState, State, Visible, FaultInv, LocalOK,
           inner, others, locals, excep
  <2>SyscallReturn. CASE SyscallReturn(q)
    BY <1>0, <2>0, <2>SyscallReturn, NoneAssumption
       DEF SyscallReturn, Goto, Raise, FaultInv, LocalOK, inner, others, locals, excep
  <2>Fault. CASE Fault(q)
    BY <1>0, <2>0, <2>Fault, NoneAssumption
       DEF Fault, Goto, Raise, FaultInv, LocalOK, inner, others, locals, excep
  <2>Terminate. CASE Terminate(q)
    BY <1>0, <2>0, <2>Terminate, NoneAssumption
       DEF Terminate, Goto, ChangeState, FaultInv, LocalOK, inner, others, locals, excep
  <2>Unblocked. CASE Unblocked(q)
    BY <1>0, <2>0, <2>Unblocked, NoneAssumption
       DEF Unblocked, Goto, FaultInv, LocalOK, PlaceInv, Offering, inner, others, locals, excep
  <2>. QED
    BY <1>Runner, <2>0, <2>BlockException, <2>SendException, <2>SetChannelType, <2>SendNext,
       <2>Answered, <2>Unhandled, <2>KilledWhileWaiting, <2>LeaveBlocking, <2>DyingRun,
       <2>ExitAnswered, <2>ExceptionOver, <2>TakeContext, <2>Park, <2>Unpark, <2>EnterUser,
       <2>BreakDying, <2>Trap, <2>Syscall, <2>BlockInSyscall, <2>ExitSelf, <2>SyscallReturn,
       <2>Fault, <2>Terminate, <2>Unblocked
       DEF Runner
<1>Start. CASE Start(q)
  BY <1>0, <1>Start, NoneAssumption
     DEF Start, Goto, Raise, ChangeState, OwnInv, SoleInv, Runs, FaultInv, LocalOK
<1>Kill. CASE Kill
  BY <1>0, <1>Kill, NoneAssumption
     DEF Kill, Stop, TakeKiller, ChangeState, State, Visible, Runs, RunInv, FaultInv, LocalOK,
         inner, others, locals, excep
<1>KillProcess. CASE KillProcess
  BY <1>0, <1>KillProcess, NoneAssumption
     DEF KillProcess, Exit, Stop, TakeKiller, ChangeState, State, Visible, Runs, RunInv,
         FaultInv, LocalOK, inner, others, locals, excep
<1>ReadObject. ASSUME NEW r \in Runners, ReadObject(r) PROVE FaultInv(q)'
  BY <1>0, <1>ReadObject, NoneAssumption
     DEF ReadObject, Runs, RunInv, FaultInv, LocalOK, inner, others, locals, excep
<1>CloseObject. ASSUME NEW r \in Runners, CloseObject(r) PROVE FaultInv(q)'
  BY <1>0, <1>CloseObject, NoneAssumption
     DEF CloseObject, Runs, RunInv, FaultInv, LocalOK, inner, others, locals, excep
<1>SetState. ASSUME NEW r \in Runners, NEW b \in BOOLEAN, SetState(r, b) PROVE FaultInv(q)'
  BY <1>0, <1>SetState, NoneAssumption
     DEF SetState, Runs, RunInv, FaultInv, LocalOK, inner, others, locals, excep
<1>SetStrategy. ASSUME NEW r \in Runners, NEW b \in BOOLEAN, SetStrategy(r, b)
                PROVE  FaultInv(q)'
  BY <1>SetStrategy, <1>Other DEF SetStrategy, Runs, inner, others, locals, excep
<1>Suspend. ASSUME NEW k \in Tokens, Suspend(k) PROVE FaultInv(q)'
  BY <1>Suspend, <1>Other DEF Suspend, ChangeState, Runs, inner, others, locals, excep
<1>Resume. ASSUME NEW k \in Tokens, Resume(k) PROVE FaultInv(q)'
  BY <1>Resume, <1>Other DEF Resume, ChangeState, Runs, inner, others, locals, excep
<1>CreateChannel. ASSUME NEW x \in Handlers, CreateChannel(x) PROVE FaultInv(q)'
  BY <1>CreateChannel, <1>Other DEF CreateChannel, Runs, inner, others, locals, excep
<1>CloseChannel. ASSUME NEW x \in Handlers, CloseChannel(x) PROVE FaultInv(q)'
  BY <1>0, <1>CloseChannel, NoneAssumption
     DEF CloseChannel, Runs, RunInv, FaultInv, LocalOK, inner, others, locals, excep
<1>Idle. ASSUME NEW r \in Runners, CheckStatus(r) \/ SetupContext(r) PROVE FaultInv(q)'
  <2>1. /\ UNCHANGED <<inner, restarted, locals, excep>> /\ r # q /\ Runs(q)
        /\ pc'[q] = pc[q]
    BY <1>0, <1>Idle DEF CheckStatus, SetupContext, Goto, Runs, LocalOK, others, locals, excep
  <2>. QED
    BY <1>0, <2>1 DEF RunInv, FaultInv, LocalOK, inner, locals, excep
<1>Stutter. CASE UNCHANGED vars
  BY <1>Stutter, <1>Other DEF vars, Runs
<1>Begin. ASSUME NEW r \in Runners, Start(r) PROVE FaultInv(q)'
  <2>1. r = q
    BY <1>0, <1>Begin DEF Start, Goto, OwnInv, SoleInv, RunInv, StateInv, Runs, LocalOK
  <2>. QED
    BY <1>Begin, <1>Start, <2>1
<1>. QED
  BY <1>Runner, <1>Begin, <1>Idle, <1>Kill, <1>KillProcess, <1>ReadObject, <1>CloseObject,
     <1>SetState, <1>SetStrategy, <1>Suspend, <1>Resume, <1>CreateChannel, <1>CloseChannel,
     <1>Stutter
     DEF Next

\* A runner goes on running, and stores no waker and no killer but its own.
LEMMA RunnerStays ==
  ASSUME LocalOK, NEW r \in Runners, Runner(r) \/ Unblocked(r)
  PROVE  Runs(r)' /\ killer' \in {None, killer, r} /\ waker' \in {None, waker, r}
<1>1. CASE Park(r)
  BY <1>1 DEF Park, Runs, LocalOK
<1>2. CASE Unhandled(r) \/ ExitSelf(r)
  BY <1>2 DEF Unhandled, ExitSelf, Exit, Stop, Goto, Runs, LocalOK, inner
<1>3. CASE BlockException(r) \/ BlockInSyscall(r) \/ LeaveBlocking(r) \/ DyingRun(r)
  BY <1>3 DEF BlockException, BlockInSyscall, LeaveBlocking, DyingRun, EnterBlocking, Goto,
              Runs, LocalOK
<1>4. CASE SendException(r) \/ SetChannelType(r) \/ SendNext(r) \/ Answered(r)
           \/ KilledWhileWaiting(r) \/ ExitAnswered(r) \/ ExceptionOver(r)
  BY <1>4 DEF SendException, SetChannelType, SendNext, Answered, KilledWhileWaiting,
              ExitAnswered, ExceptionOver, Goto, Runs, LocalOK, inner
<1>5. CASE TakeContext(r) \/ Unpark(r) \/ EnterUser(r) \/ BreakDying(r) \/ Trap(r)
  BY <1>5 DEF TakeContext, Unpark, EnterUser, BreakDying, Trap, PutContext, Goto, Runs,
              LocalOK, inner
<1>6. CASE Syscall(r) \/ SyscallReturn(r) \/ Fault(r) \/ Terminate(r) \/ Unblocked(r)
  BY <1>6 DEF Syscall, SyscallReturn, Fault, Terminate, Unblocked, Goto, Runs, LocalOK, inner
<1>. QED
  BY <1>1, <1>2, <1>3, <1>4, <1>5, <1>6 DEF Runner

\* What the step of the only runner does to the killer's receiving end, to the
\* state and to the status of the process.
LEMMA RunnerDying ==
  ASSUME LocalOK, OwnInv, NEW r \in Runners, Runner(r) \/ Unblocked(r)
  PROVE  /\ \A q \in Runners : killsig'[q] => state' \in {"Dying", "Dead"}
         /\ status' = "Exited" => state' \in {"Dying", "Dead"}
<1>0. /\ Runs(r) /\ StateInv(r)
      /\ \A q \in Runners : killsig[q] => state \in {"Dying", "Dead"}
      /\ \A q \in Runners : q = killer => q = r
      /\ status = "Exited" => state \in {"Dying", "Dead"}
  BY RunnerRuns, NoneAssumption DEF OwnInv, SoleInv, RunInv
<1>Other. ASSUME UNCHANGED <<state, killsig, status>>
          PROVE  /\ \A q \in Runners : killsig'[q] => state' \in {"Dying", "Dead"}
                 /\ status' = "Exited" => state' \in {"Dying", "Dead"}
  BY <1>0, <1>Other
<1>1. CASE BlockException(r) \/ BlockInSyscall(r)
  BY <1>0, <1>1 DEF BlockException, BlockInSyscall, EnterBlocking, ReplaceKiller, ChangeState,
                    State, Visible, StateInv, others
<1>2. CASE LeaveBlocking(r)
  BY <1>0, <1>2 DEF LeaveBlocking, ReplaceKiller, ChangeState, State, Visible, StateInv,
                    Leaving, others
<1>3. CASE Unhandled(r)
  <2>1. CASE IsSynth(exc[r]) \/ status = "Exited"
    BY <1>3, <1>Other, <2>1 DEF Unhandled, Exit, inner
  <2>2. CASE ~IsSynth(exc[r]) /\ status # "Exited"
    BY <1>3, <2>2 DEF Unhandled, Exit, Stop, ChangeState
  <2>. QED
    BY <2>1, <2>2
<1>4. CASE ExitSelf(r)
  BY <1>4 DEF ExitSelf, Stop, ChangeState
<1>5. CASE Terminate(r)
  BY <1>5 DEF Terminate, ChangeState
<1>6. CASE DyingRun(r)
  BY <1>0, <1>6 DEF DyingRun, StateInv, Leaving
<1>7. CASE SendException(r) \/ SetChannelType(r) \/ SendNext(r) \/ Answered(r)
           \/ KilledWhileWaiting(r) \/ ExitAnswered(r) \/ ExceptionOver(r)
  BY <1>7, <1>Other
     DEF SendException, SetChannelType, SendNext, Answered, KilledWhileWaiting, ExitAnswered,
         ExceptionOver, inner, others, locals
<1>8. CASE TakeContext(r) \/ Park(r) \/ Unpark(r) \/ EnterUser(r) \/ BreakDying(r) \/ Trap(r)
  BY <1>8, <1>Other
     DEF TakeContext, Park, Unpark, EnterUser, BreakDying, Trap, PutContext, ChangeState,
         inner, others, locals
<1>9. CASE Syscall(r) \/ SyscallReturn(r) \/ Fault(r) \/ Unblocked(r)
  BY <1>9, <1>Other DEF Syscall, SyscallReturn, Fault, Unblocked, inner, others, locals
<1>. QED
  BY <1>1, <1>2, <1>3, <1>4, <1>5, <1>6, <1>7, <1>8, <1>9 DEF Runner

\* One start makes one runner, and whatever is stored for a runner is for it.
LEMMA SoleStep ==
  ASSUME IInv, [Next]_vars, ~restarted'
  PROVE  SoleInv'
<1>0. LocalOK /\ OwnInv
  BY Sole, Types
<1>1. ASSUME NEW r \in Runners, Runner(r) \/ Unblocked(r) PROVE SoleInv'
  <2>1. \A q \in Runners : Runs(q)' => r = q
    BY <1>1, Sole
  <2>2. Runs(r) /\ Runs(r)' /\ killer' \in {None, killer, r} /\ waker' \in {None, waker, r}
    BY <1>0, <1>1, RunnerRuns, RunnerStays
  <2>3. /\ killer # None => killer = r
        /\ waker # None => waker = r
    BY <1>0, <2>2, Types DEF OwnInv, SoleInv, SharedOK
  <2>4. /\ \A q \in Runners : killsig'[q] => state' \in {"Dying", "Dead"}
        /\ status' = "Exited" => state' \in {"Dying", "Dead"}
    BY <1>0, <1>1, RunnerDying
  <2>5. (killer' # None => Runs(killer)') /\ (waker' # None => Runs(waker)')
    BY <2>2, <2>3 DEF Runs
  <2>6. \A q, s \in Runners : Runs(q)' /\ Runs(s)' => q = s
    BY <2>1
  <2>. QED
    BY <2>2, <2>4, <2>5, <2>6 DEF SoleInv
<1>2. ASSUME NEW r \in Runners, CheckStatus(r) \/ SetupContext(r) PROVE SoleInv'
  <2>1. \A q \in Runners : Runs(q)' <=> Runs(q)
    BY <1>0, <1>2 DEF CheckStatus, SetupContext, Goto, Runs, LocalOK
  <2>2. /\ UNCHANGED <<state, context, killer, waker, killsig>>
        /\ status' = "Exited" => status = "Exited"
    BY <1>2 DEF CheckStatus, SetupContext, inner, locals, others
  <2>3. (killer' # None => Runs(killer)') /\ (waker' # None => Runs(waker)')
    BY <1>0, <2>1, <2>2, Types DEF OwnInv, SoleInv, SharedOK
  <2>. QED
    BY <1>0, <2>1, <2>2, <2>3 DEF OwnInv, SoleInv
<1>3. ASSUME NEW r \in Runners, Start(r) PROVE SoleInv'
  <2>1. state = "New"
    BY <1>3 DEF Start
  <2>2. \A q \in Runners : ~Runs(q) /\ ~killsig[q]
    BY <1>0, <2>1 DEF OwnInv, SoleInv, RunInv, StateInv
  <2>3. killer = None /\ waker = None /\ status # "Exited"
    BY <1>0, <2>1, <2>2, Types DEF OwnInv, SoleInv, SharedOK
  <2>4. \A q \in Runners : Runs(q)' <=> q = r
    BY <1>0, <1>3, <2>2 DEF Start, Goto, Runs, LocalOK
  <2>5. UNCHANGED <<killer, waker, killsig, status>>
    BY <1>3 DEF Start
  <2>. QED
    BY <2>2, <2>3, <2>4, <2>5 DEF SoleInv
<1>4. ASSUME pc' = pc, context' = context, killer' \in {None, killer}, waker' \in {None, waker},
             state' \in {state, "Dying"},
             \A q \in Runners : killsig'[q] => killsig[q] \/ state' \in {"Dying", "Dead"},
             status' = "Exited" => status = "Exited" \/ state' \in {"Dying", "Dead"}
      PROVE  SoleInv'
  BY <1>0, <1>4 DEF OwnInv, SoleInv, Runs
<1>5. CASE Kill
  <2>1. killsig' = killsig \/ state' \in {"Dying", "Dead"}
    BY <1>5 DEF Kill, Stop, ChangeState
  <2>. QED
    BY <1>4, <1>5, <2>1 DEF Kill, Stop, ChangeState, others
<1>6. CASE KillProcess
  <2>1. state' \in {"Dying", "Dead"}
    BY <1>6 DEF KillProcess, Exit, Stop, ChangeState
  <2>. QED
    BY <1>4, <1>6, <2>1 DEF KillProcess, Exit, Stop, ChangeState
<1>7. ASSUME NEW k \in Tokens, Suspend(k) \/ Resume(k) PROVE SoleInv'
  BY <1>4, <1>7 DEF Suspend, Resume, ChangeState, locals
<1>8. ASSUME NEW x \in Handlers, CreateChannel(x) \/ CloseChannel(x) PROVE SoleInv'
  BY <1>4, <1>8 DEF CreateChannel, CloseChannel, inner, locals
<1>9. ASSUME NEW r \in Runners, NEW b \in BOOLEAN,
             ReadObject(r) \/ CloseObject(r) \/ SetState(r, b) \/ SetStrategy(r, b)
      PROVE  SoleInv'
  BY <1>4, <1>9 DEF ReadObject, CloseObject, SetState, SetStrategy, inner, others, locals
<1>10. CASE UNCHANGED vars
  BY <1>4, <1>10 DEF vars
<1>. QED
  BY <1>1, <1>2, <1>3, <1>5, <1>6, <1>7, <1>8, <1>9, <1>10 DEF Next

-----------------------------------------------------------------------------
LEMMA InitInv == Init => IInv
<1>. SUFFICES ASSUME Init PROVE IInv
  OBVIOUS
<1>1. BoolOK
  BY Zenon DEF Init, BoolOK
<1>2. SharedOK /\ LocalOK
  BY DEF Init, SharedOK, LocalOK, States, Places, Exceptions, Exceptionates
<1>3. CountInv
  BY FS_EmptySet DEF Init, CountInv
<1>4. SignalsMatch
  <2>1. State = "New"
    BY DEF Init, State, Visible
  <2>2. SignalsOf("New") = {}
    BY Zenon DEF SignalsOf
  <2>. QED
    BY <2>1, <2>2 DEF Init, SignalsMatch
<1>5. TypeOK
  BY <1>1, <1>2 DEF Init, TypeOK, BoolOK, SharedOK, LocalOK, Places, Exceptions, Objects
<1>6. OneContext /\ \A r \in Runners : PlaceInv(r)
  BY DEF Init, OneContext, PlaceInv, Offering
<1>7. OwnInv
  BY DEF Init, OwnInv, SoleInv, Runs
<1>. QED
  BY <1>3, <1>4, <1>5, <1>6, <1>7 DEF IInv, BaseInv

\* IInv holds throughout.
LEMMA Inductive == Spec => []IInv
<1>1. ASSUME IInv, [Next]_vars PROVE TypeOK'
  <2>1. BoolOK' /\ SharedOK' /\ LocalOK' /\ SignalsMatch'
    BY <1>1, BoolStep, SharedStep, LocalStep, SignalsStep
  <2>2. signals' \subseteq {"RUNNING", "SUSPENDED", "TERMINATED"}
    BY <2>1, SignalsType DEF SignalsMatch
  <2>. QED
    BY <2>1, <2>2 DEF TypeOK, BoolOK, SharedOK, LocalOK, Places, Exceptions, Objects
<1>2. ASSUME IInv, [Next]_vars PROVE BaseInv'
  BY <1>1, <1>2, CountStep, SignalsStep, OneContextStep, PlaceStep DEF BaseInv
<1>3. ASSUME IInv, [Next]_vars, ~restarted' PROVE OwnInv'
  BY <1>3, SoleStep, StateStep, ContextStep, FaultStep DEF OwnInv, RunInv
<1>4. IInv /\ [Next]_vars => IInv'
  BY <1>2, <1>3 DEF IInv
<1>. QED
  BY InitInv, <1>4, PTL DEF Spec

\* The types of all variables, in every state of every behaviour.
THEOREM TypeCorrect == Spec => []TypeOK
  BY Inductive, PTL DEF IInv, BaseInv

\* ThreadInner::change_state is called by every section that changes what
\* ThreadInner::state returns: the signals of the thread object are always
\* those of the state it shows, for any number of suspend tokens and however
\* often the thread is started.
THEOREM SignalsMatchHolds == Spec => []SignalsMatch
  BY Inductive, PTL DEF IInv, BaseInv

\* wait_for_run takes the context and put_context gives it back: however
\* often the thread is started, one runner at most has its registers, and
\* then the thread object has not.
THEOREM OneContextHolds == Spec => []OneContext
  BY Inductive, PTL DEF IInv, BaseInv

\* A thread shown as suspended, or as blocked in an exception, has its context
\* and is not in user mode, until it is started a second time.
THEOREM DebuggerSeesContextHolds == Spec => []DebuggerSeesContext
<1>1. ASSUME IInv, ~restarted, State \in {"Suspended", "BlockedException"}
      PROVE  context /\ \A r \in Runners : pc[r] # "user"
  <2>1. TypeOK /\ OneContext /\ OwnInv
    BY <1>1 DEF IInv, BaseInv
  <2>2. context
    <3>1. CASE State = "Suspended" /\ state # "Suspended"
      BY <3>1 DEF State, Visible
    <3>2. CASE state = "BlockedException"
      <4>1. PICK r \in Runners : Runs(r)
        BY <2>1, <3>2 DEF OwnInv, SoleInv
      <4>2. StateInv(r) /\ ContextInv(r)
        BY <2>1, <4>1 DEF OwnInv, RunInv
      <4>. QED
        BY <3>2, <4>2 DEF StateInv, ContextInv, Leaving
    <3>. QED
      BY <1>1, <2>1, <3>1, <3>2 DEF State, Visible, TypeOK, States
  <2>. QED
    BY <2>1, <2>2 DEF OneContext
<1>2. IInv => DebuggerSeesContext
  BY <1>1 DEF DebuggerSeesContext
<1>. QED
  BY Inductive, <1>2, PTL

\* No resume goes below zero; and no assert and no unwrap of the runner fails
\* until the thread is started a second time.
THEOREM NoPanicHolds == Spec => []NoPanic
<1>1. ASSUME IInv PROVE suspended # {} => suspend_count > 0
  <2>1. CountInv
    BY <1>1 DEF IInv, BaseInv
  <2>. QED
    BY <2>1, CountPositive
<1>2. ASSUME IInv, ~restarted, NEW r \in Runners PROVE pc[r] \notin {"panic", "lost"}
  BY <1>2 DEF IInv, OwnInv, RunInv, StateInv, Runs
<1>3. IInv => NoPanic
  BY <1>1, <1>2 DEF NoPanic
<1>. QED
  BY Inductive, <1>3, PTL

\* A thread that was started once and faulted is resumed only if the last
\* handler closed its exception as handled; otherwise it is dying.
THEOREM FaultIsHandledHolds == Spec => FaultIsHandled
<1>1. ASSUME IInv, NEW r \in Runners, pc[r] = "raised", exc[r] = "Fault"
      PROVE  handled[r] \/ state = "Dying" \/ restarted
  BY <1>1 DEF IInv, OwnInv, RunInv, FaultInv, Runs
<1>2. IInv /\ [Next]_vars =>
        [\A r \in Runners : pc[r] = "raised" /\ exc[r] = "Fault" /\ pc'[r] = "wait" =>
            handled[r] \/ state = "Dying" \/ restarted]_vars
  BY <1>1
<1>. QED
  BY Inductive, <1>2, PTL DEF Spec, FaultIsHandled

=============================================================================

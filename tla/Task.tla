-------------------------------- MODULE Task --------------------------------
(***************************************************************************)
(* The lifetime of jobs, processes and threads                             *)
(* (zircon-object/src/task/{job,process,thread}.rs): create, start, exit,  *)
(* kill and terminate, the tree walks, and the drop of a job object.       *)
(*                                                                         *)
(* These operations call each other down and up the tree, and hold some    *)
(* locks while they do.  Every actor has a stack of pending instructions;  *)
(* one step executes the first one, a critical section of the code, and    *)
(* replaces it by the calls it makes.  A lock that is held across several  *)
(* instructions is in `lock'; every other one is taken and released within *)
(* a step, which needs it to be free.                                      *)
(***************************************************************************)
EXTENDS Naturals, Sequences, FiniteSets

CONSTANTS
  Jobs, Procs, Threads,
  Callers,     \* threads of other processes that make system calls
  Root,        \* ROOT_JOB, a static
  ParentOf,    \* [Jobs \ {Root} -> Jobs]
  JobOf,       \* [Procs -> Jobs]
  ProcOf,      \* [Threads -> Procs]
  None,
  MaxCalls     \* bound: calls that kill, exit, walk, close or set critical

Actors == Threads \cup Callers

ASSUME TaskAssumption ==
  /\ Root \in Jobs /\ ParentOf \in [Jobs \ {Root} -> Jobs]
  /\ JobOf \in [Procs -> Jobs] /\ ProcOf \in [Threads -> Procs]
  /\ MaxCalls \in Nat /\ None \notin Jobs \cup Actors /\ Threads \cap Callers = {}

VARIABLES
  job,      \* job -> [st, killed, term, procs, children]
  held,     \* jobs some process has a handle to
  proc,     \* process -> [status, code, threads, critical, signalled]
  thr,      \* thread -> ThreadState, "none" before creation
  runner,   \* threads whose thread_fn future is alive
  lock,     \* job, process or thread -> actor that holds its `inner', or None
  todo,     \* actor -> pending instructions
  calls,    \* such calls made
  escaped   \* history: threads added to a process whose last thread has left,
            \* or started when they were already dying

vars == <<job, held, proc, thr, runner, lock, todo, calls, escaped>>

Init ==
  /\ job = [j \in Jobs |-> [st |-> IF j = Root THEN "live" ELSE "none",
              killed |-> FALSE, term |-> FALSE, procs |-> <<>>,
              children |-> <<>>]]
  /\ held = {Root}
  /\ proc = [p \in Procs |-> [status |-> "none", code |-> 0,
               threads |-> <<>>, critical |-> None, nonzero |-> FALSE,
               signalled |-> FALSE]]
  /\ thr = [t \in Threads |-> "none"]
  /\ runner = {}
  /\ lock = [x \in Jobs \cup Procs \cup Threads |-> None]
  /\ todo = [a \in Actors |-> <<>>]
  /\ calls = 0
  /\ escaped = {}

In(x, s) == \E i \in DOMAIN s : s[i] = x

\* Vec::retain of all but x, which is on its list at most once.
Without(s, x) ==
  LET k == CHOOSE k \in DOMAIN s : s[k] = x
  IN IF In(x, s) THEN [i \in 1 .. Len(s) - 1 |-> IF i < k THEN s[i] ELSE s[i + 1]] ELSE s

Pending(op, x) == \E a \in Actors : \E i \in DOMAIN todo[a] :
                    todo[a][i][1] = op /\ todo[a][i][2] = x

At(a, op)   == todo[a] # <<>> /\ todo[a][1][1] = op
Subject(a)  == todo[a][1][2]
Argument(a) == todo[a][1][3]
Free(x)     == lock[x] = None
Calls(op, s, arg) == [i \in DOMAIN s |-> <<op, s[i], arg>>]

\* The first instruction of a is done, except for the calls it makes.
Continue(a, code) == todo' = [todo EXCEPT ![a] = code \o Tail(@)]

Unlock(a) ==
  /\ At(a, "unlock")
  /\ lock' = [lock EXCEPT ![Subject(a)] = None]
  /\ Continue(a, <<>>)
  /\ UNCHANGED <<job, held, proc, thr, runner, calls, escaped>>

-----------------------------------------------------------------------------
(* Threads.                                                                  *)

\* Thread::stop, through kill and exit.  A thread blocked in the kernel is
\* woken by its killer, if it waits in blocking_run.
Stop(a) ==
  /\ At(a, "stop") /\ Free(Subject(a))
  /\ thr' = [thr EXCEPT ![Subject(a)] =
               IF @ \in {"New", "Running"} THEN "Dying" ELSE @]
  /\ Continue(a, <<>>)
  /\ UNCHANGED <<job, held, proc, runner, lock, calls, escaped>>

\* Thread::start: whatever the state was, it becomes Running.
ThreadStart(a) ==
  LET t == Subject(a)
  IN /\ At(a, "start") /\ Free(t)
     /\ thr' = [thr EXCEPT ![t] = "Running"]
     /\ runner' = runner \cup {t}
     /\ escaped' = escaped \cup {x \in {t} : thr[t] # "New"}
     /\ Continue(a, <<>>)
     /\ UNCHANGED <<job, held, proc, lock, calls>>

\* thread_fn returns: the loop found its thread dying.
EndRunner(t) ==
  /\ t \in runner /\ todo[t] = <<>> /\ thr[t] = "Dying"
  /\ runner' = runner \ {t}
  /\ todo' = [todo EXCEPT ![t] = << <<"die", t, None>> >>]
  /\ UNCHANGED <<job, held, proc, thr, lock, calls, escaped>>

\* Thread::terminate (drop of CurrentThread) keeps its lock to the end.
ThreadTerminate(a) ==
  LET t == Subject(a)
  IN /\ At(a, "die") /\ Free(t)
     /\ thr' = [thr EXCEPT ![t] = "Dead"]
     /\ lock' = [lock EXCEPT ![t] = a]
     /\ Continue(a, << <<"remove_thread", t, None>>, <<"unlock", t, None>> >>)
     /\ UNCHANGED <<job, held, proc, runner, calls, escaped>>

-----------------------------------------------------------------------------
(* Processes.                                                                *)

\* Process::remove_thread
RemoveThread(a) ==
  LET t == Subject(a)
      p == ProcOf[t]
      rest == Without(proc[p].threads, t)
  IN /\ At(a, "remove_thread") /\ Free(p)
     /\ proc' = [proc EXCEPT ![p].threads = rest]
     /\ Continue(a, IF rest = <<>> THEN << <<"terminate", p, None>> >>
                                   ELSE <<>>)
     /\ UNCHANGED <<job, held, thr, runner, lock, calls, escaped>>

\* Process::exit of a process that has exited already.
ExitAgain(a) ==
  /\ At(a, "exit") /\ Free(Subject(a))
  /\ proc[Subject(a)].status = "Exited"
  /\ Continue(a, <<>>)
  /\ UNCHANGED <<job, held, proc, thr, runner, lock, calls, escaped>>

\* Mutant: the process leaves its job as early as it signals.
ExitLeavesJob(a) ==
  LET p == Subject(a)
  IN /\ At(a, "exit") /\ Free(p) /\ proc[p].status # "Exited"
     /\ proc' = [proc EXCEPT ![p].status = "Exited", ![p].code = Argument(a)]
     /\ IF proc[p].threads = <<>>
        THEN /\ Continue(a, << <<"terminate", p, None>> >>)
             /\ UNCHANGED lock
        ELSE /\ Continue(a, Calls("stop", proc[p].threads, None)
                            \o << <<"unlock", p, None>>,
                                  <<"signal", p, None>>,
                                  <<"remove_process", p, None>> >>)
             /\ lock' = [lock EXCEPT ![p] = a]
     /\ UNCHANGED <<job, held, thr, runner, calls, escaped>>

\* Process::exit: the threads are killed under the lock of the process, and
\* PROCESS_TERMINATED is asserted after it.
Exit(a) ==
  LET p == Subject(a)
  IN /\ At(a, "exit") /\ Free(p) /\ proc[p].status # "Exited"
     /\ proc' = [proc EXCEPT ![p].status = "Exited", ![p].code = Argument(a)]
     /\ IF proc[p].threads = <<>>
        THEN /\ Continue(a, << <<"terminate", p, None>> >>)
             /\ UNCHANGED lock
        ELSE /\ Continue(a, Calls("stop", proc[p].threads, None)
                            \o << <<"unlock", p, None>>,
                                  <<"signal", p, None>> >>)
             /\ lock' = [lock EXCEPT ![p] = a]
     /\ UNCHANGED <<job, held, thr, runner, calls, escaped>>

SignalTerminated(a) ==
  /\ At(a, "signal")
  /\ proc' = [proc EXCEPT ![Subject(a)].signalled = TRUE]
  /\ Continue(a, <<>>)
  /\ UNCHANGED <<job, held, thr, runner, lock, calls, escaped>>

\* Mutant: terminate does not look whether the process has exited.
TerminateOverwrites(a) ==
  LET p == Subject(a)
  IN /\ At(a, "terminate") /\ Free(p)
     /\ proc' = [proc EXCEPT ![p].status = "Exited", ![p].code = 0]
     /\ Continue(a, << <<"signal", p, None>>, <<"remove_process", p, None>>,
                       <<"critical", p, 0>> >>)
     /\ UNCHANGED <<job, held, thr, runner, lock, calls, escaped>>

\* Process::terminate: the exit code is read here and used at the end.
ProcessTerminate(a) ==
  LET p == Subject(a)
      code == IF proc[p].status = "Exited" THEN proc[p].code ELSE 0
  IN /\ At(a, "terminate") /\ Free(p)
     /\ proc' = [proc EXCEPT ![p].status = "Exited", ![p].code = code]
     /\ Continue(a, << <<"signal", p, None>>, <<"remove_process", p, None>>,
                       <<"critical", p, code>> >>)
     /\ UNCHANGED <<job, held, thr, runner, lock, calls, escaped>>

\* The end of Process::terminate: the lock of the process is held during the
\* kill of the job it is critical to.
CriticalKill(a) ==
  LET p == Subject(a)
      kills == /\ proc[p].critical # None
               /\ proc[p].nonzero => Argument(a) # 0
  IN /\ At(a, "critical") /\ Free(p)
     /\ IF kills
        THEN /\ Continue(a, << <<"kill", proc[p].critical, None>>,
                               <<"unlock", p, None>> >>)
             /\ lock' = [lock EXCEPT ![p] = a]
        ELSE Continue(a, <<>>) /\ UNCHANGED lock
     /\ UNCHANGED <<job, held, proc, thr, runner, calls, escaped>>

-----------------------------------------------------------------------------
(* Jobs.                                                                     *)

MayTerminate(r) == r.killed /\ r.procs = <<>> /\ r.children = <<>>

\* Job::remove_process
RemoveProcess(a) ==
  LET p == Subject(a)
      j == JobOf[p]
  IN /\ At(a, "remove_process") /\ Free(j)
     /\ job' = [job EXCEPT ![j].procs = Without(@, p)]
     /\ Continue(a, IF MayTerminate(job'[j])
                    THEN << <<"end_job", j, None>> >> ELSE <<>>)
     /\ UNCHANGED <<held, proc, thr, runner, lock, calls, escaped>>

\* Job::remove_child
RemoveChild(a) ==
  LET c == Subject(a)
      j == ParentOf[c]
  IN /\ At(a, "remove_child") /\ Free(j)
     /\ job' = [job EXCEPT ![j].children = Without(@, c)]
     /\ Continue(a, IF MayTerminate(job'[j])
                    THEN << <<"end_job", j, None>> >> ELSE <<>>)
     /\ UNCHANGED <<held, proc, thr, runner, lock, calls, escaped>>

\* Job::terminate, up to the signal ...
JobTerminate(a) ==
  LET j == Subject(a)
  IN /\ At(a, "end_job")
     /\ job' = [job EXCEPT ![j].term = TRUE]
     /\ Continue(a, IF j = Root THEN <<>> ELSE << <<"self_ref", j, None>> >>)
     /\ UNCHANGED <<held, proc, thr, runner, lock, calls, escaped>>

\* Mutant: the own lock is kept over remove_child.
SelfRefHoldingLock(a) ==
  LET j == Subject(a)
  IN /\ At(a, "self_ref") /\ Free(j)
     /\ lock' = [lock EXCEPT ![j] = a]
     /\ Continue(a, << <<"remove_child", j, None>>, <<"unlock", j, None>> >>)
     /\ UNCHANGED <<job, held, proc, thr, runner, calls, escaped>>

\* ... and the clone of self_ref, which releases the own lock again.
SelfRef(a) ==
  /\ At(a, "self_ref") /\ Free(Subject(a))
  /\ Continue(a, << <<"remove_child", Subject(a), None>> >>)
  /\ UNCHANGED <<job, held, proc, thr, runner, lock, calls, escaped>>

\* Mutant: the lists are copied in one section and the flag set in another.
KillInTwoSections(a) ==
  LET j == Subject(a)
      list == Calls("kill_child", job[j].children, None)
              \o Calls("exit", job[j].procs, 1)
  IN /\ At(a, "kill") /\ Free(j)
     /\ IF Argument(a) = None
        THEN /\ Continue(a, IF job[j].killed THEN <<>>
                            ELSE << <<"kill", j, list>> >>)
             /\ UNCHANGED job
        ELSE /\ job' = [job EXCEPT ![j].killed = TRUE]
             /\ Continue(a, IF Argument(a) = <<>>
                            THEN << <<"end_job", j, None>> >>
                            ELSE Argument(a))
     /\ UNCHANGED <<held, proc, thr, runner, lock, calls, escaped>>

\* Job::kill: the flag is set and both lists are copied in one section.
Kill(a) ==
  LET j == Subject(a)
      list == Calls("kill_child", job[j].children, None)
              \o Calls("exit", job[j].procs, 1)
  IN /\ At(a, "kill") /\ Free(j)
     /\ job' = [job EXCEPT ![j].killed = TRUE]
     /\ Continue(a, IF job[j].killed THEN <<>>
                    ELSE IF list = <<>> THEN << <<"end_job", j, None>> >>
                    ELSE list)
     /\ UNCHANGED <<held, proc, thr, runner, lock, calls, escaped>>

\* Weak::upgrade of a child: the reference is dropped after its use.
Upgrade(a) ==
  LET c == Subject(a)
      use == IF At(a, "kill_child") THEN << <<"kill", c, None>> >> ELSE <<>>
  IN /\ At(a, "kill_child") \/ At(a, "peek_child")
     /\ Continue(a, IF job[c].st = "live"
                    THEN use \o << <<"drop", c, None>> >> ELSE <<>>)
     /\ UNCHANGED <<job, held, proc, thr, runner, lock, calls, escaped>>

\* The loop of Job::find_process over the children that are left to visit,
\* with the lock of the job held; its end releases the lock.
Loop(j, id, rest) ==
  IF rest = <<>> THEN <<"unlock", j, None>> ELSE <<"walk", j, <<id, rest>> >>

\* The process was found: the loops return, and release guards and references.
Return(s) == [i \in DOMAIN s |-> IF s[i][1] = "walk" THEN <<"unlock", s[i][2], None>> ELSE s[i]]

\* Job::find_process: the lock of the job, and its own processes ...
FindProcess(a) ==
  LET j == Subject(a)
      id == Argument(a)
  IN /\ At(a, "find") /\ Free(j)
     /\ lock' = [lock EXCEPT ![j] = a]
     /\ IF In(id, job[j].procs)
        THEN todo' = [todo EXCEPT ![a] = << <<"unlock", j, None>> >> \o Return(Tail(@))]
        ELSE Continue(a, << Loop(j, id, job[j].children) >>)
     /\ UNCHANGED <<job, held, proc, thr, runner, calls, escaped>>

\* ... and then one child after the other.
VisitChild(a) ==
  LET j == Subject(a)
      id == Argument(a)[1]
      c == Head(Argument(a)[2])
      visit == IF job[c].st = "live" THEN << <<"find", c, id>>, <<"drop", c, None>> >> ELSE <<>>
  IN /\ At(a, "walk")
     /\ Continue(a, visit \o << Loop(j, id, Tail(Argument(a)[2])) >>)
     /\ UNCHANGED <<job, held, proc, thr, runner, lock, calls, escaped>>

\* Job::children_ids
ChildrenIds(a) ==
  LET j == Subject(a)
  IN /\ At(a, "ids") /\ Free(j)
     /\ lock' = [lock EXCEPT ![j] = a]
     /\ Continue(a, Calls("peek_child", job[j].children, None)
                    \o << <<"unlock", j, None>> >>)
     /\ UNCHANGED <<job, held, proc, thr, runner, calls, escaped>>

\* Who keeps a job object alive while actor a drops a reference: handles,
\* processes (which are never freed here), child jobs, and the references the
\* actors have still to drop.
Referenced(j, a) ==
  \/ j \in held
  \/ \E p \in Procs : JobOf[p] = j /\ proc[p].status # "none"
  \/ \E c \in Jobs \ {Root} : ParentOf[c] = j /\ job[c].st = "live"
  \/ \E b \in Actors : \E i \in DOMAIN todo[b] :
        /\ todo[b][i][1] = "drop" /\ todo[b][i][2] = j
        /\ <<b, i>> # <<a, 1>>

\* A reference is dropped; with the last one Job::drop runs, on this stack.
DropJob(a) ==
  LET j == Subject(a)
      last == job[j].st = "live" /\ ~Referenced(j, a)
  IN /\ At(a, "drop")
     /\ job' = [job EXCEPT ![j].st = IF last THEN "dropped" ELSE @]
     /\ Continue(a, IF last THEN << <<"end_job", j, None>>,
                                    <<"drop", ParentOf[j], None>> >>
                            ELSE <<>>)
     /\ UNCHANGED <<held, proc, thr, runner, lock, calls, escaped>>

Step(a) ==
  \/ Unlock(a) \/ Stop(a) \/ ThreadStart(a) \/ ThreadTerminate(a)
  \/ RemoveThread(a) \/ ExitAgain(a) \/ Exit(a) \/ SignalTerminated(a)
  \/ ProcessTerminate(a) \/ CriticalKill(a) \/ RemoveProcess(a)
  \/ RemoveChild(a) \/ JobTerminate(a) \/ SelfRef(a) \/ Kill(a) \/ Upgrade(a)
  \/ FindProcess(a) \/ VisitChild(a) \/ ChildrenIds(a) \/ DropJob(a)

-----------------------------------------------------------------------------
(* System calls.  A running thread may make any of them: one that is dying   *)
(* already still executes the call it is about to make.                      *)

MayCall(a) == todo[a] = <<>> /\ (a \in Callers \/ a \in runner)

\* Job::create_child
CreateJob(a, j) ==
  LET k == ParentOf[j]
  IN /\ MayCall(a) /\ job[j].st = "none"
     /\ k \in held /\ Free(k) /\ ~job[k].killed
     /\ job' = [job EXCEPT ![k].children = Append(@, j), ![j].st = "live"]
     /\ held' = held \cup {j}
     /\ UNCHANGED <<proc, thr, runner, lock, todo, calls, escaped>>

\* Job::add_process
AddProcess(j, p) ==
  /\ Free(j) /\ ~job[j].killed
  /\ job' = [job EXCEPT ![j].procs = Append(@, p)]

\* Process::create
CreateProcess(a, p) ==
  /\ MayCall(a) /\ proc[p].status = "none" /\ JobOf[p] \in held
  /\ AddProcess(JobOf[p], p)
  /\ proc' = [proc EXCEPT ![p].status = "Init"]
  /\ UNCHANGED <<held, thr, runner, lock, todo, calls, escaped>>

\* Mutant: the status is not looked at.
AddThreadAlways(p, t) ==
  /\ Free(p) /\ proc[p].status # "none"
  /\ proc' = [proc EXCEPT ![p].threads = Append(@, t)]

\* Process::add_thread
AddThread(p, t) ==
  /\ Free(p) /\ proc[p].status \in {"Init", "Running"}
  /\ proc' = [proc EXCEPT ![p].threads = Append(@, t)]

\* Thread::create
CreateThread(a, t) ==
  /\ MayCall(a) /\ thr[t] = "none"
  /\ AddThread(ProcOf[t], t)
  /\ thr' = [thr EXCEPT ![t] = "New"]
  /\ escaped' = escaped \cup {x \in {t} : Pending("terminate", ProcOf[t])}
  /\ UNCHANGED <<job, held, runner, lock, todo, calls>>

\* Process::start, which changes the status, and then Thread::start.
StartProcess(a, t) ==
  LET p == ProcOf[t]
  IN /\ MayCall(a) /\ In(t, proc[p].threads)
     /\ Free(p) /\ proc[p].status = "Init"
     /\ proc' = [proc EXCEPT ![p].status = "Running"]
     /\ todo' = [todo EXCEPT ![a] = << <<"start", t, None>> >>]
     /\ UNCHANGED <<job, held, thr, runner, lock, calls, escaped>>

\* sys_thread_start checks the status, and then Thread::start.  (A second
\* start of a thread that runs is left out.)
StartThread(a, t) ==
  LET p == ProcOf[t]
  IN /\ MayCall(a) /\ thr[t] \in {"New", "Dying"}
     /\ t \notin runner /\ ~Pending("start", t) /\ todo[t] = <<>>
     /\ Free(p) /\ proc[p].status = "Running"
     /\ todo' = [todo EXCEPT ![a] = << <<"start", t, None>> >>]
     /\ UNCHANGED <<job, held, proc, thr, runner, lock, calls, escaped>>

Ancestors(j) ==
  {k \in Jobs : \A S \in SUBSET Jobs :
     (j \in S /\ \A x \in S \ {Root} : ParentOf[x] \in S) => k \in S}

\* Process::set_critical_at_job
SetCritical(a, p, j, nonzero) ==
  /\ MayCall(a) /\ calls < MaxCalls
  /\ proc[p].status # "none" /\ Free(p) /\ proc[p].critical = None
  /\ j \in held \cap Ancestors(JobOf[p])
  /\ proc' = [proc EXCEPT ![p].critical = j, ![p].nonzero = nonzero]
  /\ calls' = calls + 1
  /\ UNCHANGED <<job, held, thr, runner, lock, todo, escaped>>

Request(a, code) ==
  /\ MayCall(a) /\ calls < MaxCalls
  /\ todo' = [todo EXCEPT ![a] = code]
  /\ calls' = calls + 1
  /\ UNCHANGED <<job, proc, thr, runner, lock, escaped>>

\* sys_thread_exit
ExitThread(t) ==
  t \in Threads /\ Request(t, << <<"stop", t, None>> >>) /\ UNCHANGED held

\* sys_process_exit
ExitProcess(t, code) ==
  /\ t \in Threads /\ Request(t, << <<"exit", ProcOf[t], code>> >>)
  /\ UNCHANGED held

\* sys_task_kill of a thread, a process, a job.
KillThread(a, t) ==
  thr[t] # "none" /\ Request(a, << <<"stop", t, None>> >>) /\ UNCHANGED held

KillProcess(a, p) ==
  /\ proc[p].status # "none"
  /\ Request(a, << <<"exit", p, 1>> >>) /\ UNCHANGED held

KillJob(a, j) ==
  /\ j \in held
  /\ Request(a, << <<"kill", j, None>>, <<"drop", j, None>> >>)
  /\ UNCHANGED held

\* Walks over the tree: ROOT_JOB.find_process, and children_ids of a job.
WalkTree(a, p) == Request(a, << <<"find", Root, p>> >>) /\ UNCHANGED held

WalkJob(a, j) ==
  /\ j \in held
  /\ Request(a, << <<"ids", j, None>>, <<"drop", j, None>> >>)
  /\ UNCHANGED held

\* The last handle to a job is closed.
CloseJob(a, j) ==
  /\ j \in held \ {Root}
  /\ Request(a, << <<"drop", j, None>> >>) /\ held' = held \ {j}

Syscall(a) ==
  \/ \E j \in Jobs \ {Root} : CreateJob(a, j) \/ CloseJob(a, j)
  \/ \E j \in Jobs : KillJob(a, j) \/ WalkJob(a, j)
  \/ \E p \in Procs : \/ CreateProcess(a, p)
                      \/ KillProcess(a, p) \/ WalkTree(a, p)
  \/ \E p \in Procs, j \in Jobs, nz \in BOOLEAN : SetCritical(a, p, j, nz)
  \/ \E t \in Threads : \/ CreateThread(a, t) \/ StartProcess(a, t)
                        \/ StartThread(a, t) \/ KillThread(a, t)
  \/ ExitThread(a) \/ \E code \in {0, 1} : ExitProcess(a, code)

Next ==
  \/ \E a \in Actors : Step(a) \/ Syscall(a)
  \/ \E t \in Threads : EndRunner(t)

Spec == Init /\ [][Next]_vars

\* A call in the kernel goes on as soon as the lock it needs is free. Nothing
\* is assumed of the time a dying thread takes to come back to its loop: it
\* may be in a call that a kill does not end.
FairSpec == Spec /\ \A a \in Actors : WF_vars(Step(a))

-----------------------------------------------------------------------------
(* Properties.                                                               *)

\* An instruction, its subject and its argument.
Instr ==
  ({"unlock"} \X (Jobs \cup Procs \cup Threads) \X {None})
  \cup ({"stop", "start", "die", "remove_thread"} \X Threads \X {None})
  \cup ({"exit", "critical"} \X Procs \X {0, 1})
  \cup ({"signal", "terminate", "remove_process"} \X Procs \X {None})
  \cup ({"end_job", "kill", "kill_child", "peek_child", "ids", "drop"} \X Jobs \X {None})
  \cup ({"self_ref", "remove_child"} \X (Jobs \ {Root}) \X {None})
  \cup ({"find"} \X Jobs \X Procs)
  \cup ({"walk"} \X Jobs \X (Procs \X (Seq(Jobs) \ {<<>>})))

JobRec == [st : {"none", "live", "dropped"}, killed : BOOLEAN, term : BOOLEAN,
           procs : Seq(Procs), children : Seq(Jobs)]
ProcRec == [status : {"none", "Init", "Running", "Exited"}, code : {0, 1},
            threads : Seq(Threads), critical : Jobs \cup {None}, nonzero : BOOLEAN,
            signalled : BOOLEAN]

\* Types; an object is on its list at most once.
TypeOK ==
  /\ job \in [Jobs -> JobRec] /\ proc \in [Procs -> ProcRec]
  /\ \A s \in {job[j].procs : j \in Jobs} \cup {job[j].children : j \in Jobs}
            \cup {proc[p].threads : p \in Procs} :
       \A i, k \in DOMAIN s : s[i] = s[k] => i = k
  /\ thr \in [Threads -> {"none", "New", "Running", "Dying", "Dead"}]
  /\ runner \in SUBSET Threads /\ escaped \in SUBSET Threads
  /\ held \in SUBSET {j \in Jobs : job[j].st = "live"} /\ Root \in held
  /\ lock \in [Jobs \cup Procs \cup Threads -> Actors \cup {None}]
  /\ todo \in [Actors -> Seq(Instr)]
  /\ calls \in 0 .. MaxCalls

\* A kill misses nobody: while a killed job (Job::kill) lists a process that
\* has not exited or a child that is not killed, somebody is still going to
\* kill it.
KillReachesAll ==
  \A j \in Jobs : job[j].killed =>
    /\ \A p \in Procs : In(p, job[j].procs) =>
         proc[p].status = "Exited" \/ Pending("exit", p)
    /\ \A c \in Jobs : In(c, job[j].children) /\ job[c].st = "live" =>
         job[c].killed \/ Pending("kill_child", c) \/ Pending("kill", c)

\* Process::exit stops every thread: those an exited process still lists are
\* dying, or about to be stopped; except the ones that escaped it.
ExitReachesAll ==
  \A t \in Threads :
    LET p == ProcOf[t]
    IN proc[p].status = "Exited" /\ In(t, proc[p].threads) =>
         \/ thr[t] \in {"Dying", "Dead"} \/ Pending("stop", t)
         \/ t \in escaped

\* JOB_TERMINATED means what it says: below a terminated job no thread lives
\* (except the ones that escaped their process) and no child job does.
TerminatedJobIsDead ==
  \A j \in Jobs : job[j].term =>
    /\ \A t \in Threads : JobOf[ProcOf[t]] = j =>
         thr[t] \in {"none", "Dead"} \/ t \in escaped
    /\ \A c \in Jobs \ {Root} : ParentOf[c] = j =>
         job[c].st # "live" \/ job[c].term

\* What wait_for_exit reads is final: once PROCESS_TERMINATED is asserted the
\* process has exited (the expect of the code) and its exit code never changes,
\* although the last thread's terminate comes after the kill that signalled.
ExitCodeStable ==
  [][\A p \in Procs : proc[p].signalled =>
        /\ proc[p].status = "Exited" /\ proc'[p].status = "Exited"
        /\ proc'[p].code = proc[p].code]_vars

\* Process::exit holds the process and waits for the thread, whose terminate
\* holds the thread and waits for the process.
ExitDeadlock ==
  \E a \in Actors : /\ At(a, "stop")
                    /\ lock[ProcOf[Subject(a)]] = a
                    /\ lock[Subject(a)] \in Actors
                    /\ At(lock[Subject(a)], "remove_thread")
                    /\ Subject(lock[Subject(a)]) = Subject(a)

\* A walk that drops the last reference to a child waits for its own lock.
WalkDeadlock ==
  \E a \in Actors : At(a, "remove_child") /\ lock[ParentOf[Subject(a)]] = a

\* A thread that was stopped before it was started has no runner.
NeverEnds == \E t \in Threads : /\ thr[t] = "Dying" /\ t \notin runner
                                /\ todo[t] = <<>>

\* A thread is dying, and its runner is not back in its loop.
Away(t) == t \in runner /\ thr[t] = "Dying" /\ todo[t] = <<>>

\* A killed job terminates, with all that is below it, if every dying thread
\* comes back to its loop, and unless one of the known ways for a member to
\* stay behind happens.
KilledJobTerminates ==
  \A j \in Jobs : job[j].killed ~> \/ job[j].term
                                   \/ escaped # {} \/ NeverEnds
                                   \/ ExitDeadlock \/ WalkDeadlock
                                   \/ \E t \in Threads : []Away(t)
=============================================================================

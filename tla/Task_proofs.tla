---------------------------- MODULE Task_proofs ----------------------------
(***************************************************************************)
(* The inductive invariant of Task, for any tree of jobs, any processes,   *)
(* threads and callers: a list holds what is alive, what leaves it has     *)
(* ended, and whatever a kill or an exit has not reached yet is among the  *)
(* instructions that some actor has still to execute.                      *)
(***************************************************************************)
EXTENDS Task, SequenceTheorems, TLAPS

Distinct(s) == \A i, k \in DOMAIN s : s[i] = s[k] => i = k

\* The types, by part.
JobsOK ==
  /\ job \in [Jobs -> JobRec]
  /\ \A j \in Jobs : Distinct(job[j].procs) /\ Distinct(job[j].children)
ProcsOK ==
  /\ proc \in [Procs -> ProcRec]
  /\ \A p \in Procs : Distinct(proc[p].threads)
OtherOK ==
  /\ thr \in [Threads -> {"none", "New", "Running", "Dying", "Dead"}]
  /\ runner \in SUBSET Threads /\ escaped \in SUBSET Threads
  /\ held \in SUBSET Jobs /\ Root \in held
  /\ lock \in [Jobs \cup Procs \cup Threads -> Actors \cup {None}]
  /\ calls \in 0 .. MaxCalls
TodoOK == todo \in [Actors -> Seq(Instr)]

\* What a handle names is alive.
HeldInv == \A j \in held : job[j].st = "live"

\* What is on a list exists and belongs there.
ListInv ==
  /\ \A j \in Jobs, p \in Procs : In(p, job[j].procs) =>
       JobOf[p] = j /\ proc[p].status # "none"
  /\ \A j, c \in Jobs : In(c, job[j].children) =>
       c # Root /\ ParentOf[c] = j /\ job[c].st # "none"
  /\ \A p \in Procs, t \in Threads : In(t, proc[p].threads) =>
       ProcOf[t] = p /\ thr[t] # "none"

\* What exits or ends, and the process of a thread that was started, exists.
ExistInv ==
  /\ \A p \in Procs : Pending("exit", p) \/ Pending("terminate", p) => proc[p].status # "none"
  /\ \A t \in Threads :
       \/ t \in runner \/ Pending("start", t) \/ Pending("die", t)
       \/ Pending("remove_thread", t)
       => proc[ProcOf[t]].status # "none"

\* A process that has signalled its end, or is about to, has exited.
SignalInv ==
  \A p \in Procs : proc[p].signalled \/ Pending("signal", p) => proc[p].status = "Exited"

\* Nothing of a thread is left, unless it escaped.
Gone(t) == thr[t] \in {"none", "Dead"} \/ t \in escaped

\* A thread leaves the list of its process when it is dead. Terminate is
\* called for a process with an empty list: only escaped threads join it then.
ThreadInv ==
  /\ \A t \in Threads :
       /\ In(t, proc[ProcOf[t]].threads) \/ Gone(t)
       /\ Pending("remove_thread", t) => thr[t] = "Dead" \/ t \in escaped
       /\ proc[ProcOf[t]].status = "none" => Gone(t)
  /\ \A p \in Procs, t \in Threads :
       Pending("terminate", p) /\ In(t, proc[p].threads) => t \in escaped

\* A process leaves the list of its job when all its threads are gone.
ProcInv ==
  \A p \in Procs :
    \/ Pending("remove_process", p)
    \/ proc[p].status # "none" /\ ~In(p, job[JobOf[p]].procs)
    => /\ proc[p].status = "Exited"
       /\ \A t \in Threads : ProcOf[t] = p => Gone(t)

\* A job leaves the list of its parent when it has terminated.
ChildInv ==
  \A c \in Jobs \ {Root} :
    \/ Pending("self_ref", c) \/ Pending("remove_child", c)
    \/ job[c].st = "live" /\ ~In(c, job[ParentOf[c]].children)
    => job[c].term

\* Terminate is called for a job that is killed and empty, or dropped.
Over(j) == job[j].st = "dropped" \/ MayTerminate(job[j])

EndInv == \A j \in Jobs : job[j].term \/ Pending("end_job", j) => Over(j)

\* A job object is dropped after all that refers to it.
DropInv ==
  \A j \in Jobs : job[j].st = "dropped" =>
    /\ \A p \in Procs : JobOf[p] = j => proc[p].status = "none"
    /\ \A c \in Jobs \ {Root} : ParentOf[c] = j => job[c].st # "live"

IInv == /\ JobsOK /\ ProcsOK /\ OtherOK /\ TodoOK /\ HeldInv /\ ListInv /\ ExistInv
        /\ SignalInv /\ ThreadInv /\ ProcInv /\ ChildInv /\ EndInv /\ DropInv
        /\ KillReachesAll /\ ExitReachesAll

-----------------------------------------------------------------------------
(* Lists and stacks                                                          *)

\* Some instruction of the code is op with subject x.
Does(code, op, x) == \E i \in DOMAIN code : code[i][1] = op /\ code[i][2] = x

\* A new member of a list.
LEMMA AppendFacts ==
  ASSUME NEW S, NEW s \in Seq(S), NEW x \in S
  PROVE  /\ Append(s, x) \in Seq(S)
         /\ \A y : In(y, Append(s, x)) <=> In(y, s) \/ y = x
         /\ Distinct(s) /\ ~In(x, s) => Distinct(Append(s, x))
<1>1. /\ Append(s, x) \in Seq(S) /\ Len(Append(s, x)) = Len(s) + 1 /\ Len(s) \in Nat
      /\ \A i \in 1 .. Len(s) : Append(s, x)[i] = s[i]
      /\ Append(s, x)[Len(s) + 1] = x
  BY AppendProperties, LenProperties
<1>2. DOMAIN s = 1 .. Len(s) /\ DOMAIN Append(s, x) = 1 .. Len(s) + 1
  BY <1>1, LenProperties
<1>3. \A y : In(y, Append(s, x)) <=> In(y, s) \/ y = x
  BY <1>1, <1>2 DEF In
<1>4. Distinct(s) /\ ~In(x, s) => Distinct(Append(s, x))
  BY <1>1, <1>2 DEF In, Distinct
<1>. QED
  BY <1>1, <1>3, <1>4

\* A member is removed from a list on which it is at most once.
LEMMA WithoutFacts ==
  ASSUME NEW S, NEW s \in Seq(S), NEW x, Distinct(s)
  PROVE  /\ Without(s, x) \in Seq(S)
         /\ \A y : In(y, Without(s, x)) <=> In(y, s) /\ y # x
         /\ Distinct(Without(s, x))
<1>1. DOMAIN s = 1 .. Len(s) /\ Len(s) \in Nat /\ \A i \in 1 .. Len(s) : s[i] \in S
  BY LenProperties, ElementOfSeq
<1>2. CASE ~In(x, s)
  BY <1>2 DEF Without, In
<1>3. CASE In(x, s)
  <2>. DEFINE k == CHOOSE k \in DOMAIN s : s[k] = x
              r == [i \in 1 .. Len(s) - 1 |-> IF i < k THEN s[i] ELSE s[i + 1]]
  <2>1. k \in 1 .. Len(s) /\ s[k] = x
    BY <1>1, <1>3 DEF In
  <2>2. Without(s, x) = r
    BY <1>3 DEF Without
  <2>. HIDE DEF k
  <2>3. Len(s) - 1 \in Nat
    BY <1>1, <2>1
  <2>4. \A i \in 1 .. Len(s) - 1 : r[i] = IF i < k THEN s[i] ELSE s[i + 1]
    OBVIOUS
  <2>5. DOMAIN r = 1 .. Len(s) - 1
    OBVIOUS
  <2>6. r \in Seq(S)
    <3>1. \A i \in 1 .. Len(s) - 1 : r[i] \in S
      BY <1>1, <2>1, <2>4
    <3>. QED
      BY <2>3, <3>1
  <2>. HIDE DEF r
  <2>7. ASSUME NEW y PROVE In(y, r) <=> In(y, s) /\ y # x
    <3>1. ASSUME NEW i \in 1 .. Len(s) - 1 PROVE In(r[i], s) /\ r[i] # x
      BY <1>1, <2>1, <2>4 DEF In, Distinct
    <3>2. ASSUME NEW i \in 1 .. Len(s), s[i] # x PROVE In(s[i], r)
      <4>1. CASE i < k
        BY <1>1, <2>1, <2>4, <2>5, <4>1 DEF In
      <4>2. CASE ~(i < k)
        <5>1. i - 1 \in 1 .. Len(s) - 1 /\ ~(i - 1 < k) /\ (i - 1) + 1 = i
          BY <1>1, <2>1, <3>2, <4>2
        <5>2. r[i - 1] = s[i]
          BY <2>4, <5>1
        <5>. QED
          BY <2>5, <5>1, <5>2 DEF In
      <4>. QED
        BY <4>1, <4>2
    <3>. QED
      BY <1>1, <2>5, <3>1, <3>2 DEF In
  <2>8. Distinct(r)
    <3>1. SUFFICES ASSUME NEW i \in 1 .. Len(s) - 1, NEW l \in 1 .. Len(s) - 1, r[i] = r[l]
                   PROVE  i = l
      BY <2>5 DEF Distinct
    <3>2. PICK m \in 1 .. Len(s) : r[i] = s[m] /\ m = IF i < k THEN i ELSE i + 1
      BY <1>1, <2>4
    <3>3. PICK n \in 1 .. Len(s) : r[l] = s[n] /\ n = IF l < k THEN l ELSE l + 1
      BY <1>1, <2>4
    <3>4. m = n
      BY <1>1, <3>1, <3>2, <3>3 DEF Distinct
    <3>. QED
      BY <2>1, <3>2, <3>3, <3>4
  <2>. QED
    BY <2>2, <2>6, <2>7, <2>8
<1>. QED
  BY <1>2, <1>3

\* The code of one instruction, of two, of three, of calls for all members of
\* a list, and one code after the other.
LEMMA CodeFacts ==
  /\ \A op, x : ~Does(<<>>, op, x)
  /\ \A e, op, x : Does(<<e>>, op, x) <=> e[1] = op /\ e[2] = x
  /\ \A e, f, op, x : Does(<<e, f>>, op, x) <=> \/ (e[1] = op /\ e[2] = x)
                                             \/ (f[1] = op /\ f[2] = x)
  /\ \A e, f, g, op, x : Does(<<e, f, g>>, op, x) <=> \/ (e[1] = op /\ e[2] = x)
                                                   \/ (f[1] = op /\ f[2] = x)
                                                   \/ (g[1] = op /\ g[2] = x)
<1>1. ASSUME NEW op, NEW x PROVE ~Does(<<>>, op, x)
  BY DEF Does
<1>2. ASSUME NEW e, NEW op, NEW x
      PROVE  Does(<<e>>, op, x) <=> e[1] = op /\ e[2] = x
  BY DEF Does
<1>3. ASSUME NEW e, NEW f, NEW op, NEW x
      PROVE  Does(<<e, f>>, op, x) <=> (e[1] = op /\ e[2] = x) \/ (f[1] = op /\ f[2] = x)
  <2>1. PICK c : c = <<e, f>>
    OBVIOUS
  <2>2. DOMAIN c = {1, 2} /\ c[1] = e /\ c[2] = f
    BY <2>1
  <2>3. Does(c, op, x) <=> (e[1] = op /\ e[2] = x) \/ (f[1] = op /\ f[2] = x)
    BY <2>2, Zenon DEF Does
  <2>. QED
    BY <2>1, <2>3, Zenon
<1>4. ASSUME NEW e, NEW f, NEW g, NEW op, NEW x
      PROVE  Does(<<e, f, g>>, op, x)
               <=> (e[1] = op /\ e[2] = x) \/ (f[1] = op /\ f[2] = x) \/ (g[1] = op /\ g[2] = x)
  <2>1. PICK c : c = <<e, f, g>>
    OBVIOUS
  <2>2. DOMAIN c = {1, 2, 3} /\ c[1] = e /\ c[2] = f /\ c[3] = g
    BY <2>1
  <2>3. Does(c, op, x)
          <=> (e[1] = op /\ e[2] = x) \/ (f[1] = op /\ f[2] = x) \/ (g[1] = op /\ g[2] = x)
    BY <2>2, Zenon DEF Does
  <2>. QED
    BY <2>1, <2>3, Zenon
<1>. QED
  BY <1>1, <1>2, <1>3, <1>4

LEMMA CallsFacts ==
  ASSUME NEW S, NEW s \in Seq(S), NEW o, NEW arg, NEW T, \A y \in S : <<o, y, arg>> \in T
  PROVE  /\ Calls(o, s, arg) \in Seq(T)
         /\ s = <<>> <=> Calls(o, s, arg) = <<>>
         /\ \A op, x : Does(Calls(o, s, arg), op, x) <=> op = o /\ In(x, s)
<1>. DEFINE c == Calls(o, s, arg)
<1>1. DOMAIN s = 1 .. Len(s) /\ Len(s) \in Nat /\ \A i \in 1 .. Len(s) : s[i] \in S
  BY LenProperties, ElementOfSeq
<1>2. DOMAIN c = 1 .. Len(s) /\ \A i \in 1 .. Len(s) : c[i] = <<o, s[i], arg>>
  BY <1>1 DEF Calls
<1>3. c \in Seq(T)
  <2>1. \A i \in 1 .. Len(s) : <<o, s[i], arg>> \in T
    BY <1>1
  <2>2. [i \in 1 .. Len(s) |-> <<o, s[i], arg>>] \in Seq(T)
    BY <1>1, <2>1
  <2>. QED
    BY <1>1, <2>2 DEF Calls
<1>4. Len(c) = Len(s)
  BY <1>1, <1>2, <1>3, LenProperties
<1>5. s = <<>> <=> c = <<>>
  BY <1>3, <1>4, EmptySeq
<1>6. \A op, x : Does(c, op, x) <=> op = o /\ In(x, s)
  BY <1>1, <1>2 DEF Does, In
<1>. QED
  BY <1>3, <1>5, <1>6

LEMMA ConcatFacts ==
  ASSUME NEW T, NEW c \in Seq(T), NEW d \in Seq(T)
  PROVE  /\ c \o d \in Seq(T)
         /\ c \o d = <<>> <=> c = <<>> /\ d = <<>>
         /\ \A op, x : Does(c \o d, op, x) <=> Does(c, op, x) \/ Does(d, op, x)
<1>1. /\ DOMAIN c = 1 .. Len(c) /\ Len(c) \in Nat
      /\ DOMAIN d = 1 .. Len(d) /\ Len(d) \in Nat
  BY LenProperties
<1>2. /\ c \o d \in Seq(T) /\ Len(c \o d) = Len(c) + Len(d)
      /\ \A i \in 1 .. Len(c) + Len(d) :
           (c \o d)[i] = IF i <= Len(c) THEN c[i] ELSE d[i - Len(c)]
  BY ConcatProperties
<1>3. DOMAIN (c \o d) = 1 .. Len(c) + Len(d)
  BY <1>2, LenProperties
<1>4. c \o d = <<>> <=> c = <<>> /\ d = <<>>
  BY <1>1, <1>2, EmptySeq
<1>5. ASSUME NEW op, NEW x, Does(c \o d, op, x) PROVE Does(c, op, x) \/ Does(d, op, x)
  BY <1>1, <1>2, <1>3, <1>5 DEF Does
<1>6. ASSUME NEW op, NEW x, Does(c, op, x) PROVE Does(c \o d, op, x)
  BY <1>1, <1>2, <1>3, <1>6 DEF Does
<1>7. ASSUME NEW op, NEW x, Does(d, op, x) PROVE Does(c \o d, op, x)
  <2>1. PICK i \in 1 .. Len(d) : d[i][1] = op /\ d[i][2] = x
    BY <1>1, <1>7 DEF Does
  <2>2. /\ Len(c) + i \in 1 .. Len(c) + Len(d) /\ ~(Len(c) + i <= Len(c))
        /\ (Len(c) + i) - Len(c) = i
    BY <1>1
  <2>3. (c \o d)[Len(c) + i] = d[i]
    BY <1>2, <2>2
  <2>. QED
    BY <1>3, <2>1, <2>2, <2>3 DEF Does
<1>. QED
  BY <1>2, <1>4, <1>5, <1>6, <1>7

\* A stack is its first instruction and the others.
LEMMA TailFacts ==
  ASSUME NEW T, NEW s \in Seq(T), s # <<>>
  PROVE  /\ Tail(s) \in Seq(T) /\ 1 \in DOMAIN s /\ s[1] \in T
         /\ \A op, x : Does(s, op, x) <=> Does(Tail(s), op, x) \/ (s[1][1] = op /\ s[1][2] = x)
<1>1. /\ Tail(s) \in Seq(T) /\ Len(Tail(s)) = Len(s) - 1 /\ Len(s) \in Nat /\ Len(s) > 0
      /\ \A i \in 1 .. Len(s) - 1 : Tail(s)[i] = s[i + 1]
  BY HeadTailProperties, EmptySeq, LenProperties
<1>2. DOMAIN s = 1 .. Len(s) /\ DOMAIN Tail(s) = 1 .. Len(s) - 1
  BY <1>1, LenProperties
<1>3. s[1] \in T
  BY <1>1, ElementOfSeq
<1>4. ASSUME NEW op, NEW x, Does(s, op, x)
      PROVE  Does(Tail(s), op, x) \/ (s[1][1] = op /\ s[1][2] = x)
  <2>1. PICK i \in 1 .. Len(s) : s[i][1] = op /\ s[i][2] = x
    BY <1>2, <1>4 DEF Does
  <2>2. CASE i # 1
    <3>1. i - 1 \in 1 .. Len(s) - 1 /\ (i - 1) + 1 = i
      BY <1>1, <2>2
    <3>2. Tail(s)[i - 1] = s[i]
      BY <1>1, <3>1
    <3>3. \E k \in DOMAIN Tail(s) : Tail(s)[k] = s[i]
      BY <1>2, <3>1, <3>2
    <3>. QED
      BY <2>1, <3>3, Zenon DEF Does
  <2>. QED
    BY <2>1, <2>2
<1>5. ASSUME NEW op, NEW x, Does(Tail(s), op, x) PROVE Does(s, op, x)
  <2>1. PICK i \in 1 .. Len(s) - 1 : Tail(s)[i][1] = op /\ Tail(s)[i][2] = x
    BY <1>2, <1>5 DEF Does
  <2>2. i + 1 \in 1 .. Len(s) /\ s[i + 1] = Tail(s)[i]
    BY <1>1
  <2>. QED
    BY <1>2, <2>1, <2>2 DEF Does
<1>6. ASSUME NEW op, NEW x, s[1][1] = op, s[1][2] = x PROVE Does(s, op, x)
  BY <1>1, <1>2, <1>6 DEF Does
<1>. QED
  BY <1>1, <1>2, <1>3, <1>4, <1>5, <1>6

ThreadOps == {"stop", "start", "die", "remove_thread"}
ProcOps   == {"signal", "terminate", "remove_process"}
JobOps    == {"end_job", "kill", "kill_child", "peek_child", "ids", "drop"}
ChildOps  == {"self_ref", "remove_child"}

\* The instructions that the code writes are well formed.
LEMMA InstrFacts ==
  /\ \A x \in Jobs \cup Procs \cup Threads : <<"unlock", x, None>> \in Instr
  /\ \A op \in ThreadOps, t \in Threads : <<op, t, None>> \in Instr
  /\ \A op \in {"exit", "critical"}, p \in Procs, n \in {0, 1} : <<op, p, n>> \in Instr
  /\ \A op \in ProcOps, p \in Procs : <<op, p, None>> \in Instr
  /\ \A op \in JobOps, j \in Jobs : <<op, j, None>> \in Instr
  /\ \A op \in ChildOps, j \in Jobs \ {Root} : <<op, j, None>> \in Instr
  /\ \A j \in Jobs, p \in Procs : <<"find", j, p>> \in Instr
  /\ \A j \in Jobs, p \in Procs, r \in Seq(Jobs) \ {<<>>} : <<"walk", j, <<p, r>> >> \in Instr
BY DEF Instr, ThreadOps, ProcOps, JobOps, ChildOps

\* What the first instruction of a stack is about.
LEMMA HeadType ==
  ASSUME NEW e \in Instr
  PROVE  /\ e[1] = "unlock" => e = <<"unlock", e[2], None>> /\ e[2] \in Jobs \cup Procs \cup Threads
         /\ e[1] \in ThreadOps => e[2] \in Threads
         /\ e[1] \in {"exit", "critical"} => e[2] \in Procs /\ e[3] \in {0, 1}
         /\ e[1] \in ProcOps => e[2] \in Procs
         /\ e[1] \in JobOps => e[2] \in Jobs
         /\ e[1] \in ChildOps => e[2] \in Jobs \ {Root}
         /\ e[1] = "find" => e[2] \in Jobs /\ e[3] \in Procs
         /\ e[1] = "walk" => e[2] \in Jobs /\ e[3] \in Procs \X (Seq(Jobs) \ {<<>>})
BY DEF Instr, ThreadOps, ProcOps, JobOps, ChildOps

LEMMA AtFacts ==
  ASSUME todo \in [Actors -> Seq(Instr)], NEW a \in Actors, NEW op, At(a, op)
  PROVE  /\ todo[a] # <<>> /\ todo[a] \in Seq(Instr) /\ todo[a][1] \in Instr
         /\ todo[a][1][1] = op /\ Pending(op, Subject(a))
<1>1. todo[a] # <<>> /\ todo[a] \in Seq(Instr) /\ todo[a][1][1] = op
  BY DEF At
<1>2. 1 \in DOMAIN todo[a] /\ todo[a][1] \in Instr
  BY <1>1, TailFacts
<1>. QED
  BY <1>1, <1>2 DEF Pending, Subject

\* A step executes its instruction and adds its calls.
Moves(a, code) ==
  /\ todo' \in [Actors -> Seq(Instr)]
  /\ \A op, x : Pending(op, x)' => Pending(op, x) \/ Does(code, op, x)
  /\ \A op, x : Does(code, op, x) => Pending(op, x)'
  /\ \A op, x : Pending(op, x) => Pending(op, x)' \/ (At(a, op) /\ Subject(a) = x)

LEMMA ContinueFacts ==
  ASSUME todo \in [Actors -> Seq(Instr)], NEW a \in Actors, todo[a] # <<>>,
         NEW code \in Seq(Instr), Continue(a, code)
  PROVE  Moves(a, code)
<1>1. todo[a] \in Seq(Instr)
  OBVIOUS
<1>2. /\ Tail(todo[a]) \in Seq(Instr)
      /\ \A op, x : Does(todo[a], op, x)
           <=> Does(Tail(todo[a]), op, x) \/ (todo[a][1][1] = op /\ todo[a][1][2] = x)
  BY <1>1, TailFacts
<1>3. /\ code \o Tail(todo[a]) \in Seq(Instr)
      /\ \A op, x : Does(code \o Tail(todo[a]), op, x)
           <=> Does(code, op, x) \/ Does(Tail(todo[a]), op, x)
  BY <1>2, ConcatFacts
<1>4. /\ todo' \in [Actors -> Seq(Instr)] /\ todo'[a] = code \o Tail(todo[a])
      /\ \A b \in Actors : b # a => todo'[b] = todo[b]
  BY <1>3 DEF Continue
<1>5. \A op, x : Pending(op, x) <=> \E b \in Actors : Does(todo[b], op, x)
  BY Zenon DEF Pending, Does
<1>6. \A op, x : Pending(op, x)' <=> \E b \in Actors : Does(todo'[b], op, x)
  BY Zenon DEF Pending, Does
<1>7. ASSUME NEW op, NEW x, Pending(op, x)' PROVE Pending(op, x) \/ Does(code, op, x)
  <2>1. PICK b \in Actors : Does(todo'[b], op, x)
    BY <1>6, <1>7
  <2>2. CASE b = a
    BY <1>2, <1>3, <1>4, <1>5, <2>1, <2>2
  <2>3. CASE b # a
    BY <1>4, <1>5, <2>1, <2>3
  <2>. QED
    BY <2>2, <2>3
<1>8. ASSUME NEW op, NEW x, Does(code, op, x) PROVE Pending(op, x)'
  BY <1>3, <1>4, <1>6, <1>8
<1>9. ASSUME NEW op, NEW x, Pending(op, x)
      PROVE  Pending(op, x)' \/ (At(a, op) /\ Subject(a) = x)
  <2>1. PICK b \in Actors : Does(todo[b], op, x)
    BY <1>5, <1>9
  <2>2. CASE b = a /\ Does(Tail(todo[a]), op, x)
    BY <1>3, <1>4, <1>6, <2>2
  <2>3. CASE b = a /\ ~Does(Tail(todo[a]), op, x)
    BY <1>2, <2>1, <2>3 DEF At, Subject
  <2>4. CASE b # a
    BY <1>4, <1>6, <2>1, <2>4
  <2>. QED
    BY <2>2, <2>3, <2>4
<1>. QED
  BY <1>4, <1>7, <1>8, <1>9 DEF Moves

\* A call begins on an empty stack.
LEMMA LoadFacts ==
  ASSUME todo \in [Actors -> Seq(Instr)], NEW a \in Actors, todo[a] = <<>>,
         NEW code \in Seq(Instr), todo' = [todo EXCEPT ![a] = code]
  PROVE  /\ todo' \in [Actors -> Seq(Instr)]
         /\ \A op, x : Pending(op, x)' <=> Pending(op, x) \/ Does(code, op, x)
<1>1. /\ todo' \in [Actors -> Seq(Instr)] /\ todo'[a] = code
      /\ \A b \in Actors : b # a => todo'[b] = todo[b]
  OBVIOUS
<1>2. \A op, x : Pending(op, x) <=> \E b \in Actors : Does(todo[b], op, x)
  BY Zenon DEF Pending, Does
<1>3. \A op, x : Pending(op, x)' <=> \E b \in Actors : Does(todo'[b], op, x)
  BY Zenon DEF Pending, Does
<1>4. \A op, x : ~Does(todo[a], op, x)
  BY CodeFacts
<1>. QED
  BY <1>1, <1>2, <1>3, <1>4

\* The return of a search changes loops into releases, and nothing else.
LEMMA ReturnFacts ==
  ASSUME NEW s \in Seq(Instr)
  PROVE  /\ Return(s) \in Seq(Instr)
         /\ \A op, x : op \notin {"walk", "unlock"} => (Does(Return(s), op, x) <=> Does(s, op, x))
<1>1. DOMAIN s = 1 .. Len(s) /\ Len(s) \in Nat /\ \A i \in 1 .. Len(s) : s[i] \in Instr
  BY LenProperties, ElementOfSeq
<1>. DEFINE R(e) == IF e[1] = "walk" THEN <<"unlock", e[2], None>> ELSE e
<1>2. \A e \in Instr : R(e) \in Instr
  BY InstrFacts, HeadType
<1>3. Return(s) = [i \in 1 .. Len(s) |-> R(s[i])]
  BY <1>1 DEF Return
<1>4. \A i \in 1 .. Len(s) : /\ s[i][1] # "walk" => R(s[i]) = s[i]
                             /\ s[i][1] = "walk" => R(s[i])[1] = "unlock"
  OBVIOUS
<1>. HIDE DEF R
<1>5. Return(s) \in Seq(Instr)
  BY <1>1, <1>2, <1>3
<1>6. DOMAIN Return(s) = 1 .. Len(s) /\ \A i \in 1 .. Len(s) : Return(s)[i] = R(s[i])
  BY <1>3
<1>7. ASSUME NEW op, NEW x, op \notin {"walk", "unlock"}
      PROVE  Does(Return(s), op, x) <=> Does(s, op, x)
  BY <1>1, <1>4, <1>6, <1>7 DEF Does
<1>. QED
  BY <1>5, <1>7

-----------------------------------------------------------------------------
(* Steps that change the stacks, but neither job, process nor thread         *)

LEMMA CalmStep ==
  ASSUME IInv, UNCHANGED <<job, proc, thr, escaped>>, OtherOK', TodoOK', held' \subseteq held,
         \A p \in Procs :
           /\ Pending("signal", p)' => Pending("signal", p)
           /\ Pending("remove_process", p)' => Pending("remove_process", p)
           /\ Pending("terminate", p)' =>
                \/ Pending("terminate", p)
                \/ proc[p].status # "none" /\ proc[p].threads = <<>>
           /\ Pending("exit", p)' => proc[p].status # "none"
           /\ Pending("exit", p) => Pending("exit", p)' \/ proc[p].status = "Exited",
         \A t \in Threads :
           /\ Pending("remove_thread", t)' => Pending("remove_thread", t)
           /\ \/ t \in runner' \/ Pending("start", t)' \/ Pending("die", t)'
              => proc[ProcOf[t]].status # "none"
           /\ Pending("stop", t) => Pending("stop", t)',
         \A c \in Jobs \ {Root} :
           Pending("self_ref", c)' \/ Pending("remove_child", c)' => job[c].term,
         \A j \in Jobs :
           /\ Pending("end_job", j)' => Pending("end_job", j)
           /\ Pending("kill_child", j) \/ Pending("kill", j)
              => \/ Pending("kill_child", j)' \/ Pending("kill", j)'
                 \/ job[j].killed \/ job[j].st # "live"
  PROVE  IInv'
<1>1. JobsOK' /\ ProcsOK' /\ ListInv' /\ DropInv' /\ HeldInv'
  BY DEF IInv, JobsOK, ProcsOK, ListInv, DropInv, HeldInv
<1>2. ExistInv' /\ SignalInv'
  BY DEF IInv, ExistInv, SignalInv
<1>3. ThreadInv'
  <2>1. \A p \in Procs, t \in Threads : proc[p].threads = <<>> => ~In(t, proc[p].threads)
    BY DEF In
  <2>. QED
    BY <2>1 DEF IInv, ThreadInv, Gone
<1>4. ProcInv'
  BY DEF IInv, ProcInv, Gone
<1>5. ChildInv'
  BY DEF IInv, ChildInv
<1>6. EndInv'
  BY DEF IInv, EndInv, Over, MayTerminate
<1>7. KillReachesAll'
  BY DEF IInv, KillReachesAll
<1>8. ExitReachesAll'
  BY TaskAssumption DEF IInv, ExitReachesAll
<1>. QED
  BY <1>1, <1>2, <1>3, <1>4, <1>5, <1>6, <1>7, <1>8 DEF IInv

\* What some instructions say of their subjects.
Subjects ==
  /\ \A p \in Procs : Pending("exit", p) => proc[p].status # "none"
  /\ \A t \in Threads : t \in runner \/ Pending("start", t) \/ Pending("die", t)
                        => proc[ProcOf[t]].status # "none"
  /\ \A c \in Jobs \ {Root} : Pending("self_ref", c) \/ Pending("remove_child", c) => job[c].term

LEMMA SubjectsFacts == IInv => Subjects
BY DEF IInv, ExistInv, ChildInv, Subjects

\* The instructions that the invariant does not speak of.
QuietOps == {"unlock", "critical", "peek_child", "find", "walk", "ids", "drop"}

LEMMA QuietStep ==
  ASSUME IInv, UNCHANGED <<job, held, proc, thr, runner, calls, escaped>>, OtherOK',
         NEW a \in Actors, NEW o \in QuietOps, At(a, o), NEW code, Moves(a, code),
         \A op, x : Does(code, op, x) => op \in QuietOps \cup {"kill", "kill_child", "stop"}
  PROVE  IInv'
<1>1. TodoOK'
  BY DEF Moves, TodoOK
<1>2. \A op, x : op \notin QuietOps \cup {"kill", "kill_child", "stop"} =>
        (Pending(op, x)' => Pending(op, x))
  BY DEF Moves
<1>3. \A op, x : op \notin QuietOps => (Pending(op, x) => Pending(op, x)')
  BY DEF Moves, At
<1>4. Subjects
  BY SubjectsFacts
<1>. QED
  BY <1>1, <1>2, <1>3, <1>4, CalmStep DEF QuietOps, Subjects

\* The code of an action is a sequence of instructions.
LEMMA SeqFacts ==
  /\ <<>> \in Seq(Instr)
  /\ \A e \in Instr : <<e>> \in Seq(Instr)
  /\ \A e, f \in Instr : <<e, f>> \in Seq(Instr)
  /\ \A e, f, g \in Instr : <<e, f, g>> \in Seq(Instr)
OBVIOUS

LEMMA UnlockStep ==
  ASSUME IInv, NEW a \in Actors, Unlock(a)
  PROVE  IInv'
<1>1. At(a, "unlock") /\ todo[a] # <<>> /\ TodoOK /\ OtherOK
  BY DEF Unlock, IInv, At
<1>2. Moves(a, <<>>)
  BY <1>1, ContinueFacts, SeqFacts DEF Unlock, TodoOK
<1>3. OtherOK'
  BY <1>1 DEF Unlock, OtherOK
<1>. QED
  BY <1>1, <1>2, <1>3, QuietStep, CodeFacts DEF Unlock, QuietOps

LEMMA ExitAgainStep ==
  ASSUME IInv, NEW a \in Actors, ExitAgain(a)
  PROVE  IInv'
<1>1. At(a, "exit") /\ todo[a] # <<>> /\ TodoOK /\ OtherOK
  BY DEF ExitAgain, IInv, At
<1>2. Moves(a, <<>>)
  BY <1>1, ContinueFacts, SeqFacts DEF ExitAgain, TodoOK
<1>3. OtherOK' /\ TodoOK'
  BY <1>1, <1>2 DEF ExitAgain, OtherOK, Moves, TodoOK
<1>4. /\ \A op, x : Pending(op, x)' => Pending(op, x)
      /\ \A op, x : op # "exit" => (Pending(op, x) => Pending(op, x)')
      /\ \A x : Pending("exit", x) => Pending("exit", x)' \/ proc[x].status = "Exited"
  BY <1>1, <1>2, CodeFacts DEF Moves, At, ExitAgain
<1>5. Subjects
  BY SubjectsFacts
<1>. QED
  BY <1>3, <1>4, <1>5, CalmStep DEF ExitAgain, Subjects

LEMMA CriticalKillStep ==
  ASSUME IInv, NEW a \in Actors, CriticalKill(a)
  PROVE  IInv'
<1>. DEFINE p == Subject(a)
<1>1. At(a, "critical") /\ todo[a] # <<>> /\ TodoOK /\ OtherOK /\ p \in Procs
  BY AtFacts, HeadType DEF CriticalKill, IInv, At, TodoOK, Subject
<1>2. CASE UNCHANGED lock /\ Continue(a, <<>>)
  <2>1. Moves(a, <<>>)
    BY <1>1, <1>2, ContinueFacts, SeqFacts DEF TodoOK
  <2>2. OtherOK'
    BY <1>1, <1>2 DEF CriticalKill, OtherOK
  <2>. QED
    BY <1>1, <2>1, <2>2, QuietStep, CodeFacts DEF CriticalKill, QuietOps
<1>3. CASE /\ proc[p].critical # None /\ lock' = [lock EXCEPT ![p] = a]
           /\ Continue(a, << <<"kill", proc[p].critical, None>>, <<"unlock", p, None>> >>)
  <2>1. proc[p].critical \in Jobs
    BY <1>1, <1>3 DEF IInv, ProcsOK, ProcRec
  <2>2. <<"kill", proc[p].critical, None>> \in Instr /\ <<"unlock", p, None>> \in Instr
    BY <1>1, <2>1, InstrFacts DEF JobOps
  <2>3. Moves(a, << <<"kill", proc[p].critical, None>>, <<"unlock", p, None>> >>)
    BY <1>1, <1>3, <2>2, ContinueFacts, SeqFacts DEF TodoOK
  <2>4. OtherOK'
    BY <1>1, <1>3 DEF CriticalKill, OtherOK
  <2>5. \A op, x : Does(<< <<"kill", proc[p].critical, None>>, <<"unlock", p, None>> >>, op, x)
          => op \in {"kill", "unlock"}
    BY CodeFacts
  <2>. QED
    BY <1>1, <2>3, <2>4, <2>5, QuietStep DEF CriticalKill, QuietOps
<1>. QED
  BY <1>2, <1>3 DEF CriticalKill

LEMMA SelfRefStep ==
  ASSUME IInv, NEW a \in Actors, SelfRef(a)
  PROVE  IInv'
<1>. DEFINE j == Subject(a)
            code == << <<"remove_child", j, None>> >>
<1>1. /\ At(a, "self_ref") /\ todo[a] # <<>> /\ TodoOK /\ OtherOK /\ j \in Jobs \ {Root}
      /\ Pending("self_ref", j)
  BY AtFacts, HeadType DEF SelfRef, IInv, At, TodoOK, Subject, ChildOps
<1>2. Moves(a, code)
  BY <1>1, ContinueFacts, SeqFacts, InstrFacts DEF SelfRef, TodoOK, ChildOps
<1>3. OtherOK' /\ TodoOK'
  BY <1>1, <1>2 DEF SelfRef, OtherOK, Moves, TodoOK
<1>4. \A op, x : Does(code, op, x) => op = "remove_child" /\ x = j
  BY CodeFacts
<1>. HIDE DEF code
<1>5. /\ \A op, x : op # "remove_child" => (Pending(op, x)' => Pending(op, x))
      /\ \A x : Pending("remove_child", x)' => Pending("remove_child", x) \/ x = j
      /\ \A op, x : op # "self_ref" => (Pending(op, x) => Pending(op, x)')
  BY <1>1, <1>2, <1>4 DEF Moves, At
<1>6. Subjects
  BY SubjectsFacts
<1>. HIDE DEF j
<1>. QED
  BY <1>1, <1>3, <1>5, <1>6, CalmStep DEF SelfRef, Subjects

LEMMA UpgradeStep ==
  ASSUME IInv, NEW a \in Actors, Upgrade(a)
  PROVE  IInv'
<1>. DEFINE c == Subject(a)
            use == IF At(a, "kill_child") THEN << <<"kill", c, None>> >> ELSE <<>>
            code == IF job[c].st = "live" THEN use \o << <<"drop", c, None>> >> ELSE <<>>
<1>1. /\ At(a, "kill_child") \/ At(a, "peek_child")
      /\ todo[a] # <<>> /\ TodoOK /\ OtherOK /\ c \in Jobs
  BY AtFacts, HeadType DEF Upgrade, IInv, At, TodoOK, Subject, JobOps
<1>2. <<"kill", c, None>> \in Instr /\ <<"drop", c, None>> \in Instr
  BY <1>1, InstrFacts DEF JobOps
<1>3. /\ code \in Seq(Instr)
      /\ \A op, x : Does(code, op, x) => op \in {"kill", "drop"}
      /\ At(a, "kill_child") /\ job[c].st = "live" => Does(code, "kill", c)
  <2>1. /\ use \in Seq(Instr) /\ << <<"drop", c, None>> >> \in Seq(Instr)
        /\ \A op, x : Does(use, op, x) => op = "kill"
        /\ \A op, x : Does(<< <<"drop", c, None>> >>, op, x) => op = "drop"
        /\ At(a, "kill_child") => Does(use, "kill", c)
    BY <1>2, SeqFacts, CodeFacts
  <2>. HIDE DEF use
  <2>2. CASE job[c].st = "live"
    <3>1. PICK d : d = << <<"drop", c, None>> >>
      OBVIOUS
    <3>2. code = use \o d /\ d \in Seq(Instr) /\ \A op, x : Does(d, op, x) => op = "drop"
      BY <2>1, <2>2, <3>1
    <3>. HIDE DEF code
    <3>3. /\ use \o d \in Seq(Instr)
          /\ \A op, x : Does(use \o d, op, x) <=> Does(use, op, x) \/ Does(d, op, x)
      BY <2>1, <3>2, ConcatFacts
    <3>. QED
      BY <2>1, <3>2, <3>3
  <2>3. CASE job[c].st # "live"
    BY <2>3, SeqFacts, CodeFacts
  <2>. QED
    BY <2>2, <2>3
<1>4. Continue(a, code) /\ UNCHANGED <<job, held, proc, thr, runner, lock, calls, escaped>>
  BY DEF Upgrade
<1>. HIDE DEF code
<1>5. Moves(a, code)
  BY <1>1, <1>3, <1>4, ContinueFacts DEF TodoOK
<1>6. OtherOK' /\ TodoOK'
  BY <1>1, <1>4, <1>5 DEF OtherOK, Moves, TodoOK
<1>7. /\ \A op, x : op \notin {"kill", "drop"} => (Pending(op, x)' => Pending(op, x))
      /\ \A op, x : op \notin {"kill_child", "peek_child"} => (Pending(op, x) => Pending(op, x)')
      /\ \A x : Pending("kill_child", x) =>
           \/ Pending("kill_child", x)' \/ Pending("kill", x)'
           \/ x = c /\ job[c].st # "live"
  BY <1>1, <1>3, <1>5 DEF Moves, At
<1>8. Subjects
  BY SubjectsFacts
<1>. HIDE DEF c
<1>. QED
  BY <1>4, <1>6, <1>7, <1>8, CalmStep DEF Subjects

\* The loop of a walk goes on, or releases its lock.
LEMMA LoopFacts ==
  ASSUME NEW j \in Jobs, NEW id \in Procs, NEW rest \in Seq(Jobs)
  PROVE  Loop(j, id, rest) \in Instr /\ Loop(j, id, rest)[1] \in {"unlock", "walk"}
<1>1. CASE rest = <<>>
  BY <1>1, InstrFacts DEF Loop
<1>2. CASE rest # <<>>
  <2>1. <<"walk", j, <<id, rest>> >> \in Instr
    BY <1>2, InstrFacts
  <2>. QED
    BY <1>2, <2>1 DEF Loop
<1>. QED
  BY <1>1, <1>2

LEMMA FindProcessStep ==
  ASSUME IInv, NEW a \in Actors, FindProcess(a)
  PROVE  IInv'
<1>. DEFINE j == Subject(a)
            id == Argument(a)
<1>1. /\ At(a, "find") /\ todo[a] # <<>> /\ TodoOK /\ OtherOK /\ j \in Jobs /\ id \in Procs
      /\ todo[a] \in Seq(Instr) /\ todo[a][1][1] = "find"
  BY AtFacts, HeadType DEF FindProcess, IInv, At, TodoOK, Subject, Argument
<1>2. OtherOK' /\ UNCHANGED <<job, held, proc, thr, runner, calls, escaped>>
  BY <1>1 DEF FindProcess, OtherOK
<1>3. CASE Continue(a, << Loop(j, id, job[j].children) >>)
  <2>1. job[j].children \in Seq(Jobs)
    BY <1>1 DEF IInv, JobsOK, JobRec
  <2>2. PICK e : e = Loop(j, id, job[j].children)
    OBVIOUS
  <2>3. e \in Instr /\ e[1] \in {"unlock", "walk"}
    BY <1>1, <2>1, <2>2, LoopFacts
  <2>4. Moves(a, <<e>>)
    BY <1>1, <1>3, <2>2, <2>3, ContinueFacts, SeqFacts DEF TodoOK
  <2>5. \A op, x : Does(<<e>>, op, x) => op \in {"unlock", "walk"}
    BY <2>3, CodeFacts
  <2>. QED
    BY <1>1, <1>2, <2>4, <2>5, QuietStep DEF QuietOps
<1>4. CASE todo' = [todo EXCEPT ![a] = << <<"unlock", j, None>> >> \o Return(Tail(todo[a]))]
  <2>1. PICK u : u = << <<"unlock", j, None>> >>
    OBVIOUS
  <2>2. u \in Seq(Instr) /\ \A op, x : Does(u, op, x) => op = "unlock"
    BY <1>1, <2>1, InstrFacts, SeqFacts, CodeFacts
  <2>3. /\ Tail(todo[a]) \in Seq(Instr)
        /\ \A op, x : Does(todo[a], op, x)
             <=> Does(Tail(todo[a]), op, x) \/ (todo[a][1][1] = op /\ todo[a][1][2] = x)
    BY <1>1, TailFacts
  <2>4. PICK r : r = Return(Tail(todo[a]))
    OBVIOUS
  <2>5. /\ r \in Seq(Instr)
        /\ \A op, x : op \notin {"walk", "unlock"} => (Does(r, op, x) <=> Does(Tail(todo[a]), op, x))
    BY <2>3, <2>4, ReturnFacts
  <2>6. /\ u \o r \in Seq(Instr)
        /\ \A op, x : Does(u \o r, op, x) <=> Does(u, op, x) \/ Does(r, op, x)
    BY <2>2, <2>5, ConcatFacts
  <2>7. /\ todo' \in [Actors -> Seq(Instr)] /\ todo'[a] = u \o r
        /\ \A b \in Actors : b # a => todo'[b] = todo[b]
    BY <1>1, <1>4, <2>1, <2>4, <2>6 DEF TodoOK
  <2>8. \A op, x : Pending(op, x) <=> \E b \in Actors : Does(todo[b], op, x)
    BY Zenon DEF Pending, Does
  <2>9. \A op, x : Pending(op, x)' <=> \E b \in Actors : Does(todo'[b], op, x)
    BY Zenon DEF Pending, Does
  <2>10. \A op, x : op \notin {"walk", "unlock", "find"} =>
           (Does(todo'[a], op, x) <=> Does(todo[a], op, x))
    BY <1>1, <2>2, <2>3, <2>5, <2>6, <2>7
  <2>11. \A op, x : op \notin {"walk", "unlock", "find"} => (Pending(op, x)' <=> Pending(op, x))
    BY <2>7, <2>8, <2>9, <2>10
  <2>12. TodoOK'
    BY <2>7 DEF TodoOK
  <2>13. Subjects
    BY SubjectsFacts
  <2>. QED
    BY <1>2, <2>11, <2>12, <2>13, CalmStep DEF Subjects
<1>. QED
  BY <1>3, <1>4 DEF FindProcess

LEMMA VisitChildStep ==
  ASSUME IInv, NEW a \in Actors, VisitChild(a)
  PROVE  IInv'
<1>. DEFINE j == Subject(a)
            id == Argument(a)[1]
            rest == Argument(a)[2]
            c == Head(rest)
            visit == IF job[c].st = "live" THEN << <<"find", c, id>>, <<"drop", c, None>> >> ELSE <<>>
<1>1. /\ At(a, "walk") /\ todo[a] # <<>> /\ TodoOK /\ OtherOK /\ j \in Jobs
      /\ Argument(a) \in Procs \X (Seq(Jobs) \ {<<>>})
  BY AtFacts, HeadType DEF VisitChild, IInv, At, TodoOK, Subject, Argument
<1>2. id \in Procs /\ rest \in Seq(Jobs) /\ rest # <<>>
  BY <1>1
<1>. HIDE DEF id, rest
<1>3. c \in Jobs /\ Tail(rest) \in Seq(Jobs)
  BY <1>2, HeadTailProperties
<1>4. PICK e : e = Loop(j, id, Tail(rest))
  OBVIOUS
<1>5. e \in Instr /\ e[1] \in {"unlock", "walk"}
  BY <1>1, <1>2, <1>3, <1>4, LoopFacts
<1>6. <<e>> \in Seq(Instr) /\ \A op, x : Does(<<e>>, op, x) => op \in {"unlock", "walk"}
  BY <1>5, CodeFacts, SeqFacts
<1>7. visit \in Seq(Instr) /\ \A op, x : Does(visit, op, x) => op \in {"find", "drop"}
  <2>1. <<"find", c, id>> \in Instr /\ <<"drop", c, None>> \in Instr
    BY <1>2, <1>3, InstrFacts DEF JobOps
  <2>2. CASE job[c].st = "live"
    BY <2>1, <2>2, CodeFacts, SeqFacts
  <2>3. CASE job[c].st # "live"
    BY <2>3, CodeFacts, SeqFacts
  <2>. QED
    BY <2>2, <2>3
<1>8. Continue(a, visit \o <<e>>) /\ UNCHANGED <<job, held, proc, thr, runner, lock, calls, escaped>>
  BY <1>4 DEF VisitChild, id, rest
<1>. HIDE DEF visit
<1>9. PICK l : l = <<e>>
  OBVIOUS
<1>10. /\ visit \o l \in Seq(Instr)
       /\ \A op, x : Does(visit \o l, op, x) <=> Does(visit, op, x) \/ Does(l, op, x)
  BY <1>6, <1>7, <1>9, ConcatFacts
<1>11. Moves(a, visit \o l)
  BY <1>1, <1>8, <1>9, <1>10, ContinueFacts DEF TodoOK
<1>12. \A op, x : Does(visit \o l, op, x) => op \in QuietOps
  BY <1>6, <1>7, <1>9, <1>10 DEF QuietOps
<1>13. OtherOK'
  BY <1>1, <1>8 DEF OtherOK
<1>. QED
  BY <1>1, <1>8, <1>11, <1>12, <1>13, QuietStep DEF QuietOps

LEMMA ChildrenIdsStep ==
  ASSUME IInv, NEW a \in Actors, ChildrenIds(a)
  PROVE  IInv'
<1>. DEFINE j == Subject(a)
<1>1. At(a, "ids") /\ todo[a] # <<>> /\ TodoOK /\ OtherOK /\ j \in Jobs
  BY AtFacts, HeadType DEF ChildrenIds, IInv, At, TodoOK, Subject, JobOps
<1>2. OtherOK' /\ UNCHANGED <<job, held, proc, thr, runner, calls, escaped>>
  BY <1>1 DEF ChildrenIds, OtherOK
<1>3. job[j].children \in Seq(Jobs)
  BY <1>1 DEF IInv, JobsOK, JobRec
<1>4. PICK peeks : peeks = Calls("peek_child", job[j].children, None)
  OBVIOUS
<1>5. peeks \in Seq(Instr) /\ \A op, x : Does(peeks, op, x) => op = "peek_child"
  <2>1. \A y \in Jobs : <<"peek_child", y, None>> \in Instr
    BY InstrFacts DEF JobOps
  <2>. QED
    BY <1>3, <1>4, <2>1, CallsFacts
<1>6. PICK u : u = << <<"unlock", j, None>> >>
  OBVIOUS
<1>7. u \in Seq(Instr) /\ \A op, x : Does(u, op, x) => op = "unlock"
  BY <1>1, <1>6, InstrFacts, SeqFacts, CodeFacts
<1>8. /\ peeks \o u \in Seq(Instr)
      /\ \A op, x : Does(peeks \o u, op, x) <=> Does(peeks, op, x) \/ Does(u, op, x)
  BY <1>5, <1>7, ConcatFacts
<1>9. Moves(a, peeks \o u)
  BY <1>1, <1>4, <1>6, <1>8, ContinueFacts DEF TodoOK, ChildrenIds
<1>10. \A op, x : Does(peeks \o u, op, x) => op \in QuietOps
  BY <1>5, <1>7, <1>8 DEF QuietOps
<1>. QED
  BY <1>1, <1>2, <1>9, <1>10, QuietStep DEF QuietOps

LEMMA EndRunnerStep ==
  ASSUME IInv, NEW t \in Threads, EndRunner(t)
  PROVE  IInv'
<1>1. /\ t \in Actors /\ t \in runner /\ todo[t] = <<>> /\ TodoOK /\ OtherOK
      /\ <<"die", t, None>> \in Instr
  BY InstrFacts DEF EndRunner, IInv, Actors, ThreadOps
<1>2. /\ TodoOK'
      /\ \A op, x : Pending(op, x)' <=> Pending(op, x) \/ (op = "die" /\ x = t)
  <2>1. PICK code : code = << <<"die", t, None>> >>
    OBVIOUS
  <2>2. code \in Seq(Instr) /\ \A op, x : Does(code, op, x) <=> op = "die" /\ x = t
    BY <1>1, <2>1, SeqFacts, CodeFacts
  <2>3. todo' = [todo EXCEPT ![t] = code]
    BY <2>1 DEF EndRunner
  <2>. QED
    BY <1>1, <2>2, <2>3, LoadFacts DEF TodoOK
<1>3. OtherOK'
  BY <1>1 DEF EndRunner, OtherOK
<1>4. Subjects
  BY SubjectsFacts
<1>5. /\ UNCHANGED <<job, proc, thr, escaped, held>>
      /\ \A x : x \in runner' => x \in runner
  BY DEF EndRunner
<1>. QED
  BY <1>1, <1>2, <1>3, <1>4, <1>5, CalmStep DEF Subjects

LEMMA StartThreadStep ==
  ASSUME IInv, NEW a \in Actors, NEW t \in Threads, StartThread(a, t)
  PROVE  IInv'
<1>1. /\ todo[a] = <<>> /\ TodoOK /\ OtherOK /\ proc[ProcOf[t]].status = "Running"
      /\ <<"start", t, None>> \in Instr
  BY InstrFacts DEF StartThread, MayCall, IInv, ThreadOps
<1>2. /\ TodoOK'
      /\ \A op, x : Pending(op, x)' <=> Pending(op, x) \/ (op = "start" /\ x = t)
  <2>1. PICK code : code = << <<"start", t, None>> >>
    OBVIOUS
  <2>2. code \in Seq(Instr) /\ \A op, x : Does(code, op, x) <=> op = "start" /\ x = t
    BY <1>1, <2>1, SeqFacts, CodeFacts
  <2>3. todo' = [todo EXCEPT ![a] = code]
    BY <2>1 DEF StartThread
  <2>. QED
    BY <1>1, <2>2, <2>3, LoadFacts DEF TodoOK
<1>3. OtherOK' /\ UNCHANGED <<job, proc, thr, escaped, held, runner>>
  BY <1>1 DEF StartThread, OtherOK
<1>4. Subjects
  BY SubjectsFacts
<1>. QED
  BY <1>1, <1>2, <1>3, <1>4, CalmStep DEF Subjects

LEMMA RequestStep ==
  ASSUME IInv, NEW a \in Actors, NEW code \in Seq(Instr), Request(a, code),
         held' \subseteq held, Root \in held',
         \A op, x : Does(code, op, x) =>
           \/ op \in QuietOps \cup {"kill", "stop"}
           \/ op = "exit" /\ proc[x].status # "none"
  PROVE  IInv'
<1>1. todo[a] = <<>> /\ TodoOK /\ OtherOK
  BY DEF Request, MayCall, IInv
<1>2. /\ TodoOK'
      /\ \A op, x : Pending(op, x)' <=> Pending(op, x) \/ Does(code, op, x)
  BY <1>1, LoadFacts DEF Request, TodoOK
<1>3. /\ \A op, x : Pending(op, x) => Pending(op, x)'
      /\ \A op, x : op \notin QuietOps \cup {"kill", "stop", "exit"} =>
           (Pending(op, x)' => Pending(op, x))
      /\ \A x : Pending("exit", x)' => Pending("exit", x) \/ proc[x].status # "none"
  BY <1>2 DEF QuietOps
<1>4. OtherOK' /\ UNCHANGED <<job, proc, thr, escaped, runner>>
  <2>1. calls' \in 0 .. MaxCalls
    BY <1>1, TaskAssumption DEF Request, OtherOK
  <2>. QED
    BY <1>1, <2>1 DEF Request, OtherOK
<1>5. Subjects
  BY SubjectsFacts
<1>. QED
  BY <1>2, <1>3, <1>4, <1>5, CalmStep DEF Subjects, QuietOps

\* The system calls that only put instructions on a stack.
LEMMA CallStep ==
  ASSUME IInv, NEW a \in Actors,
         \/ \E j \in Jobs \ {Root} : CloseJob(a, j)
         \/ \E j \in Jobs : KillJob(a, j) \/ WalkJob(a, j)
         \/ \E p \in Procs : KillProcess(a, p) \/ WalkTree(a, p)
         \/ \E t \in Threads : KillThread(a, t)
         \/ ExitThread(a)
         \/ \E code \in {0, 1} : ExitProcess(a, code)
  PROVE  IInv'
<1>1. OtherOK
  BY DEF IInv
<1>2. ASSUME NEW j \in Jobs \ {Root}, CloseJob(a, j) PROVE IInv'
  <2>1. << <<"drop", j, None>> >> \in Seq(Instr)
    BY InstrFacts, SeqFacts DEF JobOps
  <2>2. \A op, x : Does(<< <<"drop", j, None>> >>, op, x) => op \in QuietOps
    BY CodeFacts DEF QuietOps
  <2>3. Request(a, << <<"drop", j, None>> >>) /\ held' \subseteq held /\ Root \in held'
    BY <1>1, <1>2 DEF CloseJob, OtherOK
  <2>. QED
    BY <2>1, <2>2, <2>3, RequestStep
<1>3. ASSUME NEW j \in Jobs, NEW o \in {"kill", "ids"},
             Request(a, << <<o, j, None>>, <<"drop", j, None>> >>), UNCHANGED held
      PROVE  IInv'
  <2>1. << <<o, j, None>>, <<"drop", j, None>> >> \in Seq(Instr)
    BY InstrFacts, SeqFacts DEF JobOps
  <2>2. \A op, x : Does(<< <<o, j, None>>, <<"drop", j, None>> >>, op, x)
                   => op \in QuietOps \cup {"kill"}
    BY CodeFacts DEF QuietOps
  <2>. QED
    BY <1>1, <1>3, <2>1, <2>2, RequestStep DEF OtherOK
<1>4. ASSUME NEW p \in Procs, NEW n \in {0, 1}, proc[p].status # "none",
             Request(a, << <<"exit", p, n>> >>), UNCHANGED held
      PROVE  IInv'
  <2>1. << <<"exit", p, n>> >> \in Seq(Instr)
    BY InstrFacts, SeqFacts
  <2>2. \A op, x : Does(<< <<"exit", p, n>> >>, op, x) => op = "exit" /\ proc[x].status # "none"
    BY <1>4, CodeFacts
  <2>. QED
    BY <1>1, <1>4, <2>1, <2>2, RequestStep DEF OtherOK
<1>5. ASSUME NEW p \in Procs, WalkTree(a, p) PROVE IInv'
  <2>1. << <<"find", Root, p>> >> \in Seq(Instr)
    BY InstrFacts, SeqFacts, TaskAssumption
  <2>2. \A op, x : Does(<< <<"find", Root, p>> >>, op, x) => op \in QuietOps
    BY CodeFacts DEF QuietOps
  <2>. QED
    BY <1>1, <1>5, <2>1, <2>2, RequestStep DEF OtherOK, WalkTree
<1>6. ASSUME NEW t \in Threads, Request(a, << <<"stop", t, None>> >>), UNCHANGED held PROVE IInv'
  <2>1. << <<"stop", t, None>> >> \in Seq(Instr)
    BY InstrFacts, SeqFacts DEF ThreadOps
  <2>2. \A op, x : Does(<< <<"stop", t, None>> >>, op, x) => op = "stop"
    BY CodeFacts
  <2>. QED
    BY <1>1, <1>6, <2>1, <2>2, RequestStep DEF OtherOK
<1>7. ASSUME NEW code \in {0, 1}, ExitProcess(a, code) PROVE IInv'
  <2>1. /\ a \in Threads /\ ProcOf[a] \in Procs /\ UNCHANGED held
        /\ Request(a, << <<"exit", ProcOf[a], code>> >>)
    BY <1>7, TaskAssumption DEF ExitProcess
  <2>2. a \in runner
    BY <2>1, TaskAssumption DEF Request, MayCall
  <2>3. proc[ProcOf[a]].status # "none"
    BY <2>1, <2>2, SubjectsFacts DEF Subjects
  <2>. QED
    BY <1>4, <2>1, <2>3
<1>8. ASSUME NEW j \in Jobs, KillJob(a, j) \/ WalkJob(a, j) PROVE IInv'
  BY <1>3, <1>8 DEF KillJob, WalkJob
<1>9. ASSUME NEW p \in Procs, KillProcess(a, p) PROVE IInv'
  BY <1>4, <1>9 DEF KillProcess
<1>10. ASSUME NEW t \in Threads, KillThread(a, t) PROVE IInv'
  BY <1>6, <1>10 DEF KillThread
<1>11. ASSUME ExitThread(a) PROVE IInv'
  BY <1>6, <1>11 DEF ExitThread
<1>. QED
  BY <1>2, <1>5, <1>7, <1>8, <1>9, <1>10, <1>11

-----------------------------------------------------------------------------
(* Steps of a thread                                                         *)

LEMMA ThreadChange ==
  ASSUME IInv, UNCHANGED <<job, held, proc>>, OtherOK', TodoOK',
         \A op, x : op \notin ThreadOps \cup QuietOps => (Pending(op, x)' <=> Pending(op, x)),
         \A t \in Threads :
           /\ t \in escaped => t \in escaped'
           /\ Gone(t) => Gone(t)'
           /\ thr[t] # "none" => thr'[t] # "none"
           /\ \/ t \in runner' \/ Pending("start", t)' \/ Pending("die", t)'
              \/ Pending("remove_thread", t)'
              => proc[ProcOf[t]].status # "none"
           /\ Pending("remove_thread", t)' => thr'[t] = "Dead" \/ t \in escaped'
           /\ \/ thr[t] \in {"Dying", "Dead"} \/ t \in escaped
              \/ Pending("stop", t) /\ thr[t] # "none"
              => thr'[t] \in {"Dying", "Dead"} \/ Pending("stop", t)' \/ t \in escaped'
  PROVE  IInv'
<1>1. JobsOK' /\ ProcsOK' /\ DropInv' /\ HeldInv'
  BY DEF IInv, JobsOK, ProcsOK, DropInv, HeldInv
<1>2. /\ \A p \in Procs : /\ Pending("exit", p)' <=> Pending("exit", p)
                          /\ Pending("terminate", p)' <=> Pending("terminate", p)
                          /\ Pending("signal", p)' <=> Pending("signal", p)
                          /\ Pending("remove_process", p)' <=> Pending("remove_process", p)
      /\ \A j \in Jobs : /\ Pending("self_ref", j)' <=> Pending("self_ref", j)
                         /\ Pending("remove_child", j)' <=> Pending("remove_child", j)
                         /\ Pending("end_job", j)' <=> Pending("end_job", j)
                         /\ Pending("kill", j)' <=> Pending("kill", j)
                         /\ Pending("kill_child", j)' <=> Pending("kill_child", j)
  BY DEF ThreadOps, QuietOps
<1>3. ListInv'
  BY DEF IInv, ListInv
<1>4. ExistInv' /\ SignalInv'
  BY <1>2 DEF IInv, ExistInv, SignalInv
<1>5. ThreadInv'
  <2>1. ASSUME NEW t \in Threads
        PROVE  /\ In(t, proc'[ProcOf[t]].threads) \/ Gone(t)'
               /\ proc'[ProcOf[t]].status = "none" => Gone(t)'
    BY TaskAssumption DEF IInv, ThreadInv
  <2>2. \A p \in Procs, t \in Threads :
          Pending("terminate", p)' /\ In(t, proc'[p].threads) => t \in escaped'
    BY <1>2 DEF IInv, ThreadInv
  <2>. QED
    BY <2>1, <2>2 DEF ThreadInv
<1>6. ProcInv'
  BY <1>2 DEF IInv, ProcInv
<1>7. ChildInv' /\ EndInv'
  BY <1>2 DEF IInv, ChildInv, EndInv, Over, MayTerminate
<1>8. KillReachesAll'
  BY <1>2 DEF IInv, KillReachesAll
<1>9. ExitReachesAll'
  BY TaskAssumption DEF IInv, ExitReachesAll, ListInv
<1>. QED
  BY <1>1, <1>3, <1>4, <1>5, <1>6, <1>7, <1>8, <1>9 DEF IInv

\* What a thread of the tree is known by, before a step.
LEMMA ThreadFacts ==
  ASSUME IInv
  PROVE  /\ TodoOK /\ OtherOK
         /\ \A t \in Threads :
              /\ \/ t \in runner \/ Pending("start", t) \/ Pending("die", t)
                 \/ Pending("remove_thread", t)
                 => proc[ProcOf[t]].status # "none"
              /\ Pending("remove_thread", t) => thr[t] = "Dead" \/ t \in escaped
BY DEF IInv, ExistInv, ThreadInv

LEMMA StopStep ==
  ASSUME IInv, NEW a \in Actors, Stop(a)
  PROVE  IInv'
<1>. DEFINE t == Subject(a)
<1>1. At(a, "stop") /\ todo[a] # <<>> /\ TodoOK /\ OtherOK /\ t \in Threads
  BY AtFacts, HeadType DEF Stop, IInv, At, TodoOK, Subject, ThreadOps
<1>2. Moves(a, <<>>)
  BY <1>1, ContinueFacts, SeqFacts DEF Stop, TodoOK
<1>3. /\ \A op, x : Pending(op, x)' => Pending(op, x)
      /\ \A op, x : Pending(op, x) => Pending(op, x)' \/ (op = "stop" /\ x = t)
  BY <1>1, <1>2, CodeFacts DEF Moves, At
<1>4. /\ UNCHANGED <<job, held, proc, runner, lock, calls, escaped>>
      /\ thr' = [thr EXCEPT ![t] = IF thr[t] \in {"New", "Running"} THEN "Dying" ELSE thr[t]]
  BY DEF Stop
<1>. HIDE DEF t
<1>5. OtherOK' /\ TodoOK'
  BY <1>1, <1>2, <1>4 DEF OtherOK, Moves, TodoOK
<1>6. \A x \in Threads : /\ x # t => thr'[x] = thr[x]
                         /\ thr[x] \in {"none", "Dying", "Dead"} => thr'[x] = thr[x]
                         /\ thr[x] \notin {"none", "Dead"} => thr'[x] \notin {"none", "Dead"}
                         /\ x = t /\ thr[x] # "none" => thr'[x] \in {"Dying", "Dead"}
  BY <1>1, <1>4 DEF OtherOK
<1>7. \A x \in Threads : Gone(x) => Gone(x)'
  BY <1>4, <1>6 DEF Gone
<1>. QED
  BY <1>3, <1>4, <1>5, <1>6, <1>7, ThreadFacts, ThreadChange DEF ThreadOps

LEMMA ThreadStartStep ==
  ASSUME IInv, NEW a \in Actors, ThreadStart(a)
  PROVE  IInv'
<1>. DEFINE t == Subject(a)
<1>1. /\ At(a, "start") /\ todo[a] # <<>> /\ TodoOK /\ OtherOK /\ t \in Threads
      /\ Pending("start", t)
  BY AtFacts, HeadType DEF ThreadStart, IInv, At, TodoOK, Subject, ThreadOps
<1>2. Moves(a, <<>>)
  BY <1>1, ContinueFacts, SeqFacts DEF ThreadStart, TodoOK
<1>3. /\ \A op, x : Pending(op, x)' => Pending(op, x)
      /\ \A op, x : Pending(op, x) => Pending(op, x)' \/ op = "start"
  BY <1>1, <1>2, CodeFacts DEF Moves, At
<1>4. /\ UNCHANGED <<job, held, proc, lock, calls>>
      /\ thr' = [thr EXCEPT ![t] = "Running"] /\ runner' = runner \cup {t}
      /\ escaped' = escaped \cup {x \in {t} : thr[t] # "New"}
  BY DEF ThreadStart
<1>. HIDE DEF t
<1>5. OtherOK' /\ TodoOK'
  BY <1>1, <1>2, <1>4 DEF OtherOK, Moves, TodoOK
<1>6. \A x \in Threads : /\ x \in escaped => x \in escaped'
                         /\ x # t => thr'[x] = thr[x]
                         /\ x = t => thr'[x] = "Running" /\ (thr[x] = "New" \/ x \in escaped')
                         /\ x \in runner' => x \in runner \/ Pending("start", x)
  BY <1>1, <1>4 DEF OtherOK
<1>7. \A x \in Threads : Gone(x) => Gone(x)'
  BY <1>6 DEF Gone
<1>. QED
  BY <1>3, <1>4, <1>5, <1>6, <1>7, ThreadFacts, ThreadChange DEF ThreadOps

LEMMA ThreadTerminateStep ==
  ASSUME IInv, NEW a \in Actors, ThreadTerminate(a)
  PROVE  IInv'
<1>. DEFINE t == Subject(a)
            code == << <<"remove_thread", t, None>>, <<"unlock", t, None>> >>
<1>1. /\ At(a, "die") /\ todo[a] # <<>> /\ TodoOK /\ OtherOK /\ t \in Threads
      /\ Pending("die", t)
  BY AtFacts, HeadType DEF ThreadTerminate, IInv, At, TodoOK, Subject, ThreadOps
<1>2. Moves(a, code)
  BY <1>1, ContinueFacts, SeqFacts, InstrFacts DEF ThreadTerminate, TodoOK, ThreadOps
<1>3. /\ \A op, x : Pending(op, x)' =>
           Pending(op, x) \/ op = "unlock" \/ (op = "remove_thread" /\ x = t)
      /\ \A op, x : Pending(op, x) => Pending(op, x)' \/ op = "die"
  <2>1. \A op, x : Does(code, op, x) => op = "unlock" \/ (op = "remove_thread" /\ x = t)
    BY CodeFacts
  <2>. HIDE DEF code
  <2>. QED
    BY <1>1, <1>2, <2>1 DEF Moves, At
<1>4. /\ UNCHANGED <<job, held, proc, runner, calls, escaped>>
      /\ thr' = [thr EXCEPT ![t] = "Dead"] /\ lock' = [lock EXCEPT ![t] = a]
  BY DEF ThreadTerminate
<1>5. OtherOK' /\ TodoOK'
  BY <1>1, <1>2, <1>4 DEF OtherOK, Moves, TodoOK
<1>. HIDE DEF t, code
<1>6. \A x \in Threads : /\ x # t => thr'[x] = thr[x]
                         /\ x = t => thr'[x] = "Dead"
  BY <1>1, <1>4 DEF OtherOK
<1>7. \A x \in Threads : Gone(x) => Gone(x)'
  BY <1>4, <1>6 DEF Gone
<1>. QED
  BY <1>1, <1>3, <1>4, <1>5, <1>6, <1>7, ThreadFacts, ThreadChange DEF ThreadOps, QuietOps

-----------------------------------------------------------------------------
(* Steps of a process                                                        *)

LEMMA ProcessChange ==
  ASSUME IInv, UNCHANGED <<job, held, thr, runner, escaped>>, OtherOK', TodoOK', ProcsOK',
         \A op, x : op \notin ThreadOps \cup ProcOps \cup QuietOps \cup {"exit"} =>
           (Pending(op, x)' <=> Pending(op, x)),
         \A p \in Procs :
           /\ proc'[p].status = "none" <=> proc[p].status = "none"
           /\ proc[p].status = "Exited" => proc'[p].status = "Exited"
           /\ Pending("exit", p)' => Pending("exit", p)
           /\ Pending("exit", p) => Pending("exit", p)' \/ proc'[p].status = "Exited"
           /\ Pending("terminate", p)' => proc[p].status # "none"
           /\ proc'[p].signalled \/ Pending("signal", p)' => proc'[p].status = "Exited"
           /\ Pending("remove_process", p)' =>
                /\ proc'[p].status = "Exited"
                /\ \A t \in Threads : ProcOf[t] = p => Gone(t)
           /\ \A t \in Threads : In(t, proc'[p].threads) => In(t, proc[p].threads)
           /\ \A t \in Threads : Pending("terminate", p)' /\ In(t, proc'[p].threads)
                                 => t \in escaped,
         \A t \in Threads :
           /\ Pending("start", t)' => proc[ProcOf[t]].status # "none"
           /\ Pending("die", t)' => Pending("die", t)
           /\ Pending("remove_thread", t)' => Pending("remove_thread", t)
           /\ In(t, proc[ProcOf[t]].threads) => In(t, proc'[ProcOf[t]].threads) \/ Gone(t)
           /\ proc'[ProcOf[t]].status = "Exited" /\ In(t, proc'[ProcOf[t]].threads)
              => thr[t] \in {"Dying", "Dead"} \/ Pending("stop", t)' \/ t \in escaped
  PROVE  IInv'
<1>1. JobsOK' /\ DropInv' /\ HeldInv'
  BY DEF IInv, JobsOK, DropInv, HeldInv
<1>2. \A j \in Jobs : /\ Pending("self_ref", j)' <=> Pending("self_ref", j)
                      /\ Pending("remove_child", j)' <=> Pending("remove_child", j)
                      /\ Pending("end_job", j)' <=> Pending("end_job", j)
                      /\ Pending("kill", j)' <=> Pending("kill", j)
                      /\ Pending("kill_child", j)' <=> Pending("kill_child", j)
  BY DEF ThreadOps, ProcOps, QuietOps
<1>3. \A t \in Threads : ProcOf[t] \in Procs
  BY TaskAssumption
<1>4. ListInv'
  BY DEF IInv, ListInv
<1>5. ExistInv' /\ SignalInv'
  BY <1>3, ThreadFacts DEF IInv, ExistInv, SignalInv
<1>6. ThreadInv'
  <2>1. \A t \in Threads : Gone(t)' <=> Gone(t)
    BY DEF Gone
  <2>. QED
    BY <1>3, <2>1 DEF IInv, ThreadInv
<1>7. ProcInv'
  BY DEF IInv, ProcInv, Gone
<1>8. ChildInv' /\ EndInv'
  BY <1>2 DEF IInv, ChildInv, EndInv, Over, MayTerminate
<1>9. KillReachesAll'
  BY <1>2 DEF IInv, KillReachesAll
<1>10. ExitReachesAll'
  BY DEF ExitReachesAll
<1>. QED
  BY <1>1, <1>4, <1>5, <1>6, <1>7, <1>8, <1>9, <1>10 DEF IInv

\* What a process of the tree is known by, before a step.
LEMMA ProcessFacts ==
  ASSUME IInv
  PROVE  /\ \A p \in Procs :
              /\ proc[p].threads \in Seq(Threads) /\ Distinct(proc[p].threads)
              /\ Pending("exit", p) \/ Pending("terminate", p) => proc[p].status # "none"
              /\ proc[p].signalled \/ Pending("signal", p) => proc[p].status = "Exited"
              /\ Pending("remove_process", p) =>
                   /\ proc[p].status = "Exited"
                   /\ \A t \in Threads : ProcOf[t] = p => Gone(t)
              /\ \A t \in Threads : Pending("terminate", p) /\ In(t, proc[p].threads)
                                    => t \in escaped
         /\ \A t \in Threads :
              /\ ProcOf[t] \in Procs
              /\ Pending("start", t) => proc[ProcOf[t]].status # "none"
              /\ Pending("remove_thread", t) => proc[ProcOf[t]].status # "none" /\ Gone(t)
              /\ In(t, proc[ProcOf[t]].threads) \/ Gone(t)
              /\ proc[ProcOf[t]].status = "Exited" /\ In(t, proc[ProcOf[t]].threads)
                 => thr[t] \in {"Dying", "Dead"} \/ Pending("stop", t) \/ t \in escaped
<1>1. \A p \in Procs : proc[p].threads \in Seq(Threads) /\ Distinct(proc[p].threads)
  BY DEF IInv, ProcsOK, ProcRec
<1>2. \A p \in Procs :
        /\ Pending("exit", p) \/ Pending("terminate", p) => proc[p].status # "none"
        /\ proc[p].signalled \/ Pending("signal", p) => proc[p].status = "Exited"
        /\ Pending("remove_process", p) => /\ proc[p].status = "Exited"
                                           /\ \A t \in Threads : ProcOf[t] = p => Gone(t)
        /\ \A t \in Threads : Pending("terminate", p) /\ In(t, proc[p].threads) => t \in escaped
  BY DEF IInv, ExistInv, SignalInv, ProcInv, ThreadInv
<1>3. \A t \in Threads :
        /\ ProcOf[t] \in Procs
        /\ Pending("start", t) => proc[ProcOf[t]].status # "none"
        /\ Pending("remove_thread", t) => proc[ProcOf[t]].status # "none" /\ Gone(t)
        /\ In(t, proc[ProcOf[t]].threads) \/ Gone(t)
  BY TaskAssumption DEF IInv, ExistInv, ThreadInv, Gone
<1>4. \A t \in Threads :
        proc[ProcOf[t]].status = "Exited" /\ In(t, proc[ProcOf[t]].threads)
        => thr[t] \in {"Dying", "Dead"} \/ Pending("stop", t) \/ t \in escaped
  BY DEF IInv, ExitReachesAll
<1>. QED
  BY <1>1, <1>2, <1>3, <1>4

LEMMA RemoveThreadStep ==
  ASSUME IInv, NEW a \in Actors, RemoveThread(a)
  PROVE  IInv'
<1>. DEFINE t == Subject(a)
            p == ProcOf[t]
            rest == Without(proc[p].threads, t)
            code == IF rest = <<>> THEN << <<"terminate", p, None>> >> ELSE <<>>
<1>1. /\ At(a, "remove_thread") /\ todo[a] # <<>> /\ TodoOK /\ OtherOK /\ ProcsOK
      /\ t \in Threads /\ p \in Procs /\ Pending("remove_thread", t)
  BY AtFacts, HeadType, TaskAssumption DEF RemoveThread, IInv, At, TodoOK, Subject, ThreadOps
<1>2. /\ code \in Seq(Instr)
      /\ \A op, x : Does(code, op, x) => op = "terminate" /\ x = p /\ rest = <<>>
  <2>1. <<"terminate", p, None>> \in Instr
    BY <1>1, InstrFacts DEF ProcOps
  <2>. HIDE DEF p, rest
  <2>2. CASE rest = <<>>
    BY <2>1, <2>2, SeqFacts, CodeFacts
  <2>3. CASE rest # <<>>
    BY <2>3, SeqFacts, CodeFacts
  <2>. QED
    BY <2>2, <2>3
<1>3. /\ UNCHANGED <<job, held, thr, runner, lock, calls, escaped>>
      /\ proc' = [proc EXCEPT ![p].threads = rest] /\ Continue(a, code)
  BY DEF RemoveThread
<1>4. /\ rest \in Seq(Threads) /\ Distinct(rest)
      /\ \A y : In(y, rest) <=> In(y, proc[p].threads) /\ y # t
  BY <1>1, ProcessFacts, WithoutFacts
<1>5. \A y : In(y, rest) => rest # <<>>
  BY DEF In
<1>. HIDE DEF t, p, rest, code
<1>6. Moves(a, code)
  BY <1>1, <1>2, <1>3, ContinueFacts DEF TodoOK
<1>7. /\ \A op, x : Pending(op, x)' => \/ Pending(op, x)
                                       \/ op = "terminate" /\ x = p /\ rest = <<>>
      /\ \A op, x : Pending(op, x) => Pending(op, x)' \/ op = "remove_thread"
  BY <1>1, <1>2, <1>6 DEF Moves, At
<1>8. /\ \A q \in Procs : /\ proc'[q].status = proc[q].status
                          /\ proc'[q].signalled = proc[q].signalled
                          /\ q # p => proc'[q].threads = proc[q].threads
      /\ proc'[p].threads = rest
  BY <1>1, <1>3 DEF ProcsOK, ProcRec
<1>9. ProcsOK' /\ OtherOK' /\ TodoOK'
  <2>1. proc' \in [Procs -> ProcRec]
    <3>1. PICK r : r = [proc[p] EXCEPT !.threads = rest]
      OBVIOUS
    <3>2. r \in ProcRec
      <4>1. proc[p] \in ProcRec
        BY <1>1 DEF ProcsOK
      <4>. QED
        BY <3>1, <4>1, <1>1, <1>3, <1>4 DEF ProcRec
    <3>3. proc' = [proc EXCEPT ![p] = r]
      BY <3>1, <1>1, <1>3, <1>4
    <3>. QED
      BY <1>1, <3>2, <3>3 DEF ProcsOK
  <2>. QED
    BY <1>1, <1>3, <1>4, <1>6, <1>8, <2>1 DEF ProcsOK, OtherOK, Moves, TodoOK
<1>10. p = ProcOf[t]
  BY DEF p
<1>. QED
  BY <1>1, <1>3, <1>4, <1>5, <1>7, <1>8, <1>9, <1>10, ProcessFacts, ProcessChange
     DEF ThreadOps, ProcOps

LEMMA SignalTerminatedStep ==
  ASSUME IInv, NEW a \in Actors, SignalTerminated(a)
  PROVE  IInv'
<1>. DEFINE p == Subject(a)
<1>1. /\ At(a, "signal") /\ todo[a] # <<>> /\ TodoOK /\ OtherOK /\ ProcsOK /\ p \in Procs
      /\ Pending("signal", p)
  BY AtFacts, HeadType DEF SignalTerminated, IInv, At, TodoOK, Subject, ProcOps
<1>2. Moves(a, <<>>)
  BY <1>1, ContinueFacts, SeqFacts DEF SignalTerminated, TodoOK
<1>3. /\ UNCHANGED <<job, held, thr, runner, lock, calls, escaped>>
      /\ proc' = [proc EXCEPT ![p].signalled = TRUE]
  BY DEF SignalTerminated
<1>. HIDE DEF p
<1>4. /\ \A op, x : Pending(op, x)' => Pending(op, x)
      /\ \A op, x : Pending(op, x) => Pending(op, x)' \/ op = "signal"
  BY <1>1, <1>2, CodeFacts DEF Moves, At
<1>5. \A q \in Procs : /\ proc'[q].status = proc[q].status /\ proc'[q].threads = proc[q].threads
                       /\ proc'[q].signalled => proc[q].signalled \/ q = p
  BY <1>1, <1>3 DEF ProcsOK, ProcRec
<1>6. ProcsOK' /\ OtherOK' /\ TodoOK'
  <2>1. proc' \in [Procs -> ProcRec]
    <3>1. PICK r : r = [proc[p] EXCEPT !.signalled = TRUE]
      OBVIOUS
    <3>2. r \in ProcRec
      <4>1. proc[p] \in ProcRec
        BY <1>1 DEF ProcsOK
      <4>. QED
        BY <3>1, <4>1, <1>1, <1>3 DEF ProcRec
    <3>3. proc' = [proc EXCEPT ![p] = r]
      BY <3>1, <1>1, <1>3
    <3>. QED
      BY <1>1, <3>2, <3>3 DEF ProcsOK
  <2>. QED
    BY <1>1, <1>2, <1>3, <1>5, <2>1 DEF ProcsOK, OtherOK, Moves, TodoOK
<1>. QED
  BY <1>1, <1>3, <1>4, <1>5, <1>6, ProcessFacts, ProcessChange DEF ProcOps, ThreadOps

LEMMA ProcessTerminateStep ==
  ASSUME IInv, NEW a \in Actors, ProcessTerminate(a)
  PROVE  IInv'
<1>. DEFINE p == Subject(a)
            n == IF proc[p].status = "Exited" THEN proc[p].code ELSE 0
            code == << <<"signal", p, None>>, <<"remove_process", p, None>>, <<"critical", p, n>> >>
<1>1. /\ At(a, "terminate") /\ todo[a] # <<>> /\ TodoOK /\ OtherOK /\ ProcsOK /\ p \in Procs
      /\ Pending("terminate", p)
  BY AtFacts, HeadType DEF ProcessTerminate, IInv, At, TodoOK, Subject, ProcOps
<1>2. n \in {0, 1}
  BY <1>1 DEF ProcsOK, ProcRec
<1>3. /\ UNCHANGED <<job, held, thr, runner, lock, calls, escaped>> /\ Continue(a, code)
      /\ proc' = [proc EXCEPT ![p].status = "Exited", ![p].code = n]
  BY DEF ProcessTerminate
<1>. HIDE DEF n
<1>4. code \in Seq(Instr)
  BY <1>1, <1>2, InstrFacts, SeqFacts DEF ProcOps
<1>5. \A op, x : Does(code, op, x) => \/ op \in {"signal", "remove_process"} /\ x = p
                                      \/ op = "critical"
  BY CodeFacts
<1>. HIDE DEF p, code
<1>6. Moves(a, code)
  BY <1>1, <1>3, <1>4, ContinueFacts DEF TodoOK
<1>7. /\ \A op, x : Pending(op, x)' => \/ Pending(op, x)
                                       \/ op \in {"signal", "remove_process"} /\ x = p
                                       \/ op = "critical"
      /\ \A op, x : Pending(op, x) => Pending(op, x)' \/ op = "terminate"
  BY <1>1, <1>5, <1>6 DEF Moves, At
<1>8. /\ \A q \in Procs : /\ proc'[q].threads = proc[q].threads
                          /\ proc'[q].signalled = proc[q].signalled
                          /\ q # p => proc'[q].status = proc[q].status
      /\ proc'[p].status = "Exited"
  BY <1>1, <1>3 DEF ProcsOK, ProcRec
<1>9. ProcsOK' /\ OtherOK' /\ TodoOK'
  <2>1. proc' \in [Procs -> ProcRec]
    <3>1. PICK r : r = [proc[p] EXCEPT !.status = "Exited", !.code = n]
      OBVIOUS
    <3>2. r \in ProcRec
      <4>1. proc[p] \in ProcRec
        BY <1>1 DEF ProcsOK
      <4>. QED
        BY <3>1, <4>1, <1>1, <1>2, <1>3 DEF ProcRec
    <3>3. proc' = [proc EXCEPT ![p] = r]
      BY <3>1, <1>1, <1>2, <1>3
    <3>. QED
      BY <1>1, <3>2, <3>3 DEF ProcsOK
  <2>. QED
    BY <1>1, <1>3, <1>6, <1>8, <2>1 DEF ProcsOK, OtherOK, Moves, TodoOK
<1>10. proc[p].status # "none" /\ \A t \in Threads : ProcOf[t] = p => Gone(t)
  BY <1>1, ProcessFacts DEF Gone
<1>11. \A q \in Procs :
         /\ proc'[q].status = "none" <=> proc[q].status = "none"
         /\ proc[q].status = "Exited" => proc'[q].status = "Exited"
         /\ Pending("exit", q)' => Pending("exit", q)
         /\ Pending("exit", q) => Pending("exit", q)' \/ proc'[q].status = "Exited"
         /\ Pending("terminate", q)' => proc[q].status # "none"
         /\ proc'[q].signalled \/ Pending("signal", q)' => proc'[q].status = "Exited"
  BY <1>1, <1>7, <1>8, <1>10, ProcessFacts
<1>12. \A q \in Procs :
         /\ Pending("remove_process", q)' => /\ proc'[q].status = "Exited"
                                             /\ \A t \in Threads : ProcOf[t] = q => Gone(t)
         /\ \A t \in Threads : In(t, proc'[q].threads) => In(t, proc[q].threads)
         /\ \A t \in Threads : Pending("terminate", q)' /\ In(t, proc'[q].threads) => t \in escaped
  BY <1>7, <1>8, <1>10, ProcessFacts
<1>13. \A t \in Threads :
         /\ Pending("start", t)' => proc[ProcOf[t]].status # "none"
         /\ Pending("die", t)' => Pending("die", t)
         /\ Pending("remove_thread", t)' => Pending("remove_thread", t)
         /\ In(t, proc[ProcOf[t]].threads) => In(t, proc'[ProcOf[t]].threads) \/ Gone(t)
         /\ proc'[ProcOf[t]].status = "Exited" /\ In(t, proc'[ProcOf[t]].threads)
            => thr[t] \in {"Dying", "Dead"} \/ Pending("stop", t)' \/ t \in escaped
  <2>1. \A t \in Threads : ProcOf[t] = p /\ In(t, proc[p].threads) => t \in escaped
    BY <1>1, ProcessFacts
  <2>. QED
    BY <1>1, <1>7, <1>8, <2>1, ProcessFacts
<1>14. \A op, x : op \notin ThreadOps \cup ProcOps \cup QuietOps \cup {"exit"} =>
         (Pending(op, x)' <=> Pending(op, x))
  BY <1>7 DEF ProcOps, ThreadOps, QuietOps
<1>. QED
  BY <1>3, <1>9, <1>11, <1>12, <1>13, <1>14, ProcessChange

\* An exit of a process that lists threads: they are stopped.
LEMMA ExitStep ==
  ASSUME IInv, NEW a \in Actors, Exit(a)
  PROVE  IInv'
<1>. DEFINE p == Subject(a)
<1>1. /\ At(a, "exit") /\ todo[a] # <<>> /\ TodoOK /\ OtherOK /\ ProcsOK /\ p \in Procs
      /\ Pending("exit", p) /\ Argument(a) \in {0, 1}
  BY AtFacts, HeadType DEF Exit, IInv, At, TodoOK, Subject, Argument
<1>2. /\ UNCHANGED <<job, held, thr, runner, calls, escaped>> /\ proc[p].status # "Exited"
      /\ proc' = [proc EXCEPT ![p].status = "Exited", ![p].code = Argument(a)]
      /\ \/ UNCHANGED lock /\ proc[p].threads = <<>>
         \/ lock' = [lock EXCEPT ![p] = a]
  BY DEF Exit
<1>3. PICK code \in Seq(Instr) :
        /\ Continue(a, code)
        /\ \A op, x : Does(code, op, x) => \/ op \in {"stop", "unlock"}
                                           \/ op = "signal" /\ x = p
                                           \/ op = "terminate" /\ x = p /\ proc[p].threads = <<>>
        /\ \A t : In(t, proc[p].threads) => Does(code, "stop", t)
  <2>1. CASE proc[p].threads = <<>>
    <3>1. PICK c : c = << <<"terminate", p, None>> >>
      OBVIOUS
    <3>2. c \in Seq(Instr) /\ \A op, x : Does(c, op, x) => op = "terminate" /\ x = p
      BY <1>1, <3>1, InstrFacts, SeqFacts, CodeFacts DEF ProcOps
    <3>3. Continue(a, c)
      BY <2>1, <3>1 DEF Exit
    <3>4. \A t : ~In(t, proc[p].threads)
      BY <2>1 DEF In
    <3>. QED
      BY <2>1, <3>2, <3>3, <3>4
  <2>2. CASE proc[p].threads # <<>>
    <3>1. PICK c : c = Calls("stop", proc[p].threads, None)
      OBVIOUS
    <3>2. c \in Seq(Instr) /\ \A op, x : Does(c, op, x) <=> op = "stop" /\ In(x, proc[p].threads)
      <4>1. proc[p].threads \in Seq(Threads)
        BY <1>1, ProcessFacts
      <4>2. \A y \in Threads : <<"stop", y, None>> \in Instr
        BY InstrFacts DEF ThreadOps
      <4>. QED
        BY <3>1, <4>1, <4>2, CallsFacts
    <3>3. PICK d : d = << <<"unlock", p, None>>, <<"signal", p, None>> >>
      OBVIOUS
    <3>4. /\ d \in Seq(Instr)
          /\ \A op, x : Does(d, op, x) => op = "unlock" \/ (op = "signal" /\ x = p)
      BY <1>1, <3>3, InstrFacts, SeqFacts, CodeFacts DEF ProcOps
    <3>5. /\ c \o d \in Seq(Instr)
          /\ \A op, x : Does(c \o d, op, x) <=> Does(c, op, x) \/ Does(d, op, x)
      BY <3>2, <3>4, ConcatFacts
    <3>6. Continue(a, c \o d)
      BY <2>2, <3>1, <3>3 DEF Exit
    <3>. QED
      BY <3>2, <3>4, <3>5, <3>6
  <2>. QED
    BY <2>1, <2>2
<1>. HIDE DEF p
<1>4. Moves(a, code)
  BY <1>1, <1>3, ContinueFacts DEF TodoOK
<1>5. /\ \A op, x : Pending(op, x)' => \/ Pending(op, x) \/ op \in {"stop", "unlock"}
                                       \/ op = "signal" /\ x = p
                                       \/ op = "terminate" /\ x = p /\ proc[p].threads = <<>>
      /\ \A op, x : Pending(op, x) => Pending(op, x)' \/ (op = "exit" /\ x = p)
      /\ \A t : In(t, proc[p].threads) => Pending("stop", t)'
  <2>1. Subject(a) = p
    BY DEF p
  <2>. QED
    BY <1>1, <1>3, <1>4, <2>1 DEF Moves, At
<1>6. /\ \A q \in Procs : /\ proc'[q].threads = proc[q].threads
                          /\ proc'[q].signalled = proc[q].signalled
                          /\ q # p => proc'[q].status = proc[q].status
      /\ proc'[p].status = "Exited"
  BY <1>1, <1>2 DEF ProcsOK, ProcRec
<1>7. ProcsOK' /\ OtherOK' /\ TodoOK'
  <2>1. proc' \in [Procs -> ProcRec]
    <3>1. PICK r : r = [proc[p] EXCEPT !.status = "Exited", !.code = Argument(a)]
      OBVIOUS
    <3>2. r \in ProcRec
      <4>1. proc[p] \in ProcRec
        BY <1>1 DEF ProcsOK
      <4>. QED
        BY <3>1, <4>1, <1>1, <1>2 DEF ProcRec
    <3>3. proc' = [proc EXCEPT ![p] = r]
      BY <3>1, <1>1, <1>2
    <3>. QED
      BY <1>1, <3>2, <3>3 DEF ProcsOK
  <2>2. lock' \in [Jobs \cup Procs \cup Threads -> Actors \cup {None}]
    BY <1>1, <1>2 DEF OtherOK
  <2>3. OtherOK'
    BY <1>1, <1>2, <2>2 DEF OtherOK
  <2>. QED
    BY <1>1, <1>4, <1>6, <2>1, <2>3 DEF ProcsOK, Moves, TodoOK
<1>8. proc[p].status # "none" /\ ~Pending("remove_process", p)
  BY <1>1, <1>2, ProcessFacts
<1>9. \A t : proc[p].threads = <<>> => ~In(t, proc[p].threads)
  BY DEF In
<1>10. \A q \in Procs :
         /\ proc'[q].status = "none" <=> proc[q].status = "none"
         /\ proc[q].status = "Exited" => proc'[q].status = "Exited"
         /\ Pending("exit", q)' => Pending("exit", q)
         /\ Pending("exit", q) => Pending("exit", q)' \/ proc'[q].status = "Exited"
         /\ Pending("terminate", q)' => proc[q].status # "none"
         /\ proc'[q].signalled \/ Pending("signal", q)' => proc'[q].status = "Exited"
  BY <1>1, <1>5, <1>6, <1>8, ProcessFacts
<1>11. \A q \in Procs :
         /\ Pending("remove_process", q)' => /\ proc'[q].status = "Exited"
                                             /\ \A t \in Threads : ProcOf[t] = q => Gone(t)
         /\ \A t \in Threads : In(t, proc'[q].threads) => In(t, proc[q].threads)
         /\ \A t \in Threads : Pending("terminate", q)' /\ In(t, proc'[q].threads) => t \in escaped
  BY <1>5, <1>6, <1>8, <1>9, ProcessFacts
<1>12. \A t \in Threads :
         /\ Pending("start", t)' => proc[ProcOf[t]].status # "none"
         /\ Pending("die", t)' => Pending("die", t)
         /\ Pending("remove_thread", t)' => Pending("remove_thread", t)
         /\ In(t, proc[ProcOf[t]].threads) => In(t, proc'[ProcOf[t]].threads) \/ Gone(t)
         /\ proc'[ProcOf[t]].status = "Exited" /\ In(t, proc'[ProcOf[t]].threads)
            => thr[t] \in {"Dying", "Dead"} \/ Pending("stop", t)' \/ t \in escaped
  BY <1>1, <1>5, <1>6, ProcessFacts
<1>13. \A op, x : op \notin ThreadOps \cup ProcOps \cup QuietOps \cup {"exit"} =>
         (Pending(op, x)' <=> Pending(op, x))
  BY <1>5 DEF ProcOps, ThreadOps, QuietOps
<1>. QED
  BY <1>2, <1>7, <1>10, <1>11, <1>12, <1>13, ProcessChange

LEMMA StartProcessStep ==
  ASSUME IInv, NEW a \in Actors, NEW t \in Threads, StartProcess(a, t)
  PROVE  IInv'
<1>. DEFINE p == ProcOf[t]
<1>1. /\ todo[a] = <<>> /\ TodoOK /\ OtherOK /\ ProcsOK /\ p \in Procs
      /\ proc[p].status = "Init" /\ <<"start", t, None>> \in Instr
  BY InstrFacts, TaskAssumption DEF StartProcess, MayCall, IInv, ThreadOps
<1>2. /\ UNCHANGED <<job, held, thr, runner, lock, calls, escaped>>
      /\ proc' = [proc EXCEPT ![p].status = "Running"]
  BY DEF StartProcess
<1>3. /\ TodoOK'
      /\ \A op, x : Pending(op, x)' <=> Pending(op, x) \/ (op = "start" /\ x = t)
  <2>1. PICK code : code = << <<"start", t, None>> >>
    OBVIOUS
  <2>2. code \in Seq(Instr) /\ \A op, x : Does(code, op, x) <=> op = "start" /\ x = t
    BY <1>1, <2>1, SeqFacts, CodeFacts
  <2>3. todo' = [todo EXCEPT ![a] = code]
    BY <2>1 DEF StartProcess
  <2>. QED
    BY <1>1, <2>2, <2>3, LoadFacts DEF TodoOK
<1>. HIDE DEF p
<1>4. /\ \A q \in Procs : /\ proc'[q].threads = proc[q].threads
                          /\ proc'[q].signalled = proc[q].signalled
                          /\ q # p => proc'[q].status = proc[q].status
      /\ proc'[p].status = "Running"
  BY <1>1, <1>2 DEF ProcsOK, ProcRec
<1>5. ProcsOK' /\ OtherOK'
  <2>1. proc' \in [Procs -> ProcRec]
    <3>1. PICK r : r = [proc[p] EXCEPT !.status = "Running"]
      OBVIOUS
    <3>2. r \in ProcRec
      <4>1. proc[p] \in ProcRec
        BY <1>1 DEF ProcsOK
      <4>. QED
        BY <3>1, <4>1, <1>1, <1>2 DEF ProcRec
    <3>3. proc' = [proc EXCEPT ![p] = r]
      BY <3>1, <1>1, <1>2
    <3>. QED
      BY <1>1, <3>2, <3>3 DEF ProcsOK
  <2>. QED
    BY <1>1, <1>2, <1>4, <2>1 DEF ProcsOK, OtherOK
<1>6. p = ProcOf[t]
  BY DEF p
<1>. QED
  BY <1>1, <1>2, <1>3, <1>4, <1>5, <1>6, ProcessFacts, ProcessChange DEF ThreadOps

LEMMA SetCriticalStep ==
  ASSUME IInv, NEW a \in Actors, NEW p \in Procs, NEW j \in Jobs, NEW nz \in BOOLEAN,
         SetCritical(a, p, j, nz)
  PROVE  IInv'
<1>1. TodoOK /\ OtherOK /\ ProcsOK
  BY DEF IInv
<1>2. /\ UNCHANGED <<job, held, thr, runner, lock, todo, escaped>>
      /\ proc' = [proc EXCEPT ![p].critical = j, ![p].nonzero = nz]
      /\ calls < MaxCalls /\ calls' = calls + 1
  BY DEF SetCritical
<1>3. \A q \in Procs : /\ proc'[q].threads = proc[q].threads
                       /\ proc'[q].signalled = proc[q].signalled
                       /\ proc'[q].status = proc[q].status
  BY <1>1, <1>2 DEF ProcsOK, ProcRec
<1>4. ProcsOK' /\ OtherOK' /\ TodoOK'
  <2>1. proc' \in [Procs -> ProcRec]
    <3>1. PICK r : r = [proc[p] EXCEPT !.critical = j, !.nonzero = nz]
      OBVIOUS
    <3>2. r \in ProcRec
      <4>1. proc[p] \in ProcRec
        BY <1>1 DEF ProcsOK
      <4>. QED
        BY <3>1, <4>1, <1>1, <1>2 DEF ProcRec
    <3>3. proc' = [proc EXCEPT ![p] = r]
      BY <3>1, <1>1, <1>2
    <3>. QED
      BY <1>1, <3>2, <3>3 DEF ProcsOK
  <2>2. calls' \in 0 .. MaxCalls
    BY <1>1, <1>2, TaskAssumption DEF OtherOK
  <2>. QED
    BY <1>1, <1>2, <1>3, <2>1, <2>2 DEF ProcsOK, OtherOK, TodoOK
<1>5. \A op, x : Pending(op, x)' <=> Pending(op, x)
  BY <1>2 DEF Pending
<1>. QED
  BY <1>2, <1>3, <1>4, <1>5, ProcessFacts, ProcessChange

-----------------------------------------------------------------------------
(* Steps of a job                                                            *)

\* The instructions of jobs that the invariant speaks of.
TreeOps == {"exit", "remove_process", "end_job", "kill", "kill_child", "self_ref", "remove_child"}

LEMMA JobChange ==
  ASSUME IInv, UNCHANGED <<held, proc, thr, runner, escaped>>, OtherOK', TodoOK', JobsOK',
         \A op, x : op \notin TreeOps \cup QuietOps => (Pending(op, x)' <=> Pending(op, x)),
         \A p \in Procs :
           /\ Pending("remove_process", p)' => Pending("remove_process", p)
           /\ Pending("exit", p)' => proc[p].status # "none"
           /\ \A j \in Jobs : In(p, job'[j].procs) => In(p, job[j].procs)
           /\ \A j \in Jobs : In(p, job[j].procs) =>
                In(p, job'[j].procs) \/ Pending("remove_process", p),
         \A c \in Jobs :
           /\ job'[c].st = "none" <=> job[c].st = "none"
           /\ job'[c].st = "live" => job[c].st = "live"
           /\ c \in held => job'[c].st = "live"
           /\ job[c].term => job'[c].term
           /\ Pending("self_ref", c)' => job'[c].term
           /\ Pending("remove_child", c)' => job'[c].term
           /\ \A j \in Jobs : In(c, job'[j].children) => In(c, job[j].children)
           /\ \A j \in Jobs : In(c, job[j].children) => In(c, job'[j].children) \/ job'[c].term,
         \A j \in Jobs :
           /\ job'[j].term \/ Pending("end_job", j)' => Over(j)'
           /\ job'[j].st = "dropped" =>
                \/ job[j].st = "dropped"
                \/ /\ \A p \in Procs : JobOf[p] = j => proc[p].status = "none"
                   /\ \A c \in Jobs \ {Root} : ParentOf[c] = j => job[c].st # "live",
         KillReachesAll'
  PROVE  IInv'
<1>1. ProcsOK' /\ HeldInv'
  BY DEF IInv, ProcsOK, HeldInv, OtherOK
<1>2. /\ \A p \in Procs : /\ Pending("terminate", p)' <=> Pending("terminate", p)
                          /\ Pending("signal", p)' <=> Pending("signal", p)
      /\ \A t \in Threads : /\ Pending("start", t)' <=> Pending("start", t)
                            /\ Pending("stop", t)' <=> Pending("stop", t)
                            /\ Pending("die", t)' <=> Pending("die", t)
                            /\ Pending("remove_thread", t)' <=> Pending("remove_thread", t)
  BY DEF TreeOps, QuietOps
<1>3. ListInv'
  BY DEF IInv, ListInv
<1>4. ExistInv' /\ SignalInv'
  BY <1>2 DEF IInv, ExistInv, SignalInv
<1>5. ThreadInv'
  BY <1>2 DEF IInv, ThreadInv, Gone
<1>6. ProcInv'
  BY TaskAssumption DEF IInv, ProcInv, Gone
<1>7. ChildInv'
  BY TaskAssumption DEF IInv, ChildInv
<1>8. EndInv'
  BY DEF EndInv
<1>9. DropInv'
  BY DEF IInv, DropInv
<1>10. ExitReachesAll'
  BY <1>2 DEF IInv, ExitReachesAll
<1>. QED
  BY <1>1, <1>3, <1>4, <1>5, <1>6, <1>7, <1>8, <1>9, <1>10 DEF IInv

\* What a job of the tree is known by, before a step.
LEMMA JobFacts ==
  ASSUME IInv
  PROVE  /\ \A j \in Jobs :
              /\ job[j].procs \in Seq(Procs) /\ Distinct(job[j].procs)
              /\ job[j].children \in Seq(Jobs) /\ Distinct(job[j].children)
              /\ job[j].term \/ Pending("end_job", j) => Over(j)
              /\ j \in held => job[j].st = "live"
         /\ \A p \in Procs : Pending("exit", p) => proc[p].status # "none"
         /\ \A j \in Jobs, p \in Procs : In(p, job[j].procs) => proc[p].status # "none"
         /\ \A c \in Jobs \ {Root} : Pending("self_ref", c) \/ Pending("remove_child", c)
                                     => job[c].term
         /\ \A op \in ChildOps : ~Pending(op, Root)
<1>1. \A j \in Jobs : /\ job[j].procs \in Seq(Procs) /\ Distinct(job[j].procs)
                      /\ job[j].children \in Seq(Jobs) /\ Distinct(job[j].children)
  BY DEF IInv, JobsOK, JobRec
<1>2. /\ \A j \in Jobs : /\ job[j].term \/ Pending("end_job", j) => Over(j)
                         /\ j \in held => job[j].st = "live"
      /\ \A p \in Procs : Pending("exit", p) => proc[p].status # "none"
      /\ \A j \in Jobs, p \in Procs : In(p, job[j].procs) => proc[p].status # "none"
      /\ \A c \in Jobs \ {Root} : Pending("self_ref", c) \/ Pending("remove_child", c)
                                  => job[c].term
  BY DEF IInv, EndInv, HeldInv, ExistInv, ListInv, ChildInv
<1>3. ASSUME NEW op \in ChildOps, Pending(op, Root) PROVE FALSE
  <2>1. PICK b \in Actors : \E i \in DOMAIN todo[b] : todo[b][i][1] = op /\ todo[b][i][2] = Root
    BY <1>3, Zenon DEF Pending
  <2>2. PICK i \in DOMAIN todo[b] : todo[b][i][1] = op /\ todo[b][i][2] = Root
    BY <2>1
  <2>3. todo[b] \in Seq(Instr)
    BY DEF IInv, TodoOK
  <2>4. todo[b][i] \in Instr
    BY <2>2, <2>3, LenProperties, ElementOfSeq
  <2>. QED
    BY <2>2, <2>4, HeadType
<1>. QED
  BY <1>1, <1>2, <1>3

LEMMA RemoveProcessStep ==
  ASSUME IInv, NEW a \in Actors, RemoveProcess(a)
  PROVE  IInv'
<1>. DEFINE p == Subject(a)
            j == JobOf[p]
            rest == Without(job[j].procs, p)
            code == IF MayTerminate(job'[j]) THEN << <<"end_job", j, None>> >> ELSE <<>>
<1>1. /\ At(a, "remove_process") /\ todo[a] # <<>> /\ TodoOK /\ OtherOK /\ JobsOK
      /\ p \in Procs /\ j \in Jobs /\ Pending("remove_process", p)
  BY AtFacts, HeadType, TaskAssumption DEF RemoveProcess, IInv, At, TodoOK, Subject, ProcOps
<1>2. /\ code \in Seq(Instr)
      /\ \A op, x : Does(code, op, x) => op = "end_job" /\ x = j /\ MayTerminate(job'[j])
  <2>1. <<"end_job", j, None>> \in Instr
    BY <1>1, InstrFacts DEF JobOps
  <2>. HIDE DEF j
  <2>2. CASE MayTerminate(job'[j])
    BY <2>1, <2>2, SeqFacts, CodeFacts
  <2>3. CASE ~MayTerminate(job'[j])
    BY <2>3, SeqFacts, CodeFacts
  <2>. QED
    BY <2>2, <2>3
<1>3. /\ UNCHANGED <<held, proc, thr, runner, lock, calls, escaped>>
      /\ job' = [job EXCEPT ![j].procs = rest] /\ Continue(a, code)
  BY DEF RemoveProcess
<1>4. /\ rest \in Seq(Procs) /\ Distinct(rest)
      /\ \A y : In(y, rest) <=> In(y, job[j].procs) /\ y # p
      /\ job[j].procs = <<>> => rest = <<>>
  <2>1. job[j].procs = <<>> => rest = <<>>
    BY DEF Without, In
  <2>. QED
    BY <1>1, <2>1, JobFacts, WithoutFacts
<1>. HIDE DEF p, j, rest, code
<1>5. Moves(a, code)
  BY <1>1, <1>2, <1>3, ContinueFacts DEF TodoOK
<1>6. /\ \A op, x : Pending(op, x)' => \/ Pending(op, x)
                                       \/ op = "end_job" /\ x = j /\ MayTerminate(job'[j])
      /\ \A op, x : Pending(op, x) => Pending(op, x)' \/ op = "remove_process"
  BY <1>1, <1>2, <1>5 DEF Moves, At
<1>7. /\ \A k \in Jobs : /\ job'[k].st = job[k].st /\ job'[k].killed = job[k].killed
                         /\ job'[k].term = job[k].term /\ job'[k].children = job[k].children
                         /\ k # j => job'[k].procs = job[k].procs
      /\ job'[j].procs = rest
  BY <1>1, <1>3 DEF JobsOK, JobRec
<1>8. JobsOK' /\ OtherOK' /\ TodoOK'
  <2>1. job' \in [Jobs -> JobRec]
    BY <1>1, <1>3, <1>4 DEF JobsOK, JobRec
  <2>. QED
    BY <1>1, <1>3, <1>4, <1>5, <1>7, <2>1 DEF JobsOK, OtherOK, Moves, TodoOK
<1>9. \A k \in Jobs : job'[k].term \/ Pending("end_job", k)' => Over(k)'
  <2>1. \A k \in Jobs : Over(k) => Over(k)'
    BY <1>4, <1>7 DEF Over, MayTerminate
  <2>2. \A k \in Jobs : MayTerminate(job'[k]) => Over(k)'
    BY DEF Over, MayTerminate
  <2>. QED
    BY <1>6, <1>7, <2>1, <2>2, JobFacts
<1>10. KillReachesAll'
  BY <1>3, <1>4, <1>6, <1>7 DEF IInv, KillReachesAll
<1>11. \A c \in Jobs : \A op \in ChildOps : Pending(op, c)' => job'[c].term
  BY <1>6, <1>7, JobFacts DEF ChildOps
<1>. QED
  BY <1>1, <1>3, <1>4, <1>6, <1>7, <1>8, <1>9, <1>10, <1>11, JobFacts, JobChange
     DEF TreeOps, ChildOps

LEMMA RemoveChildStep ==
  ASSUME IInv, NEW a \in Actors, RemoveChild(a)
  PROVE  IInv'
<1>. DEFINE c == Subject(a)
            j == ParentOf[c]
            rest == Without(job[j].children, c)
            code == IF MayTerminate(job'[j]) THEN << <<"end_job", j, None>> >> ELSE <<>>
<1>1. /\ At(a, "remove_child") /\ todo[a] # <<>> /\ TodoOK /\ OtherOK /\ JobsOK
      /\ c \in Jobs \ {Root} /\ j \in Jobs /\ Pending("remove_child", c)
  BY AtFacts, HeadType, TaskAssumption DEF RemoveChild, IInv, At, TodoOK, Subject, ChildOps
<1>2. /\ code \in Seq(Instr)
      /\ \A op, x : Does(code, op, x) => op = "end_job" /\ x = j /\ MayTerminate(job'[j])
  <2>1. <<"end_job", j, None>> \in Instr
    BY <1>1, InstrFacts DEF JobOps
  <2>. HIDE DEF j
  <2>2. CASE MayTerminate(job'[j])
    BY <2>1, <2>2, SeqFacts, CodeFacts
  <2>3. CASE ~MayTerminate(job'[j])
    BY <2>3, SeqFacts, CodeFacts
  <2>. QED
    BY <2>2, <2>3
<1>3. /\ UNCHANGED <<held, proc, thr, runner, lock, calls, escaped>>
      /\ job' = [job EXCEPT ![j].children = rest] /\ Continue(a, code)
  BY DEF RemoveChild
<1>4. /\ rest \in Seq(Jobs) /\ Distinct(rest)
      /\ \A y : In(y, rest) <=> In(y, job[j].children) /\ y # c
      /\ job[j].children = <<>> => rest = <<>>
  <2>1. job[j].children = <<>> => rest = <<>>
    BY DEF Without, In
  <2>. QED
    BY <1>1, <2>1, JobFacts, WithoutFacts
<1>. HIDE DEF c, j, rest, code
<1>5. Moves(a, code)
  BY <1>1, <1>2, <1>3, ContinueFacts DEF TodoOK
<1>6. /\ \A op, x : Pending(op, x)' => \/ Pending(op, x)
                                       \/ op = "end_job" /\ x = j /\ MayTerminate(job'[j])
      /\ \A op, x : Pending(op, x) => Pending(op, x)' \/ op = "remove_child"
  BY <1>1, <1>2, <1>5 DEF Moves, At
<1>7. /\ \A k \in Jobs : /\ job'[k].st = job[k].st /\ job'[k].killed = job[k].killed
                         /\ job'[k].term = job[k].term /\ job'[k].procs = job[k].procs
                         /\ k # j => job'[k].children = job[k].children
      /\ job'[j].children = rest
  BY <1>1, <1>3 DEF JobsOK, JobRec
<1>8. JobsOK' /\ OtherOK' /\ TodoOK'
  <2>1. job' \in [Jobs -> JobRec]
    BY <1>1, <1>3, <1>4 DEF JobsOK, JobRec
  <2>. QED
    BY <1>1, <1>3, <1>4, <1>5, <1>7, <2>1 DEF JobsOK, OtherOK, Moves, TodoOK
<1>9. \A k \in Jobs : job'[k].term \/ Pending("end_job", k)' => Over(k)'
  <2>1. \A k \in Jobs : Over(k) => Over(k)'
    BY <1>4, <1>7 DEF Over, MayTerminate
  <2>2. \A k \in Jobs : MayTerminate(job'[k]) => Over(k)'
    BY DEF Over, MayTerminate
  <2>. QED
    BY <1>6, <1>7, <2>1, <2>2, JobFacts
<1>10. KillReachesAll'
  BY <1>3, <1>4, <1>6, <1>7 DEF IInv, KillReachesAll
<1>11. \A k \in Jobs : \A op \in ChildOps : Pending(op, k)' => job'[k].term
  BY <1>6, <1>7, JobFacts DEF ChildOps
<1>12. job[c].term
  BY <1>1, JobFacts
<1>. QED
  BY <1>3, <1>4, <1>6, <1>7, <1>8, <1>9, <1>10, <1>11, <1>12, JobFacts, JobChange
     DEF TreeOps, ChildOps

LEMMA JobTerminateStep ==
  ASSUME IInv, NEW a \in Actors, JobTerminate(a)
  PROVE  IInv'
<1>. DEFINE j == Subject(a)
            code == IF j = Root THEN <<>> ELSE << <<"self_ref", j, None>> >>
<1>1. /\ At(a, "end_job") /\ todo[a] # <<>> /\ TodoOK /\ OtherOK /\ JobsOK
      /\ j \in Jobs /\ Pending("end_job", j)
  BY AtFacts, HeadType DEF JobTerminate, IInv, At, TodoOK, Subject, JobOps
<1>2. code \in Seq(Instr) /\ \A op, x : Does(code, op, x) => op = "self_ref" /\ x = j
  <2>1. j # Root => <<"self_ref", j, None>> \in Instr
    BY <1>1, InstrFacts DEF ChildOps
  <2>. HIDE DEF j
  <2>2. CASE j = Root
    BY <2>2, SeqFacts, CodeFacts
  <2>3. CASE j # Root
    BY <2>1, <2>3, SeqFacts, CodeFacts
  <2>. QED
    BY <2>2, <2>3
<1>3. /\ UNCHANGED <<held, proc, thr, runner, lock, calls, escaped>>
      /\ job' = [job EXCEPT ![j].term = TRUE] /\ Continue(a, code)
  BY DEF JobTerminate
<1>. HIDE DEF j, code
<1>4. Moves(a, code)
  BY <1>1, <1>2, <1>3, ContinueFacts DEF TodoOK
<1>5. /\ \A op, x : Pending(op, x)' => Pending(op, x) \/ (op = "self_ref" /\ x = j)
      /\ \A op, x : Pending(op, x) => Pending(op, x)' \/ op = "end_job"
  BY <1>1, <1>2, <1>4 DEF Moves, At
<1>6. /\ \A k \in Jobs : /\ job'[k].st = job[k].st /\ job'[k].killed = job[k].killed
                         /\ job'[k].procs = job[k].procs /\ job'[k].children = job[k].children
                         /\ k # j => job'[k].term = job[k].term
      /\ job'[j].term
  BY <1>1, <1>3 DEF JobsOK, JobRec
<1>7. JobsOK' /\ OtherOK' /\ TodoOK'
  <2>1. job' \in [Jobs -> JobRec]
    BY <1>1, <1>3 DEF JobsOK, JobRec
  <2>. QED
    BY <1>1, <1>3, <1>4, <1>6, <2>1 DEF JobsOK, OtherOK, Moves, TodoOK
<1>8. \A k \in Jobs : job'[k].term \/ Pending("end_job", k)' => Over(k)'
  <2>1. \A k \in Jobs : Over(k) => Over(k)'
    BY <1>6 DEF Over, MayTerminate
  <2>. QED
    BY <1>1, <1>5, <1>6, <2>1, JobFacts
<1>9. KillReachesAll'
  BY <1>3, <1>5, <1>6 DEF IInv, KillReachesAll
<1>10. \A k \in Jobs : \A op \in ChildOps : Pending(op, k)' => job'[k].term
  BY <1>5, <1>6, JobFacts DEF ChildOps
<1>. QED
  BY <1>3, <1>5, <1>6, <1>7, <1>8, <1>9, <1>10, JobFacts, JobChange DEF TreeOps, ChildOps

LEMMA KillStep ==
  ASSUME IInv, NEW a \in Actors, Kill(a)
  PROVE  IInv'
<1>. DEFINE j == Subject(a)
<1>1. /\ At(a, "kill") /\ todo[a] # <<>> /\ TodoOK /\ OtherOK /\ JobsOK /\ j \in Jobs
  BY AtFacts, HeadType DEF Kill, IInv, At, TodoOK, Subject, JobOps
<1>2. /\ UNCHANGED <<held, proc, thr, runner, lock, calls, escaped>>
      /\ job' = [job EXCEPT ![j].killed = TRUE]
  BY DEF Kill
<1>3. PICK code \in Seq(Instr) :
        /\ Continue(a, code)
        /\ \A op, x : Does(code, op, x) =>
             \/ op = "exit" /\ In(x, job[j].procs)
             \/ op = "kill_child"
             \/ op = "end_job" /\ x = j /\ job[j].procs = <<>> /\ job[j].children = <<>>
        /\ ~job[j].killed => /\ \A x : In(x, job[j].procs) => Does(code, "exit", x)
                             /\ \A x : In(x, job[j].children) => Does(code, "kill_child", x)
  <2>1. CASE job[j].killed
    <3>1. Continue(a, <<>>)
      BY <2>1 DEF Kill
    <3>. QED
      BY <2>1, <3>1, SeqFacts, CodeFacts
  <2>2. CASE ~job[j].killed
    <3>1. PICK c : c = Calls("kill_child", job[j].children, None)
      OBVIOUS
    <3>2. PICK d : d = Calls("exit", job[j].procs, 1)
      OBVIOUS
    <3>3. /\ c \in Seq(Instr) /\ (job[j].children = <<>> <=> c = <<>>)
          /\ \A op, x : Does(c, op, x) <=> op = "kill_child" /\ In(x, job[j].children)
      <4>1. job[j].children \in Seq(Jobs)
        BY <1>1, JobFacts
      <4>2. \A y \in Jobs : <<"kill_child", y, None>> \in Instr
        BY InstrFacts DEF JobOps
      <4>3. PICK l \in Seq(Jobs) : l = job[j].children
        BY <4>1
      <4>4. /\ Calls("kill_child", l, None) \in Seq(Instr)
            /\ l = <<>> <=> Calls("kill_child", l, None) = <<>>
            /\ \A op, x : Does(Calls("kill_child", l, None), op, x) <=> op = "kill_child" /\ In(x, l)
        BY <4>2, CallsFacts, ZenonT(60)
      <4>. QED
        BY <3>1, <4>3, <4>4
    <3>4. /\ d \in Seq(Instr) /\ (job[j].procs = <<>> <=> d = <<>>)
          /\ \A op, x : Does(d, op, x) <=> op = "exit" /\ In(x, job[j].procs)
      <4>1. job[j].procs \in Seq(Procs)
        BY <1>1, JobFacts
      <4>2. PICK n : n = 1
        OBVIOUS
      <4>3. \A y \in Procs : <<"exit", y, n>> \in Instr
        BY <4>2, InstrFacts
      <4>4. PICK l \in Seq(Procs) : l = job[j].procs
        BY <4>1
      <4>5. /\ Calls("exit", l, n) \in Seq(Instr)
            /\ l = <<>> <=> Calls("exit", l, n) = <<>>
            /\ \A op, x : Does(Calls("exit", l, n), op, x) <=> op = "exit" /\ In(x, l)
        BY <4>3, CallsFacts, ZenonT(60)
      <4>. QED
        BY <3>2, <4>2, <4>4, <4>5
    <3>5. /\ c \o d \in Seq(Instr) /\ (c \o d = <<>> <=> c = <<>> /\ d = <<>>)
          /\ \A op, x : Does(c \o d, op, x) <=> Does(c, op, x) \/ Does(d, op, x)
      BY <3>3, <3>4, ConcatFacts
    <3>6. CASE c \o d # <<>>
      <4>1. Continue(a, c \o d)
        BY <2>2, <3>1, <3>2, <3>6 DEF Kill
      <4>. QED
        BY <3>3, <3>4, <3>5, <4>1
    <3>7. CASE c \o d = <<>>
      <4>1. PICK e : e = << <<"end_job", j, None>> >>
        OBVIOUS
      <4>2. Continue(a, e)
        BY <2>2, <3>1, <3>2, <3>7, <4>1 DEF Kill
      <4>3. e \in Seq(Instr) /\ \A op, x : Does(e, op, x) => op = "end_job" /\ x = j
        BY <1>1, <4>1, InstrFacts, SeqFacts, CodeFacts DEF JobOps
      <4>4. /\ job[j].procs = <<>> /\ job[j].children = <<>>
            /\ \A x : ~In(x, job[j].procs) /\ ~In(x, job[j].children)
        BY <3>3, <3>4, <3>5, <3>7 DEF In
      <4>. QED
        BY <4>2, <4>3, <4>4
    <3>. QED
      BY <3>6, <3>7
  <2>. QED
    BY <2>1, <2>2
<1>. HIDE DEF j
<1>4. Moves(a, code)
  BY <1>1, <1>3, ContinueFacts DEF TodoOK
<1>5. /\ \A op, x : Pending(op, x)' =>
           \/ Pending(op, x) \/ op = "kill_child"
           \/ op = "exit" /\ In(x, job[j].procs)
           \/ op = "end_job" /\ x = j /\ job[j].procs = <<>> /\ job[j].children = <<>>
      /\ \A op, x : Pending(op, x) => Pending(op, x)' \/ (op = "kill" /\ x = j)
      /\ ~job[j].killed => /\ \A x : In(x, job[j].procs) => Pending("exit", x)'
                           /\ \A x : In(x, job[j].children) => Pending("kill_child", x)'
  <2>1. Subject(a) = j
    BY DEF j
  <2>. QED
    BY <1>1, <1>3, <1>4, <2>1 DEF Moves, At
<1>6. /\ \A k \in Jobs : /\ job'[k].st = job[k].st /\ job'[k].term = job[k].term
                         /\ job'[k].procs = job[k].procs /\ job'[k].children = job[k].children
                         /\ k # j => job'[k].killed = job[k].killed
      /\ job'[j].killed
  BY <1>1, <1>2 DEF JobsOK, JobRec
<1>7. JobsOK' /\ OtherOK' /\ TodoOK'
  <2>1. job' \in [Jobs -> JobRec]
    BY <1>1, <1>2 DEF JobsOK, JobRec
  <2>. QED
    BY <1>1, <1>2, <1>4, <1>6, <2>1 DEF JobsOK, OtherOK, Moves, TodoOK
<1>8. \A k \in Jobs : job'[k].term \/ Pending("end_job", k)' => Over(k)'
  <2>1. \A k \in Jobs : Over(k) => Over(k)'
    BY <1>6 DEF Over, MayTerminate
  <2>2. \A k \in Jobs : k = j /\ job[j].procs = <<>> /\ job[j].children = <<>> => Over(k)'
    BY <1>6 DEF Over, MayTerminate
  <2>3. \A k \in Jobs : job'[k].term => Over(k)
    BY <1>6, JobFacts
  <2>4. \A k \in Jobs : Pending("end_job", k)' =>
          Over(k) \/ (k = j /\ job[j].procs = <<>> /\ job[j].children = <<>>)
    BY <1>5, JobFacts
  <2>. QED
    BY <2>1, <2>2, <2>3, <2>4
<1>9. KillReachesAll'
  <2>1. SUFFICES ASSUME NEW k \in Jobs, job'[k].killed
                 PROVE  /\ \A p \in Procs : In(p, job'[k].procs) =>
                             proc'[p].status = "Exited" \/ Pending("exit", p)'
                        /\ \A c \in Jobs : In(c, job'[k].children) /\ job'[c].st = "live" =>
                             job'[c].killed \/ Pending("kill_child", c)' \/ Pending("kill", c)'
    BY DEF KillReachesAll
  <2>2. CASE job[k].killed
    <3>1. /\ \A p \in Procs : In(p, job[k].procs) => proc[p].status = "Exited" \/ Pending("exit", p)
          /\ \A c \in Jobs : In(c, job[k].children) /\ job[c].st = "live" =>
               job[c].killed \/ Pending("kill_child", c) \/ Pending("kill", c)
      BY <2>2 DEF IInv, KillReachesAll
    <3>. QED
      BY <1>2, <1>5, <1>6, <3>1
  <2>3. CASE ~job[k].killed
    BY <1>5, <1>6, <2>1, <2>3
  <2>. QED
    BY <2>2, <2>3
<1>10. \A k \in Jobs : \A op \in ChildOps : Pending(op, k)' => job'[k].term
  BY <1>5, <1>6, JobFacts DEF ChildOps
<1>11. \A p \in Procs : Pending("exit", p)' => proc[p].status # "none"
  BY <1>1, <1>5, JobFacts
<1>. QED
  BY <1>2, <1>5, <1>6, <1>7, <1>8, <1>9, <1>10, <1>11, JobFacts, JobChange DEF TreeOps, ChildOps

LEMMA DropJobStep ==
  ASSUME IInv, NEW a \in Actors, DropJob(a)
  PROVE  IInv'
<1>. DEFINE j == Subject(a)
            last == job[j].st = "live" /\ ~Referenced(j, a)
<1>1. /\ At(a, "drop") /\ todo[a] # <<>> /\ TodoOK /\ OtherOK /\ JobsOK /\ j \in Jobs
  BY AtFacts, HeadType DEF DropJob, IInv, At, TodoOK, Subject, JobOps
<1>2. /\ UNCHANGED <<held, proc, thr, runner, lock, calls, escaped>>
      /\ job' = [job EXCEPT ![j].st = IF last THEN "dropped" ELSE job[j].st]
      /\ Continue(a, IF last THEN << <<"end_job", j, None>>, <<"drop", ParentOf[j], None>> >>
                             ELSE <<>>)
  BY DEF DropJob
<1>3. last => /\ j \notin held /\ j # Root /\ ParentOf[j] \in Jobs
              /\ \A p \in Procs : JobOf[p] = j => proc[p].status = "none"
              /\ \A c \in Jobs \ {Root} : ParentOf[c] = j => job[c].st # "live"
  BY <1>1, TaskAssumption DEF Referenced, OtherOK
<1>. HIDE DEF last
<1>4. PICK code \in Seq(Instr) :
        /\ Continue(a, code)
        /\ \A op, x : Does(code, op, x) => op = "drop" \/ (op = "end_job" /\ x = j /\ last)
  <2>1. CASE last
    <3>1. PICK c : c = << <<"end_job", j, None>>, <<"drop", ParentOf[j], None>> >>
      OBVIOUS
    <3>2. c \in Seq(Instr) /\ \A op, x : Does(c, op, x) => op = "drop" \/ (op = "end_job" /\ x = j)
      BY <1>1, <1>3, <2>1, <3>1, InstrFacts, SeqFacts, CodeFacts DEF JobOps
    <3>3. Continue(a, c)
      BY <1>2, <2>1, <3>1
    <3>. QED
      BY <2>1, <3>2, <3>3
  <2>2. CASE ~last
    BY <1>2, <2>2, SeqFacts, CodeFacts
  <2>. QED
    BY <2>1, <2>2
<1>. HIDE DEF j
<1>5. Moves(a, code)
  BY <1>1, <1>4, ContinueFacts DEF TodoOK
<1>6. /\ \A op, x : Pending(op, x)' =>
           Pending(op, x) \/ op = "drop" \/ (op = "end_job" /\ x = j /\ last)
      /\ \A op, x : Pending(op, x) => Pending(op, x)' \/ op = "drop"
  BY <1>1, <1>4, <1>5 DEF Moves, At
<1>7. /\ \A k \in Jobs : /\ job'[k].killed = job[k].killed /\ job'[k].term = job[k].term
                         /\ job'[k].procs = job[k].procs /\ job'[k].children = job[k].children
                         /\ k # j \/ ~last => job'[k].st = job[k].st
      /\ last => job'[j].st = "dropped" /\ job[j].st = "live"
  BY <1>1, <1>2 DEF JobsOK, JobRec, last
<1>8. JobsOK' /\ OtherOK' /\ TodoOK'
  <2>1. job' \in [Jobs -> JobRec]
    <3>1. (IF last THEN "dropped" ELSE job[j].st) \in {"none", "live", "dropped"}
      BY <1>1 DEF JobsOK, JobRec
    <3>2. PICK r : r = [job[j] EXCEPT !.st = IF last THEN "dropped" ELSE job[j].st]
      OBVIOUS
    <3>3. r \in JobRec
      <4>1. job[j] \in JobRec
        BY <1>1 DEF JobsOK
      <4>. QED
        BY <3>1, <3>2, <4>1 DEF JobRec
    <3>4. job' = [job EXCEPT ![j] = r]
      BY <1>2, <3>2
    <3>. QED
      BY <1>1, <3>3, <3>4 DEF JobsOK
  <2>. QED
    BY <1>1, <1>2, <1>5, <1>7, <2>1 DEF JobsOK, OtherOK, Moves, TodoOK
<1>9. \A k \in Jobs : job'[k].term \/ Pending("end_job", k)' => Over(k)'
  <2>1. \A k \in Jobs : Over(k) \/ (k = j /\ last) => Over(k)'
    BY <1>7 DEF Over, MayTerminate
  <2>. QED
    BY <1>6, <1>7, <2>1, JobFacts
<1>10. KillReachesAll'
  <2>1. \A c \in Jobs : job'[c].st = "live" => job[c].st = "live"
    BY <1>7
  <2>. QED
    BY <1>2, <1>6, <1>7, <2>1 DEF IInv, KillReachesAll
<1>11. \A k \in Jobs : \A op \in ChildOps : Pending(op, k)' => job'[k].term
  BY <1>6, <1>7, JobFacts DEF ChildOps
<1>12. \A k \in Jobs : /\ job'[k].st = "none" <=> job[k].st = "none"
                       /\ job'[k].st = "live" => job[k].st = "live"
                       /\ k \in held => job'[k].st = "live"
                       /\ job'[k].st = "dropped" => job[k].st = "dropped" \/ (k = j /\ last)
  BY <1>3, <1>7, JobFacts
<1>. QED
  BY <1>2, <1>3, <1>6, <1>7, <1>8, <1>9, <1>10, <1>11, <1>12, JobFacts, JobChange
     DEF TreeOps, ChildOps, QuietOps

-----------------------------------------------------------------------------
(* Creation                                                                  *)

LEMMA CreateJobStep ==
  ASSUME IInv, NEW a \in Actors, NEW j \in Jobs \ {Root}, CreateJob(a, j)
  PROVE  IInv'
<1>. DEFINE k == ParentOf[j]
            list == Append(job[k].children, j)
<1>1. /\ TodoOK /\ OtherOK /\ JobsOK /\ k \in Jobs /\ k \in held /\ job[k].st = "live"
      /\ job[j].st = "none" /\ ~job[k].killed /\ k # j
  BY TaskAssumption, JobFacts DEF CreateJob, IInv
<1>2. /\ UNCHANGED <<proc, thr, runner, lock, todo, calls, escaped>> /\ held' = held \cup {j}
      /\ job' = [job EXCEPT ![k].children = list, ![j].st = "live"]
  BY DEF CreateJob
<1>3. /\ list \in Seq(Jobs) /\ Distinct(list)
      /\ \A y : In(y, list) <=> In(y, job[k].children) \/ y = j
  <2>1. ~In(j, job[k].children)
    BY <1>1 DEF IInv, ListInv
  <2>. QED
    BY <1>1, <2>1, JobFacts, AppendFacts
<1>4. \A op, x : Pending(op, x)' <=> Pending(op, x)
  BY <1>2 DEF Pending
<1>. HIDE DEF list, k
<1>. PICK r : r = [job[k] EXCEPT !.children = list]
  OBVIOUS
<1>. PICK s : s = [job[j] EXCEPT !.st = "live"]
  OBVIOUS
<1>a. /\ r \in JobRec /\ r.children = list /\ r.st = job[k].st /\ r.procs = job[k].procs
      /\ r.killed = job[k].killed /\ r.term = job[k].term
  <2>1. job[k] \in JobRec
    BY <1>1 DEF JobsOK
  <2>. QED
    BY <1>3, <2>1 DEF JobRec
<1>b. /\ s \in JobRec /\ s.st = "live" /\ s.children = job[j].children /\ s.procs = job[j].procs
      /\ s.killed = job[j].killed /\ s.term = job[j].term
  <2>1. job[j] \in JobRec
    BY <1>1 DEF JobsOK
  <2>. QED
    BY <2>1 DEF JobRec
<1>c. job' = [job EXCEPT ![k] = r, ![j] = s]
  BY <1>1, <1>2 DEF JobsOK
<1>d. DOMAIN job = Jobs /\ job' \in [Jobs -> JobRec]
  BY <1>1, <1>a, <1>b, <1>c DEF JobsOK
<1>5. /\ \A i \in Jobs : /\ job'[i].killed = job[i].killed /\ job'[i].term = job[i].term
                         /\ job'[i].procs = job[i].procs
                         /\ i # j => job'[i].st = job[i].st
                         /\ i # k => job'[i].children = job[i].children
      /\ job'[j].st = "live" /\ job'[k].children = list
  <2>1. /\ job'[k] = r /\ job'[j] = s
        /\ \A i \in Jobs : i # k /\ i # j => job'[i] = job[i]
    BY <1>1, <1>c, <1>d
  <2>2. ASSUME NEW i \in Jobs
        PROVE  /\ job'[i].killed = job[i].killed /\ job'[i].term = job[i].term
               /\ job'[i].procs = job[i].procs
               /\ i # j => job'[i].st = job[i].st
               /\ i # k => job'[i].children = job[i].children
    <3>1. CASE i = j
      BY <1>1, <1>b, <2>1, <3>1
    <3>2. CASE i = k
      BY <1>1, <1>a, <2>1, <3>2
    <3>3. CASE i # k /\ i # j
      BY <2>1, <3>3
    <3>. QED
      BY <3>1, <3>2, <3>3
  <2>. QED
    BY <1>a, <1>b, <2>1, <2>2
<1>6. JobsOK' /\ OtherOK' /\ TodoOK' /\ ProcsOK' /\ HeldInv'
  <2>2. JobsOK'
    BY <1>1, <1>3, <1>5, <1>d DEF JobsOK
  <2>3. OtherOK' /\ TodoOK' /\ ProcsOK'
    BY <1>1, <1>2 DEF IInv, OtherOK, TodoOK, ProcsOK
  <2>4. ASSUME NEW i \in held' PROVE job'[i].st = "live"
    <3>1. i = j \/ (i \in held /\ i \in Jobs)
      BY <1>1, <1>2 DEF OtherOK
    <3>2. CASE i = j
      BY <1>5, <3>2
    <3>3. CASE i # j
      BY <1>5, <3>1, <3>3, JobFacts
    <3>. QED
      BY <3>2, <3>3
  <2>. QED
    BY <2>2, <2>3, <2>4 DEF HeldInv
<1>7. k = ParentOf[j]
  BY DEF k
<1>8. ListInv'
  <2>1. \A i \in Jobs, p \in Procs : In(p, job'[i].procs) =>
          JobOf[p] = i /\ proc'[p].status # "none"
    BY <1>2, <1>5 DEF IInv, ListInv
  <2>2. \A p \in Procs, t \in Threads : In(t, proc'[p].threads) =>
          ProcOf[t] = p /\ thr'[t] # "none"
    BY <1>2 DEF IInv, ListInv
  <2>3. ASSUME NEW i \in Jobs, NEW c \in Jobs, In(c, job'[i].children)
        PROVE  c # Root /\ ParentOf[c] = i /\ job'[c].st # "none"
    <3>1. CASE c = j
      <4>1. ~In(j, job[i].children)
        BY <1>1 DEF IInv, ListInv
      <4>2. i = k
        BY <1>5, <2>3, <3>1, <4>1
      <4>. QED
        BY <1>5, <1>7, <3>1, <4>2
    <3>2. CASE c # j
      <4>1. In(c, job[i].children)
        BY <1>3, <1>5, <2>3, <3>2
      <4>. QED
        BY <1>5, <3>2, <4>1 DEF IInv, ListInv
    <3>. QED
      BY <3>1, <3>2
  <2>. QED
    BY <2>1, <2>2, <2>3 DEF ListInv
<1>9. ExistInv' /\ SignalInv'
  BY <1>2, <1>4 DEF IInv, ExistInv, SignalInv
<1>10. ThreadInv' /\ ProcInv'
  <2>1. ThreadInv'
    <3>1. \A t \in Threads : Gone(t)' <=> Gone(t)
      BY <1>2 DEF Gone
    <3>. QED
      BY <1>2, <1>4, <3>1 DEF IInv, ThreadInv
  <2>2. ProcInv'
    <3>1. \A p \in Procs : JobOf[p] \in Jobs
      BY TaskAssumption
    <3>. QED
      BY <1>2, <1>4, <1>5, <3>1 DEF IInv, ProcInv, Gone
  <2>. QED
    BY <2>1, <2>2
<1>11. ChildInv'
  <2>1. \A c \in Jobs \ {Root} :
          /\ job[c].term = job'[c].term
          /\ In(c, job[ParentOf[c]].children) => In(c, job'[ParentOf[c]].children)
          /\ job'[c].st = "live" => job[c].st = "live" \/ In(c, job'[ParentOf[c]].children)
    BY <1>1, <1>3, <1>5, <1>7, TaskAssumption
  <2>. QED
    BY <1>4, <2>1 DEF IInv, ChildInv
<1>12. EndInv'
  <2>1. \A i \in Jobs : Over(i) => i # k
    BY <1>1 DEF Over, MayTerminate
  <2>2. \A i \in Jobs : Over(i) => Over(i)'
    BY <1>1, <1>5, <2>1 DEF Over, MayTerminate
  <2>. QED
    BY <1>4, <1>5, <2>2 DEF IInv, EndInv
<1>13. DropInv'
  <2>1. ASSUME NEW i \in Jobs, job'[i].st = "dropped"
        PROVE  /\ \A p \in Procs : JobOf[p] = i => proc'[p].status = "none"
               /\ \A c \in Jobs \ {Root} : ParentOf[c] = i => job'[c].st # "live"
    <3>1. i # j /\ i # k /\ job[i].st = "dropped"
      BY <1>1, <1>5, <2>1
    <3>2. /\ \A p \in Procs : JobOf[p] = i => proc[p].status = "none"
          /\ \A c \in Jobs \ {Root} : ParentOf[c] = i => job[c].st # "live"
      BY <3>1 DEF IInv, DropInv
    <3>. QED
      BY <1>2, <1>5, <1>7, <3>1, <3>2
  <2>. QED
    BY <2>1 DEF DropInv
<1>14. KillReachesAll'
  <2>1. \A i \in Jobs : job'[i].killed =>
          /\ job[i].killed /\ i # k /\ job'[i].procs = job[i].procs
          /\ job'[i].children = job[i].children /\ ~In(j, job[i].children)
    BY <1>1, <1>5 DEF IInv, ListInv
  <2>2. \A c \in Jobs : c # j => job'[c].st = job[c].st /\ job'[c].killed = job[c].killed
    BY <1>5
  <2>3. \A i \in Jobs : job[i].killed =>
          /\ \A p \in Procs : In(p, job[i].procs) => proc[p].status = "Exited" \/ Pending("exit", p)
          /\ \A c \in Jobs : In(c, job[i].children) /\ job[c].st = "live" =>
               job[c].killed \/ Pending("kill_child", c) \/ Pending("kill", c)
    BY DEF IInv, KillReachesAll
  <2>4. ASSUME NEW i \in Jobs, job'[i].killed, NEW p \in Procs, In(p, job'[i].procs)
        PROVE  proc'[p].status = "Exited" \/ Pending("exit", p)'
    BY <1>2, <1>4, <2>1, <2>3, <2>4
  <2>5. ASSUME NEW i \in Jobs, job'[i].killed, NEW c \in Jobs, In(c, job'[i].children),
               job'[c].st = "live"
        PROVE  job'[c].killed \/ Pending("kill_child", c)' \/ Pending("kill", c)'
    <3>1. job[i].killed /\ In(c, job[i].children) /\ c # j
      BY <2>1, <2>5
    <3>. QED
      BY <1>4, <2>2, <2>3, <2>5, <3>1
  <2>. QED
    BY <2>4, <2>5 DEF KillReachesAll
<1>15. ExitReachesAll'
  BY <1>2, <1>4 DEF IInv, ExitReachesAll
<1>. QED
  BY <1>6, <1>8, <1>9, <1>10, <1>11, <1>12, <1>13, <1>14, <1>15 DEF IInv

LEMMA CreateProcessStep ==
  ASSUME IInv, NEW a \in Actors, NEW p \in Procs, CreateProcess(a, p)
  PROVE  IInv'
<1>. DEFINE j == JobOf[p]
            list == Append(job[j].procs, p)
<1>1. /\ TodoOK /\ OtherOK /\ JobsOK /\ ProcsOK /\ j \in Jobs /\ job[j].st = "live"
      /\ proc[p].status = "none" /\ ~job[j].killed
  BY TaskAssumption, JobFacts DEF CreateProcess, AddProcess, IInv
<1>2. /\ UNCHANGED <<held, thr, runner, lock, todo, calls, escaped>>
      /\ job' = [job EXCEPT ![j].procs = list]
      /\ proc' = [proc EXCEPT ![p].status = "Init"]
  BY DEF CreateProcess, AddProcess
<1>3. /\ list \in Seq(Procs) /\ Distinct(list)
      /\ \A y : In(y, list) <=> In(y, job[j].procs) \/ y = p
  <2>1. ~In(p, job[j].procs)
    BY <1>1 DEF IInv, ListInv
  <2>. QED
    BY <1>1, <2>1, JobFacts, AppendFacts
<1>4. \A op, x : Pending(op, x)' <=> Pending(op, x)
  BY <1>2 DEF Pending
<1>. HIDE DEF list
<1>5. /\ \A i \in Jobs : /\ job'[i].killed = job[i].killed /\ job'[i].term = job[i].term
                         /\ job'[i].children = job[i].children /\ job'[i].st = job[i].st
                         /\ i # j => job'[i].procs = job[i].procs
      /\ job'[j].procs = list
  BY <1>1, <1>2 DEF JobsOK, JobRec
<1>6. /\ \A q \in Procs : /\ proc'[q].threads = proc[q].threads
                          /\ proc'[q].signalled = proc[q].signalled
                          /\ q # p => proc'[q].status = proc[q].status
      /\ proc'[p].status = "Init"
  BY <1>1, <1>2 DEF ProcsOK, ProcRec
<1>. HIDE DEF j
<1>7. JobsOK' /\ OtherOK' /\ TodoOK' /\ ProcsOK' /\ HeldInv'
  <2>1. job' \in [Jobs -> JobRec]
    BY <1>1, <1>2, <1>3 DEF JobsOK, JobRec
  <2>2. JobsOK'
    BY <1>1, <1>3, <1>5, <2>1 DEF JobsOK
  <2>3. proc' \in [Procs -> ProcRec]
    <3>1. PICK r : r = [proc[p] EXCEPT !.status = "Init"]
      OBVIOUS
    <3>2. r \in ProcRec
      <4>1. proc[p] \in ProcRec
        BY <1>1 DEF ProcsOK
      <4>. QED
        BY <3>1, <4>1, <1>1, <1>2 DEF ProcRec
    <3>3. proc' = [proc EXCEPT ![p] = r]
      BY <3>1, <1>1, <1>2
    <3>. QED
      BY <1>1, <3>2, <3>3 DEF ProcsOK
  <2>4. OtherOK' /\ TodoOK' /\ ProcsOK'
    BY <1>1, <1>2, <1>6, <2>3 DEF OtherOK, TodoOK, ProcsOK
  <2>5. HeldInv'
    BY <1>1, <1>2, <1>5, JobFacts DEF HeldInv, OtherOK
  <2>. QED
    BY <2>2, <2>4, <2>5
<1>8. j = JobOf[p]
  BY DEF j
<1>9. ListInv'
  BY <1>1, <1>2, <1>3, <1>5, <1>6, <1>8 DEF IInv, ListInv
<1>10. ExistInv' /\ SignalInv'
  BY <1>1, <1>2, <1>4, <1>6, TaskAssumption DEF IInv, ExistInv, SignalInv
<1>11. ThreadInv'
  BY <1>2, <1>4, <1>6, TaskAssumption DEF IInv, ThreadInv, Gone
<1>12. ProcInv'
  <2>1. \A t \in Threads : Gone(t)' <=> Gone(t)
    BY <1>2 DEF Gone
  <2>2. ~Pending("remove_process", p) /\ In(p, job'[JobOf[p]].procs)
    BY <1>1, <1>3, <1>5, <1>8, ProcessFacts
  <2>3. \A q \in Procs : q # p /\ In(q, job[JobOf[q]].procs) => In(q, job'[JobOf[q]].procs)
    BY <1>3, <1>5, TaskAssumption
  <2>. QED
    BY <1>4, <1>6, <2>1, <2>2, <2>3 DEF IInv, ProcInv
<1>13. ChildInv'
  BY <1>4, <1>5, TaskAssumption DEF IInv, ChildInv
<1>14. EndInv'
  <2>1. \A i \in Jobs : Over(i) => i # j
    BY <1>1 DEF Over, MayTerminate
  <2>2. \A i \in Jobs : Over(i) => Over(i)'
    BY <1>5, <2>1 DEF Over, MayTerminate
  <2>. QED
    BY <1>4, <1>5, <2>2 DEF IInv, EndInv
<1>15. DropInv'
  BY <1>1, <1>5, <1>6, <1>8 DEF IInv, DropInv
<1>16. KillReachesAll'
  <2>1. \A i \in Jobs : job'[i].killed =>
          /\ job[i].killed /\ job'[i].procs = job[i].procs
          /\ job'[i].children = job[i].children /\ ~In(p, job[i].procs)
    BY <1>1, <1>5 DEF IInv, ListInv
  <2>. QED
    BY <1>4, <1>5, <1>6, <2>1 DEF IInv, KillReachesAll
<1>17. ExitReachesAll'
  BY <1>2, <1>4, <1>6, TaskAssumption DEF IInv, ExitReachesAll
<1>. QED
  BY <1>7, <1>9, <1>10, <1>11, <1>12, <1>13, <1>14, <1>15, <1>16, <1>17 DEF IInv

LEMMA CreateThreadStep ==
  ASSUME IInv, NEW a \in Actors, NEW t \in Threads, CreateThread(a, t)
  PROVE  IInv'
<1>. DEFINE p == ProcOf[t]
            list == Append(proc[p].threads, t)
<1>1. /\ TodoOK /\ OtherOK /\ ProcsOK /\ p \in Procs /\ thr[t] = "none"
      /\ proc[p].status \in {"Init", "Running"}
  BY TaskAssumption DEF CreateThread, AddThread, IInv
<1>2. /\ UNCHANGED <<job, held, runner, lock, todo, calls>>
      /\ proc' = [proc EXCEPT ![p].threads = list] /\ thr' = [thr EXCEPT ![t] = "New"]
      /\ escaped' = escaped \cup {x \in {t} : Pending("terminate", p)}
  BY DEF CreateThread, AddThread
<1>3. /\ list \in Seq(Threads) /\ Distinct(list)
      /\ \A y : In(y, list) <=> In(y, proc[p].threads) \/ y = t
  <2>1. ~In(t, proc[p].threads)
    BY <1>1 DEF IInv, ListInv
  <2>. QED
    BY <1>1, <2>1, ProcessFacts, AppendFacts
<1>4. \A op, x : Pending(op, x)' <=> Pending(op, x)
  BY <1>2 DEF Pending
<1>. HIDE DEF list
<1>5. /\ \A q \in Procs : /\ proc'[q].status = proc[q].status
                          /\ proc'[q].signalled = proc[q].signalled
                          /\ q # p => proc'[q].threads = proc[q].threads
      /\ proc'[p].threads = list
  BY <1>1, <1>2 DEF ProcsOK, ProcRec
<1>6. /\ \A x \in Threads : /\ x # t => thr'[x] = thr[x] /\ (Gone(x) => Gone(x)')
                            /\ x \in escaped => x \in escaped'
      /\ thr'[t] = "New" /\ (Pending("terminate", p) => t \in escaped')
  BY <1>1, <1>2 DEF OtherOK, Gone
<1>. HIDE DEF p
<1>7. JobsOK' /\ OtherOK' /\ TodoOK' /\ ProcsOK' /\ HeldInv' /\ DropInv'
  <2>1. proc' \in [Procs -> ProcRec]
    <3>1. PICK r : r = [proc[p] EXCEPT !.threads = list]
      OBVIOUS
    <3>2. r \in ProcRec
      <4>1. proc[p] \in ProcRec
        BY <1>1 DEF ProcsOK
      <4>. QED
        BY <3>1, <4>1, <1>1, <1>2, <1>3 DEF ProcRec
    <3>3. proc' = [proc EXCEPT ![p] = r]
      BY <3>1, <1>1, <1>2, <1>3
    <3>. QED
      BY <1>1, <3>2, <3>3 DEF ProcsOK
  <2>2. OtherOK' /\ TodoOK' /\ ProcsOK'
    BY <1>1, <1>2, <1>3, <1>5, <2>1 DEF OtherOK, TodoOK, ProcsOK
  <2>3. JobsOK' /\ HeldInv' /\ DropInv'
    BY <1>2, <1>5 DEF IInv, JobsOK, HeldInv, DropInv
  <2>. QED
    BY <2>2, <2>3
<1>8. p = ProcOf[t]
  BY DEF p
<1>9. ListInv'
  BY <1>1, <1>2, <1>3, <1>5, <1>6, <1>8 DEF IInv, ListInv
<1>10. ExistInv' /\ SignalInv'
  BY <1>2, <1>4, <1>5, TaskAssumption DEF IInv, ExistInv, SignalInv
<1>11. ThreadInv'
  <2>1. ASSUME NEW x \in Threads
        PROVE  /\ In(x, proc'[ProcOf[x]].threads) \/ Gone(x)'
               /\ Pending("remove_thread", x)' => thr'[x] = "Dead" \/ x \in escaped'
               /\ proc'[ProcOf[x]].status = "none" => Gone(x)'
    <3>1. CASE x = t
      <4>1. Pending("remove_thread", t) => t \in escaped
        BY <1>1, ThreadFacts
      <4>. QED
        BY <1>1, <1>3, <1>4, <1>5, <1>6, <1>8, <3>1, <4>1
    <3>2. CASE x # t
      <4>1. In(x, proc[ProcOf[x]].threads) => In(x, proc'[ProcOf[x]].threads)
        BY <1>3, <1>5, TaskAssumption
      <4>. QED
        BY <1>4, <1>5, <1>6, <3>2, <4>1, TaskAssumption DEF IInv, ThreadInv
    <3>. QED
      BY <3>1, <3>2
  <2>2. ASSUME NEW q \in Procs, NEW x \in Threads, Pending("terminate", q)', In(x, proc'[q].threads)
        PROVE  x \in escaped'
    BY <1>3, <1>4, <1>5, <1>6, <2>2, ProcessFacts
  <2>. QED
    BY <2>1, <2>2 DEF ThreadInv
<1>12. ProcInv'
  <2>1. ASSUME NEW q \in Procs, Pending("remove_process", q)' \/
               (proc'[q].status # "none" /\ ~In(q, job'[JobOf[q]].procs))
        PROVE  /\ proc'[q].status = "Exited"
               /\ \A x \in Threads : ProcOf[x] = q => Gone(x)'
    <3>1. proc[q].status = "Exited" /\ \A x \in Threads : ProcOf[x] = q => Gone(x)
      BY <1>2, <1>4, <1>5, <2>1 DEF IInv, ProcInv
    <3>. QED
      BY <1>1, <1>5, <1>6, <1>8, <3>1
  <2>. QED
    BY <2>1 DEF ProcInv
<1>13. ChildInv' /\ EndInv'
  BY <1>2, <1>4 DEF IInv, ChildInv, EndInv, Over, MayTerminate
<1>14. KillReachesAll'
  BY <1>2, <1>4, <1>5 DEF IInv, KillReachesAll
<1>15. ExitReachesAll'
  <2>1. ASSUME NEW x \in Threads, proc'[ProcOf[x]].status = "Exited",
               In(x, proc'[ProcOf[x]].threads)
        PROVE  thr'[x] \in {"Dying", "Dead"} \/ Pending("stop", x)' \/ x \in escaped'
    <3>1. ProcOf[x] # p /\ ProcOf[x] \in Procs /\ x # t
      BY <1>1, <1>5, <1>8, <2>1, TaskAssumption
    <3>. QED
      BY <1>4, <1>5, <1>6, <2>1, <3>1, ProcessFacts
  <2>. QED
    BY <2>1 DEF ExitReachesAll
<1>. QED
  BY <1>7, <1>9, <1>10, <1>11, <1>12, <1>13, <1>14, <1>15 DEF IInv

-----------------------------------------------------------------------------
(* The invariant                                                             *)

LEMMA InitInv == Init => IInv
<1>. SUFFICES ASSUME Init PROVE IInv
  OBVIOUS
<1>1. /\ \A op, x : ~Pending(op, x)
      /\ \A x : ~In(x, <<>>)
  BY DEF Init, Pending, In
<1>2. /\ \A j \in Jobs : /\ job[j].procs = <<>> /\ job[j].children = <<>>
                         /\ job[j].killed = FALSE /\ job[j].term = FALSE
                         /\ job[j].st = IF j = Root THEN "live" ELSE "none"
      /\ \A p \in Procs : /\ proc[p].threads = <<>> /\ proc[p].status = "none"
                          /\ proc[p].signalled = FALSE
      /\ \A t \in Threads : thr[t] = "none"
  BY DEF Init
<1>3. JobsOK
  BY DEF Init, JobsOK, JobRec, Distinct
<1>4. ProcsOK
  <2>1. proc \in [Procs -> ProcRec]
    BY DEF Init, ProcRec
  <2>. QED
    BY <1>2, <2>1 DEF ProcsOK, Distinct
<1>5. OtherOK /\ TodoOK /\ HeldInv
  BY <1>2, TaskAssumption, SeqFacts DEF Init, OtherOK, TodoOK, HeldInv
<1>6. ListInv /\ SignalInv /\ KillReachesAll
  BY <1>1, <1>2 DEF ListInv, SignalInv, KillReachesAll
<1>7. ExistInv
  BY <1>1 DEF Init, ExistInv
<1>8. ThreadInv /\ ProcInv
  BY <1>1, <1>2 DEF ThreadInv, ProcInv, Gone
<1>9. ChildInv /\ EndInv /\ DropInv
  BY <1>1, <1>2 DEF ChildInv, EndInv, DropInv
<1>10. ExitReachesAll
  BY <1>2, TaskAssumption DEF ExitReachesAll
<1>. QED
  BY <1>3, <1>4, <1>5, <1>6, <1>7, <1>8, <1>9, <1>10 DEF IInv

LEMMA NextInv ==
  ASSUME IInv, Next
  PROVE  IInv'
<1>1. ASSUME NEW a \in Actors, Step(a) PROVE IInv'
  BY <1>1, UnlockStep, StopStep, ThreadStartStep, ThreadTerminateStep, RemoveThreadStep,
     ExitAgainStep, ExitStep, SignalTerminatedStep, ProcessTerminateStep, CriticalKillStep,
     RemoveProcessStep, RemoveChildStep, JobTerminateStep, SelfRefStep, KillStep, UpgradeStep,
     FindProcessStep, VisitChildStep, ChildrenIdsStep, DropJobStep, Zenon DEF Step
<1>2. ASSUME NEW a \in Actors, Syscall(a) PROVE IInv'
  <2>1. \/ \E j \in Jobs \ {Root} : CreateJob(a, j)
        \/ \E p \in Procs : CreateProcess(a, p)
        \/ \E p \in Procs, j \in Jobs, nz \in BOOLEAN : SetCritical(a, p, j, nz)
        \/ \E t \in Threads : CreateThread(a, t) \/ StartProcess(a, t) \/ StartThread(a, t)
        \/ \/ \E j \in Jobs \ {Root} : CloseJob(a, j)
           \/ \E j \in Jobs : KillJob(a, j) \/ WalkJob(a, j)
           \/ \E p \in Procs : KillProcess(a, p) \/ WalkTree(a, p)
           \/ \E t \in Threads : KillThread(a, t)
           \/ ExitThread(a)
           \/ \E code \in {0, 1} : ExitProcess(a, code)
    BY <1>2, Zenon DEF Syscall
  <2>. QED
    BY <2>1, CreateJobStep, CreateProcessStep, SetCriticalStep, CreateThreadStep,
       StartProcessStep, StartThreadStep, CallStep, Zenon
<1>3. ASSUME NEW t \in Threads, EndRunner(t) PROVE IInv'
  BY <1>3, EndRunnerStep
<1>. QED
  BY <1>1, <1>2, <1>3 DEF Next

LEMMA StutterInv ==
  ASSUME IInv, UNCHANGED vars
  PROVE  IInv'
<1>1. UNCHANGED <<job, held, proc, thr, runner, lock, todo, calls, escaped>>
  BY DEF vars
<1>2. \A op, x : Pending(op, x)' <=> Pending(op, x)
  BY <1>1 DEF Pending
<1>3. OtherOK' /\ TodoOK'
  BY <1>1 DEF IInv, OtherOK, TodoOK
<1>. QED
  BY <1>1, <1>2, <1>3, SubjectsFacts, CalmStep DEF Subjects

\* The inductive invariant: lists hold what is alive, what leaves them has
\* ended, and what a kill has not reached is on some actor's stack.
THEOREM Inductive == Spec => []IInv
<1>1. IInv /\ [Next]_vars => IInv'
  BY NextInv, StutterInv
<1>. QED
  BY InitInv, <1>1, PTL DEF Spec

\* Types: every object is on at most one list, once; handles name live jobs;
\* the stacks hold well-formed instructions.
THEOREM TypeCorrect == Spec => []TypeOK
<1>1. IInv => TypeOK
  <2>1. SUFFICES ASSUME IInv PROVE TypeOK
    OBVIOUS
  <2>2. ASSUME NEW s \in {job[j].procs : j \in Jobs} \cup {job[j].children : j \in Jobs}
                         \cup {proc[p].threads : p \in Procs}
        PROVE  Distinct(s)
    BY <2>1 DEF IInv, JobsOK, ProcsOK
  <2>3. held \in SUBSET {j \in Jobs : job[j].st = "live"}
    BY <2>1 DEF IInv, OtherOK, HeldInv
  <2>. QED
    BY <2>1, <2>2, <2>3 DEF TypeOK, IInv, JobsOK, ProcsOK, OtherOK, TodoOK, Distinct
<1>. QED
  BY Inductive, <1>1, PTL

\* Job::kill misses nobody: what a killed job still lists has exited or is
\* killed, or an actor has the call that does it on its stack. For every tree,
\* and every interleaving of creations, exits, kills and drops.
THEOREM KillReachesAllHolds == Spec => []KillReachesAll
<1>1. IInv => KillReachesAll
  BY DEF IInv
<1>. QED
  BY Inductive, <1>1, PTL

\* Process::exit stops every thread it lists, except those that were added
\* after the last one had left or started when they were dying already.
THEOREM ExitReachesAllHolds == Spec => []ExitReachesAll
<1>1. IInv => ExitReachesAll
  BY DEF IInv
<1>. QED
  BY Inductive, <1>1, PTL

\* JOB_TERMINATED means what it says: below a terminated job no thread lives
\* that did not escape its process, and no child job that has not terminated.
THEOREM TerminatedJobIsDeadHolds == Spec => []TerminatedJobIsDead
<1>1. IInv => TerminatedJobIsDead
  <2>1. SUFFICES ASSUME IInv, NEW j \in Jobs, job[j].term
                 PROVE  /\ \A t \in Threads : JobOf[ProcOf[t]] = j => Gone(t)
                        /\ \A c \in Jobs \ {Root} : ParentOf[c] = j =>
                             job[c].st # "live" \/ job[c].term
    BY DEF TerminatedJobIsDead, Gone
  <2>2. Over(j)
    BY <2>1, JobFacts
  <2>3. CASE job[j].st = "dropped"
    <3>1. /\ \A p \in Procs : JobOf[p] = j => proc[p].status = "none"
          /\ \A c \in Jobs \ {Root} : ParentOf[c] = j => job[c].st # "live"
      BY <2>1, <2>3 DEF IInv, DropInv
    <3>2. \A t \in Threads : proc[ProcOf[t]].status = "none" => Gone(t)
      BY <2>1 DEF IInv, ThreadInv
    <3>. QED
      BY <3>1, <3>2, TaskAssumption
  <2>4. CASE MayTerminate(job[j])
    <3>1. \A x : ~In(x, job[j].procs) /\ ~In(x, job[j].children)
      BY <2>4 DEF MayTerminate, In
    <3>2. \A t \in Threads : JobOf[ProcOf[t]] = j => Gone(t)
      <4>1. \A p \in Procs : JobOf[p] = j => proc[p].status = "none" \/
                               \A t \in Threads : ProcOf[t] = p => Gone(t)
        BY <2>1, <3>1 DEF IInv, ProcInv
      <4>2. \A t \in Threads : proc[ProcOf[t]].status = "none" => Gone(t)
        BY <2>1 DEF IInv, ThreadInv
      <4>. QED
        BY <4>1, <4>2, TaskAssumption
    <3>3. \A c \in Jobs \ {Root} : ParentOf[c] = j => job[c].st # "live" \/ job[c].term
      BY <2>1, <3>1 DEF IInv, ChildInv
    <3>. QED
      BY <3>2, <3>3
  <2>. QED
    BY <2>2, <2>3, <2>4 DEF Over
<1>. QED
  BY Inductive, <1>1, PTL

\* The exit code of a process that has exited is never written again.
LEMMA ExitedStays ==
  ASSUME IInv, Next, NEW p \in Procs, proc[p].status = "Exited"
  PROVE  proc'[p].status = "Exited" /\ proc'[p].code = proc[p].code
<1>1. ProcsOK /\ TodoOK
  BY DEF IInv
<1>2. ASSUME UNCHANGED proc
      PROVE  proc'[p].status = "Exited" /\ proc'[p].code = proc[p].code
  BY <1>2
<1>3. ASSUME NEW a \in Actors, Step(a)
      PROVE  proc'[p].status = "Exited" /\ proc'[p].code = proc[p].code
  <2>1. CASE Exit(a)
    <3>1. /\ Subject(a) # p
          /\ proc' = [proc EXCEPT ![Subject(a)].status = "Exited",
                                  ![Subject(a)].code = Argument(a)]
      BY <2>1 DEF Exit
    <3>. QED
      BY <1>1, <3>1 DEF ProcsOK, ProcRec
  <2>2. CASE ProcessTerminate(a)
    <3>1. PICK q : q = Subject(a)
      OBVIOUS
    <3>2. proc' = [proc EXCEPT ![q].status = "Exited",
                               ![q].code = IF proc[q].status = "Exited" THEN proc[q].code ELSE 0]
      BY <2>2, <3>1 DEF ProcessTerminate
    <3>. QED
      BY <1>1, <3>2 DEF ProcsOK, ProcRec
  <2>3. CASE RemoveThread(a)
    BY <1>1, <2>3 DEF RemoveThread, ProcsOK, ProcRec
  <2>4. CASE SignalTerminated(a)
    BY <1>1, <2>4 DEF SignalTerminated, ProcsOK, ProcRec
  <2>5. \/ Exit(a) \/ ProcessTerminate(a) \/ RemoveThread(a) \/ SignalTerminated(a)
        \/ UNCHANGED proc
    BY <1>3 DEF Step, Unlock, Stop, ThreadStart, ThreadTerminate, ExitAgain, CriticalKill,
                RemoveProcess, RemoveChild, JobTerminate, SelfRef, Kill, Upgrade, FindProcess,
                VisitChild, ChildrenIds, DropJob
  <2>. QED
    BY <1>2, <2>1, <2>2, <2>3, <2>4, <2>5
<1>4. ASSUME NEW a \in Actors, Syscall(a)
      PROVE  proc'[p].status = "Exited" /\ proc'[p].code = proc[p].code
  <2>1. ASSUME NEW q \in Procs, CreateProcess(a, q)
        PROVE  proc'[p].status = "Exited" /\ proc'[p].code = proc[p].code
    BY <1>1, <2>1 DEF CreateProcess, ProcsOK, ProcRec
  <2>2. ASSUME NEW q \in Procs, NEW j \in Jobs, NEW nz \in BOOLEAN, SetCritical(a, q, j, nz)
        PROVE  proc'[p].status = "Exited" /\ proc'[p].code = proc[p].code
    BY <1>1, <2>2 DEF SetCritical, ProcsOK, ProcRec
  <2>3. ASSUME NEW t \in Threads, CreateThread(a, t) \/ StartProcess(a, t)
        PROVE  proc'[p].status = "Exited" /\ proc'[p].code = proc[p].code
    BY <1>1, <2>3 DEF CreateThread, AddThread, StartProcess, ProcsOK, ProcRec
  <2>4. \/ \E q \in Procs : CreateProcess(a, q)
        \/ \E q \in Procs, j \in Jobs, nz \in BOOLEAN : SetCritical(a, q, j, nz)
        \/ \E t \in Threads : CreateThread(a, t) \/ StartProcess(a, t)
        \/ UNCHANGED proc
    BY <1>4 DEF Syscall, CreateJob, CloseJob, KillJob, WalkJob, KillProcess, WalkTree, StartThread,
                KillThread, ExitThread, ExitProcess, Request
  <2>. QED
    BY <1>2, <2>1, <2>2, <2>3, <2>4
<1>5. ASSUME NEW t \in Threads, EndRunner(t) PROVE UNCHANGED proc
  BY <1>5 DEF EndRunner
<1>. QED
  BY <1>2, <1>3, <1>4, <1>5 DEF Next

\* What wait_for_exit reads is final: once PROCESS_TERMINATED is asserted the
\* process has exited, and neither Process::exit nor Process::terminate writes
\* the code again.
THEOREM ExitCodeStableHolds == Spec => ExitCodeStable
<1>. DEFINE Stable == \A p \in Procs : proc[p].signalled =>
                        /\ proc[p].status = "Exited" /\ proc'[p].status = "Exited"
                        /\ proc'[p].code = proc[p].code
<1>1. IInv /\ [Next]_vars => [Stable]_vars
  <2>1. ASSUME IInv, Next PROVE Stable
    BY <2>1, ProcessFacts, ExitedStays
  <2>. QED
    BY <2>1
<1>. QED
  BY Inductive, <1>1, PTL DEF Spec, ExitCodeStable
=============================================================================

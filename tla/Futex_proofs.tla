---------------------------- MODULE Futex_proofs ----------------------------
(***************************************************************************)
(* The inductive invariant of Futex, for any number of futexes, waiters    *)
(* and callers and any counts: every waiter is in at most one place, a     *)
(* sleeping one in exactly one, and a call that returns short has left     *)
(* nobody it could have woken.                                             *)
(***************************************************************************)
EXTENDS Futex, SequenceTheorems, FiniteSetTheorems, TLAPS

Futures ==
  [pc : {"new", "poll", "refused", "asleep", "ok", "expired", "timed_out"},
   futex : Futexes \cup {None}, at : Futexes \cup {None}, expect : Nat,
   newOwner : Owners, woken : BOOLEAN, waker : BOOLEAN]
Ops ==
  [pc : {"idle", "published", "run", "done"},
   kind : {"wake", "single", "requeue"}, f : Futexes \cup {None},
   want : Nat, n : Nat, hand : Seq(Waiters), to : Futexes \cup {None},
   retarget : Seq(Waiters), saw : SUBSET Waiters]

\* The types, in two parts: the futexes and their waiters, the calls.
FutexOK ==
  /\ value \in [Futexes -> 0 .. MaxValue]
  /\ owner \in [Futexes -> Owners]
  /\ queue \in [Futexes -> Seq(Waiters)]
  /\ fut \in [Waiters -> Futures]
  /\ runnable \subseteq Waiters
OpsOK == op \in [Callers -> Ops]

\* A future that was called has a futex; it has not slept before its first
\* poll, its waker is registered by that poll and taken by the wake.
FutInv ==
  \A w \in Waiters :
    /\ fut[w].pc # "new" => fut[w].futex \in Futexes
    /\ fut[w].pc = "poll" => fut[w].at = fut[w].futex
    /\ fut[w].waker => fut[w].pc \in {"asleep", "expired", "timed_out"}
    /\ fut[w].woken => fut[w].pc \notin {"new", "poll", "refused"}
    /\ fut[w].woken /\ fut[w].waker => fut[w].pc = "timed_out"

\* A call holds waiters only while it runs, and never more than it may wake.
OpInv ==
  \A c \in Callers :
    /\ op[c].pc \in {"idle", "published"} =>
         op[c].hand = <<>> /\ op[c].want = 0 /\ op[c].n = 0 /\ op[c].kind = "wake"
    /\ op[c].pc # "idle" => op[c].f \in Futexes \/ op[c].want = 0
    /\ op[c].pc \in {"published", "run"} => op[c].f \in Futexes
    /\ op[c].retarget # <<>> => op[c].to \in Futexes
    /\ op[c].n + Len(op[c].hand) <= op[c].want

\* No waiter twice in one sequence, none in two.
Distinct(s) == \A i, j \in 1 .. Len(s) : s[i] = s[j] => i = j
Apart(s, t) == Members(s) \cap Members(t) = {}

OnceInv ==
  /\ \A f \in Futexes : Distinct(queue[f])
  /\ \A c \in Callers : Distinct(op[c].hand)
ApartInv ==
  /\ \A f, g \in Futexes : f # g => Apart(queue[f], queue[g])
  /\ \A c, d \in Callers : c # d => Apart(op[c].hand, op[d].hand)
  /\ \A f \in Futexes, c \in Callers : Apart(queue[f], op[c].hand)

\* A waiter enters a queue, and a call's view, with its first poll.
Fresh(w) == fut[w].pc \in {"new", "poll", "refused"}
FreshInv ==
  \A w \in Waiters : Fresh(w) =>
    /\ \A f \in Futexes : w \notin Members(queue[f])
    /\ \A c \in Callers : /\ w \notin Members(op[c].hand) /\ w \notin op[c].saw
                          /\ w \notin Members(op[c].retarget)

\* A sleeping waiter is somewhere.
WhereInv ==
  \A w \in Waiters : Asleep(w) =>
    \/ \E f \in Futexes : w \in Members(queue[f])
    \/ \E c \in Callers : w \in Members(op[c].hand)

IInv == FutexOK /\ OpsOK /\ FutInv /\ OpInv /\ OnceInv /\ ApartInv /\ FreshInv
        /\ WhereInv /\ NoLostPublish /\ WakeIsExact

-----------------------------------------------------------------------------
(* Facts about the operators on sequences                                    *)

\* A sequence is cut in two, and the parts have nothing in common.
LEMMA Cut ==
  ASSUME NEW s \in Seq(Waiters), NEW k \in Nat
  PROVE  /\ Front(s, k) \in Seq(Waiters) /\ Rest(s, k) \in Seq(Waiters)
         /\ Len(Front(s, k)) <= k
         /\ k >= Len(s) => Rest(s, k) = <<>>
         /\ Members(s) = Members(Front(s, k)) \cup Members(Rest(s, k))
         /\ Distinct(s) => /\ Distinct(Front(s, k)) /\ Distinct(Rest(s, k))
                           /\ Apart(Front(s, k), Rest(s, k))
<1>. DEFINE m == Least(k, Len(s))
            a == Front(s, k)
            b == Rest(s, k)
<1>1. Len(s) \in Nat /\ m \in 0 .. Len(s) /\ m <= k /\ (k >= Len(s) => m = Len(s))
  BY LenProperties DEF Least
<1>2. /\ a \in Seq(Waiters) /\ Len(a) = m
      /\ \A i \in 1 .. m : a[i] = s[i]
  BY <1>1, SubSeqProperties, ElementOfSeq DEF Front
<1>3. /\ b \in Seq(Waiters) /\ Len(b) = Len(s) - m
      /\ \A i \in 1 .. (Len(s) - m) : b[i] = s[m + i]
  BY <1>1, SubSeqProperties, ElementOfSeq DEF Rest
<1>4. Members(a) = {s[i] : i \in 1 .. m}
  BY <1>2 DEF Members
<1>5. Members(b) = {s[i] : i \in (m + 1) .. Len(s)}
  <2>1. ASSUME NEW i \in 1 .. Len(b) PROVE b[i] \in {s[j] : j \in (m + 1) .. Len(s)}
    <3>1. i + m \in (m + 1) .. Len(s) /\ b[i] = s[m + i] /\ m + i = i + m
      BY <1>1, <1>3
    <3>. QED
      BY <3>1
  <2>2. ASSUME NEW j \in (m + 1) .. Len(s) PROVE s[j] \in Members(b)
    <3>1. j - m \in 1 .. Len(b) /\ m + (j - m) = j
      BY <1>1, <1>3
    <3>2. b[j - m] = s[j]
      BY <1>3, <3>1
    <3>. QED
      BY <3>1, <3>2 DEF Members
  <2>. QED
    BY <2>1, <2>2 DEF Members
<1>6. Members(s) = Members(a) \cup Members(b)
  <2>1. \A i \in 1 .. Len(s) : i \in 1 .. m \/ i \in (m + 1) .. Len(s)
    BY <1>1
  <2>2. 1 .. m \subseteq 1 .. Len(s) /\ (m + 1) .. Len(s) \subseteq 1 .. Len(s)
    BY <1>1
  <2>. QED
    BY <1>4, <1>5, <2>1, <2>2 DEF Members
<1>7. ASSUME Distinct(s) PROVE Distinct(a) /\ Distinct(b) /\ Apart(a, b)
  <2>1. Distinct(a)
    BY <1>1, <1>2, <1>7 DEF Distinct
  <2>2. Distinct(b)
    <3>. SUFFICES ASSUME NEW i \in 1 .. Len(b), NEW j \in 1 .. Len(b), b[i] = b[j]
                  PROVE  i = j
      BY DEF Distinct
    <3>1. m + i \in 1 .. Len(s) /\ m + j \in 1 .. Len(s) /\ s[m + i] = s[m + j]
      BY <1>1, <1>3
    <3>. QED
      BY <1>1, <1>7, <3>1 DEF Distinct
  <2>3. Apart(a, b)
    <3>. SUFFICES ASSUME NEW i \in 1 .. m, NEW j \in (m + 1) .. Len(s), s[i] = s[j]
                  PROVE  FALSE
      BY <1>4, <1>5 DEF Apart
    <3>. QED
      BY <1>1, <1>7 DEF Distinct
  <2>. QED
    BY <2>1, <2>2, <2>3
<1>8. k >= Len(s) => b = <<>>
  BY <1>1, <1>3, EmptySeq
<1>. QED
  BY <1>1, <1>2, <1>3, <1>6, <1>7, <1>8

\* A waiter joins the end of a queue.
LEMMA Joined ==
  ASSUME NEW s \in Seq(Waiters), NEW w \in Waiters
  PROVE  /\ Append(s, w) \in Seq(Waiters)
         /\ Members(Append(s, w)) = Members(s) \cup {w}
         /\ Distinct(s) /\ w \notin Members(s) => Distinct(Append(s, w))
<1>1. /\ Append(s, w) \in Seq(Waiters) /\ Len(Append(s, w)) = Len(s) + 1
      /\ \A i \in 1 .. Len(s) : Append(s, w)[i] = s[i]
      /\ Append(s, w)[Len(s) + 1] = w /\ Len(s) \in Nat
  BY AppendProperties, LenProperties
<1>2. \A i \in 1 .. (Len(s) + 1) : i \in 1 .. Len(s) \/ i = Len(s) + 1
  BY <1>1
<1>3. 1 .. Len(s) \subseteq 1 .. (Len(s) + 1) /\ Len(s) + 1 \in 1 .. (Len(s) + 1)
  BY <1>1
<1>4. Members(Append(s, w)) = Members(s) \cup {w}
  BY <1>1, <1>2, <1>3 DEF Members
<1>5. ASSUME Distinct(s), w \notin Members(s) PROVE Distinct(Append(s, w))
  BY <1>1, <1>2, <1>5 DEF Distinct, Members
<1>. QED
  BY <1>1, <1>4, <1>5

\* Waiters join as a block.
LEMMA JoinedAll ==
  ASSUME NEW s \in Seq(Waiters), NEW t \in Seq(Waiters)
  PROVE  /\ s \o t \in Seq(Waiters)
         /\ Members(s \o t) = Members(s) \cup Members(t)
         /\ Distinct(s) /\ Distinct(t) /\ Apart(s, t) => Distinct(s \o t)
<1>. DEFINE u == s \o t
<1>1. /\ u \in Seq(Waiters) /\ Len(u) = Len(s) + Len(t)
      /\ Len(s) \in Nat /\ Len(t) \in Nat
      /\ \A i \in 1 .. Len(u) : u[i] = IF i <= Len(s) THEN s[i] ELSE t[i - Len(s)]
  BY ConcatProperties, LenProperties
<1>2. \A i \in 1 .. Len(u) :
        \/ i \in 1 .. Len(s) /\ u[i] = s[i]
        \/ i - Len(s) \in 1 .. Len(t) /\ u[i] = t[i - Len(s)]
  BY <1>1
<1>3. \A i \in 1 .. Len(s) : i \in 1 .. Len(u) /\ u[i] = s[i]
  BY <1>1
<1>4. \A i \in 1 .. Len(t) : i + Len(s) \in 1 .. Len(u) /\ u[i + Len(s)] = t[i]
  BY <1>1
<1>5. Members(u) = Members(s) \cup Members(t)
  <2>1. Members(u) \subseteq Members(s) \cup Members(t)
    BY <1>2 DEF Members
  <2>2. Members(s) \subseteq Members(u)
    BY <1>3 DEF Members
  <2>3. Members(t) \subseteq Members(u)
    BY <1>4 DEF Members
  <2>. QED
    BY <2>1, <2>2, <2>3
<1>6. ASSUME Distinct(s), Distinct(t), Apart(s, t) PROVE Distinct(u)
  <2>. SUFFICES ASSUME NEW i \in 1 .. Len(u), NEW j \in 1 .. Len(u), u[i] = u[j]
                PROVE  i = j
    BY DEF Distinct
  <2>1. \A k \in 1 .. Len(s), l \in 1 .. Len(t) : s[k] # t[l]
    BY <1>6 DEF Apart, Members
  <2>. QED
    BY <1>1, <1>2, <1>6, <2>1 DEF Distinct
<1>. QED
  BY <1>1, <1>5, <1>6

\* The first waiter is taken.
LEMMA Taken ==
  ASSUME NEW s \in Seq(Waiters), s # <<>>
  PROVE  /\ Head(s) \in Members(s) /\ Head(s) \in Waiters
         /\ Tail(s) \in Seq(Waiters) /\ Len(Tail(s)) = Len(s) - 1 /\ Len(s) > 0
         /\ Members(s) = Members(Tail(s)) \cup {Head(s)}
         /\ Distinct(s) => Distinct(Tail(s)) /\ Head(s) \notin Members(Tail(s))
<1>1. /\ Head(s) = s[1] /\ s[1] \in Waiters /\ Len(s) \in Nat /\ Len(s) > 0
      /\ Tail(s) \in Seq(Waiters) /\ Len(Tail(s)) = Len(s) - 1
      /\ \A i \in 1 .. (Len(s) - 1) : Tail(s)[i] = s[i + 1]
  BY HeadTailProperties, ElementOfSeq, LenProperties, EmptySeq
<1>2. Head(s) \in Members(s)
  BY <1>1 DEF Members
<1>3. \A i \in 1 .. Len(s) : i = 1 \/ (i - 1 \in 1 .. Len(Tail(s)) /\ Tail(s)[i - 1] = s[i])
  BY <1>1
<1>4. \A i \in 1 .. Len(Tail(s)) : i + 1 \in 1 .. Len(s) /\ Tail(s)[i] = s[i + 1]
  BY <1>1
<1>5. Members(s) = Members(Tail(s)) \cup {Head(s)}
  <2>1. Members(s) \subseteq Members(Tail(s)) \cup {Head(s)}
    BY <1>1, <1>3 DEF Members
  <2>2. Members(Tail(s)) \subseteq Members(s)
    BY <1>4 DEF Members
  <2>. QED
    BY <1>2, <2>1, <2>2
<1>6. ASSUME Distinct(s) PROVE Distinct(Tail(s)) /\ Head(s) \notin Members(Tail(s))
  <2>1. Distinct(Tail(s))
    <3>. SUFFICES ASSUME NEW i \in 1 .. Len(Tail(s)), NEW j \in 1 .. Len(Tail(s)),
                         Tail(s)[i] = Tail(s)[j]
                  PROVE  i = j
      BY DEF Distinct
    <3>1. i + 1 \in 1 .. Len(s) /\ j + 1 \in 1 .. Len(s) /\ s[i + 1] = s[j + 1]
      BY <1>4
    <3>. QED
      BY <1>6, <3>1 DEF Distinct
  <2>2. \A i \in 1 .. Len(Tail(s)) : Tail(s)[i] # Head(s)
    BY <1>1, <1>4, <1>6 DEF Distinct
  <2>. QED
    BY <2>1, <2>2 DEF Members
<1>. QED
  BY <1>1, <1>2, <1>5, <1>6

\* swap_remove_back takes out the one waiter.
LEMMA Removed ==
  ASSUME NEW s \in Seq(Waiters), NEW w \in Waiters, Distinct(s)
  PROVE  /\ SwapRemove(s, w) \in Seq(Waiters)
         /\ Members(SwapRemove(s, w)) = Members(s) \ {w}
         /\ Distinct(SwapRemove(s, w))
<1>1. CASE w \notin Members(s)
  BY <1>1 DEF SwapRemove
<1>2. CASE w \in Members(s)
  <2>. DEFINE n == Len(s)
              u == SwapRemove(s, w)
  <2>1. n \in Nat /\ \A i \in 1 .. n : s[i] \in Waiters
    BY LenProperties, ElementOfSeq
  <2>2. PICK k \in 1 .. n : s[k] = w
    BY <1>2 DEF Members
  <2>3. n - 1 \in Nat /\ n \in 1 .. n
    BY <2>1, <2>2
  <2>4. \A i \in 1 .. (n - 1) : i \in 1 .. n
    BY <2>1
  <2>5. u = [i \in 1 .. (n - 1) |-> IF s[i] = w THEN s[n] ELSE s[i]]
    BY <1>2 DEF SwapRemove
  <2>6. u \in Seq(Waiters) /\ Len(u) = n - 1
    <3>1. u \in [1 .. (n - 1) -> Waiters]
      BY <2>1, <2>3, <2>4, <2>5
    <3>. QED
      BY <2>3, <2>5, <3>1, SeqDef, LenProperties
  <2>7. \A i \in 1 .. (n - 1) : u[i] = IF i = k THEN s[n] ELSE s[i]
    BY <2>1, <2>2, <2>4, <2>5 DEF Distinct
  <2>8. Members(u) = Members(s) \ {w}
    <3>1. ASSUME NEW i \in 1 .. (n - 1) PROVE u[i] \in Members(s) \ {w}
      <4>1. CASE i = k
        <5>1. n # k /\ s[n] # w
          BY <2>1, <2>2, <2>3, <4>1 DEF Distinct
        <5>. QED
          BY <2>3, <2>7, <4>1, <5>1 DEF Members
      <4>2. CASE i # k
        <5>1. s[i] # w
          BY <2>2, <2>4, <4>2 DEF Distinct
        <5>. QED
          BY <2>4, <2>7, <4>2, <5>1 DEF Members
      <4>. QED
        BY <4>1, <4>2
    <3>2. ASSUME NEW i \in 1 .. n, s[i] # w PROVE s[i] \in Members(u)
      <4>1. i # k
        BY <2>2, <3>2
      <4>2. CASE i = n
        <5>1. k \in 1 .. (n - 1) /\ u[k] = s[n]
          BY <2>1, <2>2, <2>7, <4>1, <4>2
        <5>. QED
          BY <2>6, <4>2, <5>1 DEF Members
      <4>3. CASE i # n
        <5>1. i \in 1 .. (n - 1) /\ u[i] = s[i]
          BY <2>1, <2>7, <4>1, <4>3
        <5>. QED
          BY <2>6, <5>1 DEF Members
      <4>. QED
        BY <4>2, <4>3
    <3>. QED
      BY <2>6, <3>1, <3>2 DEF Members
  <2>9. Distinct(u)
    <3>. SUFFICES ASSUME NEW i \in 1 .. (n - 1), NEW j \in 1 .. (n - 1), u[i] = u[j]
                  PROVE  i = j
      BY <2>6 DEF Distinct
    <3>1. i \in 1 .. n /\ j \in 1 .. n /\ i # n /\ j # n
      BY <2>1
    <3>. QED
      BY <2>3, <2>7, <3>1 DEF Distinct
  <2>. QED
    BY <2>6, <2>8, <2>9
<1>. QED
  BY <1>1, <1>2

\* Different waiters: there are no more than there are waiters.
LEMMA Bounded ==
  ASSUME NEW s \in Seq(Waiters), Distinct(s)
  PROVE  Cardinality(Waiters) \in Nat /\ Len(s) <= Cardinality(Waiters)
<1>1. Len(s) \in Nat /\ s \in [1 .. Len(s) -> Waiters]
  BY LenProperties
<1>2. s \in Injection(1 .. Len(s), Waiters)
  BY <1>1 DEF Distinct, Injection, IsInjective
<1>3. Cardinality(1 .. Len(s)) <= Cardinality(Waiters)
  BY <1>2, FutexAssumption, FS_Injection
<1>4. Cardinality(1 .. Len(s)) = Len(s)
  BY <1>1, FS_Interval
<1>5. Cardinality(Waiters) \in Nat
  BY FutexAssumption, FS_CardinalityType
<1>. QED
  BY <1>3, <1>4, <1>5
-----------------------------------------------------------------------------
(* The steps that move waiters                                               *)

\* What the invariant says of one futex's queue and of one caller's hand.
LEMMA Held ==
  ASSUME IInv
  PROVE  /\ \A f \in Futexes : /\ queue[f] \in Seq(Waiters) /\ Distinct(queue[f])
                               /\ Members(queue[f]) \subseteq Waiters
         /\ \A c \in Callers : /\ op[c] \in Ops /\ op[c].hand \in Seq(Waiters)
                               /\ Members(op[c].hand) \subseteq Waiters
                               /\ Len(op[c].hand) \in Nat
<1>1. \A f \in Futexes : queue[f] \in Seq(Waiters) /\ Distinct(queue[f])
  BY DEF IInv, FutexOK, OnceInv
<1>2. \A c \in Callers : op[c] \in Ops
  BY DEF IInv, OpsOK
<1>3. \A c \in Callers : op[c].hand \in Seq(Waiters)
  BY <1>2 DEF Ops
<1>4. ASSUME NEW s \in Seq(Waiters) PROVE Members(s) \subseteq Waiters /\ Len(s) \in Nat
  BY ElementOfSeq, LenProperties DEF Members
<1>. QED
  BY <1>1, <1>2, <1>3, <1>4

\* The state of a call that has just begun.
LEMMA CallRecord ==
  ASSUME NEW kind \in {"wake", "single", "requeue"}, NEW f \in Futexes, NEW k \in Nat,
         NEW h \in Seq(Waiters), NEW g \in Futexes \cup {None}, NEW r \in Seq(Waiters),
         NEW v \in SUBSET Waiters
  PROVE  [pc |-> "run", kind |-> kind, f |-> f, want |-> k, n |-> 0, hand |-> h,
          to |-> g, retarget |-> r, saw |-> v] \in Ops
  BY DEF Ops

\* A call that returned short was made on a futex.
LEMMA ShortCall ==
  ASSUME IInv, NEW c \in Callers, Short(c)
  PROVE  op[c].f \in Futexes
<1>1. op[c].n \in Nat /\ op[c].want \in Nat
  BY Held DEF Ops
<1>2. op[c].want # 0
  BY <1>1 DEF Short
<1>. QED
  BY <1>2 DEF IInv, OpInv, Short

\* wake and wake_single_owner: a call takes the first waiters of a queue.
LEMMA PopStep ==
  ASSUME IInv, NEW c \in Callers, NEW f \in Futexes, NEW k \in Nat,
         NEW kind \in {"wake", "single"},
         op[c].pc \in {"idle", "published"},
         op[c].pc = "published" => k = Cardinality(Waiters) /\ op[c].f = f,
         queue' = [queue EXCEPT ![f] = Rest(@, k)],
         owner' \in [Futexes -> Owners],
         op' = [op EXCEPT ![c] = [Begin(kind, f, k) EXCEPT !.hand = Front(queue[f], k)]],
         UNCHANGED <<value, fut, runnable>>
  PROVE  IInv'
<1>. DEFINE s == queue[f]
            a == Front(s, k)
            b == Rest(s, k)
<1>1. s \in Seq(Waiters) /\ Distinct(s)
  BY Held
<1>2. /\ a \in Seq(Waiters) /\ b \in Seq(Waiters) /\ Len(a) <= k /\ Len(a) \in Nat
      /\ Members(s) = Members(a) \cup Members(b)
      /\ Distinct(a) /\ Distinct(b) /\ Apart(a, b)
      /\ k >= Len(s) => b = <<>>
  BY <1>1, Cut, LenProperties
<1>3. /\ queue'[f] = b /\ \A g \in Futexes : g # f => queue'[g] = queue[g]
      /\ queue' \in [Futexes -> Seq(Waiters)]
  BY <1>2 DEF IInv, FutexOK
<1>4. /\ op'[c] = [pc |-> "run", kind |-> kind, f |-> f, want |-> k, n |-> 0, hand |-> a,
                   to |-> None, retarget |-> <<>>, saw |-> Sleepers(f)]
      /\ \A d \in Callers : d # c => op'[d] = op[d]
      /\ op' = [op EXCEPT ![c] = op'[c]]
  BY DEF IInv, OpsOK, Begin, NewOp
<1>5. Sleepers(f) \subseteq Members(s) /\ Members(s) \subseteq Waiters
  BY Held DEF Sleepers
<1>6. FutexOK' /\ OpsOK'
  <2>1. FutexOK'
    BY <1>3 DEF IInv, FutexOK
  <2>2. op'[c] \in Ops
    <3>1. <<>> \in Seq(Waiters)
      BY EmptySeq
    <3>2. Sleepers(f) \in SUBSET Waiters
      BY <1>5
    <3>3. kind \in {"wake", "single", "requeue"} /\ None \in Futexes \cup {None}
      OBVIOUS
    <3>. HIDE DEF a
    <3>4. [pc |-> "run", kind |-> kind, f |-> f, want |-> k, n |-> 0, hand |-> a,
           to |-> None, retarget |-> <<>>, saw |-> Sleepers(f)] \in Ops
      BY <1>2, <3>1, <3>2, <3>3, CallRecord, Zenon
    <3>. QED
      BY <1>4, <3>4, Zenon
  <2>. QED
    BY <1>4, <2>1, <2>2 DEF IInv, OpsOK
<1>7. FutInv' /\ OpInv'
  BY <1>2, <1>4 DEF IInv, FutInv, OpInv
<1>8. OnceInv'
  BY <1>2, <1>3, <1>4 DEF IInv, OnceInv
<1>9. /\ \A g \in Futexes : Members(queue'[g]) \subseteq Members(queue[g])
      /\ op'[c].hand = a /\ Members(a) \subseteq Members(s)
      /\ \A d \in Callers : d # c => op'[d].hand = op[d].hand
      /\ op[c].hand = <<>>
  BY <1>2, <1>3, <1>4 DEF IInv, OpInv
<1>10. ApartInv'
  <2>1. \A g \in Futexes : g # f => Apart(queue[f], queue[g])
    BY DEF IInv, ApartInv
  <2>2. \A d \in Callers : Apart(queue[f], op[d].hand)
    BY DEF IInv, ApartInv
  <2>3. \A g, h \in Futexes : g # h => Apart(queue'[g], queue'[h])
    BY <1>9 DEF IInv, ApartInv, Apart
  <2>4. \A d, e \in Callers : d # e => Apart(op'[d].hand, op'[e].hand)
    BY <1>9, <2>2 DEF IInv, ApartInv, Apart
  <2>5. \A g \in Futexes, d \in Callers : Apart(queue'[g], op'[d].hand)
    BY <1>2, <1>3, <1>9, <2>1, <2>2 DEF IInv, ApartInv, Apart
  <2>. QED
    BY <2>3, <2>4, <2>5 DEF ApartInv
<1>11. FreshInv'
  <2>1. /\ op'[c].saw \subseteq Members(s) /\ Members(op'[c].retarget) = {}
        /\ \A d \in Callers : d # c => /\ op'[d].saw = op[d].saw
                                       /\ op'[d].retarget = op[d].retarget
    BY <1>4, <1>5 DEF Members
  <2>. SUFFICES ASSUME NEW w \in Waiters, Fresh(w)
                PROVE  /\ \A g \in Futexes : w \notin Members(queue'[g])
                       /\ \A d \in Callers : /\ w \notin Members(op'[d].hand)
                                             /\ w \notin op'[d].saw
                                             /\ w \notin Members(op'[d].retarget)
    BY DEF FreshInv, Fresh
  <2>2. /\ \A g \in Futexes : w \notin Members(queue[g])
        /\ \A d \in Callers : /\ w \notin Members(op[d].hand) /\ w \notin op[d].saw
                              /\ w \notin Members(op[d].retarget)
    BY DEF IInv, FreshInv
  <2>. QED
    BY <1>9, <2>1, <2>2
<1>12. WhereInv'
  <2>. SUFFICES ASSUME NEW w \in Waiters, Asleep(w)
                PROVE  \/ \E g \in Futexes : w \in Members(queue'[g])
                       \/ \E d \in Callers : w \in Members(op'[d].hand)
    BY DEF WhereInv, Asleep
  <2>1. CASE \E g \in Futexes : w \in Members(queue[g])
    BY <1>2, <1>3, <1>9, <2>1
  <2>2. CASE \E d \in Callers : w \in Members(op[d].hand)
    BY <1>9, <2>2 DEF Members
  <2>. QED
    BY <2>1, <2>2 DEF IInv, WhereInv
<1>13. NoLostPublish'
  <2>. SUFFICES ASSUME NEW g \in Futexes, NEW w \in Members(queue'[g]),
                       Asleep(w), fut[w].at = g, fut[w].expect # value[g]
                PROVE  \E d \in Callers : op'[d].pc = "published" /\ op'[d].f = g
    BY DEF NoLostPublish, Asleep
  <2>1. PICK d \in Callers : op[d].pc = "published" /\ op[d].f = g
    BY <1>9 DEF IInv, NoLostPublish
  <2>2. CASE d = c
    <3>1. g = f /\ k = Cardinality(Waiters)
      BY <2>1, <2>2
    <3>2. b = <<>>
      BY <1>1, <1>2, <3>1, Bounded
    <3>. QED
      BY <1>3, <3>1, <3>2 DEF Members
  <2>3. CASE d # c
    BY <1>4, <2>1, <2>3
  <2>. QED
    BY <2>2, <2>3
<1>14. WakeIsExact'
  <2>. SUFFICES ASSUME NEW d \in Callers, op'[d].kind = "wake", Short(d)',
                       NEW w \in op'[d].saw, Asleep(w)
                PROVE  w \notin Members(queue'[op'[d].f])
    BY DEF WakeIsExact, LeftAsleep, Asleep
  <2>1. d # c
    BY <1>4 DEF Short
  <2>2. op'[d] = op[d]
    BY <1>4, <2>1
  <2>3. w \notin Members(queue[op[d].f]) /\ op[d].f \in Futexes
    <3>1. w \in LeftAsleep(d) /\ Short(d) /\ op[d].kind = "wake"
      BY <2>2 DEF LeftAsleep, Short
    <3>. QED
      BY <3>1, ShortCall DEF IInv, WakeIsExact
  <2>. QED
    BY <1>9, <2>2, <2>3
<1>. QED
  BY <1>6, <1>7, <1>8, <1>10, <1>11, <1>12, <1>13, <1>14 DEF IInv

\* The first poll: the waiter joins the queue of its futex.
LEMMA EnqueueStep ==
  ASSUME IInv, NEW w \in Waiters, Enqueue(w)
  PROVE  IInv'
<1>. DEFINE f == fut[w].futex
            s == queue[f]
<1>1. /\ f \in Futexes /\ fut[w].at = f /\ ~fut[w].woken /\ Fresh(w)
      /\ value[f] = fut[w].expect /\ fut[w] \in Futures
  BY DEF Enqueue, IInv, FutInv, FutexOK, Fresh
<1>2. s \in Seq(Waiters) /\ Distinct(s) /\ w \notin Members(s)
  BY <1>1, Held DEF IInv, FreshInv
<1>3. /\ Append(s, w) \in Seq(Waiters) /\ Distinct(Append(s, w))
      /\ Members(Append(s, w)) = Members(s) \cup {w}
  BY <1>2, Joined
<1>4. /\ queue'[f] = Append(s, w) /\ \A g \in Futexes : g # f => queue'[g] = queue[g]
      /\ queue' \in [Futexes -> Seq(Waiters)]
  BY <1>1, <1>3 DEF IInv, FutexOK, Enqueue
<1>5. /\ fut' = [fut EXCEPT ![w] = fut'[w]]
      /\ \A v \in Waiters : v # w => fut'[v] = fut[v]
      /\ fut'[w] = [pc |-> "asleep", futex |-> f, at |-> f, expect |-> fut[w].expect,
                    newOwner |-> fut[w].newOwner, woken |-> fut[w].woken,
                    waker |-> TRUE]
  BY <1>1 DEF Enqueue, IInv, FutexOK, Futures
<1>6. fut'[w] \in Futures
  BY <1>1, <1>5 DEF Futures
<1>7. UNCHANGED <<value, owner, runnable, op>>
  BY DEF Enqueue
<1>8. FutexOK' /\ OpsOK'
  BY <1>4, <1>5, <1>6, <1>7 DEF IInv, FutexOK, OpsOK
<1>9. FutInv' /\ OpInv'
  BY <1>1, <1>5, <1>7 DEF IInv, FutInv, OpInv
<1>10. OnceInv'
  BY <1>3, <1>4, <1>7 DEF IInv, OnceInv
<1>11. /\ \A g \in Futexes : Members(queue'[g]) \subseteq Members(queue[g]) \cup {w}
       /\ \A g \in Futexes : g # f => w \notin Members(queue'[g])
       /\ \A g \in Futexes : Members(queue[g]) \subseteq Members(queue'[g])
       /\ \A c \in Callers : w \notin Members(op[c].hand) /\ w \notin op[c].saw
  BY <1>1, <1>3, <1>4 DEF IInv, FreshInv
<1>12. ApartInv'
  <2>1. \A g, h \in Futexes : g # h => Apart(queue'[g], queue'[h])
    <3>. SUFFICES ASSUME NEW g \in Futexes, NEW h \in Futexes, g # h,
                         NEW v \in Members(queue'[g]), v \in Members(queue'[h])
                  PROVE  FALSE
      BY DEF Apart
    <3>1. v # w
      BY <1>11
    <3>. QED
      BY <1>11, <3>1 DEF IInv, ApartInv, Apart
  <2>2. \A g \in Futexes, c \in Callers : Apart(queue'[g], op[c].hand)
    BY <1>11 DEF IInv, ApartInv, Apart
  <2>. QED
    BY <1>7, <2>1, <2>2 DEF IInv, ApartInv
<1>13. FreshInv' /\ WhereInv'
  <2>1. FreshInv'
    BY <1>5, <1>7, <1>11 DEF IInv, FreshInv, Fresh
  <2>2. WhereInv'
    <3>1. w \in Members(queue'[f])
      BY <1>3, <1>4
    <3>2. \A v \in Waiters : v # w /\ Asleep(v)' => Asleep(v)
      BY <1>5 DEF Asleep
    <3>. QED
      BY <1>1, <1>7, <1>11, <3>1, <3>2 DEF IInv, WhereInv
  <2>. QED
    BY <2>1, <2>2
<1>14. NoLostPublish'
  <2>. SUFFICES ASSUME NEW g \in Futexes, NEW v \in Members(queue'[g]),
                       Asleep(v)', fut'[v].at = g, fut'[v].expect # value[g]
                PROVE  \E c \in Callers : op[c].pc = "published" /\ op[c].f = g
    BY <1>7 DEF NoLostPublish
  <2>1. v # w
    BY <1>1, <1>5
  <2>2. v \in Members(queue[g]) /\ v \in Waiters
    BY <1>11, <2>1, Held
  <2>. QED
    BY <1>5, <2>1, <2>2 DEF IInv, NoLostPublish, Asleep
<1>15. WakeIsExact'
  <2>. SUFFICES ASSUME NEW c \in Callers, op[c].kind = "wake", Short(c),
                       NEW v \in op[c].saw, Asleep(v)'
                PROVE  v \notin Members(queue'[op[c].f])
    BY <1>7 DEF WakeIsExact, LeftAsleep, Short
  <2>1. v # w /\ v \in Waiters /\ op[c].f \in Futexes
    BY <1>11, Held, ShortCall DEF Ops
  <2>2. v \in LeftAsleep(c)
    BY <1>5, <2>1 DEF LeftAsleep, Asleep
  <2>. QED
    BY <1>11, <2>1, <2>2 DEF IInv, WakeIsExact
<1>. QED
  BY <1>8, <1>9, <1>10, <1>12, <1>13, <1>14, <1>15 DEF IInv

\* Drop for FutexFuture: the waiter leaves the queue it believes to be in.
LEMMA CancelStep ==
  ASSUME IInv, NEW w \in Waiters, Cancel(w)
  PROVE  IInv'
<1>. DEFINE f == fut[w].futex
<1>1. f \in Futexes /\ fut[w] \in Futures /\ fut[w].pc = "expired"
  BY DEF Cancel, IInv, FutInv, FutexOK
<1>2. /\ queue' \in [Futexes -> Seq(Waiters)]
      /\ \A g \in Futexes : /\ Members(queue'[g]) \subseteq Members(queue[g])
                            /\ Members(queue[g]) \subseteq Members(queue'[g]) \cup {w}
                            /\ Distinct(queue'[g])
  <2>1. CASE fut[w].woken
    <3>1. queue' = queue
      BY <2>1 DEF Cancel
    <3>. QED
      BY <3>1, Held DEF IInv, FutexOK
  <2>2. CASE ~fut[w].woken
    <3>1. queue' = [queue EXCEPT ![f] = SwapRemove(queue[f], w)]
      BY <2>2 DEF Cancel
    <3>2. /\ SwapRemove(queue[f], w) \in Seq(Waiters)
          /\ Members(SwapRemove(queue[f], w)) = Members(queue[f]) \ {w}
          /\ Distinct(SwapRemove(queue[f], w))
      BY <1>1, Held, Removed
    <3>. QED
      BY <3>1, <3>2, Held DEF IInv, FutexOK
  <2>. QED
    BY <2>1, <2>2
<1>3. /\ fut' = [fut EXCEPT ![w] = fut'[w]]
      /\ \A v \in Waiters : v # w => fut'[v] = fut[v]
      /\ fut'[w] = [pc |-> "timed_out", futex |-> f, at |-> fut[w].at,
                    expect |-> fut[w].expect, newOwner |-> fut[w].newOwner,
                    woken |-> TRUE, waker |-> fut[w].waker]
  BY <1>1 DEF Cancel, IInv, FutexOK, Futures
<1>4. fut'[w] \in Futures
  BY <1>1, <1>3 DEF Futures
<1>5. UNCHANGED <<value, owner, runnable, op>>
  BY DEF Cancel
<1>6. \A v \in Waiters : Asleep(v)' => v # w /\ Asleep(v)
  BY <1>3 DEF Asleep
<1>7. FutexOK' /\ OpsOK'
  BY <1>2, <1>3, <1>4, <1>5 DEF IInv, FutexOK, OpsOK
<1>8. FutInv' /\ OpInv'
  BY <1>1, <1>3, <1>5 DEF IInv, FutInv, OpInv
<1>9. OnceInv' /\ ApartInv'
  BY <1>2, <1>5 DEF IInv, OnceInv, ApartInv, Apart
<1>10. FreshInv'
  BY <1>2, <1>3, <1>5 DEF IInv, FreshInv, Fresh
<1>11. WhereInv'
  BY <1>2, <1>5, <1>6 DEF IInv, WhereInv
<1>12. NoLostPublish'
  <2>1. \A g \in Futexes : Members(queue'[g]) \subseteq Waiters
    BY <1>2, Held
  <2>. QED
    BY <1>2, <1>3, <1>5, <1>6, <2>1 DEF IInv, NoLostPublish
<1>13. WakeIsExact'
  BY <1>2, <1>5, <1>6, ShortCall, Held
  DEF IInv, WakeIsExact, LeftAsleep, Short, Ops
<1>. QED
  BY <1>7, <1>8, <1>9, <1>10, <1>11, <1>12, <1>13 DEF IInv

\* Waiter::wake: the first waiter in the hand is woken, or is a tombstone.
LEMMA WakeOneStep ==
  ASSUME IInv, NEW c \in Callers, WakeOne(c)
  PROVE  IInv'
<1>. DEFINE h == op[c].hand
            w == Head(h)
            live == ~fut[w].woken
<1>1. h \in Seq(Waiters) /\ h # <<>> /\ Distinct(h) /\ op[c].pc = "run" /\ op[c] \in Ops
  BY Held DEF WakeOne, IInv, OnceInv
<1>2. /\ w \in Members(h) /\ w \in Waiters /\ Tail(h) \in Seq(Waiters)
      /\ Len(Tail(h)) = Len(h) - 1 /\ Len(h) > 0 /\ Len(h) \in Nat
      /\ Members(h) = Members(Tail(h)) \cup {w} /\ Distinct(Tail(h))
  BY <1>1, Taken, LenProperties
<1>3. /\ op' = [op EXCEPT ![c] = op'[c]]
      /\ \A d \in Callers : d # c => op'[d] = op[d]
      /\ op'[c] = [pc |-> "run", kind |-> op[c].kind, f |-> op[c].f,
                   want |-> op[c].want, n |-> IF live THEN op[c].n + 1 ELSE op[c].n,
                   hand |-> Tail(h), to |-> op[c].to, retarget |-> op[c].retarget,
                   saw |-> op[c].saw]
  BY <1>1 DEF WakeOne, IInv, OpsOK, Ops
<1>4. op'[c] \in Ops
  BY <1>1, <1>2, <1>3 DEF Ops
<1>5. UNCHANGED <<value, queue, owner>>
  BY DEF WakeOne
<1>6. /\ fut' \in [Waiters -> Futures] /\ runnable' \subseteq Waiters
      /\ \A v \in Waiters :
           /\ fut'[v].pc = fut[v].pc /\ fut'[v].futex = fut[v].futex
           /\ fut'[v].at = fut[v].at /\ fut'[v].expect = fut[v].expect
           /\ (fut'[v].waker => fut[v].waker)
           /\ (v # w => fut'[v] = fut[v])
      /\ fut'[w].woken /\ (fut'[w].waker => fut'[w] = fut[w])
  <2>1. CASE live
    <3>1. /\ fut' = [fut EXCEPT ![w] = fut'[w]] /\ fut[w] \in Futures
          /\ fut'[w] = [pc |-> fut[w].pc, futex |-> fut[w].futex, at |-> fut[w].at,
                        expect |-> fut[w].expect, newOwner |-> fut[w].newOwner,
                        woken |-> TRUE, waker |-> FALSE]
      <4>1. fut[w] \in Futures /\ fut \in [Waiters -> Futures]
        BY <1>2 DEF IInv, FutexOK
      <4>2. fut' = [fut EXCEPT ![w].woken = TRUE, ![w].waker = FALSE]
        BY <2>1 DEF WakeOne
      <4>. QED
        BY <1>2, <4>1, <4>2 DEF Futures
    <3>2. fut'[w] \in Futures
      BY <3>1 DEF Futures
    <3>3. runnable' \subseteq Waiters
      BY <1>2, <2>1 DEF WakeOne, IInv, FutexOK
    <3>4. /\ fut'[w].pc = fut[w].pc /\ fut'[w].futex = fut[w].futex
          /\ fut'[w].at = fut[w].at /\ fut'[w].expect = fut[w].expect
          /\ fut'[w].woken /\ ~fut'[w].waker
      BY <3>1
    <3>5. /\ fut' \in [Waiters -> Futures]
          /\ \A v \in Waiters : v # w => fut'[v] = fut[v]
      BY <3>1, <3>2 DEF IInv, FutexOK
    <3>. QED
      BY <3>3, <3>4, <3>5
  <2>2. CASE ~live
    BY <2>2 DEF WakeOne, IInv, FutexOK
  <2>. QED
    BY <2>1, <2>2
<1>7. \A v \in Waiters : Asleep(v)' => v # w /\ Asleep(v)
  BY <1>6 DEF Asleep
<1>8. /\ \A d \in Callers : Members(op'[d].hand) \subseteq Members(op[d].hand)
      /\ \A d \in Callers : Members(op[d].hand) \subseteq Members(op'[d].hand) \cup {w}
      /\ \A d \in Callers : op'[d].saw = op[d].saw /\ op'[d].f = op[d].f
                            /\ op'[d].pc = op[d].pc /\ op'[d].kind = op[d].kind
                            /\ op'[d].to = op[d].to /\ op'[d].want = op[d].want
                            /\ op'[d].retarget = op[d].retarget
                            /\ Distinct(op'[d].hand)
                            /\ (d # c => op'[d].n = op[d].n /\ op'[d].hand = op[d].hand)
  <2>1. /\ op'[c].hand = Tail(h) /\ op'[c].saw = op[c].saw /\ op'[c].f = op[c].f
        /\ op'[c].pc = op[c].pc /\ op'[c].kind = op[c].kind /\ op'[c].to = op[c].to
        /\ op'[c].want = op[c].want /\ op'[c].retarget = op[c].retarget
    BY <1>1, <1>3
  <2>2. \A d \in Callers : d # c => op'[d] = op[d]
    BY <1>3
  <2>. QED
    BY <1>2, <2>1, <2>2 DEF IInv, OnceInv
<1>9. FutexOK' /\ OpsOK'
  BY <1>3, <1>4, <1>5, <1>6 DEF IInv, FutexOK, OpsOK
<1>10. FutInv'
  <2>1. fut[w].pc \notin {"new", "poll", "refused"}
    BY <1>2 DEF IInv, FreshInv, Fresh
  <2>. QED
    BY <1>6, <2>1 DEF IInv, FutInv
<1>11. OpInv'
  <2>1. op[c].n \in Nat /\ op[c].n + Len(h) <= op[c].want /\ op[c].want \in Nat
    BY <1>1 DEF IInv, OpInv, Ops
  <2>2. op'[c].n + Len(op'[c].hand) <= op'[c].want
    <3>1. op'[c].n + Len(Tail(h)) <= op[c].want
      <4>1. CASE live
        BY <1>2, <1>3, <2>1, <4>1
      <4>2. CASE ~live
        <5>1. op'[c].n = op[c].n
          BY <1>3, <4>2
        <5>. QED
          BY <1>2, <2>1, <5>1
      <4>. QED
        BY <4>1, <4>2
    <3>. QED
      BY <1>3, <3>1
  <2>. QED
    BY <1>1, <1>8, <2>2 DEF IInv, OpInv
<1>12. OnceInv' /\ ApartInv'
  <2>1. OnceInv'
    BY <1>5, <1>8 DEF IInv, OnceInv
  <2>2. \A d \in Callers : Members(op'[d].hand) \subseteq Members(op[d].hand)
    BY <1>8
  <2>3. \A d, e \in Callers : d # e => Apart(op'[d].hand, op'[e].hand)
    BY <2>2 DEF IInv, ApartInv, Apart
  <2>4. \A g \in Futexes, d \in Callers : Apart(queue[g], op'[d].hand)
    BY <2>2 DEF IInv, ApartInv, Apart
  <2>. QED
    BY <1>5, <2>1, <2>3, <2>4 DEF IInv, ApartInv
<1>13. FreshInv'
  BY <1>5, <1>6, <1>8 DEF IInv, FreshInv, Fresh
<1>14. WhereInv'
  BY <1>5, <1>7, <1>8 DEF IInv, WhereInv
<1>15. NoLostPublish'
  <2>1. \A g \in Futexes : Members(queue[g]) \subseteq Waiters
    BY Held
  <2>. QED
    BY <1>5, <1>6, <1>7, <1>8, <2>1 DEF IInv, NoLostPublish
<1>16. WakeIsExact'
  <2>. SUFFICES ASSUME NEW d \in Callers, op'[d].kind = "wake", Short(d)',
                       NEW v \in op'[d].saw, Asleep(v)'
                PROVE  v \notin Members(queue[op'[d].f])
    BY <1>5 DEF WakeIsExact, LeftAsleep
  <2>1. d # c
    BY <1>3 DEF Short
  <2>2. op'[d] = op[d] /\ v \in Waiters
    BY <1>3, <2>1, Held DEF Ops
  <2>3. v \in LeftAsleep(d) /\ Short(d) /\ op[d].kind = "wake"
    BY <1>7, <2>2 DEF LeftAsleep, Short
  <2>. QED
    BY <2>2, <2>3 DEF IInv, WakeIsExact
<1>. QED
  BY <1>9, <1>10, <1>11, <1>12, <1>13, <1>14, <1>15, <1>16 DEF IInv

\* The tombstone top-up moves one waiter from the queue to an empty hand.
LEMMA TopUpStep ==
  ASSUME IInv, NEW c \in Callers, TopUp(c)
  PROVE  IInv'
<1>. DEFINE f == op[c].f
            s == queue[f]
            w == Head(s)
<1>1. /\ op[c] \in Ops /\ op[c].pc = "run" /\ f \in Futexes /\ op[c].hand = <<>>
      /\ op[c].n < op[c].want /\ s # <<>>
  BY Held DEF TopUp, IInv, OpInv
<1>2. /\ w \in Members(s) /\ w \in Waiters /\ Tail(s) \in Seq(Waiters)
      /\ Members(s) = Members(Tail(s)) \cup {w} /\ Distinct(Tail(s))
      /\ w \notin Members(Tail(s))
  BY <1>1, Held, Taken
<1>3. /\ op' = [op EXCEPT ![c] = op'[c]]
      /\ \A d \in Callers : d # c => op'[d] = op[d]
      /\ op'[c] = [pc |-> "run", kind |-> op[c].kind, f |-> f, want |-> op[c].want,
                   n |-> op[c].n, hand |-> <<w>>, to |-> op[c].to,
                   retarget |-> op[c].retarget, saw |-> op[c].saw]
  BY <1>1 DEF TopUp, IInv, OpsOK, Ops
<1>4. /\ <<w>> \in Seq(Waiters) /\ Members(<<w>>) = {w} /\ Distinct(<<w>>)
      /\ Len(<<w>>) = 1
  BY <1>2 DEF Members, Distinct
<1>5. op'[c] \in Ops
  BY <1>1, <1>3, <1>4 DEF Ops
<1>6. /\ queue'[f] = Tail(s) /\ \A g \in Futexes : g # f => queue'[g] = queue[g]
      /\ queue' \in [Futexes -> Seq(Waiters)]
  BY <1>1, <1>2 DEF TopUp, IInv, FutexOK
<1>7. UNCHANGED <<value, owner, fut, runnable>>
  BY DEF TopUp
<1>8. /\ \A g \in Futexes : Members(queue'[g]) \subseteq Members(queue[g])
      /\ \A g \in Futexes : w \notin Members(queue'[g])
      /\ \A g \in Futexes : Members(queue[g]) \subseteq Members(queue'[g]) \cup {w}
      /\ \A d \in Callers : w \notin Members(op[d].hand)
      /\ \A d \in Callers : d # c => op'[d].hand = op[d].hand
      /\ \A d \in Callers : op'[d].saw = op[d].saw
      /\ \A d \in Callers : op'[d].to = op[d].to /\ op'[d].retarget = op[d].retarget
                            /\ op'[d].f = op[d].f /\ op'[d].pc = op[d].pc
                            /\ op'[d].want = op[d].want /\ op'[d].n = op[d].n
                            /\ op'[d].kind = op[d].kind
      /\ op'[c].hand = <<w>>
  <2>1. /\ op'[c].hand = <<w>> /\ op'[c].saw = op[c].saw /\ op'[c].f = op[c].f
        /\ op'[c].pc = op[c].pc /\ op'[c].n = op[c].n /\ op'[c].to = op[c].to
        /\ op'[c].want = op[c].want /\ op'[c].retarget = op[c].retarget
        /\ op'[c].kind = op[c].kind
    BY <1>1, <1>3
  <2>2. \A d \in Callers : d # c => op'[d] = op[d]
    BY <1>3
  <2>3. /\ \A g \in Futexes : g # f => w \notin Members(queue[g])
        /\ \A d \in Callers : w \notin Members(op[d].hand)
    BY <1>1, <1>2 DEF IInv, ApartInv, Apart
  <2>4. \A g \in Futexes : /\ Members(queue'[g]) \subseteq Members(queue[g])
                            /\ w \notin Members(queue'[g])
                            /\ Members(queue[g]) \subseteq Members(queue'[g]) \cup {w}
    BY <1>2, <1>6, <2>3
  <2>. QED
    BY <2>1, <2>2, <2>3, <2>4
<1>9. FutexOK' /\ OpsOK'
  BY <1>3, <1>5, <1>6, <1>7 DEF IInv, FutexOK, OpsOK
<1>10. FutInv' /\ OpInv'
  <2>1. op[c].n \in Nat /\ op[c].want \in Nat
    BY <1>1 DEF Ops
  <2>2. op'[c].n + Len(op'[c].hand) <= op'[c].want
    BY <1>1, <1>3, <1>4, <2>1
  <2>3. FutInv'
    BY <1>7 DEF IInv, FutInv
  <2>4. ASSUME NEW d \in Callers
        PROVE  /\ op'[d].pc \in {"idle", "published"} =>
                    op'[d].hand = <<>> /\ op'[d].want = 0 /\ op'[d].n = 0
                    /\ op'[d].kind = "wake"
               /\ op'[d].n + Len(op'[d].hand) <= op'[d].want
    <3>1. CASE d = c
      <4>1. op'[c].pc = "run"
        BY <1>3
      <4>. QED
        BY <2>2, <3>1, <4>1
    <3>2. CASE d # c
      <4>1. op'[d] = op[d]
        BY <1>3, <3>2
      <4>. QED
        BY <4>1 DEF IInv, OpInv
    <3>. QED
      BY <3>1, <3>2
  <2>. QED
    BY <1>8, <2>3, <2>4 DEF IInv, OpInv
<1>11. OnceInv'
  BY <1>2, <1>4, <1>6, <1>8 DEF IInv, OnceInv
<1>12. ApartInv'
  <2>1. \A g, h \in Futexes : g # h => Apart(queue'[g], queue'[h])
    BY <1>8 DEF IInv, ApartInv, Apart
  <2>2. \A d, e \in Callers : d # e => Apart(op'[d].hand, op'[e].hand)
    BY <1>4, <1>8 DEF IInv, ApartInv, Apart
  <2>3. \A g \in Futexes, d \in Callers : Apart(queue'[g], op'[d].hand)
    BY <1>4, <1>8 DEF IInv, ApartInv, Apart
  <2>. QED
    BY <2>1, <2>2, <2>3 DEF ApartInv
<1>13. FreshInv'
  <2>1. ~Fresh(w)
    BY <1>1, <1>2 DEF IInv, FreshInv
  <2>. QED
    BY <1>4, <1>7, <1>8, <2>1 DEF IInv, FreshInv, Fresh
<1>14. WhereInv'
  <2>. SUFFICES ASSUME NEW v \in Waiters, Asleep(v), v # w
                PROVE  \/ \E g \in Futexes : v \in Members(queue'[g])
                       \/ \E d \in Callers : v \in Members(op'[d].hand)
    BY <1>4, <1>7, <1>8 DEF WhereInv, Asleep
  <2>1. CASE \E g \in Futexes : v \in Members(queue[g])
    BY <1>8, <2>1
  <2>2. CASE \E d \in Callers : v \in Members(op[d].hand)
    BY <1>1, <1>8, <2>2 DEF Members
  <2>. QED
    BY <2>1, <2>2 DEF IInv, WhereInv
<1>15. NoLostPublish'
  BY <1>1, <1>3, <1>7, <1>8 DEF IInv, NoLostPublish, Asleep
<1>16. WakeIsExact'
  <2>. SUFFICES ASSUME NEW d \in Callers, op'[d].kind = "wake", Short(d)',
                       NEW v \in op'[d].saw, Asleep(v)
                PROVE  v \notin Members(queue'[op'[d].f])
    BY <1>7 DEF WakeIsExact, LeftAsleep, Asleep
  <2>1. d # c
    BY <1>3 DEF Short
  <2>2. op'[d] = op[d]
    BY <1>3, <2>1
  <2>3. v \in LeftAsleep(d) /\ Short(d) /\ op[d].kind = "wake" /\ op[d].f \in Futexes
    BY <2>2, ShortCall DEF LeftAsleep, Short
  <2>. QED
    BY <1>8, <2>2, <2>3 DEF IInv, WakeIsExact
<1>. QED
  BY <1>9, <1>10, <1>11, <1>12, <1>13, <1>14, <1>15, <1>16 DEF IInv

\* requeue: the first waiters go to the hand, the next ones to the other
\* queue, in one step because both queue locks are held.
LEMMA RequeueStep ==
  ASSUME IInv, NEW c \in Callers, NEW f \in Futexes, NEW g \in Futexes,
         NEW k \in Nat, NEW r \in Nat, NEW o \in Owners, Requeue(c, f, g, k, r, o)
  PROVE  IInv'
<1>. DEFINE s == queue[f]
            a == Front(s, k)
            b == Rest(s, k)
            m == Front(b, r)
            z == Rest(b, r)
<1>1. /\ f # g /\ op[c].pc = "idle" /\ op[c].hand = <<>>
      /\ queue[g] \in Seq(Waiters) /\ Distinct(queue[g]) /\ Apart(s, queue[g])
  BY Held DEF Requeue, IInv, OpInv, ApartInv
<1>2. /\ s \in Seq(Waiters) /\ a \in Seq(Waiters) /\ b \in Seq(Waiters)
      /\ Len(a) <= k /\ Len(a) \in Nat
      /\ Members(s) = Members(a) \cup Members(b)
      /\ Distinct(a) /\ Distinct(b) /\ Apart(a, b)
  BY Held, Cut, LenProperties
<1>3. /\ m \in Seq(Waiters) /\ z \in Seq(Waiters)
      /\ Members(b) = Members(m) \cup Members(z)
      /\ Distinct(m) /\ Distinct(z) /\ Apart(m, z)
  <2>. HIDE DEF b
  <2>. QED
    BY <1>2, Cut
<1>4. /\ queue[g] \o m \in Seq(Waiters) /\ Distinct(queue[g] \o m)
      /\ Members(queue[g] \o m) = Members(queue[g]) \cup Members(m)
  <2>1. Apart(queue[g], m)
    BY <1>1, <1>2, <1>3 DEF Apart
  <2>. HIDE DEF m
  <2>. QED
    BY <1>1, <1>3, <2>1, JoinedAll
<1>5. /\ queue'[f] = z /\ queue'[g] = queue[g] \o m
      /\ \A x \in Futexes : x # f /\ x # g => queue'[x] = queue[x]
      /\ queue' \in [Futexes -> Seq(Waiters)]
  <2>1. queue' = [queue EXCEPT ![f] = z, ![g] = queue[g] \o m]
    BY <1>1 DEF Requeue, IInv, FutexOK
  <2>. HIDE DEF z, m
  <2>. QED
    BY <1>1, <1>3, <1>4, <2>1 DEF IInv, FutexOK
<1>6. /\ op'[c] = [pc |-> "run", kind |-> "requeue", f |-> f, want |-> k, n |-> 0,
                   hand |-> a, to |-> g, retarget |-> m, saw |-> Sleepers(f)]
      /\ \A d \in Callers : d # c =>
           op'[d] = [pc |-> op[d].pc, kind |-> op[d].kind, f |-> op[d].f,
                     want |-> op[d].want, n |-> op[d].n, hand |-> op[d].hand,
                     to |-> op[d].to, retarget |-> op[d].retarget,
                     saw |-> op[d].saw \ Members(m)]
      /\ op' = [d \in Callers |-> op'[d]]
  <2>1. op' = [Unseen(m) EXCEPT ![c] = [Begin("requeue", f, k) EXCEPT
                 !.hand = a, !.to = g, !.retarget = m]]
    BY DEF Requeue
  <2>. HIDE DEF a, m
  <2>2. Unseen(m) = [d \in Callers |-> [op[d] EXCEPT !.saw = op[d].saw \ Members(m)]]
    BY DEF Unseen
  <2>3. op'[c] = [pc |-> "run", kind |-> "requeue", f |-> f, want |-> k, n |-> 0,
                  hand |-> a, to |-> g, retarget |-> m, saw |-> Sleepers(f)]
    BY <2>1, <2>2 DEF Begin, NewOp
  <2>4. ASSUME NEW d \in Callers, d # c
        PROVE  op'[d] = [pc |-> op[d].pc, kind |-> op[d].kind, f |-> op[d].f,
                         want |-> op[d].want, n |-> op[d].n, hand |-> op[d].hand,
                         to |-> op[d].to, retarget |-> op[d].retarget,
                         saw |-> op[d].saw \ Members(m)]
    <3>1. op'[d] = [op[d] EXCEPT !.saw = op[d].saw \ Members(m)] /\ op[d] \in Ops
      BY <2>1, <2>2, <2>4, Held
    <3>. QED
      BY <3>1 DEF Ops
  <2>. QED
    BY <2>1, <2>2, <2>3, <2>4
<1>7. /\ op'[c].pc = "run" /\ op'[c].kind = "requeue" /\ op'[c].f = f /\ op'[c].want = k
      /\ op'[c].n = 0 /\ op'[c].hand = a /\ op'[c].to = g
      /\ op'[c].saw = Sleepers(f) /\ op'[c].retarget = m
  BY <1>6
<1>8. \A d \in Callers : d # c =>
        /\ op'[d].pc = op[d].pc /\ op'[d].kind = op[d].kind /\ op'[d].f = op[d].f
        /\ op'[d].want = op[d].want /\ op'[d].n = op[d].n /\ op'[d].hand = op[d].hand
        /\ op'[d].to = op[d].to /\ op'[d].retarget = op[d].retarget
        /\ op'[d].saw = op[d].saw \ Members(m)
  BY <1>6
<1>9. /\ fut' \in [Waiters -> Futures]
      /\ \A w \in Waiters :
           /\ fut'[w].pc = fut[w].pc /\ fut'[w].futex = fut[w].futex
           /\ fut'[w].expect = fut[w].expect /\ fut'[w].woken = fut[w].woken
           /\ fut'[w].waker = fut[w].waker
           /\ (w \in Members(m) => fut'[w].at = None)
           /\ (w \notin Members(m) => fut'[w].at = fut[w].at)
           /\ (fut[w].pc = "poll" => fut'[w].at = fut[w].at)
  <2>1. ASSUME NEW w \in Waiters
        PROVE  /\ fut'[w] = IF w \in Members(m)
                            THEN [pc |-> fut[w].pc, futex |-> fut[w].futex,
                                  at |-> None, expect |-> fut[w].expect,
                                  newOwner |-> fut[w].newOwner,
                                  woken |-> fut[w].woken, waker |-> fut[w].waker]
                            ELSE fut[w]
               /\ fut[w] \in Futures
    BY DEF Requeue, Displaced, IInv, FutexOK, Futures
  <2>2. \A w \in Waiters : fut'[w] \in Futures
    <3>. SUFFICES ASSUME NEW w \in Waiters PROVE fut'[w] \in Futures
      OBVIOUS
    <3>. HIDE DEF m
    <3>1. CASE w \in Members(m)
      <4>1. /\ fut[w] \in Futures
            /\ fut'[w] = [pc |-> fut[w].pc, futex |-> fut[w].futex, at |-> None,
                          expect |-> fut[w].expect, newOwner |-> fut[w].newOwner,
                          woken |-> fut[w].woken, waker |-> fut[w].waker]
        BY <2>1, <3>1
      <4>. QED
        BY <4>1 DEF Futures
    <3>2. CASE w \notin Members(m)
      BY <2>1, <3>2
    <3>. QED
      BY <3>1, <3>2
  <2>3. fut' = [w \in Waiters |-> fut'[w]]
    BY DEF Requeue, Displaced
  <2>4. \A w \in Members(m) : fut[w].pc # "poll"
    <3>1. Members(m) \subseteq Members(s) /\ Members(s) \subseteq Waiters
      BY <1>2, <1>3, Held
    <3>. QED
      BY <3>1 DEF IInv, FreshInv, Fresh
  <2>. QED
    BY <2>1, <2>2, <2>3, <2>4
<1>10. \A w \in Waiters : (Asleep(w)' <=> Asleep(w)) /\ (Fresh(w)' <=> Fresh(w))
  BY <1>9 DEF Asleep, Fresh
<1>11. /\ \A x \in Futexes : x # g => Members(queue'[x]) \subseteq Members(queue[x])
       /\ Members(queue'[g]) = Members(queue[g]) \cup Members(m)
       /\ Members(queue'[f]) = Members(z)
       /\ Members(m) \subseteq Members(s) /\ Members(a) \subseteq Members(s)
       /\ Members(s) \subseteq Waiters /\ Sleepers(f) \subseteq Members(s)
       /\ \A x \in Futexes : x # f => Members(queue[x]) \subseteq Members(queue'[x])
  BY <1>2, <1>3, <1>4, <1>5, Held DEF Sleepers
<1>12. FutexOK'
  BY <1>5, <1>9 DEF Requeue, IInv, FutexOK, Owners
<1>13. OpsOK'
  <2>1. op'[c] \in Ops
    BY <1>2, <1>3, <1>6, <1>11 DEF Ops
  <2>2. \A d \in Callers : d # c => op'[d] \in Ops
    <3>. SUFFICES ASSUME NEW d \in Callers, d # c PROVE op'[d] \in Ops
      OBVIOUS
    <3>1. op[d] \in Ops
      BY Held
    <3>. HIDE DEF m
    <3>. QED
      BY <1>6, <3>1 DEF Ops
  <2>. QED
    BY <1>6, <2>1, <2>2 DEF OpsOK
<1>14. FutInv' /\ OpInv'
  <2>1. FutInv'
    BY <1>9 DEF IInv, FutInv
  <2>. QED
    BY <1>2, <1>7, <1>8, <2>1 DEF IInv, OpInv
<1>15. OnceInv'
  <2>1. Distinct(queue'[f]) /\ Distinct(queue'[g])
    BY <1>3, <1>4, <1>5
  <2>2. \A x \in Futexes : x # f /\ x # g => Distinct(queue'[x])
    BY <1>5 DEF IInv, OnceInv
  <2>3. \A d \in Callers : Distinct(op'[d].hand)
    BY <1>2, <1>7, <1>8 DEF IInv, OnceInv
  <2>. QED
    BY <2>1, <2>2, <2>3 DEF OnceInv
<1>16. ApartInv'
  <2>1. \A x \in Futexes : x # f => Apart(s, queue[x])
    BY DEF IInv, ApartInv
  <2>2. \A d \in Callers : Apart(s, op[d].hand)
    BY DEF IInv, ApartInv
  <2>3. \A x, y \in Futexes : x # y => Apart(queue'[x], queue'[y])
    <3>1. ASSUME NEW x \in Futexes, x # g PROVE Apart(queue'[x], queue'[g])
      <4>1. CASE x = f
        BY <1>1, <1>2, <1>3, <1>11, <4>1 DEF Apart
      <4>2. CASE x # f
        BY <1>11, <2>1, <3>1, <4>2 DEF IInv, ApartInv, Apart
      <4>. QED
        BY <4>1, <4>2
    <3>2. ASSUME NEW x \in Futexes, NEW y \in Futexes, x # y, x # g, y # g
          PROVE  Apart(queue'[x], queue'[y])
      BY <1>11, <3>2 DEF IInv, ApartInv, Apart
    <3>. QED
      BY <3>1, <3>2 DEF Apart
  <2>4. \A d, e \in Callers : d # e => Apart(op'[d].hand, op'[e].hand)
    BY <1>7, <1>8, <1>11, <2>2 DEF IInv, ApartInv, Apart
  <2>5. ASSUME NEW x \in Futexes, NEW d \in Callers
        PROVE  Apart(queue'[x], op'[d].hand)
    <3>1. CASE d = c
      <4>1. Apart(z, a) /\ Apart(m, a) /\ Apart(queue[g], a)
        BY <1>1, <1>2, <1>3 DEF Apart
      <4>2. x # f => Apart(queue[x], a)
        BY <1>11, <2>1 DEF Apart
      <4>. QED
        BY <1>7, <1>11, <3>1, <4>1, <4>2 DEF Apart
    <3>2. CASE d # c
      BY <1>8, <1>11, <2>2, <3>2 DEF IInv, ApartInv, Apart
    <3>. QED
      BY <3>1, <3>2
  <2>. QED
    BY <2>3, <2>4, <2>5 DEF ApartInv
<1>17. FreshInv'
  <2>. SUFFICES ASSUME NEW w \in Waiters, Fresh(w)
                PROVE  /\ \A x \in Futexes : w \notin Members(queue'[x])
                       /\ \A d \in Callers : /\ w \notin Members(op'[d].hand)
                                             /\ w \notin op'[d].saw
                                             /\ w \notin Members(op'[d].retarget)
    BY <1>10 DEF FreshInv
  <2>1. /\ \A x \in Futexes : w \notin Members(queue[x])
        /\ \A d \in Callers : /\ w \notin Members(op[d].hand) /\ w \notin op[d].saw
                              /\ w \notin Members(op[d].retarget)
    BY DEF IInv, FreshInv
  <2>. QED
    BY <1>7, <1>8, <1>11, <2>1
<1>18. WhereInv'
  <2>. SUFFICES ASSUME NEW w \in Waiters, Asleep(w)
                PROVE  \/ \E x \in Futexes : w \in Members(queue'[x])
                       \/ \E d \in Callers : w \in Members(op'[d].hand)
    BY <1>10 DEF WhereInv
  <2>1. CASE w \in Members(s)
    BY <1>2, <1>3, <1>7, <1>11, <2>1
  <2>2. CASE \E x \in Futexes : x # f /\ w \in Members(queue[x])
    BY <1>11, <2>2
  <2>3. CASE \E d \in Callers : w \in Members(op[d].hand)
    BY <1>1, <1>8, <2>3 DEF Members
  <2>. QED
    BY <2>1, <2>2, <2>3 DEF IInv, WhereInv
<1>19. NoLostPublish'
  <2>. SUFFICES ASSUME NEW x \in Futexes, NEW w \in Members(queue'[x]),
                       Asleep(w)', fut'[w].at = x, fut'[w].expect # value[x]
                PROVE  \E d \in Callers : op'[d].pc = "published" /\ op'[d].f = x
    BY DEF NoLostPublish, Requeue
  <2>1. w \in Waiters /\ w \notin Members(m)
    <3>1. w \in Waiters
      BY <1>11, Held
    <3>. QED
      BY <1>9, <3>1, FutexAssumption
  <2>2. w \in Members(queue[x]) /\ Asleep(w) /\ fut[w].at = x /\ fut[w].expect # value[x]
    BY <1>9, <1>10, <1>11, <2>1
  <2>3. PICK d \in Callers : op[d].pc = "published" /\ op[d].f = x
    BY <2>2 DEF IInv, NoLostPublish
  <2>. QED
    BY <1>1, <1>8, <2>3
<1>20. WakeIsExact'
  <2>. SUFFICES ASSUME NEW d \in Callers, op'[d].kind = "wake", Short(d)',
                       NEW w \in op'[d].saw, Asleep(w)'
                PROVE  w \notin Members(queue'[op'[d].f])
    BY DEF WakeIsExact, LeftAsleep
  <2>1. d # c
    BY <1>7
  <2>2. /\ w \in op[d].saw /\ w \in Waiters /\ w \notin Members(m)
        /\ Short(d) /\ op[d].kind = "wake" /\ op'[d].f = op[d].f
    BY <1>8, <2>1, Held DEF Short, Ops
  <2>3. w \in LeftAsleep(d) /\ op[d].f \in Futexes
    BY <1>10, <2>2, ShortCall DEF LeftAsleep
  <2>. QED
    BY <1>11, <2>2, <2>3 DEF IInv, WakeIsExact
<1>. QED
  BY <1>12, <1>13, <1>14, <1>15, <1>16, <1>17, <1>18, <1>19, <1>20 DEF IInv

-----------------------------------------------------------------------------
(* The steps that move nobody                                                *)

\* Steps of one future: its call, its refusal, its last polls, a retargeting.
LEMMA FutureStep ==
  ASSUME IInv, NEW w \in Waiters, UNCHANGED <<value, queue>>,
         owner' \in [Futexes -> Owners], runnable' \subseteq Waiters,
         fut' = [fut EXCEPT ![w] = fut'[w]], fut'[w] \in Futures,
         fut'[w].pc # "new" => fut'[w].futex \in Futexes,
         fut'[w].pc = "poll" => fut'[w].at = fut'[w].futex,
         fut'[w].waker => fut'[w].pc \in {"asleep", "expired", "timed_out"},
         fut'[w].woken => ~Fresh(w)',
         fut'[w].woken /\ fut'[w].waker => fut'[w].pc = "timed_out",
         Asleep(w)' => /\ Asleep(w) /\ fut'[w].at = fut[w].at
                       /\ fut'[w].expect = fut[w].expect,
         Fresh(w)' => Fresh(w),
         OpsOK', OpInv',
         \A c \in Callers :
           /\ op'[c].pc = op[c].pc /\ op'[c].kind = op[c].kind /\ op'[c].f = op[c].f
           /\ op'[c].n = op[c].n /\ op'[c].want = op[c].want
           /\ op'[c].hand = op[c].hand /\ op'[c].saw = op[c].saw
           /\ Members(op'[c].retarget) \subseteq Members(op[c].retarget)
  PROVE  IInv'
<1>1. \A v \in Waiters : v # w => fut'[v] = fut[v]
  BY DEF IInv, FutexOK
<1>2. \A v \in Waiters : Asleep(v)' => /\ Asleep(v) /\ fut'[v].at = fut[v].at
                                       /\ fut'[v].expect = fut[v].expect
  BY <1>1 DEF Asleep
<1>3. \A v \in Waiters : Fresh(v)' => Fresh(v)
  BY <1>1 DEF Fresh
<1>4. FutexOK'
  BY DEF IInv, FutexOK
<1>5. FutInv'
  BY <1>1 DEF IInv, FutInv, Fresh
<1>6. OnceInv' /\ ApartInv'
  BY DEF IInv, OnceInv, ApartInv
<1>7. FreshInv'
  BY <1>3 DEF IInv, FreshInv
<1>8. WhereInv'
  BY <1>2 DEF IInv, WhereInv
<1>9. NoLostPublish'
  <2>1. \A f \in Futexes : Members(queue[f]) \subseteq Waiters
    BY Held
  <2>. QED
    BY <1>2, <2>1 DEF IInv, NoLostPublish
<1>10. WakeIsExact'
  <2>1. \A c \in Callers : op[c].saw \subseteq Waiters
    BY Held DEF Ops
  <2>. QED
    BY <1>2, <2>1 DEF IInv, WakeIsExact, LeftAsleep, Short
<1>. QED
  BY <1>4, <1>5, <1>6, <1>7, <1>8, <1>9, <1>10 DEF IInv

\* wait_with_owner: a new future, which is nowhere yet.
LEMMA CallStep ==
  ASSUME IInv, NEW w \in Waiters, NEW f \in Futexes, NEW v \in 0 .. MaxValue,
         NEW o \in NewOwners, Call(w, f, v, o)
  PROVE  IInv'
<1>1. /\ fut'[w] = [pc |-> "poll", futex |-> f, at |-> f, expect |-> v, newOwner |-> o,
                    woken |-> FALSE, waker |-> FALSE]
      /\ fut' = [fut EXCEPT ![w] = fut'[w]] /\ Fresh(w)
  BY DEF Call, NewFuture, IInv, FutexOK, Fresh
<1>2. o \in Owners /\ v \in Nat
  BY FutexAssumption DEF Owners
<1>3. fut'[w] \in Futures
  BY <1>1, <1>2 DEF Futures
<1>4. UNCHANGED <<value, queue, owner, runnable, op>>
  BY DEF Call
<1>5. OpsOK' /\ OpInv' /\ owner' \in [Futexes -> Owners] /\ runnable' \subseteq Waiters
  BY <1>4 DEF IInv, FutexOK, OpsOK, OpInv
<1>6. ~Asleep(w)' /\ fut'[w].pc = "poll" /\ fut'[w].futex = f /\ fut'[w].at = f
      /\ ~fut'[w].woken /\ ~fut'[w].waker
  BY <1>1 DEF Asleep
<1>. QED
  BY <1>1, <1>3, <1>4, <1>5, <1>6, FutureStep

\* The polls that end a wait, and the deadline.
LEMMA PollStep ==
  ASSUME IInv, NEW w \in Waiters, Refuse(w) \/ PollWoken(w) \/ Expire(w)
  PROVE  IInv'
<1>1. fut[w] \in Futures
  BY DEF IInv, FutexOK
<1>2. /\ fut' = [fut EXCEPT ![w] = fut'[w]]
      /\ fut'[w] = [pc |-> fut'[w].pc, futex |-> fut[w].futex, at |-> fut[w].at,
                    expect |-> fut[w].expect, newOwner |-> fut[w].newOwner,
                    woken |-> fut[w].woken, waker |-> fut[w].waker]
  <2>1. CASE Refuse(w)
    BY <1>1, <2>1 DEF Refuse, IInv, FutexOK, Futures
  <2>2. CASE PollWoken(w)
    BY <1>1, <2>2 DEF PollWoken, IInv, FutexOK, Futures
  <2>3. CASE Expire(w)
    BY <1>1, <2>3 DEF Expire, IInv, FutexOK, Futures
  <2>. QED
    BY <2>1, <2>2, <2>3
<1>3. \/ fut[w].pc = "poll" /\ fut'[w].pc = "refused"
      \/ fut[w].pc = "asleep" /\ fut[w].woken /\ fut'[w].pc = "ok"
      \/ fut[w].pc = "asleep" /\ ~fut[w].woken /\ fut'[w].pc = "expired"
  BY <1>1 DEF Refuse, PollWoken, Expire, IInv, FutexOK, Futures
<1>4. fut'[w] \in Futures
  BY <1>1, <1>2, <1>3 DEF Futures
<1>5. fut[w].futex \in Futexes /\ fut[w].newOwner \in Owners
  BY <1>1, <1>3 DEF IInv, FutInv, Futures
<1>6. /\ UNCHANGED <<value, queue, op>> /\ runnable' \subseteq Waiters
      /\ owner' \in [Futexes -> Owners]
  BY <1>5 DEF Refuse, PollWoken, Expire, IInv, FutexOK
<1>7. OpsOK' /\ OpInv'
  BY <1>6 DEF IInv, OpsOK, OpInv
<1>8. /\ fut'[w].futex = fut[w].futex /\ fut'[w].at = fut[w].at
      /\ fut'[w].expect = fut[w].expect /\ fut'[w].woken = fut[w].woken
      /\ fut'[w].waker = fut[w].waker
  BY <1>2
<1>9. fut'[w].waker => fut'[w].pc \in {"asleep", "expired", "timed_out"}
  BY <1>3, <1>8 DEF IInv, FutInv
<1>. QED
  BY <1>2, <1>3, <1>4, <1>5, <1>6, <1>7, <1>8, <1>9, FutureStep
  DEF Asleep, Fresh, IInv, FutInv

\* reset_futex: a future learns where a requeue has put it.
LEMMA RetargetStep ==
  ASSUME IInv, NEW c \in Callers, Retarget(c)
  PROVE  IInv'
<1>. DEFINE t == op[c].retarget
<1>1. /\ op[c] \in Ops /\ t \in Seq(Waiters) /\ t # <<>> /\ op[c].to \in Futexes
      /\ op[c].pc = "run"
  BY Held DEF Retarget, IInv, OpInv, Ops
<1>2. /\ Tail(t) \in Seq(Waiters) /\ Head(t) \in Waiters /\ Head(t) \in Members(t)
      /\ Members(Tail(t)) \subseteq Members(t)
  BY <1>1, Taken
<1>w. PICK w \in Waiters : w = Head(t) /\ w \in Members(t)
  BY <1>2
<1>3. /\ op' = [op EXCEPT ![c] = op'[c]]
      /\ \A d \in Callers : d # c => op'[d] = op[d]
      /\ op'[c] = [pc |-> "run", kind |-> op[c].kind, f |-> op[c].f,
                   want |-> op[c].want, n |-> op[c].n, hand |-> op[c].hand,
                   to |-> op[c].to, retarget |-> Tail(t), saw |-> op[c].saw]
  BY <1>1 DEF Retarget, IInv, OpsOK, Ops
<1>4. op'[c] \in Ops
  BY <1>1, <1>2, <1>3 DEF Ops
<1>5. /\ op'[c].pc = op[c].pc /\ op'[c].kind = op[c].kind /\ op'[c].f = op[c].f
      /\ op'[c].n = op[c].n /\ op'[c].want = op[c].want /\ op'[c].to = op[c].to
      /\ op'[c].hand = op[c].hand /\ op'[c].saw = op[c].saw
  BY <1>1, <1>3
<1>6. OpsOK' /\ OpInv'
  <2>1. OpsOK'
    BY <1>3, <1>4 DEF IInv, OpsOK
  <2>2. \A d \in Callers : op'[d].retarget # <<>> => op'[d].to \in Futexes
    BY <1>1, <1>3, <1>5 DEF IInv, OpInv
  <2>. QED
    BY <1>3, <1>5, <2>1, <2>2 DEF IInv, OpInv
<1>7. /\ fut[w] \in Futures /\ fut' = [fut EXCEPT ![w] = fut'[w]]
      /\ fut'[w] = [pc |-> fut[w].pc, futex |-> op[c].to, at |-> fut[w].at,
                    expect |-> fut[w].expect, newOwner |-> fut[w].newOwner,
                    woken |-> fut[w].woken, waker |-> fut[w].waker]
  <2>1. fut' = [fut EXCEPT ![w].futex = op[c].to]
    BY <1>w DEF Retarget
  <2>. QED
    BY <2>1 DEF IInv, FutexOK, Futures
<1>8. /\ fut'[w] \in Futures /\ fut'[w].futex = op[c].to /\ fut'[w].pc = fut[w].pc
      /\ fut'[w].at = fut[w].at /\ fut'[w].expect = fut[w].expect
      /\ fut'[w].woken = fut[w].woken /\ fut'[w].waker = fut[w].waker
  BY <1>1, <1>7 DEF Futures
<1>9. fut[w].pc # "poll"
  BY <1>w DEF IInv, FreshInv, Fresh
<1>10. /\ UNCHANGED <<value, queue>> /\ owner' \in [Futexes -> Owners]
       /\ runnable' \subseteq Waiters
  BY DEF Retarget, IInv, FutexOK
<1>11. \A d \in Callers :
         /\ op'[d].pc = op[d].pc /\ op'[d].kind = op[d].kind /\ op'[d].f = op[d].f
         /\ op'[d].n = op[d].n /\ op'[d].want = op[d].want
         /\ op'[d].hand = op[d].hand /\ op'[d].saw = op[d].saw
         /\ Members(op'[d].retarget) \subseteq Members(op[d].retarget)
  <2>1. op'[c].retarget = Tail(t)
    BY <1>3
  <2>. QED
    BY <1>2, <1>3, <1>5, <2>1
<1>12. (Asleep(w)' <=> Asleep(w)) /\ (Fresh(w)' <=> Fresh(w))
  BY <1>8 DEF Asleep, Fresh
<1>13. /\ fut'[w].waker => fut'[w].pc \in {"asleep", "expired", "timed_out"}
       /\ fut'[w].woken => ~Fresh(w)'
       /\ fut'[w].woken /\ fut'[w].waker => fut'[w].pc = "timed_out"
  BY <1>8, <1>12 DEF IInv, FutInv, Fresh
<1>. QED
  BY <1>1, <1>6, <1>7, <1>8, <1>9, <1>10, <1>11, <1>12, <1>13, FutureStep

\* Steps of one call that move nobody: a publication, a return, a refusal.
LEMMA CallerStepQuiet ==
  ASSUME IInv, NEW c \in Callers, UNCHANGED <<queue, owner, fut, runnable>>,
         value' \in [Futexes -> 0 .. MaxValue],
         op' = [op EXCEPT ![c] = op'[c]], op'[c] \in Ops, OpInv',
         op'[c].hand = op[c].hand, op'[c].saw \subseteq op[c].saw,
         Members(op'[c].retarget) \subseteq Members(op[c].retarget),
         NoLostPublish',
         op'[c].kind = "wake" /\ Short(c)' => queue[op'[c].f] = <<>>
  PROVE  IInv'
<1>1. \A d \in Callers : d # c => op'[d] = op[d]
  BY DEF IInv, OpsOK
<1>2. FutexOK' /\ OpsOK' /\ FutInv'
  BY DEF IInv, FutexOK, OpsOK, FutInv
<1>3. \A d \in Callers : /\ op'[d].hand = op[d].hand /\ op'[d].saw \subseteq op[d].saw
                         /\ Members(op'[d].retarget) \subseteq Members(op[d].retarget)
  BY <1>1
<1>4. OnceInv' /\ ApartInv'
  BY <1>3 DEF IInv, OnceInv, ApartInv
<1>5. FreshInv'
  BY <1>3 DEF IInv, FreshInv, Fresh
<1>6. WhereInv'
  BY <1>3 DEF IInv, WhereInv, Asleep
<1>7. WakeIsExact'
  <2>. SUFFICES ASSUME NEW d \in Callers, op'[d].kind = "wake", Short(d)',
                       NEW w \in op'[d].saw, Asleep(w)
                PROVE  w \notin Members(queue[op'[d].f])
    BY DEF WakeIsExact, LeftAsleep, Asleep
  <2>1. CASE d = c
    BY <2>1 DEF Members
  <2>2. CASE d # c
    <3>1. op'[d] = op[d]
      BY <1>1, <2>2
    <3>. QED
      BY <3>1 DEF IInv, WakeIsExact, LeftAsleep, Short
  <2>. QED
    BY <2>1, <2>2
<1>. QED
  BY <1>2, <1>4, <1>5, <1>6, <1>7 DEF IInv

\* User space stores a new value; its wake is now due.
LEMMA PublishStep ==
  ASSUME IInv, NEW c \in Callers, NEW f \in Futexes, Publish(c, f)
  PROVE  IInv'
<1>1. /\ op[c].pc = "idle" /\ op[c] \in Ops /\ op[c].hand = <<>>
      /\ UNCHANGED <<queue, owner, fut, runnable>>
  BY Held DEF Publish, IInv, OpInv
<1>2. /\ op' = [op EXCEPT ![c] = op'[c]]
      /\ \A d \in Callers : d # c => op'[d] = op[d]
      /\ op'[c] = [pc |-> "published", kind |-> "wake", f |-> f, want |-> 0, n |-> 0,
                   hand |-> <<>>, to |-> None, retarget |-> <<>>, saw |-> {}]
  BY DEF Publish, NewOp, IInv, OpsOK
<1>3. op'[c] \in Ops
  <2>1. <<>> \in Seq(Waiters)
    BY EmptySeq
  <2>. QED
    BY <1>2, <2>1 DEF Ops
<1>4. /\ op'[c].pc = "published" /\ op'[c].kind = "wake" /\ op'[c].f = f
      /\ op'[c].want = 0 /\ op'[c].n = 0 /\ op'[c].hand = <<>>
      /\ op'[c].retarget = <<>> /\ op'[c].saw = {}
  BY <1>2
<1>5. Len(<<>>) = 0
  BY EmptySeq
<1>6. OpInv'
  BY <1>2, <1>4, <1>5 DEF IInv, OpInv
<1>7. /\ value' \in [Futexes -> 0 .. MaxValue]
      /\ \A g \in Futexes : g # f => value'[g] = value[g]
  BY FutexAssumption DEF Publish, IInv, FutexOK
<1>8. NoLostPublish'
  <2>. SUFFICES ASSUME NEW g \in Futexes, NEW w \in Members(queue[g]), Asleep(w),
                       fut[w].at = g, fut[w].expect # value'[g]
                PROVE  \E d \in Callers : op'[d].pc = "published" /\ op'[d].f = g
    BY <1>1 DEF NoLostPublish, Asleep
  <2>1. CASE g = f
    BY <1>4, <2>1
  <2>2. CASE g # f
    <3>1. PICK d \in Callers : op[d].pc = "published" /\ op[d].f = g
      BY <1>7, <2>2 DEF IInv, NoLostPublish
    <3>. QED
      BY <1>1, <1>2, <3>1
  <2>. QED
    BY <2>1, <2>2
<1>9. ~Short(c)'
  BY <1>4 DEF Short
<1>. QED
  BY <1>1, <1>2, <1>3, <1>4, <1>6, <1>7, <1>8, <1>9, CallerStepQuiet DEF Members

\* The call returns; or requeue finds that the word has changed.
LEMMA ReturnStep ==
  ASSUME IInv, NEW c \in Callers,
         Return(c) \/ \E f \in Futexes, v \in 0 .. MaxValue : RequeueBadState(c, f, v)
  PROVE  IInv'
<1>1. /\ op[c] \in Ops /\ UNCHANGED <<value, queue, owner, fut, runnable>>
      /\ op' = [op EXCEPT ![c].pc = "done"]
      /\ op[c].pc \in {"idle", "run"}
      /\ op[c].pc = "run" /\ op[c].kind = "wake" =>
           op[c].n >= op[c].want \/ queue[op[c].f] = <<>>
  BY Held DEF Return, RequeueBadState
<1>2. /\ op' = [op EXCEPT ![c] = op'[c]]
      /\ \A d \in Callers : d # c => op'[d] = op[d]
      /\ op'[c] = [pc |-> "done", kind |-> op[c].kind, f |-> op[c].f,
                   want |-> op[c].want, n |-> op[c].n, hand |-> op[c].hand,
                   to |-> op[c].to, retarget |-> op[c].retarget, saw |-> op[c].saw]
  BY <1>1 DEF IInv, OpsOK, Ops
<1>3. op'[c] \in Ops
  BY <1>1, <1>2 DEF Ops
<1>4. /\ op'[c].pc = "done" /\ op'[c].kind = op[c].kind /\ op'[c].f = op[c].f
      /\ op'[c].want = op[c].want /\ op'[c].n = op[c].n /\ op'[c].hand = op[c].hand
      /\ op'[c].to = op[c].to /\ op'[c].retarget = op[c].retarget
      /\ op'[c].saw = op[c].saw
  BY <1>2
<1>5. OpInv'
  BY <1>1, <1>2, <1>4 DEF IInv, OpInv
<1>6. NoLostPublish'
  <2>1. \A d \in Callers : op[d].pc = "published" => op'[d] = op[d]
    BY <1>1, <1>2
  <2>. QED
    BY <1>1, <2>1 DEF IInv, NoLostPublish, Asleep
<1>7. op'[c].kind = "wake" /\ Short(c)' => queue[op'[c].f] = <<>>
  <2>1. op[c].n \in Nat /\ op[c].want \in Nat
    BY <1>1 DEF Ops
  <2>2. op[c].pc = "idle" => op[c].want = 0
    BY DEF IInv, OpInv
  <2>. QED
    BY <1>1, <1>4, <2>1, <2>2 DEF Short
<1>8. value' \in [Futexes -> 0 .. MaxValue]
  BY <1>1 DEF IInv, FutexOK
<1>. QED
  BY <1>1, <1>2, <1>3, <1>4, <1>5, <1>6, <1>7, <1>8, CallerStepQuiet

-----------------------------------------------------------------------------
(* The theorems                                                              *)

\* The invariant holds initially ...
LEMMA InitInv ==
  ASSUME Init PROVE IInv
<1>1. /\ <<>> \in Seq(Waiters) /\ Len(<<>>) = 0 /\ Members(<<>>) = {}
      /\ Distinct(<<>>)
  BY EmptySeq DEF Members, Distinct
<1>2. \A w \in Waiters : fut[w] = NewFuture
  BY DEF Init
<1>3. \A c \in Callers : op[c] = NewOp
  BY DEF Init
<1>4. NewFuture \in Futures
  BY DEF NewFuture, Futures, Owners
<1>5. NewOp \in Ops
  BY <1>1 DEF NewOp, Ops
<1>6. FutexOK
  BY <1>1, <1>4, FutexAssumption DEF Init, FutexOK, Owners
<1>7. OpsOK
  BY <1>5 DEF Init, OpsOK
<1>8. FutInv /\ WhereInv
  BY <1>2 DEF FutInv, WhereInv, Asleep, NewFuture
<1>9. OpInv
  BY <1>1, <1>3 DEF OpInv, NewOp
<1>10. \A f \in Futexes : queue[f] = <<>>
  BY DEF Init
<1>11. \A c \in Callers : /\ op[c].hand = <<>> /\ op[c].saw = {} /\ op[c].pc = "idle"
                          /\ op[c].retarget = <<>>
  BY <1>3 DEF NewOp
<1>12. OnceInv /\ ApartInv
  BY <1>1, <1>10, <1>11 DEF OnceInv, ApartInv, Apart
<1>13. FreshInv
  BY <1>1, <1>10, <1>11 DEF FreshInv
<1>14. NoLostPublish /\ WakeIsExact
  BY <1>1, <1>10, <1>11 DEF NoLostPublish, WakeIsExact, Short
<1>. QED
  BY <1>6, <1>7, <1>8, <1>9, <1>12, <1>13, <1>14 DEF IInv

\* ... and every step keeps it.
LEMMA StepInv ==
  ASSUME IInv, [Next]_vars PROVE IInv'
<1>1. CASE UNCHANGED vars
  <2>1. UNCHANGED <<value, queue, owner, fut, runnable, op>>
    BY <1>1 DEF vars
  <2>. QED
    BY <2>1 DEF IInv, FutexOK, OpsOK, FutInv, OpInv, OnceInv, ApartInv, FreshInv, Fresh,
       WhereInv, NoLostPublish, WakeIsExact, LeftAsleep, Short, Asleep
<1>2. CASE \E w \in Waiters : WaiterStep(w) \/ Expire(w)
  BY <1>2, PollStep, EnqueueStep, CancelStep DEF WaiterStep
<1>3. CASE \E w \in Waiters, f \in Futexes, v \in 0..MaxValue, o \in NewOwners :
             Call(w, f, v, o)
  BY <1>3, CallStep
<1>4. CASE \E c \in Callers : WakeOne(c) \/ TopUp(c) \/ Return(c) \/ Retarget(c)
  BY <1>4, WakeOneStep, TopUpStep, ReturnStep, RetargetStep
<1>5. ASSUME NEW c \in Callers, NEW f \in Futexes, NEW k \in Nat, PopBatch(c, f, k),
             op[c].pc \in {"idle", "published"},
             op[c].pc = "published" => k = Cardinality(Waiters) /\ op[c].f = f
      PROVE  IInv'
  <2>1. owner' \in [Futexes -> Owners]
    BY <1>5 DEF PopBatch, IInv, FutexOK, Owners
  <2>2. UNCHANGED <<value, fut, runnable>> /\ queue' = [queue EXCEPT ![f] = Rest(@, k)]
    BY <1>5 DEF PopBatch
  <2>3. op' = [op EXCEPT ![c] = [Begin("wake", f, k) EXCEPT !.hand = Front(queue[f], k)]]
    BY <1>5, Zenon DEF PopBatch
  <2>4. "wake" \in {"wake", "single"}
    OBVIOUS
  <2>. QED
    BY <1>5, <2>1, <2>2, <2>3, <2>4, PopStep, Zenon
<1>6. CASE \E c \in Callers : WakeAll(c)
  <2>1. PICK c \in Callers : WakeAll(c)
    BY <1>6
  <2>2. op[c].f \in Futexes
    BY <2>1 DEF WakeAll, IInv, OpInv
  <2>3. Cardinality(Waiters) \in Nat
    BY FutexAssumption, FS_CardinalityType
  <2>4. op[c].pc \in {"idle", "published"} /\ PopBatch(c, op[c].f, Cardinality(Waiters))
    BY <2>1 DEF WakeAll
  <2>. QED
    BY <1>5, <2>2, <2>3, <2>4, Zenon
<1>7. CASE \E c \in Callers, f \in Futexes, k \in Counts : Wake(c, f, k)
  <2>1. PICK c \in Callers, f \in Futexes, k \in Counts : Wake(c, f, k)
    BY <1>7
  <2>2. k \in Nat /\ op[c].pc \in {"idle", "published"} /\ op[c].pc # "published"
    BY <2>1, FutexAssumption DEF Wake
  <2>3. PopBatch(c, f, k)
    BY <2>1 DEF Wake
  <2>. QED
    BY <1>5, <2>2, <2>3, Zenon
<1>8. CASE \E c \in Callers, f \in Futexes : WakeSingleOwner(c, f)
  <2>1. PICK c \in Callers, f \in Futexes : WakeSingleOwner(c, f)
    BY <1>8
  <2>2. owner' \in [Futexes -> Owners]
    <3>1. queue[f] # <<>> => Head(queue[f]) \in Waiters
      BY Held, Taken
    <3>. QED
      BY <2>1, <3>1 DEF WakeSingleOwner, IInv, FutexOK, Owners
  <2>3. /\ UNCHANGED <<value, fut, runnable>> /\ queue' = [queue EXCEPT ![f] = Rest(@, 1)]
        /\ op[c].pc \in {"idle", "published"} /\ op[c].pc # "published"
    BY <2>1 DEF WakeSingleOwner
  <2>4. op' = [op EXCEPT ![c] = [Begin("single", f, 1) EXCEPT !.hand = Front(queue[f], 1)]]
    BY <2>1, Zenon DEF WakeSingleOwner
  <2>5. "single" \in {"wake", "single"} /\ 1 \in Nat
    OBVIOUS
  <2>. QED
    BY <2>2, <2>3, <2>4, <2>5, PopStep, Zenon
<1>9. CASE \E c \in Callers, f \in Futexes :
             Publish(c, f) \/ \E v \in 0..MaxValue : RequeueBadState(c, f, v)
  BY <1>9, PublishStep, ReturnStep
<1>10. CASE \E c \in Callers, f \in Futexes, g \in Futexes, k, r \in Counts, o \in NewOwners :
              Requeue(c, f, g, k, r, o)
  <2>1. PICK c \in Callers, f \in Futexes, g \in Futexes, k \in Counts, r \in Counts,
             o \in NewOwners : Requeue(c, f, g, k, r, o)
    BY <1>10
  <2>2. k \in Nat /\ r \in Nat /\ o \in Owners
    BY FutexAssumption DEF Owners
  <2>. QED
    BY <2>1, <2>2, RequeueStep
<1>. QED
  BY <1>1, <1>2, <1>3, <1>4, <1>6, <1>7, <1>8, <1>9, <1>10, Zenon DEF Next, CallerStep

\* The inductive invariant holds in every reachable state.
THEOREM Inductive == Spec => []IInv
  BY InitInv, StepInv, PTL DEF Spec

\* The types hold, and no call wakes more waiters than it was asked to.
THEOREM TypeCorrect == Spec => []TypeOK
<1>1. IInv => TypeOK
  <2>. SUFFICES ASSUME IInv PROVE TypeOK
    OBVIOUS
  <2>1. \A f \in Futexes : Members(queue[f]) \subseteq Waiters
    BY Held
  <2>2. ASSUME NEW c \in Callers
        PROVE  /\ op[c].pc \in {"idle", "published", "run", "done"}
               /\ op[c].n \in 0 .. op[c].want
    <3>1. /\ op[c] \in Ops /\ Len(op[c].hand) \in Nat
          /\ op[c].n + Len(op[c].hand) <= op[c].want
      BY Held DEF IInv, OpInv
    <3>. QED
      BY <3>1 DEF Ops
  <2>3. ASSUME NEW w \in Waiters
        PROVE  /\ fut[w].pc \in {"new", "poll", "refused", "asleep", "ok", "expired",
                                 "timed_out"}
               /\ fut[w].futex \in Futexes \cup {None}
               /\ fut[w].waker => fut[w].pc \in {"asleep", "expired", "timed_out"}
    BY DEF IInv, FutexOK, Futures, FutInv
  <2>. QED
    BY <2>1, <2>2, <2>3 DEF TypeOK, IInv, FutexOK
<1>. QED
  BY <1>1, Inductive, PTL

(* requeue, "Hold BOTH queue locks while moving waiters": a sleeping thread  *)
(* is in exactly one queue or hand, for any number of wakes, requeues and    *)
(* cancellations in progress.                                                *)
THEOREM SleeperInOnePlaceHolds == Spec => []SleeperInOnePlace
<1>1. ASSUME IInv, NEW w \in Waiters, Asleep(w)
      PROVE  Cardinality({p \in Places(w) : IsAt(w, p)}) = 1
  <2>. DEFINE N == Cardinality(Waiters)
              At == {p \in Places(w) : IsAt(w, p)}
  <2>1. /\ \A f \in Futexes : /\ Len(queue[f]) \in Nat /\ Len(queue[f]) <= N
                              /\ N \in Nat /\ Distinct(queue[f])
        /\ \A c \in Callers : /\ Len(op[c].hand) \in Nat /\ Len(op[c].hand) <= N
                              /\ N \in Nat /\ Distinct(op[c].hand)
    BY <1>1, Held, Bounded, LenProperties DEF IInv, OnceInv
  <2>2. /\ \A f \in Futexes, i \in 1 .. N :
             IsAt(w, <<"queue", f, i>>) <=> i <= Len(queue[f]) /\ queue[f][i] = w
        /\ \A c \in Callers, i \in 1 .. N :
             IsAt(w, <<"hand", c, i>>) <=> i <= Len(op[c].hand) /\ op[c].hand[i] = w
    BY DEF IsAt
  <2>3. \A p : p \in Places(w) <=>
          \/ \E f \in Futexes, i \in 1 .. N : p = <<"queue", f, i>>
          \/ \E c \in Callers, i \in 1 .. N : p = <<"hand", c, i>>
    BY DEF Places
  <2>4. \A p : p \in At <=>
          \/ \E f \in Futexes, i \in 1 .. N :
               p = <<"queue", f, i>> /\ i <= Len(queue[f]) /\ queue[f][i] = w
          \/ \E c \in Callers, i \in 1 .. N :
               p = <<"hand", c, i>> /\ i <= Len(op[c].hand) /\ op[c].hand[i] = w
    BY <2>2, <2>3
  <2>. HIDE DEF At
  <2>5. CASE \E f \in Futexes : w \in Members(queue[f])
    <3>0. PICK f \in Futexes : w \in Members(queue[f])
      BY <2>5
    <3>1. PICK i \in 1 .. Len(queue[f]) : queue[f][i] = w
      BY <3>0 DEF Members
    <3>2. i \in 1 .. N /\ i <= Len(queue[f]) /\ w \in Members(queue[f])
      BY <2>1, <3>1 DEF Members
    <3>3. ASSUME NEW g \in Futexes, NEW j \in 1 .. N, j <= Len(queue[g]), queue[g][j] = w
          PROVE  g = f /\ j = i
      <4>1. j \in 1 .. Len(queue[g]) /\ w \in Members(queue[g])
        BY <2>1, <3>3 DEF Members
      <4>2. g = f
        BY <1>1, <3>2, <4>1 DEF IInv, ApartInv, Apart
      <4>. QED
        BY <2>1, <3>1, <3>3, <4>1, <4>2 DEF Distinct
    <3>4. ASSUME NEW c \in Callers, NEW j \in 1 .. N, j <= Len(op[c].hand),
                 op[c].hand[j] = w
          PROVE  FALSE
      <4>1. w \in Members(op[c].hand)
        BY <2>1, <3>4 DEF Members
      <4>. QED
        BY <1>1, <3>2, <4>1 DEF IInv, ApartInv, Apart
    <3>5. At = {<<"queue", f, i>>}
      BY <2>4, <3>1, <3>2, <3>3, <3>4, Zenon
    <3>. QED
      BY <3>5, FS_Singleton DEF At
  <2>6. CASE \E c \in Callers : w \in Members(op[c].hand)
    <3>0. PICK c \in Callers : w \in Members(op[c].hand)
      BY <2>6
    <3>1. PICK i \in 1 .. Len(op[c].hand) : op[c].hand[i] = w
      BY <3>0 DEF Members
    <3>2. i \in 1 .. N /\ i <= Len(op[c].hand) /\ w \in Members(op[c].hand)
      BY <2>1, <3>1 DEF Members
    <3>3. ASSUME NEW d \in Callers, NEW j \in 1 .. N, j <= Len(op[d].hand),
                 op[d].hand[j] = w
          PROVE  d = c /\ j = i
      <4>1. j \in 1 .. Len(op[d].hand) /\ w \in Members(op[d].hand)
        BY <2>1, <3>3 DEF Members
      <4>2. d = c
        BY <1>1, <3>2, <4>1 DEF IInv, ApartInv, Apart
      <4>. QED
        BY <2>1, <3>1, <3>3, <4>1, <4>2 DEF Distinct
    <3>4. ASSUME NEW g \in Futexes, NEW j \in 1 .. N, j <= Len(queue[g]), queue[g][j] = w
          PROVE  FALSE
      <4>1. w \in Members(queue[g])
        BY <2>1, <3>4 DEF Members
      <4>. QED
        BY <1>1, <3>2, <4>1 DEF IInv, ApartInv, Apart
    <3>5. At = {<<"hand", c, i>>}
      BY <2>4, <3>1, <3>2, <3>3, <3>4, Zenon
    <3>. QED
      BY <3>5, FS_Singleton DEF At
  <2>. QED
    BY <1>1, <2>5, <2>6 DEF IInv, WhereInv
<1>2. IInv => SleeperInOnePlace
  BY <1>1 DEF SleeperInOnePlace
<1>. QED
  BY <1>2, Inductive, PTL

(* FutexFuture::poll, "the check-and-enqueue is atomic": whoever sleeps on   *)
(* an old value is still due a wake by the thread that stored the new one.   *)
THEOREM NoLostPublishHolds == Spec => []NoLostPublish
<1>1. IInv => NoLostPublish
  BY DEF IInv
<1>. QED
  BY <1>1, Inductive, PTL

(* wake, "exactly up to `wake_count` live waiters when available": a call    *)
(* that returns short left no thread asleep in the queue that it found there *)
(* and that nobody requeued.                                                 *)
THEOREM WakeIsExactHolds == Spec => []WakeIsExact
<1>1. IInv => WakeIsExact
  BY DEF IInv
<1>. QED
  BY <1>1, Inductive, PTL
=============================================================================

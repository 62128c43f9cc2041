---------------------------- MODULE Pipe_proofs ----------------------------
(***************************************************************************)
(* The inductive invariant of Pipe, for any number of blocking readers,    *)
(* bytes and open files: an end is counted exactly while something refers  *)
(* to it. From it follows that a pipe delivers what was written, in order, *)
(* and that an end of file is final.                                       *)
(***************************************************************************)
EXTENDS Pipe, SequenceTheorems, TLAPS

Bytes == 1 .. MaxBytes

\* The types, in three parts.
DataOK ==
  /\ buf \in Seq(Bytes) /\ got \in Seq(Bytes) /\ written \in 0 .. MaxBytes
  /\ cnt \in [Ends -> 0 .. 1] /\ fds \in [Ends -> Nat]
  /\ \A x \in Ends : fds[x] \in 0 .. MaxFds[x]

BusOK ==
  /\ event \subseteq {"READABLE", "CLOSED"} /\ woken \subseteq Tasks
  /\ callbacks \in Seq(Tasks) /\ Len(callbacks) <= MaxCallbacks

TaskOK ==
  /\ pc \in [Tasks -> {"idle", "read", "poll", "subscribe", "sleep", "return",
                       "loop", "scan", "status", "wake"}]
  /\ late \in [Readers -> {"no", "bytes", "close", "evicted"}]
  /\ interest \subseteq Ends /\ snap \subseteq Ends /\ todo \subseteq Ends
  /\ cur \in Ends \cup {"none"} /\ ready \subseteq Ends

\* Between two turns of epoll_wait there is no copy of the list, and a scan
\* that polls a file knows which.
SnapInv ==
  /\ pc[Poller] \in {"idle", "loop"} => snap = {}
  /\ pc[Poller] \in {"status", "subscribe"} => cur \in Ends

\* A file, read, epoll or scan refers to the end x.
Refers(x) == x \in Held(fds, interest, snap, pc)

\* An end is counted as long as something refers to it, and an end that a
\* file refers to is one of them.
CntInv ==
  \A x \in Ends : cnt[x] = IF Refers(x) THEN 1 ELSE 0

StreamInv == got \o buf = [i \in 1 .. written |-> i]

EofInv == eof => buf = <<>> /\ cnt["w"] = 0

IInv == DataOK /\ BusOK /\ TaskOK /\ eof \in BOOLEAN /\ SnapInv /\ CntInv
        /\ StreamInv /\ EofInv

-----------------------------------------------------------------------------
(* Facts about the operators                                                 *)

\* Dropping an end counts it down once.
LEMMA DropFacts ==
  ASSUME DataOK, CntInv, DropEnds,
         \A x \in Ends : Refers(x)' => Refers(x)
  PROVE  cnt' \in [Ends -> 0 .. 1] /\ CntInv' /\ \A x \in Ends : cnt'[x] <= cnt[x]
<1>1. \A x \in Ends : cnt'[x] = IF Refers(x) /\ ~Refers(x)' THEN cnt[x] - 1 ELSE cnt[x]
  BY DEF DropEnds, Refers
<1>2. cnt' = [x \in Ends |-> cnt'[x]]
  BY DEF DropEnds
<1>3. \A x \in Ends : cnt'[x] \in 0 .. 1 /\ cnt'[x] <= cnt[x]
                      /\ cnt'[x] = IF Refers(x)' THEN 1 ELSE 0
  BY <1>1 DEF DataOK, CntInv
<1>. QED
  BY <1>2, <1>3 DEF CntInv

\* Taking the first k bytes from the buffer moves them to the readers.
LEMMA TakeFacts ==
  ASSUME NEW S, NEW g \in Seq(S), NEW b \in Seq(S), NEW k \in 0 .. Len(b)
  PROVE  /\ SubSeq(b, 1, k) \in Seq(S) /\ SubSeq(b, k + 1, Len(b)) \in Seq(S)
         /\ (g \o SubSeq(b, 1, k)) \o SubSeq(b, k + 1, Len(b)) = g \o b
<1>1. Len(b) \in Nat /\ \A i \in 1 .. Len(b) : b[i] \in S
  BY LenProperties, ElementOfSeq
<1>2. SubSeq(b, 1, k) \in Seq(S)
  BY <1>1, SubSeqProperties
<1>3. SubSeq(b, k + 1, Len(b)) \in Seq(S)
  <2>1. k + 1 \in Int /\ Len(b) \in Int /\ \A i \in k + 1 .. Len(b) : b[i] \in S
    BY <1>1
  <2>. QED
    BY <2>1, SubSeqProperties
<1>4. SubSeq(b, 1, k) \o SubSeq(b, k + 1, Len(b)) = b
  <2>1. 1 \in 1 .. Len(b) + 1 /\ k \in 1 - 1 .. Len(b) /\ Len(b) \in k .. Len(b)
    BY <1>1
  <2>2. SubSeq(b, 1, k) \o SubSeq(b, k + 1, Len(b)) = SubSeq(b, 1, Len(b))
    BY <2>1, ConcatAdjacentSubSeq
  <2>. QED
    BY <2>2, SubSeqFull
<1>5. (g \o SubSeq(b, 1, k)) \o SubSeq(b, k + 1, Len(b))
        = g \o (SubSeq(b, 1, k) \o SubSeq(b, k + 1, Len(b)))
  <2>1. PICK c \in Seq(S) : c = SubSeq(b, 1, k)
    BY <1>2
  <2>2. PICK d \in Seq(S) : d = SubSeq(b, k + 1, Len(b))
    BY <1>3
  <2>3. (g \o c) \o d = g \o (c \o d)
    OBVIOUS
  <2>. QED
    BY <2>1, <2>2, <2>3
<1>. QED
  BY <1>2, <1>3, <1>4, <1>5

\* A read leaves the stream, the bytes read and those held, as it is.
LEMMA TakeJoins ==
  ASSUME DataOK, NEW k \in 0 .. Len(buf),
         buf' = SubSeq(buf, k + 1, Len(buf)), got' = got \o SubSeq(buf, 1, k)
  PROVE  got' \o buf' = got \o buf
<1>1. buf \in Seq(Bytes) /\ got \in Seq(Bytes)
  BY DEF DataOK
<1>2. (got \o SubSeq(buf, 1, k)) \o SubSeq(buf, k + 1, Len(buf)) = got \o buf
  BY <1>1, TakeFacts, ZenonT(60)
<1>. QED
  BY <1>2, Zenon

\* A read takes some first bytes of the buffer.
LEMMA TakeSome ==
  ASSUME DataOK, NEW n \in Nat, Take(n)
  PROVE  \E k \in 0 .. Len(buf) :
           /\ buf' = SubSeq(buf, k + 1, Len(buf)) /\ got' = got \o SubSeq(buf, 1, k)
<1>1. Len(buf) \in Nat
  BY LenProperties DEF DataOK
<1>2. CASE n < Len(buf)
  <2>1. n \in 0 .. Len(buf)
    BY <1>1, <1>2
  <2>2. buf' = SubSeq(buf, n + 1, Len(buf)) /\ got' = got \o SubSeq(buf, 1, n)
    BY <1>2, Zenon DEF Take
  <2>. QED
    BY <2>1, <2>2
<1>3. CASE ~(n < Len(buf))
  <2>1. Len(buf) \in 0 .. Len(buf)
    BY <1>1
  <2>2. buf' = SubSeq(buf, Len(buf) + 1, Len(buf)) /\ got' = got \o SubSeq(buf, 1, Len(buf))
    BY <1>3, Zenon DEF Take
  <2>. QED
    BY <2>1, <2>2
<1>. QED
  BY <1>2, <1>3

\* A change of the bus wakes tasks and empties the table.
LEMMA ChangeFacts ==
  ASSUME BusOK, NEW reset, NEW set \in SUBSET {"READABLE", "CLOSED"}, Change(reset, set)
  PROVE  BusOK'
<1>1. Range(callbacks) \subseteq Tasks
  BY RangeOfSeq DEF BusOK
<1>2. <<>> \in Seq(Tasks) /\ Len(<<>>) = 0
  OBVIOUS
<1>3. CASE event' = event
  BY <1>3 DEF BusOK, Change
<1>4. CASE event' # event
  <2>1. callbacks' = <<>> /\ woken' = woken \cup Range(callbacks)
    BY <1>4 DEF Change
  <2>2. event' \subseteq {"READABLE", "CLOSED"}
    BY DEF BusOK, Change
  <2>3. woken' \subseteq Tasks
    BY <1>1, <2>1 DEF BusOK
  <2>4. callbacks' \in Seq(Tasks) /\ Len(callbacks') <= MaxCallbacks
    BY <1>2, <2>1, PipeAssumption
  <2>. QED
    BY <2>2, <2>3, <2>4 DEF BusOK
<1>. QED
  BY <1>3, <1>4

\* A full table makes room before it takes a callback.
LEMMA SubscribeFacts ==
  ASSUME BusOK, NEW t \in Tasks, Subscribe(t)
  PROVE  callbacks' \in Seq(Tasks) /\ Len(callbacks') <= MaxCallbacks
<1>1. Len(callbacks) \in Nat
  BY LenProperties DEF BusOK
<1>2. CASE Len(callbacks) >= MaxCallbacks
  <2>1. callbacks # <<>> /\ Len(callbacks) = MaxCallbacks
    BY <1>1, <1>2, PipeAssumption DEF BusOK
  <2>2. Tail(callbacks) \in Seq(Tasks) /\ Len(Tail(callbacks)) = MaxCallbacks - 1
    BY <2>1, HeadTailProperties DEF BusOK
  <2>3. callbacks' = Append(Tail(callbacks), t)
    BY <1>2 DEF Subscribe
  <2>. QED
    BY <2>2, <2>3, AppendProperties, PipeAssumption
<1>3. CASE ~(Len(callbacks) >= MaxCallbacks)
  <2>1. callbacks' = Append(callbacks, t)
    BY <1>3 DEF Subscribe
  <2>. QED
    BY <1>1, <1>3, <2>1, AppendProperties, PipeAssumption DEF BusOK
<1>. QED
  BY <1>2, <1>3

\* An end that is dropped changes the bus, or nothing does.
LEMMA DropBus == BusOK /\ DropEnds => BusOK'
<1>1. BusOK /\ UNCHANGED busVars => BusOK'
  BY DEF BusOK, busVars
<1>. QED
  BY <1>1, ChangeFacts DEF DropEnds

\* The next n bytes continue the stream.
LEMMA WriteFacts ==
  ASSUME NEW w \in Nat, NEW n \in Nat
  PROVE  [i \in 1 .. w |-> i] \o [i \in 1 .. n |-> w + i] = [i \in 1 .. w + n |-> i]
<1>. DEFINE a == [i \in 1 .. w |-> i]
            b == [i \in 1 .. n |-> w + i]
            c == [i \in 1 .. w + n |-> i]
<1>1. a \in Seq(Nat) /\ Len(a) = w /\ b \in Seq(Nat) /\ Len(b) = n
  OBVIOUS
<1>2. c \in Seq(Nat) /\ Len(c) = w + n
  OBVIOUS
<1>3. /\ a \o b \in Seq(Nat) /\ Len(a \o b) = w + n
      /\ \A i \in 1 .. w + n : (a \o b)[i] = IF i <= w THEN a[i] ELSE b[i - w]
  BY <1>1, ConcatProperties
<1>4. \A i \in 1 .. w + n : (a \o b)[i] = c[i]
  BY <1>3
<1>. QED
  BY <1>2, <1>3, <1>4, SeqEqual

LEMMA InitInv == Init => IInv
<1>. SUFFICES ASSUME Init PROVE IInv
  OBVIOUS
<1>1. DataOK /\ TaskOK /\ SnapInv
  BY PipeAssumption DEF Init, DataOK, TaskOK, SnapInv, Ends, Tasks
<1>4. BusOK
  <2>1. callbacks \in Seq(Tasks) /\ Len(callbacks) = 0
    BY DEF Init
  <2>. QED
    BY <2>1, PipeAssumption DEF Init, BusOK
<1>5. eof \in BOOLEAN
  BY Zenon DEF Init
<1>2. CntInv
  BY DEF Init, CntInv, Refers, Held
<1>3. StreamInv /\ EofInv
  BY DEF Init, StreamInv, EofInv
<1>. QED
  BY <1>1, <1>2, <1>3, <1>4, <1>5 DEF IInv

\* The bytes, the counts and the files keep their types.
LEMMA DataStep ==
  ASSUME IInv, [Next]_vars
  PROVE  DataOK'
<1>Dup. ASSUME NEW x \in Ends, Dup(x) PROVE DataOK'
  BY <1>Dup, PipeAssumption DEF Dup, IInv, DataOK, pipeVars, history, Ends
<1>Close. ASSUME NEW x \in Ends, Close(x) PROVE DataOK'
  <2>1. \A y \in Ends : Refers(y)' => Refers(y)
    BY <1>Close, PipeAssumption
       DEF Close, IInv, DataOK, TaskOK, Refers, Held, waitVars
  <2>2. cnt' \in [Ends -> 0 .. 1]
    BY <1>Close, <2>1, DropFacts DEF Close, IInv
  <2>. QED
    BY <1>Close, <2>2, PipeAssumption DEF Close, IInv, DataOK, history, Ends
<1>CtlAdd. ASSUME NEW x \in Ends, CtlAdd(x) PROVE DataOK'
  BY <1>CtlAdd DEF CtlAdd, IInv, DataOK, pipeVars, busVars, waitVars, history
<1>CtlDel. ASSUME NEW x \in Ends, CtlDel(x) PROVE DataOK'
  <2>1. \A y \in Ends : Refers(y)' => Refers(y)
    BY <1>CtlDel, PipeAssumption
       DEF CtlDel, IInv, DataOK, TaskOK, Refers, Held, waitVars
  <2>2. cnt' \in [Ends -> 0 .. 1]
    BY <1>CtlDel, <2>1, DropFacts DEF CtlDel, IInv
  <2>. QED
    BY <1>CtlDel, <2>2, PipeAssumption DEF CtlDel, IInv, DataOK, history, Ends
<1>ScanEnd. ASSUME NEW x \in Ends, ScanEnd(x) PROVE DataOK'
  BY <1>ScanEnd DEF ScanEnd, IInv, DataOK, pipeVars, busVars, waitVars, history
<1>Write. ASSUME NEW n \in 0 .. 2, Write(n) PROVE DataOK'
  <2>1. /\ written + n \in 0 .. MaxBytes /\ written \in Nat
        /\ \A i \in 1 .. n : written + i \in Bytes
    BY <1>Write, PipeAssumption DEF Write, IInv, DataOK, Bytes
  <2>2. [i \in 1 .. n |-> written + i] \in Seq(Bytes)
    BY <2>1
  <2>3. buf' \in Seq(Bytes)
    BY <1>Write, <2>2, ConcatProperties DEF Write, IInv, DataOK
  <2>. QED
    BY <1>Write, <2>1, <2>3 DEF Write, IInv, DataOK
<1>ReadNonBlock. ASSUME NEW n \in 1 .. 2, ReadNonBlock(n) PROVE DataOK'
  <2>1. PICK k \in 0 .. Len(buf) :
          /\ buf' = SubSeq(buf, k + 1, Len(buf)) /\ got' = got \o SubSeq(buf, 1, k)
    <3>1. DataOK /\ n \in Nat /\ Take(n)
      BY <1>ReadNonBlock DEF ReadNonBlock, IInv
    <3>. QED
      BY <3>1, TakeSome
  <2>2. buf \in Seq(Bytes) /\ got \in Seq(Bytes)
    BY DEF IInv, DataOK
  <2>3. SubSeq(buf, 1, k) \in Seq(Bytes) /\ SubSeq(buf, k + 1, Len(buf)) \in Seq(Bytes)
    BY <2>2, TakeFacts
  <2>4. buf' \in Seq(Bytes) /\ got' \in Seq(Bytes)
    BY <2>1, <2>2, <2>3, ConcatProperties
  <2>. QED
    BY <1>ReadNonBlock, <2>4 DEF ReadNonBlock, IInv, DataOK
<1>BeginRead. ASSUME NEW r \in Readers, BeginRead(r) PROVE DataOK'
  BY <1>BeginRead DEF BeginRead, IInv, DataOK, pipeVars, busVars, waitVars, history
<1>ReadAgain. ASSUME NEW r \in Readers, ReadAgain(r) PROVE DataOK'
  BY <1>ReadAgain DEF ReadAgain, IInv, DataOK, pipeVars, busVars, waitVars, history
<1>PollPipe. ASSUME NEW r \in Readers, PollPipe(r) PROVE DataOK'
  BY <1>PollPipe DEF PollPipe, IInv, DataOK, pipeVars, busVars, waitVars, history
<1>SubscribeReader. ASSUME NEW r \in Readers, SubscribeReader(r) PROVE DataOK'
  BY <1>SubscribeReader
     DEF SubscribeReader, IInv, DataOK, pipeVars, busVars, waitVars, history
<1>WakeReader. ASSUME NEW r \in Readers, WakeReader(r) PROVE DataOK'
  BY <1>WakeReader DEF WakeReader, IInv, DataOK, pipeVars, busVars, waitVars, history
<1>ReturnRead. ASSUME NEW r \in Readers, ReturnRead(r) PROVE DataOK'
  <2>1. \A y \in Ends : Refers(y)' => Refers(y)
    BY <1>ReturnRead, PipeAssumption
       DEF ReturnRead, IInv, DataOK, TaskOK, Refers, Held, waitVars, Tasks
  <2>2. cnt' \in [Ends -> 0 .. 1]
    BY <1>ReturnRead, <2>1, DropFacts DEF ReturnRead, IInv
  <2>. QED
    BY <1>ReturnRead, <2>2, PipeAssumption DEF ReturnRead, IInv, DataOK, history, Ends
<1>Read. ASSUME NEW r \in Readers, NEW n \in 1 .. 2, Read(r, n) PROVE DataOK'
  <2>1. PICK k \in 0 .. Len(buf) :
          /\ buf' = SubSeq(buf, k + 1, Len(buf)) /\ got' = got \o SubSeq(buf, 1, k)
    <3>1. DataOK /\ n \in Nat /\ Take(n)
      BY <1>Read DEF Read, IInv
    <3>. QED
      BY <3>1, TakeSome
  <2>2. buf \in Seq(Bytes) /\ got \in Seq(Bytes)
    BY DEF IInv, DataOK
  <2>3. SubSeq(buf, 1, k) \in Seq(Bytes) /\ SubSeq(buf, k + 1, Len(buf)) \in Seq(Bytes)
    BY <2>2, TakeFacts
  <2>4. buf' \in Seq(Bytes) /\ got' \in Seq(Bytes)
    BY <2>1, <2>2, <2>3, ConcatProperties
  <2>. QED
    BY <1>Read, <2>4 DEF Read, IInv, DataOK
<1>BeginWait. CASE BeginWait
  BY <1>BeginWait DEF BeginWait, IInv, DataOK, pipeVars, busVars, waitVars, history
<1>Interrupted. CASE Interrupted
  BY <1>Interrupted DEF Interrupted, IInv, DataOK, pipeVars, busVars, waitVars, history
<1>TimedOut. CASE TimedOut
  BY <1>TimedOut DEF TimedOut, IInv, DataOK, pipeVars, busVars, waitVars, history
<1>Snapshot. CASE Snapshot
  BY <1>Snapshot DEF Snapshot, IInv, DataOK, pipeVars, busVars, waitVars, history
<1>Status. CASE Status
  BY <1>Status DEF Status, IInv, DataOK, pipeVars, busVars, waitVars, history
<1>SubscribeScan. CASE SubscribeScan
  BY <1>SubscribeScan
     DEF SubscribeScan, IInv, DataOK, pipeVars, busVars, waitVars, history
<1>Scanned. CASE Scanned
  BY <1>Scanned DEF Scanned, IInv, DataOK, pipeVars, busVars, waitVars, history
<1>Sleep. CASE Sleep
  BY <1>Sleep DEF Sleep, IInv, DataOK, pipeVars, busVars, waitVars, history
<1>WakePoller. CASE WakePoller
  BY <1>WakePoller DEF WakePoller, IInv, DataOK, pipeVars, busVars, waitVars, history
<1>EndTurn. CASE EndTurn
  <2>1. \A y \in Ends : Refers(y)' => Refers(y)
    BY <1>EndTurn, PipeAssumption
       DEF EndTurn, IInv, DataOK, TaskOK, Refers, Held, waitVars, Goto, Tasks
  <2>2. cnt' \in [Ends -> 0 .. 1]
    BY <1>EndTurn, <2>1, DropFacts DEF EndTurn, IInv
  <2>. QED
    BY <1>EndTurn, <2>2, PipeAssumption DEF EndTurn, IInv, DataOK, history, Ends
<1>Tick. CASE Tick
  BY <1>Tick DEF Tick, IInv, DataOK, pipeVars, busVars, waitVars, history
<1>Stutter. CASE UNCHANGED vars
  BY <1>Stutter DEF vars, IInv, DataOK, pipeVars, busVars, waitVars, history
<1>. QED
  BY <1>Dup, <1>Close, <1>CtlAdd, <1>CtlDel, <1>ScanEnd, <1>Write, <1>ReadNonBlock,
     <1>BeginRead, <1>ReadAgain, <1>PollPipe, <1>SubscribeReader, <1>WakeReader,
     <1>ReturnRead, <1>Read, <1>BeginWait, <1>Interrupted, <1>TimedOut, <1>Snapshot,
     <1>Status, <1>SubscribeScan, <1>Scanned, <1>Sleep, <1>WakePoller, <1>EndTurn,
     <1>Tick, <1>Stutter
     DEF Next, ReaderStep, PollerStep

\* The table of the bus stays within its limit.
LEMMA BusStep ==
  ASSUME IInv, [Next]_vars
  PROVE  BusOK'
<1>Dup. ASSUME NEW x \in Ends, Dup(x) PROVE BusOK'
  BY <1>Dup DEF Dup, IInv, BusOK, pipeVars, busVars, waitVars, history
<1>Close. ASSUME NEW x \in Ends, Close(x) PROVE BusOK'
  BY <1>Close, DropBus DEF Close, IInv
<1>CtlAdd. ASSUME NEW x \in Ends, CtlAdd(x) PROVE BusOK'
  BY <1>CtlAdd DEF CtlAdd, IInv, BusOK, pipeVars, busVars, waitVars, history
<1>CtlDel. ASSUME NEW x \in Ends, CtlDel(x) PROVE BusOK'
  BY <1>CtlDel, DropBus DEF CtlDel, IInv
<1>ScanEnd. ASSUME NEW x \in Ends, ScanEnd(x) PROVE BusOK'
  BY <1>ScanEnd DEF ScanEnd, IInv, BusOK, pipeVars, busVars, waitVars, history
<1>Write. ASSUME NEW n \in 0 .. 2, Write(n) PROVE BusOK'
  BY <1>Write, ChangeFacts DEF Write, IInv
<1>ReadNonBlock. ASSUME NEW n \in 1 .. 2, ReadNonBlock(n) PROVE BusOK'
  <2>1. CASE UNCHANGED busVars
    BY <2>1 DEF IInv, BusOK, busVars
  <2>2. CASE Change({"READABLE"}, {})
    BY <2>2, ChangeFacts DEF IInv
  <2>. QED
    BY <1>ReadNonBlock, <2>1, <2>2 DEF ReadNonBlock, Take
<1>BeginRead. ASSUME NEW r \in Readers, BeginRead(r) PROVE BusOK'
  BY <1>BeginRead DEF BeginRead, IInv, BusOK, pipeVars, busVars, waitVars, history
<1>ReadAgain. ASSUME NEW r \in Readers, ReadAgain(r) PROVE BusOK'
  BY <1>ReadAgain DEF ReadAgain, IInv, BusOK, pipeVars, busVars, waitVars, history
<1>PollPipe. ASSUME NEW r \in Readers, PollPipe(r) PROVE BusOK'
  BY <1>PollPipe DEF PollPipe, IInv, BusOK, pipeVars, busVars, waitVars, history
<1>SubscribeReader. ASSUME NEW r \in Readers, SubscribeReader(r) PROVE BusOK'
  BY <1>SubscribeReader, SubscribeFacts DEF SubscribeReader, IInv, BusOK, Tasks
<1>WakeReader. ASSUME NEW r \in Readers, WakeReader(r) PROVE BusOK'
  BY <1>WakeReader DEF WakeReader, IInv, BusOK, pipeVars, busVars, waitVars, history
<1>ReturnRead. ASSUME NEW r \in Readers, ReturnRead(r) PROVE BusOK'
  BY <1>ReturnRead, DropBus DEF ReturnRead, IInv
<1>Read. ASSUME NEW r \in Readers, NEW n \in 1 .. 2, Read(r, n) PROVE BusOK'
  <2>1. CASE UNCHANGED busVars
    BY <2>1 DEF IInv, BusOK, busVars
  <2>2. CASE Change({"READABLE"}, {})
    BY <2>2, ChangeFacts DEF IInv
  <2>. QED
    BY <1>Read, <2>1, <2>2 DEF Read, Take
<1>BeginWait. CASE BeginWait
  BY <1>BeginWait DEF BeginWait, IInv, BusOK, pipeVars, busVars, waitVars, history
<1>Interrupted. CASE Interrupted
  BY <1>Interrupted DEF Interrupted, IInv, BusOK, pipeVars, busVars, waitVars, history
<1>TimedOut. CASE TimedOut
  BY <1>TimedOut DEF TimedOut, IInv, BusOK, pipeVars, busVars, waitVars, history
<1>Snapshot. CASE Snapshot
  BY <1>Snapshot DEF Snapshot, IInv, BusOK, pipeVars, busVars, waitVars, history
<1>Status. CASE Status
  BY <1>Status DEF Status, IInv, BusOK, pipeVars, busVars, waitVars, history
<1>SubscribeScan. CASE SubscribeScan
  BY <1>SubscribeScan, SubscribeFacts DEF SubscribeScan, IInv, BusOK, Tasks
<1>Scanned. CASE Scanned
  BY <1>Scanned DEF Scanned, IInv, BusOK, pipeVars, busVars, waitVars, history
<1>Sleep. CASE Sleep
  BY <1>Sleep DEF Sleep, IInv, BusOK, pipeVars, busVars, waitVars, history
<1>WakePoller. CASE WakePoller
  BY <1>WakePoller DEF WakePoller, IInv, BusOK, pipeVars, busVars, waitVars, history
<1>EndTurn. CASE EndTurn
  BY <1>EndTurn, DropBus DEF EndTurn, IInv
<1>Tick. CASE Tick
  BY <1>Tick DEF Tick, IInv, BusOK, Tasks
<1>Stutter. CASE UNCHANGED vars
  BY <1>Stutter DEF vars, IInv, BusOK, pipeVars, busVars, waitVars, history
<1>. QED
  BY <1>Dup, <1>Close, <1>CtlAdd, <1>CtlDel, <1>ScanEnd, <1>Write, <1>ReadNonBlock,
     <1>BeginRead, <1>ReadAgain, <1>PollPipe, <1>SubscribeReader, <1>WakeReader,
     <1>ReturnRead, <1>Read, <1>BeginWait, <1>Interrupted, <1>TimedOut, <1>Snapshot,
     <1>Status, <1>SubscribeScan, <1>Scanned, <1>Sleep, <1>WakePoller, <1>EndTurn,
     <1>Tick, <1>Stutter
     DEF Next, ReaderStep, PollerStep

\* The tasks keep their types.
LEMMA TaskStep ==
  ASSUME IInv, [Next]_vars
  PROVE  TaskOK'
<1>Dup. ASSUME NEW x \in Ends, Dup(x) PROVE TaskOK'
  BY <1>Dup DEF Dup, IInv, TaskOK, pipeVars, busVars, waitVars, history
<1>Close. ASSUME NEW x \in Ends, Close(x) PROVE TaskOK'
  BY <1>Close DEF Close, IInv, TaskOK, pipeVars, busVars, waitVars, history
<1>CtlAdd. ASSUME NEW x \in Ends, CtlAdd(x) PROVE TaskOK'
  BY <1>CtlAdd DEF CtlAdd, IInv, TaskOK, pipeVars, busVars, waitVars, history
<1>CtlDel. ASSUME NEW x \in Ends, CtlDel(x) PROVE TaskOK'
  BY <1>CtlDel DEF CtlDel, IInv, TaskOK, pipeVars, busVars, waitVars, history
<1>ScanEnd. ASSUME NEW x \in Ends, ScanEnd(x) PROVE TaskOK'
  BY <1>ScanEnd
     DEF ScanEnd, IInv, TaskOK, pipeVars, busVars, waitVars, history, Goto, Tasks
<1>Write. ASSUME NEW n \in 0 .. 2, Write(n) PROVE TaskOK'
  BY <1>Write DEF Write, IInv, TaskOK, pipeVars, busVars, waitVars, history
<1>ReadNonBlock. ASSUME NEW n \in 1 .. 2, ReadNonBlock(n) PROVE TaskOK'
  BY <1>ReadNonBlock DEF ReadNonBlock, IInv, TaskOK, pipeVars, busVars, waitVars, history
<1>BeginRead. ASSUME NEW r \in Readers, BeginRead(r) PROVE TaskOK'
  BY <1>BeginRead DEF BeginRead, IInv, TaskOK, pipeVars, busVars, waitVars, history, Tasks
<1>ReadAgain. ASSUME NEW r \in Readers, ReadAgain(r) PROVE TaskOK'
  BY <1>ReadAgain DEF ReadAgain, IInv, TaskOK, pipeVars, busVars, waitVars, history, Tasks
<1>PollPipe. ASSUME NEW r \in Readers, PollPipe(r) PROVE TaskOK'
  BY <1>PollPipe DEF PollPipe, IInv, TaskOK, pipeVars, busVars, waitVars, history, Tasks
<1>SubscribeReader. ASSUME NEW r \in Readers, SubscribeReader(r) PROVE TaskOK'
  BY <1>SubscribeReader
     DEF SubscribeReader, IInv, TaskOK, pipeVars, busVars, waitVars, history, Tasks,
         Missed
<1>WakeReader. ASSUME NEW r \in Readers, WakeReader(r) PROVE TaskOK'
  BY <1>WakeReader
     DEF WakeReader, IInv, TaskOK, pipeVars, busVars, waitVars, history, Tasks
<1>ReturnRead. ASSUME NEW r \in Readers, ReturnRead(r) PROVE TaskOK'
  BY <1>ReturnRead
     DEF ReturnRead, IInv, TaskOK, pipeVars, busVars, waitVars, history, Tasks
<1>Read. ASSUME NEW r \in Readers, NEW n \in 1 .. 2, Read(r, n) PROVE TaskOK'
  BY <1>Read DEF Read, IInv, TaskOK, pipeVars, busVars, waitVars, history, Tasks
<1>BeginWait. CASE BeginWait
  BY <1>BeginWait
     DEF BeginWait, IInv, TaskOK, pipeVars, busVars, waitVars, history, Goto, Tasks
<1>Interrupted. CASE Interrupted
  BY <1>Interrupted
     DEF Interrupted, IInv, TaskOK, pipeVars, busVars, waitVars, history, Goto, Tasks
<1>TimedOut. CASE TimedOut
  BY <1>TimedOut
     DEF TimedOut, IInv, TaskOK, pipeVars, busVars, waitVars, history, Goto, Tasks
<1>Snapshot. CASE Snapshot
  BY <1>Snapshot
     DEF Snapshot, IInv, TaskOK, pipeVars, busVars, waitVars, history, Goto, Tasks
<1>Status. CASE Status
  <2>1. cur \in Ends
    BY <1>Status DEF Status, IInv, SnapInv
  <2>2. ready' \subseteq Ends /\ todo' \subseteq Ends
    <3>1. CASE Ready(cur)
      <4>1. ready' = ready \cup {cur} /\ todo' \in {todo, {}}
        BY <1>Status, <3>1 DEF Status
      <4>. QED
        BY <2>1, <4>1 DEF IInv, TaskOK
    <3>2. CASE ~Ready(cur)
      BY <1>Status, <3>2 DEF Status, IInv, TaskOK
    <3>. QED
      BY <3>1, <3>2
  <2>. QED
    BY <1>Status, <2>2 DEF Status, IInv, TaskOK, history, Goto, Tasks
<1>SubscribeScan. CASE SubscribeScan
  BY <1>SubscribeScan
     DEF SubscribeScan, IInv, TaskOK, pipeVars, busVars, waitVars, history, Goto,
         Tasks
<1>Scanned. CASE Scanned
  BY <1>Scanned
     DEF Scanned, IInv, TaskOK, pipeVars, busVars, waitVars, history, Goto, Tasks
<1>Sleep. CASE Sleep
  BY <1>Sleep DEF Sleep, IInv, TaskOK, pipeVars, busVars, waitVars, history, Goto, Tasks
<1>WakePoller. CASE WakePoller
  BY <1>WakePoller
     DEF WakePoller, IInv, TaskOK, pipeVars, busVars, waitVars, history, Goto, Tasks
<1>EndTurn. CASE EndTurn
  BY <1>EndTurn
     DEF EndTurn, IInv, TaskOK, pipeVars, busVars, waitVars, history, Goto, Tasks
<1>Tick. CASE Tick
  BY <1>Tick DEF Tick, IInv, TaskOK, pipeVars, busVars, waitVars, history
<1>Stutter. CASE UNCHANGED vars
  BY <1>Stutter DEF vars, IInv, TaskOK, pipeVars, busVars, waitVars, history
<1>. QED
  BY <1>Dup, <1>Close, <1>CtlAdd, <1>CtlDel, <1>ScanEnd, <1>Write, <1>ReadNonBlock,
     <1>BeginRead, <1>ReadAgain, <1>PollPipe, <1>SubscribeReader, <1>WakeReader,
     <1>ReturnRead, <1>Read, <1>BeginWait, <1>Interrupted, <1>TimedOut, <1>Snapshot,
     <1>Status, <1>SubscribeScan, <1>Scanned, <1>Sleep, <1>WakePoller, <1>EndTurn,
     <1>Tick, <1>Stutter
     DEF Next, ReaderStep, PollerStep

\* A copy of the list lives for one turn.
LEMMA SnapStep ==
  ASSUME IInv, [Next]_vars
  PROVE  SnapInv'
<1>Dup. ASSUME NEW x \in Ends, Dup(x) PROVE SnapInv'
  BY <1>Dup, PipeAssumption
     DEF Dup, IInv, TaskOK, SnapInv, pipeVars, busVars, waitVars, history, Tasks
<1>Close. ASSUME NEW x \in Ends, Close(x) PROVE SnapInv'
  BY <1>Close, PipeAssumption
     DEF Close, IInv, TaskOK, SnapInv, pipeVars, busVars, waitVars, history, Tasks
<1>CtlAdd. ASSUME NEW x \in Ends, CtlAdd(x) PROVE SnapInv'
  BY <1>CtlAdd, PipeAssumption
     DEF CtlAdd, IInv, TaskOK, SnapInv, pipeVars, busVars, waitVars, history, Tasks
<1>CtlDel. ASSUME NEW x \in Ends, CtlDel(x) PROVE SnapInv'
  BY <1>CtlDel, PipeAssumption
     DEF CtlDel, IInv, TaskOK, SnapInv, pipeVars, busVars, waitVars, history, Tasks
<1>ScanEnd. ASSUME NEW x \in Ends, ScanEnd(x) PROVE SnapInv'
  BY <1>ScanEnd, PipeAssumption
     DEF ScanEnd, IInv, TaskOK, SnapInv, pipeVars, busVars, waitVars, history, Tasks,
         Goto
<1>Write. ASSUME NEW n \in 0 .. 2, Write(n) PROVE SnapInv'
  BY <1>Write, PipeAssumption
     DEF Write, IInv, TaskOK, SnapInv, pipeVars, busVars, waitVars, history, Tasks
<1>ReadNonBlock. ASSUME NEW n \in 1 .. 2, ReadNonBlock(n) PROVE SnapInv'
  BY <1>ReadNonBlock, PipeAssumption
     DEF ReadNonBlock, IInv, TaskOK, SnapInv, pipeVars, busVars, waitVars, history,
         Tasks
<1>BeginRead. ASSUME NEW r \in Readers, BeginRead(r) PROVE SnapInv'
  BY <1>BeginRead, PipeAssumption
     DEF BeginRead, IInv, TaskOK, SnapInv, pipeVars, busVars, waitVars, history, Tasks
<1>ReadAgain. ASSUME NEW r \in Readers, ReadAgain(r) PROVE SnapInv'
  BY <1>ReadAgain, PipeAssumption
     DEF ReadAgain, IInv, TaskOK, SnapInv, pipeVars, busVars, waitVars, history, Tasks
<1>PollPipe. ASSUME NEW r \in Readers, PollPipe(r) PROVE SnapInv'
  BY <1>PollPipe, PipeAssumption
     DEF PollPipe, IInv, TaskOK, SnapInv, pipeVars, busVars, waitVars, history, Tasks
<1>SubscribeReader. ASSUME NEW r \in Readers, SubscribeReader(r) PROVE SnapInv'
  BY <1>SubscribeReader, PipeAssumption
     DEF SubscribeReader, IInv, TaskOK, SnapInv, pipeVars, busVars, waitVars, history,
         Tasks
<1>WakeReader. ASSUME NEW r \in Readers, WakeReader(r) PROVE SnapInv'
  BY <1>WakeReader, PipeAssumption
     DEF WakeReader, IInv, TaskOK, SnapInv, pipeVars, busVars, waitVars, history,
         Tasks
<1>ReturnRead. ASSUME NEW r \in Readers, ReturnRead(r) PROVE SnapInv'
  BY <1>ReturnRead, PipeAssumption
     DEF ReturnRead, IInv, TaskOK, SnapInv, pipeVars, busVars, waitVars, history,
         Tasks
<1>Read. ASSUME NEW r \in Readers, NEW n \in 1 .. 2, Read(r, n) PROVE SnapInv'
  BY <1>Read, PipeAssumption
     DEF Read, IInv, TaskOK, SnapInv, pipeVars, busVars, waitVars, history, Tasks
<1>BeginWait. CASE BeginWait
  BY <1>BeginWait, PipeAssumption
     DEF BeginWait, IInv, TaskOK, SnapInv, pipeVars, busVars, waitVars, history,
         Tasks, Goto
<1>Interrupted. CASE Interrupted
  BY <1>Interrupted, PipeAssumption
     DEF Interrupted, IInv, TaskOK, SnapInv, pipeVars, busVars, waitVars, history,
         Tasks, Goto
<1>TimedOut. CASE TimedOut
  BY <1>TimedOut, PipeAssumption
     DEF TimedOut, IInv, TaskOK, SnapInv, pipeVars, busVars, waitVars, history, Tasks,
         Goto
<1>Snapshot. CASE Snapshot
  BY <1>Snapshot, PipeAssumption
     DEF Snapshot, IInv, TaskOK, SnapInv, pipeVars, busVars, waitVars, history, Tasks,
         Goto
<1>Status. CASE Status
  BY <1>Status, PipeAssumption
     DEF Status, IInv, TaskOK, SnapInv, pipeVars, busVars, waitVars, history, Tasks,
         Goto
<1>SubscribeScan. CASE SubscribeScan
  BY <1>SubscribeScan, PipeAssumption
     DEF SubscribeScan, IInv, TaskOK, SnapInv, pipeVars, busVars, waitVars, history,
         Tasks, Goto
<1>Scanned. CASE Scanned
  BY <1>Scanned, PipeAssumption
     DEF Scanned, IInv, TaskOK, SnapInv, pipeVars, busVars, waitVars, history, Tasks,
         Goto
<1>Sleep. CASE Sleep
  BY <1>Sleep, PipeAssumption
     DEF Sleep, IInv, TaskOK, SnapInv, pipeVars, busVars, waitVars, history, Tasks,
         Goto
<1>WakePoller. CASE WakePoller
  BY <1>WakePoller, PipeAssumption
     DEF WakePoller, IInv, TaskOK, SnapInv, pipeVars, busVars, waitVars, history,
         Tasks, Goto
<1>EndTurn. CASE EndTurn
  BY <1>EndTurn, PipeAssumption
     DEF EndTurn, IInv, TaskOK, SnapInv, pipeVars, busVars, waitVars, history, Tasks,
         Goto
<1>Tick. CASE Tick
  BY <1>Tick, PipeAssumption
     DEF Tick, IInv, TaskOK, SnapInv, pipeVars, busVars, waitVars, history, Tasks
<1>Stutter. CASE UNCHANGED vars
  BY <1>Stutter, PipeAssumption
     DEF vars, IInv, TaskOK, SnapInv, pipeVars, busVars, waitVars, history, Tasks
<1>. QED
  BY <1>Dup, <1>Close, <1>CtlAdd, <1>CtlDel, <1>ScanEnd, <1>Write, <1>ReadNonBlock,
     <1>BeginRead, <1>ReadAgain, <1>PollPipe, <1>SubscribeReader, <1>WakeReader,
     <1>ReturnRead, <1>Read, <1>BeginWait, <1>Interrupted, <1>TimedOut, <1>Snapshot,
     <1>Status, <1>SubscribeScan, <1>Scanned, <1>Sleep, <1>WakePoller, <1>EndTurn,
     <1>Tick, <1>Stutter
     DEF Next, ReaderStep, PollerStep

\* The counts follow the references.
LEMMA CntStep ==
  ASSUME IInv, [Next]_vars
  PROVE  CntInv'
<1>Dup. ASSUME NEW x \in Ends, Dup(x) PROVE CntInv'
  BY <1>Dup, PipeAssumption
     DEF Dup, IInv, DataOK, TaskOK, CntInv, Refers, Held, pipeVars, busVars, waitVars,
         history
<1>Close. ASSUME NEW x \in Ends, Close(x) PROVE CntInv'
  <2>1. \A y \in Ends : Refers(y)' => Refers(y)
    BY <1>Close, PipeAssumption
       DEF Close, IInv, DataOK, TaskOK, Refers, Held, waitVars
  <2>. QED
    BY <1>Close, <2>1, DropFacts DEF Close, IInv
<1>CtlAdd. ASSUME NEW x \in Ends, CtlAdd(x) PROVE CntInv'
  BY <1>CtlAdd, PipeAssumption
     DEF CtlAdd, IInv, DataOK, TaskOK, CntInv, Refers, Held, pipeVars, busVars,
         waitVars, history
<1>CtlDel. ASSUME NEW x \in Ends, CtlDel(x) PROVE CntInv'
  <2>1. \A y \in Ends : Refers(y)' => Refers(y)
    BY <1>CtlDel, PipeAssumption
       DEF CtlDel, IInv, DataOK, TaskOK, Refers, Held, waitVars
  <2>. QED
    BY <1>CtlDel, <2>1, DropFacts DEF CtlDel, IInv
<1>ScanEnd. ASSUME NEW x \in Ends, ScanEnd(x) PROVE CntInv'
  BY <1>ScanEnd, PipeAssumption
     DEF ScanEnd, IInv, DataOK, TaskOK, CntInv, Refers, Held, pipeVars, busVars,
         waitVars, history, Goto, Tasks
<1>Write. ASSUME NEW n \in 0 .. 2, Write(n) PROVE CntInv'
  BY <1>Write, PipeAssumption
     DEF Write, IInv, DataOK, TaskOK, CntInv, Refers, Held, pipeVars, busVars,
         waitVars, history
<1>ReadNonBlock. ASSUME NEW n \in 1 .. 2, ReadNonBlock(n) PROVE CntInv'
  BY <1>ReadNonBlock, PipeAssumption
     DEF ReadNonBlock, IInv, DataOK, TaskOK, CntInv, Refers, Held, pipeVars, busVars,
         waitVars, history
<1>BeginRead. ASSUME NEW r \in Readers, BeginRead(r) PROVE CntInv'
  BY <1>BeginRead, PipeAssumption
     DEF BeginRead, IInv, DataOK, TaskOK, CntInv, Refers, Held, pipeVars, busVars,
         waitVars, history, Tasks
<1>ReadAgain. ASSUME NEW r \in Readers, ReadAgain(r) PROVE CntInv'
  BY <1>ReadAgain, PipeAssumption
     DEF ReadAgain, IInv, DataOK, TaskOK, CntInv, Refers, Held, pipeVars, busVars,
         waitVars, history, Tasks
<1>PollPipe. ASSUME NEW r \in Readers, PollPipe(r) PROVE CntInv'
  BY <1>PollPipe, PipeAssumption
     DEF PollPipe, IInv, DataOK, TaskOK, CntInv, Refers, Held, pipeVars, busVars,
         waitVars, history, Tasks
<1>SubscribeReader. ASSUME NEW r \in Readers, SubscribeReader(r) PROVE CntInv'
  BY <1>SubscribeReader, PipeAssumption
     DEF SubscribeReader, IInv, DataOK, TaskOK, CntInv, Refers, Held, pipeVars,
         busVars, waitVars, history, Tasks
<1>WakeReader. ASSUME NEW r \in Readers, WakeReader(r) PROVE CntInv'
  BY <1>WakeReader, PipeAssumption
     DEF WakeReader, IInv, DataOK, TaskOK, CntInv, Refers, Held, pipeVars, busVars,
         waitVars, history, Tasks
<1>ReturnRead. ASSUME NEW r \in Readers, ReturnRead(r) PROVE CntInv'
  <2>1. \A y \in Ends : Refers(y)' => Refers(y)
    BY <1>ReturnRead, PipeAssumption
       DEF ReturnRead, IInv, DataOK, TaskOK, Refers, Held, waitVars, Tasks
  <2>. QED
    BY <1>ReturnRead, <2>1, DropFacts DEF ReturnRead, IInv
<1>Read. ASSUME NEW r \in Readers, NEW n \in 1 .. 2, Read(r, n) PROVE CntInv'
  BY <1>Read, PipeAssumption
     DEF Read, IInv, DataOK, TaskOK, CntInv, Refers, Held, pipeVars, busVars,
         waitVars, history, Tasks
<1>BeginWait. CASE BeginWait
  BY <1>BeginWait, PipeAssumption
     DEF BeginWait, IInv, DataOK, TaskOK, CntInv, Refers, Held, pipeVars, busVars,
         waitVars, history, Goto, Tasks
<1>Interrupted. CASE Interrupted
  BY <1>Interrupted, PipeAssumption
     DEF Interrupted, IInv, DataOK, TaskOK, CntInv, Refers, Held, pipeVars, busVars,
         waitVars, history, Goto, Tasks
<1>TimedOut. CASE TimedOut
  BY <1>TimedOut, PipeAssumption
     DEF TimedOut, IInv, DataOK, TaskOK, CntInv, Refers, Held, pipeVars, busVars,
         waitVars, history, Goto, Tasks
<1>Snapshot. CASE Snapshot
  BY <1>Snapshot, PipeAssumption
     DEF Snapshot, IInv, DataOK, TaskOK, CntInv, Refers, Held, pipeVars, busVars,
         waitVars, history, Goto, Tasks, SnapInv
<1>Status. CASE Status
  BY <1>Status, PipeAssumption
     DEF Status, IInv, DataOK, TaskOK, CntInv, Refers, Held, pipeVars, busVars,
         waitVars, history, Goto, Tasks
<1>SubscribeScan. CASE SubscribeScan
  BY <1>SubscribeScan, PipeAssumption
     DEF SubscribeScan, IInv, DataOK, TaskOK, CntInv, Refers, Held, pipeVars, busVars,
         waitVars, history, Goto, Tasks
<1>Scanned. CASE Scanned
  BY <1>Scanned, PipeAssumption
     DEF Scanned, IInv, DataOK, TaskOK, CntInv, Refers, Held, pipeVars, busVars,
         waitVars, history, Goto, Tasks
<1>Sleep. CASE Sleep
  BY <1>Sleep, PipeAssumption
     DEF Sleep, IInv, DataOK, TaskOK, CntInv, Refers, Held, pipeVars, busVars,
         waitVars, history, Goto, Tasks
<1>WakePoller. CASE WakePoller
  BY <1>WakePoller, PipeAssumption
     DEF WakePoller, IInv, DataOK, TaskOK, CntInv, Refers, Held, pipeVars, busVars,
         waitVars, history, Goto, Tasks
<1>EndTurn. CASE EndTurn
  <2>1. \A y \in Ends : Refers(y)' => Refers(y)
    BY <1>EndTurn, PipeAssumption
       DEF EndTurn, IInv, DataOK, TaskOK, Refers, Held, waitVars, Goto, Tasks
  <2>. QED
    BY <1>EndTurn, <2>1, DropFacts DEF EndTurn, IInv
<1>Tick. CASE Tick
  BY <1>Tick, PipeAssumption
     DEF Tick, IInv, DataOK, TaskOK, CntInv, Refers, Held, pipeVars, busVars,
         waitVars, history
<1>Stutter. CASE UNCHANGED vars
  BY <1>Stutter, PipeAssumption
     DEF vars, IInv, DataOK, TaskOK, CntInv, Refers, Held, pipeVars, busVars,
         waitVars, history
<1>. QED
  BY <1>Dup, <1>Close, <1>CtlAdd, <1>CtlDel, <1>ScanEnd, <1>Write, <1>ReadNonBlock,
     <1>BeginRead, <1>ReadAgain, <1>PollPipe, <1>SubscribeReader, <1>WakeReader,
     <1>ReturnRead, <1>Read, <1>BeginWait, <1>Interrupted, <1>TimedOut, <1>Snapshot,
     <1>Status, <1>SubscribeScan, <1>Scanned, <1>Sleep, <1>WakePoller, <1>EndTurn,
     <1>Tick, <1>Stutter
     DEF Next, ReaderStep, PollerStep

\* What is read and what is left are what was written.
LEMMA StreamStep ==
  ASSUME IInv, [Next]_vars
  PROVE  StreamInv'
<1>Dup. ASSUME NEW x \in Ends, Dup(x) PROVE StreamInv'
  BY <1>Dup DEF Dup, IInv, StreamInv, pipeVars, busVars, waitVars, history
<1>Close. ASSUME NEW x \in Ends, Close(x) PROVE StreamInv'
  BY <1>Close DEF Close, IInv, StreamInv, pipeVars, busVars, waitVars, history
<1>CtlAdd. ASSUME NEW x \in Ends, CtlAdd(x) PROVE StreamInv'
  BY <1>CtlAdd DEF CtlAdd, IInv, StreamInv, pipeVars, busVars, waitVars, history
<1>CtlDel. ASSUME NEW x \in Ends, CtlDel(x) PROVE StreamInv'
  BY <1>CtlDel DEF CtlDel, IInv, StreamInv, pipeVars, busVars, waitVars, history
<1>ScanEnd. ASSUME NEW x \in Ends, ScanEnd(x) PROVE StreamInv'
  BY <1>ScanEnd DEF ScanEnd, IInv, StreamInv, pipeVars, busVars, waitVars, history
<1>Write. ASSUME NEW n \in 0 .. 2, Write(n) PROVE StreamInv'
  <2>1. written \in Nat /\ n \in Nat /\ written' = written + n /\ got' = got
    BY <1>Write DEF Write, IInv, DataOK
  <2>2. PICK more \in Seq(Nat) : more = [i \in 1 .. n |-> written + i]
    <3>1. [i \in 1 .. n |-> written + i] \in Seq(Nat)
      BY <2>1
    <3>. QED
      BY <3>1
  <2>3. buf \in Seq(Nat) /\ got \in Seq(Nat)
    <3>1. Bytes \subseteq Nat
      BY PipeAssumption DEF Bytes
    <3>. QED
      BY <3>1, SeqMonotonic DEF IInv, DataOK
  <2>4. buf' = buf \o more
    BY <1>Write, <2>2 DEF Write
  <2>5. got \o (buf \o more) = (got \o buf) \o more
    <3>1. PICK g \in Seq(Nat) : g = got
      BY <2>3
    <3>2. PICK b \in Seq(Nat) : b = buf
      BY <2>3
    <3>3. g \o (b \o more) = (g \o b) \o more
      BY SMTT(60)
    <3>. QED
      BY <3>1, <3>2, <3>3
  <2>6. got' \o buf' = [i \in 1 .. written |-> i] \o [i \in 1 .. n |-> written + i]
    BY <2>1, <2>2, <2>4, <2>5 DEF IInv, StreamInv
  <2>. QED
    BY <2>1, <2>6, WriteFacts DEF StreamInv
<1>ReadNonBlock. ASSUME NEW n \in 1 .. 2, ReadNonBlock(n) PROVE StreamInv'
  <2>1. PICK k \in 0 .. Len(buf) :
          /\ buf' = SubSeq(buf, k + 1, Len(buf)) /\ got' = got \o SubSeq(buf, 1, k)
    <3>1. DataOK /\ n \in Nat /\ Take(n)
      BY <1>ReadNonBlock DEF ReadNonBlock, IInv
    <3>. QED
      BY <3>1, TakeSome
  <2>2. got' \o buf' = got \o buf
    BY <2>1, TakeJoins, Zenon DEF IInv
  <2>. QED
    BY <1>ReadNonBlock, <2>2 DEF ReadNonBlock, IInv, StreamInv
<1>BeginRead. ASSUME NEW r \in Readers, BeginRead(r) PROVE StreamInv'
  BY <1>BeginRead DEF BeginRead, IInv, StreamInv, pipeVars, busVars, waitVars, history
<1>ReadAgain. ASSUME NEW r \in Readers, ReadAgain(r) PROVE StreamInv'
  BY <1>ReadAgain DEF ReadAgain, IInv, StreamInv, pipeVars, busVars, waitVars, history
<1>PollPipe. ASSUME NEW r \in Readers, PollPipe(r) PROVE StreamInv'
  BY <1>PollPipe DEF PollPipe, IInv, StreamInv, pipeVars, busVars, waitVars, history
<1>SubscribeReader. ASSUME NEW r \in Readers, SubscribeReader(r) PROVE StreamInv'
  BY <1>SubscribeReader
     DEF SubscribeReader, IInv, StreamInv, pipeVars, busVars, waitVars, history
<1>WakeReader. ASSUME NEW r \in Readers, WakeReader(r) PROVE StreamInv'
  BY <1>WakeReader DEF WakeReader, IInv, StreamInv, pipeVars, busVars, waitVars, history
<1>ReturnRead. ASSUME NEW r \in Readers, ReturnRead(r) PROVE StreamInv'
  BY <1>ReturnRead DEF ReturnRead, IInv, StreamInv, pipeVars, busVars, waitVars, history
<1>Read. ASSUME NEW r \in Readers, NEW n \in 1 .. 2, Read(r, n) PROVE StreamInv'
  <2>1. PICK k \in 0 .. Len(buf) :
          /\ buf' = SubSeq(buf, k + 1, Len(buf)) /\ got' = got \o SubSeq(buf, 1, k)
    <3>1. DataOK /\ n \in Nat /\ Take(n)
      BY <1>Read DEF Read, IInv
    <3>. QED
      BY <3>1, TakeSome
  <2>2. got' \o buf' = got \o buf
    BY <2>1, TakeJoins, Zenon DEF IInv
  <2>. QED
    BY <1>Read, <2>2 DEF Read, IInv, StreamInv
<1>BeginWait. CASE BeginWait
  BY <1>BeginWait DEF BeginWait, IInv, StreamInv, pipeVars, busVars, waitVars, history
<1>Interrupted. CASE Interrupted
  BY <1>Interrupted DEF Interrupted, IInv, StreamInv, pipeVars, busVars, waitVars, history
<1>TimedOut. CASE TimedOut
  BY <1>TimedOut DEF TimedOut, IInv, StreamInv, pipeVars, busVars, waitVars, history
<1>Snapshot. CASE Snapshot
  BY <1>Snapshot DEF Snapshot, IInv, StreamInv, pipeVars, busVars, waitVars, history
<1>Status. CASE Status
  BY <1>Status DEF Status, IInv, StreamInv, pipeVars, busVars, waitVars, history
<1>SubscribeScan. CASE SubscribeScan
  BY <1>SubscribeScan
     DEF SubscribeScan, IInv, StreamInv, pipeVars, busVars, waitVars, history
<1>Scanned. CASE Scanned
  BY <1>Scanned DEF Scanned, IInv, StreamInv, pipeVars, busVars, waitVars, history
<1>Sleep. CASE Sleep
  BY <1>Sleep DEF Sleep, IInv, StreamInv, pipeVars, busVars, waitVars, history
<1>WakePoller. CASE WakePoller
  BY <1>WakePoller DEF WakePoller, IInv, StreamInv, pipeVars, busVars, waitVars, history
<1>EndTurn. CASE EndTurn
  BY <1>EndTurn DEF EndTurn, IInv, StreamInv, pipeVars, busVars, waitVars, history
<1>Tick. CASE Tick
  BY <1>Tick DEF Tick, IInv, StreamInv, pipeVars, busVars, waitVars, history
<1>Stutter. CASE UNCHANGED vars
  BY <1>Stutter DEF vars, IInv, StreamInv, pipeVars, busVars, waitVars, history
<1>. QED
  BY <1>Dup, <1>Close, <1>CtlAdd, <1>CtlDel, <1>ScanEnd, <1>Write, <1>ReadNonBlock,
     <1>BeginRead, <1>ReadAgain, <1>PollPipe, <1>SubscribeReader, <1>WakeReader,
     <1>ReturnRead, <1>Read, <1>BeginWait, <1>Interrupted, <1>TimedOut, <1>Snapshot,
     <1>Status, <1>SubscribeScan, <1>Scanned, <1>Sleep, <1>WakePoller, <1>EndTurn,
     <1>Tick, <1>Stutter
     DEF Next, ReaderStep, PollerStep

\* The end of the file stays the end.
LEMMA EofStep ==
  ASSUME IInv, [Next]_vars
  PROVE  EofInv'
<1>Dup. ASSUME NEW x \in Ends, Dup(x) PROVE EofInv'
  BY <1>Dup DEF Dup, IInv, EofInv, pipeVars, busVars, waitVars, history
<1>Close. ASSUME NEW x \in Ends, Close(x) PROVE EofInv'
  <2>1. \A y \in Ends : Refers(y)' => Refers(y)
    BY <1>Close, PipeAssumption
       DEF Close, IInv, DataOK, TaskOK, Refers, Held, waitVars
  <2>2. cnt' \in [Ends -> 0 .. 1] /\ cnt'["w"] <= cnt["w"]
    BY <1>Close, <2>1, DropFacts DEF Close, IInv, Ends
  <2>. QED
    BY <1>Close, <2>2 DEF Close, IInv, DataOK, EofInv, history, Ends
<1>CtlAdd. ASSUME NEW x \in Ends, CtlAdd(x) PROVE EofInv'
  BY <1>CtlAdd DEF CtlAdd, IInv, EofInv, pipeVars, busVars, waitVars, history
<1>CtlDel. ASSUME NEW x \in Ends, CtlDel(x) PROVE EofInv'
  <2>1. \A y \in Ends : Refers(y)' => Refers(y)
    BY <1>CtlDel, PipeAssumption
       DEF CtlDel, IInv, DataOK, TaskOK, Refers, Held, waitVars
  <2>2. cnt' \in [Ends -> 0 .. 1] /\ cnt'["w"] <= cnt["w"]
    BY <1>CtlDel, <2>1, DropFacts DEF CtlDel, IInv, Ends
  <2>. QED
    BY <1>CtlDel, <2>2 DEF CtlDel, IInv, DataOK, EofInv, history, Ends
<1>ScanEnd. ASSUME NEW x \in Ends, ScanEnd(x) PROVE EofInv'
  BY <1>ScanEnd DEF ScanEnd, IInv, EofInv, pipeVars, busVars, waitVars, history
<1>Write. ASSUME NEW n \in 0 .. 2, Write(n) PROVE EofInv'
  <2>1. cnt["w"] # 0
    BY <1>Write DEF Write, IInv, CntInv, Refers, Held, Ends
  <2>. QED
    BY <1>Write, <2>1 DEF Write, IInv, EofInv
<1>ReadNonBlock. ASSUME NEW n \in 1 .. 2, ReadNonBlock(n) PROVE EofInv'
  <2>1. CASE buf = <<>>
    <3>1. buf' = <<>> /\ cnt["w"] = 0 /\ cnt' = cnt
      BY <1>ReadNonBlock, <2>1 DEF ReadNonBlock, Take, CanRead
    <3>. QED
      BY <3>1 DEF EofInv
  <2>2. CASE buf # <<>>
    <3>1. Len(buf) \in Nat \ {0} /\ ~eof
      BY <2>2, EmptySeq DEF IInv, DataOK, EofInv
    <3>2. PICK len \in Nat \ {0} : eof' = (eof \/ len = 0)
      BY <1>ReadNonBlock, <3>1 DEF ReadNonBlock, Take
    <3>. QED
      BY <3>1, <3>2 DEF EofInv
  <2>. QED
    BY <2>1, <2>2
<1>BeginRead. ASSUME NEW r \in Readers, BeginRead(r) PROVE EofInv'
  BY <1>BeginRead DEF BeginRead, IInv, EofInv, pipeVars, busVars, waitVars, history
<1>ReadAgain. ASSUME NEW r \in Readers, ReadAgain(r) PROVE EofInv'
  BY <1>ReadAgain DEF ReadAgain, IInv, EofInv, pipeVars, busVars, waitVars, history
<1>PollPipe. ASSUME NEW r \in Readers, PollPipe(r) PROVE EofInv'
  BY <1>PollPipe DEF PollPipe, IInv, EofInv, pipeVars, busVars, waitVars, history
<1>SubscribeReader. ASSUME NEW r \in Readers, SubscribeReader(r) PROVE EofInv'
  BY <1>SubscribeReader
     DEF SubscribeReader, IInv, EofInv, pipeVars, busVars, waitVars, history
<1>WakeReader. ASSUME NEW r \in Readers, WakeReader(r) PROVE EofInv'
  BY <1>WakeReader DEF WakeReader, IInv, EofInv, pipeVars, busVars, waitVars, history
<1>ReturnRead. ASSUME NEW r \in Readers, ReturnRead(r) PROVE EofInv'
  <2>1. \A y \in Ends : Refers(y)' => Refers(y)
    BY <1>ReturnRead, PipeAssumption
       DEF ReturnRead, IInv, DataOK, TaskOK, Refers, Held, waitVars, Tasks
  <2>2. cnt' \in [Ends -> 0 .. 1] /\ cnt'["w"] <= cnt["w"]
    BY <1>ReturnRead, <2>1, DropFacts DEF ReturnRead, IInv, Ends
  <2>. QED
    BY <1>ReturnRead, <2>2 DEF ReturnRead, IInv, DataOK, EofInv, history, Ends
<1>Read. ASSUME NEW r \in Readers, NEW n \in 1 .. 2, Read(r, n) PROVE EofInv'
  <2>1. CASE buf = <<>>
    <3>1. buf' = <<>> /\ cnt["w"] = 0 /\ cnt' = cnt
      BY <1>Read, <2>1 DEF Read, Take, CanRead
    <3>. QED
      BY <3>1 DEF EofInv
  <2>2. CASE buf # <<>>
    <3>1. Len(buf) \in Nat \ {0} /\ ~eof
      BY <2>2, EmptySeq DEF IInv, DataOK, EofInv
    <3>2. PICK len \in Nat \ {0} : eof' = (eof \/ len = 0)
      BY SMTT(30), <1>Read, <3>1 DEF Read, Take
    <3>. QED
      BY <3>1, <3>2 DEF EofInv
  <2>. QED
    BY <2>1, <2>2
<1>BeginWait. CASE BeginWait
  BY <1>BeginWait DEF BeginWait, IInv, EofInv, pipeVars, busVars, waitVars, history
<1>Interrupted. CASE Interrupted
  BY <1>Interrupted DEF Interrupted, IInv, EofInv, pipeVars, busVars, waitVars, history
<1>TimedOut. CASE TimedOut
  BY <1>TimedOut DEF TimedOut, IInv, EofInv, pipeVars, busVars, waitVars, history
<1>Snapshot. CASE Snapshot
  BY <1>Snapshot DEF Snapshot, IInv, EofInv, pipeVars, busVars, waitVars, history
<1>Status. CASE Status
  BY <1>Status DEF Status, IInv, EofInv, pipeVars, busVars, waitVars, history
<1>SubscribeScan. CASE SubscribeScan
  BY <1>SubscribeScan
     DEF SubscribeScan, IInv, EofInv, pipeVars, busVars, waitVars, history
<1>Scanned. CASE Scanned
  BY <1>Scanned DEF Scanned, IInv, EofInv, pipeVars, busVars, waitVars, history
<1>Sleep. CASE Sleep
  BY <1>Sleep DEF Sleep, IInv, EofInv, pipeVars, busVars, waitVars, history
<1>WakePoller. CASE WakePoller
  BY <1>WakePoller DEF WakePoller, IInv, EofInv, pipeVars, busVars, waitVars, history
<1>EndTurn. CASE EndTurn
  <2>1. \A y \in Ends : Refers(y)' => Refers(y)
    BY <1>EndTurn, PipeAssumption
       DEF EndTurn, IInv, DataOK, TaskOK, Refers, Held, waitVars, Goto, Tasks
  <2>2. cnt' \in [Ends -> 0 .. 1] /\ cnt'["w"] <= cnt["w"]
    BY <1>EndTurn, <2>1, DropFacts DEF EndTurn, IInv, Ends
  <2>. QED
    BY <1>EndTurn, <2>2 DEF EndTurn, IInv, DataOK, EofInv, history, Ends
<1>Tick. CASE Tick
  BY <1>Tick DEF Tick, IInv, EofInv, pipeVars, busVars, waitVars, history
<1>Stutter. CASE UNCHANGED vars
  BY <1>Stutter DEF vars, IInv, EofInv, pipeVars, busVars, waitVars, history
<1>. QED
  BY <1>Dup, <1>Close, <1>CtlAdd, <1>CtlDel, <1>ScanEnd, <1>Write, <1>ReadNonBlock,
     <1>BeginRead, <1>ReadAgain, <1>PollPipe, <1>SubscribeReader, <1>WakeReader,
     <1>ReturnRead, <1>Read, <1>BeginWait, <1>Interrupted, <1>TimedOut, <1>Snapshot,
     <1>Status, <1>SubscribeScan, <1>Scanned, <1>Sleep, <1>WakePoller, <1>EndTurn,
     <1>Tick, <1>Stutter
     DEF Next, ReaderStep, PollerStep

\* The mark of the end is a Boolean.
LEMMA BoolStep ==
  ASSUME IInv, [Next]_vars
  PROVE  (eof \in BOOLEAN)'
<1>Dup. ASSUME NEW x \in Ends, Dup(x) PROVE (eof \in BOOLEAN)'
  BY <1>Dup DEF Dup, IInv, pipeVars, busVars, waitVars, history
<1>Close. ASSUME NEW x \in Ends, Close(x) PROVE (eof \in BOOLEAN)'
  BY <1>Close DEF Close, IInv, pipeVars, busVars, waitVars, history
<1>CtlAdd. ASSUME NEW x \in Ends, CtlAdd(x) PROVE (eof \in BOOLEAN)'
  BY <1>CtlAdd DEF CtlAdd, IInv, pipeVars, busVars, waitVars, history
<1>CtlDel. ASSUME NEW x \in Ends, CtlDel(x) PROVE (eof \in BOOLEAN)'
  BY <1>CtlDel DEF CtlDel, IInv, pipeVars, busVars, waitVars, history
<1>ScanEnd. ASSUME NEW x \in Ends, ScanEnd(x) PROVE (eof \in BOOLEAN)'
  BY <1>ScanEnd DEF ScanEnd, IInv, pipeVars, busVars, waitVars, history
<1>Write. ASSUME NEW n \in 0 .. 2, Write(n) PROVE (eof \in BOOLEAN)'
  BY <1>Write DEF Write, IInv, pipeVars, busVars, waitVars, history
<1>ReadNonBlock. ASSUME NEW n \in 1 .. 2, ReadNonBlock(n) PROVE (eof \in BOOLEAN)'
  BY <1>ReadNonBlock, Zenon DEF ReadNonBlock, Take, IInv
<1>BeginRead. ASSUME NEW r \in Readers, BeginRead(r) PROVE (eof \in BOOLEAN)'
  BY <1>BeginRead DEF BeginRead, IInv, pipeVars, busVars, waitVars, history
<1>ReadAgain. ASSUME NEW r \in Readers, ReadAgain(r) PROVE (eof \in BOOLEAN)'
  BY <1>ReadAgain DEF ReadAgain, IInv, pipeVars, busVars, waitVars, history
<1>PollPipe. ASSUME NEW r \in Readers, PollPipe(r) PROVE (eof \in BOOLEAN)'
  BY <1>PollPipe DEF PollPipe, IInv, pipeVars, busVars, waitVars, history
<1>SubscribeReader. ASSUME NEW r \in Readers, SubscribeReader(r) PROVE (eof \in BOOLEAN)'
  BY <1>SubscribeReader DEF SubscribeReader, IInv, pipeVars, busVars, waitVars, history
<1>WakeReader. ASSUME NEW r \in Readers, WakeReader(r) PROVE (eof \in BOOLEAN)'
  BY <1>WakeReader DEF WakeReader, IInv, pipeVars, busVars, waitVars, history
<1>ReturnRead. ASSUME NEW r \in Readers, ReturnRead(r) PROVE (eof \in BOOLEAN)'
  BY <1>ReturnRead DEF ReturnRead, IInv, pipeVars, busVars, waitVars, history
<1>Read. ASSUME NEW r \in Readers, NEW n \in 1 .. 2, Read(r, n) PROVE (eof \in BOOLEAN)'
  BY <1>Read, Zenon DEF Read, Take, IInv
<1>BeginWait. CASE BeginWait
  BY <1>BeginWait DEF BeginWait, IInv, pipeVars, busVars, waitVars, history
<1>Interrupted. CASE Interrupted
  BY <1>Interrupted DEF Interrupted, IInv, pipeVars, busVars, waitVars, history
<1>TimedOut. CASE TimedOut
  BY <1>TimedOut DEF TimedOut, IInv, pipeVars, busVars, waitVars, history
<1>Snapshot. CASE Snapshot
  BY <1>Snapshot DEF Snapshot, IInv, pipeVars, busVars, waitVars, history
<1>Status. CASE Status
  BY <1>Status DEF Status, IInv, pipeVars, busVars, waitVars, history
<1>SubscribeScan. CASE SubscribeScan
  BY <1>SubscribeScan DEF SubscribeScan, IInv, pipeVars, busVars, waitVars, history
<1>Scanned. CASE Scanned
  BY <1>Scanned DEF Scanned, IInv, pipeVars, busVars, waitVars, history
<1>Sleep. CASE Sleep
  BY <1>Sleep DEF Sleep, IInv, pipeVars, busVars, waitVars, history
<1>WakePoller. CASE WakePoller
  BY <1>WakePoller DEF WakePoller, IInv, pipeVars, busVars, waitVars, history
<1>EndTurn. CASE EndTurn
  BY <1>EndTurn DEF EndTurn, IInv, pipeVars, busVars, waitVars, history
<1>Tick. CASE Tick
  BY <1>Tick DEF Tick, IInv, pipeVars, busVars, waitVars, history
<1>Stutter. CASE UNCHANGED vars
  BY <1>Stutter DEF vars, IInv, pipeVars, busVars, waitVars, history
<1>. QED
  BY <1>Dup, <1>Close, <1>CtlAdd, <1>CtlDel, <1>ScanEnd, <1>Write, <1>ReadNonBlock,
     <1>BeginRead, <1>ReadAgain, <1>PollPipe, <1>SubscribeReader, <1>WakeReader,
     <1>ReturnRead, <1>Read, <1>BeginWait, <1>Interrupted, <1>TimedOut, <1>Snapshot,
     <1>Status, <1>SubscribeScan, <1>Scanned, <1>Sleep, <1>WakePoller, <1>EndTurn,
     <1>Tick, <1>Stutter
     DEF Next, ReaderStep, PollerStep

-----------------------------------------------------------------------------
\* IInv holds throughout.
LEMMA Inductive == Spec => []IInv
<1>1. IInv /\ [Next]_vars => IInv'
  BY DataStep, BusStep, TaskStep, BoolStep, SnapStep, CntStep, StreamStep, EofStep
     DEF IInv
<1>. QED
  BY InitInv, <1>1, PTL DEF Spec

\* The types of all variables; the table of the bus never outgrows its limit.
THEOREM TypeCorrect == Spec => []TypeOK
<1>1. IInv => TypeOK
  BY DEF IInv, DataOK, BusOK, TaskOK, TypeOK, Bytes
<1>. QED
  BY Inductive, <1>1, PTL

\* The readers get what was written, once and in order, and a read of no
\* bytes comes only after every byte, when no file, fork, epoll or scan is
\* left through which more could be written. For any number of readers,
\* files and bytes.
THEOREM StreamThenEofHolds == Spec => []StreamThenEof
<1>1. ASSUME IInv, cnt["w"] = 0 PROVE fds["w"] = 0
  BY <1>1 DEF IInv, DataOK, CntInv, Refers, Held, Ends
<1>2. IInv => StreamThenEof
  BY <1>1 DEF IInv, StreamInv, EofInv, StreamThenEof
<1>. QED
  BY Inductive, <1>2, PTL

\* An end is counted as open exactly while a file, a read under way, the
\* epoll or its scan refers to it: neither is it closed under a user, nor
\* does a reference that went with another one keep it open.
THEOREM EndsAreCounted == Spec => []CntInv
  BY Inductive, PTL DEF IInv

=============================================================================

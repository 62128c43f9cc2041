----------------------------- MODULE Ipc_proofs -----------------------------
(***************************************************************************)
(* Theorems about the objects threads communicate through, for any number  *)
(* of threads, messages, packets and objects.  Channels: a message is in   *)
(* one place, READABLE follows the queue, and an endpoint whose last Arc   *)
(* is gone never gets another one.  Waits and subscriptions on signals     *)
(* (KObject): nobody sleeps over an asserted signal.  Ports: packets are   *)
(* returned once, in order, and not after they were taken back.            *)
(***************************************************************************)
EXTENDS Channel, KObject, Port, SequenceTheorems, FiniteSetTheorems, TLAPS

TxIds   == 0 .. (TxMod - 1)
Envelopes == [m : Msgs, tx : TxIds, call : BOOLEAN]
Senders == [tx : TxIds, thr : Threads \cup {None}]
Flying  == {"route", "push", "call_push"}

\* The types, in three parts: endpoints, operations, history.
EndsOK ==
  /\ open \subseteq Ends /\ readable \subseteq Ends /\ peerClosed \subseteq Ends
  /\ life \in [Ends -> {"live", "flush", "dead"}]
  /\ queue \in [Ends -> Seq(Envelopes)]
  /\ replies \in [Ends -> SUBSET Senders]
  /\ next \in [Ends -> TxIds]

OpsOK ==
  /\ pc \in [Threads -> {"idle", "route", "push", "call_push", "insert",
                         "drop_peer", "await"}]
  /\ msg \in [Threads -> Msgs \cup {None}]
  /\ tx \in [Threads -> TxIds]
  /\ ans \in [Threads -> Msgs \cup {None, "PEER_CLOSED"}]

HistOK == read \subseteq Msgs /\ gone \subseteq Msgs /\ drained \subseteq Ends

\* A write or a call under way has a packet, and no two have the same one.
FlightInv ==
  /\ \A t \in Threads : pc[t] \in Flying => msg[t] \in Msgs
  /\ \A t, u \in Threads : pc[t] \in Flying /\ pc[u] \in Flying /\ msg[t] = msg[u] => t = u

\* The messages of one queue are different ones.
DistinctInv ==
  \A e \in Ends : \A i, j \in 1 .. Len(queue[e]) : queue[e][i].m = queue[e][j].m => i = j

\* The places of a message have nothing in common.
ApartInv ==
  /\ \A e, f \in Ends : e # f => QueuedOn(e) \cap QueuedOn(f) = {}
  /\ \A e \in Ends : QueuedOn(e) \cap (read \cup gone \cup Answers \cup InFlight) = {}
  /\ read \cap (gone \cup Answers \cup InFlight) = {}
  /\ gone \cap (Answers \cup InFlight) = {}
  /\ Answers \cap InFlight = {}

\* Whoever was told that the peer is closed has an empty queue, and nobody is
\* left who could fill it.
DrainInv == \A e \in drained : queue[e] = <<>> /\ ~Alive(PeerOf[e])

IInv == EndsOK /\ OpsOK /\ HistOK /\ FlightInv /\ DistinctInv /\ ApartInv
        /\ ReadableExact /\ DrainInv

-----------------------------------------------------------------------------
(* Facts about the constants and the operators                               *)

\* The thread's endpoints are endpoints, and each is the other's peer.
LEMMA Peers ==
  /\ \A t \in Threads : Me(t) \in Ends /\ Peer(t) \in Ends /\ PeerOf[Peer(t)] = Me(t)
  /\ \A e \in Ends : PeerOf[e] \in Ends /\ PeerOf[PeerOf[e]] = e
  BY ChannelAssumption DEF Me, Peer

\* The messages of a queue.
LEMMA QueueFacts ==
  ASSUME EndsOK, NEW e \in Ends
  PROVE  /\ queue[e] \in Seq(Envelopes) /\ Len(queue[e]) \in Nat
         /\ QueuedOn(e) \subseteq Msgs
         /\ \A i \in 1 .. Len(queue[e]) :
              queue[e][i] \in Envelopes /\ queue[e][i].m \in QueuedOn(e)
<1>1. queue[e] \in Seq(Envelopes)
  BY DEF EndsOK
<1>2. Len(queue[e]) \in Nat /\ \A i \in 1 .. Len(queue[e]) : queue[e][i] \in Envelopes
  BY <1>1, LenProperties, ElementOfSeq
<1>. QED
  BY <1>1, <1>2 DEF QueuedOn, Envelopes

\* A message that is not used is nowhere.
LEMMA Unused ==
  ASSUME NEW m, m \notin Used
  PROVE  /\ m \notin read /\ m \notin gone /\ m \notin Answers /\ m \notin InFlight
         /\ \A e \in Ends : m \notin QueuedOn(e)
<1>1. \A e \in Ends : QueuedOn(e) \subseteq Queued
  BY Zenon DEF Queued
<1>. QED
  BY <1>1 DEF Used

\* No step gives an endpoint that is not referred to a new reference: not
\* even the write of a thread whose upgrade would come too late.
LEMMA AliveStep ==
  ASSUME EndsOK, OpsOK, [Next]_vars, NEW e \in Ends, ~Alive(e)
  PROVE  ~Alive(e)'
<1>0. /\ e \notin open /\ life[PeerOf[e]] # "flush"
      /\ \A t \in Threads : Me(t) = e => pc[t] = "idle"
      /\ \A t \in Threads : Peer(t) = e => ~HoldsPeer(t)
  BY DEF Alive
<1>. SUFFICES /\ e \notin open' /\ life'[PeerOf[e]] # "flush"
              /\ \A t \in Threads : Me(t) = e => pc'[t] = "idle"
              /\ \A t \in Threads : Peer(t) = e => ~HoldsPeer(t)'
  BY DEF Alive
<1>1. e \notin open'
  BY <1>0 DEF Next, ThreadStep, DropStep, RouteReply, RouteMiss, PushGeneral,
     InsertSender, DropPeer, CallReturn, CancelCall, Read, ReadClosed, BeginCall,
     WriteClosed, BeginWrite, Close, DropSignal, DropFlush, vars, ends, ops, hist
<1>2. life'[PeerOf[e]] # "flush"
  <2>1. CASE \E f \in Ends : DropStep(f)
    BY <1>0, <2>1, Peers DEF DropStep, DropSignal, DropFlush, EndsOK
  <2>2. CASE UNCHANGED life
    BY <1>0, <2>2
  <2>. QED
    BY <2>1, <2>2
     DEF Next, ThreadStep, RouteReply, RouteMiss, PushGeneral,
         InsertSender, DropPeer, CallReturn, CancelCall, Read, ReadClosed, BeginCall,
         WriteClosed, BeginWrite, Close, vars, ends, ops, hist
<1>3. ASSUME NEW t \in Threads, pc'[t] # pc[t]
      PROVE  Me(t) # e /\ (Peer(t) = e => ~HoldsPeer(t)')
  <2>1. CASE \E m \in Msgs : BeginCall(t, m) \/ \E x \in TxIds : BeginWrite(t, m, x)
    BY <1>0, <2>1, Zenon DEF BeginCall, BeginWrite, CanStart
  <2>2. CASE ThreadStep(t) \/ CancelCall(t)
    BY <1>0, <2>2 DEF ThreadStep, RouteReply, RouteMiss, PushGeneral, InsertSender,
       DropPeer, CallReturn, CancelCall, HoldsPeer, OpsOK
  <2>3. \/ \E m \in Msgs : BeginCall(t, m) \/ \E x \in TxIds : BeginWrite(t, m, x)
        \/ ThreadStep(t) \/ CancelCall(t)
    <3>1. CASE \E u \in Threads : ThreadStep(u) \/ CancelCall(u)
      BY <1>3, <3>1 DEF ThreadStep, RouteReply, RouteMiss, PushGeneral, InsertSender,
         DropPeer, CallReturn, CancelCall, OpsOK
    <3>2. CASE \E u \in Threads, m \in Msgs :
                 BeginCall(u, m) \/ \E x \in TxIds : BeginWrite(u, m, x)
      BY <1>3, <3>2 DEF BeginCall, BeginWrite, OpsOK
    <3>3. CASE UNCHANGED pc
      BY <1>3, <3>3
    <3>. QED
      BY <3>1, <3>2, <3>3
       DEF Next, DropStep, Read, ReadClosed, WriteClosed, Close, DropSignal, DropFlush,
           vars, ends, ops, hist, TxIds
  <2>. QED
    BY <2>1, <2>2, <2>3
<1>. QED
  BY <1>0, <1>1, <1>2, <1>3 DEF HoldsPeer

-----------------------------------------------------------------------------
LEMMA InitInv == Init => IInv
<1>. SUFFICES ASSUME Init PROVE IInv
  OBVIOUS
<1>0. <<>> \in Seq(Envelopes) /\ Len(<<>>) = 0
  OBVIOUS
<1>1. EndsOK /\ OpsOK /\ HistOK
  BY <1>0, ChannelAssumption DEF Init, EndsOK, OpsOK, HistOK, TxIds
<1>2. \A e \in Ends : queue[e] = <<>> /\ QueuedOn(e) = {}
  BY <1>0 DEF Init, QueuedOn
<1>3. FlightInv /\ DistinctInv /\ ReadableExact /\ DrainInv
  BY <1>0, <1>2 DEF Init, FlightInv, DistinctInv, ReadableExact, DrainInv, Flying
<1>4. InFlight = {} /\ Answers = {}
  BY ChannelAssumption DEF Init, InFlight, Answers
<1>5. ApartInv
  BY <1>2, <1>4 DEF Init, ApartInv
<1>. QED
  BY <1>1, <1>3, <1>5 DEF IInv

\* The endpoints keep their types; transaction ids wrap within their width.
LEMMA EndsStep ==
  ASSUME IInv, [Next]_vars
  PROVE  EndsOK'
<1>0. EndsOK /\ OpsOK
  BY DEF IInv
<1>RouteReply. ASSUME NEW t \in Threads, RouteReply(t) PROVE EndsOK'
  BY <1>0, <1>RouteReply DEF RouteReply, EndsOK
<1>Push. ASSUME NEW t \in Threads, PushGeneral(t) PROVE EndsOK'
  <2>1. Peer(t) \in Ends /\ queue[Peer(t)] \in Seq(Envelopes)
    BY <1>0, Peers DEF EndsOK
  <2>2. Packet(t) \in Envelopes
    <3>1. msg[t] \in Msgs /\ tx[t] \in TxIds
      BY <1>Push DEF PushGeneral, IInv, FlightInv, OpsOK, Flying
    <3>2. (pc[t] = "call_push") \in BOOLEAN
      BY Zenon
    <3>. QED
      BY <3>1, <3>2 DEF Packet, Envelopes
  <2>3. Append(queue[Peer(t)], Packet(t)) \in Seq(Envelopes)
    BY <2>1, <2>2, AppendProperties
  <2>4. queue' = [queue EXCEPT ![Peer(t)] = Append(queue[Peer(t)], Packet(t))]
    BY <1>Push DEF PushGeneral
  <2>5. queue' \in [Ends -> Seq(Envelopes)]
    BY <1>0, <2>1, <2>3, <2>4 DEF EndsOK
  <2>6. readable' \subseteq Ends
    BY <1>0, <1>Push, <2>1 DEF PushGeneral, EndsOK
  <2>. QED
    BY <1>0, <1>Push, <2>5, <2>6 DEF PushGeneral, EndsOK
<1>BeginCall. ASSUME NEW t \in Threads, NEW m \in Msgs, BeginCall(t, m) PROVE EndsOK'
  <2>1. next[Me(t)] \in TxIds /\ (next[Me(t)] + 1) % TxMod \in TxIds
    BY <1>0, Peers, ChannelAssumption DEF EndsOK, TxIds
  <2>. QED
    BY <1>0, <1>BeginCall, <2>1 DEF BeginCall, EndsOK
<1>Insert. ASSUME NEW t \in Threads, InsertSender(t) PROVE EndsOK'
  <2>1. [tx |-> tx[t], thr |-> t] \in Senders
    BY <1>0 DEF OpsOK, Senders
  <2>. QED
    BY <1>0, <1>Insert, <2>1 DEF InsertSender, EndsOK
<1>Cancel. ASSUME NEW t \in Threads, CancelCall(t) PROVE EndsOK'
  <2>1. \A r \in replies[Me(t)] :
          [tx |-> r.tx, thr |-> IF r.thr = t THEN None ELSE r.thr] \in Senders
    BY <1>0, Peers DEF EndsOK, Senders
  <2>. QED
    BY ZenonT(30), <1>0, <1>Cancel, <2>1 DEF CancelCall, EndsOK
<1>Read. ASSUME NEW t \in Threads, Read(t) PROVE EndsOK'
  <2>1. Me(t) \in Ends /\ queue[Me(t)] \in Seq(Envelopes) /\ queue[Me(t)] # <<>>
    BY <1>0, <1>Read, Peers DEF EndsOK, Read
  <2>2. Tail(queue[Me(t)]) \in Seq(Envelopes)
    BY <2>1, HeadTailProperties
  <2>3. queue' = [queue EXCEPT ![Me(t)] = Tail(queue[Me(t)])]
    BY <1>Read DEF Read
  <2>4. queue' \in [Ends -> Seq(Envelopes)]
    BY <1>0, <2>1, <2>2, <2>3 DEF EndsOK
  <2>. QED
    BY <1>0, <1>Read, <2>4 DEF Read, EndsOK
<1>Close. ASSUME NEW e \in Ends, Close(e) PROVE EndsOK'
  BY <1>0, <1>Close DEF Close, EndsOK
<1>Signal. ASSUME NEW e \in Ends, DropSignal(e) PROVE EndsOK'
  <2>1. <<>> \in Seq(Envelopes) /\ PeerOf[e] \in Ends
    BY Peers
  <2>2. CASE Alive(PeerOf[e])
    BY <1>0, <1>Signal, <2>1, <2>2 DEF DropSignal, EndsOK
  <2>3. CASE ~Alive(PeerOf[e])
    BY <1>0, <1>Signal, <2>1, <2>3 DEF DropSignal, EndsOK
  <2>. QED
    BY <2>2, <2>3
<1>Flush. ASSUME NEW e \in Ends, DropFlush(e) PROVE EndsOK'
  <2>1. <<>> \in Seq(Envelopes) /\ PeerOf[e] \in Ends
    BY Peers
  <2>. QED
    BY <1>0, <1>Flush, <2>1 DEF DropFlush, EndsOK
<1>Other. ASSUME UNCHANGED ends PROVE EndsOK'
  BY <1>0, <1>Other DEF ends, EndsOK
<1>. QED
  BY <1>RouteReply, <1>Push, <1>BeginCall, <1>Insert, <1>Cancel, <1>Read, <1>Close,
     <1>Signal, <1>Flush, <1>Other
     DEF Next, ThreadStep, DropStep, RouteMiss, DropPeer, CallReturn, ReadClosed,
         WriteClosed, BeginWrite, vars

\* The operations keep their types.
LEMMA OpsStep ==
  ASSUME IInv, [Next]_vars
  PROVE  OpsOK'
<1>0. EndsOK /\ OpsOK
  BY DEF IInv
<1>RouteReply. ASSUME NEW t \in Threads, RouteReply(t) PROVE OpsOK'
  <2>1. msg[t] \in Msgs
    BY <1>RouteReply DEF RouteReply, IInv, FlightInv, Flying
  <2>2. PICK r \in Pending(t) : ans' = IF r.thr = None THEN ans ELSE [ans EXCEPT ![r.thr] = msg[t]]
    BY <1>RouteReply DEF RouteReply
  <2>3. ans' \in [Threads -> Msgs \cup {None, "PEER_CLOSED"}]
    BY <1>0, <2>1, <2>2 DEF OpsOK
  <2>. QED
    BY <1>0, <1>RouteReply, <2>3 DEF RouteReply, OpsOK
<1>RouteMiss. ASSUME NEW t \in Threads, RouteMiss(t) PROVE OpsOK'
  BY <1>0, <1>RouteMiss DEF RouteMiss, OpsOK
<1>Push. ASSUME NEW t \in Threads, PushGeneral(t) PROVE OpsOK'
  BY <1>0, <1>Push DEF PushGeneral, OpsOK
<1>BeginWrite. ASSUME NEW t \in Threads, NEW m \in Msgs, NEW x \in TxIds, BeginWrite(t, m, x)
               PROVE  OpsOK'
  BY <1>0, <1>BeginWrite DEF BeginWrite, OpsOK
<1>BeginCall. ASSUME NEW t \in Threads, NEW m \in Msgs, BeginCall(t, m) PROVE OpsOK'
  <2>1. next[Me(t)] \in TxIds
    BY <1>0, Peers DEF EndsOK
  <2>. QED
    BY <1>0, <1>BeginCall, <2>1 DEF BeginCall, OpsOK
<1>Insert. ASSUME NEW t \in Threads, InsertSender(t) PROVE OpsOK'
  BY <1>0, <1>Insert DEF InsertSender, OpsOK
<1>DropPeer. ASSUME NEW t \in Threads, DropPeer(t) PROVE OpsOK'
  BY <1>0, <1>DropPeer DEF DropPeer, OpsOK
<1>Return. ASSUME NEW t \in Threads, CallReturn(t) PROVE OpsOK'
  BY <1>0, <1>Return DEF CallReturn, OpsOK
<1>Cancel. ASSUME NEW t \in Threads, CancelCall(t) PROVE OpsOK'
  BY <1>0, <1>Cancel DEF CancelCall, OpsOK
<1>Read. ASSUME NEW t \in Threads, Read(t) PROVE OpsOK'
  BY <1>0, <1>Read DEF Read, OpsOK
<1>Flush. ASSUME NEW e \in Ends, DropFlush(e) PROVE OpsOK'
  BY <1>0, <1>Flush DEF DropFlush, OpsOK
<1>Other. ASSUME UNCHANGED ops PROVE OpsOK'
  BY <1>0, <1>Other DEF ops, OpsOK
<1>. QED
  BY <1>RouteReply, <1>RouteMiss, <1>Push, <1>BeginWrite, <1>BeginCall, <1>Insert,
     <1>DropPeer, <1>Return, <1>Cancel, <1>Read, <1>Flush, <1>Other
     DEF Next, ThreadStep, DropStep, ReadClosed, WriteClosed, Close, DropSignal, vars,
         TxIds

\* The history keeps its types.
LEMMA HistStep ==
  ASSUME IInv, [Next]_vars
  PROVE  HistOK'
<1>0. EndsOK /\ HistOK
  BY DEF IInv
<1>RouteReply. ASSUME NEW t \in Threads, RouteReply(t) PROVE HistOK'
  <2>1. msg[t] \in Msgs
    BY <1>RouteReply DEF RouteReply, IInv, FlightInv, Flying
  <2>. QED
    BY <1>0, <1>RouteReply, <2>1 DEF RouteReply, HistOK
<1>WriteClosed. ASSUME NEW t \in Threads, NEW m \in Msgs, WriteClosed(t, m) PROVE HistOK'
  BY <1>0, <1>WriteClosed DEF WriteClosed, HistOK
<1>Read. ASSUME NEW t \in Threads, Read(t) PROVE HistOK'
  <2>1. Me(t) \in Ends /\ queue[Me(t)] \in Seq(Envelopes) /\ queue[Me(t)] # <<>>
    BY <1>0, <1>Read, Peers DEF EndsOK, Read
  <2>2. Head(queue[Me(t)]) \in Envelopes
    BY <2>1, HeadTailProperties
  <2>3. read' = read \cup {Head(queue[Me(t)]).m} /\ gone' = gone /\ drained' = drained
    BY <1>Read DEF Read
  <2>. QED
    BY <1>0, <2>2, <2>3 DEF HistOK, Envelopes
<1>ReadClosed. ASSUME NEW t \in Threads, ReadClosed(t) PROVE HistOK'
  BY <1>0, <1>ReadClosed, Peers DEF ReadClosed, HistOK
<1>Signal. ASSUME NEW e \in Ends, DropSignal(e) PROVE HistOK'
  BY <1>0, <1>Signal, QueueFacts DEF DropSignal, HistOK
<1>Flush. ASSUME NEW e \in Ends, DropFlush(e) PROVE HistOK'
  BY <1>0, <1>Flush, QueueFacts DEF DropFlush, HistOK
<1>Other. ASSUME UNCHANGED hist PROVE HistOK'
  BY <1>0, <1>Other DEF hist, HistOK
<1>. QED
  BY <1>RouteReply, <1>WriteClosed, <1>Read, <1>ReadClosed, <1>Signal, <1>Flush, <1>Other
     DEF Next, ThreadStep, DropStep, RouteMiss, PushGeneral, InsertSender, DropPeer,
         CallReturn, CancelCall, BeginWrite, BeginCall, Close, vars

\* A packet that is taken up is nowhere else.
LEMMA FlightStep ==
  ASSUME IInv, [Next]_vars
  PROVE  FlightInv'
<1>0. OpsOK /\ FlightInv
  BY DEF IInv
<1>Begin. ASSUME NEW t \in Threads, NEW m \in Msgs, m \notin Used,
                 msg' = [msg EXCEPT ![t] = m], NEW p, pc' = [pc EXCEPT ![t] = p]
          PROVE  FlightInv'
  <2>1. \A u \in Threads : pc[u] \in Flying => msg[u] # m
    BY <1>Begin DEF Used, InFlight, Flying
  <2>2. pc'[t] = p /\ msg'[t] = m
    BY <1>0, <1>Begin DEF OpsOK
  <2>3. \A u \in Threads \ {t} : pc'[u] = pc[u] /\ msg'[u] = msg[u]
    BY <1>0, <1>Begin DEF OpsOK
  <2>. QED
    BY <1>0, <2>1, <2>2, <2>3 DEF FlightInv
<1>Go. ASSUME NEW t \in Threads, msg' = msg, NEW p, pc' = [pc EXCEPT ![t] = p],
              p \in Flying => pc[t] \in Flying
       PROVE  FlightInv'
  BY <1>0, <1>Go DEF FlightInv, OpsOK
<1>Stay. ASSUME UNCHANGED <<pc, msg>> PROVE FlightInv'
  BY <1>0, <1>Stay DEF FlightInv
<1>1. ASSUME NEW t \in Threads, ThreadStep(t) \/ CancelCall(t) PROVE FlightInv'
  <2>1. CASE RouteMiss(t)
    BY <1>Go, <2>1 DEF RouteMiss, Flying
  <2>2. CASE PushGeneral(t)
    <3>1. PICK p : pc' = [pc EXCEPT ![t] = p] /\ p \notin Flying
      <4>1. PICK p \in {"idle", "insert"} : pc' = [pc EXCEPT ![t] = p]
        BY <2>2 DEF PushGeneral
      <4>. QED
        BY <4>1 DEF Flying
    <3>. QED
      BY <1>Go, <2>2, <3>1 DEF PushGeneral
  <2>3. CASE RouteReply(t)
    BY <1>Go, <2>3 DEF RouteReply, Flying
  <2>4. CASE InsertSender(t) \/ DropPeer(t) \/ CallReturn(t) \/ CancelCall(t)
    BY <1>Go, <2>4 DEF InsertSender, DropPeer, CallReturn, CancelCall, Flying
  <2>. QED
    BY <1>1, <2>1, <2>2, <2>3, <2>4 DEF ThreadStep
<1>2. ASSUME NEW t \in Threads, NEW m \in Msgs, NEW x \in TxIds, BeginWrite(t, m, x)
      PROVE  FlightInv'
  BY <1>Begin, <1>2 DEF BeginWrite
<1>3. ASSUME NEW t \in Threads, NEW m \in Msgs, BeginCall(t, m) PROVE FlightInv'
  BY <1>Begin, <1>3 DEF BeginCall
<1>. QED
  BY <1>Stay, <1>1, <1>2, <1>3
     DEF Next, DropStep, Read, ReadClosed, WriteClosed, Close, DropSignal, DropFlush,
         vars, ops, TxIds

\* READABLE follows the queue of a living endpoint.
LEMMA ReadableStep ==
  ASSUME IInv, [Next]_vars
  PROVE  ReadableExact'
<1>0. EndsOK /\ ReadableExact
  BY DEF IInv
<1>Push. ASSUME NEW t \in Threads, PushGeneral(t) PROVE ReadableExact'
  <2>1. Peer(t) \in Ends /\ queue[Peer(t)] \in Seq(Envelopes)
    BY <1>0, Peers DEF EndsOK
  <2>2. Append(queue[Peer(t)], Packet(t)) # <<>>
    BY <2>1, AppendProperties
  <2>3. queue'[Peer(t)] # <<>> /\ \A e \in Ends : e # Peer(t) => queue'[e] = queue[e]
    BY <1>0, <1>Push, <2>1, <2>2 DEF PushGeneral, EndsOK
  <2>4. life' = life /\ readable' = IF queue[Peer(t)] = <<>> THEN readable \cup {Peer(t)}
                                                              ELSE readable
    BY <1>Push DEF PushGeneral
  <2>. QED
    BY <1>0, <2>3, <2>4 DEF ReadableExact
<1>Read. ASSUME NEW t \in Threads, Read(t) PROVE ReadableExact'
  <2>1. queue'[Me(t)] = Tail(queue[Me(t)]) /\ \A e \in Ends : e # Me(t) => queue'[e] = queue[e]
    BY <1>0, <1>Read, Peers DEF Read, EndsOK
  <2>2. /\ life' = life /\ queue[Me(t)] # <<>>
        /\ readable' = IF Tail(queue[Me(t)]) = <<>> THEN readable \ {Me(t)} ELSE readable
    BY <1>Read DEF Read
  <2>. QED
    BY <1>0, <2>1, <2>2 DEF ReadableExact
<1>Signal. ASSUME NEW e \in Ends, DropSignal(e) PROVE ReadableExact'
  <2>1. life'[e] # "live" /\ readable' = readable
    BY <1>0, <1>Signal DEF DropSignal, EndsOK
  <2>2. \A f \in Ends : f # e => life'[f] = life[f] /\ queue'[f] = queue[f]
    BY <1>0, <1>Signal DEF DropSignal, EndsOK
  <2>. QED
    BY <1>0, <2>1, <2>2 DEF ReadableExact
<1>Flush. ASSUME NEW e \in Ends, DropFlush(e) PROVE ReadableExact'
  BY <1>0, <1>Flush DEF DropFlush, EndsOK, ReadableExact
<1>Other. ASSUME UNCHANGED <<life, queue, readable>> PROVE ReadableExact'
  BY <1>0, <1>Other DEF ReadableExact
<1>. QED
  BY <1>Push, <1>Read, <1>Signal, <1>Flush, <1>Other
     DEF Next, ThreadStep, DropStep, RouteReply, RouteMiss, InsertSender, DropPeer,
         CallReturn, CancelCall, ReadClosed, BeginWrite, WriteClosed, BeginCall, Close,
         vars, ends

\* An endpoint on which read has returned PEER_CLOSED gets no more messages.
LEMMA DrainStep ==
  ASSUME IInv, [Next]_vars
  PROVE  DrainInv'
<1>0. EndsOK /\ OpsOK /\ HistOK /\ DrainInv
  BY DEF IInv
<1>1. ASSUME NEW e \in Ends, ~Alive(PeerOf[e]) PROVE ~Alive(PeerOf[e])'
  BY <1>0, <1>1, AliveStep, Peers
<1>2. ASSUME NEW e \in Ends, queue[e] = <<>>, ~Alive(PeerOf[e])
      PROVE  queue'[e] = <<>>
  <2>Push. ASSUME NEW t \in Threads, PushGeneral(t) PROVE queue'[e] = <<>>
    <3>1. Peer(t) # e
      BY <1>2, <2>Push, Peers DEF PushGeneral, Alive
    <3>. QED
      BY <1>0, <1>2, <2>Push, <3>1, Peers DEF PushGeneral, EndsOK
  <2>Read. ASSUME NEW t \in Threads, Read(t) PROVE queue'[e] = <<>>
    BY <1>0, <1>2, <2>Read, Peers DEF Read, EndsOK
  <2>Drop. ASSUME NEW f \in Ends, DropStep(f) PROVE queue'[e] = <<>>
    BY <1>0, <1>2, <2>Drop DEF DropStep, DropSignal, DropFlush, EndsOK
  <2>Other. ASSUME queue' = queue PROVE queue'[e] = <<>>
    BY <1>2, <2>Other
  <2>. QED
    BY <2>Push, <2>Read, <2>Drop, <2>Other
       DEF Next, ThreadStep, RouteReply, RouteMiss, InsertSender, DropPeer,
           CallReturn, CancelCall, ReadClosed, BeginWrite, WriteClosed, BeginCall, Close,
           vars, ends
<1>3. ASSUME NEW e \in drained' PROVE e \in Ends /\ queue[e] = <<>> /\ ~Alive(PeerOf[e])
  <2>Closed. ASSUME NEW t \in Threads, ReadClosed(t)
             PROVE  e \in Ends /\ queue[e] = <<>> /\ ~Alive(PeerOf[e])
    BY <1>0, <2>Closed, Peers DEF ReadClosed, Peer, Me, DrainInv, HistOK
  <2>Other. ASSUME drained' = drained
            PROVE  e \in Ends /\ queue[e] = <<>> /\ ~Alive(PeerOf[e])
    BY <1>0, <2>Other DEF DrainInv, HistOK
  <2>. QED
    BY <2>Closed, <2>Other
       DEF Next, ThreadStep, DropStep, RouteReply, RouteMiss, PushGeneral, InsertSender,
           DropPeer, CallReturn, CancelCall, Read, BeginWrite, WriteClosed, BeginCall,
           Close, DropSignal, DropFlush, vars, hist
<1>. QED
  BY <1>1, <1>2, <1>3 DEF DrainInv

\* A push adds one message, behind the others.
LEMMA PushFacts ==
  ASSUME IInv, NEW t \in Threads, PushGeneral(t)
  PROVE  /\ Len(queue'[Peer(t)]) = Len(queue[Peer(t)]) + 1
         /\ queue'[Peer(t)][Len(queue[Peer(t)]) + 1].m = msg[t]
         /\ \A i \in 1 .. Len(queue[Peer(t)]) : queue'[Peer(t)][i] = queue[Peer(t)][i]
         /\ \A e \in Ends : e # Peer(t) => queue'[e] = queue[e]
         /\ QueuedOn(Peer(t))' = QueuedOn(Peer(t)) \cup {msg[t]}
<1>1. Peer(t) \in Ends /\ queue[Peer(t)] \in Seq(Envelopes) /\ Len(queue[Peer(t)]) \in Nat
  BY Peers, QueueFacts DEF IInv
<1>2. PICK p : p = Packet(t) /\ p.m = msg[t] /\ p \in Envelopes
  <2>1. msg[t] \in Msgs /\ tx[t] \in TxIds
    BY DEF PushGeneral, IInv, FlightInv, OpsOK, Flying
  <2>2. (pc[t] = "call_push") \in BOOLEAN
    BY Zenon
  <2>3. Packet(t) \in Envelopes
    BY <2>1, <2>2 DEF Packet, Envelopes
  <2>4. Packet(t).m = msg[t]
    BY DEF Packet
  <2>. QED
    BY <2>3, <2>4
<1>3. queue'[Peer(t)] = Append(queue[Peer(t)], p)
  BY <1>1, <1>2 DEF PushGeneral, IInv, EndsOK
<1>4. \A e \in Ends : e # Peer(t) => queue'[e] = queue[e]
  BY DEF PushGeneral, IInv, EndsOK
<1>5. /\ Len(queue'[Peer(t)]) = Len(queue[Peer(t)]) + 1
      /\ queue'[Peer(t)][Len(queue[Peer(t)]) + 1] = p
      /\ \A i \in 1 .. Len(queue[Peer(t)]) : queue'[Peer(t)][i] = queue[Peer(t)][i]
  BY <1>1, <1>2, <1>3, AppendProperties
<1>6. QueuedOn(Peer(t))' = QueuedOn(Peer(t)) \cup {msg[t]}
  <2>1. PICK n \in Nat : n = Len(queue[Peer(t)])
    BY <1>1
  <2>2. 1 .. Len(queue'[Peer(t)]) = 1 .. n \cup {n + 1}
    BY <1>5, <2>1
  <2>. QED
    BY SMTT(30), <1>2, <1>5, <2>1, <2>2 DEF QueuedOn
<1>. QED
  BY <1>2, <1>4, <1>5, <1>6

\* A read removes the first message, which was there once.
LEMMA ReadFacts ==
  ASSUME IInv, NEW t \in Threads, Read(t)
  PROVE  /\ \A e \in Ends : e # Me(t) => queue'[e] = queue[e]
         /\ Len(queue'[Me(t)]) = Len(queue[Me(t)]) - 1
         /\ \A i \in 1 .. Len(queue'[Me(t)]) : queue'[Me(t)][i] = queue[Me(t)][i + 1]
         /\ Head(queue[Me(t)]).m \in QueuedOn(Me(t))
         /\ QueuedOn(Me(t))' \subseteq QueuedOn(Me(t)) \ {Head(queue[Me(t)]).m}
<1>1. /\ Me(t) \in Ends /\ queue[Me(t)] \in Seq(Envelopes) /\ Len(queue[Me(t)]) \in Nat
      /\ queue[Me(t)] # <<>>
  BY Peers, QueueFacts DEF IInv, Read
<1>2. Len(queue[Me(t)]) >= 1 /\ Head(queue[Me(t)]) = queue[Me(t)][1]
  BY <1>1, EmptySeq
<1>3. queue'[Me(t)] = Tail(queue[Me(t)])
  BY <1>1 DEF Read, IInv, EndsOK
<1>4. \A e \in Ends : e # Me(t) => queue'[e] = queue[e]
  BY DEF Read, IInv, EndsOK
<1>5. /\ Len(queue'[Me(t)]) = Len(queue[Me(t)]) - 1
      /\ \A i \in 1 .. Len(queue'[Me(t)]) : queue'[Me(t)][i] = queue[Me(t)][i + 1]
  BY <1>1, <1>3, HeadTailProperties
<1>6. Head(queue[Me(t)]).m \in QueuedOn(Me(t))
  BY <1>1, <1>2 DEF QueuedOn
<1>7. ASSUME NEW i \in 1 .. Len(queue'[Me(t)])
      PROVE  queue'[Me(t)][i].m \in QueuedOn(Me(t)) \ {Head(queue[Me(t)]).m}
  <2>1. i + 1 \in 1 .. Len(queue[Me(t)]) /\ 1 \in 1 .. Len(queue[Me(t)]) /\ i + 1 # 1
    BY <1>1, <1>2, <1>5
  <2>2. queue[Me(t)][i + 1].m # queue[Me(t)][1].m
    BY <1>1, <2>1 DEF IInv, DistinctInv
  <2>3. queue[Me(t)][i + 1].m \in QueuedOn(Me(t))
    BY <2>1 DEF QueuedOn
  <2>. QED
    BY <1>2, <1>5, <2>2, <2>3
<1>8. QueuedOn(Me(t))' \subseteq QueuedOn(Me(t)) \ {Head(queue[Me(t)]).m}
  BY <1>7 DEF QueuedOn
<1>. QED
  BY <1>4, <1>5, <1>6, <1>8

\* An endpoint that is dropped takes its messages with it.
LEMMA DropFacts ==
  ASSUME IInv, NEW e \in Ends, DropStep(e)
  PROVE  /\ \A f \in Ends : f # e => queue'[f] = queue[f]
         /\ \/ queue'[e] = queue[e] /\ gone' = gone
            \/ queue'[e] = <<>> /\ QueuedOn(e)' = {} /\ gone' = gone \cup QueuedOn(e)
<1>1. Len(<<>>) = 0
  OBVIOUS
<1>2. CASE DropFlush(e)
  BY <1>1, <1>2 DEF DropFlush, IInv, EndsOK, QueuedOn
<1>3. CASE DropSignal(e)
  BY <1>1, <1>3 DEF DropSignal, IInv, EndsOK, QueuedOn
<1>. QED
  BY <1>2, <1>3 DEF DropStep

\* The messages of a queue stay different.
LEMMA DistinctStep ==
  ASSUME IInv, [Next]_vars
  PROVE  DistinctInv'
<1>0. EndsOK /\ DistinctInv
  BY DEF IInv
<1>Push. ASSUME NEW t \in Threads, PushGeneral(t) PROVE DistinctInv'
  <2>1. msg[t] \notin QueuedOn(Peer(t))
    BY <1>Push, Peers DEF PushGeneral, IInv, ApartInv, InFlight
  <2>2. \A i \in 1 .. Len(queue[Peer(t)]) : queue[Peer(t)][i].m # msg[t]
    BY <2>1 DEF QueuedOn
  <2>3. PICK n \in Nat : n = Len(queue[Peer(t)])
    BY <1>0, Peers, QueueFacts
  <2>4. ASSUME NEW i \in 1 .. n + 1, NEW j \in 1 .. n + 1,
               queue'[Peer(t)][i].m = queue'[Peer(t)][j].m
        PROVE  i = j
    <3>1. CASE i \in 1 .. n /\ j \in 1 .. n
      BY <1>0, <1>Push, <2>3, <2>4, <3>1, PushFacts, Peers DEF DistinctInv
    <3>2. CASE i = n + 1 /\ j \in 1 .. n
      BY <1>Push, <2>2, <2>3, <2>4, <3>2, PushFacts
    <3>3. CASE i \in 1 .. n /\ j = n + 1
      BY <1>Push, <2>2, <2>3, <2>4, <3>3, PushFacts
    <3>. QED
      BY <3>1, <3>2, <3>3
  <2>5. Len(queue'[Peer(t)]) = n + 1 /\ \A e \in Ends : e # Peer(t) => queue'[e] = queue[e]
    BY <1>Push, <2>3, PushFacts
  <2>. QED
    BY <1>0, <2>4, <2>5 DEF DistinctInv
<1>Read. ASSUME NEW t \in Threads, Read(t) PROVE DistinctInv'
  <2>1. PICK n \in Nat : n = Len(queue[Me(t)])
    BY <1>0, Peers, QueueFacts
  <2>2. ASSUME NEW i \in 1 .. n - 1, NEW j \in 1 .. n - 1,
               queue'[Me(t)][i].m = queue'[Me(t)][j].m
        PROVE  i = j
    <3>1. /\ queue'[Me(t)][i] = queue[Me(t)][i + 1] /\ queue'[Me(t)][j] = queue[Me(t)][j + 1]
      BY <1>Read, <2>1, ReadFacts
    <3>2. i + 1 \in 1 .. n /\ j + 1 \in 1 .. n
      BY <2>1
    <3>3. i + 1 = j + 1
      BY <1>0, <2>1, <2>2, <3>1, <3>2, Peers DEF DistinctInv
    <3>. QED
      BY <3>3
  <2>3. Len(queue'[Me(t)]) = n - 1 /\ \A e \in Ends : e # Me(t) => queue'[e] = queue[e]
    BY <1>Read, <2>1, ReadFacts
  <2>. QED
    BY <1>0, <2>2, <2>3 DEF DistinctInv
<1>Drop. ASSUME NEW e \in Ends, DropStep(e) PROVE DistinctInv'
  <2>1. Len(<<>>) = 0
    OBVIOUS
  <2>2. \A f \in Ends : queue'[f] = queue[f] \/ Len(queue'[f]) = 0
    BY <1>Drop, <2>1, DropFacts
  <2>. QED
    BY <1>0, <2>2 DEF DistinctInv
<1>Other. ASSUME queue' = queue PROVE DistinctInv'
  BY <1>0, <1>Other DEF DistinctInv
<1>. QED
  BY <1>Push, <1>Read, <1>Drop, <1>Other
     DEF Next, ThreadStep, RouteReply, RouteMiss, InsertSender, DropPeer,
         CallReturn, CancelCall, ReadClosed, BeginWrite, WriteClosed, BeginCall, Close,
         vars, ends

\* The places of a message stay apart when it moves from one to another.
LEMMA ApartStep ==
  ASSUME IInv, [Next]_vars
  PROVE  ApartInv'
<1>0. EndsOK /\ OpsOK /\ FlightInv /\ ApartInv
  BY DEF IInv
<1>Same. ASSUME queue' = queue PROVE \A e \in Ends : QueuedOn(e)' = QueuedOn(e)
  BY <1>Same DEF QueuedOn
<1>Ans. ASSUME ans' = ans PROVE Answers' = Answers
  BY <1>Ans DEF Answers
\* What is in flight shrinks when a thread leaves its operation.
<1>Land. ASSUME NEW t \in Threads, pc[t] \in Flying, msg' = msg,
                NEW p, pc' = [pc EXCEPT ![t] = p], p \notin Flying
         PROVE  InFlight' \subseteq InFlight \ {msg[t]} /\ msg[t] \in InFlight
  <2>1. msg[t] \in InFlight
    BY <1>Land DEF InFlight, Flying
  <2>2. ASSUME NEW u \in Threads, pc'[u] \in Flying
        PROVE  msg'[u] \in InFlight \ {msg[t]}
    <3>1. u # t /\ pc[u] \in Flying
      BY <1>0, <1>Land, <2>2 DEF OpsOK
    <3>2. msg[u] # msg[t]
      BY <1>0, <1>Land, <3>1 DEF FlightInv
    <3>. QED
      BY <1>Land, <3>1, <3>2 DEF InFlight, Flying
  <2>. QED
    BY <2>1, <2>2 DEF InFlight, Flying
<1>Reply. ASSUME NEW t \in Threads, RouteReply(t) PROVE ApartInv'
  <2>1. InFlight' \subseteq InFlight \ {msg[t]} /\ msg[t] \in InFlight
    BY <1>Land, <1>Reply DEF RouteReply, Flying
  <2>2. PICK r \in Pending(t) :
          /\ ans' = IF r.thr = None THEN ans ELSE [ans EXCEPT ![r.thr] = msg[t]]
          /\ gone' = IF r.thr = None THEN gone \cup {msg[t]} ELSE gone
    BY <1>Reply DEF RouteReply
  <2>3. queue' = queue /\ read' = read
    BY <1>Reply DEF RouteReply
  <2>4. CASE r.thr = None
    <3>1. Answers' = Answers /\ gone' = gone \cup {msg[t]}
      BY <1>Ans, <2>2, <2>4
    <3>. QED
      BY <1>0, <1>Same, <2>1, <2>3, <3>1 DEF ApartInv
  <2>5. CASE r.thr # None
    <3>1. Answers' \subseteq Answers \cup {msg[t]} /\ gone' = gone
      BY <1>0, <2>2, <2>5 DEF Answers, OpsOK
    <3>2. Answers' \cup InFlight' \subseteq Answers \cup InFlight /\ Answers' \cap InFlight' = {}
      BY <1>0, <2>1, <3>1 DEF ApartInv
    <3>3. \A e \in Ends : QueuedOn(e)' = QueuedOn(e)
      BY <1>Same, <2>3
    <3>. QED
      BY <1>0, <2>3, <3>1, <3>2, <3>3 DEF ApartInv
  <2>. QED
    BY <2>4, <2>5
<1>Push. ASSUME NEW t \in Threads, PushGeneral(t) PROVE ApartInv'
  <2>1. InFlight' \subseteq InFlight \ {msg[t]} /\ msg[t] \in InFlight
    <3>1. PICK p \in {"idle", "insert"} : pc' = [pc EXCEPT ![t] = p]
      BY <1>Push DEF PushGeneral
    <3>2. p \notin Flying /\ pc[t] \in Flying /\ msg' = msg
      BY <1>Push, <3>1 DEF PushGeneral, Flying
    <3>. QED
      BY <1>Land, <3>1, <3>2
  <2>2. /\ QueuedOn(Peer(t))' = QueuedOn(Peer(t)) \cup {msg[t]}
        /\ \A e \in Ends : e # Peer(t) => QueuedOn(e)' = QueuedOn(e)
    <3>1. \A e \in Ends : e # Peer(t) => queue'[e] = queue[e]
      BY <1>Push, PushFacts
    <3>2. \A e \in Ends : e # Peer(t) => QueuedOn(e)' = QueuedOn(e)
      BY <3>1 DEF QueuedOn
    <3>. QED
      BY <1>Push, <3>2, PushFacts
  <2>3. Answers' = Answers /\ read' = read /\ gone' = gone
    BY <1>Ans, <1>Push DEF PushGeneral, hist
  <2>4. \A e \in Ends : msg[t] \notin QueuedOn(e)
    BY <1>0, <2>1 DEF ApartInv
  <2>5. \A e, f \in Ends : e # f => QueuedOn(e)' \cap QueuedOn(f)' = {}
    BY <1>0, <2>2, <2>4, Peers DEF ApartInv
  <2>6. msg[t] \notin read \cup gone \cup Answers \cup InFlight'
    BY <1>0, <2>1 DEF ApartInv
  <2>7. \A e \in Ends : QueuedOn(e)' \subseteq QueuedOn(e) \cup {msg[t]}
    BY <2>2
  <2>8. \A e \in Ends :
          QueuedOn(e)' \cap (read' \cup gone' \cup Answers' \cup InFlight') = {}
    BY <1>0, <2>1, <2>3, <2>6, <2>7 DEF ApartInv
  <2>9. /\ read' \cap (gone' \cup Answers' \cup InFlight') = {}
        /\ gone' \cap (Answers' \cup InFlight') = {}
        /\ Answers' \cap InFlight' = {}
    BY <1>0, <2>1, <2>3 DEF ApartInv
  <2>. QED
    BY <2>5, <2>8, <2>9 DEF ApartInv
<1>Begin. ASSUME NEW t \in Threads, NEW m \in Msgs, m \notin Used, UNCHANGED <<queue, hist>>,
                 msg' = [msg EXCEPT ![t] = m], NEW p, pc' = [pc EXCEPT ![t] = p],
                 ans' = ans \/ ans' = [ans EXCEPT ![t] = None]
          PROVE  ApartInv'
  <2>1. InFlight' \subseteq InFlight \cup {m}
    BY <1>0, <1>Begin DEF InFlight, OpsOK
  <2>2. Answers' \subseteq Answers
    BY <1>0, <1>Begin, ChannelAssumption DEF Answers, OpsOK
  <2>3. m \notin read /\ m \notin gone /\ m \notin Answers /\ \A e \in Ends : m \notin QueuedOn(e)
    BY <1>Begin, Unused
  <2>. QED
    BY <1>0, <1>Same, <1>Begin, <2>1, <2>2, <2>3 DEF ApartInv, hist
<1>Closed. ASSUME NEW t \in Threads, NEW m \in Msgs, WriteClosed(t, m) PROVE ApartInv'
  <2>1. /\ m \notin read /\ m \notin Answers /\ m \notin InFlight
        /\ \A e \in Ends : m \notin QueuedOn(e)
    BY <1>Closed, Unused DEF WriteClosed
  <2>2. queue' = queue /\ Answers' = Answers /\ InFlight' = InFlight
    BY <1>Closed DEF WriteClosed, ends, ops, Answers, InFlight
  <2>. QED
    BY <1>0, <1>Same, <1>Closed, <2>1, <2>2 DEF ApartInv, WriteClosed
<1>Read. ASSUME NEW t \in Threads, Read(t) PROVE ApartInv'
  <2>1. PICK h : h = Head(queue[Me(t)]).m
    OBVIOUS
  <2>2. /\ h \in QueuedOn(Me(t)) /\ QueuedOn(Me(t))' \subseteq QueuedOn(Me(t)) \ {h}
        /\ \A e \in Ends : e # Me(t) => QueuedOn(e)' = QueuedOn(e)
    <3>1. \A e \in Ends : e # Me(t) => QueuedOn(e)' = QueuedOn(e)
      BY <1>Read, ReadFacts DEF QueuedOn
    <3>. QED
      BY <1>Read, <2>1, <3>1, ReadFacts
  <2>3. read' = read \cup {h} /\ gone' = gone /\ Answers' = Answers /\ InFlight' = InFlight
    BY <1>Read, <2>1 DEF Read, Answers, InFlight
  <2>. QED
    BY <1>0, <2>2, <2>3, Peers DEF ApartInv
<1>Drop. ASSUME NEW e \in Ends, DropStep(e) PROVE ApartInv'
  <2>1. /\ \A f \in Ends : f # e => QueuedOn(f)' = QueuedOn(f)
        /\ \/ QueuedOn(e)' = QueuedOn(e) /\ gone' = gone
           \/ QueuedOn(e)' = {} /\ gone' = gone \cup QueuedOn(e)
    BY <1>Drop, DropFacts DEF QueuedOn
  <2>2. read' = read /\ InFlight' = InFlight
    BY <1>Drop DEF DropStep, DropSignal, DropFlush, ops, InFlight
  <2>3. Answers' \subseteq Answers
    <3>1. CASE DropSignal(e)
      BY <1>Ans, <3>1 DEF DropSignal, ops
    <3>2. CASE DropFlush(e)
      BY <3>2, ChannelAssumption DEF DropFlush, Answers
    <3>. QED
      BY <1>Drop, <3>1, <3>2 DEF DropStep
  <2>. QED
    BY <1>0, <2>1, <2>2, <2>3 DEF ApartInv
\* Steps of an operation that move no message.
<1>Go. ASSUME NEW t \in Threads, UNCHANGED <<queue, msg, ans, hist>>,
              NEW p, pc' = [pc EXCEPT ![t] = p], p \in Flying => pc[t] \in Flying
       PROVE  ApartInv'
  <2>1. InFlight' \subseteq InFlight
    BY <1>0, <1>Go DEF InFlight, OpsOK, Flying
  <2>. QED
    BY <1>0, <1>Same, <1>Ans, <1>Go, <2>1 DEF ApartInv, hist
<1>Stay. ASSUME UNCHANGED <<queue, pc, msg, ans, read, gone>> PROVE ApartInv'
  <2>1. InFlight' = InFlight
    BY <1>Stay DEF InFlight
  <2>. QED
    BY <1>0, <1>Same, <1>Ans, <1>Stay, <2>1 DEF ApartInv
<1>1. ASSUME NEW t \in Threads, ThreadStep(t) \/ CancelCall(t) PROVE ApartInv'
  <2>1. CASE RouteMiss(t)
    BY <1>Go, <2>1 DEF RouteMiss, Flying, ends
  <2>2. CASE InsertSender(t) \/ DropPeer(t) \/ CallReturn(t) \/ CancelCall(t)
    BY <1>Go, <2>2 DEF InsertSender, DropPeer, CallReturn, CancelCall, Flying, ends
  <2>. QED
    BY <1>1, <1>Reply, <1>Push, <2>1, <2>2 DEF ThreadStep
<1>2. ASSUME NEW t \in Threads, NEW m \in Msgs, NEW x \in TxIds, BeginWrite(t, m, x)
      PROVE  ApartInv'
  BY <1>Begin, <1>2 DEF BeginWrite, ends
<1>3. ASSUME NEW t \in Threads, NEW m \in Msgs, BeginCall(t, m) PROVE ApartInv'
  BY <1>Begin, <1>3 DEF BeginCall
<1>. QED
  BY <1>Closed, <1>Read, <1>Drop, <1>Stay, <1>1, <1>2, <1>3
     DEF Next, ReadClosed, Close, vars, ends, ops, hist, TxIds

-----------------------------------------------------------------------------
\* IInv holds throughout.
LEMMA Inductive == Spec => []IInv
<1>1. IInv /\ [Next]_vars => IInv'
  BY EndsStep, OpsStep, HistStep, FlightStep, DistinctStep, ApartStep, ReadableStep,
     DrainStep
     DEF IInv
<1>. QED
  BY InitInv, <1>1, PTL DEF Spec

\* The types of all variables; transaction ids stay within their width.
THEOREM TypeCorrect == Spec => []TypeOK
<1>1. ASSUME IInv PROVE TypeOK
  <2>1. \A e \in Ends : \A i \in 1 .. Len(queue[e]) : queue[e][i].m \in Msgs
    BY <1>1, QueueFacts DEF IInv, Envelopes
  <2>2. \A e \in Ends : next[e] \in 0 .. (TxMod - 1)
    BY <1>1 DEF IInv, EndsOK, TxIds
  <2>3. \A e \in Ends : \A r \in replies[e] : r.thr \in Threads \cup {None}
    BY <1>1 DEF IInv, EndsOK, Senders
  <2>. QED
    BY <1>1, <2>1, <2>2, <2>3 DEF IInv, EndsOK, OpsOK, HistOK, TypeOK
<1>. QED
  BY Inductive, <1>1, PTL

\* A message (and with it its handles) is in one place: being sent, in one
\* queue, read, a call's answer, or discarded, for any number of threads that
\* write, call, reply and close at the same time.
THEOREM EachMessageOnceHolds == Spec => []EachMessageOnce
<1>1. ASSUME IInv PROVE EachMessageOnce
  <2>1. \A e \in Ends : IsInjective([i \in 1 .. Len(queue[e]) |-> queue[e][i].m])
    BY <1>1 DEF IInv, DistinctInv, IsInjective
  <2>2. \A x \in Queued : \E e \in Ends : x \in QueuedOn(e)
    BY Zenon DEF Queued
  <2>. QED
    BY <1>1, <2>1, <2>2 DEF IInv, ApartInv, EachMessageOnce
<1>. QED
  BY Inductive, <1>1, PTL

\* READABLE is asserted exactly while a living endpoint has a message.
THEOREM ReadableExactHolds == Spec => []ReadableExact
  BY Inductive, PTL DEF IInv

\* Once read has returned PEER_CLOSED no message arrives any more: a write
\* that had upgraded its pointer before the close has kept the peer alive.
THEOREM ClosedMeansDrainedHolds == Spec => []ClosedMeansDrained
<1>1. IInv => ClosedMeansDrained
  BY DEF IInv, DrainInv, ClosedMeansDrained
<1>. QED
  BY Inductive, <1>1, PTL

\* Weak::upgrade cannot revive an endpoint: when its last Arc is gone none
\* comes back, whatever is still in progress on the other side.
THEOREM NeverRevived == Spec => [][\A e \in Ends : ~Alive(e) => ~Alive(e)']_vars
<1>1. IInv /\ [Next]_vars => \A e \in Ends : ~Alive(e) => ~Alive(e)'
  BY AliveStep DEF IInv
<1>. QED
  BY Inductive, <1>1, PTL DEF Spec

-----------------------------------------------------------------------------
(***************************************************************************)
(* Kernel object signals (KObject), for any objects, waiters, observers,   *)
(* target lists, sizes of the callback table and interleavings.            *)
(***************************************************************************)

Callbacks == [who : Waiters \cup Observers, n : 0 .. MaxWaits, want : SUBSET Bits]
BaseRec   == [signal : SUBSET Bits, callbacks : SUBSET Callbacks]
FutRec    == [pc : {"idle", "scan", "register", "pending"},
              targets : Targets \cup {<<>>}, first : BOOLEAN, todo : SUBSET Objects,
              hit : BOOLEAN, n : 0 .. MaxWaits, fired : BOOLEAN, refused : BOOLEAN]
ObsRec    == [pc : {"new", "register", "armed", "lost", "done"},
              object : SUBSET Objects, want : SUBSET Bits, packets : {0, 1}]

SignalTypes ==
  /\ base \in [Objects -> BaseRec]
  /\ fut \in [Waiters -> FutRec]
  /\ woken \subseteq Waiters
  /\ obs \in [Observers -> ObsRec]

\* The targets on which the future of a waiter has added its callback.
Registered(w) ==
  IF fut[w].pc = "register" THEN DOMAIN fut[w].targets \ fut[w].todo
  ELSE IF fut[w].first THEN {} ELSE DOMAIN fut[w].targets

\* A callback that was added, did not run and was not refused is in the table,
\* and its signal is not asserted.
WaitInv ==
  \A w \in Waiters :
    /\ fut[w].todo \subseteq DOMAIN fut[w].targets
    /\ fut[w].pc = "pending" => ~fut[w].first
    /\ ~fut[w].fired /\ ~fut[w].refused =>
         \A o \in Registered(w) :
           /\ base[o].signal \cap fut[w].targets[o] = {}
           /\ WaitCallback(w, o) \in base[o].callbacks

\* A subscription is for one object, and only an armed one has a callback.
ObsInv ==
  \A b \in Observers :
    /\ obs[b].packets = IF obs[b].pc = "done" THEN 1 ELSE 0
    /\ \A o, q \in obs[b].object : o = q
    /\ obs[b].pc = "armed" => \A o \in obs[b].object :
         /\ base[o].signal \cap obs[b].want = {}
         /\ PortCallback(b) \in base[o].callbacks
    /\ \A o \in Objects : \A cb \in base[o].callbacks :
         cb.who = b => obs[b].pc = "armed" /\ o \in obs[b].object /\ cb = PortCallback(b)

KInv == SignalTypes /\ WaitInv /\ ObsInv

-----------------------------------------------------------------------------

\* A target list names objects; its wants are sets of bits.
LEMMA TargetFacts ==
  ASSUME SignalTypes, NEW w \in Waiters
  PROVE  /\ DOMAIN fut[w].targets \subseteq Objects
         /\ \A o \in DOMAIN fut[w].targets : fut[w].targets[o] \in SUBSET Bits
         /\ MaxWaits \in Nat /\ Waiters \cap Observers = {}
<1>1. fut[w].targets \in Targets \cup {<<>>}
  BY DEF SignalTypes, FutRec
<1>2. CASE fut[w].targets \in Targets
  <2>1. PICK S \in SUBSET Objects : fut[w].targets \in [S -> SUBSET Bits]
    BY KObjectAssumption, <1>2
  <2>. QED
    BY KObjectAssumption, <2>1
<1>3. CASE fut[w].targets = <<>>
  BY KObjectAssumption, <1>3
<1>. QED
  BY <1>1, <1>2, <1>3

\* A step of one future that touches no object and keeps what it registered.
LEMMA FutureStep ==
  ASSUME KInv, UNCHANGED <<base, obs>>, woken' \subseteq Waiters,
         NEW w \in Waiters, NEW r \in FutRec, fut' = [fut EXCEPT ![w] = r],
         r.todo \subseteq DOMAIN r.targets, r.pc = "pending" => ~r.first,
         \/ r.pc # "register" /\ r.first
         \/ /\ r.n = fut[w].n /\ r.targets = fut[w].targets
            /\ r.fired = fut[w].fired /\ r.refused = fut[w].refused
            /\ IF r.pc = "register" THEN DOMAIN r.targets \ r.todo \subseteq Registered(w)
               ELSE Registered(w) = DOMAIN r.targets
  PROVE  KInv'
<1>1. /\ fut'[w] = r /\ \A v \in Waiters : v # w => fut'[v] = fut[v]
      /\ SignalTypes'
  BY DEF KInv, SignalTypes
<1>2. ObsInv'
  BY DEF KInv, ObsInv, PortCallback
<1>3. ASSUME NEW v \in Waiters
      PROVE  /\ fut'[v].todo \subseteq DOMAIN fut'[v].targets
             /\ fut'[v].pc = "pending" => ~fut'[v].first
             /\ ~fut'[v].fired /\ ~fut'[v].refused =>
                  \A o \in Registered(v)' :
                    /\ base[o].signal \cap fut'[v].targets[o] = {}
                    /\ [who |-> v, n |-> fut'[v].n, want |-> fut'[v].targets[o]]
                         \in base[o].callbacks
  <2>1. /\ fut[v].todo \subseteq DOMAIN fut[v].targets
        /\ fut[v].pc = "pending" => ~fut[v].first
        /\ ~fut[v].fired /\ ~fut[v].refused =>
             \A o \in Registered(v) :
               /\ base[o].signal \cap fut[v].targets[o] = {}
               /\ [who |-> v, n |-> fut[v].n, want |-> fut[v].targets[o]] \in base[o].callbacks
    BY DEF KInv, WaitInv, WaitCallback
  <2>2. CASE v # w
    <3>1. fut'[v] = fut[v] /\ Registered(v)' = Registered(v)
      BY <1>1, <2>2 DEF Registered
    <3>. QED
      BY <2>1, <3>1
  <2>3. CASE v = w /\ r.pc # "register" /\ r.first
    <3>1. Registered(v)' = {}
      BY <1>1, <2>3 DEF Registered
    <3>. QED
      BY <1>1, <2>3, <3>1
  <2>4. CASE v = w /\ ~(r.pc # "register" /\ r.first)
    <3>1. Registered(v)' \subseteq Registered(v)
      BY <1>1, <2>4 DEF Registered
    <3>. QED
      BY <1>1, <2>1, <2>4, <3>1
  <2>. QED
    BY <2>2, <2>3, <2>4
<1>4. WaitInv'
  BY <1>3 DEF WaitInv, WaitCallback
<1>. QED
  BY <1>1, <1>2, <1>4 DEF KInv

LEMMA StartWaitStep ==
  ASSUME KInv, NEW w \in Waiters, NEW t \in Targets, StartWait(w, t)
  PROVE  KInv'
<1>1. PICK r : r = [pc |-> "scan", targets |-> t, first |-> TRUE, todo |-> DOMAIN t,
                    hit |-> FALSE, n |-> fut[w].n + 1, fired |-> FALSE, refused |-> FALSE]
  OBVIOUS
<1>2. fut[w].n + 1 \in 0 .. MaxWaits
  BY KObjectAssumption DEF StartWait, KInv, SignalTypes, FutRec
<1>3. DOMAIN t \subseteq Objects
  <2>1. PICK S \in SUBSET Objects : t \in [S -> SUBSET Bits]
    BY KObjectAssumption
  <2>. QED
    BY <2>1
<1>4. r \in FutRec /\ r.pc = "scan" /\ r.first /\ r.todo = DOMAIN r.targets
  BY <1>1, <1>2, <1>3 DEF FutRec
<1>5. fut' = [fut EXCEPT ![w] = r] /\ UNCHANGED <<base, obs>> /\ woken' \subseteq Waiters
  BY <1>1 DEF StartWait, KInv, SignalTypes
<1>. QED
  BY <1>4, <1>5, FutureStep

\* WaitReady and CancelWait: the future is gone.
LEMMA EndWaitStep ==
  ASSUME KInv, NEW w \in Waiters, WaitReady(w) \/ CancelWait(w)
  PROVE  KInv'
<1>1. PICK r : r = [Idle EXCEPT !.n = fut[w].n]
  OBVIOUS
<1>2. r \in FutRec /\ r.pc = "idle" /\ r.first /\ r.todo = {}
  <2>1. fut[w].n \in 0 .. MaxWaits
    BY DEF KInv, SignalTypes, FutRec
  <2>. QED
    BY <1>1, <2>1 DEF Idle, FutRec
<1>3. fut' = [fut EXCEPT ![w] = r] /\ UNCHANGED <<base, obs>> /\ woken' \subseteq Waiters
  BY <1>1 DEF WaitReady, CancelWait, KInv, SignalTypes
<1>. QED
  BY <1>2, <1>3, FutureStep

\* ReadSignal, ScanMiss, RegisterDone and PollAgain: the poll goes on.
LEMMA PollStep ==
  ASSUME KInv, NEW w \in Waiters,
         \/ \E o \in Objects : ReadSignal(w, o)
         \/ ScanMiss(w) \/ RegisterDone(w) \/ PollAgain(w)
  PROVE  KInv'
<1>1. /\ fut[w] \in FutRec /\ fut \in [Waiters -> FutRec]
      /\ fut[w].pc = "pending" => ~fut[w].first
      /\ fut[w].todo \subseteq DOMAIN fut[w].targets
      /\ DOMAIN fut[w].targets \subseteq Objects
      /\ UNCHANGED <<base, obs>> /\ woken' \subseteq Waiters
  BY TargetFacts DEF KInv, WaitInv, SignalTypes, ReadSignal, ScanMiss, RegisterDone, PollAgain
<1>2. CASE \E o \in Objects : ReadSignal(w, o)
  <2>1. PICK o \in Objects : ReadSignal(w, o)
    BY <1>2
  <2>2. PICK r : r = [fut[w] EXCEPT !.todo = @ \ {o},
                        !.hit = @ \/ base[o].signal \cap fut[w].targets[o] # {}]
    OBVIOUS
  <2>3. fut' = [fut EXCEPT ![w] = r]
    BY <1>1, <2>1, <2>2 DEF ReadSignal
  <2>4. /\ r \in FutRec /\ r.pc = "scan" /\ r.first = fut[w].first /\ r.n = fut[w].n
        /\ r.targets = fut[w].targets /\ r.fired = fut[w].fired /\ r.refused = fut[w].refused
        /\ r.todo \subseteq fut[w].todo
    BY <1>1, <2>1, <2>2 DEF FutRec, ReadSignal
  <2>5. r.first \/ Registered(w) = DOMAIN r.targets
    BY <2>1, <2>4 DEF Registered, ReadSignal
  <2>. QED
    BY <1>1, <2>3, <2>4, <2>5, FutureStep
<1>3. CASE ScanMiss(w)
  <2>1. PICK r : r = [fut[w] EXCEPT
                        !.pc = IF fut[w].first THEN "register" ELSE "pending",
                        !.todo = IF fut[w].first THEN DOMAIN fut[w].targets ELSE {}]
    OBVIOUS
  <2>2. fut' = [fut EXCEPT ![w] = r]
    BY <1>1, <1>3, <2>1 DEF ScanMiss
  <2>3. /\ r \in FutRec /\ r.first = fut[w].first /\ r.n = fut[w].n
        /\ r.targets = fut[w].targets /\ r.fired = fut[w].fired /\ r.refused = fut[w].refused
        /\ r.pc = IF fut[w].first THEN "register" ELSE "pending"
        /\ r.todo = IF fut[w].first THEN DOMAIN fut[w].targets ELSE {}
    BY <1>1, <2>1 DEF FutRec
  <2>4. ~r.first => Registered(w) = DOMAIN r.targets
    BY <1>3, <2>3 DEF Registered, ScanMiss
  <2>5. r.first => DOMAIN r.targets \ r.todo = {}
    BY <2>3
  <2>. QED
    BY <1>1, <2>2, <2>3, <2>4, <2>5, FutureStep
<1>4. CASE RegisterDone(w)
  <2>1. PICK r : r = [fut[w] EXCEPT !.pc = "pending", !.first = FALSE]
    OBVIOUS
  <2>2. fut' = [fut EXCEPT ![w] = r]
    BY <1>1, <1>4, <2>1 DEF RegisterDone
  <2>3. /\ r \in FutRec /\ ~r.first /\ r.n = fut[w].n /\ r.pc = "pending"
        /\ r.targets = fut[w].targets /\ r.fired = fut[w].fired /\ r.refused = fut[w].refused
        /\ r.todo = fut[w].todo
    BY <1>1, <2>1 DEF FutRec
  <2>4. Registered(w) = DOMAIN r.targets
    BY <1>4, <2>3 DEF Registered, RegisterDone
  <2>. QED
    BY <1>1, <2>2, <2>3, <2>4, FutureStep
<1>5. CASE PollAgain(w)
  <2>1. PICK r : r = [fut[w] EXCEPT !.pc = "scan", !.todo = DOMAIN fut[w].targets, !.hit = FALSE]
    OBVIOUS
  <2>2. fut' = [fut EXCEPT ![w] = r]
    BY <1>1, <1>5, <2>1 DEF PollAgain
  <2>3. /\ r \in FutRec /\ r.first = fut[w].first /\ r.n = fut[w].n /\ r.pc = "scan"
        /\ r.targets = fut[w].targets /\ r.fired = fut[w].fired /\ r.refused = fut[w].refused
        /\ r.todo = DOMAIN r.targets
    BY <1>1, <2>1 DEF FutRec
  <2>4. ~r.first /\ Registered(w) = DOMAIN r.targets
    BY <1>1, <1>5, <2>3 DEF Registered, PollAgain
  <2>. QED
    BY <1>1, <2>2, <2>3, <2>4, FutureStep
<1>. QED
  BY <1>2, <1>3, <1>4, <1>5

\* add_signal_callback: the signal stays, and at most this callback is added.
LEMMA AddFacts ==
  ASSUME SignalTypes, NEW o \in Objects, NEW cb \in Callbacks,
         base' = [base EXCEPT ![o] = AddSignalCallback(@, cb)]
  PROVE  /\ base' \in [Objects -> BaseRec]
         /\ \A q \in Objects : /\ base'[q].signal = base[q].signal
                               /\ q # o => base'[q].callbacks = base[q].callbacks
         /\ base'[o].callbacks = IF base[o].signal \cap cb.want # {} \/ Full(base[o])
                                 THEN base[o].callbacks ELSE base[o].callbacks \cup {cb}
<1>1. base \in [Objects -> BaseRec] /\ base[o] \in BaseRec
  BY DEF SignalTypes
<1>2. PICK r : r = AddSignalCallback(base[o], cb)
  OBVIOUS
<1>3. /\ r \in BaseRec /\ r.signal = base[o].signal
      /\ r.callbacks = IF base[o].signal \cap cb.want # {} \/ Full(base[o])
                       THEN base[o].callbacks ELSE base[o].callbacks \cup {cb}
  BY <1>1, <1>2 DEF AddSignalCallback, Meets, BaseRec
<1>4. base' = [base EXCEPT ![o] = r]
  BY <1>2
<1>. QED
  BY <1>1, <1>3, <1>4

LEMMA RegisterWaitStep ==
  ASSUME KInv, NEW w \in Waiters, NEW o \in Objects, RegisterWait(w, o)
  PROVE  KInv'
<1>1. /\ fut[w] \in FutRec /\ fut \in [Waiters -> FutRec] /\ SignalTypes
      /\ fut[w].pc = "register" /\ o \in fut[w].todo /\ o \in DOMAIN fut[w].targets
      /\ fut[w].todo \subseteq DOMAIN fut[w].targets
  BY DEF KInv, WaitInv, SignalTypes, RegisterWait
<1>2. PICK cb : cb = WaitCallback(w, o)
  OBVIOUS
<1>3. /\ cb \in Callbacks /\ cb.who = w /\ cb.n = fut[w].n /\ cb.want = fut[w].targets[o]
      /\ cb = [who |-> w, n |-> fut[w].n, want |-> fut[w].targets[o]]
  BY <1>1, <1>2, TargetFacts DEF WaitCallback, Callbacks, FutRec
<1>4. PICK hit \in BOOLEAN : hit <=> base[o].signal \cap cb.want # {}
  OBVIOUS
<1>5. PICK no \in BOOLEAN : no <=> ~hit /\ Full(base[o])
  OBVIOUS
<1>6. PICK r : r = [fut[w] EXCEPT !.todo = @ \ {o}, !.fired = @ \/ hit, !.refused = @ \/ no]
  OBVIOUS
<1>7. /\ UNCHANGED obs /\ base' = [base EXCEPT ![o] = AddSignalCallback(@, cb)]
      /\ woken' \subseteq Waiters
  BY <1>1, <1>2 DEF RegisterWait, SignalTypes
<1>8. fut' = [fut EXCEPT ![w] = r]
  <2>1. (Meets(base[o].signal, WaitCallback(w, o)) <=> hit)
        /\ (~Meets(base[o].signal, WaitCallback(w, o)) /\ Full(base[o]) <=> no)
    BY <1>2, <1>4, <1>5 DEF Meets
  <2>. QED
    BY <1>1, <1>4, <1>5, <1>6, <2>1 DEF RegisterWait
<1>9. /\ r \in FutRec /\ r.pc = "register" /\ r.first = fut[w].first /\ r.n = fut[w].n
      /\ r.targets = fut[w].targets /\ r.todo = fut[w].todo \ {o}
      /\ r.fired <=> fut[w].fired \/ hit
      /\ r.refused <=> fut[w].refused \/ no
  BY <1>1, <1>6 DEF FutRec
<1>10. /\ base' \in [Objects -> BaseRec]
       /\ \A q \in Objects : /\ base'[q].signal = base[q].signal
                             /\ q # o => base'[q].callbacks = base[q].callbacks
                             /\ base[q].callbacks \subseteq base'[q].callbacks
                             /\ base'[q].callbacks \subseteq base[q].callbacks \cup {cb}
       /\ ~hit /\ ~no => cb \in base'[o].callbacks
  <2>1. /\ base' \in [Objects -> BaseRec]
        /\ \A q \in Objects : /\ base'[q].signal = base[q].signal
                              /\ q # o => base'[q].callbacks = base[q].callbacks
        /\ base'[o].callbacks = IF base[o].signal \cap cb.want # {} \/ Full(base[o])
                                THEN base[o].callbacks ELSE base[o].callbacks \cup {cb}
    BY <1>1, <1>3, <1>7, AddFacts
  <2>2. /\ base[o].callbacks \subseteq base'[o].callbacks
        /\ base'[o].callbacks \subseteq base[o].callbacks \cup {cb}
        /\ ~hit /\ ~no => cb \in base'[o].callbacks
    BY <1>4, <1>5, <2>1
  <2>3. \A q \in Objects : q # o => base[q].callbacks = base'[q].callbacks
    BY <2>1
  <2>. QED
    BY <2>1, <2>2, <2>3
<1>11. /\ SignalTypes' /\ fut'[w] = r /\ \A v \in Waiters : v # w => fut'[v] = fut[v]
  BY <1>1, <1>7, <1>8, <1>9, <1>10 DEF SignalTypes
<1>12. ObsInv'
  <2>1. \A b \in Observers : b # w
    BY KObjectAssumption
  <2>2. \A b \in Observers : obs[b].object \subseteq Objects
    BY <1>1 DEF SignalTypes, ObsRec
  <2>. QED
    BY <1>3, <1>7, <1>10, <2>1, <2>2 DEF KInv, ObsInv, PortCallback
<1>13. ASSUME NEW v \in Waiters
       PROVE  /\ fut'[v].todo \subseteq DOMAIN fut'[v].targets
              /\ fut'[v].pc = "pending" => ~fut'[v].first
              /\ ~fut'[v].fired /\ ~fut'[v].refused =>
                   \A q \in Registered(v)' :
                     /\ base'[q].signal \cap fut'[v].targets[q] = {}
                     /\ [who |-> v, n |-> fut'[v].n, want |-> fut'[v].targets[q]]
                          \in base'[q].callbacks
  <2>1. /\ fut[v].todo \subseteq DOMAIN fut[v].targets
        /\ fut[v].pc = "pending" => ~fut[v].first
        /\ ~fut[v].fired /\ ~fut[v].refused =>
             \A q \in Registered(v) :
               /\ base[q].signal \cap fut[v].targets[q] = {}
               /\ [who |-> v, n |-> fut[v].n, want |-> fut[v].targets[q]] \in base[q].callbacks
    BY DEF KInv, WaitInv, WaitCallback
  <2>2. Registered(v) \subseteq Objects
    BY <1>1, TargetFacts DEF Registered
  <2>3. CASE v # w
    <3>1. fut'[v] = fut[v] /\ Registered(v)' = Registered(v)
      BY <1>11, <2>3 DEF Registered
    <3>. QED
      BY <1>10, <2>1, <2>2, <3>1
  <2>4. CASE v = w
    <3>1. Registered(v)' = Registered(v) \cup {o}
      BY <1>1, <1>9, <1>11, <2>4 DEF Registered
    <3>2. ASSUME ~fut'[v].fired, ~fut'[v].refused, NEW q \in Registered(v)'
          PROVE  /\ base'[q].signal \cap fut'[v].targets[q] = {}
                 /\ [who |-> v, n |-> fut'[v].n, want |-> fut'[v].targets[q]]
                      \in base'[q].callbacks
      <4>1. ~hit /\ ~no /\ ~fut[v].fired /\ ~fut[v].refused
        BY <1>9, <1>11, <2>4, <3>2
      <4>2. CASE q = o
        BY <1>3, <1>4, <1>9, <1>10, <1>11, <2>4, <4>1, <4>2
      <4>3. CASE q \in Registered(v)
        BY <1>9, <1>10, <1>11, <2>1, <2>2, <2>4, <4>1, <4>3
      <4>. QED
        BY <3>1, <3>2, <4>2, <4>3
    <3>. QED
      BY <1>1, <1>9, <1>11, <2>4, <3>2
  <2>. QED
    BY <2>3, <2>4
<1>14. WaitInv'
  BY <1>13 DEF WaitInv, WaitCallback
<1>. QED
  BY <1>11, <1>12, <1>14 DEF KInv

LEMMA ChangeSignalStep ==
  ASSUME KInv, NEW o \in Objects,
         NEW clear \in SUBSET Bits, NEW set \in SUBSET Bits, ChangeSignal(o, clear, set)
  PROVE  KInv'
<1>1. SignalTypes /\ base[o] \in BaseRec /\ base \in [Objects -> BaseRec]
  BY DEF KInv, SignalTypes
<1>2. PICK now : now = Changed(base[o], clear, set)
  OBVIOUS
<1>3. PICK ran : ran = Fired(base[o], clear, set)
  OBVIOUS
<1>4. /\ now \in SUBSET Bits /\ ran = {cb \in base[o].callbacks : now \cap cb.want # {}}
  BY <1>1, <1>2, <1>3 DEF ChangeSignal, Fired, Changed, Meets, BaseRec
<1>5. PICK r : r = [signal |-> now, callbacks |-> base[o].callbacks \ ran]
  OBVIOUS
<1>6. base' = [base EXCEPT ![o] = r] /\ r \in BaseRec
  BY <1>1, <1>2, <1>3, <1>4, <1>5 DEF ChangeSignal, SignalChange, BaseRec
<1>7. /\ base' \in [Objects -> BaseRec] /\ base'[o].signal = now
      /\ base'[o].callbacks = base[o].callbacks \ ran
      /\ \A q \in Objects : q # o => base'[q] = base[q]
  BY <1>1, <1>5, <1>6
<1>8. /\ woken' \subseteq Waiters
      /\ fut' = [w \in Waiters |-> fut'[w]] /\ obs' = [b \in Observers |-> obs'[b]]
      /\ \A w \in Waiters : fut'[w] = IF \E cb \in ran : cb.who = w /\ cb.n = fut[w].n
                                      THEN [fut[w] EXCEPT !.fired = TRUE] ELSE fut[w]
      /\ \A b \in Observers : obs'[b] = IF \E cb \in ran : cb.who = b
                                        THEN [obs[b] EXCEPT !.pc = "done", !.packets = @ + 1]
                                        ELSE obs[b]
  <2>1. \A b : b \in {cb.who : cb \in ran} <=> \E cb \in ran : cb.who = b
    OBVIOUS
  <2>. QED
    BY <1>1, <1>3, <2>1 DEF ChangeSignal, SignalTypes
<1>9. ASSUME NEW w \in Waiters
      PROVE  /\ fut'[w] \in FutRec /\ fut'[w].pc = fut[w].pc /\ fut'[w].first = fut[w].first
             /\ fut'[w].n = fut[w].n /\ fut'[w].targets = fut[w].targets
             /\ fut'[w].todo = fut[w].todo /\ fut'[w].refused = fut[w].refused
             /\ ~fut'[w].fired => /\ ~fut[w].fired
                                  /\ \A cb \in ran : ~(cb.who = w /\ cb.n = fut[w].n)
  <2>1. fut[w] \in FutRec
    BY <1>1 DEF SignalTypes
  <2>2. CASE \E cb \in ran : cb.who = w /\ cb.n = fut[w].n
    <3>1. fut'[w] = [fut[w] EXCEPT !.fired = TRUE]
      BY <1>8, <2>2
    <3>. QED
      BY <2>1, <3>1 DEF FutRec
  <2>3. CASE ~\E cb \in ran : cb.who = w /\ cb.n = fut[w].n
    BY <1>8, <2>1, <2>3
  <2>. QED
    BY <2>2, <2>3
<1>10. WaitInv'
  <2>1. SUFFICES ASSUME NEW w \in Waiters
                 PROVE  /\ fut'[w].todo \subseteq DOMAIN fut'[w].targets
                        /\ fut'[w].pc = "pending" => ~fut'[w].first
                        /\ ~fut'[w].fired /\ ~fut'[w].refused =>
                             \A q \in Registered(w)' :
                               /\ base'[q].signal \cap fut'[w].targets[q] = {}
                               /\ [who |-> w, n |-> fut'[w].n, want |-> fut'[w].targets[q]]
                                    \in base'[q].callbacks
    BY DEF WaitInv, WaitCallback
  <2>2. Registered(w)' = Registered(w) /\ Registered(w) \subseteq Objects
    BY <1>1, <1>9, TargetFacts DEF Registered
  <2>3. ASSUME ~fut'[w].fired, ~fut'[w].refused, NEW q \in Registered(w)
        PROVE  /\ base'[q].signal \cap fut[w].targets[q] = {}
               /\ [who |-> w, n |-> fut[w].n, want |-> fut[w].targets[q]] \in base'[q].callbacks
    <3>1. PICK cb : cb = [who |-> w, n |-> fut[w].n, want |-> fut[w].targets[q]]
      OBVIOUS
    <3>2. base[q].signal \cap fut[w].targets[q] = {} /\ cb \in base[q].callbacks
      BY <1>9, <2>3, <3>1 DEF KInv, WaitInv, WaitCallback
    <3>3. cb \notin ran /\ cb.want = fut[w].targets[q]
      BY <1>9, <2>3, <3>1
    <3>4. CASE q = o
      BY <1>4, <1>7, <3>1, <3>2, <3>3, <3>4
    <3>5. CASE q # o
      BY <1>7, <2>2, <3>1, <3>2, <3>5
    <3>. QED
      BY <3>4, <3>5
  <2>4. fut[w].todo \subseteq DOMAIN fut[w].targets /\ (fut[w].pc = "pending" => ~fut[w].first)
    BY DEF KInv, WaitInv
  <2>. QED
    BY <1>9, <2>2, <2>3, <2>4
<1>11. ASSUME NEW b \in Observers
       PROVE  /\ obs'[b] \in ObsRec
              /\ obs'[b].packets = IF obs'[b].pc = "done" THEN 1 ELSE 0
              /\ \A q, p \in obs'[b].object : q = p
              /\ obs'[b].pc = "armed" => \A q \in obs'[b].object :
                   /\ base'[q].signal \cap obs'[b].want = {}
                   /\ [who |-> b, n |-> 0, want |-> obs'[b].want] \in base'[q].callbacks
              /\ \A q \in Objects : \A cb \in base'[q].callbacks : cb.who = b =>
                   /\ obs'[b].pc = "armed" /\ q \in obs'[b].object
                   /\ cb = [who |-> b, n |-> 0, want |-> obs'[b].want]
  <2>1. /\ obs[b] \in ObsRec /\ obs[b].object \subseteq Objects
        /\ obs[b].packets = IF obs[b].pc = "done" THEN 1 ELSE 0
        /\ \A q, p \in obs[b].object : q = p
        /\ obs[b].pc = "armed" => \A q \in obs[b].object :
             /\ base[q].signal \cap obs[b].want = {}
             /\ [who |-> b, n |-> 0, want |-> obs[b].want] \in base[q].callbacks
        /\ \A q \in Objects : \A cb \in base[q].callbacks : cb.who = b =>
             /\ obs[b].pc = "armed" /\ q \in obs[b].object
             /\ cb = [who |-> b, n |-> 0, want |-> obs[b].want]
    BY <1>1 DEF KInv, ObsInv, SignalTypes, PortCallback, ObsRec
  <2>2. \A q \in Objects : base'[q].callbacks \subseteq base[q].callbacks
    BY <1>7
  <2>3. CASE \E cb \in ran : cb.who = b
    <3>1. obs[b].pc = "armed" /\ o \in obs[b].object
      BY <1>4, <2>1, <2>3
    <3>2. [who |-> b, n |-> 0, want |-> obs[b].want] \in ran
      BY <1>4, <2>1, <2>3
    <3>3. obs'[b] = [obs[b] EXCEPT !.pc = "done", !.packets = @ + 1]
      BY <1>8, <2>3
    <3>4. /\ obs'[b] \in ObsRec /\ obs'[b].pc = "done" /\ obs'[b].packets = 1
          /\ obs'[b].object = obs[b].object
      <4>1. obs[b].packets = 0
        BY <2>1, <3>1
      <4>2. obs'[b] = [obs[b] EXCEPT !.pc = "done", !.packets = 1]
        BY <3>3, <4>1
      <4>. QED
        BY <2>1, <4>2 DEF ObsRec
    <3>5. \A q \in Objects : \A cb \in base'[q].callbacks : cb.who # b
      BY <1>7, <2>1, <2>2, <3>1, <3>2
    <3>. QED
      BY <2>1, <3>4, <3>5
  <2>4. CASE ~\E cb \in ran : cb.who = b
    <3>1. obs'[b] = obs[b]
      BY <1>8, <2>4
    <3>2. ASSUME obs[b].pc = "armed", NEW q \in obs[b].object
          PROVE  /\ base'[q].signal \cap obs[b].want = {}
                 /\ [who |-> b, n |-> 0, want |-> obs[b].want] \in base'[q].callbacks
      <4>1. PICK cb : cb = [who |-> b, n |-> 0, want |-> obs[b].want]
        OBVIOUS
      <4>2. cb \in base[q].callbacks /\ cb \notin ran /\ cb.want = obs[b].want
        BY <2>1, <2>4, <3>2, <4>1
      <4>3. CASE q = o
        BY <1>4, <1>7, <4>1, <4>2, <4>3
      <4>4. CASE q # o
        BY <1>7, <2>1, <3>2, <4>1, <4>2, <4>4
      <4>. QED
        BY <4>3, <4>4
    <3>. QED
      BY <2>1, <2>2, <3>1, <3>2
  <2>. QED
    BY <2>3, <2>4
<1>12. ObsInv'
  BY <1>11 DEF ObsInv, PortCallback
<1>13. SignalTypes'
  <2>1. fut' \in [Waiters -> FutRec]
    BY <1>8, <1>9
  <2>2. obs' \in [Observers -> ObsRec]
    BY <1>8, <1>11
  <2>. QED
    BY <1>7, <1>8, <2>1, <2>2 DEF SignalTypes
<1>. QED
  BY <1>10, <1>12, <1>13 DEF KInv

\* ObserveNow and ObserveLater: the first reading of the signal.
LEMMA ObserveStep ==
  ASSUME KInv, NEW b \in Observers, NEW o \in Objects, NEW want \in Wants,
         ObserveNow(b, o, want) \/ ObserveLater(b, o, want)
  PROVE  KInv'
<1>1. /\ SignalTypes /\ obs[b].pc = "new" /\ UNCHANGED <<base, fut, woken>>
      /\ want \in SUBSET Bits
  BY DEF KInv, ObserveNow, ObserveLater, Wants
<1>2. PICK r : /\ r \in ObsRec /\ r.object = {o} /\ r.pc \in {"register", "done"}
               /\ r.packets = (IF r.pc = "done" THEN 1 ELSE 0)
               /\ obs' = [obs EXCEPT ![b] = r]
  <2>1. CASE ObserveNow(b, o, want)
    <3>1. PICK r : r = [pc |-> "done", object |-> {o}, want |-> want, packets |-> 1]
      OBVIOUS
    <3>2. obs' = [obs EXCEPT ![b] = r]
      BY <2>1, <3>1 DEF ObserveNow
    <3>. QED
      BY <1>1, <3>1, <3>2 DEF ObsRec
  <2>2. CASE ObserveLater(b, o, want)
    <3>1. PICK r : r = [pc |-> "register", object |-> {o}, want |-> want, packets |-> 0]
      OBVIOUS
    <3>2. obs' = [obs EXCEPT ![b] = r]
      BY <2>2, <3>1 DEF ObserveLater
    <3>. QED
      BY <1>1, <3>1, <3>2 DEF ObsRec
  <2>. QED
    BY <2>1, <2>2
<1>3. /\ SignalTypes' /\ obs'[b] = r /\ \A c \in Observers : c # b => obs'[c] = obs[c]
  BY <1>1, <1>2 DEF SignalTypes
<1>4. WaitInv'
  BY <1>1 DEF KInv, WaitInv, Registered, WaitCallback
<1>5. \A q \in Objects : \A cb \in base[q].callbacks : cb.who # b
  BY <1>1 DEF KInv, ObsInv
<1>6. ObsInv'
  BY <1>1, <1>2, <1>3, <1>5 DEF KInv, ObsInv, PortCallback
<1>. QED
  BY <1>3, <1>4, <1>6 DEF KInv

LEMMA RegisterObserverStep ==
  ASSUME KInv, NEW b \in Observers, NEW o \in Objects,
         RegisterObserver(b, o)
  PROVE  KInv'
<1>1. /\ SignalTypes /\ obs[b] \in ObsRec /\ obs[b].pc = "register" /\ o \in obs[b].object
      /\ UNCHANGED <<fut, woken>> /\ obs[b].packets = 0
      /\ \A q, p \in obs[b].object : q = p
      /\ \A q \in Objects : \A cb \in base[q].callbacks : cb.who # b
  BY DEF KInv, ObsInv, SignalTypes, RegisterObserver
<1>2. PICK cb : cb = [who |-> b, n |-> 0, want |-> obs[b].want]
  OBVIOUS
<1>3. cb \in Callbacks /\ cb.who = b /\ cb.want = obs[b].want /\ cb = PortCallback(b)
  BY KObjectAssumption, <1>1, <1>2 DEF Callbacks, ObsRec, PortCallback
<1>4. base' = [base EXCEPT ![o] = AddSignalCallback(@, cb)]
  BY <1>3 DEF RegisterObserver
<1>5. PICK hit \in BOOLEAN : hit <=> base[o].signal \cap cb.want # {}
  OBVIOUS
<1>6. /\ base' \in [Objects -> BaseRec]
      /\ \A q \in Objects : /\ base'[q].signal = base[q].signal
                            /\ q # o => base'[q].callbacks = base[q].callbacks
      /\ base'[o].callbacks = IF hit \/ Full(base[o])
                              THEN base[o].callbacks ELSE base[o].callbacks \cup {cb}
  BY <1>1, <1>3, <1>4, <1>5, AddFacts
<1>7. PICK r : /\ r \in ObsRec /\ r.object = obs[b].object /\ r.want = obs[b].want
               /\ r.pc = (IF hit THEN "done" ELSE IF Full(base[o]) THEN "lost" ELSE "armed")
               /\ r.packets = (IF hit THEN 1 ELSE 0)
               /\ obs' = [obs EXCEPT ![b] = r]
  <2>1. Meets(base[o].signal, PortCallback(b)) <=> hit
    BY <1>3, <1>5 DEF Meets
  <2>2. CASE hit
    <3>1. PICK r : r = [obs[b] EXCEPT !.pc = "done", !.packets = @ + 1]
      OBVIOUS
    <3>2. obs' = [obs EXCEPT ![b] = r]
      BY <1>1, <2>1, <2>2, <3>1 DEF RegisterObserver, SignalTypes
    <3>3. r = [obs[b] EXCEPT !.pc = "done", !.packets = 1]
      BY <1>1, <3>1
    <3>4. /\ r \in ObsRec /\ r.object = obs[b].object /\ r.want = obs[b].want
          /\ r.pc = "done" /\ r.packets = 1
      BY <1>1, <3>3 DEF ObsRec
    <3>. QED
      BY <2>2, <3>2, <3>4
  <2>3. CASE ~hit
    <3>1. PICK r : r = [obs[b] EXCEPT !.pc = IF Full(base[o]) THEN "lost" ELSE "armed"]
      OBVIOUS
    <3>2. obs' = [obs EXCEPT ![b] = r]
      BY <1>1, <2>1, <2>3, <3>1 DEF RegisterObserver
    <3>. QED
      BY <1>1, <2>3, <3>1, <3>2 DEF ObsRec
  <2>. QED
    BY <2>2, <2>3
<1>8. /\ SignalTypes' /\ obs'[b] = r /\ \A c \in Observers : c # b => obs'[c] = obs[c]
  BY <1>1, <1>6, <1>7 DEF SignalTypes
<1>9. WaitInv'
  <2>1. \A w \in Waiters : Registered(w)' = Registered(w) /\ Registered(w) \subseteq Objects
    BY <1>1, TargetFacts DEF Registered
  <2>2. \A q \in Objects : base[q].callbacks \subseteq base'[q].callbacks
    BY <1>6
  <2>. QED
    BY <1>1, <1>6, <2>1, <2>2 DEF KInv, WaitInv, WaitCallback
<1>10. ASSUME NEW c \in Observers
       PROVE  /\ obs'[c].packets = IF obs'[c].pc = "done" THEN 1 ELSE 0
              /\ \A q, p \in obs'[c].object : q = p
              /\ obs'[c].pc = "armed" => \A q \in obs'[c].object :
                   /\ base'[q].signal \cap obs'[c].want = {}
                   /\ [who |-> c, n |-> 0, want |-> obs'[c].want] \in base'[q].callbacks
              /\ \A q \in Objects : \A d \in base'[q].callbacks : d.who = c =>
                   /\ obs'[c].pc = "armed" /\ q \in obs'[c].object
                   /\ d = [who |-> c, n |-> 0, want |-> obs'[c].want]
  <2>1. CASE c = b
    <3>1. obs'[c].pc = "armed" => ~hit /\ cb \in base'[o].callbacks
      BY <1>6, <1>7, <1>8, <2>1
    <3>2. \A q \in Objects : \A d \in base'[q].callbacks :
            d.who = b => q = o /\ d = cb /\ obs'[b].pc = "armed"
      BY <1>1, <1>6, <1>7, <1>8
    <3>. QED
      BY <1>1, <1>2, <1>5, <1>6, <1>7, <1>8, <2>1, <3>1, <3>2
  <2>2. CASE c # b
    <3>1. /\ obs'[c] = obs[c] /\ obs[c].object \subseteq Objects
      BY <1>1, <1>8, <2>2 DEF SignalTypes, ObsRec
    <3>2. \A q \in Objects : \A d \in base'[q].callbacks : d.who = c => d \in base[q].callbacks
      BY <1>3, <1>6, <2>2
    <3>3. \A q \in Objects : base[q].callbacks \subseteq base'[q].callbacks
      BY <1>6
    <3>4. /\ obs[c].packets = IF obs[c].pc = "done" THEN 1 ELSE 0
          /\ \A q, p \in obs[c].object : q = p
          /\ obs[c].pc = "armed" => \A q \in obs[c].object :
               /\ base[q].signal \cap obs[c].want = {}
               /\ [who |-> c, n |-> 0, want |-> obs[c].want] \in base[q].callbacks
          /\ \A q \in Objects : \A d \in base[q].callbacks : d.who = c =>
               /\ obs[c].pc = "armed" /\ q \in obs[c].object
               /\ d = [who |-> c, n |-> 0, want |-> obs[c].want]
      BY DEF KInv, ObsInv, PortCallback
    <3>. QED
      BY <1>6, <3>1, <3>2, <3>3, <3>4
  <2>. QED
    BY <2>1, <2>2
<1>11. ObsInv'
  BY <1>10 DEF ObsInv, PortCallback
<1>. QED
  BY <1>8, <1>9, <1>11 DEF KInv

LEMMA SignalsInit == KInit => KInv
<1>. SUFFICES ASSUME KInit PROVE KInv
  OBVIOUS
<1>1. Idle \in FutRec /\ Idle.first /\ Idle.pc = "idle" /\ Idle.todo = {}
  BY KObjectAssumption DEF Idle, FutRec
<1>2. /\ \A o \in Objects : base[o].callbacks = {} /\ base[o].signal = {}
      /\ base \in [Objects -> BaseRec]
  BY DEF KInit, NewBase, BaseRec
<1>3. SignalTypes
  BY <1>1, <1>2 DEF KInit, SignalTypes, ObsRec
<1>4. WaitInv
  BY <1>1 DEF KInit, WaitInv, Registered
<1>5. ObsInv
  BY <1>2 DEF KInit, ObsInv
<1>. QED
  BY <1>3, <1>4, <1>5 DEF KInv

LEMMA SignalsNext == KInv /\ [KNext]_kvars => KInv'
<1>. SUFFICES ASSUME KInv, [KNext]_kvars PROVE KInv'
  OBVIOUS
<1>1. ASSUME NEW w \in Waiters, WaiterStep(w) \/ CancelWait(w) PROVE KInv'
  BY <1>1, PollStep, EndWaitStep, RegisterWaitStep DEF WaiterStep
<1>2. ASSUME NEW w \in Waiters, NEW t \in Targets, StartWait(w, t) PROVE KInv'
  BY <1>2, StartWaitStep
<1>3. ASSUME NEW o \in Objects, NEW clear \in SUBSET Bits, NEW set \in SUBSET Bits,
             ChangeSignal(o, clear, set)
      PROVE  KInv'
  BY <1>3, ChangeSignalStep
<1>4. ASSUME NEW b \in Observers, NEW o \in Objects, NEW want \in Wants,
             ObserveNow(b, o, want) \/ ObserveLater(b, o, want)
      PROVE  KInv'
  BY <1>4, ObserveStep
<1>5. ASSUME NEW b \in Observers, NEW o \in Objects, RegisterObserver(b, o) PROVE KInv'
  BY <1>5, RegisterObserverStep
<1>6. CASE UNCHANGED kvars
  <2>1. UNCHANGED <<base, fut, woken, obs>>
    BY <1>6 DEF kvars
  <2>2. SignalTypes'
    BY <2>1 DEF KInv, SignalTypes
  <2>3. WaitInv'
    BY <2>1 DEF KInv, WaitInv, Registered, WaitCallback
  <2>4. ObsInv'
    BY <2>1 DEF KInv, ObsInv, PortCallback
  <2>. QED
    BY <2>2, <2>3, <2>4 DEF KInv
<1>. QED
  BY <1>1, <1>2, <1>3, <1>4, <1>5, <1>6 DEF KNext

(* The inductive invariant of the waits and subscriptions.                   *)
THEOREM SignalsInductive == KSpec => []KInv
<1>1. KInit => KInv
  BY SignalsInit
<1>2. KInv /\ [KNext]_kvars => KInv'
  BY SignalsNext
<1>. QED
  BY <1>1, <1>2, PTL DEF KSpec

(* The types of the object bases, futures and subscriptions of KObject.      *)
THEOREM SignalsTypeCorrect == KSpec => []KTypeOK
<1>1. KInv => KTypeOK
  BY DEF KInv, SignalTypes, BaseRec, Callbacks, FutRec, ObsRec, KTypeOK
<1>. QED
  BY <1>1, SignalsInductive, PTL

(* wait_signal_many: a wait that sleeps, none of whose callbacks has fired   *)
(* or was refused by a full table, has its callback on every target and      *)
(* misses no signal, however the polls, the registrations and the changes of *)
(* signals interleave.                                                       *)
THEOREM SleepsArmedHolds == KSpec => []SleepsArmed
<1>1. KInv => SleepsArmed
  BY DEF KInv, WaitInv, Registered, SleepsArmed, Asserted
<1>. QED
  BY <1>1, SignalsInductive, PTL

(* send_signal_to_port_async: a subscription pushes one packet and never a   *)
(* second; while it is armed its callback is in the table.                   *)
THEOREM OnePacketPerObserverHolds == KSpec => []OnePacketPerObserver
<1>1. KInv => OnePacketPerObserver
  BY DEF KInv, ObsInv, OnePacketPerObserver
<1>. QED
  BY <1>1, SignalsInductive, PTL

-----------------------------------------------------------------------------
(***************************************************************************)
(* Ports (Port), for any pushers, waiters and packets, with or without     *)
(* interrupts, and any limits.                                             *)
(***************************************************************************)

Elems(s) == {s[i] : i \in 1 .. Len(s)}

\* The packets s pushed, q still queued and g returned, where those of Q go
\* through the queue: nothing is lost or doubled, and the queue is in order.
InOrder(s, q, g, Q) ==
  /\ \A m, n \in 1 .. Len(s) : s[m] = s[n] => m = n
  /\ \A x \in Q : x \in Elems(s) <=> x \in Elems(q) \/ x \in Elems(g)
  /\ \A x \in Elems(q) : x \in Q /\ x \notin Elems(g)
  /\ \A i, j \in 1 .. Len(q), m, n \in 1 .. Len(s) :
       q[i] = s[m] /\ q[j] = s[n] => (m < n <=> i < j)
  /\ \A i \in 1 .. Len(g), m, n \in 1 .. Len(s) :
       m < n /\ g[i] = s[n] /\ s[m] \in Q /\ s[n] \in Q => \E h \in 1 .. (i - 1) : g[h] = s[m]
  /\ Elems(g) \subseteq Elems(s)
  /\ \A i, j \in 1 .. Len(g) : g[i] = g[j] => i = j

LEMMA PushedFacts ==
  ASSUME NEW S, NEW s \in Seq(S), NEW x \in S
  PROVE  /\ Append(s, x) \in Seq(S) /\ Len(s) \in Nat /\ Len(Append(s, x)) = Len(s) + 1
         /\ \A i \in 1 .. Len(s) : Append(s, x)[i] = s[i]
         /\ Append(s, x)[Len(s) + 1] = x
         /\ \A y : y \in Elems(Append(s, x)) <=> y \in Elems(s) \/ y = x
         /\ \A i \in 1 .. (Len(s) + 1) : i \in 1 .. Len(s) \/ i = Len(s) + 1
<1>1. /\ Append(s, x) \in Seq(S) /\ Len(s) \in Nat /\ Len(Append(s, x)) = Len(s) + 1
      /\ \A i \in 1 .. Len(s) : Append(s, x)[i] = s[i]
      /\ Append(s, x)[Len(s) + 1] = x
  BY AppendProperties, LenProperties
<1>2. \A i \in 1 .. (Len(s) + 1) : i \in 1 .. Len(s) \/ i = Len(s) + 1
  BY <1>1
<1>3. \A y : y \in Elems(Append(s, x)) <=> y \in Elems(s) \/ y = x
  <2>1. Len(s) + 1 \in 1 .. (Len(s) + 1) /\ 1 .. Len(s) \subseteq 1 .. (Len(s) + 1)
    BY <1>1
  <2>. QED
    BY <1>1, <1>2, <2>1 DEF Elems
<1>. QED
  BY <1>1, <1>2, <1>3

LEMMA PoppedFacts ==
  ASSUME NEW S, NEW s \in Seq(S), s # <<>>
  PROVE  /\ Head(s) = s[1] /\ Head(s) \in S /\ 1 \in 1 .. Len(s) /\ Len(s) \in Nat
         /\ Tail(s) \in Seq(S) /\ Len(Tail(s)) = Len(s) - 1
         /\ \A i \in 1 .. Len(Tail(s)) : Tail(s)[i] = s[i + 1] /\ i + 1 \in 1 .. Len(s)
         /\ \A y : y \in Elems(s) <=> y \in Elems(Tail(s)) \/ y = Head(s)
<1>1. /\ Head(s) = s[1] /\ Head(s) \in S /\ 1 \in 1 .. Len(s) /\ Len(s) \in Nat
      /\ Tail(s) \in Seq(S) /\ Len(Tail(s)) = Len(s) - 1
      /\ \A i \in 1 .. Len(Tail(s)) : Tail(s)[i] = s[i + 1] /\ i + 1 \in 1 .. Len(s)
  <2>1. Len(s) \in Nat /\ Len(s) # 0
    BY LenProperties, EmptySeq
  <2>. QED
    BY <2>1, HeadTailProperties, ElementOfSeq
<1>2. \A i \in 1 .. Len(s) : i # 1 => /\ i - 1 \in 1 .. Len(Tail(s)) /\ Tail(s)[i - 1] = s[i]
  <2>1. \A i \in 1 .. Len(s) : i # 1 => i - 1 \in 1 .. Len(Tail(s)) /\ (i - 1) + 1 = i
    BY <1>1
  <2>. QED
    BY <1>1, <2>1
<1>3. ASSUME NEW y PROVE y \in Elems(s) <=> y \in Elems(Tail(s)) \/ y = Head(s)
  <2>1. ASSUME NEW i \in 1 .. Len(s), y = s[i] PROVE y \in Elems(Tail(s)) \/ y = Head(s)
    BY <1>1, <1>2, <2>1 DEF Elems
  <2>2. y \in Elems(Tail(s)) \/ y = Head(s) => y \in Elems(s)
    BY <1>1 DEF Elems
  <2>. QED
    BY <2>1, <2>2 DEF Elems
<1>. QED
  BY <1>1, <1>3

\* push: the packet goes to the end of both.
LEMMA PushKeepsOrder ==
  ASSUME NEW S, NEW s \in Seq(S), NEW q \in Seq(S), NEW g \in Seq(S), NEW Q,
         InOrder(s, q, g, Q), NEW x \in S, x \in Q, x \notin Elems(s)
  PROVE  InOrder(Append(s, x), Append(q, x), g, Q)
<1>. DEFINE t == Append(s, x)
            r == Append(q, x)
<1>1. /\ Len(s) \in Nat /\ Len(t) = Len(s) + 1 /\ t[Len(s) + 1] = x
      /\ \A i \in 1 .. Len(s) : t[i] = s[i] /\ s[i] # x
      /\ \A y : y \in Elems(t) <=> y \in Elems(s) \/ y = x
      /\ \A i \in 1 .. Len(t) : i \in 1 .. Len(s) \/ i = Len(s) + 1
  BY PushedFacts DEF Elems
<1>2. /\ Len(q) \in Nat /\ Len(r) = Len(q) + 1 /\ r[Len(q) + 1] = x
      /\ \A y : y \in Elems(r) <=> y \in Elems(q) \/ y = x
      /\ \A i \in 1 .. Len(r) : i \in 1 .. Len(q) \/ i = Len(q) + 1
      /\ \A i \in 1 .. Len(q) : r[i] = q[i]
  BY PushedFacts
<1>3. \A i \in 1 .. Len(q) : q[i] # x
  BY DEF InOrder, Elems
<1>. HIDE DEF t, r
<1>0. \A m, n \in 1 .. Len(s) : s[m] = s[n] => m = n
  BY DEF InOrder
<1>4. \A m, n \in 1 .. Len(t) : t[m] = t[n] => m = n
  BY <1>0, <1>1
<1>5. \A y \in Q : y \in Elems(t) <=> y \in Elems(r) \/ y \in Elems(g)
  BY <1>1, <1>2 DEF InOrder
<1>6. \A y \in Elems(r) : y \in Q /\ y \notin Elems(g)
  BY <1>2 DEF InOrder
<1>7. ASSUME NEW i \in 1 .. Len(r), NEW j \in 1 .. Len(r), NEW m \in 1 .. Len(t),
             NEW n \in 1 .. Len(t), r[i] = t[m], r[j] = t[n]
      PROVE  m < n <=> i < j
  <2>1. i \in 1 .. Len(q) <=> m \in 1 .. Len(s)
    BY <1>1, <1>2, <1>3, <1>7
  <2>2. j \in 1 .. Len(q) <=> n \in 1 .. Len(s)
    BY <1>1, <1>2, <1>3, <1>7
  <2>3. CASE i \in 1 .. Len(q) /\ j \in 1 .. Len(q)
    <3>1. q[i] = s[m] /\ q[j] = s[n]
      BY <1>1, <1>2, <1>7, <2>1, <2>2, <2>3
    <3>. QED
      BY <2>1, <2>2, <2>3, <3>1 DEF InOrder
  <2>4. CASE i \notin 1 .. Len(q) \/ j \notin 1 .. Len(q)
    BY <1>1, <1>2, <2>1, <2>2, <2>4
  <2>. QED
    BY <2>3, <2>4
<1>8. ASSUME NEW i \in 1 .. Len(g), NEW m \in 1 .. Len(t), NEW n \in 1 .. Len(t),
             m < n, g[i] = t[n], t[m] \in Q, t[n] \in Q
      PROVE  \E h \in 1 .. (i - 1) : g[h] = t[m]
  <2>1. g[i] \in Elems(s)
    <3>1. g[i] \in Elems(g)
      BY DEF Elems
    <3>. QED
      BY <3>1 DEF InOrder
  <2>2. n \in 1 .. Len(s)
    BY <1>1, <1>8, <2>1
  <2>3. m \in 1 .. Len(s)
    BY <1>1, <1>8, <2>2
  <2>4. t[m] = s[m] /\ t[n] = s[n]
    BY <1>1, <2>2, <2>3
  <2>. QED
    BY <1>8, <2>2, <2>3, <2>4 DEF InOrder
<1>9. Elems(g) \subseteq Elems(t) /\ \A i, j \in 1 .. Len(g) : g[i] = g[j] => i = j
  BY <1>1 DEF InOrder
<1>10. InOrder(t, r, g, Q)
  BY <1>4, <1>5, <1>6, <1>7, <1>8, <1>9 DEF InOrder
<1>. QED
  BY <1>10 DEF t, r

\* push_interrupt: the packet is not for the queue.
LEMMA InterruptKeepsOrder ==
  ASSUME NEW S, NEW s \in Seq(S), NEW q \in Seq(S), NEW g \in Seq(S), NEW Q,
         InOrder(s, q, g, Q), NEW x \in S, x \notin Q, x \notin Elems(s)
  PROVE  InOrder(Append(s, x), q, g, Q)
<1>. DEFINE t == Append(s, x)
<1>1. /\ Len(s) \in Nat /\ Len(t) = Len(s) + 1 /\ t[Len(s) + 1] = x
      /\ \A i \in 1 .. Len(s) : t[i] = s[i] /\ s[i] # x
      /\ \A y : y \in Elems(t) <=> y \in Elems(s) \/ y = x
      /\ \A i \in 1 .. Len(t) : i \in 1 .. Len(s) \/ i = Len(s) + 1
  BY PushedFacts DEF Elems
<1>2. \A i \in 1 .. Len(q) : q[i] # x
  BY DEF InOrder, Elems
<1>. HIDE DEF t
<1>0. \A m, n \in 1 .. Len(s) : s[m] = s[n] => m = n
  BY DEF InOrder
<1>3. \A m, n \in 1 .. Len(t) : t[m] = t[n] => m = n
  BY <1>0, <1>1
<1>4. \A y \in Q : y \in Elems(t) <=> y \in Elems(q) \/ y \in Elems(g)
  BY <1>1 DEF InOrder
<1>5. ASSUME NEW i \in 1 .. Len(q), NEW j \in 1 .. Len(q), NEW m \in 1 .. Len(t),
             NEW n \in 1 .. Len(t), q[i] = t[m], q[j] = t[n]
      PROVE  m < n <=> i < j
  <2>1. m \in 1 .. Len(s) /\ n \in 1 .. Len(s) /\ q[i] = s[m] /\ q[j] = s[n]
    BY <1>1, <1>2, <1>5
  <2>. QED
    BY <2>1 DEF InOrder
<1>6. ASSUME NEW i \in 1 .. Len(g), NEW m \in 1 .. Len(t), NEW n \in 1 .. Len(t),
             m < n, g[i] = t[n], t[m] \in Q, t[n] \in Q
      PROVE  \E h \in 1 .. (i - 1) : g[h] = t[m]
  <2>1. n \in 1 .. Len(s) /\ m \in 1 .. Len(s)
    BY <1>1, <1>6
  <2>2. t[m] = s[m] /\ t[n] = s[n]
    BY <1>1, <2>1
  <2>. QED
    BY <1>6, <2>1, <2>2 DEF InOrder
<1>7. Elems(g) \subseteq Elems(t) /\ \A i, j \in 1 .. Len(g) : g[i] = g[j] => i = j
  BY <1>1 DEF InOrder
<1>8. InOrder(t, q, g, Q)
  BY <1>3, <1>4, <1>5, <1>6, <1>7 DEF InOrder
<1>. QED
  BY <1>8 DEF t

\* wait takes the head of the queue.
LEMMA TakeKeepsOrder ==
  ASSUME NEW S, NEW s \in Seq(S), NEW q \in Seq(S), NEW g \in Seq(S), NEW Q,
         InOrder(s, q, g, Q), q # <<>>
  PROVE  InOrder(s, Tail(q), Append(g, Head(q)), Q)
<1>1. PICK x : x = Head(q)
  OBVIOUS
<1>2. PICK r \in Seq(S) : r = Tail(q)
  BY PoppedFacts
<1>3. /\ x \in S /\ x = q[1] /\ 1 \in 1 .. Len(q) /\ Len(q) \in Nat /\ Len(r) = Len(q) - 1
      /\ \A i \in 1 .. Len(r) : r[i] = q[i + 1] /\ i + 1 \in 1 .. Len(q)
      /\ \A y : y \in Elems(q) <=> y \in Elems(r) \/ y = x
  BY <1>1, <1>2, PoppedFacts
<1>4. PICK f \in Seq(S) : f = Append(g, x)
  BY <1>3, PushedFacts
<1>5. /\ Len(g) \in Nat /\ Len(f) = Len(g) + 1 /\ f[Len(g) + 1] = x
      /\ \A i \in 1 .. Len(g) : f[i] = g[i]
      /\ \A y : y \in Elems(f) <=> y \in Elems(g) \/ y = x
      /\ \A i \in 1 .. Len(f) : i \in 1 .. Len(g) \/ i = Len(g) + 1
  BY <1>3, <1>4, PushedFacts
<1>6. x \in Elems(q) /\ x \in Q /\ x \notin Elems(g) /\ x \in Elems(s)
  BY <1>3 DEF InOrder
<1>7. PICK k \in 1 .. Len(s) : s[k] = x
  BY <1>6 DEF Elems
<1>8. \A i \in 1 .. Len(r) : r[i] # x
  <2>1. SUFFICES ASSUME NEW i \in 1 .. Len(r), r[i] = x PROVE FALSE
    OBVIOUS
  <2>2. q[i + 1] = s[k] /\ q[1] = s[k] /\ i + 1 \in 1 .. Len(q) /\ 1 < i + 1
    BY <1>3, <1>7, <2>1
  <2>. QED
    BY <1>3, <2>2 DEF InOrder
<1>9. x \notin Elems(r)
  BY <1>8 DEF Elems
<1>10. \A y \in Q : y \in Elems(s) <=> y \in Elems(r) \/ y \in Elems(f)
  BY <1>3, <1>5 DEF InOrder
<1>11. \A y \in Elems(r) : y \in Q /\ y \notin Elems(f)
  BY <1>3, <1>5, <1>9 DEF InOrder
<1>12. ASSUME NEW i \in 1 .. Len(r), NEW j \in 1 .. Len(r), NEW m \in 1 .. Len(s),
              NEW n \in 1 .. Len(s), r[i] = s[m], r[j] = s[n]
       PROVE  m < n <=> i < j
  <2>1. q[i + 1] = s[m] /\ q[j + 1] = s[n] /\ i + 1 \in 1 .. Len(q) /\ j + 1 \in 1 .. Len(q)
    BY <1>3, <1>12
  <2>2. m < n <=> i + 1 < j + 1
    BY <2>1 DEF InOrder
  <2>. QED
    BY <1>3, <2>2
<1>13. ASSUME NEW i \in 1 .. Len(f), NEW m \in 1 .. Len(s), NEW n \in 1 .. Len(s),
              m < n, f[i] = s[n], s[m] \in Q, s[n] \in Q
       PROVE  \E h \in 1 .. (i - 1) : f[h] = s[m]
  <2>1. CASE i \in 1 .. Len(g)
    <3>1. PICK h \in 1 .. (i - 1) : g[h] = s[m]
      BY <1>5, <1>13, <2>1 DEF InOrder
    <3>2. h \in 1 .. Len(g)
      BY <1>5, <2>1, <3>1
    <3>3. f[h] = s[m]
      BY <1>5, <3>1, <3>2
    <3>. QED
      BY <3>1, <3>3
  <2>2. CASE i = Len(g) + 1
    <3>1. q[1] = s[n] /\ s[m] \in Elems(s)
      BY <1>3, <1>5, <1>13, <2>2 DEF Elems
    <3>2. ~\E j \in 1 .. Len(q) : q[j] = s[m]
      <4>1. SUFFICES ASSUME NEW j \in 1 .. Len(q), q[j] = s[m] PROVE FALSE
        OBVIOUS
      <4>2. m < n <=> j < 1
        BY <1>3, <3>1, <4>1 DEF InOrder
      <4>. QED
        BY <1>3, <1>13, <4>2
    <3>3. s[m] \in Elems(g)
      <4>1. s[m] \notin Elems(q)
        BY <3>2 DEF Elems
      <4>. QED
        BY <1>13, <3>1, <4>1 DEF InOrder
    <3>. QED
      BY <1>5, <2>2, <3>3 DEF Elems
  <2>. QED
    BY <1>5, <2>1, <2>2
<1>14. Elems(f) \subseteq Elems(s)
  BY <1>5, <1>6 DEF InOrder
<1>15. \A i, j \in 1 .. Len(f) : f[i] = f[j] => i = j
  <2>1. \A i \in 1 .. Len(g) : g[i] # x
    BY <1>6 DEF Elems
  <2>2. \A i, j \in 1 .. Len(g) : g[i] = g[j] => i = j
    BY DEF InOrder
  <2>. QED
    BY <1>5, <2>1, <2>2
<1>16. InOrder(s, r, f, Q)
  BY <1>10, <1>11, <1>12, <1>13, <1>14, <1>15 DEF InOrder
<1>. QED
  BY <1>1, <1>2, <1>4, <1>16

\* wait takes an interrupt packet.
LEMMA TakeInterruptKeepsOrder ==
  ASSUME NEW S, NEW s \in Seq(S), NEW q \in Seq(S), NEW g \in Seq(S), NEW Q,
         InOrder(s, q, g, Q), NEW x \in S, x \notin Q, x \in Elems(s), x \notin Elems(g)
  PROVE  InOrder(s, q, Append(g, x), Q)
<1>1. PICK f \in Seq(S) : f = Append(g, x)
  BY PushedFacts
<1>2. /\ Len(g) \in Nat /\ Len(f) = Len(g) + 1 /\ f[Len(g) + 1] = x
      /\ \A i \in 1 .. Len(g) : f[i] = g[i]
      /\ \A y : y \in Elems(f) <=> y \in Elems(g) \/ y = x
      /\ \A i \in 1 .. Len(f) : i \in 1 .. Len(g) \/ i = Len(g) + 1
  BY <1>1, PushedFacts
<1>3. /\ \A y \in Q : y \in Elems(s) <=> y \in Elems(q) \/ y \in Elems(f)
      /\ \A y \in Elems(q) : y \in Q /\ y \notin Elems(f)
      /\ Elems(f) \subseteq Elems(s)
  BY <1>2 DEF InOrder
<1>4. ASSUME NEW i \in 1 .. Len(f), NEW m \in 1 .. Len(s), NEW n \in 1 .. Len(s),
             m < n, f[i] = s[n], s[m] \in Q, s[n] \in Q
      PROVE  \E h \in 1 .. (i - 1) : f[h] = s[m]
  <2>1. i \in 1 .. Len(g) /\ g[i] = s[n]
    BY <1>2, <1>4
  <2>2. PICK h \in 1 .. (i - 1) : g[h] = s[m]
    BY <1>4, <2>1 DEF InOrder
  <2>. QED
    BY <1>2, <2>1, <2>2
<1>5. \A i, j \in 1 .. Len(f) : f[i] = f[j] => i = j
  <2>1. \A i \in 1 .. Len(g) : g[i] # x
    BY DEF Elems
  <2>. QED
    BY <1>2, <2>1 DEF InOrder
<1>6. InOrder(s, q, f, Q)
  BY <1>3, <1>4, <1>5 DEF InOrder
<1>. QED
  BY <1>1, <1>6

\* A set of naturals that is not empty has a smallest element.
LEMMA Smallest ==
  ASSUME NEW T \in SUBSET Nat, T # {}
  PROVE  \E x \in T : \A y \in T : x <= y
<1>1. PICK x \in T : \A y \in T : ~(<<y, x>> \in OpToRel(<, Nat))
  BY WFMin, NatLessThanWellFounded
<1>2. x \in T /\ \A y \in T : ~(y < x)
  BY <1>1 DEF OpToRel
<1>. QED
  BY <1>2

LEMMA SameCardinality == \A S : Cardinality(S) = Cardinality(S)
  BY Zenon DEF Cardinality, Cardinality

\* The pop skips what was taken back, and stops at a packet that was not.
LEMMA LiveFacts ==
  ASSUME NEW S, NEW s \in Seq(S), Live(s) # <<>>
  PROVE  Live(s) \in Seq(S) /\ Head(Live(s)) \in grave /\ Head(Live(s)) \in S
<1>. DEFINE L == {i \in 1 .. Len(s) : s[i] \in grave}
<1>1. Len(s) \in Nat /\ \A i \in 1 .. Len(s) : s[i] \in S
  BY LenProperties, ElementOfSeq
<1>2. L # {}
  <2>1. SUFFICES ASSUME L = {} PROVE FALSE
    OBVIOUS
  <2>2. Dead(s) = 1 .. Len(s)
    BY <1>1, <2>1 DEF Dead
  <2>3. Cardinality(Dead(s)) = Len(s)
    <3>1. Cardinality(1 .. Len(s)) = Len(s)
      BY <1>1, FS_Interval
    <3>. QED
      BY <2>2, <3>1, SameCardinality
  <2>4. Live(s) = <<>>
    BY <1>1, <2>3, SubSeqEmpty DEF Live
  <2>. QED
    BY <2>4
<1>3. PICK x \in 1 .. Len(s) : s[x] \in grave /\ \A y \in L : x <= y
  <2>1. L \in SUBSET Nat
    BY <1>1
  <2>2. \E x \in L : \A y \in L : x <= y
    <3>. HIDE DEF L
    <3>. QED
      BY <1>2, <2>1, Smallest
  <2>. QED
    BY <2>2
<1>4. Dead(s) = 1 .. (x - 1)
  <2>1. \A i \in 1 .. Len(s) : i < x => \A j \in 1 .. i : s[j] \notin grave
    BY <1>1, <1>3
  <2>2. \A i \in 1 .. Len(s) : ~(i < x) => x \in 1 .. i /\ s[x] \in grave
    BY <1>1, <1>3
  <2>3. \A i : i \in Dead(s) <=> i \in 1 .. Len(s) /\ i < x
    BY <1>1, <1>3, <2>1, <2>2 DEF Dead
  <2>4. \A i : i \in 1 .. (x - 1) <=> i \in 1 .. Len(s) /\ i < x
    BY <1>1, <1>3
  <2>. QED
    BY <2>3, <2>4
<1>5. Cardinality(Dead(s)) = x - 1
  BY <1>1, <1>3, <1>4, FS_Interval, SameCardinality
<1>6. Live(s) = SubSeq(s, x, Len(s))
  BY <1>1, <1>3, <1>5 DEF Live
<1>7. x \in 1 .. Len(s) /\ Len(s) \in x .. Len(s) /\ s[x] \in grave
  BY <1>1, <1>3
<1>8. Head(Live(s)) = s[x]
  BY <1>6, <1>7, HeadTailOfSubSeq
<1>9. Live(s) \in Seq(S)
  BY <1>1, <1>6, <1>7, SubSeqProperties
<1>. QED
  BY <1>1, <1>7, <1>8, <1>9

-----------------------------------------------------------------------------

PortRec == [signal : SUBSET Readable,
            callbacks : SUBSET [who : PortWaiters, want : {Readable}]]
PushRec == [pc : {"idle", "enqueue", "signal"}, packet : Packets \cup {NoPacket}]
WaitRec == [pc : {"idle", "poll", "register", "asleep", "take"}, first : BOOLEAN]

PortTypes ==
  /\ pbase \in PortRec
  /\ pqueue \in Seq(Packets) /\ iqueue \in Seq(Interrupts)
  /\ grave \subseteq Interrupts /\ cancelled \subseteq Interrupts
  /\ push \in [Pushers -> PushRec]
  /\ pushed \in Seq(Packets) /\ got \in Seq(Packets)
  /\ wait \in [PortWaiters -> WaitRec] /\ pwoken \subseteq PortWaiters

\* A packet about to be queued is on its way only here.
PushInv ==
  \A p \in Pushers : push[p].pc = "enqueue" =>
    /\ push[p].packet \in Ordinary /\ push[p].packet \notin Elems(pushed)
    /\ \A q \in Pushers : push[q].pc = "enqueue" /\ push[q].packet = push[p].packet => p = q

\* An interrupt packet in the grave can still be delivered or taken back.
GraveInv ==
  /\ grave \subseteq Elems(pushed)
  /\ grave \cap (Elems(got) \cup cancelled) = {}
  /\ Elems(got) \cap cancelled = {}
  /\ cancelled \subseteq Elems(pushed)

PortInv == PortTypes /\ PushInv /\ GraveInv /\ InOrder(pushed, pqueue, got, Ordinary)

\* The steps of a waiter or a pusher that move no packet.
LEMMA IdlePortStep ==
  ASSUME PortInv, UNCHANGED <<pqueue, iqueue, grave, pushed, cancelled, got>>,
         pbase' \in PortRec, push' \in [Pushers -> PushRec], PushInv',
         wait' \in [PortWaiters -> WaitRec], pwoken' \subseteq PortWaiters
  PROVE  PortInv'
<1>1. PortTypes' /\ GraveInv'
  BY DEF PortInv, PortTypes, GraveInv, Packets, Ordinary
<1>2. InOrder(pushed, pqueue, got, Ordinary)'
  BY DEF PortInv, Ordinary
<1>. QED
  BY <1>1, <1>2 DEF PortInv

\* CheckRoom and BeginPush: a push begins.
LEMMA BeginStep ==
  ASSUME PortInv, NEW p \in Pushers, NEW k \in Packets, CheckRoom(p, k) \/ BeginPush(p, k)
  PROVE  PortInv'
<1>1. PICK r : r = [pc |-> "enqueue", packet |-> k]
  OBVIOUS
<1>2. /\ r \in PushRec /\ r.pc = "enqueue" /\ r.packet = k /\ k \in Ordinary
      /\ push' = [push EXCEPT ![p] = r] /\ Fresh(k)
      /\ UNCHANGED <<pbase, pqueue, iqueue, grave, pushed, cancelled, wait, pwoken, got>>
  BY <1>1 DEF CheckRoom, BeginPush, PushRec, Ordinary, port, phist
<1>3. push' \in [Pushers -> PushRec] /\ push'[p] = r /\ \A q \in Pushers : q # p => push'[q] = push[q]
  BY <1>2 DEF PortInv, PortTypes
<1>4. k \notin Elems(pushed) /\ \A q \in Pushers : push[q].packet # k
  BY <1>2 DEF Fresh, RangeOf, InPush, Elems
<1>5. PushInv'
  BY <1>2, <1>3, <1>4 DEF PortInv, PushInv, Ordinary
<1>. QED
  BY <1>2, <1>3, <1>5, IdlePortStep DEF PortInv, PortTypes

LEMMA RefuseStep ==
  ASSUME PortInv, NEW p \in Pushers, NEW k \in Packets, RefuseUser(p, k)
  PROVE  PortInv'
<1>1. UNCHANGED <<pbase, pqueue, iqueue, grave, push, pushed, cancelled, wait, pwoken, got>>
  BY DEF RefuseUser, port
<1>2. PushInv'
  BY <1>1 DEF PortInv, PushInv, Ordinary
<1>. QED
  BY <1>1, <1>2, IdlePortStep DEF PortInv, PortTypes

LEMMA EnqueueStep ==
  ASSUME PortInv, NEW p \in Pushers, Enqueue(p)
  PROVE  PortInv'
<1>1. PICK k : k = push[p].packet
  OBVIOUS
<1>2. PICK r : r = [push[p] EXCEPT !.pc = "signal"]
  OBVIOUS
<1>3. /\ push[p] \in PushRec /\ push[p].pc = "enqueue"
      /\ pqueue' = Append(pqueue, k) /\ pushed' = Append(pushed, k) /\ push' = [push EXCEPT ![p] = r]
      /\ UNCHANGED <<pbase, iqueue, grave, cancelled, wait, pwoken, got>>
  BY <1>1, <1>2 DEF PortInv, PortTypes, Enqueue
<1>4. r \in PushRec /\ r.pc = "signal"
  BY <1>2, <1>3 DEF PushRec
<1>5. /\ push' \in [Pushers -> PushRec] /\ push'[p] = r
      /\ \A q \in Pushers : q # p => push'[q] = push[q]
  BY <1>3, <1>4 DEF PortInv, PortTypes
<1>6. /\ k \in Ordinary /\ k \in Packets /\ k \notin Elems(pushed)
      /\ \A q \in Pushers : push[q].pc = "enqueue" /\ push[q].packet = k => q = p
  BY <1>1, <1>3 DEF PortInv, PushInv, Packets
<1>7. /\ pushed' \in Seq(Packets) /\ pqueue' \in Seq(Packets)
      /\ \A y : y \in Elems(pushed') <=> y \in Elems(pushed) \/ y = k
  BY <1>3, <1>6, PushedFacts DEF PortInv, PortTypes
<1>8. InOrder(pushed', pqueue', got, Ordinary)
  BY <1>3, <1>6, PushKeepsOrder DEF PortInv, PortTypes
<1>9. PortTypes'
  BY <1>3, <1>5, <1>7 DEF PortInv, PortTypes, Packets, Ordinary
<1>10. PushInv'
  <2>1. ASSUME NEW q \in Pushers, push'[q].pc = "enqueue"
        PROVE  q # p /\ push'[q] = push[q] /\ push[q].packet # k
    BY <1>4, <1>5, <1>6, <2>1
  <2>. QED
    BY <1>7, <2>1 DEF PortInv, PushInv, Ordinary
<1>11. GraveInv'
  BY <1>3, <1>7 DEF PortInv, GraveInv
<1>. QED
  BY <1>3, <1>8, <1>9, <1>10, <1>11 DEF PortInv, Ordinary

LEMMA EnqueueInterruptStep ==
  ASSUME PortInv, NEW p \in Pushers, NEW k \in Packets, EnqueueInterrupt(p, k)
  PROVE  PortInv'
<1>1. PICK r : r = [pc |-> "signal", packet |-> k]
  OBVIOUS
<1>2. /\ r \in PushRec /\ r.pc = "signal" /\ k \in Interrupts /\ k \notin Ordinary
      /\ pushed' = Append(pushed, k) /\ iqueue' = Append(iqueue, k) /\ grave' = grave \cup {k}
      /\ push' = [push EXCEPT ![p] = r] /\ Fresh(k)
      /\ UNCHANGED <<pbase, pqueue, cancelled, wait, pwoken, got>>
  BY PortAssumption, <1>1 DEF EnqueueInterrupt, PushRec, Ordinary
<1>3. /\ push' \in [Pushers -> PushRec] /\ push'[p] = r
      /\ \A q \in Pushers : q # p => push'[q] = push[q]
  BY <1>2 DEF PortInv, PortTypes
<1>4. k \notin Elems(pushed) /\ \A q \in Pushers : push[q].packet # k
  BY <1>2 DEF Fresh, RangeOf, InPush, Elems
<1>5. /\ pushed' \in Seq(Packets) /\ iqueue' \in Seq(Interrupts)
      /\ \A y : y \in Elems(pushed') <=> y \in Elems(pushed) \/ y = k
  BY <1>2, PushedFacts DEF PortInv, PortTypes
<1>6. InOrder(pushed', pqueue, got, Ordinary)
  BY <1>2, <1>4, InterruptKeepsOrder DEF PortInv, PortTypes
<1>7. PortTypes'
  BY <1>2, <1>3, <1>5 DEF PortInv, PortTypes, Packets, Ordinary
<1>8. PushInv'
  <2>1. ASSUME NEW q \in Pushers, push'[q].pc = "enqueue"
        PROVE  push'[q] = push[q] /\ push[q].packet # k
    BY <1>2, <1>3, <1>4, <2>1
  <2>. QED
    BY <1>5, <2>1 DEF PortInv, PushInv, Ordinary
<1>9. GraveInv'
  <2>1. k \notin Elems(got) /\ k \notin cancelled
    BY <1>4 DEF PortInv, GraveInv, InOrder
  <2>. QED
    BY <1>2, <1>5, <2>1 DEF PortInv, GraveInv
<1>. QED
  BY <1>2, <1>6, <1>7, <1>8, <1>9 DEF PortInv, Ordinary

LEMMA SignalPushStep ==
  ASSUME PortInv, NEW p \in Pushers, SignalPush(p)
  PROVE  PortInv'
<1>1. PICK r : r = [pc |-> "idle", packet |-> NoPacket]
  OBVIOUS
<1>2. /\ r \in PushRec /\ r.pc = "idle" /\ push' = [push EXCEPT ![p] = r]
      /\ UNCHANGED <<pqueue, iqueue, grave, pushed, cancelled, wait, got>>
  BY <1>1 DEF SignalPush, port, phist, PushRec
<1>3. /\ push' \in [Pushers -> PushRec] /\ push'[p] = r
      /\ \A q \in Pushers : q # p => push'[q] = push[q]
  BY <1>2 DEF PortInv, PortTypes
<1>4. PushInv'
  BY <1>2, <1>3 DEF PortInv, PushInv, Ordinary
<1>5. pbase' \in PortRec
  BY DEF SignalPush, SetReadable, SignalChange, Changed, Fired, PortInv, PortTypes, PortRec
<1>6. pwoken' \subseteq PortWaiters
  BY DEF SignalPush, SetReadable, Fired, PortInv, PortTypes, PortRec
<1>. QED
  BY <1>2, <1>3, <1>4, <1>5, <1>6, IdlePortStep DEF PortInv, PortTypes

LEMMA RemoveInterruptStep ==
  ASSUME PortInv, NEW k \in Interrupts, RemoveInterrupt(k)
  PROVE  PortInv'
<1>1. /\ k \in grave /\ grave' = grave \ {k} /\ cancelled' = cancelled \cup {k}
      /\ UNCHANGED <<pbase, pqueue, iqueue, push, pushed, wait, pwoken, got>>
  BY DEF RemoveInterrupt
<1>2. PortTypes' /\ PushInv'
  BY <1>1 DEF PortInv, PortTypes, PushInv, Packets, Ordinary
<1>3. GraveInv'
  BY <1>1 DEF PortInv, GraveInv
<1>. QED
  BY <1>1, <1>2, <1>3 DEF PortInv, Ordinary

\* The steps of Port::wait up to the taking of a packet.
LEMMA PortWaiterStep ==
  ASSUME PortInv, NEW w \in PortWaiters,
         \/ StartPortWait(w) \/ PortReady(w) \/ WaitMiss(w)
         \/ WaitRegister(w) \/ PollWaitAgain(w)
  PROVE  PortInv'
<1>1. /\ UNCHANGED <<pqueue, iqueue, grave, push, pushed, cancelled, got>>
      /\ wait[w] \in WaitRec /\ wait \in [PortWaiters -> WaitRec] /\ pbase \in PortRec
      /\ pwoken \subseteq PortWaiters
  BY DEF StartPortWait, PortReady, WaitMiss, WaitRegister, PollWaitAgain, port, phist,
         PortInv, PortTypes
<1>2. wait' \in [PortWaiters -> WaitRec]
  <2>1. CASE StartPortWait(w) \/ WaitRegister(w)
    <3>1. PICK r \in WaitRec : wait' = [wait EXCEPT ![w] = r]
      <4>1. [pc |-> "poll", first |-> TRUE] \in WaitRec /\ [pc |-> "asleep", first |-> FALSE] \in WaitRec
        BY DEF WaitRec
      <4>. QED
        BY <2>1, <4>1 DEF StartPortWait, WaitRegister
    <3>. QED
      BY <1>1, <3>1
  <2>2. CASE PortReady(w) \/ WaitMiss(w) \/ PollWaitAgain(w)
    BY <1>1, <2>2 DEF PortReady, WaitMiss, PollWaitAgain, WaitRec
  <2>. QED
    BY <2>1, <2>2
<1>3. pbase' \in PortRec /\ pwoken' \subseteq PortWaiters
  <2>1. CASE WaitRegister(w)
    <3>1. Callback(w) \in [who : PortWaiters, want : {Readable}]
      BY DEF Callback
    <3>. QED
      BY <1>1, <2>1, <3>1 DEF WaitRegister, AddSignalCallback, PortRec
  <2>2. CASE ~WaitRegister(w)
    BY <1>1, <2>2 DEF StartPortWait, PortReady, WaitMiss, PollWaitAgain
  <2>. QED
    BY <2>1, <2>2
<1>4. PushInv'
  BY <1>1 DEF PortInv, PushInv, Ordinary
<1>. QED
  BY <1>1, <1>2, <1>3, <1>4, IdlePortStep DEF PortInv, PortTypes

\* Clearing READABLE wakes nobody.
LEMMA ClearFacts ==
  ASSUME pbase \in PortRec, NEW empty, ClearIf(empty)
  PROVE  pbase' \in PortRec
  BY DEF ClearIf, SignalChange, Changed, Fired, PortRec

LEMMA TakeInterruptStep ==
  ASSUME PortInv, NEW w \in PortWaiters, TakeInterrupt(w)
  PROVE  PortInv'
<1>1. PICK rest : rest = Live(iqueue)
  OBVIOUS
<1>2. PICK k : k = Head(rest)
  OBVIOUS
<1>3. /\ rest # <<>> /\ rest \in Seq(Interrupts) /\ k \in grave /\ k \in Interrupts
      /\ Tail(rest) \in Seq(Interrupts)
  BY <1>1, <1>2, LiveFacts, HeadTailProperties DEF TakeInterrupt, PortInv, PortTypes
<1>4. /\ iqueue' = Tail(rest) /\ grave' = grave \ {k} /\ got' = Append(got, k)
      /\ ClearIf(pqueue = <<>> /\ Tail(rest) = <<>>)
      /\ wait' = [wait EXCEPT ![w].pc = "idle"]
      /\ UNCHANGED <<pqueue, push, pushed, cancelled, pwoken>>
  BY <1>1, <1>2 DEF TakeInterrupt, phist
<1>5. /\ k \in Packets /\ k \notin Ordinary /\ k \in Elems(pushed) /\ k \notin Elems(got)
      /\ k \notin cancelled
  BY PortAssumption, <1>3 DEF PortInv, GraveInv, Packets, Ordinary
<1>6. /\ got' \in Seq(Packets) /\ \A y : y \in Elems(got') <=> y \in Elems(got) \/ y = k
  BY <1>4, <1>5, PushedFacts DEF PortInv, PortTypes
<1>7. InOrder(pushed, pqueue, got', Ordinary)
  BY <1>4, <1>5, TakeInterruptKeepsOrder DEF PortInv, PortTypes
<1>8. PortTypes'
  <2>1. wait' \in [PortWaiters -> WaitRec]
    BY <1>4 DEF PortInv, PortTypes, WaitRec
  <2>2. pbase' \in PortRec
    BY <1>4, ClearFacts DEF PortInv, PortTypes
  <2>. QED
    BY <1>3, <1>4, <1>6, <2>1, <2>2 DEF PortInv, PortTypes, Packets, Ordinary
<1>9. PushInv'
  BY <1>4 DEF PortInv, PushInv, Ordinary
<1>10. GraveInv'
  BY <1>4, <1>5, <1>6 DEF PortInv, GraveInv
<1>. QED
  BY <1>4, <1>7, <1>8, <1>9, <1>10 DEF PortInv, Ordinary

LEMMA TakeUserStep ==
  ASSUME PortInv, NEW w \in PortWaiters, TakeUser(w)
  PROVE  PortInv'
<1>1. PICK k : k = Head(pqueue)
  OBVIOUS
<1>2. /\ pqueue # <<>> /\ pqueue' = Tail(pqueue) /\ got' = Append(got, k)
      /\ iqueue' \in {<<>>, iqueue} /\ ClearIf(Tail(pqueue) = <<>>)
      /\ wait' = [wait EXCEPT ![w].pc = "idle"]
      /\ UNCHANGED <<grave, push, pushed, cancelled, pwoken>>
  BY <1>1 DEF TakeUser, phist
<1>3. /\ k \in Packets /\ pqueue' \in Seq(Packets) /\ k \in Elems(pqueue)
  BY <1>1, <1>2, PoppedFacts DEF PortInv, PortTypes
<1>4. k \in Ordinary /\ k \notin grave /\ k \notin cancelled
  <2>1. k \in Ordinary
    BY <1>3 DEF PortInv, InOrder
  <2>. QED
    BY PortAssumption, <2>1 DEF PortInv, PortTypes, Ordinary
<1>5. /\ got' \in Seq(Packets) /\ \A y : y \in Elems(got') <=> y \in Elems(got) \/ y = k
  BY <1>2, <1>3, PushedFacts DEF PortInv, PortTypes
<1>6. InOrder(pushed, pqueue', got', Ordinary)
  BY <1>1, <1>2, TakeKeepsOrder DEF PortInv, PortTypes
<1>7. PortTypes'
  <2>1. wait' \in [PortWaiters -> WaitRec]
    BY <1>2 DEF PortInv, PortTypes, WaitRec
  <2>2. pbase' \in PortRec
    BY <1>2, ClearFacts DEF PortInv, PortTypes
  <2>3. iqueue' \in Seq(Interrupts)
    <3>1. <<>> \in Seq(Interrupts)
      BY EmptySeq
    <3>. QED
      BY <1>2, <3>1 DEF PortInv, PortTypes
  <2>. QED
    BY <1>2, <1>3, <1>5, <2>1, <2>2, <2>3 DEF PortInv, PortTypes, Packets, Ordinary
<1>8. PushInv'
  BY <1>2 DEF PortInv, PushInv, Ordinary
<1>9. GraveInv'
  BY <1>2, <1>4, <1>5 DEF PortInv, GraveInv
<1>. QED
  BY <1>2, <1>6, <1>7, <1>8, <1>9 DEF PortInv, Ordinary

LEMMA TakeNothingStep ==
  ASSUME PortInv, NEW w \in PortWaiters, TakeNothing(w)
  PROVE  PortInv'
<1>1. /\ iqueue' \in {<<>>, iqueue} /\ ClearIf(BindInterrupt /\ iqueue # <<>>)
      /\ wait' = [wait EXCEPT ![w] = [pc |-> "poll", first |-> TRUE]]
      /\ UNCHANGED <<pqueue, grave, push, pushed, cancelled, pwoken, got>>
  BY DEF TakeNothing, phist
<1>2. PortTypes'
  <2>1. wait' \in [PortWaiters -> WaitRec]
    BY <1>1 DEF PortInv, PortTypes, WaitRec
  <2>2. pbase' \in PortRec
    BY <1>1, ClearFacts DEF PortInv, PortTypes
  <2>3. iqueue' \in Seq(Interrupts)
    <3>1. <<>> \in Seq(Interrupts)
      BY EmptySeq
    <3>. QED
      BY <1>1, <3>1 DEF PortInv, PortTypes
  <2>. QED
    BY <1>1, <2>1, <2>2, <2>3 DEF PortInv, PortTypes, Packets, Ordinary
<1>3. PushInv' /\ GraveInv'
  BY <1>1 DEF PortInv, PushInv, GraveInv, Ordinary
<1>. QED
  BY <1>1, <1>2, <1>3 DEF PortInv, Ordinary

LEMMA PortStart == PortInit => PortInv
<1>. SUFFICES ASSUME PortInit PROVE PortInv
  OBVIOUS
<1>1. PortTypes
  BY DEF PortInit, PortTypes, NewBase, PortRec, PushRec, WaitRec
<1>2. Elems(pushed) = {} /\ Elems(got) = {} /\ Elems(pqueue) = {}
  BY DEF PortInit, Elems
<1>3. PushInv /\ GraveInv
  BY <1>2 DEF PortInit, PushInv, GraveInv
<1>4. InOrder(pushed, pqueue, got, Ordinary)
  <2>1. Len(pushed) = 0 /\ Len(got) = 0 /\ Len(pqueue) = 0
    BY DEF PortInit
  <2>. QED
    BY <1>2, <2>1 DEF InOrder
<1>. QED
  BY <1>1, <1>3, <1>4 DEF PortInv

LEMMA PortStep == PortInv /\ [PortNext]_pvars => PortInv'
<1>. SUFFICES ASSUME PortInv, [PortNext]_pvars PROVE PortInv'
  OBVIOUS
<1>1. ASSUME NEW p \in Pushers, PushStep(p) PROVE PortInv'
  BY <1>1, EnqueueStep, SignalPushStep DEF PushStep
<1>2. ASSUME NEW p \in Pushers, NEW k \in Packets,
             \/ CheckRoom(p, k) \/ RefuseUser(p, k) \/ BeginPush(p, k)
             \/ EnqueueInterrupt(p, k)
      PROVE  PortInv'
  BY <1>2, BeginStep, RefuseStep, EnqueueInterruptStep
<1>3. ASSUME NEW k \in Interrupts, RemoveInterrupt(k) PROVE PortInv'
  BY <1>3, RemoveInterruptStep
<1>4. ASSUME NEW w \in PortWaiters, StartPortWait(w) \/ WaitStep(w) PROVE PortInv'
  BY <1>4, PortWaiterStep, TakeInterruptStep, TakeUserStep, TakeNothingStep DEF WaitStep
<1>5. CASE UNCHANGED pvars
  <2>1. UNCHANGED <<pbase, pqueue, iqueue, grave, push, pushed, cancelled, wait, pwoken, got>>
    BY <1>5 DEF pvars, port, phist
  <2>2. PushInv'
    BY <2>1 DEF PortInv, PushInv, Ordinary
  <2>. QED
    BY <2>1, <2>2, IdlePortStep DEF PortInv, PortTypes
<1>. QED
  BY <1>1, <1>2, <1>3, <1>4, <1>5 DEF PortNext

(* The inductive invariant of a port with its pushers and waiters.           *)
THEOREM PortInductive == PortSpec => []PortInv
<1>1. PortInit => PortInv
  BY PortStart
<1>2. PortInv /\ [PortNext]_pvars => PortInv'
  BY PortStep
<1>. QED
  BY <1>1, <1>2, PTL DEF PortSpec

(* The types of a port; user and interrupt packets stay on their own queues. *)
THEOREM PortTypeCorrect == PortSpec => []PortTypeOK
<1>1. PortInv => PortTypeOK
  <2>. SUFFICES ASSUME PortInv PROVE PortTypeOK
    OBVIOUS
  <2>1. RangeOf(pqueue) \subseteq Ordinary
    BY DEF PortInv, InOrder, Elems, RangeOf
  <2>2. RangeOf(iqueue) \subseteq Interrupts
    BY LenProperties, ElementOfSeq DEF PortInv, PortTypes, RangeOf
  <2>. QED
    BY <2>1, <2>2 DEF PortInv, PortTypes, PortRec, PushRec, WaitRec, PortTypeOK
<1>. QED
  BY <1>1, PortInductive, PTL

(* Port::wait: packets of the queue come out in the order they went in, none *)
(* is lost before one that is returned, none is returned twice, and an       *)
(* interrupt packet that remove_interrupt took back is never returned.       *)
THEOREM DeliveredOnceInOrderHolds == PortSpec => []DeliveredOnceInOrder
<1>1. PortInv => DeliveredOnceInOrder
  <2>. SUFFICES ASSUME PortInv PROVE DeliveredOnceInOrder
    OBVIOUS
  <2>1. RangeOf(got) = Elems(got) /\ RangeOf(pushed) = Elems(pushed)
    BY DEF RangeOf, Elems
  <2>. QED
    BY <2>1 DEF PortInv, GraveInv, InOrder, DeliveredOnceInOrder
<1>. QED
  BY <1>1, PortInductive, PTL
=============================================================================

------------------------------ MODULE Channel ------------------------------
(***************************************************************************)
(* A channel (zircon-object/src/ipc/channel.rs): two endpoints, threads    *)
(* that write, read and call on them, and the closing of an endpoint.      *)
(* Each lock of recv_queue or call_reply is one action.  An endpoint lives *)
(* as long as a handle or a running operation holds an Arc to it; its Drop *)
(* runs when the last one goes.                                            *)
(***************************************************************************)
EXTENDS Integers, Sequences, FiniteSets, Functions

CONSTANTS
  Ends, PeerOf,      \* the two endpoints
  Threads, EpOf,     \* threads and the endpoint each works on
  Msgs,              \* message packets, each sent at most once
  TxMod, FirstTx,    \* TxID arithmetic: u32 and 0x8000_0000 in the code
  None

ASSUME ChannelAssumption ==
  /\ PeerOf \in [Ends -> Ends] /\ \A e \in Ends : PeerOf[PeerOf[e]] = e
  /\ EpOf \in [Threads -> Ends]
  /\ TxMod \in Nat \ {0} /\ FirstTx \in 0..(TxMod - 1)
  /\ None \notin Msgs /\ None \notin Threads /\ "PEER_CLOSED" \notin Msgs

VARIABLES
  open,      \* endpoints some handle table still refers to
  life,      \* "live", "flush" (inside Drop), "dead"
  queue,     \* recv_queue: sequences of [m, tx, call]
  readable, peerClosed,   \* READABLE and PEER_CLOSED of each endpoint
  replies,   \* call_reply: endpoint -> set of [tx, thr]; thr = None: dropped
  next,      \* next_txid
  pc, msg, tx,   \* per thread: the operation in progress
  ans,       \* per thread: what its oneshot receiver holds
  read,      \* messages returned by read
  gone,      \* messages discarded with an error, a closed end or a dead call
  drained    \* endpoints on which read returned PEER_CLOSED (history)

ends == <<open, life, queue, readable, peerClosed, replies, next>>
ops  == <<pc, msg, tx, ans>>
hist == <<read, gone, drained>>
vars == <<ends, ops, hist>>

Init ==
  /\ open = Ends
  /\ life = [e \in Ends |-> "live"]
  /\ queue = [e \in Ends |-> <<>>]
  /\ readable = {} /\ peerClosed = {}
  /\ replies = [e \in Ends |-> {}]
  /\ next = [e \in Ends |-> FirstTx]
  /\ pc = [t \in Threads |-> "idle"]
  /\ msg = [t \in Threads |-> None]
  /\ tx = [t \in Threads |-> 0]
  /\ ans = [t \in Threads |-> None]
  /\ read = {} /\ gone = {} /\ drained = {}

Me(t)   == EpOf[t]
Peer(t) == PeerOf[EpOf[t]]

\* The thread's operation has upgraded its Weak pointer to the peer.
HoldsPeer(t) == pc[t] \in {"route", "push", "call_push", "insert", "drop_peer"}

\* Arc::strong_count(e) > 0
Alive(e) ==
  \/ e \in open
  \/ \E t \in Threads : pc[t] # "idle" /\ Me(t) = e
  \/ \E t \in Threads : HoldsPeer(t) /\ Peer(t) = e
  \/ life[PeerOf[e]] = "flush"

InFlight == {msg[t] : t \in {u \in Threads : pc[u] \in {"route", "push", "call_push"}}}
QueuedOn(e) == {queue[e][i].m : i \in 1..Len(queue[e])}
Answers == {ans[t] : t \in Threads} \cap Msgs
Queued == UNION {QueuedOn(e) : e \in Ends}
Used == InFlight \cup Queued \cup Answers \cup read \cup gone
CanStart(t) == pc[t] = "idle" /\ Me(t) \in open

-----------------------------------------------------------------------------
(* write                                                                     *)

\* The message's first four bytes are x, whatever the writer chose: a plain
\* message or, if the peer waits for x, a reply.
BeginWrite(t, m, x) ==
  /\ CanStart(t) /\ m \notin Used
  /\ Alive(Peer(t))
  /\ pc' = [pc EXCEPT ![t] = IF x # 0 THEN "route" ELSE "push"]
  /\ msg' = [msg EXCEPT ![t] = m]
  /\ tx' = [tx EXCEPT ![t] = x]
  /\ UNCHANGED <<ends, ans, hist>>

\* upgrade() fails: PEER_CLOSED, the packet is dropped.  (call too.)
WriteClosed(t, m) ==
  /\ CanStart(t) /\ m \notin Used
  /\ ~Alive(Peer(t))
  /\ gone' = gone \cup {m}
  /\ UNCHANGED <<ends, ops, read, drained>>

Pending(t) == {r \in replies[Peer(t)] : r.tx = tx[t]}

\* Mutant: no return after the sender has been given the message.
RouteAndPush(t) ==
  /\ pc[t] = "route"
  /\ \E r \in Pending(t) :
       /\ replies' = [replies EXCEPT ![Peer(t)] = @ \ {r}]
       /\ ans' = IF r.thr = None THEN ans ELSE [ans EXCEPT ![r.thr] = msg[t]]
  /\ pc' = [pc EXCEPT ![t] = "push"]
  /\ UNCHANGED <<open, life, queue, readable, peerClosed, next, msg, tx, hist>>

\* A call waits for this transaction id: hand it the message.
RouteReply(t) ==
  /\ pc[t] = "route"
  /\ \E r \in Pending(t) :
       /\ replies' = [replies EXCEPT ![Peer(t)] = @ \ {r}]
       /\ ans' = IF r.thr = None THEN ans ELSE [ans EXCEPT ![r.thr] = msg[t]]
       /\ gone' = IF r.thr = None THEN gone \cup {msg[t]} ELSE gone
  /\ pc' = [pc EXCEPT ![t] = "idle"]
  /\ UNCHANGED <<open, life, queue, readable, peerClosed, next, msg, tx,
                 read, drained>>

\* No call waits for it: an ordinary message.
RouteMiss(t) ==
  /\ pc[t] = "route" /\ Pending(t) = {}
  /\ pc' = [pc EXCEPT ![t] = "push"]
  /\ UNCHANGED <<ends, msg, tx, ans, hist>>

Packet(t) == [m |-> msg[t], tx |-> tx[t], call |-> pc[t] = "call_push"]

\* Mutant: READABLE is raised by the second message only.
PushLate(t) ==
  /\ pc[t] \in {"push", "call_push"}
  /\ LET p == Peer(t)
     IN /\ queue' = [queue EXCEPT ![p] = Append(@, Packet(t))]
        /\ readable' = IF Len(queue[p]) = 1 THEN readable \cup {p} ELSE readable
  /\ pc' = [pc EXCEPT ![t] = IF @ = "push" THEN "idle" ELSE "insert"]
  /\ UNCHANGED <<open, life, peerClosed, replies, next, msg, tx, ans, hist>>

\* push_general, from write or from call.
PushGeneral(t) ==
  /\ pc[t] \in {"push", "call_push"}
  /\ LET p == Peer(t)
     IN /\ queue' = [queue EXCEPT ![p] = Append(@, Packet(t))]
        /\ readable' = IF queue[p] = <<>> THEN readable \cup {p} ELSE readable
  /\ pc' = [pc EXCEPT ![t] = IF @ = "push" THEN "idle" ELSE "insert"]
  /\ UNCHANGED <<open, life, peerClosed, replies, next, msg, tx, ans, hist>>

-----------------------------------------------------------------------------
(* call                                                                      *)

\* new_txid, set_txid and the upgrade; the reply channel is fresh.
BeginCall(t, m) ==
  /\ CanStart(t) /\ m \notin Used
  /\ Alive(Peer(t))
  /\ pc' = [pc EXCEPT ![t] = "call_push"]
  /\ msg' = [msg EXCEPT ![t] = m]
  /\ tx' = [tx EXCEPT ![t] = next[Me(t)]]
  /\ next' = [next EXCEPT ![Me(t)] = (@ + 1) % TxMod]
  /\ ans' = [ans EXCEPT ![t] = None]
  /\ UNCHANGED <<open, life, queue, readable, peerClosed, replies, hist>>

\* call_reply.insert, after the message has been pushed.
InsertSender(t) ==
  /\ pc[t] = "insert"
  /\ replies' = [replies EXCEPT ![Me(t)] =
       {r \in @ : r.tx # tx[t]} \cup {[tx |-> tx[t], thr |-> t]}]
  /\ pc' = [pc EXCEPT ![t] = "drop_peer"]
  /\ UNCHANGED <<open, life, queue, readable, peerClosed, next, msg, tx, ans,
                 hist>>

\* drop(peer): it may have been the last reference.
DropPeer(t) ==
  /\ pc[t] = "drop_peer"
  /\ pc' = [pc EXCEPT ![t] = "await"]
  /\ UNCHANGED <<ends, msg, tx, ans, hist>>

\* receiver.await
CallReturn(t) ==
  /\ pc[t] = "await" /\ ans[t] # None
  /\ pc' = [pc EXCEPT ![t] = "idle"]
  /\ UNCHANGED <<ends, msg, tx, ans, hist>>

\* The deadline passes or the thread is killed: the receiver is dropped, the
\* sender stays registered.
CancelCall(t) ==
  /\ pc[t] = "await" /\ ans[t] = None
  /\ replies' = [replies EXCEPT ![Me(t)] =
       {[tx |-> r.tx, thr |-> IF r.thr = t THEN None ELSE r.thr] : r \in replies[Me(t)]}]
  /\ pc' = [pc EXCEPT ![t] = "idle"]
  /\ UNCHANGED <<open, life, queue, readable, peerClosed, next, msg, tx, ans,
                 hist>>

-----------------------------------------------------------------------------
(* read                                                                      *)

Read(t) ==
  /\ CanStart(t) /\ queue[Me(t)] # <<>>
  /\ LET e == Me(t)
         h == Head(queue[e])
     IN /\ queue' = [queue EXCEPT ![e] = Tail(@)]
        /\ readable' = IF Tail(queue[e]) = <<>> THEN readable \ {e} ELSE readable
        /\ read' = read \cup {h.m}
  /\ UNCHANGED <<open, life, peerClosed, replies, next, pc, msg, tx, ans, gone,
                 drained>>

\* Mutant: closed as soon as the peer's handle is gone.
ReadClosedByHandle(t) ==
  /\ CanStart(t) /\ queue[Me(t)] = <<>>
  /\ Peer(t) \notin open
  /\ drained' = drained \cup {Me(t)}
  /\ UNCHANGED <<ends, ops, read, gone>>

ReadClosed(t) ==
  /\ CanStart(t) /\ queue[Me(t)] = <<>>
  /\ ~Alive(Peer(t))
  /\ drained' = drained \cup {Me(t)}
  /\ UNCHANGED <<ends, ops, read, gone>>

-----------------------------------------------------------------------------
(* Closing: handle_close, then Drop for Channel.                             *)

Close(e) ==
  /\ e \in open
  /\ open' = open \ {e}
  /\ UNCHANGED <<life, queue, readable, peerClosed, replies, next, ops, hist>>

\* The last Arc is gone; the peer, if alive, is told.
DropSignal(e) ==
  /\ life[e] = "live" /\ ~Alive(e)
  /\ LET p == PeerOf[e]
     IN IF Alive(p)
        THEN /\ peerClosed' = peerClosed \cup {p}
             /\ life' = [life EXCEPT ![e] = "flush"]
             /\ UNCHANGED <<queue, gone>>
        ELSE /\ life' = [life EXCEPT ![e] = "dead"]
             /\ gone' = gone \cup QueuedOn(e)
             /\ queue' = [queue EXCEPT ![e] = <<>>]
             /\ UNCHANGED peerClosed
  /\ UNCHANGED <<open, readable, replies, next, ops, read, drained>>

\* Mutant: the pending calls of the peer are forgotten.
DropWithoutFlush(e) ==
  /\ life[e] = "flush"
  /\ life' = [life EXCEPT ![e] = "dead"]
  /\ gone' = gone \cup QueuedOn(e)
  /\ queue' = [queue EXCEPT ![e] = <<>>]
  /\ UNCHANGED <<open, readable, peerClosed, replies, next, ops, read, drained>>

\* take(call_reply): every pending call gets PEER_CLOSED; then the fields are
\* dropped, queued messages with them.
DropFlush(e) ==
  /\ life[e] = "flush"
  /\ LET p == PeerOf[e]
     IN /\ replies' = [replies EXCEPT ![p] = {}]
        /\ ans' = [t \in Threads |->
             IF \E r \in replies[p] : r.thr = t THEN "PEER_CLOSED" ELSE ans[t]]
  /\ life' = [life EXCEPT ![e] = "dead"]
  /\ gone' = gone \cup QueuedOn(e)
  /\ queue' = [queue EXCEPT ![e] = <<>>]
  /\ UNCHANGED <<open, readable, peerClosed, next, pc, msg, tx, read,
                 drained>>

-----------------------------------------------------------------------------
ThreadStep(t) ==
  \/ RouteReply(t) \/ RouteMiss(t) \/ PushGeneral(t) \/ InsertSender(t)
  \/ DropPeer(t) \/ CallReturn(t)

DropStep(e) == DropSignal(e) \/ DropFlush(e)

Next ==
  \/ \E t \in Threads : ThreadStep(t) \/ CancelCall(t) \/ Read(t) \/ ReadClosed(t)
  \/ \E t \in Threads, m \in Msgs :
       \/ BeginCall(t, m) \/ WriteClosed(t, m)
       \/ \E x \in 0..(TxMod - 1) : BeginWrite(t, m, x)
  \/ \E e \in Ends : Close(e) \/ DropStep(e)

Spec == Init /\ [][Next]_vars

\* An operation that began goes on; Drop runs once the last Arc is gone.
FairSpec ==
  /\ Spec
  /\ \A t \in Threads : WF_vars(ThreadStep(t))
  /\ \A e \in Ends : WF_vars(DropStep(e))

-----------------------------------------------------------------------------
(* Types; transaction ids wrap within their width (Channel::new_txid).       *)
TypeOK ==
  /\ open \subseteq Ends /\ readable \subseteq Ends /\ peerClosed \subseteq Ends
  /\ life \in [Ends -> {"live", "flush", "dead"}]
  /\ \A e \in Ends :
       /\ next[e] \in 0..(TxMod - 1)
       /\ \A i \in 1..Len(queue[e]) : queue[e][i].m \in Msgs
       /\ \A r \in replies[e] : r.thr \in Threads \cup {None}
  /\ pc \in [Threads -> {"idle", "route", "push", "call_push", "insert",
                         "drop_peer", "await"}]
  /\ ans \in [Threads -> Msgs \cup {None, "PEER_CLOSED"}]
  /\ read \subseteq Msgs /\ gone \subseteq Msgs

(* Channel's "all handles either are all in the channel or are all           *)
(* discarded": a message is in one place: being sent, in one queue, read, a  *)
(* call's answer, or discarded, and never in two.                            *)
EachMessageOnce ==
  /\ \A e, f \in Ends : e # f => QueuedOn(e) \cap QueuedOn(f) = {}
  /\ \A e \in Ends : IsInjective([i \in 1..Len(queue[e]) |-> queue[e][i].m])
  /\ Queued \cap (read \cup gone \cup Answers \cup InFlight) = {}
  /\ read \cap (gone \cup Answers \cup InFlight) = {}
  /\ gone \cap (Answers \cup InFlight) = {}

(* push_general, check_and_read: READABLE is asserted exactly while a        *)
(* message can be read.                                                      *)
ReadableExact ==
  \A e \in Ends : life[e] = "live" => (e \in readable <=> queue[e] # <<>>)

(* check_and_read: once read has returned PEER_CLOSED nothing can arrive any *)
(* more: no message is left behind by a reader that stops there.             *)
ClosedMeansDrained == \A e \in drained : queue[e] = <<>>

(* Drop for Channel: a call whose peer is closed returns, even if the peer's *)
(* last reference was the one the call itself held.                          *)
CallEndsWhenPeerCloses ==
  \A t \in Threads :
    (pc[t] = "await" /\ life[Peer(t)] = "dead") ~> pc[t] # "await"
=============================================================================

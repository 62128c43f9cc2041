---------------------------- MODULE Dhcp_proofs ----------------------------
(***************************************************************************)
(* The inductive invariant of Dhcp, for any number of servers, addresses,  *)
(* runs and frames: what the client holds it has from the network, under   *)
(* the transaction id of its run, and an acknowledgement of that id comes  *)
(* from the server it asked.                                               *)
(***************************************************************************)
EXTENDS Dhcp, SequenceTheorems, TLAPS

Places == {"exit", "discover", "packet", "udp", "request", "answer", "route", "resolv",
           "flush", "close"}

\* The types, in parts: the program, what it has received, the network.
ProgOK ==
  /\ pc \in Places /\ phase \in {"offer", "ack"} /\ xid \in 0 .. MaxRuns
  /\ status \in {"none", "ok", "failed", "killed"}
  /\ addr \in Addrs \cup {None} /\ gw \in Servers \cup {None}
  /\ dns \in Servers \cup {None, "empty"}

HeldOK ==
  /\ offer \in Replies \cup {None} /\ ack \in Replies \cup {None}
  /\ queue \in [Sockets -> Seq(Replies)]

WorldOK ==
  /\ net \subseteq Requests \cup Replies
  /\ reserved \in [Servers -> Addrs \cup {None}] /\ taken \subseteq Addrs
  /\ committed \subseteq (1 .. MaxRuns) \X Addrs

\* A frame that waits in a socket was sent.
QueueInv == \A k \in Sockets : \A i \in 1 .. Len(queue[k]) : queue[k][i] \in net

\* The program has its answer; it has set the address, and the route.
Bound == {"answer", "route", "resolv", "flush", "close"}

\* The OFFER and the answer the program works with were sent, in answer to
\* this run, and it has applied what the answer says.
HeldInv ==
  /\ pc = "request" \/ phase = "ack" =>
       offer \in net /\ offer.type = "offer" /\ offer.xid = xid
  /\ pc \in Bound =>
       ack \in net /\ ack.type \in {"ack", "nak"} /\ ack.xid = xid

StepInv ==
  /\ pc # "exit" => xid >= 1
  /\ pc = "request" => phase = "offer"
  /\ phase = "ack" => offer.sid # None
  /\ pc \in Bound => phase = "ack"
  /\ pc \in Bound \ {"answer"} => ack.type = "ack" /\ addr = ack.ip
  /\ pc \in Bound \ {"answer", "route"} => OptionOf("router") \in {None, gw}
  /\ pc = "flush" => OptionOf("dns") # None

\* The messages: an address belongs to the server that sends it, an ACK
\* stands for a committed lease, and what is sent under the id of this run
\* follows the OFFER the program has chosen.
MsgInv ==
  \A m \in net :
    /\ m.xid <= xid
    /\ m.type = "offer" => m.ip \in Addrs /\ m.ip[1] = m.from /\ m.sid \in {None, m.from}
    /\ m.type = "request" /\ m.xid = xid =>
         phase = "ack" /\ m.sid = offer.sid /\ m.ip = offer.ip
    /\ m.type = "ack" => /\ m.ip \in Addrs /\ m.ip[1] = m.from
                         /\ <<m.xid, m.ip>> \in committed
                         /\ m.xid = xid => phase = "ack" /\ m.from = offer.sid

\* A server keeps its own addresses, each for one client, and a lease of the
\* current run is kept for it while the program runs.
LeaseInv ==
  /\ \A s \in Servers : reserved[s] # None => reserved[s][1] = s /\ reserved[s] \notin taken
  /\ \A a \in Addrs : pc # "exit" /\ <<xid, a>> \in committed => a \notin taken
  /\ \A x \in 1 .. MaxRuns, a \in Addrs : <<x, a>> \in committed => x <= xid

IInv == ProgOK /\ HeldOK /\ WorldOK /\ expired \in BOOLEAN /\ QueueInv /\ HeldInv
        /\ StepInv /\ MsgInv /\ LeaseInv

-----------------------------------------------------------------------------
(* Facts about messages                                                      *)

\* The fields of a message follow from its type.
LEMMA MsgFacts ==
  ASSUME WorldOK, NEW m \in net
  PROVE  /\ m.xid \in 1 .. MaxRuns
         /\ m.type \in {"discover", "request", "offer", "ack", "nak"}
         /\ m.type \in {"offer", "ack", "nak"} <=> m \in Replies
         /\ m.type = "request" => m.ip \in Addrs /\ m.sid \in Servers
<1>1. CASE m \in Replies
  BY <1>1 DEF Replies
<1>2. CASE m \in Requests
  <2>1. CASE m \in [type : {"discover"}, xid : 1 .. MaxRuns]
    BY <2>1 DEF Replies
  <2>2. CASE m \in [type : {"request"}, xid : 1 .. MaxRuns, ip : Addrs, sid : Servers]
    BY <2>2 DEF Replies
  <2>. QED
    BY <1>2, <2>1, <2>2 DEF Requests
<1>. QED
  BY <1>1, <1>2 DEF WorldOK

\* The fields of a reply.
LEMMA ReplyFacts ==
  ASSUME NEW m \in Replies
  PROVE  /\ m.type \in {"offer", "ack", "nak"} /\ m.xid \in 1 .. MaxRuns
         /\ m.from \in Servers /\ m.ip \in Addrs \cup {None}
         /\ m.sid \in Servers \cup {None} /\ m.opts \in SUBSET Options
  BY DEF Replies

\* What a server puts together is a reply.
LEMMA ReplyType ==
  ASSUME NEW type \in {"offer", "ack", "nak"}, NEW x \in 1 .. MaxRuns, NEW s \in Servers,
         NEW ip \in Addrs \cup {None}, NEW sid \in Servers \cup {None},
         NEW opts \in SUBSET Options
  PROVE  /\ Reply(type, x, s, ip, sid, opts) \in Replies
         /\ Reply(type, x, s, ip, sid, opts).type = type
         /\ Reply(type, x, s, ip, sid, opts).xid = x
         /\ Reply(type, x, s, ip, sid, opts).from = s
         /\ Reply(type, x, s, ip, sid, opts).ip = ip
         /\ Reply(type, x, s, ip, sid, opts).sid = sid
  BY DEF Reply, Replies

\* The frames of a socket, and its first one.
LEMMA FrameFacts ==
  ASSUME HeldOK, QueueInv, NEW k \in Sockets, queue[k] # <<>>
  PROVE  /\ Head(queue[k]) \in net /\ Head(queue[k]) \in Replies
         /\ Tail(queue[k]) \in Seq(Replies)
         /\ \A i \in 1 .. Len(Tail(queue[k])) : Tail(queue[k])[i] \in net
<1>1. queue[k] \in Seq(Replies) /\ Len(queue[k]) \in Nat
  BY LenProperties DEF HeldOK
<1>2. Len(queue[k]) >= 1 /\ Head(queue[k]) = queue[k][1]
  BY <1>1, EmptySeq
<1>3. /\ Head(queue[k]) \in Replies /\ Tail(queue[k]) \in Seq(Replies)
      /\ Len(Tail(queue[k])) = Len(queue[k]) - 1
      /\ \A i \in 1 .. Len(queue[k]) - 1 : Tail(queue[k])[i] = queue[k][i + 1]
  BY <1>1, HeadTailProperties
<1>4. \A i \in 1 .. Len(queue[k]) - 1 : i + 1 \in 1 .. Len(queue[k])
  BY <1>1
<1>. QED
  BY <1>1, <1>2, <1>3, <1>4 DEF QueueInv

\* The values of the options are servers.
LEMMA OptionFacts ==
  ASSUME offer \in Replies, ack \in Replies, NEW o \in Options
  PROVE  OptionOf(o) \in Servers \cup {None}
<1>1. ack.from \in Servers /\ offer.from \in Servers
  BY ReplyFacts
<1>. QED
  BY <1>1 DEF OptionOf

-----------------------------------------------------------------------------
(* The steps                                                                 *)

\* The program ends without success: all it leaves behind is its exit status.
Quits ==
  /\ \E st \in {"failed", "killed"} : Exit(st)
  /\ UNCHANGED <<phase, xid, expired, offer, ack, iface, world>>

\* The ways a run fails change nothing but the program.
LEMMA Cases ==
  ASSUME [Next]_vars
  PROVE  \/ Start \/ Quits \/ SendDiscover \/ SendRequest \/ ApplyAddr \/ ApplyRoute
         \/ OpenResolvConf \/ SkipResolvConf \/ WriteResolvConf \/ Return
         \/ Tick \/ UNCHANGED vars
         \/ \E k \in Sockets : Receive(k)
         \/ \E m \in net, k \in Sockets : Deliver(m, k)
         \/ \E m \in net, s \in Servers : ServerOffer(s, m) \/ ServerAnswer(s, m)
         \/ \E s \in Servers : ServerForgets(s)
<1>1. SetupFails \/ TimedOut \/ RecvFails \/ NoServerId \/ Refused \/ ApplyFails \/ Kill => Quits
  BY DEF SetupFails, TimedOut, RecvFails, NoServerId, Refused, ApplyFails, Kill, Quits
<1>. QED
  BY <1>1 DEF Next, Client

LEMMA InitInv == Init => IInv
<1>. SUFFICES ASSUME Init PROVE IInv
  OBVIOUS
<1>1. ProgOK /\ WorldOK
  BY DhcpAssumption DEF Init, ProgOK, WorldOK, Places
<1>2. HeldOK /\ QueueInv
  <2>1. <<>> \in Seq(Replies) /\ Len(<<>>) = 0
    OBVIOUS
  <2>. QED
    BY <2>1 DEF Init, HeldOK, QueueInv
<1>3. HeldInv /\ StepInv /\ MsgInv
  BY DEF Init, HeldInv, StepInv, MsgInv, Bound
<1>4. LeaseInv
  BY DEF Init, LeaseInv
<1>5. expired \in BOOLEAN
  BY Zenon DEF Init
<1>. QED
  BY <1>1, <1>2, <1>3, <1>4, <1>5 DEF IInv

\* What the client has received when it looks at a frame.
LEMMA ReceiveFacts ==
  ASSUME IInv, NEW k \in Sockets, Receive(k)
  PROVE  /\ UNCHANGED <<phase, xid, expired, status, iface, world>>
         /\ pc \in Sockets /\ pc' \in {"packet", "udp", "request", "answer"}
         /\ queue' \in [Sockets -> Seq(Replies)]
         /\ \A l \in Sockets : \A i \in 1 .. Len(queue'[l]) : queue'[l][i] \in net
         /\ \/ UNCHANGED <<offer, ack>> /\ pc' \in Sockets
            \/ \E m \in net \cap Replies :
                 /\ m.xid = xid
                 /\ \/ /\ phase = "offer" /\ m.type = "offer" /\ offer' = m
                       /\ pc' = "request" /\ ack' = ack
                    \/ /\ phase = "ack" /\ m.type \in {"ack", "nak"} /\ ack' = m
                       /\ pc' = "answer" /\ offer' = offer
<1>1. UNCHANGED <<phase, xid, expired, status, iface, world>> /\ pc \in Sockets
  BY DEF Receive
<1>2. CASE queue[k] = <<>>
  <2>1. /\ pc' = IF k = "packet" THEN "udp" ELSE "packet"
        /\ UNCHANGED <<offer, ack, queue>>
    BY <1>2 DEF Receive
  <2>. QED
    BY <1>1, <2>1 DEF IInv, HeldOK, QueueInv, Sockets
<1>3. CASE queue[k] # <<>>
  <2>1. PICK h : h = Head(queue[k]) /\ h \in net /\ h \in Replies
    BY <1>3, FrameFacts DEF IInv
  <2>2. queue' = [queue EXCEPT ![k] = Tail(queue[k])]
    BY <1>3 DEF Receive
  <2>3. queue' \in [Sockets -> Seq(Replies)]
    BY <1>3, <2>2, FrameFacts DEF IInv, HeldOK
  <2>4. ASSUME NEW l \in Sockets, NEW i \in 1 .. Len(queue'[l]) PROVE queue'[l][i] \in net
    <3>1. CASE l = k
      <4>1. queue'[l] = Tail(queue[k])
        BY <2>2, <3>1 DEF IInv, HeldOK
      <4>. QED
        BY <1>3, <2>4, <4>1, FrameFacts DEF IInv
    <3>2. CASE l # k
      <4>1. queue'[l] = queue[l]
        BY <2>2, <3>2 DEF IInv, HeldOK
      <4>. QED
        BY <2>4, <4>1 DEF IInv, QueueInv
    <3>. QED
      BY <3>1, <3>2
  <2>5. CASE ~Mine(h)
    <3>1. (pc' = IF k = "packet" THEN "udp" ELSE "packet") /\ UNCHANGED <<offer, ack>>
      BY <1>3, <2>1, <2>5 DEF Receive
    <3>. QED
      BY <1>1, <2>3, <2>4, <3>1 DEF Sockets
  <2>6. CASE Mine(h)
    <3>1. Got(h) /\ h.xid = xid
      BY <1>3, <2>1, <2>6 DEF Receive, Mine
    <3>. QED
      BY <1>1, <2>1, <2>3, <2>4, <3>1 DEF Got, Sockets
  <2>. QED
    BY <2>5, <2>6
<1>. QED
  BY <1>2, <1>3

\* A request repeats what was offered.
LEMMA RequestFacts ==
  ASSUME IInv, SendRequest
  PROVE  /\ offer \in Replies /\ offer \in net /\ offer.type = "offer" /\ offer.xid = xid
         /\ offer.ip \in Addrs /\ offer.sid \in Servers /\ offer.sid = offer.from
         /\ xid \in 1 .. MaxRuns /\ phase = "offer"
<1>1. phase = "offer"
  BY DEF SendRequest, IInv, StepInv
<1>2. offer \in Replies /\ offer \in net /\ offer.type = "offer" /\ offer.xid = xid
  BY MsgFacts DEF SendRequest, IInv, HeldInv
<1>3. offer.ip \in Addrs /\ offer.sid \in {None, offer.from}
  BY <1>2 DEF IInv, MsgInv
<1>4. offer.sid # None
  BY DEF SendRequest
<1>. QED
  BY <1>1, <1>2, <1>3, <1>4, ReplyFacts

\* What is applied is what a server has committed to this run.
LEMMA AnswerFacts ==
  ASSUME IInv, pc \in Bound, ack.type = "ack"
  PROVE  /\ offer \in Replies /\ ack \in Replies /\ ack.ip \in Addrs /\ IpBe = ack.ip
         /\ <<xid, ack.ip>> \in committed /\ ack.ip \notin taken
         /\ ack.from = offer.sid /\ ack.ip[1] = offer.sid /\ offer.from = offer.sid
         /\ offer.sid # None
<1>1. phase = "ack" /\ offer.sid # None
  BY DEF IInv, StepInv, Bound
<1>2. ack \in net /\ ack.xid = xid /\ ack \in Replies
  BY MsgFacts DEF IInv, HeldInv
<1>3. /\ ack.ip \in Addrs /\ ack.ip[1] = ack.from /\ <<xid, ack.ip>> \in committed
      /\ ack.from = offer.sid
  BY <1>2 DEF IInv, MsgInv
<1>4. offer \in Replies /\ offer.from = offer.sid
  <2>1. offer \in net /\ offer.type = "offer" /\ offer \in Replies
    BY <1>1, MsgFacts DEF IInv, HeldInv
  <2>. QED
    BY <1>1, <2>1 DEF IInv, MsgInv
<1>5. ack.ip # None /\ pc # "exit"
  BY <1>3, DhcpAssumption DEF Bound
<1>6. ack.ip \notin taken
  BY <1>3, <1>5 DEF IInv, LeaseInv
<1>. QED
  BY <1>1, <1>2, <1>3, <1>4, <1>5, <1>6 DEF IpBe

\* The program and the interface keep their types.
LEMMA ProgStep ==
  ASSUME IInv, [Next]_vars
  PROVE  ProgOK'
<1>0. ProgOK
  BY DEF IInv
<1>Start. CASE Start
  BY <1>0, <1>Start, DhcpAssumption DEF Start, ProgOK, iface, Places
<1>Quits. CASE Quits
  BY <1>0, <1>Quits DEF Quits, Exit, ProgOK, iface, Places
<1>Discover. CASE SendDiscover
  BY <1>0, <1>Discover DEF SendDiscover, ProgOK, iface, Places
<1>Request. CASE SendRequest
  BY <1>0, <1>Request DEF SendRequest, ProgOK, iface, Places
<1>Addr. CASE ApplyAddr
  BY <1>0, <1>Addr, AnswerFacts DEF ApplyAddr, ProgOK, Places, Bound
<1>Route. CASE ApplyRoute
  <2>1. OptionOf("router") \in Servers \cup {None}
    BY <1>Route, AnswerFacts, OptionFacts DEF ApplyRoute, IInv, StepInv, Options, Bound
  <2>. QED
    BY <1>0, <1>Route, <2>1 DEF ApplyRoute, ProgOK, Places
<1>Resolv. CASE OpenResolvConf \/ SkipResolvConf \/ WriteResolvConf \/ Return
  <2>1. dns' \in Servers \cup {None, "empty"}
    <3>1. CASE WriteResolvConf
      <4>1. OptionOf("dns") \in Servers \cup {None}
        BY <3>1, AnswerFacts, OptionFacts DEF WriteResolvConf, IInv, StepInv, Options, Bound
      <4>. QED
        BY <1>0, <3>1, <4>1 DEF WriteResolvConf, ProgOK
    <3>. QED
      BY <1>0, <1>Resolv, <3>1 DEF OpenResolvConf, SkipResolvConf, Return, ProgOK, iface
  <2>. QED
    BY <1>0, <1>Resolv, <2>1
       DEF OpenResolvConf, SkipResolvConf, WriteResolvConf, Return, Exit, ProgOK, iface, Places
<1>Receive. ASSUME NEW k \in Sockets, Receive(k) PROVE ProgOK'
  BY <1>0, <1>Receive, ReceiveFacts DEF ProgOK, iface, Places
<1>Other. ASSUME UNCHANGED <<pc, phase, xid, status, iface>> PROVE ProgOK'
  BY <1>0, <1>Other DEF ProgOK, iface
<1>1. CASE Tick \/ UNCHANGED vars
  BY <1>1, <1>Other DEF Tick, vars, iface
<1>2. ASSUME NEW m \in net, NEW k \in Sockets, Deliver(m, k) PROVE ProgOK'
  BY <1>2, <1>Other DEF Deliver
<1>3. ASSUME NEW m \in net, NEW s \in Servers, ServerOffer(s, m) \/ ServerAnswer(s, m)
      PROVE  ProgOK'
  BY <1>3, <1>Other DEF ServerOffer, ServerAnswer, client
<1>4. ASSUME NEW s \in Servers, ServerForgets(s) PROVE ProgOK'
  BY <1>4, <1>Other DEF ServerForgets, client
<1>. QED
  BY <1>Start, <1>Quits, <1>Discover, <1>Request, <1>Addr, <1>Route, <1>Resolv,
     <1>Receive, <1>1, <1>2, <1>3, <1>4, Cases

\* What the client has received keeps its type.
LEMMA HeldTypeStep ==
  ASSUME IInv, [Next]_vars
  PROVE  HeldOK'
<1>0. HeldOK
  BY DEF IInv
<1>Start. CASE Start
  BY <1>0, <1>Start DEF Start, HeldOK
<1>Exit. ASSUME NEW st, Exit(st), UNCHANGED <<offer, ack>> PROVE HeldOK'
  <2>1. <<>> \in Seq(Replies)
    OBVIOUS
  <2>. QED
    BY <1>0, <1>Exit, <2>1 DEF Exit, HeldOK
<1>Receive. ASSUME NEW k \in Sockets, Receive(k) PROVE HeldOK'
  BY <1>0, <1>Receive, ReceiveFacts DEF HeldOK
<1>Deliver. ASSUME NEW m \in net, NEW k \in Sockets, Deliver(m, k) PROVE HeldOK'
  <2>1. m \in Replies
    BY <1>Deliver, MsgFacts DEF Deliver, IInv
  <2>2. Append(queue[k], m) \in Seq(Replies)
    BY <1>0, <2>1, AppendProperties DEF HeldOK
  <2>. QED
    BY <1>0, <1>Deliver, <2>2 DEF Deliver, HeldOK
<1>Other. ASSUME UNCHANGED <<offer, ack, queue>> PROVE HeldOK'
  BY <1>0, <1>Other DEF HeldOK
<1>. QED
  BY <1>Start, <1>Exit, <1>Receive, <1>Deliver, <1>Other, Cases
     DEF Quits, SendDiscover, SendRequest, ApplyAddr, ApplyRoute, OpenResolvConf, SkipResolvConf,
         WriteResolvConf, Return, Tick,
         ServerOffer, ServerAnswer, ServerForgets, vars, client

\* The network and the servers keep their types.
LEMMA WorldStep ==
  ASSUME IInv, [Next]_vars
  PROVE  WorldOK'
<1>0. WorldOK
  BY DEF IInv
<1>Discover. CASE SendDiscover
  <2>1. xid \in 1 .. MaxRuns
    BY <1>Discover DEF SendDiscover, IInv, StepInv, ProgOK
  <2>2. [type |-> "discover", xid |-> xid] \in Requests
    BY <2>1 DEF Requests
  <2>. QED
    BY <1>0, <1>Discover, <2>2 DEF SendDiscover, Send, WorldOK
<1>Request. CASE SendRequest
  <2>1. [type |-> "request", xid |-> xid, ip |-> offer.ip, sid |-> offer.sid] \in Requests
    BY <1>Request, RequestFacts DEF Requests
  <2>. QED
    BY <1>0, <1>Request, <2>1 DEF SendRequest, Send, WorldOK
<1>Offer. ASSUME NEW m \in net, NEW s \in Servers, ServerOffer(s, m) PROVE WorldOK'
  <2>1. PICK a \in Addrs :
          /\ reserved' = [reserved EXCEPT ![s] = a]
          /\ net' = net \cup {Reply("offer", m.xid, s, a,
                                    IF <<s, m.xid>> \in Anonymous THEN None ELSE s, OfferOpts[s])}
    BY <1>Offer DEF ServerOffer
  <2>2. OfferOpts[s] \in SUBSET Options /\ m.xid \in 1 .. MaxRuns
    BY <1>0, MsgFacts, DhcpAssumption DEF Options
  <2>3. Reply("offer", m.xid, s, a, IF <<s, m.xid>> \in Anonymous THEN None ELSE s, OfferOpts[s])
          \in Replies
    BY <2>2, ReplyType
  <2>. QED
    BY <1>0, <1>Offer, <2>1, <2>3 DEF ServerOffer, WorldOK
<1>Answer. ASSUME NEW m \in net, NEW s \in Servers, ServerAnswer(s, m) PROVE WorldOK'
  <2>1. AckOpts[s] \in SUBSET Options /\ m.xid \in 1 .. MaxRuns /\ m.ip \in Addrs
    BY <1>0, <1>Answer, MsgFacts, DhcpAssumption DEF Options, ServerAnswer
  <2>2. Reply("ack", m.xid, s, m.ip, s, AckOpts[s]) \in Replies
    BY <2>1, ReplyType
  <2>3. Reply("nak", m.xid, s, None, s, {}) \in Replies
    BY <2>1, ReplyType
  <2>4. CASE m.ip = reserved[s]
    <3>1. /\ net' = net \cup {Reply("ack", m.xid, s, m.ip, s, AckOpts[s])}
          /\ committed' = committed \cup {<<m.xid, m.ip>>}
      BY <1>Answer, <2>4 DEF ServerAnswer
    <3>2. <<m.xid, m.ip>> \in (1 .. MaxRuns) \X Addrs
      BY <2>1
    <3>. QED
      BY <1>0, <1>Answer, <2>2, <3>1, <3>2 DEF ServerAnswer, WorldOK
  <2>5. CASE m.ip # reserved[s]
    <3>1. net' = net \cup {Reply("nak", m.xid, s, None, s, {})} /\ committed' = committed
      BY <1>Answer, <2>5 DEF ServerAnswer
    <3>. QED
      BY <1>0, <1>Answer, <2>3, <3>1 DEF ServerAnswer, WorldOK
  <2>. QED
    BY <2>4, <2>5
<1>Forgets. ASSUME NEW s \in Servers, ServerForgets(s) PROVE WorldOK'
  BY <1>0, <1>Forgets DEF ServerForgets, WorldOK
<1>Other. ASSUME UNCHANGED world PROVE WorldOK'
  BY <1>0, <1>Other DEF WorldOK, world
<1>. QED
  BY <1>Discover, <1>Request, <1>Offer, <1>Answer, <1>Forgets, <1>Other, ReceiveFacts, Cases
     DEF Start, Quits, ApplyAddr, ApplyRoute, OpenResolvConf, SkipResolvConf,
         WriteResolvConf, Return, Tick, Deliver, vars, world

\* The network only grows, and frames come from it.
LEMMA NetGrows == [Next]_vars /\ IInv => net \subseteq net'
<1>. SUFFICES ASSUME IInv, [Next]_vars PROVE net \subseteq net'
  OBVIOUS
<1>1. ASSUME NEW m \in net, NEW s \in Servers, ServerOffer(s, m) \/ ServerAnswer(s, m)
      PROVE  net \subseteq net'
  BY <1>1 DEF ServerOffer, ServerAnswer
<1>. QED
  BY <1>1, ReceiveFacts, Cases
     DEF Start, Quits, SendDiscover, SendRequest, Send, ApplyAddr, ApplyRoute, OpenResolvConf,
         SkipResolvConf, WriteResolvConf, Return, Tick, Deliver, ServerForgets, vars, world

LEMMA QueueStep ==
  ASSUME IInv, [Next]_vars
  PROVE  QueueInv'
<1>0. HeldOK /\ QueueInv /\ net \subseteq net'
  BY NetGrows DEF IInv
<1>Exit. ASSUME NEW st, Exit(st) PROVE QueueInv'
  <2>1. \A k \in Sockets : Len(queue'[k]) = 0
    BY <1>Exit DEF Exit
  <2>. QED
    BY <2>1 DEF QueueInv
<1>Receive. ASSUME NEW k \in Sockets, Receive(k) PROVE QueueInv'
  BY <1>0, <1>Receive, ReceiveFacts DEF QueueInv
<1>Deliver. ASSUME NEW m \in net, NEW k \in Sockets, Deliver(m, k) PROVE QueueInv'
  <2>1. m \in Replies /\ queue[k] \in Seq(Replies)
    BY <1>0, <1>Deliver, MsgFacts DEF Deliver, IInv, HeldOK
  <2>2. Len(queue[k]) \in Nat
    BY <2>1, LenProperties
  <2>3. /\ Len(Append(queue[k], m)) = Len(queue[k]) + 1
        /\ Append(queue[k], m)[Len(queue[k]) + 1] = m
        /\ \A i \in 1 .. Len(queue[k]) : Append(queue[k], m)[i] = queue[k][i]
    BY <2>1, AppendProperties
  <2>4. \A i \in 1 .. Len(Append(queue[k], m)) : Append(queue[k], m)[i] \in net
    BY <1>0, <2>2, <2>3 DEF QueueInv
  <2>5. /\ queue'[k] = Append(queue[k], m)
        /\ \A l \in Sockets : l # k => queue'[l] = queue[l]
    BY <1>0, <1>Deliver DEF Deliver, HeldOK
  <2>. QED
    BY <1>0, <2>4, <2>5 DEF QueueInv
<1>Other. ASSUME queue' = queue PROVE QueueInv'
  BY <1>0, <1>Other DEF QueueInv
<1>. QED
  BY <1>Exit, <1>Receive, <1>Deliver, <1>Other, Cases
     DEF Quits, Start, SendDiscover, SendRequest, ApplyAddr, ApplyRoute, OpenResolvConf,
         SkipResolvConf, WriteResolvConf, Return,
         Tick, ServerOffer, ServerAnswer, ServerForgets, vars, client

\* The OFFER and the answer in hand stay those of this run.
LEMMA HeldStep ==
  ASSUME IInv, [Next]_vars
  PROVE  HeldInv'
<1>0. HeldInv /\ net \subseteq net'
  BY NetGrows DEF IInv
<1>Start. CASE Start
  BY <1>Start DEF Start, HeldInv, Bound
<1>Receive. ASSUME NEW k \in Sockets, Receive(k) PROVE HeldInv'
  BY <1>0, <1>Receive, ReceiveFacts DEF HeldInv, Sockets, Bound
<1>Request. CASE SendRequest
  BY <1>0, <1>Request, RequestFacts DEF SendRequest, HeldInv, Bound
<1>Addr. CASE ApplyAddr
  BY <1>0, <1>Addr DEF ApplyAddr, HeldInv, Bound
<1>Route. CASE ApplyRoute
  BY <1>0, <1>Route DEF ApplyRoute, HeldInv, Bound
<1>Other. ASSUME UNCHANGED <<phase, offer, ack, xid>>,
                 \/ pc' = pc \/ pc' \in {"exit", "discover", "packet"}
                 \/ {pc, pc'} \subseteq {"resolv", "flush", "close"}
          PROVE  HeldInv'
  BY <1>0, <1>Other DEF HeldInv, Bound
<1>1. CASE Quits \/ SendDiscover \/ OpenResolvConf \/ SkipResolvConf \/ WriteResolvConf \/ Return
  <2>1. UNCHANGED <<phase, offer, ack, xid>> 
    BY <1>1 DEF Quits, SendDiscover, OpenResolvConf, SkipResolvConf, WriteResolvConf, Return
  <2>2. pc' \in {"exit", "packet"} \/ {pc, pc'} \subseteq {"resolv", "flush", "close"}
    BY <1>1 DEF Quits, Exit, SendDiscover, OpenResolvConf, SkipResolvConf, WriteResolvConf, Return
  <2>. QED
    BY <2>1, <2>2, <1>Other
<1>2. CASE Tick \/ UNCHANGED vars
  <2>1. UNCHANGED <<phase, offer, ack, xid, pc>>
    BY <1>2 DEF Tick, vars
  <2>. QED
    BY <2>1, <1>Other
<1>3. ASSUME NEW m \in net, NEW k \in Sockets, Deliver(m, k) PROVE HeldInv'
  <2>1. UNCHANGED <<phase, offer, ack, xid, pc>>
    BY <1>3 DEF Deliver
  <2>. QED
    BY <2>1, <1>Other
<1>4. ASSUME NEW m \in net, NEW s \in Servers, ServerOffer(s, m) \/ ServerAnswer(s, m)
      PROVE  HeldInv'
  <2>1. UNCHANGED <<phase, offer, ack, xid, pc>>
    BY <1>4 DEF ServerOffer, ServerAnswer, client
  <2>. QED
    BY <2>1, <1>Other
<1>5. ASSUME NEW s \in Servers, ServerForgets(s) PROVE HeldInv'
  <2>1. UNCHANGED <<phase, offer, ack, xid, pc>>
    BY <1>5 DEF ServerForgets, client
  <2>. QED
    BY <2>1, <1>Other
<1>. QED
  BY <1>Start, <1>Receive, <1>Request, <1>Addr, <1>Route, <1>1, <1>2, <1>3, <1>4, <1>5, Cases

\* The program goes through its phases in order.
LEMMA StepStep ==
  ASSUME IInv, [Next]_vars
  PROVE  StepInv'
<1>0. ProgOK /\ HeldOK /\ StepInv
  BY DEF IInv
<1>Start. CASE Start
  BY <1>0, <1>Start DEF Start, StepInv, Bound, ProgOK
<1>Exit. ASSUME NEW st, Exit(st), UNCHANGED <<phase, xid, offer, ack>> PROVE StepInv'
  BY <1>0, <1>Exit DEF Exit, StepInv, Bound
<1>Discover. CASE SendDiscover
  BY <1>0, <1>Discover DEF SendDiscover, StepInv, Bound
<1>Request. CASE SendRequest
  BY <1>0, <1>Request, RequestFacts, DhcpAssumption DEF SendRequest, StepInv, Bound
<1>Addr. CASE ApplyAddr
  BY <1>0, <1>Addr, AnswerFacts DEF ApplyAddr, StepInv, Bound
<1>Route. CASE ApplyRoute
  <2>1. PICK v : v = OptionOf("router") /\ OptionOf("router")' = v
    BY <1>Route DEF ApplyRoute, OptionOf
  <2>2. v \in {None, gw'}
    BY <1>Route, <2>1 DEF ApplyRoute
  <2>. QED
    BY <1>0, <1>Route, <2>1, <2>2 DEF ApplyRoute, StepInv, Bound
<1>Receive. ASSUME NEW k \in Sockets, Receive(k) PROVE StepInv'
  <2>1. CASE UNCHANGED <<offer, ack>> /\ pc' \in Sockets
    BY <1>0, <1>Receive, <2>1, ReceiveFacts DEF StepInv, Bound, Sockets
  <2>2. ASSUME NEW m \in Replies, phase = "offer", offer' = m, pc' = "request"
        PROVE  StepInv'
    BY <1>0, <1>Receive, <2>2, ReceiveFacts DEF StepInv, Bound, Sockets
  <2>3. ASSUME NEW m \in Replies, phase = "ack", ack' = m, pc' = "answer", offer' = offer
        PROVE  StepInv'
    BY <1>0, <1>Receive, <2>3, ReceiveFacts DEF StepInv, Bound, Sockets
  <2>. QED
    BY <1>Receive, <2>1, <2>2, <2>3, ReceiveFacts
<1>Other. ASSUME UNCHANGED <<pc, phase, xid, offer, ack, addr, gw>> PROVE StepInv'
  <2>1. OptionOf("router")' = OptionOf("router") /\ OptionOf("dns")' = OptionOf("dns")
    BY <1>Other DEF OptionOf
  <2>. QED
    BY <1>0, <1>Other, <2>1 DEF StepInv, Bound
<1>File. CASE OpenResolvConf \/ SkipResolvConf \/ WriteResolvConf
  <2>1. /\ UNCHANGED <<phase, xid, offer, ack, addr, gw>>
        /\ pc \in {"resolv", "flush"} /\ pc' \in {"flush", "close"}
        /\ pc' = "flush" => OptionOf("dns") # None
    BY <1>File DEF OpenResolvConf, SkipResolvConf, WriteResolvConf, iface
  <2>2. OptionOf("router")' = OptionOf("router") /\ OptionOf("dns")' = OptionOf("dns")
    BY <2>1 DEF OptionOf
  <2>. QED
    BY <1>0, <2>1, <2>2 DEF StepInv, Bound
<1>1. CASE Quits \/ Return
  <2>1. PICK st : Exit(st) /\ UNCHANGED <<phase, xid, offer, ack>>
    BY <1>1 DEF Quits, Return
  <2>. QED
    BY <2>1, <1>Exit
<1>2. CASE Tick \/ UNCHANGED vars
  <2>1. UNCHANGED <<pc, phase, xid, offer, ack, addr, gw>>
    BY <1>2 DEF Tick, vars, iface
  <2>. QED
    BY <2>1, <1>Other
<1>3. ASSUME NEW m \in net, NEW k \in Sockets, Deliver(m, k) PROVE StepInv'
  <2>1. UNCHANGED <<pc, phase, xid, offer, ack, addr, gw>>
    BY <1>3 DEF Deliver, iface
  <2>. QED
    BY <2>1, <1>Other
<1>4. ASSUME NEW m \in net, NEW s \in Servers, ServerOffer(s, m) \/ ServerAnswer(s, m)
      PROVE  StepInv'
  <2>1. UNCHANGED <<pc, phase, xid, offer, ack, addr, gw>>
    BY <1>4 DEF ServerOffer, ServerAnswer, client, iface
  <2>. QED
    BY <2>1, <1>Other
<1>5. ASSUME NEW s \in Servers, ServerForgets(s) PROVE StepInv'
  <2>1. UNCHANGED <<pc, phase, xid, offer, ack, addr, gw>>
    BY <1>5 DEF ServerForgets, client, iface
  <2>. QED
    BY <2>1, <1>Other
<1>. QED
  BY <1>Start, <1>Discover, <1>Request, <1>Addr, <1>Route, <1>Receive,
     <1>File, <1>1, <1>2, <1>3, <1>4, <1>5, Cases

\* A message that is added fits the run, its server and its lease.
LEMMA MsgStep ==
  ASSUME IInv, [Next]_vars
  PROVE  MsgInv'
<1>0. ProgOK /\ WorldOK /\ MsgInv
  BY DEF IInv
<1>1. \A m \in net : m.xid \in 1 .. MaxRuns
  BY <1>0, MsgFacts
<1>Start. CASE Start
  <2>1. /\ xid' = xid + 1 /\ net' = net /\ committed' = committed /\ xid \in Nat
        /\ \A m \in net : m.xid \in Nat
    BY <1>0, <1>1, <1>Start DEF Start, world, ProgOK
  <2>2. \A m \in net : m.xid <= xid' /\ m.xid # xid'
    <3>1. ASSUME NEW m \in net PROVE m.xid <= xid' /\ m.xid # xid'
      <4>1. m.xid \in Nat /\ m.xid <= xid
        BY <1>0, <2>1 DEF MsgInv
      <4>. QED
        BY <2>1, <4>1
    <3>. QED
      BY <3>1
  <2>. QED
    BY <1>0, <2>1, <2>2 DEF MsgInv
<1>Receive. ASSUME NEW k \in Sockets, Receive(k) PROVE MsgInv'
  <2>1. /\ net' = net /\ committed' = committed /\ xid' = xid /\ phase' = phase
        /\ offer' = offer \/ phase = "offer"
    BY <1>Receive, ReceiveFacts DEF world
  <2>. QED
    BY <1>0, <2>1 DEF MsgInv
<1>Discover. CASE SendDiscover
  <2>1. PICK d : d = [type |-> "discover", xid |-> xid]
    OBVIOUS
  <2>2. d.type = "discover" /\ d.xid = xid /\ xid <= xid
    BY <1>0, <2>1 DEF ProgOK
  <2>3. /\ net' \subseteq net \cup {d} /\ committed' = committed
        /\ xid' = xid /\ phase' = phase /\ offer' = offer
    BY <1>Discover, <2>1 DEF SendDiscover, Send
  <2>. QED
    BY <1>0, <2>2, <2>3 DEF MsgInv
<1>Request. CASE SendRequest
  <2>1. PICK d : d = [type |-> "request", xid |-> xid, ip |-> offer.ip, sid |-> offer.sid]
    OBVIOUS
  <2>2. d.type = "request" /\ d.xid = xid /\ d.ip = offer.ip /\ d.sid = offer.sid /\ xid <= xid
    BY <1>0, <2>1 DEF ProgOK
  <2>3. /\ net' \subseteq net \cup {d} /\ committed' = committed
        /\ xid' = xid /\ phase' = "ack" /\ offer' = offer /\ phase = "offer"
    BY <1>Request, <2>1, RequestFacts DEF SendRequest, Send
  <2>. QED
    BY <1>0, <2>2, <2>3 DEF MsgInv
<1>Offer. ASSUME NEW m \in net, NEW s \in Servers, ServerOffer(s, m) PROVE MsgInv'
  <2>1. PICK a \in Addrs, sid \in {None, s} :
          a[1] = s /\ net' = net \cup {Reply("offer", m.xid, s, a, sid, OfferOpts[s])}
    BY <1>Offer DEF ServerOffer
  <2>2. OfferOpts[s] \in SUBSET Options
    BY DhcpAssumption DEF Options
  <2>3. PICK d : d = Reply("offer", m.xid, s, a, sid, OfferOpts[s])
    OBVIOUS
  <2>4. d.type = "offer" /\ d.xid = m.xid /\ d.from = s /\ d.ip = a /\ d.sid = sid
    BY <1>1, <2>2, <2>3, ReplyType
  <2>5. UNCHANGED <<xid, phase, offer, committed>> /\ net' = net \cup {d}
    BY <1>Offer, <2>1, <2>3 DEF ServerOffer, client
  <2>. QED
    BY <1>0, <2>1, <2>4, <2>5 DEF MsgInv
<1>Answer. ASSUME NEW m \in net, NEW s \in Servers, ServerAnswer(s, m) PROVE MsgInv'
  <2>1. /\ AckOpts[s] \in SUBSET Options /\ m.xid \in 1 .. MaxRuns /\ m.ip \in Addrs
        /\ m.type = "request" /\ m.sid = s /\ UNCHANGED <<xid, phase, offer>>
    BY <1>0, <1>Answer, MsgFacts, DhcpAssumption DEF Options, ServerAnswer, client
  <2>2. CASE m.ip = reserved[s]
    <3>1. PICK d : d = Reply("ack", m.xid, s, m.ip, s, AckOpts[s])
      OBVIOUS
    <3>2. d.type = "ack" /\ d.xid = m.xid /\ d.from = s /\ d.ip = m.ip
      BY <2>1, <3>1, ReplyType
    <3>3. /\ net' = net \cup {d} /\ committed' = committed \cup {<<m.xid, m.ip>>}
      BY <1>Answer, <2>2, <3>1 DEF ServerAnswer
    <3>4. m.ip[1] = s
      BY <2>1, <2>2, DhcpAssumption DEF IInv, LeaseInv
    <3>5. m.xid = xid => phase = "ack" /\ s = offer.sid
      BY <1>0, <2>1 DEF MsgInv
    <3>6. m.xid <= xid
      BY <1>0 DEF MsgInv
    <3>. QED
      BY <1>0, <2>1, <3>2, <3>3, <3>4, <3>5, <3>6 DEF MsgInv
  <2>3. CASE m.ip # reserved[s]
    <3>1. PICK d : d = Reply("nak", m.xid, s, None, s, {})
      OBVIOUS
    <3>2. d.type = "nak" /\ d.xid = m.xid
      BY <3>1 DEF Reply
    <3>3. /\ net' = net \cup {d} /\ committed' = committed
      BY <1>Answer, <2>3, <3>1 DEF ServerAnswer
    <3>. QED
      BY <1>0, <2>1, <3>2, <3>3 DEF MsgInv
  <2>. QED
    BY <2>2, <2>3
<1>Other. ASSUME UNCHANGED <<net, committed, xid, phase, offer>> PROVE MsgInv'
  BY <1>0, <1>Other DEF MsgInv
<1>. QED
  BY <1>Start, <1>Receive, <1>Discover, <1>Request, <1>Offer, <1>Answer, <1>Other, Cases
     DEF Quits, ApplyAddr, ApplyRoute, OpenResolvConf, SkipResolvConf,
         WriteResolvConf, Return, Tick, Deliver, ServerForgets, vars,
         client, world

\* No server gives away a lease of this run.
LEMMA LeaseStep ==
  ASSUME IInv, [Next]_vars
  PROVE  LeaseInv'
<1>0. ProgOK /\ WorldOK /\ LeaseInv
  BY DEF IInv
<1>Start. CASE Start
  <2>1. /\ xid' = xid + 1 /\ xid \in Nat /\ xid' \in 1 .. MaxRuns
        /\ reserved' = reserved /\ taken' = taken /\ committed' = committed
    BY <1>0, <1>Start, DhcpAssumption DEF Start, world, ProgOK
  <2>2. \A a \in Addrs : <<xid', a>> \notin committed
    BY <1>0, <2>1 DEF LeaseInv
  <2>. QED
    BY <1>0, <2>1, <2>2 DEF LeaseInv
<1>Offer. ASSUME NEW m \in net, NEW s \in Servers, ServerOffer(s, m) PROVE LeaseInv'
  <2>1. PICK a \in Addrs : a[1] = s /\ a \notin taken /\ reserved' = [reserved EXCEPT ![s] = a]
    BY <1>Offer DEF ServerOffer
  <2>2. UNCHANGED <<pc, xid, taken, committed>>
    BY <1>Offer DEF ServerOffer, client
  <2>. QED
    BY <1>0, <2>1, <2>2 DEF LeaseInv, WorldOK
<1>Answer. ASSUME NEW m \in net, NEW s \in Servers, ServerAnswer(s, m) PROVE LeaseInv'
  <2>1. UNCHANGED <<pc, xid, reserved, taken>> /\ m.ip \in Addrs
    BY <1>0, <1>Answer, MsgFacts DEF ServerAnswer, client
  <2>2. CASE m.ip = reserved[s]
    <3>1. committed' = committed \cup {<<m.xid, m.ip>>}
      BY <1>Answer, <2>2 DEF ServerAnswer
    <3>2. m.ip \notin taken /\ m.xid <= xid
      BY <1>0, <2>1, <2>2, DhcpAssumption DEF LeaseInv, IInv, MsgInv
    <3>. QED
      BY <1>0, <2>1, <3>1, <3>2 DEF LeaseInv
  <2>3. CASE m.ip # reserved[s]
    BY <1>0, <1>Answer, <2>1, <2>3 DEF ServerAnswer, LeaseInv
  <2>. QED
    BY <2>2, <2>3
<1>Forgets. ASSUME NEW s \in Servers, ServerForgets(s) PROVE LeaseInv'
  <2>1. /\ UNCHANGED <<pc, xid, committed>> /\ taken' = taken \cup {reserved[s]}
        /\ reserved[s] # None /\ (pc = "exit" \/ <<xid, reserved[s]>> \notin committed)
        /\ reserved'[s] = None /\ \A r \in Servers : r # s => reserved'[r] = reserved[r]
    BY <1>0, <1>Forgets DEF ServerForgets, client, WorldOK
  <2>2. \A r \in Servers : r # s /\ reserved[r] # None => reserved[r] # reserved[s]
    BY <1>0, <2>1 DEF LeaseInv
  <2>. QED
    BY <1>0, <2>1, <2>2 DEF LeaseInv
<1>Receive. ASSUME NEW k \in Sockets, Receive(k) PROVE LeaseInv'
  BY <1>0, <1>Receive, ReceiveFacts DEF LeaseInv, world, Sockets
<1>Other. ASSUME UNCHANGED <<xid, reserved, taken, committed>>, pc' # "exit" => pc # "exit"
          PROVE  LeaseInv'
  BY <1>0, <1>Other DEF LeaseInv
<1>. QED
  BY <1>Start, <1>Offer, <1>Answer, <1>Forgets, <1>Receive, <1>Other, Cases
     DEF Quits, Exit, SendDiscover, SendRequest, ApplyAddr, ApplyRoute, OpenResolvConf,
         SkipResolvConf, WriteResolvConf, Return,
         Tick, Deliver, vars, world

LEMMA ExpiredStep ==
  ASSUME IInv, [Next]_vars
  PROVE  expired' \in BOOLEAN
<1>1. expired \in BOOLEAN
  BY DEF IInv
<1>2. expired' = expired \/ expired' = TRUE \/ expired' = FALSE
  <2>1. ASSUME NEW k \in Sockets, Receive(k) PROVE expired' = expired
    BY <2>1, ReceiveFacts
  <2>. QED
    BY <2>1, Cases
       DEF Start, Quits, SendDiscover, SendRequest, ApplyAddr, ApplyRoute, OpenResolvConf,
           SkipResolvConf, WriteResolvConf, Return, Tick, Deliver, ServerOffer, ServerAnswer,
           ServerForgets, vars, client
<1>. QED
  BY <1>1, <1>2, Zenon

-----------------------------------------------------------------------------
\* IInv holds throughout.
LEMMA Inductive == Spec => []IInv
<1>1. IInv /\ [Next]_vars => IInv'
  BY ProgStep, HeldTypeStep, WorldStep, ExpiredStep, QueueStep, HeldStep, StepStep,
     MsgStep, LeaseStep
     DEF IInv
<1>. QED
  BY InitInv, <1>1, PTL DEF Spec

\* The types of all variables.
THEOREM TypeCorrect == Spec => []TypeOK
<1>1. IInv => TypeOK
  BY DEF IInv, ProgOK, HeldOK, WorldOK, Places, TypeOK
<1>. QED
  BY Inductive, <1>1, PTL

\* The address that is put on the interface is one that a server has
\* committed to this run and that no other client has, and the route and the
\* name server follow it: whatever is lost, repeated, delayed from earlier
\* runs or reordered, and wherever the program is killed, for any number of
\* servers, runs and frames in the sockets.
THEOREM AppliesCommittedHolds == Spec => AppliesCommitted
<1>. DEFINE Safe == /\ addr' # addr => <<xid, addr'>> \in committed /\ addr' \notin taken
                    /\ gw' # gw \/ dns' # dns =>
                         <<xid, addr>> \in committed /\ ack.type = "ack"
<1>1. ASSUME IInv, [Next]_vars PROVE Safe
  <2>1. CASE ApplyAddr
    BY <1>1, <2>1, AnswerFacts DEF ApplyAddr, Bound
  <2>2. CASE ApplyRoute \/ OpenResolvConf \/ WriteResolvConf
    <3>1. pc \in Bound \ {"answer"} /\ addr' = addr
      BY <2>2 DEF ApplyRoute, OpenResolvConf, WriteResolvConf, Bound
    <3>2. ack.type = "ack" /\ addr = ack.ip
      BY <1>1, <3>1 DEF IInv, StepInv
    <3>. QED
      BY <1>1, <3>1, <3>2, AnswerFacts
  <2>3. ASSUME UNCHANGED iface PROVE Safe
    BY <2>3 DEF iface
  <2>. QED
    BY <1>1, <2>1, <2>2, <2>3, ReceiveFacts, Cases
       DEF Start, Quits, SendDiscover, SendRequest, SkipResolvConf, Return, Tick, Deliver,
           ServerOffer, ServerAnswer, ServerForgets, vars, iface
<1>2. IInv /\ [Next]_vars => [Safe]_vars
  BY <1>1
<1>. QED
  BY Inductive, <1>2, PTL DEF Spec, AppliesCommitted

\* A run that succeeds leaves the address and the route of one server, the
\* one whose OFFER it took, and no other's name server is ever written: no
\* field of another server's OFFER or ACK is mixed in.
THEOREM OneServerHolds == Spec => OneServer
<1>. DEFINE One == /\ status' = "ok" /\ status # "ok" =>
                        /\ addr[1] = offer.sid
                        /\ OptionOf("router") \in {None, offer.sid}
                        /\ OptionOf("router") \in {None, gw}
                   /\ dns' # dns => dns' \in {"empty", offer.sid}
<1>1. ASSUME IInv, [Next]_vars PROVE One
  <2>1. CASE Return \/ WriteResolvConf
    <3>1. pc \in {"flush", "close"}
      BY <2>1 DEF Return, WriteResolvConf
    <3>2. ack.type = "ack" /\ addr = ack.ip /\ OptionOf("router") \in {None, gw}
      BY <1>1, <3>1 DEF IInv, StepInv, Bound
    <3>3. addr[1] = offer.sid /\ ack.from = offer.sid /\ offer.from = offer.sid
      BY <1>1, <3>1, <3>2, AnswerFacts DEF Bound
    <3>4. \A o \in Options : OptionOf(o) \in {None, offer.sid}
      BY <3>3 DEF OptionOf
    <3>5. dns' # dns => dns' = OptionOf("dns") /\ OptionOf("dns") # None
      BY <1>1, <2>1 DEF Return, WriteResolvConf, iface, IInv, StepInv
    <3>. QED
      BY <3>2, <3>3, <3>4, <3>5 DEF Options
  <2>2. CASE OpenResolvConf
    BY <2>2 DEF OpenResolvConf
  <2>3. ASSUME status' = status \/ status' # "ok", dns' = dns PROVE One
    BY <2>3
  <2>. QED
    BY <1>1, <2>1, <2>2, <2>3, ReceiveFacts, Cases
       DEF Start, Quits, Exit, SendDiscover, SendRequest, ApplyAddr, ApplyRoute,
           SkipResolvConf, Tick, Deliver, ServerOffer, ServerAnswer, ServerForgets, vars,
           client, iface
<1>2. IInv /\ [Next]_vars => [One]_vars
  BY <1>1
<1>. QED
  BY Inductive, <1>2, PTL DEF Spec, OneServer
=============================================================================

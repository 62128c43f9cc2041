-------------------------------- MODULE Dhcp --------------------------------
(* The DHCP client (tools/edhcpc/edhcpc.c): one negotiation per run of the   *)
(* program, each run with a transaction id of its own, against servers on a  *)
(* network that loses, repeats, delays and reorders messages. The program    *)
(* may be started again after it ended or was killed; what it configured on  *)
(* the interface stays. Servers, network and other clients are external.     *)
EXTENDS Integers, Sequences

CONSTANTS Servers,
          Addrs,         \* an address is a pair of its server and a number
          OfferOpts, AckOpts,   \* per server: the options its replies carry
          Anonymous,     \* pairs of a server and a run it leaves its identifier out in
          MaxRuns,       \* bound: runs of the program
          MaxQueue,      \* bound: frames waiting in a socket
          None

ASSUME DhcpAssumption ==
  /\ \A a \in Addrs : a[1] \in Servers
  /\ OfferOpts \in [Servers -> SUBSET {"router", "dns"}]
  /\ AckOpts \in [Servers -> SUBSET {"router", "dns"}]
  /\ Anonymous \subseteq Servers \X Nat
  /\ None \notin Servers \cup Addrs
  /\ MaxRuns \in Nat /\ MaxQueue \in Nat

VARIABLES
  pc, phase, xid,        \* the program: place, what it waits for, its id
  expired,               \* the deadline of the current wait has passed
  offer, ack,            \* struct dhcp_offer offer, ack
  queue,                 \* per socket: frames received
  status,                \* exit status of the last run
  addr, gw, dns,         \* the interface, and /etc/resolv.conf
  net,                   \* every message sent so far
  reserved, taken,       \* per server: address kept for the client; addresses of others
  committed              \* history: leases the servers have committed, with their xid

client == <<pc, phase, xid, expired, offer, ack, queue, status>>
iface  == <<addr, gw, dns>>
world  == <<net, reserved, taken, committed>>
vars   == <<pc, phase, xid, expired, offer, ack, queue, status,
            addr, gw, dns, net, reserved, taken, committed>>

Sockets == {"packet", "udp"}
Options == {"router", "dns"}

\* A reply. An option that is present has the value its server gives it.
Reply(type, x, s, ip, sid, opts) ==
  [type |-> type, xid |-> x, from |-> s, ip |-> ip, sid |-> sid, opts |-> opts]

Init ==
  /\ pc = "exit" /\ phase = "offer" /\ xid = 0 /\ expired = FALSE
  /\ offer = None /\ ack = None /\ status = "none"
  /\ queue = [k \in Sockets |-> <<>>]
  /\ addr = None /\ gw = None /\ dns = None
  /\ net = {} /\ committed = {}
  /\ reserved = [s \in Servers |-> None] /\ taken = {}

-----------------------------------------------------------------------------
(* main                                                                      *)

Exit(st) ==
  /\ pc' = "exit" /\ status' = st
  /\ queue' = [k \in Sockets |-> <<>>]

\* The sockets are opened and a transaction id is made up.
Start ==
  /\ pc = "exit" /\ xid < MaxRuns
  /\ xid' = xid + 1 /\ pc' = "discover" /\ phase' = "offer" /\ expired' = FALSE
  /\ offer' = None /\ ack' = None /\ status' = "none"
  /\ UNCHANGED <<queue, iface, world>>

\* Opening a socket, an ioctl, a bind or a fcntl fails.
SetupFails ==
  /\ pc = "discover" /\ Exit("failed")
  /\ UNCHANGED <<phase, xid, expired, offer, ack, iface, world>>

\* Both sockets send; failures are reported and otherwise ignored. The
\* message is lost when both fail.
Send(m) == \/ net' = net \cup {m}
           \/ net' = net

SendDiscover ==
  /\ pc = "discover" /\ pc' = "packet"
  /\ Send([type |-> "discover", xid |-> xid])
  /\ UNCHANGED <<phase, xid, expired, offer, ack, queue, status, iface, reserved, taken, committed>>

\* Mutant: the transaction id is not compared.
AnyReply(m) == m.xid <= xid

\* The frame is a reply to this negotiation.
Mine(m) == m.xid = xid

\* Mutant: a reply that is ignored replaces the offer.
GotIntoOffer(m) ==
  \/ /\ phase = "offer" /\ m.type = "offer"
     /\ offer' = m /\ pc' = "request" /\ UNCHANGED ack
  \/ /\ phase = "ack" /\ m.type \in {"ack", "nak"}
     /\ ack' = m /\ pc' = "answer" /\ UNCHANGED offer
  \/ /\ ~(phase = "offer" /\ m.type = "offer")
     /\ ~(phase = "ack" /\ m.type \in {"ack", "nak"})
     /\ offer' = m /\ pc' = "packet" /\ UNCHANGED ack

\* A matching frame is handed to the loop of the current phase.
Got(m) ==
  \/ /\ phase = "offer" /\ m.type = "offer"
     /\ offer' = m /\ pc' = "request" /\ UNCHANGED ack
  \/ /\ phase = "ack" /\ m.type \in {"ack", "nak"}
     /\ ack' = m /\ pc' = "answer" /\ UNCHANGED offer
  \/ /\ ~(phase = "offer" /\ m.type = "offer")
     /\ ~(phase = "ack" /\ m.type \in {"ack", "nak"})
     /\ pc' = "packet" /\ UNCHANGED <<offer, ack>>

\* Mutant: a turn does not look at the deadline.
ReceiveWithoutDeadline(k) ==
  /\ pc = k
  /\ LET next == IF k = "packet" THEN "udp" ELSE "packet" IN
     \/ /\ queue[k] = <<>> /\ pc' = next
        /\ UNCHANGED <<offer, ack, queue>>
     \/ /\ queue[k] # <<>> /\ queue' = [queue EXCEPT ![k] = Tail(@)]
        /\ IF Mine(Head(queue[k]))
           THEN Got(Head(queue[k]))
           ELSE pc' = next /\ UNCHANGED <<offer, ack>>
  /\ UNCHANGED <<phase, xid, expired, status, iface, world>>

\* One turn looks at the deadline and takes one frame of the packet socket,
\* and goes on with the udp socket if it got nothing it wants.
Receive(k) ==
  /\ pc = k /\ (k = "packet" => ~expired)
  /\ LET next == IF k = "packet" THEN "udp" ELSE "packet" IN
     \/ /\ queue[k] = <<>> /\ pc' = next
        /\ UNCHANGED <<offer, ack, queue>>
     \/ /\ queue[k] # <<>> /\ queue' = [queue EXCEPT ![k] = Tail(@)]
        /\ IF Mine(Head(queue[k]))
           THEN Got(Head(queue[k]))
           ELSE pc' = next /\ UNCHANGED <<offer, ack>>
  /\ UNCHANGED <<phase, xid, expired, status, iface, world>>

\* The wait ends: at the deadline, or because recv fails.
TimedOut ==
  /\ pc = "packet" /\ expired /\ Exit("failed")
  /\ UNCHANGED <<phase, xid, expired, offer, ack, iface, world>>

RecvFails ==
  /\ pc \in Sockets /\ Exit("failed")
  /\ UNCHANGED <<phase, xid, expired, offer, ack, iface, world>>

\* An offer without server identifier is refused.
NoServerId ==
  /\ pc = "request" /\ offer.sid = None /\ Exit("failed")
  /\ UNCHANGED <<phase, xid, expired, offer, ack, iface, world>>

SendRequest ==
  /\ pc = "request" /\ offer.sid # None
  /\ Send([type |-> "request", xid |-> xid, ip |-> offer.ip, sid |-> offer.sid])
  /\ pc' = "packet" /\ phase' = "ack" /\ expired' = FALSE
  /\ UNCHANGED <<xid, offer, ack, queue, status, iface, reserved, taken, committed>>

\* Fields of the ACK are preferred, one by one, to those of the OFFER.
IpBe == IF ack.ip # None THEN ack.ip ELSE offer.ip
OptionOf(o) == IF o \in ack.opts THEN ack.from
               ELSE IF o \in offer.opts THEN offer.from ELSE None

Refused ==
  /\ pc = "answer" /\ (ack.type = "nak" \/ IpBe = None) /\ Exit("failed")
  /\ UNCHANGED <<phase, xid, expired, offer, ack, iface, world>>

ApplyAddr ==
  /\ pc = "answer" /\ ack.type = "ack" /\ IpBe # None
  /\ addr' = IpBe /\ pc' = "route"
  /\ UNCHANGED <<phase, xid, expired, offer, ack, queue, status, gw, dns, world>>

ApplyRoute ==
  /\ pc = "route" /\ pc' = "resolv"
  /\ gw' = IF OptionOf("router") # None THEN OptionOf("router") ELSE gw
  /\ UNCHANGED <<phase, xid, expired, offer, ack, queue, status, addr, dns, world>>

\* netlink refuses the address or the route.
ApplyFails ==
  /\ \/ pc = "answer" /\ ack.type = "ack" /\ IpBe # None
     \/ pc = "route" /\ OptionOf("router") # None
  /\ Exit("failed")
  /\ UNCHANGED <<phase, xid, expired, offer, ack, iface, world>>

\* fopen truncates the file; what is written stays in the buffer.
OpenResolvConf ==
  /\ pc = "resolv" /\ OptionOf("dns") # None
  /\ dns' = "empty" /\ pc' = "flush"
  /\ UNCHANGED <<phase, xid, expired, offer, ack, queue, status, addr, gw, world>>

\* There is no name server to write, or the file cannot be opened.
SkipResolvConf ==
  /\ pc = "resolv" /\ pc' = "close"
  /\ UNCHANGED <<phase, xid, expired, offer, ack, queue, status, iface, world>>

\* fclose writes the buffer; if that fails nobody notices.
WriteResolvConf ==
  /\ pc = "flush" /\ pc' = "close"
  /\ dns' \in {dns, OptionOf("dns")}
  /\ UNCHANGED <<phase, xid, expired, offer, ack, queue, status, addr, gw, world>>

\* The sockets are closed: the run succeeds, whatever became of the file.
Return ==
  /\ pc = "close" /\ Exit("ok")
  /\ UNCHANGED <<phase, xid, expired, offer, ack, iface, world>>

Kill ==
  /\ pc # "exit" /\ Exit("killed")
  /\ UNCHANGED <<phase, xid, expired, offer, ack, iface, world>>

-----------------------------------------------------------------------------
(* Time, network, servers and other clients (external).                      *)

Tick ==
  /\ pc \in Sockets /\ ~expired /\ expired' = TRUE
  /\ UNCHANGED <<pc, phase, xid, offer, ack, queue, status, iface, world>>

\* A reply sent earlier reaches a socket: once, several times, or never.
Deliver(m, k) ==
  /\ m.type \in {"offer", "ack", "nak"} /\ pc # "exit" /\ Len(queue[k]) < MaxQueue
  /\ queue' = [queue EXCEPT ![k] = Append(@, m)]
  /\ UNCHANGED <<pc, phase, xid, expired, offer, ack, status, iface, world>>

\* A server answers a DISCOVER with the address it keeps for the client, or
\* keeps a free one.
ServerOffer(s, m) ==
  /\ m.type = "discover"
  /\ \E a \in {b \in Addrs : b[1] = s /\ b \notin taken} :
       /\ reserved[s] \in {None, a}
       /\ reserved' = [reserved EXCEPT ![s] = a]
       /\ net' = net \cup {Reply("offer", m.xid, s, a,
                                  IF <<s, m.xid>> \in Anonymous THEN None ELSE s, OfferOpts[s])}
  /\ UNCHANGED <<client, iface, taken, committed>>

\* A server answers a REQUEST that names it: it commits the lease of the
\* address it keeps, and refuses any other.
ServerAnswer(s, m) ==
  /\ m.type = "request" /\ m.sid = s
  /\ IF m.ip = reserved[s]
     THEN /\ net' = net \cup {Reply("ack", m.xid, s, m.ip, s, AckOpts[s])}
          /\ committed' = committed \cup {<<m.xid, m.ip>>}
     ELSE /\ net' = net \cup {Reply("nak", m.xid, s, None, s, {})}
          /\ UNCHANGED committed
  /\ UNCHANGED <<client, iface, reserved, taken>>

\* A server gives an address it kept to another client: an offer that was
\* not taken up, or a lease of an earlier run that has run out (the client
\* does not renew). A lease outlives the run it was committed in.
ServerForgets(s) ==
  /\ reserved[s] # None /\ (pc = "exit" \/ <<xid, reserved[s]>> \notin committed)
  /\ taken' = taken \cup {reserved[s]}
  /\ reserved' = [reserved EXCEPT ![s] = None]
  /\ UNCHANGED <<client, iface, net, committed>>

Client ==
  \/ SetupFails \/ SendDiscover \/ (\E k \in Sockets : Receive(k)) \/ TimedOut
  \/ RecvFails \/ NoServerId \/ SendRequest \/ Refused \/ ApplyAddr \/ ApplyRoute
  \/ ApplyFails \/ OpenResolvConf \/ SkipResolvConf \/ WriteResolvConf \/ Return

Next ==
  \/ Start \/ Client \/ Kill \/ Tick
  \/ \E m \in net, k \in Sockets : Deliver(m, k)
  \/ \E m \in net, s \in Servers : ServerOffer(s, m) \/ ServerAnswer(s, m)
  \/ \E s \in Servers : ServerForgets(s)

Spec == Init /\ [][Next]_vars

\* The program goes on executing and time passes.
FairSpec == Spec /\ WF_vars(Client) /\ WF_vars(Tick)

-----------------------------------------------------------------------------
(* Properties                                                                *)

Requests == [type : {"discover"}, xid : 1 .. MaxRuns]
  \cup [type : {"request"}, xid : 1 .. MaxRuns, ip : Addrs, sid : Servers]
Replies == [type : {"offer", "ack", "nak"}, xid : 1 .. MaxRuns, from : Servers,
            ip : Addrs \cup {None}, sid : Servers \cup {None}, opts : SUBSET Options]

TypeOK ==
  /\ pc \in {"exit", "discover", "packet", "udp", "request", "answer", "route", "resolv",
             "flush", "close"}
  /\ phase \in {"offer", "ack"} /\ xid \in 0 .. MaxRuns /\ expired \in BOOLEAN
  /\ offer \in Replies \cup {None} /\ ack \in Replies \cup {None}
  /\ queue \in [Sockets -> Seq(Replies)] /\ status \in {"none", "ok", "failed", "killed"}
  /\ addr \in Addrs \cup {None} /\ gw \in Servers \cup {None}
  /\ dns \in Servers \cup {None, "empty"}
  /\ net \subseteq Requests \cup Replies
  /\ reserved \in [Servers -> Addrs \cup {None}] /\ taken \subseteq Addrs
  /\ committed \subseteq (1 .. MaxRuns) \X Addrs

\* The address is put on the interface only when a server has committed it to
\* this run, whatever replies of this and of earlier runs arrive in which
\* order, and no other client has it then. The route and the name server
\* follow the acknowledged address, so that a negotiation that fails or is
\* killed before leaves the configuration as it was.
AppliesCommitted ==
  [][/\ addr' # addr => <<xid, addr'>> \in committed /\ addr' \notin taken
     /\ gw' # gw \/ dns' # dns => <<xid, addr>> \in committed /\ ack.type = "ack"]_vars

\* A run leaves a configuration of one server: when it succeeds its address
\* and the gateway come from the server it asked; and so does the name server
\* whenever the file is written, by a run that is killed later, too.
OneServer ==
  [][/\ status' = "ok" /\ status # "ok" =>
          /\ addr[1] = offer.sid
          /\ OptionOf("router") \in {None, offer.sid} /\ OptionOf("router") \in {None, gw}
     /\ dns' # dns => dns' \in {"empty", offer.sid}]_vars

\* Every run ends, whatever is lost.
RunEnds == (pc # "exit") ~> (pc = "exit")
=============================================================================

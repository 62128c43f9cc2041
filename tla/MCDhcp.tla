------------------------------- MODULE MCDhcp -------------------------------
(* Small instance of Dhcp.                                                   *)
EXTENDS Dhcp

CONSTANTS s1, s2

MCAddrs == {<<s, 1>> : s \in Servers}

\* s1 leaves the options out of its ACK, s2 out of its OFFER.
MCOfferOpts == [s \in Servers |-> IF s = s2 THEN {} ELSE {"router", "dns"}]
MCAckOpts   == [s \in Servers |-> IF s = s2 THEN {"router"} ELSE {}]
\* s2 leaves its identifier out in the first run.
MCAnonymous == {<<s2, 1>>}
=============================================================================

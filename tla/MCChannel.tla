------------------------------ MODULE MCChannel ------------------------------
(* Small instances of Channel: endpoint 0 with a client, endpoint 1 with a   *)
(* server.                                                                   *)
EXTENDS Channel, TLC
CONSTANTS c1, s1, m1, m2, m3
MCPeerOf == 0 :> 1 @@ 1 :> 0
MCEpOf == [t \in Threads |-> IF t = s1 THEN 1 ELSE 0]
=============================================================================

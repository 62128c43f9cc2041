------------------------------- MODULE MCPipe -------------------------------
(* Small instance of Pipe.                                                   *)
EXTENDS Pipe

\* The write end may be shared by two files.
TwoWriters == [x \in {"r", "w"} |-> IF x = "w" THEN 2 ELSE 1]
=============================================================================

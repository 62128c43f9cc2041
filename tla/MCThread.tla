------------------------------ MODULE MCThread ------------------------------
(* A small instance of Thread.                                               *)
EXTENDS Thread
=============================================================================

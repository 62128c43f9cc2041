--------------------------- MODULE MCTicketMutex ---------------------------
(* Small instance of TicketMutex.                                            *)
EXTENDS TicketMutex
=============================================================================

--------------------------- MODULE MCAccessTickets ---------------------------
(* Tickets meet only in the line for the lock, so one of them is enough. It  *)
(* races every mutation that revokes; a storage verb holds the lock like a   *)
(* fence does and touches nothing else a ticket depends on.                  *)
EXTENDS AccessTickets

CONSTANT t1

OneTicket   == {t1}
Interfering == Revoking
=============================================================================

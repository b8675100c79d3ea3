--------------------------- MODULE MCWebSocketBudget ----------------------------
(* Three clients and one slot: two of them wait, so that the order of the   *)
(* line, a waiter destroyed behind another and a slot freed while the line  *)
(* is empty all happen.                                                     *)
EXTENDS WebSocketBudget

CONSTANTS s1, s2, s3

=================================================================================

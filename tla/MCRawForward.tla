------------------------------ MODULE MCRawForward ------------------------------
(* Two requests and one socket: one holds it while the other waits in the   *)
(* agent's line; each may be streamed, hooked, refreshed or left.           *)
EXTENDS RawForward

CONSTANTS r1, r2

=================================================================================

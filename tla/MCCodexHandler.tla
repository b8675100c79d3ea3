----------------------------- MODULE MCCodexHandler -----------------------------
(* A text and two calls of two deltas each, of which two find room; one of  *)
(* the calls may be announced and ended twice.  The second item of          *)
(* reasoning is larger than the cache.                                      *)
EXTENDS CodexHandler

CONSTANTS text, call, other, earlier, r0, r1, r2

MCThoughts == <<r1, r2>>
MCWeight == (r0 :> 1) @@ (r1 :> 1) @@ (r2 :> 2)

=================================================================================

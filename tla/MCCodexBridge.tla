----------------------------- MODULE MCCodexBridge ------------------------------
(* Two streams and three requests: a stream is used again while a request of*)
(* the other one runs; two upstream messages: one that is delivered while   *)
(* another one waits.                                                       *)
EXTENDS CodexBridge

CONSTANTS a, b

=================================================================================

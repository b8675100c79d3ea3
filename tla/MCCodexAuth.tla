------------------------------ MODULE MCCodexAuth -------------------------------
(* Two callers, so that one joins the cycle of the other, and enough grants *)
(* for one refresh on each side of a login of the CLI.                      *)
EXTENDS CodexAuth

CONSTANTS c1, c2

=================================================================================

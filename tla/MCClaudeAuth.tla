------------------------------ MODULE MCClaudeAuth ------------------------------
(* Two callers, so that one joins the refresh of the other, and grants for  *)
(* the relay as well as for Claude Code.                                    *)
EXTENDS ClaudeAuth, TLC

CONSTANTS c1, c2

Symmetry == Permutations(Callers)

=================================================================================

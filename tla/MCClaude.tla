-------------------------------- MODULE MCClaude --------------------------------
(* A Codex client answered by Claude: the turns and the translation of their  *)
(* streams, which share no state, side by side.  A behaviour moves one of the *)
(* two, since what the other does meanwhile changes nothing for it.           *)
(*                                                                            *)
(* Two turns, so that one continues or repeats the other while it may still   *)
(* run, and a cache that holds no more than three entries: the second turn    *)
(* and the markers evict what the first one left.  Three blocks: a text, a    *)
(* tool call and a text behind it, with or without thinking; two call ids, so *)
(* that a message may repeat one.                                             *)
EXTENDS ClaudeTurns, ClaudeStream, TLC

CONSTANTS opus, sonnet, call1, call2

Symmetry == Permutations(Models)

NoTurnYet == vars = <<EmptyCache, [r \in Turns |-> NoTurn], 0, FALSE>>
NoEventYet == phase = "awaiting_start"

SideBySide ==
  \/ NoEventYet /\ Next /\ UNCHANGED streamVars
  \/ NoTurnYet /\ StreamNext /\ UNCHANGED vars

ClaudeInit == Init /\ StreamInit

ClaudeSpec == ClaudeInit /\ [][SideBySide]_<<vars, streamVars>>

=================================================================================

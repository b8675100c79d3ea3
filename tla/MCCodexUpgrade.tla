----------------------------- MODULE MCCodexUpgrade -----------------------------
(* Two native sockets, one of them refreshable, and one raw one compete for *)
(* one slot, or for two: the line, the refresh and the raw handover all     *)
(* happen, and a shutdown or a teardown can fall between any two callbacks. *)
EXTENDS CodexUpgrade

CONSTANTS s1, s2, s3

=================================================================================

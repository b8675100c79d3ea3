------------------------------ MODULE BoundedSlots ------------------------------
(***************************************************************************)
(* What a bound on upgraded sockets promises, without saying how: clients  *)
(* line up, at most Limit of them are served at a time, the longest        *)
(* waiting one is served next, each client is served at most once, and a   *)
(* shutdown empties the house for good.                                    *)
(***************************************************************************)
EXTENDS FiniteSets, Sequences, Naturals, SequencesExt

CONSTANTS
  Clients,  (* everybody who may ever ask for a slot                        *)
  Limit     (* how many may be served at a time                             *)

VARIABLES
  line,     (* the clients waiting for a slot, longest waiting first        *)
  served,   (* the clients holding a slot                                   *)
  joined,   (* the clients that have ever stood in the line                 *)
  shut      (* TRUE once the house is closed                                *)

vars == <<line, served, joined, shut>>

Init ==
  /\ line = <<>>
  /\ served = {}
  /\ joined = {}
  /\ shut = FALSE

Join(c) ==
  /\ ~shut
  /\ c \notin joined
  /\ line' = Append(line, c)
  /\ joined' = joined \cup {c}
  /\ UNCHANGED <<served, shut>>

Admit ==
  /\ line # <<>>
  /\ Cardinality(served) < Limit
  /\ served' = served \cup {Head(line)}
  /\ line' = Tail(line)
  /\ UNCHANGED <<joined, shut>>

(* The client in place i gives up waiting; those behind it move up.         *)
LeaveLine(i) ==
  /\ line' = RemoveAt(line, i)
  /\ UNCHANGED <<served, joined, shut>>

LeaveSlot(c) ==
  /\ served' = served \ {c}
  /\ UNCHANGED <<line, joined, shut>>

Shutdown ==
  /\ shut' = TRUE
  /\ line' = <<>>
  /\ served' = {}
  /\ UNCHANGED joined

Next ==
  \/ \E c \in Clients : Join(c)
  \/ Admit
  \/ \E i \in DOMAIN line : LeaveLine(i)
  \/ \E c \in served : LeaveSlot(c)
  \/ Shutdown

Spec == Init /\ [][Next]_vars

=================================================================================

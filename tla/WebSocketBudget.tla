---------------------------- MODULE WebSocketBudget ----------------------------
(***************************************************************************)
(* The bound on upgraded sockets, src/src/websocket-budget.ts.             *)
(*                                                                         *)
(* Node runs one callback to completion.  A call of run(), the 'close'     *)
(* listener of a socket and close() are one step each, except that the     *)
(* loop of drain(), which runs a caller's start() in every iteration, is   *)
(* one step per iteration: while `draining` holds, nothing else happens.   *)
(* A destroyed socket emits 'close' in a later turn, which is why          *)
(* "destroyed" and "gone" are two states.                                  *)
(***************************************************************************)
EXTENDS FiniteSets, Naturals, Sequences, SequencesExt

CONSTANTS
  Sockets,  (* the client sockets Node may hand to the upgrade handler      *)
  Limit     (* codexIngress.maxUpstreamSockets                              *)

ASSUME LimitAssumption == Limit \in Nat \ {0}

VARIABLES
  active,   (* sockets that hold a slot                                     *)
  waiting,  (* the insertion-ordered Map of the sockets without one         *)
  closed,   (* close() has run                                              *)
  draining, (* the loop of drain() is running                               *)
  sock,     (* the state of each socket                                     *)
  phase     (* how far each socket's calls of run() have come               *)

vars == <<active, waiting, closed, draining, sock, phase>>

SockState == {"open", "destroyed", "gone"}

(* "refused": run() turned the socket away.  "started": start() of the     *)
(* first run() was called.  "reentered": that callback has called run()    *)
(* again for its own socket, which is what CodexWebSockets does when it    *)
(* hands the socket to the raw passthrough.                                *)
PhaseState == {"new", "refused", "queued", "started", "reentered"}

Waiting == ToSet(waiting)

(* A Map holds a key once.                                                 *)
Distinct(q) == \A i, j \in DOMAIN q : q[i] = q[j] => i = j

(* Map.delete: the line without s, the order of the others kept.           *)
Without(q, s) ==
  IF s \in ToSet(q) THEN RemoveAt(q, CHOOSE i \in DOMAIN q : q[i] = s) ELSE q

(* destroy() on every socket of S.                                         *)
Destroy(S) == [s \in Sockets |-> IF s \in S /\ sock[s] = "open" THEN "destroyed" ELSE sock[s]]

Init ==
  /\ active = {}
  /\ waiting = <<>>
  /\ closed = FALSE
  /\ draining = FALSE
  /\ sock = [s \in Sockets |-> "open"]
  /\ phase = [s \in Sockets |-> "new"]

(***************************************************************************)
(* run(socket, start)                                                      *)
(***************************************************************************)
(* The first call comes with the upgrade, the second from inside start().  *)
MayRun(s) == ~draining /\ phase[s] \in {"new", "started"}

RunRefused(s) ==
  /\ MayRun(s)
  /\ closed \/ sock[s] # "open"
  /\ sock' = Destroy({s})
  /\ phase' = [phase EXCEPT ![s] = IF @ = "new" THEN "refused" ELSE "reentered"]
  /\ UNCHANGED <<active, waiting, closed, draining>>

RunReentrant(s) ==
  /\ MayRun(s)
  /\ ~closed /\ sock[s] = "open"
  /\ s \in active
  /\ phase' = [phase EXCEPT ![s] = "reentered"]
  /\ UNCHANGED <<active, waiting, closed, draining, sock>>

RunQueued(s) ==
  /\ MayRun(s)
  /\ ~closed /\ sock[s] = "open"
  /\ s \notin active
  /\ waiting' = IF s \in Waiting THEN waiting ELSE Append(waiting, s)
  /\ draining' = TRUE
  /\ phase' = [phase EXCEPT ![s] = "queued"]
  /\ UNCHANGED <<active, closed, sock>>

Run(s) == RunRefused(s) \/ RunReentrant(s) \/ RunQueued(s)

(* MUTANT: drain() admits one socket too many.                             *)
HasRoomForOneMore == Cardinality(active) <= Limit

(***************************************************************************)
(* The iterations of drain()'s loop.                                       *)
(***************************************************************************)
HasRoom == Cardinality(active) < Limit

DrainSkip ==
  /\ draining /\ waiting # <<>> /\ HasRoom
  /\ sock[Head(waiting)] # "open"
  /\ waiting' = Tail(waiting)
  /\ UNCHANGED <<active, closed, draining, sock, phase>>

(* MUTANT: drain() serves the newest waiter first.                         *)
DrainStartNewest ==
  /\ draining /\ waiting # <<>> /\ HasRoom
  /\ sock[Last(waiting)] = "open"
  /\ waiting' = Front(waiting)
  /\ active' = active \cup {Last(waiting)}
  /\ phase' = [phase EXCEPT ![Last(waiting)] = "started"]
  /\ sock' \in {sock, Destroy({Last(waiting)})}
  /\ UNCHANGED <<closed, draining>>

(* start() may itself destroy the socket, for instance to refuse it.       *)
DrainStart ==
  /\ draining /\ waiting # <<>> /\ HasRoom
  /\ sock[Head(waiting)] = "open"
  /\ waiting' = Tail(waiting)
  /\ active' = active \cup {Head(waiting)}
  /\ phase' = [phase EXCEPT ![Head(waiting)] = "started"]
  /\ sock' \in {sock, Destroy({Head(waiting)})}
  /\ UNCHANGED <<closed, draining>>

DrainStop ==
  /\ draining
  /\ waiting = <<>> \/ ~HasRoom
  /\ draining' = FALSE
  /\ UNCHANGED <<active, waiting, closed, sock, phase>>

Drain == DrainSkip \/ DrainStart \/ DrainStop

(***************************************************************************)
(* The socket is torn down, by its peer or by its handler, and later emits *)
(* 'close'.  Only a socket that run() accepted has the listener.           *)
(***************************************************************************)
SocketDestroyed(s) ==
  /\ ~draining
  /\ sock[s] = "open"
  /\ sock' = Destroy({s})
  /\ UNCHANGED <<active, waiting, closed, draining, phase>>

(* MUTANT: the listener forgets the waiting line.                          *)
SocketCloseKeepsPlace(s) ==
  /\ ~draining
  /\ sock[s] = "destroyed"
  /\ sock' = [sock EXCEPT ![s] = "gone"]
  /\ IF phase[s] \in {"queued", "started", "reentered"}
     THEN active' = active \ {s} /\ draining' = ~closed
     ELSE UNCHANGED <<active, draining>>
  /\ UNCHANGED <<waiting, closed, phase>>

(* MUTANT: the listener frees the slot but does not drain.                 *)
SocketCloseWithoutDrain(s) ==
  /\ ~draining
  /\ sock[s] = "destroyed"
  /\ sock' = [sock EXCEPT ![s] = "gone"]
  /\ IF phase[s] \in {"queued", "started", "reentered"}
     THEN active' = active \ {s} /\ waiting' = Without(waiting, s)
     ELSE UNCHANGED <<active, waiting>>
  /\ UNCHANGED <<closed, draining, phase>>

SocketClose(s) ==
  /\ ~draining
  /\ sock[s] = "destroyed"
  /\ sock' = [sock EXCEPT ![s] = "gone"]
  /\ IF phase[s] \in {"queued", "started", "reentered"}
     THEN /\ active' = active \ {s}
          /\ waiting' = Without(waiting, s)
          /\ draining' = ~closed
     ELSE UNCHANGED <<active, waiting, draining>>
  /\ UNCHANGED <<closed, phase>>

Close ==
  /\ ~draining
  /\ ~closed
  /\ closed' = TRUE
  /\ sock' = Destroy(active \cup Waiting)
  /\ active' = {}
  /\ waiting' = <<>>
  /\ UNCHANGED <<draining, phase>>

Next ==
  \/ \E s \in Sockets : Run(s) \/ SocketDestroyed(s) \/ SocketClose(s)
  \/ Drain
  \/ Close

(* Callbacks that are due run: the loop goes on, and a destroyed socket     *)
(* emits 'close'.  Nothing forces a client to leave or the relay to stop.   *)
Fairness == WF_vars(Drain) /\ \A s \in Sockets : WF_vars(SocketClose(s))

Spec == Init /\ [][Next]_vars /\ Fairness

-----------------------------------------------------------------------------
TypeOK ==
  /\ active \subseteq Sockets
  /\ waiting \in Seq(Sockets)
  /\ closed \in BOOLEAN
  /\ draining \in BOOLEAN
  /\ sock \in [Sockets -> SockState]
  /\ phase \in [Sockets -> PhaseState]

(* The bound itself: never more than Limit sockets hold a slot, whatever    *)
(* the interleaving of upgrades, teardowns and late 'close' events.         *)
BoundHolds == Cardinality(active) <= Limit

(* A slot or a place in the line is never held by a socket that has already *)
(* emitted 'close': nothing would ever take it back.                        *)
NoLeakedSlot == \A s \in active \cup Waiting : sock[s] # "gone"

(* A socket is in at most one of the two collections, at most once: drain() *)
(* cannot start it twice.                                                   *)
OnePlace ==
  /\ active \cap Waiting = {}
  /\ Distinct(waiting)

(* A socket that was started and still lives holds its slot until close().  *)
(* The reentrant run() of the raw passthrough relies on it: without a slot  *)
(* the socket would line up behind itself.                                  *)
StartedHoldsSlot ==
  \A s \in Sockets :
    (phase[s] \in {"started", "reentered"} /\ sock[s] = "open" /\ ~closed) => s \in active

(* Between two callbacks nobody waits while a slot is free: every path that *)
(* frees a slot drains the line.                                            *)
NoIdleSlot == (~draining /\ waiting # <<>>) => ~HasRoom

(* After close() no socket that was let in is left open.                    *)
ClosedMeansDestroyed ==
  closed => /\ active = {} /\ waiting = <<>>
            /\ \A s \in Sockets : phase[s] # "new" => sock[s] # "open"

(* If every holder of a slot eventually leaves, nobody waits forever.       *)
WaitersServed ==
  (\A t \in Sockets : (t \in active) ~> (t \notin active))
    => \A s \in Sockets : (s \in Waiting) ~> (s \notin Waiting)

(* The budget implements the abstract line with slots.  A waiting socket    *)
(* that drain() finds destroyed is one that leaves the line.                *)
Slots == INSTANCE BoundedSlots WITH
  Clients <- Sockets, line <- waiting, served <- active, shut <- closed,
  joined <- {s \in Sockets : phase[s] \in {"queued", "started", "reentered"}}
ImplementsSlots == Slots!Spec

=================================================================================

------------------------------ MODULE CodexUpgrade ------------------------------
(***************************************************************************)
(* The life of a WebSocket upgrade on the native Codex ingress: the line   *)
(* for a slot (WebSocketBudget), the credential lookup, the upstream       *)
(* handshake with its single 401 refresh, the bridge or the raw tunnel,    *)
(* and the shutdown of the gateway.  Source: src/src/codex-ws.ts (upgrade, *)
(* upgradeReady, close), src/src/openai-passthrough.ts (upgrade, close,    *)
(* rejectCodexUpgrade) and src/src/codex-gateway.ts (close).               *)
(*                                                                         *)
(* A step is one callback.  The callbacks of one socket interleave with    *)
(* those of the others and with the shutdown in every order Node allows.   *)
(***************************************************************************)
EXTENDS FiniteSets, Naturals, Sequences

CONSTANTS
  Sockets,      (* the client sockets                                       *)
  Limit,        (* codexIngress.maxUpstreamSockets                          *)
  Raw,          (* the sockets upgradeReady() hands to the raw passthrough: *)
                (* Claude is disabled or the path is not /responses         *)
  Refreshable   (* the sockets for which nativeAuth.canRefresh() holds      *)

ASSUME KindAssumption == Raw \subseteq Sockets /\ Refreshable \subseteq Sockets
ASSUME SlotAssumption == Limit \in Nat \ {0}

VARIABLES
  active, waiting, closed, draining, sock, phase,  (* of WebSocketBudget    *)
  stage,        (* what each upgrade is doing                               *)
  up,           (* the upstream connection of each upgrade                  *)
  stale,        (* the upstream connection its 401 refresh gave up          *)
  pending,      (* CodexWebSockets.pendingUpgrades                          *)
  clients,      (* wss.clients                                              *)
  tunnels,      (* the client sockets in the passthrough's `sockets`        *)
  answers       (* how many responses were written on each open socket      *)

Budget == INSTANCE WebSocketBudget

budgetVars == <<active, waiting, closed, draining, sock, phase>>
registries == <<pending, clients, tunnels>>
vars == <<active, waiting, closed, draining, sock, phase,
          stage, up, stale, pending, clients, tunnels, answers>>

Stage == {"new", "turnedAway", "line", "auth", "dial", "refresh", "rejected", "relayed",
          "bridged", "rawDial", "rawRelayed", "rawRejected", "tunnel", "dropped"}
Connection == {"none", "connecting", "open", "closing", "closed"}
Live == {"connecting", "open"}

Open(s) == sock[s] = "open"
Closing(c) == IF c \in Live THEN "closing" ELSE c
Becomes(f, s, v) == f' = [f EXCEPT ![s] = v]

(* One more response on the wire; a destroyed socket swallows it.          *)
Answer(s) == answers' = [answers EXCEPT ![s] = IF Open(s) THEN @ + 1 ELSE @]

Init ==
  /\ Budget!Init
  /\ stage = [s \in Sockets |-> "new"]
  /\ up = [s \in Sockets |-> "none"]
  /\ stale = [s \in Sockets |-> "none"]
  /\ pending = {} /\ clients = {} /\ tunnels = {}
  /\ answers = [s \in Sockets |-> 0]

(***************************************************************************)
(* The line for a slot.                                                    *)
(***************************************************************************)
(* Not a GET with "upgrade: websocket": answered 400 outside the budget.   *)
TurnAway(s) ==
  /\ ~draining /\ stage[s] = "new"
  /\ Becomes(stage, s, "turnedAway")
  /\ Answer(s)
  /\ UNCHANGED <<budgetVars, up, stale, registries>>

Upgrade(s) ==
  /\ stage[s] = "new"
  /\ Budget!Run(s)
  /\ Becomes(stage, s, IF phase'[s] = "refused" THEN "dropped" ELSE "line")
  /\ UNCHANGED <<up, stale, registries, answers>>

(* start() registers the socket and asks for the credentials.              *)
Admitted ==
  /\ Budget!DrainStart
  /\ sock' = sock
  /\ Becomes(stage, Head(waiting), "auth")
  /\ pending' = pending \cup {Head(waiting)}
  /\ UNCHANGED <<up, stale, clients, tunnels, answers>>

DrainGoesOn ==
  /\ Budget!DrainSkip \/ Budget!DrainStop
  /\ UNCHANGED <<stage, up, stale, registries, answers>>

Drain == Admitted \/ DrainGoesOn

(***************************************************************************)
(* nativeAuth.headers() settles.  The socket and the gateway are looked at *)
(* again, because both may have closed in the meantime.                    *)
(***************************************************************************)
Awaiting(s) == ~draining /\ stage[s] \in {"auth", "refresh"}
(* MUTANT: nothing is looked at again after the await.                     *)
StillWantedUnchecked(s) == s \in Sockets

StillWanted(s) == ~closed /\ Open(s)

HeadersTooLate(s) ==
  /\ Awaiting(s) /\ ~StillWanted(s)
  /\ Becomes(stage, s, "dropped")
  /\ UNCHANGED <<budgetVars, up, stale, registries, answers>>

(* upgradeReady() with the native WebSocket client.                        *)
Dial(s) ==
  /\ Awaiting(s) /\ StillWanted(s) /\ s \notin Raw
  /\ Becomes(stage, s, "dial")
  /\ Becomes(up, s, "connecting")
  /\ UNCHANGED <<budgetVars, stale, registries, answers>>

(* upgradeReady() with the raw passthrough, which calls run() again.       *)
DialRaw(s) ==
  /\ Awaiting(s) /\ StillWanted(s) /\ s \in Raw
  /\ Budget!Run(s)
  /\ Becomes(stage, s, "rawDial")
  /\ Becomes(up, s, "connecting")
  /\ pending' = pending \ {s}
  /\ tunnels' = tunnels \cup {s}
  /\ UNCHANGED <<stale, clients, answers>>

(* No usable credentials, or the WebSocket constructor throws.             *)
Reject(s) ==
  /\ Awaiting(s)
  /\ Becomes(stage, s, "rejected")
  /\ Answer(s)
  /\ UNCHANGED <<budgetVars, up, stale, registries>>

HeadersSettle(s) == HeadersTooLate(s) \/ Dial(s) \/ DialRaw(s) \/ Reject(s)

(***************************************************************************)
(* The upstream handshake.                                                 *)
(***************************************************************************)
Dialing(s) == ~draining /\ stage[s] = "dial" /\ up[s] = "connecting"

(* A first 401 with refreshable credentials: the connection is given up    *)
(* and nothing but the registration in pendingUpgrades follows the socket. *)
Unauthorized(s) ==
  /\ Dialing(s) /\ stale[s] = "none" /\ s \in Refreshable
  /\ Becomes(stage, s, "refresh")
  /\ Becomes(up, s, "none")
  /\ Becomes(stale, s, "closing")
  /\ UNCHANGED <<budgetVars, registries, answers>>

(* Any other HTTP response is relayed; `accepted` keeps error from adding  *)
(* a second one.  Nothing follows an upstream that breaks before the end   *)
(* of that response: RelayEnds may never come.                             *)
Unexpected(s) ==
  /\ Dialing(s)
  /\ Becomes(stage, s, "relayed")
  /\ Answer(s)
  /\ UNCHANGED <<budgetVars, up, stale, registries>>

RelayEnds(s) ==
  /\ ~draining /\ stage[s] \in {"relayed", "rawRelayed"} /\ up[s] = "connecting"
  /\ Becomes(up, s, "closing")
  /\ UNCHANGED <<budgetVars, stage, stale, registries, answers>>

UpstreamError(s) ==
  /\ Dialing(s)
  /\ Becomes(stage, s, "rejected")
  /\ Answer(s)
  /\ Becomes(up, s, "closing")
  /\ UNCHANGED <<budgetVars, stale, registries>>

(* handleUpgrade() accepts the client and hands both ends to the bridge,   *)
(* or refuses the client's own handshake.                                  *)
UpstreamOpen(s) ==
  /\ Dialing(s)
  /\ \/ /\ ~Open(s)
        /\ Becomes(up, s, "closing")
        /\ UNCHANGED <<stage, registries, answers>>
     \/ /\ Open(s)
        /\ Becomes(up, s, "open")
        /\ Becomes(stage, s, "bridged")
        /\ pending' = pending \ {s}
        /\ clients' = clients \cup {s}
        /\ Answer(s)
        /\ UNCHANGED tunnels
     \/ /\ Open(s)
        /\ Becomes(up, s, "open")
        /\ Becomes(stage, s, "rejected")
        /\ Answer(s)
        /\ UNCHANGED registries
  /\ UNCHANGED <<budgetVars, stale>>

(* MUTANT: the relayed HTTP rejection does not set `accepted`.             *)
UpstreamClosedAnswers(s) ==
  /\ ~draining
  /\ \/ up[s] = "closing"
     \/ up[s] = "open" /\ stage[s] \in {"bridged", "rejected"}
  /\ Becomes(up, s, "closed")
  /\ IF stage[s] \in {"dial", "relayed"}
     THEN Becomes(stage, s, "rejected") /\ Answer(s)
     ELSE UNCHANGED <<stage, answers>>
  /\ UNCHANGED <<budgetVars, stale, registries>>

(* The upstream connection is gone.  Terminating it while it connects      *)
(* emits 'error' first, whose handler rejects a socket not yet answered.   *)
UpstreamClosed(s) ==
  /\ ~draining
  /\ \/ up[s] = "closing"
     \/ up[s] = "open" /\ stage[s] \in {"bridged", "rejected"}
  /\ Becomes(up, s, "closed")
  /\ IF stage[s] = "dial"
     THEN Becomes(stage, s, "rejected") /\ Answer(s)
     ELSE UNCHANGED <<stage, answers>>
  /\ UNCHANGED <<budgetVars, stale, registries>>

StaleClosed(s) ==
  /\ ~draining /\ stale[s] = "closing"
  /\ Becomes(stale, s, "closed")
  /\ UNCHANGED <<budgetVars, stage, up, registries, answers>>

(***************************************************************************)
(* The raw tunnel.  `settled` is that the stage is no longer "rawDial".    *)
(***************************************************************************)
DialingRaw(s) == ~draining /\ stage[s] = "rawDial" /\ up[s] = "connecting"

RawUpgraded(s) ==
  /\ DialingRaw(s)
  /\ IF Open(s)
     THEN /\ Becomes(up, s, "open") /\ Becomes(stage, s, "tunnel")
          /\ Answer(s)
     ELSE Becomes(up, s, "closing") /\ UNCHANGED <<stage, answers>>
  /\ UNCHANGED <<budgetVars, stale, registries>>

RawUnexpected(s) ==
  /\ DialingRaw(s)
  /\ IF Open(s)
     THEN Becomes(stage, s, "rawRelayed") /\ Answer(s) /\ UNCHANGED up
     ELSE Becomes(up, s, "closing") /\ UNCHANGED <<stage, answers>>
  /\ UNCHANGED <<budgetVars, stale, registries>>

(* fail(): the connect timeout or an error before any response.            *)
RawFail(s) ==
  /\ DialingRaw(s)
  /\ Becomes(up, s, "closing")
  /\ IF Open(s)
     THEN Becomes(stage, s, "rawRejected") /\ Answer(s)
     ELSE UNCHANGED <<stage, answers>>
  /\ UNCHANGED <<budgetVars, stale, registries>>

(* Only the passthrough follows a connection that breaks while its         *)
(* response is relayed or while it is a tunnel: it destroys the client.    *)
RawLost(s) ==
  /\ ~draining
  /\ \/ stage[s] = "tunnel" /\ up[s] = "open"
     \/ stage[s] = "rawRelayed" /\ up[s] = "connecting"
  /\ Becomes(up, s, "closed")
  /\ sock' = Budget!Destroy({s})
  /\ UNCHANGED <<active, waiting, closed, draining, phase, stage, stale, registries, answers>>

(***************************************************************************)
(* The end of a client socket.                                             *)
(***************************************************************************)
SocketDestroyed(s) ==
  /\ Budget!SocketDestroyed(s)
  /\ UNCHANGED <<stage, up, stale, registries, answers>>

(* MUTANT: there is no earlyClose listener.                                *)
SocketCloseKeepsUpstream(s) ==
  /\ Budget!SocketClose(s)
  /\ pending' = pending \ {s}
  /\ tunnels' = tunnels \ {s}
  /\ UNCHANGED <<up, stage, stale, clients, answers>>

(* All 'close' listeners of the socket: the budget's, the one of           *)
(* pendingUpgrades, earlyClose while it is attached and the passthrough's. *)
SocketClose(s) ==
  /\ Budget!SocketClose(s)
  /\ pending' = pending \ {s}
  /\ tunnels' = tunnels \ {s}
  /\ Becomes(up, s, IF stage[s] = "bridged" THEN up[s] ELSE Closing(up[s]))
  /\ UNCHANGED <<stage, stale, clients, answers>>

(* The bridge listens to the WebSocket's own 'close', which follows.       *)
ClientClose(s) ==
  /\ ~draining /\ s \in clients /\ sock[s] = "gone"
  /\ clients' = clients \ {s}
  /\ Becomes(up, s, Closing(up[s]))
  /\ UNCHANGED <<budgetVars, stage, stale, pending, tunnels, answers>>

(* MUTANT: the shutdown does not reach the line of the budget.             *)
CloseForgetsTheLine ==
  /\ ~draining /\ ~closed
  /\ closed' = TRUE
  /\ sock' = Budget!Destroy(pending \cup clients \cup tunnels)
  /\ active' = {}
  /\ waiting' = <<>>
  /\ up' = [s \in Sockets |-> Closing(up[s])]
  /\ UNCHANGED <<draining, phase, stage, stale, registries, answers>>

(* CodexGateway.close(): CodexWebSockets.close(), then the passthrough's,  *)
(* which closes the budget first.                                          *)
Close ==
  /\ ~draining /\ ~closed
  /\ closed' = TRUE
  /\ sock' = Budget!Destroy(pending \cup clients \cup tunnels \cup active \cup Budget!Waiting)
  /\ active' = {}
  /\ waiting' = <<>>
  /\ up' = [s \in Sockets |-> Closing(up[s])]
  /\ UNCHANGED <<draining, phase, stage, stale, registries, answers>>

-----------------------------------------------------------------------------
Handshake(s) ==
  \/ Unauthorized(s) \/ Unexpected(s) \/ RelayEnds(s) \/ UpstreamError(s) \/ UpstreamOpen(s)
  \/ RawUpgraded(s) \/ RawUnexpected(s) \/ RawFail(s) \/ RawLost(s)

Ending(s) == UpstreamClosed(s) \/ StaleClosed(s) \/ SocketClose(s) \/ ClientClose(s)

Next ==
  \/ \E s \in Sockets :
       TurnAway(s) \/ Upgrade(s) \/ HeadersSettle(s) \/ Handshake(s) \/ SocketDestroyed(s) \/ Ending(s)
  \/ Drain
  \/ Close

(* Callbacks that are due run: the loop of drain(), a settled promise, the  *)
(* 'close' of what was destroyed.  Neither peer is obliged to do anything.  *)
Fairness ==
  /\ WF_vars(Drain)
  /\ \A s \in Sockets :
       /\ WF_vars(HeadersSettle(s))
       /\ WF_vars(SocketClose(s))
       /\ WF_vars(ClientClose(s))
       /\ WF_vars(up[s] = "closing" /\ UpstreamClosed(s))
       /\ WF_vars(StaleClosed(s))

Spec == Init /\ [][Next]_vars /\ Fairness

-----------------------------------------------------------------------------
(* No client reads two responses: once the HTTP rejection, the handshake or *)
(* a local error owns the socket, nothing else is written as a response.    *)
OneAnswer == \A s \in Sockets : answers[s] <= 1

(* An upstream connection never outlives its client unnoticed: when the     *)
(* client's 'close' has been delivered the connection is being closed, or   *)
(* the bridge is still to hear of it.                                       *)
NoOrphanUpstream ==
  \A s \in Sockets : (up[s] \in Live /\ sock[s] = "gone") => s \in clients

(* Every upgrade in flight is in exactly one collection that close() walks, *)
(* also while it waits for credentials, before or after a 401.              *)
InOneRegistry ==
  \A s \in Sockets :
    (phase[s] \in {"started", "reentered"} /\ Open(s) /\ ~closed)
      => Cardinality({i \in 1 .. 3 : s \in registries[i]}) = 1

(* Nothing an upgrade has opened is out of reach of the handlers that are to *)
(* close it: neither its upstream connection nor the upgrade itself.         *)
NothingOutOfReach == NoOrphanUpstream /\ InOneRegistry

(* After the shutdown everything comes to rest: every admitted socket has   *)
(* emitted 'close' and every upstream connection is closed.                 *)
ShutdownQuiesces ==
  closed ~> \A s \in Sockets :
              /\ phase[s] # "new" => sock[s] = "gone"
              /\ up[s] \in {"none", "closed"} /\ stale[s] \in {"none", "closed"}
              /\ stage[s] \notin {"auth", "refresh"}

(* The upgrades use the budget the way it is meant to be used: every step   *)
(* is one of the budget's or leaves it alone, a shutdown that walks the     *)
(* registries destroys what a shutdown of the budget destroys.              *)
BudgetNext == [][Budget!Next]_budgetVars
ImplementsBudget == Budget!Init /\ BudgetNext

(* README.md:456: maxUpstreamSockets "also bounds the total pending/active  *)
(* upstream WebSocket connections until they close".  Not so: a slot is     *)
(* free when the client has closed, its upstream connection may be closing. *)
UpstreamsBounded ==
  Cardinality({s \in Sockets : up[s] \in Live \cup {"closing"}}) <= Limit

=================================================================================

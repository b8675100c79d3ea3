------------------------------- MODULE CodexBridge -------------------------------
(***************************************************************************)
(* One bridged WebSocket connection, src/src/codex-ws.ts bridge(): the     *)
(* client multiplexes OpenAI requests, which go to the upstream WebSocket, *)
(* and Claude requests, each answered by a generator of its own that a     *)
(* cancel, the end of the client or the shutdown of the gateway aborts.    *)
(*                                                                         *)
(* A step is one callback: a message or a 'close' of one of the two        *)
(* sockets, one turn of the loop over a generator's events, one turn of    *)
(* the promise chain that orders the upstream's messages.                  *)
(***************************************************************************)
EXTENDS FiniteSets, Naturals, Sequences, Functions

CONSTANTS
  Streams,      (* the stream ids a client uses, "default" among them       *)
  Requests,     (* the Claude requests it may make, 1 .. Cardinality        *)
  MaxUpstream   (* BOUND: messages the upstream sends                       *)

ASSUME BoundAssumption == Requests \subseteq Nat /\ MaxUpstream \in Nat

VARIABLES
  client,       (* the client's WebSocket: "closed" once 'close' was heard  *)
  upstream,     (* the upstream WebSocket                                   *)
  shutdown,     (* CodexWebSockets.closed                                   *)
  forwardedOpenai,
  names,        (* `active`: stream id or response id -> request            *)
  state,        (* the generator of each request                            *)
  stream,       (* the stream id each request came with                     *)
  aborted,      (* its AbortController's signal                             *)
  controllers,  (* the gateway's set of controllers                         *)
  toOpenai,     (* HISTORY: what was OpenAI's, sent or refused locally      *)
  received,     (* HISTORY: upstream messages received so far               *)
  responseQueue,(* upstream messages waiting in the promise chain           *)
  delivered,    (* HISTORY: upstream messages the chain is through with     *)
  paused        (* upstream.pause() is in force                             *)

claudeVars == <<names, state, stream, aborted, controllers>>
queueVars == <<received, responseQueue, delivered, paused>>
bridgeVars == <<client, upstream, shutdown, forwardedOpenai, claudeVars, toOpenai, queueVars>>

(* The response id of a request, a fresh resp_subswitch_<uuid>.            *)
ResponseId(n) == <<"resp_subswitch", n>>
Names == Streams \cup {ResponseId(n) : n \in Requests}
Running == {n \in Requests : state[n] \in {"started", "announced"}}

(* No client can have chosen a stream id that is the uuid of a response yet *)
(* to be made.                                                              *)
ASSUME FreshAssumption == Streams \cap {ResponseId(n) : n \in Requests} = {}

BridgeInit ==
  /\ client = "open" /\ upstream = "open" /\ shutdown = FALSE
  /\ forwardedOpenai = FALSE
  /\ names = <<>>
  /\ state = [n \in Requests |-> "unused"]
  /\ stream = [n \in Requests |-> "none"]
  /\ aborted = [n \in Requests |-> FALSE]
  /\ controllers = {}
  /\ toOpenai = {}
  /\ received = 0 /\ responseQueue = <<>> /\ delivered = <<>> /\ paused = FALSE

Abort(ns) == aborted' = [n \in Requests |-> aborted[n] \/ n \in ns]

(* MUTANT: messages are handled until the socket is gone.                  *)
ListeningTooLong == client # "closed"

(***************************************************************************)
(* client.on("message")                                                    *)
(***************************************************************************)
Listening == ~shutdown /\ client = "open"

(* What is not for Claude goes upstream; without an upstream the client is *)
(* told to reconnect.  A request that parentRequest() refuses, because it  *)
(* continues a Claude response, has set forwardedOpenai as well.           *)
ForwardParent(what) ==
  /\ IF upstream = "open"
     THEN /\ forwardedOpenai' = TRUE
          /\ toOpenai' = toOpenai \cup {what}
          /\ UNCHANGED client
     ELSE client' = "closing" /\ UNCHANGED <<forwardedOpenai, toOpenai>>
  /\ UNCHANGED <<upstream, shutdown, claudeVars, queueVars>>

Cancel(target) ==
  /\ Listening
  /\ target \in DOMAIN names
  /\ Abort({names[target]})
  /\ UNCHANGED <<client, upstream, shutdown, forwardedOpenai, names, state, stream, controllers,
                 toOpenai, queueVars>>

(* Naming a response of ours that is over: nothing happens.  Naming a      *)
(* stream without a generation: the cancel has no model and is OpenAI's.   *)
CancelUnknown(target) ==
  /\ Listening
  /\ target \in Streams \ DOMAIN names
  /\ ForwardParent(<<"cancel", target>>)

CreateParent ==
  /\ Listening
  /\ \E what \in {"create", "refused"} : ForwardParent(<<what>>)

(* A Claude request on a stream that is not busy; a busy one gets the      *)
(* failure concurrent_claude_stream_id, which changes nothing.             *)
CreateClaude(n, s) ==
  /\ Listening
  /\ state[n] = "unused" /\ \A m \in Requests : m < n => state[m] # "unused"
  /\ s \notin DOMAIN names
  /\ names' = [x \in DOMAIN names \cup {s} |-> IF x = s THEN n ELSE names[x]]
  /\ controllers' = controllers \cup {n}
  /\ state' = [state EXCEPT ![n] = "started"]
  /\ stream' = [stream EXCEPT ![n] = s]
  /\ UNCHANGED <<client, upstream, shutdown, forwardedOpenai, aborted, toOpenai, queueVars>>

(***************************************************************************)
(* The loop over the events of a generator.  An event that was on its way  *)
(* when the signal fired is still processed.                               *)
(***************************************************************************)
Announce(n) ==
  /\ state[n] = "started"
  /\ state' = [state EXCEPT ![n] = "announced"]
  /\ names' = [x \in DOMAIN names \cup {ResponseId(n)} |-> IF x = ResponseId(n) THEN n ELSE names[x]]
  /\ UNCHANGED <<client, upstream, shutdown, forwardedOpenai, stream, aborted, controllers,
                 toOpenai, queueVars>>

(* MUTANT: only the stream id is given back.                               *)
FinishKeepsResponseId(n) ==
  /\ n \in Running
  /\ names' = Restrict(names, DOMAIN names \ {stream[n]})
  /\ controllers' = controllers \ {n}
  /\ state' = [state EXCEPT ![n] = "ended"]
  /\ UNCHANGED <<client, upstream, shutdown, forwardedOpenai, stream, aborted, toOpenai, queueVars>>

(* The generator is done, fails, or notices its signal.                    *)
Finish(n) ==
  /\ n \in Running
  /\ names' = Restrict(names, {x \in DOMAIN names : names[x] # n})
  /\ controllers' = controllers \ {n}
  /\ state' = [state EXCEPT ![n] = "ended"]
  /\ UNCHANGED <<client, upstream, shutdown, forwardedOpenai, stream, aborted, toOpenai, queueVars>>

(***************************************************************************)
(* upstream.on("message") and the chain that orders the answers.           *)
(***************************************************************************)
(* ws may emit several messages of one read although pause() was called.   *)
UpstreamMessage ==
  /\ upstream = "open" /\ received < MaxUpstream
  /\ ~paused \/ responseQueue # <<>>
  /\ received' = received + 1
  /\ responseQueue' = Append(responseQueue, received')
  /\ paused' = TRUE
  /\ UNCHANGED <<client, upstream, shutdown, forwardedOpenai, claudeVars, toOpenai, delivered>>

(* MUTANT: the answers are not chained.                                    *)
DeliverNewest ==
  /\ responseQueue # <<>>
  /\ delivered' = Append(delivered, responseQueue[Len(responseQueue)])
  /\ responseQueue' = SubSeq(responseQueue, 1, Len(responseQueue) - 1)
  /\ paused' = (paused /\ ~(responseQueue' = <<>> /\ upstream = "open"))
  /\ UNCHANGED <<client, upstream, shutdown, forwardedOpenai, claudeVars, toOpenai, received>>

Deliver ==
  /\ responseQueue # <<>>
  /\ delivered' = Append(delivered, Head(responseQueue))
  /\ responseQueue' = Tail(responseQueue)
  /\ paused' = (paused /\ ~(responseQueue' = <<>> /\ upstream = "open"))
  /\ UNCHANGED <<client, upstream, shutdown, forwardedOpenai, claudeVars, toOpenai, received>>

(***************************************************************************)
(* The ends of the connection.                                             *)
(***************************************************************************)
ClientLeaves ==
  /\ client = "open"
  /\ client' = "closing"
  /\ UNCHANGED <<upstream, shutdown, forwardedOpenai, claudeVars, toOpenai, queueVars>>

(* MUTANT: the end of the client only ends the upstream.                   *)
ClientClosedWithoutAbort ==
  /\ client = "closing"
  /\ client' = "closed"
  /\ upstream' = "closed"
  /\ UNCHANGED <<shutdown, forwardedOpenai, claudeVars, toOpenai, queueVars>>

ClientClosed ==
  /\ client = "closing"
  /\ client' = "closed"
  /\ Abort({names[x] : x \in DOMAIN names})
  /\ upstream' = "closed"
  /\ UNCHANGED <<shutdown, forwardedOpenai, names, state, stream, controllers, toOpenai, queueVars>>

(* An error or the end of the upstream closes a client that has used it.   *)
UpstreamEnded ==
  /\ upstream = "open"
  /\ upstream' = "closed"
  /\ client' = IF forwardedOpenai /\ client = "open" THEN "closing" ELSE client
  /\ UNCHANGED <<shutdown, forwardedOpenai, claudeVars, toOpenai, queueVars>>

(* CodexGateway.close() aborts its controllers and terminates both ends.   *)
Shutdown ==
  /\ ~shutdown
  /\ shutdown' = TRUE
  /\ Abort(controllers)
  /\ client' = IF client = "open" THEN "closing" ELSE client
  /\ upstream' = "closed"
  /\ UNCHANGED <<forwardedOpenai, names, state, stream, controllers, toOpenai, queueVars>>

BridgeNext ==
  \/ \E s \in Streams : CancelUnknown(s)
  \/ \E x \in Names : Cancel(x)
  \/ CreateParent
  \/ \E n \in Requests : \E s \in Streams : CreateClaude(n, s)
  \/ \E n \in Requests : Announce(n) \/ Finish(n)
  \/ UpstreamMessage \/ Deliver
  \/ ClientLeaves \/ ClientClosed \/ UpstreamEnded \/ Shutdown

(* An aborted generator ends, because everything it awaits listens to its   *)
(* signal; a promise chain goes on; a socket being closed is closed (ws     *)
(* forces it after its close timeout).                                      *)
BridgeFairness ==
  /\ \A n \in Requests : WF_bridgeVars(aborted[n] /\ Finish(n))
  /\ WF_bridgeVars(Deliver)
  /\ WF_bridgeVars(ClientClosed)

BridgeSpec == BridgeInit /\ [][BridgeNext]_bridgeVars /\ BridgeFairness

-----------------------------------------------------------------------------
(* A name never outlives its generation: a late cancel cannot hit a newer   *)
(* one, and a finished stream is free for the next request.                 *)
NamesAreLive == \A x \in DOMAIN names : names[x] \in Running

(* Once the client's end or the shutdown was handled, every generation      *)
(* still running has been told to stop, whatever was started just before.   *)
NobodyRunsUntold ==
  client = "closed" \/ shutdown => \A n \in Running : aborted[n]

(* The upstream's messages reach the client in the order they came.         *)
UpstreamOrder == delivered \o responseQueue = [i \in 1 .. received |-> i]

(* The upstream is never left paused with nothing that would resume it.     *)
NeverPausedForGood == (paused /\ upstream = "open") => responseQueue # <<>>

(* What OpenAI says reaches the client: all of it, in order, and the queue  *)
(* that sees to the order never stops the connection for good.              *)
UpstreamIsRelayed == UpstreamOrder /\ NeverPausedForGood

(* When the client is gone or the gateway shut down every generation ends.  *)
GenerationsEnd == (client = "closed" \/ shutdown) ~> Running = {}

=================================================================================

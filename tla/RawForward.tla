------------------------------- MODULE RawForward -------------------------------
(***************************************************************************)
(* The raw HTTP forwarder, src/src/raw-http-passthrough.ts, with the       *)
(* connect timer of tcp-connect.ts, the upload drain of                    *)
(* provider-transport.ts and the hooks codex-upstream.ts passes in.  One   *)
(* forwarder relays the requests of all clients over the keep-alive agent  *)
(* of its upstream.                                                        *)
(*                                                                         *)
(* An exchange is one call of forward() and its possible retry.  Each      *)
(* handler is an action; what a handler does to its exchange is an         *)
(* operator on the exchange, so that the calls it makes compose as in the  *)
(* code.  Bytes, headers and log records are left out.                     *)
(***************************************************************************)
EXTENDS FiniteSets, Naturals, Sequences, SequencesExt

CONSTANTS
  Requests,   (* the requests clients make                                  *)
  MaxSockets  (* maxUpstreamSockets of the agent                            *)

ASSUME PoolAssumption == MaxSockets \in Nat \ {0}

VARIABLES
  ex,     (* the exchange of each request                                   *)
  queue,  (* the agent's line of requests without a socket                  *)
  closed  (* close() has run                                                *)

forwardVars == <<ex, queue, closed>>

(* up: the ClientRequest.  "sent": connected, no response yet; "answering": *)
(* its response is being read; "half": the response is read and the upload  *)
(* is not; "destroyed" and "cut": destroy() was called before or after the  *)
(* response came and 'close' is due.  res: the client's response; "ended"   *)
(* is flushed to "finished", "gone" has closed without that.  upload: who   *)
(* reads the rest of the client's body.                                     *)
Exchange ==
  [kind      : {"new", "ignored", "complete", "prefix"},
   hooked    : BOOLEAN,                        (* hooks.onResponse          *)
   refresh   : {"none", "able", "asked"},      (* hooks.onUnauthorized      *)
   up        : {"none", "queued", "connecting", "sent", "answering", "half",
                "free", "destroyed", "cut", "gone"},
   res       : {"open", "head", "ended", "finished", "destroyed", "gone"},
   upload    : {"none", "piped", "drain", "done", "cut"},
   settled   : BOOLEAN,                        (* the latch of the attempt  *)
   listening : BOOLEAN,                        (* res.once("close")         *)
   hook      : BOOLEAN,                        (* onResponse() is running   *)
   local     : BOOLEAN,                        (* HISTORY: 502 or 504 of us *)
   heads     : 0 .. 2]                         (* HISTORY: heads written    *)

Fresh ==
  [kind |-> "new", hooked |-> FALSE, refresh |-> "none", up |-> "none", res |-> "open",
   upload |-> "none", settled |-> FALSE, listening |-> FALSE, hook |-> FALSE,
   local |-> FALSE, heads |-> 0]

Holding == {"connecting", "sent", "answering", "half"}
Busy == {r \in Requests : ex[r].up \in Holding}
Live == Holding \cup {"queued"}
ResClosed == {"finished", "gone"}

ForwardInit ==
  /\ ex = [r \in Requests |-> Fresh]
  /\ queue = <<>>
  /\ closed = FALSE

(***************************************************************************)
(* What the handlers call.                                                 *)
(***************************************************************************)
DestroyUp(e) ==
  [e EXCEPT !.up = CASE @ \in {"queued", "connecting", "sent"} -> "destroyed"
                     [] @ = "answering" -> "cut"
                     [] @ = "half" -> "gone"
                     [] OTHER -> @]

DestroyRes(e) == [e EXCEPT !.res = IF @ \in {"open", "head", "ended"} THEN "destroyed" ELSE @]

Settle(e) == [e EXCEPT !.settled = TRUE]

(* A synthesized answer, or no answer when a head was sent before.          *)
Synthesize(e) ==
  IF e.res = "open" THEN [e EXCEPT !.res = "ended", !.heads = @ + 1, !.local = TRUE] ELSE DestroyRes(e)

(* req.unpipe(upstream); drainRejectedUpload(req)                           *)
Drain(e) == [e EXCEPT !.upload = IF @ = "piped" THEN "drain" ELSE @]

(* MUTANT: 'error' does not ask the latch.                                  *)
OnErrorUnlatched(e) == Drain(Synthesize(Settle(e)))

OnError(e) == IF e.settled THEN e ELSE Drain(Synthesize(Settle(e)))

OnTimeout(e) == IF e.settled THEN e ELSE DestroyUp(Drain(Synthesize(Settle(e))))

(* MUTANT: the latch decides about the teardown too.                        *)
OnCloseLatched(e) == IF e.settled THEN e ELSE DestroyUp(Settle(e))

(* 'close' of an unfinished response, or 'error' of its upload.             *)
OnClose(e) == DestroyUp(Settle(e))

(* httpError() of the gateway, the onError hook.                            *)
HttpError(e) ==
  CASE e.res = "open" -> [e EXCEPT !.res = "ended", !.heads = @ + 1]
    [] e.res = "head" -> [e EXCEPT !.res = "ended"]
    [] OTHER -> e

(* The client's connection ends before its response was flushed.            *)
Leave(e) ==
  LET left == [e EXCEPT !.res = "gone",
                        !.upload = IF @ \in {"piped", "drain"} THEN "cut" ELSE @]
  IN IF e.listening \/ e.upload = "piped" THEN OnClose(left) ELSE left

(***************************************************************************)
(* forward()                                                               *)
(***************************************************************************)
(* client.request() with the agent: a kept-alive socket, a new one, or the  *)
(* line.                                                                    *)
Start(r, e) ==
  LET attempt(up) == [e EXCEPT !.up = up, !.settled = FALSE, !.listening = TRUE] IN
  IF Cardinality(Busy) < MaxSockets
  THEN /\ \E up \in {"connecting", "sent"} : ex' = [ex EXCEPT ![r] = attempt(up)]
       /\ UNCHANGED queue
  ELSE /\ ex' = [ex EXCEPT ![r] = attempt("queued")]
       /\ queue' = Append(queue, r)

(* Hooks come with a buffered body only, onUnauthorized with onResponse.    *)
Forward(r) ==
  /\ ex[r].kind = "new" /\ ex[r].res = "open"
  /\ IF closed
     THEN ex' = [ex EXCEPT ![r].kind = "ignored"] /\ UNCHANGED queue
     ELSE \/ Start(r, [Fresh EXCEPT !.kind = "prefix", !.upload = "piped"])
          \/ \E hooks \in {<<FALSE, "none">>, <<TRUE, "none">>, <<TRUE, "able">>} :
               Start(r, [Fresh EXCEPT !.kind = "complete", !.hooked = hooks[1], !.refresh = hooks[2]])
  /\ UNCHANGED closed

(* MUTANT: the retry does not look at the response again.                   *)
RetryBlindly(r) ==
  LET e == [ex[r] EXCEPT !.refresh = "none"] IN
  IF closed
  THEN ex' = [ex EXCEPT ![r] = e] /\ UNCHANGED queue
  ELSE Start(r, e)

Retry(r) ==
  LET e == [ex[r] EXCEPT !.refresh = "none"] IN
  IF closed \/ e.res \in ResClosed \cup {"destroyed"}
  THEN ex' = [ex EXCEPT ![r] = e] /\ UNCHANGED queue
  ELSE Start(r, e)

(* onUnauthorized() has settled.                                            *)
Refreshed(r) ==
  /\ ex[r].refresh = "asked"
  /\ \/ Retry(r)
     \/ ex' = [ex EXCEPT ![r] = HttpError([@ EXCEPT !.refresh = "none"])] /\ UNCHANGED queue
  /\ UNCHANGED closed

(***************************************************************************)
(* The events of the agent and of the upstream request.                    *)
(***************************************************************************)
(* A destroyed request leaves the line when its turn comes.                 *)
AgentServes ==
  /\ queue # <<>> /\ Cardinality(Busy) < MaxSockets
  /\ LET r == Head(queue) IN
       IF ex[r].up = "queued"
       THEN \E up \in {"connecting", "sent"} : ex' = [ex EXCEPT ![r].up = up]
       ELSE UNCHANGED ex
  /\ queue' = Tail(queue)
  /\ UNCHANGED closed

Change(r, e) ==
  /\ ex' = [ex EXCEPT ![r] = e]
  /\ UNCHANGED <<queue, closed>>

Connected(r) == ex[r].up = "connecting" /\ Change(r, [ex[r] EXCEPT !.up = "sent"])

ConnectTimeout(r) == ex[r].up = "connecting" /\ Change(r, OnTimeout(ex[r]))

(* A 401 that is worth one retry: the response is let go of, and so is the  *)
(* client, until onUnauthorized() settles.                                  *)
Unauthorized(r) ==
  /\ ex[r].up = "sent" /\ ~ex[r].settled /\ ex[r].refresh = "able"
  /\ Change(r, [Settle(ex[r]) EXCEPT !.up = "cut", !.listening = FALSE, !.refresh = "asked"])

(* Any other response goes to the hook or to the client.                    *)
Answered(r) ==
  LET e == Settle([ex[r] EXCEPT !.up = "answering"]) IN
  /\ ex[r].up = "sent" /\ ~ex[r].settled
  /\ IF e.hooked THEN Change(r, [e EXCEPT !.hook = TRUE])
                 ELSE Change(r, [e EXCEPT !.res = "head", !.heads = @ + 1])

(* The response is read; a socket still taking an upload stays taken.       *)
ReadUp(e) == [e EXCEPT !.up = IF @ = "answering" THEN IF e.upload = "piped" THEN "half" ELSE "free" ELSE @]

BodyEnds(r) ==
  /\ ex[r].up = "answering" /\ ~ex[r].hooked /\ ex[r].res = "head"
  /\ Change(r, ReadUp([ex[r] EXCEPT !.res = "ended"]))

(* 'error' of the request before the response, of the response after it.    *)
UpstreamFails(r) ==
  /\ ex[r].up \in {"connecting", "sent", "answering", "half"}
  /\ LET e == [ex[r] EXCEPT !.up = "gone"] IN
       Change(r, IF ex[r].up \in {"connecting", "sent"} THEN OnError(e)
                 ELSE IF ex[r].up = "answering" /\ ~e.hooked THEN DestroyRes(e) ELSE e)

(* 'error' and 'close' that follow destroy(), once the agent is done.       *)
UpstreamClose(r) ==
  /\ ex[r].up \in {"destroyed", "cut"} /\ r \notin ToSet(queue)
  /\ LET e == [ex[r] EXCEPT !.up = "gone"] IN
       Change(r, IF ex[r].up = "destroyed" THEN OnError(e)
                 ELSE IF ~e.hooked THEN DestroyRes(e) ELSE e)

(***************************************************************************)
(* CodexUpstream.respond(), the onResponse hook.                           *)
(***************************************************************************)
HookHead(r) ==
  /\ ex[r].hook /\ ex[r].res = "open" /\ ex[r].up = "answering"
  /\ Change(r, [ex[r] EXCEPT !.res = "head", !.heads = @ + 1])

HookDone(r) ==
  /\ ex[r].hook /\ ex[r].res = "head" /\ ex[r].up = "answering"
  /\ Change(r, DestroyUp([ex[r] EXCEPT !.res = "ended", !.hook = FALSE]))

(* A body it cannot use, an upstream lost or a client gone; pipeline() of   *)
(* the raw transform destroys the response.                                 *)
HookFails(r) ==
  /\ ex[r].hook
  /\ \E lost \in {HttpError(ex[r]), DestroyRes(ex[r])} :
       /\ lost.res = "destroyed" => ex[r].res # "open"
       /\ Change(r, DestroyUp([lost EXCEPT !.hook = FALSE]))

(***************************************************************************)
(* The client.                                                             *)
(***************************************************************************)
ClientGoes(r) ==
  /\ ex[r].res \in {"open", "head", "ended", "destroyed"}
  /\ Change(r, Leave(ex[r]))

Flushed(r) == ex[r].res = "ended" /\ Change(r, [ex[r] EXCEPT !.res = "finished"])

(* The rest of the upload was read by the upstream.                         *)
UploadEnds(r) ==
  /\ ex[r].upload = "piped" /\ ex[r].up \in Holding
  /\ Change(r, [ex[r] EXCEPT !.upload = "done", !.up = IF @ = "half" THEN "free" ELSE @])

(* The drain comes to an end of the upload, or to one of its two bounds.    *)
DrainEnds(r) ==
  /\ ex[r].upload = "drain"
  /\ \/ Change(r, [ex[r] EXCEPT !.upload = "done"])
     \/ Change(r, IF ex[r].res \in ResClosed THEN [ex[r] EXCEPT !.upload = "cut"] ELSE Leave(ex[r]))

(* server.requestTimeout ends an upload that nobody reads.                  *)
RequestTimeout(r) ==
  /\ ex[r].upload = "piped" /\ ex[r].up \notin Live
  /\ Change(r, IF ex[r].res \in ResClosed THEN [OnClose(ex[r]) EXCEPT !.upload = "cut"] ELSE Leave(ex[r]))

(* close(): every request in flight is destroyed, and the agent's sockets.  *)
Close ==
  /\ ~closed
  /\ closed' = TRUE
  /\ ex' = [r \in Requests |-> DestroyUp(ex[r])]
  /\ UNCHANGED queue

-----------------------------------------------------------------------------
Upstream(r) ==
  \/ Connected(r) \/ ConnectTimeout(r) \/ Unauthorized(r) \/ Answered(r)
  \/ BodyEnds(r) \/ UpstreamClose(r)

Hook(r) == HookHead(r) \/ HookDone(r) \/ HookFails(r)

Client(r) == Flushed(r) \/ UploadEnds(r) \/ DrainEnds(r) \/ RequestTimeout(r)

ForwardNext ==
  \/ \E r \in Requests : Forward(r) \/ Refreshed(r) \/ Upstream(r) \/ UpstreamFails(r) \/ Hook(r) \/ Client(r)
                       \/ ClientGoes(r)
  \/ AgentServes \/ Close

(* The origin answers, as it does for a client without a relay, and is not  *)
(* obliged to fail when nobody reads; who is sent a response reads it or    *)
(* goes away; hooks settle and timers fire.                                 *)
ForwardFairness ==
  /\ WF_forwardVars(AgentServes)
  /\ \A r \in Requests :
       /\ WF_forwardVars(Refreshed(r)) /\ WF_forwardVars(Upstream(r)) /\ WF_forwardVars(Hook(r)) /\ WF_forwardVars(Client(r))
       /\ WF_forwardVars(ex[r].res = "destroyed" /\ ClientGoes(r))

ForwardSpec == ForwardInit /\ [][ForwardNext]_forwardVars /\ ForwardFairness

-----------------------------------------------------------------------------
(* raw-http-passthrough.ts:179: "One-way latch over a four-outcome terminal *)
(* state machine": a client reads at most one head, and an answer that was  *)
(* ended is never torn down by the relay before the client has it.          *)
OneOutcome ==
  [][\A r \in Requests : /\ ex'[r].heads <= 1
                         /\ ex[r].res = "ended" => ex'[r].res # "destroyed"]_forwardVars

(* A socket of the agent is held for a client that is there, or for the     *)
(* rest of its upload; also after a retry, and after the head was relayed.  *)
NoOrphanUpstream ==
  \A r \in Requests : ex[r].up \in Live =>
    \/ ex[r].res \notin ResClosed
    \/ ex[r].up = "half" /\ ex[r].upload = "piped"

(* raw-http-passthrough.ts:281: an upload the relay has answered itself is  *)
(* never left without a reader, "dead weight until server.requestTimeout".  *)
UploadIsRead == \A r \in Requests : ex[r].local => ex[r].upload # "piped"

(* Neither a socket of the agent nor an upload is held up by an exchange    *)
(* that is over.                                                            *)
NothingIsHeldUp == NoOrphanUpstream /\ UploadIsRead

(* No request hangs that would not hang without the relay: "a hang no       *)
(* origin can produce" (raw-http-passthrough.ts:332).  Whoever waits for a  *)
(* socket of the agent gets one in the end, is answered, and its response   *)
(* is closed; only a retry that close() overtook is left alone.             *)
EveryoneIsAnswered ==
  \A r \in Requests :
    ex[r].kind \in {"complete", "prefix"} ~>
      (ex[r].res \in ResClosed \/ (closed /\ ex[r].res = "open" /\ ~ex[r].listening))

=================================================================================

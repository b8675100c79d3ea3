--------------------------------- MODULE Server ---------------------------------
(***************************************************************************)
(* The HTTP server, src/src/server.ts, with the transport policy of        *)
(* inbound-policy.ts, the decision of router.ts and the drain of           *)
(* provider-transport.ts, over the routing table of ModelRouting.  It      *)
(* follows one client connection and the requests that use it in turn;     *)
(* forwarders and handlers are modules of their own, and here only what    *)
(* they do to the response and to the upload.                              *)
(*                                                                         *)
(* A body is read in pieces, numbered from 1.  A microtask that follows an *)
(* event belongs to the event's action: nothing else runs in between.      *)
(***************************************************************************)
EXTENDS ModelRouting

CONSTANTS
  Registry, Aliases,   (* what buildDeps() makes the table from             *)
  ModelNames,          (* names a body may carry                            *)
  MaxBody,             (* bound: pieces of a body                           *)
  Window, Sniff,       (* maxBufferedBodyBytes and MODEL_SNIFF_BYTES        *)
  MaxRequests          (* bound: requests on the connection                 *)

ASSUME WindowAssumption == {Window, Sniff, MaxBody, MaxRequests} \subseteq Nat

NoModel == <<>>

VARIABLES
  table,     (* the routing table, built before the server listens          *)
  conn,      (* the socket: "open", "ending" after socket.end(), "closed"   *)
  req,       (* the request being served                                    *)
  res,       (* its response: "none" before the first request, "open" until *)
             (* a head is written, "head", "ended", "finished"              *)
  written,   (* socket.bytesWritten, in writes                              *)
  baseline,  (* writtenAtLastResponse                                       *)
  served,    (* requests begun                                              *)
  late       (* the timer of a drain begun after the upload had ended: the   *)
             (* three events that disarm it are over                         *)

vars == <<table, conn, req, res, written, baseline, served, late>>

(* target: what the URL, the method and the gate of the request amount to.  *)
(* reader: who reads the upload; "none" leaves it in the parser.            *)
Targets ==
  {"foreign", "codexClosed", "gateway", "health", "other", "messages", "count_tokens", "below"}
Readers == {"none", "ingest", "paused", "pipe", "drain", "ended"}

NoRequest ==
  [target |-> "none", model |-> NoModel, leading |-> FALSE, size |-> 0, declared |-> FALSE,
   expect |-> FALSE, arrived |-> 0, chunks |-> <<>>, reader |-> "ended", sent |-> <<>>, route |-> "none"]

Init ==
  /\ table = buildRoutingTable(Registry, Aliases)
  /\ conn = "open" /\ req = NoRequest /\ res = "none"
  /\ written = 0 /\ baseline = 0 /\ served = 0 /\ late = FALSE

Pieces(n) == [i \in 1 .. n |-> i]

(* writeHead() and end() of a synthesized answer.                           *)
Answer == res' = "ended" /\ written' = written + 1
NoAnswer == UNCHANGED <<res, written, late>>

(* drainRejectedUpload(req)                                                 *)
drainRejectedUpload(r) == [r EXCEPT !.reader = IF @ = "ended" THEN @ ELSE "drain"]

(* The routing decision of a POST below /v1/messages.                       *)
decideRoute(target, resolution) ==
  IF resolution.kind = "resolved" /\ target \in {"messages", "count_tokens"}
  THEN [kind |-> "provider", provider |-> resolution.target.provider, model |-> resolution.target.id]
  ELSE [kind |-> CASE resolution.kind = "unknown_qualifier" -> "unknown_provider"
                   [] resolution.kind = "ambiguous" -> "ambiguous"
                   [] OTHER -> "anthropic"]

(* The name in a body that was read, or at the start of a prefix.           *)
PeekedModel(r, whole) == IF whole \/ r.leading THEN r.model ELSE NoModel

(* forwardAnthropic(req, res, forwardBody)                                  *)
ForwardAnthropic(r, whole) ==
  [r EXCEPT !.route = "anthropic", !.sent = r.chunks, !.reader = IF whole THEN @ ELSE "pipe"]

(* MUTANT: what dispatch() throws is only logged.                           *)
ThrownUnanswered(r, whole) == req' = drainRejectedUpload([r EXCEPT !.route = "500"]) /\ NoAnswer

(* The catch of the listener.                                               *)
Thrown(r, whole) ==
  /\ req' = drainRejectedUpload([r EXCEPT !.route = "500"])
  /\ Answer /\ late' = (late \/ whole)

(* What follows readBodyForRouting().  A handler may throw.                 *)
Dispatch(r, whole) ==
  LET model == PeekedModel(r, whole)
      resolution == IF model = NoModel THEN [kind |-> "unresolved"] ELSE resolveModel(table, model)
      decision == decideRoute(r.target, resolution)
  IN \/ decision.kind # "provider" /\ req' = ForwardAnthropic(r, whole) /\ NoAnswer
     \/ decision.kind = "provider" /\ ~whole
        /\ req' = drainRejectedUpload([r EXCEPT !.route = "413"]) /\ Answer /\ UNCHANGED late
     \/ decision.kind = "provider" /\ whole
        /\ req' = [r EXCEPT !.route = "provider", !.sent = r.chunks] /\ NoAnswer
     \/ (decision.kind = "provider" => whole) /\ Thrown(r, whole)

(***************************************************************************)
(* The request listener.                                                   *)
(***************************************************************************)
(* What it does with a request before it awaits anything.                   *)
Listen(r) ==
  CASE r.target \in {"foreign", "codexClosed"} -> drainRejectedUpload([r EXCEPT !.route = "local"])
    [] r.target = "health" -> [r EXCEPT !.route = "local"]
    [] r.target = "gateway" -> [r EXCEPT !.route = "gateway", !.reader = "pipe"]
    [] r.target = "other" -> [r EXCEPT !.route = "anthropic", !.reader = "pipe"]
    [] OTHER -> [r EXCEPT !.reader = "ingest"]

Ready == req.reader = "ended" /\ res \in {"none", "finished"}

(* Node answers `Expect: 100-continue` before it calls the listener.        *)
Request ==
  /\ conn = "open" /\ Ready /\ served < MaxRequests
  /\ served' = served + 1
  /\ \E target \in Targets, model \in ModelNames \cup {NoModel}, leading, declared, expect \in BOOLEAN,
        size \in 0 .. MaxBody :
       LET r == [NoRequest EXCEPT !.target = target, !.model = model, !.leading = leading, !.size = size,
                                  !.declared = declared, !.expect = expect,
                                  !.reader = IF size = 0 THEN "ended" ELSE "none"]
       IN /\ size = 0 => ~declared /\ ~expect
          /\ target \notin {"messages", "count_tokens", "below"} => model = NoModel
          /\ model = NoModel => ~leading
          /\ req' = IF size = 0 /\ Listen(r).reader # "ingest" THEN [Listen(r) EXCEPT !.reader = "ended"]
                    ELSE Listen(r)
          /\ LET continue == IF expect THEN written + 1 ELSE written
             IN IF Listen(r).route = "local" THEN res' = "ended" /\ written' = continue + 1
                ELSE res' = "open" /\ written' = continue
  /\ UNCHANGED <<table, conn, baseline, late>>

(***************************************************************************)
(* The upload.                                                             *)
(***************************************************************************)
Limit(r) == IF r.declared /\ r.size > Window
            THEN IF Sniff < Window THEN Sniff ELSE Window
            ELSE Window

(* MUTANT: the piece that crosses the limit is dropped.                     *)
KeepBelow(r) == IF Len(r.chunks) < Limit(r) THEN Append(r.chunks, r.arrived) ELSE r.chunks

Keep(r) == Append(r.chunks, r.arrived)

(* onData() of readBodyForRouting().                                        *)
OnData(r) ==
  LET kept == [r EXCEPT !.chunks = Keep(r)] IN
  IF r.arrived > Limit(r)
  THEN Dispatch([kept EXCEPT !.reader = "paused"], FALSE)
  ELSE req' = kept /\ NoAnswer

Data ==
  /\ conn = "open" /\ req.arrived < req.size
  /\ req.reader \in {"ingest", "pipe", "drain"}
  /\ LET r == [req EXCEPT !.arrived = @ + 1] IN
       CASE r.reader = "ingest" -> OnData(r)
         [] r.reader = "pipe" -> req' = [r EXCEPT !.sent = Append(@, r.arrived)] /\ NoAnswer
         [] r.reader = "drain" -> req' = r /\ NoAnswer
  /\ UNCHANGED <<table, conn, baseline, served>>

UploadEnd ==
  /\ conn = "open" /\ req.arrived = req.size
  /\ req.reader \in {"ingest", "pipe", "drain"}
  /\ LET r == [req EXCEPT !.reader = "ended"] IN
       IF req.reader = "ingest" THEN Dispatch(r, TRUE) ELSE req' = r /\ NoAnswer
  /\ UNCHANGED <<table, conn, baseline, served>>

(* Either bound of the drain; a late timer destroys the socket, too,        *)
(* whatever it is used for by then.                                         *)
DrainBound ==
  /\ conn = "open" /\ (req.reader = "drain" \/ late)
  /\ conn' = "closed"
  /\ UNCHANGED <<table, req, res, written, baseline, served, late>>

(***************************************************************************)
(* The forwarder or handler the request was given to.                      *)
(***************************************************************************)
Handled == conn = "open" /\ req.route \in {"anthropic", "provider", "gateway"}

HandlerHead ==
  /\ Handled /\ res = "open"
  /\ res' = "head" /\ written' = written + 1
  /\ UNCHANGED <<table, conn, req, baseline, served, late>>

(* An answer of its own, an upload it will not read being drained.          *)
HandlerAnswers ==
  /\ Handled /\ res = "open"
  /\ Answer
  /\ req' = IF req.reader = "pipe" THEN [req EXCEPT !.reader = "drain"] ELSE req
  /\ UNCHANGED <<table, conn, baseline, served, late>>

(* handleMessages() rejects: the listener answers, or ends what was begun.  *)
HandlerRejects ==
  /\ Handled /\ req.route = "provider" /\ res \in {"open", "head"}
  /\ late' = TRUE
  /\ IF res = "open" THEN Answer /\ UNCHANGED conn ELSE conn' = "closed" /\ UNCHANGED <<res, written>>
  /\ UNCHANGED <<table, req, baseline, served>>

HandlerEnds ==
  /\ Handled /\ res = "head"
  /\ res' = "ended" /\ written' = written + 1
  /\ UNCHANGED <<table, conn, req, baseline, served, late>>

(* res.destroy()                                                            *)
HandlerDestroys ==
  /\ Handled /\ res = "head"
  /\ conn' = "closed"
  /\ UNCHANGED <<table, req, res, written, baseline, served, late>>

(* 'finish' of the response: the baseline is set, and Node dumps an upload  *)
(* that nobody ever read.                                                   *)
Finish ==
  /\ conn = "open" /\ res = "ended"
  /\ res' = "finished" /\ baseline' = written
  /\ req' = IF req.reader = "none" THEN [req EXCEPT !.reader = "drain"] ELSE req
  /\ UNCHANGED <<table, conn, written, served, late>>

(***************************************************************************)
(* The connection.                                                         *)
(***************************************************************************)
(* MUTANT: the bytes of the whole connection count.                         *)
NothingEverWritten == written = 0

NothingWritten == written = baseline

(* 'clientError': a timeout, a message or a chunk that cannot be parsed.    *)
ClientError ==
  /\ conn = "open"
  /\ IF NothingWritten THEN conn' = "ending" /\ written' = written + 1
                       ELSE conn' = "closed" /\ UNCHANGED written
  /\ UNCHANGED <<table, req, res, baseline, served, late>>

(* The reply is flushed, and the socket destroyed.                          *)
ReplyFlushed ==
  /\ conn = "ending"
  /\ conn' = "closed"
  /\ UNCHANGED <<table, req, res, written, baseline, served, late>>

(* Of a request that is being read nothing is written, of another the       *)
(* handler is told by the 'close' of the response.                          *)
ClientLeaves ==
  /\ conn = "open"
  /\ conn' = "closed"
  /\ UNCHANGED <<table, req, res, written, baseline, served, late>>

Handler == HandlerHead \/ HandlerAnswers \/ HandlerRejects \/ HandlerEnds \/ HandlerDestroys

Next == Request \/ Data \/ UploadEnd \/ DrainBound \/ Handler \/ Finish
        \/ ClientError \/ ReplyFlushed \/ ClientLeaves

(* Handlers settle (RawForward, CodexHandler), what was written is flushed  *)
(* or the client is gone, the bounds of the drain expire, and so does       *)
(* requestTimeout while an upload is not complete.                          *)
Fairness ==
  /\ WF_vars(Handler) /\ WF_vars(Finish) /\ WF_vars(DrainBound) /\ WF_vars(ReplyFlushed)
  /\ WF_vars(req.reader # "ended" /\ ClientError)

Spec == Init /\ [][Next]_vars /\ Fairness

--------------------------------------------------------------------------------
(* server.ts:291 and 296: no more than a window and one read is buffered,   *)
(* and what was read to decide the route is neither lost nor repeated: an   *)
(* upstream gets the pieces in order from the first one on, a provider the  *)
(* whole body, and a body that ended behind a forwarder has reached it.     *)
BodyIsWhole ==
  /\ req.sent = Pieces(Len(req.sent))
  /\ Len(req.chunks) <= Limit(req) + 1
  /\ req.route = "provider" => Len(req.sent) = req.size /\ req.size <= Window
  /\ req.route \in {"anthropic", "gateway"} /\ req.reader = "pipe" => Len(req.sent) = req.arrived
  /\ req.route \in {"anthropic", "gateway"} /\ res \in {"open", "head"} /\ req.reader = "ended" =>
       Len(req.sent) = req.size

(* An answered request leaves no upload unread, whoever answered it: the    *)
(* connection is held until requestTimeout otherwise.                       *)
AnsweredUploadIsRead ==
  /\ req.reader # "paused"
  /\ res = "finished" => req.reader \in {"pipe", "drain", "ended"}

(* No byte of an upload is unaccounted for: it is forwarded in its place,   *)
(* or read and dropped because the request was answered.                    *)
UploadIsAccountedFor == BodyIsWhole /\ AnsweredUploadIsRead

(* inbound-policy.ts:338: the shaped reply of a clientError is never written *)
(* into a response that has begun, and a connection on which nothing was    *)
(* written for the request, reused or not, does get it; the interim 100     *)
(* Continue counts as a beginning.  Nothing is said here of an answer that  *)
(* finished ahead of its upload: that is AnsweredIsNotRepliedTo.            *)
Begun == res \in {"head", "ended"} \/ (req.expect /\ res = "open")
AheadOfUpload == res = "finished" /\ req.reader # "ended"

RepliesWhenClean ==
  [][ClientError => /\ Begun => conn' = "closed"
                    /\ ~Begun /\ ~AheadOfUpload => conn' = "ending"]_vars

(* inbound-policy.ts:340: "Node still reports the request timeout after the *)
(* handler has replied, and the reply must not be corrupted": a request     *)
(* that was answered gets no second reply when its upload times out or      *)
(* cannot be parsed.  Not so: 'finish' has moved the baseline, and nothing  *)
(* was written since.                                                       *)
AnsweredIsNotRepliedTo == [][ClientError /\ AheadOfUpload => conn' = "closed"]_vars

(* Every request is answered in full or its connection is closed, however   *)
(* slowly its upload comes and whoever answers early.                       *)
EveryRequestEnds == (served > 0 /\ ~Ready) ~> (Ready \/ conn = "closed")
=================================================================================

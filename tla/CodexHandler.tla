------------------------------- MODULE CodexHandler ------------------------------
(***************************************************************************)
(* One request of Claude Code that a Codex model answers: handleMessages() *)
(* of src/src/codex-handler.ts, from the credentials to the last frame.    *)
(*                                                                         *)
(* Code between two awaits is one action.  The AbortController is fired by *)
(* the total and the idle timer and by a client that leaves; the fetch and *)
(* the pipeline are given its signal, the credentials are not.             *)
(*                                                                         *)
(* The client then sends its next request: the conversation with the turn  *)
(* it was given, or the same one again.  How that request is translated,   *)
(* with the reasoning the cache kept, is the end of a behaviour.           *)
(***************************************************************************)
EXTENDS CodexStream, CodexRequest

CONSTANTS
  EarlierCall, EarlierThought, (* a call of an earlier turn, and its reasoning *)
  Waiting                      (* BOUND: frames that wait in the pipeline      *)

ASSUME HandlerAssumption == EarlierCall \notin Items /\ EarlierThought \in DOMAIN Weight /\ Waiting \in Nat

VARIABLES
  stage,        (* what is awaited                                          *)
  wantStream,
  attemptsLeft, (* maxAttempts - attempt                                    *)
  aborted,      (* controller.signal.aborted                                *)
  res,          (* the response: "open", "ended", or "gone" without an end  *)
  answer,       (* what the response was ended with                         *)
  written,      (* of the frames, those that made it into the answer        *)
  messages,     (* the conversation of the request                          *)
  input,        (* body.input                                               *)
  turn,
  preceded      (* ghost: the reasoning the upstream ended before each call *)

request == <<stage, wantStream, attemptsLeft, aborted, res, answer, written, messages, input, turn, preceded>>
vars == <<stream, cache, request>>

Message(role, content) == [role |-> role, content |-> content]
Results(calls) == Message("user", [k \in DOMAIN calls |-> Item("tool_result", calls[k])])

(* A conversation with one call, whose reasoning an earlier turn cached.    *)
Init ==
  /\ StreamInit
  /\ cache = put(EmptyCache, EarlierCall, <<EarlierThought>>)
  /\ stage = "translate" /\ attemptsLeft \in {1, 2} /\ aborted = FALSE
  /\ wantStream \in BOOLEAN
  /\ res = "open" /\ answer = "none" /\ written = 0
  /\ messages = <<Message("assistant", <<Item("tool_use", EarlierCall)>>), Results(<<EarlierCall>>)>>
  /\ input = <<>>
  /\ turn = 1 /\ preceded = [c \in Calls \cup {EarlierCall} |-> IF c = EarlierCall THEN {EarlierThought} ELSE {}]

(* handleMessages() up to its first await.  BOUND: of the second request    *)
(* only this is followed.                                                   *)
Translated ==
  /\ stage = "translate"
  /\ LET b == translateRequest(cache, messages) IN cache' = b.cache /\ input' = b.items
  /\ stage' = IF turn = 2 THEN "asked" ELSE "credentials"
  /\ UNCHANGED <<stream, wantStream, written, attemptsLeft, aborted, res, answer, messages, turn, preceded>>

(* respondJson(), respondProxyError() or res.end(): the handler returns,    *)
(* and cleanup() ends the timers and the listener.                          *)
Respond(what) ==
  /\ stage' = "done" /\ aborted' = FALSE
  /\ IF res = "open" THEN res' = "ended" /\ answer' = what ELSE UNCHANGED <<res, answer>>

(* A body that is not a valid request, or a message of another role behind  *)
(* the first n, whose reasoning was read.                                   *)
Untranslatable ==
  /\ stage = "translate"
  /\ \E n \in 0 .. Len(messages) : cache' = translateRequest(cache, SubSeq(messages, 1, n)).cache
  /\ Respond("refused")
  /\ UNCHANGED <<stream, wantStream, written, attemptsLeft, messages, input, turn, preceded>>

(* getCredentials() or forceRefresh() has settled; an abort is not noticed. *)
Credentials ==
  /\ stage \in {"credentials", "refresh"}
  /\ \/ stage' = "fetch" /\ UNCHANGED <<res, answer, aborted>>
     \/ Respond("unauthorized")
  /\ UNCHANGED <<stream, cache, wantStream, written, attemptsLeft, messages, input, turn, preceded>>

(* The last permitted attempt keeps its 401.                                *)
MayRefresh == attemptsLeft > 1

Unauthorized ==
  /\ stage = "fetch" /\ ~aborted /\ MayRefresh
  /\ stage' = "refresh" /\ attemptsLeft' = attemptsLeft - 1
  /\ UNCHANGED <<stream, cache, wantStream, written, aborted, res, answer, messages, input, turn, preceded>>

(* Another error status, no body, or the upstream cannot be reached.        *)
FetchFails ==
  /\ stage = "fetch" /\ ~aborted
  /\ Respond("refused")
  /\ UNCHANGED <<stream, cache, wantStream, written, attemptsLeft, messages, input, turn, preceded>>

FetchOk ==
  /\ stage = "fetch" /\ ~aborted
  /\ stage' = "reading" /\ attemptsLeft' = 0
  /\ UNCHANGED <<stream, cache, wantStream, written, aborted, res, answer, messages, input, turn, preceded>>

Event ==
  /\ stage = "reading" /\ ~aborted
  /\ Translate
  /\ preceded' = [c \in DOMAIN preceded |->
       IF c \in Calls /\ ended'[c] # ended[c] THEN ToSet(reasoningItems) ELSE preceded[c]]
  /\ UNCHANGED <<stage, wantStream, written, attemptsLeft, aborted, res, answer, messages, input, turn>>

(* The upstream has ended, everything was written, and the pipeline resolves. *)
UpstreamEnds ==
  /\ stage = "reading" /\ ~aborted
  /\ Flush
  /\ stage' = "settled"
  /\ UNCHANGED <<wantStream, written, attemptsLeft, aborted, res, answer, messages, input, turn, preceded>>

Outcome == IF wantStream THEN "stream" ELSE Aggregate.kind

Settled ==
  /\ stage = "settled"
  /\ Respond(Outcome)
  /\ written' = Len(frames)
  /\ UNCHANGED <<stream, cache, wantStream, attemptsLeft, messages, input, turn, preceded>>

(* The pipeline rejects: an upstream that breaks off, an event or a turn    *)
(* that is too large, an abort.  A client of a stream keeps the frames it   *)
(* was written, and an error frame goes behind them; those that still wait  *)
(* in the pipeline are lost with it.                                        *)
Interrupted ==
  /\ stage = "reading"
  /\ IF wantStream /\ res = "open"
     THEN written' \in {n \in 0 .. Len(frames) : Len(frames) - n <= Waiting} /\ UNCHANGED stream
     ELSE NewStream /\ UNCHANGED written
  /\ Respond("interrupted")
  /\ UNCHANGED <<cache, wantStream, attemptsLeft, messages, input, turn, preceded>>

FetchAborted ==
  /\ stage = "fetch" /\ aborted
  /\ Respond("timeout")
  /\ UNCHANGED <<stream, cache, wantStream, written, attemptsLeft, messages, input, turn, preceded>>

(* The timers and the close listener are there, and run while the handler   *)
(* awaits something that does not follow at once.                           *)
Guarded == stage \in {"credentials", "refresh", "fetch", "reading"}

(* requestTimeoutMs, or streamIdleTimeoutMs between two pieces of the body. *)
Timeout ==
  /\ Guarded /\ ~aborted
  /\ aborted' = TRUE
  /\ UNCHANGED <<stream, cache, stage, wantStream, written, attemptsLeft, res, answer, messages, input, turn, preceded>>

ClientLeaves ==
  /\ Guarded /\ res = "open"
  /\ res' = "gone" /\ aborted' = TRUE
  /\ UNCHANGED <<stream, cache, stage, wantStream, written, attemptsLeft, answer, messages, input, turn, preceded>>

Said(i) == sent[i] > 0
Reply == Absorbed(frames)

(* The frames the client of a stream has in the end.                        *)
received == SubSeq(frames, 1, written) \o (IF answer = "interrupted" THEN <<Frame("error", 0, 0)>> ELSE <<>>)

Has(type) == \E k \in DOMAIN received : received[k].type = type

(* What a client takes for a turn that came to its end.                     *)
ToldAsTurn == answer = "message" \/ (answer \in {"stream", "interrupted"} /\ Has("message_stop"))

Ended(k) == \E j \in DOMAIN received : received[j].type = "content_block_stop" /\ received[j].index = k

(* The content of the turn in the order the client has it.                  *)
Content ==
  LET items == IF wantStream
               THEN LET done == InOrder({k \in DOMAIN blocks : Ended(k)}) IN [k \in DOMAIN done |-> blocks[done[k]]]
               ELSE [k \in DOMAIN Reply.content |-> Reply.content[k].item]
  IN [k \in DOMAIN items |-> Item(IF items[k] \in Calls THEN "tool_use" ELSE "text", items[k])]

CallsOf(content) ==
  LET calls == InOrder({k \in DOMAIN content : content[k].type = "tool_use"}) IN [k \in DOMAIN calls |-> content[calls[k]].name]

(* The client goes on with the turn, or asks again for one that failed; an  *)
(* error behind the end of a turn leaves it the choice.                     *)
NextRequest ==
  /\ stage = "done" /\ turn = 1
  /\ NewStream
  /\ stage' = "translate" /\ res' = "open" /\ answer' = "none" /\ written' = 0 /\ turn' = 2
  /\ \/ /\ ToldAsTurn
        /\ messages' = messages \o <<Message("assistant", Content), Results(CallsOf(Content))>>
     \/ /\ ~ToldAsTurn \/ answer = "interrupted"
        /\ UNCHANGED messages
  /\ UNCHANGED <<cache, wantStream, attemptsLeft, aborted, input, preceded>>

-----------------------------------------------------------------------------
Next ==
  \/ Translated \/ Untranslatable \/ NextRequest \/ Credentials \/ Unauthorized \/ FetchFails \/ FetchOk \/ Event \/ UpstreamEnds
  \/ Settled \/ Interrupted \/ FetchAborted \/ Timeout \/ ClientLeaves

(* Timers fire, what was given the signal rejects, what is due runs; the    *)
(* upstream and the source of the credentials owe nothing.                  *)
Fairness ==
  /\ WF_vars(Timeout) /\ WF_vars(FetchAborted) /\ WF_vars(Settled)
  /\ WF_vars(aborted /\ Interrupted)

Spec == Init /\ [][Next]_vars /\ Fairness

-----------------------------------------------------------------------------
(* A turn with something in it.                                            *)
HasContent ==
  IF wantStream THEN Has("content_block_delta") ELSE \E e \in ToSet(Reply.content) : e.text # <<>>

(* codex-response.ts:281-282: "a response that carried content upstream is  *)
(* never delivered as a healthy-looking empty turn", whatever the upstream  *)
(* leaves out and however it ends, to a client of either kind.              *)
NeverEmptyTurn ==
  (ToldAsTurn /\ \E i \in Items : Said(i)) => HasContent

(* codex-response.ts:654-658: a client is never made to act on invented     *)
(* arguments: a call of a message has all of its arguments, or the upstream *)
(* has ended it without any.                                                *)
ArgumentsWhole ==
  answer = "message" =>
    \A e \in ToSet(Reply.content) :
      e.item \in Calls => Whole(e.text) \/ (e.text = <<>> /\ ended[e.item] > 0 /\ ~Said(e.item))

(* The translation of a stream ends once, and with it what the client is    *)
(* sent, which has an end if it has a beginning.  A stream that is cut off  *)
(* ends with an error; an earlier end of the translation's own, if there is *)
(* one, is right in front of it.                                            *)
EndsOf(fs) == {k \in DOMAIN fs : IsTerminal(fs[k])}

EndsOnce ==
  /\ EndsOf(frames) \subseteq {Len(frames)}
  /\ answer = "stream" => EndsOf(received) \subseteq {Len(received)} /\ (started => EndsOf(received) # {})
  /\ answer = "interrupted" /\ wantStream =>
       /\ Len(received) \in EndsOf(received)
       /\ EndsOf(received) \subseteq {Len(received) - 1, Len(received)}

(* A turn hides nothing the upstream said, invents nothing it did not, and  *)
(* ends once unless it is cut off behind its end.                           *)
TurnsEndTruly == NeverEmptyTurn /\ ArgumentsWhole /\ EndsOnce

(* codex-response.ts:544: "Guarding on `finished` prevents appending frames *)
(* after message_stop."  Not so for the client: flush() has the guard, but  *)
(* the handler's own error frame does not, and an upstream that breaks off  *)
(* behind its terminal event has it written behind the message_stop.        *)
NothingAfterMessageStop ==
  \A k \in DOMAIN received : received[k].type = "message_stop" => k = Len(received)

(* Reasoning goes along with the conversation: a call whose reasoning is    *)
(* still cached has in front of it all that the upstream had ended before   *)
(* it, no item goes twice, and none goes without a call that came after it; *)
(* and whatever was put and read again, the cache holds what fits, counted  *)
(* to the byte (reasoning-cache.ts:57-58, codex-response.ts:468-469).        *)
At(type) == {k \in DOMAIN input : input[k].type = type}
Before(call, k) == input[k].name \in preceded[input[call].name]

ReasoningGoesAlong ==
  /\ stage = "asked" =>
       /\ \A call \in At("function_call") : has(cache, input[call].name) =>
            \A r \in preceded[input[call].name] : \E k \in At("reasoning") : k < call /\ input[k].name = r
       /\ \A k \in At("reasoning") :
            /\ \A j \in At("reasoning") : input[j].name = input[k].name => j = k
            /\ \E call \in At("function_call") : k < call /\ Before(call, k)
  /\ Fits(cache.entries, cache.totalBytes)
  /\ cache.totalBytes = bytesOf(cache.entries)

(* codex-handler.ts:216-217: "With the controller set up here,              *)
(* getCredentials() is covered by both the close listener and the           *)
(* requestTimeoutMs total timer": an aborted request is over soon.  Not so: *)
(* the credentials are awaited without the signal.                          *)
AbortEndsTheWait == aborted ~> stage = "done"

=================================================================================

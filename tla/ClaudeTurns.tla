------------------------------- MODULE ClaudeTurns -------------------------------
(***************************************************************************)
(* Turns of Codex clients that the gateway answers with Claude: routing,   *)
(* continuation and streamClaude() of src/src/codex-gateway.ts, respond()  *)
(* and authorizedFetch() of claude-handler.ts, the replay handles of       *)
(* claude-state.ts as foldHistory() of claude-adapter.ts opens them, over  *)
(* the cache of claude-cache.ts.                                           *)
(*                                                                         *)
(* Code between two awaits is one action.  What Claude sends within a      *)
(* message is the subject of ClaudeStream: here a stream starts, stops or  *)
(* fails.  The client asked for a stream; it refers to earlier turns by    *)
(* previous_response_id or carries their items, each with its handle.      *)
(***************************************************************************)
EXTENDS FiniteSets, Naturals, Sequences, SequencesExt, ClaudeCache

CONSTANTS
  Turns,       (* the turns, numbered in the order they arrive              *)
  Models,      (* the Claude models that resolve                            *)
  MaxAdapted   (* BOUND: OpenAI responses that leave an adaptation marker   *)

ASSUME TurnsAssumption == Turns \subseteq Nat \ {0}

VARIABLES
  cache,    (* the ClaudeCache of the gateway                               *)
  turn,     (* the turns                                                    *)
  adapted,  (* how many markers were put                                    *)
  closed    (* CodexGateway.closed                                          *)

vars == <<cache, turn, adapted, closed>>

Stages == {"idle", "decoding", "auth", "fetch", "refresh", "streaming", "terminal", "ending", "done", "native"}
Running == {"auth", "fetch", "refresh", "streaming", "terminal", "ending"}

(* aborted: what the AbortSignals of the turn say.  ends: HISTORY, the frames *)
(* that end a stream.  saw: HISTORY, what the client was sent of the output.*)
(* An item stands for what a turn adds to a history: its turn, and whether  *)
(* all of the output is there.  carry: the items the client sends, input:   *)
(* those of the request, replayed: HISTORY, the turns whose handle gave     *)
(* Claude its thinking and calls back.                                      *)
Item(p, whole) == [turn |-> p, whole |-> whole]

NoTurn ==
  [stage |-> "idle", model |-> "none", prev |-> 0, carry |-> <<>>, generate |-> TRUE, attempt |-> 0,
   aborted |-> FALSE, res |-> "open", ends |-> <<>>, saw |-> "nothing", input |-> <<>>, replayed |-> {}]

Init ==
  /\ cache = EmptyCache
  /\ turn = [r \in Turns |-> NoTurn]
  /\ adapted = 0
  /\ closed = FALSE

Snapshot(r) == <<"snapshot", r>>
Replay(r) == <<"replay", r>>

(* What is left of a turn once its generators have returned.                *)
Over(t) == [t EXCEPT !.stage = "done", !.prev = 0, !.carry = <<>>, !.attempt = 0, !.aborted = FALSE, !.replayed = {}]

(* httpError(): a status when nothing was sent, a last frame when something *)
(* was, nothing for a client that has gone.                                 *)
HttpError(t) ==
  CASE t.res = "open" -> [Over(t) EXCEPT !.res = "ended"]
    [] t.res = "head" -> [Over(t) EXCEPT !.res = "ended", !.ends = Append(@, "failed")]
    [] OTHER -> Over(t)

Become(r, t) == turn' = [turn EXCEPT ![r] = t]

(***************************************************************************)
(* handleHttp()                                                            *)
(***************************************************************************)
Known == {p \in Turns : turn[p].saw # "nothing"}
Histories ==
  {h \in UNION {[1 .. n -> Known] : n \in 0 .. Cardinality(Known)} :
     \A i, j \in DOMAIN h : i < j => h[i] < h[j]}

(* What a client can send: a continuation of a response it knows, or items  *)
(* of earlier turns in their order; a model, or none, or another provider's.*)
Arrive(r) ==
  /\ turn[r].stage = "idle" /\ \A q \in Turns : q < r => turn[q].stage # "idle"
  /\ \E model \in Models \cup {"absent", "foreign"}, prev \in Known \cup {0}, said \in Histories, generate \in BOOLEAN :
       LET t == [NoTurn EXCEPT !.model = model, !.prev = prev, !.generate = generate,
                               !.carry = [i \in DOMAIN said |-> Item(said[i], turn[said[i]].saw = "whole")]] IN
       /\ prev = 0 \/ said = <<>>
       /\ prev # 0 \/ model # "absent"
       /\ Become(r, IF closed THEN HttpError(t) ELSE [t EXCEPT !.stage = "decoding"])
  /\ UNCHANGED <<cache, adapted, closed>>

(* destination(): the model that is named, or the one of the snapshot.      *)
Destination(t) ==
  CASE t.model \in Models -> t.model
    [] t.model = "absent" /\ Has(cache, Snapshot(t.prev)) -> Value(cache, Snapshot(t.prev)).model
    [] OTHER -> "parent"

FullInput(t) == IF t.prev # 0 THEN Value(cache, Snapshot(t.prev)).input ELSE t.carry

(* fullRequest() finds the snapshot, and it is of this model.               *)
HasContinuation(t, model) ==
  t.prev # 0 => Has(cache, Snapshot(t.prev)) /\ Value(cache, Snapshot(t.prev)).model = model

(* The items that come with a handle.                                       *)
Handles(t) == {item \in ToSet(FullInput(t)) : turn[item.turn].generate}

(* MUTANT: a handle that is gone is skipped.                                *)
ReplayableLoosely(t) ==
  \A item \in Handles(t) :
    Has(cache, Replay(item.turn)) => (Value(cache, Replay(item.turn)) = "whole" => item.whole)

(* foldHistory(): every handle opens, and what it replays is what follows.  *)
Replayable(t) ==
  \A item \in Handles(t) :
    Has(cache, Replay(item.turn)) /\ (Value(cache, Replay(item.turn)) = "whole" => item.whole)

(* What Claude is given back.                                               *)
Replayed(t) ==
  {item.turn : item \in {h \in Handles(t) : Has(cache, Replay(h.turn)) /\ Value(cache, Replay(h.turn)) = "whole"}}

(* Each get() counts as a use: of the snapshot, then of the handles up to   *)
(* the first one that fails; all are counted here.  An item without a       *)
(* handle has nothing in the cache.                                         *)
Used(t) ==
  TouchAll(IF t.prev # 0 THEN Touch(cache, Snapshot(t.prev)) ELSE cache,
           [i \in DOMAIN FullInput(t) |-> Replay(FullInput(t)[i].turn)])

SnapshotBytes(input) == 1 + Len(input)

(* After the body was decoded; `closed` is not looked at again.  A request  *)
(* with generate = false leaves a snapshot and is answered at once.         *)
Dispatch(r) ==
  LET t == turn[r]
      model == Destination(t) IN
  /\ t.stage = "decoding"
  /\ IF model = "parent"
     THEN /\ Become(r, IF t.prev # 0 THEN HttpError(t) ELSE [Over(t) EXCEPT !.stage = "native"])
          /\ cache' = cache
     ELSE IF ~HasContinuation(t, model)
     THEN Become(r, HttpError(t)) /\ cache' = Touch(cache, Snapshot(t.prev))
     ELSE IF ~t.generate
     THEN /\ Become(r, [Over(t) EXCEPT !.model = model, !.input = FullInput(t),
                          !.res = IF @ = "open" THEN "ended" ELSE @,
                          !.saw = IF t.res = "open" THEN "whole" ELSE @,
                          !.ends = IF t.res = "open" THEN <<"completed">> ELSE @])
          /\ cache' = Put(Touch(cache, Snapshot(t.prev)), Snapshot(r),
                          [model |-> model, input |-> Append(FullInput(t), Item(r, TRUE))],
                          SnapshotBytes(FullInput(t)))
     ELSE IF ~Replayable(t)
     THEN Become(r, HttpError(t)) /\ cache' = Used(t)
     ELSE /\ Become(r, [t EXCEPT !.stage = "auth", !.carry = <<>>, !.model = model, !.input = FullInput(t), !.replayed = Replayed(t)])
          /\ cache' = Used(t)
  /\ UNCHANGED <<adapted, closed>>

(***************************************************************************)
(* respond() and authorizedFetch()                                         *)
(***************************************************************************)
Aborted(r) == turn[r].aborted

(* getCredentials() or forceRefresh() has settled.                          *)
Authorized(r) ==
  /\ turn[r].stage \in {"auth", "refresh"}
  /\ \/ ~Aborted(r) /\ Become(r, [turn[r] EXCEPT !.stage = "fetch"])
     \/ Become(r, HttpError(turn[r]))
  /\ UNCHANGED <<cache, adapted, closed>>

(* The response: a first 401 is worth a refresh, another error is passed on,*)
(* a stream starts with an empty handle.                                    *)
Fetched(r) ==
  /\ turn[r].stage = "fetch" /\ ~Aborted(r)
  /\ \/ /\ turn[r].attempt = 0
        /\ Become(r, [turn[r] EXCEPT !.stage = "refresh", !.attempt = 1])
        /\ UNCHANGED cache
     \/ Become(r, HttpError(turn[r])) /\ UNCHANGED cache
     \/ /\ Become(r, [turn[r] EXCEPT !.stage = "streaming"])
        /\ cache' = Put(cache, Replay(r), "empty", 1)
  /\ UNCHANGED <<adapted, closed>>

(* message_start: the head and the handle reach the client.                 *)
Started(r) ==
  /\ turn[r].stage = "streaming" /\ turn[r].res = "open" /\ ~Aborted(r)
  /\ Become(r, [turn[r] EXCEPT !.res = "head", !.saw = "partial"])
  /\ UNCHANGED <<cache, adapted, closed>>

(* message_stop: the content goes into the handle before the last frames.   *)
(* Of a client that left while its body was decoded nobody has taken note.  *)
Stopped(r) ==
  /\ turn[r].stage = "streaming" /\ turn[r].res # "open" /\ ~Aborted(r)
  /\ Become(r, [turn[r] EXCEPT !.stage = "terminal"])
  /\ \E bytes \in {1, MaxBytes + 1} : cache' = Put(cache, Replay(r), "whole", bytes)
  /\ UNCHANGED <<adapted, closed>>

StreamFails(r) ==
  /\ turn[r].stage = "streaming" /\ ~Aborted(r)
  /\ Become(r, HttpError(turn[r]))
  /\ UNCHANGED <<cache, adapted, closed>>

SnapshotInput(r) == Append(turn[r].input, Item(r, TRUE))

(* The last frames, none of which waits for the upstream: the terminal one  *)
(* is passed on whatever was aborted, and a completed response is kept.     *)
Completed(r) ==
  /\ turn[r].stage = "terminal"
  /\ \E end \in {"completed", "incomplete"} :
       /\ Become(r, [turn[r] EXCEPT !.stage = "ending",
                       !.saw = IF turn[r].res = "head" THEN "whole" ELSE @,
                       !.ends = IF turn[r].res = "head" THEN Append(@, end) ELSE @])
       /\ cache' = IF end = "completed"
                   THEN Put(cache, Snapshot(r), [model |-> turn[r].model, input |-> SnapshotInput(r)],
                            SnapshotBytes(turn[r].input))
                   ELSE cache
  /\ UNCHANGED <<adapted, closed>>

(* The pipeline has settled: res.end()                                      *)
Ended(r) ==
  /\ turn[r].stage = "ending"
  /\ Become(r, [Over(turn[r]) EXCEPT !.res = IF @ = "head" THEN "ended" ELSE @])
  /\ UNCHANGED <<cache, adapted, closed>>

(* MUTANT: an abort after the terminal frame is reported as well.           *)
AbortSettlesAlways(r) ==
  /\ turn[r].stage \in {"fetch", "streaming", "ending"} /\ Aborted(r)
  /\ Become(r, HttpError(turn[r]))
  /\ UNCHANGED <<cache, adapted, closed>>

(* What is awaited rejects; after the terminal frame that is not an error.  *)
AbortSettles(r) ==
  /\ turn[r].stage \in {"fetch", "streaming"} /\ Aborted(r)
  /\ Become(r, HttpError(turn[r]))
  /\ UNCHANGED <<cache, adapted, closed>>

(***************************************************************************)
(* What ends a turn from outside.                                          *)
(***************************************************************************)
(* requestTimeoutMs or streamIdleTimeoutMs.                                 *)
Timeout(r) ==
  /\ turn[r].stage \in Running /\ ~Aborted(r)
  /\ Become(r, [turn[r] EXCEPT !.aborted = TRUE])
  /\ UNCHANGED <<cache, adapted, closed>>

(* 'close' of the response before it is finished.                           *)
ClientLeaves(r) ==
  /\ turn[r].stage \in Running \cup {"decoding"} /\ turn[r].res \in {"open", "head"}
  /\ Become(r, [turn[r] EXCEPT !.res = "gone", !.aborted = turn[r].stage # "decoding"])
  /\ UNCHANGED <<cache, adapted, closed>>

(* close(): the controllers that exist are aborted.                         *)
Close ==
  /\ ~closed
  /\ closed' = TRUE
  /\ turn' = [r \in Turns |-> [turn[r] EXCEPT !.aborted = @ \/ turn[r].stage \in Running]]
  /\ UNCHANGED <<cache, adapted>>

(* CodexUpstream.remember(): a marker takes part in the same budget.        *)
Adapt ==
  /\ adapted < MaxAdapted
  /\ adapted' = adapted + 1
  /\ cache' = Put(cache, <<"adapted", adapted'>>, "true", 1)
  /\ UNCHANGED <<turn, closed>>

-----------------------------------------------------------------------------
Step(r) ==
  \/ Dispatch(r) \/ Authorized(r) \/ Fetched(r) \/ Started(r) \/ Stopped(r)
  \/ StreamFails(r) \/ Completed(r) \/ Ended(r) \/ AbortSettles(r)

Next ==
  \/ \E r \in Turns : Arrive(r) \/ Step(r) \/ Timeout(r) \/ ClientLeaves(r)
  \/ Adapt \/ Close

Spec == Init /\ [][Next]_vars

-----------------------------------------------------------------------------
(* README.md:453: "Shared serialized UTF-8 byte ceiling": the one budget    *)
(* and its counter hold whatever is put, replaced, touched or evicted.      *)
CacheWithinBudget == WithinBudget(cache)

(* README.md:453: "evicted continuation/replay state returns 409": a turn   *)
(* is never sent to Claude with less than the history it refers to, with    *)
(* another model's history, or with thinking or calls of a turn that the    *)
(* client has not got.                                                      *)
ContinuationFailsClosed ==
  \A r \in Turns :
    LET t == turn[r] IN
    /\ (t.prev # 0 /\ t.stage \in Running) =>
         /\ t.input = Append(turn[t.prev].input, Item(t.prev, TRUE))
         /\ t.model = turn[t.prev].model
    /\ t.stage \in Running =>
         t.replayed = {item.turn : item \in {h \in ToSet(t.input) : turn[h.turn].generate /\ h.whole}}

(* A stream that was begun ends with one frame that says how, whatever      *)
(* races with the terminal event: a timer, the shutdown or an error.        *)
OneEnd ==
  \A r \in Turns :
    /\ Len(turn[r].ends) <= 1
    /\ (turn[r].res = "ended" /\ turn[r].saw # "nothing") => Len(turn[r].ends) = 1

=================================================================================

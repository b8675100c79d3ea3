------------------------------ MODULE ClaudeStream ------------------------------
(***************************************************************************)
(* Translation of one Anthropic message stream into the events of the      *)
(* Responses API: translateClaudeStream() and emitTerminal() of            *)
(* src/src/claude-stream.ts with reverseResponse() and reverseEvents() of  *)
(* claude-adapter.ts.                                                      *)
(*                                                                         *)
(* The upstream may send any event next; one that the translation refuses  *)
(* in the state it is in ends the stream (Fail), and so may a malformed    *)
(* one, an overlong one or an aborted connection at any time.  A block     *)
(* stands for its identity, a text for its number of deltas.  What the     *)
(* client was sent is kept as the set of places its frames name.           *)
(***************************************************************************)
EXTENDS FiniteSets, Naturals, Sequences, SequencesExt

CONSTANTS
  MaxBlocks,  (* BOUND: content blocks of a message                         *)
  MaxDeltas,  (* BOUND: deltas of a text block                              *)
  CallIds     (* the ids of tool_use blocks                                 *)

ASSUME BoundsAssumption == MaxBlocks \in Nat /\ MaxDeltas \in Nat

VARIABLES
  phase,      (* StreamPhase, or "failed"                                   *)
  blocks,     (* the content blocks so far                                  *)
  toolSeen,
  nextOutput, (* the next output_index                                      *)
  stopReason,
  added,      (* the items of output_item.added: <<id, kind, output_index>> *)
  done,       (* the items of output_item.done                              *)
  deltas,     (* how many text deltas were sent for each block              *)
  final,      (* the output of the terminal response, in order              *)
  committed   (* the blocks whose content the replay handle was given       *)

client == <<added, done, deltas, final>>
streamVars == <<phase, blocks, toolSeen, nextOutput, stopReason, client, committed>>

(* The id of the reasoning item that carries the replay handle.             *)
Reasoning == 0
Types == {"text", "tool_use", "thinking"}
Block ==
  [type : Types, open : BOOLEAN, streamed : BOOLEAN, text : 0 .. MaxDeltas,
   outputIndex : 0 .. MaxBlocks, call : CallIds]
StopReasons == {"none", "end_turn", "tool_use", "max_tokens", "refusal", "other"}
Places == (0 .. MaxBlocks) \X (Types \cup {"reasoning"}) \X (0 .. MaxBlocks)

(* Numbers in their order, and the blocks of some types in theirs.          *)
Ordered(s) == \A m, n \in DOMAIN s : m < n => s[m] < s[n]
InOrder(S) == CHOOSE s \in [1 .. Cardinality(S) -> S] : ToSet(s) = S /\ Ordered(s)
Of(types) == InOrder({i \in DOMAIN blocks : blocks[i].type \in types})

StreamInit ==
  /\ phase = "awaiting_start"
  /\ blocks = <<>>
  /\ toolSeen = FALSE
  /\ nextOutput = 1
  /\ stopReason = "none"
  /\ added = {} /\ done = {} /\ final = <<>>
  /\ deltas = [i \in 1 .. MaxBlocks |-> 0]
  /\ committed = <<>>

(* The head of the response, and the replay handle as its first item.       *)
MessageStart ==
  /\ phase = "awaiting_start"
  /\ phase' = "streaming"
  /\ added' = {<<Reasoning, "reasoning", 0>>} /\ done' = added'
  /\ UNCHANGED <<blocks, toolSeen, nextOutput, stopReason, deltas, final, committed>>

(* MUTANT: a text behind a tool call is streamed as well.                   *)
IsStreamedAlways(type) == type = "text"

(* Text is shown at once until the first tool call.                         *)
IsStreamed(type) == type = "text" /\ ~toolSeen

(* MUTANT: a thinking block takes an output_index.                          *)
TakesOutputAll(type) == TRUE

TakesOutput(type) == type \in {"text", "tool_use"}

BlockStart(type, call) ==
  /\ phase = "streaming" /\ Len(blocks) < MaxBlocks
  /\ blocks' = Append(blocks,
       [type |-> type, open |-> TRUE, streamed |-> IsStreamed(type), text |-> 0,
        outputIndex |-> IF TakesOutput(type) THEN nextOutput ELSE 0, call |-> call])
  /\ toolSeen' = (toolSeen \/ type = "tool_use")
  /\ nextOutput' = IF TakesOutput(type) THEN nextOutput + 1 ELSE nextOutput
  /\ added' = IF IsStreamed(type) THEN added \cup {<<Len(blocks) + 1, "text", nextOutput>>} ELSE added
  /\ UNCHANGED <<phase, stopReason, done, deltas, final, committed>>

(* Deltas of tool input and of thinking only add to their block.            *)
TextDelta(i) ==
  /\ phase = "streaming" /\ i \in DOMAIN blocks
  /\ blocks[i].open /\ blocks[i].type = "text" /\ blocks[i].text < MaxDeltas
  /\ blocks' = [blocks EXCEPT ![i].text = @ + 1]
  /\ deltas' = IF blocks[i].streamed THEN [deltas EXCEPT ![i] = @ + 1] ELSE deltas
  /\ UNCHANGED <<phase, toolSeen, nextOutput, stopReason, added, done, final, committed>>

BlockStop(i) ==
  /\ phase = "streaming" /\ i \in DOMAIN blocks /\ blocks[i].open
  /\ blocks' = [blocks EXCEPT ![i].open = FALSE]
  /\ UNCHANGED <<phase, toolSeen, nextOutput, stopReason, client, committed>>

MessageDelta(reason) ==
  /\ phase = "streaming"
  /\ stopReason' = reason
  /\ UNCHANGED <<phase, blocks, toolSeen, nextOutput, client, committed>>

(***************************************************************************)
(* message_stop: emitTerminal()                                            *)
(***************************************************************************)
Incomplete == stopReason = "max_tokens"
EndReason == IF Incomplete \/ stopReason = "refusal" THEN "end_turn" ELSE stopReason

(* The blocks of the message that count: all, or its texts when truncated.  *)
Content == IF Incomplete THEN Of({"text"}) ELSE Of(Types)

Valid ==
  LET calls == {i \in ToSet(Content) : blocks[i].type = "tool_use"} IN
  /\ \A i \in DOMAIN blocks : ~blocks[i].open
  /\ EndReason \in {"end_turn", "tool_use"}
  /\ \A i, j \in calls : blocks[i].call = blocks[j].call => i = j
  /\ (EndReason = "tool_use") = (calls # {})

(* The output items of reverseResponse() after the reasoning item; an item  *)
(* keeps the id its block was announced with.                               *)
Output == InOrder({i \in ToSet(Content) : blocks[i].type # "thinking"})

(* The frames of reverseEvents() that the client has not had: everything of *)
(* an item that was not streamed, the end of one that was.                  *)
MessageStop ==
  /\ phase = "streaming"
  /\ Valid
  /\ phase' = "finished"
  /\ LET place(n) == <<Output[n], blocks[Output[n]].type, n>>
         shown == {i \in ToSet(Output) : blocks[i].streamed} IN
       /\ added' = added \cup {place(n) : n \in {m \in DOMAIN Output : Output[m] \notin shown}}
       /\ done' = done \cup {place(n) : n \in DOMAIN Output}
       /\ deltas' = [i \in 1 .. MaxBlocks |->
                       IF i \in ToSet(Output) \ shown THEN blocks[i].text ELSE deltas[i]]
  /\ final' = Output
  /\ committed' = Content
  /\ UNCHANGED <<blocks, toolSeen, nextOutput, stopReason>>

(* Any other event, a malformed one, too many bytes, the end of the stream, *)
(* an abort: the generator throws.                                          *)
Fail ==
  /\ phase \in {"awaiting_start", "streaming"}
  /\ phase' = "failed"
  /\ UNCHANGED <<blocks, toolSeen, nextOutput, stopReason, client, committed>>

StreamNext ==
  \/ MessageStart \/ MessageStop \/ Fail
  \/ \E type \in Types, call \in CallIds : BlockStart(type, call)
  \/ \E i \in 1 .. MaxBlocks : TextDelta(i) \/ BlockStop(i)
  \/ \E reason \in StopReasons \ {"none"} : MessageDelta(reason)

StreamSpec == StreamInit /\ [][StreamNext]_streamVars

-----------------------------------------------------------------------------
(* All frames about an item name one place of the response, and no two      *)
(* items share a place, although the places of streamed items are given     *)
(* before it is known which blocks the response will hold.                  *)
ItemsKeepTheirPlace ==
  \A x, y \in added \cup done : (x[1] = y[1]) = (x[3] = y[3])

(* A response that ends well has closed every item it opened, lists them in *)
(* the order of their places, and every text was sent to its last delta;    *)
(* and what can be replayed is what the client was given.                   *)
TerminalIsWhole ==
  phase = "finished" =>
    /\ added = done
    /\ \A x \in done \ {<<Reasoning, "reasoning", 0>>} : x[3] \in DOMAIN final /\ final[x[3]] = x[1]
    /\ Cardinality(done) = Len(final) + 1
    /\ \A i \in ToSet(final) : blocks[i].type = "text" => deltas[i] = blocks[i].text
    /\ ToSet(final) = {i \in ToSet(committed) : blocks[i].type # "thinking"}
    /\ Ordered(final) /\ Ordered(committed)

(* claude-stream.ts:30: "executable calls commit only at message_stop": the *)
(* client sees no tool call before the message is whole, and none of a      *)
(* message that was truncated or whose blocks were not closed.              *)
CallsOnlyWhenWhole ==
  (\E x \in added \cup done : x[2] = "tool_use") =>
    /\ phase = "finished" /\ ~Incomplete
    /\ \A i \in DOMAIN blocks : ~blocks[i].open

(* A client is told of an end, and given calls to execute, only for a       *)
(* message that is whole, and then of all of it.                            *)
EndIsWhole == TerminalIsWhole /\ CallsOnlyWhenWhole

=================================================================================

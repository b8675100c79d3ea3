------------------------------- MODULE CodexStream -------------------------------
(***************************************************************************)
(* Translation of one stream of the Responses API into Anthropic frames,   *)
(* createAnthropicSseTranslator() of src/src/codex-response.ts, and the    *)
(* message aggregateFrames() folds those frames into for a client that did *)
(* not ask for a stream.                                                   *)
(*                                                                         *)
(* Of the upstream it is only assumed that the events of one item keep     *)
(* their order: an announcement, deltas, the end.  Any of them may be      *)
(* missing or, but for deltas, repeated.  A delta stands for its number;   *)
(* the arguments of a call parse when all of its deltas are there.         *)
(* Reasoning gets no frames: its items are kept in the cache for the calls  *)
(* that follow them.                                                        *)
(***************************************************************************)
EXTENDS FiniteSets, ReasoningCache

CONSTANTS
  Messages,    (* the items of type message                                 *)
  Calls,       (* the items of type function_call                           *)
  Thoughts,    (* the reasoning items of the stream, in their order         *)
  MaxBlocks,   (* MAX_CONTENT_BLOCKS                                        *)
  Parts,       (* BOUND: deltas of an item                                  *)
  Repeated     (* BOUND: the items that may be announced or ended twice     *)

ASSUME StreamAssumption ==
  MaxBlocks \in Nat /\ Parts \in Nat /\ Messages \cap Calls = {} /\ Thoughts \in Seq(DOMAIN Weight)

VARIABLES
  announced, sent, ended,  (* what the upstream has sent of each item       *)
  started, finished, sawFunctionCall, sawUnmatchedDelta,
  blocks,   (* blockIndexByKey and nextBlockIndex: the item of each block   *)
  openBlocks, blocksWithContent,
  frames,   (* what was pushed                                              *)
  reasoningItems,
  cache

upstream == <<announced, sent, ended>>
stream == <<upstream, started, finished, sawFunctionCall, sawUnmatchedDelta, blocks, openBlocks, blocksWithContent, frames, reasoningItems>>

Ordered(s) == \A i, j \in DOMAIN s : i < j => s[i] < s[j]
InOrder(S) == CHOOSE s \in [1 .. Cardinality(S) -> S] : ToSet(s) = S /\ Ordered(s)

Items == Messages \cup Calls
Times(i) == IF i \in Repeated THEN 2 ELSE 1
Frame(type, index, part) == [type |-> type, index |-> index, part |-> part]
IsTerminal(f) == f.type \in {"message_stop", "error"}

StreamInit ==
  /\ announced = [i \in Items |-> 0] /\ sent = [i \in Items |-> 0] /\ ended = [i \in Items |-> 0]
  /\ started = FALSE /\ finished = FALSE /\ sawFunctionCall = FALSE /\ sawUnmatchedDelta = FALSE
  /\ blocks = <<>> /\ openBlocks = {} /\ blocksWithContent = {}
  /\ frames = <<>> /\ reasoningItems = <<>>

(* The translator of another stream.                                        *)
NewStream ==
  /\ announced' = [i \in Items |-> 0] /\ sent' = [i \in Items |-> 0] /\ ended' = [i \in Items |-> 0]
  /\ started' = FALSE /\ finished' = FALSE /\ sawFunctionCall' = FALSE /\ sawUnmatchedDelta' = FALSE
  /\ blocks' = <<>> /\ openBlocks' = {} /\ blocksWithContent' = {}
  /\ frames' = <<>> /\ reasoningItems' = <<>>

Known(i) == i \in ToSet(blocks)
Index(i) == CHOOSE k \in DOMAIN blocks : blocks[k] = i

(* ensureStarted() and then the frames of the event.                        *)
PushStarted(more) ==
  /\ started' = TRUE
  /\ frames' = frames \o (IF started THEN <<>> ELSE <<Frame("message_start", 0, 0)>>) \o more

Created ==
  /\ ~finished /\ ~started
  /\ PushStarted(<<>>)
  /\ UNCHANGED <<upstream, finished, sawFunctionCall, sawUnmatchedDelta, blocks, openBlocks, blocksWithContent, reasoningItems, cache>>

(* response.output_item.added: an item that is known gets no second block.  *)
Added(i) ==
  /\ ~finished /\ announced[i] < Times(i)
  /\ announced[i] = 0 => sent[i] = 0 /\ ended[i] = 0
  /\ announced' = [announced EXCEPT ![i] = @ + 1]
  /\ CASE Known(i) ->
            PushStarted(<<>>) /\ UNCHANGED <<finished, sawFunctionCall, blocks, openBlocks>>
       [] ~Known(i) /\ Len(blocks) >= MaxBlocks ->
            /\ PushStarted(<<Frame("error", 0, 0)>>)
            /\ finished' = TRUE
            /\ UNCHANGED <<sawFunctionCall, blocks, openBlocks>>
       [] OTHER ->
            /\ PushStarted(<<Frame("content_block_start", Len(blocks) + 1, i)>>)
            /\ blocks' = Append(blocks, i)
            /\ openBlocks' = openBlocks \cup {Len(blocks) + 1}
            /\ sawFunctionCall' = (sawFunctionCall \/ i \in Calls)
            /\ UNCHANGED finished
  /\ UNCHANGED <<sent, ended, sawUnmatchedDelta, blocksWithContent, reasoningItems, cache>>

(* response.output_text.delta, response.function_call_arguments.delta       *)
Delta(i) ==
  /\ ~finished /\ sent[i] < Parts /\ ended[i] = 0
  /\ sent' = [sent EXCEPT ![i] = @ + 1]
  /\ IF Known(i)
     THEN /\ frames' = Append(frames, Frame("content_block_delta", Index(i), sent'[i]))
          /\ blocksWithContent' = blocksWithContent \cup {Index(i)}
          /\ UNCHANGED sawUnmatchedDelta
     ELSE sawUnmatchedDelta' = TRUE /\ UNCHANGED <<frames, blocksWithContent>>
  /\ UNCHANGED <<announced, ended, started, finished, sawFunctionCall, blocks, openBlocks, reasoningItems, cache>>

(* onReasoningItems(): a call takes a copy of what was buffered so far.     *)
KeepReasoning(i) ==
  IF i \in Calls /\ reasoningItems # <<>> THEN put(cache, i, reasoningItems) ELSE cache

(* response.output_item.done of an item of reasoning                        *)
Reasoned ==
  /\ ~finished /\ Len(reasoningItems) < Len(Thoughts)
  /\ reasoningItems' = Append(reasoningItems, Thoughts[Len(reasoningItems) + 1])
  /\ UNCHANGED <<upstream, started, finished, sawFunctionCall, sawUnmatchedDelta, blocks, openBlocks,
                 blocksWithContent, frames, cache>>

(* response.output_item.done: the text that it repeats is not looked at, so *)
(* the item is one whose deltas were all sent.                              *)
Done(i) ==
  /\ ~finished /\ ended[i] < Times(i)
  /\ ended' = [ended EXCEPT ![i] = @ + 1]
  /\ i \in Calls /\ sent[i] > 0 => sent[i] = Parts
  /\ cache' = KeepReasoning(i)
  /\ IF Known(i)
     THEN /\ frames' = Append(frames, Frame("content_block_stop", Index(i), 0))
          /\ openBlocks' = openBlocks \ {Index(i)}
     ELSE UNCHANGED <<frames, openBlocks>>
  /\ UNCHANGED <<announced, sent, started, finished, sawFunctionCall, sawUnmatchedDelta, blocks, blocksWithContent,
                 reasoningItems>>

(* reconcileOpenBlocks(): the blocks that are ended on the upstream's       *)
(* behalf.                                                                  *)
Reconciled == openBlocks \cap blocksWithContent

(* MUTANT: what could not be placed is forgotten.                           *)
NothingLost == FALSE

(* All of the content was dropped: an error, and none of the last frames.   *)
AllLost == sawUnmatchedDelta /\ blocksWithContent = {}

LastFrames ==
  IF AllLost THEN <<Frame("error", 0, 0)>>
  ELSE LET order == InOrder(Reconciled) IN
       [k \in DOMAIN order |-> Frame("content_block_stop", order[k], 0)]
       \o <<Frame("message_delta", 0, 0), Frame("message_stop", 0, 0)>>

(* response.completed, response.incomplete                                  *)
Completed ==
  /\ ~finished /\ finished' = TRUE
  /\ PushStarted(LastFrames)
  /\ openBlocks' = {}
  /\ UNCHANGED <<upstream, sawFunctionCall, sawUnmatchedDelta, blocks, blocksWithContent, reasoningItems, cache>>

(* response.failed, error                                                   *)
Failed ==
  /\ ~finished /\ finished' = TRUE
  /\ PushStarted(<<Frame("error", 0, 0)>>)
  /\ UNCHANGED <<upstream, sawFunctionCall, sawUnmatchedDelta, blocks, openBlocks, blocksWithContent, reasoningItems, cache>>

Truncated == ~finished

(* flush(): the upstream has ended.  A stream that never said that it was   *)
(* over is passed for one that reached max_tokens if it carried content,    *)
(* and one that had not even begun is left empty.                           *)
Flush ==
  /\ frames' = frames \o
       (IF ~Truncated THEN <<>>
        ELSE IF blocksWithContent # {} THEN LastFrames
        ELSE IF started THEN <<Frame("error", 0, 0)>> ELSE <<>>)
  /\ openBlocks' = IF Truncated /\ blocksWithContent # {} THEN {} ELSE openBlocks
  /\ UNCHANGED <<upstream, started, finished, sawFunctionCall, sawUnmatchedDelta, blocks, blocksWithContent, reasoningItems,
                 cache>>

Translate ==
  \/ Created \/ Reasoned \/ Completed \/ Failed
  \/ \E i \in Items : Added(i) \/ Delta(i) \/ Done(i)

-----------------------------------------------------------------------------
(***************************************************************************)
(* aggregateFrames()                                                       *)
(***************************************************************************)
(* live: the blocks that have begun and not ended, each with its deltas.    *)
Nothing == [kind |-> "none", live |-> <<>>, content |-> <<>>]

Whole(text) == text = [n \in 1 .. Parts |-> n]

Begin(m, k, item) ==
  [m EXCEPT !.live = [j \in DOMAIN m.live \cup {k} |-> IF j = k THEN [item |-> item, text |-> <<>>] ELSE m.live[j]]]

(* content_block_stop: the arguments of a call must parse; none at all are  *)
(* taken for an empty object.                                               *)
Settle(m, k) ==
  IF m.live[k].item \in Calls /\ m.live[k].text # <<>> /\ ~Whole(m.live[k].text)
  THEN [m EXCEPT !.kind = "unparseable"]
  ELSE [m EXCEPT !.live = [j \in DOMAIN m.live \ {k} |-> m.live[j]], !.content = Append(@, m.live[k])]

Absorb(m, f) ==
  IF m.kind \in {"unparseable", "error"} THEN m
  ELSE CASE f.type = "message_start" -> [m EXCEPT !.kind = "message"]
         [] f.type = "content_block_start" -> Begin(m, f.index, f.part)
         [] f.type = "content_block_delta" /\ f.index \in DOMAIN m.live ->
              [m EXCEPT !.live[f.index].text = Append(@, f.part)]
         [] f.type = "content_block_stop" /\ f.index \in DOMAIN m.live -> Settle(m, f.index)
         [] f.type = "error" -> [m EXCEPT !.kind = "error"]
         [] OTHER -> m

(* The message after each of the frames.                                    *)
Absorbing(fs) ==
  LET after[n \in 0 .. Len(fs)] == IF n = 0 THEN Nothing ELSE Absorb(after[n - 1], fs[n])
  IN after

Absorbed(fs) == Absorbing(fs)[Len(fs)]

(* A block with content that was never ended is an error, too.              *)
Aggregate ==
  LET m == Absorbed(frames) IN
  IF m.kind = "message" /\ \E k \in DOMAIN m.live : m.live[k].text # <<>> THEN [m EXCEPT !.kind = "unclosed"] ELSE m

=================================================================================

------------------------------- MODULE CodexRequest -------------------------------
(***************************************************************************)
(* translateRequest() of src/src/codex-request.ts: what a client holds of a *)
(* conversation becomes the input of a request to the Responses API, which  *)
(* keeps nothing itself (store: false).  A block is its type and a name;    *)
(* instructions, tools, effort and the conversation key are left out.       *)
(***************************************************************************)
EXTENDS ReasoningCache

Item(type, name) == [type |-> type, name |-> name]

(* The InputBuilder and the texts that were not pushed yet.                 *)
Builder(cache) == [items |-> <<>>, pendingTexts |-> <<>>, warnings |-> {}, cache |-> cache]

push(b, items) == [b EXCEPT !.items = @ \o items]

pushMessageItem(b, role) ==
  IF b.pendingTexts = <<>> THEN b
  ELSE [push(b, <<Item("message", role)>>) EXCEPT !.pendingTexts = <<>>]

reasoningIn(items) == {items[k].name : k \in {j \in DOMAIN items : items[j].type = "reasoning"}}

inject(b, item) == IF item \in reasoningIn(b.items) THEN b ELSE push(b, <<Item("reasoning", item)>>)

(* MUTANT: an item that two calls share goes along with each of them.       *)
injectTwice(b, callId) ==
  IF ~has(b.cache, callId) THEN [b EXCEPT !.warnings = @ \cup {"reasoning_cache_miss"}]
  ELSE [push(b, [k \in DOMAIN itemsOf(b.cache, callId) |-> Item("reasoning", itemsOf(b.cache, callId)[k])])
          EXCEPT !.cache = get(@, callId)]

(* What preceded a call goes along with it, but only once in a request.     *)
injectReasoningItems(b, callId) ==
  IF ~has(b.cache, callId) THEN [b EXCEPT !.warnings = @ \cup {"reasoning_cache_miss"}]
  ELSE LET items == itemsOf(b.cache, callId)
           after[n \in 0 .. Len(items)] ==
             IF n = 0 THEN [b EXCEPT !.cache = get(@, callId)] ELSE inject(after[n - 1], items[n])
       IN after[Len(items)]

translateBlock(b, role, block) ==
  CASE block.type = "text" -> [b EXCEPT !.pendingTexts = Append(@, block.name)]
    [] block.type = "tool_use" /\ role = "assistant" ->
         push(injectReasoningItems(pushMessageItem(b, role), block.name), <<Item("function_call", block.name)>>)
    [] block.type = "tool_result" /\ role = "user" ->
         push(pushMessageItem(b, role), <<Item("function_call_output", block.name)>>)
    [] OTHER -> [b EXCEPT !.warnings = @ \cup {"unsupported_block_dropped"}]

(* translateUserMessage(), translateAssistantMessage()                      *)
translateMessage(b, message) ==
  LET after[n \in 0 .. Len(message.content)] ==
        IF n = 0 THEN b ELSE translateBlock(after[n - 1], message.role, message.content[n])
  IN pushMessageItem(after[Len(message.content)], message.role)

translateRequest(cache, messages) ==
  LET after[n \in 0 .. Len(messages)] ==
        IF n = 0 THEN Builder(cache) ELSE translateMessage(after[n - 1], messages[n])
  IN after[Len(messages)]

===================================================================================

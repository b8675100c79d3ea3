# A TLA+ model of subswitch

subswitch is a local relay. Claude Code talks to it as if it were Anthropic, the
Codex CLI as if it were OpenAI, and a model name decides which vendor answers.
It is one Node process: callbacks run to completion and interleave at every
`await`, listener and timer. What is hard about it is therefore never a data
race; it is what happens *between* two callbacks, and which of two late events
comes first. The modules here are about that.

Sources are named relative to `src/src/`. A module's header says which code it
stands for; `PROJECT.json` maps every definition to its lines.

## The system

| Component | State it keeps | Operations | Talks to |
|---|---|---|---|
| upgrade budget, `websocket-budget.ts` | `active`, `waiting`, `closed` | `run`, `drain`, the `close` listener, `close` | calls the callers' `start()` from inside its loop |
| upgrades, `codex-ws.ts`, `openai-passthrough.ts` | pending upgrades, WebSocket clients, raw tunnels | `upgrade`, `upgradeReady`, the handshake's listeners, `close` | the budget, native credentials, the upstream |
| bridge, `codex-ws.ts` | names of running generations, the promise chain of upstream messages | client message, cancel, upstream message, both `close`s | the gateway's generators |
| Codex credentials, `codex-auth.ts` | cached token, refresh in flight, time of the last forced refresh | `getCredentials`, `forceRefresh` | `auth.json`, which the Codex CLI also writes; the token endpoint |
| Claude credentials, `claude-auth.ts` | refresh in flight, token served last, cooldown | `getCredentials`, `forceRefresh` | the keychain or file Claude Code also writes |
| raw forwarder, `raw-http-passthrough.ts`, `tcp-connect.ts`, `codex-upstream.ts` | per exchange: the latch `settled`, the two streams; the agent's line | `forward`, error, timeout, both `close`s, response hooks, `close` | server, gateway, agent |
| Claude stream translation, `claude-stream.ts`, `claude-adapter.ts` | phase, blocks, next `output_index`, tool seen | one operation per event | gateway, replay handle |
| Claude cache and handles, `claude-cache.ts`, `claude-state.ts` | entries in order of use, byte counter | `put`, `get`, `begin`, `commit`, `open` | shared by snapshots, replay and adaptation markers |
| turns answered by Claude, `codex-gateway.ts`, `claude-handler.ts` | controllers, closed | dispatch, credentials, fetch, stream, end, abort, `close` | all of the above |
| Codex stream translation, `codex-response.ts` | blocks by key, open blocks, blocks with content, finished | one operation per event, `flush`, aggregation | handler |
| requests answered by Codex, `codex-handler.ts` | attempt, AbortController, timers | `handleMessages` | Codex credentials, translation |
| reasoning cache and request translation, `reasoning-cache.ts`, `codex-request.ts` | an LRU of reasoning items with a byte counter | `put`, `get`, injection into a request | filled by the stream translation, read by the handler |
| names and routing, `models.ts`, `router.ts`, `claude-models.ts`, `agent-scan.ts` | two tables, built when `serve` starts | `buildRoutingTable`, `resolveModel`, `claudeResolver`, the lists shown to users | server, gateway, `models`, `doctor` |
| server and inbound policy, `server.ts`, `inbound-policy.ts` | a connection: its request, what was written, the reader of the upload | dispatch, body reading, parser errors, drains | everything that answers a request |
| setup and configuration, `init.ts`, `codex-init.ts`, `config.ts`, `upstream-policy.ts` | five files | plan, ordered atomic writes, `loadConfig`, the checks of `serve` | the files of Codex and Claude Code |
| tool namespaces, doctor, CLI, logging, types | none that anything races with | | not modelled |

What makes each one correct, and which behaviours are hard, is the list of
hazards in `PROJECT.json`; the properties below answer it.

## The modules

### Upgrades of the native Codex ingress

`WebSocketBudget` is `websocket-budget.ts`. A call of `run()`, the `close`
listener and `close()` are one step each; the loop of `drain()` is a step per
iteration, because each iteration runs foreign code. A destroyed socket emits
`close` in a later turn, so `"destroyed"` and `"gone"` are two states.
`BoundedSlots` says what such a budget promises, and `ImplementsSlots` that this
one keeps it. `WebSocketBudgetProofs` proves it.

`CodexUpgrade` composes the budget (`INSTANCE`) with the life of an upgrade:
waiting for a slot, waiting for credentials, the dial, an HTTP rejection, the
one refresh after a 401, the bridge or the raw tunnel, and the shutdown that
walks three registries. `ImplementsBudget` checks that it uses the budget only
in the ways `WebSocketBudget` knows; `close()` of the gateway, which destroys
sockets through its registries and through the budget, is a step `Close` of the
budget.

`CodexBridge` begins where an upgrade ends in `bridge()`: streams of one
connection, OpenAI requests that go to the upstream, Claude requests answered by
generators, cancels, and the ordered queue of what the upstream sends. Its
specification is `BridgeSpec`. `CodexWsProofs` proves the safety properties of both
modules, over the theorems of the budget.

### Credentials

`CredentialFile` is the world the two managers live in: a file, a server that
may use up a refresh token when it rotates it, and the vendor's CLI, which takes
a grant in one step and writes it in a later one, logs in anew, and may find the
file damaged. Tokens are numbered in the order of their grants.

`CodexAuth` and `ClaudeAuth` are the managers. A step is what runs between two
awaits. The first caller that needs a refresh owns the cycle; the others wait
for its promise. In `CodexAuth` a `Restart` ends the process at any await and keeps
the file; `ClaudeAuth` keeps nothing between two calls that a restart could lose
except the cycle itself, which a lost answer stands for. `CodexAuthProofs` and
`ClaudeAuthProofs` prove their safety properties, those about the server's set of
live tokens among them.

### Requests of the raw path

`RawForward` is one exchange per client request, with the agent's line of
requests for a bounded number of sockets. Each exchange is a record; what a
handler calls (`settle()`, `upstream.destroy()`, `drainRejectedUpload()`) is an
operator on that record, so that handlers compose calls as the code does. The
response hooks of `codex-upstream.ts` are part of it, because they decide who
ends a response. Its specification is `ForwardSpec`; `HttpProofs` proves its safety
properties, and those of the server below.

### Codex clients answered by Claude

`ClaudeStream` translates one message stream: whatever sequence of events the
upstream sends, including malformed ones. `ClaudeCache` is the cache as a value
with `Put` and `Touch`. `ClaudeTurns` is a turn as a whole, with its timers, its
client and the shutdown, over that cache: routing, continuation by
`previous_response_id`, replay handles, the 401 retry and the end of the stream.
What the cache computes over its entries (the sum of their bytes, a series of
touches) is a recursive function over positions, so that it can be reasoned about.
`ClaudeProofs` proves the safety properties of the turns over the cache and of the
translation (`StreamSpec`).

### Claude Code answered by Codex

`CodexStream` translates Responses events, with announcements and ends that may
be missing or repeated, into frames, and aggregates frames into a message.
`ReasoningCache` is the cache as a value with `put` and `get`; the byte counter
is kept as the code keeps it, beside the entries. `CodexRequest` is the
translation of a conversation into the input of a request, block after block with
the cache handed on, since reading an entry makes it the one used last. These
iterations are recursive functions over positions, for the proofs' sake.
`CodexHandler` is the request around them: translation, credentials, fetch,
retry, timers, abort, and both kinds of answer; then the client's next request,
up to its translation. `attemptsLeft` is `maxAttempts - attempt`. `CodexTurnProofs`
proves the properties of the turn and of the cache.

### Names

`ModelRouting` is the routing table of the forward leg as operators:
`selectFamilyWinners`, `buildRoutingTable` with the order in which its maps are
filled, `resolveModel` with its five rules, the rows `subswitch models` shows and
the finding of `doctor` for the model of an agent file. `ClaudeNames` is the
reverse leg: `claudeResolver`, the checks of its aliases, the list of models that
Codex is given and the route. A name is a sequence of words, the parts between
colons, so that `codex:sol` and an alias spelled that way are the same name. The
declarations are taken one after the other by recursive functions over their
positions, and the maps that the code fills step by step are functions, one atop
the other, for the proofs' sake.

`NameEdits` is their life: an alias is declared or dropped, a release adds a
model or retires one, and `serve` starts again with both tables rebuilt. `ConfigProofs` proves its three
properties.

### The server

`Server` follows one keep-alive connection and the requests that use it in turn:
the gates, the body read in pieces, the prefix that is replayed when a body
outgrows the window or its declared length does, the route, whoever answers and
when, a handler that throws, `drainRejectedUpload()`, and the parser's
`clientError` with the count of bytes that decides whether a reply may be
written. Microtasks that follow an event are part of the event's action. The
forwarders and handlers are seen only by what they do to the response and to the
upload; `RawForward`, `CodexHandler` and `ClaudeTurns` are their inside.
`HttpProofs` proves the safety properties.

### Setup

`Setup` has five files: the user's and the project's configuration, Codex's
`config.toml` and the two settings files of Claude Code. `init` reads them, plans
its writes or refuses, and replaces the files one at a time. A write that fails
and a process that dies between two writes are the same action `WriteFails`.
Between two commands the user points `config.toml` at another upstream, opts in
to foreign upstreams or signs in otherwise. What `serve` would make of the files
(`loadConfig`, the merge, the rejected keys, the vetting of upstreams) are
operators, and the properties compare the two readings. `ConfigProofs` proves all
four of them.

## What each run checks

Every `MC` module holds constants and symmetry only, and defines no property.
`MCClaude` also puts the turns and the translation of their streams side by side in one
specification: they share no state, so a behaviour moves one of the two.

| Run | Bounds | Properties |
|---|---|---|
| `budget` | 3 sockets, 1 slot | `BoundHolds`, `NoLeakedSlot`, `NoIdleSlot`, `WaitersServed`, `ImplementsSlots` |
| `upgrade` | 3 sockets (one may refresh, one may not, one is raw), 1 slot | `OneAnswer`, `NothingOutOfReach`, `ShutdownQuiesces`, `ImplementsBudget` |
| `bridge` | 2 streams, 3 Claude requests, 2 upstream messages | `NamesAreLive`, `NobodyRunsUntold`, `UpstreamIsRelayed`, `GenerationsEnd` |
| `codex_auth` | 2 callers, 3 grants | `SingleFlight`, `DiskTokenLive`, `SuccessIsCached`, `RotatedTokenKept`, `EveryCallReturns` |
| `claude_auth` | 2 callers, 3 grants | `RefreshIsSafe`, `NativeRotationKept` |
| `raw_forward` | 2 requests, 1 socket | `OneOutcome`, `NothingIsHeldUp`, `EveryoneIsAnswered` |
| `claude` | 3 blocks, 1 delta each, 2 call ids; 2 turns, 2 models, 3 entries, 4 bytes, 2 markers | `ItemsKeepTheirPlace`, `EndIsWhole`, `CacheWithinBudget`, `ContinuationFailsClosed`, `OneEnd` |
| `codex_handler` | 1 message, 2 calls, 2 blocks, 2 parts each, 2 reasoning items, a cache of 2 entries and 2 bytes, 1 frame waiting in the pipeline | `TurnsEndTruly`, `ReasoningGoesAlong` |
| `names` | 2 providers, 2 changes, two registries, names of one and two words | `NamesHold`, `ShownIsRouted`, `EditIsLocal` |
| `server` | 2 requests, bodies of up to 4 pieces, a window of 2, a sniff of 1 | `UploadIsAccountedFor`, `RepliesWhenClean`, `EveryRequestEnds` |
| `setup` | 2 ports, 2 runs, 1 edit, an upstream of each kind, 12 pairs of configurations | `UpstreamSurvives`, `SetupIsServed`, `StartsAsBefore`, `PointerComesLast` |

One more run expects a violation. `codex_auth_race`, on the instance of `codex_auth`,
checks `NewerFileWins`, a sentence of the repository's README that the code does not
keep (see the known divergences).

Some properties are conjunctions of named parts: `TurnsEndTruly` is
`NeverEmptyTurn`, `ArgumentsWhole` and `EndsOnce`; `EndIsWhole` is
`TerminalIsWhole` and `CallsOnlyWhenWhole`; `NothingOutOfReach` is
`NoOrphanUpstream` and `InOneRegistry`; `NamesHold` is `NamesArePinned` and
`ClaudeNamesHold`; and so on. `TypeOK` of the budget and of the Codex manager are
proved and not run.

Why these bounds are enough to be interesting:

* Three sockets and one slot: one holds it, one is first in line and a third
  tells order from chance. Refusal inside `start()`, a late `close` while others
  wait and a reentrant `run()` all occur.
* Two callers and three grants: one grant is there, one belongs to a refresh and
  one to the CLI in between; a refused refresh, the retry with a newer file and a
  second forced refresh within the cooldown all occur. A longer history repeats
  these. Two callers are enough for a promise that is shared.
* Two requests on one socket: the second one waits in the agent's line for
  everything that may happen to the first.
* Three entries and four bytes: an empty replay takes one byte, a whole one one
  byte or more than there are, a snapshot grows with its history. A turn and the
  markers evict parts of its predecessor's state, in either order, and the byte
  bound and the entry bound both bite. Two turns: one refers to the other.
* Two blocks and two parts: a block that is open while another one ends, and a
  call of which a part is missing; a third item finds no room.
* One frame that waits in the pipeline: a stream that is cut off reaches its client
  whole, or without its last frame. `Waiting` is a number of frames where the code
  has buffers of bytes; the proofs hold for any.
* Two parallel calls and two reasoning items, the second heavier than the byte
  bound: calls that share an item, calls that saw different ones, an entry that
  is replaced, one that pushes out the others, one that exceeds the bound alone.
  One call of an earlier turn: an entry that is read before it is evicted.
* Two edits over registries with a contested family: an alias and a second one
  that takes its name, an alias and the release or the retirement of its target.
* Bodies of four pieces with a window of two: below it, on it, one read above it,
  and two more behind the prefix. Two requests: the second finds the counters
  the first one left.
* Two runs with an edit between them: a run cut short and one that finishes, for
  another client, port or sign-in. Every starting file is of a kind that `init`
  treats differently.
* Three blocks of a Claude message: text, call, text is the shortest message in
  which text is held back behind a call.

`MaxUpstream`, `MaxTokens`, `MaxBlocks` of `ClaudeStream`, `MaxDeltas`,
`MaxAdapted`, `Parts`, `Repeated`, `Waiting`, `MaxChanges`, `MaxEdits`, `MaxRuns`, `MaxBody` and
`MaxRequests` are bounds of the models, marked as such, and not in the code. `SYMMETRY` is
used in `claude_auth` (callers) and `claude` (models), whose properties
are safety properties. `CHECK_DEADLOCK FALSE` stands where a finished system has
nothing left to do; the two credential runs check for deadlock.

### Fairness

Weak fairness is assumed for what Node does by itself: the loop of `drain()`
goes on, a settled promise's continuation runs, a destroyed or closing
connection emits `close`, a timer fires. It is not assumed that a client leaves,
that a shutdown comes, or that anybody logs in. Per property:

* `WaitersServed` has its assumption in the formula: if everybody who holds a
  slot lets go of it, everybody in line is served or leaves.
* `EveryCallReturns` needs the token endpoint and the file system to answer,
  which the request timeout of `callTokenEndpoint()` sees to.
* `EveryoneIsAnswered` needs an origin that answers a complete request and a
  client that reads or goes away, as without a relay. The origin need not fail.
* `EveryRequestEnds` needs handlers that settle, a response that is flushed or
  whose connection goes away, the two seconds of a drain to run out, and
  `requestTimeout` while an upload is incomplete. A client need not go on sending.

## Known divergences

Seven statements of the repository's documents or comments do not hold. Each is
stated as a definition marked "Not so" beside the properties. The first one has a run
that shows the violation. Put into the configuration of its module's run, as an
INVARIANT (2, 4, 5, 6) or a PROPERTY (3, 7), each of the others makes TLC find the
counterexample described here.

1. `NewerFileWins` of `CodexAuth` (run `codex_auth_race`). README.md:610: "If the
   Codex CLI rotates tokens concurrently, the newer file wins". `persistTokens()`
   reads the file again, compares, and renames its own over it without a lock; what
   the CLI writes in between is overwritten. What does hold is `RotatedTokenKept`: a
   file that changed at any await before that last look is kept. The history
   variable `overtaken` is true when it changed after.
2. `NothingAfterMessageStop` of `CodexHandler`. `codex-response.ts:544`: "Guarding on `finished` prevents appending frames after
   message_stop." The guard is in `flush()`. When the upstream breaks off or a timer
   fires behind the terminal event, the handler's `catch` writes its error frame all
   the same (`codex-handler.ts:367-373`). What does hold is `EndsOnce`: the
   translation ends once, a stream that is cut off ends with an error frame, and at
   most that one earlier end stands right in front of it.
3. `AnsweredIsNotRepliedTo` of `Server`. `inbound-policy.ts:338-342` says that a request that was answered is not written
   to again when its upload times out: "the reply must not be corrupted". An answer
   that finished ahead of its upload has moved the baseline, so the rest of that
   upload is given a second shaped reply. `RepliesWhenClean` says nothing of this case.
4. `NoHarmfulPartialState` of `Setup`. `init.ts:323-324` calls "a dangling settings pointer (ANTHROPIC_BASE_URL pointing at a port with no
   config)" the harmful partial state that writing the configuration first avoids. A
   second `init` for another port that is cut short behind that write leaves just
   this: the settings of the first run point at the port of before. What does hold
   is `PointerComesLast`, which is about the pointers a run writes.
5. `UpstreamsBounded` of `CodexUpgrade`. README.md:456 says that
   `maxUpstreamSockets` bounds the upstream WebSocket connections "until they
   close". The slot is freed by the `close` of the client's socket
   (`websocket-budget.ts:19-23`), while the upstream that this close tears down is
   still closing, and the next in line dials. The connections that are *not
   closing* are bounded.
6. `FailureIsRetried` of `CodexAuth`. `codex-auth.ts:227-228` says the cooldown
   never serves a token after a forced refresh that produced none.
   `lastForcedRefreshMs` is set before the refresh succeeds (`:236`), and a
   `getCredentials()` that read the file before puts the rejected token back into
   the cache.
7. `AbortEndsTheWait` of `CodexHandler`. `codex-handler.ts:216-219` says the close
   listener and the total timer cover `getCredentials()`. The call is not given
   the signal (`:244`, and `:281` for the refresh): the request stays until it
   settles.

An eighth one is written into the property as its exception: `models.ts` says
that exact ids "remain pinned in either spelling", while an alias spelled
`provider:id` stands before the qualified form (`NamesArePinned`).

Behaviour that the models show and that no document rules out, so that no
property is stated for it:

* Claude Code may write between `performRefresh()`'s last read and its write and is
  overwritten. No document promises otherwise; `NativeRotationKept` is checked and
  proved where it does not (`CliRaces = FALSE`).
* `ClaudeAuth`'s `forceRefresh()` compares the stored token with the one served
  last to anybody, and within its cooldown only reads the store; a caller may be
  given the very token it was refused.
* The replay handle of a Claude turn is committed before its last frames are
  written: a client interrupted in between keeps a full handle.
* An upstream that sends nothing leaves a streaming client with an empty 200.
* A call that is announced, gets no deltas and no end is left out of the
  message, whose `stop_reason` may still say `tool_use`.
* A turn whose client left while its body was decoded runs to its end, since the
  `close` listener is attached later (`codex-gateway.ts:329`).
* An alias that has the name of a registry id is shown by `subswitch models`
  although the id keeps the name. On the reverse leg an alias with the name of a
  canonical id, in either spelling, is listed although it has no effect, and an
  alias `claude:x` is overruled by a later alias `x`.
* The catch of `server.ts` drains an upload that may already have ended; its timer
  then destroys a healthy keep-alive connection two seconds later (`late`,
  `DrainBound` in `Server`).
* The bytes of `100 Continue` count as written, so that a parser error behind it
  closes the connection without a reply.
* `init` refuses only the configuration keys of older layouts; another key that
  `serve` rejects survives a setup. `init` for Codex alone, run in a project whose
  own configuration names another port, is not served *there*; `init` for Claude
  Code ignores `SUBSWITCH_CONFIG`. `SetupIsServed` says exactly where a setup is
  served, and `PointerComesLast` excepts this last case (`Disregarded`).
* The upstream is stored per sign-in mode: after the user signs in otherwise, Codex
  goes to the default host of that mode and not to the upstream stored for the other.

## What is proved

The theorems hold for every value of the constants that satisfies the named
assumptions, and they are checked by TLAPS. Every safety property of the runs
is proved; the end of this section says what remains and why. Each proof has the same shape: an inductive invariant, kept
by `[Next]_vars` with a lemma per action, and the property from it. The invariants
were checked by TLC before they were proved.

### The upgrade budget: `WebSocketBudgetProofs`

For **any** set of sockets (finite or not) and any `Limit \in Nat \ {0}`
(`LimitAssumption`, the only assumption; the configuration schema demands it):

| Theorem | Says |
|---|---|
| `TypeCorrect` | `Spec => []TypeOK` |
| `Bounded` | `Spec => []BoundHolds` |
| `SlotsAreHeldByLiveSockets` | `Spec => [](NoLeakedSlot /\ OnePlace)` |
| `StartedKeepsSlot` | `Spec => []StartedHoldsSlot`: a reentrant `run()` never queues behind itself |
| `WorkConserving` | `Spec => []NoIdleSlot` |
| `CloseIsFinal` | `Spec => []ClosedMeansDestroyed` |
| `Implements` | `Spec => ImplementsSlots` |

The properties say where a socket must not be, which is not inductive: that a
slot is not held by a socket that is `"gone"` depends on the `close` listener
having been attached, and that `drain()` does not start a socket twice depends
on where it was before. The inductive invariant `IInv` therefore says where each
socket *is* (`InPlace`): its phase determines the collection that holds it, from
the moment `run()` accepts it to the step in which its listener runs. The rest
of `IInv` is the bound with the finiteness of `active` (`Slotted`), the line
without repetition (`Distinct`), `NoIdleSlot`, and the empty budget after
`close()` (`Emptied`).

Three lemmas carry the data: taking the head of a line (`TailOfLine`), joining
it (`AppendToLine`) and leaving it from any place (`WithoutFromLine`) keep it a
line without repetition. `StepImplementsSlots` maps each step to one of
`BoundedSlots` or to a stutter: `DrainSkip` and the `close` of a waiting socket
are both `LeaveLine`, `RunRefused` and `DrainStop` are stutters.

### Upgrades and bridge: `CodexWsProofs`

For any sockets, raw ones and refreshable ones among them, and any limit
(`KindAssumption`, `SlotAssumption`); for any streams and any numbers of Claude
requests and of upstream messages (`BoundAssumption`; `FreshAssumption`: the id of
a response is not the id of a stream):

| Theorem | Says |
|---|---|
| `AnsweredAtMostOnce` | `Spec => []OneAnswer` |
| `NothingEscapes` | `Spec => []NothingOutOfReach` |
| `UsesTheBudget` | `Spec => ImplementsBudget` |
| `UpgradesKeepTheBudget` | bound, no leaked and no idle slot, nobody admitted after the shutdown, for the upgrades |
| `BridgeTyping` | `BridgeSpec => [](ClaudeTyped /\ controllers = Running)`, and the sockets' types |
| `NamesAlwaysLive` | `BridgeSpec => []NamesAreLive` |
| `CancelsReach` | `BridgeSpec => []FoundByName` |
| `EverybodyIsTold` | `BridgeSpec => []NobodyRunsUntold` |
| `UpstreamRelayed` | `BridgeSpec => []UpstreamIsRelayed` |

The budget is not proved again: `BP == INSTANCE WebSocketBudgetProofs` brings its
invariant and the lemmas about its steps, and `UsesTheBudget` shows that every
step of an upgrade is one of its steps or leaves it alone. What the upgrades add
to it is `InStep` (how far an upgrade is tells the phase of its socket),
`Registered` (which of the collections holds it), `Followed` (who hears of the
client's end) and `AnsweredOnce`. The shutdown is the hard step: it walks three
registries, and the proof is that they add nothing to what the shutdown of the
budget destroys.

In the bridge a generation is entered in two places, `active` under its names
and the controllers of the gateway, and the client's `close` walks the first while
the shutdown walks the second. `FoundByName` and `controllers = Running` are
therefore what makes `NobodyRunsUntold` inductive.

### Credentials: `CodexAuthProofs`, `ClaudeAuthProofs`

For any set of callers that does not hold the name `"none"`, any number of grants
and rotating and non-rotating servers alike (`ServerAssumption`,
`CallersAssumption`; `RaceAssumption` of `ClaudeAuth` says only that `CliRaces` is a
truth value):

| Theorem | Says |
|---|---|
| `CodexAuthProofs!TypeCorrect` | `Spec => []TypeOK`; with it, that a cycle never goes past its second attempt |
| `OneFlight` | `Spec => []SingleFlight` |
| `CachedAfterSuccess` | `Spec => []SuccessIsCached` |
| `RotatedTokenStays` | `Spec => RotatedTokenKept`, for a CLI that writes whenever it likes |
| `CodexAuthProofs!LoginKept` | `Spec => []DiskTokenLive`, for the same CLI |
| `ClaudeAuthProofs!LoginKept` | `Spec => []RefreshIsSafe` |
| `RotationKept` | `Spec => NativeRotationKept`, where `~CliRaces` |

Both invariants say what each stage of a cycle has established (`Sound`): who was
granted has an access token, who re-reads is on the first attempt. For Codex comes
to it that nothing on disk, read or cached is newer than the server's last grant,
and `BaseOnDisk`: a cycle about to write finds on disk the refresh token it has
used, unless the file was overtaken.

That the login survives needs a ledger of refresh tokens, and it is the same one
in both managers: `Reads` (the token a cycle works with is in the file only while
the file is what it has read, and is not the one the CLI is about to write),
`Holds` (what a cycle was granted nobody else knows of) and `Owes` (the token in
the file is used up because this cycle has used it). `Kept` is the property: the
login is in the file, in the hands of the CLI, or known to be lost. For a server
that rotates, `TokenInv` is that every live token is held by one party
(`Rotating`); one that does not rotate never uses anything up (`Static`).

### The raw forwarder: `HttpProofs`

For any set of requests and any number of sockets (`PoolAssumption`):
`Invariance`, `OutcomeIsOne` (`Spec => OneOutcome`) and `NothingHeldUp`
(`Spec => []NothingIsHeldUp`). The latch `settled` is per attempt and says nothing
of the teardown. What keeps the outcomes apart is how far the upstream request,
the response and the latch have come *together*: `Asking` (before a response the
latch is open and the client listened to), `Answering` (after it, who writes the
response and how far), `Refreshing` (between two attempts the response is nobody's)
and `Uploading`. `Follows` is the relation every handler keeps between an exchange
before and after it; the two theorems are its two halves.

### The server: `HttpProofs`

For bodies, windows, sniffs and numbers of requests of any size and any routing
table (`WindowAssumption`: they are natural numbers): `Inductive`,
`UploadsAccountedFor` (`Spec => []UploadIsAccountedFor`) and `RepliesAreClean`
(`Spec => []RepliesWhenClean`). Both buffers are beginnings of the body
(`Beginnings`), and where the rest is depends on who reads (`ReaderFits`) and to
whom the request was given (`RouteFits`). `Counted` says how the bytes written on
the connection tell whether the response is under way, and why they do not tell an
answer that finished ahead of its upload from an idle connection.

### Turns answered by Claude: `ClaudeProofs`

For any turns and models and a cache of any size (`CacheAssumption`,
`TurnsAssumption`), and for messages of any number of blocks and deltas
(`BoundsAssumption`: the two numbers are natural):

| Theorem | Says |
|---|---|
| `BudgetHolds` | `Spec => []CacheWithinBudget` |
| `FailsClosed` | `Spec => []ContinuationFailsClosed` |
| `EndsOnce` | `Spec => []OneEnd` |
| `PlacesHold` | `StreamSpec => []ItemsKeepTheirPlace` |
| `EndsWhole` | `StreamSpec => []EndIsWhole` |

*Cache.* `Good` is that the counter is the sum of the entries' bytes, that no key is
held twice and that both bounds hold. `Put`, `Touch`, a series of touches and the
eviction that may take any number of entries keep it, for sequences of any
length. The library's induction theorems cannot be used (they take an operator),
so induction is done by the least counterexample: `LeastNumber` is the
well-foundedness of `<` on the naturals (`WFMin`), `UpTo` turns it into a set of
numbers that holds 0 and with each number the next, and `Follow` gives the
recursive functions their two equations. `Sums`, `Evict` and `TouchAll` are
reasoned about through these.

*Turns.* A continuation is whole because of what is in the cache *and* of what the
turns it came from have come to: a turn is `Sealed` when it has come to its end and
its handle, if it was not evicted, holds all of it. `SnapshotOk` and `ReplayOk` say
when entries may be there, `Vouched` that an item of an input that counts as whole
is of a sealed turn, `Continues` that a turn that runs has the history it refers
to, with the model of that history, and is given exactly the thinking of it.
An eviction takes entries away and disturbs none of this, which is the reason for
stating it as what an entry means *while* it is there.

*Stream.* The `output_index` of a text is handed out while it streams, when nobody
knows yet which blocks the response will hold. `WellFormed` says that it is the
number of such blocks so far (`Rank`) and that what is streamed are the texts
before the first call. Up to such a text every block that takes an index is a text
itself, and a text is part of every response, a truncated one included; so its
rank among all blocks is its rank in the response, which is its place there
(`PlaceIsRank`, for the ordering of any finite set of numbers).

### Turns answered by Codex: `CodexTurnProofs`

For any items, any numbers of deltas, blocks and announcements, a cache of any
size and reasoning of any weight (`CacheAssumption`, `StreamAssumption`;
`HandlerAssumption`: the call of the earlier turn is none of this stream, and any
number of frames may wait in the pipeline):

| Theorem | Says |
|---|---|
| `TurnInvariance` | `Spec => []TurnIInv` |
| `TurnsEndTrulyHolds` | `Spec => []TurnsEndTruly` |
| `CacheInvariance` | `Spec => []HandlerIInv`, `TurnIInv` and what follows about the cache |
| `ReasoningGoesAlongHolds` | `Spec => []ReasoningGoesAlong` |

*The turn.* `TurnsEndTruly` speaks of the message aggregated from all frames, and the
aggregate is a fold, of which a step only appends one frame. `AbsorbingFacts` and
`AbsorbedAppend` give the fold its two equations, and `AbsorbedPrefix` that it looks at
the frames and nothing else. What is inductive is `Mirrors`: while the turn goes on,
the message made of the frames so far has exactly the blocks that were opened and
not stopped as pending ones, each with the deltas sent for its item, and every other
block as content (`Makes`, `Stopped`). When the upstream completes, stops are written
for the blocks that have content (`LastFrames`): a second induction, over the
positions of that sequence, shows that each is absorbed whole or makes the message
unparseable, and that what stays open has no content (`AllStopped`). From then on
`Concluded` holds: whatever comes, a message delivers what was sent and a call's
arguments are whole. `StreamTold` says which of the two describes the stream at each
stage of the handler. A client of a stream that is cut off has a beginning of the
frames, one of `written`, and the error frame behind it (`received`); that at most one
end stands in front of it follows from where the ends of the frames are (`EndInFront`).

*The cache.* `Exact` is that no call has two entries and the counter is their sum;
`Good` adds both bounds. `put`, `get` and the eviction of any number of entries keep
it (`PutFacts`, `GetFacts`, `EvictFacts`, over `ByteSums` of stretches of sequences).
`get` changes the order only (`Same`), which is why a request can be translated with
the cache in the accumulator and still be compared with the cache it began with.

*The request.* `Along` is the property for a sequence of input items: each cached
call has its reasoning in front of it (`Served`), no reasoning twice (`Once`), and
none without a call behind it that it preceded (`Owed`). The last of these does not
hold between the reasoning that is pushed and the call pushed after it, hence
`Partial`, which owes the reasoning of one call that is next. `Sound` carries it
through blocks, messages and conversations (`BlockSound`, `MessageSound`,
`BuilderSound`). In the handler, `Kept` ties an entry to what preceded its call; the
entry is made when a call ends and must be right then and for good, so `NoneYet`
says that until the stream has ended a call after some reasoning the cache holds
the earlier turn's entry only.

### Setup: `ConfigProofs`, first part

For any ports, upstream URLs and files to begin with, and any number of runs,
failures and edits (`SetupAssumption`: the absent file, the broken one and a
refused plan are none of the values, the relay's endpoints are no upstreams, and
the default port is a port):

| Theorem | Says |
|---|---|
| `UpstreamNeverLost` | `Spec => []UpstreamSurvives` |
| `FinishedSetupIsServed` | `Spec => []SetupIsServed` |
| `StillStarts` | `Spec => StartsAsBefore` |
| `PointersComeLast` | `Spec => PointerComesLast` |

`UpstreamSurvives` is not inductive: it says that the user's upstream is in
Codex's file or in the relay's configuration, and a write to Codex's file discards
what that file held. `KeepsUpstream` adds what the writes still to do will bring
about: wherever the upstream is, no write to come removes it before another one
has stored it. `InOrder` does the same for `SetupIsServed` and `PointerComesLast`: a
file that a command is to set is set, or its write is among those to come, and a
pointer comes after the configuration that names its port, which is the one its
relay reads (`Backer`: the explicit one where `SUBSWITCH_CONFIG` names another file,
the project's or the user's otherwise). `StoresVetted` is for
`StartsAsBefore`: a configuration still to be written differs from the one on disk
in port, ingress and upstreams that `init` has vetted only (`AsGood`), and there is
one write for each file, so that what it was planned from is still there. Lemmas
about the two plans show that what they return has this form (`BeginIInv`).

### Names: `ConfigProofs`, second part

For any registries, catalog, configuration and number of edits and releases. The
assumptions are what the compiled-in tables are like and what a name is:
`RegistryAssumption` (an id is that of one model and not the family or the
qualified form of another one; no id or family is a name of Claude's, which the
self-check of `buildRoutingTable()` reports), `CatalogAssumption` and
`WordsAssumption` (ids and families of the catalog are single words, the ids
begin with `claude-`), `ProvidersAssumption` and `AliasAssumption` (no name is
empty). Nothing is assumed about which names aliases take or what they target.

| Theorem | Says |
|---|---|
| `NamesHoldAlways` | `NamesSpec => []NamesHold` |
| `ShownIsRoutedAlways` | `NamesSpec => []ShownIsRouted` |
| `EditsAreLocal` | `NamesSpec => EditIsLocal` |

The invariant, `NamesIInv`, is short: both tables are those of the present registry
and configuration, the registry fits the assumptions (`RegistryFits`), and every
accepted alias of the reverse leg passes `validClaudeAlias()` under this registry.
The work is in the operators. `BoundFitsAlways` says that of the declarations each
name has one that binds it; `WinnerFacts` that a family's winner is one of its
models and has none before it (`ForemostExists`: `Newer` leaves one); and
`AuthorizingFits` what the last pass may add: a target that nobody else claims, in
byAlias and under its provider. From these come the lemmas of the five rules of
`resolveModel()` (`IdResolves`, `AliasResolves`, `QualifiedResolves`,
`FamilyResolves`) and, the other way, `ResolvedOrigin`: where a name that resolves
has its meaning from. `NamesArePinned` and `ShownIsRouted` follow.

`EditIsLocal` compares two tables. A step leaves ids and families where they are
(`Grown`), so that for a name the edit does not name the family winner, the claim
of a family, the model of an alias and its qualified form stay what they were
(`FamilyKept`, `UniqueKept`, `AliasModelKept`, `QualifiedKept`); `MeaningKept` puts
them together along the five rules.

On the reverse leg `DeclaredNamesFit` goes through the aliases in their order: what
is bound so far are pinned ids only, under names that are not OpenAI's, and each
alias is bound to its target unless something overrules it.

An earlier form of `ClaudeNamesHold` could not be proved, for a reason the run did
not show: an alias spelled `claude:<id>` is listed although the name keeps meaning
the id. The property names this case now, and the run has such an alias.

### What is only model-checked

The liveness properties (`WaitersServed`, `ShutdownQuiesces`, `GenerationsEnd`,
`EveryCallReturns`, `EveryoneIsAnswered`, `EveryRequestEnds`): liveness under
fairness and `ENABLED` are out of the prover's reach. Every safety property that
a run checks is a theorem.

## What is abstracted, and what is not modelled

Messages, names and payloads are members of small sets; header sets, wording,
logging, JSON shapes and byte counts are left out, except that the caches count
bytes and the server counts pieces. JWT and HMAC are taken to do their work: a
handle cannot be forged, an expiry can be read. `node:http`, `ws`, the agent, the
vendors' CLIs and OAuth servers are external and are modelled from how the code
uses them.

Not modelled:

* the request direction of `claude-adapter.ts`, and of `codex-request.ts` the
  instructions, tools, effort and conversation key: mappings of one request that
  keep nothing;
* tool namespaces (`collaboration-compat.ts`): a renaming in both directions;
* the JSON answers, model lists and decoding of the gateway; requests pipelined on
  one connection; the table of shaped parser errors; the parsing of the host gate;
* an edit by the user in the milliseconds between a plan of `init` and its write;
* limits, defaults and the remaining keys of the configuration schemas;
* doctor, the CLI's reports, logging, errors and types: I/O and wording.

## Plan

Done: every component of the table above with its runs; the refinements of the
abstract line by the budget and of the budget by the upgrades; the proofs of all
safety properties that the runs check.

What could follow: the request direction of `claude-adapter.ts`, the limits of the
configuration schemas, and pipelined requests of the server. Where a later property
is deeper than one checked here, it takes its place.

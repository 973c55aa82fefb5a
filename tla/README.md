# A verification of elelem

elelem is a Go library that runs conversations with large language models: one
request builder, one agent loop, several provider drivers. This directory holds
TLA+ models of its core logic, translated from the source, the TLC
configurations that check them on small instances, and proofs that TLAPS checks
for every instance. `PROJECT.json` maps every definition to the lines it models.

## 1. The system

| Component | State it keeps | Operations | What makes it correct |
|---|---|---|---|
| Agent loop (`engine.go`, `Request.run`) | per run: transcript, round counter, attached executor, usage | `runOne`: prepare, compact, stream, record; `ExecuteToolCalls`; the automatic loop | every transcript sent is one a provider accepts, and every one returned too, but for calls of its last turn that are still open; rounds bounded; one `OnError` per failure; the run ends |
| User message queue (`user_message_queue.go`) | a bounded FIFO shared by runs | `Enqueue`, the drain at round boundaries | no message lost, repeated or reordered |
| Tool execution (`engine.go`, `tool.go`) | once flag, semaphore, wait group, one outcome per call | dispatch, handler goroutines, timeouts, hooks | bounded dispatch, no straggler writes, each handler runs at most once |
| Tool call assembly (`engine.go`) | calls under construction by stream index | `consumeToolCallDelta`, `drainToolCalls` | each of the provider's calls comes out whole, with distinct ids, within the caps |
| Token budget and compaction (`limit.go`) | a draft of the transcript, an estimate | `enforceBudget`, `DropOldestUnits` | legal, oldest first, pins kept, ends |
| Transcript rules and repair (`transcript.go`, the drivers' `validateTranscript`) | none | validation, repair | repair yields what OpenAI's check accepts, and Anthropic's unless an id is answered twice, and touches nothing outside exchanges |
| Retry decorator (`retry.go`, `errors.go`) | attempt, ledger, whether output was delivered | classify, back off, call again | output never repeated, charges counted once, delays bounded |
| MCP connection (`mcp/connection.go`) | session, closing flag, error, tool list | `Connect`, `Close`, `RefreshTools`, the watcher, tool handlers | the end is reported once, nothing is left running |
| Request and its checks (`request.go`, `params.go`, `client.go`) | the settings | the setters, `validate`, the capability gate before a run and before each round | what is accepted is sent, what a model disclaims is not |
| Model catalogues (`drivers/*/models.go`, `model.go`) | none | `LookupModel`, `Capabilities` | they say what the driver then takes |
| Structured output (`structured.go`) | the reply under repair | `RunInto`: run, decode, at most one repair run, assign | the caller's value is written whole or not at all; every run is billed |
| Driver streams (`drivers/*/driver.go`) | the response stream, the answer so far, the reasoning to replay | `Stream`, `Complete` | one contract for all drivers: payloads, then the reasoning once, then the finish once; streams closed; nothing lost or mixed up |
| Request translation (`drivers/*/translate.go`) | none | messages and parameters to the provider's form | exchanges stay together on the wire |
| Values (`prompt.go`, `content.go`, `usage.go`, `tokens.go`, `mcp/names.go`, `mcp/result.go`) | none | builders, clones, conversions | not modelled |

How they interact. A caller builds a `Request` and calls `Run` or `RunInto`. The
request is checked against the capabilities the driver publishes for its model, and
again in every round. The agent loop compacts and repairs the transcript, hands it to a driver, possibly through the
retry decorator, assembles the streamed turn, and either returns it or lets
`ExecuteToolCalls` run its tools and start the next round. Tools may come from an
MCP connection. Producers on other goroutines put user messages into the queue,
which the loop drains between rounds. Hooks, tools, drivers, token counters and
tool providers are callers' code and may fail wherever they are called.

The hard behaviours are the interleavings (executors, queue, tool goroutines,
the MCP watcher), failures between two steps of one round or in the middle of a
stream, fragments that arrive interleaved and out of order, the bounds (rounds,
tokens, calls, delays), two gates that must agree, and the long sequences of rounds, injections and evictions
that must keep a transcript legal. `PROJECT.json` lists them under `hazards`, each
at its line.

## 2. The modules

| Module | Models | Notes |
|---|---|---|
| `Transcript` | messages, the OpenAI and Anthropic `validateTranscript` walks, `repairTranscript`, `unitEnd` | constant-level operators |
| `Limit` | pins and `firstDroppableUnit` of `limit.go` | extends `Transcript` |
| `Translation` | the wire form of a transcript: OpenAI's messages with the images of results behind them, Anthropic's folded results and cache breakpoints | extends `Transcript` |
| `TranscriptCheck`, `TranscriptMC` | every bounded history, for checking the operators above | |
| `Engine`, `EngineMC` | the agent loop, the queue, `Request.run`, `ExecuteToolCalls` | extends `Limit`; a tool round is one step |
| `Compaction`, `CompactionMC` | the two eviction loops with the counter and the estimate | extends `Limit` |
| `ToolRound` | abstract: what one round promises | |
| `ToolDispatch` | the goroutines of one round | implements `ToolRound` |
| `ToolCallAssembly` | fragments to calls | |
| `Retry`, `RetryMC` | the decorator, classification, sentinels, ledger | |
| `McpConnection` | one MCP connection and its concurrent users | |
| `DriverContract` | abstract: what one call of any driver promises the engine | |
| `DriverCall` | what the drivers' calls share: deltas, the callback, the result | |
| `OpenAIStream` | `Stream` and `Complete` of the OpenAI driver, with the Z.ai driver on top of it | extends `DriverCall` |
| `AnthropicStream` | `Stream` and `Complete` of the Anthropic driver | extends `DriverCall` |
| `DriverStreams`, `DriverStreamsMC` | one call of any driver | composes the two, implements `DriverContract` |
| `RequestParams` | models, capabilities, parameters | constant-level operators |
| `OpenAIRequest`, `AnthropicRequest`, `ZaiRequest` | each driver's catalogue, capabilities and own checks | extend `RequestParams` |
| `RequestRules` | `request.go`'s validation, budget and what a round hands to the driver | instantiates the three |
| `Launch`, `LaunchMC` | one call of `Run` or `RunInto` | extends `RequestRules` |
| `TranscriptProofs` | lemmas about the transcript operators | used by the next two |
| `HistoryProofs` | theorems about stored histories (`TranscriptCheck`) and about `Compaction` | |
| `ToolCallProofs` | theorems about `ToolCallAssembly` and `ToolDispatch` | |
| `EngineProofs`, `RetryProofs`, `McpConnectionProofs`, `DriverStreamsProofs`, `LaunchProofs` | theorems about the module of that name | |

A message is a record of its role, the ids it calls, the id it answers, its kind
(a turn or an injection) and a tag that identifies it. Text, reasoning, images
and arguments decide nothing in the modelled code and are left out. Operators
marked *Fault* in the modules are variants of the definition below them with a
plausible bug; nothing uses them unless one is substituted to see whether a
property would notice.

**Engine.** One variable per field of `runState`, each a function of the run.
`phase` is the position in `runOne`, `frame` says who called it. An executor is
named by the round that attached it. `compactToBudget` shares
`firstDroppableUnit` with `Compaction` and chooses freely when the counter is
satisfied after at least one eviction. `streamAssistantFails` puts the partial turn
in the returned transcript only, as the code does. `executeTools` is one step,
which `ToolDispatch` justifies: it implements `ToolRound`, in which the calls of a
round are answered once each and then recorded together.

**ToolDispatch.** The caller's steps are the once flag, the hook loop, the dispatch
loop and the wait. A worker's steps are start, handler, outcome, token. The
handler has a goroutine of its own that a timeout abandons.

**ToolCallAssembly.** `calls` maps an index to a reference into `heap` because the
code's map holds pointers and relocates them. The provider is an actor that opens
calls and sends their fragments, careless with indexes, ids or both.

**Retry.** A failure is its kind, status, code and Retry-After.
`normalizeProviderError` and `ProviderSentinel` turn it into what `errors.Is`
and `errors.As` find, and `classifyRetry` decides by that. Delays are in units;
jitter is a choice within the interval the code draws from.

**McpConnection.** The session belongs to the SDK and is external: it ends when
the server is gone or a close was asked for, once no request is in flight, with
or without an error. `once` is `closeOnce`; a second `Close` blocks in it.
`listTools` reads page by page; what a page holds is left out.

**Translation.** A message on the wire is its kind and the positions of the messages
it carries, so that merging and moving are visible and text is not. Which results
carry images and which messages a cache hint is the reader's choice in
`TranscriptCheck`.

**DriverStreams.** The provider is an external actor. It sends chunks (OpenAI, Z.ai)
or protocol events (Anthropic), names a finish reason at most once, may refuse,
interleave blocks and calls, send a malformed piece, report usage early, late,
twice or never, and break off with or without an error. A fragment is named by the
event it came in, so joining texts is concatenation and a lost, repeated or
misplaced fragment shows. A driver queues the deltas of a chunk in `pending` and
hands them to the callback one by one; the callback may fail at each. The
Anthropic SDK's `Accumulate` is external and modelled as it is used. The Z.ai
driver is the OpenAI driver with `capture` in place of `reasoning`. All three
map to `DriverContract`: `held` is the open response stream, `failed` the
callback's error, `outcome` what the call returned.

**Launch.** The caller makes settings, then calls `Run` or `RunInto`. `run` is
`validate`, `nextRound` the engine's gate followed by the driver's own, `answered`
the provider. What happens inside a round is `Engine`'s; here tools may differ from
round to round and handlers may inject content. A model id is a sequence of the
pieces the catalogues tell apart, a nil pointer an empty set. Sizes are scaled
down with their order kept. A reply conforms to the schema, is JSON for the type
that the schema refuses, or is neither.

## 3. The runs

All runs use `CHECK_DEADLOCK FALSE`: runs and calls end, and no restart follows.

| Run | Question and bounds |
|---|---|
| `engine` | One run in 22 configurations: automatic or not, forced final answer or not, with or without tools, a model that does or does not honour their absence, budget, repair; prompts that are plain, with a finished exchange, with a damaged one. Three rounds: the least in which a reused id, an eviction of a whole earlier exchange and the last-round rule all occur. In the eight configurations without budget and repair and with an honouring model (`RefillConfigs`) users refill the queue of one whenever it is empty, up to three messages, as many as rounds: two continue the run, alone or behind tool results, and the cap must refuse the third, which is there. In the others they send one message. They take the tags in a fixed order (`UsersSend`), since a tag only tells messages apart. Injections of a usable and an unusable role. |
| `engine_shared` | Two runs, three messages, queue of two: a full queue, a drain in either run, and reordering are possible. The runs are symmetric. |
| `transcript` | All histories of at most five messages of nine shapes, with images on any of the results and cache hints within and above the limit (here 1): a repeated id within a turn, missing, foreign and orphaned results, and two results folded before a further message, all fit in five. |
| `compaction` | All histories of up to three units (user, plain assistant, one and two call exchanges, an orphaned result, injection), with and without a system prompt, 12 counters (free assistants, costly results, unit counts that are above or below their share), two budgets. Three units are one pinned, one live and one evictable. |
| `tool_dispatch` | Two callers, three calls, two tokens, one call without a deadline: the dispatch loop must block. |
| `assembly` | Five deltas, three ids, indexes 0, 1 and 9, cap of four calls and two argument units. |
| `retry` | Three attempts (one delay at its initial value, one doubled, capped), every kind, five statuses, six codes, Retry-After none, below and above the maximum. |
| `driver_streams` | 14 calls: each driver streaming and not, with and without a callback, and the ways of labelling reasoning blocks. Four chunks are a block, an interleaved one, a refusal or call, and the finish; usage may follow. Seven events are Anthropic's message start, two blocks of a start and a delta or stop each, the stop reason and the end. |
| `launch` | Every class of model id the catalogues tell apart, dated and unlisted ids too, with and without a client override that claims everything or less than the driver does, two settings of 47 values: every pair of them. Two rounds: one with tools and one that withholds them. |
| `mcp_connection` | Two closers, one refresh, two tool calls, two pages, stdio and HTTP. |

| Property | Says |
|---|---|
| `SentLegal` | what is sent passes the driver's own validation |
| `ReturnedReplayable` | what is returned passes the drivers' validation: as it is after an answer, an aborted tool round or a failed preparation, and without the calls of its last message where the turn is left open (`TurnOpen`: an executor, a failed hook, a broken stream, the round cap); a successful run without executor ends with an answer |
| `RoundsBounded`, `FinalAnswerForced`, `ExecutorUsable` | the round cap holds, its last round is a final answer, an executor offered can be used |
| `ErrorReportedOnce` | one `OnError` per failed call, none for a successful one |
| `QueuedExactlyOnce` | a queued message is in one place, in order, and in the response |
| `RunReturns` | a run ends, though users refill the queue before every drain |
| `ValidatorsAgree` | both drivers' walks against a definition on positions |
| `RepairSound` | repair suffices for OpenAI's check, and for Anthropic's exactly when no id is answered twice in its result; it is idempotent and minimal |
| `WireKeepsExchanges` | on the wire calls and results stay together, images and results are all there, cache hints are counted once |
| `EvictionSound` | a paired history stays paired and loses its oldest units first; pins survive in any history |
| `SentFits`, `ExchangesLeaveWhole`, `CompactionEnds` | what is sent fits the budget or cannot shrink, exchanges of a paired history leave as a whole, the loops end |
| `WorkersBounded` | the goroutines of the dispatch loop hold a token each; only a handler abandoned by its timeout runs without one |
| `NothingLeftBehind`, `ImplementsToolRound`, `CallersReturn` | a tool round leaves no goroutine that could write, implements the one-shot round, and returns |
| `DrainedSound` | assembled calls are whole, distinct and within the caps |
| `OutputNeverReplayed`, `LedgerBalanced`, `BackoffBounded`, `RetriedWhenTransient`, `CallReturns` | retries |
| `EndReportedOnce`, `ReportsFinal`, `ClosedMeansStopped`, `ToolsUsable`, `ConnectionEnds` | the MCP connection |
| `ImplementsContract` | each driver's call refines `DriverContract` |
| `ReasonsAgree` | usage and delta announce one finish reason, and a refusal never reads as a stop |
| `AnswerWhole` | every channel's deltas join up to what was sent, the reasoning to replay included |
| `UsageKept` | the usage last reported is returned, from failed calls too |
| `AcceptedIsSent` | the driver refuses nothing the engine accepted, except what no capability can express (`BeyondCapabilities` lists it) |
| `SentIsSupported` | no round sends what the driver's capabilities disclaim |
| `TargetWhole`, `RepairAccounted` | `RunInto` writes whole values only, repairs once at most and bills every run |

Two runs show a disagreement between the code and what the repository says:

* `engine_evicts_unseen`: a queued user message behind tool results ends the
  protection of the live exchange, so compaction may evict results the model has
  not seen.
* `retry_quota`: the decorator turns a spent quota into `ErrRateLimited`.

### Fairness

`Engine` assumes that a started run keeps going: drivers, hooks and tools return,
with an error at the latest when their context ends. Starting a run, enqueueing
and calling `ExecuteToolCalls` are never forced. `ToolDispatch` assumes that
goroutines are scheduled and deadlines pass; a handler must return only if its
call has no deadline. `Compaction` and `Retry` assume their own steps happen;
backoff's timer fires. `McpConnection` assumes goroutines are scheduled, requests
end with their contexts, and the SDK ends a session that was closed or whose
pipe broke. `DriverStreams` and `Launch` state no liveness: a provider may stay
silent as long as the caller's context allows, and what follows it is finite.
Nothing is assumed about an HTTP server that goes away, which nobody
notices before the next request.

## 4. The proofs

The theorems hold for every number of runs, callers, goroutines, calls, rounds,
attempts, chunks and messages, from the assumptions named in the modules that
declare the constants. `EngineAssumption`, `TranscriptAssumption`,
`LaunchAssumption` and `ConnectionAssumption` say that caps are positive and that
configurations, turns and settings have their types; `EngineAssumption` also that
the calls of a turn have distinct ids, which `drainToolCalls` sees to (`DrainedSound`),
and that the caller's own messages carry no tag of the queue. `RetryAssumption` adds what
`WithRetry` enforces (the initial delay does not exceed the maximum),
`DriverAssumption` that there are the three drivers, that a provider labels the reasoning
blocks of a call in one of the ways `mergeReasoningField` provides for or sends none, and
that its usage frame leaves the total out or states the sum, and `CompactionAssumption` what the builders of a transcript guarantee: only
turns of the model declare calls, `recordInjections` lets no tool role pass,
`Prompt.Messages` puts the system message first, and the tags tell messages apart.
`HistoryAssumption` says the same of the messages of a stored history, which the
constructors of `message.go` make, and `TranslationAssumption` that the limit on cache
breakpoints is a natural number.
Two theorems on compaction have the hypothesis `CountersCount`: `TokenCounter.Count`
returns an int. It quantifies over all transcripts, so TLC could not evaluate it as
an assumption.

**EngineProofs**: `TypeCorrect`, `RoundsStayBounded`, `ErrorsReportedOnce`,
`ExecutorsStayUsable`, `FinalAnswerIsForced`, `SentIsLegal`, `ReturnedIsReplayable`,
`QueuedDeliveredOnce`: all its safety properties. None of these is inductive. `Inv`
describes one run as a chain: executor *k* is made by round *k* and used by the one
`ExecuteToolCalls` that starts round *k + 1*, so at most one is unused, none
survives a failure, and a failed request, which is a request and not a round, is the
last one (`RoundsInv`, `ExecutorsInv`). `ErrorsInv` says where the report has been
made, `ToolsInv` that the last round's request carries no tools. `OthersUntouched`
and `ActorKeeps` split a step into the run that acts and those that do not.
`TypeStep` needs the type of every list operator: `TranscriptProofs` proves that
picking, evicting and repairing keep a transcript a transcript.

`SentIsLegal` and `ReturnedIsReplayable` rest on `TranscriptInv`. A transcript on its
way to the driver is *whole*: its calls and results are paired and its roles known,
except that the caller's own messages may still await repair in the first round.
After the driver has answered, it is a whole transcript with the model's turn behind
it (`TurnLast`), and each way on either answers all calls of that turn or drops them,
or ends the run with the turn open. For what is returned, `Fit` says that both drivers
accept a transcript as far as its ids allow (`FitAccepted`). `RecordedFit`, `TurnLastFit`
and `OpenFit` say that a transcript with an open last turn is fit without that turn's calls.
It also grows only by what the run's turns called (`Grown`), on which the Anthropic
check over the whole transcript depends. The lemmas are in `TranscriptProofs`:
evicting, repairing, and appending plain messages or a whole exchange keep a
transcript paired (`EvictionLegal`, `RepairLegal`, `ConcatLegal`, `ExchangeLegal`),
and both drivers' walks accept a paired one (`OpenAIAccepts`, `AnthropicAccepts`).
The hypothesis `StartsLegal` is about the caller's own messages: only its assistant
turns declare calls, and they are paired unless repair is on.

`QueuedDeliveredOnce` rests on `QueueInv`: the queue is the last part of what was
enqueued, and the transcripts hold the part before it, each message in one of them
and in order (`Ordered`). A step either takes the whole queue (`Drains`) or leaves it
and loses no message except by an eviction (`LeavesQueue`); between a run's last step
and its return the response holds the same queued messages as the transcript.

**HistoryProofs**, stored histories: `ValidatorsAlwaysAgree`, `RepairIsSound`,
`WireAlwaysKeepsExchanges`, for histories of any length. Each compares a whole walk
over the history with a definition on positions; the histories themselves are only
well-formed (`HistoryInv`), nothing more is inductive about them. The work is in the
walks.

* *Accepted means paired.* OpenAI's walk is a recursive function that looks ahead
  from each turn, so `WalkChecks` goes backwards: what is accepted from position *i*
  on is paired from *i* on. Anthropic's is a fold that remembers the ids it waits for;
  `Passed` says what has been seen when it has got so far. That as many distinct
  answers as calls, each to a call, answer all calls is a counting argument
  (`Covering`).
* *Repair.* `RepairPairs` and `RepairTame` say that what repair returns is paired and
  well-formed, `RepairNothing` that it leaves a paired history alone, hence that
  repairing twice is repairing once, and `RepairKeepsAside` that it picks every message
  outside an exchange, in order. A repaired history is therefore legal for OpenAI, and
  for Anthropic exactly when `AnsweredOnce`; repair only picks messages, so answers that
  were single stay single.
* *Translation.* `LoopExists` gives the unrolling of the translation loops and of
  `FlattenSeq`. After *i* messages OpenAI's loop has sent each of them once, with a
  turn's results directly behind it, and holds the images of the run of results it is in
  (`SentInv`, with `Placed` for who stands next to whom). Anthropic's has each turn's
  results so far in the one message behind it (`ConvertedInv`, with `Folded`, and `Ends`
  for what the next result joins) and has counted each hint once. `PickLast` and
  `FlattenAppend` carry the order over a step; `ResultsOf` and `AnswersAll` turn "the run
  behind a turn" into "the results of its calls", which is where being paired is used.

**HistoryProofs**, compaction: `EvictionIsSound`, `WhatIsSentFits`,
`ExchangesAlwaysLeaveWhole`. Each eviction computes the pins afresh on a shorter
transcript, so `EvictionSound` is not inductive. `DraftInv` adds that the draft is
a subsequence of the history (`KeptInOrder`), that what is pinned in the history is
not only kept but still pinned (`PinsKept`), and that the units of the draft are
units of the history (`UnitsKept`). The lemmas are about one eviction, in
`TranscriptProofs`: `Eviction` says which messages are left and where, `PinsOutside`
and `PinsStay` that the evicted unit holds no pin and unpins nothing, `PairsStay`
that no call or result is orphaned. The last one rests on `NotTool` and
`RestStarts`: the first unit that may go starts at no tool result, and neither does
what follows it. `PinnedFromStart` is the converse of `PinsStay`, on which
oldest-first depends. `FitInv` says that a pass which dropped nothing ran over
budget by the authoritative count, so that the estimate cannot end the handler;
`WholeInv` that between passes a shortened draft starts at an exchange, because a
counter that charges for every unit of the history charges for the evicted one
(`UnitCharged`, from `UnitsKept`).

`OldestFirst` and `ExchangesLeaveWhole` are stated for histories whose calls and
results are paired. Without that they are false: an orphaned result may join an
exchange once what stood between is gone, which pins it if the exchange is the live
one and otherwise makes a unit the counter need not charge for. Such a history can be compacted, because
the engine compacts a round's transcript before it repairs it.

**ToolCallProofs**, assembly: `AssemblyIsSound`. Every allocated call stays in the map,
also when the index it is under is used again (`Held`), so the cap on the map is a cap
on the calls (`MapCounts`). While the provider is below the caps and careless with one
thing only, the calls held are the provider's, position by position, and an open index
leads to the call it was last opened with (`Follows`): a fresh id under a used index is
told apart (`OpenFollows`), and a fragment without an id goes to its call
(`ContinueFollows`). `Drained` says that draining enumerates the first index of every
id, each once.

**ToolCallProofs**, dispatch: `TypeCorrect`, `WorkersStayBounded`, `NoWorkerLeftBehind`,
`DispatchImplementsRound`. The invariant says that one caller owns the round
(`OneOwner`), the owner's place bounds the goroutines (`WorkersFollowOwner`), a
goroutine's stage determines handler and outcome (`StageMeaning`), and the
semaphore counts the goroutines (`TokensCount`). A handler that runs under a goroutine
past its wait belongs to a call whose deadline has passed, which is the last part of `WorkersBounded`. The refinement maps the owner's
place to the round's status.

**RetryProofs**: `OutputIsNeverReplayed`, `LedgerAlwaysBalances`,
`BackoffStaysBounded`, `TransientIsRetried`. `Inv` follows the ledger through the
attempts: there is one entry per failed attempt (`LedgerFollows`), the charges of
the attempts so far are the wasted tokens (`ChargesFollow`), only the current attempt
may have delivered (`OutputFollows`), and what was slept is at most one maximum per
attempt made (`SleepBounded`). The delay is a recursive function; `Unrolls` gives
its finite unrollings, whose existence and uniqueness is proved by induction, and
`DoublingType` bounds every step. For `TransientIsRetried`, `classifyRetry` on what
`normalizeProviderError` made of a failure is compared with the documented rules,
case by case.

**McpConnectionProofs**: `EndIsReportedOnce`, `NothingLeftRunning`,
`ToolsStayUsable`, `ReportsAreFinal`. One `Close` runs in the `sync.Once` and the
others wait (`OnceInv`). It notes in `ended` what the watcher had reported when it
set `closing`, and the watcher reports nothing from then on, so `ended` and `err`
stay equal and the session's failure goes to exactly one of them (`ReportInv`,
`WatchInv`). `ReportsAreFinal` is an action property from the same invariant.

**DriverStreamsProofs**: `DriversKeepTheContract` is the refinement
`ImplementsContract`, step by step; `UsageIsKept`, `ReasonsAlwaysAgree` and
`AnswerAlwaysWhole` are invariants. `CallInv` says that a batch of pending deltas is in order (the envelope
of reasoning first, the finish delta last), what each place in the code implies for
the response stream, the errors and the deltas (`PlaceInv`), and why nothing follows
a finish delta: the OpenAI driver publishes the finishing chunk only when the
reasoning is out, the Anthropic driver publishes both at its end only (`OpenAIInv`,
`AnthropicInv`). `UsageInv` relates the driver's tally to what the provider
reported, `ReasonInv` the reasons announced so far to the reason recorded. What
flattening the fragments of a chunk yields is proved by induction
(`FlattenType`, `PayloadFlatten`).

`AnswerAlwaysWhole` rests on `WholeInv`. Its first part is a flow (`FlowInv`): on each
channel, what was delivered, what is pending and what a place in the code is still to
publish (`Due`: an answer's reasoning, its other content) join up to what the provider
sent. `FlattenConcat` makes joining additive, so that each operator that builds deltas
needs one lemma on what it says (`ChunkSays`, `EventSays`, `MessageSays`); delivering a
delta moves it from one side to the other (`FlowDelivers`). For Anthropic's calls the
ordinals in `toolCallIndexes` must be those of the provider (`IndexInv`). The rest is
about replay. An Anthropic block that has stopped is kept as it was sent
(`ContentInv`), and all have stopped by the time a reason is named, so
`marshalProviderReasoning` keeps them all (`AnthropicKept`). Z.ai's capture has what was
delivered (`ZaiKept`). OpenAI's state has the text and a block for each of the provider's
(`OpenAIKept`): the blocks held are labelled apart (`Sorted`), so that
`reasoningBlockIndex` finds the one a fragment belongs to (`FragmentPlace`) by its
index, its id or, without labels, its position, and merging extends that one only
(`BlocksExtended`, `ExtendedSorted`). The model's provider has two such blocks (`Labels`),
the least that can interleave; chunks, events and Anthropic's blocks are unbounded. In each driver the envelopes delivered and pending
are none or one, with what is kept (`EnvelopeKept`, `LoneInv`).

**LaunchProofs**: `TargetStaysWhole` and `EveryRunIsBilled` from `CallInv`, whose
`BillInv` says where the charges of a first and a second run are while the second is
under way; `NothingUnsupportedIsSent` and `TheGatesAgree` from `GateInv`. The latter
two rest on one pair of lemmas per driver: what its gate lets pass it supports
(`OpenAISent`, `AnthropicSent`, `ZaiSent`), and what the engine's gate accepts its
gate accepts (`OpenAIAccepts`, `AnthropicAccepts`, `ZaiAccepts`), for every model
id, listed or not. `Alike` covers the requests of later rounds, to which handlers
may have added content.

Induction. The library's induction theorems take the predicate as an operator,
which the provers cannot instantiate. `Induction` states it with a set instead, so
recursive functions, `FoldLeft` and `FlattenSeq` can be reasoned about through their
unrollings.

Only model-checked: every liveness property, since the prover has neither fairness nor
`ENABLED`. Every safety property that a passing run checks is stated by a theorem.

## 5. What is not modelled

* Text: prompts, content, token estimation, log lines, `ParseRetryAfter`'s formats,
  MCP tool names and the conversion of MCP results. These are functions of one
  string without state; a model would repeat them.
* Tool result truncation (`truncateToolResult`, `toolimages.go`), for the same
  reason.
* JSON schemas and their reflection from Go types. `Launch` leaves open whether a
  reply matches.
* Cost, and usage totals beyond the ledgers of retries, streams and repairs.
* The provider's and the SDKs' inside: HTTP, SSE framing, JSON decoding.
* The failure of `validate` before a run and of a second `ExecuteToolCalls`
  (`request.go:706`, `engine.go:169`): they return at once and fire no `OnError`.
  `ErrorReportedOnce` is about calls that got past these checks.
* The watcher's `recover` (`mcp/connection.go:220-228`), for a panic of the session's
  own `Wait`; the Anthropic accumulator's error for tool input that is no JSON
  (`messageutil.go:102-105`), which ends the stream as the failures modelled do.
* How a capability override depends on the model: `WithCapabilityOverride` takes a
  function, of which a client's run sees one value, its `claims`.
* Generated mocks, test support, vendored code. What the conformance suite asserts
  of every driver is `DriverContract`.

Observations made while modelling, without a run of their own. The properties named
are stated so that they hold, and say where the code leaves off:

* The returned transcript ends in calls without results when `OnAssistantMessage` or
  `OnRoundEnd` fails behind the recorded turn (`engine.go:396-409`), at the round cap
  (`engine.go:142`) and after a broken stream (`engine.go:1776`), and no executor is
  left to answer them, although the comment at `engine.go:42-46` says to feed
  `Messages` straight back into the next request. Only a failure inside tool execution
  drops them (`engine.go:826`). `ReturnedReplayable` asks that such a transcript is
  legal without the calls of its last message (`TurnOpen`).
* Repair looks at one exchange at a time. A history in which two exchanges use one id
  stays as it is, and the Anthropic driver refuses it
  (`drivers/anthropic/translate.go:883`), although `request.go:322` says repair makes
  an illegal transcript legal. `RepairSound` says that this is the only case: the
  driver takes a repaired history exactly when no id is answered twice in it.
* A handler that ran out of time keeps running after its token is returned
  (`engine.go:1383`), so more handlers, and their goroutines, may be alive than
  `WithMaxConcurrentTools` says (`engine.go:932`, `docs/tools.md:215`,
  `docs/requests.md:279`). `WorkersBounded` says that only such handlers run without
  a token.
* At the cap every further delta with a new id under a used index adds another copy
  of the old call to the map (`engine.go:607`), although the comment at
  `engine.go:675-678` says the cap keeps a provider from making the engine
  allocate without limit. For the same reason a call under a reused index meets the
  cap one call early.
* A delta that would exceed the argument cap is skipped, and later smaller ones are
  still appended (`engine.go:648`), which leaves a hole and not a truncation.
* An error event inside a stream joins no `ProviderSentinel`, although
  `docs/retries.md:135` says provider failures do.
* After a plain `Close` a tool call fails with the session's error, not with
  `ErrServerStopped` as the comment on `Tools` says (`mcp/connection.go:142`).
* `Close` calls `stop` only after `session.Close` has waited for the process, so
  the command's `Cancel`, which kills the process group, no longer runs then; the
  comment on `Close` says every process the server started is stopped.
* Of two overlapping `RefreshTools` the older listing may be stored last.
* At the cap on calls, a call under a reused index is dropped after the old one was
  copied away, and its further fragments end in the old one (`engine.go:607`),
  where `docs/tools.md:228` says the two are not merged.
* A stream that ends without a finish reason is a success with an unset reason, in
  both drivers. The Anthropic driver then keeps a block that never stopped as its
  start event had it.
* Z.ai's own reasons (`sensitive`, the context ones) set `Usage.FinishReason` and
  publish no finish delta.
* The usage in a chunk whose own publication failed is not returned.
* Reasoning fragments whose type differs from their block's never merge with it,
  and fragments with `index: null` and no id always start a new block.
* The engine accepts a text response format, an output cap of 0 and, on three
  models, the level `xhigh`, which the Anthropic driver then refuses. A model the
  caller describes by its id alone has no floor for reasoning levels.
* The catalogue says that `gpt-5.6-chat-latest` can disable reasoning.
* A tool choice that names a tool is stripped when there are no tools at all, where
  the comment at `params.go:46` says it is rejected.
* Without an explicit context limit, a reserve as large as the model's context
  gives a budget of 0, which means no compaction.
* A structured reply that calls tools makes its repair request illegal unless
  transcript repair is on.
* The Z.ai driver disclaims tool choice and, for some models, images, but itself
  refuses only the modes `required` and `tool` and never looks at content parts; the
  engine's gate does, unless the client overrides capabilities. Stored reasoning it would discard is
  refused by the OpenAI half first when it does not decode.
* A tool result cap below the marker's own size returns the marker over the cap,
  and the byte clamp may cut without a marker (`engine.go:1484-1560`).

## 6. Plan

Every component with state is modelled, and every safety property is proved. What is left
to do is to keep `map`, models and proofs in step with the code.

---------------------------- MODULE OpenAIStream ----------------------------
(***************************************************************************)
(* The OpenAI driver's Stream and Complete (drivers/openai/driver.go,      *)
(* translate.go, reasoning.go, reasoning_merge.go), and the Z.ai Coding    *)
(* driver built on it (drivers/zaicoding/driver.go), which replaces the    *)
(* reasoning state by a capture of its own and maps further finish         *)
(* reasons.                                                                *)
(*                                                                         *)
(* The provider is external: it sends chunks of one answer, names a finish *)
(* reason once, may report usage with it or after it, and may break off at *)
(* any chunk, with or without an error.                                    *)
(***************************************************************************)
EXTENDS DriverCall

CONSTANTS
  MaxChunks,      \* bound on the chunks of one response
  MaxToolIndex,   \* math.MaxInt32, the largest tool call index passed on
  FinishReasons,  \* finish reasons the provider sends
  UsageFrames     \* <<prompt, completion, total>> as reported

VARIABLES
  chunk,      \* the chunk or completion being published
  raw,        \* rawFinishReason
  refused,    \* a refusal was seen in this response
  reasoning,  \* reasoningState
  capture     \* Z.ai's reasoningCapture

openaiVars == <<chunk, raw, refused, reasoning, capture>>

IsZai == call.driver = "zai"
IsOpenAI == call.driver \in {"openai", "zai"}

NoTokens == <<0, 0, 0>>

\* A chunk of the first choice; a chunk without choices reports usage only.
NoChunk ==
  [choice |-> TRUE, reasoning |-> <<>>, blocks |-> <<>>, refusal |-> <<>>,
   content |-> <<>>, calls |-> <<>>, finish |-> "", usage |-> NoTokens]

-----------------------------------------------------------------------------
(* reasoning_merge.go *)

\* A reasoning block fragment: absent labels are "none", JSON null is "null".
Block(type, index, id, body) ==
  [type |-> type, index |-> index, id |-> id, body |-> body]

\* Fault: an index never tells two blocks of one type apart.
sameTypeIsSameBlock(left, right) ==
  right.type = "none" \/ left.type = right.type

sameReasoningBlock(left, right) ==
  /\ right.type # "none" => left.type = right.type
  /\ \/ right.index \notin {"none", "null"} /\ left.index = right.index
     \/ /\ right.index \in {"none", "null"} /\ right.id \notin {"none", "null"}
        /\ left.id = right.id

\* The block a fragment belongs to; 0 starts a new one.  A fragment without
\* labels belongs to the block at its own position.
reasoningBlockIndex(blocks, block, position) ==
  LET same == {i \in 1..Len(blocks) : sameReasoningBlock(blocks[i], block)} IN
  IF same # {} THEN CHOOSE i \in same : \A j \in same : i <= j
  ELSE IF /\ block.index = "none" /\ block.id = "none"
          /\ position <= Len(blocks)
          /\ block.type = "none" \/ blocks[position].type = block.type
       THEN position ELSE 0

mergeReasoningBlock(target, delta) ==
  [type  |-> IF delta.type = "none" THEN target.type ELSE delta.type,
   index |-> IF delta.index = "none" THEN target.index ELSE delta.index,
   id    |-> IF delta.id = "none" THEN target.id ELSE delta.id,
   body  |-> target.body \o delta.body]

\* The incoming blocks from the given position on, folded into those before.
mergeReasoningField(before, incoming) ==
  LET merged[position \in 0..Len(incoming)] ==
        IF position = 0 THEN before
        ELSE LET blocks == merged[position - 1]
                 block == incoming[position]
                 index == reasoningBlockIndex(blocks, block, position)
             IN IF index = 0 THEN Append(blocks, block)
                ELSE [blocks EXCEPT ![index] = mergeReasoningBlock(@, block)]
  IN merged[Len(incoming)]

-----------------------------------------------------------------------------
(* reasoning.go *)

validateReasoningField(blocks) ==
  \A i \in 1..Len(blocks) : blocks[i].type \in {"reasoning.text", "reasoning.encrypted"}

\* Only the OpenAI driver itself keeps reasoning fields.
KeepsReasoning == HasCallback /\ ~IsZai

\* The first value of a field is stored as it came; later ones are merged.
store(state, c) ==
  [state EXCEPT !.text = @ \o c.reasoning,
                !.blocks = IF @ = <<>> \/ ~Streams
                           THEN (IF c.blocks = <<>> THEN @ ELSE c.blocks)
                           ELSE mergeReasoningField(@, c.blocks)]

consume(state, c) ==
  IF KeepsReasoning /\ c.choice THEN store(state, c) ELSE state

ConsumeFails(state, c) ==
  KeepsReasoning /\ c.choice /\ ~validateReasoningField(store(state, c).blocks)

\* The envelope, unless it was published or there is nothing to publish.
emit(state) ==
  IF state.emitted \/ ~KeepsReasoning \/ (state.text = <<>> /\ state.blocks = <<>>)
  THEN <<>> ELSE <<StateDelta(state.text, state.blocks)>>

\* The envelope goes out ahead of the chunk that carries the finish reason.
consumeChunkReasoning(state, c) ==
  IF c.choice /\ c.finish # "" THEN emit(consume(state, c)) ELSE <<>>

-----------------------------------------------------------------------------
(* translate.go *)

normalizeFinishReason(reason) ==
  IF reason \in {"stop", "length", "tool_calls", "content_filter", "function_call"}
  THEN reason ELSE Unset

\* Fault: the refusal must be in the chunk that carries the finish reason.
finishReasonFromOneChunk(c, isRefused) ==
  IF c.refusal # <<>> /\ normalizeFinishReason(c.finish) = "stop"
  THEN "content_filter" ELSE normalizeFinishReason(c.finish)

finishReasonFromChoice(c, isRefused) ==
  IF isRefused /\ normalizeFinishReason(c.finish) = "stop"
  THEN "content_filter" ELSE normalizeFinishReason(c.finish)

deltasFromChunk(c, isRefused) ==
  LET fragment(t) == IF t.index \in 0..MaxToolIndex
                     THEN <<ToolCallDelta(t.index, "", t.body)>> ELSE <<>>
      reason == finishReasonFromChoice(c, isRefused)
  IN IF ~c.choice THEN <<>>
     ELSE IfAny(c.reasoning, ReasoningDelta(c.reasoning))
       \o IfAny(c.refusal, TextDelta(c.refusal))
       \o IfAny(c.content, TextDelta(c.content))
       \o FlattenSeq([i \in 1..Len(c.calls) |-> fragment(c.calls[i])])
       \o (IF reason = Unset THEN <<>> ELSE <<FinishDelta(reason)>>)

\* Fault: a usage frame counts only if it states the total.
usageIfTotal(u, c, isRefused) ==
  LET reason == IF c.choice THEN finishReasonFromChoice(c, isRefused) ELSE Unset
      named == IF reason = Unset THEN u ELSE [u EXCEPT !.finish = reason]
  IN IF c.usage[3] = 0 THEN named
     ELSE [named EXCEPT !.prompt = c.usage[1], !.completion = c.usage[2], !.total = c.usage[3]]

usageFromChunk(u, c, isRefused) ==
  LET reason == IF c.choice THEN finishReasonFromChoice(c, isRefused) ELSE Unset
      named == IF reason = Unset THEN u ELSE [u EXCEPT !.finish = reason]
      total == IF c.usage[3] = 0 THEN c.usage[1] + c.usage[2] ELSE c.usage[3]
  IN IF c.usage = NoTokens THEN named
     ELSE [named EXCEPT !.prompt = c.usage[1], !.completion = c.usage[2], !.total = total]

\* A finished response as one chunk; the reasoning was published before it.
chunkFromCompletion(completion) ==
  [completion EXCEPT !.reasoning = <<>>, !.blocks = <<>>,
     !.calls = [i \in 1..Len(@) |-> [@[i] EXCEPT !.index = i - 1]]]

-----------------------------------------------------------------------------
(* zaicoding/driver.go *)

finishReason(reason) ==
  CASE reason = "sensitive" -> "content_filter"
    [] reason = "model_context_window_exceeded" -> "context_exceeded"
    [] OTHER -> Unset

\* A spent quota loses the transport's rate-limit sentinel.
providerError(e) ==
  IF "provider" \notin e THEN e
  ELSE IF "1308" \in e THEN {"provider", "1308", "ErrQuotaExhausted"}
  ELSE IF "1261" \in e THEN e \cup {"ErrContextExceeded"}
  ELSE IF "1301" \in e THEN e \cup {"ErrSensitiveContent"}
  ELSE e

NeedsFlush == IsZai /\ HasCallback /\ ~capture.published /\ capture.reasoning # <<>>

-----------------------------------------------------------------------------
(* The provider *)

Fragment == <<n + 1>>

\* Blocks are numbered by the provider in the order it starts them; 0 is none.
BlocksWith(blocks, block) ==
  IF block = 0 THEN blocks
  ELSE IF block > Len(blocks) THEN Append(blocks, Fragment)
  ELSE [blocks EXCEPT ![block] = @ \o Fragment]

\* What the answer says once a chunk is sent.
Sent(c, block) ==
  [answer EXCEPT
     !.text = @ \o c.refusal \o c.content,
     !.reasoning = @ \o c.reasoning,
     !.blocks = BlocksWith(@, block),
     !.calls = @ \o c.calls,
     !.refused = @ \/ c.refusal # <<>>,
     !.reason = IF c.finish = "" THEN @ ELSE c.finish,
     !.usage = IF c.usage = NoTokens THEN @ ELSE <<c.usage[1], c.usage[2]>>]

Labels == <<"0", "1">>

\* A fragment of the provider's b-th block, labelled in its style; only the
\* first fragment of a block has to carry the type.
BlockChunk(b) ==
  LET type == IF b > Len(answer.blocks) \/ call.typed THEN "reasoning.text" ELSE "none"
      fragment == CASE call.style = "index" -> Block(type, Labels[b], "none", Fragment)
                    [] call.style = "id" -> Block(type, "none", Labels[b], Fragment)
                    [] OTHER -> Block(type, "none", "none", Fragment)
      before == [i \in 1..(b - 1) |-> Block(type, "none", "none", <<>>)]
  IN [NoChunk EXCEPT !.blocks =
        IF call.style = "position" THEN before \o <<fragment>> ELSE <<fragment>>]

\* A provider of reasoning blocks sends little else here.
ContentChunks ==
  {[NoChunk EXCEPT !.reasoning = Fragment]} \cup
  IF call.style # "plain" THEN {}
  ELSE {[NoChunk EXCEPT !.content = Fragment], [NoChunk EXCEPT !.refusal = Fragment]}
         \cup {[NoChunk EXCEPT !.calls = <<[index |-> i, body |-> Fragment]>>] :
                 i \in {0, MaxToolIndex + 1}}

\* The last chunk of the choice may carry content, reasoning and usage too.
FinishChunks ==
  {[c EXCEPT !.finish = r] : r \in FinishReasons,
     c \in {NoChunk, [NoChunk EXCEPT !.content = Fragment],
            [NoChunk EXCEPT !.reasoning = Fragment]}
           \cup {[NoChunk EXCEPT !.usage = u] : u \in UsageFrames}}

UsageChunks == {[NoChunk EXCEPT !.choice = FALSE, !.usage = u] : u \in UsageFrames}

MalformedChunk == [NoChunk EXCEPT !.blocks = <<Block("unknown", "none", "none", <<>>)>>]

\* A finished response of Complete.
Completions ==
  [choice : {TRUE},
   reasoning : {<<>>, <<1>>},
   blocks : {<<>>, <<Block("reasoning.text", "0", "none", <<2>>)>>,
             <<Block("unknown", "none", "none", <<2>>)>>},
   refusal : {<<>>, <<4>>}, content : {<<>>, <<3>>},
   calls : {<<>>, <<[index |-> 0, body |-> <<5>>], [index |-> 0, body |-> <<6>>]>>},
   finish : FinishReasons, usage : {NoTokens} \cup UsageFrames]

-----------------------------------------------------------------------------
(* driver.go *)

OpenAIInit ==
  /\ chunk = NoChunk
  /\ raw = "" /\ refused = FALSE
  /\ reasoning = [text |-> <<>>, blocks |-> <<>>, emitted |-> FALSE]
  /\ capture = [reasoning |-> <<>>, published |-> FALSE]

\* Stream and Complete validate and translate the request before any network
\* call.
openaiStart ==
  /\ IsOpenAI /\ pc = "start"
  /\ \/ /\ pc' = "done" /\ err' = {"request"} /\ UNCHANGED streams
     \/ /\ pc' = "reading" /\ UNCHANGED err
        /\ streams' = IF Streams THEN 1 ELSE 0
  /\ UNCHANGED <<call, n, pending, deltas, usage, answer, openaiVars>>

scanChoiceSignals(c) ==
  /\ raw' = IF c.choice /\ c.finish # "" THEN c.finish ELSE raw
  /\ refused' = (refused \/ (c.choice /\ c.refusal # <<>>))

\* The driver waits for the provider.
Reads == IsOpenAI /\ pc = "reading" /\ Idle

\* One chunk of the stream: its signals and its reasoning.
nextChunk(c, block) ==
  /\ c.choice => answer.reason = Unset
  /\ n' = n + 1
  /\ chunk' = c
  /\ answer' = Sent(c, block)
  /\ scanChoiceSignals(c)
  /\ IF ConsumeFails(reasoning, c)
     THEN pc' = "close" /\ err' = {"malformed"} /\ UNCHANGED <<pending, reasoning>>
     ELSE /\ pc' = "publish" /\ reasoning' = consume(reasoning, c)
          /\ pending' = consumeChunkReasoning(reasoning, c)
          /\ UNCHANGED err
  /\ UNCHANGED <<call, deltas, usage, streams, capture>>

nextBlocks ==
  /\ call.style # "plain"
  /\ \E b \in 1..(IF Len(answer.blocks) < 2 THEN Len(answer.blocks) + 1 ELSE 2) :
       nextChunk(BlockChunk(b), b)

\* The whole response of Complete: its visible reasoning is published first.
completionArrives(c) ==
  /\ chunk' = c
  /\ answer' = [Sent(c, 0) EXCEPT
       !.calls = chunkFromCompletion(c).calls,
       !.blocks = [i \in 1..Len(c.blocks) |-> c.blocks[i].body]]
  /\ pending' = IF HasCallback THEN IfAny(c.reasoning, ReasoningDelta(c.reasoning)) ELSE <<>>
  /\ pc' = "consume"
  /\ UNCHANGED <<call, n, deltas, usage, err, streams, raw, refused, reasoning, capture>>

publishCompletion ==
  /\ pc = "consume" /\ Idle
  /\ IF ConsumeFails(reasoning, chunk)
     THEN /\ pc' = "return" /\ err' = {"malformed"}
          /\ UNCHANGED <<pending, raw, refused, reasoning, chunk>>
     ELSE /\ pc' = "publish" /\ reasoning' = consume(reasoning, chunk)
          /\ pending' = emit(consume(reasoning, chunk))
          /\ chunk' = chunkFromCompletion(chunk)
          /\ scanChoiceSignals(chunk)
          /\ UNCHANGED err
  /\ UNCHANGED <<call, n, deltas, usage, streams, answer, capture>>

publishChunk ==
  /\ IsOpenAI /\ pc = "publish" /\ Idle
  /\ usage' = usageFromChunk(usage, chunk, refused)
  /\ pending' = IF HasCallback THEN deltasFromChunk(chunk, refused) ELSE <<>>
  /\ pc' = IF Streams THEN "reading" ELSE "finish"
  /\ chunk' = NoChunk
  /\ UNCHANGED <<call, n, deltas, err, streams, answer, raw, refused, reasoning, capture>>

\* Z.ai's handler publishes the captured reasoning ahead of a finish delta.
captureFlush ==
  /\ IsZai /\ ~Idle /\ Head(pending).kind = "finish" /\ NeedsFlush
  /\ pending' = <<StateDelta(capture.reasoning, <<>>)>> \o pending
  /\ capture' = [capture EXCEPT !.published = TRUE]
  /\ UNCHANGED <<call, pc, n, deltas, usage, err, streams, answer,
                 chunk, raw, refused, reasoning>>

\* The callback gets the next delta; its error ends the call.
openaiDelta(ok) ==
  LET d == Head(pending) IN
  /\ IsOpenAI /\ ~Idle
  /\ ~(d.kind = "finish" /\ NeedsFlush)
  /\ deltas' = Append(deltas, d)
  /\ capture' = IF IsZai /\ d.kind = "reasoning"
                THEN [capture EXCEPT !.reasoning = @ \o d.body] ELSE capture
  /\ reasoning' = [reasoning EXCEPT !.emitted = @ \/ (ok /\ d.kind = "state" /\ ~IsZai)]
  /\ IF ok THEN pending' = Tail(pending) /\ UNCHANGED <<err, pc>>
     ELSE /\ pending' = <<>> /\ err' = err \cup {"callback"}
          /\ pc' = IF Streams /\ pc \in {"publish", "reading"} THEN "close" ELSE "return"
  /\ UNCHANGED <<call, n, usage, streams, answer, chunk, raw, refused>>

\* The provider's failures: an HTTP error before the first chunk, which joins
\* the sentinel of its status (1302 and 1308 come with 429), or an error event
\* in the stream, which has no status.
ProviderFailures ==
  {{"provider", code} \cup
     (IF n = 0 /\ code \in {"1302", "1308"} THEN {"ErrRateLimited"} ELSE {}) :
     code \in {"1302", "1308", "1261", "1301"}}

endOfStream ==
  /\ Reads /\ Streams
  /\ err' \in {{}} \cup ProviderFailures
  /\ pc' = "close"
  /\ UNCHANGED <<call, n, pending, deltas, usage, streams, answer, openaiVars>>

completionFails ==
  /\ Reads /\ ~Streams
  /\ err' \in ProviderFailures
  /\ pc' = "return"
  /\ UNCHANGED <<call, n, pending, deltas, usage, streams, answer, openaiVars>>

\* consumeStreamReasoning's end: close always, join its error, and publish
\* the reasoning if nothing failed.
closeOpenAI(ok) ==
  /\ IsOpenAI /\ pc = "close"
  /\ streams' = 0
  /\ err' = IF ok THEN err ELSE err \cup {"close"}
  /\ pc' = IF err' = {} THEN "finish" ELSE "return"
  /\ pending' = IF err' = {} THEN emit(reasoning) ELSE <<>>
  /\ UNCHANGED <<call, n, deltas, usage, answer, openaiVars>>

\* The finish reason mapper sees only what the transport did not recognise.
finishResponse ==
  LET asks == IsZai /\ raw # "" /\ usage.finish = Unset IN
  /\ IsOpenAI /\ pc = "finish" /\ Idle
  /\ IF asks /\ raw = "network_error"
     THEN pc' = "return" /\ err' = {"provider", "network_error"} /\ UNCHANGED usage
     ELSE /\ usage' = IF asks THEN [usage EXCEPT !.finish = finishReason(raw)] ELSE usage
          /\ pc' = IF IsZai THEN "flush" ELSE "done"
          /\ UNCHANGED err
  /\ UNCHANGED <<call, n, pending, deltas, streams, answer, openaiVars>>

\* Z.ai publishes what no finish delta announced, then returns.
flush ==
  /\ pc = "flush" /\ Idle
  /\ IF NeedsFlush
     THEN /\ pending' = <<StateDelta(capture.reasoning, <<>>)>>
          /\ capture' = [capture EXCEPT !.published = TRUE] /\ UNCHANGED pc
     ELSE pc' = "done" /\ UNCHANGED <<pending, capture>>
  /\ UNCHANGED <<call, n, deltas, usage, err, streams, answer, chunk, raw, refused, reasoning>>

returnError ==
  /\ IsOpenAI /\ pc = "return"
  /\ err' = IF IsZai THEN providerError(err) ELSE err
  /\ pc' = "done"
  /\ UNCHANGED <<call, n, pending, deltas, usage, streams, answer, openaiVars>>

OpenAINext ==
  \/ openaiStart
  \/ Reads /\ Streams /\ n < MaxChunks
       /\ \E c \in ContentChunks \cup FinishChunks \cup UsageChunks \cup {MalformedChunk} :
            nextChunk(c, 0)
  \/ Reads /\ Streams /\ n < MaxChunks /\ nextBlocks
  \/ Reads /\ ~Streams /\ \E c \in Completions \cup UsageChunks : completionArrives(c)
  \/ publishCompletion \/ publishChunk \/ captureFlush
  \/ \E ok \in BOOLEAN : openaiDelta(ok) \/ closeOpenAI(ok)
  \/ endOfStream \/ completionFails \/ finishResponse \/ flush \/ returnError
=============================================================================

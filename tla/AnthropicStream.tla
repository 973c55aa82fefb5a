--------------------------- MODULE AnthropicStream ---------------------------
(***************************************************************************)
(* The Anthropic driver's Stream and Complete (drivers/anthropic/driver.go *)
(* and the response half of translate.go).  The SDK's Message.Accumulate   *)
(* and the provider's events are external: content blocks start in order,  *)
(* their deltas and stops may interleave, the stop reason comes once every *)
(* block has stopped, and the stream may break off anywhere.               *)
(***************************************************************************)
EXTENDS DriverCall

CONSTANTS
  MaxEvents,     \* bound on the events of one stream
  StopReasons,   \* stop reasons the provider sends
  MaxBlocks      \* bound on the content blocks of one message

VARIABLES
  message,          \* the message Accumulate has built
  toolCallIndexes   \* streamState: content block index to tool call ordinal

anthropicVars == <<message, toolCallIndexes>>

IsAnthropic == call.driver = "anthropic"

ReasoningTypes == {"thinking", "redacted_thinking"}
BlockTypes == ReasoningTypes \cup {"text", "tool_use"}

\* A content block; raw is the JSON the SDK kept of it, which it renews when
\* the block stops.
ContentBlock(type, body) ==
  [type |-> type, body |-> body, sig |-> <<>>, raw |-> body, open |-> TRUE]

NoMessage == [content |-> <<>>, stop |-> "", prompt |-> 0, completion |-> 0]

-----------------------------------------------------------------------------
(* The provider's events and the SDK *)

Event(type, index, kind, body) ==
  [type |-> type, index |-> index, kind |-> kind, body |-> body]

Fragment == <<n + 1>>

OpenBlocks == {i \in 1..Len(message.content) : message.content[i].open}

DeltaKinds(type) ==
  CASE type = "text" -> {"text_delta"}
    [] type = "thinking" -> {"thinking_delta", "signature_delta"}
    [] type = "tool_use" -> {"input_json_delta"}
    [] type = "redacted_thinking" -> {}

\* Events of a provider that keeps to the protocol.  Block indexes count from
\* 1 here.
ProtocolEvents ==
  (IF Len(message.content) < MaxBlocks /\ message.stop = ""
   THEN {Event("content_block_start", Len(message.content) + 1, type,
               IF type = "redacted_thinking" THEN Fragment ELSE <<>>) :
           type \in BlockTypes} ELSE {})
  \cup (UNION {{Event("content_block_delta", i, kind, Fragment) :
                  kind \in DeltaKinds(message.content[i].type)} : i \in OpenBlocks})
  \cup {Event("content_block_stop", i, "", <<>>) : i \in OpenBlocks}
  \cup (IF OpenBlocks = {} /\ message.stop = ""
        THEN {Event("message_delta", 0, r, <<>>) : r \in StopReasons} ELSE {})

\* A delta for a block that never started, and tool input for another block.
ProtocolErrors ==
  {Event("content_block_delta", Len(message.content) + 1, "text_delta", Fragment)}
  \cup {Event("content_block_delta", i, "input_json_delta", Fragment) :
          i \in {j \in OpenBlocks : message.content[j].type # "tool_use"}}

AccumulateFails(m, e) ==
  /\ e.type = "content_block_delta"
  /\ e.index > Len(m.content)

\* Message.Accumulate
Accumulate(m, e) ==
  CASE e.type = "content_block_start" ->
         [m EXCEPT !.content = Append(@, ContentBlock(e.kind, e.body))]
    [] e.type = "content_block_delta" /\ e.kind = "signature_delta" ->
         [m EXCEPT !.content[e.index].sig = @ \o e.body]
    [] e.type = "content_block_delta" /\ e.kind # "signature_delta" ->
         IF e.kind \in DeltaKinds(m.content[e.index].type)
         THEN [m EXCEPT !.content[e.index].body = @ \o e.body] ELSE m
    [] e.type = "content_block_stop" ->
         [m EXCEPT !.content[e.index].raw =
                     m.content[e.index].body \o m.content[e.index].sig,
                   !.content[e.index].open = FALSE]
    [] e.type = "message_delta" ->
         [m EXCEPT !.stop = e.kind, !.completion = 1]

-----------------------------------------------------------------------------
(* translate.go *)

normalizeFinishReason(reason) ==
  CASE reason = "end_turn" -> "stop"
    [] reason = "max_tokens" -> "length"
    [] reason = "tool_use" -> "tool_calls"
    [] reason = "refusal" -> "content_filter"
    [] reason = "stop_sequence" -> "stop_sequence"
    [] reason = "pause_turn" -> "paused"
    [] reason = "model_context_window_exceeded" -> "context_exceeded"
    [] OTHER -> Unset

usageFromMessage(m) ==
  [finish |-> normalizeFinishReason(m.stop), prompt |-> m.prompt,
   completion |-> m.completion, total |-> m.prompt + m.completion]

NextToolCallIndex == Cardinality(DOMAIN toolCallIndexes)

\* Tool input whose block has no start event.
EmitFails(e) ==
  /\ e.type = "content_block_delta" /\ e.kind = "input_json_delta"
  /\ e.index \notin DOMAIN toolCallIndexes

emitEventDelta(e) ==
  IF e.type = "content_block_start" /\ e.kind = "tool_use"
  THEN <<ToolCallDelta(NextToolCallIndex, "id", <<>>)>>
  ELSE CASE e.kind = "text_delta" -> <<TextDelta(e.body)>>
         [] e.kind = "thinking_delta" -> <<ReasoningDelta(e.body)>>
         [] e.kind = "input_json_delta" ->
              <<ToolCallDelta(toolCallIndexes[e.index], "", e.body)>>
         [] OTHER -> <<>>

deltaFromContentBlock(block, toolCallIndex) ==
  CASE block.type = "thinking" -> IfAny(block.body, ReasoningDelta(block.body))
    [] block.type = "text" -> IfAny(block.body, TextDelta(block.body))
    [] block.type = "tool_use" -> <<ToolCallDelta(toolCallIndex, "id", block.body)>>
    [] OTHER -> <<>>

\* The ordinal of a block among the message's tool calls.
ToolCallOrdinal(content, i) ==
  Cardinality({j \in 1..(i - 1) : content[j].type = "tool_use"})

emitMessageContent(content) ==
  FlattenSeq([i \in 1..Len(content) |->
                deltaFromContentBlock(content[i], ToolCallOrdinal(content, i))])

\* The reasoning blocks as the SDK kept them, in the order of the message.
marshalProviderReasoning(content) ==
  FlattenSeq([i \in 1..Len(content) |->
                IF content[i].type \in ReasoningTypes THEN <<content[i].raw>> ELSE <<>>])

-----------------------------------------------------------------------------
(* driver.go *)

AnthropicInit ==
  /\ message = NoMessage
  /\ toolCallIndexes = <<>>

\* A request that cannot be translated never reaches the network.
anthropicStart ==
  /\ IsAnthropic /\ pc = "start"
  /\ \/ /\ pc' = "done" /\ err' = {"request"} /\ UNCHANGED <<streams, message, answer>>
     \/ /\ pc' = "reading"
        /\ streams' = IF Streams THEN 1 ELSE 0
        /\ message' = [NoMessage EXCEPT !.prompt = IF Streams THEN 2 ELSE 0]
        /\ answer' = [answer EXCEPT !.usage = IF Streams THEN <<2, 0>> ELSE @]
        /\ UNCHANGED err
  /\ UNCHANGED <<call, n, pending, deltas, usage, toolCallIndexes>>

\* What the provider has sent of the reasoning blocks of a message.
ReasoningSent(content) ==
  FlattenSeq([i \in 1..Len(content) |->
                IF content[i].type \in ReasoningTypes
                THEN <<content[i].body \o content[i].sig>> ELSE <<>>])

SentEvent(e) ==
  [answer EXCEPT
     !.text = IF e.kind = "text_delta" THEN @ \o e.body ELSE @,
     !.reasoning = IF e.kind = "thinking_delta" THEN @ \o e.body ELSE @,
     !.blocks = ReasoningSent(message'.content),
     !.calls = IF e.kind = "input_json_delta"
               THEN Append(@, [index |-> ToolCallOrdinal(message.content, e.index),
                               body |-> e.body]) ELSE @,
     !.reason = IF e.type = "message_delta" THEN e.kind ELSE @,
     !.usage = IF e.type = "message_delta" THEN <<@[1], 1>> ELSE @]

\* The driver waits for the provider.
Reads == IsAnthropic /\ pc = "reading" /\ Idle

\* consumeStream: accumulate the event, then publish its delta.
nextEvent(e) ==
  /\ n' = n + 1
  /\ IF AccumulateFails(message, e)
     THEN /\ err' = {"accumulate"} /\ pc' = "close"
          /\ UNCHANGED <<message, pending, toolCallIndexes, answer>>
     ELSE /\ message' = Accumulate(message, e)
          /\ answer' = IF EmitFails(e) THEN answer ELSE SentEvent(e)
          /\ IF HasCallback /\ EmitFails(e)
             THEN err' = {"transcript"} /\ pc' = "close" /\ UNCHANGED <<pending, toolCallIndexes>>
             ELSE /\ pending' = IF HasCallback THEN emitEventDelta(e) ELSE <<>>
                  /\ toolCallIndexes' =
                       IF HasCallback /\ e.type = "content_block_start" /\ e.kind = "tool_use"
                       THEN [i \in DOMAIN toolCallIndexes \cup {e.index} |->
                               IF i = e.index THEN NextToolCallIndex ELSE toolCallIndexes[i]]
                       ELSE toolCallIndexes
                  /\ UNCHANGED <<err, pc>>
  /\ UNCHANGED <<call, deltas, usage, streams>>

anthropicDelta(ok) ==
  /\ IsAnthropic /\ ~Idle
  /\ deltas' = Append(deltas, Head(pending))
  /\ IF ok THEN pending' = Tail(pending) /\ UNCHANGED <<err, pc>>
     ELSE pending' = <<>> /\ err' = {"callback"} /\ pc' = "close"
  /\ UNCHANGED <<call, n, usage, streams, answer, anthropicVars>>

\* The stream broke off with an error: no tail is published.
streamFails ==
  /\ Reads /\ Streams
  /\ err' = {"provider"}
  /\ pc' = "close"
  /\ UNCHANGED <<call, n, pending, deltas, usage, streams, answer, anthropicVars>>

\* Fault: the finish reason is published before the reasoning.
finishReasonFirst(m) ==
  LET blocks == marshalProviderReasoning(m.content)
      reason == usageFromMessage(m).finish
  IN (IF reason = Unset THEN <<>> ELSE <<FinishDelta(reason)>>)
       \o IfAny(blocks, StateDelta(<<>>, blocks))

\* What finishStream publishes: the reasoning, then the finish reason.
finishStreamDeltas(m) ==
  LET blocks == marshalProviderReasoning(m.content)
      reason == usageFromMessage(m).finish
  IN IfAny(blocks, StateDelta(<<>>, blocks))
       \o (IF reason = Unset THEN <<>> ELSE <<FinishDelta(reason)>>)

\* The events are over, or the content of a whole message is published.
finishStream ==
  /\ IsAnthropic /\ pc \in {"reading", "content"} /\ Idle
  /\ Streams <=> pc = "reading"
  /\ pending' = IF HasCallback THEN finishStreamDeltas(message) ELSE <<>>
  /\ pc' = "close"
  /\ UNCHANGED <<call, n, deltas, usage, err, streams, answer, anthropicVars>>

\* Every path ends here once the response was read: closeStream, and the usage
\* of what arrived.
closeStream(ok) ==
  /\ IsAnthropic /\ pc = "close" /\ Idle
  /\ ~ok => Streams
  /\ streams' = 0
  /\ err' = IF ok THEN err ELSE err \cup {"close"}
  /\ usage' = usageFromMessage(message)
  /\ pc' = "done"
  /\ UNCHANGED <<call, n, pending, deltas, answer, anthropicVars>>

\* A whole message of Complete: up to three finished blocks.
Messages ==
  LET types == UNION {[1..k -> BlockTypes] : k \in 0..MaxBlocks}
      block(type, i) == [ContentBlock(type, <<i>>) EXCEPT !.open = FALSE]
  IN {[content |-> [i \in DOMAIN t |-> block(t[i], i)], stop |-> r,
       prompt |-> 2, completion |-> 1] : t \in types, r \in StopReasons}

BodyOf(content, types) ==
  FlattenSeq([i \in 1..Len(content) |->
                IF content[i].type \in types THEN content[i].body ELSE <<>>])

\* The tool calls of a whole message, in its order.
CallsSent(content) ==
  LET called(i) == {j \in 1..i : content[j].type = "tool_use"}
  IN FlattenSeq([i \in 1..Len(content) |->
       IF content[i].type = "tool_use"
       THEN <<[index |-> Cardinality(called(i)) - 1, body |-> content[i].body]>> ELSE <<>>])

messageArrives(m) ==
  /\ message' = m
  /\ answer' = [text |-> BodyOf(m.content, {"text"}),
                reasoning |-> BodyOf(m.content, {"thinking"}),
                blocks |-> ReasoningSent(m.content),
                calls |-> CallsSent(m.content),
                refused |-> FALSE, reason |-> m.stop, usage |-> <<2, 1>>]
  /\ pending' = IF HasCallback THEN emitMessageContent(m.content) ELSE <<>>
  /\ pc' = "content"
  /\ UNCHANGED <<call, n, deltas, usage, err, streams, toolCallIndexes>>

\* Messages.New failed, or refused to run so long a call without streaming.
messageFails ==
  /\ Reads /\ ~Streams
  /\ err' \in {{"provider"}, {"ErrStreamingRequired"}}
  /\ pc' = "done"
  /\ UNCHANGED <<call, n, pending, deltas, usage, streams, answer, anthropicVars>>

AnthropicNext ==
  \/ anthropicStart
  \/ Reads /\ Streams /\ n < MaxEvents
       /\ \E e \in ProtocolEvents \cup ProtocolErrors : nextEvent(e)
  \/ \E ok \in BOOLEAN : anthropicDelta(ok) \/ closeStream(ok)
  \/ streamFails \/ finishStream
  \/ Reads /\ ~Streams /\ \E m \in Messages : messageArrives(m)
  \/ messageFails
=============================================================================

---------------------------- MODULE DriverStreams ----------------------------
(***************************************************************************)
(* One call of a driver, of any of the three: the OpenAI driver, the Z.ai  *)
(* driver on top of it, or the Anthropic driver, streaming or not.  The    *)
(* engine above relies on what is stated here of all of them alike.        *)
(***************************************************************************)
EXTENDS DriverCall

CONSTANTS
  MaxChunks, MaxToolIndex, FinishReasons, UsageFrames,  \* OpenAIStream
  MaxEvents, StopReasons, MaxBlocks                     \* AnthropicStream

\* There are three drivers.  A provider labels its reasoning blocks in one of the
\* ways the OpenAI driver merges, or sends none ("plain"), and if it states a total
\* of the tokens, it is the sum of the two counts.
ASSUME DriverAssumption ==
  /\ MaxBlocks \in Nat /\ MaxToolIndex \in Nat
  /\ \A c \in Calls : /\ c.driver \in {"openai", "zai", "anthropic"}
                     /\ c.style \in {"plain", "index", "id", "position"}
  /\ UsageFrames \subseteq {u \in Nat \X Nat \X Nat : u[3] \in {0, u[1] + u[2]}}

VARIABLES chunk, raw, refused, reasoning, capture, message, toolCallIndexes

OpenAI == INSTANCE OpenAIStream
Anthropic == INSTANCE AnthropicStream

openaiVars == <<chunk, raw, refused, reasoning, capture>>
anthropicVars == <<message, toolCallIndexes>>
vars == <<callVars, openaiVars, anthropicVars>>

Init == CallInit /\ OpenAI!OpenAIInit /\ Anthropic!AnthropicInit

Next ==
  \/ OpenAI!OpenAINext /\ UNCHANGED anthropicVars
  \/ Anthropic!AnthropicNext /\ UNCHANGED openaiVars

Spec == Init /\ [][Next]_vars

Done == pc = "done"
Succeeded == Done /\ err = {}

-----------------------------------------------------------------------------

Contract == INSTANCE DriverContract WITH
  deltas <- deltas,
  failed <- "callback" \in err,
  held <- streams > 0,
  outcome <- IF ~Done THEN "pending" ELSE IF err = {} THEN "ok" ELSE "error"

\* Every driver keeps the contract of one call: the envelope of reasoning at
\* most once, the finish delta once and after every payload, no delta after the
\* callback failed, that failure returned, and the response stream closed on
\* every way out (consumeStreamReasoning, finishStream, reasoningCapture).
ImplementsContract == Contract!Spec

\* The finish reason in Usage, which the engine records, is the one the delta
\* stream announced (conformance.go, assertFinishReasonsAgree), and a refusal
\* or a reason nobody maps never reads as a clean stop, though the refusal and
\* the reason come in different chunks.  A reason only Z.ai's mapper knows is
\* announced by no delta.
ReasonsAgree ==
  LET finishes == {i \in 1..Len(deltas) : deltas[i].kind = "finish"} IN
  Succeeded =>
    /\ usage.finish = "stop" => answer.reason \in {"stop", "end_turn"} /\ ~answer.refused
    /\ \A i \in finishes : usage.finish = deltas[i].id
    /\ HasCallback /\ finishes = {} =>
         usage.finish = Unset \/ (call.driver = "zai" /\ usage.finish = OpenAI!finishReason(raw))

\* What a fragment belongs to: the text, the reasoning, or the call at an index.
Channels == ({"text", "reasoning"} \X {0}) \cup ({"call"} \X (0..MaxToolIndex))

CallsIn(calls, index) ==
  FlattenSeq([i \in 1..Len(calls) |-> IF calls[i].index = index THEN calls[i].body ELSE <<>>])

\* What deltas say on a channel, joined, and what the provider sent on it.
Told(s, channel) ==
  FlattenSeq([i \in 1..Len(s) |->
    IF s[i].kind = channel[1] /\ s[i].index = channel[2] THEN s[i].body ELSE <<>>])

SentOn(channel) ==
  CASE channel[1] = "text" -> answer.text
    [] channel[1] = "reasoning" -> answer.reasoning
    [] channel[1] = "call" -> CallsIn(answer.calls, channel[2])

\* What the reasoning kept for replay is made of: OpenAI's own kind of it of
\* text and blocks, Z.ai's of text, Anthropic's of blocks.
ReplayText == IF call.driver = "anthropic" THEN <<>> ELSE answer.reasoning
ReplayBlocks == IF call.driver = "zai" THEN <<>> ELSE answer.blocks

Blocks(d) ==
  IF call.driver = "anthropic" THEN d.blocks
  ELSE [i \in 1..Len(d.blocks) |-> d.blocks[i].body]

\* Streamed in fragments or published whole, the deltas of every channel join
\* up to what the provider sent, to a prefix of it while the call runs or when
\* it failed; and the reasoning kept for replay is all of it, kept once, with
\* fragments of interleaved blocks joined to the blocks they belong to.
AnswerWhole ==
  LET states == {i \in 1..Len(deltas) : deltas[i].kind = "state"} IN
  /\ \A channel \in Channels : IsPrefix(Told(deltas, channel), SentOn(channel))
  /\ Succeeded /\ HasCallback /\ answer.reason # Unset =>
       /\ \A channel \in Channels : Told(deltas, channel) = SentOn(channel)
       /\ IF ReplayText = <<>> /\ ReplayBlocks = <<>> THEN states = {}
          ELSE \E i \in 1..Len(deltas) :
                 /\ states = {i}
                 /\ deltas[i].body = ReplayText /\ Blocks(deltas[i]) = ReplayBlocks

\* The usage returned is what the provider last reported, also by a call that
\* failed on the way, with the total derived where the provider left it out.
\* Only a chunk whose own publication failed may be missing.
UsageKept ==
  Done /\ err \cap {"callback", "malformed"} = {} =>
    /\ <<usage.prompt, usage.completion>> = answer.usage
    /\ usage.total = usage.prompt + usage.completion
=============================================================================

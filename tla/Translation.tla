----------------------------- MODULE Translation -----------------------------
(***************************************************************************)
(* A transcript on the wire: toOpenAIMessages (drivers/openai/translate.go)*)
(* and toAnthropicMessages (drivers/anthropic/translate.go), as far as the *)
(* order of messages, the results of tool calls, their images and the      *)
(* cache hints go.                                                         *)
(*                                                                         *)
(* A wire message names the positions of the transcript messages it        *)
(* carries, in order.  imaged and hinted are the positions of the messages *)
(* that carry images and cache hints.                                      *)
(***************************************************************************)
EXTENDS Transcript

CONSTANT MaxCacheBreakpoints   \* maxCacheBreakpoints

ASSUME TranslationAssumption == MaxCacheBreakpoints \in Nat

\* of: the messages whose content it carries; kind "images" carries only the
\* images of theirs.
Wire(kind, of) == [kind |-> kind, of |-> of]

-----------------------------------------------------------------------------
(* drivers/openai/translate.go *)

\* The user message with the images of a run of tool results.
toolImagesMessage(withImages) ==
  IF withImages = <<>> THEN <<>> ELSE <<Wire("images", withImages)>>

\* Fault: images follow the result that carries them.
imagesBehindEachResult(messages, imaged) ==
  FlattenSeq([i \in 1..Len(messages) |->
    <<Wire(messages[i].role, <<i>>)>> \o
      (IF messages[i].role = "tool" /\ i \in imaged THEN <<Wire("images", <<i>>)>> ELSE <<>>)])

\* A tool message takes text only, so the images of a run of tool results are
\* held back until the run is over.
toOpenAIMessages(messages, imaged) ==
  LET after[i \in 0..Len(messages)] ==
        IF i = 0 THEN [out |-> <<>>, withImages |-> <<>>]
        ELSE LET message == messages[i]
                 held == after[i - 1].withImages
                 flushed == IF message.role = "tool" THEN <<>> ELSE toolImagesMessage(held)
                 left == IF message.role = "tool" THEN held ELSE <<>>
             IN [out |-> after[i - 1].out \o flushed \o <<Wire(message.role, <<i>>)>>,
                 withImages |-> IF message.role = "tool" /\ i \in imaged
                                THEN Append(left, i) ELSE left]
  IN after[Len(messages)].out \o toolImagesMessage(after[Len(messages)].withImages)

-----------------------------------------------------------------------------
(* drivers/anthropic/translate.go: one pass that converts, keeps a leading *)
(* system message apart and counts the cache hints.                        *)

countCacheBreakpoint(walk, hinted, i) ==
  LET count == walk.breakpoints + IF i \in hinted THEN 1 ELSE 0 IN
  [walk EXCEPT !.breakpoints = count, !.ok = @ /\ count <= MaxCacheBreakpoints]

\* A result joins the user message that carries the result before it.
toToolResultMessage(converted, messages, i) ==
  IF i > 1 /\ messages[i - 1].role = "tool"
  THEN Append(Front(converted), Wire("results", Append(Last(converted).of, i)))
  ELSE Append(converted, Wire("results", <<i>>))

toAnthropicMessages(messages, hinted) ==
  LET after[i \in 0..Len(messages)] ==
        IF i = 0 THEN [ok |-> TRUE, breakpoints |-> 0, system |-> <<>>, converted |-> <<>>]
        ELSE LET counted == countCacheBreakpoint(after[i - 1], hinted, i)
                 role == messages[i].role
             IN CASE i = 1 /\ role = "system" -> [counted EXCEPT !.system = <<i>>]
                  [] role = "tool" ->
                       [counted EXCEPT !.converted = toToolResultMessage(@, messages, i)]
                  [] role # "tool" /\ ~(i = 1 /\ role = "system") ->
                       [counted EXCEPT !.converted = Append(@, Wire(role, <<i>>))]
  IN after[Len(messages)]
=============================================================================

----------------------------- MODULE Transcript -----------------------------
(***************************************************************************)
(* Conversation transcripts: the message shapes of message.go, the         *)
(* legality checks the two drivers run before they send a transcript       *)
(* (drivers/openai and drivers/anthropic validateTranscript), and          *)
(* transcript.go's repair.                                                 *)
(*                                                                         *)
(* A message keeps only what those algorithms look at: its role, whether   *)
(* an injector produced it, the ids of the tool calls it declares, the id  *)
(* of the call it answers, and a tag that tells queued user messages       *)
(* apart.  Text, reasoning, images, tool names and arguments are           *)
(* abstracted away.                                                        *)
(***************************************************************************)
EXTENDS Naturals, Sequences, FiniteSets, SequencesExt

CONSTANTS
  CallIDs,   \* tool call ids a provider may issue
  UserTags,  \* identities of the user messages that go through the queue
  NoID,      \* the empty Message.ToolCallID
  NoTag      \* the tag of a message that did not come through the queue

ASSUME TranscriptAssumption == NoID \notin CallIDs /\ NoTag \notin UserTags

Roles   == {"system", "user", "assistant", "tool", "unknown"}
Origins == {"turn", "injection"}

Message ==
  [role   : Roles,
   origin : Origins,
   calls  : Seq(CallIDs),
   callID : CallIDs \cup {NoID},
   tag    : UserTags \cup {NoTag}]

PlainMessage(role, origin) ==
  [role |-> role, origin |-> origin, calls |-> <<>>, callID |-> NoID,
   tag |-> NoTag]

SystemMessage == PlainMessage("system", "turn")
UserMessage   == PlainMessage("user", "turn")

QueuedMessage(tag) == [UserMessage EXCEPT !.tag = tag]

AssistantMessage(calls) ==
  [PlainMessage("assistant", "turn") EXCEPT !.calls = calls]

ToolMessage(id) == [PlainMessage("tool", "turn") EXCEPT !.callID = id]

HasCalls(message) == message.calls # <<>>

IsInjection(message) == message.origin = "injection"

-----------------------------------------------------------------------------
(* drivers/openai/translate.go: the checks before a chat completion. *)

\* Fault: two results of one call pass.
validateWithoutRepeats(messages, i) ==
  LET calls == messages[i].calls IN
  /\ i + Len(calls) <= Len(messages)
  /\ IsInjective(calls)
  /\ \A k \in (i + 1) .. (i + Len(calls)) :
        messages[k].role = "tool" /\ messages[k].callID \in ToSet(calls)

validateToolCallUnit(messages, i) ==
  LET calls   == messages[i].calls
      results == { k \in (i + 1) .. (i + Len(calls)) : k <= Len(messages) }
  IN  /\ i + Len(calls) <= Len(messages)
      /\ IsInjective(calls)
      /\ \A k \in results :
            /\ messages[k].role = "tool"
            /\ messages[k].callID \in ToSet(calls)
      /\ \A k, l \in results :
            k # l => messages[k].callID # messages[l].callID

\* The index walk: a checked unit is skipped whole, so a tool message the walk
\* still meets answers nothing.
openaiAccepts(messages) ==
  LET accepts[i \in 1 .. Len(messages) + 1] ==
        IF i > Len(messages) THEN TRUE
        ELSE LET message == messages[i] IN
             /\ message.role \notin {"unknown", "tool"}
             /\ IF message.role = "assistant" /\ HasCalls(message)
                THEN /\ validateToolCallUnit(messages, i)
                     /\ accepts[i + 1 + Len(message.calls)]
                ELSE accepts[i + 1]
  IN  accepts[1]

-----------------------------------------------------------------------------
(* drivers/anthropic/translate.go: one pass over the transcript with the   *)
(* calls still pending and the calls answered so far, in the WHOLE         *)
(* transcript.                                                             *)

validateAssistantMessage(walk, message) ==
  [walk EXCEPT !.ok      = @ /\ IsInjective(message.calls),
               !.pending = @ \cup ToSet(message.calls)]

validateToolMessage(walk, message) ==
  [ok       |-> /\ walk.ok
                /\ message.callID \in walk.pending
                /\ message.callID \notin walk.answered,
   pending  |-> walk.pending \ {message.callID},
   answered |-> walk.answered \cup {message.callID}]

validateTranscriptMessage(walk, message) ==
  LET reject == [walk EXCEPT !.ok = FALSE]
  IN  CASE message.role = "unknown" -> reject
        [] message.role = "tool" -> validateToolMessage(walk, message)
        [] message.role \in {"system", "user", "assistant"}
             /\ walk.pending # {} -> reject
        [] message.role = "assistant" /\ walk.pending = {} ->
             validateAssistantMessage(walk, message)
        [] message.role \in {"system", "user"} /\ walk.pending = {} -> walk

anthropicAccepts(messages) ==
  LET start == [ok |-> TRUE, pending |-> {}, answered |-> {}]
      walk  == FoldLeft(validateTranscriptMessage, start, messages)
  IN  walk.ok /\ walk.pending = {}

-----------------------------------------------------------------------------
(* What both providers mean by a legal transcript, stated on positions     *)
(* instead of as a walk.                                                   *)

\* The calls declared at i are answered, each exactly once, by the messages
\* that directly follow.
Answered(messages, i) ==
  LET calls == messages[i].calls IN
  /\ i + Len(calls) <= Len(messages)
  /\ \A k \in 1 .. Len(calls) : messages[i + k].role = "tool"
  /\ \A id \in ToSet(calls) :
        \E k \in 1 .. Len(calls) : messages[i + k].callID = id
  /\ IsInjective(calls)

Paired(messages) ==
  /\ \A i \in DOMAIN messages : HasCalls(messages[i]) => Answered(messages, i)
  /\ \A k \in DOMAIN messages : messages[k].role = "tool" =>
        \E i \in 1 .. (k - 1) :
            HasCalls(messages[i]) /\ k <= i + Len(messages[i].calls)

\* No call id is answered twice anywhere in the transcript.
AnsweredOnce(messages) ==
  \A k, l \in DOMAIN messages :
     (/\ messages[k].role = "tool"
      /\ messages[l].role = "tool"
      /\ messages[k].callID = messages[l].callID) => k = l

RolesKnown(messages) ==
  \A i \in DOMAIN messages : messages[i].role # "unknown"

\* Only turns of the model declare calls, and nothing injected is a tool result.
Tame(messages) ==
  \A i \in DOMAIN messages :
    /\ HasCalls(messages[i]) => messages[i].role = "assistant" /\ ~IsInjection(messages[i])
    /\ IsInjection(messages[i]) => messages[i].role # "tool"

-----------------------------------------------------------------------------
(* transcript.go *)

\* The position just after the unit that starts at i: the run of tool messages
\* behind a message with calls.  limit.go's unitEnd and the scan of
\* repairToolUnit are the same walk.
unitEnd(messages, i) ==
  IF ~HasCalls(messages[i]) THEN i + 1
  ELSE CHOOSE end \in (i + 1) .. (Len(messages) + 1) :
         /\ \A k \in (i + 1) .. (end - 1) : messages[k].role = "tool"
         /\ end <= Len(messages) => messages[end].role # "tool"

\* The elements of s at the positions in S, in order.
Pick(s, S) ==
  [ n \in 1 .. Cardinality(S) |->
      s[Min({ k \in S : Cardinality({ l \in S : l < k }) >= n - 1 })] ]

\* The first occurrence of every id, in order.
dedupeToolCalls(calls) ==
  Pick(calls, { k \in DOMAIN calls : \A l \in 1 .. (k - 1) : calls[l] # calls[k] })

\* Fault: only the first result is looked at.
repairFirstResult(messages, i) ==
  IF i < Len(messages) /\ ToSet(messages[i].calls) = {messages[i + 1].callID}
  THEN {i, i + 1} ELSE {}

\* The positions that survive of the unit at i: none when a call has no result,
\* otherwise the declaring message and the first result of every call.
repairToolUnit(messages, i) ==
  LET wanted  == ToSet(messages[i].calls)
      results == (i + 1) .. (unitEnd(messages, i) - 1)
  IN  IF wanted \subseteq { messages[k].callID : k \in results }
      THEN {i} \cup { k \in results :
                        /\ messages[k].callID \in wanted
                        /\ \A l \in (i + 1) .. (k - 1) :
                              messages[l].callID # messages[k].callID }
      ELSE {}

\* Messages without calls stay, tool messages stay only as part of a unit, and
\* repeated call ids are merged.
repairTranscript(messages) ==
  LET kept ==
        UNION { IF HasCalls(messages[i]) THEN repairToolUnit(messages, i) ELSE {i} :
                i \in { j \in DOMAIN messages : messages[j].role # "tool" } }
      deduped ==
        [ i \in DOMAIN messages |->
            [messages[i] EXCEPT !.calls = dedupeToolCalls(messages[i].calls)] ]
  IN  Pick(deduped, kept)
=============================================================================

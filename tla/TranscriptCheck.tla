--------------------------- MODULE TranscriptCheck ---------------------------
(***************************************************************************)
(* The pure transcript algorithms over every bounded transcript a caller   *)
(* may start from: a stored history grows one message at a time, legal or  *)
(* not.                                                                    *)
(***************************************************************************)
EXTENDS Limit, Translation

CONSTANTS
  History,    \* the messages a stored history is made of
  MaxLength   \* bound on the length of a history

\* Messages are made by the constructors of message.go: only those of the model's
\* turns take calls, and nothing injected is a tool result.
ASSUME HistoryAssumption == History \subseteq Message /\ \A m \in History : Tame(<<m>>)

VARIABLES
  transcript,
  imaged,      \* positions of the tool results that carry images
  hinted       \* positions of the messages with a cache hint

historyVars == <<transcript, imaged, hinted>>

HistoryInit == transcript = <<>> /\ imaged = {} /\ hinted = {}

\* Prompt.Add: history is taken as it comes.
Add(message, image, hint) ==
  LET i == Len(transcript) + 1 IN
  /\ i <= MaxLength
  /\ transcript' = Append(transcript, message)
  /\ imaged' = IF image THEN imaged \cup {i} ELSE imaged
  /\ hinted' = IF hint THEN hinted \cup {i} ELSE hinted

\* A user's own images need no place of their own, and hints of other messages
\* are counted alike.
HistoryNext ==
  \E message \in History, image, hint \in BOOLEAN :
    /\ image \/ hint => message.role = "tool" /\ image # hint
    /\ Add(message, image, hint)

HistorySpec == HistoryInit /\ [][HistoryNext]_historyVars

-----------------------------------------------------------------------------
\* The two drivers' walks accept exactly the transcripts whose calls are
\* answered one for one by the messages behind them; the Anthropic walk also
\* refuses an id that is answered twice anywhere.
ValidatorsAgree ==
  /\ openaiAccepts(transcript) <=> RolesKnown(transcript) /\ Paired(transcript)
  /\ anthropicAccepts(transcript) <=>
        /\ RolesKnown(transcript)
        /\ Paired(transcript)
        /\ AnsweredOnce(transcript)

\* WithTranscriptRepair makes every history with known roles acceptable to the
\* OpenAI driver, in one pass: repairing again changes nothing.  The Anthropic
\* driver takes the repaired history unless a call id is still answered twice in
\* it, which repair does not look for; never when the caller's ids are answered
\* once.
RepairMakesLegal ==
  LET repaired == repairTranscript(transcript) IN
  /\ RolesKnown(transcript) =>
       /\ openaiAccepts(repaired)
       /\ anthropicAccepts(repaired) <=> AnsweredOnce(repaired)
       /\ AnsweredOnce(transcript) => anthropicAccepts(repaired)
  /\ repairTranscript(repaired) = repaired

\* Repair deletes no more than it must: a legal history is left as it is, and
\* everything outside tool exchanges survives in order.
RepairKeepsConversation ==
  LET outside(s) == Pick(s, { i \in DOMAIN s : s[i].role # "tool" /\ ~HasCalls(s[i]) }) IN
  /\ openaiAccepts(transcript) => repairTranscript(transcript) = transcript
  /\ outside(repairTranscript(transcript)) = outside(transcript)

\* WithTranscriptRepair mends a broken history as far as it says, at the least
\* cost.
RepairSound == RepairMakesLegal /\ RepairKeepsConversation

\* The positions a sequence of wire messages carries, in order.
Carried(wire) == FlattenSeq([k \in 1..Len(wire) |-> wire[k].of])

Positions == [i \in 1..Len(transcript) |-> i]

\* On OpenAI's wire every message is sent once and in order, the results directly
\* behind their calls, and the images of a run of results together behind it,
\* each once.
OpenAIWire ==
  LET wire == toOpenAIMessages(transcript, imaged)
      images == { k \in DOMAIN wire : wire[k].kind = "images" }
  IN
  /\ Pick(wire, DOMAIN wire \ images)
       = [i \in 1..Len(transcript) |-> Wire(transcript[i].role, <<i>>)]
  /\ Carried(Pick(wire, images)) = Pick(Positions, imaged)
  /\ \A k \in DOMAIN wire : wire[k].kind = "assistant" =>
       LET calls == transcript[wire[k].of[1]].calls IN
       /\ \A j \in 1..Len(calls) : k + j \in DOMAIN wire /\ wire[k + j].kind = "tool"
       /\ ToSet(calls) = { transcript[wire[k + j].of[1]].callID : j \in 1..Len(calls) }
  /\ \A k \in images : /\ wire[k - 1].kind = "tool"
                       /\ k < Len(wire) => wire[k + 1].kind # "tool"

\* On Anthropic's the results of a turn are in the one user message that follows
\* it, everything is sent once and in order, and every cache hint is counted once
\* against the provider's limit, whether its result starts a message or joins one.
AnthropicWire ==
  LET walk == toAnthropicMessages(transcript, hinted)
      wire == walk.converted
      calls(k) == transcript[wire[k].of[1]].calls
  IN
  /\ walk.ok <=> Cardinality(hinted) <= MaxCacheBreakpoints
  /\ walk.system \o Carried(wire) = Positions
  /\ \A k \in DOMAIN wire :
       IF wire[k].kind = "assistant" /\ calls(k) # <<>>
       THEN /\ k < Len(wire) /\ wire[k + 1].kind = "results"
            /\ ToSet(calls(k)) = { transcript[i].callID : i \in ToSet(wire[k + 1].of) }
       ELSE k = Len(wire) \/ wire[k + 1].kind # "results"

\* What a driver accepts it also sends in a form the provider accepts: calls and
\* their results stay together on the wire, and nothing is lost or sent twice.
WireKeepsExchanges ==
  /\ openaiAccepts(transcript) => OpenAIWire
  /\ anthropicAccepts(transcript) => AnthropicWire
=============================================================================

---------------------------- MODULE RequestParams ----------------------------
(***************************************************************************)
(* The vocabulary of a request: models, capabilities and generation        *)
(* parameters, as request.go's validation and the drivers look at them.    *)
(*                                                                         *)
(* A model id is a sequence of the pieces its drivers tell apart, so that  *)
(* strings.HasPrefix is a prefix of sequences and the dash that ends a     *)
(* family name is a piece of its own.  A pointer that may be nil is a set  *)
(* of at most one value.                                                   *)
(***************************************************************************)
EXTENDS Integers, Sequences, FiniteSets, SequencesExt

Unset == ""

Dash == <<"-">>

\* id == known || strings.HasPrefix(id, known + "-")
IsListedAs(id, known) == id = known \/ IsPrefix(known \o Dash, id)

-----------------------------------------------------------------------------
(* model.go *)

Levels(min, max) ==
  [Min |-> min, Low |-> "low", Medium |-> "medium", High |-> "high", Max |-> max]

NoLevels == [Min |-> Unset, Low |-> Unset, Medium |-> Unset, High |-> Unset, Max |-> Unset]

Model(id, contextSize, reasons, levels) ==
  [ID |-> id, ContextSize |-> contextSize, SupportsReasoning |-> reasons,
   ReasoningLevels |-> levels]

ModelType ==
  [ID : Seq(STRING), ContextSize : Int, SupportsReasoning : BOOLEAN,
   ReasoningLevels : [Min : STRING, Low : STRING, Medium : STRING, High : STRING, Max : STRING]]

\* A model the caller describes by its id alone.
BareModel(id) == Model(id, 0, FALSE, NoLevels)

reasoningLevel(got, fallback) == IF got # Unset THEN got ELSE fallback

ReasoningLevelMin(model) == reasoningLevel(model.ReasoningLevels.Min, "minimal")

ReasoningLevelMax(model) == reasoningLevel(model.ReasoningLevels.Max, "max")

-----------------------------------------------------------------------------
(* params.go *)

EffortOrder == <<"minimal", "low", "medium", "high", "xhigh", "max">>

\* 0 for a level this package does not define, and for none and unset.
reasoningEffortRank(effort) ==
  IF Contains(EffortOrder, effort)
  THEN CHOOSE i \in DOMAIN EffortOrder : EffortOrder[i] = effort ELSE 0

\* GenerationParams; temperature stands for top_p too, penalty for both
\* penalties, stop counts the stop words.  Of Extra, the keys a caller may set,
\* and what the Z.ai driver writes there: max_tokens and reasoning_effort.
NoParams ==
  [effort |-> Unset, format |-> {}, choice |-> [mode |-> Unset, name |-> ""],
   parallel |-> {}, temperature |-> FALSE, penalty |-> FALSE, seed |-> FALSE,
   maxOutput |-> {}, stop |-> 0, extra |-> {}, maxTokens |-> {}, wireEffort |-> Unset]

Format(type, named, object) == [type |-> type, named |-> named, object |-> object]

FormatType == [type : STRING, named : BOOLEAN, object : BOOLEAN]

ChoiceType == [mode : STRING, name : STRING]

\* content.go: the type of a part.  An image may have a media type, and a file
\* an id, that only some provider takes.
PartType(part) ==
  CASE part = "heic" -> "image"
    [] part = "file id" -> "file"
    [] OTHER -> part

IsTruncated(reason) == reason \in {"length", "context_exceeded"}

IsRefusal(reason) == reason = "content_filter"
=============================================================================

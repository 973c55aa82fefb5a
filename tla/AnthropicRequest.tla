-------------------------- MODULE AnthropicRequest --------------------------
(***************************************************************************)
(* What the Anthropic driver says a model takes                            *)
(* (drivers/anthropic/models.go) and what it refuses before any network    *)
(* call (the request half of translate.go, content.go).                    *)
(***************************************************************************)
EXTENDS RequestParams

CONSTANT AnthropicContextSize   \* anthropicContextSize

Claude(name) == <<"claude", name>>

Frontier == {Claude(c) : c \in {"sonnet-5", "fable-5", "mythos-5", "opus-5", "opus-4-8", "opus-4-7"}}
MythosPreview == Claude("mythos-preview")
Gen46 == {Claude("opus-4-6"), Claude("sonnet-4-6")}

knownModelIDs ==
  Frontier \cup {MythosPreview} \cup Gen46
    \cup {Claude(c) : c \in {"haiku-4-5", "opus-4-5", "sonnet-4-5"}}

\* No listed id is the dashed prefix of another, so the first match is the
\* only one.
canonicalModelID(id) ==
  IF \E k \in knownModelIDs : IsListedAs(id, k)
  THEN CHOOSE k \in knownModelIDs : IsListedAs(id, k) ELSE id

samplingRestrictedModelIDs == Frontier \cup {MythosPreview}

supportsSamplingParams(id) == canonicalModelID(id) \notin samplingRestrictedModelIDs

supportsStructuredOutput(id) == canonicalModelID(id) \in knownModelIDs

contextSize(id) == IF supportsStructuredOutput(id) THEN AnthropicContextSize ELSE 0

isEffortModel(id) ==
  canonicalModelID(id) \in Frontier \cup {MythosPreview, Claude("opus-4-5")} \cup Gen46

supportsXHighEffort(id) == canonicalModelID(id) \in Frontier

supportsMaxEffort(id) == canonicalModelID(id) \in Frontier \cup {MythosPreview} \cup Gen46

supportsDisablingReasoning(id) ==
  canonicalModelID(id) \notin {Claude("fable-5"), Claude("mythos-5"), MythosPreview}

maxReasoningEffort(id) ==
  CASE supportsMaxEffort(id) -> "max"
    [] ~supportsMaxEffort(id) /\ isEffortModel(id) -> "high"
    [] OTHER -> Unset

isSupportedReasoningEffort(id, effort) ==
  /\ isEffortModel(id)
  /\ \/ effort \in {"low", "medium", "high"}
     \/ effort = "xhigh" /\ supportsXHighEffort(id)
     \/ effort = "max" /\ supportsMaxEffort(id)

LookupModel(id) ==
  Model(id, contextSize(id), isEffortModel(id),
        IF isEffortModel(id) THEN Levels("low", maxReasoningEffort(id)) ELSE NoLevels)

Capabilities(model) ==
  LET id == model.ID IN
  [JSONSchema |-> supportsStructuredOutput(id), JSONObject |-> FALSE,
   StrictTools |-> supportsStructuredOutput(id), ToolChoice |-> TRUE, Parallel |-> TRUE,
   Seed |-> FALSE, Penalties |-> FALSE, Sampling |-> supportsSamplingParams(id),
   Effort |-> isEffortModel(id), Disabling |-> supportsDisablingReasoning(id),
   Parts |-> {"text", "image", "file"}, MaxEffort |-> maxReasoningEffort(id)]

-----------------------------------------------------------------------------
(* translate.go and content.go *)

toAnthropicTools(id, tools) == \A t \in tools : t.strict => supportsStructuredOutput(id)

hasSamplingParams(params) ==
  params.temperature \/ params.extra \cap {"top_k", "top_k bad"} # {}

validateGenerationParams(id, params) ==
  /\ ~params.penalty /\ ~params.seed
  /\ hasSamplingParams(params) => supportsSamplingParams(id)

\* Only a positive integer top_k is taken.
applyExtraParams(extra) == extra \subseteq {"top_k"}

\* An unset choice still says auto when parallel calls are spoken of.
applyToolChoice(params) ==
  IF params.choice.mode = Unset /\ params.parallel # {}
  THEN [params.choice EXCEPT !.mode = "auto"] ELSE params.choice

applyReasoning(id, effort) ==
  CASE effort = Unset -> TRUE
    [] effort = "none" -> supportsDisablingReasoning(id)
    [] OTHER -> isSupportedReasoningEffort(id, effort)

applyResponseFormat(id, format) ==
  \A f \in format : \/ f.type = Unset
                    \/ f.type = "json_schema" /\ supportsStructuredOutput(id) /\ f.object

applyGenerationParams(id, params) ==
  /\ validateGenerationParams(id, params)
  /\ applyExtraParams(params.extra)
  /\ params.choice.mode \in {Unset, "auto", "none", "required", "tool"}
  /\ applyReasoning(id, params.effort)
  /\ applyResponseFormat(id, params.format)

\* Audio has no block, nor has an image outside four media types or a file of
\* which only the id is known.
toUserBlocks(parts) == parts \subseteq {"text", "image", "file"}

\* Whether a request is sent.
toMessageParams(req) ==
  /\ \A m \in req.params.maxOutput : m > 0
  /\ toUserBlocks(req.parts)
  /\ toAnthropicTools(req.model.ID, req.tools)
  /\ applyGenerationParams(req.model.ID, req.params)
=============================================================================

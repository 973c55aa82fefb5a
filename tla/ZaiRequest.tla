----------------------------- MODULE ZaiRequest -----------------------------
(***************************************************************************)
(* The Z.ai Coding driver's models and request preparation                 *)
(* (drivers/zaicoding/models.go, driver.go).  It hands the prepared        *)
(* request to the OpenAI driver.                                           *)
(***************************************************************************)
EXTENDS RequestParams

CONSTANT
  MaxStopWords,        \* maxStopWords
  GLMContextSize,      \* glm53ContextSize
  GLMMaxOutputTokens   \* glm53MaxOutputTokens

OpenAI == INSTANCE OpenAIRequest

\* Retired ids are routed to a current model.
classifyModel(id) ==
  CASE id[1] \in {"glm-5.3", "glm-5.2", "glm-5.1"} /\ Len(id) = 1 -> "glm-5.3"
    [] id \in {<<"glm-5.3", "-", "flash">>, <<"glm-5.3", "-", "flashx">>, <<"glm-4.7">>} ->
         "glm-5.3-flash"
    [] OTHER -> Unset

LookupModel(id) ==
  IF classifyModel(id) = Unset THEN BareModel(id)
  ELSE Model(id, GLMContextSize, TRUE, Levels("low", "max"))

capabilities(model) ==
  LET kind == classifyModel(model.ID)
      known == kind # Unset
  IN [OpenAI!capabilities(model) EXCEPT
        !.ToolChoice = FALSE, !.Effort = known, !.Disabling = FALSE,
        !.MaxEffort = IF known THEN "max" ELSE Unset,
        !.Parts = IF kind = "glm-5.3" THEN {"text"} ELSE @]

-----------------------------------------------------------------------------

\* Whether the endpoint would honour the controls.
validateParams(kind, params) ==
  /\ params.stop <= MaxStopWords
  /\ params.choice.mode \notin {"required", "tool"}
  /\ kind # Unset => \A m \in params.maxOutput : m <= GLMMaxOutputTokens

\* A thinking object in Extra may only confirm what is always on.
requestedThinking(extra) == "thinking disabled" \notin extra

codingPlanReasoningEffort(effort) ==
  CASE effort \in {"minimal", "low"} -> "low"
    [] effort \in {"medium", "high"} -> "high"
    [] effort \in {"xhigh", "max"} -> "max"
    [] OTHER -> Unset

\* Whether the reasoning controls can be expressed.
reasoningConfiguration(kind, params) ==
  IF kind = Unset THEN params.effort = Unset
  ELSE /\ requestedThinking(params.extra)
       /\ params.effort # Unset => codingPlanReasoningEffort(params.effort) # Unset

\* The output cap and the effort travel in Extra, under the endpoint's names.
preparedParams(kind, params) ==
  [params EXCEPT !.maxTokens = params.maxOutput,
                 !.maxOutput = {},
                 !.wireEffort = IF kind = Unset \/ params.effort = Unset THEN @
                                ELSE codingPlanReasoningEffort(params.effort),
                 !.effort = IF kind # Unset THEN Unset ELSE @]

prepareRequest(req) ==
  [req EXCEPT !.params = preparedParams(classifyModel(req.model.ID), @)]

\* Whether a request is sent.
toZaiParams(req) ==
  LET kind == classifyModel(req.model.ID) IN
  /\ validateParams(kind, req.params)
  /\ reasoningConfiguration(kind, req.params)
  /\ OpenAI!toOpenAIParams(prepareRequest(req))
=============================================================================

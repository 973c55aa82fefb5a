---------------------------- MODULE OpenAIRequest ----------------------------
(***************************************************************************)
(* What the OpenAI driver says a model takes (drivers/openai/models.go)    *)
(* and what it refuses before any network call (the request half of        *)
(* translate.go).                                                          *)
(***************************************************************************)
EXTENDS RequestParams

oSeriesReasoningLevels == Levels("low", "high")
gpt5ReasoningLevels == Levels("minimal", "high")
frontierReasoningLevels == Levels("low", "max")

GPT56 == <<"gpt-5", ".6">>

knownModels ==
  LET plain == {<<"gpt-4o">>, <<"gpt-4o", "-", "mini">>, <<"gpt-4.1">>,
                <<"gpt-4.1", "-", "mini">>, <<"gpt-4.1", "-", "nano">>}
      gpt5 == {<<"gpt-5">>, <<"gpt-5", "-", "mini">>, <<"gpt-5", "-", "nano">>}
      frontier == {GPT56} \cup {GPT56 \o <<"-", s>> : s \in {"sol", "terra", "luna"}}
      oSeries == {<<"o1">>, <<"o3">>, <<"o3", "-", "mini">>, <<"o4", "-", "mini">>}
  IN {Model(id, 0, FALSE, NoLevels) : id \in plain}
       \cup {Model(id, 0, TRUE, gpt5ReasoningLevels) : id \in gpt5}
       \cup {Model(id, 0, TRUE, frontierReasoningLevels) : id \in frontier}
       \cup {Model(id, 0, TRUE, oSeriesReasoningLevels) : id \in oSeries}

IsChatLatest(id) == IsSuffix(<<"-", "chat-latest">>, id)

\* The chat aliases share a reasoning family's prefix and not its limits.
isReasoningModelID(id) ==
  /\ ~IsChatLatest(id)
  /\ id[1] \in {"o1", "o3", "o4", "gpt-5"}

hasModelEntry(id) == \E m \in knownModels : IsListedAs(id, m.ID)

isKnownModelID(id) == isReasoningModelID(id) \/ hasModelEntry(id)

isEarlyO1ModelID(id) ==
  IsPrefix(<<"o1", "-", "preview">>, id) \/ IsPrefix(<<"o1", "-", "mini">>, id)

\* The longest listed prefix describes a dated id; a reasoning id no entry
\* describes gets the floor of its family only.
LookupModel(id) ==
  LET matches == {m \in knownModels : IsListedAs(id, m.ID)}
      best == CHOOSE m \in matches : \A o \in matches : Len(m.ID) >= Len(o.ID)
  IN CASE IsChatLatest(id) -> BareModel(id)
       [] ~IsChatLatest(id) /\ matches # {} -> [best EXCEPT !.ID = id]
       [] ~IsChatLatest(id) /\ matches = {} /\ isReasoningModelID(id) ->
            Model(id, 0, TRUE, IF id[1] = "gpt-5" THEN NoLevels ELSE oSeriesReasoningLevels)
       [] OTHER -> BareModel(id)

maxReasoningEffort(id) ==
  IF hasModelEntry(id) /\ LookupModel(id).SupportsReasoning
  THEN ReasoningLevelMax(LookupModel(id)) ELSE Unset

supportsDisablingReasoning(id) == ~hasModelEntry(id) \/ IsPrefix(GPT56, id)

\* The driver's own word on one level: an id without an entry is not bounded.
isSupportedReasoningEffort(id, effort) ==
  LET rank == reasoningEffortRank(effort)
      ceiling == reasoningEffortRank(maxReasoningEffort(id))
  IN /\ rank > 0
     /\ hasModelEntry(id) =>
          /\ rank >= reasoningEffortRank(ReasoningLevelMin(LookupModel(id)))
          /\ ceiling > 0 => rank <= ceiling

\* Nothing is claimed against an id of which nothing is known.
capabilities(model) ==
  LET reasoning == model.SupportsReasoning \/ isReasoningModelID(model.ID)
      known == isKnownModelID(model.ID)
      structured == ~isEarlyO1ModelID(model.ID)
  IN [JSONSchema |-> structured, JSONObject |-> structured, StrictTools |-> structured,
      ToolChoice |-> structured, Parallel |-> structured, Seed |-> TRUE,
      Penalties |-> ~reasoning \/ ~known, Sampling |-> ~reasoning \/ ~known,
      Effort |-> reasoning \/ ~known,
      Disabling |-> supportsDisablingReasoning(model.ID),
      Parts |-> {"text", "image", "audio", "file"},
      MaxEffort |-> maxReasoningEffort(model.ID)]

-----------------------------------------------------------------------------
(* translate.go: what is refused.  A driver request is the model, params,  *)
(* tools and content parts.                                                *)

rejectUnsupportedReasoning(req, caps) ==
  LET effort == req.params.effort IN
  CASE effort = Unset -> FALSE
    [] effort = "none" -> ~caps.Disabling
    [] OTHER -> ~caps.Effort \/ ~isSupportedReasoningEffort(req.model.ID, effort)

rejectUnsupportedToolParams(req, caps) ==
  \/ ~caps.ToolChoice /\ req.params.choice.mode # Unset
  \/ ~caps.Parallel /\ req.params.parallel # {}
  \/ ~caps.StrictTools /\ \E t \in req.tools : t.strict

rejectUnsupportedStructured(req, caps) ==
  \/ \E f \in req.params.format :
       \/ f.type = "json_schema" /\ ~caps.JSONSchema
       \/ f.type = "json_object" /\ ~caps.JSONObject
  \/ rejectUnsupportedToolParams(req, caps)

rejectUnsupportedParams(req) ==
  LET caps == capabilities(req.model) IN
  \/ rejectUnsupportedReasoning(req, caps)
  \/ rejectUnsupportedStructured(req, caps)
  \/ ~caps.Sampling /\ req.params.temperature
  \/ ~caps.Penalties /\ req.params.penalty

toOpenAIToolChoice(choice) ==
  \/ choice.mode \in {Unset, "auto", "none", "required"}
  \/ choice.mode = "tool" /\ choice.name # ""

toOpenAIResponseFormat(format) ==
  \A f \in format : \/ f.type \in {Unset, "text", "json_object"}
                    \/ f.type = "json_schema" /\ f.named

\* Every parameter has a field of its own; the tool choice and the format may
\* have none that fits.
applyGenerationParams(params) ==
  toOpenAIToolChoice(params.choice) /\ toOpenAIResponseFormat(params.format)

\* Whether a request is sent.  Every structurally sound content part has a
\* wire form.
toOpenAIParams(req) ==
  /\ "malformed" \notin req.parts
  /\ ~rejectUnsupportedParams(req)
  /\ applyGenerationParams(req.params)
=============================================================================

---------------------------- MODULE RequestRules ----------------------------
(***************************************************************************)
(* What the engine lets through: the validation of request.go and          *)
(* structured.go against the driver's Capabilities, the token budget, and  *)
(* the parameters a round hands to the driver (engine.go, driverParams);   *)
(* and, behind it, what the request's driver lets through.  Operators tell *)
(* whether a check passes.                                                 *)
(***************************************************************************)
EXTENDS RequestParams

CONSTANTS
  MaxStopWords, GLMContextSize, GLMMaxOutputTokens, AnthropicContextSize,
  DefaultOutputReserve   \* defaultOutputReserveTokens

OpenAI == INSTANCE OpenAIRequest
Anthropic == INSTANCE AnthropicRequest
Zai == INSTANCE ZaiRequest

\* What the driver says.
DriverCapabilities(driver, model) ==
  CASE driver = "openai" -> OpenAI!capabilities(model)
    [] driver = "anthropic" -> Anthropic!Capabilities(model)
    [] driver = "zai" -> Zai!capabilities(model)

resolvedModel(r) == IF r.model.ID # <<>> THEN r.model ELSE r.clientModel

\* What can be said of a model: by its driver, or by an application that knows its
\* endpoint better.  Every model takes text.
CapabilitiesType ==
  [JSONSchema : BOOLEAN, JSONObject : BOOLEAN, StrictTools : BOOLEAN, ToolChoice : BOOLEAN,
   Parallel : BOOLEAN, Seed : BOOLEAN, Penalties : BOOLEAN, Sampling : BOOLEAN,
   Effort : BOOLEAN, Disabling : BOOLEAN,
   Parts : { {"text"} \cup media : media \in SUBSET {"image", "audio", "file"} },
   MaxEffort : STRING]

\* Client.Capabilities: the driver's word, unless the client overrides it.
Capabilities(r) ==
  IF r.override THEN r.claims ELSE DriverCapabilities(r.driver, resolvedModel(r))

\* Whether the driver sends the request it is handed.
Translates(driver, req) ==
  CASE driver = "openai" -> OpenAI!toOpenAIParams(req)
    [] driver = "anthropic" -> Anthropic!toMessageParams(req)
    [] driver = "zai" -> Zai!toZaiParams(req)

\* The parameters on the wire.
WireParams(driver, req) ==
  CASE driver = "openai" -> req.params
    [] driver = "anthropic" -> [req.params EXCEPT !.choice = Anthropic!applyToolChoice(req.params)]
    [] driver = "zai" -> Zai!prepareRequest(req).params

-----------------------------------------------------------------------------
(* structured.go *)

validateResponseFormat(format, caps) ==
  \A f \in format :
    \/ f.type \in {Unset, "text"}
    \/ f.type = "json_object" /\ caps.JSONObject
    \/ f.type = "json_schema" /\ caps.JSONSchema /\ f.named /\ f.object

isKnownReasoningEffort(model, effort) ==
  \/ reasoningEffortRank(effort) > 0
  \/ \E field \in DOMAIN model.ReasoningLevels : model.ReasoningLevels[field] = effort

\* Fault: levels are bounded from above only.
reasoningWithoutFloor(model, effort, caps) ==
  LET ceiling == reasoningEffortRank(caps.MaxEffort) IN
  CASE effort = Unset -> TRUE
    [] effort = "none" -> caps.Disabling
    [] OTHER -> /\ caps.Effort /\ isKnownReasoningEffort(model, effort)
                /\ ceiling > 0 => reasoningEffortRank(effort) <= ceiling

\* The ceiling is the driver's, the floor the model's as the caller gave it.
validateReasoningConfiguration(model, effort, caps) ==
  LET rank == reasoningEffortRank(effort)
      ceiling == reasoningEffortRank(caps.MaxEffort)
  IN CASE effort = Unset -> TRUE
       [] effort = "none" -> caps.Disabling
       [] OTHER -> /\ caps.Effort
                   /\ isKnownReasoningEffort(model, effort)
                   /\ ceiling > 0 => rank <= ceiling
                   /\ rank >= reasoningEffortRank(ReasoningLevelMin(model))

\* Fault: the named tool is not looked for.
choiceOfAnyName(choice, tools, supported) ==
  choice.mode = Unset \/ (supported /\ choice.mode \in {"auto", "none", "required", "tool"})

validateToolChoice(choice, tools, supported) ==
  \/ choice.mode = Unset
  \/ /\ supported
     /\ \/ choice.mode \in {"auto", "none", "required"}
        \/ choice.mode = "tool" /\ choice.name # "" /\ \E t \in tools : t.name = choice.name

-----------------------------------------------------------------------------
(* request.go *)

resolvedOutputReserve(r) ==
  CASE r.limits.reserve # {} -> CHOOSE n \in r.limits.reserve : TRUE
    [] r.limits.reserve = {} /\ (\E m \in r.params.maxOutput : m > 0) ->
         CHOOSE m \in r.params.maxOutput : TRUE
    [] OTHER -> DefaultOutputReserve

\* The room the prompt may take; 0 is no bound.
resolvedBudget(r) ==
  LET limit == IF r.limits.context > 0 THEN r.limits.context
               ELSE resolvedModel(r).ContextSize
  IN IF limit <= 0 \/ resolvedOutputReserve(r) >= limit THEN 0
     ELSE limit - resolvedOutputReserve(r)

validateOutputReserve(r) ==
  r.limits.context > 0 => resolvedOutputReserve(r) < r.limits.context

validateLimits(r) ==
  /\ r.limits.rounds > 0 /\ r.limits.concurrent > 0
  /\ r.limits.context >= 0 /\ r.limits.toolResult >= 0 /\ r.limits.timeout >= 0
  /\ \A n \in r.limits.reserve \cup r.params.maxOutput : n >= 0
  /\ validateOutputReserve(r)

validateOutputLimit(r) ==
  LET size == resolvedModel(r).ContextSize IN
  \A m \in r.params.maxOutput : size > 0 => m <= size

validateParameterCapabilities(params, caps) ==
  /\ params.seed => caps.Seed
  /\ params.temperature => caps.Sampling
  /\ params.penalty => caps.Penalties

validateMessageContentCapabilities(parts, caps) ==
  \A p \in parts : p # "malformed" /\ PartType(p) \in caps.Parts

validateStrictToolArguments(tools, caps) ==
  caps.StrictTools \/ \A t \in tools : ~t.strict

parallelToolCallsEnabled(params) == TRUE \in params.parallel

validateToolCapabilities(params, tools, caps) ==
  /\ validateToolChoice(params.choice, tools, caps.ToolChoice)
  /\ validateStrictToolArguments(tools, caps)
  /\ params.parallel # {} => caps.Parallel
  /\ params.format # {} => ~parallelToolCallsEnabled(params)
  /\ params.effort = "minimal" => ~parallelToolCallsEnabled(params)

\* tools is {} for a nil list: the tool checks wait until there is one.
validateCapabilities(r, tools) ==
  LET model == resolvedModel(r)
      caps == Capabilities(r)
  IN /\ validateParameterCapabilities(r.params, caps)
     /\ validateReasoningConfiguration(model, r.params.effort, caps)
     /\ validateResponseFormat(r.params.format, caps)
     /\ validateMessageContentCapabilities(r.parts, caps)
     /\ \A list \in tools : validateToolCapabilities(r.params, list, caps)

staticTools(r) == r.tools

hasTools(r) == r.provider \/ \E list \in staticTools(r) : list # {}

validate(r) ==
  /\ validateLimits(r)
  /\ resolvedModel(r).ID # <<>>
  /\ validateOutputLimit(r)
  /\ validateCapabilities(r, IF hasTools(r) THEN staticTools(r) ELSE {})

-----------------------------------------------------------------------------
(* engine.go *)

driverParams(r, tools) ==
  LET caps == Capabilities(r) IN
  [r.params EXCEPT
     !.effort = IF caps.Effort \/ caps.Disabling THEN @ ELSE Unset,
     !.choice = IF tools = {} THEN NoParams.choice ELSE @,
     !.parallel = IF tools = {} THEN {} ELSE @]

\* The DriverRequest of a round.
DriverRequest(r, tools) ==
  [model |-> resolvedModel(r), params |-> driverParams(r, tools),
   tools |-> tools, parts |-> r.parts]
=============================================================================

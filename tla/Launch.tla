------------------------------- MODULE Launch -------------------------------
(***************************************************************************)
(* One call of Request.Run or Request.RunInto: the checks before the run   *)
(* and before each of its rounds, the driver's own checks behind them, and *)
(* for RunInto the decoding of the reply into the caller's value with at   *)
(* most one repair run (request.go, structured.go).                        *)
(*                                                                         *)
(* The agent loop inside a run is module Engine's; here a round is what it *)
(* hands to the driver.  Tools may differ from round to round, and tool    *)
(* handlers may inject content between rounds.                             *)
(***************************************************************************)
EXTENDS RequestRules

CONSTANTS
  Clients,     \* clients: a driver, a default model, an override or not and its claims
  MaxSettings, \* bound on the settings of a request
  Values,      \* the values the setters are called with, by setter
  ToolLists,   \* what a ToolProvider may return: {} is nil, otherwise {tools}
  Injected,    \* content parts that tool handlers may inject
  Finishes     \* finish reasons of a reply

ToolType == [name : STRING, strict : BOOLEAN]

ASSUME LaunchAssumption ==
  /\ Clients \subseteq [driver : {"openai", "anthropic", "zai"}, model : ModelType,
                        override : BOOLEAN, claims : CapabilitiesType]
  /\ Values \in [parts : SUBSET STRING, models : SUBSET ModelType,
                 tools : SUBSET (SUBSET (SUBSET ToolType)), efforts : SUBSET STRING,
                 outputs : SUBSET Int, choices : SUBSET ChoiceType, formats : SUBSET FormatType,
                 extras : SUBSET STRING, contexts : SUBSET Int, reserves : SUBSET Int]
  /\ Injected \subseteq STRING
  /\ MaxStopWords \in Nat /\ DefaultOutputReserve \in Nat /\ GLMMaxOutputTokens \in Nat

VARIABLES
  request,    \* the request being built
  settings,   \* settings made so far
  current,    \* the clone that is run
  pc,         \* where the call is
  runs,       \* runs started
  round,      \* rounds completed in this run
  wire,       \* the request last sent to the provider; empty before the first
  refused,    \* who refused a request: nobody, the engine or the driver
  reply,      \* the run's outcome
  first,      \* the outcome of the run that is being repaired
  billed,     \* tokens the provider charged for
  target      \* values assigned through the caller's pointer

callVars == <<current, runs, round, wire, refused, reply, first, billed, target>>
vars == <<request, settings, pc, callVars>>

\* A Response and the error beside it; none is a nil Response.
Outcome(ok, usage, text, finish, calls) ==
  [none |-> FALSE, ok |-> ok, usage |-> usage, text |-> text, finish |-> finish, calls |-> calls]

Nothing == [Outcome(FALSE, 0, "", Unset, FALSE) EXCEPT !.none = TRUE]

NewRequest(client) ==
  [driver |-> client.driver, clientModel |-> client.model, override |-> client.override,
   claims |-> client.claims,
   model |-> BareModel(<<>>), params |-> NoParams, parts |-> {"text"},
   tools |-> {}, provider |-> FALSE, force |-> TRUE,
   limits |-> [rounds |-> 2, concurrent |-> 1, context |-> 0, reserve |-> {},
               toolResult |-> 0, timeout |-> 0],
   strict |-> FALSE, repair |-> FALSE, transcriptRepair |-> FALSE,
   into |-> FALSE, dangling |-> FALSE]

Init ==
  /\ request \in {NewRequest(client) : client \in Clients}
  /\ settings = 0
  /\ current = request
  /\ pc = "build"
  /\ runs = 0 /\ round = 0
  /\ wire = {} /\ refused = ""
  /\ reply = Nothing /\ first = Nothing
  /\ billed = 0
  /\ target = <<>>

-----------------------------------------------------------------------------
(* request.go: the setters, each with every value it is called with. *)

WithPrompt(r) == {[r EXCEPT !.parts = @ \cup {p}] : p \in Values.parts}

WithModel(r) == {[r EXCEPT !.model = m] : m \in Values.models}

WithTools(r) ==
  {[r EXCEPT !.tools = list] : list \in Values.tools} \cup {[r EXCEPT !.provider = TRUE]}

\* WithGenerationParams and the setters of single parameters.
WithGenerationParams(r) ==
  {[r EXCEPT !.params.temperature = TRUE], [r EXCEPT !.params.seed = TRUE],
   [r EXCEPT !.params.penalty = TRUE], [r EXCEPT !.params.stop = MaxStopWords + 1]}
    \cup {[r EXCEPT !.params.effort = e] : e \in Values.efforts}
    \cup {[r EXCEPT !.params.maxOutput = {n}] : n \in Values.outputs}
    \cup {[r EXCEPT !.params.choice = c] : c \in Values.choices}
    \cup {[r EXCEPT !.params.parallel = {b}] : b \in BOOLEAN}
    \cup {[r EXCEPT !.params.format = {f}] : f \in Values.formats}
    \cup {[r EXCEPT !.params.extra = @ \cup {key}] : key \in Values.extras}

WithLimits(r) ==
  {[r EXCEPT !.limits.rounds = n] : n \in {0, 1}}
    \cup {[r EXCEPT !.limits.timeout = -1], [r EXCEPT !.force = FALSE]}
    \cup {[r EXCEPT !.limits.context = n] : n \in Values.contexts}
    \cup {[r EXCEPT !.limits.reserve = {n}] : n \in Values.reserves}

\* WithTranscriptRepair, WithStrictResponseValidation and WithResponseRepair.
WithChecks(r) ==
  {[r EXCEPT !.strict = TRUE], [r EXCEPT !.repair = TRUE], [r EXCEPT !.transcriptRepair = TRUE]}

set(r) ==
  /\ pc = "build" /\ settings < MaxSettings
  /\ request' = r /\ settings' = settings + 1
  /\ UNCHANGED <<pc, callVars>>

-----------------------------------------------------------------------------
(* structured.go *)

structuredSchema == Format("json_schema", TRUE, TRUE)

cloneForStructuredResponse(r) ==
  [r EXCEPT !.tools = {}, !.provider = FALSE, !.params.format = {structuredSchema}]

\* The prompt grows by the model's last message and the repair prompt; calls
\* that message makes are never answered.
cloneForRepair(r, response) == [r EXCEPT !.dangling = response.calls]

\* Fault: a reply that does not match the schema passes.
decodeLoosely(r, response) ==
  ~IsTruncated(response.finish) /\ response.text \in {"conforming", "loose"}

\* Whether the reply decodes: loose text is JSON for the type that the schema
\* refuses.
decode(r, response) ==
  /\ ~IsTruncated(response.finish)
  /\ \/ response.text = "conforming"
     \/ response.text = "loose" /\ ~r.strict

isRepairableFinish(finish) == ~IsTruncated(finish) /\ ~IsRefusal(finish)

\* Fault: the repair's usage replaces the first run's.
keepSecond(one, two) == two

accumulateStructuredResponses(one, two) == [two EXCEPT !.usage = @ + one.usage]

-----------------------------------------------------------------------------

Run ==
  /\ pc = "build"
  /\ current' = request /\ runs' = 1 /\ pc' = "run"
  /\ UNCHANGED <<request, settings, round, wire, refused, reply, first, billed, target>>

\* RunInto needs a pointer it can describe by a schema.
RunInto(pointer) ==
  /\ pc = "build"
  /\ request' = [request EXCEPT !.into = TRUE]
  /\ IF pointer
     THEN current' = cloneForStructuredResponse(request') /\ runs' = 1 /\ pc' = "run"
     ELSE pc' = "done" /\ UNCHANGED <<current, runs>>
  /\ UNCHANGED <<settings, round, wire, refused, reply, first, billed, target>>

\* Request.run: nothing is returned beside the error of a bad request.
run ==
  /\ pc = "run"
  /\ round' = 0
  /\ IF validate(current)
     THEN pc' = "round" /\ UNCHANGED <<refused, reply>>
     ELSE pc' = "returned" /\ refused' = "engine" /\ reply' = Nothing
  /\ UNCHANGED <<request, settings, current, runs, wire, first, billed, target>>

\* The tool lists this round may get.
resolveTools ==
  CASE ~hasTools(current) \/ (current.force /\ round + 1 = current.limits.rounds) -> {{}}
    [] hasTools(current) /\ ~(current.force /\ round + 1 = current.limits.rounds)
         /\ current.provider -> ToolLists
    [] OTHER -> {staticTools(current)}

\* The run ends with an error and what it has billed so far.
Fails(who) ==
  /\ pc' = "returned" /\ refused' = who
  /\ reply' = Outcome(FALSE, reply.usage, "", Unset, FALSE)
  /\ UNCHANGED wire

\* prepareTools checks every round anew, with this round's tools and messages.
prepareTools(tools) == validateCapabilities(current, tools)

\* A driver refuses unanswered calls, unless the engine repaired them away.
Legal == ~current.dangling \/ current.transcriptRepair

\* runOne up to the provider.
nextRound(tools) ==
  LET list == UNION tools
      req == DriverRequest(current, list)
  IN
  /\ pc = "round"
  /\ CASE ~prepareTools(tools) -> Fails("engine")
       [] prepareTools(tools) /\ ~(Legal /\ Translates(current.driver, req)) -> Fails("driver")
       [] OTHER -> /\ pc' = "sent"
                   /\ wire' = {[req EXCEPT !.params = WireParams(current.driver, req)]}
                   /\ UNCHANGED <<refused, reply>>
  /\ UNCHANGED <<request, settings, current, runs, round, first, billed, target>>

\* The provider of tools failed.
provideToolsFails ==
  /\ pc = "round" /\ current.provider /\ resolveTools # {{}}
  /\ Fails("")
  /\ UNCHANGED <<request, settings, current, runs, round, first, billed, target>>

\* Rounds go on while the model calls tools and may; a run without tools hands
\* calls back to its caller.
answered(text, finish) ==
  LET usage == reply.usage + 1
      calls == finish = "tool_calls"
  IN
  /\ pc = "sent"
  /\ billed' = billed + 1
  /\ round' = round + 1
  /\ IF calls /\ hasTools(current) /\ round' < current.limits.rounds
     THEN /\ pc' = "round"
          /\ reply' = Outcome(FALSE, usage, "", finish, FALSE)
          /\ current' \in {current} \cup {[current EXCEPT !.parts = @ \cup {p}] : p \in Injected}
     ELSE /\ pc' = "returned"
          /\ reply' = Outcome(calls => round' < current.limits.rounds, usage, text, finish, calls)
          /\ UNCHANGED current
  /\ UNCHANGED <<request, settings, runs, wire, refused, first, target>>

\* The provider failed, possibly after charging for what it had sent.
providerFails(charged) ==
  /\ pc = "sent"
  /\ billed' = billed + charged
  /\ pc' = "returned"
  /\ reply' = Outcome(FALSE, reply.usage + charged, "", Unset, FALSE)
  /\ UNCHANGED <<request, settings, current, runs, round, wire, refused, first, target>>

\* Run returns what its run returned.
runReturns ==
  /\ pc = "returned" /\ ~request.into
  /\ pc' = "done"
  /\ UNCHANGED <<request, settings, current, runs, round, wire, refused, reply, first, billed, target>>

\* The second run's bill joins the first's; a nil second response leaves the
\* first one.
Joined ==
  CASE runs = 1 -> reply
    [] runs = 2 /\ reply.none -> [first EXCEPT !.ok = FALSE]
    [] OTHER -> accumulateStructuredResponses(first, reply)

\* runInto once a run is back.
decodeReply ==
  /\ pc = "returned" /\ request.into
  /\ IF reply.ok /\ ~decode(request, reply) /\ runs = 1
          /\ request.repair /\ isRepairableFinish(reply.finish)
     THEN /\ pc' = "run" /\ runs' = 2
          /\ first' = reply /\ reply' = Nothing
          /\ current' = cloneForRepair(current, reply)
          /\ UNCHANGED target
     ELSE /\ pc' = "done"
          /\ reply' = [Joined EXCEPT !.ok = @ /\ decode(request, reply)]
          /\ target' = IF reply.ok /\ decode(request, reply)
                       THEN Append(target, reply.text) ELSE target
          /\ UNCHANGED <<runs, first, current>>
  /\ UNCHANGED <<request, settings, round, wire, refused, billed>>

\* What a reply says matters to RunInto only.
Replies == IF request.into THEN {"conforming", "loose", "broken"} ELSE {"broken"}

Next ==
  \/ pc = "build" /\ \E r \in UNION {WithPrompt(request), WithModel(request), WithTools(request),
                                   WithGenerationParams(request), WithLimits(request),
                                   WithChecks(request)} : set(r)
  \/ Run \/ \E pointer \in BOOLEAN : RunInto(pointer)
  \/ run \/ runReturns \/ decodeReply
  \/ \E tools \in resolveTools : nextRound(tools)
  \/ provideToolsFails
  \/ \E text \in Replies, finish \in Finishes : answered(text, finish)
  \/ \E charged \in {0, 1} : providerFails(charged)

Spec == Init /\ [][Next]_vars

-----------------------------------------------------------------------------

Catalogued(r) ==
  LET model == resolvedModel(r) IN
  model = CASE r.driver = "openai" -> OpenAI!LookupModel(model.ID)
            [] r.driver = "anthropic" -> Anthropic!LookupModel(model.ID)
            [] r.driver = "zai" -> Zai!LookupModel(model.ID)

\* What the drivers refuse by value, where Capabilities has no word for it: a
\* level between two that are taken or below a floor the caller's own Model
\* does not state, a text format or a zero output cap on Anthropic, media
\* types, provider extras, and a repair of a reply that called tools.
BeyondCapabilities(r) ==
  LET p == r.params IN
  \/ r.dangling
  \/ p.effort # Unset /\ ~Catalogued(r)
  \/ /\ r.driver = "anthropic"
     /\ \/ p.effort = "xhigh" \/ 0 \in p.maxOutput \/ p.extra # {}
        \/ \E f \in p.format : f.type = "text"
        \/ r.parts \cap {"heic", "file id"} # {}
  \/ /\ r.driver = "zai"
     /\ \/ p.stop > MaxStopWords \/ "thinking disabled" \in p.extra
        \/ \E m \in p.maxOutput : m > GLMMaxOutputTokens

\* What the engine accepts under a driver's Capabilities the driver sends,
\* whatever the combination of parameters, the tools of the round and the model
\* id, dated or unlisted: the two independent gates differ only where no
\* capability can say so (runCapabilityCase tries one parameter at a time).
AcceptedIsSent == refused = "driver" => BeyondCapabilities(current) \/ current.override

\* The driver's own gate has two gaps that only the engine's closes, so a client
\* override opens them: Z.ai takes a tool choice that asks for nothing, and
\* never looks at content parts.
Gap == current.override /\ current.driver = "zai"

\* Nothing is sent that the driver's Capabilities disclaims, in any round: not
\* when the tool list changes or is withheld between rounds, nor when a handler
\* injects content, nor when a client override has the engine look away; a tool
\* choice goes out only beside the tool it names, and an explicit context limit
\* leaves room for both the prompt and the reply.
SentIsSupported ==
  \A w \in wire :
    LET caps == DriverCapabilities(current.driver, w.model)
        p == w.params
    IN /\ p.temperature => caps.Sampling
       /\ p.penalty => caps.Penalties
       /\ p.seed => caps.Seed
       /\ p.effort = "none" => caps.Disabling
       /\ p.effort \notin {Unset, "none"} =>
            /\ caps.Effort
            /\ Catalogued(current) => reasoningEffortRank(p.effort) >=
                                        reasoningEffortRank(ReasoningLevelMin(w.model))
       /\ \A f \in p.format : (f.type = "json_schema" => caps.JSONSchema)
                               /\ (f.type = "json_object" => caps.JSONObject)
       /\ \A t \in w.tools : t.strict => caps.StrictTools
       /\ p.choice.mode # Unset => (caps.ToolChoice \/ Gap) /\ w.tools # {}
       /\ p.choice.mode = "tool" => \E t \in w.tools : t.name = p.choice.name
       /\ p.parallel # {} => caps.Parallel /\ w.tools # {}
       /\ ~Gap => \A part \in w.parts : PartType(part) \in caps.Parts
       /\ current.driver = "zai" => p.maxOutput = {} /\ p.wireEffort \in {Unset, "low", "high", "max"}
       /\ current.limits.context > 0 =>
            /\ resolvedBudget(current) > 0
            /\ resolvedBudget(current) + resolvedOutputReserve(current) = current.limits.context
       /\ request.into => w.tools = {} /\ p.format = {structuredSchema}

\* RunInto's promise: on any error the caller's value is untouched, and it is
\* written once, with a whole reply that passed every check asked for, though a
\* first reply failed them or was cut off (request.go, RunInto).
TargetWhole ==
  /\ target # <<>> => /\ pc = "done" /\ reply.ok /\ Len(target) = 1
                      /\ target[1] # "broken" /\ ~IsTruncated(reply.finish)
                      /\ request.strict => target[1] = "conforming"
  /\ pc = "done" /\ request.into => (reply.ok <=> target # <<>>)

\* One repair at most, never of a refusal or of a reply that ran out of room,
\* and the caller is billed for every run: the usage of the response returned
\* is what the provider charged, on success and on error.
RepairAccounted ==
  /\ runs <= 2
  /\ runs = 2 => /\ request.repair /\ ~IsRefusal(first.finish) /\ ~IsTruncated(first.finish)
                 /\ ~(first.text = "conforming")
  /\ pc = "done" => reply.usage = billed /\ (reply.none => billed = 0)
=============================================================================

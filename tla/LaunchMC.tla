------------------------------ MODULE LaunchMC ------------------------------
(***************************************************************************)
(* Requests of at most MaxSettings settings, for an id of every class the  *)
(* catalogues tell apart.                                                  *)
(***************************************************************************)
EXTENDS Launch

OpenAIIDs ==
  {<<"gpt-4o", "-", "2026">>, <<"gpt-5", "-", "mini">>, <<"gpt-5", "-", "chat-latest">>,
   <<"gpt-5", ".1">>, <<"gpt-5", ".6", "-", "sol", "-", "2026">>, <<"o3">>,
   <<"o1", "-", "mini">>, <<"llama">>}
AnthropicIDs ==
  {<<"claude", "sonnet-5", "-", "2026">>, <<"claude", "fable-5">>, <<"claude", "mythos-preview">>,
   <<"claude", "opus-4-6">>, <<"claude", "haiku-4-5">>, <<"claude", "opus-4-5">>,
   <<"claude", "opus-4-1">>}
ZaiIDs == {<<"glm-5.2">>, <<"glm-5.3", "-", "flash">>, <<"glm-4">>}

Everything ==
  [JSONSchema |-> TRUE, JSONObject |-> TRUE, StrictTools |-> TRUE, ToolChoice |-> TRUE,
   Parallel |-> TRUE, Seed |-> TRUE, Penalties |-> TRUE, Sampling |-> TRUE, Effort |-> TRUE,
   Disabling |-> TRUE, Parts |-> {"text", "image", "audio", "file"}, MaxEffort |-> Unset]

\* A gateway without images, tool choice and high efforts behind it.
Restricted ==
  [Everything EXCEPT !.Parts = {"text", "audio", "file"}, !.ToolChoice = FALSE,
                     !.Sampling = FALSE, !.MaxEffort = "low"]

Client(driver, model, override, claims) ==
  [driver |-> driver, model |-> model, override |-> override, claims |-> claims]

MCClients ==
  LET clients(driver, model) == { Client(driver, model, o, Everything) : o \in BOOLEAN }
  IN  UNION { clients("openai", OpenAI!LookupModel(id)) : id \in OpenAIIDs }
        \cup UNION { clients("anthropic", Anthropic!LookupModel(id)) : id \in AnthropicIDs }
        \cup UNION { clients("zai", Zai!LookupModel(id)) : id \in ZaiIDs }
        \cup { Client("openai", OpenAI!LookupModel(<<"gpt-5", ".1">>), TRUE, Restricted),
               Client("anthropic", Anthropic!LookupModel(<<"claude", "opus-4-6">>), TRUE,
                      Restricted),
               Client("zai", Zai!LookupModel(<<"glm-5.2">>), TRUE, Restricted),
               Client("openai", BareModel(<<>>), FALSE, Everything) }

Tool(name, strict) == [name |-> name, strict |-> strict]

Choice(mode, name) == [mode |-> mode, name |-> name]

MCValues ==
  [parts |-> {"image", "heic", "audio", "file id", "malformed"},
   models |-> {BareModel(<<"o3">>), BareModel(<<"claude", "opus-4-6">>)},
   tools |-> {{{Tool("a", FALSE)}}, {{Tool("a", TRUE)}}},
   efforts |-> {"none", "minimal", "high", "xhigh", "max", "turbo"},
   outputs |-> {-1, 0, 2, 4, 9},
   choices |-> {Choice("auto", ""), Choice("tool", "a"), Choice("some", "")},
   formats |-> {Format("text", TRUE, TRUE), Format("json_object", TRUE, TRUE),
                Format("json_schema", TRUE, TRUE), Format("json_schema", FALSE, TRUE)},
   extras |-> {"top_k", "thinking disabled"},
   contexts |-> {1, 3}, reserves |-> {0, 3}]

MCToolLists == {{}, {{}}, {{Tool("a", FALSE)}}, {{Tool("b", TRUE)}}}
MCInjected == {"image", "audio"}
MCFinishes == {"stop", "length", "content_filter", "tool_calls"}
=============================================================================

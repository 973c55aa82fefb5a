------------------------------ MODULE EngineMC ------------------------------
(* Small instances of Engine. *)
EXTENDS Engine

ids  == {"a", "b", "c"}
noID == "none"

\* Prompts: a plain question; a history with a finished tool exchange; a
\* history whose exchange lost a result.
plain    == <<SystemMessage, UserMessage>>
history  == <<UserMessage, AssistantMessage(<<"c">>), ToolMessage("c"),
              UserMessage>>
broken   == <<UserMessage, AssistantMessage(<<"c", "b">>), ToolMessage("c"),
              UserMessage>>

TwoTurns   == {<<>>, <<"a", "b">>}
ReuseTurns == {<<>>, <<"a">>, <<"b", "a">>}
OneCallTurns == {<<>>, <<"a">>}
NoBatches  == {<<>>}
Batches    == {<<>>, <<"user", "tool">>}

Flags(autos, forces, tools, repairs, budgets, honour, prompts) ==
  [auto : autos, force : forces, withTools : tools, repair : repairs,
   budget : budgets, honours : honour, prompt : prompts]

AutoConfigs   == Flags({TRUE}, {FALSE}, {TRUE}, {FALSE}, {FALSE}, {TRUE}, {plain})
ModeConfigs   == Flags(BOOLEAN, BOOLEAN, BOOLEAN, {FALSE}, {FALSE}, BOOLEAN, {plain})
BudgetConfigs == Flags(BOOLEAN, {FALSE}, {TRUE}, {FALSE}, {TRUE}, {TRUE}, {history})
RepairConfigs == Flags(BOOLEAN, {FALSE}, {TRUE}, {TRUE}, BOOLEAN, {TRUE}, {broken})
LoopConfigs   == ModeConfigs \cup BudgetConfigs \cup RepairConfigs

\* Users refill the queue of a plain request whenever they can; otherwise they
\* send one message.  They take the tags in a fixed order: a tag tells messages
\* apart and nothing else.
RefillConfigs == Flags(BOOLEAN, BOOLEAN, BOOLEAN, {FALSE}, {FALSE}, {TRUE}, {plain})

UsersSend ==
  /\ enqueued # <<>> => cfg \in RefillConfigs
  /\ ToSet(enqueued) # UserTags
  /\ Enqueue(CHOOSE tag \in UserTags : tag \notin ToSet(enqueued))

LoopNext ==
  \/ UsersSend
  \/ \E r \in Runs : run(r)
  \/ \E r \in Runs : Step(r)
  \/ \E r \in Runs, k \in 1 .. MaxRounds : ExecuteToolCalls(r, k)

LoopSpec == Init /\ [][LoopNext]_vars /\ Fairness

RunSymmetry == Permutations(Runs)
=============================================================================

------------------------------- MODULE Engine -------------------------------
(***************************************************************************)
(* The agent loop of engine.go and Request.run of request.go.              *)
(*                                                                         *)
(* One fully built Request is run by several goroutines (Runs), each with  *)
(* its own runState; they share the request's UserMessageQueue, which      *)
(* producers fill at any moment.  Every goroutine walks the phases         *)
(*                                                                         *)
(*   prepare -> [compact ->] round -> stream -> recorded -> return ...     *)
(*                                                                         *)
(* of runOne; phase "return" is runOne (or the executor around it) handing *)
(* its response to the frame that called it: Request.run's first call,     *)
(* its automatic loop, or a caller driving Response.ExecuteToolCalls.      *)
(*                                                                         *)
(* Drivers, hooks, tool providers, token counters and tools are external:  *)
(* each of them may fail wherever the code calls it.  One tool round is a  *)
(* single step here.                                                       *)
(***************************************************************************)
EXTENDS Limit

CONSTANTS
  Runs,              \* goroutines running the request
  MaxRounds,         \* Request.maxRounds
  QueueCapacity,     \* UserMessageQueue.capacity
  Turns,             \* tool calls a model may ask for in one assistant turn
  InjectionBatches,  \* roles of the messages the tools of one round inject
  Configs            \* how the request may have been built: mode flags, the
                     \* starting transcript, and whether its model honours the
                     \* absence of tools

ASSUME EngineAssumption ==
  /\ MaxRounds \in Nat \ {0}
  /\ QueueCapacity \in Nat \ {0}
  /\ Turns \subseteq Seq(CallIDs)
  /\ \A turn \in Turns : IsInjective(turn)     \* drainToolCalls drops repeats
  /\ InjectionBatches \subseteq Seq(Roles)
  /\ Configs \subseteq [auto : BOOLEAN, force : BOOLEAN, withTools : BOOLEAN,
                        repair : BOOLEAN, budget : BOOLEAN, honours : BOOLEAN,
                        prompt : Seq(Message)]
  /\ \A c \in Configs : \A k \in DOMAIN c.prompt : c.prompt[k].tag = NoTag

Phases == {"idle", "prepare", "compact", "round", "stream", "recorded",
           "executing", "accept", "return", "loop", "returned"}
Frames == {"none", "run", "loop", "exec"}
Errors == {"none", "prepare", "hook", "stream", "maxRounds", "tools"}

Response == [messages : Seq(Message), executor : 0 .. MaxRounds, err : Errors]

VARIABLES
  cfg,       \* how the request was built; never changes
  queue,     \* UserMessageQueue.messages: the tags waiting
  enqueued,  \* history: every tag Enqueue accepted, in order
  phase,     \* where a run's goroutine is
  frame,     \* who called runOne
  messages,  \* runState.messages
  draft,     \* TokenLimitEvent.Messages
  round,     \* runState.round
  withhold,  \* runOne's withholdTools
  offered,   \* whether this round's request carries tools
  turns,     \* the calls each recorded assistant turn asked for
  active,    \* the executor being run: the round whose calls it answers
  executed,  \* executors whose once flag is set
  held,      \* executors the caller was given
  resp,      \* the last response of runOne or of the executor
  onError,   \* how often OnError fired
  requests   \* history: requests handed to the driver

runVars == <<phase, frame, messages, draft, round, withhold, offered, turns,
             active, executed, held, resp, onError, requests>>
vars == <<cfg, queue, enqueued, runVars>>

\* The variables of one run that most steps leave alone.
loopVars == <<cfg, enqueued, frame, active, executed, held, onError>>

TypeOK ==
  /\ cfg \in Configs
  /\ queue \in Seq(UserTags)
  /\ enqueued \in Seq(UserTags)
  /\ phase \in [Runs -> Phases]
  /\ frame \in [Runs -> Frames]
  /\ messages \in [Runs -> Seq(Message)]
  /\ draft \in [Runs -> Seq(Message)]
  /\ round \in [Runs -> 0 .. MaxRounds]
  /\ withhold \in [Runs -> BOOLEAN]
  /\ offered \in [Runs -> BOOLEAN]
  /\ turns \in [Runs -> Seq(Seq(CallIDs))]
  /\ active \in [Runs -> 0 .. MaxRounds]
  /\ executed \in [Runs -> SUBSET (0 .. MaxRounds)]
  /\ held \in [Runs -> SUBSET (0 .. MaxRounds)]
  /\ resp \in [Runs -> Response]
  /\ onError \in [Runs -> Nat]
  /\ requests \in [Runs -> Nat]

NoResponse == [messages |-> <<>>, executor |-> 0, err |-> "none"]

Init ==
  /\ cfg \in Configs
  /\ queue = <<>>
  /\ enqueued = <<>>
  /\ phase = [r \in Runs |-> "idle"]
  /\ frame = [r \in Runs |-> "none"]
  /\ messages = [r \in Runs |-> <<>>]
  /\ draft = [r \in Runs |-> <<>>]
  /\ round = [r \in Runs |-> 0]
  /\ withhold = [r \in Runs |-> FALSE]
  /\ offered = [r \in Runs |-> FALSE]
  /\ turns = [r \in Runs |-> <<>>]
  /\ active = [r \in Runs |-> 0]
  /\ executed = [r \in Runs |-> {}]
  /\ held = [r \in Runs |-> {}]
  /\ resp = [r \in Runs |-> NoResponse]
  /\ onError = [r \in Runs |-> 0]
  /\ requests = [r \in Runs |-> 0]

Set(f, r, v) == [f EXCEPT ![r] = v]

-----------------------------------------------------------------------------
(* user_message_queue.go *)

\* Enqueue rejects a message when the queue is full: nothing changes then.
\* Every tag is enqueued at most once, so that a tag identifies a message.
Enqueue(tag) ==
  /\ tag \notin ToSet(enqueued)
  /\ Len(queue) < QueueCapacity
  /\ queue' = Append(queue, tag)
  /\ enqueued' = Append(enqueued, tag)
  /\ UNCHANGED <<cfg, runVars>>

Queued(tags) == [ k \in DOMAIN tags |-> QueuedMessage(tags[k]) ]

\* Fault: draining at the round cap too.
CanAcceptUncapped(r) == queue # <<>>

\* Draining is refused at the round cap, so the batch stays for a later run.
CanAccept(r) == round[r] < MaxRounds /\ queue # <<>>

\* Fault: a drain that leaves the batch in the queue.
acceptWithoutDraining(r, transcript) ==
  /\ messages' = Set(messages, r, IF CanAccept(r) THEN transcript \o Queued(queue)
                                  ELSE transcript)
  /\ UNCHANGED queue

\* Fault: a drain that waits for a message.
acceptBlocking(r, transcript) ==
  /\ CanAccept(r)
  /\ messages' = Set(messages, r, transcript \o Queued(queue))
  /\ queue' = <<>>

\* acceptQueuedUserMessages: the whole batch goes behind the transcript.
acceptQueuedUserMessages(r, transcript) ==
  IF CanAccept(r)
  THEN /\ messages' = Set(messages, r, transcript \o Queued(queue))
       /\ queue' = <<>>
  ELSE /\ messages' = Set(messages, r, transcript)
       /\ UNCHANGED queue

\* Fault: tools withheld one round too late.
withholdTooLate(nextRound) == cfg.force /\ nextRound > MaxRounds

shouldWithholdTools(nextRound) == cfg.force /\ nextRound = MaxRounds

-----------------------------------------------------------------------------
(* Returning a response to the calling frame. *)

Answer(r, transcript, executor, err) ==
  /\ phase' = Set(phase, r, "return")
  /\ resp' = Set(resp, r, [messages |-> transcript, executor |-> executor,
                           err |-> err])

fireError(r) == onError' = Set(onError, r, onError[r] + 1)

-----------------------------------------------------------------------------
(* Request.run up to its first runOne.  Draining happens only in automatic *)
(* mode.  Request.validate is static and assumed to have passed.           *)
run(r) ==
  /\ phase[r] = "idle"
  /\ phase' = Set(phase, r, "prepare")
  /\ frame' = Set(frame, r, "run")
  /\ IF cfg.auto
     THEN acceptQueuedUserMessages(r, cfg.prompt)
     ELSE messages' = Set(messages, r, cfg.prompt) /\ UNCHANGED queue
  /\ withhold' = Set(withhold, r, cfg.withTools /\ shouldWithholdTools(1))
  /\ UNCHANGED <<cfg, enqueued, draft, round, offered, turns, active,
                 executed, held, resp, onError, requests>>

\* A tool provider may supply no tools in a round.
resolveTools(r) ==
  IF cfg.withTools /\ ~withhold[r] THEN BOOLEAN ELSE {FALSE}

\* The tool provider, the capability checks or the token counter failed.
prepareToolsFails(r) ==
  /\ phase[r] = "prepare"
  /\ Answer(r, messages[r], 0, "prepare")
  /\ UNCHANGED <<loopVars, queue, messages, draft, round, withhold, offered,
                 turns, requests>>

\* Over budget, compaction starts on a copy of the transcript.
prepareTools(r) ==
  /\ phase[r] = "prepare"
  /\ \E tools \in resolveTools(r) : offered' = Set(offered, r, tools)
  /\ \/ /\ phase' = Set(phase, r, "round")
        /\ UNCHANGED draft
     \/ /\ cfg.budget
        /\ phase' = Set(phase, r, "compact")
        /\ draft' = Set(draft, r, messages[r])
  /\ UNCHANGED <<loopVars, queue, messages, round, withhold, turns, resp,
                 requests>>

\* One eviction of the default handler DropOldestUnits.
dropOldestUnit(r) ==
  /\ phase[r] = "compact"
  /\ Len(draft[r]) > 1
  /\ \E i \in {firstDroppableUnit(draft[r])} \ {0} :
        draft' = Set(draft, r, DropUnit(draft[r], i))
  /\ UNCHANGED <<loopVars, queue, phase, messages, round, withhold, offered,
                 turns, resp, requests>>

\* The handler stops when its counter says the copy fits, which takes at least
\* one eviction, or when nothing can be evicted.  The engine adopts the copy; a
\* failing recount behind the adoption ends the run.
compactToBudget(r) ==
  /\ phase[r] = "compact"
  /\ \/ draft[r] # messages[r]
     \/ Len(draft[r]) <= 1
     \/ firstDroppableUnit(draft[r]) = 0
  /\ messages' = Set(messages, r, draft[r])
  /\ \/ phase' = Set(phase, r, "round") /\ UNCHANGED resp
     \/ Answer(r, draft[r], 0, "prepare")
  /\ UNCHANGED <<loopVars, queue, draft, round, withhold, offered, turns,
                 requests>>

\* A counter or a limit handler failed: the copy is thrown away.
compactToBudgetFails(r) ==
  /\ phase[r] = "compact"
  /\ Answer(r, messages[r], 0, "prepare")
  /\ UNCHANGED <<loopVars, queue, messages, draft, round, withhold, offered,
                 turns, requests>>

roundTranscript(r) ==
  IF cfg.repair THEN repairTranscript(messages[r]) ELSE messages[r]

\* The transcript goes to the driver.
prepareRound(r) ==
  /\ phase[r] = "round"
  /\ messages' = Set(messages, r, roundTranscript(r))
  /\ phase' = Set(phase, r, "stream")
  /\ requests' = Set(requests, r, requests[r] + 1)
  /\ UNCHANGED <<loopVars, queue, draft, round, withhold, offered, turns, resp>>

\* OnStart or OnRoundStart failed, after the repair.
prepareRoundFails(r) ==
  /\ phase[r] = "round"
  /\ messages' = Set(messages, r, roundTranscript(r))
  /\ Answer(r, roundTranscript(r), 0, "hook")
  /\ UNCHANGED <<loopVars, queue, draft, round, withhold, offered, turns,
                 requests>>

-----------------------------------------------------------------------------
(* The provider's turn.  A model that honours the request asks for tools   *)
(* only when it was offered some.                                          *)

PossibleTurn(r, turn) == turn # <<>> => offered[r] \/ ~cfg.honours

\* The driver or a delta callback failed.  What had arrived by then, possibly
\* nothing, is appended to the RETURNED transcript only.
streamAssistantFails(r, turn) ==
  /\ phase[r] = "stream"
  /\ PossibleTurn(r, turn)
  /\ \E transcript \in {messages[r],
                        Append(messages[r], AssistantMessage(turn))} :
        Answer(r, transcript, 0, "stream")
  /\ UNCHANGED <<loopVars, queue, messages, draft, round, withhold, offered,
                 turns, requests>>

recordAssistant(r, turn) ==
  /\ phase[r] = "stream"
  /\ PossibleTurn(r, turn)
  /\ messages' = Set(messages, r, Append(messages[r], AssistantMessage(turn)))
  /\ turns' = Set(turns, r, Append(turns[r], turn))
  /\ round' = Set(round, r, round[r] + 1)
  /\ phase' = Set(phase, r, "recorded")
  /\ UNCHANGED <<loopVars, queue, draft, withhold, offered, resp, requests>>

\* OnAssistantMessage, OnRoundEnd or, on a final answer, OnFinish failed.
recordAssistantFails(r) ==
  /\ phase[r] = "recorded"
  /\ Answer(r, messages[r], 0, "hook")
  /\ UNCHANGED <<loopVars, queue, messages, draft, round, withhold, offered,
                 turns, requests>>

LastTurn(r) == turns[r][Len(turns[r])]

\* Automatic mode: a user message that arrived during the final answer starts
\* another round of the same run.
continueWithQueued(r) ==
  /\ phase[r] = "recorded"
  /\ LastTurn(r) = <<>>
  /\ cfg.auto
  /\ CanAccept(r)
  /\ acceptQueuedUserMessages(r, messages[r])
  /\ withhold' = Set(withhold, r, shouldWithholdTools(round[r] + 1))
  /\ phase' = Set(phase, r, "prepare")
  /\ UNCHANGED <<loopVars, draft, round, offered, turns, resp, requests>>

finish(r) ==
  /\ phase[r] = "recorded"
  /\ LastTurn(r) = <<>>
  /\ ~(cfg.auto /\ CanAccept(r))
  /\ Answer(r, messages[r], 0, "none")
  /\ UNCHANGED <<loopVars, queue, messages, draft, round, withhold, offered,
                 turns, requests>>

\* The model asked for tools: an executor is attached unless the run is at its
\* round cap.
attachToolExecutor(r) ==
  /\ phase[r] = "recorded"
  /\ LastTurn(r) # <<>>
  /\ IF round[r] >= MaxRounds
     THEN Answer(r, messages[r], 0, "maxRounds")
     ELSE Answer(r, messages[r], round[r], "none")
  /\ UNCHANGED <<loopVars, queue, messages, draft, round, withhold, offered,
                 turns, requests>>

-----------------------------------------------------------------------------
(* Response.ExecuteToolCalls *)

\* Fault: the once flag is never set.
claimAgain(r, k, caller) ==
  /\ frame' = Set(frame, r, caller)
  /\ active' = Set(active, r, k)
  /\ IF round[r] >= MaxRounds
     THEN Answer(r, messages[r], 0, "maxRounds")
     ELSE phase' = Set(phase, r, "executing") /\ UNCHANGED resp
  /\ UNCHANGED executed

\* The mutex-guarded once flag of executor k, then the round cap.
claim(r, k, caller) ==
  /\ k \notin executed[r]
  /\ executed' = Set(executed, r, executed[r] \cup {k})
  /\ frame' = Set(frame, r, caller)
  /\ active' = Set(active, r, k)
  /\ IF round[r] >= MaxRounds
     THEN Answer(r, messages[r], 0, "maxRounds")
     ELSE phase' = Set(phase, r, "executing") /\ UNCHANGED resp

\* A caller drives the loop; it still holds the executors of earlier responses.
ExecuteToolCalls(r, k) ==
  /\ phase[r] = "returned"
  /\ k \in held[r]
  /\ claim(r, k, "exec")
  /\ UNCHANGED <<cfg, queue, enqueued, messages, draft, round, withhold,
                 offered, turns, held, onError, requests>>

\* Fault: the aborted round's calls stay.
keepUnansweredToolCalls(transcript) == transcript

\* The trailing assistant message keeps its text and loses its calls.
dropUnansweredToolCalls(transcript) ==
  IF transcript # <<>> /\ Last(transcript).role = "assistant"
  THEN [transcript EXCEPT ![Len(transcript)].calls = <<>>]
  ELSE transcript

\* OnToolCallStart failed: no handler ran.
runToolCallsFails(r) ==
  /\ phase[r] = "executing"
  /\ LET transcript == dropUnansweredToolCalls(messages[r]) IN
     /\ messages' = Set(messages, r, transcript)
     /\ Answer(r, transcript, 0, "tools")
  /\ UNCHANGED <<loopVars, queue, draft, round, withhold, offered, turns,
                 requests>>

\* Injections with a role that cannot stand alone are dropped.
recordInjections(roles) ==
  LET usable == { k \in DOMAIN roles : roles[k] \in {"user", "assistant", "system"} }
  IN  Pick([ k \in DOMAIN roles |-> PlainMessage(roles[k], "injection") ], usable)

\* Fault: injections ahead of the results.
recordInjectionsFirst(transcript, calls, roles) ==
  transcript \o recordInjections(roles)
             \o [ k \in DOMAIN calls |-> ToolMessage(calls[k]) ]

\* One result per call in call order, then every injection.
recordToolOutcomes(transcript, calls, roles) ==
  transcript \o [ k \in DOMAIN calls |-> ToolMessage(calls[k]) ]
             \o recordInjections(roles)

\* Every call has its result; a tool hook or an event hook may have failed.
executeTools(r, roles) ==
  /\ phase[r] = "executing"
  /\ LET transcript ==
           recordToolOutcomes(messages[r], turns[r][active[r]], roles) IN
     /\ messages' = Set(messages, r, transcript)
     /\ \/ phase' = Set(phase, r, "accept") /\ UNCHANGED resp
        \/ Answer(r, transcript, 0, "tools")
  /\ UNCHANGED <<loopVars, queue, draft, round, withhold, offered, turns,
                 requests>>

\* The next runOne of the executor.
nextRound(r) ==
  /\ phase[r] = "accept"
  /\ acceptQueuedUserMessages(r, messages[r])
  /\ withhold' = Set(withhold, r, shouldWithholdTools(round[r] + 1))
  /\ phase' = Set(phase, r, "prepare")
  /\ UNCHANGED <<loopVars, draft, round, offered, turns, resp, requests>>

-----------------------------------------------------------------------------
(* The frames that receive a response.                                     *)

\* The caller gets the response, and its executor if it has one.
deliver(r) ==
  /\ phase' = Set(phase, r, "returned")
  /\ held' = Set(held, r, held[r] \cup ({resp[r].executor} \ {0}))

\* run() reports a failure of its first runOne.
runOneReturns(r) ==
  /\ phase[r] = "return"
  /\ frame[r] = "run"
  /\ IF resp[r].err = "none" THEN UNCHANGED onError ELSE fireError(r)
  /\ IF resp[r].err = "none" /\ cfg.auto /\ cfg.withTools
     THEN phase' = Set(phase, r, "loop") /\ UNCHANGED held
     ELSE deliver(r)
  /\ UNCHANGED <<cfg, queue, enqueued, frame, messages, draft, round, withhold,
                 offered, turns, active, executed, resp, requests>>

\* The executor reports every failure behind it, whoever called it.
executorReturns(r) ==
  /\ phase[r] = "return"
  /\ frame[r] \in {"loop", "exec"}
  /\ IF resp[r].err = "none" THEN UNCHANGED onError ELSE fireError(r)
  /\ IF frame[r] = "loop"
     THEN phase' = Set(phase, r, "loop") /\ UNCHANGED held
     ELSE deliver(r)
  /\ UNCHANGED <<cfg, queue, enqueued, frame, messages, draft, round, withhold,
                 offered, turns, active, executed, resp, requests>>

\* run()'s automatic loop: an error or a response without executor ends it,
\* silently; otherwise it calls the executor.
runLoop(r) ==
  /\ phase[r] = "loop"
  /\ resp[r].err = "none" /\ resp[r].executor # 0
  /\ claim(r, resp[r].executor, "loop")
  /\ UNCHANGED <<cfg, queue, enqueued, messages, draft, round, withhold,
                 offered, turns, held, onError, requests>>

\* Fault: the loop reports the failure its executor reported.
runLoopReports(r) ==
  /\ phase[r] = "loop"
  /\ resp[r].err # "none" \/ resp[r].executor = 0
  /\ deliver(r)
  /\ IF resp[r].err # "none" THEN fireError(r) ELSE UNCHANGED onError
  /\ UNCHANGED <<cfg, queue, enqueued, frame, messages, draft, round, withhold,
                 offered, turns, active, executed, resp, requests>>

runLoopEnds(r) ==
  /\ phase[r] = "loop"
  /\ resp[r].err # "none" \/ resp[r].executor = 0
  /\ deliver(r)
  /\ UNCHANGED <<cfg, queue, enqueued, frame, messages, draft, round, withhold,
                 offered, turns, active, executed, resp, onError, requests>>

-----------------------------------------------------------------------------
\* What a run's goroutine does by itself once it is started.
Step(r) ==
  \/ prepareTools(r) \/ prepareToolsFails(r)
  \/ dropOldestUnit(r) \/ compactToBudget(r) \/ compactToBudgetFails(r)
  \/ prepareRound(r) \/ prepareRoundFails(r)
  \/ \E turn \in Turns : recordAssistant(r, turn) \/ streamAssistantFails(r, turn)
  \/ recordAssistantFails(r)
  \/ continueWithQueued(r) \/ finish(r) \/ attachToolExecutor(r)
  \/ runToolCallsFails(r)
  \/ \E roles \in InjectionBatches : executeTools(r, roles)
  \/ nextRound(r)
  \/ runOneReturns(r) \/ executorReturns(r) \/ runLoop(r) \/ runLoopEnds(r)

Next ==
  \/ \E tag \in UserTags : Enqueue(tag)
  \/ \E r \in Runs : run(r)
  \/ \E r \in Runs : Step(r)
  \/ \E r \in Runs, k \in 1 .. MaxRounds : ExecuteToolCalls(r, k)

Spec == Init /\ [][Next]_vars

\* The goroutine of a started run keeps running: drivers, hooks and tools
\* return, with an error at the latest when their context ends.
Fairness == \A r \in Runs : WF_vars(Step(r))
-----------------------------------------------------------------------------
(* Properties *)

\* No two calls of a run, its starting transcript included, share an id.
IDsFresh(r) ==
  LET asked   == turns[r]
      earlier == { cfg.prompt[k].callID : k \in DOMAIN cfg.prompt }
  IN  \A i \in DOMAIN asked :
        /\ ToSet(asked[i]) \cap earlier = {}
        /\ \A j \in DOMAIN asked : i # j => ToSet(asked[i]) \cap ToSet(asked[j]) = {}

\* The caller's transcript is one a driver accepts, or one repair can mend.
StartsLegal ==
  Tame(cfg.prompt) /\ RolesKnown(cfg.prompt) /\ (cfg.repair \/ Paired(cfg.prompt))

\* A driver takes the transcript: OpenAI's in any case, Anthropic's, whose check
\* spans the whole transcript, when no id repeats.
Acceptable(r, transcript) ==
  /\ openaiAccepts(transcript)
  /\ IDsFresh(r) /\ AnsweredOnce(cfg.prompt) => anthropicAccepts(transcript)

\* Every transcript the engine hands to a driver passes the driver's own
\* validateTranscript: no tool round, hook failure, injection, queued user
\* message, eviction or repair leaves a call without its results.
SentLegal ==
  \A r \in Runs : phase[r] = "stream" /\ StartsLegal => Acceptable(r, messages[r])

\* WithMaxRounds bounds the requests sent to the provider, whatever mixture of
\* tool rounds and queued messages extends the run.
RoundsBounded ==
  \A r \in Runs :
     /\ requests[r] <= MaxRounds
     /\ requests[r] = round[r] + (IF phase[r] = "stream" THEN 1 ELSE 0)
          \/ resp[r].err # "none"

TagsIn(transcript) ==
  Pick([ k \in DOMAIN transcript |-> transcript[k].tag ],
       { k \in DOMAIN transcript : transcript[k].tag # NoTag })

\* A queued user message is in exactly one place: the queue or the transcript of
\* one run, in the order it was enqueued, and every response a caller gets
\* carries all the messages its run took from the queue.  Only evictions may
\* make one disappear.
QueuedExactlyOnce ==
  LET places(tag) ==
        { <<"queue", k>> : k \in { j \in DOMAIN queue : queue[j] = tag } }
          \cup UNION { { <<r, k>> : k \in { j \in DOMAIN messages[r] :
                                             messages[r][j].tag = tag } } :
                       r \in Runs }
      inOrder(tags) ==
        \A i, j \in DOMAIN tags : \A k, l \in DOMAIN enqueued :
           i < j /\ tags[i] = enqueued[k] /\ tags[j] = enqueued[l] => k < l
  IN  /\ \A tag \in ToSet(enqueued) :
            /\ Cardinality(places(tag)) <= 1
            /\ ~cfg.budget => places(tag) # {}
      /\ \A r \in Runs : inOrder(TagsIn(messages[r]))
      /\ \A r \in Runs : phase[r] = "returned" =>
            TagsIn(resp[r].messages) = TagsIn(messages[r])

\* OnError fires once for a failed Run or ExecuteToolCalls and never for a
\* successful one, in manual and in automatic mode.
ErrorReportedOnce ==
  \A r \in Runs : phase[r] = "returned" =>
     onError[r] = IF resp[r].err = "none" THEN 0 ELSE 1

\* A response with an executor is an invitation that holds: no error, the
\* executor is unused and a round is left.  Automatic mode with tools never
\* leaves one, and no executor of an earlier response can be used any more.
ExecutorUsable ==
  \A r \in Runs : phase[r] = "returned" =>
     /\ resp[r].executor # 0 =>
          /\ resp[r].err = "none"
          /\ resp[r].executor \notin executed[r]
          /\ round[r] < MaxRounds
          /\ ~(cfg.auto /\ cfg.withTools)
     /\ held[r] \ executed[r] \subseteq {resp[r].executor} \ {0}

\* The caller is left with the calls of the last turn: by design, to execute
\* them, or because the run ended between the turn and its results, in a hook
\* behind the recorded turn, at the round cap or in a stream that broke.  In the
\* last three cases engine.go:45 ("feed it straight back") asks too much.
TurnOpen(r) ==
  resp[r].executor # 0 \/ resp[r].err \in {"hook", "stream", "maxRounds"}

WithoutLastCalls(transcript) == [transcript EXCEPT ![Len(transcript)].calls = <<>>]

\* What a run or an executor returns can be sent again: as it is when the model
\* has answered, and when tool execution (engine.go:826) or the preparation of a
\* round aborted; without the calls of its last message, and only those, where
\* the code leaves the last turn open.  A successful run that leaves no executor
\* ends with the model's answer.  When the first round cannot be prepared, the
\* caller's own messages come back, before any repair.
ReturnedReplayable ==
  \A r \in Runs : phase[r] = "returned" =>
     /\ resp[r].executor = 0 /\ resp[r].err = "none" =>
          Last(resp[r].messages) = AssistantMessage(<<>>)
     /\ StartsLegal /\ (resp[r].err = "prepare" /\ cfg.repair => round[r] > 0) =>
          Acceptable(r, IF TurnOpen(r) THEN WithoutLastCalls(resp[r].messages)
                        ELSE resp[r].messages)

\* WithForceFinalAnswer: a model that only calls tools it was offered never runs
\* into ErrMaxRoundsExceeded.
FinalAnswerForced ==
  \A r \in Runs : cfg.force /\ cfg.honours => resp[r].err # "maxRounds"

\* Every run returns: the round cap ends it, and the draining of the queue with
\* it, though users refill the queue before every drain and a message the cap
\* refuses is left behind (engine.go:218-235).
RunReturns == \A r \in Runs : phase[r] = "prepare" ~> phase[r] = "returned"

\* limit.go says the in-flight tool exchange is preserved regardless of age: the
\* results of the tools that just ran are in the next request.
ToolResultsReachModel ==
  \A r \in Runs :
     /\ phase[r] = "stream"
     /\ active[r] # 0
     /\ active[r] = round[r]
     => \A id \in ToSet(turns[r][active[r]]) :
           \E k \in DOMAIN messages[r] : messages[r][k].callID = id
=============================================================================

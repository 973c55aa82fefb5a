---------------------------- MODULE EngineProofs ----------------------------
(***************************************************************************)
(* The agent loop for any number of runs, rounds, calls and messages: type *)
(* correctness, the round cap, the reporting of errors, the use of         *)
(* executors, the forced final answer, the transcripts (those sent to a    *)
(* driver pass its check, those returned can be sent again) and the        *)
(* delivery of queued user messages.                                       *)
(*                                                                         *)
(* The invariant follows one run.  A run is a chain: every executor is     *)
(* made by the round before it and used by the next ExecuteToolCalls, so   *)
(* at most one is unused and none survives a failure.  That is why a       *)
(* failed request, which counts as a request and not as a round, can       *)
(* happen only once, and why the requests stay within the rounds.          *)
(***************************************************************************)
EXTENDS Engine, TranscriptProofs

Working == {"prepare", "compact", "round", "stream", "executing", "accept"}
Ended   == {"return", "loop", "returned"}

\* Rounds and requests.
RoundsInv(r) ==
  /\ Len(turns[r]) = round[r]
  /\ phase[r] \in Working \cup {"idle"} => round[r] < MaxRounds
  /\ phase[r] = "idle" => round[r] = 0
  /\ phase[r] = "recorded" => round[r] >= 1
  /\ resp[r].err # "none" => phase[r] \in Ended /\ resp[r].executor = 0
  /\ requests[r] = round[r] + (IF phase[r] = "stream" THEN 1 ELSE 0)
       \/ (resp[r].err # "none" /\ requests[r] <= round[r] + 1)
  /\ requests[r] <= MaxRounds

\* The chain of executors.
ExecutorsInv(r) ==
  /\ executed[r] \subseteq 1 .. round[r]
  /\ phase[r] = "recorded" => round[r] \notin executed[r]
  /\ phase[r] \in Ended /\ resp[r].executor # 0 =>
       /\ resp[r].executor = round[r]
       /\ round[r] < MaxRounds
       /\ round[r] \notin executed[r]
  /\ \A k \in held[r] \ executed[r] : phase[r] = "returned" /\ k = resp[r].executor
  /\ 0 \notin held[r]
  /\ phase[r] = "executing" => active[r] \in executed[r]
  /\ cfg.auto /\ cfg.withTools =>
       /\ frame[r] # "exec"
       /\ phase[r] = "returned" => resp[r].executor = 0

\* Reports of OnError.
ErrorsInv(r) ==
  onError[r] = IF phase[r] \in {"loop", "returned"} /\ resp[r].err # "none"
               THEN 1 ELSE 0

\* Tools are withheld from the last round, so its answer asks for none.
ToolsInv(r) ==
  cfg.force /\ cfg.honours =>
    /\ resp[r].err # "maxRounds"
    /\ phase[r] = "prepare" /\ cfg.withTools /\ round[r] + 1 = MaxRounds => withhold[r]
    /\ phase[r] \in {"compact", "round", "stream"} /\ round[r] + 1 = MaxRounds =>
         ~offered[r]
    /\ phase[r] = "recorded" /\ round[r] = MaxRounds => LastTurn(r) = <<>>

RunInv(r) == RoundsInv(r) /\ ExecutorsInv(r) /\ ErrorsInv(r) /\ ToolsInv(r)

Inv == TypeOK /\ \A r \in Runs : RunInv(r)

-----------------------------------------------------------------------------
(* The data a step builds. *)

\* A configuration has the flags and the prompt Configs says.
LEMMA ConfigType ==
  ASSUME cfg \in Configs
  PROVE  /\ cfg.prompt \in Seq(Message)
         /\ cfg.auto \in BOOLEAN /\ cfg.force \in BOOLEAN /\ cfg.withTools \in BOOLEAN
         /\ cfg.repair \in BOOLEAN /\ cfg.budget \in BOOLEAN /\ cfg.honours \in BOOLEAN
  BY EngineAssumption

\* A drained batch is a sequence of messages.
LEMMA QueuedType ==
  ASSUME NEW tags \in Seq(UserTags)
  PROVE  Queued(tags) \in Seq(Message)
<1>1. \A k \in DOMAIN tags : QueuedMessage(tags[k]) \in Message
  BY QueuedMessageType
<1> QED
  BY <1>1 DEF Queued

\* Injections, filtered by role, are a sequence of messages.
LEMMA InjectionsType ==
  ASSUME NEW roles \in Seq(Roles)
  PROVE  recordInjections(roles) \in Seq(Message)
<1> DEFINE all == [ k \in DOMAIN roles |-> PlainMessage(roles[k], "injection") ]
           usable == { k \in DOMAIN roles : roles[k] \in {"user", "assistant", "system"} }
<1>1. \A k \in DOMAIN roles : PlainMessage(roles[k], "injection") \in Message
  BY PlainMessageType DEF Origins
<1>2. all \in Seq(Message) /\ DOMAIN all = DOMAIN roles
  BY <1>1
<1>3. usable \in SUBSET (DOMAIN all)
  BY <1>2
<1>4. recordInjections(roles) = Pick(all, usable)
  BY DEF recordInjections
<1> HIDE DEF all, usable
<1> QED
  BY <1>2, <1>3, <1>4, PickType

\* A transcript with a round's results and injections is a transcript.
LEMMA OutcomesType ==
  ASSUME NEW transcript \in Seq(Message), NEW calls \in Seq(CallIDs),
         NEW roles \in Seq(Roles)
  PROVE  recordToolOutcomes(transcript, calls, roles) \in Seq(Message)
<1>1. [ k \in DOMAIN calls |-> ToolMessage(calls[k]) ] \in Seq(Message)
  <2>1. \A k \in DOMAIN calls : ToolMessage(calls[k]) \in Message
    BY ToolMessageType
  <2> QED
    BY <2>1
<1>2. recordInjections(roles) \in Seq(Message)
  BY InjectionsType
<1> QED
  BY <1>1, <1>2 DEF recordToolOutcomes

\* A message that loses its calls is a message.
LEMMA CallsCleared ==
  ASSUME NEW message \in Message
  PROVE  [message EXCEPT !.calls = <<>>] \in Message
<1>1. <<>> \in Seq(CallIDs)
  OBVIOUS
<1> QED
  BY <1>1 DEF Message

\* Dropping unanswered calls keeps a transcript a transcript.
LEMMA DroppedCallsType ==
  ASSUME NEW transcript \in Seq(Message)
  PROVE  dropUnansweredToolCalls(transcript) \in Seq(Message)
<1>1. CASE transcript = <<>>
  BY <1>1 DEF dropUnansweredToolCalls
<1>2. CASE transcript # <<>>
  <2>1. Len(transcript) \in DOMAIN transcript
    BY <1>2
  <2>2. transcript[Len(transcript)] \in Message
    BY <2>1
  <2>3. [transcript[Len(transcript)] EXCEPT !.calls = <<>>] \in Message
    BY <2>2, CallsCleared
  <2>4. [transcript EXCEPT ![Len(transcript)].calls = <<>>] \in Seq(Message)
    BY <2>1, <2>3
  <2> QED
    BY <2>4 DEF dropUnansweredToolCalls
<1> QED
  BY <1>1, <1>2

\* What Answer builds is a response.
LEMMA ResponseType ==
  ASSUME NEW transcript \in Seq(Message), NEW executor \in 0 .. MaxRounds,
         NEW err \in Errors
  PROVE  [messages |-> transcript, executor |-> executor, err |-> err] \in Response
  BY DEF Response

-----------------------------------------------------------------------------
\* The inductive invariant holds before any run starts.
LEMMA InvInit == Init => Inv
<1> SUFFICES ASSUME Init PROVE Inv
  OBVIOUS
<1> USE DEF Init
<1>1. TypeOK
  <2>1. NoResponse \in Response
    BY EngineAssumption DEF NoResponse, Response, Errors
  <2>2. withhold \in [Runs -> BOOLEAN] /\ offered \in [Runs -> BOOLEAN]
    OBVIOUS
  <2>3. /\ cfg \in Configs
        /\ queue \in Seq(UserTags) /\ enqueued \in Seq(UserTags)
        /\ phase \in [Runs -> Phases] /\ frame \in [Runs -> Frames]
    BY DEF Phases, Frames
  <2>4. /\ messages \in [Runs -> Seq(Message)] /\ draft \in [Runs -> Seq(Message)]
        /\ turns \in [Runs -> Seq(Seq(CallIDs))]
    OBVIOUS
  <2>5. /\ round \in [Runs -> 0 .. MaxRounds] /\ active \in [Runs -> 0 .. MaxRounds]
        /\ executed \in [Runs -> SUBSET (0 .. MaxRounds)]
        /\ held \in [Runs -> SUBSET (0 .. MaxRounds)]
        /\ onError \in [Runs -> Nat] /\ requests \in [Runs -> Nat]
    BY EngineAssumption
  <2>6. resp \in [Runs -> Response]
    BY <2>1
  <2> QED
    BY <2>2, <2>3, <2>4, <2>5, <2>6 DEF TypeOK
<1>2. ASSUME NEW r \in Runs PROVE RunInv(r)
  <2>1. RoundsInv(r)
    BY EngineAssumption DEF RoundsInv, NoResponse, Working
  <2>2. ExecutorsInv(r)
    BY DEF ExecutorsInv, NoResponse, Ended
  <2>3. ErrorsInv(r) /\ ToolsInv(r)
    BY DEF ErrorsInv, ToolsInv, NoResponse
  <2> QED
    BY <2>1, <2>2, <2>3 DEF RunInv
<1> QED
  BY <1>1, <1>2 DEF Inv

-----------------------------------------------------------------------------
(* Every step keeps the types. *)

\* An update of one run keeps a per-run variable's type.
LEMMA SetType ==
  ASSUME NEW S, NEW f \in [Runs -> S], NEW r \in Runs, NEW v \in S
  PROVE  Set(f, r, v) \in [Runs -> S]
  BY DEF Set

\* Returning a response keeps the types of phase and resp.
LEMMA AnswerType ==
  ASSUME TypeOK, NEW r \in Runs, NEW transcript \in Seq(Message),
         NEW executor \in 0 .. MaxRounds, NEW err \in Errors,
         Answer(r, transcript, executor, err)
  PROVE  /\ phase' \in [Runs -> Phases]
         /\ resp' \in [Runs -> Response]
<1>1. [messages |-> transcript, executor |-> executor, err |-> err] \in Response
  BY ResponseType
<1>2. "return" \in Phases
  BY DEF Phases
<1> QED
  BY <1>1, <1>2, SetType DEF Answer, TypeOK

\* Draining the queue behind a transcript keeps the types of both.
LEMMA AcceptType ==
  ASSUME TypeOK, NEW r \in Runs, NEW transcript \in Seq(Message),
         acceptQueuedUserMessages(r, transcript)
  PROVE  /\ messages' \in [Runs -> Seq(Message)]
         /\ queue' \in Seq(UserTags)
<1>1. Queued(queue) \in Seq(Message)
  BY QueuedType DEF TypeOK
<1>2. transcript \o Queued(queue) \in Seq(Message)
  BY <1>1
<1>3. \/ messages' = Set(messages, r, transcript \o Queued(queue)) /\ queue' = <<>>
      \/ messages' = Set(messages, r, transcript) /\ queue' = queue
  BY DEF acceptQueuedUserMessages
<1>4. messages' \in [Runs -> Seq(Message)]
  BY <1>2, <1>3 DEF TypeOK, Set
<1>5. queue' \in Seq(UserTags)
  <2>1. <<>> \in Seq(UserTags)
    OBVIOUS
  <2> QED
    BY <1>3, <2>1 DEF TypeOK
<1> QED
  BY <1>4, <1>5

\* The decision to withhold tools is a Boolean.
LEMMA WithholdType ==
  ASSUME TypeOK, NEW r \in Runs, NEW n,
         withhold' = Set(withhold, r, shouldWithholdTools(n))
  PROVE  withhold' \in [Runs -> BOOLEAN]
<1>1. shouldWithholdTools(n) \in BOOLEAN
  BY Zenon DEF shouldWithholdTools
<1> QED
  BY <1>1, SetType, Zenon DEF TypeOK

\* Claiming an executor keeps the types of what it changes.
LEMMA ClaimType ==
  ASSUME TypeOK, NEW r \in Runs, NEW k \in 0 .. MaxRounds, NEW caller \in Frames,
         claim(r, k, caller)
  PROVE  /\ executed' \in [Runs -> SUBSET (0 .. MaxRounds)]
         /\ frame' \in [Runs -> Frames] /\ active' \in [Runs -> 0 .. MaxRounds]
         /\ phase' \in [Runs -> Phases] /\ resp' \in [Runs -> Response]
<1>1. /\ executed' \in [Runs -> SUBSET (0 .. MaxRounds)]
      /\ frame' \in [Runs -> Frames] /\ active' \in [Runs -> 0 .. MaxRounds]
  BY DEF claim, Set, TypeOK
<1>2. CASE round[r] >= MaxRounds
  <2>1. Answer(r, messages[r], 0, "maxRounds")
    BY <1>2 DEF claim
  <2>2. 0 \in 0 .. MaxRounds /\ "maxRounds" \in Errors /\ messages[r] \in Seq(Message)
    BY EngineAssumption DEF Errors, TypeOK
  <2> QED
    BY <1>1, <2>1, <2>2, AnswerType
<1>3. CASE ~(round[r] >= MaxRounds)
  BY <1>1, <1>3 DEF claim, Set, TypeOK, Phases
<1> QED
  BY <1>2, <1>3

\* The executors a caller holds stay executors.
LEMMA DeliveredType ==
  ASSUME NEW f \in [Runs -> SUBSET (0 .. MaxRounds)], NEW r \in Runs,
         NEW k \in 0 .. MaxRounds
  PROVE  Set(f, r, f[r] \cup ({k} \ {0})) \in [Runs -> SUBSET (0 .. MaxRounds)]
  BY DEF Set

\* A counter of one run may be increased.
LEMMA ReportedType ==
  ASSUME NEW f \in [Runs -> Nat], NEW r \in Runs
  PROVE  Set(f, r, f[r] + 1) \in [Runs -> Nat]
  BY DEF Set

\* Every step of every action keeps the types.
LEMMA TypeStep == Inv /\ [Next]_vars => TypeOK'
<1> SUFFICES ASSUME Inv, [Next]_vars PROVE TypeOK'
  OBVIOUS
<1>t. TypeOK /\ cfg \in Configs
  BY DEF Inv, TypeOK
<1>p. /\ Phases = {"idle", "prepare", "compact", "round", "stream", "recorded",
                   "executing", "accept", "return", "loop", "returned"}
      /\ 0 \in 0 .. MaxRounds
  BY EngineAssumption DEF Phases
<1>e. Errors = {"none", "prepare", "hook", "stream", "maxRounds", "tools"}
  BY DEF Errors
<1>h. /\ held \in [Runs -> SUBSET (0 .. MaxRounds)]
      /\ onError \in [Runs -> Nat]
      /\ \A r \in Runs : resp[r].executor \in 0 .. MaxRounds
  BY <1>t DEF TypeOK, Response
<1>0. CASE UNCHANGED vars
  BY <1>0, <1>t DEF TypeOK, vars, runVars
<1>1. ASSUME NEW tag \in UserTags, Enqueue(tag) PROVE TypeOK'
  <2>1. queue' \in Seq(UserTags) /\ enqueued' \in Seq(UserTags)
    BY <1>1, <1>t DEF Enqueue, TypeOK
  <2> QED
    BY <1>1, <1>t, <2>1 DEF Enqueue, TypeOK, runVars
<1>2. ASSUME NEW r \in Runs, run(r) PROVE TypeOK'
  <2>1. messages' \in [Runs -> Seq(Message)] /\ queue' \in Seq(UserTags)
    <3>1. CASE cfg.auto
      BY <1>2, <1>t, <3>1, AcceptType, ConfigType DEF run
    <3>2. CASE ~cfg.auto
      <4>1. messages' = Set(messages, r, cfg.prompt) /\ queue' = queue
        BY <1>2, <3>2 DEF run
      <4> QED
        BY <1>t, <4>1, ConfigType, SetType DEF TypeOK
    <3> QED
      BY <3>1, <3>2
  <2>2. withhold' \in [Runs -> BOOLEAN]
    <3>1. (cfg.withTools /\ shouldWithholdTools(1)) \in BOOLEAN
      BY Zenon
    <3>2. withhold' = Set(withhold, r, cfg.withTools /\ shouldWithholdTools(1))
      BY <1>2 DEF run
    <3> QED
      BY <1>t, <3>1, <3>2, SetType, Zenon DEF TypeOK
  <2>3. phase' \in [Runs -> Phases] /\ frame' \in [Runs -> Frames]
    BY <1>2, <1>t DEF run, Set, TypeOK, Phases, Frames
  <2> QED
    BY <1>2, <1>t, <2>1, <2>2, <2>3 DEF run, TypeOK
<1>3. ASSUME NEW r \in Runs, prepareToolsFails(r) PROVE TypeOK'
  <2>1. phase' \in [Runs -> Phases] /\ resp' \in [Runs -> Response]
    BY <1>3, <1>t, <1>p, <1>e, AnswerType DEF prepareToolsFails, TypeOK
  <2> QED
    BY <1>3, <1>t, <2>1 DEF prepareToolsFails, TypeOK, loopVars
<1>4. ASSUME NEW r \in Runs, compactToBudgetFails(r) PROVE TypeOK'
  <2>1. phase' \in [Runs -> Phases] /\ resp' \in [Runs -> Response]
    BY <1>4, <1>t, <1>p, <1>e, AnswerType DEF compactToBudgetFails, TypeOK
  <2> QED
    BY <1>4, <1>t, <2>1 DEF compactToBudgetFails, TypeOK, loopVars
<1>5. ASSUME NEW r \in Runs, recordAssistantFails(r) PROVE TypeOK'
  <2>1. phase' \in [Runs -> Phases] /\ resp' \in [Runs -> Response]
    BY <1>5, <1>t, <1>p, <1>e, AnswerType DEF recordAssistantFails, TypeOK
  <2> QED
    BY <1>5, <1>t, <2>1 DEF recordAssistantFails, TypeOK, loopVars
<1>6. ASSUME NEW r \in Runs, finish(r) PROVE TypeOK'
  <2>1. phase' \in [Runs -> Phases] /\ resp' \in [Runs -> Response]
    BY <1>6, <1>t, <1>p, <1>e, AnswerType DEF finish, TypeOK
  <2> QED
    BY <1>6, <1>t, <2>1 DEF finish, TypeOK, loopVars
<1>7. ASSUME NEW r \in Runs, attachToolExecutor(r) PROVE TypeOK'
  <2>1. phase' \in [Runs -> Phases] /\ resp' \in [Runs -> Response]
    BY <1>7, <1>t, <1>p, <1>e, AnswerType DEF attachToolExecutor, TypeOK
  <2> QED
    BY <1>7, <1>t, <2>1 DEF attachToolExecutor, TypeOK, loopVars
<1>8. ASSUME NEW r \in Runs, prepareTools(r) PROVE TypeOK'
  <2>1. offered' \in [Runs -> BOOLEAN]
    <3>1. PICK tools \in resolveTools(r) : offered' = Set(offered, r, tools)
      BY <1>8 DEF prepareTools
    <3>2. tools \in BOOLEAN
      BY DEF resolveTools
    <3> QED
      BY <1>t, <3>1, <3>2, SetType, Zenon DEF TypeOK
  <2>2. phase' \in [Runs -> Phases] /\ draft' \in [Runs -> Seq(Message)]
    BY <1>8, <1>t DEF prepareTools, Set, TypeOK, Phases
  <2> QED
    BY <1>8, <1>t, <2>1, <2>2 DEF prepareTools, TypeOK, loopVars
<1>9. ASSUME NEW r \in Runs, dropOldestUnit(r) PROVE TypeOK'
  <2>1. PICK i \in {firstDroppableUnit(draft[r])} \ {0} :
               draft' = Set(draft, r, DropUnit(draft[r], i))
    BY <1>9 DEF dropOldestUnit
  <2>2. draft[r] \in Seq(Message)
    BY <1>t DEF TypeOK
  <2>3. DropUnit(draft[r], i) \in Seq(Message)
    BY <2>1, <2>2, FirstDroppableRange, DropUnitType
  <2>4. draft' \in [Runs -> Seq(Message)]
    BY <1>t, <2>1, <2>3 DEF TypeOK, Set
  <2> QED
    BY <1>9, <1>t, <2>4 DEF dropOldestUnit, TypeOK, loopVars
<1>10. ASSUME NEW r \in Runs, compactToBudget(r) PROVE TypeOK'
  <2>1. messages' \in [Runs -> Seq(Message)]
    BY <1>10, <1>t DEF compactToBudget, Set, TypeOK
  <2>2. phase' \in [Runs -> Phases] /\ resp' \in [Runs -> Response]
    <3>1. CASE Answer(r, draft[r], 0, "prepare")
      BY <3>1, <1>t, <1>p, <1>e, AnswerType DEF TypeOK
    <3>2. CASE phase' = Set(phase, r, "round") /\ UNCHANGED resp
      BY <3>2, <1>t, <1>p DEF Set, TypeOK
    <3> QED
      BY <1>10, <3>1, <3>2 DEF compactToBudget
  <2> QED
    BY <1>10, <1>t, <2>1, <2>2 DEF compactToBudget, TypeOK, loopVars
<1>11. ASSUME NEW r \in Runs, prepareRound(r) PROVE TypeOK'
  <2>1. roundTranscript(r) \in Seq(Message)
    BY <1>t, RepairType DEF roundTranscript, TypeOK
  <2>2. messages' \in [Runs -> Seq(Message)]
    BY <1>11, <1>t, <2>1 DEF prepareRound, Set, TypeOK
  <2>3. phase' \in [Runs -> Phases] /\ requests' \in [Runs -> Nat]
    BY <1>11, <1>t, <1>p DEF prepareRound, Set, TypeOK
  <2> QED
    BY <1>11, <1>t, <2>2, <2>3 DEF prepareRound, TypeOK, loopVars
<1>12. ASSUME NEW r \in Runs, prepareRoundFails(r) PROVE TypeOK'
  <2>1. roundTranscript(r) \in Seq(Message)
    BY <1>t, RepairType DEF roundTranscript, TypeOK
  <2>2. messages' \in [Runs -> Seq(Message)]
    BY <1>12, <1>t, <2>1 DEF prepareRoundFails, Set, TypeOK
  <2>3. phase' \in [Runs -> Phases] /\ resp' \in [Runs -> Response]
    BY <1>12, <1>t, <1>p, <1>e, <2>1, AnswerType DEF prepareRoundFails
  <2> QED
    BY <1>12, <1>t, <2>2, <2>3 DEF prepareRoundFails, TypeOK, loopVars
<1>13. ASSUME NEW r \in Runs, NEW turn \in Turns, streamAssistantFails(r, turn) PROVE TypeOK'
  <2>1. Append(messages[r], AssistantMessage(turn)) \in Seq(Message)
    BY <1>t, EngineAssumption, AssistantMessageType DEF TypeOK
  <2>2. PICK transcript \in {messages[r], Append(messages[r], AssistantMessage(turn))} :
               Answer(r, transcript, 0, "stream")
    BY <1>13 DEF streamAssistantFails
  <2>3. transcript \in Seq(Message)
    BY <1>t, <2>1 DEF TypeOK
  <2>4. phase' \in [Runs -> Phases] /\ resp' \in [Runs -> Response]
    BY <1>t, <1>p, <1>e, <2>2, <2>3, AnswerType
  <2> QED
    BY <1>13, <1>t, <2>4 DEF streamAssistantFails, TypeOK, loopVars
<1>14. ASSUME NEW r \in Runs, NEW turn \in Turns, recordAssistant(r, turn) PROVE TypeOK'
  <2>1. Append(messages[r], AssistantMessage(turn)) \in Seq(Message)
    BY <1>t, EngineAssumption, AssistantMessageType DEF TypeOK
  <2>2. messages' \in [Runs -> Seq(Message)]
    BY <1>14, <1>t, <2>1 DEF recordAssistant, Set, TypeOK
  <2>3. turns' \in [Runs -> Seq(Seq(CallIDs))]
    <3>1. turns[r] \in Seq(Seq(CallIDs)) /\ turn \in Seq(CallIDs)
      BY <1>t, EngineAssumption DEF TypeOK
    <3>2. Append(turns[r], turn) \in Seq(Seq(CallIDs))
      BY <3>1
    <3> QED
      BY <1>14, <1>t, <3>2 DEF recordAssistant, Set, TypeOK
  <2>4. round' \in [Runs -> 0 .. MaxRounds]
    <3>1. round[r] < MaxRounds
      BY <1>14 DEF recordAssistant, Inv, RunInv, RoundsInv, Working
    <3>2. round[r] + 1 \in 0 .. MaxRounds
      BY <1>t, <3>1, EngineAssumption DEF TypeOK
    <3> QED
      BY <1>14, <1>t, <3>2 DEF recordAssistant, Set, TypeOK
  <2>5. phase' \in [Runs -> Phases]
    BY <1>14, <1>t, <1>p DEF recordAssistant, Set, TypeOK
  <2> QED
    BY <1>14, <1>t, <2>2, <2>3, <2>4, <2>5 DEF recordAssistant, TypeOK, loopVars
<1>15. ASSUME NEW r \in Runs, continueWithQueued(r) PROVE TypeOK'
  <2>1. messages' \in [Runs -> Seq(Message)] /\ queue' \in Seq(UserTags)
    BY <1>15, <1>t, AcceptType DEF continueWithQueued, TypeOK
  <2>2. withhold' \in [Runs -> BOOLEAN]
    BY <1>15, <1>t, WithholdType DEF continueWithQueued
  <2>3. phase' \in [Runs -> Phases]
    BY <1>15, <1>t, <1>p DEF continueWithQueued, Set, TypeOK
  <2> QED
    BY <1>15, <1>t, <2>1, <2>2, <2>3 DEF continueWithQueued, TypeOK, loopVars
<1>16. ASSUME NEW r \in Runs, nextRound(r) PROVE TypeOK'
  <2>1. messages' \in [Runs -> Seq(Message)] /\ queue' \in Seq(UserTags)
    BY <1>16, <1>t, AcceptType DEF nextRound, TypeOK
  <2>2. withhold' \in [Runs -> BOOLEAN]
    BY <1>16, <1>t, WithholdType DEF nextRound
  <2>3. phase' \in [Runs -> Phases]
    BY <1>16, <1>t, <1>p DEF nextRound, Set, TypeOK
  <2> QED
    BY <1>16, <1>t, <2>1, <2>2, <2>3 DEF nextRound, TypeOK, loopVars
<1>17. ASSUME NEW r \in Runs, runToolCallsFails(r) PROVE TypeOK'
  <2>1. dropUnansweredToolCalls(messages[r]) \in Seq(Message)
    BY <1>t, DroppedCallsType DEF TypeOK
  <2>2. messages' \in [Runs -> Seq(Message)]
    BY <1>17, <1>t, <2>1 DEF runToolCallsFails, Set, TypeOK
  <2>3. phase' \in [Runs -> Phases] /\ resp' \in [Runs -> Response]
    BY <1>17, <1>t, <1>p, <1>e, <2>1, AnswerType DEF runToolCallsFails
  <2> QED
    BY <1>17, <1>t, <2>2, <2>3 DEF runToolCallsFails, TypeOK, loopVars
<1>18. ASSUME NEW r \in Runs, NEW roles \in InjectionBatches, executeTools(r, roles) PROVE TypeOK'
  <2> DEFINE transcript == recordToolOutcomes(messages[r], turns[r][active[r]], roles)
  <2>1. turns[r][active[r]] \in Seq(CallIDs)
    <3>1. active[r] \in 1 .. Len(turns[r])
      BY <1>18 DEF executeTools, Inv, RunInv, RoundsInv, ExecutorsInv
    <3> QED
      BY <1>t, <3>1 DEF TypeOK
  <2>2. transcript \in Seq(Message)
    BY <1>t, <2>1, OutcomesType, EngineAssumption DEF TypeOK
  <2>3. /\ messages' = Set(messages, r, transcript)
        /\ \/ phase' = Set(phase, r, "accept") /\ UNCHANGED resp
           \/ Answer(r, transcript, 0, "tools")
    BY <1>18 DEF executeTools
  <2> HIDE DEF transcript
  <2>4. messages' \in [Runs -> Seq(Message)]
    BY <1>t, <2>2, <2>3 DEF Set, TypeOK
  <2>5. phase' \in [Runs -> Phases] /\ resp' \in [Runs -> Response]
    <3>1. CASE Answer(r, transcript, 0, "tools")
      BY <3>1, <1>t, <1>p, <1>e, <2>2, AnswerType
    <3>2. CASE phase' = Set(phase, r, "accept") /\ UNCHANGED resp
      BY <3>2, <1>t, <1>p DEF Set, TypeOK
    <3> QED
      BY <2>3, <3>1, <3>2
  <2> QED
    BY <1>18, <1>t, <2>4, <2>5 DEF executeTools, TypeOK, loopVars
<1>19. ASSUME NEW r \in Runs, runOneReturns(r) PROVE TypeOK'
  <2>1. \/ phase' = Set(phase, r, "loop") /\ held' = held
        \/ deliver(r)
    BY <1>19, Zenon DEF runOneReturns
  <2>2. phase' \in [Runs -> Phases]
    BY <1>t, <1>p, <2>1 DEF deliver, Set, TypeOK
  <2>3. held' \in [Runs -> SUBSET (0 .. MaxRounds)]
    BY <1>h, <2>1, DeliveredType DEF deliver
  <2>4. onError' = onError \/ fireError(r)
    BY <1>19, Zenon DEF runOneReturns
  <2>5. onError' \in [Runs -> Nat]
    BY <1>h, <2>4, ReportedType DEF fireError
  <2> QED
    BY <1>19, <1>t, <2>2, <2>3, <2>5 DEF runOneReturns, TypeOK
<1>20. ASSUME NEW r \in Runs, executorReturns(r) PROVE TypeOK'
  <2>1. \/ phase' = Set(phase, r, "loop") /\ held' = held
        \/ deliver(r)
    BY <1>20, Zenon DEF executorReturns
  <2>2. phase' \in [Runs -> Phases]
    BY <1>t, <1>p, <2>1 DEF deliver, Set, TypeOK
  <2>3. held' \in [Runs -> SUBSET (0 .. MaxRounds)]
    BY <1>h, <2>1, DeliveredType DEF deliver
  <2>4. onError' = onError \/ fireError(r)
    BY <1>20, Zenon DEF executorReturns
  <2>5. onError' \in [Runs -> Nat]
    BY <1>h, <2>4, ReportedType DEF fireError
  <2> QED
    BY <1>20, <1>t, <2>2, <2>3, <2>5 DEF executorReturns, TypeOK
<1>21. ASSUME NEW r \in Runs, runLoopEnds(r) PROVE TypeOK'
  <2>1. phase' \in [Runs -> Phases]
    BY <1>21, <1>t, <1>p DEF runLoopEnds, deliver, Set, TypeOK
  <2>2. held' \in [Runs -> SUBSET (0 .. MaxRounds)]
    BY <1>21, <1>t DEF runLoopEnds, deliver, Set, TypeOK, Response
  <2> QED
    BY <1>21, <1>t, <2>1, <2>2 DEF runLoopEnds, TypeOK
<1>22. ASSUME NEW r \in Runs, runLoop(r) PROVE TypeOK'
  <2>1. resp[r].executor \in 0 .. MaxRounds /\ "loop" \in Frames
    BY <1>22, <1>t DEF TypeOK, Response, Frames
  <2>2. /\ executed' \in [Runs -> SUBSET (0 .. MaxRounds)]
        /\ frame' \in [Runs -> Frames] /\ active' \in [Runs -> 0 .. MaxRounds]
        /\ phase' \in [Runs -> Phases] /\ resp' \in [Runs -> Response]
    BY <1>22, <1>t, <2>1, ClaimType DEF runLoop
  <2> QED
    BY <1>22, <1>t, <2>2 DEF runLoop, TypeOK
<1>23. ASSUME NEW r \in Runs, NEW k \in 1 .. MaxRounds, ExecuteToolCalls(r, k) PROVE TypeOK'
  <2>1. k \in 0 .. MaxRounds /\ "exec" \in Frames
    BY <1>23, <1>t DEF TypeOK, Response, Frames
  <2>2. /\ executed' \in [Runs -> SUBSET (0 .. MaxRounds)]
        /\ frame' \in [Runs -> Frames] /\ active' \in [Runs -> 0 .. MaxRounds]
        /\ phase' \in [Runs -> Phases] /\ resp' \in [Runs -> Response]
    BY <1>23, <1>t, <2>1, ClaimType DEF ExecuteToolCalls
  <2> QED
    BY <1>23, <1>t, <2>2 DEF ExecuteToolCalls, TypeOK
<1> QED
  BY <1>0, <1>1, <1>2, <1>3, <1>4, <1>5, <1>6, <1>7, <1>8, <1>9, <1>10, <1>11, <1>12, <1>13, <1>14, <1>15, <1>16, <1>17, <1>18, <1>19, <1>20, <1>21, <1>22, <1>23 DEF Next, Step

-----------------------------------------------------------------------------
(* Every step keeps the invariant of every run. *)

\* A step leaves run q alone.
Untouched(q) ==
  /\ cfg' = cfg
  /\ phase'[q] = phase[q] /\ frame'[q] = frame[q] /\ round'[q] = round[q]
  /\ withhold'[q] = withhold[q] /\ offered'[q] = offered[q]
  /\ turns'[q] = turns[q] /\ active'[q] = active[q]
  /\ executed'[q] = executed[q] /\ held'[q] = held[q] /\ resp'[q] = resp[q]
  /\ onError'[q] = onError[q] /\ requests'[q] = requests[q]

\* A run none of whose variables change keeps its invariant.
LEMMA UntouchedKeeps ==
  ASSUME NEW q \in Runs, RunInv(q), Untouched(q)
  PROVE  RunInv(q)'
<1>1. RoundsInv(q)'
  BY DEF RunInv, Untouched, RoundsInv
<1>2. ExecutorsInv(q)'
  BY DEF RunInv, Untouched, ExecutorsInv
<1>3. ErrorsInv(q)'
  BY DEF RunInv, Untouched, ErrorsInv
<1>4. ToolsInv(q)'
  BY DEF RunInv, Untouched, ToolsInv, LastTurn
<1> QED
  BY <1>1, <1>2, <1>3, <1>4 DEF RunInv

\* A step of run r that hands a failure to the calling frame.
FailsWith(r, err) ==
  /\ phase[r] \in Working \cup {"recorded"}
  /\ err \notin {"none", "maxRounds"}
  /\ cfg' = cfg
  /\ phase'[r] = "return"
  /\ resp'[r].err = err /\ resp'[r].executor = 0
  /\ frame'[r] = frame[r] /\ round'[r] = round[r] /\ turns'[r] = turns[r]
  /\ active'[r] = active[r] /\ executed'[r] = executed[r] /\ held'[r] = held[r]
  /\ onError'[r] = onError[r] /\ requests'[r] = requests[r]

\* What the types say of one run.
RunTypes(r) ==
  /\ round[r] \in 0 .. MaxRounds /\ requests[r] \in Nat /\ onError[r] \in Nat
  /\ executed[r] \subseteq 0 .. MaxRounds /\ held[r] \subseteq 0 .. MaxRounds
  /\ resp[r].executor \in 0 .. MaxRounds /\ phase[r] \in Phases
  /\ MaxRounds \in Nat \ {0}

\* The types of one run, as facts about plain values.
LEMMA TypesOfRun ==
  ASSUME TypeOK, NEW r \in Runs
  PROVE  RunTypes(r)
  BY EngineAssumption DEF TypeOK, RunTypes, Response

\* A step that only returns an error keeps the invariant of its run.
LEMMA FailureKeeps ==
  ASSUME NEW r \in Runs, NEW err, RunTypes(r), RunInv(r), FailsWith(r, err)
  PROVE  RunInv(r)'
<1>1. RoundsInv(r)'
  BY DEF RunInv, RunTypes, FailsWith, RoundsInv, Working, Ended
<1>2. ExecutorsInv(r)'
  BY DEF RunInv, FailsWith, ExecutorsInv, Working, Ended
<1>3. ErrorsInv(r)'
  BY DEF RunInv, FailsWith, ErrorsInv, Working
<1>4. ToolsInv(r)'
  BY DEF RunInv, FailsWith, ToolsInv
<1> QED
  BY <1>1, <1>2, <1>3, <1>4 DEF RunInv

\* A step of one run leaves every other run's variables alone.
LEMMA OthersUntouched ==
  ASSUME TypeOK, NEW r \in Runs, NEW q \in Runs \ {r},
         run(r) \/ Step(r) \/ \E k \in 1 .. MaxRounds : ExecuteToolCalls(r, k)
  PROVE  Untouched(q)
<1> USE DEF Untouched, Set
<1>t. /\ phase \in [Runs -> Phases] /\ frame \in [Runs -> Frames]
      /\ round \in [Runs -> 0 .. MaxRounds] /\ turns \in [Runs -> Seq(Seq(CallIDs))]
      /\ active \in [Runs -> 0 .. MaxRounds] /\ resp \in [Runs -> Response]
      /\ executed \in [Runs -> SUBSET (0 .. MaxRounds)]
      /\ held \in [Runs -> SUBSET (0 .. MaxRounds)]
      /\ onError \in [Runs -> Nat] /\ requests \in [Runs -> Nat]
  BY DEF TypeOK
<1>w. withhold \in [Runs -> BOOLEAN] /\ offered \in [Runs -> BOOLEAN]
  BY DEF TypeOK
<1>1. CASE run(r)
  BY <1>1, <1>t, <1>w DEF run
<1>2. CASE prepareTools(r)
  BY <1>2, <1>t, <1>w DEF prepareTools, loopVars
<1>3. CASE prepareToolsFails(r)
  BY <1>3, <1>t, <1>w DEF prepareToolsFails, loopVars, Answer
<1>4. CASE dropOldestUnit(r)
  BY <1>4, <1>t, <1>w DEF dropOldestUnit, loopVars
<1>5. CASE compactToBudget(r)
  BY <1>5, <1>t, <1>w DEF compactToBudget, loopVars, Answer
<1>6. CASE compactToBudgetFails(r)
  BY <1>6, <1>t, <1>w DEF compactToBudgetFails, loopVars, Answer
<1>7. CASE prepareRound(r)
  BY <1>7, <1>t, <1>w DEF prepareRound, loopVars
<1>8. CASE prepareRoundFails(r)
  BY <1>8, <1>t, <1>w DEF prepareRoundFails, loopVars, Answer
<1>9. ASSUME NEW turn \in Turns, recordAssistant(r, turn) PROVE Untouched(q)
  BY <1>9, <1>t, <1>w DEF recordAssistant, loopVars
<1>10. ASSUME NEW turn \in Turns, streamAssistantFails(r, turn) PROVE Untouched(q)
  BY <1>10, <1>t, <1>w DEF streamAssistantFails, loopVars, Answer
<1>11. CASE recordAssistantFails(r)
  BY <1>11, <1>t, <1>w DEF recordAssistantFails, loopVars, Answer
<1>12. CASE continueWithQueued(r)
  BY <1>12, <1>t, <1>w DEF continueWithQueued, loopVars
<1>13. CASE finish(r)
  BY <1>13, <1>t, <1>w DEF finish, loopVars, Answer
<1>14. CASE attachToolExecutor(r)
  BY <1>14, <1>t, <1>w DEF attachToolExecutor, loopVars, Answer
<1>15. CASE runToolCallsFails(r)
  BY <1>15, <1>t, <1>w DEF runToolCallsFails, loopVars, Answer
<1>16. ASSUME NEW roles \in InjectionBatches, executeTools(r, roles) PROVE Untouched(q)
  BY <1>16, <1>t, <1>w DEF executeTools, loopVars, Answer
<1>17. CASE nextRound(r)
  BY <1>17, <1>t, <1>w DEF nextRound, loopVars
<1>18. CASE runOneReturns(r)
  BY <1>18, <1>t, <1>w DEF runOneReturns, deliver, fireError
<1>19. CASE executorReturns(r)
  BY <1>19, <1>t, <1>w DEF executorReturns, deliver, fireError
<1>20. CASE runLoop(r)
  BY <1>20, <1>t, <1>w DEF runLoop, claim, Answer
<1>21. CASE runLoopEnds(r)
  BY <1>21, <1>t, <1>w DEF runLoopEnds, deliver
<1>22. ASSUME NEW k \in 1 .. MaxRounds, ExecuteToolCalls(r, k) PROVE Untouched(q)
  BY <1>22, <1>t, <1>w DEF ExecuteToolCalls, claim, Answer
<1> QED
  BY <1>1, <1>2, <1>3, <1>4, <1>5, <1>6, <1>7, <1>8, <1>9, <1>10, <1>11, <1>12, <1>13, <1>14, <1>15, <1>16, <1>17, <1>18, <1>19, <1>20, <1>21, <1>22 DEF Step

\* A step of a run keeps the invariant of that run.
LEMMA ActorKeeps ==
  ASSUME Inv, NEW r \in Runs,
         run(r) \/ Step(r) \/ \E k \in 1 .. MaxRounds : ExecuteToolCalls(r, k)
  PROVE  RunInv(r)'
<1>t. /\ phase \in [Runs -> Phases] /\ frame \in [Runs -> Frames]
      /\ round \in [Runs -> 0 .. MaxRounds] /\ turns \in [Runs -> Seq(Seq(CallIDs))]
      /\ active \in [Runs -> 0 .. MaxRounds] /\ resp \in [Runs -> Response]
      /\ executed \in [Runs -> SUBSET (0 .. MaxRounds)]
      /\ held \in [Runs -> SUBSET (0 .. MaxRounds)]
      /\ onError \in [Runs -> Nat] /\ requests \in [Runs -> Nat]
  BY DEF Inv, TypeOK
<1>w. withhold \in [Runs -> BOOLEAN] /\ offered \in [Runs -> BOOLEAN]
  BY DEF Inv, TypeOK
<1>r. RunTypes(r) /\ RunInv(r)
  BY TypesOfRun DEF Inv
<1>1. CASE run(r)
  <2>1. /\ phase[r] = "idle" /\ cfg' = cfg /\ phase'[r] = "prepare"
        /\ frame'[r] = "run" /\ round'[r] = round[r]
        /\ withhold'[r] = (cfg.withTools /\ shouldWithholdTools(1))
        /\ offered'[r] = offered[r] /\ turns'[r] = turns[r]
        /\ active'[r] = active[r] /\ executed'[r] = executed[r]
        /\ held'[r] = held[r] /\ resp'[r] = resp[r]
        /\ onError'[r] = onError[r] /\ requests'[r] = requests[r]
    BY <1>1, <1>t, <1>w DEF run, Set
  <2>a. cfg.withTools /\ cfg.force /\ 1 = MaxRounds => withhold'[r]
    BY <2>1, Zenon DEF shouldWithholdTools
  <2>2. RoundsInv(r)'
    BY <1>r, <2>1 DEF RunInv, RunTypes, RoundsInv, Working, Ended
  <2>3. ExecutorsInv(r)'
    BY <1>r, <2>1 DEF RunInv, RunTypes, ExecutorsInv, RoundsInv, Working, Ended
  <2>4. ErrorsInv(r)'
    BY <1>r, <2>1 DEF RunInv, ErrorsInv, RoundsInv, Ended
  <2>5. ToolsInv(r)'
    BY <1>r, <2>1, <2>a DEF RunInv, RunTypes, ToolsInv, LastTurn, RoundsInv
  <2> QED
    BY <2>2, <2>3, <2>4, <2>5 DEF RunInv
<1>2. CASE prepareToolsFails(r)
  <2>1. FailsWith(r, "prepare")
    BY <1>2, <1>t DEF prepareToolsFails, loopVars, Answer, Set, FailsWith, Working
  <2> QED
    BY <1>r, <2>1, FailureKeeps
<1>3. CASE compactToBudgetFails(r)
  <2>1. FailsWith(r, "prepare")
    BY <1>3, <1>t DEF compactToBudgetFails, loopVars, Answer, Set, FailsWith, Working
  <2> QED
    BY <1>r, <2>1, FailureKeeps
<1>4. CASE prepareRoundFails(r)
  <2>1. FailsWith(r, "hook")
    BY <1>4, <1>t DEF prepareRoundFails, loopVars, Answer, Set, FailsWith, Working
  <2> QED
    BY <1>r, <2>1, FailureKeeps
<1>5. ASSUME NEW turn \in Turns, streamAssistantFails(r, turn) PROVE RunInv(r)'
  <2>1. FailsWith(r, "stream")
    BY <1>5, <1>t DEF streamAssistantFails, loopVars, Answer, Set, FailsWith, Working
  <2> QED
    BY <1>r, <2>1, FailureKeeps
<1>6. CASE recordAssistantFails(r)
  <2>1. FailsWith(r, "hook")
    BY <1>6, <1>t DEF recordAssistantFails, loopVars, Answer, Set, FailsWith, Working
  <2> QED
    BY <1>r, <2>1, FailureKeeps
<1>7. CASE runToolCallsFails(r)
  <2>1. FailsWith(r, "tools")
    BY <1>7, <1>t DEF runToolCallsFails, loopVars, Answer, Set, FailsWith, Working
  <2> QED
    BY <1>r, <2>1, FailureKeeps
<1>8. CASE prepareTools(r)
  <2>1. /\ phase[r] = "prepare" /\ phase'[r] \in {"round", "compact"}
        /\ cfg' = cfg /\ frame'[r] = frame[r] /\ round'[r] = round[r]
        /\ withhold'[r] = withhold[r] /\ turns'[r] = turns[r]
        /\ active'[r] = active[r] /\ executed'[r] = executed[r]
        /\ held'[r] = held[r] /\ resp'[r] = resp[r]
        /\ onError'[r] = onError[r] /\ requests'[r] = requests[r]
    BY <1>8, <1>t, <1>w DEF prepareTools, loopVars, Set
  <2>a. withhold[r] \/ ~cfg.withTools => ~offered'[r]
    <3>1. PICK tools \in resolveTools(r) : offered' = Set(offered, r, tools)
      BY <1>8 DEF prepareTools
    <3> QED
      BY <1>w, <3>1 DEF Set, resolveTools
  <2>2. RoundsInv(r)'
    BY <1>r, <2>1 DEF RunInv, RunTypes, RoundsInv, Working, Ended
  <2>3. ExecutorsInv(r)'
    BY <1>r, <2>1 DEF RunInv, RunTypes, ExecutorsInv, RoundsInv, Working, Ended
  <2>4. ErrorsInv(r)'
    BY <1>r, <2>1 DEF RunInv, ErrorsInv, RoundsInv, Ended
  <2>5. ToolsInv(r)'
    BY <1>r, <2>1, <2>a DEF RunInv, RunTypes, ToolsInv, LastTurn
  <2> QED
    BY <2>2, <2>3, <2>4, <2>5 DEF RunInv
<1>9. CASE dropOldestUnit(r)
  <2>1. /\ phase[r] = "compact" /\ cfg' = cfg /\ phase'[r] = phase[r]
        /\ frame'[r] = frame[r] /\ round'[r] = round[r]
        /\ withhold'[r] = withhold[r] /\ offered'[r] = offered[r]
        /\ turns'[r] = turns[r] /\ active'[r] = active[r]
        /\ executed'[r] = executed[r] /\ held'[r] = held[r]
        /\ resp'[r] = resp[r] /\ onError'[r] = onError[r]
        /\ requests'[r] = requests[r]
    BY <1>9, <1>t, <1>w DEF dropOldestUnit, loopVars, Set
  <2>2. RoundsInv(r)'
    BY <1>r, <2>1 DEF RunInv, RunTypes, RoundsInv, Working, Ended
  <2>3. ExecutorsInv(r)'
    BY <1>r, <2>1 DEF RunInv, RunTypes, ExecutorsInv, RoundsInv, Working, Ended
  <2>4. ErrorsInv(r)'
    BY <1>r, <2>1 DEF RunInv, ErrorsInv, RoundsInv, Ended
  <2>5. ToolsInv(r)'
    BY <1>r, <2>1 DEF RunInv, RunTypes, ToolsInv, LastTurn
  <2> QED
    BY <2>2, <2>3, <2>4, <2>5 DEF RunInv
<1>10. CASE compactToBudget(r)
  <2>1. CASE phase' = Set(phase, r, "round") /\ UNCHANGED resp
    <3>1. /\ phase[r] = "compact" /\ phase'[r] = "round" /\ cfg' = cfg
          /\ frame'[r] = frame[r] /\ round'[r] = round[r] /\ offered'[r] = offered[r]
          /\ turns'[r] = turns[r] /\ active'[r] = active[r]
          /\ executed'[r] = executed[r] /\ held'[r] = held[r] /\ resp'[r] = resp[r]
          /\ onError'[r] = onError[r] /\ requests'[r] = requests[r]
      BY <1>10, <2>1, <1>t DEF compactToBudget, loopVars, Set
    <3>2. RoundsInv(r)'
      BY <1>r, <3>1 DEF RunInv, RunTypes, RoundsInv, Working, Ended
    <3>3. ExecutorsInv(r)'
      BY <1>r, <3>1 DEF RunInv, RunTypes, ExecutorsInv, Ended
    <3>4. ErrorsInv(r)' /\ ToolsInv(r)'
      BY <1>r, <3>1 DEF RunInv, ErrorsInv, ToolsInv
    <3> QED
      BY <3>2, <3>3, <3>4 DEF RunInv
  <2>2. CASE Answer(r, draft[r], 0, "prepare")
    <3>1. FailsWith(r, "prepare")
      BY <1>10, <2>2, <1>t DEF compactToBudget, loopVars, Answer, Set, FailsWith, Working
    <3> QED
      BY <1>r, <3>1, FailureKeeps
  <2> QED
    BY <1>10, <2>1, <2>2 DEF compactToBudget
<1>11. CASE prepareRound(r)
  <2>1. /\ phase[r] = "round" /\ cfg' = cfg /\ phase'[r] = "stream"
        /\ frame'[r] = frame[r] /\ round'[r] = round[r]
        /\ withhold'[r] = withhold[r] /\ offered'[r] = offered[r]
        /\ turns'[r] = turns[r] /\ active'[r] = active[r]
        /\ executed'[r] = executed[r] /\ held'[r] = held[r]
        /\ resp'[r] = resp[r] /\ onError'[r] = onError[r]
        /\ requests'[r] = requests[r] + 1
    BY <1>11, <1>t, <1>w DEF prepareRound, loopVars, Set
  <2>2. RoundsInv(r)'
    BY <1>r, <2>1 DEF RunInv, RunTypes, RoundsInv, Working, Ended
  <2>3. ExecutorsInv(r)'
    BY <1>r, <2>1 DEF RunInv, RunTypes, ExecutorsInv, RoundsInv, Working, Ended
  <2>4. ErrorsInv(r)'
    BY <1>r, <2>1 DEF RunInv, ErrorsInv, RoundsInv, Ended
  <2>5. ToolsInv(r)'
    BY <1>r, <2>1 DEF RunInv, RunTypes, ToolsInv, LastTurn
  <2> QED
    BY <2>2, <2>3, <2>4, <2>5 DEF RunInv
<1>12. ASSUME NEW turn \in Turns, recordAssistant(r, turn) PROVE RunInv(r)'
  <2>1. /\ phase[r] = "stream" /\ cfg' = cfg /\ phase'[r] = "recorded"
        /\ frame'[r] = frame[r] /\ round'[r] = round[r] + 1
        /\ withhold'[r] = withhold[r] /\ offered'[r] = offered[r]
        /\ turns'[r] = Append(turns[r], turn) /\ active'[r] = active[r]
        /\ executed'[r] = executed[r] /\ held'[r] = held[r]
        /\ resp'[r] = resp[r] /\ onError'[r] = onError[r]
        /\ requests'[r] = requests[r]
    BY <1>12, <1>t, <1>w DEF recordAssistant, loopVars, Set
  <2>a. /\ Len(turns'[r]) = Len(turns[r]) + 1
        /\ turns'[r][Len(turns'[r])] = turn
    BY <1>t, <2>1
  <2>b. turn # <<>> => offered[r] \/ ~cfg.honours
    BY <1>12 DEF recordAssistant, PossibleTurn
  <2>2. RoundsInv(r)'
    BY <1>r, <2>1, <2>a DEF RunInv, RunTypes, RoundsInv, Working, Ended
  <2>3. ExecutorsInv(r)'
    BY <1>r, <2>1 DEF RunInv, RunTypes, ExecutorsInv, RoundsInv, Working, Ended
  <2>4. ErrorsInv(r)'
    BY <1>r, <2>1 DEF RunInv, ErrorsInv, RoundsInv, Ended
  <2>5. ToolsInv(r)'
    BY <1>r, <2>1, <2>a, <2>b DEF RunInv, RunTypes, ToolsInv, LastTurn
  <2> QED
    BY <2>2, <2>3, <2>4, <2>5 DEF RunInv
<1>13. CASE continueWithQueued(r)
  <2>1. /\ phase[r] = "recorded" /\ round[r] < MaxRounds /\ cfg' = cfg
        /\ phase'[r] = "prepare" /\ frame'[r] = frame[r]
        /\ round'[r] = round[r]
        /\ withhold'[r] = shouldWithholdTools(round[r] + 1)
        /\ offered'[r] = offered[r] /\ turns'[r] = turns[r]
        /\ active'[r] = active[r] /\ executed'[r] = executed[r]
        /\ held'[r] = held[r] /\ resp'[r] = resp[r]
        /\ onError'[r] = onError[r] /\ requests'[r] = requests[r]
    BY <1>13, <1>t, <1>w DEF continueWithQueued, loopVars, Set, CanAccept
  <2>2. RoundsInv(r)'
    BY <1>r, <2>1 DEF RunInv, RunTypes, RoundsInv, Working, Ended
  <2>3. ExecutorsInv(r)'
    BY <1>r, <2>1 DEF RunInv, RunTypes, ExecutorsInv, RoundsInv, Working, Ended
  <2>4. ErrorsInv(r)'
    BY <1>r, <2>1 DEF RunInv, ErrorsInv, RoundsInv, Ended
  <2>5. ToolsInv(r)'
    BY <1>r, <2>1 DEF RunInv, RunTypes, ToolsInv, LastTurn, shouldWithholdTools
  <2> QED
    BY <2>2, <2>3, <2>4, <2>5 DEF RunInv
<1>14. CASE finish(r)
  <2>1. /\ phase[r] = "recorded" /\ resp'[r].err = "none"
        /\ resp'[r].executor = 0 /\ cfg' = cfg /\ phase'[r] = "return"
        /\ frame'[r] = frame[r] /\ round'[r] = round[r]
        /\ withhold'[r] = withhold[r] /\ offered'[r] = offered[r]
        /\ turns'[r] = turns[r] /\ active'[r] = active[r]
        /\ executed'[r] = executed[r] /\ held'[r] = held[r]
        /\ onError'[r] = onError[r] /\ requests'[r] = requests[r]
    BY <1>14, <1>t, <1>w DEF finish, loopVars, Answer, Set
  <2>2. RoundsInv(r)'
    BY <1>r, <2>1 DEF RunInv, RunTypes, RoundsInv, Working, Ended
  <2>3. ExecutorsInv(r)'
    BY <1>r, <2>1 DEF RunInv, RunTypes, ExecutorsInv, RoundsInv, Working, Ended
  <2>4. ErrorsInv(r)'
    BY <1>r, <2>1 DEF RunInv, ErrorsInv, RoundsInv, Ended
  <2>5. ToolsInv(r)'
    BY <1>r, <2>1 DEF RunInv, RunTypes, ToolsInv, LastTurn
  <2> QED
    BY <2>2, <2>3, <2>4, <2>5 DEF RunInv
<1>15. CASE attachToolExecutor(r)
  <2>1. /\ phase[r] = "recorded" /\ LastTurn(r) # <<>>
        /\ (round[r] >= MaxRounds => resp'[r].err = "maxRounds" /\ resp'[r].executor = 0)
        /\ (round[r] < MaxRounds => resp'[r].err = "none" /\ resp'[r].executor = round[r])
        /\ cfg' = cfg /\ phase'[r] = "return" /\ frame'[r] = frame[r]
        /\ round'[r] = round[r] /\ withhold'[r] = withhold[r]
        /\ offered'[r] = offered[r] /\ turns'[r] = turns[r]
        /\ active'[r] = active[r] /\ executed'[r] = executed[r]
        /\ held'[r] = held[r] /\ onError'[r] = onError[r]
        /\ requests'[r] = requests[r]
    BY <1>15, <1>t, <1>w, <1>r DEF attachToolExecutor, loopVars, Answer, Set, RunTypes
  <2>2. RoundsInv(r)'
    BY <1>r, <2>1 DEF RunInv, RunTypes, RoundsInv, Working, Ended
  <2>3. ExecutorsInv(r)'
    BY <1>r, <2>1 DEF RunInv, RunTypes, ExecutorsInv, RoundsInv, Working, Ended
  <2>4. ErrorsInv(r)'
    BY <1>r, <2>1 DEF RunInv, ErrorsInv, RoundsInv, Ended
  <2>5. ToolsInv(r)'
    BY <1>r, <2>1 DEF RunInv, RunTypes, ToolsInv, LastTurn
  <2> QED
    BY <2>2, <2>3, <2>4, <2>5 DEF RunInv
<1>16. ASSUME NEW roles \in InjectionBatches, executeTools(r, roles) PROVE RunInv(r)'
  <2> DEFINE transcript == recordToolOutcomes(messages[r], turns[r][active[r]], roles)
  <2>1. CASE phase' = Set(phase, r, "accept") /\ UNCHANGED resp
    <3>1. /\ phase[r] = "executing" /\ phase'[r] = "accept" /\ cfg' = cfg
          /\ frame'[r] = frame[r] /\ round'[r] = round[r] /\ turns'[r] = turns[r]
          /\ active'[r] = active[r] /\ executed'[r] = executed[r] /\ held'[r] = held[r]
          /\ resp'[r] = resp[r] /\ onError'[r] = onError[r] /\ requests'[r] = requests[r]
      BY <1>16, <2>1, <1>t DEF executeTools, loopVars, Set
    <3>2. RoundsInv(r)'
      BY <1>r, <3>1 DEF RunInv, RunTypes, RoundsInv, Working, Ended
    <3>3. ExecutorsInv(r)'
      BY <1>r, <3>1 DEF RunInv, RunTypes, ExecutorsInv, Ended
    <3>4. ErrorsInv(r)' /\ ToolsInv(r)'
      BY <1>r, <3>1 DEF RunInv, ErrorsInv, ToolsInv
    <3> QED
      BY <3>2, <3>3, <3>4 DEF RunInv
  <2>2. CASE Answer(r, transcript, 0, "tools")
    <3>1. FailsWith(r, "tools")
      BY <1>16, <2>2, <1>t DEF executeTools, loopVars, Answer, Set, FailsWith, Working
    <3> QED
      BY <1>r, <3>1, FailureKeeps
  <2> QED
    BY <1>16, <2>1, <2>2 DEF executeTools
<1>17. CASE nextRound(r)
  <2>1. /\ phase[r] = "accept" /\ cfg' = cfg /\ phase'[r] = "prepare"
        /\ frame'[r] = frame[r] /\ round'[r] = round[r]
        /\ withhold'[r] = shouldWithholdTools(round[r] + 1)
        /\ offered'[r] = offered[r] /\ turns'[r] = turns[r]
        /\ active'[r] = active[r] /\ executed'[r] = executed[r]
        /\ held'[r] = held[r] /\ resp'[r] = resp[r]
        /\ onError'[r] = onError[r] /\ requests'[r] = requests[r]
    BY <1>17, <1>t, <1>w DEF nextRound, loopVars, Set
  <2>2. RoundsInv(r)'
    BY <1>r, <2>1 DEF RunInv, RunTypes, RoundsInv, Working, Ended
  <2>3. ExecutorsInv(r)'
    BY <1>r, <2>1 DEF RunInv, RunTypes, ExecutorsInv, RoundsInv, Working, Ended
  <2>4. ErrorsInv(r)'
    BY <1>r, <2>1 DEF RunInv, ErrorsInv, RoundsInv, Ended
  <2>5. ToolsInv(r)'
    BY <1>r, <2>1 DEF RunInv, RunTypes, ToolsInv, LastTurn, shouldWithholdTools
  <2> QED
    BY <2>2, <2>3, <2>4, <2>5 DEF RunInv
<1>18. CASE runOneReturns(r)
  <2>1. /\ phase[r] = "return" /\ frame[r] = "run"
        /\ (resp[r].err = "none" => onError'[r] = onError[r])
        /\ (resp[r].err # "none" => onError'[r] = onError[r] + 1)
        /\ (resp[r].err = "none" /\ cfg.auto /\ cfg.withTools => phase'[r] = "loop" /\ held'[r] = held[r])
        /\ (~(resp[r].err = "none" /\ cfg.auto /\ cfg.withTools) => phase'[r] = "returned" /\ held'[r] = held[r] \cup ({resp[r].executor} \ {0}))
        /\ cfg' = cfg /\ frame'[r] = frame[r] /\ round'[r] = round[r]
        /\ withhold'[r] = withhold[r] /\ offered'[r] = offered[r]
        /\ turns'[r] = turns[r] /\ active'[r] = active[r]
        /\ executed'[r] = executed[r] /\ resp'[r] = resp[r]
        /\ requests'[r] = requests[r]
    BY <1>18, <1>t, <1>w DEF runOneReturns, deliver, fireError, Set
  <2>2. RoundsInv(r)'
    BY <1>r, <2>1 DEF RunInv, RunTypes, RoundsInv, Working, Ended
  <2>3. ExecutorsInv(r)'
    BY <1>r, <2>1 DEF RunInv, RunTypes, ExecutorsInv, RoundsInv, Working, Ended
  <2>4. ErrorsInv(r)'
    BY <1>r, <2>1 DEF RunInv, ErrorsInv, RoundsInv, Ended
  <2>5. ToolsInv(r)'
    BY <1>r, <2>1 DEF RunInv, RunTypes, ToolsInv, LastTurn
  <2> QED
    BY <2>2, <2>3, <2>4, <2>5 DEF RunInv
<1>19. CASE executorReturns(r)
  <2>1. /\ phase[r] = "return" /\ frame[r] \in {"loop", "exec"}
        /\ (resp[r].err = "none" => onError'[r] = onError[r])
        /\ (resp[r].err # "none" => onError'[r] = onError[r] + 1)
        /\ (frame[r] = "loop" => phase'[r] = "loop" /\ held'[r] = held[r])
        /\ (frame[r] # "loop" => phase'[r] = "returned" /\ held'[r] = held[r] \cup ({resp[r].executor} \ {0}))
        /\ cfg' = cfg /\ frame'[r] = frame[r] /\ round'[r] = round[r]
        /\ withhold'[r] = withhold[r] /\ offered'[r] = offered[r]
        /\ turns'[r] = turns[r] /\ active'[r] = active[r]
        /\ executed'[r] = executed[r] /\ resp'[r] = resp[r]
        /\ requests'[r] = requests[r]
    BY <1>19, <1>t, <1>w DEF executorReturns, deliver, fireError, Set
  <2>2. RoundsInv(r)'
    BY <1>r, <2>1 DEF RunInv, RunTypes, RoundsInv, Working, Ended
  <2>3. ExecutorsInv(r)'
    BY <1>r, <2>1 DEF RunInv, RunTypes, ExecutorsInv, RoundsInv, Working, Ended
  <2>4. ErrorsInv(r)'
    BY <1>r, <2>1 DEF RunInv, ErrorsInv, RoundsInv, Ended
  <2>5. ToolsInv(r)'
    BY <1>r, <2>1 DEF RunInv, RunTypes, ToolsInv, LastTurn
  <2> QED
    BY <2>2, <2>3, <2>4, <2>5 DEF RunInv
<1>20. CASE runLoopEnds(r)
  <2>1. /\ phase[r] = "loop" /\ (resp[r].err # "none" \/ resp[r].executor = 0)
        /\ cfg' = cfg /\ phase'[r] = "returned" /\ frame'[r] = frame[r]
        /\ round'[r] = round[r] /\ withhold'[r] = withhold[r]
        /\ offered'[r] = offered[r] /\ turns'[r] = turns[r]
        /\ active'[r] = active[r] /\ executed'[r] = executed[r]
        /\ held'[r] = held[r] \cup ({resp[r].executor} \ {0})
        /\ resp'[r] = resp[r] /\ onError'[r] = onError[r]
        /\ requests'[r] = requests[r]
    BY <1>20, <1>t, <1>w DEF runLoopEnds, deliver, Set
  <2>2. RoundsInv(r)'
    BY <1>r, <2>1 DEF RunInv, RunTypes, RoundsInv, Working, Ended
  <2>3. ExecutorsInv(r)'
    BY <1>r, <2>1 DEF RunInv, RunTypes, ExecutorsInv, RoundsInv, Working, Ended
  <2>4. ErrorsInv(r)'
    BY <1>r, <2>1 DEF RunInv, ErrorsInv, RoundsInv, Ended
  <2>5. ToolsInv(r)'
    BY <1>r, <2>1 DEF RunInv, RunTypes, ToolsInv, LastTurn
  <2> QED
    BY <2>2, <2>3, <2>4, <2>5 DEF RunInv
<1>21. CASE runLoop(r)
  <2>0. /\ resp[r].err = "none" /\ resp[r].executor = round[r]
        /\ round[r] < MaxRounds /\ round[r] \notin executed[r] /\ round[r] \in 1 .. MaxRounds
    BY <1>r, <1>21 DEF runLoop, RunInv, RunTypes, ExecutorsInv, Ended
  <2>1. /\ phase[r] = "loop" /\ cfg' = cfg /\ phase'[r] = "executing"
        /\ frame'[r] = "loop" /\ round'[r] = round[r]
        /\ withhold'[r] = withhold[r] /\ offered'[r] = offered[r]
        /\ turns'[r] = turns[r] /\ active'[r] = resp[r].executor
        /\ executed'[r] = executed[r] \cup {resp[r].executor}
        /\ held'[r] = held[r] /\ resp'[r] = resp[r]
        /\ onError'[r] = onError[r] /\ requests'[r] = requests[r]
    BY <1>21, <1>t, <1>w, <1>r, <2>0 DEF runLoop, claim, Answer, Set, RunTypes
  <2>2. RoundsInv(r)'
    BY <1>r, <2>1, <2>0 DEF RunInv, RunTypes, RoundsInv, Working, Ended
  <2>3. ExecutorsInv(r)'
    BY <1>r, <2>1, <2>0 DEF RunInv, RunTypes, ExecutorsInv, RoundsInv, Working, Ended
  <2>4. ErrorsInv(r)'
    BY <1>r, <2>1, <2>0 DEF RunInv, ErrorsInv, RoundsInv, Ended
  <2>5. ToolsInv(r)'
    BY <1>r, <2>1, <2>0 DEF RunInv, RunTypes, ToolsInv, LastTurn
  <2> QED
    BY <2>2, <2>3, <2>4, <2>5 DEF RunInv
<1>22. ASSUME NEW k \in 1 .. MaxRounds, ExecuteToolCalls(r, k) PROVE RunInv(r)'
  <2>0. /\ resp[r].err = "none" /\ k = resp[r].executor /\ k = round[r]
        /\ round[r] < MaxRounds /\ round[r] \notin executed[r] /\ ~(cfg.auto /\ cfg.withTools)
    BY <1>r, <1>22 DEF ExecuteToolCalls, claim, RunInv, RunTypes, RoundsInv, ExecutorsInv, Ended
  <2>1. /\ phase[r] = "returned" /\ cfg' = cfg /\ phase'[r] = "executing"
        /\ frame'[r] = "exec" /\ round'[r] = round[r]
        /\ withhold'[r] = withhold[r] /\ offered'[r] = offered[r]
        /\ turns'[r] = turns[r] /\ active'[r] = k
        /\ executed'[r] = executed[r] \cup {k} /\ held'[r] = held[r]
        /\ resp'[r] = resp[r] /\ onError'[r] = onError[r]
        /\ requests'[r] = requests[r]
    BY <1>22, <1>t, <1>w, <1>r, <2>0 DEF ExecuteToolCalls, claim, Answer, Set, RunTypes
  <2>2. RoundsInv(r)'
    BY <1>r, <2>1, <2>0 DEF RunInv, RunTypes, RoundsInv, Working, Ended
  <2>3. ExecutorsInv(r)'
    BY <1>r, <2>1, <2>0 DEF RunInv, RunTypes, ExecutorsInv, RoundsInv, Working, Ended
  <2>4. ErrorsInv(r)'
    BY <1>r, <2>1, <2>0 DEF RunInv, ErrorsInv, RoundsInv, Ended
  <2>5. ToolsInv(r)'
    BY <1>r, <2>1, <2>0 DEF RunInv, RunTypes, ToolsInv, LastTurn
  <2> QED
    BY <2>2, <2>3, <2>4, <2>5 DEF RunInv
<1> QED
  BY <1>1, <1>2, <1>3, <1>4, <1>5, <1>6, <1>7, <1>8, <1>9, <1>10, <1>11, <1>12, <1>13, <1>14, <1>15, <1>16, <1>17, <1>18, <1>19, <1>20, <1>21, <1>22 DEF Step

-----------------------------------------------------------------------------
\* The invariant is inductive: the acting run keeps its part, the others are
\* untouched.
LEMMA InvStep == Inv /\ [Next]_vars => Inv'
<1> SUFFICES ASSUME Inv, [Next]_vars PROVE Inv'
  OBVIOUS
<1>1. TypeOK'
  BY TypeStep
<1>2. ASSUME NEW q \in Runs PROVE RunInv(q)'
  <2>1. TypeOK /\ RunInv(q)
    BY DEF Inv
  <2>2. CASE UNCHANGED vars \/ \E tag \in UserTags : Enqueue(tag)
    <3>1. Untouched(q)
      BY <2>2 DEF vars, runVars, Enqueue, Untouched
    <3> QED
      BY <2>1, <3>1, UntouchedKeeps
  <2>3. ASSUME NEW r \in Runs,
               run(r) \/ Step(r) \/ \E k \in 1 .. MaxRounds : ExecuteToolCalls(r, k)
        PROVE  RunInv(q)'
    <3>1. CASE q = r
      BY <2>3, <3>1, ActorKeeps
    <3>2. CASE q # r
      BY <2>1, <2>3, <3>2, OthersUntouched, UntouchedKeeps
    <3> QED
      BY <3>1, <3>2
  <2> QED
    BY <2>2, <2>3 DEF Next
<1> QED
  BY <1>1, <1>2 DEF Inv

\* The inductive invariant holds throughout every behaviour.
LEMMA InvAlways == Spec => []Inv
  BY InvInit, InvStep, PTL DEF Spec

\* Every variable of the agent loop keeps its type, whatever the drivers, hooks,
\* tools and queue producers do.
THEOREM TypeCorrect == Spec => []TypeOK
<1>1. Inv => TypeOK
  BY DEF Inv
<1> QED
  BY <1>1, InvAlways, PTL

\* WithMaxRounds bounds the requests a run sends, for every cap and every
\* mixture of tool rounds, queued messages and failures (runOne,
\* attachToolExecutor).
THEOREM RoundsStayBounded == Spec => []RoundsBounded
<1>1. Inv => RoundsBounded
  BY DEF Inv, RunInv, RoundsInv, RoundsBounded
<1> QED
  BY <1>1, InvAlways, PTL

\* A failure reaches OnError exactly once, in manual and in automatic mode
\* (Request.run, Response.ExecuteToolCalls).
THEOREM ErrorsReportedOnce == Spec => []ErrorReportedOnce
<1>1. Inv => ErrorReportedOnce
  BY DEF Inv, RunInv, ErrorsInv, ErrorReportedOnce
<1> QED
  BY <1>1, InvAlways, PTL

\* An executor a caller holds is either the unused one of the latest response,
\* with a round left for it, or spent (attachToolExecutor).
THEOREM ExecutorsStayUsable == Spec => []ExecutorUsable
<1>1. Inv => ExecutorUsable
  <2> SUFFICES ASSUME Inv, NEW r \in Runs, phase[r] = "returned"
               PROVE  /\ resp[r].executor # 0 =>
                           /\ resp[r].err = "none"
                           /\ resp[r].executor \notin executed[r]
                           /\ round[r] < MaxRounds
                           /\ ~(cfg.auto /\ cfg.withTools)
                      /\ held[r] \ executed[r] \subseteq {resp[r].executor} \ {0}
    BY DEF ExecutorUsable
  <2>1. RoundsInv(r) /\ ExecutorsInv(r)
    BY DEF Inv, RunInv
  <2> QED
    BY <2>1 DEF RoundsInv, ExecutorsInv, Ended
<1> QED
  BY <1>1, InvAlways, PTL

\* With WithForceFinalAnswer a model that calls only tools it was offered never
\* meets ErrMaxRoundsExceeded (shouldWithholdTools, resolveTools).
THEOREM FinalAnswerIsForced == Spec => []FinalAnswerForced
<1>1. Inv => FinalAnswerForced
  BY DEF Inv, RunInv, ToolsInv, FinalAnswerForced
<1> QED
  BY <1>1, InvAlways, PTL

-----------------------------------------------------------------------------
(* What becomes of a transcript.  Everything below is about plain values:  *)
(* a configuration c, the turns tn a run has recorded, a transcript s.     *)

\* The caller's transcript is legal, or repair is on to make it so.
Starts(c) ==
  Tame(c.prompt) /\ RolesKnown(c.prompt) /\ (c.repair \/ Paired(c.prompt))

\* No call id repeats, the starting transcript included.
Fresh(c, tn) ==
  /\ AnsweredOnce(c.prompt)
  /\ \A i \in DOMAIN tn :
       /\ ToSet(tn[i]) \cap { c.prompt[k].callID : k \in DOMAIN c.prompt } = {}
       /\ \A j \in DOMAIN tn : i # j => ToSet(tn[i]) \cap ToSet(tn[j]) = {}

\* The ids answered in the starting transcript and asked for in the first n turns.
Asked(c, tn, n) == AllAnswered(c.prompt) \cup UNION { ToSet(tn[j]) : j \in 1 .. n }

\* No id is answered twice, and only ids of the set are.
Once(s, ids) == AnsweredOnce(s) /\ AllAnswered(s) \subseteq ids

\* A transcript of a run after n turns: well-formed, if not paired yet.
Grown(c, tn, s, n) ==
  Starts(c) => Loose(s) /\ (Fresh(c, tn) => Once(s, Asked(c, tn, n)))

\* A transcript of a run that a driver accepts.
Whole(c, s) == Starts(c) => Legal(s)

\* A transcript of a run that both drivers accept, as far as its ids allow.
Fit(c, tn, s) == Starts(c) => Legal(s) /\ (Fresh(c, tn) => AnsweredOnce(s))

\* What is well-formed and whole is fit.
LEMMA WholeFit ==
  ASSUME NEW c, NEW tn, NEW s, NEW n, Grown(c, tn, s, n), Whole(c, s)
  PROVE  Fit(c, tn, s)
  BY DEF Grown, Whole, Fit, Once

\* No legal transcript ends with calls.
LEMMA LegalClosed ==
  ASSUME NEW s, Legal(s)
  PROVE  WithoutLastCalls(s) = s
<1> DEFINE n == Len(s)
<1>1. s \in Seq(Message) /\ n \in Nat /\ DOMAIN s = 1 .. n
  BY DEF Legal
<1>2. CASE n = 0
  <2>1. n \notin DOMAIN s
    BY <1>1, <1>2
  <2>2. [s EXCEPT ![n].calls = <<>>] = s
    BY <1>1, <2>1
  <2> QED
    BY <2>2 DEF WithoutLastCalls
<1>3. CASE n # 0
  <2>1. n \in DOMAIN s /\ s[n] \in Message
    BY <1>1, <1>3
  <2>2. s[n].calls = <<>>
    <3>1. SUFFICES ASSUME HasCalls(s[n]) PROVE FALSE
      BY NoCalls
    <3>2. n + Len(s[n].calls) <= n
      BY <2>1, <3>1 DEF Legal, Paired, Answered
    <3>3. s[n].calls \in Seq(CallIDs) /\ s[n].calls # <<>>
      BY <2>1, <3>1 DEF Message, HasCalls
    <3> HIDE DEF n
    <3>4. n \in Nat /\ Len(s[n].calls) \in Nat /\ Len(s[n].calls) # 0
      BY <1>1, <3>3
    <3> QED
      BY <3>2, <3>4
  <2>3. [s[n] EXCEPT !.calls = <<>>] = s[n]
    BY <2>1, <2>2 DEF Message
  <2>4. [s EXCEPT ![n].calls = <<>>] = [s EXCEPT ![n] = [s[n] EXCEPT !.calls = <<>>]]
    OBVIOUS
  <2>5. [s EXCEPT ![n] = s[n]] = s
    BY <1>1, <2>1
  <2> QED
    BY <2>3, <2>4, <2>5 DEF WithoutLastCalls
<1> QED
  BY <1>2, <1>3

\* So a fit transcript has no last calls to leave aside.
LEMMA FitClosed ==
  ASSUME NEW c, NEW tn, NEW s, Fit(c, tn, s)
  PROVE  Fit(c, tn, WithoutLastCalls(s))
  BY LegalClosed DEF Fit

\* Messages that declare nothing and answer nothing.
Plain(t) ==
  /\ t \in Seq(Message)
  /\ \A k \in DOMAIN t : ~HasCalls(t[k]) /\ t[k].role \in {"system", "user", "assistant"}

\* They can go behind any transcript.
LEMMA PlainBehind ==
  ASSUME NEW c, NEW tn, NEW s \in Seq(Message), NEW n, NEW t, Plain(t)
  PROVE  /\ Grown(c, tn, s, n) => Grown(c, tn, s \o t, n)
         /\ Whole(c, s) => Whole(c, s \o t)
<1>1. Legal(t) /\ Loose(t) /\ AnsweredOnce(t) /\ AllAnswered(t) = {}
  BY PlainLegal DEF Plain
<1>2. Legal(s) => Legal(s \o t)
  BY <1>1, ConcatLegal
<1>3. Loose(s) => /\ Loose(s \o t)
                  /\ AllAnswered(s \o t) = AllAnswered(s)
                  /\ AnsweredOnce(s) => AnsweredOnce(s \o t)
  BY <1>1, ConcatLoose
<1> QED
  BY <1>2, <1>3 DEF Grown, Whole, Once

\* An answer without calls can go behind any transcript.
LEMMA AnswerBehind ==
  ASSUME NEW c, NEW tn, NEW s \in Seq(Message), NEW n
  PROVE  /\ Grown(c, tn, s, n) => Grown(c, tn, Append(s, AssistantMessage(<<>>)), n)
         /\ Whole(c, s) => Whole(c, Append(s, AssistantMessage(<<>>)))
<1> DEFINE t == <<AssistantMessage(<<>>)>>
<1>1. <<>> \in Seq(CallIDs)
  OBVIOUS
<1>2. AssistantMessage(<<>>) \in Message
  BY <1>1, AssistantMessageType
<1>3. AssistantMessage(<<>>).calls = <<>> /\ AssistantMessage(<<>>).role = "assistant"
  BY DEF AssistantMessage, PlainMessage
<1>4. t \in Seq(Message) /\ DOMAIN t = {1} /\ t[1] = AssistantMessage(<<>>)
  BY <1>2
<1>5. Append(s, AssistantMessage(<<>>)) = s \o t
  BY <1>2
<1> HIDE DEF t
<1>6. Plain(t)
  BY <1>3, <1>4 DEF Plain, HasCalls
<1> QED
  BY <1>5, <1>6, PlainBehind

\* Evicting the first unit that may go keeps what a transcript is.
LEMMA EvictionKeeps ==
  ASSUME NEW c, NEW tn, NEW s \in Seq(Message), NEW n,
         NEW d \in DOMAIN s, d = firstDroppableUnit(s)
  PROVE  /\ Grown(c, tn, s, n) => Grown(c, tn, DropUnit(s, d), n)
         /\ Whole(c, s) => Whole(c, DropUnit(s, d))
<1>1. DropUnit(s, d) \in Seq(Message)
  BY DropUnitType
<1>2. Thinned(DropUnit(s, d), s)
  BY EvictionThins
<1>3. /\ Loose(s) => Loose(DropUnit(s, d))
      /\ AnsweredOnce(s) => AnsweredOnce(DropUnit(s, d))
      /\ AllAnswered(DropUnit(s, d)) \subseteq AllAnswered(s)
  BY <1>1, <1>2, ThinnedKeeps
<1>4. Legal(s) => Legal(DropUnit(s, d))
  BY EvictionLegal
<1> QED
  BY <1>3, <1>4 DEF Grown, Whole, Once

\* Repair makes it whole.
LEMMA RepairMends ==
  ASSUME NEW c, NEW tn, NEW s \in Seq(Message), NEW n, Grown(c, tn, s, n)
  PROVE  /\ Grown(c, tn, repairTranscript(s), n)
         /\ Whole(c, repairTranscript(s))
<1>1. repairTranscript(s) \in Seq(Message)
  BY RepairType
<1>2. Loose(s) => Thinned(repairTranscript(s), s)
  BY RepairThins DEF Loose
<1>3. Loose(s) => /\ Loose(repairTranscript(s))
                  /\ AnsweredOnce(s) => AnsweredOnce(repairTranscript(s))
                  /\ AllAnswered(repairTranscript(s)) \subseteq AllAnswered(s)
  BY <1>1, <1>2, ThinnedKeeps
<1>4. Loose(s) => Legal(repairTranscript(s))
  BY RepairLegal
<1> QED
  BY <1>3, <1>4 DEF Grown, Whole, Once

\* A turn of distinct calls and its results can go behind a whole transcript.
LEMMA ExchangeBehind ==
  ASSUME NEW c, NEW tn \in Seq(Seq(CallIDs)), NEW s \in Seq(Message), NEW n \in 1 .. Len(tn),
         Grown(c, tn, s, n - 1), Whole(c, s), IsInjective(tn[n]),
         NEW results \in Seq(Message),
         results = [ k \in DOMAIN tn[n] |-> ToolMessage(tn[n][k]) ]
  PROVE  LET t == Append(s, AssistantMessage(tn[n])) \o results IN
         Grown(c, tn, t, n) /\ Whole(c, t)
<1> DEFINE calls == tn[n]
           m == AssistantMessage(calls)
           x == <<m>> \o results
           t == Append(s, m) \o results
<1>1. calls \in Seq(CallIDs)
  OBVIOUS
<1>2. m \in Message
  BY <1>1, AssistantMessageType
<1>3. <<m>> \in Seq(Message) /\ Len(<<m>>) = 1
  BY <1>2
<1>4. t = s \o x
  <2> HIDE DEF m
  <2>1. Append(s, m) = s \o <<m>>
    BY <1>2
  <2>2. (s \o <<m>>) \o results = s \o (<<m>> \o results)
    BY <1>3
  <2> QED
    BY <2>1, <2>2
<1>5. /\ x \in Seq(Message) /\ Len(x) = 1 + Len(calls) /\ x[1] = m
      /\ \A k \in 1 .. Len(calls) : x[1 + k] = ToolMessage(calls[k])
  <2>1. Len(results) = Len(calls) /\ \A k \in 1 .. Len(calls) : results[k] = ToolMessage(calls[k])
    BY <1>1
  <2>2. results \in Seq(Message) /\ Len(calls) \in Nat
    BY <1>1
  <2> HIDE DEF m, calls
  <2>3. <<m>>[1] = m
    OBVIOUS
  <2>4. /\ x \in Seq(Message) /\ Len(x) = 1 + Len(results)
        /\ x[1] = <<m>>[1]
        /\ \A k \in 2 .. 1 + Len(results) : x[k] = results[k - 1]
    BY <1>3, <2>2
  <2>5. \A k \in 1 .. Len(calls) : 1 + k \in 2 .. 1 + Len(calls) /\ (1 + k) - 1 = k
    BY <2>2
  <2> HIDE DEF x
  <2> QED
    BY <2>1, <2>3, <2>4, <2>5
<1>6. Legal(x) /\ Loose(x) /\ AnsweredOnce(x) /\ AllAnswered(x) = ToSet(calls)
  <2> HIDE DEF x
  <2> QED
    BY <1>1, <1>5, ExchangeLegal
<1> HIDE DEF x, t
<1>7. Legal(s) => Legal(t)
  BY <1>4, <1>6, ConcatLegal
<1>8. Loose(s) => /\ Loose(t)
                  /\ AllAnswered(t) = AllAnswered(s) \cup ToSet(calls)
                  /\ AnsweredOnce(s) /\ AllAnswered(s) \cap ToSet(calls) = {}
                       => AnsweredOnce(t)
  BY <1>4, <1>6, ConcatLoose
<1>9. ASSUME Fresh(c, tn) PROVE Asked(c, tn, n - 1) \cap ToSet(calls) = {}
  <2>0. n \in DOMAIN tn
    OBVIOUS
  <2>1. AllAnswered(c.prompt) \cap ToSet(calls) = {}
    BY <1>9, <2>0 DEF Fresh, AllAnswered
  <2>2. \A j \in 1 .. (n - 1) : ToSet(tn[j]) \cap ToSet(calls) = {}
    <3>1. \A j \in 1 .. (n - 1) : j \in DOMAIN tn /\ j # n
      OBVIOUS
    <3> QED
      BY <1>9, <2>0, <3>1 DEF Fresh
  <2> QED
    BY <2>1, <2>2 DEF Asked
<1>10. Asked(c, tn, n) = Asked(c, tn, n - 1) \cup ToSet(calls)
  <2>1. 1 .. n = (1 .. (n - 1)) \cup {n}
    OBVIOUS
  <2>2. \A id : id \in UNION { ToSet(tn[j]) : j \in 1 .. n }
                  <=> \E j \in 1 .. n : id \in ToSet(tn[j])
    OBVIOUS
  <2>3. \A id : id \in UNION { ToSet(tn[j]) : j \in 1 .. (n - 1) }
                  <=> \E j \in 1 .. (n - 1) : id \in ToSet(tn[j])
    OBVIOUS
  <2>4. \A id : (\E j \in 1 .. n : id \in ToSet(tn[j]))
                  <=> id \in ToSet(tn[n]) \/ \E j \in 1 .. (n - 1) : id \in ToSet(tn[j])
    BY <2>1, Zenon
  <2> QED
    BY <2>2, <2>3, <2>4 DEF Asked
<1>11. Grown(c, tn, t, n)
  BY <1>8, <1>9, <1>10 DEF Grown, Once
<1>12. Whole(c, t)
  BY <1>7 DEF Whole
<1> QED
  BY <1>11, <1>12 DEF t, m, calls

\* A turn more leaves the answered ids of the turns before it.
LEMMA TurnsGrow ==
  ASSUME NEW c, NEW tn \in Seq(Seq(CallIDs)), NEW turn \in Seq(CallIDs), NEW s,
         Grown(c, tn, s, Len(tn))
  PROVE  Grown(c, Append(tn, turn), s, Len(tn))
<1> DEFINE more == Append(tn, turn)
<1>1. /\ DOMAIN tn \subseteq DOMAIN more
      /\ \A j \in DOMAIN tn : more[j] = tn[j]
      /\ DOMAIN tn = 1 .. Len(tn)
  OBVIOUS
<1> HIDE DEF more
<1>2. Fresh(c, more) => Fresh(c, tn)
  BY <1>1 DEF Fresh
<1>3. Asked(c, more, Len(tn)) = Asked(c, tn, Len(tn))
  BY <1>1 DEF Asked
<1> QED
  BY <1>2, <1>3 DEF Grown, more

\* A drained batch declares and answers nothing.
LEMMA QueuedPlain ==
  ASSUME NEW tags \in Seq(UserTags)
  PROVE  Plain(Queued(tags))
<1>1. Queued(tags) \in Seq(Message)
  BY QueuedType
<1>2. \A k \in DOMAIN tags : /\ Queued(tags)[k] = QueuedMessage(tags[k])
                             /\ QueuedMessage(tags[k]).calls = <<>>
                             /\ QueuedMessage(tags[k]).role = "user"
  BY DEF Queued, QueuedMessage, UserMessage, PlainMessage
<1>3. DOMAIN Queued(tags) = DOMAIN tags
  BY DEF Queued
<1> QED
  BY <1>1, <1>2, <1>3 DEF Plain, HasCalls

\* Nor do the injections that are kept.
LEMMA InjectionsPlain ==
  ASSUME NEW roles \in Seq(Roles)
  PROVE  Plain(recordInjections(roles))
<1> DEFINE all == [ k \in DOMAIN roles |-> PlainMessage(roles[k], "injection") ]
           usable == { k \in DOMAIN roles : roles[k] \in {"user", "assistant", "system"} }
<1>1. recordInjections(roles) \in Seq(Message)
  BY InjectionsType
<1>2. \A k \in DOMAIN roles : PlainMessage(roles[k], "injection") \in Message
  BY PlainMessageType DEF Origins
<1>3. all \in Seq(Message) /\ DOMAIN all = DOMAIN roles
  BY <1>2
<1>4. usable \in SUBSET (DOMAIN all)
  BY <1>3
<1>5. \A x \in usable : /\ all[x].calls = <<>>
                        /\ all[x].role \in {"system", "user", "assistant"}
  BY DEF PlainMessage
<1>6. recordInjections(roles) = Pick(all, usable)
  BY DEF recordInjections
<1> HIDE DEF all, usable
<1>7. \A k \in DOMAIN Pick(all, usable) : \E x \in usable : Pick(all, usable)[k] = all[x]
  BY <1>3, <1>4, PickedFrom
<1> QED
  BY <1>1, <1>5, <1>6, <1>7 DEF Plain, HasCalls

\* Dropping the calls of a turn that stands last leaves its text.
LEMMA TurnDropped ==
  ASSUME NEW s \in Seq(Message), NEW turn \in Seq(CallIDs)
  PROVE  /\ dropUnansweredToolCalls(Append(s, AssistantMessage(turn)))
              = Append(s, AssistantMessage(<<>>))
         /\ WithoutLastCalls(Append(s, AssistantMessage(turn)))
              = Append(s, AssistantMessage(<<>>))
<1> DEFINE m == AssistantMessage(turn)
           z == AssistantMessage(<<>>)
           t == Append(s, m)
           n == Len(t)
<1>1. <<>> \in Seq(CallIDs)
  OBVIOUS
<1>2. m \in Message /\ z \in Message
  BY <1>1, AssistantMessageType
<1>3. m.role = "assistant" /\ [m EXCEPT !.calls = <<>>] = z
  BY DEF AssistantMessage, PlainMessage
<1> HIDE DEF m, z
<1>4. t \in Seq(Message) /\ n = Len(s) + 1 /\ n \in DOMAIN t /\ t[n] = m /\ t # <<>>
  BY <1>2
<1>5. Last(t) = m
  BY <1>4 DEF Last
<1>6. dropUnansweredToolCalls(t) = [t EXCEPT ![n].calls = <<>>]
  BY <1>3, <1>4, <1>5 DEF dropUnansweredToolCalls
<1>7. [t EXCEPT ![n].calls = <<>>] = [t EXCEPT ![n] = [t[n] EXCEPT !.calls = <<>>]]
  OBVIOUS
<1>8. [t EXCEPT ![n] = z] = Append(s, z)
  <2> DEFINE p == [t EXCEPT ![n] = z]
             q == Append(s, z)
  <2>1. q \in Seq(Message) /\ Len(q) = Len(s) + 1 /\ q[Len(s) + 1] = z
        /\ \A i \in 1 .. Len(s) : q[i] = s[i]
    BY <1>2
  <2>2. \A i \in 1 .. Len(s) : t[i] = s[i]
    BY <1>2
  <2> HIDE DEF q, t
  <2>3. p \in Seq(Message) /\ Len(p) = Len(s) + 1 /\ p[Len(s) + 1] = z
        /\ \A i \in 1 .. Len(s) : p[i] = s[i]
    BY <1>2, <1>4, <2>2
  <2> HIDE DEF p
  <2>4. \A i \in 1 .. Len(s) + 1 : p[i] = q[i]
    BY <2>1, <2>3
  <2>5. p = q
    BY <2>1, <2>3, <2>4
  <2> QED
    BY <2>5 DEF p, q
<1>9. WithoutLastCalls(t) = [t EXCEPT ![n].calls = <<>>]
  BY DEF WithoutLastCalls
<1> QED
  BY <1>3, <1>4, <1>6, <1>7, <1>8, <1>9 DEF m, z

-----------------------------------------------------------------------------
(* The transcript of a run.  While a request is being prepared it holds    *)
(* whole exchanges only, up to what repair has yet to mend in the caller's *)
(* own messages; once the model's turn is recorded, it is such a           *)
(* transcript with the turn behind it, and every way on from there either  *)
(* answers all the turn's calls or drops them.                             *)

Sendable == {"prepare", "compact", "round", "accept"}

\* The last turn's calls are waiting to be answered.
Waiting(r) ==
  \/ phase[r] \in {"recorded", "executing"}
  \/ phase[r] \in Ended /\ resp[r].executor # 0

\* A turn of distinct calls stands behind a whole transcript.
TurnLast(c, tn, s, n) ==
  /\ IsInjective(tn[n])
  /\ \E p \in Seq(Message) : /\ s = Append(p, AssistantMessage(tn[n]))
                             /\ Grown(c, tn, p, n - 1)
                             /\ Whole(c, p)

\* The last turn may be open.
Open(response) ==
  response.executor # 0 \/ response.err \in {"hook", "stream", "maxRounds"}

\* A response after n rounds: a final answer stands last, and the transcript is
\* fit, without its last calls where the last turn may be open.
Returned(c, tn, response, n) ==
  /\ response.err = "none" /\ response.executor = 0 =>
       \E p \in Seq(Message) : response.messages = Append(p, AssistantMessage(<<>>))
  /\ Open(response) => Fit(c, tn, WithoutLastCalls(response.messages))
  /\ ~Open(response) /\ (response.err = "prepare" /\ c.repair => n > 0) =>
       Fit(c, tn, response.messages)

TranscriptInv(r) ==
  /\ phase[r] \in Sendable \cup {"stream"} =>
       Grown(cfg, turns[r], messages[r], round[r])
  /\ phase[r] \in Sendable /\ (cfg.repair => round[r] > 0) => Whole(cfg, messages[r])
  /\ phase[r] = "stream" => Whole(cfg, messages[r])
  /\ phase[r] = "compact" => Grown(cfg, turns[r], draft[r], round[r])
  /\ phase[r] = "compact" /\ (cfg.repair => round[r] > 0) => Whole(cfg, draft[r])
  /\ Waiting(r) => TurnLast(cfg, turns[r], messages[r], round[r])
  /\ phase[r] = "executing" => active[r] = round[r]
  /\ phase[r] \in Ended => Returned(cfg, turns[r], resp[r], round[r])

\* What the data of one run is.
LEMMA DataTypes ==
  ASSUME Inv, NEW r \in Runs
  PROVE  /\ messages[r] \in Seq(Message) /\ draft[r] \in Seq(Message)
         /\ turns[r] \in Seq(Seq(CallIDs)) /\ Len(turns[r]) = round[r]
         /\ round[r] \in Nat /\ queue \in Seq(UserTags)
         /\ cfg \in Configs /\ cfg.prompt \in Seq(Message)
  BY ConfigType, EngineAssumption DEF Inv, RunInv, RoundsInv, TypeOK

\* The caller's transcript is where a run starts.
LEMMA PromptGrown ==
  ASSUME NEW c \in Configs, NEW tn, NEW n
  PROVE  /\ Grown(c, tn, c.prompt, n)
         /\ ~c.repair => Whole(c, c.prompt)
<1>1. c.prompt \in Seq(Message)
  BY EngineAssumption
<1>2. Fresh(c, tn) => AnsweredOnce(c.prompt)
  BY DEF Fresh
<1>3. AllAnswered(c.prompt) \subseteq Asked(c, tn, n)
  BY DEF Asked
<1> QED
  BY <1>1, <1>2, <1>3 DEF Grown, Whole, Starts, Loose, Legal, Once

\* A drained batch goes behind a transcript and changes nothing about it.
LEMMA AcceptKeeps ==
  ASSUME Inv, NEW r \in Runs, NEW s \in Seq(Message), acceptQueuedUserMessages(r, s),
         NEW c, NEW tn, NEW n
  PROVE  /\ Grown(c, tn, s, n) => Grown(c, tn, messages'[r], n)
         /\ Whole(c, s) => Whole(c, messages'[r])
<1>1. queue \in Seq(UserTags) /\ messages \in [Runs -> Seq(Message)]
  BY DEF Inv, TypeOK
<1>2. Plain(Queued(queue))
  BY <1>1, QueuedPlain
<1>3. messages'[r] = s \o Queued(queue) \/ messages'[r] = s
  BY <1>1 DEF acceptQueuedUserMessages, Set
<1> QED
  BY <1>2, <1>3, PlainBehind

\* A final answer, once recorded, is whole with the answer last.
LEMMA AnswerWholeBehind ==
  ASSUME NEW c, NEW tn \in Seq(Seq(CallIDs)), NEW s, NEW n \in 1 .. Len(tn),
         TurnLast(c, tn, s, n), tn[n] = <<>>
  PROVE  /\ \E p \in Seq(Message) : s = Append(p, AssistantMessage(<<>>))
         /\ Whole(c, s)
         /\ Grown(c, tn, s, n)
<1>1. PICK p \in Seq(Message) : /\ s = Append(p, AssistantMessage(tn[n]))
                                /\ Grown(c, tn, p, n - 1)
                                /\ Whole(c, p)
  BY DEF TurnLast
<1>2. Whole(c, s)
  BY <1>1, AnswerBehind
<1> DEFINE results == [ k \in DOMAIN tn[n] |-> ToolMessage(tn[n][k]) ]
<1>3. results = <<>> /\ results \in Seq(Message)
  OBVIOUS
<1>4. IsInjective(tn[n])
  BY DEF TurnLast
<1> HIDE DEF results
<1>5. Grown(c, tn, Append(p, AssistantMessage(tn[n])) \o results, n)
  BY <1>1, <1>3, <1>4, ExchangeBehind DEF results
<1>6. AssistantMessage(tn[n]) \in Message
  BY AssistantMessageType
<1>7. s \in Seq(Message)
  BY <1>1, <1>6
<1>8. s \o results = s
  BY <1>3, <1>7
<1> QED
  BY <1>1, <1>2, <1>5, <1>8

\* A round whose calls all have their results is whole again.
LEMMA OutcomesWhole ==
  ASSUME NEW c, NEW tn \in Seq(Seq(CallIDs)), NEW s, NEW n \in 1 .. Len(tn),
         TurnLast(c, tn, s, n), NEW roles \in Seq(Roles)
  PROVE  /\ Whole(c, recordToolOutcomes(s, tn[n], roles))
         /\ Grown(c, tn, recordToolOutcomes(s, tn[n], roles), n)
<1>1. PICK p \in Seq(Message) : /\ s = Append(p, AssistantMessage(tn[n]))
                                /\ Grown(c, tn, p, n - 1)
                                /\ Whole(c, p)
  BY DEF TurnLast
<1> DEFINE results == [ k \in DOMAIN tn[n] |-> ToolMessage(tn[n][k]) ]
           t == Append(p, AssistantMessage(tn[n])) \o results
<1>2. results \in Seq(Message)
  <2>1. tn[n] \in Seq(CallIDs)
    OBVIOUS
  <2>2. \A k \in DOMAIN tn[n] : ToolMessage(tn[n][k]) \in Message
    BY <2>1, ToolMessageType
  <2> QED
    BY <2>1, <2>2
<1>3. IsInjective(tn[n])
  BY DEF TurnLast
<1>4. Grown(c, tn, t, n) /\ Whole(c, t)
  <2>1. results = [ k \in DOMAIN tn[n] |-> ToolMessage(tn[n][k]) ]
    OBVIOUS
  <2> HIDE DEF results
  <2> QED
    BY <1>1, <1>2, <1>3, <2>1, ExchangeBehind
<1>5. t \in Seq(Message)
  <2>1. AssistantMessage(tn[n]) \in Message
    BY AssistantMessageType
  <2> HIDE DEF results
  <2> QED
    BY <1>2, <2>1
<1>6. recordToolOutcomes(s, tn[n], roles) = t \o recordInjections(roles)
  BY <1>1 DEF recordToolOutcomes
<1> HIDE DEF t
<1> QED
  BY <1>4, <1>5, <1>6, PlainBehind, InjectionsPlain

\* Without its last calls, a whole transcript with any turn behind it is fit.
LEMMA OpenFit ==
  ASSUME NEW c, NEW tn, NEW p \in Seq(Message), NEW n, NEW turn \in Seq(CallIDs),
         Grown(c, tn, p, n), Whole(c, p)
  PROVE  /\ Fit(c, tn, WithoutLastCalls(Append(p, AssistantMessage(turn))))
         /\ Fit(c, tn, dropUnansweredToolCalls(Append(p, AssistantMessage(turn))))
<1> DEFINE t == Append(p, AssistantMessage(<<>>))
<1>1. Grown(c, tn, t, n) /\ Whole(c, t)
  BY AnswerBehind
<1>2. Fit(c, tn, t)
  BY <1>1, WholeFit
<1> QED
  BY <1>2, TurnDropped

\* So is a recorded turn whose calls nothing answers.
LEMMA TurnLastFit ==
  ASSUME NEW c, NEW tn \in Seq(Seq(CallIDs)), NEW s, NEW n \in 1 .. Len(tn),
         TurnLast(c, tn, s, n)
  PROVE  Fit(c, tn, WithoutLastCalls(s)) /\ Fit(c, tn, dropUnansweredToolCalls(s))
<1>1. PICK p \in Seq(Message) : /\ s = Append(p, AssistantMessage(tn[n]))
                                /\ Grown(c, tn, p, n - 1)
                                /\ Whole(c, p)
  BY DEF TurnLast
<1>2. tn[n] \in Seq(CallIDs)
  OBVIOUS
<1> QED
  BY <1>1, <1>2, OpenFit

-----------------------------------------------------------------------------
(* Every step keeps the invariant of every transcript. *)

\* A step leaves the transcript and the draft of run q alone.
SameData(q) == messages'[q] = messages[q] /\ draft'[q] = draft[q]

\* A run none of whose variables change keeps its transcript's invariant.
LEMMA UntouchedKeepsTranscript ==
  ASSUME NEW q \in Runs, TranscriptInv(q), Untouched(q), SameData(q)
  PROVE  TranscriptInv(q)'
  BY DEF TranscriptInv, Untouched, SameData, Waiting

\* A step of one run leaves every other run's transcript alone.
LEMMA OthersSameData ==
  ASSUME TypeOK, NEW r \in Runs, NEW q \in Runs \ {r},
         run(r) \/ Step(r) \/ \E k \in 1 .. MaxRounds : ExecuteToolCalls(r, k)
  PROVE  SameData(q)
<1> USE DEF SameData, Set
<1>t. messages \in [Runs -> Seq(Message)] /\ draft \in [Runs -> Seq(Message)]
  BY DEF TypeOK
<1>1. CASE run(r)
  BY <1>1, <1>t DEF run, acceptQueuedUserMessages
<1>2. CASE prepareTools(r)
  BY <1>2, <1>t DEF prepareTools
<1>3. CASE prepareToolsFails(r)
  BY <1>3, <1>t DEF prepareToolsFails
<1>4. CASE dropOldestUnit(r)
  BY <1>4, <1>t DEF dropOldestUnit
<1>5. CASE compactToBudget(r)
  BY <1>5, <1>t DEF compactToBudget
<1>6. CASE compactToBudgetFails(r)
  BY <1>6, <1>t DEF compactToBudgetFails
<1>7. CASE prepareRound(r)
  BY <1>7, <1>t DEF prepareRound
<1>8. CASE prepareRoundFails(r)
  BY <1>8, <1>t DEF prepareRoundFails
<1>9. ASSUME NEW turn \in Turns, recordAssistant(r, turn) PROVE SameData(q)
  BY <1>9, <1>t DEF recordAssistant
<1>10. ASSUME NEW turn \in Turns, streamAssistantFails(r, turn) PROVE SameData(q)
  BY <1>10, <1>t DEF streamAssistantFails
<1>11. CASE recordAssistantFails(r)
  BY <1>11, <1>t DEF recordAssistantFails
<1>12. CASE continueWithQueued(r)
  BY <1>12, <1>t DEF continueWithQueued, acceptQueuedUserMessages
<1>13. CASE finish(r)
  BY <1>13, <1>t DEF finish
<1>14. CASE attachToolExecutor(r)
  BY <1>14, <1>t DEF attachToolExecutor
<1>15. CASE runToolCallsFails(r)
  BY <1>15, <1>t DEF runToolCallsFails
<1>16. ASSUME NEW roles \in InjectionBatches, executeTools(r, roles) PROVE SameData(q)
  BY <1>16, <1>t DEF executeTools
<1>17. CASE nextRound(r)
  BY <1>17, <1>t DEF nextRound, acceptQueuedUserMessages
<1>18. CASE runOneReturns(r)
  BY <1>18, <1>t DEF runOneReturns
<1>19. CASE executorReturns(r)
  BY <1>19, <1>t DEF executorReturns
<1>20. CASE runLoop(r)
  BY <1>20, <1>t DEF runLoop
<1>21. CASE runLoopEnds(r)
  BY <1>21, <1>t DEF runLoopEnds
<1>22. ASSUME NEW k \in 1 .. MaxRounds, ExecuteToolCalls(r, k) PROVE SameData(q)
  BY <1>22, <1>t DEF ExecuteToolCalls
<1> QED
  BY <1>1, <1>2, <1>3, <1>4, <1>5, <1>6, <1>7, <1>8, <1>9, <1>10, <1>11, <1>12, <1>13, <1>14, <1>15, <1>16, <1>17, <1>18, <1>19, <1>20, <1>21, <1>22 DEF Step

\* No transcript exists before a run starts.
LEMMA TranscriptInit ==
  ASSUME Init, NEW r \in Runs
  PROVE  TranscriptInv(r)
  BY DEF Init, TranscriptInv, Waiting, Sendable, Ended

\* What goes to the driver is whole.
LEMMA RoundTranscriptWhole ==
  ASSUME NEW r \in Runs, TranscriptInv(r), phase[r] = "round", messages[r] \in Seq(Message)
  PROVE  /\ Grown(cfg, turns[r], roundTranscript(r), round[r])
         /\ Whole(cfg, roundTranscript(r))
<1>1. Grown(cfg, turns[r], messages[r], round[r])
  BY DEF TranscriptInv, Sendable
<1>2. CASE cfg.repair
  <2>1. roundTranscript(r) = repairTranscript(messages[r])
    BY <1>2 DEF roundTranscript
  <2> QED
    BY <1>1, <2>1, RepairMends
<1>3. CASE ~cfg.repair
  BY <1>3 DEF roundTranscript, TranscriptInv, Sendable
<1> QED
  BY <1>2, <1>3

\* A turn just recorded stands behind a whole transcript.
LEMMA RecordedFit ==
  ASSUME Inv, NEW r \in Runs, TranscriptInv(r), phase[r] = "recorded"
  PROVE  Fit(cfg, turns[r], WithoutLastCalls(messages[r]))
<1>1. RunInv(r) /\ turns[r] \in Seq(Seq(CallIDs)) /\ Len(turns[r]) = round[r]
  BY DataTypes DEF Inv
<1>2. round[r] \in 1 .. Len(turns[r])
  BY <1>1, DataTypes DEF RunInv, RoundsInv
<1>3. TurnLast(cfg, turns[r], messages[r], round[r])
  BY DEF TranscriptInv, Waiting
<1> QED
  BY <1>1, <1>2, <1>3, TurnLastFit

\* A step that returns a response whose last turn may be open.
ReturnsOpenEnded(r) ==
  /\ phase'[r] = "return"
  /\ resp'[r].executor = 0 /\ resp'[r].err \in {"hook", "stream", "maxRounds"}
  /\ Fit(cfg', turns'[r], WithoutLastCalls(resp'[r].messages))

\* It keeps the invariant of its run.
LEMMA OpenEndedKeeps ==
  ASSUME NEW r \in Runs, ReturnsOpenEnded(r)
  PROVE  TranscriptInv(r)'
  BY DEF ReturnsOpenEnded, TranscriptInv, Waiting, Sendable, Ended, Returned, Open

\* A step of a run keeps its transcript's invariant.
LEMMA ActorKeepsTranscript ==
  ASSUME Inv, NEW r \in Runs, TranscriptInv(r),
         run(r) \/ Step(r) \/ \E k \in 1 .. MaxRounds : ExecuteToolCalls(r, k)
  PROVE  TranscriptInv(r)'
<1>t. /\ phase \in [Runs -> Phases] /\ resp \in [Runs -> Response]
      /\ messages \in [Runs -> Seq(Message)] /\ draft \in [Runs -> Seq(Message)]
      /\ round \in [Runs -> 0 .. MaxRounds] /\ turns \in [Runs -> Seq(Seq(CallIDs))]
      /\ active \in [Runs -> 0 .. MaxRounds] /\ frame \in [Runs -> Frames]
  BY DEF Inv, TypeOK
<1>d. /\ messages[r] \in Seq(Message) /\ draft[r] \in Seq(Message)
      /\ turns[r] \in Seq(Seq(CallIDs)) /\ Len(turns[r]) = round[r]
      /\ round[r] \in Nat /\ queue \in Seq(UserTags)
      /\ cfg \in Configs /\ cfg.prompt \in Seq(Message)
  BY DataTypes
<1>r. RunInv(r) /\ RunTypes(r)
  BY TypesOfRun DEF Inv
<1>1. CASE run(r)
  <2>1. /\ cfg' = cfg /\ turns'[r] = turns[r] /\ round'[r] = round[r]
        /\ phase[r] = "idle" /\ phase'[r] = "prepare"
        /\ resp'[r] = resp[r] /\ draft'[r] = draft[r]
    BY <1>1, <1>t DEF run, Set
  <2>2. /\ Grown(cfg, turns[r], cfg.prompt, round[r])
        /\ ~cfg.repair => Whole(cfg, cfg.prompt)
    BY <1>d, PromptGrown
  <2>3. round[r] = 0
    BY <1>r, <2>1 DEF RunInv, RoundsInv
  <2>4. /\ Grown(cfg, turns[r], messages'[r], round[r])
        /\ ~cfg.repair => Whole(cfg, messages'[r])
    <3>1. CASE cfg.auto
      BY <1>1, <1>d, <2>2, <3>1, AcceptKeeps DEF run
    <3>2. CASE ~cfg.auto
      BY <1>1, <1>t, <2>2, <3>2 DEF run, Set
    <3> QED
      BY <3>1, <3>2
  <2> QED
    BY <2>1, <2>3, <2>4 DEF TranscriptInv, Waiting, Sendable, Ended
<1>2. CASE prepareTools(r)
  <2>1. /\ cfg' = cfg /\ turns'[r] = turns[r] /\ round'[r] = round[r]
        /\ phase[r] = "prepare" /\ messages'[r] = messages[r] /\ resp'[r] = resp[r]
        /\ \/ phase'[r] = "round"
           \/ phase'[r] = "compact" /\ draft'[r] = messages[r]
    BY <1>2, <1>t DEF prepareTools, loopVars, Set
  <2> QED
    BY <2>1 DEF TranscriptInv, Waiting, Sendable, Ended
<1>3. CASE prepareToolsFails(r)
  <2>1. /\ cfg' = cfg /\ turns'[r] = turns[r] /\ round'[r] = round[r]
        /\ phase'[r] = "return" /\ resp'[r].executor = 0 /\ resp'[r].err = "prepare"
        /\ phase[r] = "prepare" /\ resp'[r].messages = messages[r]
    BY <1>3, <1>t DEF prepareToolsFails, loopVars, Answer, Set
  <2>2. (cfg.repair => round[r] > 0) => Fit(cfg, turns[r], messages[r])
    <3>1. /\ Grown(cfg, turns[r], messages[r], round[r])
          /\ (cfg.repair => round[r] > 0) => Whole(cfg, messages[r])
      BY <2>1 DEF TranscriptInv, Sendable
    <3> QED
      BY <3>1, WholeFit
  <2> QED
    BY <2>1, <2>2 DEF TranscriptInv, Waiting, Sendable, Ended, Returned, Open
<1>4. CASE compactToBudgetFails(r)
  <2>1. /\ cfg' = cfg /\ turns'[r] = turns[r] /\ round'[r] = round[r]
        /\ phase'[r] = "return" /\ resp'[r].executor = 0 /\ resp'[r].err = "prepare"
        /\ phase[r] = "compact" /\ resp'[r].messages = messages[r]
    BY <1>4, <1>t DEF compactToBudgetFails, loopVars, Answer, Set
  <2>2. (cfg.repair => round[r] > 0) => Fit(cfg, turns[r], messages[r])
    <3>1. /\ Grown(cfg, turns[r], messages[r], round[r])
          /\ (cfg.repair => round[r] > 0) => Whole(cfg, messages[r])
      BY <2>1 DEF TranscriptInv, Sendable
    <3> QED
      BY <3>1, WholeFit
  <2> QED
    BY <2>1, <2>2 DEF TranscriptInv, Waiting, Sendable, Ended, Returned, Open
<1>5. CASE dropOldestUnit(r)
  <2>0. PICK i \in {firstDroppableUnit(draft[r])} \ {0} :
               draft' = Set(draft, r, DropUnit(draft[r], i))
    BY <1>5 DEF dropOldestUnit
  <2>1. /\ cfg' = cfg /\ turns'[r] = turns[r] /\ round'[r] = round[r]
        /\ phase[r] = "compact" /\ phase'[r] = "compact"
        /\ messages'[r] = messages[r] /\ resp'[r] = resp[r]
    BY <1>5, <1>t DEF dropOldestUnit, loopVars, Set
  <2>2. draft'[r] = DropUnit(draft[r], i)
    BY <1>t, <2>0 DEF Set
  <2>3. i \in DOMAIN draft[r] /\ i = firstDroppableUnit(draft[r])
    BY <1>d, <2>0, FirstDroppableRange
  <2>4. /\ Grown(cfg, turns[r], draft[r], round[r]) =>
             Grown(cfg, turns[r], draft'[r], round[r])
        /\ Whole(cfg, draft[r]) => Whole(cfg, draft'[r])
    BY <1>d, <2>2, <2>3, EvictionKeeps
  <2> QED
    BY <2>1, <2>4 DEF TranscriptInv, Waiting, Sendable, Ended
<1>6. CASE compactToBudget(r)
  <2>1. /\ cfg' = cfg /\ turns'[r] = turns[r] /\ round'[r] = round[r]
        /\ phase[r] = "compact" /\ messages'[r] = draft[r]
        /\ \/ phase'[r] = "round" /\ resp'[r] = resp[r]
           \/ /\ phase'[r] = "return" /\ resp'[r].messages = draft[r]
              /\ resp'[r].executor = 0 /\ resp'[r].err = "prepare"
    BY <1>6, <1>t DEF compactToBudget, loopVars, Answer, Set
  <2>2. CASE phase'[r] = "round"
    BY <2>1, <2>2 DEF TranscriptInv, Waiting, Sendable, Ended
  <2>3. CASE phase'[r] = "return"
    <3>1. /\ Grown(cfg, turns[r], draft[r], round[r])
          /\ (cfg.repair => round[r] > 0) => Whole(cfg, draft[r])
      BY <2>1 DEF TranscriptInv
    <3>2. (cfg.repair => round[r] > 0) => Fit(cfg, turns[r], draft[r])
      BY <3>1, WholeFit
    <3> QED
      BY <2>1, <2>3, <3>2 DEF TranscriptInv, Waiting, Sendable, Ended, Returned, Open
  <2> QED
    BY <2>1, <2>2, <2>3
<1>7. CASE prepareRound(r)
  <2>1. /\ cfg' = cfg /\ turns'[r] = turns[r] /\ round'[r] = round[r]
        /\ phase[r] = "round" /\ phase'[r] = "stream" /\ resp'[r] = resp[r]
        /\ messages'[r] = roundTranscript(r)
    BY <1>7, <1>t DEF prepareRound, loopVars, Set
  <2>2. Grown(cfg, turns[r], messages'[r], round[r]) /\ Whole(cfg, messages'[r])
    BY <1>d, <2>1, RoundTranscriptWhole
  <2> QED
    BY <2>1, <2>2 DEF TranscriptInv, Waiting, Sendable, Ended
<1>8. CASE prepareRoundFails(r)
  <2>1. /\ cfg' = cfg /\ turns'[r] = turns[r] /\ phase[r] = "round"
        /\ phase'[r] = "return" /\ resp'[r].messages = roundTranscript(r)
        /\ resp'[r].executor = 0 /\ resp'[r].err = "hook"
    BY <1>8, <1>t DEF prepareRoundFails, loopVars, Answer, Set
  <2>2. Fit(cfg, turns[r], WithoutLastCalls(roundTranscript(r)))
    BY <1>d, <2>1, RoundTranscriptWhole, WholeFit, FitClosed
  <2>3. ReturnsOpenEnded(r)
    BY <2>1, <2>2 DEF ReturnsOpenEnded
  <2> QED
    BY <2>3, OpenEndedKeeps
<1>9. ASSUME NEW turn \in Turns, streamAssistantFails(r, turn)
      PROVE  TranscriptInv(r)'
  <2>1. /\ cfg' = cfg /\ turns'[r] = turns[r] /\ phase[r] = "stream"
        /\ phase'[r] = "return"
        /\ \/ resp'[r].messages = messages[r]
           \/ resp'[r].messages = Append(messages[r], AssistantMessage(turn))
        /\ resp'[r].executor = 0 /\ resp'[r].err = "stream"
    BY <1>9, <1>t DEF streamAssistantFails, loopVars, Answer, Set
  <2>2. Grown(cfg, turns[r], messages[r], round[r]) /\ Whole(cfg, messages[r])
    BY <2>1 DEF TranscriptInv
  <2>3. turn \in Seq(CallIDs)
    BY EngineAssumption
  <2>4. Fit(cfg, turns[r], WithoutLastCalls(messages[r]))
    BY <2>2, WholeFit, FitClosed
  <2>5. Fit(cfg, turns[r], WithoutLastCalls(Append(messages[r], AssistantMessage(turn))))
    BY <1>d, <2>2, <2>3, OpenFit
  <2>6. ReturnsOpenEnded(r)
    BY <2>1, <2>4, <2>5 DEF ReturnsOpenEnded
  <2> QED
    BY <2>6, OpenEndedKeeps
<1>10. ASSUME NEW turn \in Turns, recordAssistant(r, turn) PROVE TranscriptInv(r)'
  <2>1. /\ cfg' = cfg /\ round'[r] = round[r] + 1 /\ resp'[r] = resp[r]
        /\ phase[r] = "stream" /\ phase'[r] = "recorded"
        /\ turns'[r] = Append(turns[r], turn)
        /\ messages'[r] = Append(messages[r], AssistantMessage(turn))
    <3>1. round'[r] = round[r] + 1
      BY <1>10, <1>t DEF recordAssistant, Set
    <3> QED
      BY <1>10, <1>t, <3>1 DEF recordAssistant, loopVars, Set
  <2>2. turn \in Seq(CallIDs) /\ IsInjective(turn)
    BY EngineAssumption
  <2>3. turns'[r][round'[r]] = turn
    BY <1>d, <2>1, <2>2
  <2>4. Grown(cfg, turns'[r], messages[r], round[r]) /\ Whole(cfg, messages[r])
    <3>1. Grown(cfg, turns[r], messages[r], Len(turns[r])) /\ Whole(cfg, messages[r])
      BY <1>d, <2>1 DEF TranscriptInv
    <3> QED
      BY <1>d, <2>1, <2>2, <3>1, TurnsGrow
  <2>5. TurnLast(cfg, turns'[r], messages'[r], round'[r])
    <3>1. round'[r] - 1 = round[r]
      BY <1>d, <2>1
    <3> QED
      BY <1>d, <2>1, <2>2, <2>3, <2>4, <3>1 DEF TurnLast
  <2> QED
    BY <2>1, <2>5 DEF TranscriptInv, Waiting, Sendable, Ended
<1>11. CASE recordAssistantFails(r)
  <2>1. /\ cfg' = cfg /\ turns'[r] = turns[r] /\ phase[r] = "recorded"
        /\ phase'[r] = "return" /\ resp'[r].messages = messages[r]
        /\ resp'[r].executor = 0 /\ resp'[r].err = "hook"
    BY <1>11, <1>t DEF recordAssistantFails, loopVars, Answer, Set
  <2>2. Fit(cfg, turns[r], WithoutLastCalls(messages[r]))
    BY <1>d, <2>1, RecordedFit
  <2>3. ReturnsOpenEnded(r)
    BY <2>1, <2>2 DEF ReturnsOpenEnded
  <2> QED
    BY <2>3, OpenEndedKeeps
<1>12. CASE continueWithQueued(r)
  <2>1. /\ cfg' = cfg /\ turns'[r] = turns[r] /\ round'[r] = round[r]
        /\ phase[r] = "recorded" /\ phase'[r] = "prepare" /\ resp'[r] = resp[r]
    BY <1>12, <1>t DEF continueWithQueued, loopVars, Set
  <2>2. round[r] \in 1 .. Len(turns[r]) /\ turns[r][round[r]] = <<>>
    BY <1>12, <1>r, <1>d, <2>1 DEF continueWithQueued, LastTurn, RunInv, RoundsInv
  <2>3. /\ \E p \in Seq(Message) : messages[r] = Append(p, AssistantMessage(<<>>))
        /\ Whole(cfg, messages[r])
        /\ Grown(cfg, turns[r], messages[r], round[r])
    BY <1>d, <2>1, <2>2, AnswerWholeBehind DEF TranscriptInv, Waiting
  <2>4. Whole(cfg, messages'[r]) /\ Grown(cfg, turns[r], messages'[r], round[r])
    BY <1>12, <1>d, <2>3, AcceptKeeps DEF continueWithQueued
  <2> QED
    BY <2>1, <2>4 DEF TranscriptInv, Waiting, Sendable, Ended
<1>13. CASE finish(r)
  <2>1. /\ cfg' = cfg /\ turns'[r] = turns[r] /\ round'[r] = round[r]
        /\ phase[r] = "recorded" /\ phase'[r] = "return"
        /\ resp'[r].messages = messages[r] /\ resp'[r].executor = 0
        /\ resp'[r].err = "none"
    BY <1>13, <1>t DEF finish, loopVars, Answer, Set
  <2>2. round[r] \in 1 .. Len(turns[r]) /\ turns[r][round[r]] = <<>>
    BY <1>13, <1>r, <1>d, <2>1 DEF finish, LastTurn, RunInv, RoundsInv
  <2>3. /\ \E p \in Seq(Message) : messages[r] = Append(p, AssistantMessage(<<>>))
        /\ Whole(cfg, messages[r])
        /\ Grown(cfg, turns[r], messages[r], round[r])
    BY <1>d, <2>1, <2>2, AnswerWholeBehind DEF TranscriptInv, Waiting
  <2>4. Fit(cfg, turns[r], messages[r])
    BY <2>3, WholeFit
  <2> QED
    BY <2>1, <2>3, <2>4 DEF TranscriptInv, Waiting, Sendable, Ended, Returned, Open
<1>14. CASE attachToolExecutor(r)
  <2>1. /\ cfg' = cfg /\ turns'[r] = turns[r] /\ round'[r] = round[r]
        /\ phase[r] = "recorded" /\ phase'[r] = "return"
        /\ messages'[r] = messages[r] /\ resp'[r].messages = messages[r]
    BY <1>14, <1>t DEF attachToolExecutor, loopVars, Answer, Set
  <2>2. Fit(cfg, turns[r], WithoutLastCalls(messages[r]))
    BY <1>d, <2>1, RecordedFit
  <2>3. CASE round[r] >= MaxRounds
    <3>1. resp'[r].executor = 0 /\ resp'[r].err = "maxRounds"
      BY <1>14, <1>t, <2>3 DEF attachToolExecutor, Answer, Set
    <3>2. ReturnsOpenEnded(r)
      BY <2>1, <2>2, <3>1 DEF ReturnsOpenEnded
    <3> QED
      BY <3>2, OpenEndedKeeps
  <2>4. CASE ~(round[r] >= MaxRounds)
    <3>1. resp'[r].executor = round[r] /\ resp'[r].err = "none"
      BY <1>14, <1>t, <2>4 DEF attachToolExecutor, Answer, Set
    <3>2. round[r] # 0
      BY <1>r, <2>1 DEF RunInv, RoundsInv
    <3> QED
      BY <2>1, <2>2, <3>1, <3>2 DEF TranscriptInv, Waiting, Sendable, Ended, Returned, Open
  <2> QED
    BY <2>3, <2>4
<1>15. CASE runToolCallsFails(r)
  <2>1. /\ cfg' = cfg /\ turns'[r] = turns[r] /\ round'[r] = round[r]
        /\ phase[r] = "executing" /\ phase'[r] = "return"
        /\ resp'[r].messages = dropUnansweredToolCalls(messages[r])
        /\ resp'[r].executor = 0 /\ resp'[r].err = "tools"
    BY <1>15, <1>t DEF runToolCallsFails, loopVars, Answer, Set
  <2>2. round[r] \in 1 .. Len(turns[r]) /\ active[r] = round[r]
    BY <1>r, <1>d, <2>1 DEF TranscriptInv, RunInv, RunTypes, RoundsInv, ExecutorsInv
  <2>3. TurnLast(cfg, turns[r], messages[r], round[r])
    BY <2>1 DEF TranscriptInv, Waiting
  <2>4. Fit(cfg, turns[r], dropUnansweredToolCalls(messages[r]))
    BY <1>d, <2>2, <2>3, TurnLastFit
  <2> QED
    BY <2>1, <2>4 DEF TranscriptInv, Waiting, Sendable, Ended, Returned, Open
<1>16. ASSUME NEW roles \in InjectionBatches, executeTools(r, roles)
      PROVE  TranscriptInv(r)'
  <2> DEFINE t == recordToolOutcomes(messages[r], turns[r][active[r]], roles)
  <2>1. /\ cfg' = cfg /\ turns'[r] = turns[r] /\ round'[r] = round[r]
        /\ phase[r] = "executing" /\ messages'[r] = t
        /\ \/ phase'[r] = "accept" /\ resp'[r] = resp[r]
           \/ /\ phase'[r] = "return" /\ resp'[r].messages = t
              /\ resp'[r].executor = 0 /\ resp'[r].err = "tools"
    BY <1>16, <1>t DEF executeTools, loopVars, Answer, Set
  <2>2. round[r] \in 1 .. Len(turns[r]) /\ active[r] = round[r]
    BY <1>r, <1>d, <2>1 DEF TranscriptInv, RunInv, RunTypes, RoundsInv, ExecutorsInv
  <2>3. TurnLast(cfg, turns[r], messages[r], round[r])
    BY <2>1 DEF TranscriptInv, Waiting
  <2>4. Whole(cfg, t) /\ Grown(cfg, turns[r], t, round[r])
    BY <1>d, <2>2, <2>3, OutcomesWhole, EngineAssumption
  <2> HIDE DEF t
  <2>5. CASE phase'[r] = "accept"
    BY <2>1, <2>4, <2>5 DEF TranscriptInv, Waiting, Sendable, Ended
  <2>6. CASE phase'[r] = "return"
    <3>1. Fit(cfg, turns[r], t)
      BY <2>4, WholeFit
    <3> QED
      BY <2>1, <2>6, <3>1 DEF TranscriptInv, Waiting, Sendable, Ended, Returned, Open
  <2> QED
    BY <2>1, <2>5, <2>6
<1>17. CASE nextRound(r)
  <2>1. /\ cfg' = cfg /\ turns'[r] = turns[r] /\ round'[r] = round[r]
        /\ phase[r] = "accept" /\ phase'[r] = "prepare" /\ resp'[r] = resp[r]
    BY <1>17, <1>t DEF nextRound, loopVars, Set
  <2>2. /\ Grown(cfg, turns[r], messages[r], round[r]) =>
             Grown(cfg, turns[r], messages'[r], round[r])
        /\ Whole(cfg, messages[r]) => Whole(cfg, messages'[r])
    BY <1>17, <1>d, AcceptKeeps DEF nextRound
  <2> QED
    BY <2>1, <2>2 DEF TranscriptInv, Waiting, Sendable, Ended
<1>18. CASE runOneReturns(r)
  <2>1. /\ cfg' = cfg /\ turns'[r] = turns[r] /\ round'[r] = round[r]
        /\ phase[r] \in Ended /\ phase'[r] \in Ended
        /\ messages'[r] = messages[r] /\ resp'[r] = resp[r]
    BY <1>18, <1>t DEF runOneReturns, deliver, Ended, Set
  <2> QED
    BY <2>1 DEF TranscriptInv, Waiting, Sendable, Ended
<1>19. CASE executorReturns(r)
  <2>1. /\ cfg' = cfg /\ turns'[r] = turns[r] /\ round'[r] = round[r]
        /\ phase[r] \in Ended /\ phase'[r] \in Ended
        /\ messages'[r] = messages[r] /\ resp'[r] = resp[r]
    BY <1>19, <1>t DEF executorReturns, deliver, Ended, Set
  <2> QED
    BY <2>1 DEF TranscriptInv, Waiting, Sendable, Ended
<1>20. CASE runLoopEnds(r)
  <2>1. /\ cfg' = cfg /\ turns'[r] = turns[r] /\ round'[r] = round[r]
        /\ phase[r] \in Ended /\ phase'[r] \in Ended
        /\ messages'[r] = messages[r] /\ resp'[r] = resp[r]
    BY <1>20, <1>t DEF runLoopEnds, deliver, Ended, Set
  <2> QED
    BY <2>1 DEF TranscriptInv, Waiting, Sendable, Ended
<1>21. CASE runLoop(r)
  <2>0. /\ resp[r].executor = round[r] /\ round[r] < MaxRounds /\ resp[r].executor = round[r]
        /\ phase[r] \in Ended /\ round[r] # 0
    BY <1>21, <1>r DEF runLoop, RunInv, RunTypes, RoundsInv, ExecutorsInv, Ended
  <2>1. /\ cfg' = cfg /\ turns'[r] = turns[r] /\ round'[r] = round[r]
        /\ phase'[r] = "executing" /\ active'[r] = resp[r].executor /\ messages'[r] = messages[r]
        /\ resp'[r] = resp[r]
    BY <1>21, <1>t, <1>r, <2>0 DEF runLoop, claim, Set, RunTypes
  <2> QED
    BY <2>0, <2>1 DEF TranscriptInv, Waiting, Sendable, Ended
<1>22. ASSUME NEW k \in 1 .. MaxRounds, ExecuteToolCalls(r, k) PROVE TranscriptInv(r)'
  <2>0. /\ resp[r].executor = round[r] /\ round[r] < MaxRounds /\ k = round[r]
        /\ phase[r] \in Ended /\ round[r] # 0
    BY <1>22, <1>r DEF ExecuteToolCalls, claim, RunInv, RunTypes, RoundsInv, ExecutorsInv, Ended
  <2>1. /\ cfg' = cfg /\ turns'[r] = turns[r] /\ round'[r] = round[r]
        /\ phase'[r] = "executing" /\ active'[r] = k /\ messages'[r] = messages[r]
        /\ resp'[r] = resp[r]
    BY <1>22, <1>t, <1>r, <2>0 DEF ExecuteToolCalls, claim, Set, RunTypes
  <2> QED
    BY <2>0, <2>1 DEF TranscriptInv, Waiting, Sendable, Ended
<1> QED
  BY <1>1, <1>2, <1>3, <1>4, <1>5, <1>6, <1>7, <1>8, <1>9, <1>10, <1>11,
     <1>12, <1>13, <1>14, <1>15, <1>16, <1>17, <1>18, <1>19, <1>20, <1>21, <1>22 DEF Step

\* The invariant with the transcripts.
FullInv == Inv /\ \A r \in Runs : TranscriptInv(r)

\* It holds at the start,
LEMMA FullInit == Init => FullInv
  BY InvInit, TranscriptInit DEF FullInv

\* and every step keeps it.
LEMMA FullStep == FullInv /\ [Next]_vars => FullInv'
<1> SUFFICES ASSUME FullInv, [Next]_vars PROVE FullInv'
  OBVIOUS
<1>1. Inv'
  BY InvStep DEF FullInv
<1>2. ASSUME NEW q \in Runs PROVE TranscriptInv(q)'
  <2>1. Inv /\ TypeOK /\ TranscriptInv(q)
    BY DEF FullInv, Inv
  <2>2. CASE UNCHANGED vars \/ \E tag \in UserTags : Enqueue(tag)
    <3>1. Untouched(q) /\ SameData(q)
      BY <2>2 DEF vars, runVars, Enqueue, Untouched, SameData
    <3> QED
      BY <2>1, <3>1, UntouchedKeepsTranscript
  <2>3. ASSUME NEW r \in Runs,
               run(r) \/ Step(r) \/ \E k \in 1 .. MaxRounds : ExecuteToolCalls(r, k)
        PROVE  TranscriptInv(q)'
    <3>1. CASE q = r
      BY <2>1, <2>3, <3>1, ActorKeepsTranscript
    <3>2. CASE q # r
      BY <2>1, <2>3, <3>2, OthersUntouched, OthersSameData, UntouchedKeepsTranscript
    <3> QED
      BY <3>1, <3>2
  <2> QED
    BY <2>2, <2>3 DEF Next
<1> QED
  BY <1>1, <1>2 DEF FullInv

\* It holds throughout every behaviour.
LEMMA FullAlways == Spec => []FullInv
  BY FullInit, FullStep, PTL DEF Spec

\* Both drivers accept a fit transcript.
LEMMA FitAccepted ==
  ASSUME NEW r \in Runs, NEW s, Starts(cfg), Fit(cfg, turns[r], s)
  PROVE  Acceptable(r, s)
<1>1. Legal(s)
  BY DEF Fit
<1>2. openaiAccepts(s)
  BY <1>1, OpenAIAccepts
<1>3. ASSUME IDsFresh(r), AnsweredOnce(cfg.prompt) PROVE anthropicAccepts(s)
  <2>1. Fresh(cfg, turns[r])
    BY <1>3 DEF IDsFresh, Fresh
  <2>2. AnsweredOnce(s)
    BY <2>1 DEF Fit
  <2> QED
    BY <1>1, <2>2, AnthropicAccepts
<1> QED
  BY <1>2, <1>3 DEF Acceptable

\* Every transcript handed to a driver passes that driver's own check
\* (validateTranscript of both drivers), for every prompt, round cap, mixture of
\* tool rounds, injections, queued messages, evictions, repairs and failures.
THEOREM SentIsLegal == Spec => []SentLegal
<1>1. FullInv => SentLegal
  <2> SUFFICES ASSUME FullInv, NEW r \in Runs, phase[r] = "stream", StartsLegal
               PROVE  Acceptable(r, messages[r])
    BY DEF SentLegal
  <2>1. TranscriptInv(r)
    BY DEF FullInv
  <2>2. Starts(cfg)
    BY DEF StartsLegal, Starts
  <2>3. Grown(cfg, turns[r], messages[r], round[r]) /\ Whole(cfg, messages[r])
    BY <2>1 DEF TranscriptInv
  <2>4. Fit(cfg, turns[r], messages[r])
    BY <2>3, WholeFit
  <2> QED
    BY <2>2, <2>4, FitAccepted
<1> QED
  BY <1>1, FullAlways, PTL

\* What a run or an executor returns can be sent again to either driver: as it
\* is after the model's answer, an aborted tool round or a failed preparation
\* (finish, dropUnansweredToolCalls, prepareTools), and without the calls of its
\* last message where the last turn is left open (attachToolExecutor, a failing
\* hook, the round cap, a broken stream).
THEOREM ReturnedIsReplayable == Spec => []ReturnedReplayable
<1>1. FullInv => ReturnedReplayable
  <2> DEFINE kept(r) == IF TurnOpen(r) THEN WithoutLastCalls(resp[r].messages)
                        ELSE resp[r].messages
  <2> SUFFICES ASSUME FullInv, NEW r \in Runs, phase[r] = "returned"
               PROVE  /\ resp[r].executor = 0 /\ resp[r].err = "none" =>
                           Last(resp[r].messages) = AssistantMessage(<<>>)
                      /\ StartsLegal /\ (resp[r].err = "prepare" /\ cfg.repair => round[r] > 0)
                           => Acceptable(r, kept(r))
    BY DEF ReturnedReplayable
  <2>1. Returned(cfg, turns[r], resp[r], round[r])
    BY DEF FullInv, TranscriptInv, Ended
  <2>2. StartsLegal => Starts(cfg)
    BY DEF StartsLegal, Starts
  <2>3. TurnOpen(r) <=> Open(resp[r])
    BY DEF TurnOpen, Open
  <2>4. ASSUME resp[r].executor = 0, resp[r].err = "none"
        PROVE  Last(resp[r].messages) = AssistantMessage(<<>>)
    <3>1. PICK p \in Seq(Message) : resp[r].messages = Append(p, AssistantMessage(<<>>))
      BY <2>1, <2>4 DEF Returned
    <3>2. AssistantMessage(<<>>) \in Message
      <4>1. <<>> \in Seq(CallIDs)
        OBVIOUS
      <4> QED
        BY <4>1, AssistantMessageType
    <3> QED
      BY <3>1, <3>2 DEF Last
  <2>5. ASSUME StartsLegal, resp[r].err = "prepare" /\ cfg.repair => round[r] > 0
        PROVE  Acceptable(r, kept(r))
    <3>1. Fit(cfg, turns[r], kept(r))
      BY <2>1, <2>3, <2>5 DEF Returned
    <3> HIDE DEF kept
    <3> QED
      BY <2>2, <2>5, <3>1, FitAccepted
  <2> QED
    BY <2>4, <2>5
<1> QED
  BY <1>1, FullAlways, PTL

-----------------------------------------------------------------------------
(* The queued messages in a transcript, again about plain values: a        *)
(* transcript s, the tags e ever enqueued and the number n of them taken   *)
(* from the queue.                                                         *)

\* The queued messages a transcript holds.
TagSet(s) == { s[k].tag : k \in DOMAIN s } \ {NoTag}

\* They stand alone, were taken from the queue, and follow each other as they
\* were enqueued.
Ordered(s, e, n) ==
  /\ \A k \in DOMAIN s : s[k].tag # NoTag =>
       /\ s[k].role # "tool" /\ ~HasCalls(s[k])
       /\ \E j \in 1 .. n : s[k].tag = e[j]
  /\ \A k, l \in DOMAIN s : \A i, j \in DOMAIN e :
       k < l /\ s[k].tag = e[i] /\ s[l].tag = e[j] => i < j

\* Messages that came from elsewhere.
Untagged(s) == s \in Seq(Message) /\ \A k \in DOMAIN s : s[k].tag = NoTag

\* A transcript without queued messages is ordered.
LEMMA UntaggedOrdered ==
  ASSUME NEW s, Untagged(s), NEW e \in Seq(UserTags), NEW n
  PROVE  Ordered(s, e, n) /\ TagSet(s) = {}
<1>1. \A i \in DOMAIN e : e[i] # NoTag
  BY TranscriptAssumption
<1> QED
  BY <1>1 DEF Untagged, Ordered, TagSet

\* What is left of an ordered transcript is ordered.
LEMMA ThinnedOrdered ==
  ASSUME NEW s \in Seq(Message), NEW t \in Seq(Message), Thinned(t, s), NEW e, NEW n
  PROVE  /\ Ordered(s, e, n) => Ordered(t, e, n)
         /\ TagSet(t) \subseteq TagSet(s)
<1>1. PICK src \in [DOMAIN t -> DOMAIN s] :
        /\ \A k, l \in DOMAIN t : k < l => src[k] < src[l]
        /\ \A k \in DOMAIN t :
             /\ t[k].role = s[src[k]].role /\ t[k].origin = s[src[k]].origin
             /\ t[k].callID = s[src[k]].callID /\ t[k].tag = s[src[k]].tag
             /\ HasCalls(t[k]) => HasCalls(s[src[k]])
  BY DEF Thinned
<1>2. \A k \in DOMAIN t : src[k] \in DOMAIN s
  OBVIOUS
<1>3. TagSet(t) \subseteq TagSet(s)
  BY <1>1, <1>2 DEF TagSet
<1>4. ASSUME Ordered(s, e, n) PROVE Ordered(t, e, n)
  <2>1. ASSUME NEW k \in DOMAIN t, t[k].tag # NoTag
        PROVE  /\ t[k].role # "tool" /\ ~HasCalls(t[k])
               /\ \E j \in 1 .. n : t[k].tag = e[j]
    BY <1>1, <1>2, <1>4, <2>1 DEF Ordered
  <2>2. ASSUME NEW k \in DOMAIN t, NEW l \in DOMAIN t, NEW i \in DOMAIN e, NEW j \in DOMAIN e,
               k < l, t[k].tag = e[i], t[l].tag = e[j]
        PROVE  i < j
    BY <1>1, <1>2, <1>4, <2>2 DEF Ordered
  <2> QED
    BY <2>1, <2>2 DEF Ordered
<1> QED
  BY <1>3, <1>4

\* Repair loses no queued message.
LEMMA RepairKeepsQueued ==
  ASSUME NEW s \in Seq(Message), NEW e, NEW n, Ordered(s, e, n)
  PROVE  /\ Ordered(repairTranscript(s), e, n)
         /\ TagSet(repairTranscript(s)) = TagSet(s)
<1> DEFINE t == repairTranscript(s)
<1>1. t \in Seq(Message)
  BY RepairType
<1>2. Ordered(t, e, n) /\ TagSet(t) \subseteq TagSet(s)
  BY <1>1, RepairThins, ThinnedOrdered
<1>3. \A x \in Kept(s) : /\ Rank(Kept(s), x) + 1 \in DOMAIN t
                         /\ t[Rank(Kept(s), x) + 1] = Merged(s)[x]
  BY RepairedFrom
<1> HIDE DEF t
<1>4. ASSUME NEW x \in DOMAIN s, s[x].tag # NoTag PROVE s[x].tag \in TagSet(t)
  <2>1. s[x].role # "tool" /\ ~HasCalls(s[x])
    BY <1>4 DEF Ordered
  <2>2. x \in Kept(s)
    BY <2>1, AloneKept
  <2>3. Merged(s)[x].tag = s[x].tag
    BY MergedIs
  <2> QED
    BY <1>3, <1>4, <2>2, <2>3 DEF TagSet
<1>5. TagSet(s) \subseteq TagSet(t)
  BY <1>4 DEF TagSet
<1> QED
  BY <1>2, <1>5 DEF t

\* Messages from elsewhere behind a transcript change nothing for the queued ones.
LEMMA UntaggedBehind ==
  ASSUME NEW s \in Seq(Message), NEW t, Untagged(t), NEW e \in Seq(UserTags), NEW n
  PROVE  /\ Ordered(s, e, n) => Ordered(s \o t, e, n)
         /\ TagSet(s \o t) = TagSet(s)
<1> DEFINE u == s \o t
<1>1. t \in Seq(Message) /\ \A k \in DOMAIN t : t[k].tag = NoTag
  BY DEF Untagged
<1>2. /\ DOMAIN u = 1 .. (Len(s) + Len(t)) /\ DOMAIN s = 1 .. Len(s) /\ DOMAIN t = 1 .. Len(t)
      /\ \A k \in 1 .. Len(s) : u[k] = s[k]
      /\ \A k \in (Len(s) + 1) .. (Len(s) + Len(t)) : u[k] = t[k - Len(s)]
      /\ Len(s) \in Nat /\ Len(t) \in Nat
  BY <1>1, Concatenated
<1> HIDE DEF u
<1>3. ASSUME NEW k \in DOMAIN u
      PROVE  \/ k \in DOMAIN s /\ u[k] = s[k]
             \/ k \notin DOMAIN s /\ u[k].tag = NoTag
  <2>1. CASE k \in DOMAIN s
    <3>1. k \in 1 .. Len(s)
      BY <2>1
    <3>2. \A i \in 1 .. Len(s) : u[i] = s[i]
      BY <1>2
    <3>3. u[k] = s[k]
      BY <3>1, <3>2
    <3> QED
      BY <2>1, <3>3
  <2>2. CASE k \notin DOMAIN s
    <3>1. k \in (Len(s) + 1) .. (Len(s) + Len(t)) /\ k - Len(s) \in DOMAIN t
      BY <1>2, <2>2
    <3>2. u[k] = t[k - Len(s)]
      BY <1>2, <3>1
    <3> QED
      BY <1>1, <2>2, <3>1, <3>2
  <2> QED
    BY <2>1, <2>2
<1>4. \A k \in DOMAIN s : k \in DOMAIN u
  BY <1>2
<1>5. TagSet(u) = TagSet(s)
  BY <1>3, <1>4 DEF TagSet
<1>6. \A i \in DOMAIN e : e[i] # NoTag
  BY TranscriptAssumption
<1>7. Ordered(s, e, n) => Ordered(u, e, n)
  BY <1>3, <1>6 DEF Ordered
<1> QED
  BY <1>5, <1>7 DEF u

\* A drained batch goes behind everything taken from the queue before it.
LEMMA BatchBehind ==
  ASSUME NEW s \in Seq(Message), NEW e \in Seq(UserTags), IsInjective(e),
         NEW q \in Seq(UserTags), Len(q) <= Len(e),
         \A k \in DOMAIN q : q[k] = e[Len(e) - Len(q) + k],
         Ordered(s, e, Len(e) - Len(q))
  PROVE  /\ Ordered(s \o Queued(q), e, Len(e))
         /\ TagSet(s \o Queued(q)) = TagSet(s) \cup ToSet(q)
<1> DEFINE n == Len(e) - Len(q)
           t == Queued(q)
           u == s \o t
<1>1. t \in Seq(Message)
  BY QueuedType
<1>2. /\ DOMAIN t = DOMAIN q
      /\ \A k \in DOMAIN q : /\ t[k].tag = q[k] /\ t[k].role = "user" /\ ~HasCalls(t[k])
  BY DEF Queued, QueuedMessage, UserMessage, PlainMessage, HasCalls
<1>3. /\ DOMAIN q = 1 .. Len(q) /\ Len(t) = Len(q) /\ Len(q) \in Nat /\ Len(e) \in Nat
      /\ DOMAIN s = 1 .. Len(s) /\ Len(s) \in Nat /\ DOMAIN e = 1 .. Len(e) /\ n \in Nat
  BY <1>1, <1>2
<1>4. /\ DOMAIN u = 1 .. (Len(s) + Len(q))
      /\ \A k \in 1 .. Len(s) : u[k] = s[k]
      /\ \A k \in (Len(s) + 1) .. (Len(s) + Len(q)) : u[k] = t[k - Len(s)]
  <2> HIDE DEF t, n
  <2>1. /\ DOMAIN (s \o t) = 1 .. (Len(s) + Len(t))
        /\ \A k \in 1 .. Len(s) : (s \o t)[k] = s[k]
        /\ \A k \in (Len(s) + 1) .. (Len(s) + Len(t)) : (s \o t)[k] = t[k - Len(s)]
    BY <1>1, Concatenated
  <2> QED
    BY <1>3, <2>1
<1> HIDE DEF t, u
<1>5. \A i, j \in DOMAIN e : e[i] = e[j] => i = j
  BY DEF IsInjective
<1>6. \A i \in DOMAIN e : e[i] # NoTag
  BY TranscriptAssumption
<1>7. ASSUME NEW k \in DOMAIN u
      PROVE  \/ k \in DOMAIN s /\ u[k] = s[k]
             \/ /\ k > Len(s) /\ k - Len(s) \in DOMAIN q
                /\ u[k].tag = q[k - Len(s)] /\ u[k].role = "user" /\ ~HasCalls(u[k])
                /\ n + (k - Len(s)) \in DOMAIN e
                /\ u[k].tag = e[n + (k - Len(s))]
  <2>1. CASE k \in DOMAIN s
    BY <1>3, <1>4, <2>1
  <2>2. CASE k \notin DOMAIN s
    <3>1. /\ k > Len(s) /\ k - Len(s) \in DOMAIN q
          /\ k \in (Len(s) + 1) .. (Len(s) + Len(q))
          /\ n + (k - Len(s)) \in DOMAIN e
      BY <1>3, <1>4, <2>2
    <3>2. u[k] = t[k - Len(s)]
      BY <1>4, <3>1
    <3>3. q[k - Len(s)] = e[n + (k - Len(s))]
      BY <3>1
    <3> QED
      BY <1>2, <3>1, <3>2, <3>3
  <2> QED
    BY <2>1, <2>2
<1>8. \A k \in DOMAIN s : s[k].tag # NoTag =>
         /\ s[k].role # "tool" /\ ~HasCalls(s[k])
         /\ \E j \in 1 .. n : s[k].tag = e[j]
  BY DEF Ordered
<1>9. \A k, l \in DOMAIN s : \A i, j \in DOMAIN e :
         k < l /\ s[k].tag = e[i] /\ s[l].tag = e[j] => i < j
  BY DEF Ordered
<1>10. 1 .. n \subseteq DOMAIN e /\ DOMAIN e = 1 .. Len(e)
  BY <1>3
<1>11. ASSUME NEW k \in DOMAIN u, u[k].tag # NoTag
       PROVE  /\ u[k].role # "tool" /\ ~HasCalls(u[k])
              /\ \E j \in 1 .. Len(e) : u[k].tag = e[j]
  BY <1>7, <1>8, <1>10, <1>11
<1>12. ASSUME NEW k \in DOMAIN u, NEW l \in DOMAIN u, NEW i \in DOMAIN e, NEW j \in DOMAIN e,
              k < l, u[k].tag = e[i], u[l].tag = e[j]
       PROVE  i < j
  <2>1. k \in Nat /\ l \in Nat /\ i \in Nat /\ j \in Nat
    BY <1>3, <1>4
  <2>2. CASE k \in DOMAIN s /\ l \in DOMAIN s
    <3>1. u[k] = s[k] /\ u[l] = s[l]
      BY <1>3, <1>4, <2>2
    <3> QED
      BY <1>9, <1>12, <2>2, <3>1
  <2>3. CASE k \in DOMAIN s /\ l \notin DOMAIN s
    <3>1. u[k] = s[k]
      BY <1>3, <1>4, <2>3
    <3>2. PICK m \in 1 .. n : u[k].tag = e[m]
      BY <1>6, <1>8, <1>12, <2>3, <3>1
    <3>3. i = m
      BY <1>5, <1>10, <1>12, <3>2
    <3>4. j = n + (l - Len(s)) /\ l > Len(s)
      BY <1>5, <1>7, <1>12, <2>3
    <3> QED
      BY <1>3, <2>1, <3>2, <3>3, <3>4
  <2>4. CASE k \notin DOMAIN s
    <3>1. l \notin DOMAIN s
      BY <1>3, <1>4, <1>12, <2>1, <2>4
    <3>2. i = n + (k - Len(s)) /\ j = n + (l - Len(s))
      BY <1>5, <1>7, <1>12, <2>4, <3>1
    <3> QED
      BY <1>3, <1>12, <2>1, <3>2
  <2> QED
    BY <2>2, <2>3, <2>4
<1>13. Ordered(u, e, Len(e))
  BY <1>11, <1>12 DEF Ordered
<1>14. TagSet(u) \subseteq TagSet(s) \cup ToSet(q)
  <2> SUFFICES ASSUME NEW k \in DOMAIN u, u[k].tag # NoTag
               PROVE  u[k].tag \in TagSet(s) \cup ToSet(q)
    BY DEF TagSet
  <2>1. CASE k \in DOMAIN s /\ u[k] = s[k]
    BY <2>1 DEF TagSet
  <2>2. CASE k - Len(s) \in DOMAIN q /\ u[k].tag = q[k - Len(s)]
    BY <2>2 DEF ToSet
  <2> QED
    BY <1>7, <2>1, <2>2
<1>15. TagSet(s) \cup ToSet(q) \subseteq TagSet(u)
  <2>1. ASSUME NEW k \in DOMAIN s, s[k].tag # NoTag PROVE s[k].tag \in TagSet(u)
    <3>1. k \in DOMAIN u /\ u[k] = s[k]
      BY <1>3, <1>4
    <3> QED
      BY <2>1, <3>1 DEF TagSet
  <2>2. ASSUME NEW k \in DOMAIN q PROVE q[k] \in TagSet(u)
    <3>1. /\ Len(s) + k \in DOMAIN u /\ (Len(s) + k) - Len(s) = k
          /\ Len(s) + k \in (Len(s) + 1) .. (Len(s) + Len(q))
      BY <1>3, <1>4
    <3>2. u[Len(s) + k] = t[k]
      BY <1>4, <3>1
    <3>3. u[Len(s) + k].tag = q[k] /\ q[k] # NoTag
      BY <1>2, <3>2, TranscriptAssumption
    <3> QED
      BY <3>1, <3>3 DEF TagSet
  <2> QED
    BY <2>1, <2>2 DEF TagSet, ToSet
<1> QED
  BY <1>13, <1>14, <1>15 DEF u, t

\* More messages taken from the queue keep a transcript ordered,
LEMMA OrderedMore ==
  ASSUME NEW s, NEW e, NEW n \in Nat, NEW m \in Nat, n <= m, Ordered(s, e, n)
  PROVE  Ordered(s, e, m)
<1>1. 1 .. n \subseteq 1 .. m
  OBVIOUS
<1> QED
  BY <1>1 DEF Ordered

\* and so does a message that enters it.
LEMMA OrderedEnqueue ==
  ASSUME NEW s, NEW e \in Seq(UserTags), NEW n \in 0 .. Len(e), NEW tag \in UserTags,
         tag \notin ToSet(e), Ordered(s, e, n)
  PROVE  Ordered(s, Append(e, tag), n)
<1> DEFINE f == Append(e, tag)
<1>1. /\ DOMAIN e = 1 .. Len(e) /\ DOMAIN f = 1 .. (Len(e) + 1) /\ Len(e) \in Nat
      /\ \A i \in 1 .. Len(e) : f[i] = e[i]
      /\ f[Len(e) + 1] = tag
  OBVIOUS
<1>2. tag # NoTag /\ \A i \in DOMAIN e : e[i] # tag /\ e[i] # NoTag
  BY TranscriptAssumption DEF ToSet
<1> HIDE DEF f
<1>3. 1 .. n \subseteq DOMAIN e
  BY <1>1
<1>4. \A k \in DOMAIN s : s[k].tag # NoTag =>
         /\ s[k].role # "tool" /\ ~HasCalls(s[k])
         /\ \E j \in 1 .. n : s[k].tag = e[j]
  BY DEF Ordered
<1>5. \A k \in DOMAIN s : s[k].tag # NoTag =>
         /\ s[k].role # "tool" /\ ~HasCalls(s[k])
         /\ \E j \in 1 .. n : s[k].tag = f[j]
  BY <1>1, <1>3, <1>4
<1>6. \A k \in DOMAIN s : s[k].tag # tag
  BY <1>2, <1>3, <1>4
<1>7. \A i \in DOMAIN f : f[i] # tag => i \in DOMAIN e /\ f[i] = e[i]
  <2> SUFFICES ASSUME NEW i \in DOMAIN f, f[i] # tag PROVE i \in DOMAIN e /\ f[i] = e[i]
    OBVIOUS
  <2>1. i # Len(e) + 1
    BY <1>1
  <2>2. i \in 1 .. Len(e)
    BY <1>1, <2>1
  <2> QED
    BY <1>1, <2>2
<1>8. \A k, l \in DOMAIN s : \A i, j \in DOMAIN e :
         k < l /\ s[k].tag = e[i] /\ s[l].tag = e[j] => i < j
  BY DEF Ordered
<1>9. \A k, l \in DOMAIN s : \A i, j \in DOMAIN f :
         k < l /\ s[k].tag = f[i] /\ s[l].tag = f[j] => i < j
  BY <1>6, <1>7, <1>8
<1> QED
  BY <1>5, <1>9 DEF Ordered, f

\* The tag of a message.
LEMMA TagType ==
  ASSUME NEW m \in Message
  PROVE  m.tag \in UserTags \cup {NoTag}
  BY DEF Message

\* An untagged message at the end does not show among the tags.
LEMMA TagsAppended ==
  ASSUME NEW s \in Seq(Message), NEW m \in Message, m.tag = NoTag
  PROVE  TagsIn(Append(s, m)) = TagsIn(s)
<1> DEFINE u == Append(s, m)
           S(x) == { k \in DOMAIN x : x[k].tag # NoTag }
           tags(x) == [ k \in DOMAIN x |-> x[k].tag ]
<1>1. /\ DOMAIN u = 1 .. (Len(s) + 1) /\ DOMAIN s = 1 .. Len(s) /\ Len(s) \in Nat
      /\ u[Len(s) + 1] = m
      /\ \A k \in 1 .. Len(s) : u[k] = s[k]
  OBVIOUS
<1> HIDE DEF u
<1>2. \A k \in DOMAIN u : k \in DOMAIN s \/ u[k] = m
  BY <1>1
<1>3. \A k \in DOMAIN s : k \in DOMAIN u /\ u[k] = s[k]
  BY <1>1
<1>4. S(u) = S(s)
  BY <1>2, <1>3
<1>5. S(s) \in SUBSET (DOMAIN s) /\ S(s) \in SUBSET (1 .. Len(s))
  BY <1>1
<1>6. \A k \in S(s) : tags(u)[k] = tags(s)[k]
  BY <1>3, <1>5
<1>7. TagsIn(u) = Pick(tags(u), S(u)) /\ TagsIn(s) = Pick(tags(s), S(s))
  BY DEF TagsIn
<1>8. /\ tags(u) \in Seq(UserTags \cup {NoTag}) /\ tags(s) \in Seq(UserTags \cup {NoTag})
      /\ DOMAIN tags(u) = DOMAIN u /\ DOMAIN tags(s) = DOMAIN s
  <2>1. u \in Seq(Message)
    BY DEF u
  <2>2. \A k \in DOMAIN u : u[k].tag \in UserTags \cup {NoTag}
    BY <2>1, TagType
  <2>3. \A k \in DOMAIN s : s[k].tag \in UserTags \cup {NoTag}
    BY TagType
  <2> QED
    BY <2>1, <2>2, <2>3
<1> DEFINE K == S(s)  a == tags(u)  b == tags(s)
<1> HIDE DEF S, tags
<1>9. /\ K \in SUBSET (DOMAIN a) /\ K \in SUBSET (DOMAIN b)
      /\ \A k \in K : a[k] = b[k]
  BY <1>3, <1>5, <1>6, <1>8
<1>10. a \in Seq(UserTags \cup {NoTag}) /\ b \in Seq(UserTags \cup {NoTag})
  BY <1>8
<1>11. TagsIn(u) = Pick(a, K) /\ TagsIn(s) = Pick(b, K)
  BY <1>4, <1>7
<1> HIDE DEF K, a, b
<1>12. ASSUME NEW n \in DOMAIN Pick(a, K) PROVE Pick(a, K)[n] = Pick(b, K)[n]
  <2>1. PICK x \in K : Rank(K, x) + 1 = n /\ Pick(a, K)[n] = a[x]
    BY <1>9, <1>10, PickedFrom
  <2>2. Pick(b, K)[Rank(K, x) + 1] = b[x]
    BY <1>9, <1>10, PickPlaces
  <2> QED
    BY <1>9, <2>1, <2>2
<1>13. Pick(a, K) = Pick(b, K)
  <2>1. DOMAIN Pick(a, K) = DOMAIN Pick(b, K)
    BY DEF Pick
  <2>2. Pick(a, K) \in Seq(UserTags \cup {NoTag}) /\ Pick(b, K) \in Seq(UserTags \cup {NoTag})
    BY <1>9, <1>10, PickType
  <2> QED
    BY <1>12, <2>1, <2>2
<1> QED
  BY <1>11, <1>13 DEF u

\* The tags of an ordered transcript are in the order of the queue.
LEMMA TagsOrdered ==
  ASSUME NEW s \in Seq(Message), NEW e \in Seq(UserTags), NEW n, Ordered(s, e, n)
  PROVE  \A i, j \in DOMAIN TagsIn(s) : \A k, l \in DOMAIN e :
            i < j /\ TagsIn(s)[i] = e[k] /\ TagsIn(s)[j] = e[l] => k < l
<1> DEFINE K == { k \in DOMAIN s : s[k].tag # NoTag }
           b == [ k \in DOMAIN s |-> s[k].tag ]
<1>1. TagsIn(s) = Pick(b, K)
  BY DEF TagsIn
<1>2. b \in Seq(UserTags \cup {NoTag}) /\ DOMAIN b = DOMAIN s
  <2>1. \A k \in DOMAIN s : s[k].tag \in UserTags \cup {NoTag}
    BY TagType
  <2> QED
    BY <2>1
<1>3. K \in SUBSET (DOMAIN b) /\ K \in SUBSET (1 .. Len(s)) /\ Len(s) \in Nat
  BY <1>2
<1>4. \A x \in K : x \in DOMAIN s /\ b[x] = s[x].tag /\ x \in Nat
  OBVIOUS
<1> HIDE DEF K, b
<1> SUFFICES ASSUME NEW i \in DOMAIN Pick(b, K), NEW j \in DOMAIN Pick(b, K),
                    NEW k \in DOMAIN e, NEW l \in DOMAIN e,
                    i < j, Pick(b, K)[i] = e[k], Pick(b, K)[j] = e[l]
             PROVE  k < l
  BY <1>1
<1>5. PICK x \in K : Rank(K, x) + 1 = i /\ Pick(b, K)[i] = b[x]
  BY <1>2, <1>3, PickedFrom
<1>6. PICK y \in K : Rank(K, y) + 1 = j /\ Pick(b, K)[j] = b[y]
  BY <1>2, <1>3, PickedFrom
<1>7. x < y
  <2>1. Rank(K, x) \in Nat /\ Rank(K, y) \in Nat
    BY <1>3, PositionsFinite
  <2>2. y < x => Rank(K, y) < Rank(K, x)
    BY <1>3, RankGrows
  <2>3. x # y
    BY <1>5, <1>6, <2>1
  <2> QED
    BY <1>4, <1>5, <1>6, <2>1, <2>2, <2>3
<1>8. s[x].tag = e[k] /\ s[y].tag = e[l] /\ x \in DOMAIN s /\ y \in DOMAIN s
  BY <1>4, <1>5, <1>6
<1> QED
  BY <1>7, <1>8 DEF Ordered

\* Dropping the calls of the trailing turn touches no queued message.
LEMMA DroppedKeepsQueued ==
  ASSUME NEW s \in Seq(Message), NEW e, NEW n
  PROVE  /\ Ordered(s, e, n) => Ordered(dropUnansweredToolCalls(s), e, n)
         /\ TagSet(dropUnansweredToolCalls(s)) = TagSet(s)
<1> DEFINE t == dropUnansweredToolCalls(s)
<1>1. t \in Seq(Message)
  BY DroppedCallsType
<1>2. CASE t = s
  BY <1>2
<1>3. CASE t # s
  <2>1. s # <<>> /\ t = [s EXCEPT ![Len(s)].calls = <<>>]
    BY <1>3 DEF dropUnansweredToolCalls
  <2>2. Len(s) \in DOMAIN s /\ s[Len(s)] \in Message
    BY <2>1
  <2>3. /\ DOMAIN t = DOMAIN s
        /\ \A k \in DOMAIN s : k # Len(s) => t[k] = s[k]
        /\ t[Len(s)] = [s[Len(s)] EXCEPT !.calls = <<>>]
    BY <2>1, <2>2
  <2> HIDE DEF t
  <2>4. /\ t[Len(s)].role = s[Len(s)].role /\ t[Len(s)].tag = s[Len(s)].tag
        /\ t[Len(s)].calls = <<>>
    BY <2>2, <2>3 DEF Message
  <2>5. \A k \in DOMAIN s : /\ t[k].role = s[k].role /\ t[k].tag = s[k].tag
                            /\ HasCalls(t[k]) => HasCalls(s[k])
    BY <2>3, <2>4 DEF HasCalls
  <2>6. TagSet(t) = TagSet(s)
    BY <2>3, <2>5 DEF TagSet
  <2>7. Ordered(s, e, n) => Ordered(t, e, n)
    BY <2>3, <2>5 DEF Ordered
  <2> QED
    BY <2>6, <2>7 DEF t
<1> QED
  BY <1>2, <1>3

-----------------------------------------------------------------------------
(* Where the queued messages are: the queue holds the youngest tags, the   *)
(* transcripts the older ones.                                             *)

\* How many messages were taken from the queue.
Taken == Len(enqueued) - Len(queue)

\* The queued messages of one run.
QueuedInv(r) ==
  /\ Ordered(messages[r], enqueued, Taken)
  /\ phase[r] = "idle" => messages[r] = <<>>
  /\ phase[r] = "compact" =>
       /\ cfg.budget
       /\ Ordered(draft[r], enqueued, Taken)
       /\ TagSet(draft[r]) \subseteq TagSet(messages[r])
  /\ phase[r] \in Ended => TagsIn(resp[r].messages) = TagsIn(messages[r])

\* All of them.
QueueInv ==
  /\ IsInjective(enqueued)
  /\ Len(queue) <= Len(enqueued)
  /\ \A k \in DOMAIN queue : queue[k] = enqueued[Taken + k]
  /\ \A r \in Runs : QueuedInv(r)
  /\ \A r, q \in Runs : r # q => TagSet(messages[r]) \cap TagSet(messages[q]) = {}
  /\ ~cfg.budget => \A j \in 1 .. Taken : \E r \in Runs : enqueued[j] \in TagSet(messages[r])

\* A step of run r takes the whole queue,
Drains(r) ==
  /\ queue' = <<>>
  /\ Ordered(messages'[r], enqueued, Len(enqueued))
  /\ TagSet(messages'[r]) = TagSet(messages[r]) \cup ToSet(queue)

\* or leaves it and loses no queued message but by an eviction.
LeavesQueue(r) ==
  /\ queue' = queue
  /\ Ordered(messages'[r], enqueued, Taken)
  /\ TagSet(messages'[r]) \subseteq TagSet(messages[r])
  /\ ~cfg.budget => TagSet(messages[r]) \subseteq TagSet(messages'[r])

Effect(r) ==
  /\ cfg' = cfg /\ enqueued' = enqueued
  /\ Drains(r) \/ LeavesQueue(r)

\* Draining behind a transcript that holds the run's queued messages.
LEMMA AcceptEffect ==
  ASSUME Inv, QueueInv, NEW r \in Runs, NEW s \in Seq(Message),
         acceptQueuedUserMessages(r, s), cfg' = cfg, enqueued' = enqueued,
         Ordered(s, enqueued, Taken), TagSet(s) = TagSet(messages[r])
  PROVE  Effect(r)
<1>1. /\ queue \in Seq(UserTags) /\ enqueued \in Seq(UserTags)
      /\ messages \in [Runs -> Seq(Message)]
  BY DEF Inv, TypeOK
<1>2. CASE CanAccept(r)
  <2>1. messages'[r] = s \o Queued(queue) /\ queue' = <<>>
    BY <1>1, <1>2 DEF acceptQueuedUserMessages, Set
  <2>2. /\ IsInjective(enqueued) /\ Len(queue) <= Len(enqueued)
        /\ \A k \in DOMAIN queue : queue[k] = enqueued[Len(enqueued) - Len(queue) + k]
        /\ Ordered(s, enqueued, Len(enqueued) - Len(queue))
    BY DEF QueueInv, Taken
  <2>3. /\ Ordered(s \o Queued(queue), enqueued, Len(enqueued))
        /\ TagSet(s \o Queued(queue)) = TagSet(s) \cup ToSet(queue)
    BY <1>1, <2>2, BatchBehind
  <2> QED
    BY <2>1, <2>3 DEF Effect, Drains
<1>3. CASE ~CanAccept(r)
  <2>1. messages'[r] = s /\ queue' = queue
    BY <1>1, <1>3 DEF acceptQueuedUserMessages, Set
  <2> QED
    BY <2>1 DEF Effect, LeavesQueue
<1> QED
  BY <1>2, <1>3

\* What an effect leaves of the queue.
LEMMA EffectOrdered ==
  ASSUME Inv, NEW r \in Runs, Effect(r)
  PROVE  Ordered(messages'[r], enqueued', Taken')
<1>1. queue \in Seq(UserTags) /\ enqueued \in Seq(UserTags)
  BY DEF Inv, TypeOK
<1>2. CASE Drains(r)
  <2>1. Taken' = Len(enqueued)
    BY <1>1, <1>2 DEF Effect, Drains, Taken
  <2> QED
    BY <1>2, <2>1 DEF Effect, Drains
<1>3. CASE LeavesQueue(r)
  <2>1. Taken' = Taken
    BY <1>3 DEF Effect, LeavesQueue, Taken
  <2> QED
    BY <1>3, <2>1 DEF Effect, LeavesQueue
<1> QED
  BY <1>2, <1>3 DEF Effect

\* A step that ends in a phase without a draft or a response.
LEMMA OnTheWay ==
  ASSUME Inv, NEW r \in Runs, Effect(r), phase'[r] \notin Ended \cup {"idle", "compact"}
  PROVE  QueuedInv(r)'
  BY EffectOrdered DEF QueuedInv

\* A step that returns what the run holds.
LEMMA AtTheEnd ==
  ASSUME Inv, NEW r \in Runs, Effect(r), phase'[r] \in Ended,
         TagsIn(resp'[r].messages) = TagsIn(messages'[r])
  PROVE  QueuedInv(r)'
  BY EffectOrdered DEF QueuedInv, Ended

\* A step that leaves the transcript and the queue alone.
LEMMA StillEffect ==
  ASSUME QueueInv, NEW r \in Runs, cfg' = cfg, enqueued' = enqueued, queue' = queue,
         messages'[r] = messages[r]
  PROVE  Effect(r)
  BY DEF QueueInv, QueuedInv, Effect, LeavesQueue

\* Calls, results and injections are not queued messages.
LEMMA MadeUntagged ==
  /\ \A calls \in Seq(CallIDs) :
       /\ Untagged([ k \in DOMAIN calls |-> ToolMessage(calls[k]) ])
       /\ AssistantMessage(calls).tag = NoTag
       /\ Untagged(<<AssistantMessage(calls)>>)
  /\ \A roles \in Seq(Roles) : Untagged(recordInjections(roles))
<1>1. ASSUME NEW calls \in Seq(CallIDs)
      PROVE  /\ Untagged([ k \in DOMAIN calls |-> ToolMessage(calls[k]) ])
             /\ AssistantMessage(calls).tag = NoTag
             /\ Untagged(<<AssistantMessage(calls)>>)
  <2>1. \A k \in DOMAIN calls : /\ ToolMessage(calls[k]) \in Message
                                /\ ToolMessage(calls[k]).tag = NoTag
    BY ToolMessageType DEF ToolMessage, PlainMessage
  <2>2. AssistantMessage(calls).tag = NoTag
    BY DEF AssistantMessage, PlainMessage
  <2>3. AssistantMessage(calls) \in Message
    BY AssistantMessageType
  <2>4. Untagged(<<AssistantMessage(calls)>>)
    BY <2>2, <2>3 DEF Untagged
  <2>5. Untagged([ k \in DOMAIN calls |-> ToolMessage(calls[k]) ])
    BY <2>1 DEF Untagged
  <2> QED
    BY <2>2, <2>4, <2>5
<1>2. ASSUME NEW roles \in Seq(Roles) PROVE Untagged(recordInjections(roles))
  <2> DEFINE all == [ k \in DOMAIN roles |-> PlainMessage(roles[k], "injection") ]
             usable == { k \in DOMAIN roles : roles[k] \in {"user", "assistant", "system"} }
  <2>1. recordInjections(roles) \in Seq(Message)
    BY InjectionsType
  <2>2. \A k \in DOMAIN roles : PlainMessage(roles[k], "injection") \in Message
    BY PlainMessageType DEF Origins
  <2>3. all \in Seq(Message) /\ DOMAIN all = DOMAIN roles
    BY <2>2
  <2>4. usable \in SUBSET (DOMAIN all) /\ \A x \in usable : all[x].tag = NoTag
    BY <2>3 DEF PlainMessage
  <2>5. recordInjections(roles) = Pick(all, usable)
    BY DEF recordInjections
  <2> HIDE DEF all, usable
  <2>6. \A k \in DOMAIN Pick(all, usable) : \E x \in usable : Pick(all, usable)[k] = all[x]
    BY <2>3, <2>4, PickedFrom
  <2> QED
    BY <2>1, <2>4, <2>5, <2>6 DEF Untagged
<1> QED
  BY <1>1, <1>2

\* The model's turn is appended,
LEMMA TurnOrdered ==
  ASSUME NEW s \in Seq(Message), NEW calls \in Seq(CallIDs),
         NEW e \in Seq(UserTags), NEW n, Ordered(s, e, n)
  PROVE  /\ Ordered(Append(s, AssistantMessage(calls)), e, n)
         /\ TagSet(Append(s, AssistantMessage(calls))) = TagSet(s)
<1> DEFINE turn == <<AssistantMessage(calls)>>
<1>1. Untagged(turn)
  BY MadeUntagged
<1>2. Append(s, AssistantMessage(calls)) = s \o turn
  BY AssistantMessageType
<1> HIDE DEF turn
<1> QED
  BY <1>1, <1>2, UntaggedBehind

\* and so are a round's results and injections.
LEMMA OutcomesOrdered ==
  ASSUME NEW s \in Seq(Message), NEW calls \in Seq(CallIDs), NEW roles \in Seq(Roles),
         NEW e \in Seq(UserTags), NEW n, Ordered(s, e, n)
  PROVE  /\ Ordered(recordToolOutcomes(s, calls, roles), e, n)
         /\ TagSet(recordToolOutcomes(s, calls, roles)) = TagSet(s)
<1> DEFINE results == [ k \in DOMAIN calls |-> ToolMessage(calls[k]) ]
           more == recordInjections(roles)
<1>1. Untagged(results) /\ Untagged(more)
  BY MadeUntagged
<1>2. recordToolOutcomes(s, calls, roles) = (s \o results) \o more
  BY DEF recordToolOutcomes
<1> HIDE DEF results, more
<1>3. Ordered(s \o results, e, n) /\ TagSet(s \o results) = TagSet(s)
  BY <1>1, UntaggedBehind
<1>4. s \o results \in Seq(Message)
  BY <1>1 DEF Untagged
<1>5. Ordered((s \o results) \o more, e, n) /\ TagSet((s \o results) \o more) = TagSet(s)
  BY <1>1, <1>3, <1>4, UntaggedBehind
<1> QED
  BY <1>2, <1>5

\* A step of a run moves queued messages only from the queue to its transcript.
LEMMA ActorMoves ==
  ASSUME Inv, QueueInv, NEW r \in Runs,
         run(r) \/ Step(r) \/ \E k \in 1 .. MaxRounds : ExecuteToolCalls(r, k)
  PROVE  Effect(r) /\ QueuedInv(r)'
<1>t. /\ phase \in [Runs -> Phases] /\ resp \in [Runs -> Response]
      /\ messages \in [Runs -> Seq(Message)] /\ draft \in [Runs -> Seq(Message)]
  BY DEF Inv, TypeOK
<1>d. /\ messages[r] \in Seq(Message) /\ draft[r] \in Seq(Message)
      /\ turns[r] \in Seq(Seq(CallIDs)) /\ queue \in Seq(UserTags)
      /\ enqueued \in Seq(UserTags) /\ cfg \in Configs /\ cfg.prompt \in Seq(Message)
  BY DataTypes DEF Inv, TypeOK
<1>q. /\ Ordered(messages[r], enqueued, Taken)
      /\ phase[r] = "idle" => messages[r] = <<>>
      /\ phase[r] = "compact" =>
           /\ cfg.budget
           /\ Ordered(draft[r], enqueued, Taken)
           /\ TagSet(draft[r]) \subseteq TagSet(messages[r])
      /\ phase[r] \in Ended => TagsIn(resp[r].messages) = TagsIn(messages[r])
  BY DEF QueueInv, QueuedInv
<1>1. CASE run(r)
  <2>1. /\ cfg' = cfg /\ enqueued' = enqueued /\ phase'[r] = "prepare" /\ messages[r] = <<>>
    BY <1>1, <1>t, <1>q DEF run, Set
  <2>2. Untagged(cfg.prompt)
    BY <1>d, EngineAssumption DEF Untagged
  <2>3. /\ Ordered(cfg.prompt, enqueued, Taken) /\ TagSet(cfg.prompt) = {}
        /\ TagSet(messages[r]) = {}
    <3>1. Untagged(messages[r])
      BY <1>d, <2>1 DEF Untagged
    <3> QED
      BY <1>d, <2>2, <3>1, UntaggedOrdered
  <2>4. Effect(r)
    <3>1. CASE cfg.auto
      BY <1>1, <1>d, <2>1, <2>3, <3>1, AcceptEffect DEF run
    <3>2. CASE ~cfg.auto
      <4>1. messages'[r] = cfg.prompt /\ queue' = queue
        BY <1>1, <1>t, <3>2 DEF run, Set
      <4> QED
        BY <2>1, <2>3, <4>1 DEF Effect, LeavesQueue
    <3> QED
      BY <3>1, <3>2
  <2> QED
    BY <2>1, <2>4, OnTheWay DEF Ended
<1>2. CASE prepareTools(r)
  <2>1. /\ cfg' = cfg /\ enqueued' = enqueued /\ queue' = queue
        /\ messages'[r] = messages[r]
        /\ \/ phase'[r] = "round"
           \/ phase'[r] = "compact" /\ cfg.budget /\ draft'[r] = messages[r]
    BY <1>2, <1>t DEF prepareTools, loopVars, Set
  <2>2. Effect(r)
    BY <2>1, StillEffect
  <2>3. CASE phase'[r] = "round"
    BY <2>2, <2>3, OnTheWay DEF Ended
  <2>4. CASE phase'[r] = "compact"
    <3>1. Taken' = Taken
      BY <2>1 DEF Taken
    <3> QED
      BY <1>q, <2>1, <2>2, <2>4, <3>1 DEF QueuedInv, Ended
  <2> QED
    BY <2>1, <2>2, <2>3, <2>4
<1>3. CASE prepareToolsFails(r)
  <2>1. /\ cfg' = cfg /\ enqueued' = enqueued /\ queue' = queue
        /\ messages'[r] = messages[r]
        /\ phase'[r] = "return" /\ resp'[r].messages = messages[r]
    BY <1>3, <1>t, <1>q DEF prepareToolsFails, loopVars, Answer, Set
  <2>2. Effect(r)
    BY <2>1, StillEffect
  <2> QED
    BY <2>1, <2>2, AtTheEnd DEF Ended
<1>4. CASE compactToBudgetFails(r)
  <2>1. /\ cfg' = cfg /\ enqueued' = enqueued /\ queue' = queue
        /\ messages'[r] = messages[r]
        /\ phase'[r] = "return" /\ resp'[r].messages = messages[r]
    BY <1>4, <1>t, <1>q DEF compactToBudgetFails, loopVars, Answer, Set
  <2>2. Effect(r)
    BY <2>1, StillEffect
  <2> QED
    BY <2>1, <2>2, AtTheEnd DEF Ended
<1>5. CASE dropOldestUnit(r)
  <2>0. PICK i \in {firstDroppableUnit(draft[r])} \ {0} :
               draft' = Set(draft, r, DropUnit(draft[r], i))
    BY <1>5 DEF dropOldestUnit
  <2>1. /\ cfg' = cfg /\ enqueued' = enqueued /\ queue' = queue
        /\ messages'[r] = messages[r] /\ phase[r] = "compact" /\ phase'[r] = "compact"
    BY <1>5, <1>t DEF dropOldestUnit, loopVars, Set
  <2>2. Effect(r)
    BY <2>1, StillEffect
  <2>3. draft'[r] = DropUnit(draft[r], i) /\ i \in DOMAIN draft[r]
    BY <1>t, <1>d, <2>0, FirstDroppableRange DEF Set
  <2>4. Thinned(draft'[r], draft[r]) /\ draft'[r] \in Seq(Message)
    BY <1>d, <2>3, EvictionThins, DropUnitType
  <2>5. Ordered(draft'[r], enqueued, Taken) /\ TagSet(draft'[r]) \subseteq TagSet(draft[r])
    BY <1>d, <1>q, <2>1, <2>4, ThinnedOrdered
  <2>6. Taken' = Taken
    BY <2>1 DEF Taken
  <2> QED
    BY <1>q, <2>1, <2>2, <2>5, <2>6 DEF QueuedInv, Ended
<1>6. CASE compactToBudget(r)
  <2>1. /\ cfg' = cfg /\ enqueued' = enqueued /\ queue' = queue
        /\ phase[r] = "compact" /\ messages'[r] = draft[r]
        /\ \/ phase'[r] = "round"
           \/ phase'[r] = "return" /\ resp'[r].messages = draft[r]
    BY <1>6, <1>t DEF compactToBudget, loopVars, Answer, Set
  <2>2. Effect(r)
    BY <1>q, <2>1 DEF Effect, LeavesQueue
  <2> QED
    BY <2>1, <2>2, OnTheWay, AtTheEnd DEF Ended
<1>7. CASE prepareRound(r) \/ prepareRoundFails(r)
  <2>1. /\ cfg' = cfg /\ enqueued' = enqueued /\ queue' = queue
        /\ messages'[r] = roundTranscript(r)
        /\ \/ phase'[r] = "stream"
           \/ phase'[r] = "return" /\ resp'[r].messages = roundTranscript(r)
    BY <1>7, <1>t DEF prepareRound, prepareRoundFails, loopVars, Answer, Set
  <2>2. /\ Ordered(roundTranscript(r), enqueued, Taken)
        /\ TagSet(roundTranscript(r)) = TagSet(messages[r])
    BY <1>d, <1>q, RepairKeepsQueued DEF roundTranscript
  <2>3. Effect(r)
    BY <2>1, <2>2 DEF Effect, LeavesQueue
  <2> QED
    BY <2>1, <2>3, OnTheWay, AtTheEnd DEF Ended
<1>8. ASSUME NEW turn \in Turns, streamAssistantFails(r, turn) PROVE Effect(r) /\ QueuedInv(r)'
  <2>1. /\ cfg' = cfg /\ enqueued' = enqueued /\ queue' = queue
        /\ messages'[r] = messages[r] /\ phase'[r] = "return"
        /\ resp'[r].messages \in {messages[r], Append(messages[r], AssistantMessage(turn))}
    BY <1>8, <1>t DEF streamAssistantFails, loopVars, Answer, Set
  <2>2. Effect(r)
    BY <2>1, StillEffect
  <2>3. turn \in Seq(CallIDs)
    BY EngineAssumption
  <2>4. TagsIn(Append(messages[r], AssistantMessage(turn))) = TagsIn(messages[r])
    BY <1>d, <2>3, TagsAppended, AssistantMessageType, MadeUntagged
  <2> QED
    BY <2>1, <2>2, <2>4, AtTheEnd DEF Ended
<1>9. ASSUME NEW turn \in Turns, recordAssistant(r, turn) PROVE Effect(r) /\ QueuedInv(r)'
  <2>1. /\ cfg' = cfg /\ enqueued' = enqueued /\ queue' = queue
        /\ messages'[r] = Append(messages[r], AssistantMessage(turn))
        /\ phase'[r] = "recorded"
    BY <1>9, <1>t DEF recordAssistant, loopVars, Set
  <2>2. turn \in Seq(CallIDs)
    BY EngineAssumption
  <2>s. /\ Ordered(messages'[r], enqueued, Taken)
        /\ TagSet(messages'[r]) = TagSet(messages[r])
    BY <1>d, <1>q, <2>1, <2>2, TurnOrdered
  <2>3. Effect(r)
    BY <2>1, <2>s DEF Effect, LeavesQueue
  <2> QED
    BY <2>1, <2>3, OnTheWay DEF Ended
<1>10. CASE recordAssistantFails(r)
  <2>1. /\ cfg' = cfg /\ enqueued' = enqueued /\ queue' = queue
        /\ messages'[r] = messages[r]
        /\ phase'[r] = "return" /\ resp'[r].messages = messages[r]
    BY <1>10, <1>t, <1>q DEF recordAssistantFails, loopVars, Answer, Set
  <2>2. Effect(r)
    BY <2>1, StillEffect
  <2> QED
    BY <2>1, <2>2, AtTheEnd DEF Ended
<1>11. CASE continueWithQueued(r) \/ nextRound(r)
  <2>1. /\ cfg' = cfg /\ enqueued' = enqueued /\ phase'[r] = "prepare"
        /\ acceptQueuedUserMessages(r, messages[r])
    BY <1>11, <1>t DEF continueWithQueued, nextRound, loopVars, Set
  <2>2. Effect(r)
    BY <1>d, <1>q, <2>1, AcceptEffect
  <2> QED
    BY <2>1, <2>2, OnTheWay DEF Ended
<1>12. CASE finish(r)
  <2>1. /\ cfg' = cfg /\ enqueued' = enqueued /\ queue' = queue
        /\ messages'[r] = messages[r]
        /\ phase'[r] = "return" /\ resp'[r].messages = messages[r]
    BY <1>12, <1>t, <1>q DEF finish, loopVars, Answer, Set
  <2>2. Effect(r)
    BY <2>1, StillEffect
  <2> QED
    BY <2>1, <2>2, AtTheEnd DEF Ended
<1>13. CASE attachToolExecutor(r)
  <2>1. /\ cfg' = cfg /\ enqueued' = enqueued /\ queue' = queue
        /\ messages'[r] = messages[r]
        /\ phase'[r] = "return" /\ resp'[r].messages = messages[r]
    BY <1>13, <1>t, <1>q DEF attachToolExecutor, loopVars, Answer, Set
  <2>2. Effect(r)
    BY <2>1, StillEffect
  <2> QED
    BY <2>1, <2>2, AtTheEnd DEF Ended
<1>14. CASE runToolCallsFails(r)
  <2>1. /\ cfg' = cfg /\ enqueued' = enqueued /\ queue' = queue
        /\ messages'[r] = dropUnansweredToolCalls(messages[r])
        /\ phase'[r] = "return" /\ resp'[r].messages = messages'[r]
    BY <1>14, <1>t DEF runToolCallsFails, loopVars, Answer, Set
  <2>2. Effect(r)
    BY <1>d, <1>q, <2>1, DroppedKeepsQueued DEF Effect, LeavesQueue
  <2> QED
    BY <2>1, <2>2, AtTheEnd DEF Ended
<1>15. ASSUME NEW roles \in InjectionBatches, executeTools(r, roles) PROVE Effect(r) /\ QueuedInv(r)'
  <2> DEFINE t == recordToolOutcomes(messages[r], turns[r][active[r]], roles)
  <2>1. /\ cfg' = cfg /\ enqueued' = enqueued /\ queue' = queue
        /\ messages'[r] = t
        /\ \/ phase'[r] = "accept"
           \/ phase'[r] = "return" /\ resp'[r].messages = t
    BY <1>15, <1>t DEF executeTools, loopVars, Answer, Set
  <2>2. turns[r][active[r]] \in Seq(CallIDs)
    <3>1. active[r] \in 1 .. Len(turns[r])
      BY <1>15 DEF executeTools, Inv, RunInv, RoundsInv, ExecutorsInv
    <3> QED
      BY <1>d, <3>1
  <2>3. Ordered(t, enqueued, Taken) /\ TagSet(t) = TagSet(messages[r])
    BY <1>d, <1>q, <2>2, OutcomesOrdered, EngineAssumption
  <2> HIDE DEF t
  <2>4. Effect(r)
    BY <2>1, <2>3 DEF Effect, LeavesQueue
  <2> QED
    BY <2>1, <2>4, OnTheWay, AtTheEnd DEF Ended
<1>16. CASE runOneReturns(r)
  <2>1. /\ cfg' = cfg /\ enqueued' = enqueued /\ queue' = queue
        /\ messages'[r] = messages[r]
        /\ phase'[r] \in Ended /\ TagsIn(resp'[r].messages) = TagsIn(messages[r])
    BY <1>16, <1>t, <1>q DEF runOneReturns, deliver, Ended, Set
  <2>2. Effect(r)
    BY <2>1, StillEffect
  <2> QED
    BY <2>1, <2>2, AtTheEnd DEF Ended
<1>17. CASE executorReturns(r)
  <2>1. /\ cfg' = cfg /\ enqueued' = enqueued /\ queue' = queue
        /\ messages'[r] = messages[r]
        /\ phase'[r] \in Ended /\ TagsIn(resp'[r].messages) = TagsIn(messages[r])
    BY <1>17, <1>t, <1>q DEF executorReturns, deliver, Ended, Set
  <2>2. Effect(r)
    BY <2>1, StillEffect
  <2> QED
    BY <2>1, <2>2, AtTheEnd DEF Ended
<1>18. CASE runLoopEnds(r)
  <2>1. /\ cfg' = cfg /\ enqueued' = enqueued /\ queue' = queue
        /\ messages'[r] = messages[r]
        /\ phase'[r] \in Ended /\ TagsIn(resp'[r].messages) = TagsIn(messages[r])
    BY <1>18, <1>t, <1>q DEF runLoopEnds, deliver, Ended, Set
  <2>2. Effect(r)
    BY <2>1, StillEffect
  <2> QED
    BY <2>1, <2>2, AtTheEnd DEF Ended
<1>19. CASE runLoop(r) \/ \E k \in 1 .. MaxRounds : ExecuteToolCalls(r, k)
  <2>1. /\ cfg' = cfg /\ enqueued' = enqueued /\ queue' = queue
        /\ messages'[r] = messages[r]
        /\ \/ phase'[r] = "executing"
           \/ phase'[r] = "return" /\ resp'[r].messages = messages[r]
    BY <1>19, <1>t DEF runLoop, ExecuteToolCalls, claim, Answer, Set
  <2>2. Effect(r)
    BY <2>1, StillEffect
  <2> QED
    BY <2>1, <2>2, OnTheWay, AtTheEnd DEF Ended
<1> QED
  BY <1>1, <1>2, <1>3, <1>4, <1>5, <1>6, <1>7, <1>8, <1>9, <1>10,
     <1>11, <1>12, <1>13, <1>14, <1>15, <1>16, <1>17, <1>18, <1>19 DEF Step

\* How the queue and the history of it are typed, and how much was taken.
LEMMA TakenType ==
  ASSUME Inv, QueueInv
  PROVE  /\ queue \in Seq(UserTags) /\ enqueued \in Seq(UserTags)
         /\ Len(queue) \in Nat /\ Len(enqueued) \in Nat
         /\ Taken \in 0 .. Len(enqueued) /\ Taken + Len(queue) = Len(enqueued)
<1>1. queue \in Seq(UserTags) /\ enqueued \in Seq(UserTags)
  BY DEF Inv, TypeOK
<1>2. Len(queue) \in Nat /\ Len(enqueued) \in Nat
  BY <1>1
<1>3. Len(queue) <= Len(enqueued)
  BY DEF QueueInv
<1> QED
  BY <1>1, <1>2, <1>3 DEF Taken

\* The queued messages of a transcript were enqueued before those in the queue.
LEMMA HeldBefore ==
  ASSUME Inv, QueueInv, NEW r \in Runs
  PROVE  TagSet(messages[r]) \cap ToSet(queue) = {}
<1>1. /\ DOMAIN queue = 1 .. Len(queue) /\ DOMAIN enqueued = 1 .. Len(enqueued)
      /\ Len(queue) \in Nat /\ Taken \in Nat /\ Taken + Len(queue) = Len(enqueued)
  BY TakenType
<1>2. \A tag \in TagSet(messages[r]) : \E j \in 1 .. Taken : tag = enqueued[j]
  BY DEF QueueInv, QueuedInv, Ordered, TagSet
<1>3. \A k \in DOMAIN queue : queue[k] = enqueued[Taken + k] /\ Taken + k \in DOMAIN enqueued
  BY <1>1 DEF QueueInv
<1>4. \A i, j \in DOMAIN enqueued : enqueued[i] = enqueued[j] => i = j
  BY DEF QueueInv, IsInjective
<1> SUFFICES ASSUME NEW j \in 1 .. Taken, NEW k \in DOMAIN queue, enqueued[j] = queue[k]
             PROVE  FALSE
  BY <1>2 DEF ToSet
<1>5. j \in DOMAIN enqueued
  BY <1>1
<1>6. j = Taken + k
  BY <1>3, <1>4, <1>5
<1> QED
  BY <1>1, <1>6

\* The queue and the transcripts are empty at first.
LEMMA QueueInit == Init => QueueInv
<1> SUFFICES ASSUME Init PROVE QueueInv
  OBVIOUS
<1>1. queue = <<>> /\ enqueued = <<>> /\ Taken = 0
  BY DEF Init, Taken
<1>2. <<>> \in Seq(UserTags) /\ Untagged(<<>>)
  BY DEF Untagged
<1>3. ASSUME NEW r \in Runs PROVE QueuedInv(r) /\ TagSet(messages[r]) = {}
  <2>1. messages[r] = <<>> /\ phase[r] = "idle"
    BY DEF Init
  <2>2. Ordered(messages[r], enqueued, Taken) /\ TagSet(messages[r]) = {}
    BY <1>1, <1>2, <2>1, UntaggedOrdered
  <2> QED
    BY <2>1, <2>2 DEF QueuedInv, Ended
<1>4. IsInjective(enqueued)
  BY <1>1 DEF IsInjective
<1>5. 1 .. Taken = {} /\ Len(queue) <= Len(enqueued) /\ DOMAIN queue = {}
  BY <1>1
<1> QED
  BY <1>3, <1>4, <1>5 DEF QueueInv

\* A run that a step leaves alone keeps its queued messages, however many more
\* are taken or enqueued.
LEMMA OthersKeepQueued ==
  ASSUME Inv, QueueInv, NEW q \in Runs, Untouched(q), SameData(q),
         enqueued' = enqueued, Taken' \in Nat, Taken <= Taken'
  PROVE  QueuedInv(q)'
<1>1. QueuedInv(q) /\ Taken \in Nat
  <2>1. Taken \in 0 .. Len(enqueued)
    BY TakenType
  <2>2. QueuedInv(q)
    BY DEF QueueInv
  <2> QED
    BY <2>1, <2>2
<1>2. Ordered(messages[q], enqueued, Taken')
  BY <1>1, OrderedMore DEF QueuedInv
<1>3. phase[q] = "compact" => Ordered(draft[q], enqueued, Taken')
  BY <1>1, OrderedMore DEF QueuedInv
<1> QED
  BY <1>1, <1>2, <1>3 DEF QueuedInv, Untouched, SameData

\* A producer puts its message behind the others.
LEMMA EnqueueKeeps ==
  ASSUME Inv, QueueInv, NEW tag \in UserTags, Enqueue(tag)
  PROVE  QueueInv'
<1>1. /\ tag \notin ToSet(enqueued)
      /\ queue' = Append(queue, tag) /\ enqueued' = Append(enqueued, tag)
      /\ cfg' = cfg /\ UNCHANGED runVars
  BY DEF Enqueue
<1>2. /\ queue \in Seq(UserTags) /\ enqueued \in Seq(UserTags)
      /\ Len(queue) \in Nat /\ Len(enqueued) \in Nat
      /\ Taken \in 0 .. Len(enqueued) /\ Taken + Len(queue) = Len(enqueued)
  BY TakenType
<1>3. /\ DOMAIN queue = 1 .. Len(queue) /\ DOMAIN enqueued = 1 .. Len(enqueued)
      /\ Len(queue') = Len(queue) + 1 /\ Len(enqueued') = Len(enqueued) + 1
      /\ DOMAIN queue' = 1 .. (Len(queue) + 1)
      /\ DOMAIN enqueued' = 1 .. (Len(enqueued) + 1)
      /\ \A k \in 1 .. Len(queue) : queue'[k] = queue[k]
      /\ \A k \in 1 .. Len(enqueued) : enqueued'[k] = enqueued[k]
      /\ queue'[Len(queue) + 1] = tag /\ enqueued'[Len(enqueued) + 1] = tag
  BY <1>1, <1>2
<1>4. Taken' = Taken
  BY <1>2, <1>3 DEF Taken
<1>5. IsInjective(enqueued')
  <2>1. \A i, j \in DOMAIN enqueued : enqueued[i] = enqueued[j] => i = j
    BY DEF QueueInv, IsInjective
  <2>2. \A i \in DOMAIN enqueued : enqueued[i] # tag
    BY <1>1 DEF ToSet
  <2>3. \A i \in DOMAIN enqueued' : i \in DOMAIN enqueued \/ i = Len(enqueued) + 1
    BY <1>2, <1>3
  <2>4. \A i \in DOMAIN enqueued : enqueued'[i] = enqueued[i]
    BY <1>3
  <2>5. ASSUME NEW i \in DOMAIN enqueued', NEW j \in DOMAIN enqueued', enqueued'[i] = enqueued'[j]
        PROVE  i = j
    BY <1>3, <2>1, <2>2, <2>3, <2>4, <2>5
  <2> QED
    BY <2>5 DEF IsInjective
<1>6. Len(queue') <= Len(enqueued')
  BY <1>2, <1>3
<1>7. ASSUME NEW k \in DOMAIN queue' PROVE queue'[k] = enqueued'[Taken' + k]
  <2>1. CASE k \in DOMAIN queue
    <3>1. queue[k] = enqueued[Taken + k]
      BY <2>1 DEF QueueInv
    <3>2. Taken + k \in 1 .. Len(enqueued)
      BY <1>2, <1>3, <2>1
    <3> QED
      BY <1>3, <1>4, <2>1, <3>1, <3>2
  <2>2. CASE k \notin DOMAIN queue
    <3>1. k = Len(queue) + 1 /\ Taken + k = Len(enqueued) + 1
      BY <1>2, <1>3, <2>2
    <3> QED
      BY <1>3, <1>4, <3>1
  <2> QED
    BY <2>1, <2>2
<1>8. ASSUME NEW r \in Runs PROVE QueuedInv(r)'
  <2>1. QueuedInv(r)
    BY DEF QueueInv
  <2>2. Ordered(messages[r], enqueued', Taken)
    BY <1>1, <1>2, <2>1, OrderedEnqueue DEF QueuedInv
  <2>3. phase[r] = "compact" => Ordered(draft[r], enqueued', Taken)
    BY <1>1, <1>2, <2>1, OrderedEnqueue DEF QueuedInv
  <2>4. /\ messages' = messages /\ draft' = draft /\ phase' = phase /\ resp' = resp
    BY <1>1 DEF runVars
  <2> QED
    BY <1>1, <1>4, <2>1, <2>2, <2>3, <2>4 DEF QueuedInv
<1>9. \A r, q \in Runs : r # q => TagSet(messages'[r]) \cap TagSet(messages'[q]) = {}
  BY <1>1 DEF QueueInv, runVars
<1>10. ~cfg'.budget =>
          \A j \in 1 .. Taken' : \E r \in Runs : enqueued'[j] \in TagSet(messages'[r])
  <2> SUFFICES ASSUME ~cfg.budget, NEW j \in 1 .. Taken
               PROVE  \E r \in Runs : enqueued'[j] \in TagSet(messages'[r])
    BY <1>1, <1>4
  <2>1. j \in 1 .. Len(enqueued)
    BY <1>2
  <2>2. messages' = messages
    BY <1>1 DEF runVars
  <2> QED
    BY <1>3, <2>1, <2>2 DEF QueueInv
<1> QED
  BY <1>5, <1>6, <1>7, <1>8, <1>9, <1>10 DEF QueueInv

\* A run's step moves whole batches and no message twice.
LEMMA RunKeepsQueue ==
  ASSUME Inv, QueueInv, NEW r \in Runs,
         run(r) \/ Step(r) \/ \E k \in 1 .. MaxRounds : ExecuteToolCalls(r, k)
  PROVE  QueueInv'
<1>1. Effect(r) /\ QueuedInv(r)'
  BY ActorMoves
<1>2. \A q \in Runs : q # r => Untouched(q) /\ SameData(q)
  <2>1. TypeOK
    BY DEF Inv
  <2> QED
    BY <2>1, OthersUntouched, OthersSameData
<1>3. /\ queue \in Seq(UserTags) /\ enqueued \in Seq(UserTags)
      /\ Len(queue) \in Nat /\ Len(enqueued) \in Nat
      /\ Taken \in 0 .. Len(enqueued) /\ Taken + Len(queue) = Len(enqueued)
  BY TakenType
<1>4. /\ cfg' = cfg /\ enqueued' = enqueued
      /\ \/ Drains(r) /\ queue' = <<>> /\ Taken' = Len(enqueued)
         \/ LeavesQueue(r) /\ queue' = queue /\ Taken' = Taken
  <2>1. CASE Drains(r)
    <3>1. queue' = <<>> /\ enqueued' = enqueued /\ cfg' = cfg
      BY <1>1, <2>1 DEF Effect, Drains
    <3>2. Taken' = Len(enqueued)
      BY <1>3, <3>1 DEF Taken
    <3> QED
      BY <2>1, <3>1, <3>2
  <2>2. CASE LeavesQueue(r)
    <3>1. queue' = queue /\ enqueued' = enqueued /\ cfg' = cfg
      BY <1>1, <2>2 DEF Effect, LeavesQueue
    <3>2. Taken' = Taken
      BY <3>1 DEF Taken
    <3> QED
      BY <2>2, <3>1, <3>2
  <2> QED
    BY <1>1, <2>1, <2>2 DEF Effect
<1>5. Taken' \in Nat /\ Taken <= Taken'
  BY <1>3, <1>4
<1>6. ASSUME NEW q \in Runs PROVE QueuedInv(q)'
  BY <1>1, <1>2, <1>4, <1>5, OthersKeepQueued
<1>7. /\ Len(queue') <= Len(enqueued')
      /\ \A k \in DOMAIN queue' : queue'[k] = enqueued'[Taken' + k]
  <2>1. CASE queue' = <<>>
    BY <1>3, <1>4, <2>1
  <2>2. CASE queue' = queue /\ Taken' = Taken
    BY <1>4, <2>2 DEF QueueInv
  <2> QED
    BY <1>4, <2>1, <2>2
<1>8. ASSUME NEW q \in Runs, q # r
      PROVE  TagSet(messages'[r]) \cap TagSet(messages'[q]) = {}
  <2>1. messages'[q] = messages[q]
    BY <1>2, <1>8 DEF SameData
  <2>2. TagSet(messages[r]) \cap TagSet(messages[q]) = {}
    BY <1>8 DEF QueueInv
  <2>3. ToSet(queue) \cap TagSet(messages[q]) = {}
    BY HeldBefore
  <2>4. TagSet(messages'[r]) \subseteq TagSet(messages[r]) \cup ToSet(queue)
    BY <1>4 DEF Drains, LeavesQueue
  <2> QED
    BY <2>1, <2>2, <2>3, <2>4
<1>9. ASSUME NEW p \in Runs, NEW q \in Runs, p # q
      PROVE  TagSet(messages'[p]) \cap TagSet(messages'[q]) = {}
  <2>1. CASE p # r /\ q # r
    <3>1. messages'[p] = messages[p] /\ messages'[q] = messages[q]
      BY <1>2, <2>1 DEF SameData
    <3> QED
      BY <1>9, <3>1 DEF QueueInv
  <2>2. CASE p = r
    BY <1>8, <1>9, <2>2
  <2>3. CASE q = r
    BY <1>8, <1>9, <2>3
  <2> QED
    BY <2>1, <2>2, <2>3
<1>10. ASSUME ~cfg.budget, NEW j \in 1 .. Taken'
       PROVE  \E q \in Runs : enqueued[j] \in TagSet(messages'[q])
  <2>1. ASSUME NEW q \in Runs PROVE TagSet(messages[q]) \subseteq TagSet(messages'[q])
    <3>1. CASE q = r
      BY <1>4, <1>10, <3>1 DEF Drains, LeavesQueue
    <3>2. CASE q # r
      BY <1>2, <3>2 DEF SameData
    <3> QED
      BY <3>1, <3>2
  <2>2. CASE j \in 1 .. Taken
    <3>1. PICK q \in Runs : enqueued[j] \in TagSet(messages[q])
      BY <1>10, <2>2 DEF QueueInv
    <3> QED
      BY <2>1, <3>1
  <2>3. CASE j \notin 1 .. Taken
    <3>1. Drains(r) /\ Taken' = Len(enqueued)
      BY <1>4, <2>3
    <3>2. j - Taken \in 1 .. Len(queue) /\ Taken + (j - Taken) = j
      BY <1>3, <2>3, <3>1
    <3>3. j - Taken \in DOMAIN queue
      BY <1>3, <3>2
    <3>4. queue[j - Taken] = enqueued[j]
      BY <3>2, <3>3 DEF QueueInv
    <3>5. enqueued[j] \in ToSet(queue)
      BY <3>3, <3>4 DEF ToSet
    <3> QED
      BY <3>1, <3>5 DEF Drains
  <2> QED
    BY <2>2, <2>3
<1>11. IsInjective(enqueued')
  BY <1>4 DEF QueueInv
<1>12. ~cfg'.budget =>
          \A j \in 1 .. Taken' : \E q \in Runs : enqueued'[j] \in TagSet(messages'[q])
  BY <1>4, <1>10
<1> QED
  BY <1>6, <1>7, <1>9, <1>11, <1>12 DEF QueueInv

\* The invariant is inductive.
LEMMA QueueStep == Inv /\ QueueInv /\ [Next]_vars => QueueInv'
<1> SUFFICES ASSUME Inv, QueueInv, [Next]_vars PROVE QueueInv'
  OBVIOUS
<1>1. CASE UNCHANGED vars
  BY <1>1 DEF vars, runVars, QueueInv, QueuedInv, Taken
<1>2. CASE Next
  BY <1>2, EnqueueKeeps, RunKeepsQueue DEF Next
<1> QED
  BY <1>1, <1>2

\* It holds throughout every behaviour.
LEMMA QueueAlways == Spec => []QueueInv
<1>1. Inv /\ QueueInv /\ [Next]_vars => QueueInv'
  BY QueueStep
<1> QED
  BY <1>1, QueueInit, InvAlways, PTL DEF Spec

\* A set of which any two members are equal has at most one.
LEMMA AtMostOne ==
  ASSUME NEW S, \A x, y \in S : x = y
  PROVE  Cardinality(S) <= 1
<1>1. CASE S = {}
  BY <1>1, FS_EmptySet
<1>2. CASE S # {}
  <2>1. PICK x : x \in S
    BY <1>2
  <2>2. S = {x}
    BY <2>1
  <2> QED
    BY <2>2, FS_Singleton
<1> QED
  BY <1>1, <1>2

\* A queued user message is delivered exactly once and in order: it is in the
\* queue or in one run's transcript, nothing but an eviction loses it, and what a
\* caller gets back holds all the messages its run took (acceptQueuedUserMessages,
\* continueWithQueued).
THEOREM QueuedDeliveredOnce == Spec => []QueuedExactlyOnce
<1>1. Inv /\ QueueInv => QueuedExactlyOnce
  <2> SUFFICES ASSUME Inv, QueueInv PROVE QueuedExactlyOnce
    OBVIOUS
  <2> DEFINE InQueue(tag) == { <<"queue", k>> : k \in { j \in DOMAIN queue : queue[j] = tag } }
             In(r, tag) == { <<r, k>> : k \in { j \in DOMAIN messages[r] :
                                                 messages[r][j].tag = tag } }
             places(tag) == InQueue(tag) \cup UNION { In(r, tag) : r \in Runs }
  <2>t. /\ queue \in Seq(UserTags) /\ enqueued \in Seq(UserTags)
        /\ Len(queue) \in Nat /\ Len(enqueued) \in Nat
        /\ Taken \in 0 .. Len(enqueued) /\ Taken + Len(queue) = Len(enqueued)
    BY TakenType
  <2>m. \A r \in Runs : messages[r] \in Seq(Message)
    BY DataTypes
  <2>e. \A i, j \in DOMAIN enqueued : enqueued[i] = enqueued[j] => i = j
    BY DEF QueueInv, IsInjective
  <2>1. ASSUME NEW tag \in ToSet(enqueued) PROVE Cardinality(places(tag)) <= 1
    <3>0. tag # NoTag
      BY <2>t, TranscriptAssumption DEF ToSet
    <3>1. ASSUME NEW j \in DOMAIN queue, NEW k \in DOMAIN queue, queue[j] = tag, queue[k] = tag
          PROVE  j = k
      <4>1. /\ queue[j] = enqueued[Taken + j] /\ queue[k] = enqueued[Taken + k]
        BY DEF QueueInv
      <4>2. Taken + j \in DOMAIN enqueued /\ Taken + k \in DOMAIN enqueued
        BY <2>t
      <4>3. Taken + j = Taken + k
        BY <2>e, <3>1, <4>1, <4>2
      <4> QED
        BY <2>t, <4>3
    <3>2. ASSUME NEW r \in Runs, NEW j \in DOMAIN messages[r], messages[r][j].tag = tag
          PROVE  tag \in TagSet(messages[r]) /\ tag \notin ToSet(queue)
      <4>1. tag \in TagSet(messages[r])
        BY <3>0, <3>2 DEF TagSet
      <4> QED
        BY <4>1, HeldBefore
    <3>3. ASSUME NEW r \in Runs, NEW j \in DOMAIN messages[r], NEW k \in DOMAIN messages[r],
                 messages[r][j].tag = tag, messages[r][k].tag = tag
          PROVE  j = k
      <4>1. PICK i \in DOMAIN enqueued : enqueued[i] = tag
        BY DEF ToSet
      <4>2. Ordered(messages[r], enqueued, Taken)
        BY DEF QueueInv, QueuedInv
      <4>3. ~(j < k) /\ ~(k < j)
        BY <2>t, <3>3, <4>1, <4>2 DEF Ordered
      <4>4. j \in Nat /\ k \in Nat
        BY <2>m
      <4> QED
        BY <4>3, <4>4
    <3>4. ASSUME NEW r \in Runs, NEW q \in Runs, tag \in TagSet(messages[r]),
                 tag \in TagSet(messages[q])
          PROVE  r = q
      BY <3>4 DEF QueueInv
    <3>5. ASSUME NEW x \in places(tag), NEW y \in places(tag) PROVE x = y
      <4>1. \/ \E j \in DOMAIN queue : queue[j] = tag /\ x = <<"queue", j>>
            \/ \E r \in Runs : \E j \in DOMAIN messages[r] :
                 messages[r][j].tag = tag /\ x = <<r, j>>
        OBVIOUS
      <4>2. \/ \E j \in DOMAIN queue : queue[j] = tag /\ y = <<"queue", j>>
            \/ \E r \in Runs : \E j \in DOMAIN messages[r] :
                 messages[r][j].tag = tag /\ y = <<r, j>>
        OBVIOUS
      <4>3. \A j \in DOMAIN queue : queue[j] = tag => tag \in ToSet(queue)
        BY DEF ToSet
      <4>4. CASE \E j \in DOMAIN queue : queue[j] = tag /\ x = <<"queue", j>>
        BY <3>1, <3>2, <4>2, <4>3, <4>4
      <4>5. CASE \E r \in Runs : \E j \in DOMAIN messages[r] :
                   messages[r][j].tag = tag /\ x = <<r, j>>
        <5>1. PICK r \in Runs : \E j \in DOMAIN messages[r] :
                messages[r][j].tag = tag /\ x = <<r, j>>
          BY <4>5
        <5>2. PICK j \in DOMAIN messages[r] : messages[r][j].tag = tag /\ x = <<r, j>>
          BY <5>1
        <5>3. tag \in TagSet(messages[r]) /\ tag \notin ToSet(queue)
          BY <3>2, <5>2
        <5>4. PICK q \in Runs : \E k \in DOMAIN messages[q] :
                messages[q][k].tag = tag /\ y = <<q, k>>
          BY <4>2, <4>3, <5>3
        <5>5. PICK k \in DOMAIN messages[q] : messages[q][k].tag = tag /\ y = <<q, k>>
          BY <5>4
        <5>6. q = r
          BY <3>2, <3>4, <5>3, <5>5
        <5> QED
          BY <3>3, <5>2, <5>5, <5>6
      <4> QED
        BY <4>1, <4>4, <4>5
    <3> HIDE DEF places
    <3> QED
      BY <3>5, AtMostOne
  <2>2. ASSUME NEW tag \in ToSet(enqueued), ~cfg.budget PROVE places(tag) # {}
    <3>1. PICK i \in DOMAIN enqueued : enqueued[i] = tag
      BY DEF ToSet
    <3>2. CASE i \in 1 .. Taken
      <4>1. PICK r \in Runs : tag \in TagSet(messages[r])
        BY <2>2, <3>1, <3>2 DEF QueueInv
      <4>2. PICK k \in DOMAIN messages[r] : messages[r][k].tag = tag
        BY <4>1 DEF TagSet
      <4>3. <<r, k>> \in places(tag)
        BY <4>2
      <4> QED
        BY <4>3
    <3>3. CASE i \notin 1 .. Taken
      <4>1. i - Taken \in DOMAIN queue /\ Taken + (i - Taken) = i
        BY <2>t, <3>3
      <4>2. queue[i - Taken] = tag
        BY <3>1, <4>1 DEF QueueInv
      <4>3. <<"queue", i - Taken>> \in places(tag)
        BY <4>1, <4>2
      <4> QED
        BY <4>3
    <3> QED
      BY <3>2, <3>3
  <2>3. ASSUME NEW r \in Runs
        PROVE  \A i, j \in DOMAIN TagsIn(messages[r]) : \A k, l \in DOMAIN enqueued :
                  i < j /\ TagsIn(messages[r])[i] = enqueued[k]
                        /\ TagsIn(messages[r])[j] = enqueued[l] => k < l
    <3>1. Ordered(messages[r], enqueued, Taken)
      BY DEF QueueInv, QueuedInv
    <3> QED
      BY <2>m, <2>t, <3>1, TagsOrdered
  <2>4. \A r \in Runs : phase[r] = "returned" =>
           TagsIn(resp[r].messages) = TagsIn(messages[r])
    BY DEF QueueInv, QueuedInv, Ended
  <2> HIDE DEF places
  <2>5. \A tag \in ToSet(enqueued) : /\ Cardinality(places(tag)) <= 1
                                     /\ ~cfg.budget => places(tag) # {}
    BY <2>1, <2>2
  <2> QED
    BY <2>3, <2>4, <2>5 DEF QueuedExactlyOnce, places
<1> QED
  BY <1>1, InvAlways, QueueAlways, PTL
=============================================================================

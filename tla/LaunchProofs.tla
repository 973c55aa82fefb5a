----------------------------- MODULE LaunchProofs -----------------------------
(***************************************************************************)
(* One call of Run or RunInto, with any number of settings, rounds, tools  *)
(* and replies: the caller's value is written whole or not at all, every   *)
(* run is billed, the two gates agree, and nothing is sent that the driver *)
(* disclaims.                                                              *)
(***************************************************************************)
EXTENDS Launch, TLAPS

-----------------------------------------------------------------------------
(* Outcomes, bills and the caller's value. *)

\* What a run can leave.
Outcomes ==
  [none : BOOLEAN, ok : BOOLEAN, usage : Nat, text : {"", "conforming", "loose", "broken"},
   finish : Finishes \cup {Unset}, calls : BOOLEAN]

\* Types.
TypeInv ==
  /\ pc \in {"build", "run", "round", "sent", "returned", "done"}
  /\ reply \in Outcomes /\ first \in Outcomes
  /\ runs \in 0 .. 2
  /\ billed \in Nat

\* A nil response carries nothing, and comes beside an error.
NilInv == reply.none => reply.usage = 0 /\ ~reply.ok

\* Where a call has not begun, or has just begun a run, there is no outcome.
BeginInv ==
  /\ pc = "build" => runs = 0 /\ billed = 0
  /\ pc \in {"build", "run"} => reply = Nothing
  /\ pc \in {"run", "round", "sent", "returned"} => runs \in {1, 2}
  /\ runs = 2 => request.into

\* What is billed is in the outcomes.
BillInv ==
  pc # "done" => billed = reply.usage + IF runs = 2 THEN first.usage ELSE 0

\* A second run repairs a first that allowed it.
SecondInv ==
  runs = 2 => /\ request.repair /\ ~IsRefusal(first.finish) /\ ~IsTruncated(first.finish)
              /\ ~(first.text = "conforming")
              /\ ~first.none

\* The inductive invariant of outcomes, bills and the value.
CallInv ==
  /\ TypeInv /\ NilInv /\ BeginInv /\ BillInv /\ SecondInv
  /\ pc # "done" => target = <<>>
  /\ TargetWhole /\ RepairAccounted

\* An outcome has the fields it is built from.
LEMMA OutcomeType ==
  ASSUME NEW ok \in BOOLEAN, NEW usage \in Nat, NEW calls \in BOOLEAN,
         NEW text \in {"", "conforming", "loose", "broken"}, NEW finish \in Finishes \cup {Unset}
  PROVE  /\ Outcome(ok, usage, text, finish, calls) \in Outcomes
         /\ Outcome(ok, usage, text, finish, calls).usage = usage
         /\ Outcome(ok, usage, text, finish, calls).ok = ok
         /\ ~Outcome(ok, usage, text, finish, calls).none
  BY DEF Outcome, Outcomes

\* What a run that fails leaves.
LEMMA FailureType ==
  ASSUME NEW usage \in Nat
  PROVE  /\ Outcome(FALSE, usage, "", Unset, FALSE) \in Outcomes
         /\ Outcome(FALSE, usage, "", Unset, FALSE).usage = usage
         /\ ~Outcome(FALSE, usage, "", Unset, FALSE).ok
         /\ ~Outcome(FALSE, usage, "", Unset, FALSE).none
  BY DEF Outcome, Outcomes

\* A nil response carries no usage and no answer.
LEMMA NothingType == Nothing \in Outcomes /\ Nothing.none /\ ~Nothing.ok /\ Nothing.usage = 0
  BY DEF Nothing, Outcome, Outcomes

\* A call starts in the invariant.
LEMMA CallInit == Init => CallInv
<1> SUFFICES ASSUME Init PROVE CallInv
  OBVIOUS
<1>1. /\ pc = "build" /\ runs = 0 /\ billed = 0 /\ target = <<>>
      /\ reply = Nothing /\ first = Nothing
  BY DEF Init
<1>2. TypeInv
  BY <1>1, NothingType DEF TypeInv
<1> QED
  BY <1>1, <1>2, NothingType
     DEF CallInv, NilInv, BeginInv, BillInv, SecondInv, TargetWhole, RepairAccounted

\* A step that leaves the call alone.
LEMMA CallStutter ==
  ASSUME CallInv, UNCHANGED <<request, pc, reply, first, runs, billed, target>>
  PROVE  CallInv'
  BY DEF CallInv, TypeInv, NilInv, BeginInv, BillInv, SecondInv, TargetWhole, RepairAccounted

\* Steps that change neither the outcome nor the bill.
LEMMA SetCall == ASSUME CallInv, NEW r, set(r) PROVE CallInv'
  BY DEF set, callVars, CallInv, TypeInv, NilInv, BeginInv, BillInv, SecondInv, TargetWhole,
         RepairAccounted

\* Run keeps it: a plain run has no value to write.
LEMMA RunCall == ASSUME CallInv, Run PROVE CallInv'
  BY DEF Run, CallInv, TypeInv, NilInv, BeginInv, BillInv, SecondInv, TargetWhole, RepairAccounted

\* RunInto keeps it, also when the pointer is nil.
LEMMA RunIntoCall == ASSUME CallInv, NEW pointer \in BOOLEAN, RunInto(pointer) PROVE CallInv'
  BY NothingType
     DEF RunInto, CallInv, TypeInv, NilInv, BeginInv, BillInv, SecondInv, TargetWhole, RepairAccounted

\* Validation keeps it, whether it passes or fails.
LEMMA ValidateCall == ASSUME CallInv, run PROVE CallInv'
  BY NothingType
     DEF run, CallInv, TypeInv, NilInv, BeginInv, BillInv, SecondInv, TargetWhole, RepairAccounted

\* A run that ends in an error keeps what it has billed.
LEMMA FailsCall ==
  ASSUME CallInv, pc = "round", NEW who, Fails(who),
         UNCHANGED <<request, runs, first, billed, target>>
  PROVE  CallInv'
<1>1. reply.usage \in Nat
  BY DEF CallInv, TypeInv, Outcomes
<1>2. /\ reply' \in Outcomes /\ reply'.usage = reply.usage /\ ~reply'.ok /\ ~reply'.none
      /\ pc' = "returned"
  BY <1>1, FailureType DEF Fails
<1> QED
  BY <1>2 DEF CallInv, TypeInv, NilInv, BeginInv, BillInv, SecondInv, TargetWhole, RepairAccounted

\* The gates of a round keep it: a refused round charges nothing.
LEMMA NextRoundCall == ASSUME CallInv, NEW tools, nextRound(tools) PROVE CallInv'
<1> DEFINE req == DriverRequest(current, UNION tools)
<1>1. pc = "round" /\ UNCHANGED <<request, runs, first, billed, target>>
  BY DEF nextRound
<1>2. (\E who : Fails(who)) \/ (pc' = "sent" /\ UNCHANGED reply)
  BY DEF nextRound
<1>3. CASE \E who : Fails(who)
  BY <1>1, <1>3, FailsCall
<1>4. CASE pc' = "sent" /\ UNCHANGED reply
  BY <1>1, <1>4
     DEF CallInv, TypeInv, NilInv, BeginInv, BillInv, SecondInv, TargetWhole, RepairAccounted
<1> QED
  BY <1>2, <1>3, <1>4

\* A tool provider that fails keeps it.
LEMMA ProvideCall == ASSUME CallInv, provideToolsFails PROVE CallInv'
  BY FailsCall DEF provideToolsFails

\* The provider's reply, or its failure, is billed and counted.
LEMMA BilledCall ==
  ASSUME CallInv, pc = "sent", NEW charge \in Nat,
         billed' = billed + charge, reply' \in Outcomes, reply'.usage = reply.usage + charge,
         ~reply'.none, pc' \in {"round", "returned"},
         UNCHANGED <<request, runs, first, target>>
  PROVE  CallInv'
<1>1. TypeInv' /\ NilInv' /\ BeginInv' /\ SecondInv'
  BY DEF CallInv, TypeInv, NilInv, BeginInv, SecondInv
<1>2. BillInv'
  <2>1. reply.usage \in Nat /\ first.usage \in Nat
    BY DEF CallInv, TypeInv, Outcomes
  <2> QED
    BY <2>1 DEF CallInv, BillInv
<1>3. TargetWhole' /\ RepairAccounted'
  BY DEF CallInv, TargetWhole, RepairAccounted
<1> QED
  BY <1>1, <1>2, <1>3 DEF CallInv

\* An answer keeps it: the provider's charge is in the reply.
LEMMA AnsweredCall ==
  ASSUME CallInv, NEW text \in {"conforming", "loose", "broken"}, NEW finish \in Finishes,
         answered(text, finish)
  PROVE  CallInv'
<1>1. /\ pc = "sent" /\ billed' = billed + 1 /\ UNCHANGED <<request, runs, first, target>>
      /\ pc' \in {"round", "returned"}
  BY DEF answered
<1>2. reply.usage + 1 \in Nat
  <2>1. reply.usage \in Nat
    BY DEF CallInv, TypeInv, Outcomes
  <2> QED
    BY <2>1
<1>3. /\ reply' \in Outcomes /\ reply'.usage = reply.usage + 1 /\ ~reply'.none
  <2>1. PICK ok \in BOOLEAN, calls \in BOOLEAN, t \in {"", "conforming", "loose", "broken"} :
          reply' = Outcome(ok, reply.usage + 1, t, finish, calls)
    <3> DEFINE calls == finish = "tool_calls"
               last == calls => round' < current.limits.rounds
    <3>1. \/ reply' = Outcome(FALSE, reply.usage + 1, "", finish, FALSE)
          \/ reply' = Outcome(last, reply.usage + 1, text, finish, calls)
      BY DEF answered
    <3>2. last \in BOOLEAN /\ calls \in BOOLEAN
      BY Zenon
    <3> HIDE DEF calls, last
    <3>3. CASE reply' = Outcome(FALSE, reply.usage + 1, "", finish, FALSE)
      BY <3>3, Zenon
    <3>4. CASE reply' = Outcome(last, reply.usage + 1, text, finish, calls)
      BY <3>2, <3>4, Zenon
    <3> QED
      BY <3>1, <3>3, <3>4
  <2> QED
    BY <1>2, <2>1 DEF Outcome, Outcomes
<1> QED
  BY <1>1, <1>3, BilledCall

\* A provider that fails keeps it, charged or not.
LEMMA ProviderFailsCall ==
  ASSUME CallInv, NEW charged \in {0, 1}, providerFails(charged) PROVE CallInv'
<1>1. reply.usage + charged \in Nat
  <2>1. reply.usage \in Nat
    BY DEF CallInv, TypeInv, Outcomes
  <2> QED
    BY <2>1
<1>2. /\ reply' \in Outcomes /\ reply'.usage = reply.usage + charged /\ ~reply'.none
  BY <1>1, FailureType DEF providerFails
<1> QED
  BY <1>2, BilledCall DEF providerFails

\* The return of a run keeps it: Run is done, RunInto goes on to decode.
LEMMA RunReturnsCall == ASSUME CallInv, runReturns PROVE CallInv'
<1>1. /\ pc' = "done" /\ ~request.into /\ runs # 2 /\ billed = reply.usage /\ target = <<>>
      /\ UNCHANGED <<request, reply, first, runs, billed, target>>
  <2>1. reply.usage \in Nat
    BY DEF CallInv, TypeInv, Outcomes
  <2> QED
    BY <2>1 DEF runReturns, CallInv, BeginInv, BillInv
<1> QED
  BY <1>1 DEF CallInv, TypeInv, NilInv, BeginInv, BillInv, SecondInv, TargetWhole, RepairAccounted

\* RunInto's end, or the start of its repair.
LEMMA DecodeCall == ASSUME CallInv, decodeReply PROVE CallInv'
<1>1. /\ pc = "returned" /\ request.into /\ target = <<>>
      /\ UNCHANGED <<request, billed>>
      /\ reply \in Outcomes /\ first \in Outcomes /\ runs \in {1, 2} /\ billed \in Nat
      /\ reply.usage \in Nat /\ first.usage \in Nat
      /\ billed = reply.usage + IF runs = 2 THEN first.usage ELSE 0
  BY DEF decodeReply, CallInv, TypeInv, BeginInv, BillInv, Outcomes
<1>2. CASE /\ reply.ok /\ ~decode(request, reply) /\ runs = 1
           /\ request.repair /\ isRepairableFinish(reply.finish)
  <2>1. /\ pc' = "run" /\ runs' = 2 /\ first' = reply /\ reply' = Nothing
        /\ UNCHANGED target
    BY <1>2 DEF decodeReply
  <2>2. ~reply.none
    BY <1>2 DEF CallInv, NilInv
  <2>3. /\ ~IsRefusal(reply.finish) /\ ~IsTruncated(reply.finish)
        /\ ~(reply.text = "conforming")
    BY <1>2 DEF isRepairableFinish, decode
  <2>4. billed = reply'.usage + first'.usage
    BY <1>1, <1>2, <2>1, NothingType
  <2> QED
    BY <1>1, <1>2, <2>1, <2>2, <2>3, <2>4, NothingType
       DEF CallInv, TypeInv, NilInv, BeginInv, BillInv, SecondInv, TargetWhole, RepairAccounted
<1>3. CASE ~(/\ reply.ok /\ ~decode(request, reply) /\ runs = 1
             /\ request.repair /\ isRepairableFinish(reply.finish))
  <2>1. /\ pc' = "done" /\ UNCHANGED <<runs, first>>
        /\ reply' = [Joined EXCEPT !.ok = @ /\ decode(request, reply)]
        /\ target' = IF reply.ok /\ decode(request, reply)
                     THEN Append(target, reply.text) ELSE target
    BY <1>3 DEF decodeReply
  <2>2. decode(request, reply) \in BOOLEAN
    BY DEF decode
  <2>3. /\ Joined \in Outcomes /\ Joined.usage = billed
        /\ Joined.ok <=> reply.ok
        /\ reply.ok => Joined.finish = reply.finish
        /\ Joined.none => billed = 0
    <3>1. CASE runs = 1
      BY <1>1, <3>1 DEF Joined, CallInv, NilInv
    <3>2. CASE runs = 2 /\ reply.none
      <4>1. Joined = [first EXCEPT !.ok = FALSE]
        BY <3>2 DEF Joined
      <4>2. ~first.none /\ ~reply.ok /\ reply.usage = 0
        BY <3>2 DEF CallInv, NilInv, SecondInv
      <4>3. Joined.none = first.none /\ Joined.ok = FALSE /\ Joined.usage = first.usage
        BY <1>1, <4>1 DEF Outcomes
      <4>4. Joined \in Outcomes
        BY <1>1, <4>1 DEF Outcomes
      <4>5. billed = first.usage
        BY <1>1, <3>2, <4>2
      <4> QED
        BY <4>2, <4>3, <4>4, <4>5
    <3>3. CASE runs = 2 /\ ~reply.none
      <4>1. Joined = [reply EXCEPT !.usage = @ + first.usage]
        BY <3>3 DEF Joined, accumulateStructuredResponses
      <4> QED
        BY <1>1, <3>3, <4>1 DEF Outcomes
    <3> QED
      BY <1>1, <3>1, <3>2, <3>3
  <2>4. /\ reply' \in Outcomes /\ reply'.usage = billed
        /\ reply'.ok <=> reply.ok /\ decode(request, reply)
        /\ reply.ok => reply'.finish = reply.finish
        /\ reply'.none => billed = 0
    BY <2>1, <2>2, <2>3 DEF Outcomes
  <2>5. TypeInv' /\ BeginInv' /\ BillInv' /\ SecondInv'
    BY <1>1, <2>1, <2>4 DEF CallInv, TypeInv, BeginInv, BillInv, SecondInv
  <2>6. NilInv'
    <3>1. reply.ok => ~Joined.none
      BY <1>1 DEF Joined, CallInv, NilInv, accumulateStructuredResponses, Outcomes
    <3> QED
      BY <1>1, <2>1, <2>3, <2>4, <3>1 DEF NilInv, Outcomes
  <2>7. TargetWhole'
    <3>1. CASE reply.ok /\ decode(request, reply)
      <4>1. target' = <<reply.text>> /\ Len(target') = 1 /\ target'[1] = reply.text
        BY <1>1, <2>1, <3>1
      <4> QED
        BY <1>1, <2>1, <2>4, <3>1, <4>1 DEF TargetWhole, decode
    <3>2. CASE ~(reply.ok /\ decode(request, reply))
      BY <1>1, <2>1, <2>4, <3>2 DEF TargetWhole
    <3> QED
      BY <3>1, <3>2
  <2>8. RepairAccounted'
    BY <1>1, <2>1, <2>4 DEF CallInv, RepairAccounted
  <2> QED
    BY <2>1, <2>5, <2>6, <2>7, <2>8 DEF CallInv
<1> QED
  BY <1>2, <1>3

\* Every step keeps the invariant.
LEMMA CallNext == CallInv /\ [Next]_vars => CallInv'
<1> SUFFICES ASSUME CallInv, [Next]_vars PROVE CallInv'
  OBVIOUS
<1>1. CASE UNCHANGED vars
  BY <1>1, CallStutter DEF vars, callVars
<1>2. CASE \E r : set(r)
  BY <1>2, SetCall
<1>3. CASE Run \/ \E pointer \in BOOLEAN : RunInto(pointer)
  BY <1>3, RunCall, RunIntoCall
<1>4. CASE run \/ runReturns \/ decodeReply \/ provideToolsFails
  BY <1>4, ValidateCall, RunReturnsCall, DecodeCall, ProvideCall
<1>5. CASE \E tools \in resolveTools : nextRound(tools)
  BY <1>5, NextRoundCall
<1>6. CASE \E text \in Replies, finish \in Finishes : answered(text, finish)
  BY <1>6, AnsweredCall DEF Replies
<1>7. CASE \E charged \in {0, 1} : providerFails(charged)
  BY <1>7, ProviderFailsCall
<1> QED
  BY <1>1, <1>2, <1>3, <1>4, <1>5, <1>6, <1>7 DEF Next

\* The bookkeeping invariant holds throughout.
THEOREM CallInvariant == Spec => []CallInv
  BY CallInit, CallNext, PTL DEF Spec

\* RunInto writes the caller's value once, with a whole reply that passed every
\* check, or returns an error and leaves it alone, however many rounds and
\* failures its runs had (decode and runInto).
THEOREM TargetStaysWhole == Spec => []TargetWhole
  BY CallInvariant, PTL DEF CallInv

\* At most one repair, only of what may be repaired, and the usage returned is
\* what all runs were charged, on success and on error (runInto and
\* accumulateStructuredResponses).
THEOREM EveryRunIsBilled == Spec => []RepairAccounted
  BY CallInvariant, PTL DEF CallInv

-----------------------------------------------------------------------------
(* The two gates.  Requests have their types, whatever is set. *)

\* Every string: the provers do not know of a literal that it is one.
Word == STRING \cup {Unset, "text", "json_schema"}

\* Models, formats, choices and limits with such words.
Models ==
  [ID : Seq(STRING), ContextSize : Int, SupportsReasoning : BOOLEAN,
   ReasoningLevels : [Min : Word, Low : Word, Medium : Word, High : Word, Max : Word]]

Formats == [type : Word, named : BOOLEAN, object : BOOLEAN]

ToolChoices == [mode : Word, name : Word]

\* What a caller may set.
ParamsType ==
  [effort : Word, format : SUBSET Formats, choice : ToolChoices,
   parallel : SUBSET BOOLEAN, temperature : BOOLEAN, penalty : BOOLEAN, seed : BOOLEAN,
   maxOutput : SUBSET Int, stop : Int, extra : SUBSET STRING, maxTokens : {{}},
   wireEffort : {Unset}]

LimitsType ==
  [rounds : Int, concurrent : Int, context : Int, reserve : SUBSET Int,
   toolResult : Int, timeout : Int]

\* A request.
RequestType ==
  [driver : {"openai", "anthropic", "zai"}, clientModel : Models, override : BOOLEAN,
   claims : CapabilitiesType,
   model : Models, params : ParamsType, parts : SUBSET Word,
   tools : SUBSET (SUBSET ToolType), provider : BOOLEAN, force : BOOLEAN,
   limits : LimitsType, strict : BOOLEAN, repair : BOOLEAN, transcriptRepair : BOOLEAN,
   into : BOOLEAN, dangling : BOOLEAN]

\* What the setters take fits the types below.
LEMMA SettingTypes ==
  /\ ModelType \subseteq Models /\ FormatType \subseteq Formats /\ ChoiceType \subseteq ToolChoices
  /\ STRING \subseteq Word
  BY DEF ModelType, Models, FormatType, Formats, ChoiceType, ToolChoices, Word

\* NewRequest makes a request.
LEMMA NewRequestType ==
  ASSUME NEW client \in Clients PROVE NewRequest(client) \in RequestType
<1>1. /\ client.driver \in {"openai", "anthropic", "zai"} /\ client.model \in Models
      /\ client.override \in BOOLEAN /\ client.claims \in CapabilitiesType
  BY LaunchAssumption, SettingTypes
<1>2. BareModel(<<>>) \in Models
  <2>1. \A no \in BOOLEAN :
          [ID |-> <<>>, ContextSize |-> 0, SupportsReasoning |-> no,
           ReasoningLevels |-> NoLevels] \in Models
    BY DEF NoLevels, Models, Word
  <2> QED
    BY <2>1, Zenon DEF BareModel, Model
<1>3. NoParams \in ParamsType
  <2>1. \A no \in BOOLEAN :
          [effort |-> Unset, format |-> {}, choice |-> [mode |-> Unset, name |-> ""],
           parallel |-> {}, temperature |-> no, penalty |-> no, seed |-> no,
           maxOutput |-> {}, stop |-> 0, extra |-> {}, maxTokens |-> {}, wireEffort |-> Unset]
            \in ParamsType
    BY DEF ParamsType, ToolChoices, Word, Unset
  <2> QED
    BY <2>1, Zenon DEF NoParams
<1>4. [rounds |-> 2, concurrent |-> 1, context |-> 0, reserve |-> {},
       toolResult |-> 0, timeout |-> 0] \in LimitsType
  BY DEF LimitsType
<1>5. \A no \in BOOLEAN, yes \in BOOLEAN :
        [driver |-> client.driver, clientModel |-> client.model, override |-> client.override,
         claims |-> client.claims,
         model |-> BareModel(<<>>), params |-> NoParams, parts |-> {"text"},
         tools |-> {}, provider |-> no, force |-> yes,
         limits |-> [rounds |-> 2, concurrent |-> 1, context |-> 0, reserve |-> {},
                     toolResult |-> 0, timeout |-> 0],
         strict |-> no, repair |-> no, transcriptRepair |-> no,
         into |-> no, dangling |-> no] \in RequestType
  <2> SUFFICES ASSUME NEW no \in BOOLEAN, NEW yes \in BOOLEAN
               PROVE  [driver |-> client.driver, clientModel |-> client.model,
                       override |-> client.override,
                       claims |-> client.claims,
                       model |-> BareModel(<<>>), params |-> NoParams, parts |-> {"text"},
                       tools |-> {}, provider |-> no, force |-> yes,
                       limits |-> [rounds |-> 2, concurrent |-> 1, context |-> 0, reserve |-> {},
                                   toolResult |-> 0, timeout |-> 0],
                       strict |-> no, repair |-> no, transcriptRepair |-> no,
                       into |-> no, dangling |-> no] \in RequestType
    OBVIOUS
  <2>1. "text" \in Word
    BY DEF Word
  <2> QED
    BY <1>1, <1>2, <1>3, <1>4, <2>1 DEF RequestType
<1> QED
  BY <1>5, Zenon DEF NewRequest

\* Each setter leaves a request: the prompt,
LEMMA WithPromptType ==
  ASSUME NEW r \in RequestType, NEW s \in WithPrompt(r) PROVE s \in RequestType
<1>1. PICK p \in Word : s = [r EXCEPT !.parts = @ \cup {p}]
  BY LaunchAssumption, SettingTypes DEF WithPrompt
<1>2. r.parts \cup {p} \in SUBSET Word
  BY DEF RequestType
<1> QED
  BY <1>1, <1>2 DEF RequestType

\* the model,
LEMMA WithModelType ==
  ASSUME NEW r \in RequestType, NEW s \in WithModel(r) PROVE s \in RequestType
  BY LaunchAssumption, SettingTypes DEF WithModel, RequestType

\* the tools,
LEMMA WithToolsType ==
  ASSUME NEW r \in RequestType, NEW s \in WithTools(r) PROVE s \in RequestType
<1>1. \A b \in BOOLEAN : [r EXCEPT !.provider = b] \in RequestType
  BY DEF RequestType
<1>2. CASE s = [r EXCEPT !.provider = TRUE]
  BY <1>1, <1>2, Zenon
<1>3. CASE \E list \in Values.tools : s = [r EXCEPT !.tools = list]
  BY <1>3, LaunchAssumption DEF RequestType
<1> QED
  BY <1>2, <1>3 DEF WithTools

\* the checks of a reply,
LEMMA WithChecksType ==
  ASSUME NEW r \in RequestType, NEW s \in WithChecks(r) PROVE s \in RequestType
  BY DEF WithChecks, RequestType

\* the parameters as a whole,
LEMMA WithParamsType ==
  ASSUME NEW r \in RequestType, NEW p \in ParamsType PROVE [r EXCEPT !.params = p] \in RequestType
  BY DEF RequestType

\* the parameters one by one,
LEMMA WithGenerationParamsType ==
  ASSUME NEW r \in RequestType, NEW s \in WithGenerationParams(r) PROVE s \in RequestType
<1> DEFINE p == r.params
<1>1. p \in ParamsType
  BY DEF RequestType
<1>2. \E q : s = [r EXCEPT !.params = q] /\
         \/ q \in {[p EXCEPT !.temperature = TRUE], [p EXCEPT !.seed = TRUE],
                   [p EXCEPT !.penalty = TRUE], [p EXCEPT !.stop = MaxStopWords + 1]}
         \/ \E e \in Values.efforts : q = [p EXCEPT !.effort = e]
         \/ \E n \in Values.outputs : q = [p EXCEPT !.maxOutput = {n}]
         \/ \E c \in Values.choices : q = [p EXCEPT !.choice = c]
         \/ \E b \in BOOLEAN : q = [p EXCEPT !.parallel = {b}]
         \/ \E f \in Values.formats : q = [p EXCEPT !.format = {f}]
         \/ \E key \in Values.extras : q = [p EXCEPT !.extra = p.extra \cup {key}]
  BY DEF WithGenerationParams
<1> HIDE DEF p
<1>3. PICK q : s = [r EXCEPT !.params = q] /\
         \/ q \in {[p EXCEPT !.temperature = TRUE], [p EXCEPT !.seed = TRUE],
                   [p EXCEPT !.penalty = TRUE], [p EXCEPT !.stop = MaxStopWords + 1]}
         \/ \E e \in Values.efforts : q = [p EXCEPT !.effort = e]
         \/ \E n \in Values.outputs : q = [p EXCEPT !.maxOutput = {n}]
         \/ \E c \in Values.choices : q = [p EXCEPT !.choice = c]
         \/ \E b \in BOOLEAN : q = [p EXCEPT !.parallel = {b}]
         \/ \E f \in Values.formats : q = [p EXCEPT !.format = {f}]
         \/ \E key \in Values.extras : q = [p EXCEPT !.extra = p.extra \cup {key}]
  BY <1>2
<1>4. q \in ParamsType
  <2>1. CASE q \in {[p EXCEPT !.temperature = TRUE], [p EXCEPT !.seed = TRUE],
                    [p EXCEPT !.penalty = TRUE], [p EXCEPT !.stop = MaxStopWords + 1]}
    <3>1. MaxStopWords + 1 \in Int
      BY LaunchAssumption
    <3>2. [p EXCEPT !.stop = MaxStopWords + 1] \in ParamsType
      BY <1>1, <3>1 DEF ParamsType
    <3>3. \A b \in BOOLEAN : /\ [p EXCEPT !.temperature = b] \in ParamsType
                              /\ [p EXCEPT !.seed = b] \in ParamsType
                              /\ [p EXCEPT !.penalty = b] \in ParamsType
      BY <1>1 DEF ParamsType
    <3> QED
      BY <2>1, <3>2, <3>3, Zenon
  <2>2. CASE \E e \in Values.efforts : q = [p EXCEPT !.effort = e]
    BY <1>1, <2>2, LaunchAssumption, SettingTypes DEF ParamsType
  <2>3. CASE \E n \in Values.outputs : q = [p EXCEPT !.maxOutput = {n}]
    BY <1>1, <2>3, LaunchAssumption, SettingTypes DEF ParamsType
  <2>4. CASE \E c \in Values.choices : q = [p EXCEPT !.choice = c]
    BY <1>1, <2>4, LaunchAssumption, SettingTypes DEF ParamsType
  <2>5. CASE \E b \in BOOLEAN : q = [p EXCEPT !.parallel = {b}]
    BY <1>1, <2>5 DEF ParamsType
  <2>6. CASE \E f \in Values.formats : q = [p EXCEPT !.format = {f}]
    BY <1>1, <2>6, LaunchAssumption, SettingTypes DEF ParamsType
  <2>7. CASE \E key \in Values.extras : q = [p EXCEPT !.extra = p.extra \cup {key}]
    <3>1. PICK key \in STRING : q = [p EXCEPT !.extra = p.extra \cup {key}]
      BY <2>7, LaunchAssumption
    <3>2. p.extra \cup {key} \in SUBSET STRING
      BY <1>1 DEF ParamsType
    <3> QED
      BY <1>1, <3>1, <3>2 DEF ParamsType
  <2> QED
    BY <1>3, <2>1, <2>2, <2>3, <2>4, <2>5, <2>6, <2>7
<1> QED
  BY <1>3, <1>4, WithParamsType

\* and the limits.
LEMMA WithLimitsType ==
  ASSUME NEW r \in RequestType, NEW s \in WithLimits(r) PROVE s \in RequestType
<1> DEFINE l == r.limits
<1>1. l \in LimitsType
  BY DEF RequestType
<1>2. CASE s = [r EXCEPT !.force = FALSE]
  BY <1>2 DEF RequestType
<1>3. CASE \E q : s = [r EXCEPT !.limits = q] /\
         \/ \E n \in {0, 1} : q = [l EXCEPT !.rounds = n]
         \/ q = [l EXCEPT !.timeout = -1]
         \/ \E n \in Values.contexts : q = [l EXCEPT !.context = n]
         \/ \E n \in Values.reserves : q = [l EXCEPT !.reserve = {n}]
  <2> HIDE DEF l
  <2>1. PICK q : s = [r EXCEPT !.limits = q] /\
         \/ \E n \in {0, 1} : q = [l EXCEPT !.rounds = n]
         \/ q = [l EXCEPT !.timeout = -1]
         \/ \E n \in Values.contexts : q = [l EXCEPT !.context = n]
         \/ \E n \in Values.reserves : q = [l EXCEPT !.reserve = {n}]
    BY <1>3
  <2>2. q \in LimitsType
    BY <1>1, <2>1, LaunchAssumption DEF LimitsType
  <2> QED
    BY <2>1, <2>2 DEF RequestType
<1> QED
  BY <1>2, <1>3 DEF WithLimits

-----------------------------------------------------------------------------
(* What a round hands to its driver. *)

\* driverParams leaves out the effort where the driver has no use for it, and what
\* is said of tools where there are none; nothing else changes.
LEMMA DriverParamsKept ==
  ASSUME NEW r \in RequestType, NEW list
  PROVE  LET p == driverParams(r, list) IN
         /\ p \in ParamsType
         /\ p.format = r.params.format /\ p.temperature = r.params.temperature
         /\ p.penalty = r.params.penalty /\ p.seed = r.params.seed
         /\ p.maxOutput = r.params.maxOutput /\ p.stop = r.params.stop
         /\ p.extra = r.params.extra /\ p.wireEffort = Unset
         /\ p.effort = IF Capabilities(r).Effort \/ Capabilities(r).Disabling
                       THEN r.params.effort ELSE Unset
         /\ list = {} => p.choice.mode = Unset /\ p.parallel = {}
         /\ list # {} => p.choice = r.params.choice /\ p.parallel = r.params.parallel
<1> DEFINE caps == Capabilities(r)
           old == r.params
           e == IF caps.Effort \/ caps.Disabling THEN old.effort ELSE Unset
           c == IF list = {} THEN NoParams.choice ELSE old.choice
           l == IF list = {} THEN {} ELSE old.parallel
           p == [old EXCEPT !.effort = e, !.choice = c, !.parallel = l]
<1>1. old \in ParamsType
  BY DEF RequestType
<1>2. e \in Word
  BY <1>1 DEF ParamsType, Word
<1>3. NoParams.choice \in ToolChoices /\ NoParams.choice.mode = Unset
  BY DEF NoParams, ToolChoices, Word, Unset
<1>4. c \in ToolChoices
  BY <1>1, <1>3 DEF ParamsType
<1>5. l \in SUBSET BOOLEAN
  BY <1>1 DEF ParamsType
<1>6. driverParams(r, list) = p
  BY DEF driverParams
<1>7. /\ p \in ParamsType
      /\ p.format = old.format /\ p.temperature = old.temperature
      /\ p.penalty = old.penalty /\ p.seed = old.seed
      /\ p.maxOutput = old.maxOutput /\ p.stop = old.stop
      /\ p.extra = old.extra /\ p.wireEffort = Unset
      /\ p.effort = e /\ p.choice = c /\ p.parallel = l
  <2> HIDE DEF e, c, l, old
  <2> QED
    BY <1>1, <1>2, <1>4, <1>5 DEF ParamsType
<1> QED
  BY <1>3, <1>6, <1>7

\* DriverRequest carries the resolved model, those parameters, the tools and parts.
LEMMA DriverRequestFields ==
  ASSUME NEW r, NEW list
  PROVE  LET req == DriverRequest(r, list) IN
         /\ req.model = resolvedModel(r) /\ req.params = driverParams(r, list)
         /\ req.tools = list /\ req.parts = r.parts
         /\ req = [model |-> resolvedModel(r), params |-> driverParams(r, list),
                   tools |-> list, parts |-> r.parts]
  BY DEF DriverRequest

\* What the engine's gate says about a list of tools.
LEMMA ToolsAccepted ==
  ASSUME NEW r, NEW tools, validateCapabilities(r, tools), UNION tools # {}
  PROVE  LET caps == Capabilities(r) IN
         /\ r.params.choice.mode # Unset =>
              /\ caps.ToolChoice
              /\ \/ r.params.choice.mode \in {"auto", "none", "required"}
                 \/ /\ r.params.choice.mode = "tool" /\ r.params.choice.name # ""
                    /\ \E t \in UNION tools : t.name = r.params.choice.name
         /\ \A t \in UNION tools : t.strict => caps.StrictTools
         /\ r.params.parallel # {} => caps.Parallel
<1>1. \A list \in tools : validateToolCapabilities(r.params, list, Capabilities(r))
  BY DEF validateCapabilities
<1>2. PICK list \in tools : TRUE
  OBVIOUS
<1>3. validateToolCapabilities(r.params, list, Capabilities(r))
  BY <1>1, <1>2
<1>4. \A t \in UNION tools : t.strict => Capabilities(r).StrictTools
  BY <1>1 DEF validateToolCapabilities, validateStrictToolArguments
<1> QED
  BY <1>2, <1>3, <1>4 DEF validateToolCapabilities, validateToolChoice

-----------------------------------------------------------------------------
(* Levels of reasoning are ranked alike everywhere. *)

\* The order of the levels.
LEMMA Ranks ==
  /\ reasoningEffortRank("minimal") = 1 /\ reasoningEffortRank("low") = 2
  /\ reasoningEffortRank("medium") = 3 /\ reasoningEffortRank("high") = 4
  /\ reasoningEffortRank("xhigh") = 5 /\ reasoningEffortRank("max") = 6
  /\ \A e : e \notin {"minimal", "low", "medium", "high", "xhigh", "max"} =>
              reasoningEffortRank(e) = 0
  BY DEF reasoningEffortRank, EffortOrder, Contains

\* The OpenAI driver's rank is the engine's.
LEMMA OpenAIRanks ==
  ASSUME NEW e PROVE OpenAI!reasoningEffortRank(e) = reasoningEffortRank(e)
  BY DEF reasoningEffortRank, EffortOrder, Contains, OpenAI!reasoningEffortRank,
         OpenAI!EffortOrder, OpenAI!Contains

\* So are its words for an unset value, and those of the other drivers.
LEMMA SameWords ==
  /\ OpenAI!Unset = Unset /\ Anthropic!Unset = Unset /\ Zai!Unset = Unset
  /\ Zai!OpenAI!Unset = Unset
  /\ \A m : OpenAI!ReasoningLevelMin(m) = ReasoningLevelMin(m)
  BY DEF Unset, OpenAI!Unset, Anthropic!Unset, Zai!Unset, Zai!OpenAI!Unset,
         OpenAI!ReasoningLevelMin, ReasoningLevelMin, reasoningLevel, OpenAI!reasoningLevel

-----------------------------------------------------------------------------
(* What a driver sends it supports. *)

\* SentIsSupported, of one request on the wire.
Respected(r, w) ==
  LET caps == DriverCapabilities(r.driver, w.model)
      p == w.params
  IN /\ p.temperature => caps.Sampling
     /\ p.penalty => caps.Penalties
     /\ p.seed => caps.Seed
     /\ p.effort = "none" => caps.Disabling
     /\ p.effort \notin {Unset, "none"} =>
          /\ caps.Effort
          /\ reasoningEffortRank(p.effort) >= reasoningEffortRank(ReasoningLevelMin(w.model))
     /\ \A f \in p.format : (f.type = "json_schema" => caps.JSONSchema)
                             /\ (f.type = "json_object" => caps.JSONObject)
     /\ \A t \in w.tools : t.strict => caps.StrictTools
     /\ p.choice.mode # Unset => (caps.ToolChoice \/ (r.override /\ r.driver = "zai")) /\ w.tools # {}
     /\ p.choice.mode = "tool" => \E t \in w.tools : t.name = p.choice.name
     /\ p.parallel # {} => caps.Parallel /\ w.tools # {}
     /\ ~(r.override /\ r.driver = "zai") => \A part \in w.parts : PartType(part) \in caps.Parts
     /\ r.driver = "zai" => p.maxOutput = {} /\ p.wireEffort \in {Unset, "low", "high", "max"}
     /\ p.format = r.params.format

\* The engine's gate keeps a level above the model's floor.
LEMMA EngineFloor ==
  ASSUME NEW r, NEW tools, validateCapabilities(r, tools), r.params.effort \notin {Unset, "none"}
  PROVE  reasoningEffortRank(r.params.effort) >=
           reasoningEffortRank(ReasoningLevelMin(resolvedModel(r)))
  BY DEF validateCapabilities, validateReasoningConfiguration

\* And it keeps out content parts the driver does not take.
LEMMA PartsAccepted ==
  ASSUME NEW r, NEW tools, validateCapabilities(r, tools)
  PROVE  \A part \in r.parts : part # "malformed" /\ PartType(part) \in Capabilities(r).Parts
  BY DEF validateCapabilities, validateMessageContentCapabilities

\* What a round says of tools it says beside them.
LEMMA ToolsNamed ==
  ASSUME NEW r \in RequestType, NEW tools, validateCapabilities(r, tools)
  PROVE  LET p == driverParams(r, UNION tools) IN
         /\ p.choice.mode # Unset => UNION tools # {}
         /\ p.parallel # {} => UNION tools # {}
         /\ p.choice.mode = "tool" => \E t \in UNION tools : t.name = p.choice.name
         /\ p.format = r.params.format
<1> DEFINE p == driverParams(r, UNION tools)
<1>1. /\ UNION tools = {} => p.choice.mode = Unset /\ p.parallel = {}
      /\ UNION tools # {} => p.choice = r.params.choice
      /\ p.format = r.params.format
  BY DriverParamsKept
<1> HIDE DEF p
<1>2. Unset # "tool"
  BY DEF Unset
<1>3. CASE UNION tools = {}
  BY <1>1, <1>2, <1>3 DEF p
<1>4. CASE UNION tools # {}
  <2>1. r.params.choice.mode = "tool" =>
          \E t \in UNION tools : t.name = r.params.choice.name
    BY <1>2, <1>4, ToolsAccepted
  <2> QED
    BY <1>1, <1>4, <2>1 DEF p
<1> QED
  BY <1>3, <1>4

\* What toOpenAIParams lets pass the OpenAI driver supports.
LEMMA OpenAISent ==
  ASSUME NEW r \in RequestType, NEW tools, validateCapabilities(r, tools), r.driver = "openai",
         NEW w, w.model = resolvedModel(r), w.tools = UNION tools, w.parts = r.parts,
         w.params = driverParams(r, UNION tools),
         OpenAI!toOpenAIParams(DriverRequest(r, UNION tools))
  PROVE  Respected(r, w)
<1> DEFINE req == DriverRequest(r, UNION tools)
           caps == OpenAI!capabilities(w.model)
           p == w.params
<1>1. /\ req.model = w.model /\ req.params = p /\ req.tools = w.tools
      /\ DriverCapabilities(r.driver, w.model) = caps
  BY DriverRequestFields DEF DriverCapabilities
<1>2. ~OpenAI!rejectUnsupportedReasoning(req, caps) /\ ~OpenAI!rejectUnsupportedStructured(req, caps)
      /\ (p.temperature => caps.Sampling) /\ (p.penalty => caps.Penalties)
  BY <1>1 DEF OpenAI!toOpenAIParams, OpenAI!rejectUnsupportedParams
<1>3. caps.Seed /\ caps.Parts = {"text", "image", "audio", "file"}
  BY DEF OpenAI!capabilities
<1> HIDE DEF caps, req, p
<1>4. /\ p.effort = "none" => caps.Disabling
      /\ p.effort \notin {Unset, "none"} => caps.Effort
  BY <1>1, <1>2, SameWords DEF OpenAI!rejectUnsupportedReasoning
<1>5. p.effort \notin {Unset, "none"} =>
        reasoningEffortRank(p.effort) >= reasoningEffortRank(ReasoningLevelMin(w.model))
  <2>1. p.effort \in {r.params.effort, Unset}
    BY DriverParamsKept DEF p
  <2> QED
    BY <2>1, EngineFloor
<1>6. /\ \A f \in p.format : (f.type = "json_schema" => caps.JSONSchema)
                             /\ (f.type = "json_object" => caps.JSONObject)
      /\ p.choice.mode # Unset => caps.ToolChoice
      /\ p.parallel # {} => caps.Parallel
      /\ \A t \in w.tools : t.strict => caps.StrictTools
  BY <1>1, <1>2, SameWords DEF OpenAI!rejectUnsupportedStructured, OpenAI!rejectUnsupportedToolParams
<1>7. /\ p.choice.mode # Unset => w.tools # {}
      /\ p.parallel # {} => w.tools # {}
      /\ p.choice.mode = "tool" => \E t \in w.tools : t.name = p.choice.name
      /\ p.format = r.params.format
  BY ToolsNamed DEF p
<1>8. \A part \in w.parts : PartType(part) \in caps.Parts
  <2>1. Capabilities(r).Parts \subseteq {"text", "image", "audio", "file"}
    <3>1. CASE r.override
      <4>1. Capabilities(r) = r.claims /\ r.claims \in CapabilitiesType
        BY <3>1 DEF Capabilities, RequestType
      <4> QED
        BY <4>1 DEF CapabilitiesType
    <3>2. CASE ~r.override
      BY <1>1, <1>3, <3>2 DEF Capabilities
    <3> QED
      BY <3>1, <3>2
  <2> QED
    BY <1>3, <2>1, PartsAccepted
<1> QED
  BY <1>1, <1>2, <1>3, <1>4, <1>5, <1>6, <1>7, <1>8 DEF Respected, p

\* What toMessageParams lets pass the Anthropic driver supports.
LEMMA AnthropicSent ==
  ASSUME NEW r \in RequestType, NEW tools, validateCapabilities(r, tools), r.driver = "anthropic",
         NEW w, w.model = resolvedModel(r), w.tools = UNION tools, w.parts = r.parts,
         w.params = [driverParams(r, UNION tools) EXCEPT
                       !.choice = Anthropic!applyToolChoice(driverParams(r, UNION tools))],
         Anthropic!toMessageParams(DriverRequest(r, UNION tools))
  PROVE  Respected(r, w)
<1> DEFINE req == DriverRequest(r, UNION tools)
           caps == Anthropic!Capabilities(w.model)
           old == driverParams(r, UNION tools)
           p == w.params
           id == w.model.ID
<1>1. /\ req.model = w.model /\ req.params = old /\ req.tools = w.tools /\ req.parts = w.parts
      /\ DriverCapabilities(r.driver, w.model) = caps
  BY DriverRequestFields DEF DriverCapabilities
<1>2. /\ caps.JSONSchema = Anthropic!supportsStructuredOutput(id)
      /\ caps.StrictTools = Anthropic!supportsStructuredOutput(id)
      /\ caps.ToolChoice /\ caps.Parallel
      /\ caps.Sampling = Anthropic!supportsSamplingParams(id)
      /\ caps.Effort = Anthropic!isEffortModel(id)
      /\ caps.Disabling = Anthropic!supportsDisablingReasoning(id)
      /\ caps.Parts = {"text", "image", "file"}
  BY DEF Anthropic!Capabilities
<1>3. /\ p.format = old.format /\ p.temperature = old.temperature
      /\ p.penalty = old.penalty /\ p.seed = old.seed
      /\ p.effort = old.effort /\ p.parallel = old.parallel
      /\ p.choice = Anthropic!applyToolChoice(old)
  <2> DEFINE c == Anthropic!applyToolChoice(old)
  <2>1. old \in ParamsType
    BY DriverParamsKept
  <2> HIDE DEF c, old
  <2>2. p = [old EXCEPT !.choice = c]
    BY DEF c, old
  <2>3. LET q == [old EXCEPT !.choice = c] IN
        /\ q.format = old.format /\ q.temperature = old.temperature
        /\ q.penalty = old.penalty /\ q.seed = old.seed
        /\ q.effort = old.effort /\ q.parallel = old.parallel
        /\ q.choice = c
    BY <2>1 DEF ParamsType
  <2> QED
    BY <2>2, <2>3 DEF c
<1>4. /\ Anthropic!toUserBlocks(w.parts) /\ Anthropic!toAnthropicTools(id, w.tools)
      /\ Anthropic!applyGenerationParams(id, old)
  BY <1>1 DEF Anthropic!toMessageParams
<1> HIDE DEF caps, req, p, old
<1>5. /\ ~old.penalty /\ ~old.seed /\ (old.temperature => caps.Sampling)
      /\ Anthropic!applyReasoning(id, old.effort) /\ Anthropic!applyResponseFormat(id, old.format)
  BY <1>2, <1>4 DEF Anthropic!applyGenerationParams, Anthropic!validateGenerationParams,
                    Anthropic!hasSamplingParams
<1>6. /\ p.effort = "none" => caps.Disabling
      /\ p.effort \notin {Unset, "none"} => caps.Effort
  BY <1>2, <1>3, <1>5, SameWords
     DEF Anthropic!applyReasoning, Anthropic!isSupportedReasoningEffort
<1>7. p.effort \notin {Unset, "none"} =>
        reasoningEffortRank(p.effort) >= reasoningEffortRank(ReasoningLevelMin(w.model))
  <2>1. p.effort \in {r.params.effort, Unset}
    BY <1>3, DriverParamsKept DEF old
  <2> QED
    BY <2>1, EngineFloor
<1>8. \A f \in p.format : (f.type = "json_schema" => caps.JSONSchema)
                          /\ (f.type = "json_object" => caps.JSONObject)
  BY <1>2, <1>3, <1>5, SameWords DEF Anthropic!applyResponseFormat, Unset
<1>9. \A t \in w.tools : t.strict => caps.StrictTools
  BY <1>2, <1>4 DEF Anthropic!toAnthropicTools
<1>10. /\ p.choice.mode # Unset => w.tools # {}
       /\ p.parallel # {} => w.tools # {}
       /\ p.choice.mode = "tool" => \E t \in w.tools : t.name = p.choice.name
       /\ p.format = r.params.format
  <2>1. old \in ParamsType
    BY DriverParamsKept DEF old
  <2>2. \/ p.choice = old.choice
        \/ old.parallel # {} /\ p.choice.mode = "auto"
    BY <1>3, <2>1 DEF Anthropic!applyToolChoice, ParamsType, ToolChoices
  <2>3. /\ old.choice.mode # Unset => w.tools # {}
        /\ old.parallel # {} => w.tools # {}
        /\ old.choice.mode = "tool" => \E t \in w.tools : t.name = old.choice.name
        /\ old.format = r.params.format
    BY ToolsNamed DEF old
  <2> QED
    BY <1>3, <2>2, <2>3
<1>11. \A part \in w.parts : PartType(part) \in caps.Parts
  BY <1>2, <1>4 DEF Anthropic!toUserBlocks, PartType
<1> QED
  BY <1>1, <1>2, <1>3, <1>5, <1>6, <1>7, <1>8, <1>9, <1>10, <1>11 DEF Respected, p

\* The Z.ai driver's word is the OpenAI driver's but for five fields.
LEMMA ZaiCapabilities ==
  ASSUME NEW model
  PROVE  LET caps == Zai!capabilities(model)
             base == Zai!OpenAI!capabilities(model)
             known == Zai!classifyModel(model.ID) # Unset
         IN /\ caps.JSONSchema = base.JSONSchema /\ caps.JSONObject = base.JSONObject
            /\ caps.StrictTools = base.StrictTools /\ caps.Parallel = base.Parallel
            /\ caps.Seed = TRUE /\ caps.Penalties = base.Penalties
            /\ caps.Sampling = base.Sampling
            /\ ~caps.ToolChoice /\ ~caps.Disabling
            /\ caps.Effort <=> known
            /\ base.ToolChoice <=> base.JSONSchema
<1> DEFINE base == Zai!OpenAI!capabilities(model)
           known == Zai!classifyModel(model.ID) # Zai!Unset
           ceiling == IF known THEN "max" ELSE Zai!Unset
           kinds == IF Zai!classifyModel(model.ID) = "glm-5.3" THEN {"text"} ELSE base.Parts
<1>1. /\ DOMAIN base = {"JSONSchema", "JSONObject", "StrictTools", "ToolChoice", "Parallel",
                        "Seed", "Penalties", "Sampling", "Effort", "Disabling", "Parts", "MaxEffort"}
      /\ base = [f \in DOMAIN base |-> base[f]]
      /\ base.Seed = TRUE /\ (base.ToolChoice <=> base.JSONSchema)
  BY DEF Zai!OpenAI!capabilities
<1>2. Zai!capabilities(model) =
        [base EXCEPT !.ToolChoice = FALSE, !.Effort = known, !.Disabling = FALSE,
                     !.MaxEffort = ceiling, !.Parts = kinds]
  BY Zenon DEF Zai!capabilities
<1> HIDE DEF base, known, ceiling, kinds
<1>3. LET caps == [base EXCEPT !.ToolChoice = FALSE, !.Effort = known, !.Disabling = FALSE,
                               !.MaxEffort = ceiling, !.Parts = kinds]
      IN /\ caps.JSONSchema = base.JSONSchema /\ caps.JSONObject = base.JSONObject
         /\ caps.StrictTools = base.StrictTools /\ caps.Parallel = base.Parallel
         /\ caps.Seed = base.Seed /\ caps.Penalties = base.Penalties
         /\ caps.Sampling = base.Sampling
         /\ caps.ToolChoice = FALSE /\ caps.Disabling = FALSE
         /\ caps.Effort = known
  BY <1>1
<1> QED
  BY <1>1, <1>2, <1>3, SameWords DEF known, base

\* The output cap and the effort change places; the rest goes out as it is.
LEMMA ZaiPrepared ==
  ASSUME NEW r \in RequestType, NEW list
  PROVE  LET req == DriverRequest(r, list)
             old == driverParams(r, list)
             kind == Zai!classifyModel(resolvedModel(r).ID)
             sent == Zai!prepareRequest(req)
             p == sent.params
         IN /\ sent.model = resolvedModel(r) /\ sent.tools = list /\ sent.parts = r.parts
            /\ p.format = old.format /\ p.temperature = old.temperature
            /\ p.penalty = old.penalty /\ p.seed = old.seed
            /\ p.choice = old.choice /\ p.parallel = old.parallel
            /\ p.maxOutput = {}
            /\ p.wireEffort = IF kind = Unset \/ old.effort = Unset THEN Unset
                              ELSE Zai!codingPlanReasoningEffort(old.effort)
            /\ p.effort = IF kind # Unset THEN Unset ELSE old.effort
<1> DEFINE req == DriverRequest(r, list)
           old == driverParams(r, list)
           kind == Zai!classifyModel(resolvedModel(r).ID)
           level == IF kind = Unset \/ old.effort = Unset THEN old.wireEffort
                    ELSE Zai!codingPlanReasoningEffort(old.effort)
           effort == IF kind # Unset THEN Unset ELSE old.effort
           p == [old EXCEPT !.maxTokens = old.maxOutput, !.maxOutput = {},
                            !.wireEffort = level, !.effort = effort]
<1>1. old \in ParamsType /\ old.wireEffort = Unset
  BY DriverParamsKept
<1>2. Zai!preparedParams(kind, old) = p
  BY SameWords DEF Zai!preparedParams
<1>3. /\ req.model = resolvedModel(r) /\ req.params = old /\ req.tools = list
      /\ req.parts = r.parts
      /\ req = [model |-> resolvedModel(r), params |-> old, tools |-> list, parts |-> r.parts]
  BY DriverRequestFields
<1> HIDE DEF req, old
<1>4. Zai!prepareRequest(req) = [req EXCEPT !.params = Zai!preparedParams(kind, old)]
  BY <1>3 DEF Zai!prepareRequest
<1> HIDE DEF kind
<1>5. LET sent == [req EXCEPT !.params = Zai!preparedParams(kind, old)] IN
      /\ sent.model = resolvedModel(r) /\ sent.tools = list /\ sent.parts = r.parts
      /\ sent.params = Zai!preparedParams(kind, old)
  BY <1>3
<1> HIDE DEF level, effort
<1>6. /\ p.format = old.format /\ p.temperature = old.temperature
      /\ p.penalty = old.penalty /\ p.seed = old.seed
      /\ p.choice = old.choice /\ p.parallel = old.parallel
      /\ p.maxOutput = {} /\ p.wireEffort = level /\ p.effort = effort
  BY <1>1 DEF ParamsType
<1> QED
  BY <1>1, <1>2, <1>4, <1>5, <1>6, Zenon DEF req, old, kind, level, effort

\* What prepareRequest and the OpenAI half let pass the Z.ai driver supports.
LEMMA ZaiSent ==
  ASSUME NEW r \in RequestType, NEW tools, validateCapabilities(r, tools), r.driver = "zai",
         NEW w, w.model = resolvedModel(r), w.tools = UNION tools, w.parts = r.parts,
         w.params = Zai!prepareRequest(DriverRequest(r, UNION tools)).params,
         Zai!toZaiParams(DriverRequest(r, UNION tools))
  PROVE  Respected(r, w)
<1> DEFINE req == DriverRequest(r, UNION tools)
           sent == Zai!prepareRequest(req)
           caps == Zai!capabilities(w.model)
           base == Zai!OpenAI!capabilities(w.model)
           old == driverParams(r, UNION tools)
           kind == Zai!classifyModel(w.model.ID)
           p == w.params
<1>1. /\ req.model = w.model /\ req.params = old
      /\ DriverCapabilities(r.driver, w.model) = caps
  BY DriverRequestFields DEF DriverCapabilities
<1>2. /\ Zai!validateParams(kind, old) /\ Zai!reasoningConfiguration(kind, old)
      /\ Zai!OpenAI!toOpenAIParams(sent)
  BY <1>1 DEF Zai!toZaiParams
<1>3. /\ sent.model = w.model /\ sent.tools = w.tools
      /\ p.format = old.format /\ p.temperature = old.temperature
      /\ p.penalty = old.penalty /\ p.seed = old.seed
      /\ p.choice = old.choice /\ p.parallel = old.parallel
      /\ p.maxOutput = {}
      /\ p.wireEffort = IF kind = Unset \/ old.effort = Unset THEN Unset
                        ELSE Zai!codingPlanReasoningEffort(old.effort)
      /\ p.effort = IF kind # Unset THEN Unset ELSE old.effort
  BY ZaiPrepared
<1>4. /\ caps.JSONSchema = base.JSONSchema /\ caps.JSONObject = base.JSONObject
      /\ caps.StrictTools = base.StrictTools /\ caps.Parallel = base.Parallel
      /\ caps.Seed = TRUE /\ caps.Penalties = base.Penalties /\ caps.Sampling = base.Sampling
      /\ ~caps.ToolChoice
  BY ZaiCapabilities
<1>5. /\ ~Zai!OpenAI!rejectUnsupportedStructured(sent, base)
      /\ (p.temperature => base.Sampling) /\ (p.penalty => base.Penalties)
  BY <1>2, <1>3 DEF Zai!OpenAI!toOpenAIParams, Zai!OpenAI!rejectUnsupportedParams
<1>6. old.choice.mode \notin {"required", "tool"}
  BY <1>2 DEF Zai!validateParams
<1>7. /\ kind = Unset => old.effort = Unset
      /\ old.effort # Unset => Zai!codingPlanReasoningEffort(old.effort) # Unset
  BY <1>2, SameWords DEF Zai!reasoningConfiguration
<1>8. Zai!codingPlanReasoningEffort(old.effort) \in {Unset, "low", "high", "max"}
  BY SameWords DEF Zai!codingPlanReasoningEffort
<1>9. sent.params = p
  OBVIOUS
<1> HIDE DEF sent, req, caps, base, old, kind, p
<1>10. /\ \A f \in p.format : (f.type = "json_schema" => base.JSONSchema)
                              /\ (f.type = "json_object" => base.JSONObject)
       /\ p.parallel # {} => base.Parallel
       /\ \A t \in w.tools : t.strict => base.StrictTools
  BY <1>3, <1>5, <1>9, SameWords
     DEF Zai!OpenAI!rejectUnsupportedStructured, Zai!OpenAI!rejectUnsupportedToolParams
<1>11. /\ p.choice.mode # Unset => w.tools # {}
       /\ p.parallel # {} => w.tools # {}
       /\ p.format = r.params.format
  BY <1>3, ToolsNamed DEF old
<1>12. ~r.override => /\ p.choice.mode = Unset
                      /\ \A part \in w.parts : PartType(part) \in caps.Parts
  <2> SUFFICES ASSUME ~r.override
               PROVE  /\ p.choice.mode = Unset
                      /\ \A part \in w.parts : PartType(part) \in caps.Parts
    OBVIOUS
  <2>1. Capabilities(r) = caps
    BY <1>1 DEF Capabilities
  <2>2. \A part \in w.parts : PartType(part) \in caps.Parts
    BY <2>1, PartsAccepted
  <2>3. CASE UNION tools = {}
    BY <1>3, <1>11, <2>2, <2>3
  <2>4. CASE UNION tools # {}
    <3>1. r.params.choice.mode = Unset
      BY <1>4, <2>1, <2>4, ToolsAccepted
    <3>2. old.choice = r.params.choice
      BY <2>4, DriverParamsKept DEF old
    <3> QED
      BY <1>3, <2>2, <3>1, <3>2
  <2> QED
    BY <2>3, <2>4
<1>13. p.effort = Unset /\ p.wireEffort \in {Unset, "low", "high", "max"}
  BY <1>3, <1>7, <1>8
<1>14. Unset # "none"
  BY DEF Unset
<1> QED
  BY <1>1, <1>3, <1>4, <1>5, <1>6, <1>10, <1>11, <1>12, <1>13, <1>14 DEF Respected, p

-----------------------------------------------------------------------------
(* What the engine accepts the driver sends. *)

\* The levels the catalogues use.
Canonical == {Unset, "minimal", "low", "medium", "high", "max"}

\* What the catalogues say of levels: none, or a range.
CatalogueLevels ==
  {NoLevels} \cup {Levels(min, max) : min \in {"minimal", "low"}, max \in {"high", "max"}}

\* The levels of a catalogue are known ones.
LEMMA LevelsCanonical ==
  ASSUME NEW levels \in CatalogueLevels, NEW field \in DOMAIN levels
  PROVE  levels[field] \in Canonical
  BY DEF CatalogueLevels, Canonical, Levels, NoLevels

\* The OpenAI catalogue.
LEMMA KnownModels ==
  ASSUME NEW m \in OpenAI!knownModels
  PROVE  /\ m.ReasoningLevels \in CatalogueLevels
         /\ Len(m.ID) \in 1 .. 4
         /\ m = [ID |-> m.ID, ContextSize |-> m.ContextSize,
                 SupportsReasoning |-> m.SupportsReasoning, ReasoningLevels |-> m.ReasoningLevels]
<1>1. /\ OpenAI!NoLevels \in CatalogueLevels /\ OpenAI!gpt5ReasoningLevels \in CatalogueLevels
      /\ OpenAI!frontierReasoningLevels \in CatalogueLevels
      /\ OpenAI!oSeriesReasoningLevels \in CatalogueLevels
  BY DEF OpenAI!NoLevels, OpenAI!gpt5ReasoningLevels, OpenAI!frontierReasoningLevels,
         OpenAI!oSeriesReasoningLevels, OpenAI!Levels, CatalogueLevels, NoLevels, Levels, Unset,
         OpenAI!Unset
<1>2. PICK id, reasons, levels :
        /\ m = OpenAI!Model(id, 0, reasons, levels)
        /\ levels \in CatalogueLevels
        /\ Len(id) \in 1 .. 4
  <2> DEFINE plain == {<<"gpt-4o">>, <<"gpt-4o", "-", "mini">>, <<"gpt-4.1">>,
                       <<"gpt-4.1", "-", "mini">>, <<"gpt-4.1", "-", "nano">>}
             gpt5 == {<<"gpt-5">>, <<"gpt-5", "-", "mini">>, <<"gpt-5", "-", "nano">>}
             frontier == {OpenAI!GPT56} \cup {OpenAI!GPT56 \o <<"-", s>> : s \in {"sol", "terra", "luna"}}
             oSeries == {<<"o1">>, <<"o3">>, <<"o3", "-", "mini">>, <<"o4", "-", "mini">>}
  <2>1. \A id \in plain \cup gpt5 \cup oSeries : Len(id) \in 1 .. 4
    OBVIOUS
  <2>2. \A id \in frontier : Len(id) \in 1 .. 4
    BY DEF OpenAI!GPT56
  <2>3. \E id \in plain \cup gpt5 \cup oSeries \cup frontier, reasons \in BOOLEAN,
           levels \in {OpenAI!NoLevels, OpenAI!gpt5ReasoningLevels,
                       OpenAI!frontierReasoningLevels, OpenAI!oSeriesReasoningLevels} :
          m = OpenAI!Model(id, 0, reasons, levels)
    <3> HIDE DEF plain, gpt5, frontier, oSeries
    <3>1. \/ \E id \in plain : m = OpenAI!Model(id, 0, FALSE, OpenAI!NoLevels)
          \/ \E id \in gpt5 : m = OpenAI!Model(id, 0, TRUE, OpenAI!gpt5ReasoningLevels)
          \/ \E id \in frontier : m = OpenAI!Model(id, 0, TRUE, OpenAI!frontierReasoningLevels)
          \/ \E id \in oSeries : m = OpenAI!Model(id, 0, TRUE, OpenAI!oSeriesReasoningLevels)
      BY Zenon DEF OpenAI!knownModels, plain, gpt5, frontier, oSeries
    <3> QED
      BY <3>1, Zenon
  <2> HIDE DEF plain, gpt5, frontier, oSeries
  <2> QED
    BY <1>1, <2>1, <2>2, <2>3
<1> QED
  BY <1>2 DEF OpenAI!Model

\* So are those of any model id LookupModel is asked for, listed, dated or neither.
LEMMA OpenAILevels ==
  ASSUME NEW id PROVE OpenAI!LookupModel(id).ReasoningLevels \in CatalogueLevels
<1> DEFINE matches == {m \in OpenAI!knownModels : OpenAI!IsListedAs(id, m.ID)}
           best == CHOOSE m \in matches : \A o \in matches : Len(m.ID) >= Len(o.ID)
<1>1. OpenAI!NoLevels \in CatalogueLevels /\ OpenAI!oSeriesReasoningLevels \in CatalogueLevels
  BY DEF OpenAI!NoLevels, OpenAI!oSeriesReasoningLevels, OpenAI!Levels, CatalogueLevels,
         NoLevels, Levels, Unset, OpenAI!Unset
<1>2. ASSUME matches # {} PROVE best \in OpenAI!knownModels
  <2> HIDE DEF matches
  <2>1. \A m \in matches : m \in OpenAI!knownModels /\ Len(m.ID) \in 1 .. 4
    BY KnownModels DEF matches
  <2>2. \E m \in matches : \A o \in matches : Len(m.ID) >= Len(o.ID)
    <3>1. CASE \E m \in matches : Len(m.ID) = 4
      <4>1. PICK m \in matches : Len(m.ID) = 4
        BY <3>1
      <4>2. \A o \in matches : Len(m.ID) >= Len(o.ID)
        <5>1. \A n \in 1 .. 4 : 4 >= n
          OBVIOUS
        <5> QED
          BY <2>1, <4>1, <5>1
      <4> QED
        BY <4>2
    <3>2. CASE ~(\E m \in matches : Len(m.ID) = 4) /\ \E m \in matches : Len(m.ID) = 3
      BY <2>1, <3>2
    <3>3. CASE ~(\E m \in matches : Len(m.ID) \in {3, 4}) /\ \E m \in matches : Len(m.ID) = 2
      BY <2>1, <3>3
    <3>4. CASE ~(\E m \in matches : Len(m.ID) \in {2, 3, 4})
      BY <1>2, <2>1, <3>4
    <3> QED
      BY <3>1, <3>2, <3>3, <3>4
  <2> QED
    BY <2>1, <2>2
<1>3. ASSUME NEW m \in OpenAI!knownModels
      PROVE  [m EXCEPT !.ID = id].ReasoningLevels = m.ReasoningLevels
  BY KnownModels
<1>4. \/ OpenAI!LookupModel(id) = OpenAI!BareModel(id)
      \/ matches # {} /\ OpenAI!LookupModel(id) = [best EXCEPT !.ID = id]
      \/ OpenAI!LookupModel(id) = OpenAI!Model(id, 0, TRUE, OpenAI!NoLevels)
      \/ OpenAI!LookupModel(id) = OpenAI!Model(id, 0, TRUE, OpenAI!oSeriesReasoningLevels)
  <2> HIDE DEF matches, best
  <2>1. OpenAI!LookupModel(id) =
          CASE OpenAI!IsChatLatest(id) -> OpenAI!BareModel(id)
            [] ~OpenAI!IsChatLatest(id) /\ matches # {} -> [best EXCEPT !.ID = id]
            [] ~OpenAI!IsChatLatest(id) /\ matches = {} /\ OpenAI!isReasoningModelID(id) ->
                 OpenAI!Model(id, 0, TRUE, IF id[1] = "gpt-5" THEN OpenAI!NoLevels
                                           ELSE OpenAI!oSeriesReasoningLevels)
            [] OTHER -> OpenAI!BareModel(id)
    BY Zenon DEF OpenAI!LookupModel, matches, best
  <2> QED
    BY <2>1
<1> HIDE DEF matches, best
<1>5. CASE OpenAI!LookupModel(id) = OpenAI!BareModel(id)
  BY <1>1, <1>5 DEF OpenAI!BareModel, OpenAI!Model
<1>6. CASE matches # {} /\ OpenAI!LookupModel(id) = [best EXCEPT !.ID = id]
  BY <1>2, <1>3, <1>6, KnownModels
<1>7. CASE \/ OpenAI!LookupModel(id) = OpenAI!Model(id, 0, TRUE, OpenAI!NoLevels)
           \/ OpenAI!LookupModel(id) = OpenAI!Model(id, 0, TRUE, OpenAI!oSeriesReasoningLevels)
  BY <1>1, <1>7 DEF OpenAI!Model
<1> QED
  BY <1>4, <1>5, <1>6, <1>7

\* A level the engine knows of a catalogued model is one of the six.
LEMMA KnownLevel ==
  ASSUME NEW model, model.ReasoningLevels \in CatalogueLevels, NEW effort, effort # Unset,
         isKnownReasoningEffort(model, effort)
  PROVE  reasoningEffortRank(effort) > 0
<1>1. CASE reasoningEffortRank(effort) > 0
  BY <1>1
<1>2. CASE \E field \in DOMAIN model.ReasoningLevels : model.ReasoningLevels[field] = effort
  <2>1. effort \in Canonical
    BY <1>2, LevelsCanonical
  <2> QED
    BY <2>1, Ranks DEF Canonical
<1> QED
  BY <1>1, <1>2 DEF isKnownReasoningEffort

\* A request with a catalogued model has what its driver's catalogue says of the id.
LEMMA CataloguedModel ==
  ASSUME NEW r \in RequestType, Catalogued(r)
  PROVE  LET model == resolvedModel(r) IN
         /\ r.driver = "openai" => model = OpenAI!LookupModel(model.ID)
         /\ r.driver = "anthropic" => model = Anthropic!LookupModel(model.ID)
         /\ r.driver = "zai" => model = Zai!LookupModel(model.ID)
  BY DEF Catalogued, RequestType

\* What passes the engine, field by field.
LEMMA EngineAccepts ==
  ASSUME NEW r, NEW tools, validateCapabilities(r, tools)
  PROVE  LET caps == Capabilities(r)
             p == r.params
         IN /\ p.seed => caps.Seed
            /\ p.temperature => caps.Sampling
            /\ p.penalty => caps.Penalties
            /\ validateReasoningConfiguration(resolvedModel(r), p.effort, caps)
            /\ validateResponseFormat(p.format, caps)
  BY DEF validateCapabilities, validateParameterCapabilities

\* What the engine's gate accepts toOpenAIParams accepts.
LEMMA OpenAIAccepts ==
  ASSUME NEW r \in RequestType, NEW tools, validateCapabilities(r, tools), r.driver = "openai",
         ~r.override, r.params.effort # Unset => Catalogued(r)
  PROVE  OpenAI!toOpenAIParams(DriverRequest(r, UNION tools))
<1> DEFINE req == DriverRequest(r, UNION tools)
           model == resolvedModel(r)
           caps == OpenAI!capabilities(model)
           old == r.params
           p == driverParams(r, UNION tools)
<1>1. /\ req.model = model /\ req.params = p /\ req.tools = UNION tools /\ req.parts = r.parts
      /\ Capabilities(r) = caps
  BY DriverRequestFields DEF DriverCapabilities, Capabilities
<1>2. /\ p.format = old.format /\ p.temperature = old.temperature /\ p.penalty = old.penalty
      /\ p.effort \in {old.effort, Unset}
      /\ UNION tools = {} => p.choice.mode = Unset /\ p.parallel = {}
      /\ UNION tools # {} => p.choice = old.choice /\ p.parallel = old.parallel
  BY DriverParamsKept
<1>3. caps.MaxEffort = OpenAI!maxReasoningEffort(model.ID)
  BY DEF OpenAI!capabilities
<1> HIDE DEF req, caps, p, model
<1>4. /\ old.temperature => caps.Sampling
      /\ old.penalty => caps.Penalties
      /\ validateReasoningConfiguration(model, old.effort, caps)
      /\ validateResponseFormat(old.format, caps)
  BY <1>1, EngineAccepts DEF model
<1>5. "malformed" \notin req.parts
  BY <1>1, PartsAccepted
<1>6. ~OpenAI!rejectUnsupportedReasoning(req, caps)
  <2>1. CASE p.effort = Unset
    BY <1>1, <2>1, SameWords DEF OpenAI!rejectUnsupportedReasoning, Unset
  <2>2. CASE p.effort = "none" /\ p.effort # Unset
    BY <1>1, <1>2, <1>4, <2>2, SameWords
       DEF OpenAI!rejectUnsupportedReasoning, validateReasoningConfiguration
  <2>3. CASE p.effort \notin {Unset, "none"}
    <3> DEFINE e == p.effort
    <3>1. /\ old.effort = e /\ Catalogued(r) /\ model = OpenAI!LookupModel(model.ID)
          /\ model.ReasoningLevels \in CatalogueLevels
      BY <1>2, <2>3, CataloguedModel, OpenAILevels DEF model
    <3>2. /\ caps.Effort /\ isKnownReasoningEffort(model, e)
          /\ reasoningEffortRank(caps.MaxEffort) > 0 =>
               reasoningEffortRank(e) <= reasoningEffortRank(caps.MaxEffort)
          /\ reasoningEffortRank(e) >= reasoningEffortRank(ReasoningLevelMin(model))
      BY <1>4, <2>3, <3>1 DEF validateReasoningConfiguration
    <3>3. reasoningEffortRank(e) > 0
      BY <2>3, <3>1, <3>2, KnownLevel
    <3>4. OpenAI!isSupportedReasoningEffort(model.ID, e)
      BY <1>3, <3>1, <3>2, <3>3, OpenAIRanks, SameWords DEF OpenAI!isSupportedReasoningEffort
    <3> QED
      BY <1>1, <2>3, <3>2, <3>4, SameWords DEF OpenAI!rejectUnsupportedReasoning
  <2> QED
    BY <2>1, <2>2, <2>3
<1>7. /\ p.choice.mode # Unset =>
           /\ caps.ToolChoice
           /\ \/ p.choice.mode \in {"auto", "none", "required"}
              \/ p.choice.mode = "tool" /\ p.choice.name # ""
      /\ p.parallel # {} => caps.Parallel
      /\ \A t \in UNION tools : t.strict => caps.StrictTools
  <2>1. CASE UNION tools = {}
    BY <1>2, <2>1
  <2>2. CASE UNION tools # {}
    <3>1. /\ old.choice.mode # Unset =>
               /\ caps.ToolChoice
               /\ \/ old.choice.mode \in {"auto", "none", "required"}
                  \/ old.choice.mode = "tool" /\ old.choice.name # ""
          /\ \A t \in UNION tools : t.strict => caps.StrictTools
          /\ old.parallel # {} => caps.Parallel
      BY <1>1, <2>2, ToolsAccepted, Zenon
    <3> QED
      BY <1>2, <2>2, <3>1
  <2> QED
    BY <2>1, <2>2
<1>8. ~OpenAI!rejectUnsupportedToolParams(req, caps)
  BY <1>1, <1>7, SameWords DEF OpenAI!rejectUnsupportedToolParams
<1>9. ~OpenAI!rejectUnsupportedStructured(req, caps)
  BY <1>1, <1>2, <1>4, <1>8 DEF OpenAI!rejectUnsupportedStructured, validateResponseFormat, Unset
<1>10. OpenAI!applyGenerationParams(req.params)
  <2>1. OpenAI!toOpenAIToolChoice(p.choice)
    BY <1>7, SameWords DEF OpenAI!toOpenAIToolChoice
  <2>2. OpenAI!toOpenAIResponseFormat(p.format)
    BY <1>2, <1>4, SameWords DEF OpenAI!toOpenAIResponseFormat, validateResponseFormat
  <2> QED
    BY <1>1, <2>1, <2>2 DEF OpenAI!applyGenerationParams
<1>11. ~OpenAI!rejectUnsupportedParams(req)
  BY <1>1, <1>2, <1>4, <1>6, <1>9 DEF OpenAI!rejectUnsupportedParams, caps
<1> QED
  BY <1>5, <1>10, <1>11 DEF OpenAI!toOpenAIParams, req

\* The levels LookupModel gives an Anthropic model are the ones the driver takes.
LEMMA AnthropicWords ==
  \A id : /\ Anthropic!LookupModel(id).ReasoningLevels =
                IF Anthropic!isEffortModel(id)
                THEN Levels("low", Anthropic!maxReasoningEffort(id)) ELSE NoLevels
          /\ Anthropic!maxReasoningEffort(id) =
                IF Anthropic!supportsMaxEffort(id) THEN "max"
                ELSE IF Anthropic!isEffortModel(id) THEN "high" ELSE Unset
  BY SameWords DEF Anthropic!LookupModel, Anthropic!Model, Anthropic!Levels, Anthropic!NoLevels,
                   Levels, NoLevels, Anthropic!maxReasoningEffort

\* What the engine's gate accepts toMessageParams accepts, but for what no
\* capability expresses.
LEMMA AnthropicAccepts ==
  ASSUME NEW r \in RequestType, NEW tools, validateCapabilities(r, tools), r.driver = "anthropic",
         ~r.override, ~BeyondCapabilities(r), \A m \in r.params.maxOutput : m >= 0
  PROVE  Anthropic!toMessageParams(DriverRequest(r, UNION tools))
<1> DEFINE req == DriverRequest(r, UNION tools)
           model == resolvedModel(r)
           id == model.ID
           caps == Anthropic!Capabilities(model)
           old == r.params
           p == driverParams(r, UNION tools)
<1>1. /\ req.model = model /\ req.params = p /\ req.tools = UNION tools /\ req.parts = r.parts
      /\ Capabilities(r) = caps
  BY DriverRequestFields DEF DriverCapabilities, Capabilities
<1>2. /\ p.format = old.format /\ p.temperature = old.temperature /\ p.penalty = old.penalty
      /\ p.seed = old.seed /\ p.extra = old.extra /\ p.maxOutput = old.maxOutput
      /\ p.effort \in {old.effort, Unset}
      /\ UNION tools = {} => p.choice.mode = Unset /\ p.parallel = {}
      /\ UNION tools # {} => p.choice = old.choice /\ p.parallel = old.parallel
  BY DriverParamsKept
<1>3. /\ caps.JSONSchema <=> Anthropic!supportsStructuredOutput(id)
      /\ caps.StrictTools <=> Anthropic!supportsStructuredOutput(id)
      /\ ~caps.JSONObject /\ ~caps.Seed /\ ~caps.Penalties
      /\ caps.Sampling <=> Anthropic!supportsSamplingParams(id)
      /\ caps.Effort <=> Anthropic!isEffortModel(id)
      /\ caps.Disabling <=> Anthropic!supportsDisablingReasoning(id)
      /\ caps.Parts = {"text", "image", "file"}
      /\ caps.MaxEffort = Anthropic!maxReasoningEffort(id)
  BY DEF Anthropic!Capabilities
<1>4. /\ old.effort # Unset => Catalogued(r)
      /\ old.effort # "xhigh" /\ 0 \notin old.maxOutput /\ old.extra = {}
      /\ ~\E f \in old.format : f.type = "text"
      /\ r.parts \cap {"heic", "file id"} = {}
  BY DEF BeyondCapabilities
<1> HIDE DEF req, caps, p, model
<1>5. /\ old.seed => caps.Seed
      /\ old.temperature => caps.Sampling
      /\ old.penalty => caps.Penalties
      /\ validateReasoningConfiguration(model, old.effort, caps)
      /\ validateResponseFormat(old.format, caps)
  BY <1>1, EngineAccepts DEF model
<1>6. \A m \in req.params.maxOutput : m > 0
  <2>1. old.maxOutput \subseteq Int
    BY DEF RequestType, ParamsType
  <2> QED
    <3>1. \A m \in old.maxOutput : m \in Int /\ m >= 0 /\ m # 0
      BY <1>4, <2>1
    <3>2. \A m \in Int : m >= 0 /\ m # 0 => m > 0
      OBVIOUS
    <3> HIDE DEF old
    <3> QED
      BY <1>1, <1>2, <3>1, <3>2
<1>7. Anthropic!toUserBlocks(req.parts)
  <2>1. \A part \in r.parts : PartType(part) \in {"text", "image", "file"}
    BY <1>1, <1>3, PartsAccepted
  <2>2. \A part \in r.parts : PartType(part) = part
    BY <1>4 DEF PartType
  <2> QED
    BY <1>1, <2>1, <2>2 DEF Anthropic!toUserBlocks
<1>8. /\ p.choice.mode # Unset => p.choice.mode \in {"auto", "none", "required", "tool"}
      /\ \A t \in UNION tools : t.strict => caps.StrictTools
  <2>1. CASE UNION tools = {}
    BY <1>2, <2>1
  <2>2. CASE UNION tools # {}
    <3>1. /\ old.choice.mode # Unset =>
               \/ old.choice.mode \in {"auto", "none", "required"}
               \/ old.choice.mode = "tool"
          /\ \A t \in UNION tools : t.strict => caps.StrictTools
      BY <1>1, <2>2, ToolsAccepted, Zenon
    <3> QED
      BY <1>2, <2>2, <3>1
  <2> QED
    BY <2>1, <2>2
<1>9. Anthropic!toAnthropicTools(req.model.ID, req.tools)
  BY <1>1, <1>3, <1>8 DEF Anthropic!toAnthropicTools
<1>10. Anthropic!validateGenerationParams(id, p) /\ Anthropic!applyExtraParams(p.extra)
  BY <1>2, <1>3, <1>4, <1>5
     DEF Anthropic!validateGenerationParams, Anthropic!hasSamplingParams, Anthropic!applyExtraParams
<1>11. Anthropic!applyReasoning(id, p.effort)
  <2>1. CASE p.effort = Unset
    BY <2>1, SameWords DEF Anthropic!applyReasoning, Unset
  <2>2. CASE p.effort = "none" /\ p.effort # Unset
    BY <1>2, <1>3, <1>5, <2>2, SameWords
       DEF Anthropic!applyReasoning, validateReasoningConfiguration
  <2>3. CASE p.effort \notin {Unset, "none"}
    <3> DEFINE e == p.effort
    <3>1. old.effort = e /\ model = Anthropic!LookupModel(id)
      BY <1>2, <1>4, <2>3, CataloguedModel DEF model
    <3>2. /\ caps.Effort /\ isKnownReasoningEffort(model, e)
          /\ reasoningEffortRank(caps.MaxEffort) > 0 =>
               reasoningEffortRank(e) <= reasoningEffortRank(caps.MaxEffort)
          /\ reasoningEffortRank(e) >= reasoningEffortRank(ReasoningLevelMin(model))
      BY <1>5, <2>3, <3>1 DEF validateReasoningConfiguration
    <3>3. model.ReasoningLevels = Levels("low", caps.MaxEffort)
      BY <1>3, <3>1, <3>2, AnthropicWords
    <3>4. /\ caps.MaxEffort \in {"high", "max"}
          /\ caps.MaxEffort = "max" => Anthropic!supportsMaxEffort(id)
      BY <1>3, <3>2, AnthropicWords
    <3>5. ReasoningLevelMin(model) = "low"
      BY <3>3 DEF ReasoningLevelMin, reasoningLevel, Levels, Unset
    <3>6. e \in {"low", "medium", "high", "max"} /\ (e = "max" => caps.MaxEffort = "max")
      <4>1. reasoningEffortRank(e) >= 2 /\ e # "xhigh"
        BY <1>4, <3>1, <3>2, <3>5, Ranks
      <4>2. e \in {"low", "medium", "high", "max"}
        BY <4>1, Ranks
      <4>3. CASE caps.MaxEffort = "high"
        <5>1. reasoningEffortRank(e) <= 4
          BY <3>2, <4>3, Ranks
        <5> QED
          BY <4>2, <5>1, Ranks
      <4> QED
        BY <3>4, <4>2, <4>3
    <3>7. Anthropic!isSupportedReasoningEffort(id, e)
      BY <1>3, <3>2, <3>4, <3>6 DEF Anthropic!isSupportedReasoningEffort
    <3> QED
      BY <2>3, <3>7, SameWords DEF Anthropic!applyReasoning
  <2> QED
    BY <2>1, <2>2, <2>3
<1>12. Anthropic!applyResponseFormat(id, p.format)
  BY <1>2, <1>3, <1>4, <1>5, SameWords DEF Anthropic!applyResponseFormat, validateResponseFormat
<1>13. Anthropic!applyGenerationParams(id, p)
  BY <1>8, <1>10, <1>11, <1>12, SameWords DEF Anthropic!applyGenerationParams
<1> QED
  BY <1>1, <1>6, <1>7, <1>9, <1>13 DEF Anthropic!toMessageParams, req

\* What the engine's gate accepts the Z.ai driver accepts, but for what no
\* capability expresses.
LEMMA ZaiAccepts ==
  ASSUME NEW r \in RequestType, NEW tools, validateCapabilities(r, tools), r.driver = "zai",
         ~r.override, ~BeyondCapabilities(r)
  PROVE  Zai!toZaiParams(DriverRequest(r, UNION tools))
<1> DEFINE req == DriverRequest(r, UNION tools)
           sent == Zai!prepareRequest(req)
           model == resolvedModel(r)
           kind == Zai!classifyModel(model.ID)
           caps == Zai!capabilities(model)
           base == Zai!OpenAI!capabilities(model)
           old == r.params
           p == driverParams(r, UNION tools)
           q == sent.params
<1>1. /\ req.model = model /\ req.params = p
      /\ Capabilities(r) = caps
  BY DriverRequestFields DEF DriverCapabilities, Capabilities
<1>2. /\ p.format = old.format /\ p.temperature = old.temperature /\ p.penalty = old.penalty
      /\ p.extra = old.extra /\ p.maxOutput = old.maxOutput /\ p.stop = old.stop
      /\ p.effort = IF Capabilities(r).Effort \/ Capabilities(r).Disabling
                    THEN old.effort ELSE Unset
      /\ UNION tools = {} => p.choice.mode = Unset /\ p.parallel = {}
      /\ UNION tools # {} => p.choice = old.choice /\ p.parallel = old.parallel
  BY DriverParamsKept
<1>3. /\ caps.JSONSchema = base.JSONSchema /\ caps.JSONObject = base.JSONObject
      /\ caps.StrictTools = base.StrictTools /\ caps.Parallel = base.Parallel
      /\ caps.Penalties = base.Penalties /\ caps.Sampling = base.Sampling
      /\ ~caps.ToolChoice /\ ~caps.Disabling
      /\ caps.Effort <=> kind # Unset
  BY ZaiCapabilities
<1>4. /\ sent.model = model /\ sent.tools = UNION tools /\ sent.parts = r.parts
      /\ q.format = p.format /\ q.temperature = p.temperature /\ q.penalty = p.penalty
      /\ q.choice = p.choice /\ q.parallel = p.parallel
      /\ q.effort = IF kind # Unset THEN Unset ELSE p.effort
  BY ZaiPrepared
<1>5. /\ old.effort # Unset => Catalogued(r)
      /\ ~(old.stop > MaxStopWords) /\ "thinking disabled" \notin old.extra
      /\ ~\E m \in old.maxOutput : m > GLMMaxOutputTokens
  BY DEF BeyondCapabilities
<1> HIDE DEF req, caps, base, p, model, kind, sent, q
<1>6. /\ old.temperature => caps.Sampling
      /\ old.penalty => caps.Penalties
      /\ validateReasoningConfiguration(model, old.effort, caps)
      /\ validateResponseFormat(old.format, caps)
  BY <1>1, EngineAccepts DEF model
<1>7. /\ p.choice.mode = Unset
      /\ p.parallel # {} => caps.Parallel
      /\ \A t \in UNION tools : t.strict => caps.StrictTools
  <2>1. CASE UNION tools = {}
    BY <1>2, <2>1
  <2>2. CASE UNION tools # {}
    <3>1. /\ old.choice.mode # Unset => caps.ToolChoice
          /\ \A t \in UNION tools : t.strict => caps.StrictTools
          /\ old.parallel # {} => caps.Parallel
      BY <1>1, <2>2, ToolsAccepted, Zenon
    <3> QED
      BY <1>2, <1>3, <2>2, <3>1
  <2> QED
    BY <2>1, <2>2
<1>8. Zai!validateParams(kind, p)
  <2>1. old.stop <= MaxStopWords
    <3>1. old.stop \in Int
      BY DEF RequestType, ParamsType
    <3>2. MaxStopWords \in Nat /\ GLMMaxOutputTokens \in Nat
      BY LaunchAssumption
    <3>3. \A a, b \in Int : ~(a > b) => a <= b
      OBVIOUS
    <3>4. MaxStopWords \in Int /\ GLMMaxOutputTokens \in Int
      BY <3>2
    <3> QED
      BY <1>5, <3>1, <3>3, <3>4, Zenon
  <2>2. \A m \in old.maxOutput : m <= GLMMaxOutputTokens
    <3>1. old.maxOutput \subseteq Int
      BY DEF RequestType, ParamsType
    <3>2. MaxStopWords \in Nat /\ GLMMaxOutputTokens \in Nat
      BY LaunchAssumption
    <3>3. \A a, b \in Int : ~(a > b) => a <= b
      OBVIOUS
    <3>4. MaxStopWords \in Int /\ GLMMaxOutputTokens \in Int
      BY <3>2
    <3> QED
      BY <1>5, <3>1, <3>3, <3>4, Zenon
  <2> QED
    BY <1>2, <1>7, <2>1, <2>2 DEF Zai!validateParams, Unset
<1>9. Zai!reasoningConfiguration(kind, p)
  <2>1. CASE kind = Unset
    BY <1>1, <1>2, <1>3, <2>1, SameWords DEF Zai!reasoningConfiguration
  <2>2. CASE kind # Unset /\ p.effort = Unset
    BY <1>2, <1>5, <2>2, SameWords DEF Zai!reasoningConfiguration, Zai!requestedThinking
  <2>3. CASE kind # Unset /\ p.effort # Unset
    <3>1. old.effort = p.effort /\ Catalogued(r) /\ model = Zai!LookupModel(model.ID)
      BY <1>1, <1>2, <1>3, <1>5, <2>3, CataloguedModel DEF model
    <3>2. model.ReasoningLevels = Levels("low", "max")
      BY <2>3, <3>1, SameWords DEF kind, Zai!LookupModel, Zai!Model, Zai!Levels, Levels
    <3>3. model.ReasoningLevels \in CatalogueLevels
      BY <3>2 DEF CatalogueLevels
    <3>4. p.effort # "none" /\ isKnownReasoningEffort(model, p.effort)
      BY <1>3, <1>6, <2>3, <3>1 DEF validateReasoningConfiguration
    <3>5. reasoningEffortRank(p.effort) > 0
      BY <2>3, <3>3, <3>4, KnownLevel
    <3>6. p.effort \in {"minimal", "low", "medium", "high", "xhigh", "max"}
      BY <3>5, Ranks
    <3>7. Zai!codingPlanReasoningEffort(p.effort) # Unset
      BY <3>6 DEF Zai!codingPlanReasoningEffort, Unset
    <3> QED
      BY <1>2, <1>5, <2>3, <3>7, SameWords DEF Zai!reasoningConfiguration, Zai!requestedThinking
  <2> QED
    BY <2>1, <2>2, <2>3
<1>10. q.effort = Unset
  BY <1>1, <1>2, <1>3, <1>4
<1>11. Zai!OpenAI!toOpenAIParams(sent)
  <2>1. ~Zai!OpenAI!rejectUnsupportedReasoning(sent, base)
    BY <1>10, SameWords DEF Zai!OpenAI!rejectUnsupportedReasoning, q, Unset
  <2>2. ~Zai!OpenAI!rejectUnsupportedToolParams(sent, base)
    BY <1>3, <1>4, <1>7, SameWords DEF Zai!OpenAI!rejectUnsupportedToolParams, q
  <2>3. ~Zai!OpenAI!rejectUnsupportedStructured(sent, base)
    BY <1>2, <1>3, <1>4, <1>6, <2>2
       DEF Zai!OpenAI!rejectUnsupportedStructured, validateResponseFormat, q, Unset
  <2>4. ~Zai!OpenAI!rejectUnsupportedParams(sent)
    BY <1>2, <1>3, <1>4, <1>6, <2>1, <2>3 DEF Zai!OpenAI!rejectUnsupportedParams, base, q
  <2>5. Zai!OpenAI!applyGenerationParams(sent.params)
    <3>1. Zai!OpenAI!toOpenAIToolChoice(q.choice)
      BY <1>4, <1>7, SameWords DEF Zai!OpenAI!toOpenAIToolChoice
    <3>2. Zai!OpenAI!toOpenAIResponseFormat(q.format)
      BY <1>2, <1>4, <1>6, SameWords DEF Zai!OpenAI!toOpenAIResponseFormat, validateResponseFormat
    <3> QED
      BY <3>1, <3>2 DEF Zai!OpenAI!applyGenerationParams, q
  <2>6. "malformed" \notin sent.parts
    BY <1>4, PartsAccepted
  <2> QED
    BY <2>4, <2>5, <2>6 DEF Zai!OpenAI!toOpenAIParams
<1> QED
  BY <1>1, <1>8, <1>9, <1>11 DEF Zai!toZaiParams, req, sent, kind

-----------------------------------------------------------------------------
(* The gates' invariant. *)

\* RunInto's runs have no tools and ask for the schema.
Structured(r) == r.tools = {} /\ ~r.provider /\ r.params.format = {structuredSchema}

\* The limits a run was validated with.
Validated(r) == validateOutputReserve(r) /\ \A m \in r.params.maxOutput : m >= 0

\* The inductive invariant of the two gates.
GateInv ==
  /\ request \in RequestType /\ current \in RequestType
  /\ pc = "build" => wire = {} /\ ~request.into
  /\ pc \in {"build", "run", "round", "sent"} => refused = ""
  /\ pc = "returned" /\ refused # "" => ~reply.ok
  /\ request.into /\ pc # "done" => Structured(current)
  /\ wire # {} \/ pc \in {"round", "sent"} => Validated(current)
  /\ SentIsSupported /\ AcceptedIsSent

\* Two requests the gates do not tell apart.
Alike(r, s) ==
  /\ s.driver = r.driver /\ s.override = r.override /\ s.model = r.model
  /\ s.clientModel = r.clientModel /\ s.params = r.params /\ s.limits = r.limits
  /\ s.tools = r.tools /\ s.provider = r.provider

\* A request is like itself.
LEMMA AlikeItself == ASSUME NEW r PROVE Alike(r, r)
  BY DEF Alike

\* Requests that are alike are validated alike.
LEMMA ValidatedAlike ==
  ASSUME NEW r, NEW s, Alike(r, s), Validated(r) PROVE Validated(s)
  BY DEF Alike, Validated, validateOutputReserve, resolvedOutputReserve

\* What was sent stays supported when the request is replaced by one like it.
LEMMA SentAlike ==
  ASSUME SentIsSupported, Alike(current, current'), wire' = wire,
         request'.into = request.into
  PROVE  SentIsSupported'
<1>1. /\ current'.driver = current.driver /\ current'.limits = current.limits
      /\ resolvedModel(current') = resolvedModel(current)
      /\ resolvedOutputReserve(current') = resolvedOutputReserve(current)
      /\ resolvedBudget(current') = resolvedBudget(current)
      /\ current'.override = current.override
  BY DEF Alike, resolvedModel, resolvedBudget, resolvedOutputReserve
<1>2. Catalogued(current') <=> Catalogued(current)
  BY <1>1 DEF Catalogued
<1>3. (Gap)' <=> Gap
  BY <1>1 DEF Gap
<1> QED
  BY <1>1, <1>2, <1>3 DEF SentIsSupported

\* A call starts in the invariant.
LEMMA GateInit == Init => GateInv
<1> SUFFICES ASSUME Init PROVE GateInv
  OBVIOUS
<1>1. request \in RequestType /\ ~request.into /\ current = request
  <2>1. PICK client \in Clients : request = NewRequest(client)
    BY DEF Init
  <2> QED
    BY <2>1, NewRequestType DEF Init, NewRequest
<1>2. pc = "build" /\ wire = {} /\ refused = ""
  BY DEF Init
<1> QED
  BY <1>1, <1>2 DEF GateInv, SentIsSupported, AcceptedIsSent

\* A step that changes nothing the gates look at.
LEMMA GateKept ==
  ASSUME GateInv, current' \in RequestType, Alike(current, current'),
         request' = request, wire' = wire,
         refused' = "" \/ (refused' = refused /\ current' = current) \/ refused' = "engine",
         pc' # "build",
         pc' \in {"run", "round", "sent"} => refused' = "",
         pc' = "returned" /\ refused' # "" => ~reply'.ok,
         pc = "done" => pc' = "done",
         pc' \in {"round", "sent"} => Validated(current)
  PROVE  GateInv'
<1>1. SentIsSupported'
  BY SentAlike DEF GateInv
<1>2. AcceptedIsSent'
  <2>1. CASE refused' = refused /\ current' = current
    BY <2>1 DEF GateInv, AcceptedIsSent
  <2>2. CASE refused' # "driver"
    BY <2>2 DEF AcceptedIsSent
  <2> QED
    BY <2>1, <2>2
<1>3. request'.into /\ pc' # "done" => Structured(current')
  BY DEF GateInv, Structured, Alike
<1>4. wire' # {} \/ pc' \in {"round", "sent"} => Validated(current')
  BY ValidatedAlike DEF GateInv
<1> QED
  BY <1>1, <1>2, <1>3, <1>4 DEF GateInv

\* A step that changes nothing keeps it.
LEMMA GateStutter == ASSUME GateInv, UNCHANGED vars PROVE GateInv'
<1>1. UNCHANGED <<request, current, wire, refused, reply, pc>>
  BY DEF vars, callVars
<1>2. SentIsSupported'
  BY <1>1, AlikeItself, SentAlike DEF GateInv
<1>3. AcceptedIsSent'
  BY <1>1 DEF GateInv, AcceptedIsSent
<1> QED
  BY <1>1, <1>2, <1>3 DEF GateInv

\* So do the setters,
LEMMA SetGate ==
  ASSUME GateInv,
         NEW r \in UNION {WithPrompt(request), WithModel(request), WithTools(request),
                          WithGenerationParams(request), WithLimits(request),
                          WithChecks(request)},
         set(r)
  PROVE  GateInv'
<1>1. request' = r /\ pc = "build" /\ UNCHANGED <<pc, current, wire, refused, reply>>
  BY DEF set, callVars
<1>2. r \in RequestType
  BY WithPromptType, WithModelType, WithToolsType, WithGenerationParamsType, WithLimitsType,
     WithChecksType DEF GateInv
<1>3. r.into = request.into
  <2>1. request \in RequestType
    BY DEF GateInv
  <2> QED
    BY <2>1 DEF WithPrompt, WithModel, WithTools, WithGenerationParams, WithLimits, WithChecks,
                RequestType
<1> QED
  BY <1>1, <1>2, <1>3 DEF GateInv, SentIsSupported, AcceptedIsSent

\* Run,
LEMMA RunGate == ASSUME GateInv, Run PROVE GateInv'
  BY DEF Run, GateInv, SentIsSupported, AcceptedIsSent

\* cloneForStructuredResponse makes a request without tools that asks for the schema.
LEMMA StructuredType ==
  ASSUME NEW r \in RequestType
  PROVE  LET s == cloneForStructuredResponse(r) IN s \in RequestType /\ Structured(s)
<1>1. structuredSchema \in Formats
  <2>1. \A yes \in BOOLEAN : [type |-> "json_schema", named |-> yes, object |-> yes] \in Formats
    BY DEF Formats, Word
  <2> QED
    BY <2>1, Zenon DEF structuredSchema, Format
<1> DEFINE p == [r.params EXCEPT !.format = {structuredSchema}]
<1>2. r.params \in ParamsType
  BY DEF RequestType
<1>3. p \in ParamsType /\ p.format = {structuredSchema}
  BY <1>1, <1>2 DEF ParamsType
<1>4. cloneForStructuredResponse(r) = [r EXCEPT !.tools = {}, !.provider = FALSE, !.params = p]
  BY DEF cloneForStructuredResponse, RequestType
<1> HIDE DEF p
<1>5. \A no \in BOOLEAN : LET s == [r EXCEPT !.tools = {}, !.provider = no, !.params = p] IN
        s \in RequestType /\ s.tools = {} /\ s.provider = no /\ s.params = p
  BY <1>3 DEF RequestType
<1>6. LET s == [r EXCEPT !.tools = {}, !.provider = FALSE, !.params = p] IN
        s \in RequestType /\ s.tools = {} /\ s.provider = FALSE /\ s.params = p
  BY <1>5, Zenon
<1> QED
  BY <1>3, <1>4, <1>6 DEF Structured

\* RunInto keeps the invariant,
LEMMA RunIntoGate == ASSUME GateInv, NEW pointer \in BOOLEAN, RunInto(pointer) PROVE GateInv'
<1>1. /\ request \in RequestType /\ request' = [request EXCEPT !.into = TRUE] /\ pc = "build"
      /\ UNCHANGED <<wire, refused, reply>> /\ wire = {} /\ refused = ""
  BY DEF GateInv, RunInto
<1>2. request' \in RequestType /\ request'.into
  <2>1. \A b \in BOOLEAN : [request EXCEPT !.into = b] \in RequestType
    BY <1>1 DEF RequestType
  <2>2. [request EXCEPT !.into = TRUE].into = TRUE
    BY <1>1 DEF RequestType
  <2>3. [request EXCEPT !.into = TRUE] \in RequestType
    BY <2>1, Zenon
  <2> QED
    BY <1>1, <2>2, <2>3
<1>3. SentIsSupported' /\ AcceptedIsSent'
  BY <1>1 DEF SentIsSupported, AcceptedIsSent
<1>4. CASE pointer
  <2>1. current' = cloneForStructuredResponse(request') /\ pc' = "run"
    BY <1>4 DEF RunInto
  <2>2. current' \in RequestType /\ Structured(current')
    BY <1>2, <2>1, StructuredType
  <2> QED
    BY <1>1, <1>2, <1>3, <2>1, <2>2 DEF GateInv
<1>5. CASE ~pointer
  <2>1. pc' = "done" /\ UNCHANGED current
    BY <1>5 DEF RunInto
  <2> QED
    BY <1>1, <1>2, <1>3, <2>1 DEF GateInv
<1> QED
  BY <1>4, <1>5

\* and so does validation, which is where the limits are checked.
LEMMA ValidateGate == ASSUME GateInv, run PROVE GateInv'
<1>1. /\ pc = "run" /\ UNCHANGED <<request, current, wire>> /\ refused = ""
      /\ current \in RequestType
  BY DEF run, GateInv
<1>2. CASE validate(current)
  <2>1. pc' = "round" /\ refused' = ""
    BY <1>1, <1>2 DEF run
  <2>2. Validated(current)
    BY <1>2 DEF validate, validateLimits, Validated
  <2> QED
    BY <1>1, <2>1, <2>2, AlikeItself, GateKept
<1>3. CASE ~validate(current)
  <2>1. pc' = "returned" /\ refused' = "engine" /\ reply' = Nothing
    BY <1>3 DEF run
  <2>2. ~Nothing.ok
    BY DEF Nothing, Outcome
  <2> QED
    BY <1>1, <2>1, <2>2, AlikeItself, GateKept
<1> QED
  BY <1>2, <1>3

\* A round that fails before its request is sent keeps it,
LEMMA FailsGate ==
  ASSUME GateInv, pc = "round", NEW who \in {"", "engine"}, Fails(who),
         UNCHANGED <<request, current>>
  PROVE  GateInv'
<1>1. pc' = "returned" /\ refused' = who /\ ~reply'.ok /\ wire' = wire
  BY DEF Fails, Outcome
<1> QED
  BY <1>1, AlikeItself, GateKept DEF GateInv

\* so a failing tool provider does.
LEMMA ProvideGate == ASSUME GateInv, provideToolsFails PROVE GateInv'
  BY FailsGate DEF provideToolsFails

\* A request that got a content part by an injection is still like the old one.
LEMMA WithPartsType ==
  ASSUME NEW r \in RequestType, NEW p \in STRING
  PROVE  LET s == [r EXCEPT !.parts = @ \cup {p}] IN s \in RequestType /\ Alike(r, s)
<1>1. r.parts \cup {p} \in SUBSET Word
  BY SettingTypes DEF RequestType
<1> QED
  BY <1>1 DEF RequestType, Alike

\* An answer keeps the invariant, though handlers may inject content parts.
LEMMA AnsweredGate == ASSUME GateInv, NEW text, NEW finish, answered(text, finish) PROVE GateInv'
<1>1. /\ pc = "sent" /\ UNCHANGED <<request, wire, refused>> /\ refused = ""
      /\ pc' \in {"round", "returned"}
      /\ current \in RequestType /\ Validated(current)
  BY DEF answered, GateInv
<1>2. current' \in RequestType /\ Alike(current, current')
  <2>1. \/ current' = current
        \/ \E p \in Injected : current' = [current EXCEPT !.parts = @ \cup {p}]
    BY DEF answered
  <2> QED
    BY <1>1, <2>1, WithPartsType, AlikeItself, LaunchAssumption
<1> QED
  BY <1>1, <1>2, GateKept

\* So does a failure of the provider,
LEMMA ProviderFailsGate == ASSUME GateInv, NEW charged, providerFails(charged) PROVE GateInv'
<1>1. /\ pc = "sent" /\ pc' = "returned" /\ UNCHANGED <<request, wire, refused, current>>
      /\ refused = "" /\ current \in RequestType
  BY DEF providerFails, GateInv
<1> QED
  BY <1>1, AlikeItself, GateKept

\* the return of a run,
LEMMA RunReturnsGate == ASSUME GateInv, runReturns PROVE GateInv'
<1>1. /\ pc = "returned" /\ pc' = "done" /\ UNCHANGED <<request, wire, refused, current>>
      /\ current \in RequestType
  BY DEF runReturns, GateInv
<1> QED
  BY <1>1, AlikeItself, GateKept

\* and decoding the reply, which may start the repair run with a request like the
\* first one.
LEMMA DecodeGate == ASSUME GateInv, CallInv, decodeReply PROVE GateInv'
<1>1. /\ pc = "returned" /\ UNCHANGED <<request, wire, refused>> /\ current \in RequestType
  BY DEF decodeReply, GateInv
<1>2. CASE pc' = "done" /\ UNCHANGED current
  BY <1>1, <1>2, AlikeItself, GateKept
<1>3. CASE pc' = "run" /\ reply.ok /\ current' = cloneForRepair(current, reply)
  <2>1. refused = ""
    BY <1>1, <1>3 DEF GateInv
  <2>2. reply.calls \in BOOLEAN
    BY DEF CallInv, TypeInv, Outcomes
  <2>3. current' \in RequestType /\ Alike(current, current')
    BY <1>1, <1>3, <2>2 DEF cloneForRepair, RequestType, Alike
  <2> QED
    BY <1>1, <1>3, <2>1, <2>3, GateKept
<1> QED
  BY <1>2, <1>3 DEF decodeReply

\* The driver's refusal of what the engine accepted.
LEMMA Refusal ==
  ASSUME NEW r \in RequestType, NEW tools, validateCapabilities(r, tools), Validated(r),
         ~r.override, ~BeyondCapabilities(r)
  PROVE  ~r.dangling /\ Translates(r.driver, DriverRequest(r, UNION tools))
<1>1. ~r.dangling /\ (r.params.effort # Unset => Catalogued(r))
  BY DEF BeyondCapabilities
<1>2. \A m \in r.params.maxOutput : m >= 0
  BY DEF Validated
<1>3. CASE r.driver = "openai"
  BY <1>1, <1>3, OpenAIAccepts DEF Translates
<1>4. CASE r.driver = "anthropic"
  BY <1>1, <1>2, <1>4, AnthropicAccepts DEF Translates
<1>5. CASE r.driver = "zai"
  BY <1>1, <1>5, ZaiAccepts DEF Translates
<1> QED
  BY <1>3, <1>4, <1>5 DEF RequestType

\* What reaches the wire.
LEMMA OnTheWire ==
  ASSUME NEW r \in RequestType, NEW tools, validateCapabilities(r, tools),
         Translates(r.driver, DriverRequest(r, UNION tools))
  PROVE  LET req == DriverRequest(r, UNION tools)
             w == [req EXCEPT !.params = WireParams(r.driver, req)]
         IN Respected(r, w) /\ w.tools = UNION tools /\ w.model = resolvedModel(r)
<1> DEFINE req == DriverRequest(r, UNION tools)
           p == WireParams(r.driver, req)
           w == [req EXCEPT !.params = p]
<1>1. /\ req.params = driverParams(r, UNION tools)
      /\ req = [model |-> resolvedModel(r), params |-> driverParams(r, UNION tools),
                tools |-> UNION tools, parts |-> r.parts]
  BY DriverRequestFields
<1> HIDE DEF p, req
<1>2. w.model = resolvedModel(r) /\ w.tools = UNION tools /\ w.parts = r.parts /\ w.params = p
  BY <1>1
<1> HIDE DEF w
<1>3. CASE r.driver = "openai"
  <2>1. p = driverParams(r, UNION tools) /\ OpenAI!toOpenAIParams(DriverRequest(r, UNION tools))
    BY <1>1, <1>3 DEF p, WireParams, Translates
  <2> QED
    BY <1>2, <1>3, <2>1, OpenAISent DEF w, p, req
<1>4. CASE r.driver = "anthropic"
  <2>1. /\ p = [driverParams(r, UNION tools) EXCEPT
                  !.choice = Anthropic!applyToolChoice(driverParams(r, UNION tools))]
        /\ Anthropic!toMessageParams(DriverRequest(r, UNION tools))
    BY <1>1, <1>4 DEF p, WireParams, Translates
  <2> QED
    BY <1>2, <1>4, <2>1, AnthropicSent DEF w, p, req
<1>5. CASE r.driver = "zai"
  <2>1. /\ p = Zai!prepareRequest(DriverRequest(r, UNION tools)).params
        /\ Zai!toZaiParams(DriverRequest(r, UNION tools))
    BY <1>1, <1>5 DEF p, WireParams, Translates, req
  <2> QED
    BY <1>2, <1>5, <2>1, ZaiSent DEF w, p, req
<1> QED
  BY <1>3, <1>4, <1>5 DEF RequestType

\* An explicit context limit leaves room for the prompt and the reply.
LEMMA RoomForBoth ==
  ASSUME NEW r \in RequestType, Validated(r), r.limits.context > 0
  PROVE  /\ resolvedBudget(r) > 0
         /\ resolvedBudget(r) + resolvedOutputReserve(r) = r.limits.context
<1>1. /\ r.limits.context \in Int /\ r.limits.reserve \subseteq Int
      /\ r.params.maxOutput \subseteq Int
  BY DEF RequestType, LimitsType, ParamsType
<1>2. DefaultOutputReserve \in Int
  <2>1. DefaultOutputReserve \in Nat
    BY LaunchAssumption
  <2> QED
    BY <2>1
<1>3. resolvedOutputReserve(r) \in Int
  <2>1. CASE r.limits.reserve # {}
    BY <1>1, <2>1 DEF resolvedOutputReserve
  <2>2. CASE r.limits.reserve = {} /\ \E m \in r.params.maxOutput : m > 0
    BY <1>1, <2>2 DEF resolvedOutputReserve
  <2>3. CASE r.limits.reserve = {} /\ ~\E m \in r.params.maxOutput : m > 0
    BY <1>2, <2>3 DEF resolvedOutputReserve
  <2> QED
    BY <2>1, <2>2, <2>3
<1>4. resolvedOutputReserve(r) < r.limits.context
  BY DEF Validated, validateOutputReserve
<1>5. resolvedBudget(r) = r.limits.context - resolvedOutputReserve(r)
  BY <1>1, <1>3, <1>4 DEF resolvedBudget
<1> QED
  BY <1>1, <1>3, <1>4, <1>5

\* The gates of a round: what passes both is supported, and what the first accepts
\* the second does.
LEMMA NextRoundGate ==
  ASSUME GateInv, NEW tools \in resolveTools, nextRound(tools) PROVE GateInv'
<1> DEFINE req == DriverRequest(current, UNION tools)
           w == [req EXCEPT !.params = WireParams(current.driver, req)]
<1>1. /\ pc = "round" /\ UNCHANGED <<request, current>> /\ current \in RequestType
      /\ Validated(current) /\ refused = ""
  BY DEF nextRound, GateInv
<1>2. CASE ~prepareTools(tools)
  <2>1. Fails("engine")
    BY <1>2 DEF nextRound
  <2> QED
    BY <1>1, <2>1, FailsGate
<1>3. CASE prepareTools(tools) /\ ~(Legal /\ Translates(current.driver, req))
  <2>1. pc' = "returned" /\ refused' = "driver" /\ ~reply'.ok /\ wire' = wire
    <3>1. Fails("driver")
      BY <1>3 DEF nextRound
    <3> QED
      BY <3>1 DEF Fails, Outcome
  <2>2. BeyondCapabilities(current) \/ current.override
    BY <1>1, <1>3, Refusal DEF prepareTools, Legal
  <2>3. AcceptedIsSent'
    BY <1>1, <2>2 DEF AcceptedIsSent
  <2>4. SentIsSupported'
    BY <1>1, <2>1, AlikeItself, SentAlike DEF GateInv
  <2> QED
    BY <1>1, <2>1, <2>3, <2>4 DEF GateInv
<1>4. CASE prepareTools(tools) /\ Legal /\ Translates(current.driver, req)
  <2>1. pc' = "sent" /\ wire' = {w} /\ UNCHANGED <<refused, reply>>
    BY <1>4 DEF nextRound
  <2>2. Respected(current, w) /\ w.tools = UNION tools /\ w.model = resolvedModel(current)
    BY <1>1, <1>4, OnTheWire DEF prepareTools
  <2>3. request.into => w.tools = {} /\ w.params.format = {structuredSchema}
    <3>1. request.into => Structured(current)
      BY <1>1 DEF GateInv
    <3>2. Structured(current) => UNION tools = {}
      BY DEF Structured, resolveTools, hasTools, staticTools
    <3> QED
      BY <2>2, <3>1, <3>2 DEF Structured, Respected
  <2>4. current.limits.context > 0 =>
          /\ resolvedBudget(current) > 0
          /\ resolvedBudget(current) + resolvedOutputReserve(current) = current.limits.context
    BY <1>1, RoomForBoth
  <2> HIDE DEF w
  <2>5. SentIsSupported'
    BY <1>1, <2>1, <2>2, <2>3, <2>4 DEF SentIsSupported, Respected, Gap
  <2>6. AcceptedIsSent'
    BY <1>1, <2>1 DEF AcceptedIsSent
  <2> QED
    BY <1>1, <2>1, <2>5, <2>6 DEF GateInv
<1> QED
  BY <1>2, <1>3, <1>4

\* Every step keeps the invariant.
LEMMA GateNext == GateInv /\ CallInv /\ [Next]_vars => GateInv'
<1> SUFFICES ASSUME GateInv, CallInv, [Next]_vars PROVE GateInv'
  OBVIOUS
<1>1. CASE UNCHANGED vars
  BY <1>1, GateStutter
<1>2. CASE \E r \in UNION {WithPrompt(request), WithModel(request), WithTools(request),
                           WithGenerationParams(request), WithLimits(request),
                           WithChecks(request)} : set(r)
  BY <1>2, SetGate
<1>3. CASE Run \/ \E pointer \in BOOLEAN : RunInto(pointer)
  BY <1>3, RunGate, RunIntoGate
<1>4. CASE run \/ runReturns \/ decodeReply \/ provideToolsFails
  BY <1>4, ValidateGate, RunReturnsGate, DecodeGate, ProvideGate
<1>5. CASE \E tools \in resolveTools : nextRound(tools)
  BY <1>5, NextRoundGate
<1>6. CASE \E text \in Replies, finish \in Finishes : answered(text, finish)
  BY <1>6, AnsweredGate
<1>7. CASE \E charged \in {0, 1} : providerFails(charged)
  BY <1>7, ProviderFailsGate
<1> QED
  BY <1>1, <1>2, <1>3, <1>4, <1>5, <1>6, <1>7 DEF Next

\* The gates' invariant holds throughout.
THEOREM GateInvariant == Spec => []GateInv
  BY CallInvariant, GateInit, GateNext, PTL DEF Spec

\* Whatever is set, injected or provided between rounds, and with or without a
\* client override, no request goes to a provider that the driver's own
\* Capabilities disclaims (prepareTools, driverParams and the drivers' gates).
THEOREM NothingUnsupportedIsSent == Spec => []SentIsSupported
  BY GateInvariant, PTL DEF GateInv

\* What the engine's gate passes the driver's passes, for every combination of
\* settings and every model id, but for what BeyondCapabilities lists
\* (validateCapabilities against toOpenAIParams, toMessageParams, prepareRequest).
THEOREM TheGatesAgree == Spec => []AcceptedIsSent
  BY GateInvariant, PTL DEF GateInv
=============================================================================

---------------------------- MODULE ToolDispatch ----------------------------
(***************************************************************************)
(* One tool round in detail: the once flag of attachToolExecutor, the      *)
(* dispatch loop of runToolCalls with its semaphore and wait group, one    *)
(* goroutine per call (runToolCall ... runToolLifecycle), and the second   *)
(* goroutine executeToolHandler starts for the handler, which a timeout    *)
(* abandons.  Several goroutines may call ExecuteToolCalls on the same     *)
(* response.                                                               *)
(*                                                                         *)
(* Tools, hooks and injectors are external: a hook may fail or panic, a    *)
(* handler may fail, panic or never return.                                *)
(***************************************************************************)
EXTENDS Naturals, Sequences, FiniteSets

CONSTANTS
  Callers,             \* goroutines calling ExecuteToolCalls
  NumCalls,            \* tool calls of the assistant turn
  MaxConcurrentTools,  \* Request.maxConcurrentTools
  Untimed              \* calls whose context has no deadline

ASSUME DispatchAssumption ==
  /\ NumCalls \in Nat \ {0}
  /\ MaxConcurrentTools \in Nat \ {0}
  /\ Untimed \subseteq 1 .. NumCalls

Calls == 1 .. NumCalls

\* A toolOutcome, reduced to whether it fails the round.  What it carries, an
\* answer or an error for the model and the injections, is Engine's.
Outcomes == {"none", "fine", "failed"}

VARIABLES
  executed,  \* the once flag
  caller,    \* where a caller of ExecuteToolCalls is
  next,      \* the dispatch loops' position
  tokens,    \* entries in the semaphore channel
  worker,    \* where the goroutine of a call is
  expired,   \* calls whose context is done
  handler,   \* where the handler goroutine of a call is
  starts,    \* history: how often the handler of a call was started
  outcome    \* the outcomes slice

vars == <<executed, caller, next, tokens, worker, expired, handler, starts,
          outcome>>

Places == {"idle", "refused", "hooks", "dispatch", "wait", "aborted", "recorded"}
Stages == {"none", "start", "await", "release", "done"}

TypeOK ==
  /\ executed \in BOOLEAN
  /\ caller \in [Callers -> Places]
  /\ next \in 1 .. NumCalls + 1
  /\ tokens \in 0 .. MaxConcurrentTools
  /\ worker \in [Calls -> Stages]
  /\ expired \subseteq Calls
  /\ handler \in [Calls -> {"none", "running", "returned"}]
  /\ starts \in [Calls -> Nat]
  /\ outcome \in [Calls -> Outcomes]

Init ==
  /\ executed = FALSE
  /\ caller = [p \in Callers |-> "idle"]
  /\ next = 1
  /\ tokens = 0
  /\ worker = [c \in Calls |-> "none"]
  /\ expired = {}
  /\ handler = [c \in Calls |-> "none"]
  /\ starts = [c \in Calls |-> 0]
  /\ outcome = [c \in Calls |-> "none"]

workerVars == <<tokens, worker, expired, handler, starts, outcome>>

-----------------------------------------------------------------------------
(* The callers. *)

Move(p, place) == caller' = [caller EXCEPT ![p] = place]

\* The test and set of the once flag, under the mutex.
ExecuteToolCalls(p) ==
  /\ caller[p] = "idle"
  /\ executed' = TRUE
  /\ Move(p, IF executed THEN "refused" ELSE "hooks")
  /\ UNCHANGED <<next, workerVars>>

\* The first loop of runToolCalls: every OnToolCallStart hook before any
\* handler.
fireToolCallStart(p) ==
  /\ caller[p] = "hooks"
  /\ IF next = NumCalls
     THEN Move(p, "dispatch") /\ next' = 1
     ELSE next' = next + 1 /\ UNCHANGED caller
  /\ UNCHANGED <<executed, workerVars>>

fireToolCallStartFails(p) ==
  /\ caller[p] = "hooks"
  /\ Move(p, "aborted")
  /\ UNCHANGED <<executed, next, workerVars>>

\* Fault: a goroutine without waiting for a token.
runWithoutToken(p) ==
  /\ caller[p] = "dispatch"
  /\ next <= NumCalls
  /\ tokens' = tokens + 1
  /\ worker' = [worker EXCEPT ![next] = "start"]
  /\ next' = next + 1
  /\ IF next = NumCalls THEN Move(p, "wait") ELSE UNCHANGED caller
  /\ UNCHANGED <<executed, expired, handler, starts, outcome>>

\* The second loop: a token, then the goroutine.  The loop blocks while the
\* semaphore is full.
runToolCalls(p) ==
  /\ caller[p] = "dispatch"
  /\ next <= NumCalls
  /\ tokens < MaxConcurrentTools
  /\ tokens' = tokens + 1
  /\ worker' = [worker EXCEPT ![next] = "start"]
  /\ next' = next + 1
  /\ IF next = NumCalls THEN Move(p, "wait") ELSE UNCHANGED caller
  /\ UNCHANGED <<executed, expired, handler, starts, outcome>>

\* Fault: the outcomes are read without Wait.
recordWithoutWait(p) ==
  /\ caller[p] = "wait"
  /\ Move(p, "recorded")
  /\ UNCHANGED <<executed, next, workerVars>>

\* The deferred Wait, then recordToolOutcomes reads the whole slice.
recordToolOutcomes(p) ==
  /\ caller[p] = "wait"
  /\ \A c \in Calls : worker[c] = "done"
  /\ Move(p, "recorded")
  /\ UNCHANGED <<executed, next, workerVars>>

-----------------------------------------------------------------------------
(* The goroutine of one call. *)

Advance(c, stage) == worker' = [worker EXCEPT ![c] = stage]

\* The outcome is written, then the deferred receive returns the token.
Decide(c) ==
  /\ \E o \in {"fine", "failed"} : outcome' = [outcome EXCEPT ![c] = o]
  /\ Advance(c, "release")

callerVars == <<executed, caller, next>>

\* The caller's denial, an unknown tool, unparseable arguments, no handler, or a
\* PreRun that panics: an error result for the model.  A PreRun that fails also
\* fails the round.
runToolCall(c) ==
  /\ worker[c] = "start"
  /\ Decide(c)
  /\ UNCHANGED <<callerVars, tokens, expired, handler, starts>>

\* Fault: a handler that ran out of time is started again.
executeAgain(c) ==
  /\ worker[c] = "start" \/ (worker[c] = "await" /\ c \in expired /\ starts[c] < 2)
  /\ handler' = [handler EXCEPT ![c] = "running"]
  /\ starts' = [starts EXCEPT ![c] = @ + 1]
  /\ Advance(c, "await")
  /\ UNCHANGED <<callerVars, tokens, expired, outcome>>

\* PreRun passed: the handler gets a goroutine of its own.
executeToolHandler(c) ==
  /\ worker[c] = "start"
  /\ handler' = [handler EXCEPT ![c] = "running"]
  /\ starts' = [starts EXCEPT ![c] = @ + 1]
  /\ Advance(c, "await")
  /\ UNCHANGED <<callerVars, tokens, expired, outcome>>

\* The handler returns or panics; its result waits in the buffered channel.
handlerReturns(c) ==
  /\ handler[c] = "running"
  /\ handler' = [handler EXCEPT ![c] = "returned"]
  /\ UNCHANGED <<callerVars, tokens, worker, expired, starts, outcome>>

\* The deadline of the call's context passes.
Expire(c) ==
  /\ c \notin Untimed
  /\ worker[c] = "await"
  /\ c \notin expired
  /\ expired' = expired \cup {c}
  /\ UNCHANGED <<callerVars, tokens, worker, handler, starts, outcome>>

\* Fault: the context is not selected on.
awaitHandlerOnly(c) ==
  /\ worker[c] = "await"
  /\ handler[c] = "returned"
  /\ Decide(c)
  /\ UNCHANGED <<callerVars, tokens, expired, handler, starts>>

\* select: the handler's result, or the end of the context.  Then the primary
\* hook and its injector, PostRun and its injector, the first failure skipping
\* the rest; a panic among them is recovered and no failure.
runToolLifecycle(c) ==
  /\ worker[c] = "await"
  /\ handler[c] = "returned" \/ c \in expired
  /\ Decide(c)
  /\ UNCHANGED <<callerVars, tokens, expired, handler, starts>>

\* Fault: the token of a call that ran out of time is not returned.
leakToken(c) ==
  /\ worker[c] = "release"
  /\ tokens' = IF c \in expired THEN tokens ELSE tokens - 1
  /\ Advance(c, "done")
  /\ UNCHANGED <<callerVars, expired, handler, starts, outcome>>

releaseToken(c) ==
  /\ worker[c] = "release"
  /\ tokens' = tokens - 1
  /\ Advance(c, "done")
  /\ UNCHANGED <<callerVars, expired, handler, starts, outcome>>

-----------------------------------------------------------------------------
CallerStep(p) ==
  \/ fireToolCallStart(p) \/ fireToolCallStartFails(p)
  \/ runToolCalls(p) \/ recordToolOutcomes(p)

WorkerStep(c) ==
  runToolCall(c) \/ executeToolHandler(c) \/ runToolLifecycle(c) \/ releaseToken(c)

Next ==
  \/ \E p \in Callers : ExecuteToolCalls(p) \/ CallerStep(p)
  \/ \E c \in Calls : WorkerStep(c) \/ handlerReturns(c) \/ Expire(c)

Spec == Init /\ [][Next]_vars

\* Goroutines are scheduled and deadlines pass.  A handler whose call has a
\* deadline need not return; one without a deadline must.
FairSpec ==
  /\ Spec
  /\ \A p \in Callers : WF_vars(CallerStep(p))
  /\ \A c \in Calls : WF_vars(WorkerStep(c)) /\ WF_vars(Expire(c))
  /\ \A c \in Untimed : WF_vars(handlerReturns(c))

-----------------------------------------------------------------------------
(* Properties *)

Holding == { c \in Calls : worker[c] \in {"start", "await", "release"} }

Running == { c \in Calls : handler[c] = "running" }

\* The goroutines the dispatch loop starts exist only while they hold a token of
\* the semaphore, so the provider's number of calls never decides how many there
\* are (engine.go:926-932).  A handler's own goroutine runs under the token of
\* its call; only one whose context is done can run on without (engine.go:1383), and
\* with those there may be more than the cap, which docs/tools.md:215 passes over.
WorkersBounded ==
  /\ tokens = Cardinality(Holding)
  /\ tokens <= MaxConcurrentTools
  /\ Running \ expired \subseteq Holding

\* When ExecuteToolCalls comes back, no goroutine of a call is left that could
\* still write an outcome, and an aborted round started none at all.
NothingLeftBehind ==
  \A p \in Callers :
     /\ caller[p] = "recorded" =>
          \A c \in Calls : worker[c] = "done" /\ outcome[c] # "none"
     /\ caller[p] = "aborted" =>
          \A c \in Calls : worker[c] = "none" /\ handler[c] = "none"

\* The round ToolRound describes.
Status ==
  IF \E p \in Callers : caller[p] = "aborted" THEN "aborted"
  ELSE IF \E p \in Callers : caller[p] = "recorded" THEN "answered"
  ELSE IF executed THEN "executing" ELSE "offered"

Round ==
  INSTANCE ToolRound WITH status <- Status, runs <- starts,
                          answered <- { c \in Calls : outcome[c] # "none" }

\* However many goroutines call ExecuteToolCalls, and whatever the calls do, what
\* happens is one ToolRound.
ImplementsToolRound == Round!Spec

\* Every call of ExecuteToolCalls comes back, although the dispatch loop blocks
\* on the semaphore and a handler with a deadline may never return.
CallersReturn ==
  \A p \in Callers :
     caller[p] = "hooks" ~> caller[p] \in {"aborted", "recorded"}
=============================================================================

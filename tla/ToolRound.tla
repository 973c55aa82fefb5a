------------------------------ MODULE ToolRound ------------------------------
(***************************************************************************)
(* What the agent loop relies on when it executes the tool calls of one    *)
(* assistant turn.  Response.ExecuteToolCalls may be called by anyone, at  *)
(* any time, from several goroutines; what happens is one round: it is     *)
(* claimed once, every handler runs at most once, an aborted round ran no  *)
(* handler, and an answered round has one outcome per call.  Engine takes  *)
(* a round in one step.                                                    *)
(***************************************************************************)
EXTENDS Naturals

CONSTANT Calls   \* the tool calls of the turn

VARIABLES
  status,    \* "offered", "executing", "aborted" or "answered"
  runs,      \* how often the handler of a call was started
  answered   \* the calls whose outcome is decided

vars == <<status, runs, answered>>

Init ==
  /\ status = "offered"
  /\ runs = [c \in Calls |-> 0]
  /\ answered = {}

Claim ==
  /\ status = "offered"
  /\ status' = "executing"
  /\ UNCHANGED <<runs, answered>>

Run(c) ==
  /\ status = "executing"
  /\ runs[c] = 0
  /\ c \notin answered
  /\ runs' = [runs EXCEPT ![c] = 1]
  /\ UNCHANGED <<status, answered>>

Decide(c) ==
  /\ status = "executing"
  /\ c \notin answered
  /\ answered' = answered \cup {c}
  /\ UNCHANGED <<status, runs>>

Abort ==
  /\ status = "executing"
  /\ answered = {}
  /\ \A c \in Calls : runs[c] = 0
  /\ status' = "aborted"
  /\ UNCHANGED <<runs, answered>>

Complete ==
  /\ status = "executing"
  /\ answered = Calls
  /\ status' = "answered"
  /\ UNCHANGED <<runs, answered>>

Next ==
  \/ Claim \/ Abort \/ Complete
  \/ \E c \in Calls : Run(c) \/ Decide(c)

Spec == Init /\ [][Next]_vars
=============================================================================

----------------------------- MODULE DriverCall -----------------------------
(***************************************************************************)
(* What the drivers share in one call of Stream or Complete: the deltas    *)
(* they pass to the engine's callback, the callback that may fail, and the *)
(* call's result.  A delta's body is the sequence of the provider's        *)
(* fragments it carries, each fragment named by the event it came in, so   *)
(* that joining two texts is concatenation.                                *)
(***************************************************************************)
EXTENDS Integers, Sequences, FiniteSets, SequencesExt

CONSTANTS
  Calls    \* calls to examine: driver, mode, callback given, provider's style

VARIABLES
  call,      \* the call
  pc,        \* where the driver is in it
  n,         \* chunks or events the provider has sent
  pending,   \* deltas the driver is about to pass to onDelta, in order
  deltas,    \* deltas passed to onDelta
  usage,     \* the Usage returned
  err,       \* what the returned error wraps
  streams,   \* response streams opened and not closed
  answer     \* what the provider has sent, by channel

callVars == <<call, pc, n, pending, deltas, usage, err, streams, answer>>

Unset == ""

\* The fields of elelem.Delta.  A finish delta's id is its reason; a state delta
\* is ProviderReasoning, with the reasoning text and the reasoning blocks in it.
Delta(kind, index, id, body, blocks) ==
  [kind |-> kind, index |-> index, id |-> id, body |-> body, blocks |-> blocks]

TextDelta(body) == Delta("text", 0, "", body, <<>>)
ReasoningDelta(body) == Delta("reasoning", 0, "", body, <<>>)
ToolCallDelta(index, id, body) == Delta("call", index, id, body, <<>>)
StateDelta(body, blocks) == Delta("state", 0, "", body, blocks)
FinishDelta(reason) == Delta("finish", 0, reason, <<>>, <<>>)

\* A delta for a body, if there is one.
IfAny(body, delta) == IF body = <<>> THEN <<>> ELSE <<delta>>

NoUsage == [finish |-> Unset, prompt |-> 0, completion |-> 0, total |-> 0]

NoAnswer ==
  [text |-> <<>>, reasoning |-> <<>>, blocks |-> <<>>, calls |-> <<>>,
   refused |-> FALSE, reason |-> Unset, usage |-> <<0, 0>>]

Streams == call.mode = "stream"
HasCallback == call.callback

Idle == pending = <<>>

CallInit ==
  /\ call \in Calls
  /\ pc = "start"
  /\ n = 0
  /\ pending = <<>> /\ deltas = <<>>
  /\ usage = NoUsage
  /\ err = {}
  /\ streams = 0
  /\ answer = NoAnswer
=============================================================================

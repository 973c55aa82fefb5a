--------------------------- MODULE DriverContract ---------------------------
(***************************************************************************)
(* What one call of elelem.Driver's Stream or Complete promises the        *)
(* engine, whatever the provider: the deltas come one at a time, the       *)
(* reasoning to replay at most once, the finish reason at most once and    *)
(* last (conformance.go, assertDeltaContract); a callback that failed is   *)
(* not called again and its call does not succeed; and the call does not   *)
(* return while it still holds the provider's response stream.             *)
(***************************************************************************)
EXTENDS Integers, Sequences

VARIABLES
  deltas,    \* deltas passed to the callback
  failed,    \* the callback returned an error
  held,      \* a response stream is open
  outcome    \* "pending", or what the call returned

vars == <<deltas, failed, held, outcome>>

Happened(kind) == \E i \in 1..Len(deltas) : deltas[i].kind = kind

Init ==
  /\ deltas = <<>>
  /\ failed = FALSE
  /\ held = FALSE
  /\ outcome = "pending"

Open ==
  /\ outcome = "pending" /\ deltas = <<>>
  /\ held' = TRUE
  /\ UNCHANGED <<deltas, failed, outcome>>

Deliver ==
  /\ outcome = "pending" /\ ~failed /\ ~Happened("finish")
  /\ Len(deltas') = Len(deltas) + 1
  /\ SubSeq(deltas', 1, Len(deltas)) = deltas
  /\ Happened("state") => deltas'[Len(deltas')].kind # "state"
  /\ failed' \in BOOLEAN
  /\ UNCHANGED <<held, outcome>>

Release ==
  /\ held' = FALSE
  /\ UNCHANGED <<deltas, failed, outcome>>

Return ==
  /\ outcome = "pending" /\ ~held'
  /\ outcome' \in IF failed THEN {"error"} ELSE {"ok", "error"}
  /\ UNCHANGED <<deltas, failed>>

Next == Open \/ Deliver \/ Release \/ Return

Spec == Init /\ [][Next]_vars
=============================================================================

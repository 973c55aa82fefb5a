----------------------------- MODULE Compaction -----------------------------
(***************************************************************************)
(* enforceBudget and compactToBudget of engine.go with the default handler *)
(* DropOldestUnits of limit.go: two nested loops, an authoritative count   *)
(* outside and an incrementally maintained estimate inside.  TokenCounter  *)
(* is an interface: a counter prices whole transcripts and single units,   *)
(* need not be additive, may charge nothing, and may fail at any call.     *)
(***************************************************************************)
EXTENDS Limit, Integers

CONSTANTS
  Histories,             \* transcripts a round may start from
  Counters,              \* token counters
  Count(_, _),           \* what a counter says of a transcript
  UnitCount(_, _),       \* what it says of one unit on its own
  Budgets                \* Request.resolvedBudget, positive

\* Only the model's turns declare tool calls, recordInjections lets no tool role
\* pass, and Prompt.Messages puts the system message first.
WellFormed(s) ==
  \A i \in DOMAIN s :
    /\ HasCalls(s[i]) => s[i].role = "assistant" /\ ~IsInjection(s[i])
    /\ IsInjection(s[i]) => s[i].role # "tool"
    /\ s[i].role = "system" /\ ~IsInjection(s[i]) => i = 1

\* The tags tell the messages of a history apart.
ASSUME CompactionAssumption ==
  /\ Histories \subseteq Seq(Message)
  /\ \A s \in Histories : WellFormed(s) /\ IsInjective(s)
  /\ Budgets \subseteq Nat \ {0}

VARIABLES
  pc,        \* "count", "pass", "drop", "adopt", "sent" or "failed"
  start,     \* history: the transcript the round began with
  messages,  \* runState.messages
  draft,     \* TokenLimitEvent.Messages, a copy
  estimate,  \* dropUntilEstimatedToFit's running estimate
  dropped,   \* messages dropped in this pass
  counter,   \* the token counter; never changes
  budget     \* the token budget; never changes

vars == <<pc, start, messages, draft, estimate, dropped, counter, budget>>

TypeOK ==
  /\ pc \in {"count", "pass", "drop", "adopt", "sent", "failed"}
  /\ start \in Seq(Message)
  /\ messages \in Seq(Message)
  /\ draft \in Seq(Message)
  /\ estimate \in Int
  /\ dropped \in Nat
  /\ counter \in Counters
  /\ budget \in Budgets

Init ==
  /\ pc = "count"
  /\ start \in Histories
  /\ messages = start
  /\ draft = <<>>
  /\ estimate = 0
  /\ dropped = 0
  /\ counter \in Counters
  /\ budget \in Budgets

IsOverBudget(transcript) == Count(counter, transcript) > budget

enforceBudget ==
  /\ pc = "count"
  /\ IF IsOverBudget(messages)
     THEN pc' = "pass" /\ draft' = messages
     ELSE pc' = "sent" /\ UNCHANGED draft
  /\ UNCHANGED <<start, messages, estimate, dropped, counter, budget>>

\* The head of DropOldestUnits' loop: the authoritative count starts a pass.
startPass ==
  /\ pc = "pass"
  /\ Len(draft) > 1 /\ IsOverBudget(draft)
  /\ pc' = "drop"
  /\ estimate' = Count(counter, draft)
  /\ dropped' = 0
  /\ UNCHANGED <<start, messages, draft, counter, budget>>

handlerDone ==
  /\ pc = "pass"
  /\ ~(Len(draft) > 1 /\ IsOverBudget(draft))
  /\ pc' = "adopt"
  /\ UNCHANGED <<start, messages, draft, estimate, dropped, counter, budget>>

\* Fault: the rest of a cut exchange stays.
WantsDropByEstimate == Len(draft) > 1 /\ estimate > budget

\* dropUntilEstimatedToFit goes on while the estimate is over the budget and,
\* once something is gone, while the transcript starts mid-exchange.
WantsDrop ==
  /\ Len(draft) > 1
  /\ estimate > budget \/ (dropped > 0 /\ startsMidExchange(draft))

\* A unit the counter charges nothing for ends the pass.
dropUnit ==
  \E i \in {firstDroppableUnit(draft)} \ {0} : \E end \in {unitEnd(draft, i)} :
    LET cost == UnitCount(counter, SubSeq(draft, i, end - 1)) IN
    /\ pc = "drop"
    /\ WantsDrop
    /\ draft' = DropUnit(draft, i)
    /\ dropped' = dropped + (end - i)
    /\ estimate' = estimate - cost
    /\ pc' = IF cost <= 0 THEN "pass" ELSE "drop"
    /\ UNCHANGED <<start, messages, counter, budget>>

\* Fault: the estimate is trusted.
endOnEstimate ==
  /\ pc = "drop"
  /\ ~WantsDrop \/ firstDroppableUnit(draft) = 0
  /\ pc' = "adopt"
  /\ UNCHANGED <<start, messages, draft, estimate, dropped, counter, budget>>

\* Fault: a pass that dropped nothing is followed by another.
endNever ==
  /\ pc = "drop"
  /\ ~WantsDrop \/ firstDroppableUnit(draft) = 0
  /\ pc' = "pass"
  /\ UNCHANGED <<start, messages, draft, estimate, dropped, counter, budget>>

\* The pass ends; one that dropped nothing ends the handler.
endPass ==
  /\ pc = "drop"
  /\ ~WantsDrop \/ firstDroppableUnit(draft) = 0
  /\ pc' = IF dropped = 0 THEN "adopt" ELSE "pass"
  /\ UNCHANGED <<start, messages, draft, estimate, dropped, counter, budget>>

\* The engine takes the handler's transcript.  Still being over budget is no
\* error; a failing recount behind the assignment is one.
adopt ==
  /\ pc = "adopt"
  /\ messages' = draft
  /\ pc' \in {"sent", "failed"}
  /\ UNCHANGED <<start, draft, estimate, dropped, counter, budget>>

\* The counter fails before the handler's transcript is adopted.
counterFails ==
  /\ pc \in {"count", "pass", "drop", "adopt"}
  /\ pc' = "failed"
  /\ UNCHANGED <<start, messages, draft, estimate, dropped, counter, budget>>

Next ==
  \/ enforceBudget \/ startPass \/ handlerDone \/ dropUnit \/ endPass
  \/ adopt \/ counterFails

Spec == Init /\ [][Next]_vars

\* The loops run in the goroutine of the round.
FairSpec == Spec /\ WF_vars(Next)

-----------------------------------------------------------------------------
(* Properties *)

Over == pc \in {"sent", "failed"}

\* Eviction never orphans a tool call or a result, at any point of the loops.
DraftLegal == Paired(start) /\ draft # <<>> => Paired(draft)

\* The system prompt, the last user turn, the live tool exchange and injections
\* the model has not answered survive, although each eviction computes them
\* afresh on a shorter transcript.
PinsSurvive ==
  \A i \in DOMAIN start : IsPinned(start, i) /\ draft # <<>> =>
     \E k \in DOMAIN draft : draft[k] = start[i]

\* Nothing is evicted while something older that may go is kept.  An orphaned
\* result could join the live exchange, so this needs paired calls and results.
OldestFirst ==
  Paired(start) /\ draft # <<>> =>
    \A i, j \in DOMAIN start :
       i < j /\ ~IsPinned(start, i) /\ (\A k \in DOMAIN draft : draft[k] # start[j])
         => \A k \in DOMAIN draft : draft[k] # start[i]

\* At every point of the two loops what is left of the transcript is legal, holds
\* every pin, and is what evicting whole units oldest first leaves.
EvictionSound == TypeOK /\ DraftLegal /\ PinsSurvive /\ OldestFirst

\* The estimate never ends compaction early: a transcript that is sent fits by
\* the authoritative count, or nothing more may be evicted.
SentFits ==
  pc = "sent" => \/ ~IsOverBudget(messages)
                 \/ firstDroppableUnit(messages) = 0
                 \/ Len(messages) <= 1

ChargesEveryUnit ==
  \A i \in DOMAIN start :
     UnitCount(counter, SubSeq(start, i, unitEnd(start, i) - 1)) > 0

\* docs/history.md: once anything is dropped, dropping continues until the
\* transcript starts at a user turn again.  A pass ends early at a unit the
\* counter charges nothing for, so this needs a counter that charges for all,
\* and a transcript whose units do not grow when something between them goes.
ExchangesLeaveWhole ==
  pc = "sent" /\ messages # start /\ ChargesEveryUnit /\ Paired(start) =>
     Len(messages) <= 1 \/ ~startsMidExchange(messages)

\* Every pass evicts something or ends the handler, so compaction ends even with
\* a counter that charges nothing.
CompactionEnds == <>Over
=============================================================================

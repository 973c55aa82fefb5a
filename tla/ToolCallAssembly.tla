-------------------------- MODULE ToolCallAssembly --------------------------
(***************************************************************************)
(* engine.go's consumeToolCallDelta and drainToolCalls: tool calls arrive  *)
(* as fragments under a provider-chosen index and become the calls of the  *)
(* assistant message.                                                      *)
(*                                                                         *)
(* The provider is external: it opens calls and sends their fragments,     *)
(* interleaved, only the first fragment of a call carrying its id.  It may *)
(* be careless with indexes, opening a call under an index it used before, *)
(* or with ids, leaving one out or repeating it.  A fragment is its call,  *)
(* its place in that call's arguments and its size.  Names are assigned    *)
(* like ids and decide nothing, so they are left out.                      *)
(***************************************************************************)
EXTENDS Naturals, Sequences, FiniteSets, SequencesExt

CONSTANTS
  Indexes,               \* stream indexes the provider uses
  IDs,                   \* call ids it issues
  NoID,                  \* the empty id
  Sizes,                 \* fragment sizes
  Providers,             \* what a provider may be careless with
  MaxToolCallsPerRound,  \* maxToolCallsPerRound
  MaxArguments,          \* maxToolCallArgumentsBytes
  MaxDeltas              \* bound on the deltas of one stream

ASSUME AssemblyAssumption ==
  /\ Indexes \subseteq Nat
  /\ NoID \notin IDs
  /\ Sizes \subseteq Nat \ {0}
  /\ Providers \subseteq SUBSET {"indexes", "ids"}
  /\ MaxToolCallsPerRound \in Nat \ {0}
  /\ MaxArguments \in Nat \ {0}
  /\ MaxDeltas \in Nat

VARIABLES
  calls,   \* the calls map: index to a reference into heap
  heap,    \* the allocated ToolCalls
  sent,    \* the provider's calls: id and fragments
  open,    \* the provider's call being sent under an index, 0 for none
  careless \* the provider; never changes

assemblyVars == <<calls, heap, sent, open, careless>>

Fragment == [call : Nat, place : Nat, size : Sizes]
ToolCall == [id : IDs \cup {NoID}, arguments : Seq(Fragment)]

AssemblyTypeOK ==
  /\ DOMAIN calls \subseteq Nat
  /\ \A index \in DOMAIN calls : calls[index] \in DOMAIN heap
  /\ heap \in Seq(ToolCall) /\ Len(heap) <= MaxToolCallsPerRound
  /\ sent \in Seq(ToolCall)
  /\ open \in [Indexes -> 0 .. Len(sent)]
  /\ careless \in Providers

AssemblyInit ==
  /\ calls = <<>>
  /\ heap = <<>>
  /\ sent = <<>>
  /\ open = [index \in Indexes |-> 0]
  /\ careless \in Providers

-----------------------------------------------------------------------------
(* consumeToolCallDelta *)

\* Fault: the index alone tells calls apart.
sameCallAtSameIndex(index, id) == FALSE

isDifferentCallAtSameIndex(index, id) ==
  /\ index \in DOMAIN calls
  /\ id # NoID
  /\ heap[calls[index]].id # NoID
  /\ id # heap[calls[index]].id

unusedToolCallIndex ==
  CHOOSE next \in 0 .. Max(DOMAIN calls \cup {0}) + 1 :
    /\ \A index \in DOMAIN calls : index < next
    /\ next > 0 => next - 1 \in DOMAIN calls

Put(map, index, ref) ==
  [k \in DOMAIN map \cup {index} |-> IF k = index THEN ref ELSE map[k]]

Size(arguments) == FoldLeft(LAMBDA sum, f : sum + f.size, 0, arguments)

\* The id is assigned, the arguments grow unless that takes them over the cap.
Extend(call, id, fragment) ==
  [id |-> IF id # NoID THEN id ELSE call.id,
   arguments |-> IF Size(call.arguments) + fragment.size > MaxArguments
                 THEN call.arguments
                 ELSE Append(call.arguments, fragment)]

AtCap(map) == Cardinality(DOMAIN map) >= MaxToolCallsPerRound

\* A new call at a used index first moves the old one out of the way.  The index
\* keeps its old entry until the new call is stored, which the cap may prevent.
consumeToolCallDelta(index, id, fragment) ==
  LET isNew == isDifferentCallAtSameIndex(index, id)
      moved == IF isNew THEN Put(calls, unusedToolCallIndex, calls[index]) ELSE calls
      empty == [id |-> NoID, arguments |-> <<>>]
  IN  IF index \in DOMAIN calls /\ ~isNew
      THEN /\ heap' = [heap EXCEPT ![calls[index]] = Extend(@, id, fragment)]
           /\ UNCHANGED calls
      ELSE IF AtCap(moved)
           THEN calls' = moved /\ UNCHANGED heap
           ELSE /\ heap' = Append(heap, Extend(empty, id, fragment))
                /\ calls' = Put(moved, index, Len(heap) + 1)

-----------------------------------------------------------------------------
(* drainToolCalls: by sorted index, without the calls that have no id and  *)
(* without the repeated ids.                                               *)

drainToolCalls ==
  LET call(index) == heap[calls[index]]
      kept == { index \in DOMAIN calls :
                  /\ call(index).id # NoID
                  /\ \A earlier \in DOMAIN calls :
                       earlier < index => call(earlier).id # call(index).id }
  IN  [ n \in 1 .. Cardinality(kept) |->
          call(CHOOSE index \in kept :
                 Cardinality({ earlier \in kept : earlier < index }) = n - 1) ]

-----------------------------------------------------------------------------
(* The provider. *)

Deltas == FoldLeft(LAMBDA sum, call : sum + Len(call.arguments), 0, sent)

Open(index, id, size) ==
  LET first == [call |-> Len(sent) + 1, place |-> 1, size |-> size] IN
  /\ Deltas < MaxDeltas
  /\ open[index] # 0 => "indexes" \in careless
  /\ "ids" \in careless \/ id \notin {NoID} \cup { call.id : call \in ToSet(sent) }
  /\ sent' = Append(sent, [id |-> id, arguments |-> <<first>>])
  /\ open' = [open EXCEPT ![index] = Len(sent) + 1]
  /\ consumeToolCallDelta(index, id, first)
  /\ UNCHANGED careless

Continue(index, size) ==
  LET call     == open[index]
      fragment == [call |-> call, place |-> Len(sent[call].arguments) + 1,
                   size |-> size]
  IN  /\ Deltas < MaxDeltas
      /\ call # 0
      /\ sent' = [sent EXCEPT ![call].arguments = Append(@, fragment)]
      /\ consumeToolCallDelta(index, NoID, fragment)
      /\ UNCHANGED <<open, careless>>

AssemblyNext ==
  \E index \in Indexes, size \in Sizes :
     \/ \E id \in IDs \cup {NoID} : Open(index, id, size)
     \/ Continue(index, size)

AssemblySpec == AssemblyInit /\ [][AssemblyNext]_assemblyVars

-----------------------------------------------------------------------------
(* Properties *)

\* What enters the assistant message pairs with results: every call has an id
\* and no id occurs twice, whatever indexes and ids the provider used.
DrainedLegal ==
  LET drained == drainToolCalls IN
  /\ \A k \in DOMAIN drained : drained[k].id # NoID
  /\ \A k, l \in DOMAIN drained : drained[k].id = drained[l].id => k = l

\* A call under a reused index meets the cap one call early: the call it moves
\* away is in the map twice by then.
BelowCaps ==
  /\ Len(sent) < MaxToolCallsPerRound
  /\ \A call \in ToSet(sent) : Size(call.arguments) <= MaxArguments

\* Nothing is lost or mixed up below the caps, with a provider that is careless
\* with its indexes or with its ids, not both: a drained call is one of the
\* provider's calls, whole and in order, and every id it sent is drained.
DrainedFaithful ==
  LET drained == drainToolCalls IN
  BelowCaps /\ careless # {"indexes", "ids"} =>
  /\ ToSet(drained) \subseteq ToSet(sent)
  /\ { call.id : call \in ToSet(sent) } \ {NoID} = { call.id : call \in ToSet(drained) }

\* Whatever the provider streams, at most MaxToolCallsPerRound calls are held,
\* and the calls that enter the assistant message pair with results and are the
\* provider's.
DrainedSound == AssemblyTypeOK /\ DrainedLegal /\ DrainedFaithful
=============================================================================

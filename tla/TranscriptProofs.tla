-------------------------- MODULE TranscriptProofs --------------------------
(***************************************************************************)
(* What the transcript operators return: a unit ends inside the            *)
(* transcript, evicting a unit, repairing and picking positions yield      *)
(* transcripts again, and evicting the oldest unit that may go orphans no  *)
(* call or result and loses no pin.                                        *)
(*                                                                         *)
(* A transcript whose calls and results are paired passes the walks of     *)
(* both drivers, and no other does.  Repair pairs any transcript, changes  *)
(* no paired one and drops nothing outside an exchange; evicting a unit,   *)
(* appending plain messages and appending a whole exchange keep one        *)
(* paired.                                                                 *)
(***************************************************************************)
EXTENDS Limit, Integers, TLAPS, FiniteSetTheorems, SequenceTheorems,
        WellFoundedInduction

\* Every non-empty set of naturals has a least element.
LEMMA NatMin ==
  ASSUME NEW S \in SUBSET Nat, S # {}
  PROVE  \E x \in S : \A y \in S : x <= y
<1> DEFINE R == OpToRel(<, Nat)
<1>1. IsWellFoundedOn(R, Nat)
  BY NatLessThanWellFounded
<1>2. \A x, y \in Nat : y < x => <<y, x>> \in R
  BY DEF OpToRel
<1> HIDE DEF R
<1>3. PICK x \in S : \A y \in S : ~(<<y, x>> \in R)
  BY <1>1, WFMin
<1>4. \A y \in S : ~(y < x)
  BY <1>2, <1>3
<1> QED
  BY <1>4

\* Min picks it.
LEMMA MinProperty ==
  ASSUME NEW S \in SUBSET Nat, S # {}
  PROVE  Min(S) \in S /\ \A y \in S : Min(S) <= y
  BY NatMin DEF Min

\* A bounded one also has a greatest element.
LEMMA BoundedMax ==
  ASSUME NEW n \in Nat, NEW S \in SUBSET (0 .. n), S # {}
  PROVE  \E x \in S : \A y \in S : y <= x
<1> DEFINE T == { n - k : k \in S }
<1>1. T \in SUBSET Nat /\ T # {}
  <2>1. \A k \in S : n - k \in Nat
    OBVIOUS
  <2>2. PICK k \in S : TRUE
    OBVIOUS
  <2>3. n - k \in T
    BY <2>2
  <2> QED
    BY <2>1, <2>3
<1>2. PICK t \in T : \A u \in T : t <= u
  BY <1>1, NatMin
<1>3. PICK x \in S : t = n - x
  OBVIOUS
<1>4. ASSUME NEW y \in S PROVE y <= x
  <2>1. n - x <= n - y
    BY <1>2, <1>3
  <2> QED
    BY <2>1
<1> QED
  BY <1>4

\* Max of a finite set of naturals is its greatest member.
LEMMA MaxProperty ==
  ASSUME NEW n \in Nat, NEW S \in SUBSET (0 .. n), S # {}
  PROVE  Max(S) \in S /\ \A y \in S : y <= Max(S)
<1>1. \E x \in S : \A y \in S : x >= y
  BY BoundedMax
<1> QED
  BY <1>1 DEF Max

\* Pick never leaves the sequence: position n of the result is the least
\* position of S with n - 1 others before it.
LEMMA PickType ==
  ASSUME NEW T, NEW s \in Seq(T), NEW S \in SUBSET (DOMAIN s)
  PROVE  /\ Pick(s, S) \in Seq(T)
         /\ Cardinality(S) \in Nat
<1> DEFINE Late(n) == { k \in S : Cardinality({ l \in S : l < k }) >= n - 1 }
<1>1. DOMAIN s = 1 .. Len(s) /\ Len(s) \in Nat
  OBVIOUS
<1>2. IsFiniteSet(S)
  <2>1. IsFiniteSet(1 .. Len(s))
    BY <1>1, FS_Interval
  <2> QED
    BY <1>1, <2>1, FS_Subset
<1>3. Cardinality(S) \in Nat
  BY <1>2, FS_CardinalityType
<1>4. ASSUME NEW n \in 1 .. Cardinality(S) PROVE s[Min(Late(n))] \in T
  <2>1. S # {}
    BY <1>2, <1>3, FS_EmptySet
  <2>2. PICK m \in S : \A y \in S : y <= m
    <3>1. S \in SUBSET (0 .. Len(s))
      BY <1>1
    <3> QED
      BY <1>1, <2>1, <3>1, BoundedMax
  <2>3. { l \in S : l < m } = S \ {m}
    BY <1>1, <2>2
  <2>4. Cardinality(S \ {m}) = Cardinality(S) - 1
    BY <1>2, FS_RemoveElement
  <2>5. m \in Late(n)
    <3>1. Cardinality({ l \in S : l < m }) = Cardinality(S) - 1
      BY <2>3, <2>4
    <3>2. Cardinality({ l \in S : l < m }) >= n - 1
      BY <1>3, <3>1
    <3> QED
      BY <3>2
  <2>6. Late(n) \in SUBSET Nat /\ Late(n) # {}
    <3>1. Late(n) \subseteq S
      OBVIOUS
    <3>2. S \subseteq Nat
      BY <1>1
    <3> HIDE DEF Late
    <3> QED
      BY <2>5, <3>1, <3>2
  <2>7. Min(Late(n)) \in Late(n)
    BY <2>6, MinProperty
  <2>8. Min(Late(n)) \in DOMAIN s
    BY <2>7
  <2> QED
    BY <2>8
<1> HIDE DEF Late
<1>5. Pick(s, S) = [ n \in 1 .. Cardinality(S) |-> s[Min(Late(n))] ]
  BY DEF Pick, Late
<1> QED
  BY <1>3, <1>4, <1>5

\* unitEnd stops where the results behind a turn's calls end: at the end of the
\* transcript or at the first message that is no tool result.
LEMMA UnitSpan ==
  ASSUME NEW s \in Seq(Message), NEW i \in DOMAIN s
  PROVE  LET end == unitEnd(s, i) IN
         /\ end \in (i + 1) .. (Len(s) + 1)
         /\ \A k \in (i + 1) .. (end - 1) : s[k].role = "tool" /\ HasCalls(s[i])
         /\ HasCalls(s[i]) /\ end <= Len(s) => s[end].role # "tool"
<1>1. Len(s) \in Nat /\ i \in 1 .. Len(s)
  OBVIOUS
<1>2. CASE ~HasCalls(s[i])
  BY <1>1, <1>2 DEF unitEnd
<1>3. CASE HasCalls(s[i])
  <2> DEFINE Stops == { e \in (i + 1) .. (Len(s) + 1) :
                          e <= Len(s) => s[e].role # "tool" }
             Ends(e) == /\ \A k \in (i + 1) .. (e - 1) : s[k].role = "tool"
                        /\ e <= Len(s) => s[e].role # "tool"
  <2>1. Stops \in SUBSET Nat /\ Len(s) + 1 \in Stops
    BY <1>1
  <2>2. PICK end \in Stops : \A e \in Stops : end <= e
    BY <2>1, NatMin
  <2>3. end \in (i + 1) .. (Len(s) + 1) /\ (end <= Len(s) => s[end].role # "tool")
    OBVIOUS
  <2>4. \A k \in (i + 1) .. (end - 1) : s[k].role = "tool"
    <3> SUFFICES ASSUME NEW k \in (i + 1) .. (end - 1), s[k].role # "tool" PROVE FALSE
      OBVIOUS
    <3>1. k \in Stops
      BY <1>1, <2>3
    <3> QED
      BY <1>1, <2>2, <2>3, <3>1
  <2> HIDE DEF Stops
  <2>5. Ends(end)
    BY <2>3, <2>4
  <2>6. unitEnd(s, i) = CHOOSE e \in (i + 1) .. (Len(s) + 1) : Ends(e)
    BY <1>3 DEF unitEnd
  <2>7. unitEnd(s, i) \in (i + 1) .. (Len(s) + 1) /\ Ends(unitEnd(s, i))
    <3> HIDE DEF Ends
    <3> QED
      BY <2>3, <2>5, <2>6
  <2> QED
    BY <1>3, <2>7
<1> QED
  BY <1>2, <1>3

\* The unit at i ends behind i and not beyond the transcript.
LEMMA UnitEndRange ==
  ASSUME NEW s \in Seq(Message), NEW i \in DOMAIN s
  PROVE  unitEnd(s, i) \in (i + 1) .. (Len(s) + 1)
  BY UnitSpan

\* Evicting a unit keeps a transcript a transcript.
LEMMA DropUnitType ==
  ASSUME NEW s \in Seq(Message), NEW i \in DOMAIN s
  PROVE  DropUnit(s, i) \in Seq(Message)
<1>1. Len(s) \in Nat /\ i \in 1 .. Len(s)
  OBVIOUS
<1>2. unitEnd(s, i) \in (i + 1) .. (Len(s) + 1)
  BY UnitEndRange
<1>3. SubSeq(s, 1, i - 1) \in Seq(Message)
  BY <1>1
<1>4. SubSeq(s, unitEnd(s, i), Len(s)) \in Seq(Message)
  BY <1>1, <1>2
<1> QED
  BY <1>3, <1>4 DEF DropUnit

\* firstDroppableUnit is a position, or 0 for none.
LEMMA FirstDroppableRange ==
  ASSUME NEW s \in Seq(Message)
  PROVE  firstDroppableUnit(s) \in {0} \cup DOMAIN s
<1> DEFINE D == { i \in DOMAIN s : ~IsPinned(s, i) }
<1>1. D \in SUBSET Nat
  OBVIOUS
<1>2. D # {} => Min(D) \in D
  BY <1>1, MinProperty
<1>3. firstDroppableUnit(s) = IF D = {} THEN 0 ELSE Min(D)
  BY DEF firstDroppableUnit
<1> HIDE DEF D
<1>4. D \subseteq DOMAIN s
  BY DEF D
<1> QED
  BY <1>2, <1>3, <1>4

\* A message without calls is a message.
LEMMA PlainMessageType ==
  ASSUME NEW role \in Roles, NEW origin \in Origins
  PROVE  PlainMessage(role, origin) \in Message
  BY DEF PlainMessage, Message

\* An assistant turn is a message.
LEMMA AssistantMessageType ==
  ASSUME NEW calls \in Seq(CallIDs)
  PROVE  AssistantMessage(calls) \in Message
  BY DEF AssistantMessage, PlainMessage, Message, Roles, Origins

\* A tool result is a message.
LEMMA ToolMessageType ==
  ASSUME NEW id \in CallIDs
  PROVE  ToolMessage(id) \in Message
<1>1. PlainMessage("tool", "turn") \in Message
  BY PlainMessageType DEF Roles, Origins
<1> QED
  BY <1>1 DEF ToolMessage, Message

\* A queued user message is a message.
LEMMA QueuedMessageType ==
  ASSUME NEW tag \in UserTags
  PROVE  QueuedMessage(tag) \in Message
<1>1. UserMessage \in Message
  BY PlainMessageType DEF UserMessage, Roles, Origins
<1> QED
  BY <1>1 DEF QueuedMessage, Message

\* Repair only keeps positions of the transcript.
LEMMA RepairedUnitRange ==
  ASSUME NEW s \in Seq(Message), NEW i \in DOMAIN s
  PROVE  repairToolUnit(s, i) \subseteq DOMAIN s
<1>1. unitEnd(s, i) \in (i + 1) .. (Len(s) + 1)
  BY UnitEndRange
<1>2. (i + 1) .. (unitEnd(s, i) - 1) \subseteq DOMAIN s
  BY <1>1
<1> QED
  BY <1>2 DEF repairToolUnit

\* Transcript repair keeps a transcript a transcript.
LEMMA RepairType ==
  ASSUME NEW s \in Seq(Message)
  PROVE  repairTranscript(s) \in Seq(Message)
<1> DEFINE kept ==
      UNION { IF HasCalls(s[i]) THEN repairToolUnit(s, i) ELSE {i} :
              i \in { j \in DOMAIN s : s[j].role # "tool" } }
    deduped ==
      [ i \in DOMAIN s |-> [s[i] EXCEPT !.calls = dedupeToolCalls(s[i].calls)] ]
<1>1. kept \in SUBSET (DOMAIN s)
  <2> SUFFICES ASSUME NEW i \in { j \in DOMAIN s : s[j].role # "tool" }
               PROVE  (IF HasCalls(s[i]) THEN repairToolUnit(s, i) ELSE {i})
                        \subseteq DOMAIN s
    BY Zenon
  <2> QED
    BY RepairedUnitRange
<1>2. ASSUME NEW i \in DOMAIN s
      PROVE  [s[i] EXCEPT !.calls = dedupeToolCalls(s[i].calls)] \in Message
  <2>1. s[i] \in Message
    OBVIOUS
  <2>2. s[i].calls \in Seq(CallIDs)
    BY <2>1 DEF Message
  <2>3. dedupeToolCalls(s[i].calls) \in Seq(CallIDs)
    BY <2>2, PickType DEF dedupeToolCalls
  <2> QED
    BY <2>1, <2>3 DEF Message
<1>3. deduped \in Seq(Message) /\ DOMAIN deduped = DOMAIN s
  BY <1>2
<1>4. repairTranscript(s) = Pick(deduped, kept)
  BY DEF repairTranscript
<1> HIDE DEF kept, deduped
<1> QED
  BY <1>1, <1>3, <1>4, PickType

-----------------------------------------------------------------------------
(* Eviction *)

\* And it is the only position of that kind.
LEMMA UnitEndIs ==
  ASSUME NEW s \in Seq(Message), NEW i \in DOMAIN s, HasCalls(s[i]),
         NEW end \in (i + 1) .. (Len(s) + 1),
         \A k \in (i + 1) .. (end - 1) : s[k].role = "tool",
         end <= Len(s) => s[end].role # "tool"
  PROVE  unitEnd(s, i) = end
<1> DEFINE e == unitEnd(s, i)
<1>1. /\ e \in (i + 1) .. (Len(s) + 1)
      /\ \A k \in (i + 1) .. (e - 1) : s[k].role = "tool"
      /\ e <= Len(s) => s[e].role # "tool"
  BY UnitSpan
<1> HIDE DEF e
<1>2. Len(s) \in Nat /\ i \in Nat
  OBVIOUS
<1>3. ~(e < end)
  BY <1>1, <1>2
<1>4. ~(end < e)
  BY <1>1, <1>2
<1> QED
  BY <1>1, <1>2, <1>3, <1>4 DEF e

\* lastConversationalUserIndex finds the last user turn, 0 when there is none.
LEMMA LastUser ==
  ASSUME NEW s \in Seq(Message)
  PROVE  LET u == lastConversationalUserIndex(s) IN
         /\ u \in 0 .. Len(s) /\ (u > 0 => IsUserTurn(s[u]))
         /\ \A k \in DOMAIN s : IsUserTurn(s[k]) => k <= u
<1> DEFINE I == { i \in 1 .. Len(s) : IsUserTurn(s[i]) }
<1>1. lastConversationalUserIndex(s) = IF I # {} THEN Max(I) ELSE 0
  BY DEF lastConversationalUserIndex, SelectLastInSeq
<1>2. Len(s) \in Nat /\ I \in SUBSET (0 .. Len(s))
  OBVIOUS
<1>3. I # {} => Max(I) \in I /\ \A y \in I : y <= Max(I)
  BY <1>2, MaxProperty
<1> QED
  BY <1>1, <1>2, <1>3

\* lastAnsweringAssistantIndex finds the model's last turn.
LEMMA LastAnswer ==
  ASSUME NEW s \in Seq(Message)
  PROVE  LET a == lastAnsweringAssistantIndex(s) IN
         /\ a \in 0 .. Len(s) /\ (a > 0 => s[a].role = "assistant" /\ ~IsInjection(s[a]))
         /\ \A k \in DOMAIN s : s[k].role = "assistant" /\ ~IsInjection(s[k]) => k <= a
<1> DEFINE I == { i \in 1 .. Len(s) : s[i].role = "assistant" /\ ~IsInjection(s[i]) }
<1>1. lastAnsweringAssistantIndex(s) = IF I # {} THEN Max(I) ELSE 0
  BY DEF lastAnsweringAssistantIndex, SelectLastInSeq
<1>2. Len(s) \in Nat /\ I \in SUBSET (0 .. Len(s))
  OBVIOUS
<1>3. I # {} => Max(I) \in I /\ \A y \in I : y <= Max(I)
  BY <1>2, MaxProperty
<1> QED
  BY <1>1, <1>2, <1>3

\* Message k belongs to the exchange that turn a opened: a declares the last calls,
\* no user turn follows it, and only results stand between a and k.
Live(s, a, k) ==
  /\ a \in DOMAIN s /\ HasCalls(s[a]) /\ (\A l \in DOMAIN s : HasCalls(s[l]) => l <= a)
  /\ \A l \in DOMAIN s : IsUserTurn(s[l]) => l <= a
  /\ k \in DOMAIN s /\ a <= k /\ \A l \in (a + 1) .. k : s[l].role = "tool"

\* isLiveToolExchange, which walks back from the last declaring turn, decides that.
LEMMA LiveExchange ==
  ASSUME NEW s \in Seq(Message), NEW k \in DOMAIN s
  PROVE  isLiveToolExchange(s, k) <=> \E a \in DOMAIN s : Live(s, a, k)
<1> DEFINE I == { i \in 1 .. Len(s) : HasCalls(s[i]) }
           a == SelectLastInSeq(s, HasCalls)
           u == lastConversationalUserIndex(s)
<1>1. a = IF I # {} THEN Max(I) ELSE 0
  BY DEF SelectLastInSeq
<1>2. Len(s) \in Nat /\ I \in SUBSET (0 .. Len(s)) /\ DOMAIN s = 1 .. Len(s)
  OBVIOUS
<1>3. I # {} => Max(I) \in I /\ \A y \in I : y <= Max(I)
  BY <1>2, MaxProperty
<1>4. /\ a \in 0 .. Len(s) /\ (a > 0 => HasCalls(s[a]))
      /\ \A l \in DOMAIN s : HasCalls(s[l]) => l <= a
  BY <1>1, <1>2, <1>3
<1>5. isLiveToolExchange(s, k) <=> a > 0 /\ a >= u /\ k \in a .. (unitEnd(s, a) - 1)
  BY DEF isLiveToolExchange
<1>6. /\ u \in 0 .. Len(s) /\ (u > 0 => IsUserTurn(s[u]))
      /\ \A l \in DOMAIN s : IsUserTurn(s[l]) => l <= u
  BY LastUser
<1> HIDE DEF I, a, u
<1>7. ASSUME isLiveToolExchange(s, k) PROVE \E b \in DOMAIN s : Live(s, b, k)
  <2>1. a \in DOMAIN s /\ a >= u /\ k \in a .. (unitEnd(s, a) - 1)
    BY <1>2, <1>4, <1>5, <1>7
  <2>2. unitEnd(s, a) \in Nat /\ \A l \in (a + 1) .. (unitEnd(s, a) - 1) : s[l].role = "tool"
    BY <1>2, <2>1, UnitSpan
  <2>3. Live(s, a, k)
    BY <1>2, <1>4, <1>6, <2>1, <2>2 DEF Live
  <2> QED
    BY <2>1, <2>3
<1>8. ASSUME NEW b \in DOMAIN s, Live(s, b, k) PROVE isLiveToolExchange(s, k)
  <2>1. a = b
    BY <1>2, <1>4, <1>8 DEF Live
  <2>2. a > 0 /\ a >= u
    BY <1>2, <1>6, <1>8, <2>1 DEF Live
  <2>3. /\ unitEnd(s, b) \in (b + 1) .. (Len(s) + 1)
        /\ unitEnd(s, b) <= Len(s) => s[unitEnd(s, b)].role # "tool"
    BY <1>8, UnitSpan DEF Live
  <2>4. k < unitEnd(s, b)
    BY <1>2, <1>8, <2>3 DEF Live
  <2> QED
    BY <1>2, <1>5, <1>8, <2>1, <2>2, <2>3, <2>4 DEF Live
<1> QED
  BY <1>7, <1>8

\* firstDroppableUnit finds the first message that is not pinned: everything before
\* it is.
LEMMA FirstDroppable ==
  ASSUME NEW s \in Seq(Message), firstDroppableUnit(s) # 0
  PROVE  LET d == firstDroppableUnit(s) IN
         d \in DOMAIN s /\ ~IsPinned(s, d) /\ \A k \in 1 .. (d - 1) : IsPinned(s, k)
<1> DEFINE D == { i \in DOMAIN s : ~IsPinned(s, i) }
<1>1. D \in SUBSET Nat
  OBVIOUS
<1>2. D # {} => Min(D) \in D /\ \A y \in D : Min(D) <= y
  BY <1>1, MinProperty
<1>3. firstDroppableUnit(s) = IF D = {} THEN 0 ELSE Min(D)
  BY DEF firstDroppableUnit
<1>4. D # {}
  BY <1>3
<1> DEFINE m == Min(D)
<1>5. m \in DOMAIN s /\ ~IsPinned(s, m) /\ (\A y \in D : m <= y) /\ firstDroppableUnit(s) = m
  BY <1>2, <1>3, <1>4
<1> HIDE DEF m
<1>6. \A k \in 1 .. (m - 1) : k \in DOMAIN s /\ ~(m <= k)
  BY <1>5
<1>7. \A k \in 1 .. (m - 1) : IsPinned(s, k)
  BY <1>5, <1>6
<1> QED
  BY <1>5, <1>7

\* Where the elements of two sequences put together are.
LEMMA Concatenated ==
  ASSUME NEW S, NEW p \in Seq(S), NEW q \in Seq(S)
  PROVE  /\ Len(p \o q) = Len(p) + Len(q) /\ DOMAIN (p \o q) = 1 .. (Len(p) + Len(q))
         /\ \A k \in 1 .. Len(p) : (p \o q)[k] = p[k]
         /\ \A k \in (Len(p) + 1) .. (Len(p) + Len(q)) : (p \o q)[k] = q[k - Len(p)]
  OBVIOUS

\* DropUnit keeps the messages before the unit where they are and moves those
\* behind it up by the length of the unit.
LEMMA Evicted ==
  ASSUME NEW s \in Seq(Message), NEW d \in DOMAIN s
  PROVE  LET t == DropUnit(s, d)
             end == unitEnd(s, d) IN
         /\ t \in Seq(Message) /\ end \in (d + 1) .. (Len(s) + 1)
         /\ Len(t) = Len(s) - (end - d)
         /\ \A k \in 1 .. (d - 1) : k \in DOMAIN t /\ t[k] = s[k]
         /\ \A k \in d .. Len(t) : k + (end - d) \in DOMAIN s /\ t[k] = s[k + (end - d)]
         /\ \A k \in end .. Len(s) : k - (end - d) \in DOMAIN t /\ t[k - (end - d)] = s[k]
<1> DEFINE t == DropUnit(s, d)
           end == unitEnd(s, d)
           p == SubSeq(s, 1, d - 1)
           q == SubSeq(s, end, Len(s))
<1>1. Len(s) \in Nat /\ d \in 1 .. Len(s) /\ DOMAIN s = 1 .. Len(s)
  OBVIOUS
<1>2. end \in (d + 1) .. (Len(s) + 1)
  BY UnitEndRange
<1>3. t \in Seq(Message)
  BY DropUnitType
<1>4. t = p \o q
  BY DEF DropUnit
<1> HIDE DEF t, end
<1>5. p \in Seq(Message) /\ Len(p) = d - 1 /\ \A k \in 1 .. (d - 1) : p[k] = s[k]
  BY <1>1
<1>6. /\ q \in Seq(Message) /\ Len(q) = Len(s) - end + 1
      /\ \A k \in 1 .. (Len(s) - end + 1) : q[k] = s[end + k - 1]
  BY <1>1, <1>2
<1> HIDE DEF p, q
<1>7. /\ Len(t) = Len(p) + Len(q) /\ DOMAIN t = 1 .. (Len(p) + Len(q))
      /\ \A k \in 1 .. Len(p) : t[k] = p[k]
      /\ \A k \in (Len(p) + 1) .. (Len(p) + Len(q)) : t[k] = q[k - Len(p)]
  BY <1>4, <1>5, <1>6, Concatenated
<1>8. Len(t) = Len(s) - (end - d) /\ DOMAIN t = 1 .. (Len(s) - (end - d))
  BY <1>1, <1>2, <1>5, <1>6, <1>7
<1>9. \A k \in 1 .. (d - 1) : k \in DOMAIN t /\ t[k] = s[k]
  BY <1>1, <1>2, <1>5, <1>7, <1>8
<1>10. ASSUME NEW k \in d .. Len(t) PROVE k + (end - d) \in DOMAIN s /\ t[k] = s[k + (end - d)]
  <2>0. Len(p) + 1 = d /\ Len(p) + Len(q) = Len(t) /\ Len(p) = d - 1 /\ k \in Int
    BY <1>1, <1>5, <1>7
  <2>1. k \in (Len(p) + 1) .. (Len(p) + Len(q)) /\ k - Len(p) = k - d + 1
    <3> HIDE DEF p
    <3> QED
      BY <1>1, <2>0
  <2>2. k - d + 1 \in 1 .. (Len(s) - end + 1) /\ end + (k - d + 1) - 1 = k + (end - d)
    BY <1>1, <1>2, <1>8
  <2>3. t[k] = q[k - d + 1] /\ q[k - d + 1] = s[end + (k - d + 1) - 1]
    BY <1>6, <1>7, <2>1, <2>2
  <2> QED
    BY <1>1, <1>2, <1>8, <2>2, <2>3
<1>11. ASSUME NEW k \in end .. Len(s) PROVE k - (end - d) \in DOMAIN t /\ t[k - (end - d)] = s[k]
  <2>1. k - (end - d) \in d .. Len(t) /\ (k - (end - d)) + (end - d) = k
    BY <1>1, <1>2, <1>8
  <2> QED
    BY <1>1, <1>2, <1>8, <1>10, <2>1
<1> QED
  BY <1>2, <1>3, <1>8, <1>9, <1>10, <1>11 DEF t, end

\* The position in s of message k of what is left once the unit at d is gone.
Source(s, d, k) == IF k < d THEN k ELSE k + (unitEnd(s, d) - d)

\* The positions of that unit.
Gone(s, d) == d .. (unitEnd(s, d) - 1)

\* What is left is exactly the messages outside the unit, in their order.
LEMMA Eviction ==
  ASSUME NEW s \in Seq(Message), NEW d \in DOMAIN s
  PROVE  LET t == DropUnit(s, d) IN
         /\ t \in Seq(Message)
         /\ \A k \in DOMAIN t : /\ Source(s, d, k) \in DOMAIN s \ Gone(s, d)
                                /\ t[k] = s[Source(s, d, k)]
         /\ \A k, l \in DOMAIN t : k < l <=> Source(s, d, k) < Source(s, d, l)
         /\ \A p \in DOMAIN s \ Gone(s, d) : \E k \in DOMAIN t : Source(s, d, k) = p /\ t[k] = s[p]
<1> DEFINE t == DropUnit(s, d)
           end == unitEnd(s, d)
           w == end - d
<1>1. /\ t \in Seq(Message) /\ end \in (d + 1) .. (Len(s) + 1)
      /\ Len(t) = Len(s) - w
      /\ \A k \in 1 .. (d - 1) : k \in DOMAIN t /\ t[k] = s[k]
      /\ \A k \in d .. Len(t) : k + w \in DOMAIN s /\ t[k] = s[k + w]
      /\ \A k \in end .. Len(s) : k - w \in DOMAIN t /\ t[k - w] = s[k]
  BY Evicted
<1>2. Gone(s, d) = d .. (end - 1) /\ \A k : Source(s, d, k) = IF k < d THEN k ELSE k + w
  BY DEF Gone, Source
<1>3. Len(s) \in Nat /\ d \in 1 .. Len(s) /\ DOMAIN s = 1 .. Len(s) /\ DOMAIN t = 1 .. Len(t)
  BY <1>1
<1> HIDE DEF t, end
<1>4. w \in Nat /\ end = d + w /\ w >= 1
  <2>1. end \in (d + 1) .. (Len(s) + 1)
    BY <1>1
  <2> QED
    BY <1>3, <2>1
<1> HIDE DEF w
<1>5. ASSUME NEW k \in DOMAIN t
      PROVE  Source(s, d, k) \in DOMAIN s \ Gone(s, d) /\ t[k] = s[Source(s, d, k)]
  <2>1. CASE k < d
    BY <1>1, <1>2, <1>3, <1>4, <2>1
  <2>2. CASE k >= d
    <3>1. k \in d .. Len(t) /\ Source(s, d, k) = k + w
      BY <1>2, <1>3, <2>2
    <3>2. k + w \notin d .. (end - 1)
      BY <1>3, <1>4, <3>1
    <3> QED
      BY <1>1, <1>2, <3>1, <3>2
  <2> QED
    BY <1>3, <2>1, <2>2
<1>6. \A k, l \in DOMAIN t : k < l <=> Source(s, d, k) < Source(s, d, l)
  BY <1>2, <1>3, <1>4
<1>7. ASSUME NEW p \in DOMAIN s \ Gone(s, d)
      PROVE  \E k \in DOMAIN t : Source(s, d, k) = p /\ t[k] = s[p]
  <2>1. CASE p < d
    BY <1>1, <1>2, <1>3, <2>1
  <2>2. CASE p >= d
    <3>1. p \in end .. Len(s)
      BY <1>1, <1>2, <1>3, <2>2
    <3>2. ~(p - w < d) /\ (p - w) + w = p
      BY <1>3, <1>4, <3>1
    <3> QED
      BY <1>1, <1>2, <3>1, <3>2
  <2> QED
    BY <1>3, <2>1, <2>2
<1> QED
  BY <1>1, <1>5, <1>6, <1>7 DEF t

\* The unit at a message that is not pinned holds no pin: neither the live exchange
\* nor an injection the model has not answered starts inside it.
LEMMA PinsOutside ==
  ASSUME NEW s \in Seq(Message), Tame(s), NEW d \in DOMAIN s, ~IsPinned(s, d),
         NEW p \in DOMAIN s, IsPinned(s, p)
  PROVE  p \notin Gone(s, d)
<1> SUFFICES ASSUME p \in Gone(s, d) PROVE FALSE
  OBVIOUS
<1>1. /\ unitEnd(s, d) \in (d + 1) .. (Len(s) + 1) /\ d \in Nat /\ p \in Nat
      /\ \A k \in (d + 1) .. (unitEnd(s, d) - 1) : s[k].role = "tool" /\ HasCalls(s[d])
  BY UnitSpan
<1>2. p # d
  OBVIOUS
<1>3. d < p /\ HasCalls(s[d]) /\ \A k \in (d + 1) .. p : s[k].role = "tool"
  BY <1>1, <1>2 DEF Gone
<1>4. s[p].role = "tool" /\ p # 1
  BY <1>1, <1>3
<1>5. ~IsLeadingSystem(s, p) /\ ~IsInjection(s[p])
  BY <1>4 DEF IsLeadingSystem, Tame
<1>6. p # lastConversationalUserIndex(s)
  BY <1>1, <1>3, <1>4, LastUser DEF IsUserTurn
<1>7. isLiveToolExchange(s, p)
  BY <1>5, <1>6 DEF IsPinned
<1>8. PICK a \in DOMAIN s : Live(s, a, p)
  BY <1>7, LiveExchange
<1>9. a = d
  <2>1. HasCalls(s[a]) /\ s[a].role = "assistant" /\ a <= p /\ d <= a /\ a \in Nat
    BY <1>3, <1>8 DEF Live, Tame
  <2> QED
    BY <1>1, <1>3, <2>1
<1>10. Live(s, d, d)
  BY <1>1, <1>8, <1>9 DEF Live
<1>11. isLiveToolExchange(s, d)
  BY <1>10, LiveExchange
<1> QED
  BY <1>11 DEF IsPinned

\* IsPinned is computed afresh after every eviction; what was pinned stays pinned.
LEMMA PinsStay ==
  ASSUME NEW s \in Seq(Message), Tame(s), NEW d \in DOMAIN s, ~IsPinned(s, d),
         NEW p \in DOMAIN s, IsPinned(s, p)
  PROVE  \E k \in DOMAIN DropUnit(s, d) : DropUnit(s, d)[k] = s[p] /\ IsPinned(DropUnit(s, d), k)
<1> DEFINE t == DropUnit(s, d)
           From(k) == Source(s, d, k)
<1>1. /\ t \in Seq(Message)
      /\ \A k \in DOMAIN t : From(k) \in DOMAIN s \ Gone(s, d) /\ t[k] = s[From(k)]
      /\ \A k, l \in DOMAIN t : k < l <=> From(k) < From(l)
      /\ \A q \in DOMAIN s \ Gone(s, d) : \E k \in DOMAIN t : From(k) = q /\ t[k] = s[q]
  BY Eviction
<1>2. \A k : k < d => From(k) = k
  BY DEF Source
<1> HIDE DEF t, From
<1>3. \A q \in DOMAIN s : IsPinned(s, q) => \E k \in DOMAIN t : From(k) = q /\ t[k] = s[q]
  BY <1>1, PinsOutside
<1>4. PICK k \in DOMAIN t : From(k) = p /\ t[k] = s[p]
  BY <1>3
<1>5. \A l \in DOMAIN t : l \in Nat /\ l >= 1 /\ From(l) \in Nat
  BY <1>1
<1>6. CASE IsLeadingSystem(s, p)
  <2>1. p = 1 /\ d # 1 /\ d \in Nat
    BY <1>6 DEF IsLeadingSystem, IsPinned
  <2>2. k = 1
    <3>1. 1 \in DOMAIN t
      BY <1>1, <1>4
    <3>2. From(1) = 1
      BY <1>2, <2>1
    <3>3. ~(1 < k)
      BY <1>1, <1>4, <2>1, <3>1, <3>2
    <3> QED
      BY <1>5, <3>3
  <2>3. IsLeadingSystem(t, k)
    BY <1>4, <1>6, <2>1, <2>2 DEF IsLeadingSystem
  <2> QED
    BY <1>4, <2>3 DEF IsPinned, t
<1>7. CASE IsInjection(s[p]) /\ p > lastAnsweringAssistantIndex(s)
  <2> DEFINE b == lastAnsweringAssistantIndex(t)
  <2>1. b \in 0 .. Len(t) /\ (b > 0 => t[b].role = "assistant" /\ ~IsInjection(t[b]))
    BY <1>1, LastAnswer
  <2>2. \A l \in DOMAIN s : s[l].role = "assistant" /\ ~IsInjection(s[l]) => l < p
    BY <1>7, LastAnswer
  <2> HIDE DEF b
  <2>3. CASE b > 0
    <3>1. b \in DOMAIN t
      BY <1>1, <2>1, <2>3
    <3>2. From(b) < p
      BY <1>1, <2>1, <2>2, <2>3, <3>1
    <3>3. b < k
      BY <1>1, <1>4, <3>1, <3>2
    <3> QED
      BY <1>4, <1>5, <1>7, <3>1, <3>3 DEF IsPinned, t, b
  <2>4. CASE b = 0
    BY <1>4, <1>5, <1>7, <2>4 DEF IsPinned, t, b
  <2> QED
    BY <1>1, <2>1, <2>3, <2>4
<1>8. CASE p = lastConversationalUserIndex(s)
  <2> DEFINE u == lastConversationalUserIndex(t)
  <2>1. /\ u \in 0 .. Len(t) /\ (u > 0 => IsUserTurn(t[u]))
        /\ \A l \in DOMAIN t : IsUserTurn(t[l]) => l <= u
    BY <1>1, LastUser
  <2>2. IsUserTurn(s[p]) /\ \A l \in DOMAIN s : IsUserTurn(s[l]) => l <= p
    BY <1>8, LastUser
  <2> HIDE DEF u
  <2>3. k <= u
    BY <1>4, <2>1, <2>2
  <2>4. u \in DOMAIN t /\ IsUserTurn(t[u])
    BY <1>1, <1>5, <2>1, <2>3
  <2>5. ~(k < u)
    BY <1>1, <1>4, <1>5, <2>2, <2>4
  <2>6. k = u
    BY <1>5, <2>3, <2>4, <2>5
  <2> QED
    BY <1>4, <2>6 DEF IsPinned, t, u
<1>9. CASE isLiveToolExchange(s, p)
  <2>1. PICK a \in DOMAIN s : Live(s, a, p)
    BY <1>9, LiveExchange
  <2>2. IsPinned(s, a)
    <3>1. Live(s, a, a)
      BY <2>1 DEF Live
    <3>2. isLiveToolExchange(s, a)
      BY <3>1, LiveExchange
    <3> QED
      BY <3>2 DEF IsPinned
  <2>3. PICK b \in DOMAIN t : From(b) = a /\ t[b] = s[a]
    BY <1>3, <2>2
  <2>4. \A l \in DOMAIN t : From(l) <= a => l <= b
    BY <1>1, <1>5, <2>3
  <2>5. HasCalls(t[b]) /\ \A l \in DOMAIN t : HasCalls(t[l]) \/ IsUserTurn(t[l]) => l <= b
    BY <1>1, <2>1, <2>3, <2>4 DEF Live
  <2>6. b <= k
    BY <1>1, <1>4, <1>5, <2>1, <2>3 DEF Live
  <2>7. ASSUME NEW l \in (b + 1) .. k PROVE t[l].role = "tool"
    <3>1. l \in DOMAIN t
      BY <1>1, <2>3, <1>4
    <3>2. b < l /\ ~(k < l)
      BY <1>5
    <3>3. a < From(l) /\ ~(p < From(l))
      BY <1>1, <1>4, <2>3, <3>1, <3>2
    <3>4. From(l) \in (a + 1) .. p
      BY <1>5, <2>1, <3>1, <3>3
    <3> QED
      BY <1>1, <2>1, <3>1, <3>4 DEF Live
  <2>8. Live(t, b, k)
    BY <2>5, <2>6, <2>7 DEF Live
  <2>9. isLiveToolExchange(t, k)
    BY <1>1, <2>8, LiveExchange
  <2> QED
    BY <1>4, <2>9 DEF IsPinned, t
<1> QED
  BY <1>6, <1>7, <1>8, <1>9 DEF IsPinned

\* Calls and results are paired, and only pins stand before d, which is none:
\* what firstDroppableUnit guarantees.
Evictable(s, d) ==
  /\ s \in Seq(Message) /\ Tame(s) /\ Paired(s)
  /\ d \in DOMAIN s /\ ~IsPinned(s, d) /\ \A k \in 1 .. (d - 1) : IsPinned(s, k)

\* In a paired transcript every declared call has a result inside its unit.
LEMMA UnitPaired ==
  ASSUME NEW s \in Seq(Message), Paired(s), NEW i \in DOMAIN s, HasCalls(s[i])
  PROVE  /\ Len(s[i].calls) \in Nat /\ i + Len(s[i].calls) <= Len(s)
         /\ \A l \in (i + 1) .. (i + Len(s[i].calls)) : s[l].role = "tool"
<1>1. Answered(s, i)
  BY DEF Paired
<1>0. s[i] \in Message
  OBVIOUS
<1>2. s[i].calls \in Seq(CallIDs)
  BY <1>0 DEF Message
<1>3. Len(s[i].calls) \in Nat /\ i \in Nat
  BY <1>2
<1>4. ASSUME NEW l \in (i + 1) .. (i + Len(s[i].calls)) PROVE s[l].role = "tool"
  <2>1. l - i \in 1 .. Len(s[i].calls) /\ i + (l - i) = l
    BY <1>3
  <2> QED
    BY <1>1, <2>1 DEF Answered
<1> QED
  BY <1>1, <1>3, <1>4 DEF Answered

\* The first unit that may go never starts at a tool result: its declaring turn
\* would have been found before it.
LEMMA NotTool ==
  ASSUME NEW s, NEW d, Evictable(s, d)
  PROVE  s[d].role # "tool"
<1> SUFFICES ASSUME s[d].role = "tool" PROVE FALSE
  OBVIOUS
<1>1. /\ s \in Seq(Message) /\ Tame(s) /\ d \in DOMAIN s /\ d \in Nat /\ Len(s) \in Nat
      /\ DOMAIN s = 1 .. Len(s)
      /\ ~IsPinned(s, d) /\ \A k \in 1 .. (d - 1) : IsPinned(s, k)
  BY DEF Evictable
<1>2. PICK i \in 1 .. (d - 1) : HasCalls(s[i]) /\ d <= i + Len(s[i].calls)
  BY <1>1 DEF Evictable, Paired
<1>3. i \in DOMAIN s /\ IsPinned(s, i) /\ s[i].role = "assistant" /\ ~IsInjection(s[i])
  BY <1>1, <1>2 DEF Tame
<1>4. isLiveToolExchange(s, i)
  <2>1. ~IsLeadingSystem(s, i)
    BY <1>3 DEF IsLeadingSystem
  <2>2. i # lastConversationalUserIndex(s)
    BY <1>1, <1>2, <1>3, LastUser DEF IsUserTurn
  <2> QED
    BY <1>3, <2>1, <2>2 DEF IsPinned
<1>5. PICK a \in DOMAIN s : Live(s, a, i)
  BY <1>1, <1>3, <1>4, LiveExchange
<1>6. a = i
  BY <1>1, <1>2, <1>3, <1>5 DEF Live
<1>7. ASSUME NEW l \in (i + 1) .. d PROVE s[l].role = "tool"
  <2>1. /\ Len(s[i].calls) \in Nat
        /\ \A k \in (i + 1) .. (i + Len(s[i].calls)) : s[k].role = "tool"
    BY <1>1, <1>2, <1>3, UnitPaired DEF Evictable
  <2>2. l \in (i + 1) .. (i + Len(s[i].calls))
    BY <1>1, <1>2, <2>1
  <2> QED
    BY <2>1, <2>2
<1>8. Live(s, i, d)
  BY <1>1, <1>2, <1>5, <1>6, <1>7 DEF Live
<1>9. isLiveToolExchange(s, d)
  BY <1>1, <1>3, <1>8, LiveExchange
<1> QED
  BY <1>1, <1>9 DEF IsPinned

\* Nor does what follows it start with one.
LEMMA RestStarts ==
  ASSUME NEW s, NEW d, Evictable(s, d), unitEnd(s, d) <= Len(s)
  PROVE  s[unitEnd(s, d)].role # "tool"
<1>1. /\ s \in Seq(Message) /\ Tame(s) /\ d \in DOMAIN s /\ d \in Nat /\ Len(s) \in Nat
      /\ DOMAIN s = 1 .. Len(s) /\ Paired(s)
  BY DEF Evictable
<1>2. CASE HasCalls(s[d])
  BY <1>1, <1>2, UnitSpan
<1>3. CASE ~HasCalls(s[d])
  <2>1. unitEnd(s, d) = d + 1 /\ d + 1 \in DOMAIN s
    BY <1>1, <1>3 DEF unitEnd
  <2> SUFFICES ASSUME s[d + 1].role = "tool" PROVE FALSE
    BY <2>1
  <2>2. PICK i \in 1 .. d : HasCalls(s[i]) /\ d + 1 <= i + Len(s[i].calls)
    <3>1. \E i \in 1 .. ((d + 1) - 1) : HasCalls(s[i]) /\ d + 1 <= i + Len(s[i].calls)
      BY <1>1, <2>1 DEF Paired
    <3>2. (d + 1) - 1 = d
      BY <1>1
    <3> QED
      BY <3>1, <3>2
  <2>3. i \in DOMAIN s /\ i # d /\ i < d
    BY <1>1, <1>3, <2>2
  <2>4. Len(s[i].calls) \in Nat /\ \A l \in (i + 1) .. (i + Len(s[i].calls)) : s[l].role = "tool"
    BY <1>1, <2>2, <2>3, UnitPaired
  <2>5. d \in (i + 1) .. (i + Len(s[i].calls))
    BY <1>1, <2>2, <2>3, <2>4
  <2> QED
    BY <2>4, <2>5, NotTool
<1> QED
  BY <1>2, <1>3

\* So evicting the first unit that may go orphans neither a call nor a result.
LEMMA PairsStay ==
  ASSUME NEW s, NEW d, Evictable(s, d)
  PROVE  Paired(DropUnit(s, d))
<1> DEFINE t == DropUnit(s, d)
           end == unitEnd(s, d)
           w == end - d
<1>1. /\ s \in Seq(Message) /\ Tame(s) /\ d \in DOMAIN s /\ d \in Nat /\ Len(s) \in Nat
      /\ DOMAIN s = 1 .. Len(s) /\ Paired(s) /\ d \in 1 .. Len(s)
  BY DEF Evictable
<1>2. /\ t \in Seq(Message) /\ end \in (d + 1) .. (Len(s) + 1)
      /\ Len(t) = Len(s) - w
      /\ \A k \in 1 .. (d - 1) : k \in DOMAIN t /\ t[k] = s[k]
      /\ \A k \in d .. Len(t) : k + w \in DOMAIN s /\ t[k] = s[k + w]
      /\ \A k \in end .. Len(s) : k - w \in DOMAIN t /\ t[k - w] = s[k]
  BY <1>1, Evicted
<1>3. DOMAIN t = 1 .. Len(t) /\ Len(t) \in Nat
  BY <1>2
<1>4. s[d].role # "tool" /\ (end <= Len(s) => s[end].role # "tool")
  BY NotTool, RestStarts
<1>5. \A k \in (d + 1) .. (end - 1) : s[k].role = "tool" /\ HasCalls(s[d])
  BY <1>1, UnitSpan
<1> HIDE DEF t, end
<1>6. w \in Nat /\ end = d + w /\ w >= 1
  BY <1>1, <1>2
<1> HIDE DEF w
<1>7. ASSUME NEW i \in DOMAIN t, HasCalls(t[i]) PROVE Answered(t, i)
  <2> DEFINE j == IF i < d THEN i ELSE i + w
             c == Len(t[i].calls)
  <2>1. j \in DOMAIN s /\ t[i] = s[j] /\ i \in Nat /\ i >= 1 /\ i <= Len(t)
    BY <1>1, <1>2, <1>3
  <2>2. Answered(s, j)
    BY <1>1, <1>7, <2>1 DEF Paired
  <2>3. /\ c \in Nat /\ j + c <= Len(s)
        /\ \A l \in (j + 1) .. (j + c) : s[l].role = "tool"
    BY <1>1, <1>7, <2>1, UnitPaired
  <2>4. i < d => i + c < d
    <3> SUFFICES ASSUME i < d, ~(i + c < d) PROVE FALSE
      OBVIOUS
    <3>1. d \in (j + 1) .. (j + c)
      BY <1>1, <2>1, <2>3
    <3> QED
      BY <1>4, <2>3, <3>1
  <2>5. i + c <= Len(t)
    <3>1. CASE i < d
      BY <1>1, <1>2, <1>3, <1>6, <2>1, <2>3, <2>4, <3>1
    <3>2. CASE ~(i < d)
      <4>1. j = i + w
        BY <3>2
      <4> HIDE DEF j, c
      <4>2. Len(t) = Len(s) - w /\ i + w + c <= Len(s)
        BY <1>2, <2>3, <4>1
      <4> QED
        BY <1>1, <1>6, <2>1, <2>3, <4>2
    <3> QED
      BY <3>1, <3>2
  <2>6. ASSUME NEW k \in 1 .. c PROVE t[i + k] = s[j + k]
    <3>1. CASE i < d
      <4>1. i + k \in 1 .. (d - 1)
        BY <1>1, <2>1, <2>3, <2>4, <3>1
      <4> QED
        BY <1>2, <3>1, <4>1
    <3>2. CASE ~(i < d)
      <4>0. j = i + w
        BY <3>2
      <4> HIDE DEF j, c
      <4>1. i + k \in d .. Len(t) /\ (i + k) + w = j + k
        BY <1>1, <1>3, <1>6, <2>1, <2>3, <2>5, <3>2, <4>0
      <4> QED
        BY <1>2, <4>0, <4>1
    <3> QED
      BY <3>1, <3>2
  <2> HIDE DEF j
  <2> QED
    BY <2>1, <2>2, <2>3, <2>5, <2>6 DEF Answered
<1>8. ASSUME NEW k \in DOMAIN t, t[k].role = "tool"
      PROVE  \E i \in 1 .. (k - 1) : HasCalls(t[i]) /\ k <= i + Len(t[i].calls)
  <2> DEFINE m == IF k < d THEN k ELSE k + w
  <2>0. k \in Nat /\ k >= 1 /\ k <= Len(t)
    BY <1>3
  <2>1. m \in DOMAIN s /\ t[k] = s[m] /\ k \in Nat /\ k >= 1 /\ k <= Len(t) /\ m \in Nat
    <3>1. CASE k < d
      BY <1>1, <1>2, <2>0, <3>1
    <3>2. CASE ~(k < d)
      <4>1. k \in d .. Len(t)
        BY <1>1, <1>3, <2>0, <3>2
      <4> QED
        BY <1>1, <1>2, <2>0, <3>2, <4>1
    <3> QED
      BY <3>1, <3>2
  <2>2. PICK i \in 1 .. (m - 1) : HasCalls(s[i]) /\ m <= i + Len(s[i].calls)
    BY <1>1, <1>8, <2>1 DEF Paired
  <2>3. /\ i \in DOMAIN s /\ i \in Nat /\ i >= 1 /\ i < m /\ s[i].role = "assistant"
    BY <1>1, <2>1, <2>2 DEF Tame
  <2>4. /\ Len(s[i].calls) \in Nat
        /\ \A l \in (i + 1) .. (i + Len(s[i].calls)) : s[l].role = "tool"
    BY <1>1, <2>2, <2>3, UnitPaired
  <2>5. \A l \in (i + 1) .. m : s[l].role = "tool"
    BY <2>1, <2>2, <2>3, <2>4
  <2>6. m < d \/ m >= end
    BY <1>1, <1>3, <1>6, <2>1
  <2>7. CASE i < d
    <3>1. m < d
      BY <1>1, <1>4, <2>1, <2>3, <2>5, <2>7
    <3>2. m = k
      BY <1>1, <1>6, <2>1, <3>1
    <3>3. i \in 1 .. (d - 1) /\ i \in 1 .. (k - 1)
      BY <1>1, <2>1, <2>3, <2>7, <3>2
    <3> QED
      BY <1>2, <2>2, <3>2, <3>3
  <2>8. CASE i >= d
    <3>1. m >= end /\ m = k + w
      BY <1>1, <1>6, <2>1, <2>3, <2>6, <2>8
    <3>2. i >= end
      <4> SUFFICES ASSUME i < end PROVE FALSE
        BY <1>2, <2>3
      <4>1. end \in (i + 1) .. m /\ end <= Len(s)
        BY <1>1, <1>2, <2>1, <2>3, <3>1
      <4> QED
        BY <1>4, <2>5, <4>1
    <3>3. i \in end .. Len(s)
      BY <1>1, <1>2, <2>1, <2>3, <3>2
    <3>4. i - w \in DOMAIN t /\ t[i - w] = s[i]
      BY <1>2, <3>3
    <3>5. i - w \in 1 .. (k - 1) /\ k <= (i - w) + Len(s[i].calls)
      BY <1>3, <1>6, <2>1, <2>2, <2>3, <2>4, <3>1, <3>4
    <3> QED
      BY <2>2, <3>4, <3>5
  <2>9. i < d \/ i >= d
    BY <1>1, <2>3
  <2> QED
    BY <2>7, <2>8, <2>9
<1> QED
  BY <1>7, <1>8 DEF Paired, t

\* The unit at i.
Unit(s, i) == SubSeq(s, i, unitEnd(s, i) - 1)

\* Where a unit behind the evicted one goes.
LEMMA Shift ==
  ASSUME NEW k \in Nat, NEW e \in Nat, NEW w \in Nat, NEW n \in Nat, NEW p \in Nat,
         (k + w) + 1 <= e, e <= n + 1, p = n - w
  PROVE  k + (e - (k + w)) = e - w /\ e - w \in (k + 1) .. (p + 1) /\ (e - w) + w = e
OBVIOUS

\* Counting from the start of a unit or from that of its copy is the same.
LEMMA Offset ==
  ASSUME NEW k \in Nat, NEW m \in Nat, NEW e \in Nat, NEW f \in Nat, f - k = e - m,
         NEW l \in (k + 1) .. (f - 1)
  PROVE  l \in k .. (f - 1) /\ l + (m - k) \in (m + 1) .. (e - 1)
OBVIOUS

\* The units of what is left are units of the transcript: eviction joins no results
\* to a turn they did not follow.
LEMMA UnitsStay ==
  ASSUME NEW s, NEW d, Evictable(s, d), NEW k \in DOMAIN DropUnit(s, d)
  PROVE  \E m \in DOMAIN s : Unit(DropUnit(s, d), k) = Unit(s, m)
<1> DEFINE t == DropUnit(s, d)
           end == unitEnd(s, d)
           w == end - d
           m == IF k < d THEN k ELSE k + w
           e == unitEnd(s, m)
<1>1. /\ s \in Seq(Message) /\ Tame(s) /\ d \in DOMAIN s /\ d \in Nat /\ Len(s) \in Nat
      /\ DOMAIN s = 1 .. Len(s) /\ Paired(s) /\ d \in 1 .. Len(s)
  BY DEF Evictable
<1>2. /\ t \in Seq(Message) /\ end \in (d + 1) .. (Len(s) + 1)
      /\ Len(t) = Len(s) - w
      /\ \A l \in 1 .. (d - 1) : l \in DOMAIN t /\ t[l] = s[l]
      /\ \A l \in d .. Len(t) : l + w \in DOMAIN s /\ t[l] = s[l + w]
      /\ \A l \in end .. Len(s) : l - w \in DOMAIN t /\ t[l - w] = s[l]
  BY <1>1, Evicted
<1>3. /\ DOMAIN t = 1 .. Len(t) /\ Len(t) \in Nat
      /\ k \in DOMAIN t /\ k \in Nat /\ k >= 1 /\ k <= Len(t)
  BY <1>2
<1>4. s[d].role # "tool" /\ (end <= Len(s) => s[end].role # "tool")
  BY NotTool, RestStarts
<1> HIDE DEF t, end
<1>5. w \in Nat /\ end = d + w /\ w >= 1
  BY <1>1, <1>2
<1> HIDE DEF w
<1>6. m \in DOMAIN s /\ t[k] = s[m] /\ m \in Nat
  <2>1. CASE k < d
    BY <1>1, <1>2, <1>3, <2>1
  <2>2. CASE ~(k < d)
    <3>1. k \in d .. Len(t)
      BY <1>1, <1>3, <2>2
    <3> QED
      BY <1>1, <1>2, <1>3, <2>2, <3>1
  <2> QED
    BY <2>1, <2>2
<1>7. (k < d /\ m = k) \/ (~(k < d) /\ m = k + w)
  OBVIOUS
<1> HIDE DEF m
<1>8. /\ e \in (m + 1) .. (Len(s) + 1)
      /\ \A l \in (m + 1) .. (e - 1) : s[l].role = "tool" /\ HasCalls(s[m])
      /\ HasCalls(s[m]) /\ e <= Len(s) => s[e].role # "tool"
  BY <1>1, <1>6, UnitSpan
<1> DEFINE f == k + (e - m)
<1>9. ~HasCalls(s[m]) => e = m + 1
  BY DEF unitEnd
<1> HIDE DEF e
<1>16. e \in Nat /\ m + 1 <= e /\ e <= Len(s) + 1 /\ Len(t) = Len(s) - w
  BY <1>1, <1>2, <1>6, <1>8
<1>18. ASSUME m = k + w
       PROVE  /\ k + (e - (k + w)) = e - w /\ e - w \in (k + 1) .. (Len(t) + 1)
              /\ (e - w) + w = e
  <2>1. /\ k \in Nat /\ e \in Nat /\ w \in Nat /\ Len(s) \in Nat /\ Len(t) \in Nat
        /\ (k + w) + 1 <= e /\ e <= Len(s) + 1 /\ Len(t) = Len(s) - w
    BY <1>1, <1>3, <1>5, <1>16, <1>18
  <2> QED
    BY <2>1, Shift
<1>10. f \in (k + 1) .. (Len(t) + 1) /\ \A l \in k .. (f - 1) : t[l] = s[l + (m - k)]
  <2>1. CASE k < d /\ m = k
    <3>1. e <= d
      BY <1>1, <1>4, <1>6, <1>8, <2>1
    <3>2. f = e /\ \A l \in k .. (f - 1) : l \in 1 .. (d - 1) /\ l + (m - k) = l
      BY <1>1, <1>3, <1>8, <2>1, <3>1
    <3>3. d - 1 <= Len(t)
      BY <1>1, <1>2, <1>5
    <3>4. f \in (k + 1) .. (Len(t) + 1)
      BY <1>1, <1>3, <1>8, <2>1, <3>1, <3>2, <3>3
    <3> HIDE DEF f
    <3> QED
      BY <1>2, <3>2, <3>4
  <2>2. CASE ~(k < d) /\ m = k + w
    <3>0. k + (e - (k + w)) = e - w /\ e - w \in (k + 1) .. (Len(t) + 1)
      BY <1>18, <2>2
    <3>1. f = e - w /\ f \in (k + 1) .. (Len(t) + 1)
      BY <2>2, <3>0
    <3>2. \A l \in k .. (f - 1) : l \in d .. Len(t) /\ l + (m - k) = l + w
      BY <1>1, <1>3, <1>5, <2>2, <3>1
    <3> HIDE DEF f
    <3> QED
      BY <1>2, <3>1, <3>2
  <2> QED
    BY <1>7, <2>1, <2>2
<1>17. f \in Nat /\ k + 1 <= f /\ f <= Len(t) + 1 /\ f - k = e - m
  BY <1>3, <1>6, <1>10, <1>16
<1>11. unitEnd(t, k) = f
  <2>1. CASE ~HasCalls(s[m])
    BY <1>3, <1>6, <1>9, <2>1 DEF unitEnd
  <2>2. CASE HasCalls(s[m])
    <3>1. \A l \in (k + 1) .. (f - 1) : t[l].role = "tool"
      <4> SUFFICES ASSUME NEW l \in (k + 1) .. (f - 1) PROVE t[l].role = "tool"
        OBVIOUS
      <4>1. l \in k .. (f - 1) /\ l + (m - k) \in (m + 1) .. (e - 1)
        <5> HIDE DEF f
        <5> QED
          BY <1>3, <1>6, <1>16, <1>17, Offset
      <4> QED
        BY <1>8, <1>10, <4>1
    <3>2. f <= Len(t) => t[f].role # "tool"
      <4> SUFFICES ASSUME f <= Len(t) PROVE t[f].role # "tool"
        OBVIOUS
      <4>1. CASE k < d /\ m = k
        <5>1. e <= d /\ f = e
          BY <1>1, <1>3, <1>4, <1>6, <1>8, <4>1
        <5>2. CASE e < d
          BY <1>1, <1>2, <1>3, <1>8, <2>2, <4>1, <5>1, <5>2
        <5>3. CASE e = d
          <6>1. d \in d .. Len(t) /\ d + w = end
            BY <1>1, <1>3, <1>5, <5>1, <5>3
          <6>2. t[d] = s[end] /\ end \in DOMAIN s
            BY <1>2, <6>1
          <6> QED
            BY <1>1, <1>4, <5>1, <5>3, <6>2
        <5> QED
          BY <1>1, <1>8, <5>1, <5>2, <5>3
      <4>2. CASE ~(k < d) /\ m = k + w
        <5>1. f = e - w /\ f \in d .. Len(t) /\ f + w = e
          <6>1. k + (e - (k + w)) = e - w /\ e - w \in (k + 1) .. (Len(t) + 1) /\ (e - w) + w = e
            BY <1>18, <4>2
          <6>2. f = e - w
            BY <4>2, <6>1
          <6> HIDE DEF f
          <6>3. d <= k /\ d \in Nat
            BY <1>1, <1>3, <4>2
          <6> QED
            BY <1>3, <1>17, <6>1, <6>2, <6>3
        <5>2. t[f] = s[e] /\ e <= Len(s)
          BY <1>1, <1>2, <5>1
        <5> QED
          BY <1>8, <2>2, <5>2
      <4> QED
        BY <1>7, <4>1, <4>2
    <3> HIDE DEF f
    <3> QED
      BY <1>2, <1>3, <1>6, <1>10, <2>2, <3>1, <3>2, UnitEndIs
  <2> QED
    BY <2>1, <2>2
<1>12. /\ f - 1 - k + 1 = e - 1 - m + 1 /\ f - 1 - k + 1 \in Nat
       /\ k \in Nat /\ f \in Nat /\ e \in Nat /\ m \in Nat
  <2> HIDE DEF f
  <2> QED
    BY <1>3, <1>6, <1>16, <1>17
<1>13. \A i \in 1 .. (f - 1 - k + 1) : t[k + i - 1] = s[m + i - 1]
  <2> SUFFICES ASSUME NEW i \in 1 .. (f - 1 - k + 1) PROVE t[k + i - 1] = s[m + i - 1]
    OBVIOUS
  <2>1. k + i - 1 \in k .. (f - 1) /\ (k + i - 1) + (m - k) = m + i - 1
    BY <1>12
  <2> QED
    BY <1>10, <2>1
<1> HIDE DEF f
<1>14. SubSeq(t, k, f - 1) = SubSeq(s, m, e - 1)
  <2>1. SubSeq(t, k, f - 1) = [i \in 1 .. (f - 1 - k + 1) |-> t[k + i - 1]]
    BY <1>12
  <2>2. SubSeq(s, m, e - 1) = [i \in 1 .. (e - 1 - m + 1) |-> s[m + i - 1]]
    BY <1>12
  <2> QED
    BY <1>12, <1>13, <2>1, <2>2
<1> QED
  BY <1>6, <1>11, <1>14 DEF Unit, t, e

-----------------------------------------------------------------------------
(* One turn and its results *)

\* A set of naturals with 0 and with the successor of each member is Nat.
LEMMA Induction ==
  ASSUME NEW S, 0 \in S, \A n \in Nat : n \in S => n + 1 \in S
  PROVE  Nat \subseteq S
<1> DEFINE T == Nat \ S
<1>1. SUFFICES ASSUME T # {} PROVE FALSE
  OBVIOUS
<1>2. PICK x \in T : \A y \in T : x <= y
  <2>1. T \in SUBSET Nat
    OBVIOUS
  <2> HIDE DEF T
  <2> QED
    BY <1>1, <2>1, NatMin
<1>3. x # 0
  BY <1>2
<1>4. x - 1 \in Nat /\ (x - 1) + 1 = x /\ ~(x <= x - 1)
  BY <1>2, <1>3
<1>5. x - 1 \in S
  BY <1>2, <1>4
<1> QED
  BY <1>2, <1>4, <1>5

\* A sequence without repetitions has as many members as positions.
LEMMA InjectiveCount ==
  ASSUME NEW T, NEW c \in Seq(T), IsInjective(c)
  PROVE  IsFiniteSet(ToSet(c)) /\ Cardinality(ToSet(c)) = Len(c)
<1>1. Len(c) \in Nat /\ DOMAIN c = 1 .. Len(c)
  OBVIOUS
<1>2. c \in Surjection(1 .. Len(c), ToSet(c))
  <2>1. c \in [1 .. Len(c) -> ToSet(c)]
    BY <1>1 DEF ToSet
  <2>2. \A t \in ToSet(c) : \E k \in 1 .. Len(c) : c[k] = t
    BY <1>1 DEF ToSet
  <2> QED
    BY <2>1, <2>2 DEF Surjection
<1>3. c \in Injection(1 .. Len(c), ToSet(c))
  BY <1>1, <1>2 DEF Injection, IsInjective, Surjection
<1>4. IsFiniteSet(1 .. Len(c)) /\ Cardinality(1 .. Len(c)) = Len(c)
  BY <1>1, FS_Interval
<1> QED
  BY <1>2, <1>3, <1>4, FS_Surjection

\* The calls of a message are call ids.
LEMMA CallsType ==
  ASSUME NEW s \in Seq(Message), NEW i \in DOMAIN s
  PROVE  /\ s[i].calls \in Seq(CallIDs) /\ Len(s[i].calls) \in Nat /\ i \in Nat /\ i >= 1
         /\ DOMAIN s[i].calls = 1 .. Len(s[i].calls) /\ i <= Len(s) /\ Len(s) \in Nat
         /\ (HasCalls(s[i]) => Len(s[i].calls) >= 1)
<1>1. s[i] \in Message
  OBVIOUS
<1>2. s[i].calls \in Seq(CallIDs)
  BY <1>1 DEF Message
<1> HIDE <1>1
<1> DEFINE c == s[i].calls
<1>3. c \in Seq(CallIDs)
  BY <1>2
<1>4. HasCalls(s[i]) <=> c # <<>>
  BY DEF HasCalls
<1> HIDE DEF c
<1>5. Len(c) \in Nat /\ DOMAIN c = 1 .. Len(c) /\ (c # <<>> => Len(c) >= 1)
  BY <1>3
<1> QED
  BY <1>3, <1>4, <1>5 DEF c

\* As many results as calls, and a result for every call: each result answers
\* one of them, and no two the same.
LEMMA ResultsDistinct ==
  ASSUME NEW s \in Seq(Message), NEW i \in DOMAIN s, Answered(s, i)
  PROVE  LET calls == s[i].calls IN
         /\ \A k \in 1 .. Len(calls) : s[i + k].callID \in ToSet(calls)
         /\ \A k, l \in 1 .. Len(calls) : s[i + k].callID = s[i + l].callID => k = l
<1> DEFINE c == s[i].calls
           n == Len(c)
           f == [ k \in 1 .. n |-> s[i + k].callID ]
           img == { f[k] : k \in 1 .. n }
<1>1. c \in Seq(CallIDs) /\ n \in Nat
  BY CallsType
<1>2. /\ \A id \in ToSet(c) : \E k \in 1 .. n : s[i + k].callID = id
      /\ IsInjective(c)
  BY DEF Answered
<1> HIDE DEF c
<1>3. IsFiniteSet(ToSet(c)) /\ Cardinality(ToSet(c)) = n
  BY <1>1, <1>2, InjectiveCount
<1>4. ToSet(c) \subseteq img
  BY <1>2
<1> HIDE DEF n
<1>5. f \in Surjection(1 .. n, img)
  BY DEF Surjection
<1>6. IsFiniteSet(1 .. n) /\ Cardinality(1 .. n) = n
  BY <1>1, FS_Interval
<1> HIDE DEF f, img
<1>7. /\ IsFiniteSet(img) /\ Cardinality(img) <= n
      /\ (Cardinality(img) = n <=> f \in Injection(1 .. n, img))
  BY <1>5, <1>6, FS_Surjection
<1>8. ToSet(c) = img /\ Cardinality(img) = n
  <2>1. Cardinality(ToSet(c)) <= Cardinality(img) /\ (Cardinality(img) = Cardinality(ToSet(c)) => img = ToSet(c))
    BY <1>4, <1>7, FS_Subset
  <2>2. Cardinality(img) \in Nat
    BY <1>7, FS_CardinalityType
  <2> QED
    BY <1>1, <1>3, <1>7, <2>1, <2>2
<1>9. \A k, l \in 1 .. n : f[k] = f[l] => k = l
  BY <1>7, <1>8 DEF Injection, IsInjective
<1>10. \A k \in 1 .. n : f[k] = s[i + k].callID /\ f[k] \in img
  BY DEF f, img
<1> QED
  BY <1>8, <1>9, <1>10 DEF n, c

\* So the OpenAI driver's check of one exchange passes.
LEMMA UnitValid ==
  ASSUME NEW s \in Seq(Message), NEW i \in DOMAIN s, Answered(s, i)
  PROVE  validateToolCallUnit(s, i)
<1> DEFINE c == s[i].calls
           n == Len(c)
<1>1. n \in Nat /\ i \in Nat
  BY CallsType
<1>2. /\ \A k \in 1 .. n : s[i + k].callID \in ToSet(c)
      /\ \A k, l \in 1 .. n : s[i + k].callID = s[i + l].callID => k = l
  BY ResultsDistinct
<1>3. i + n <= Len(s) /\ IsInjective(c) /\ \A k \in 1 .. n : s[i + k].role = "tool"
  BY DEF Answered
<1>4. \A k \in (i + 1) .. (i + n) : k - i \in 1 .. n /\ i + (k - i) = k
  <2> HIDE DEF n
  <2> QED
    BY <1>1
<1> HIDE DEF n, c
<1>5. \A k \in (i + 1) .. (i + n) : s[k].role = "tool" /\ s[k].callID \in ToSet(c)
  BY <1>2, <1>3, <1>4
<1>6. ASSUME NEW k \in (i + 1) .. (i + n), NEW l \in (i + 1) .. (i + n), k # l
      PROVE  s[k].callID # s[l].callID
  <2>1. k - i # l - i
    BY <1>1, <1>6
  <2> QED
    BY <1>2, <1>4, <2>1
<1> QED
  BY <1>3, <1>5, <1>6 DEF validateToolCallUnit, n, c

-----------------------------------------------------------------------------
(* drivers/openai accepts every legal transcript *)

\* A message that declares no calls declares none.
LEMMA NoCalls ==
  ASSUME NEW m, ~HasCalls(m)
  PROVE  m.calls = <<>>
  BY DEF HasCalls

\* Well-formed and paired,
Matched(s) == s \in Seq(Message) /\ Tame(s) /\ Paired(s)

\* and with known roles.
Legal(s) == s \in Seq(Message) /\ Tame(s) /\ RolesKnown(s) /\ Paired(s)

\* A legal transcript is matched.
LEMMA LegalMatched ==
  ASSUME NEW s, Legal(s)
  PROVE  Matched(s)
  BY DEF Legal, Matched

\* Between a turn's calls and its last result stand only results.
LEMMA SpanTools ==
  ASSUME NEW s, Matched(s), NEW i \in DOMAIN s, HasCalls(s[i]),
         NEW l \in (i + 1) .. (i + Len(s[i].calls))
  PROVE  l \in DOMAIN s /\ s[l].role = "tool"
<1>1. /\ Len(s[i].calls) \in Nat /\ i + Len(s[i].calls) <= Len(s)
      /\ s[l].role = "tool" /\ i \in Nat /\ i >= 1 /\ Len(s) \in Nat /\ DOMAIN s = 1 .. Len(s)
  BY UnitPaired DEF Matched
<1> QED
  BY <1>1

\* A message that declares calls is no result.
LEMMA DeclarerNoTool ==
  ASSUME NEW s, Matched(s), NEW i \in DOMAIN s, HasCalls(s[i])
  PROVE  s[i].role = "assistant" /\ s[i].role # "tool"
  BY DEF Matched, Tame

\* Message k is no result, so no exchange that starts before it reaches it.
LEMMA Uncovered ==
  ASSUME NEW s, Matched(s), NEW k \in DOMAIN s, s[k].role # "tool",
         NEW i \in 1 .. (k - 1), HasCalls(s[i])
  PROVE  i + Len(s[i].calls) < k
<1>1. s \in Seq(Message) /\ Len(s) \in Nat /\ k \in 1 .. Len(s) /\ DOMAIN s = 1 .. Len(s)
  BY DEF Matched
<1>2. i \in DOMAIN s /\ i \in Nat
  BY <1>1
<1>3. Len(s[i].calls) \in Nat
  BY <1>1, <1>2, CallsType
<1> SUFFICES ASSUME ~(i + Len(s[i].calls) < k) PROVE FALSE
  OBVIOUS
<1>4. k \in (i + 1) .. (i + Len(s[i].calls))
  BY <1>1, <1>2, <1>3
<1> QED
  BY <1>2, <1>4, SpanTools

\* The message behind a unit is no result.
LEMMA NextUnit ==
  ASSUME NEW s, Matched(s), NEW i \in DOMAIN s, s[i].role # "tool"
  PROVE  LET next == i + 1 + Len(s[i].calls) IN
         /\ next \in (i + 1) .. (Len(s) + 1)
         /\ next <= Len(s) => s[next].role # "tool"
<1> DEFINE c == Len(s[i].calls)
           next == i + 1 + c
<1>1. /\ s \in Seq(Message) /\ Len(s) \in Nat /\ i \in 1 .. Len(s) /\ DOMAIN s = 1 .. Len(s)
      /\ c \in Nat
  BY CallsType DEF Matched
<1>2. next \in (i + 1) .. (Len(s) + 1)
  <2>1. CASE HasCalls(s[i])
    BY <1>1, <2>1, UnitPaired DEF Matched
  <2>2. CASE ~HasCalls(s[i])
    <3>1. c = 0
      BY <2>2, NoCalls
    <3> HIDE DEF c
    <3> QED
      BY <1>1, <3>1
  <2> QED
    BY <2>1, <2>2
<1>3. ASSUME next <= Len(s), s[next].role = "tool" PROVE FALSE
  <2>1. next \in DOMAIN s /\ next - 1 = i + c /\ next \in Nat
    <3> HIDE DEF c
    <3> QED
      BY <1>1, <1>2, <1>3
  <2>2. PICK j \in 1 .. (next - 1) : HasCalls(s[j]) /\ next <= j + Len(s[j].calls)
    BY <1>3, <2>1 DEF Matched, Paired
  <2> HIDE DEF next
  <2>3. j \in DOMAIN s /\ j \in Nat /\ Len(s[j].calls) \in Nat
    <3>1. j \in DOMAIN s
      BY <1>1, <1>3, <2>1
    <3> QED
      BY <1>1, <3>1, CallsType
  <2>4. CASE j < i
    <3>1. j \in 1 .. (i - 1)
      BY <1>1, <2>3, <2>4
    <3>2. j + Len(s[j].calls) < i
      BY <2>2, <3>1, Uncovered
    <3> HIDE DEF c
    <3> QED
      BY <1>1, <2>1, <2>2, <2>3, <3>2
  <2>5. CASE j = i
    <3>1. next = i + 1 + c /\ next <= i + c
      BY <2>2, <2>5 DEF next
    <3> HIDE DEF c
    <3> QED
      BY <1>1, <3>1
  <2>6. CASE j > i
    <3>1. j \in (i + 1) .. (i + c)
      <4> HIDE DEF c
      <4> QED
        BY <1>1, <2>1, <2>3, <2>6
    <3>2. HasCalls(s[i])
      <4> SUFFICES ASSUME ~HasCalls(s[i]) PROVE FALSE
        OBVIOUS
      <4>1. c = 0
        BY NoCalls
      <4> HIDE DEF c
      <4> QED
        BY <1>1, <3>1, <4>1
    <3> QED
      BY <2>2, <2>3, <3>1, <3>2, SpanTools, DeclarerNoTool
  <2> QED
    BY <1>1, <2>3, <2>4, <2>5, <2>6
<1> QED
  BY <1>2, <1>3

\* What drivers/openai accepts from position i on, given what it accepts later.
Walk(s, f, i) ==
  IF i > Len(s) THEN TRUE
  ELSE LET message == s[i] IN
       /\ message.role \notin {"unknown", "tool"}
       /\ IF message.role = "assistant" /\ HasCalls(message)
          THEN /\ validateToolCallUnit(s, i)
               /\ f[i + 1 + Len(message.calls)]
          ELSE f[i + 1]

\* On a legal transcript the walk fails exactly where it meets a result.
LEMMA WalkLegal ==
  ASSUME NEW s, Legal(s), NEW f, NEW i \in 1 .. (Len(s) + 1),
         \A k \in (i + 1) .. (Len(s) + 1) : f[k] = (k = Len(s) + 1 \/ s[k].role # "tool")
  PROVE  Walk(s, f, i) = (i = Len(s) + 1 \/ s[i].role # "tool")
<1>1. s \in Seq(Message) /\ Len(s) \in Nat /\ DOMAIN s = 1 .. Len(s)
  BY DEF Legal
<1>2. CASE i = Len(s) + 1
  <2>1. i > Len(s)
    BY <1>1, <1>2
  <2>2. Walk(s, f, i) = TRUE
    BY <2>1, Zenon DEF Walk
  <2> QED
    BY <1>2, <2>2, Zenon
<1>3. CASE i # Len(s) + 1 /\ s[i].role = "tool"
  <2>1. ~(i > Len(s))
    BY <1>1, <1>3
  <2> QED
    BY <1>3, <2>1 DEF Walk
<1>4. CASE i # Len(s) + 1 /\ s[i].role # "tool"
  <2>1. ~(i > Len(s)) /\ i \in DOMAIN s
    BY <1>1, <1>4
  <2>2. s[i].role \notin {"unknown", "tool"}
    BY <1>4, <2>1 DEF Legal, RolesKnown
  <2> DEFINE next == i + 1 + Len(s[i].calls)
  <2>3. next \in (i + 1) .. (Len(s) + 1) /\ (next <= Len(s) => s[next].role # "tool")
    BY <1>4, <2>1, NextUnit, LegalMatched
  <2>4. f[next]
    <3> HIDE DEF next
    <3>1. f[next] = (next = Len(s) + 1 \/ s[next].role # "tool")
      BY <2>3
    <3>2. next = Len(s) + 1 \/ s[next].role # "tool"
      BY <1>1, <2>1, <2>3
    <3> QED
      BY <3>1, <3>2, Zenon
  <2>5. HasCalls(s[i]) => validateToolCallUnit(s, i)
    BY <1>1, <2>1, UnitValid DEF Legal, Paired
  <2>6. s[i].role = "assistant" /\ HasCalls(s[i]) <=> HasCalls(s[i])
    BY <2>1, DeclarerNoTool, LegalMatched
  <2>7. ~HasCalls(s[i]) => next = i + 1
    <3> SUFFICES ASSUME ~HasCalls(s[i]) PROVE next = i + 1
      OBVIOUS
    <3>1. Len(s[i].calls) = 0
      BY NoCalls
    <3> QED
      BY <2>1, <1>1, <3>1
  <2> HIDE DEF next
  <2>8. Walk(s, f, i)
    BY <2>1, <2>2, <2>4, <2>5, <2>6, <2>7 DEF Walk, next
  <2> QED
    BY <1>4, <2>8 DEF Walk
<1> QED
  BY <1>2, <1>3, <1>4

\* validateTranscript of drivers/openai accepts every transcript whose calls and
\* results are paired.
THEOREM OpenAIAccepts ==
  ASSUME NEW s, Legal(s)
  PROVE  openaiAccepts(s)
<1> DEFINE n == Len(s)
           e == [ i \in 1 .. (n + 1) |-> i = n + 1 \/ s[i].role # "tool" ]
           Solves(f) == f = [ i \in 1 .. (n + 1) |-> Walk(s, f, i) ]
           accepts == CHOOSE f : Solves(f)
<1>1. s \in Seq(Message) /\ n \in Nat /\ DOMAIN s = 1 .. n
  BY DEF Legal
<1>2. Solves(e)
  <2>1. ASSUME NEW i \in 1 .. (n + 1) PROVE e[i] = Walk(s, e, i)
    <3>1. \A k \in (i + 1) .. (n + 1) : e[k] = (k = n + 1 \/ s[k].role # "tool")
      BY <1>1
    <3>2. e[i] = (i = n + 1 \/ s[i].role # "tool")
      OBVIOUS
    <3> HIDE DEF e
    <3>3. Walk(s, e, i) = (i = n + 1 \/ s[i].role # "tool")
      BY <3>1, WalkLegal
    <3> QED
      BY <3>2, <3>3
  <2>2. e = [ i \in 1 .. (n + 1) |-> e[i] ]
    OBVIOUS
  <2> HIDE DEF e
  <2> QED
    BY <2>1, <2>2
<1>3. Solves(accepts)
  BY <1>2
<1>4. openaiAccepts(s) = accepts[1]
  BY DEF openaiAccepts, Walk
<1> HIDE DEF accepts, n
<1>5. \A i \in 1 .. (n + 1) : accepts[i] = Walk(s, accepts, i)
  BY <1>3
<1> HIDE DEF Solves
<1> DEFINE P == { m \in Nat : \A i \in 1 .. (n + 1) :
                    n + 1 - i <= m => accepts[i] = (i = n + 1 \/ s[i].role # "tool") }
<1>6. ASSUME NEW i \in 1 .. (n + 1),
             \A k \in (i + 1) .. (n + 1) : accepts[k] = (k = n + 1 \/ s[k].role # "tool")
      PROVE  accepts[i] = (i = n + 1 \/ s[i].role # "tool")
  BY <1>5, <1>6, WalkLegal DEF n
<1>7. 0 \in P
  <2> SUFFICES ASSUME NEW i \in 1 .. (n + 1), n + 1 - i <= 0
               PROVE  accepts[i] = (i = n + 1 \/ s[i].role # "tool")
    OBVIOUS
  <2>1. \A k \in (i + 1) .. (n + 1) : FALSE
    BY <1>1
  <2> QED
    BY <1>6, <2>1
<1>8. ASSUME NEW m \in Nat, m \in P PROVE m + 1 \in P
  <2> SUFFICES ASSUME NEW i \in 1 .. (n + 1), n + 1 - i <= m + 1
               PROVE  accepts[i] = (i = n + 1 \/ s[i].role # "tool")
    OBVIOUS
  <2>1. \A k \in (i + 1) .. (n + 1) : k \in 1 .. (n + 1) /\ n + 1 - k <= m
    BY <1>1
  <2> QED
    BY <1>6, <1>8, <2>1
<1>9. Nat \subseteq P
  <2> HIDE DEF P
  <2> QED
    BY <1>7, <1>8, Induction
<1>10. accepts[1] = (1 = n + 1 \/ s[1].role # "tool")
  <2>1. n \in P
    <3> HIDE DEF P
    <3> QED
      BY <1>1, <1>9
  <2>2. 1 \in 1 .. (n + 1) /\ n + 1 - 1 <= n
    BY <1>1
  <2> QED
    BY <2>1, <2>2
<1>11. n # 0 => s[1].role # "tool"
  <2> SUFFICES ASSUME n # 0, s[1].role = "tool" PROVE FALSE
    OBVIOUS
  <2>1. 1 \in DOMAIN s /\ 1 - 1 = 0
    BY <1>1
  <2> QED
    BY <2>1 DEF Legal, Paired
<1>12. 1 = n + 1 \/ s[1].role # "tool"
  BY <1>1, <1>11
<1> QED
  BY <1>4, <1>10, <1>12, Zenon

-----------------------------------------------------------------------------
(* drivers/anthropic too, when no call is answered twice *)

\* Where drivers/anthropic starts.
FreshWalk == [ok |-> TRUE, pending |-> {}, answered |-> {}]

\* The walk over the positions in T, given the walks over fewer of them.
Walked(s, g, T) ==
  IF T = {} THEN FreshWalk
  ELSE validateTranscriptMessage(g[T \ {Max(T)}], s[Max(T)])

\* The walk has a value for every set of positions.
LEMMA WalkExists ==
  ASSUME NEW s, NEW n \in Nat
  PROVE  \E g : g = [ T \in SUBSET (1 .. n) |-> Walked(s, g, T) ]
<1> DEFINE Solves(g, m) == g = [ T \in SUBSET (1 .. m) |-> Walked(s, g, T) ]
           P == { m \in Nat : \E g : Solves(g, m) }
<1>1. 0 \in P
  <2> DEFINE g == [ T \in SUBSET (1 .. 0) |-> FreshWalk ]
  <2>1. \A T \in SUBSET (1 .. 0) : T = {}
    OBVIOUS
  <2>2. \A T \in SUBSET (1 .. 0) : g[T] = Walked(s, g, T)
    BY <2>1 DEF Walked
  <2>3. g = [ T \in SUBSET (1 .. 0) |-> g[T] ]
    OBVIOUS
  <2> HIDE DEF g
  <2>4. Solves(g, 0)
    BY <2>2, <2>3
  <2> QED
    BY <2>4
<1>2. ASSUME NEW m \in Nat, m \in P PROVE m + 1 \in P
  <2>1. PICK g : Solves(g, m)
    BY <1>2
  <2> DEFINE h == [ T \in SUBSET (1 .. (m + 1)) |->
                      IF m + 1 \in T THEN validateTranscriptMessage(g[T \ {m + 1}], s[m + 1])
                      ELSE g[T] ]
  <2>2. \A T \in SUBSET (1 .. m) : g[T] = Walked(s, g, T)
    BY <2>1
  <2>3. ASSUME NEW T \in SUBSET (1 .. (m + 1)) PROVE h[T] = Walked(s, h, T)
    <3>1. CASE m + 1 \in T
      <4>1. Max(T) = m + 1
        <5>1. T \in SUBSET (0 .. (m + 1)) /\ T # {} /\ m + 1 \in Nat
          BY <3>1
        <5>2. Max(T) \in T /\ m + 1 <= Max(T)
          BY <3>1, <5>1, MaxProperty
        <5>3. Max(T) \in 1 .. (m + 1)
          BY <5>2
        <5> HIDE DEF h
        <5> QED
          BY <5>2, <5>3
      <4>2. T # {} /\ T \ {m + 1} \in SUBSET (1 .. (m + 1)) /\ m + 1 \notin T \ {m + 1}
        BY <3>1
      <4>3. h[T \ {m + 1}] = g[T \ {m + 1}]
        BY <4>2
      <4>4. h[T] = validateTranscriptMessage(g[T \ {m + 1}], s[m + 1])
        BY <3>1
      <4> HIDE DEF h
      <4> QED
        BY <4>1, <4>2, <4>3, <4>4 DEF Walked
    <3>2. CASE m + 1 \notin T
      <4>1. T \in SUBSET (1 .. m)
        BY <3>2
      <4>2. h[T] = Walked(s, g, T)
        BY <2>2, <3>2, <4>1
      <4>3. T # {} => h[T \ {Max(T)}] = g[T \ {Max(T)}]
        <5>1. T \ {Max(T)} \in SUBSET (1 .. (m + 1)) /\ m + 1 \notin T \ {Max(T)}
          BY <3>2
        <5> QED
          BY <5>1
      <4> HIDE DEF h
      <4> QED
        BY <4>2, <4>3 DEF Walked
    <3> QED
      BY <3>1, <3>2
  <2>4. h = [ T \in SUBSET (1 .. (m + 1)) |-> h[T] ]
    OBVIOUS
  <2> HIDE DEF h
  <2>5. Solves(h, m + 1)
    BY <2>3, <2>4
  <2> QED
    BY <2>5
<1>3. Nat \subseteq P
  <2> HIDE DEF P
  <2> QED
    BY <1>1, <1>2, Induction
<1> QED
  BY <1>3

\* The fold is the walk message by message.
LEMMA WalkUnrolls ==
  ASSUME NEW s \in Seq(Message)
  PROVE  \E w : /\ w[0] = FreshWalk
                /\ \A k \in 0 .. (Len(s) - 1) :
                     w[k + 1] = validateTranscriptMessage(w[k], s[k + 1])
                /\ w[Len(s)] = FoldLeft(validateTranscriptMessage, FreshWalk, s)
<1> DEFINE n == Len(s)
           Solves(g) == g = [ T \in SUBSET (1 .. n) |-> Walked(s, g, T) ]
           iter == CHOOSE g : Solves(g)
           w == [ k \in 0 .. n |-> iter[1 .. k] ]
<1>1. n \in Nat /\ DOMAIN s = 1 .. n
  OBVIOUS
<1>2. Solves(iter)
  <2>1. \E g : Solves(g)
    BY <1>1, WalkExists
  <2> QED
    BY <2>1
<1>3. FoldLeft(validateTranscriptMessage, FreshWalk, s) = iter[1 .. n]
  <2>1. FoldLeft(validateTranscriptMessage, FreshWalk, s)
          = (CHOOSE g : g = [ T \in SUBSET (DOMAIN s) |-> Walked(s, g, T) ])[DOMAIN s]
    BY DEF FoldLeft, MapThenFoldSet, Walked
  <2> QED
    BY <1>1, <2>1
<1> HIDE DEF iter, n
<1>4. \A T \in SUBSET (1 .. n) : iter[T] = Walked(s, iter, T)
  BY <1>2
<1> HIDE DEF Solves
<1>5. \A k \in 0 .. n : w[k] = iter[1 .. k]
  OBVIOUS
<1> HIDE DEF w
<1>6. w[0] = FreshWalk
  <2>1. 1 .. 0 = {} /\ {} \in SUBSET (1 .. n) /\ 0 \in 0 .. n
    BY <1>1
  <2>2. iter[{}] = FreshWalk
    BY <1>4, <2>1 DEF Walked
  <2> QED
    BY <1>5, <2>1, <2>2
<1>7. ASSUME NEW k \in 0 .. (n - 1)
      PROVE  w[k + 1] = validateTranscriptMessage(w[k], s[k + 1])
  <2> DEFINE T == 1 .. (k + 1)
  <2>1. k \in Nat /\ k \in 0 .. n /\ k + 1 \in 0 .. n /\ k + 1 <= n
    BY <1>1
  <2>2. T # {} /\ T \in SUBSET (1 .. n) /\ T \in SUBSET (0 .. (k + 1)) /\ k + 1 \in T
    <3>1. k + 1 \in T
      BY <2>1
    <3>2. \A x \in T : x \in 1 .. n /\ x \in 0 .. (k + 1)
      BY <1>1, <2>1
    <3> HIDE DEF T
    <3> QED
      BY <3>1, <3>2
  <2>3. Max(T) \in T /\ k + 1 <= Max(T)
    <3> HIDE DEF T
    <3>1. k + 1 \in Nat
      BY <2>1
    <3> QED
      BY <2>2, <3>1, MaxProperty
  <2>4. Max(T) = k + 1
    BY <2>1, <2>3
  <2>5. T \ {k + 1} = 1 .. k
    BY <2>1
  <2> HIDE DEF T
  <2>6. iter[T] = validateTranscriptMessage(iter[T \ {Max(T)}], s[Max(T)])
    BY <1>4, <2>2 DEF Walked
  <2> QED
    BY <1>5, <2>1, <2>4, <2>5, <2>6 DEF T
<1>8. w[n] = iter[1 .. n]
  BY <1>1, <1>5
<1> QED
  BY <1>3, <1>6, <1>7, <1>8 DEF n

\* One step of the walk from a state in which nothing was refused: a result that
\* is owed and new,
LEMMA WalkResult ==
  ASSUME NEW m, NEW p, NEW a, m.role = "tool", m.callID \in p, m.callID \notin a
  PROVE  validateTranscriptMessage([ok |-> TRUE, pending |-> p, answered |-> a], m)
           = [ok |-> TRUE, pending |-> p \ {m.callID}, answered |-> a \cup {m.callID}]
<1> DEFINE w == [ok |-> TRUE, pending |-> p, answered |-> a]
<1>1. w.ok = TRUE /\ w.pending = p /\ w.answered = a
  OBVIOUS
<1>2. validateTranscriptMessage(w, m) = validateToolMessage(w, m)
  BY DEF validateTranscriptMessage
<1> HIDE DEF w
<1>3. (w.ok /\ m.callID \in w.pending /\ m.callID \notin w.answered) = TRUE
  BY <1>1
<1>4. validateTranscriptMessage(w, m)
        = [ok |-> TRUE, pending |-> p \ {m.callID}, answered |-> a \cup {m.callID}]
  BY <1>1, <1>2, <1>3 DEF validateToolMessage
<1> QED
  BY <1>4 DEF w

\* a turn of the model when nothing is owed,
LEMMA WalkTurn ==
  ASSUME NEW m, NEW a, m.role = "assistant", IsInjective(m.calls)
  PROVE  validateTranscriptMessage([ok |-> TRUE, pending |-> {}, answered |-> a], m)
           = [ok |-> TRUE, pending |-> ToSet(m.calls), answered |-> a]
<1> DEFINE w == [ok |-> TRUE, pending |-> {}, answered |-> a]
           ok == w.ok /\ IsInjective(m.calls)
           pending == w.pending \cup ToSet(m.calls)
<1>1. w.ok = TRUE /\ w.pending = {} /\ w.answered = a
  OBVIOUS
<1>2. w \in [ok : {TRUE}, pending : {{}}, answered : {a}]
  OBVIOUS
<1>3. ok = TRUE /\ pending = ToSet(m.calls)
  BY <1>1
<1>4. validateTranscriptMessage(w, m) = validateAssistantMessage(w, m)
  <2> HIDE DEF w
  <2> QED
    BY <1>1 DEF validateTranscriptMessage
<1> HIDE DEF w
<1>5. validateAssistantMessage(w, m) = [w EXCEPT !.ok = ok, !.pending = pending]
  BY DEF validateAssistantMessage
<1> HIDE DEF ok, pending
<1>6. [w EXCEPT !.ok = ok, !.pending = pending]
        = [ok |-> ok, pending |-> pending, answered |-> w.answered]
  <2> DEFINE u == [w EXCEPT !.ok = ok]
  <2>1. u = [ok |-> ok, pending |-> w.pending, answered |-> w.answered]
    BY <1>2
  <2>2. [w EXCEPT !.ok = ok, !.pending = pending] = [u EXCEPT !.pending = pending]
    BY <1>2
  <2> HIDE DEF u
  <2>3. [u EXCEPT !.pending = pending]
          = [ok |-> ok, pending |-> pending, answered |-> w.answered]
    BY <2>1
  <2> QED
    BY <2>2, <2>3
<1> QED
  BY <1>1, <1>3, <1>4, <1>5, <1>6 DEF w

\* and any other message when nothing is owed.
LEMMA WalkPlain ==
  ASSUME NEW m, NEW a, m.role \in {"system", "user"}
  PROVE  validateTranscriptMessage([ok |-> TRUE, pending |-> {}, answered |-> a], m)
           = [ok |-> TRUE, pending |-> {}, answered |-> a]
<1> DEFINE w == [ok |-> TRUE, pending |-> {}, answered |-> a]
<1>1. w.pending = {}
  OBVIOUS
<1> HIDE DEF w
<1>2. validateTranscriptMessage(w, m) = w
  BY <1>1 DEF validateTranscriptMessage
<1> QED
  BY <1>2 DEF w

\* The ids answered up to k,
AnsweredIDs(s, k) == { s[l].callID : l \in { j \in 1 .. k : s[j].role = "tool" } }

\* and the results still to come of the exchanges opened up to k.
Owed(s, k) ==
  { j \in (k + 1) .. Len(s) :
      \E i \in 1 .. k : HasCalls(s[i]) /\ j <= i + Len(s[i].calls) }

PendingIDs(s, k) == { s[j].callID : j \in Owed(s, k) }

\* Everything owed is a result, and nothing is owed when the next message is none.
LEMMA OwedTools ==
  ASSUME NEW s, Legal(s), NEW k \in 0 .. Len(s)
  PROVE  /\ \A j \in Owed(s, k) : j \in DOMAIN s /\ s[j].role = "tool"
         /\ k < Len(s) /\ s[k + 1].role # "tool" => Owed(s, k) = {}
<1>1. s \in Seq(Message) /\ Len(s) \in Nat /\ DOMAIN s = 1 .. Len(s)
  BY DEF Legal
<1>2. ASSUME NEW j \in Owed(s, k) PROVE j \in DOMAIN s /\ s[j].role = "tool"
  <2>1. j \in (k + 1) .. Len(s)
    BY DEF Owed
  <2>2. PICK i \in 1 .. k : HasCalls(s[i]) /\ j <= i + Len(s[i].calls)
    BY DEF Owed
  <2>3. i \in DOMAIN s
    BY <1>1
  <2>4. Len(s[i].calls) \in Nat
    BY <1>1, <2>3, CallsType
  <2>5. j \in (i + 1) .. (i + Len(s[i].calls))
    BY <1>1, <2>1, <2>2, <2>4
  <2> QED
    BY <2>2, <2>3, <2>5, SpanTools, LegalMatched
<1>3. ASSUME k < Len(s), s[k + 1].role # "tool", NEW j \in Owed(s, k) PROVE FALSE
  <2>1. j \in (k + 1) .. Len(s)
    BY DEF Owed
  <2>2. PICK i \in 1 .. k : HasCalls(s[i]) /\ j <= i + Len(s[i].calls)
    BY DEF Owed
  <2>3. i \in DOMAIN s /\ k + 1 \in DOMAIN s /\ i \in 1 .. ((k + 1) - 1)
    BY <1>1, <1>3
  <2>4. i + Len(s[i].calls) < k + 1 /\ Len(s[i].calls) \in Nat
    BY <1>1, <1>3, <2>2, <2>3, Uncovered, LegalMatched, CallsType
  <2> QED
    BY <1>1, <2>1, <2>2, <2>3, <2>4
<1> QED
  BY <1>2, <1>3

\* What is owed behind a turn is its own results: exactly its calls.
LEMMA OwedByTurn ==
  ASSUME NEW s, Legal(s), NEW k \in 0 .. Len(s), k < Len(s), s[k + 1].role # "tool"
  PROVE  PendingIDs(s, k + 1) = ToSet(s[k + 1].calls) /\ IsInjective(s[k + 1].calls)
<1> DEFINE i == k + 1
           c == s[i].calls
<1>1. /\ s \in Seq(Message) /\ Len(s) \in Nat /\ DOMAIN s = 1 .. Len(s) /\ i \in DOMAIN s
      /\ i \in Nat /\ k \in Nat
  BY DEF Legal
<1>2. c \in Seq(CallIDs) /\ Len(c) \in Nat /\ DOMAIN c = 1 .. Len(c)
  BY <1>1, CallsType
<1> HIDE DEF i
<1>3. ASSUME NEW j PROVE j \in Owed(s, i) <=> HasCalls(s[i]) /\ j \in (i + 1) .. (i + Len(c))
  <2>1. ASSUME j \in Owed(s, i) PROVE HasCalls(s[i]) /\ j \in (i + 1) .. (i + Len(c))
    <3>1. j \in (i + 1) .. Len(s)
      BY <2>1 DEF Owed
    <3>2. PICK l \in 1 .. i : HasCalls(s[l]) /\ j <= l + Len(s[l].calls)
      BY <2>1 DEF Owed
    <3>3. l \in DOMAIN s
      BY <1>1
    <3>4. Len(s[l].calls) \in Nat
      BY <1>1, <3>3, CallsType
    <3>5. l = i
      <4> SUFFICES ASSUME l # i PROVE FALSE
        OBVIOUS
      <4>1. l \in 1 .. (i - 1)
        BY <1>1
      <4>2. l + Len(s[l].calls) < i
        BY <1>1, <3>2, <4>1, Uncovered, LegalMatched DEF i
      <4> QED
        BY <1>1, <3>1, <3>2, <3>4, <4>2
    <3> QED
      BY <1>1, <1>2, <3>1, <3>2, <3>5
  <2>2. ASSUME HasCalls(s[i]), j \in (i + 1) .. (i + Len(c)) PROVE j \in Owed(s, i)
    <3>1. j \in DOMAIN s
      BY <1>1, <2>2, SpanTools, LegalMatched
    <3>2. j \in (i + 1) .. Len(s) /\ i \in 1 .. i /\ j <= i + Len(c)
      <4> HIDE DEF c
      <4> QED
        BY <1>1, <1>2, <2>2, <3>1
    <3> QED
      BY <2>2, <3>2 DEF Owed
  <2> QED
    BY <2>1, <2>2
<1>4. CASE HasCalls(s[i])
  <2>1. Answered(s, i)
    BY <1>1, <1>4 DEF Legal, Paired
  <2>2. /\ \A l \in 1 .. Len(c) : s[i + l].callID \in ToSet(c)
        /\ \A id \in ToSet(c) : \E l \in 1 .. Len(c) : s[i + l].callID = id
        /\ IsInjective(c)
    BY <1>1, <2>1, ResultsDistinct DEF Answered
  <2> HIDE DEF c
  <2>3. ASSUME NEW id PROVE id \in PendingIDs(s, i) <=> id \in ToSet(c)
    <3>1. ASSUME id \in PendingIDs(s, i) PROVE id \in ToSet(c)
      <4>1. PICK j \in Owed(s, i) : id = s[j].callID
        BY <3>1 DEF PendingIDs
      <4>2. j - i \in 1 .. Len(c) /\ i + (j - i) = j
        BY <1>1, <1>2, <1>3
      <4> QED
        BY <2>2, <4>1, <4>2
    <3>2. ASSUME id \in ToSet(c) PROVE id \in PendingIDs(s, i)
      <4>1. PICK l \in 1 .. Len(c) : s[i + l].callID = id
        BY <2>2, <3>2
      <4>2. i + l \in (i + 1) .. (i + Len(c))
        BY <1>1, <1>2
      <4>3. i + l \in Owed(s, i)
        BY <1>3, <1>4, <4>2
      <4> QED
        BY <4>1, <4>3 DEF PendingIDs
    <3> QED
      BY <3>1, <3>2
  <2> QED
    BY <2>2, <2>3 DEF i, c
<1>5. CASE ~HasCalls(s[i])
  <2>1. c = <<>>
    BY <1>5, NoCalls
  <2> HIDE DEF c
  <2>2. ToSet(c) = {} /\ IsInjective(c)
    BY <2>1 DEF ToSet, IsInjective
  <2>3. PendingIDs(s, i) = {}
    BY <1>3, <1>5 DEF PendingIDs
  <2> QED
    BY <2>2, <2>3 DEF i, c
<1> QED
  BY <1>4, <1>5

\* A result that arrives was owed; answering it leaves the others owed.
LEMMA OwedToResult ==
  ASSUME NEW s, Legal(s), AnsweredOnce(s), NEW k \in 0 .. Len(s), k < Len(s), s[k + 1].role = "tool"
  PROVE  LET id == s[k + 1].callID IN
         /\ id \in PendingIDs(s, k) /\ id \notin AnsweredIDs(s, k)
         /\ PendingIDs(s, k + 1) = PendingIDs(s, k) \ {id}
         /\ AnsweredIDs(s, k + 1) = AnsweredIDs(s, k) \cup {id}
<1> DEFINE i == k + 1
           id == s[i].callID
<1>1. /\ s \in Seq(Message) /\ Len(s) \in Nat /\ DOMAIN s = 1 .. Len(s) /\ i \in DOMAIN s
      /\ i \in Nat /\ k \in Nat /\ k = i - 1 /\ i <= Len(s)
  BY DEF Legal
<1>o. s[i].role = "tool"
  OBVIOUS
<1> HIDE DEF i
<1>2. i \in Owed(s, k)
  <2>1. PICK d \in 1 .. (i - 1) : HasCalls(s[d]) /\ i <= d + Len(s[d].calls)
    BY <1>1, <1>o DEF Legal, Paired
  <2>2. d \in 1 .. k /\ i \in (k + 1) .. Len(s)
    BY <1>1, <2>1
  <2> QED
    BY <2>1, <2>2 DEF Owed
<1>3. id \in PendingIDs(s, k)
  BY <1>2 DEF PendingIDs
<1>4. \A l \in DOMAIN s : s[l].role = "tool" /\ s[l].callID = id => l = i
  BY <1>1, <1>o DEF AnsweredOnce
<1>5. id \notin AnsweredIDs(s, k)
  <2> SUFFICES ASSUME id \in AnsweredIDs(s, k) PROVE FALSE
    OBVIOUS
  <2>1. PICK l \in 1 .. k : s[l].role = "tool" /\ s[l].callID = id
    BY DEF AnsweredIDs
  <2>2. l \in DOMAIN s /\ l # i
    BY <1>1
  <2> QED
    BY <1>4, <2>1, <2>2
<1>6. ASSUME NEW j PROVE j \in Owed(s, i) <=> j \in Owed(s, k) /\ j # i
  <2>1. ASSUME j \in Owed(s, i) PROVE j \in Owed(s, k) /\ j # i
    <3>1. j \in (i + 1) .. Len(s)
      BY <2>1 DEF Owed
    <3>2. PICK l \in 1 .. i : HasCalls(s[l]) /\ j <= l + Len(s[l].calls)
      BY <2>1 DEF Owed
    <3>3. l # i
      BY <1>1, <1>o, <3>2, DeclarerNoTool, LegalMatched
    <3>4. l \in 1 .. k /\ j \in (k + 1) .. Len(s) /\ j # i
      BY <1>1, <3>1, <3>3
    <3> QED
      BY <3>2, <3>4 DEF Owed
  <2>2. ASSUME j \in Owed(s, k), j # i PROVE j \in Owed(s, i)
    <3>1. j \in (k + 1) .. Len(s)
      BY <2>2 DEF Owed
    <3>2. PICK l \in 1 .. k : HasCalls(s[l]) /\ j <= l + Len(s[l].calls)
      BY <2>2 DEF Owed
    <3>3. l \in 1 .. i /\ j \in (i + 1) .. Len(s)
      BY <1>1, <2>2, <3>1
    <3> QED
      BY <3>2, <3>3 DEF Owed
  <2> QED
    BY <2>1, <2>2
<1>7. \A j \in Owed(s, k) : j \in DOMAIN s /\ s[j].role = "tool"
  BY <1>1, OwedTools
<1>8. PendingIDs(s, i) = PendingIDs(s, k) \ {id}
  <2>1. \A j \in Owed(s, k) : s[j].callID = id => j = i
    BY <1>4, <1>7
  <2> QED
    BY <1>6, <2>1 DEF PendingIDs
<1>9. AnsweredIDs(s, i) = AnsweredIDs(s, k) \cup {id}
  <2>1. 1 .. i = (1 .. k) \cup {i}
    BY <1>1
  <2> QED
    BY <1>o, <2>1 DEF AnsweredIDs
<1> QED
  BY <1>3, <1>5, <1>8, <1>9 DEF i

\* validateTranscript of drivers/anthropic accepts every transcript whose calls
\* and results are paired when no id is answered twice.
THEOREM AnthropicAccepts ==
  ASSUME NEW s, Legal(s), AnsweredOnce(s)
  PROVE  anthropicAccepts(s)
<1> DEFINE n == Len(s)
           At(k) == [ok |-> TRUE, pending |-> PendingIDs(s, k), answered |-> AnsweredIDs(s, k)]
<1>1. s \in Seq(Message) /\ n \in Nat /\ DOMAIN s = 1 .. n
  BY DEF Legal
<1>2. PICK w : /\ w[0] = FreshWalk
               /\ \A k \in 0 .. (n - 1) : w[k + 1] = validateTranscriptMessage(w[k], s[k + 1])
               /\ w[n] = FoldLeft(validateTranscriptMessage, FreshWalk, s)
  BY <1>1, WalkUnrolls
<1> DEFINE P == { k \in Nat : k <= n => w[k] = At(k) }
<1> HIDE DEF n
<1>5. 0 \in P
  <2>1. PendingIDs(s, 0) = {} /\ AnsweredIDs(s, 0) = {}
    BY DEF PendingIDs, Owed, AnsweredIDs
  <2> QED
    BY <1>2, <2>1 DEF FreshWalk
<1>6. ASSUME NEW k \in Nat, k \in P PROVE k + 1 \in P
  <2> SUFFICES ASSUME k + 1 <= n PROVE w[k + 1] = At(k + 1)
    OBVIOUS
  <2>1. k <= n /\ k < n /\ k \in 0 .. n /\ k + 1 \in DOMAIN s
    BY <1>1
  <2>2. w[k] = At(k)
    BY <1>6, <2>1
  <2>3. w[k + 1] = validateTranscriptMessage(At(k), s[k + 1])
    <3>1. k \in 0 .. (n - 1)
      BY <1>1, <2>1
    <3> HIDE DEF At
    <3> QED
      BY <1>2, <2>2, <3>1
  <2>4. s[k + 1] \in Message /\ s[k + 1].role # "unknown"
    BY <1>1, <2>1 DEF Legal, RolesKnown
  <2>5. CASE s[k + 1].role = "tool"
    <3>1. LET id == s[k + 1].callID IN
          /\ id \in PendingIDs(s, k) /\ id \notin AnsweredIDs(s, k)
          /\ PendingIDs(s, k + 1) = PendingIDs(s, k) \ {id}
          /\ AnsweredIDs(s, k + 1) = AnsweredIDs(s, k) \cup {id}
      BY <2>1, <2>5, OwedToResult DEF n
    <3>2. validateTranscriptMessage(At(k), s[k + 1])
            = [ok |-> TRUE, pending |-> PendingIDs(s, k) \ {s[k + 1].callID},
               answered |-> AnsweredIDs(s, k) \cup {s[k + 1].callID}]
      BY <2>5, <3>1, WalkResult
    <3> QED
      BY <2>3, <3>1, <3>2
  <2>6. CASE s[k + 1].role # "tool"
    <3>1. PendingIDs(s, k) = {}
      BY <2>1, <2>6, OwedTools DEF n, PendingIDs
    <3>2. PendingIDs(s, k + 1) = ToSet(s[k + 1].calls) /\ IsInjective(s[k + 1].calls)
      BY <2>1, <2>6, OwedByTurn DEF n
    <3>3. AnsweredIDs(s, k + 1) = AnsweredIDs(s, k)
      <4>1. 1 .. (k + 1) = (1 .. k) \cup {k + 1}
        OBVIOUS
      <4> QED
        BY <2>6, <4>1 DEF AnsweredIDs
    <3>4. CASE s[k + 1].role = "assistant"
      <4>1. validateTranscriptMessage(At(k), s[k + 1])
              = [ok |-> TRUE, pending |-> ToSet(s[k + 1].calls), answered |-> AnsweredIDs(s, k)]
        BY <3>1, <3>2, <3>4, WalkTurn
      <4> QED
        BY <2>3, <3>2, <3>3, <4>1
    <3>5. CASE s[k + 1].role \in {"system", "user"}
      <4>1. ~HasCalls(s[k + 1])
        BY <2>1, <3>5, DeclarerNoTool, LegalMatched
      <4>2. ToSet(s[k + 1].calls) = {}
        BY <4>1, NoCalls DEF ToSet
      <4>3. validateTranscriptMessage(At(k), s[k + 1]) = At(k)
        BY <3>1, <3>5, WalkPlain
      <4> QED
        BY <2>3, <3>1, <3>2, <3>3, <4>2, <4>3
    <3> QED
      BY <2>4, <2>6, <3>4, <3>5 DEF Message, Roles
  <2> QED
    BY <2>5, <2>6
<1>7. Nat \subseteq P
  <2> HIDE DEF P
  <2> QED
    BY <1>5, <1>6, Induction
<1>8. w[n] = At(n)
  BY <1>1, <1>7
<1>9. PendingIDs(s, n) = {}
  BY <1>1 DEF PendingIDs, Owed, n
<1> QED
  BY <1>2, <1>8, <1>9 DEF anthropicAccepts, FreshWalk

-----------------------------------------------------------------------------
(* and neither driver accepts anything else *)

\* Distinct results that each answer one of the distinct calls are at most as many
\* as the calls, and as many exactly when every call is answered.
LEMMA Covering ==
  ASSUME NEW T, NEW c \in Seq(T), IsInjective(c), NEW n \in Nat,
         NEW f \in [1 .. n -> ToSet(c)],
         \A k, l \in 1 .. n : f[k] = f[l] => k = l
  PROVE  n <= Len(c) /\ (n = Len(c) <=> \A t \in ToSet(c) : \E k \in 1 .. n : f[k] = t)
<1> DEFINE g == [ k \in 1 .. n |-> f[k] ]
           img == { f[k] : k \in 1 .. n }
<1>1. IsFiniteSet(ToSet(c)) /\ Cardinality(ToSet(c)) = Len(c) /\ Len(c) \in Nat
  BY InjectiveCount
<1>2. g \in Surjection(1 .. n, img)
  BY DEF Surjection
<1>3. g \in Injection(1 .. n, img)
  BY <1>2 DEF Injection, IsInjective, Surjection
<1>4. IsFiniteSet(1 .. n) /\ Cardinality(1 .. n) = n
  BY FS_Interval
<1>5. img \subseteq ToSet(c)
  OBVIOUS
<1> HIDE DEF g, img
<1>6. IsFiniteSet(img) /\ Cardinality(img) = n
  BY <1>2, <1>3, <1>4, FS_Surjection
<1>7. Cardinality(img) <= Cardinality(ToSet(c))
      /\ (Cardinality(ToSet(c)) = Cardinality(img) => ToSet(c) = img)
  BY <1>1, <1>5, FS_Subset
<1>8. (\A t \in ToSet(c) : \E k \in 1 .. n : f[k] = t) <=> ToSet(c) = img
  BY <1>5 DEF img
<1>9. ToSet(c) = img => n = Len(c)
  BY <1>1, <1>6
<1> QED
  BY <1>1, <1>6, <1>7, <1>8, <1>9

\* The OpenAI driver's check of one exchange passes only when every call is answered.
LEMMA UnitAnswered ==
  ASSUME NEW s \in Seq(Message), NEW i \in DOMAIN s, validateToolCallUnit(s, i)
  PROVE  Answered(s, i)
<1> DEFINE c == s[i].calls
           n == Len(c)
           f == [ k \in 1 .. n |-> s[i + k].callID ]
<1>1. c \in Seq(CallIDs) /\ n \in Nat /\ i \in Nat /\ Len(s) \in Nat
  BY CallsType
<1>2. i + n <= Len(s) /\ IsInjective(c)
  BY DEF validateToolCallUnit
<1>3. \A k \in (i + 1) .. (i + n) : k <= Len(s)
  <2> HIDE DEF n
  <2> QED
    BY <1>1, <1>2
<1>4. /\ \A k \in (i + 1) .. (i + n) : s[k].role = "tool" /\ s[k].callID \in ToSet(c)
      /\ \A k, l \in (i + 1) .. (i + n) : k # l => s[k].callID # s[l].callID
  BY <1>3 DEF validateToolCallUnit
<1> HIDE DEF c
<1>5. \A k \in 1 .. n : i + k \in (i + 1) .. (i + n)
  <2> HIDE DEF n
  <2> QED
    BY <1>1
<1>6. \A k, l \in 1 .. n : k # l => i + k # i + l
  <2> HIDE DEF n
  <2> QED
    BY <1>1
<1> HIDE DEF n
<1>7. \A k \in 1 .. n : f[k] = s[i + k].callID
  OBVIOUS
<1> HIDE DEF f
<1>8. (\A k \in 1 .. n : f[k] \in ToSet(c)) /\ (\A k, l \in 1 .. n : f[k] = f[l] => k = l)
  <2>1. \A k \in 1 .. n : f[k] \in ToSet(c)
    BY <1>4, <1>5, <1>7
  <2>2. ASSUME NEW k \in 1 .. n, NEW l \in 1 .. n, f[k] = f[l], k # l PROVE FALSE
    BY <1>4, <1>5, <1>6, <1>7, <2>2
  <2> QED
    BY <2>1, <2>2
<1>9. \A id \in ToSet(c) : \E k \in 1 .. n : f[k] = id
  <2>1. n = Len(c)
    BY DEF n
  <2>2. n <= Len(c) /\ (n = Len(c) <=> \A t \in ToSet(c) : \E k \in 1 .. n : f[k] = t)
    <3>1. c \in Seq(CallIDs) /\ n \in Nat /\ IsInjective(c)
      BY <1>1, <1>2
    <3>2. f \in [1 .. n -> ToSet(c)]
      BY <1>8 DEF f
    <3>3. \A k, l \in 1 .. n : f[k] = f[l] => k = l
      BY <1>8
    <3> QED
      BY <3>1, <3>2, <3>3, Covering
  <2> QED
    BY <2>1, <2>2
<1>10. \A id \in ToSet(c) : \E k \in 1 .. n : s[i + k].callID = id
  BY <1>7, <1>9
<1>11. \A k \in 1 .. n : s[i + k].role = "tool"
  BY <1>4, <1>5
<1> QED
  BY <1>2, <1>10, <1>11 DEF Answered, n, c

\* The walk of drivers/openai has a value at every position.
LEMMA AcceptsExists ==
  ASSUME NEW s \in Seq(Message)
  PROVE  \E f : f = [ i \in 1 .. (Len(s) + 1) |-> Walk(s, f, i) ]
<1> DEFINE n == Len(s)
           D == 1 .. (n + 1)
           Solves(f, m) == /\ f = [ i \in D |-> f[i] ]
                           /\ \A i \in D : n + 1 - i <= m => f[i] = Walk(s, f, i)
           P == { m \in Nat : m <= n => \E f : Solves(f, m) }
<1>1. n \in Nat /\ DOMAIN s = 1 .. n
  OBVIOUS
<1> HIDE DEF n
<1>2. ASSUME NEW i \in D, NEW f, NEW g, \A k \in D : k > i => f[k] = g[k]
      PROVE  Walk(s, f, i) = Walk(s, g, i)
  <2>1. CASE i > Len(s)
    BY <2>1 DEF Walk
  <2>2. CASE ~(i > Len(s))
    <3>1. i \in DOMAIN s
      BY <1>1, <2>2 DEF n
    <3>2. Len(s[i].calls) \in Nat /\ i \in Nat /\ i >= 1 /\ i <= n
      BY <3>1, CallsType DEF n
    <3> DEFINE c == Len(s[i].calls)
    <3>3. f[i + 1] = g[i + 1]
      <4>1. i + 1 \in D /\ i + 1 > i
        BY <1>1, <3>2
      <4> QED
        BY <1>2, <4>1
    <3>4. validateToolCallUnit(s, i) => f[i + 1 + c] = g[i + 1 + c]
      <4> SUFFICES ASSUME validateToolCallUnit(s, i) PROVE f[i + 1 + c] = g[i + 1 + c]
        OBVIOUS
      <4>1. i + c <= n
        BY DEF validateToolCallUnit, n
      <4>0. c \in Nat
        BY <3>2
      <4> HIDE DEF c
      <4>2. i + 1 + c \in D /\ i + 1 + c > i
        BY <1>1, <3>2, <4>0, <4>1
      <4> QED
        BY <1>2, <4>2
    <3> QED
      BY <2>2, <3>3, <3>4 DEF Walk
  <2> QED
    BY <2>1, <2>2
<1>3. 0 \in P
  <2> DEFINE f == [ i \in D |-> TRUE ]
  <2>1. \A i \in D : n + 1 - i <= 0 => i > Len(s)
    BY <1>1 DEF n
  <2>2. \A i \in D : i > Len(s) => Walk(s, f, i) = TRUE
    BY Zenon DEF Walk
  <2>3. f = [ i \in D |-> f[i] ] /\ \A i \in D : f[i] = TRUE
    OBVIOUS
  <2> HIDE DEF f, D
  <2>4. Solves(f, 0)
    BY <2>1, <2>2, <2>3
  <2> QED
    BY <2>4
<1>4. ASSUME NEW m \in Nat, m \in P PROVE m + 1 \in P
  <2> SUFFICES ASSUME m + 1 <= n PROVE \E f : Solves(f, m + 1)
    OBVIOUS
  <2>1. m <= n
    BY <1>1
  <2>2. PICK g : Solves(g, m)
    BY <1>4, <2>1
  <2> DEFINE x == n - m
             f == [ i \in D |-> IF i = x THEN Walk(s, g, x) ELSE g[i] ]
  <2>3. x \in D /\ \A i \in D : n + 1 - i <= m + 1 => i = x \/ (i > x /\ n + 1 - i <= m)
    BY <1>1
  <2>4. \A i \in D : f[i] = IF i = x THEN Walk(s, g, x) ELSE g[i]
    OBVIOUS
  <2>5. f = [ i \in D |-> f[i] ]
    OBVIOUS
  <2> HIDE DEF f, x, D
  <2>6. ASSUME NEW i \in D, n + 1 - i <= m + 1 PROVE f[i] = Walk(s, f, i)
    <3>0. x \in Nat /\ i \in Nat /\ \A k \in D : k \in Nat
      BY <1>1, <2>3 DEF D
    <3>1. i = x \/ (i > x /\ n + 1 - i <= m)
      BY <2>3, <2>6
    <3>2. \A k \in D : k > i => k # x
      BY <3>0, <3>1
    <3>3. \A k \in D : k > i => f[k] = g[k]
      BY <2>4, <3>2
    <3>4. Walk(s, f, i) = Walk(s, g, i)
      BY <1>2, <3>3
    <3>5. CASE i = x
      BY <2>4, <3>4, <3>5
    <3>6. CASE i > x /\ n + 1 - i <= m
      <4>1. i # x
        BY <3>0, <3>6
      <4>2. g[i] = Walk(s, g, i)
        BY <2>2, <3>6
      <4> QED
        BY <2>4, <3>4, <4>1, <4>2
    <3> QED
      BY <3>1, <3>5, <3>6
  <2> QED
    BY <2>5, <2>6
<1>5. Nat \subseteq P
  <2> HIDE DEF P
  <2> QED
    BY <1>3, <1>4, Induction
<1>6. PICK f : Solves(f, n)
  <2>1. n \in P /\ n <= n
    BY <1>1, <1>5
  <2> QED
    BY <2>1
<1>7. \A i \in D : n + 1 - i <= n
  BY <1>1
<1>8. f = [ i \in D |-> f[i] ] /\ \A i \in D : f[i] = Walk(s, f, i)
  BY <1>6, <1>7
<1>9. f = [ i \in D |-> Walk(s, f, i) ]
  <2> HIDE DEF D
  <2> QED
    BY <1>8
<1> QED
  BY <1>9 DEF n

\* From position i on, roles are known, calls are answered and results belong to a
\* turn.
Checked(s, i) ==
  /\ \A k \in i .. Len(s) : s[k].role # "unknown"
  /\ \A k \in i .. Len(s) : HasCalls(s[k]) => Answered(s, k)
  /\ \A k \in i .. Len(s) : s[k].role = "tool" =>
        \E j \in i .. (k - 1) : HasCalls(s[j]) /\ k <= j + Len(s[j].calls)

\* What the walk passes over is checked.
LEMMA WalkChecks ==
  ASSUME NEW s \in Seq(Message), Tame(s), NEW f, NEW i \in 1 .. (Len(s) + 1),
         \A k \in (i + 1) .. (Len(s) + 1) : f[k] => Checked(s, k),
         Walk(s, f, i)
  PROVE  Checked(s, i)
<1> DEFINE n == Len(s)
<1>1. n \in Nat /\ DOMAIN s = 1 .. n /\ i \in Nat /\ i >= 1
  OBVIOUS
<1> HIDE DEF n
<1>2. CASE i > n
  <2>1. \A k \in i .. Len(s) : FALSE
    BY <1>1, <1>2 DEF n
  <2> QED
    BY <2>1 DEF Checked
<1>3. CASE ~(i > n)
  <2>1. i \in DOMAIN s /\ i <= n
    BY <1>1, <1>3
  <2>2. s[i].role \notin {"unknown", "tool"}
    BY <1>3 DEF Walk, n
  <2> DEFINE c == Len(s[i].calls)
  <2>3. c \in Nat
    BY <2>1, CallsType
  <2>4. CASE HasCalls(s[i])
    <3>1. s[i].role = "assistant"
      BY <2>1, <2>4 DEF Tame
    <3>2. validateToolCallUnit(s, i) /\ f[i + 1 + c]
      BY <1>3, <2>4, <3>1 DEF Walk, n
    <3>3. Answered(s, i)
      BY <2>1, <3>2, UnitAnswered
    <3>4. i + c <= n
      BY <3>3 DEF Answered, n
    <3>5. \A k \in 1 .. c : s[i + k].role = "tool"
      BY <3>3 DEF Answered
    <3> HIDE DEF c
    <3>6. i + 1 + c \in (i + 1) .. (n + 1)
      BY <1>1, <2>3, <3>4
    <3>7. Checked(s, i + 1 + c)
      BY <3>2, <3>6 DEF n
    <3>8. \A k \in i .. n : k = i \/ (k \in (i + 1) .. (i + c)) \/ (k \in (i + 1 + c) .. n)
      BY <1>1, <2>3
    <3>9. ASSUME NEW k \in (i + 1) .. (i + c)
          PROVE  k \in DOMAIN s /\ s[k].role = "tool" /\ ~HasCalls(s[k])
      <4>1. k - i \in 1 .. c /\ i + (k - i) = k /\ k \in 1 .. n
        BY <1>1, <2>3, <3>4
      <4>2. s[k].role = "tool"
        BY <3>5, <4>1
      <4> QED
        BY <1>1, <4>1, <4>2 DEF Tame
    <3>10. ASSUME NEW k \in i .. n PROVE s[k].role # "unknown"
      BY <2>2, <3>7, <3>8, <3>9, <3>10 DEF Checked, n
    <3>11. ASSUME NEW k \in i .. n, HasCalls(s[k]) PROVE Answered(s, k)
      BY <3>3, <3>7, <3>8, <3>9, <3>11 DEF Checked, n
    <3>12. ASSUME NEW k \in i .. n, s[k].role = "tool"
           PROVE  \E j \in i .. (k - 1) : HasCalls(s[j]) /\ k <= j + Len(s[j].calls)
      <4>1. CASE k \in (i + 1) .. (i + c)
        <5>1. i \in i .. (k - 1) /\ k <= i + c
          BY <1>1, <2>3, <4>1
        <5> QED
          BY <2>4, <5>1 DEF c
      <4>2. CASE k \in (i + 1 + c) .. n
        <5>1. PICK j \in (i + 1 + c) .. (k - 1) : HasCalls(s[j]) /\ k <= j + Len(s[j].calls)
          BY <3>7, <3>12, <4>2 DEF Checked, n
        <5>2. j \in i .. (k - 1)
          BY <1>1, <2>3
        <5> QED
          BY <5>1, <5>2
      <4> QED
        BY <2>2, <3>8, <3>12, <4>1, <4>2
    <3> QED
      BY <3>10, <3>11, <3>12 DEF Checked, n
  <2>5. CASE ~HasCalls(s[i])
    <3>1. f[i + 1]
      BY <1>3, <2>5 DEF Walk, n
    <3>2. i + 1 \in (i + 1) .. (n + 1)
      BY <1>1, <2>1
    <3>3. Checked(s, i + 1)
      BY <3>1, <3>2 DEF n
    <3>4. \A k \in i .. n : k = i \/ k \in (i + 1) .. n
      BY <1>1
    <3>5. ASSUME NEW k \in i .. n, s[k].role = "tool"
          PROVE  \E j \in i .. (k - 1) : HasCalls(s[j]) /\ k <= j + Len(s[j].calls)
      <4>1. k \in (i + 1) .. n
        BY <2>2, <3>4, <3>5
      <4>2. PICK j \in (i + 1) .. (k - 1) : HasCalls(s[j]) /\ k <= j + Len(s[j].calls)
        BY <3>3, <3>5, <4>1 DEF Checked, n
      <4>3. j \in i .. (k - 1)
        BY <1>1
      <4> QED
        BY <4>2, <4>3
    <3>6. ASSUME NEW k \in i .. n
          PROVE  s[k].role # "unknown" /\ (HasCalls(s[k]) => Answered(s, k))
      BY <2>2, <2>5, <3>3, <3>4, <3>6 DEF Checked, n
    <3> QED
      BY <3>5, <3>6 DEF Checked, n
  <2> QED
    BY <2>4, <2>5
<1> QED
  BY <1>2, <1>3

\* validateTranscript of drivers/openai accepts no other transcript.
LEMMA OpenAIRefuses ==
  ASSUME NEW s \in Seq(Message), Tame(s), openaiAccepts(s)
  PROVE  RolesKnown(s) /\ Paired(s)
<1> DEFINE n == Len(s)
           Solves(f) == f = [ i \in 1 .. (n + 1) |-> Walk(s, f, i) ]
           accepts == CHOOSE f : Solves(f)
<1>1. n \in Nat /\ DOMAIN s = 1 .. n
  OBVIOUS
<1>2. Solves(accepts)
  <2>1. \E f : Solves(f)
    BY AcceptsExists
  <2> QED
    BY <2>1
<1>3. openaiAccepts(s) = accepts[1]
  BY DEF openaiAccepts, Walk
<1> HIDE DEF accepts, n
<1>4. \A i \in 1 .. (n + 1) : accepts[i] = Walk(s, accepts, i)
  BY <1>2
<1> HIDE DEF Solves
<1> DEFINE P == { m \in Nat : \A i \in 1 .. (n + 1) :
                    n + 1 - i <= m => (accepts[i] => Checked(s, i)) }
<1>5. ASSUME NEW i \in 1 .. (n + 1),
             \A k \in (i + 1) .. (n + 1) : accepts[k] => Checked(s, k)
      PROVE  accepts[i] => Checked(s, i)
  BY <1>4, <1>5, WalkChecks DEF n
<1>6. 0 \in P
  <2> SUFFICES ASSUME NEW i \in 1 .. (n + 1), n + 1 - i <= 0
               PROVE  accepts[i] => Checked(s, i)
    OBVIOUS
  <2>1. \A k \in (i + 1) .. (n + 1) : FALSE
    BY <1>1
  <2> QED
    BY <1>5, <2>1
<1>7. ASSUME NEW m \in Nat, m \in P PROVE m + 1 \in P
  <2> SUFFICES ASSUME NEW i \in 1 .. (n + 1), n + 1 - i <= m + 1
               PROVE  accepts[i] => Checked(s, i)
    OBVIOUS
  <2>1. \A k \in (i + 1) .. (n + 1) : k \in 1 .. (n + 1) /\ n + 1 - k <= m
    BY <1>1
  <2> QED
    BY <1>5, <1>7, <2>1
<1>8. Nat \subseteq P
  <2> HIDE DEF P
  <2> QED
    BY <1>6, <1>7, Induction
<1>9. accepts[1] => Checked(s, 1)
  <2>1. n \in P
    <3> HIDE DEF P
    <3> QED
      BY <1>1, <1>8
  <2>2. 1 \in 1 .. (n + 1) /\ n + 1 - 1 <= n
    BY <1>1
  <2> QED
    BY <2>1, <2>2
<1>10. Checked(s, 1)
  BY <1>3, <1>9
<1> QED
  BY <1>1, <1>10 DEF Checked, RolesKnown, Paired, n

\* The states of the walk.
WalkState ==
  [ok : BOOLEAN, pending : SUBSET (CallIDs \cup {NoID}), answered : SUBSET (CallIDs \cup {NoID})]

\* What a message that is not refused says of the walk: nothing was refused before
\* it, and
LEMMA WalkAdvances ==
  ASSUME NEW w \in WalkState, NEW m \in Message
  PROVE  LET v == validateTranscriptMessage(w, m) IN
         /\ v \in WalkState
         /\ v.ok => w.ok /\ m.role # "unknown"
         /\ v.ok /\ m.role = "tool" =>
              /\ m.callID \in w.pending /\ m.callID \notin w.answered
              /\ v.pending = w.pending \ {m.callID}
              /\ v.answered = w.answered \cup {m.callID}
         /\ v.ok /\ m.role = "assistant" =>
              /\ w.pending = {} /\ IsInjective(m.calls)
              /\ v.pending = ToSet(m.calls) /\ v.answered = w.answered
         /\ v.ok /\ m.role \in {"system", "user"} =>
              w.pending = {} /\ v.pending = {} /\ v.answered = w.answered
<1> DEFINE v == validateTranscriptMessage(w, m)
           ids == CallIDs \cup {NoID}
<1>1. /\ m.role \in {"system", "user", "assistant", "tool", "unknown"}
      /\ m.calls \in Seq(CallIDs) /\ m.callID \in ids
  BY DEF Message, Roles
<1>2. w.ok \in BOOLEAN /\ w.pending \in SUBSET ids /\ w.answered \in SUBSET ids
  BY DEF WalkState
<1>3. \A b \in BOOLEAN, p \in SUBSET ids, a \in SUBSET ids :
         [ok |-> b, pending |-> p, answered |-> a] \in WalkState
  BY DEF WalkState
<1>4. w = [ok |-> w.ok, pending |-> w.pending, answered |-> w.answered]
  BY DEF WalkState
<1>5. ASSUME NEW b \in BOOLEAN
      PROVE  [w EXCEPT !.ok = b] = [ok |-> b, pending |-> w.pending, answered |-> w.answered]
  BY <1>4
<1>6. CASE m.role = "unknown" \/ (m.role \in {"system", "user", "assistant"} /\ w.pending # {})
  <2>1. v = [w EXCEPT !.ok = FALSE]
    BY <1>6 DEF validateTranscriptMessage
  <2>2. v = [ok |-> FALSE, pending |-> w.pending, answered |-> w.answered]
    BY <1>5, <2>1
  <2> HIDE DEF v
  <2>3. v \in WalkState /\ v.ok = FALSE
    BY <1>2, <1>3, <2>2
  <2> QED
    BY <2>3 DEF v
<1>7. CASE m.role = "tool"
  <2> DEFINE ok == w.ok /\ m.callID \in w.pending /\ m.callID \notin w.answered
  <2>1. v = [ok |-> ok, pending |-> w.pending \ {m.callID}, answered |-> w.answered \cup {m.callID}]
    BY <1>7 DEF validateTranscriptMessage, validateToolMessage
  <2>2. ok \in BOOLEAN
    BY <1>2
  <2>3. ok => w.ok /\ m.callID \in w.pending /\ m.callID \notin w.answered
    OBVIOUS
  <2> HIDE DEF v, ok
  <2>4. v.ok = ok /\ v.pending = w.pending \ {m.callID} /\ v.answered = w.answered \cup {m.callID}
    BY <2>1
  <2>5. v \in WalkState
    <3>1. w.pending \ {m.callID} \in SUBSET ids /\ w.answered \cup {m.callID} \in SUBSET ids
      BY <1>1, <1>2
    <3> QED
      BY <1>3, <2>1, <2>2, <3>1
  <2> QED
    BY <1>7, <2>3, <2>4, <2>5 DEF v
<1>8. CASE m.role = "assistant" /\ w.pending = {}
  <2> DEFINE ok == w.ok /\ IsInjective(m.calls)
             pending == w.pending \cup ToSet(m.calls)
  <2>1. v = validateAssistantMessage(w, m)
    BY <1>8 DEF validateTranscriptMessage
  <2>2. validateAssistantMessage(w, m) = [w EXCEPT !.ok = ok, !.pending = pending]
    BY DEF validateAssistantMessage
  <2>3. ok \in BOOLEAN /\ pending \in SUBSET ids /\ pending = ToSet(m.calls)
        /\ (ok => w.ok /\ IsInjective(m.calls))
    <3>1. ToSet(m.calls) \in SUBSET CallIDs
      BY <1>1 DEF ToSet
    <3> QED
      BY <1>2, <1>8, <3>1 DEF IsInjective
  <2> HIDE DEF v, ok, pending
  <2>4. [w EXCEPT !.ok = ok, !.pending = pending]
          = [ok |-> ok, pending |-> pending, answered |-> w.answered]
    <3> DEFINE u == [w EXCEPT !.ok = ok]
    <3>1. u = [ok |-> ok, pending |-> w.pending, answered |-> w.answered]
      BY <1>4
    <3>2. [w EXCEPT !.ok = ok, !.pending = pending] = [u EXCEPT !.pending = pending]
      BY <1>4
    <3> HIDE DEF u
    <3>3. [u EXCEPT !.pending = pending]
            = [ok |-> ok, pending |-> pending, answered |-> w.answered]
      BY <3>1
    <3> QED
      BY <3>2, <3>3
  <2>5. v = [ok |-> ok, pending |-> pending, answered |-> w.answered]
    BY <2>1, <2>2, <2>4
  <2>6. v \in WalkState
    BY <1>2, <1>3, <2>3, <2>5
  <2>7. v.ok = ok /\ v.pending = ToSet(m.calls) /\ v.answered = w.answered
    BY <2>3, <2>5
  <2> QED
    BY <1>8, <2>3, <2>6, <2>7 DEF v
<1>9. CASE m.role \in {"system", "user"} /\ w.pending = {}
  <2>1. v = w
    BY <1>9 DEF validateTranscriptMessage
  <2> HIDE DEF v
  <2>2. m.role # "tool" /\ m.role # "assistant" /\ m.role # "unknown"
    BY <1>9
  <2> QED
    BY <1>9, <2>1, <2>2 DEF v
<1> QED
  BY <1>1, <1>6, <1>7, <1>8, <1>9

\* Up to k all calls are answered and all results belong to a turn.
Closed(s, k) ==
  /\ \A i \in 1 .. k : HasCalls(s[i]) => Answered(s, i)
  /\ \A j \in 1 .. k : s[j].role = "tool" =>
        \E i \in 1 .. (j - 1) : HasCalls(s[i]) /\ j <= i + Len(s[i].calls)

\* The calls of turn t are being answered, p is what is left of them.
Opened(s, t, k, p) ==
  /\ t \in 1 .. k /\ Closed(s, t - 1)
  /\ HasCalls(s[t]) /\ IsInjective(s[t].calls) /\ s[t].role # "tool"
  /\ \A j \in (t + 1) .. k : s[j].role = "tool" /\ s[j].callID \in ToSet(s[t].calls)
  /\ p = ToSet(s[t].calls) \ { s[j].callID : j \in (t + 1) .. k }

\* No id was answered twice up to k.
OnceUpTo(s, k) ==
  \A j, l \in 1 .. k :
    s[j].role = "tool" /\ s[l].role = "tool" /\ s[j].callID = s[l].callID => j = l

\* Messages that stand alone change nothing.
LEMMA ClosedGrows ==
  ASSUME NEW s, NEW k \in Nat, Closed(s, k), ~HasCalls(s[k + 1]), s[k + 1].role # "tool"
  PROVE  Closed(s, k + 1)
<1>1. 1 .. (k + 1) = (1 .. k) \cup {k + 1}
  OBVIOUS
<1> QED
  BY <1>1 DEF Closed

\* When nothing is left of them, the turn's calls are answered.
LEMMA OpenedCloses ==
  ASSUME NEW s \in Seq(Message), Tame(s), NEW k \in 1 .. Len(s), NEW t,
         Opened(s, t, k, {}), OnceUpTo(s, k)
  PROVE  Closed(s, k)
<1> DEFINE c == s[t].calls
           n == k - t
           f == [ j \in 1 .. n |-> s[t + j].callID ]
<1>1. /\ Len(s) \in Nat /\ DOMAIN s = 1 .. Len(s) /\ k \in Nat /\ t \in Nat /\ t >= 1
      /\ t <= k /\ k <= Len(s) /\ t \in DOMAIN s
  BY DEF Opened
<1>2. c \in Seq(CallIDs) /\ Len(c) \in Nat
  BY <1>1, CallsType
<1>3. n \in Nat /\ \A j \in 1 .. n : t + j \in (t + 1) .. k /\ t + j \in 1 .. k
  BY <1>1
<1>4. \A j \in (t + 1) .. k : j - t \in 1 .. n /\ t + (j - t) = j
  BY <1>1
<1>5. /\ \A j \in (t + 1) .. k : s[j].role = "tool" /\ s[j].callID \in ToSet(c)
      /\ IsInjective(c) /\ Closed(s, t - 1) /\ HasCalls(s[t]) /\ s[t].role # "tool"
      /\ {} = ToSet(c) \ { s[j].callID : j \in (t + 1) .. k }
  BY DEF Opened
<1> HIDE DEF c, n
<1>6. \A j \in 1 .. n : f[j] = s[t + j].callID
  OBVIOUS
<1>7. f \in [1 .. n -> ToSet(c)]
  BY <1>3, <1>5
<1> HIDE DEF f
<1>8. ASSUME NEW j \in 1 .. n, NEW l \in 1 .. n, f[j] = f[l] PROVE j = l
  <2>1. t + j = t + l
    BY <1>3, <1>5, <1>6, <1>8 DEF OnceUpTo
  <2> QED
    BY <1>1, <1>3, <2>1
<1>9. \A id \in ToSet(c) : \E j \in 1 .. n : f[j] = id
  <2> SUFFICES ASSUME NEW id \in ToSet(c) PROVE \E j \in 1 .. n : f[j] = id
    OBVIOUS
  <2>1. PICK j \in (t + 1) .. k : s[j].callID = id
    BY <1>5
  <2> QED
    BY <1>4, <1>6, <2>1
<1>10. n <= Len(c) /\ (n = Len(c) <=> \A id \in ToSet(c) : \E j \in 1 .. n : f[j] = id)
  <2>1. \A j, l \in 1 .. n : f[j] = f[l] => j = l
    BY <1>8
  <2>2. IsInjective(c) /\ n \in Nat
    BY <1>3, <1>5
  <2> QED
    BY <1>2, <1>7, <2>1, <2>2, Covering
<1>11. n = Len(c)
  BY <1>9, <1>10
<1>12. Answered(s, t)
  <2>1. t + Len(c) <= Len(s)
    BY <1>1, <1>2, <1>11 DEF n
  <2>2. \A j \in 1 .. Len(c) : s[t + j].role = "tool"
    BY <1>3, <1>5, <1>11
  <2>3. \A id \in ToSet(c) : \E j \in 1 .. Len(c) : s[t + j].callID = id
    BY <1>6, <1>9, <1>11
  <2> QED
    BY <1>5, <2>1, <2>2, <2>3 DEF Answered, c
<1>13. \A j \in 1 .. k : j \in 1 .. (t - 1) \/ j = t \/ j \in (t + 1) .. k
  BY <1>1
<1>14. ASSUME NEW i \in 1 .. k, HasCalls(s[i]) PROVE Answered(s, i)
  <2>1. i \notin (t + 1) .. k
    <3> SUFFICES ASSUME i \in (t + 1) .. k PROVE FALSE
      OBVIOUS
    <3>1. s[i].role = "tool" /\ i \in DOMAIN s
      BY <1>1, <1>5
    <3> QED
      BY <1>14, <3>1 DEF Tame
  <2> QED
    BY <1>5, <1>12, <1>13, <1>14, <2>1 DEF Closed
<1>15. ASSUME NEW j \in 1 .. k, s[j].role = "tool"
       PROVE  \E i \in 1 .. (j - 1) : HasCalls(s[i]) /\ j <= i + Len(s[i].calls)
  <2>1. CASE j \in 1 .. (t - 1)
    BY <1>5, <1>15, <2>1 DEF Closed
  <2>2. CASE j \in (t + 1) .. k
    <3>1. t \in 1 .. (j - 1) /\ j <= t + Len(c)
      BY <1>1, <1>2, <1>11, <2>2 DEF n
    <3> QED
      BY <1>5, <3>1 DEF c
  <2> QED
    BY <1>5, <1>13, <1>15, <2>1, <2>2
<1> QED
  BY <1>14, <1>15 DEF Closed

\* Another result of the turn arrives.
LEMMA OpenedGrows ==
  ASSUME NEW s, NEW k \in Nat, NEW t, NEW p, Opened(s, t, k, p),
         s[k + 1].role = "tool", s[k + 1].callID \in p
  PROVE  Opened(s, t, k + 1, p \ {s[k + 1].callID})
<1>1. t \in 1 .. (k + 1) /\ (t + 1) .. (k + 1) = ((t + 1) .. k) \cup {k + 1}
  BY DEF Opened
<1>2. { s[j].callID : j \in (t + 1) .. (k + 1) }
        = { s[j].callID : j \in (t + 1) .. k } \cup {s[k + 1].callID}
  BY <1>1
<1> QED
  BY <1>1, <1>2 DEF Opened

\* What the walk has established after k messages.
Passed(s, w, k) ==
  /\ \A j \in 1 .. k : s[j].role # "unknown"
  /\ w.answered = AnsweredIDs(s, k)
  /\ OnceUpTo(s, k)
  /\ w.pending = {} => Closed(s, k)
  /\ w.pending # {} => \E t : Opened(s, t, k, w.pending)

\* The next message that passes.
LEMMA PassedGrows ==
  ASSUME NEW s \in Seq(Message), Tame(s), NEW k \in 0 .. (Len(s) - 1), NEW w \in WalkState,
         w.ok => Passed(s, w, k)
  PROVE  LET v == validateTranscriptMessage(w, s[k + 1]) IN
         v \in WalkState /\ (v.ok => Passed(s, v, k + 1))
<1> DEFINE m == s[k + 1]
           v == validateTranscriptMessage(w, m)
<1>1. k \in Nat /\ k + 1 \in 1 .. Len(s) /\ k + 1 \in DOMAIN s /\ m \in Message
  OBVIOUS
<1>2. /\ v \in WalkState
      /\ v.ok => w.ok /\ m.role # "unknown"
      /\ v.ok /\ m.role = "tool" =>
           /\ m.callID \in w.pending /\ m.callID \notin w.answered
           /\ v.pending = w.pending \ {m.callID}
           /\ v.answered = w.answered \cup {m.callID}
      /\ v.ok /\ m.role = "assistant" =>
           /\ w.pending = {} /\ IsInjective(m.calls)
           /\ v.pending = ToSet(m.calls) /\ v.answered = w.answered
      /\ v.ok /\ m.role \in {"system", "user"} =>
           w.pending = {} /\ v.pending = {} /\ v.answered = w.answered
  BY <1>1, WalkAdvances
<1>3. m.role \in {"system", "user", "assistant", "tool", "unknown"}
  BY <1>1 DEF Message, Roles
<1>4. HasCalls(m) => m.role = "assistant"
  BY <1>1 DEF Tame
<1> HIDE DEF v
<1> SUFFICES ASSUME v.ok PROVE Passed(s, v, k + 1)
  BY <1>2 DEF v
<1>5. Passed(s, w, k) /\ m.role # "unknown"
  BY <1>2
<1>6. 1 .. (k + 1) = (1 .. k) \cup {k + 1}
  BY <1>1
<1>7. \A j \in 1 .. (k + 1) : s[j].role # "unknown"
  BY <1>5, <1>6 DEF Passed
<1>8. CASE m.role = "tool"
  <2>1. /\ m.callID \in w.pending /\ m.callID \notin w.answered
        /\ v.pending = w.pending \ {m.callID} /\ v.answered = w.answered \cup {m.callID}
    BY <1>2, <1>8
  <2>2. AnsweredIDs(s, k + 1) = AnsweredIDs(s, k) \cup {m.callID}
    BY <1>6, <1>8 DEF AnsweredIDs
  <2>3. \A j \in 1 .. k : s[j].role = "tool" => s[j].callID # m.callID
    BY <1>5, <2>1 DEF Passed, AnsweredIDs
  <2>4. OnceUpTo(s, k + 1)
    BY <1>5, <1>6, <2>3 DEF Passed, OnceUpTo
  <2>5. PICK t : Opened(s, t, k, w.pending)
    BY <1>5, <2>1 DEF Passed
  <2>6. Opened(s, t, k + 1, v.pending)
    BY <1>1, <1>8, <2>1, <2>5, OpenedGrows
  <2>7. v.pending = {} => Closed(s, k + 1)
    BY <1>1, <2>4, <2>6, OpenedCloses
  <2>8. v.answered = AnsweredIDs(s, k + 1)
    BY <1>5, <2>1, <2>2 DEF Passed
  <2> QED
    BY <1>7, <2>4, <2>6, <2>7, <2>8 DEF Passed
<1>9. CASE m.role # "tool"
  <2>1. w.pending = {} /\ v.answered = w.answered
    BY <1>2, <1>3, <1>5, <1>9
  <2>2. AnsweredIDs(s, k + 1) = AnsweredIDs(s, k)
    BY <1>6, <1>9 DEF AnsweredIDs
  <2>3. OnceUpTo(s, k + 1)
    BY <1>5, <1>6, <1>9 DEF Passed, OnceUpTo
  <2>4. Closed(s, k)
    BY <1>5, <2>1 DEF Passed
  <2>5. v.answered = AnsweredIDs(s, k + 1)
    BY <1>5, <2>1, <2>2 DEF Passed
  <2>6. CASE HasCalls(m)
    <3>1. m.role = "assistant" /\ v.pending = ToSet(m.calls) /\ IsInjective(m.calls)
      BY <1>2, <1>4, <2>6
    <3>2. m.calls \in Seq(CallIDs) /\ Len(m.calls) \in Nat /\ Len(m.calls) >= 1
          /\ DOMAIN m.calls = 1 .. Len(m.calls)
      BY <1>1, <2>6, CallsType
    <3>3. v.pending # {}
      <4> DEFINE c == m.calls
      <4>1. 1 \in DOMAIN c
        BY <3>2
      <4>2. c[1] \in ToSet(c)
        BY <4>1 DEF ToSet
      <4> QED
        BY <3>1, <4>2
    <3>4. k + 1 \in 1 .. (k + 1) /\ (k + 1) - 1 = k /\ ((k + 1) + 1) .. (k + 1) = {}
      BY <1>1
    <3>5. { s[j].callID : j \in ((k + 1) + 1) .. (k + 1) } = {}
      BY <3>4
    <3>6. Opened(s, k + 1, k + 1, v.pending)
      BY <1>9, <2>4, <2>6, <3>1, <3>4, <3>5 DEF Opened
    <3> QED
      BY <1>7, <2>3, <2>5, <3>3, <3>6 DEF Passed
  <2>7. CASE ~HasCalls(m)
    <3>1. ToSet(m.calls) = {}
      BY <2>7, NoCalls DEF ToSet
    <3>2. v.pending = {}
      BY <1>2, <1>3, <1>5, <1>9, <3>1
    <3>3. Closed(s, k + 1)
      BY <1>1, <1>9, <2>4, <2>7, ClosedGrows
    <3> QED
      BY <1>7, <2>3, <2>5, <3>2, <3>3 DEF Passed
  <2> QED
    BY <2>6, <2>7
<1> QED
  BY <1>8, <1>9

\* validateTranscript of drivers/anthropic accepts no other transcript.
LEMMA AnthropicRefuses ==
  ASSUME NEW s \in Seq(Message), Tame(s), anthropicAccepts(s)
  PROVE  RolesKnown(s) /\ Paired(s) /\ AnsweredOnce(s)
<1> DEFINE n == Len(s)
<1>1. n \in Nat /\ DOMAIN s = 1 .. n
  OBVIOUS
<1>2. PICK w : /\ w[0] = FreshWalk
               /\ \A k \in 0 .. (n - 1) : w[k + 1] = validateTranscriptMessage(w[k], s[k + 1])
               /\ w[n] = FoldLeft(validateTranscriptMessage, FreshWalk, s)
  BY WalkUnrolls
<1>3. w[n].ok /\ w[n].pending = {}
  BY <1>2 DEF anthropicAccepts, FreshWalk
<1> DEFINE P == { k \in Nat : k <= n => w[k] \in WalkState /\ (w[k].ok => Passed(s, w[k], k)) }
<1> HIDE DEF n
<1>4. 0 \in P
  <2> DEFINE u == FreshWalk
  <2>1. u \in WalkState /\ u.pending = {} /\ u.answered = {}
    BY DEF FreshWalk, WalkState
  <2> HIDE DEF u
  <2>2. Passed(s, u, 0)
    BY <2>1 DEF Passed, AnsweredIDs, OnceUpTo, Closed
  <2>3. w[0] = u
    BY <1>2 DEF u
  <2> QED
    BY <2>1, <2>2, <2>3
<1>5. ASSUME NEW k \in Nat, k \in P PROVE k + 1 \in P
  <2> SUFFICES ASSUME k + 1 <= n
               PROVE  w[k + 1] \in WalkState /\ (w[k + 1].ok => Passed(s, w[k + 1], k + 1))
    OBVIOUS
  <2>1. k <= n /\ k \in 0 .. (n - 1)
    BY <1>1
  <2>2. w[k] \in WalkState /\ (w[k].ok => Passed(s, w[k], k))
    BY <1>5, <2>1
  <2>3. w[k + 1] = validateTranscriptMessage(w[k], s[k + 1])
    BY <1>2, <2>1
  <2> QED
    BY <2>1, <2>2, <2>3, PassedGrows DEF n
<1>6. Nat \subseteq P
  <2> HIDE DEF P
  <2> QED
    BY <1>4, <1>5, Induction
<1>7. Passed(s, w[n], n)
  <2>1. n \in P /\ n <= n
    BY <1>1, <1>6
  <2> QED
    BY <1>3, <2>1
<1>8. /\ \A j \in 1 .. n : s[j].role # "unknown"
      /\ OnceUpTo(s, n) /\ Closed(s, n)
  BY <1>3, <1>7 DEF Passed
<1> QED
  BY <1>1, <1>8 DEF RolesKnown, OnceUpTo, AnsweredOnce, Closed, Paired

-----------------------------------------------------------------------------
(* Picking positions *)

\* How many positions of S come before x.
Rank(S, x) == Cardinality({ l \in S : l < x })

\* Sets of positions are finite.
LEMMA PositionsFinite ==
  ASSUME NEW n \in Nat, NEW S \in SUBSET (1 .. n), NEW x
  PROVE  /\ IsFiniteSet(S) /\ Cardinality(S) \in Nat
         /\ IsFiniteSet({ l \in S : l < x }) /\ Rank(S, x) \in Nat
<1>1. IsFiniteSet(1 .. n)
  BY FS_Interval
<1>2. IsFiniteSet(S)
  BY <1>1, FS_Subset
<1>3. { l \in S : l < x } \in SUBSET S
  OBVIOUS
<1>4. IsFiniteSet({ l \in S : l < x })
  BY <1>2, <1>3, FS_Subset
<1> QED
  BY <1>2, <1>4, FS_CardinalityType DEF Rank

\* Ranks grow with the positions and stay below the number of positions.
LEMMA RankGrows ==
  ASSUME NEW n \in Nat, NEW S \in SUBSET (1 .. n), NEW x \in S
  PROVE  /\ Rank(S, x) \in 0 .. (Cardinality(S) - 1)
         /\ \A y \in S : x < y => Rank(S, x) < Rank(S, y)
<1> DEFINE Below(z) == { l \in S : l < z }
<1>1. /\ IsFiniteSet(S) /\ Cardinality(S) \in Nat /\ IsFiniteSet(Below(x)) /\ Rank(S, x) \in Nat
  BY PositionsFinite
<1>x. x \in Nat /\ S \subseteq Nat
  OBVIOUS
<1>2. x \notin Below(x)
  BY <1>x
<1>3. IsFiniteSet(Below(x) \cup {x}) /\ Cardinality(Below(x) \cup {x}) = Rank(S, x) + 1
  BY <1>1, <1>2, FS_AddElement DEF Rank
<1>4. Below(x) \cup {x} \in SUBSET S
  OBVIOUS
<1>5. Rank(S, x) + 1 <= Cardinality(S)
  BY <1>1, <1>3, <1>4, FS_Subset
<1>6. ASSUME NEW y \in S, x < y PROVE Rank(S, x) < Rank(S, y)
  <2>1. IsFiniteSet(Below(y)) /\ Rank(S, y) \in Nat
    BY PositionsFinite
  <2>2. Below(x) \cup {x} \in SUBSET Below(y)
    <3>1. \A l \in S : l < x \/ l = x => l < y
      BY <1>x, <1>6
    <3>2. \A l \in Below(x) \cup {x} : l \in S /\ (l < x \/ l = x)
      OBVIOUS
    <3> QED
      BY <3>1, <3>2
  <2>3. Rank(S, x) + 1 <= Rank(S, y)
    BY <1>3, <2>1, <2>2, FS_Subset DEF Rank
  <2> QED
    BY <1>1, <2>1, <2>3
<1> QED
  BY <1>1, <1>5, <1>6

\* Every number below that is a rank.
LEMMA RankReaches ==
  ASSUME NEW n \in Nat, NEW S \in SUBSET (1 .. n), NEW m \in 0 .. (Cardinality(S) - 1)
  PROVE  \E x \in S : Rank(S, x) = m
<1> DEFINE c == Cardinality(S)
           f == [ x \in S |-> Rank(S, x) ]
<1>1. c \in Nat /\ IsFiniteSet(S)
  BY PositionsFinite
<1>2. f \in [S -> 0 .. (c - 1)]
  BY RankGrows
<1>3. ASSUME NEW x \in S, NEW y \in S, Rank(S, x) = Rank(S, y) PROVE x = y
  <2>1. x \in Nat /\ y \in Nat
    OBVIOUS
  <2>a. Rank(S, x) \in Nat /\ Rank(S, y) \in Nat
    BY PositionsFinite
  <2>b. (x < y => Rank(S, x) < Rank(S, y)) /\ (y < x => Rank(S, y) < Rank(S, x))
    BY RankGrows
  <2>2. ~(x < y) /\ ~(y < x)
    BY <1>3, <2>a, <2>b
  <2> QED
    BY <2>1, <2>2
<1>4. f \in Injection(S, 0 .. (c - 1))
  BY <1>2, <1>3 DEF Injection, IsInjective
<1>5. IsFiniteSet(0 .. (c - 1)) /\ Cardinality(0 .. (c - 1)) = c
  <2> HIDE DEF c
  <2>1. IsFiniteSet(0 .. (c - 1)) /\ Cardinality(0 .. (c - 1)) = IF 0 > c - 1 THEN 0 ELSE (c - 1) - 0 + 1
    BY <1>1, FS_Interval
  <2> QED
    BY <1>1, <2>1
<1> HIDE DEF f
<1>6. f \in Surjection(S, 0 .. (c - 1))
  BY <1>4, <1>5, FS_Injection
<1>7. PICK x \in S : f[x] = m
  BY <1>6 DEF Surjection
<1> QED
  BY <1>7 DEF f

\* Pick puts the positions of S in their order: position x goes behind those before it,
LEMMA PickPlaces ==
  ASSUME NEW T, NEW s \in Seq(T), NEW S \in SUBSET (DOMAIN s), NEW x \in S
  PROVE  /\ Rank(S, x) + 1 \in DOMAIN Pick(s, S)
         /\ Pick(s, S)[Rank(S, x) + 1] = s[x]
<1> DEFINE m == Rank(S, x) + 1
           Late == { k \in S : Cardinality({ l \in S : l < k }) >= m - 1 }
<1>1. Len(s) \in Nat /\ S \in SUBSET (1 .. Len(s)) /\ S \subseteq Nat
  OBVIOUS
<1>2. Rank(S, x) \in 0 .. (Cardinality(S) - 1) /\ Cardinality(S) \in Nat /\ x \in Nat
  BY <1>1, RankGrows, PositionsFinite
<1>3. m \in 1 .. Cardinality(S) /\ m - 1 = Rank(S, x)
  BY <1>2
<1>4. x \in Late
  BY <1>2, <1>3 DEF Rank
<1>5. ASSUME NEW k \in Late PROVE x <= k
  <2>1. k \in S /\ Rank(S, k) >= Rank(S, x)
    BY <1>3 DEF Rank
  <2>2. k \in Nat /\ Rank(S, k) \in Nat
    BY <1>1, <2>1, PositionsFinite
  <2>3. k < x => Rank(S, k) < Rank(S, x)
    BY <1>1, <2>1, RankGrows
  <2> QED
    BY <1>2, <2>1, <2>2, <2>3
<1>6. Min(Late) = x
  <2>1. Late \in SUBSET Nat /\ Late # {}
    BY <1>1, <1>4
  <2> HIDE DEF Late
  <2>2. Min(Late) \in Late /\ Min(Late) <= x
    BY <1>4, <2>1, MinProperty
  <2>3. Min(Late) \in Nat /\ x <= Min(Late)
    BY <1>5, <2>1, <2>2
  <2> QED
    BY <1>2, <2>2, <2>3
<1>7. Pick(s, S)[m] = s[Min(Late)]
  BY <1>3 DEF Pick
<1>8. DOMAIN Pick(s, S) = 1 .. Cardinality(S)
  BY DEF Pick
<1> QED
  BY <1>3, <1>6, <1>7, <1>8

\* and nothing else is in the result.
LEMMA PickedFrom ==
  ASSUME NEW T, NEW s \in Seq(T), NEW S \in SUBSET (DOMAIN s), NEW k \in DOMAIN Pick(s, S)
  PROVE  \E x \in S : Rank(S, x) + 1 = k /\ Pick(s, S)[k] = s[x]
<1>1. Len(s) \in Nat /\ S \in SUBSET (1 .. Len(s))
  OBVIOUS
<1>2. k \in 1 .. Cardinality(S) /\ Cardinality(S) \in Nat
  BY <1>1, PositionsFinite DEF Pick
<1>3. k - 1 \in 0 .. (Cardinality(S) - 1)
  BY <1>2
<1>4. PICK x \in S : Rank(S, x) = k - 1
  BY <1>1, <1>3, RankReaches
<1>5. Rank(S, x) + 1 = k
  BY <1>2, <1>4
<1> QED
  BY <1>5, PickPlaces

\* A sequence is empty when it has no position.
LEMMA NonEmpty ==
  ASSUME NEW T, NEW s \in Seq(T)
  PROVE  s # <<>> <=> DOMAIN s # {}
<1>1. DOMAIN s = 1 .. Len(s) /\ Len(s) \in Nat
  OBVIOUS
<1>2. s # <<>> => Len(s) # 0
  OBVIOUS
<1>3. s = <<>> => Len(s) = 0
  OBVIOUS
<1>4. Len(s) # 0 => 1 \in DOMAIN s
  BY <1>1
<1>5. Len(s) = 0 => DOMAIN s = {}
  BY <1>1
<1> QED
  BY <1>2, <1>3, <1>4, <1>5

\* dedupeToolCalls keeps every id, once.
LEMMA Deduped ==
  ASSUME NEW calls \in Seq(CallIDs)
  PROVE  LET ids == dedupeToolCalls(calls) IN
         /\ ids \in Seq(CallIDs) /\ IsInjective(ids) /\ ToSet(ids) = ToSet(calls)
         /\ ids # <<>> <=> calls # <<>>
<1> DEFINE D == { k \in DOMAIN calls : \A l \in 1 .. (k - 1) : calls[l] # calls[k] }
           ids == dedupeToolCalls(calls)
<1>1. D \in SUBSET (DOMAIN calls) /\ DOMAIN calls = 1 .. Len(calls) /\ Len(calls) \in Nat
  OBVIOUS
<1>2. ids = Pick(calls, D)
  BY DEF dedupeToolCalls
<1> HIDE DEF ids
<1>3. \A x, y \in D : x < y => calls[x] # calls[y]
  BY <1>1
<1>4. ASSUME NEW k \in DOMAIN calls PROVE \E x \in D : calls[x] = calls[k]
  <2> DEFINE same == { l \in DOMAIN calls : calls[l] = calls[k] }
  <2>1. same \in SUBSET Nat /\ k \in same
    BY <1>1
  <2>2. Min(same) \in same /\ \A l \in same : Min(same) <= l
    <3> HIDE DEF same
    <3> QED
      BY <2>1, MinProperty
  <2>3. Min(same) \in DOMAIN calls /\ calls[Min(same)] = calls[k]
    BY <2>2
  <2>4. ASSUME NEW l \in 1 .. (Min(same) - 1), calls[l] = calls[k] PROVE FALSE
    <3>1. l \in DOMAIN calls /\ l < Min(same) /\ Min(same) \in Nat /\ l \in Nat
      BY <1>1, <2>3
    <3>2. Min(same) <= l
      BY <2>2, <2>4, <3>1
    <3> HIDE DEF same
    <3> QED
      BY <3>1, <3>2
  <2>5. Min(same) \in D
    <3> HIDE DEF same
    <3> QED
      BY <2>3, <2>4
  <2> QED
    BY <2>3, <2>5
<1>d. D \subseteq Nat
  BY <1>1
<1> HIDE DEF D
<1>5. ids \in Seq(CallIDs) /\ DOMAIN ids = 1 .. Cardinality(D)
  BY <1>1, <1>2, PickType DEF Pick
<1>6. \A k \in DOMAIN ids : \E x \in D : Rank(D, x) + 1 = k /\ ids[k] = calls[x]
  BY <1>1, <1>2, PickedFrom
<1>7. \A x \in D : Rank(D, x) + 1 \in DOMAIN ids /\ ids[Rank(D, x) + 1] = calls[x]
  BY <1>1, <1>2, PickPlaces
<1>8. IsInjective(ids)
  <2> SUFFICES ASSUME NEW a \in DOMAIN ids, NEW b \in DOMAIN ids, ids[a] = ids[b] PROVE a = b
    BY DEF IsInjective
  <2>1. PICK x \in D : Rank(D, x) + 1 = a /\ ids[a] = calls[x]
    BY <1>6
  <2>2. PICK y \in D : Rank(D, y) + 1 = b /\ ids[b] = calls[y]
    BY <1>6
  <2>3. ~(x < y) /\ ~(y < x)
    BY <1>3, <2>1, <2>2
  <2>4. x = y
    BY <1>d, <2>3
  <2> QED
    BY <2>1, <2>2, <2>4
<1>9. ToSet(ids) = ToSet(calls)
  <2>1. ASSUME NEW id \in ToSet(ids) PROVE id \in ToSet(calls)
    BY <1>1, <1>6 DEF ToSet
  <2>2. ASSUME NEW id \in ToSet(calls) PROVE id \in ToSet(ids)
    <3>1. PICK k \in DOMAIN calls : id = calls[k]
      BY DEF ToSet
    <3>2. PICK x \in D : calls[x] = calls[k]
      BY <1>4
    <3> QED
      BY <1>7, <3>1, <3>2 DEF ToSet
  <2> QED
    BY <2>1, <2>2
<1>10. ids # <<>> <=> calls # <<>>
  <2>1. ids # <<>> <=> DOMAIN ids # {}
    BY <1>5, NonEmpty
  <2>2. calls # <<>> <=> DOMAIN calls # {}
    BY NonEmpty
  <2>3. DOMAIN ids # {} <=> DOMAIN calls # {}
    BY <1>1, <1>4, <1>6, <1>7
  <2> QED
    BY <2>1, <2>2, <2>3
<1> QED
  BY <1>5, <1>8, <1>9, <1>10 DEF ids

-----------------------------------------------------------------------------
(* Repair *)

\* The results in the unit at i,
Results(s, i) == (i + 1) .. (unitEnd(s, i) - 1)

\* the first of them for each call,
FirstResults(s, i) ==
  { k \in Results(s, i) : /\ s[k].callID \in ToSet(s[i].calls)
                          /\ \A l \in (i + 1) .. (k - 1) : s[l].callID # s[k].callID }

\* and whether every call has one.
Complete(s, i) ==
  HasCalls(s[i]) /\ ToSet(s[i].calls) \subseteq { s[k].callID : k \in Results(s, i) }

\* The positions repairTranscript keeps,
Kept(s) ==
  UNION { IF HasCalls(s[i]) THEN repairToolUnit(s, i) ELSE {i} :
          i \in { j \in DOMAIN s : s[j].role # "tool" } }

\* and the messages with repeated call ids merged.
Merged(s) ==
  [ i \in DOMAIN s |-> [s[i] EXCEPT !.calls = dedupeToolCalls(s[i].calls)] ]

\* repairTranscript keeps the merged messages at those positions.
LEMMA RepairIs ==
  ASSUME NEW s
  PROVE  repairTranscript(s) = Pick(Merged(s), Kept(s))
  BY DEF repairTranscript, Merged, Kept

\* A unit is kept whole, up to repeated results, or not at all.
LEMMA UnitRepaired ==
  ASSUME NEW s, NEW i, HasCalls(s[i])
  PROVE  repairToolUnit(s, i) = IF Complete(s, i) THEN {i} \cup FirstResults(s, i) ELSE {}
  BY DEF repairToolUnit, Complete, FirstResults, Results

\* Only results stand in a unit behind its first message.
LEMMA ResultsTool ==
  ASSUME NEW s \in Seq(Message), NEW i \in DOMAIN s, NEW k \in Results(s, i)
  PROVE  k \in DOMAIN s /\ s[k].role = "tool" /\ i < k
<1>1. /\ unitEnd(s, i) \in (i + 1) .. (Len(s) + 1)
      /\ \A l \in (i + 1) .. (unitEnd(s, i) - 1) : s[l].role = "tool"
  BY UnitSpan
<1>2. Len(s) \in Nat /\ i \in Nat /\ DOMAIN s = 1 .. Len(s) /\ i >= 1
  OBVIOUS
<1>3. k \in (i + 1) .. (unitEnd(s, i) - 1)
  BY DEF Results
<1> QED
  BY <1>1, <1>2, <1>3

\* What is kept: messages that stand alone, and complete units.
LEMMA KeptIs ==
  ASSUME NEW s \in Seq(Message), Tame(s), NEW x
  PROVE  x \in Kept(s) <=>
           \/ x \in DOMAIN s /\ s[x].role # "tool" /\ ~HasCalls(s[x])
           \/ \E i \in DOMAIN s : Complete(s, i) /\ x \in {i} \cup FirstResults(s, i)
<1> DEFINE Part(i) == IF HasCalls(s[i]) THEN repairToolUnit(s, i) ELSE {i}
           Starts == { j \in DOMAIN s : s[j].role # "tool" }
<1>1. x \in Kept(s) <=> \E i \in Starts : x \in Part(i)
  BY DEF Kept
<1>2. \A i \in Starts : ~HasCalls(s[i]) => (x \in Part(i) <=> x = i)
  OBVIOUS
<1>3. \A i \in DOMAIN s : HasCalls(s[i]) =>
         (x \in Part(i) <=> Complete(s, i) /\ x \in {i} \cup FirstResults(s, i))
  BY UnitRepaired
<1>4. \A i \in DOMAIN s : HasCalls(s[i]) => i \in Starts
  BY DEF Tame
<1>5. \A i \in DOMAIN s : Complete(s, i) => HasCalls(s[i])
  BY DEF Complete
<1>6. \A i : i \in Starts <=> i \in DOMAIN s /\ s[i].role # "tool"
  OBVIOUS
<1> HIDE DEF Part, Starts
<1> QED
  BY <1>1, <1>2, <1>3, <1>4, <1>5, <1>6

\* Everything kept is a position, whatever the transcript is.
LEMMA KeptPositions ==
  ASSUME NEW s \in Seq(Message)
  PROVE  Kept(s) \in SUBSET (DOMAIN s) /\ Kept(s) \in SUBSET (1 .. Len(s)) /\ Len(s) \in Nat
<1>1. Len(s) \in Nat /\ DOMAIN s = 1 .. Len(s)
  OBVIOUS
<1>2. ASSUME NEW x \in Kept(s) PROVE x \in DOMAIN s
  <2>1. PICK i \in DOMAIN s : x \in IF HasCalls(s[i]) THEN repairToolUnit(s, i) ELSE {i}
    BY DEF Kept
  <2> QED
    BY <2>1, UnitRepaired, ResultsTool DEF FirstResults
<1> QED
  BY <1>1, <1>2

\* A message that stands alone is kept.
LEMMA AloneKept ==
  ASSUME NEW s \in Seq(Message), NEW x \in DOMAIN s, s[x].role # "tool", ~HasCalls(s[x])
  PROVE  x \in Kept(s)
  BY DEF Kept

\* A kept message with calls starts a complete unit,
LEMMA KeptTurn ==
  ASSUME NEW s \in Seq(Message), Tame(s), NEW x \in Kept(s), HasCalls(s[x])
  PROVE  Complete(s, x)
<1>1. x \in DOMAIN s
  BY KeptPositions
<1>2. s[x].role # "tool"
  BY <1>1 DEF Tame
<1>3. PICK i \in DOMAIN s : Complete(s, i) /\ x \in {i} \cup FirstResults(s, i)
  BY KeptIs
<1>4. x \notin FirstResults(s, i)
  BY <1>2, ResultsTool DEF FirstResults
<1> QED
  BY <1>3, <1>4

\* and a kept result belongs to one.
LEMMA KeptResult ==
  ASSUME NEW s \in Seq(Message), Tame(s), NEW x \in Kept(s), s[x].role = "tool"
  PROVE  \E i \in DOMAIN s : Complete(s, i) /\ x \in FirstResults(s, i)
<1>1. PICK i \in DOMAIN s : Complete(s, i) /\ x \in {i} \cup FirstResults(s, i)
  BY KeptIs
<1>2. s[i].role # "tool"
  BY <1>1 DEF Complete, Tame
<1> QED
  BY <1>1, <1>2

\* Between a turn and one of its results nothing is kept but its results.
LEMMA KeptBetween ==
  ASSUME NEW s \in Seq(Message), Tame(s), NEW i \in DOMAIN s, Complete(s, i),
         NEW r \in FirstResults(s, i), NEW x \in Kept(s), i < x, x < r
  PROVE  x \in FirstResults(s, i)
<1>1. /\ Len(s) \in Nat /\ DOMAIN s = 1 .. Len(s) /\ x \in DOMAIN s /\ i \in Nat /\ x \in Nat
  BY KeptPositions
<1>2. /\ r \in (i + 1) .. (unitEnd(s, i) - 1) /\ unitEnd(s, i) \in (i + 1) .. (Len(s) + 1)
  BY UnitSpan DEF FirstResults, Results
<1>3. x \in (i + 1) .. (unitEnd(s, i) - 1)
  BY <1>1, <1>2
<1>4. x \in Results(s, i)
  BY <1>3 DEF Results
<1>5. s[x].role = "tool"
  BY <1>4, ResultsTool
<1>6. PICK j \in DOMAIN s : Complete(s, j) /\ x \in FirstResults(s, j)
  BY <1>5, KeptResult
<1>7. j < x /\ x \in Results(s, j) /\ j \in Nat
  BY <1>1, <1>6, ResultsTool DEF FirstResults
<1>8. s[i].role # "tool" /\ s[j].role # "tool"
  BY <1>6 DEF Complete, Tame
<1>9. ~(j < i)
  <2> SUFFICES ASSUME j < i PROVE FALSE
    OBVIOUS
  <2>1. /\ x \in (j + 1) .. (unitEnd(s, j) - 1) /\ unitEnd(s, j) \in (j + 1) .. (Len(s) + 1)
    BY <1>7, UnitSpan DEF Results
  <2>2. i \in (j + 1) .. (unitEnd(s, j) - 1)
    BY <1>1, <1>7, <2>1
  <2>3. i \in Results(s, j)
    BY <2>2 DEF Results
  <2> QED
    BY <1>8, <2>3, ResultsTool
<1>10. ~(i < j)
  <2> SUFFICES ASSUME i < j PROVE FALSE
    OBVIOUS
  <2>1. j \in (i + 1) .. (unitEnd(s, i) - 1)
    BY <1>1, <1>2, <1>3, <1>7
  <2>2. j \in Results(s, i)
    BY <2>1 DEF Results
  <2> QED
    BY <1>8, <2>2, ResultsTool
<1>11. i = j
  BY <1>1, <1>7, <1>9, <1>10
<1> QED
  BY <1>6, <1>11

\* The first results of a complete unit: one for every call, none twice.
LEMMA FirstResultsCover ==
  ASSUME NEW s \in Seq(Message), NEW i \in DOMAIN s, Complete(s, i)
  PROVE  /\ \A id \in ToSet(s[i].calls) : \E r \in FirstResults(s, i) : s[r].callID = id
         /\ \A q, r \in FirstResults(s, i) : s[q].callID = s[r].callID => q = r
<1>1. Len(s) \in Nat /\ DOMAIN s = 1 .. Len(s) /\ i \in Nat
  OBVIOUS
<1>2. Results(s, i) \subseteq Nat
  BY <1>1, ResultsTool
<1>3. ASSUME NEW id \in ToSet(s[i].calls) PROVE \E r \in FirstResults(s, i) : s[r].callID = id
  <2> DEFINE same == { k \in Results(s, i) : s[k].callID = id }
  <2>1. same \in SUBSET Nat /\ same # {}
    BY <1>2 DEF Complete
  <2>2. Min(same) \in same /\ \A l \in same : Min(same) <= l
    <3> HIDE DEF same
    <3> QED
      BY <2>1, MinProperty
  <2> DEFINE r == Min(same)
  <2>3. r \in Results(s, i) /\ s[r].callID = id /\ r \in Nat
    BY <1>2, <2>2
  <2>4. \A l \in Results(s, i) : s[l].callID = id => r <= l
    BY <2>2
  <2> HIDE DEF r, same
  <2>5. ASSUME NEW l \in (i + 1) .. (r - 1), s[l].callID = id PROVE FALSE
    <3>1. r \in (i + 1) .. (unitEnd(s, i) - 1) /\ unitEnd(s, i) \in (i + 1) .. (Len(s) + 1)
      BY <2>3, UnitSpan DEF Results
    <3>2. l \in (i + 1) .. (unitEnd(s, i) - 1) /\ l < r /\ l \in Nat
      BY <1>1, <2>3, <3>1
    <3>3. l \in Results(s, i)
      BY <3>2 DEF Results
    <3>4. r <= l
      BY <2>4, <2>5, <3>3
    <3> QED
      BY <2>3, <3>2, <3>4
  <2>6. r \in FirstResults(s, i)
    BY <2>3, <2>5 DEF FirstResults
  <2> QED
    BY <2>3, <2>6
<1>4. ASSUME NEW q \in FirstResults(s, i), NEW r \in FirstResults(s, i), q < r
      PROVE  s[q].callID # s[r].callID
  <2>1. q \in Results(s, i) /\ r \in Results(s, i) /\ q \in Nat /\ r \in Nat /\ i < q
    BY <1>2, ResultsTool DEF FirstResults
  <2>2. q \in (i + 1) .. (r - 1)
    BY <1>1, <1>4, <2>1
  <2> QED
    BY <2>2 DEF FirstResults
<1>5. FirstResults(s, i) \subseteq Nat
  BY <1>2 DEF FirstResults
<1> QED
  BY <1>3, <1>4, <1>5

\* So a repaired turn declares as many calls as it has results.
LEMMA FirstResultsCount ==
  ASSUME NEW s \in Seq(Message), NEW i \in DOMAIN s, Complete(s, i)
  PROVE  /\ FirstResults(s, i) \in SUBSET (1 .. Len(s))
         /\ Cardinality(FirstResults(s, i)) = Len(dedupeToolCalls(s[i].calls))
<1> DEFINE R == FirstResults(s, i)
           c == s[i].calls
           d == dedupeToolCalls(c)
           f == [ r \in R |-> s[r].callID ]
<1>1. c \in Seq(CallIDs)
  BY CallsType
<1>2. d \in Seq(CallIDs) /\ IsInjective(d) /\ ToSet(d) = ToSet(c)
  BY <1>1, Deduped
<1>3. IsFiniteSet(ToSet(c)) /\ Cardinality(ToSet(c)) = Len(d)
  <2> HIDE DEF d, c
  <2> QED
    BY <1>2, InjectiveCount
<1>4. /\ \A id \in ToSet(c) : \E r \in R : s[r].callID = id
      /\ \A q, r \in R : s[q].callID = s[r].callID => q = r
  BY FirstResultsCover
<1>5. \A r \in R : s[r].callID \in ToSet(c)
  BY DEF FirstResults
<1>6. R \in SUBSET (1 .. Len(s))
  BY ResultsTool DEF FirstResults
<1> HIDE DEF R, c, d
<1>7. f \in Surjection(R, ToSet(c)) /\ f \in Injection(R, ToSet(c))
  BY <1>4, <1>5 DEF Surjection, Injection, IsInjective
<1>8. Cardinality(R) = Cardinality(ToSet(c))
  <2> HIDE DEF f
  <2> QED
    BY <1>3, <1>7, FS_Injection
<1> QED
  BY <1>3, <1>6, <1>8 DEF R, d, c

\* Where a result goes: behind its turn and the turn's earlier results.
LEMMA ResultRank ==
  ASSUME NEW s \in Seq(Message), Tame(s), NEW i \in DOMAIN s, Complete(s, i),
         NEW r \in FirstResults(s, i)
  PROVE  Rank(Kept(s), r) = Rank(Kept(s), i) + 1 + Rank(FirstResults(s, i), r)
<1> DEFINE K == Kept(s)
           R == FirstResults(s, i)
           A == { x \in K : x < i }
           B == { x \in R : x < r }
<1>1. K \in SUBSET (1 .. Len(s)) /\ Len(s) \in Nat /\ R \in SUBSET (1 .. Len(s)) /\ i \in Nat
  BY KeptPositions, FirstResultsCount
<1>2. i \in K /\ R \subseteq K
  <2>1. i \in {i} \cup R /\ \A x \in R : x \in {i} \cup R
    OBVIOUS
  <2> HIDE DEF R
  <2> QED
    BY <2>1, KeptIs DEF R
<1>3. \A x \in R : i < x
  BY ResultsTool DEF FirstResults
<1>4. \A x \in K : i < x /\ x < r => x \in R
  BY KeptBetween
<1>r. r \in R /\ r \in Nat
  BY <1>1
<1> HIDE DEF K, R
<1>5. /\ IsFiniteSet(A) /\ IsFiniteSet(B) /\ Rank(K, i) \in Nat /\ Rank(R, r) \in Nat
      /\ Cardinality(A) = Rank(K, i) /\ Cardinality(B) = Rank(R, r)
  BY <1>1, PositionsFinite DEF Rank
<1>6. { x \in K : x < r } = (A \cup {i}) \cup B
  <2>1. K \subseteq Nat /\ R \subseteq Nat
    BY <1>1
  <2>2. \A x \in K : x < r => x < i \/ x = i \/ x \in R
    BY <1>1, <1>4, <2>1
  <2>3. \A x \in K : x < i => x < r
    BY <1>1, <1>3, <1>r, <2>1
  <2>4. i < r
    BY <1>3, <1>r
  <2> QED
    BY <1>2, <2>2, <2>3, <2>4
<1>7. i \notin A /\ (A \cup {i}) \cap B = {}
  <2>1. \A x \in K : x \in Nat
    BY <1>1
  <2>2. \A x \in B : i < x
    BY <1>3
  <2>3. \A x \in A : x < i /\ x \in Nat
    BY <2>1
  <2>4. \A x \in A \cup {i} : ~(i < x)
    BY <1>1, <2>3
  <2>5. i \notin A
    BY <1>1, <2>3
  <2> HIDE DEF A, B
  <2> QED
    BY <2>2, <2>4, <2>5
<1> HIDE DEF A, B
<1>8. IsFiniteSet(A \cup {i}) /\ Cardinality(A \cup {i}) = Rank(K, i) + 1
  BY <1>5, <1>7, FS_AddElement
<1>9. Cardinality((A \cup {i}) \cup B) = Cardinality(A \cup {i}) + Cardinality(B) - Cardinality({})
  BY <1>5, <1>7, <1>8, FS_Union
<1>10. Cardinality({}) = 0
  BY FS_EmptySet
<1>11. Rank(K, r) = Cardinality((A \cup {i}) \cup B)
  BY <1>6 DEF Rank
<1> QED
  BY <1>5, <1>8, <1>9, <1>10, <1>11 DEF K, R

\* Merging repeated ids changes nothing but the calls, and empties none.
LEMMA MergedIs ==
  ASSUME NEW s \in Seq(Message)
  PROVE  /\ Merged(s) \in Seq(Message) /\ DOMAIN Merged(s) = DOMAIN s
         /\ \A i \in DOMAIN s :
              LET m == Merged(s)[i] IN
              /\ m.calls = dedupeToolCalls(s[i].calls)
              /\ m.role = s[i].role /\ m.origin = s[i].origin /\ m.callID = s[i].callID
              /\ m.tag = s[i].tag /\ (HasCalls(m) <=> HasCalls(s[i]))
<1>1. ASSUME NEW i \in DOMAIN s
      PROVE  LET m == [s[i] EXCEPT !.calls = dedupeToolCalls(s[i].calls)] IN
              /\ m \in Message
              /\ m.calls = dedupeToolCalls(s[i].calls)
              /\ m.role = s[i].role /\ m.origin = s[i].origin /\ m.callID = s[i].callID
              /\ m.tag = s[i].tag /\ (HasCalls(m) <=> HasCalls(s[i]))
  <2> DEFINE d == dedupeToolCalls(s[i].calls)
             m == [s[i] EXCEPT !.calls = d]
  <2>1. s[i].calls \in Seq(CallIDs)
    BY CallsType
  <2>2. d \in Seq(CallIDs) /\ (d # <<>> <=> s[i].calls # <<>>)
    BY <2>1, Deduped
  <2>3. s[i] \in Message
    OBVIOUS
  <2> HIDE DEF d
  <2>4. /\ m \in Message /\ m.calls = d
        /\ m.role = s[i].role /\ m.origin = s[i].origin /\ m.callID = s[i].callID
        /\ m.tag = s[i].tag
    BY <2>2, <2>3 DEF Message
  <2> HIDE DEF m
  <2>5. HasCalls(m) <=> HasCalls(s[i])
    BY <2>2, <2>4 DEF HasCalls
  <2> QED
    BY <2>4, <2>5 DEF m, d
<1>2. DOMAIN Merged(s) = DOMAIN s /\ \A i \in DOMAIN s :
        Merged(s)[i] = [s[i] EXCEPT !.calls = dedupeToolCalls(s[i].calls)]
  BY DEF Merged
<1>3. Merged(s) \in Seq(Message)
  <2>1. \A i \in DOMAIN s : [s[i] EXCEPT !.calls = dedupeToolCalls(s[i].calls)] \in Message
    BY <1>1
  <2> QED
    BY <2>1 DEF Merged
<1> QED
  BY <1>1, <1>2, <1>3

\* Where the messages of a repaired transcript come from.
LEMMA RepairedFrom ==
  ASSUME NEW s \in Seq(Message)
  PROVE  LET t == repairTranscript(s) IN
         /\ t \in Seq(Message)
         /\ \A x \in Kept(s) : /\ Rank(Kept(s), x) + 1 \in DOMAIN t
                               /\ t[Rank(Kept(s), x) + 1] = Merged(s)[x]
         /\ \A k \in DOMAIN t : \E x \in Kept(s) :
                Rank(Kept(s), x) + 1 = k /\ t[k] = Merged(s)[x]
<1>1. Merged(s) \in Seq(Message) /\ Kept(s) \in SUBSET (DOMAIN Merged(s))
  BY MergedIs, KeptPositions
<1> QED
  BY <1>1, RepairIs, RepairType, PickPlaces, PickedFrom

\* Repair leaves every call with its results and every result with its call.
LEMMA RepairPairs ==
  ASSUME NEW s \in Seq(Message), Tame(s)
  PROVE  Paired(repairTranscript(s))
<1> DEFINE t == repairTranscript(s)
           K == Kept(s)
           m == Merged(s)
           Pos(x) == Rank(K, x) + 1
<1>1. /\ t \in Seq(Message)
      /\ \A x \in K : Pos(x) \in DOMAIN t /\ t[Pos(x)] = m[x]
      /\ \A k \in DOMAIN t : \E x \in K : Pos(x) = k /\ t[k] = m[x]
  BY RepairedFrom
<1>2. K \in SUBSET (DOMAIN s) /\ K \in SUBSET (1 .. Len(s)) /\ Len(s) \in Nat
  BY KeptPositions
<1>3. \A x \in K : Rank(K, x) \in Nat /\ Pos(x) \in Nat
  <2>1. \A x : Rank(K, x) \in Nat
    <3> HIDE DEF K
    <3> QED
      BY <1>2, PositionsFinite
  <2> HIDE DEF K
  <2> QED
    BY <2>1
<1>4. \A x \in K : /\ m[x].calls = dedupeToolCalls(s[x].calls) /\ m[x].role = s[x].role
                   /\ m[x].callID = s[x].callID /\ (HasCalls(m[x]) <=> HasCalls(s[x]))
  BY <1>2, MergedIs
<1>5. Len(t) \in Nat /\ DOMAIN t = 1 .. Len(t)
  BY <1>1
<1>6. ASSUME NEW x \in K, Complete(s, x)
      PROVE  /\ FirstResults(s, x) \subseteq K
             /\ FirstResults(s, x) \in SUBSET (1 .. Len(s))
             /\ Cardinality(FirstResults(s, x)) = Len(dedupeToolCalls(s[x].calls))
             /\ \A r \in FirstResults(s, x) :
                  Pos(r) = Pos(x) + (Rank(FirstResults(s, x), r) + 1) /\ s[r].role = "tool"
  <2>1. x \in DOMAIN s
    BY <1>2
  <2>2. FirstResults(s, x) \subseteq K
    BY <1>6, <2>1, KeptIs
  <2>3. /\ FirstResults(s, x) \in SUBSET (1 .. Len(s))
        /\ Cardinality(FirstResults(s, x)) = Len(dedupeToolCalls(s[x].calls))
    BY <1>6, <2>1, FirstResultsCount
  <2>4. ASSUME NEW r \in FirstResults(s, x)
        PROVE  Pos(r) = Pos(x) + (Rank(FirstResults(s, x), r) + 1) /\ s[r].role = "tool"
    <3>1. Rank(K, r) = Rank(K, x) + 1 + Rank(FirstResults(s, x), r)
      BY <1>6, <2>1, ResultRank
    <3>2. Rank(FirstResults(s, x), r) \in Nat
      BY <1>2, <2>3, PositionsFinite
    <3>3. s[r].role = "tool"
      BY <2>1, ResultsTool DEF FirstResults
    <3>4. Rank(K, x) \in Nat
      BY <1>3
    <3> HIDE DEF K
    <3> QED
      BY <3>1, <3>2, <3>3, <3>4
  <2> QED
    BY <2>2, <2>3, <2>4
<1> HIDE DEF t, K, m, Pos
<1>7. ASSUME NEW i \in DOMAIN t, HasCalls(t[i]) PROVE Answered(t, i)
  <2>1. PICK x \in K : Pos(x) = i /\ t[i] = m[x]
    BY <1>1
  <2>2. x \in DOMAIN s /\ Complete(s, x)
    BY <1>2, <1>4, <1>7, <2>1, KeptTurn DEF K
  <2> DEFINE R == FirstResults(s, x)
             d == dedupeToolCalls(s[x].calls)
             n == Len(d)
  <2>3. /\ R \subseteq K /\ R \in SUBSET (1 .. Len(s)) /\ Cardinality(R) = n
        /\ \A r \in R : Pos(r) = i + (Rank(R, r) + 1) /\ s[r].role = "tool"
    BY <1>6, <2>1, <2>2
  <2>4. s[x].calls \in Seq(CallIDs)
    BY <2>2, CallsType
  <2>5. d \in Seq(CallIDs) /\ IsInjective(d) /\ ToSet(d) = ToSet(s[x].calls)
    BY <2>4, Deduped
  <2>6. t[i].calls = d
    BY <1>4, <2>1
  <2>7. \A id \in ToSet(d) : \E r \in R : s[r].callID = id
    BY <2>2, <2>5, FirstResultsCover
  <2>8. n \in Nat /\ (n > 0 => n \in 1 .. n)
    BY <2>5
  <2> HIDE DEF R, d, n
  <2>9. \A r \in R : /\ Rank(R, r) + 1 \in 1 .. n /\ t[i + (Rank(R, r) + 1)].role = "tool"
                     /\ t[i + (Rank(R, r) + 1)].callID = s[r].callID
                     /\ i + (Rank(R, r) + 1) \in DOMAIN t
    <3> SUFFICES ASSUME NEW r \in R
                 PROVE  /\ Rank(R, r) + 1 \in 1 .. n /\ t[i + (Rank(R, r) + 1)].role = "tool"
                        /\ t[i + (Rank(R, r) + 1)].callID = s[r].callID
                        /\ i + (Rank(R, r) + 1) \in DOMAIN t
      OBVIOUS
    <3>1. Rank(R, r) \in 0 .. (n - 1)
      BY <1>2, <2>3, RankGrows
    <3>2. Rank(R, r) + 1 \in 1 .. n
      BY <2>8, <3>1
    <3>3. r \in K
      BY <2>3
    <3>4. Pos(r) = i + (Rank(R, r) + 1) /\ s[r].role = "tool"
      BY <2>3
    <3>5. /\ Pos(r) \in DOMAIN t /\ t[Pos(r)] = m[r] /\ m[r].role = s[r].role
          /\ m[r].callID = s[r].callID
      BY <1>1, <1>4, <3>3
    <3> QED
      BY <3>2, <3>4, <3>5
  <2>10. ASSUME NEW k \in 1 .. n PROVE \E r \in R : k = Rank(R, r) + 1
    <3>1. k - 1 \in 0 .. (Cardinality(R) - 1)
      BY <2>3, <2>8
    <3>2. PICK r \in R : Rank(R, r) = k - 1
      BY <1>2, <2>3, <3>1, RankReaches
    <3>3. k = Rank(R, r) + 1
      BY <2>8, <3>2
    <3> QED
      BY <3>3
  <2>11. i + n <= Len(t)
    <3>1. CASE n = 0
      BY <1>5, <3>1
    <3>2. CASE n > 0
      <4>1. i + n \in DOMAIN t
        BY <2>8, <2>9, <2>10, <3>2
      <4> QED
        BY <1>5, <4>1
    <3> QED
      BY <2>8, <3>1, <3>2
  <2>12. \A k \in 1 .. n : t[i + k].role = "tool"
    BY <2>9, <2>10
  <2>13. \A id \in ToSet(d) : \E k \in 1 .. n : t[i + k].callID = id
    BY <2>7, <2>9
  <2> QED
    BY <2>5, <2>6, <2>11, <2>12, <2>13 DEF Answered, n
<1>8. ASSUME NEW k \in DOMAIN t, t[k].role = "tool"
      PROVE  \E i \in 1 .. (k - 1) : HasCalls(t[i]) /\ k <= i + Len(t[i].calls)
  <2>1. PICK r \in K : Pos(r) = k /\ t[k] = m[r]
    BY <1>1
  <2>2. PICK x \in DOMAIN s : Complete(s, x) /\ r \in FirstResults(s, x)
    BY <1>4, <1>8, <2>1, KeptResult DEF K
  <2>3. x \in K
    <3>1. x \in {x} \cup FirstResults(s, x)
      OBVIOUS
    <3> QED
      BY <2>2, <3>1, KeptIs DEF K
  <2> DEFINE i == Pos(x)
             n == Len(dedupeToolCalls(s[x].calls))
             j == Rank(FirstResults(s, x), r)
  <2>4. /\ FirstResults(s, x) \in SUBSET (1 .. Len(s)) /\ Cardinality(FirstResults(s, x)) = n
        /\ k = i + (j + 1)
    BY <1>6, <2>1, <2>2, <2>3
  <2>5. j \in 0 .. (n - 1)
    BY <1>2, <2>2, <2>4, RankGrows
  <2>6. i \in DOMAIN t /\ t[i] = m[x] /\ HasCalls(t[i]) /\ Len(t[i].calls) = n
    BY <1>1, <1>4, <2>2, <2>3 DEF Complete
  <2>7. n \in Nat
    <3>1. FirstResults(s, x) \in SUBSET (1 .. Len(s))
      BY <2>4
    <3> QED
      BY <1>2, <2>4, <3>1, PositionsFinite
  <2> HIDE DEF i, j, n
  <2>8. i \in 1 .. (k - 1) /\ k <= i + n
    BY <1>5, <2>4, <2>5, <2>6, <2>7
  <2> QED
    BY <2>6, <2>8
<1> QED
  BY <1>7, <1>8 DEF Paired, t

-----------------------------------------------------------------------------
(* Putting transcripts together and thinning them out *)

\* A transcript whose calls and results may not be paired yet.
Loose(s) == s \in Seq(Message) /\ Tame(s) /\ RolesKnown(s)

\* The ids of the calls a transcript holds results of.
AllAnswered(s) == { s[k].callID : k \in { j \in DOMAIN s : s[j].role = "tool" } }

\* t is what is left of s: some of its messages in their order, with fewer calls
\* at most.
Thinned(t, s) ==
  \E src \in [DOMAIN t -> DOMAIN s] :
    /\ \A k, l \in DOMAIN t : k < l => src[k] < src[l]
    /\ \A k \in DOMAIN t :
         /\ t[k].role = s[src[k]].role /\ t[k].origin = s[src[k]].origin
         /\ t[k].callID = s[src[k]].callID /\ t[k].tag = s[src[k]].tag
         /\ HasCalls(t[k]) => HasCalls(s[src[k]])

\* What is left has known roles, well-formed messages and no new results.
LEMMA ThinnedKeeps ==
  ASSUME NEW s \in Seq(Message), NEW t \in Seq(Message), Thinned(t, s)
  PROVE  /\ Loose(s) => Loose(t)
         /\ AnsweredOnce(s) => AnsweredOnce(t)
         /\ AllAnswered(t) \subseteq AllAnswered(s)
<1>1. PICK src \in [DOMAIN t -> DOMAIN s] :
        /\ \A k, l \in DOMAIN t : k < l => src[k] < src[l]
        /\ \A k \in DOMAIN t :
             /\ t[k].role = s[src[k]].role /\ t[k].origin = s[src[k]].origin
             /\ t[k].callID = s[src[k]].callID /\ t[k].tag = s[src[k]].tag
             /\ HasCalls(t[k]) => HasCalls(s[src[k]])
  BY DEF Thinned
<1>2. \A k \in DOMAIN t : src[k] \in DOMAIN s
  OBVIOUS
<1>3. Loose(s) => Loose(t)
  BY <1>1, <1>2 DEF Loose, Tame, RolesKnown, IsInjection
<1>4. ASSUME AnsweredOnce(s) PROVE AnsweredOnce(t)
  <2> SUFFICES ASSUME NEW k \in DOMAIN t, NEW l \in DOMAIN t,
                      t[k].role = "tool", t[l].role = "tool", t[k].callID = t[l].callID
               PROVE  k = l
    BY DEF AnsweredOnce
  <2>1. src[k] = src[l]
    <3>1. /\ src[k] \in DOMAIN s /\ src[l] \in DOMAIN s
          /\ s[src[k]].role = "tool" /\ s[src[l]].role = "tool"
          /\ s[src[k]].callID = s[src[l]].callID
      BY <1>1, <1>2
    <3> QED
      BY <1>4, <3>1 DEF AnsweredOnce
  <2>2. k \in Nat /\ l \in Nat /\ src[k] \in Nat
    BY <1>2
  <2>3. ~(k < l) /\ ~(l < k)
    BY <1>1, <2>1, <2>2
  <2> QED
    BY <2>2, <2>3
<1>5. AllAnswered(t) \subseteq AllAnswered(s)
  BY <1>1, <1>2 DEF AllAnswered
<1> QED
  BY <1>3, <1>4, <1>5

\* Eviction thins a transcript out.
LEMMA EvictionThins ==
  ASSUME NEW s \in Seq(Message), NEW d \in DOMAIN s
  PROVE  Thinned(DropUnit(s, d), s)
<1> DEFINE t == DropUnit(s, d)
           src == [ k \in DOMAIN t |-> Source(s, d, k) ]
<1>1. /\ \A k \in DOMAIN t : Source(s, d, k) \in DOMAIN s /\ t[k] = s[Source(s, d, k)]
      /\ \A k, l \in DOMAIN t : k < l => Source(s, d, k) < Source(s, d, l)
  BY Eviction
<1> HIDE DEF t
<1>2. src \in [DOMAIN t -> DOMAIN s] /\ \A k \in DOMAIN t : src[k] = Source(s, d, k)
  BY <1>1
<1> HIDE DEF src
<1>3. Thinned(t, s)
  BY <1>1, <1>2 DEF Thinned
<1> QED
  BY <1>3 DEF t

\* So does repair.
LEMMA RepairThins ==
  ASSUME NEW s \in Seq(Message)
  PROVE  Thinned(repairTranscript(s), s)
<1> DEFINE t == repairTranscript(s)
           K == Kept(s)
           From(k, x) == x \in K /\ Rank(K, x) + 1 = k /\ t[k] = Merged(s)[x]
           src == [ k \in DOMAIN t |-> CHOOSE x : From(k, x) ]
<1>1. \A k \in DOMAIN t : \E x : From(k, x)
  BY RepairedFrom
<1>2. K \in SUBSET (DOMAIN s) /\ K \in SUBSET (1 .. Len(s)) /\ Len(s) \in Nat
  BY KeptPositions
<1>3. t \in Seq(Message)
  BY RepairType
<1> HIDE DEF t, K
<1>4. \A k \in DOMAIN t : From(k, src[k])
  BY <1>1
<1>5. src \in [DOMAIN t -> DOMAIN s]
  <2>1. \A k \in DOMAIN t : src[k] \in DOMAIN s
    BY <1>2, <1>4
  <2>2. src = [ k \in DOMAIN t |-> src[k] ]
    OBVIOUS
  <2> HIDE DEF src
  <2> QED
    BY <2>1, <2>2
<1> HIDE DEF src
<1>6. ASSUME NEW k \in DOMAIN t, NEW l \in DOMAIN t, k < l PROVE src[k] < src[l]
  <2>1. /\ src[k] \in K /\ Rank(K, src[k]) + 1 = k
        /\ src[l] \in K /\ Rank(K, src[l]) + 1 = l
    BY <1>4
  <2>2. /\ Rank(K, src[k]) \in Nat /\ Rank(K, src[l]) \in Nat
    BY <1>2, PositionsFinite
  <2>3. src[l] < src[k] => Rank(K, src[l]) < Rank(K, src[k])
    BY <1>2, <2>1, RankGrows
  <2>4. src[k] \in Nat /\ src[l] \in Nat
    BY <1>2, <2>1
  <2>5. src[k] # src[l]
    BY <1>6, <2>1, <2>2
  <2> QED
    BY <1>6, <2>1, <2>2, <2>3, <2>4, <2>5
<1>7. ASSUME NEW k \in DOMAIN t
      PROVE  /\ t[k].role = s[src[k]].role /\ t[k].origin = s[src[k]].origin
             /\ t[k].callID = s[src[k]].callID /\ t[k].tag = s[src[k]].tag
             /\ HasCalls(t[k]) => HasCalls(s[src[k]])
  <2>1. src[k] \in DOMAIN s /\ t[k] = Merged(s)[src[k]]
    BY <1>2, <1>4
  <2> QED
    BY <2>1, MergedIs
<1>8. Thinned(t, s)
  BY <1>5, <1>6, <1>7 DEF Thinned
<1> QED
  BY <1>8 DEF t

\* Repair keeps messages well-formed.
LEMMA RepairTame ==
  ASSUME NEW s \in Seq(Message), Tame(s)
  PROVE  Tame(repairTranscript(s))
<1> DEFINE t == repairTranscript(s)
<1>1. t \in Seq(Message)
  BY RepairType
<1>2. Thinned(t, s)
  BY RepairThins
<1> HIDE DEF t
<1>3. PICK src \in [DOMAIN t -> DOMAIN s] :
        \A k \in DOMAIN t :
          /\ t[k].role = s[src[k]].role /\ t[k].origin = s[src[k]].origin
          /\ HasCalls(t[k]) => HasCalls(s[src[k]])
  BY <1>2 DEF Thinned
<1>4. \A k \in DOMAIN t : src[k] \in DOMAIN s
  OBVIOUS
<1>5. Tame(t)
  BY <1>3, <1>4 DEF Tame, IsInjection
<1> QED
  BY <1>5 DEF t

\* Repair makes any well-formed transcript legal.
LEMMA RepairLegal ==
  ASSUME NEW s, Loose(s)
  PROVE  Legal(repairTranscript(s))
<1>1. s \in Seq(Message) /\ Tame(s)
  BY DEF Loose
<1>2. repairTranscript(s) \in Seq(Message)
  BY <1>1, RepairType
<1>3. Loose(repairTranscript(s))
  BY <1>1, <1>2, RepairThins, ThinnedKeeps
<1> QED
  BY <1>1, <1>3, RepairPairs DEF Loose, Legal

\* Evicting the first unit that may go keeps a transcript legal.
LEMMA EvictionLegal ==
  ASSUME NEW s, Legal(s), NEW d \in DOMAIN s, d = firstDroppableUnit(s)
  PROVE  Legal(DropUnit(s, d))
<1>1. s \in Seq(Message) /\ Loose(s) /\ Tame(s) /\ Paired(s)
  BY DEF Legal, Loose
<1>2. d # 0
  BY <1>1
<1>3. Evictable(s, d)
  BY <1>1, <1>2, FirstDroppable DEF Evictable
<1>4. DropUnit(s, d) \in Seq(Message)
  BY <1>1, DropUnitType
<1>5. Loose(DropUnit(s, d))
  BY <1>1, <1>4, EvictionThins, ThinnedKeeps
<1> QED
  BY <1>3, <1>5, PairsStay DEF Legal, Loose

\* Two transcripts, one behind the other.
LEMMA ConcatLoose ==
  ASSUME NEW s, NEW t, Loose(s), Loose(t)
  PROVE  /\ Loose(s \o t)
         /\ AllAnswered(s \o t) = AllAnswered(s) \cup AllAnswered(t)
         /\ AnsweredOnce(s) /\ AnsweredOnce(t) /\ AllAnswered(s) \cap AllAnswered(t) = {}
              => AnsweredOnce(s \o t)
<1> DEFINE u == s \o t
           n == Len(s)
<1>1. s \in Seq(Message) /\ t \in Seq(Message)
  BY DEF Loose
<1>2. /\ DOMAIN s = 1 .. n /\ DOMAIN t = 1 .. Len(t) /\ n \in Nat /\ Len(t) \in Nat
      /\ u \in Seq(Message)
  BY <1>1
<1>3. /\ DOMAIN u = 1 .. (n + Len(t))
      /\ \A k \in 1 .. n : u[k] = s[k]
      /\ \A k \in (n + 1) .. (n + Len(t)) : u[k] = t[k - n]
  BY <1>1, Concatenated
<1> HIDE DEF u, n
<1>4. ASSUME NEW k \in DOMAIN u
      PROVE  \/ k \in DOMAIN s /\ u[k] = s[k]
             \/ k - n \in DOMAIN t /\ u[k] = t[k - n] /\ k > n
  <2>1. CASE k <= n
    BY <1>2, <1>3, <2>1
  <2>2. CASE k > n
    <3>1. k \in (n + 1) .. (n + Len(t)) /\ k - n \in 1 .. Len(t)
      BY <1>2, <1>3, <2>2
    <3> QED
      BY <1>2, <1>3, <2>2, <3>1
  <2> QED
    BY <1>2, <1>3, <2>1, <2>2
<1>5. \A k \in DOMAIN s : k \in DOMAIN u /\ u[k] = s[k] /\ k <= n
  BY <1>2, <1>3
<1>6. ASSUME NEW k \in DOMAIN t PROVE n + k \in DOMAIN u /\ u[n + k] = t[k]
  <2>1. n + k \in (n + 1) .. (n + Len(t)) /\ (n + k) - n = k /\ n + k \in 1 .. (n + Len(t))
    BY <1>2
  <2> QED
    BY <1>3, <2>1
<1>7. Loose(u)
  <2>1. Tame(u)
    BY <1>4 DEF Loose, Tame
  <2>2. RolesKnown(u)
    BY <1>4 DEF Loose, RolesKnown
  <2> QED
    BY <1>2, <2>1, <2>2 DEF Loose
<1>8. AllAnswered(u) = AllAnswered(s) \cup AllAnswered(t)
  BY <1>4, <1>5, <1>6 DEF AllAnswered
<1>9. ASSUME AnsweredOnce(s), AnsweredOnce(t), AllAnswered(s) \cap AllAnswered(t) = {}
      PROVE  AnsweredOnce(u)
  <2> SUFFICES ASSUME NEW k \in DOMAIN u, NEW l \in DOMAIN u, u[k].role = "tool",
                      u[l].role = "tool", u[k].callID = u[l].callID
               PROVE  k = l
    BY DEF AnsweredOnce
  <2>0. k \in Nat /\ l \in Nat
    BY <1>3
  <2>1. CASE k \in DOMAIN s /\ u[k] = s[k]
    <3>1. CASE l \in DOMAIN s /\ u[l] = s[l]
      BY <1>9, <2>1, <3>1 DEF AnsweredOnce
    <3>2. CASE l - n \in DOMAIN t /\ u[l] = t[l - n] /\ l > n
      BY <1>9, <2>1, <3>2 DEF AllAnswered
    <3> QED
      BY <1>4, <3>1, <3>2
  <2>2. CASE k - n \in DOMAIN t /\ u[k] = t[k - n] /\ k > n
    <3>1. CASE l \in DOMAIN s /\ u[l] = s[l]
      BY <1>9, <2>2, <3>1 DEF AllAnswered
    <3>2. CASE l - n \in DOMAIN t /\ u[l] = t[l - n] /\ l > n
      <4>1. k - n = l - n
        BY <1>9, <2>2, <3>2 DEF AnsweredOnce
      <4> QED
        BY <1>2, <2>0, <4>1
    <3> QED
      BY <1>4, <3>1, <3>2
  <2> QED
    BY <1>4, <2>1, <2>2
<1> QED
  BY <1>7, <1>8, <1>9 DEF u

\* Legal transcripts stay legal one behind the other.
LEMMA ConcatLegal ==
  ASSUME NEW s, NEW t, Legal(s), Legal(t)
  PROVE  Legal(s \o t)
<1> DEFINE u == s \o t
           n == Len(s)
<1>1. s \in Seq(Message) /\ t \in Seq(Message) /\ Loose(s) /\ Loose(t)
  BY DEF Legal, Loose
<1>2. /\ DOMAIN s = 1 .. n /\ DOMAIN t = 1 .. Len(t) /\ n \in Nat /\ Len(t) \in Nat
  BY <1>1
<1>3. /\ DOMAIN u = 1 .. (n + Len(t)) /\ Len(u) = n + Len(t)
      /\ \A k \in 1 .. n : u[k] = s[k]
      /\ \A k \in (n + 1) .. (n + Len(t)) : u[k] = t[k - n]
  BY <1>1, Concatenated
<1>4. Loose(u)
  BY <1>1, ConcatLoose
<1> HIDE DEF u, n
<1>6. ASSUME NEW k \in 1 .. Len(t) PROVE n + k \in DOMAIN u /\ u[n + k] = t[k]
  <2>1. n + k \in (n + 1) .. (n + Len(t)) /\ (n + k) - n = k /\ n + k \in 1 .. (n + Len(t))
    BY <1>2
  <2> QED
    BY <1>3, <2>1
<1>7. ASSUME NEW i \in DOMAIN u, HasCalls(u[i]) PROVE Answered(u, i)
  <2>1. CASE i <= n
    <3>1. i \in DOMAIN s /\ u[i] = s[i] /\ i \in Nat
      BY <1>2, <1>3, <2>1
    <3>2. Answered(s, i)
      BY <1>7, <3>1 DEF Legal, Paired
    <3> DEFINE c == Len(s[i].calls)
    <3>3. c \in Nat /\ i + c <= n
      BY <1>1, <3>1, <3>2, CallsType DEF Answered, n
    <3>4. ASSUME NEW k \in 1 .. c PROVE u[i + k] = s[i + k]
      <4>1. i + k \in 1 .. n
        <5> HIDE DEF c
        <5> QED
          BY <1>2, <3>1, <3>3
      <4> QED
        BY <1>3, <4>1
    <3>5. i + c <= Len(u)
      <4> HIDE DEF c
      <4> QED
        BY <1>2, <1>3, <3>1, <3>3
    <3> QED
      BY <3>1, <3>2, <3>4, <3>5 DEF Answered
  <2>2. CASE i > n
    <3> DEFINE j == i - n
    <3>1. j \in DOMAIN t /\ i = n + j /\ j \in Nat /\ j \in 1 .. Len(t)
      BY <1>2, <1>3, <2>2
    <3> HIDE DEF j
    <3>2. u[i] = t[j]
      BY <1>6, <3>1
    <3>3. Answered(t, j)
      BY <1>7, <3>1, <3>2 DEF Legal, Paired
    <3> DEFINE c == Len(t[j].calls)
    <3>4. c \in Nat /\ j + c <= Len(t)
      BY <1>1, <3>1, <3>3, CallsType DEF Answered
    <3>5. ASSUME NEW k \in 1 .. c PROVE u[i + k] = t[j + k]
      <4>1. j + k \in 1 .. Len(t) /\ n + (j + k) = i + k
        <5> HIDE DEF c
        <5> QED
          BY <1>2, <3>1, <3>4
      <4> QED
        BY <1>6, <4>1
    <3>6. i + c <= Len(u)
      <4> HIDE DEF c
      <4> QED
        BY <1>2, <1>3, <3>1, <3>4
    <3> QED
      BY <3>2, <3>3, <3>5, <3>6 DEF Answered
  <2> QED
    BY <1>2, <1>3, <2>1, <2>2
<1>8. ASSUME NEW k \in DOMAIN u, u[k].role = "tool"
      PROVE  \E i \in 1 .. (k - 1) : HasCalls(u[i]) /\ k <= i + Len(u[i].calls)
  <2>1. CASE k <= n
    <3>1. k \in DOMAIN s /\ u[k] = s[k] /\ k \in Nat
      BY <1>2, <1>3, <2>1
    <3>2. PICK i \in 1 .. (k - 1) : HasCalls(s[i]) /\ k <= i + Len(s[i].calls)
      BY <1>8, <3>1 DEF Legal, Paired
    <3>3. i \in 1 .. n
      BY <1>2, <2>1, <3>1
    <3> QED
      BY <1>3, <3>2, <3>3
  <2>2. CASE k > n
    <3> DEFINE j == k - n
    <3>1. j \in DOMAIN t /\ k = n + j /\ j \in Nat /\ j \in 1 .. Len(t)
      BY <1>2, <1>3, <2>2
    <3> HIDE DEF j
    <3>2. u[k] = t[j]
      BY <1>6, <3>1
    <3>3. PICK i \in 1 .. (j - 1) : HasCalls(t[i]) /\ j <= i + Len(t[i].calls)
      BY <1>8, <3>1, <3>2 DEF Legal, Paired
    <3>4. i \in 1 .. Len(t) /\ i \in DOMAIN t
      BY <1>2, <3>1
    <3>5. Len(t[i].calls) \in Nat
      BY <1>1, <3>4, CallsType
    <3>6. u[n + i] = t[i]
      BY <1>6, <3>4
    <3>7. n + i \in 1 .. (k - 1) /\ k <= (n + i) + Len(t[i].calls)
      <4> DEFINE c == Len(t[i].calls)
      <4>1. c \in Nat /\ j <= i + c
        BY <3>3, <3>5
      <4> HIDE DEF c
      <4>2. n + i \in 1 .. (k - 1) /\ k <= (n + i) + c
        BY <1>2, <3>1, <4>1
      <4> QED
        BY <4>2 DEF c
    <3> QED
      BY <3>3, <3>6, <3>7
  <2> QED
    BY <1>2, <1>3, <2>1, <2>2
<1> QED
  BY <1>4, <1>7, <1>8 DEF Legal, Loose, Paired, u

\* Messages that stand alone are a legal transcript.
LEMMA PlainLegal ==
  ASSUME NEW t \in Seq(Message),
         \A k \in DOMAIN t : ~HasCalls(t[k]) /\ t[k].role \in {"system", "user", "assistant"}
  PROVE  Legal(t) /\ Loose(t) /\ AnsweredOnce(t) /\ AllAnswered(t) = {}
  BY DEF Legal, Loose, Tame, RolesKnown, Paired, AnsweredOnce, AllAnswered

\* A turn with distinct calls and a result for each, in order.
LEMMA ExchangeLegal ==
  ASSUME NEW calls \in Seq(CallIDs), IsInjective(calls), NEW t \in Seq(Message),
         Len(t) = 1 + Len(calls), t[1] = AssistantMessage(calls),
         \A k \in 1 .. Len(calls) : t[1 + k] = ToolMessage(calls[k])
  PROVE  Legal(t) /\ Loose(t) /\ AnsweredOnce(t) /\ AllAnswered(t) = ToSet(calls)
<1> DEFINE n == Len(calls)
<1>1. n \in Nat /\ DOMAIN calls = 1 .. n /\ DOMAIN t = 1 .. (1 + n)
  OBVIOUS
<1>2. /\ t[1].calls = calls /\ t[1].role = "assistant" /\ t[1].origin = "turn"
  BY DEF AssistantMessage, PlainMessage
<1>3. ASSUME NEW k \in 1 .. n
      PROVE  /\ t[1 + k].role = "tool" /\ t[1 + k].origin = "turn"
             /\ t[1 + k].calls = <<>> /\ t[1 + k].callID = calls[k] /\ 1 + k \in DOMAIN t
  <2>1. t[1 + k] = ToolMessage(calls[k])
    OBVIOUS
  <2>2. /\ ToolMessage(calls[k]).role = "tool" /\ ToolMessage(calls[k]).origin = "turn"
        /\ ToolMessage(calls[k]).calls = <<>> /\ ToolMessage(calls[k]).callID = calls[k]
    BY DEF ToolMessage, PlainMessage
  <2>3. 1 + k \in DOMAIN t
    BY <1>1
  <2> QED
    BY <2>1, <2>2, <2>3
<1>4. ASSUME NEW k \in DOMAIN t PROVE k = 1 \/ \E l \in 1 .. n : k = 1 + l
  <2>1. k # 1 => k - 1 \in 1 .. n /\ k = 1 + (k - 1)
    BY <1>1
  <2> QED
    BY <2>1
<1> HIDE DEF n
<1>5. Loose(t)
  <2>1. Tame(t)
    BY <1>2, <1>3, <1>4 DEF Tame, HasCalls, IsInjection
  <2>2. RolesKnown(t)
    BY <1>2, <1>3, <1>4 DEF RolesKnown
  <2> QED
    BY <2>1, <2>2 DEF Loose
<1>6. AllAnswered(t) = ToSet(calls)
  <2>1. ASSUME NEW id \in AllAnswered(t) PROVE id \in ToSet(calls)
    <3>1. PICK k \in DOMAIN t : t[k].role = "tool" /\ id = t[k].callID
      BY DEF AllAnswered
    <3>2. PICK l \in 1 .. n : k = 1 + l
      BY <1>2, <1>4, <3>1
    <3> QED
      BY <1>1, <1>3, <3>1, <3>2 DEF ToSet
  <2>2. ASSUME NEW id \in ToSet(calls) PROVE id \in AllAnswered(t)
    <3>1. PICK l \in 1 .. n : id = calls[l]
      BY <1>1 DEF ToSet
    <3> QED
      BY <1>3, <3>1 DEF AllAnswered
  <2> QED
    BY <2>1, <2>2
<1>7. AnsweredOnce(t)
  <2> SUFFICES ASSUME NEW k \in DOMAIN t, NEW l \in DOMAIN t, t[k].role = "tool",
                      t[l].role = "tool", t[k].callID = t[l].callID
               PROVE  k = l
    BY DEF AnsweredOnce
  <2>1. PICK a \in 1 .. n : k = 1 + a
    BY <1>2, <1>4
  <2>2. PICK b \in 1 .. n : l = 1 + b
    BY <1>2, <1>4
  <2>3. calls[a] = calls[b]
    BY <1>3, <2>1, <2>2
  <2> QED
    BY <1>1, <2>1, <2>2, <2>3 DEF IsInjective
<1>8. ASSUME NEW i \in DOMAIN t, HasCalls(t[i]) PROVE Answered(t, i)
  <2>1. i = 1
    BY <1>3, <1>4, <1>8 DEF HasCalls
  <2>2. \A id \in ToSet(calls) : \E k \in 1 .. n : t[1 + k].callID = id
    BY <1>1, <1>3 DEF ToSet
  <2> QED
    BY <1>2, <1>3, <2>1, <2>2 DEF Answered, n
<1>9. ASSUME NEW k \in DOMAIN t, t[k].role = "tool"
      PROVE  \E i \in 1 .. (k - 1) : HasCalls(t[i]) /\ k <= i + Len(t[i].calls)
  <2>1. PICK l \in 1 .. n : k = 1 + l
    BY <1>2, <1>4, <1>9
  <2>2. HasCalls(t[1])
    <3>1. n # 0
      BY <1>1, <2>1
    <3>2. calls # <<>>
      BY <3>1 DEF n
    <3> QED
      BY <1>2, <3>2 DEF HasCalls
  <2>3. 1 \in 1 .. (k - 1) /\ k <= 1 + n
    BY <1>1, <2>1
  <2> QED
    BY <1>2, <2>2, <2>3 DEF n
<1> QED
  BY <1>5, <1>6, <1>7, <1>8, <1>9 DEF Legal, Loose, Paired

-----------------------------------------------------------------------------
(* Repair does no more than it must *)

\* Picking every position changes nothing.
LEMMA PickAll ==
  ASSUME NEW T, NEW s \in Seq(T)
  PROVE  Pick(s, DOMAIN s) = s
<1> DEFINE n == Len(s)
           S == DOMAIN s
           t == Pick(s, S)
<1>1. n \in Nat /\ S = 1 .. n
  OBVIOUS
<1>2. Cardinality(1 .. n) = n
  BY <1>1, FS_Interval
<1>3. t \in Seq(T) /\ Len(t) = n
  <2>1. t \in Seq(T)
    BY PickType
  <2>2. DOMAIN t = 1 .. n
    BY <1>1, <1>2 DEF Pick
  <2> HIDE DEF t, n
  <2> QED
    BY <1>1, <2>1, <2>2
<1>4. ASSUME NEW x \in 1 .. n PROVE t[x] = s[x]
  <2>1. Rank(S, x) + 1 \in DOMAIN t /\ t[Rank(S, x) + 1] = s[x]
    BY <1>1, <1>4, PickPlaces
  <2>2. { l \in S : l < x } = 1 .. (x - 1)
    BY <1>1
  <2>3. Cardinality(1 .. (x - 1)) = x - 1
    <3>1. x - 1 \in Nat
      BY <1>1
    <3> QED
      BY <3>1, FS_Interval
  <2>4. Rank(S, x) = x - 1
    BY <2>2, <2>3 DEF Rank
  <2> QED
    BY <1>1, <2>1, <2>4
<1> HIDE DEF t
<1>5. t = s
  BY <1>1, <1>3, <1>4
<1> QED
  BY <1>5 DEF t

\* Distinct ids are left as they are.
LEMMA DedupeNothing ==
  ASSUME NEW calls \in Seq(CallIDs), IsInjective(calls)
  PROVE  dedupeToolCalls(calls) = calls
<1> DEFINE S == { k \in DOMAIN calls : \A l \in 1 .. (k - 1) : calls[l] # calls[k] }
<1>1. DOMAIN calls = 1 .. Len(calls) /\ Len(calls) \in Nat
  OBVIOUS
<1>2. ASSUME NEW k \in DOMAIN calls, NEW l \in 1 .. (k - 1) PROVE calls[l] # calls[k]
  <2>1. l \in DOMAIN calls /\ l # k
    BY <1>1
  <2> QED
    BY <2>1 DEF IsInjective
<1>3. S = DOMAIN calls
  BY <1>2
<1>4. dedupeToolCalls(calls) = Pick(calls, DOMAIN calls)
  BY <1>3 DEF dedupeToolCalls
<1> QED
  BY <1>4, PickAll

\* In a matched transcript a unit is a turn and one result for each of its calls.
LEMMA UnitMatched ==
  ASSUME NEW s, Matched(s), NEW i \in DOMAIN s, HasCalls(s[i])
  PROVE  Results(s, i) = (i + 1) .. (i + Len(s[i].calls))
<1> DEFINE c == Len(s[i].calls)
           end == i + 1 + c
<1>1. s \in Seq(Message) /\ Len(s) \in Nat /\ i \in Nat /\ i >= 1 /\ i <= Len(s)
  BY DEF Matched
<1>2. c \in Nat
  BY <1>1, CallsType
<1>3. s[i].role # "tool"
  BY DeclarerNoTool
<1>4. end \in (i + 1) .. (Len(s) + 1) /\ (end <= Len(s) => s[end].role # "tool")
  BY <1>3, NextUnit
<1>5. \A k \in (i + 1) .. (i + c) : s[k].role = "tool"
  BY SpanTools
<1> HIDE DEF c
<1>6. end - 1 = i + c
  BY <1>1, <1>2
<1> HIDE DEF end
<1>7. unitEnd(s, i) = end
  BY <1>1, <1>4, <1>5, <1>6, UnitEndIs
<1> QED
  BY <1>6, <1>7 DEF Results, c

\* Nothing of it is dropped,
LEMMA KeptAll ==
  ASSUME NEW s, Matched(s)
  PROVE  Kept(s) = DOMAIN s
<1>1. s \in Seq(Message) /\ Tame(s) /\ Paired(s) /\ Len(s) \in Nat /\ DOMAIN s = 1 .. Len(s)
  BY DEF Matched
<1>2. ASSUME NEW i \in DOMAIN s, HasCalls(s[i])
      PROVE  Complete(s, i) /\ (i + 1) .. (i + Len(s[i].calls)) \subseteq FirstResults(s, i)
  <2> DEFINE c == s[i].calls
             n == Len(c)
  <2>1. n \in Nat /\ i \in Nat
    BY <1>1, CallsType
  <2>2. Answered(s, i)
    BY <1>1, <1>2 DEF Paired
  <2>3. /\ \A k \in 1 .. n : s[i + k].callID \in ToSet(c)
        /\ \A k, l \in 1 .. n : s[i + k].callID = s[i + l].callID => k = l
    BY <1>1, <2>2, ResultsDistinct
  <2>4. Results(s, i) = (i + 1) .. (i + n)
    BY <1>2, UnitMatched
  <2>5. \A id \in ToSet(c) : \E k \in 1 .. n : s[i + k].callID = id
    BY <2>2 DEF Answered
  <2> HIDE DEF c, n
  <2>6. /\ \A k \in 1 .. n : i + k \in (i + 1) .. (i + n)
        /\ \A k \in (i + 1) .. (i + n) : k - i \in 1 .. n /\ i + (k - i) = k
    BY <2>1
  <2>7. Complete(s, i)
    <3>1. \A id \in ToSet(c) : id \in { s[k].callID : k \in Results(s, i) }
      BY <2>4, <2>5, <2>6
    <3> QED
      BY <1>2, <3>1 DEF Complete, c
  <2>8. ASSUME NEW k \in (i + 1) .. (i + n) PROVE k \in FirstResults(s, i)
    <3>1. s[k].callID \in ToSet(c)
      BY <2>3, <2>6
    <3>2. ASSUME NEW l \in (i + 1) .. (k - 1) PROVE s[l].callID # s[k].callID
      <4>1. l \in (i + 1) .. (i + n) /\ l - i # k - i
        BY <2>1
      <4> QED
        BY <2>3, <2>6, <4>1
    <3> QED
      BY <2>4, <3>1, <3>2 DEF FirstResults, c
  <2> QED
    BY <2>7, <2>8 DEF n, c
<1>3. ASSUME NEW x \in DOMAIN s PROVE x \in Kept(s)
  <2>1. CASE HasCalls(s[x])
    BY <1>1, <1>2, <2>1, KeptIs
  <2>2. CASE ~HasCalls(s[x]) /\ s[x].role # "tool"
    BY <1>1, <2>2, AloneKept
  <2>3. CASE s[x].role = "tool"
    <3>1. PICK i \in 1 .. (x - 1) : HasCalls(s[i]) /\ x <= i + Len(s[i].calls)
      BY <1>1, <2>3 DEF Paired
    <3>2. i \in DOMAIN s
      BY <1>1
    <3>3. Len(s[i].calls) \in Nat
      BY <1>1, <3>2, CallsType
    <3>4. x \in (i + 1) .. (i + Len(s[i].calls))
      BY <1>1, <3>1, <3>3
    <3>5. Complete(s, i) /\ x \in FirstResults(s, i)
      BY <1>2, <3>1, <3>2, <3>4
    <3> QED
      BY <1>1, <3>2, <3>5, KeptIs
  <2> QED
    BY <2>1, <2>2, <2>3
<1> QED
  BY <1>1, <1>3, KeptPositions

\* and no call is merged: repair leaves a matched transcript as it is.
LEMMA RepairNothing ==
  ASSUME NEW s, Matched(s)
  PROVE  repairTranscript(s) = s
<1>1. s \in Seq(Message) /\ Paired(s)
  BY DEF Matched
<1>2. ASSUME NEW i \in DOMAIN s
      PROVE  [s[i] EXCEPT !.calls = dedupeToolCalls(s[i].calls)] = s[i]
  <2>1. s[i] \in Message /\ s[i].calls \in Seq(CallIDs)
    BY <1>1, CallsType
  <2>2. IsInjective(s[i].calls)
    <3>1. CASE HasCalls(s[i])
      BY <1>1, <3>1 DEF Paired, Answered
    <3>2. CASE ~HasCalls(s[i])
      <4>1. s[i].calls = <<>>
        BY <3>2, NoCalls
      <4> QED
        BY <4>1 DEF IsInjective
    <3> QED
      BY <3>1, <3>2
  <2>3. dedupeToolCalls(s[i].calls) = s[i].calls
    BY <2>1, <2>2, DedupeNothing
  <2> QED
    BY <2>1, <2>3 DEF Message
<1>3. Merged(s) = s
  <2>1. Merged(s) = [ i \in DOMAIN s |-> s[i] ]
    BY <1>2 DEF Merged
  <2>2. s = [ i \in DOMAIN s |-> s[i] ]
    BY <1>1
  <2> QED
    BY <2>1, <2>2
<1>4. repairTranscript(s) = Pick(s, DOMAIN s)
  BY <1>3, KeptAll, RepairIs
<1> QED
  BY <1>1, <1>4, PickAll

\* Two picks of as many positions with the same elements in the same order are equal.
LEMMA PickSame ==
  ASSUME NEW T, NEW a \in Seq(T), NEW b \in Seq(T), NEW A \in SUBSET (DOMAIN a),
         NEW B \in SUBSET (DOMAIN b), NEW g \in [A -> B],
         \A y \in B : \E x \in A : g[x] = y,
         \A x, y \in A : x < y <=> g[x] < g[y],
         \A x \in A : b[g[x]] = a[x]
  PROVE  Pick(a, A) = Pick(b, B)
<1>1. /\ Len(a) \in Nat /\ DOMAIN a = 1 .. Len(a) /\ Len(b) \in Nat /\ DOMAIN b = 1 .. Len(b)
      /\ \A x \in A : x \in Nat
      /\ \A y \in B : y \in Nat
  OBVIOUS
<1>2. IsFiniteSet(A)
  BY <1>1, PositionsFinite
<1>3. \A x, y \in A : g[x] = g[y] => x = y
  <2> SUFFICES ASSUME NEW x \in A, NEW y \in A, g[x] = g[y] PROVE x = y
    OBVIOUS
  <2>1. ~(x < y) /\ ~(y < x)
    <3>1. g[x] \in Nat /\ ~(g[x] < g[x])
      BY <1>1
    <3> QED
      BY <3>1
  <2> QED
    BY <1>1, <2>1
<1>4. Cardinality(B) = Cardinality(A)
  <2>1. g \in Surjection(A, B) /\ g \in Injection(A, B)
    BY <1>3 DEF Surjection, Injection, IsInjective
  <2> QED
    BY <1>2, <2>1, FS_Surjection
<1>5. ASSUME NEW x \in A PROVE Rank(B, g[x]) = Rank(A, x)
  <2> DEFINE U == { l \in A : l < x }
             V == { l \in B : l < g[x] }
             h == [ l \in U |-> g[l] ]
  <2>1. IsFiniteSet(U)
    BY <1>1, PositionsFinite
  <2>2. h \in [U -> V]
    OBVIOUS
  <2>3. \A v \in V : \E u \in U : h[u] = v
    OBVIOUS
  <2>4. \A u, v \in U : h[u] = h[v] => u = v
    BY <1>3
  <2> HIDE DEF h, U, V
  <2>5. h \in Surjection(U, V) /\ h \in Injection(U, V)
    BY <2>2, <2>3, <2>4 DEF Surjection, Injection, IsInjective
  <2>6. Cardinality(V) = Cardinality(U)
    BY <2>1, <2>5, FS_Surjection
  <2> QED
    BY <2>6 DEF Rank, U, V
<1>6. DOMAIN Pick(a, A) = DOMAIN Pick(b, B)
  BY <1>4 DEF Pick
<1>7. ASSUME NEW k \in DOMAIN Pick(a, A) PROVE Pick(a, A)[k] = Pick(b, B)[k]
  <2>1. PICK x \in A : Rank(A, x) + 1 = k /\ Pick(a, A)[k] = a[x]
    BY PickedFrom
  <2>2. Pick(b, B)[Rank(B, g[x]) + 1] = b[g[x]]
    BY PickPlaces
  <2> QED
    BY <1>5, <2>1, <2>2
<1>8. Pick(a, A) \in Seq(T) /\ Pick(b, B) \in Seq(T)
  BY PickType
<1> QED
  BY <1>6, <1>7, <1>8

\* The positions of the messages outside tool exchanges.
Aside(s) == { i \in DOMAIN s : s[i].role # "tool" /\ ~HasCalls(s[i]) }

\* Repair keeps them, in order.
LEMMA RepairKeepsAside ==
  ASSUME NEW s \in Seq(Message)
  PROVE  Pick(repairTranscript(s), Aside(repairTranscript(s))) = Pick(s, Aside(s))
<1> DEFINE t == repairTranscript(s)
           K == Kept(s)
           A == Aside(s)
           B == Aside(t)
           g == [ x \in A |-> Rank(K, x) + 1 ]
<1>1. K \in SUBSET (DOMAIN s) /\ K \in SUBSET (1 .. Len(s)) /\ Len(s) \in Nat
  BY KeptPositions
<1>2. /\ t \in Seq(Message)
      /\ \A x \in K : Rank(K, x) + 1 \in DOMAIN t /\ t[Rank(K, x) + 1] = Merged(s)[x]
      /\ \A k \in DOMAIN t : \E x \in K : Rank(K, x) + 1 = k /\ t[k] = Merged(s)[x]
  BY RepairedFrom
<1>3. \A x \in A : x \in DOMAIN s /\ s[x].role # "tool" /\ ~HasCalls(s[x]) /\ x \in K
  BY AloneKept DEF Aside
<1>4. ASSUME NEW x \in A PROVE Merged(s)[x] = s[x]
  <2>1. s[x] \in Message /\ s[x].calls = <<>>
    BY <1>3, NoCalls
  <2>2. dedupeToolCalls(s[x].calls) = s[x].calls
    <3>1. <<>> \in Seq(CallIDs) /\ IsInjective(<<>>)
      BY DEF IsInjective
    <3> QED
      BY <2>1, <3>1, DedupeNothing
  <2>3. Merged(s)[x] = [s[x] EXCEPT !.calls = dedupeToolCalls(s[x].calls)]
    BY <1>3 DEF Merged
  <2> QED
    BY <2>1, <2>2, <2>3 DEF Message
<1> HIDE DEF t, K, A, B
<1>5. \A x \in K : s[x].role = Merged(s)[x].role /\ (HasCalls(s[x]) <=> HasCalls(Merged(s)[x]))
  BY <1>1, MergedIs
<1>6. \A x \in A : g[x] = Rank(K, x) + 1
  OBVIOUS
<1>7. g \in [A -> B]
  <2>1. ASSUME NEW x \in A PROVE Rank(K, x) + 1 \in B
    BY <1>2, <1>3, <1>4, <2>1 DEF B, Aside
  <2> QED
    BY <2>1
<1> HIDE DEF g
<1>8. \A x \in A : t[g[x]] = s[x]
  BY <1>2, <1>3, <1>4, <1>6
<1>9. ASSUME NEW y \in B PROVE \E x \in A : g[x] = y
  <2>1. y \in DOMAIN t /\ t[y].role # "tool" /\ ~HasCalls(t[y])
    BY DEF B, Aside
  <2>2. PICK x \in K : Rank(K, x) + 1 = y /\ t[y] = Merged(s)[x]
    BY <1>2, <2>1
  <2>3. x \in A
    BY <1>1, <1>5, <2>1, <2>2 DEF A, Aside
  <2> QED
    BY <1>6, <2>2, <2>3
<1>10. ASSUME NEW x \in A, NEW y \in A PROVE x < y <=> g[x] < g[y]
  <2>1. x \in K /\ y \in K /\ x \in Nat /\ y \in Nat
    BY <1>1, <1>3
  <2>2. (x < y => Rank(K, x) < Rank(K, y)) /\ (y < x => Rank(K, y) < Rank(K, x))
    BY <1>1, <2>1, RankGrows
  <2>3. Rank(K, x) \in Nat /\ Rank(K, y) \in Nat
    BY <1>1, PositionsFinite
  <2>4. x < y \/ x = y \/ y < x
    BY <2>1
  <2>5. g[x] = Rank(K, x) + 1 /\ g[y] = Rank(K, y) + 1
    BY <1>6
  <2> QED
    BY <2>2, <2>3, <2>4, <2>5
<1>11. A \in SUBSET (DOMAIN s) /\ B \in SUBSET (DOMAIN t)
  BY DEF A, B, Aside
<1>12. Pick(s, A) = Pick(t, B)
  BY <1>2, <1>7, <1>8, <1>9, <1>10, <1>11, PickSame
<1> QED
  BY <1>12 DEF t, A, B
=============================================================================

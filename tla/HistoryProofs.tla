--------------------------- MODULE HistoryProofs ---------------------------
(***************************************************************************)
(* What may be done to a history before it is sent.                        *)
(*                                                                         *)
(* Checking, repairing and translating any history: the drivers accept     *)
(* exactly what is paired, and repair makes it so at the least cost.       *)
(*                                                                         *)
(* Compaction of any history, with any token counter and budget: eviction  *)
(* is sound at every point of the loops, what is sent fits by the          *)
(* authoritative count or cannot shrink, and exchanges leave whole.        *)
(***************************************************************************)
EXTENDS Compaction, TranscriptCheck, TranscriptProofs

-----------------------------------------------------------------------------
(* Stored histories *)

\* A stored history is a well-formed transcript; only results carry images here.
HistoryInv ==
  /\ transcript \in Seq(Message) /\ Tame(transcript)
  /\ imaged \in SUBSET { i \in DOMAIN transcript : transcript[i].role = "tool" }
  /\ hinted \in SUBSET (DOMAIN transcript)

\* Every message added keeps it one.
LEMMA HistoryGrows ==
  ASSUME NEW s \in Seq(Message), Tame(s), NEW m \in Message, Tame(<<m>>)
  PROVE  LET t == Append(s, m) IN
         /\ t \in Seq(Message) /\ Tame(t) /\ DOMAIN t = DOMAIN s \cup {Len(s) + 1}
         /\ t[Len(s) + 1] = m /\ \A i \in DOMAIN s : t[i] = s[i]
<1> DEFINE t == Append(s, m)
<1>1. /\ t \in Seq(Message) /\ DOMAIN t = DOMAIN s \cup {Len(s) + 1}
      /\ t[Len(s) + 1] = m /\ \A i \in DOMAIN s : t[i] = s[i]
  OBVIOUS
<1>2. /\ HasCalls(m) => m.role = "assistant" /\ ~IsInjection(m)
      /\ IsInjection(m) => m.role # "tool"
  <2>1. 1 \in DOMAIN <<m>> /\ <<m>>[1] = m
    OBVIOUS
  <2> QED
    BY <2>1 DEF Tame
<1> HIDE DEF t
<1>3. Tame(t)
  BY <1>1, <1>2 DEF Tame
<1> QED
  BY <1>1, <1>3 DEF t

\* So histories are well-formed.
LEMMA HistoryAlways == HistorySpec => []HistoryInv
<1>1. HistoryInit => HistoryInv
  BY DEF HistoryInit, HistoryInv, Tame
<1>2. HistoryInv /\ [HistoryNext]_historyVars => HistoryInv'
  <2> SUFFICES ASSUME HistoryInv, [HistoryNext]_historyVars PROVE HistoryInv'
    OBVIOUS
  <2>1. CASE UNCHANGED historyVars
    BY <2>1 DEF historyVars, HistoryInv
  <2>2. CASE HistoryNext
    <3>1. PICK m \in History, image \in BOOLEAN, hint \in BOOLEAN :
             (image \/ hint => m.role = "tool" /\ image # hint) /\ Add(m, image, hint)
      BY <2>2 DEF HistoryNext
    <3>2. m \in Message /\ Tame(<<m>>)
      BY HistoryAssumption
    <3>3. transcript' = Append(transcript, m)
      BY <3>1 DEF Add
    <3>4. /\ transcript' \in Seq(Message) /\ Tame(transcript')
          /\ DOMAIN transcript' = DOMAIN transcript \cup {Len(transcript) + 1}
          /\ transcript'[Len(transcript) + 1] = m
          /\ \A i \in DOMAIN transcript : transcript'[i] = transcript[i]
      BY <3>2, <3>3, HistoryGrows DEF HistoryInv
    <3>5. \/ imaged' = imaged
          \/ imaged' = imaged \cup {Len(transcript) + 1} /\ m.role = "tool"
      BY <3>1 DEF Add
    <3>6. hinted' = hinted \/ hinted' = hinted \cup {Len(transcript) + 1}
      BY <3>1 DEF Add
    <3> QED
      BY <3>4, <3>5, <3>6 DEF HistoryInv
  <2> QED
    BY <2>1, <2>2
<1> QED
  BY <1>1, <1>2, PTL DEF HistorySpec

\* validateTranscript of either driver accepts exactly the histories whose calls
\* are answered one for one by the messages behind them, the Anthropic one only
\* with distinct ids: for every history of any length.
THEOREM ValidatorsAlwaysAgree == HistorySpec => []ValidatorsAgree
<1>1. HistoryInv => ValidatorsAgree
  <2> SUFFICES ASSUME HistoryInv PROVE ValidatorsAgree
    OBVIOUS
  <2>1. transcript \in Seq(Message) /\ Tame(transcript)
    BY DEF HistoryInv
  <2>2. openaiAccepts(transcript) => RolesKnown(transcript) /\ Paired(transcript)
    BY <2>1, OpenAIRefuses
  <2>3. RolesKnown(transcript) /\ Paired(transcript) => Legal(transcript)
    BY <2>1 DEF Legal
  <2>4. Legal(transcript) => openaiAccepts(transcript)
    BY OpenAIAccepts
  <2>5. anthropicAccepts(transcript) =>
          RolesKnown(transcript) /\ Paired(transcript) /\ AnsweredOnce(transcript)
    BY <2>1, AnthropicRefuses
  <2>6. Legal(transcript) /\ AnsweredOnce(transcript) => anthropicAccepts(transcript)
    BY AnthropicAccepts
  <2> QED
    BY <2>2, <2>3, <2>4, <2>5, <2>6 DEF ValidatorsAgree
<1> QED
  BY <1>1, HistoryAlways, PTL

\* repairTranscript makes every history with known roles acceptable to OpenAI's
\* check in one pass, and to Anthropic's exactly when no id is answered twice in
\* what is left; it leaves an acceptable history as it is and drops nothing
\* outside tool exchanges.
THEOREM RepairIsSound == HistorySpec => []RepairSound
<1>1. HistoryInv => RepairSound
  <2> SUFFICES ASSUME HistoryInv PROVE RepairSound
    OBVIOUS
  <2> DEFINE s == transcript
             t == repairTranscript(s)
  <2>1. s \in Seq(Message) /\ Tame(s)
    BY DEF HistoryInv
  <2> HIDE DEF s
  <2>2. t \in Seq(Message) /\ Paired(t)
    BY <2>1, RepairType, RepairPairs
  <2>3. Tame(t)
    BY <2>1, <2>2, RepairTame
  <2>4. ASSUME RolesKnown(s)
        PROVE  /\ openaiAccepts(t)
               /\ anthropicAccepts(t) <=> AnsweredOnce(t)
               /\ AnsweredOnce(s) => anthropicAccepts(t)
    <3>1. Loose(s)
      BY <2>1, <2>4 DEF Loose
    <3>2. Legal(t)
      BY <3>1, RepairLegal
    <3>3. AnsweredOnce(s) => AnsweredOnce(t)
      BY <2>1, <2>2, <3>1, RepairThins, ThinnedKeeps
    <3> HIDE DEF t
    <3>4. anthropicAccepts(t) => AnsweredOnce(t)
      BY <2>2, <2>3, AnthropicRefuses
    <3>5. AnsweredOnce(t) => anthropicAccepts(t)
      BY <3>2, AnthropicAccepts
    <3> QED
      BY <3>2, <3>3, <3>4, <3>5, OpenAIAccepts
  <2>5. repairTranscript(t) = t
    BY <2>2, <2>3, RepairNothing DEF Matched
  <2>6. openaiAccepts(s) => t = s
    BY <2>1, OpenAIRefuses, RepairNothing DEF Matched
  <2>7. Pick(t, Aside(t)) = Pick(s, Aside(s))
    BY <2>1, RepairKeepsAside
  <2> QED
    BY <2>4, <2>5, <2>6, <2>7
    DEF RepairSound, RepairMakesLegal, RepairKeepsConversation, Aside, s
<1> QED
  BY <1>1, HistoryAlways, PTL

-----------------------------------------------------------------------------
(* What is on the wire *)

\* What may stand on a wire.
WireMessage == [kind : Roles \cup {"images", "results"}, of : Seq(Nat)]

\* One step of toOpenAIMessages,
Sent(s, S, i, a) ==
  LET held == a.withImages
      flushed == IF s[i].role = "tool" THEN <<>> ELSE toolImagesMessage(held)
      left == IF s[i].role = "tool" THEN held ELSE <<>>
  IN [out |-> a.out \o flushed \o <<Wire(s[i].role, <<i>>)>>,
      withImages |-> IF s[i].role = "tool" /\ i \in S THEN Append(left, i) ELSE left]

\* one of toAnthropicMessages,
Converted(s, S, i, a) ==
  LET counted == countCacheBreakpoint(a, S, i)
      role == s[i].role
  IN CASE i = 1 /\ role = "system" -> [counted EXCEPT !.system = <<i>>]
       [] role = "tool" -> [counted EXCEPT !.converted = toToolResultMessage(@, s, i)]
       [] role # "tool" /\ ~(i = 1 /\ role = "system") ->
            [counted EXCEPT !.converted = Append(@, Wire(role, <<i>>))]

\* and one of joining sequences.
Joined(s, i, a) == a \o s[i]

\* The three loops, each from its start.
Start(loop) ==
  IF loop = "openai" THEN [out |-> <<>>, withImages |-> <<>>]
  ELSE IF loop = "anthropic"
       THEN [ok |-> TRUE, breakpoints |-> 0, system |-> <<>>, converted |-> <<>>]
       ELSE <<>>
Step(loop, s, S, i, a) ==
  IF loop = "openai" THEN Sent(s, S, i, a)
  ELSE IF loop = "anthropic" THEN Converted(s, S, i, a) ELSE Joined(s, i, a)

\* f holds the state after each of the first n steps.
Runs(f, loop, s, S, n) ==
  f = [ i \in 0 .. n |-> IF i = 0 THEN Start(loop) ELSE Step(loop, s, S, i, f[i - 1]) ]

\* There is always such an f.
LEMMA LoopExists ==
  ASSUME NEW loop, NEW s, NEW S, NEW n \in Nat
  PROVE  \E f : Runs(f, loop, s, S, n)
<1> DEFINE Value(f, i) == IF i = 0 THEN Start(loop) ELSE Step(loop, s, S, i, f[i - 1])
           Solves(f, m) == f = [ i \in 0 .. m |-> Value(f, i) ]
           P == { m \in Nat : \E f : Solves(f, m) }
<1>1. 0 \in P
  <2> DEFINE f == [ i \in 0 .. 0 |-> Start(loop) ]
  <2>1. \A i \in 0 .. 0 : i = 0 /\ f[i] = Value(f, i)
    OBVIOUS
  <2>2. f = [ i \in 0 .. 0 |-> f[i] ]
    OBVIOUS
  <2> HIDE DEF f
  <2>3. Solves(f, 0)
    BY <2>1, <2>2
  <2> QED
    BY <2>3
<1>2. ASSUME NEW m \in Nat, m \in P PROVE m + 1 \in P
  <2>1. PICK g : Solves(g, m)
    BY <1>2
  <2> DEFINE f == [ i \in 0 .. (m + 1) |-> IF i = m + 1 THEN Value(g, i) ELSE g[i] ]
  <2>2. \A i \in 0 .. m : g[i] = Value(g, i)
    BY <2>1
  <2>3. \A i \in 0 .. (m + 1) : f[i] = IF i = m + 1 THEN Value(g, i) ELSE g[i]
    OBVIOUS
  <2>4. f = [ i \in 0 .. (m + 1) |-> f[i] ]
    OBVIOUS
  <2> HIDE DEF f
  <2>5. ASSUME NEW i \in 0 .. (m + 1) PROVE f[i] = Value(f, i)
    <3>1. f[i] = Value(g, i)
      <4>1. i = m + 1 \/ i \in 0 .. m
        OBVIOUS
      <4> QED
        BY <2>2, <2>3, <4>1
    <3>2. i # 0 => f[i - 1] = g[i - 1]
      <4>1. i # 0 => i - 1 \in 0 .. (m + 1) /\ i - 1 # m + 1
        OBVIOUS
      <4> QED
        BY <2>3, <4>1
    <3> QED
      BY <3>1, <3>2
  <2>6. Solves(f, m + 1)
    BY <2>4, <2>5
  <2> QED
    BY <2>6
<1>3. Nat \subseteq P
  <2> HIDE DEF P
  <2> QED
    BY <1>1, <1>2, Induction
<1> QED
  BY <1>3 DEF Runs

\* FlattenSeq is the loop that joins.
LEMMA FlattenUnrolls ==
  ASSUME NEW T, NEW s \in Seq(Seq(T))
  PROVE  \E w \in [0 .. Len(s) -> Seq(T)] :
           /\ w[0] = <<>>
           /\ \A k \in 1 .. Len(s) : w[k] = w[k - 1] \o s[k]
           /\ w[Len(s)] = FlattenSeq(s)
<1> DEFINE n == Len(s)
           Solves(h) == h = [ i \in 1 .. n |-> IF i = 1 THEN s[i] ELSE h[i - 1] \o s[i] ]
           h == CHOOSE h : Solves(h)
           w == [ k \in 0 .. n |-> IF k = 0 THEN <<>> ELSE h[k] ]
<1>1. n \in Nat /\ \A i \in 1 .. n : s[i] \in Seq(T)
  OBVIOUS
<1>2. PICK f : Runs(f, "join", s, {}, n)
  <2> HIDE DEF n
  <2> QED
    BY <1>1, LoopExists
<1>3. \A i \in 0 .. n : f[i] = IF i = 0 THEN <<>> ELSE f[i - 1] \o s[i]
  BY <1>2 DEF Runs, Start, Step, Joined
<1> HIDE DEF n
<1>4. Solves([ i \in 1 .. n |-> f[i] ])
  <2> DEFINE g == [ i \in 1 .. n |-> f[i] ]
  <2>1. ASSUME NEW i \in 1 .. n PROVE g[i] = IF i = 1 THEN s[i] ELSE g[i - 1] \o s[i]
    <3>1. i \in 0 .. n /\ i # 0 /\ 0 \in 0 .. n /\ (i # 1 => i - 1 \in 1 .. n)
      BY <1>1
    <3>2. f[i] = f[i - 1] \o s[i]
      BY <1>3, <3>1
    <3>3. i = 1 => f[i - 1] = <<>>
      BY <1>3, <3>1
    <3>4. <<>> \o s[i] = s[i]
      BY <1>1
    <3> QED
      BY <3>1, <3>2, <3>3, <3>4
  <2>2. g = [ i \in 1 .. n |-> g[i] ]
    OBVIOUS
  <2> HIDE DEF g
  <2>3. Solves(g)
    BY <2>1, <2>2
  <2> QED
    BY <2>3 DEF g
<1>5. Solves(h)
  BY <1>4
<1>6. n # 0 => FlattenSeq(s) = h[n]
  BY DEF FlattenSeq, n
<1>7. n = 0 => FlattenSeq(s) = <<>>
  BY DEF FlattenSeq, n
<1> HIDE DEF h
<1>8. \A k \in 0 .. n : w[k] = IF k = 0 THEN <<>> ELSE h[k]
  OBVIOUS
<1>9. w = [ k \in 0 .. n |-> w[k] ]
  OBVIOUS
<1> HIDE DEF w
<1>10. ASSUME NEW k \in 1 .. n PROVE w[k] = w[k - 1] \o s[k]
  <2>1. k \in 0 .. n /\ k # 0 /\ k - 1 \in 0 .. n /\ (k - 1 = 0 <=> k = 1)
    BY <1>1
  <2>2. h[k] = IF k = 1 THEN s[k] ELSE h[k - 1] \o s[k]
    BY <1>5
  <2>3. <<>> \o s[k] = s[k]
    BY <1>1
  <2> QED
    BY <1>8, <2>1, <2>2, <2>3
<1>11. w[0] = <<>> /\ w[n] = FlattenSeq(s)
  BY <1>1, <1>6, <1>7, <1>8
<1>12. w \in [0 .. n -> Seq(T)]
  <2> DEFINE P == { k \in Nat : k <= n => w[k] \in Seq(T) }
  <2>1. 0 \in P
    <3>1. <<>> \in Seq(T)
      OBVIOUS
    <3> QED
      BY <1>11, <3>1
  <2>2. ASSUME NEW k \in Nat, k \in P PROVE k + 1 \in P
    <3> SUFFICES ASSUME k + 1 <= n PROVE w[k + 1] \in Seq(T)
      OBVIOUS
    <3>1. k + 1 \in 1 .. n /\ (k + 1) - 1 = k /\ k <= n
      BY <1>1
    <3>2. w[k + 1] = w[k] \o s[k + 1] /\ s[k + 1] \in Seq(T) /\ w[k] \in Seq(T)
      BY <1>1, <1>10, <2>2, <3>1
    <3> QED
      BY <3>2
  <2>3. Nat \subseteq P
    <3> HIDE DEF P
    <3> QED
      BY <2>1, <2>2, Induction
  <2>4. \A k \in 0 .. n : w[k] \in Seq(T)
    BY <1>1, <2>3
  <2> QED
    BY <1>9, <2>4
<1> QED
  BY <1>10, <1>11, <1>12 DEF n

\* So one more sequence joins the others at their end.
LEMMA FlattenAppend ==
  ASSUME NEW T, NEW s \in Seq(Seq(T)), NEW x \in Seq(T)
  PROVE  /\ FlattenSeq(Append(s, x)) = FlattenSeq(s) \o x
         /\ FlattenSeq(s) \in Seq(T)
<1> DEFINE n == Len(s)
           t == Append(s, x)
<1>1. /\ n \in Nat /\ t \in Seq(Seq(T)) /\ Len(t) = n + 1 /\ t[n + 1] = x
      /\ \A k \in 1 .. n : t[k] = s[k]
  OBVIOUS
<1> HIDE DEF t
<1>2. PICK w \in [0 .. n -> Seq(T)] :
        /\ w[0] = <<>>
        /\ \A k \in 1 .. n : w[k] = w[k - 1] \o s[k]
        /\ w[n] = FlattenSeq(s)
  BY FlattenUnrolls
<1>3. PICK v \in [0 .. Len(t) -> Seq(T)] :
        /\ v[0] = <<>>
        /\ \A k \in 1 .. Len(t) : v[k] = v[k - 1] \o t[k]
        /\ v[Len(t)] = FlattenSeq(t)
  BY <1>1, FlattenUnrolls
<1> HIDE DEF n
<1> DEFINE P == { k \in Nat : k <= n => v[k] = w[k] }
<1>4. 0 \in P
  BY <1>2, <1>3
<1>5. ASSUME NEW k \in Nat, k \in P PROVE k + 1 \in P
  <2> SUFFICES ASSUME k + 1 <= n PROVE v[k + 1] = w[k + 1]
    OBVIOUS
  <2>1. k + 1 \in 1 .. n /\ k + 1 \in 1 .. Len(t) /\ (k + 1) - 1 = k /\ k <= n
    BY <1>1
  <2> QED
    BY <1>1, <1>2, <1>3, <1>5, <2>1
<1>6. Nat \subseteq P
  <2> HIDE DEF P
  <2> QED
    BY <1>4, <1>5, Induction
<1>7. v[n] = w[n]
  BY <1>1, <1>6
<1>8. n + 1 \in 1 .. Len(t) /\ (n + 1) - 1 = n /\ n \in 0 .. n
  BY <1>1
<1>9. v[n + 1] = v[n] \o x
  BY <1>1, <1>3, <1>8
<1> QED
  BY <1>1, <1>2, <1>3, <1>7, <1>8, <1>9 DEF t

\* Positions of the first messages do not see a message added behind them,
LEMMA PickEarlier ==
  ASSUME NEW T, NEW s \in Seq(T), NEW x \in T, NEW S \in SUBSET (DOMAIN s)
  PROVE  Pick(Append(s, x), S) = Pick(s, S)
<1> DEFINE t == Append(s, x)
           g == [ k \in S |-> k ]
<1>1. t \in Seq(T) /\ DOMAIN s \subseteq DOMAIN t /\ \A k \in DOMAIN s : t[k] = s[k]
  OBVIOUS
<1>2. /\ g \in [S -> S] /\ \A y \in S : \E k \in S : g[k] = y
      /\ \A k \in S : g[k] = k
  OBVIOUS
<1>3. S \in SUBSET (DOMAIN t)
  BY <1>1
<1> HIDE DEF t, g
<1>4. (\A k, l \in S : k < l <=> g[k] < g[l]) /\ \A k \in S : t[g[k]] = s[k]
  BY <1>1, <1>2
<1>5. Pick(s, S) = Pick(t, S)
  BY <1>1, <1>2, <1>3, <1>4, PickSame
<1> QED
  BY <1>5 DEF t

\* and its own position comes last.
LEMMA PickLast ==
  ASSUME NEW T, NEW s \in Seq(T), NEW x \in T, NEW S \in SUBSET (DOMAIN s)
  PROVE  Pick(Append(s, x), S \cup {Len(s) + 1}) = Append(Pick(s, S), x)
<1> DEFINE t == Append(s, x)
           n == Len(s)
           S2 == S \cup {n + 1}
           p == Pick(s, S)
           q == Pick(t, S2)
           c == Cardinality(S)
<1>1. /\ t \in Seq(T) /\ n \in Nat /\ DOMAIN s = 1 .. n /\ DOMAIN t = 1 .. (n + 1)
      /\ t[n + 1] = x /\ \A k \in DOMAIN s : t[k] = s[k]
  OBVIOUS
<1> HIDE DEF t, n
<1>2. /\ S2 \in SUBSET (DOMAIN t) /\ S \in SUBSET (1 .. n) /\ S2 \in SUBSET (1 .. (n + 1))
      /\ n + 1 \notin S /\ n + 1 \in Nat
  BY <1>1
<1>3. IsFiniteSet(S) /\ c \in Nat
  BY <1>1, <1>2, PositionsFinite
<1>4. Cardinality(S2) = c + 1
  BY <1>2, <1>3, FS_AddElement
<1>5. p \in Seq(T) /\ q \in Seq(T)
  BY <1>1, <1>2, PickType
<1>6. DOMAIN p = 1 .. c /\ DOMAIN q = 1 .. (c + 1)
  BY <1>4 DEF Pick
<1> HIDE DEF p, q
<1>7. Len(p) = c /\ Len(q) = c + 1
  <2>1. Len(p) \in Nat /\ Len(q) \in Nat /\ DOMAIN p = 1 .. Len(p) /\ DOMAIN q = 1 .. Len(q)
    BY <1>5
  <2> HIDE DEF c
  <2> QED
    BY <1>3, <1>6, <2>1
<1>8. ASSUME NEW k \in S PROVE Rank(S2, k) = Rank(S, k)
  <2>1. \A l \in S2 : l < k <=> l \in S /\ l < k
    BY <1>1, <1>2
  <2>2. { l \in S2 : l < k } = { l \in S : l < k }
    BY <2>1
  <2> QED
    BY <2>2 DEF Rank
<1>9. Rank(S2, n + 1) = c
  <2>1. \A l \in S2 : l < n + 1 <=> l \in S
    BY <1>1, <1>2
  <2>2. { l \in S2 : l < n + 1 } = S
    BY <2>1
  <2> QED
    BY <2>2 DEF Rank
<1>10. ASSUME NEW k \in 1 .. (c + 1) PROVE q[k] = Append(p, x)[k]
  <2>1. PICK y \in S2 : Rank(S2, y) + 1 = k /\ q[k] = t[y]
    <3>1. k \in DOMAIN q
      BY <1>6
    <3> HIDE DEF S2
    <3> QED
      BY <1>1, <1>2, <3>1, PickedFrom DEF q
  <2>2. CASE y = n + 1
    <3>1. k = c + 1 /\ q[k] = x
      BY <1>1, <1>9, <2>1, <2>2
    <3>2. Append(p, x)[c + 1] = x
      BY <1>5, <1>7
    <3> QED
      BY <3>1, <3>2
  <2>3. CASE y \in S
    <3>1. Rank(S, y) + 1 = k /\ q[k] = s[y]
      BY <1>1, <1>2, <1>8, <2>1, <2>3
    <3>2. k \in DOMAIN p /\ p[k] = s[y]
      BY <2>3, <3>1, PickPlaces DEF p
    <3>3. Append(p, x)[k] = p[k]
      BY <1>5, <3>2
    <3> QED
      BY <3>1, <3>2, <3>3
  <2> QED
    BY <2>2, <2>3
<1>11. Append(p, x) \in Seq(T) /\ Len(Append(p, x)) = c + 1
  BY <1>5, <1>7
<1> HIDE DEF c
<1>12. q = Append(p, x)
  BY <1>3, <1>5, <1>7, <1>10, <1>11
<1> QED
  BY <1>12 DEF p, q, t, n

\* What the messages on the wire carry.
LEMMA CarriedAppend ==
  ASSUME NEW ws \in Seq(WireMessage), NEW w \in WireMessage
  PROVE  /\ Carried(Append(ws, w)) = Carried(ws) \o w.of
         /\ Carried(ws) \in Seq(Nat)
<1> DEFINE n == Len(ws)
           u == Append(ws, w)
           s == [ k \in 1 .. n |-> ws[k].of ]
           t == [ k \in 1 .. Len(u) |-> u[k].of ]
<1>1. /\ n \in Nat /\ Len(u) = n + 1 /\ u[n + 1] = w
      /\ \A k \in 1 .. n : u[k] = ws[k] /\ ws[k] \in WireMessage
  OBVIOUS
<1>2. w.of \in Seq(Nat) /\ \A k \in 1 .. n : ws[k].of \in Seq(Nat)
  BY <1>1 DEF WireMessage
<1> HIDE DEF n
<1>3. s \in Seq(Seq(Nat)) /\ Len(s) = n
  BY <1>1, <1>2
<1>4. t = Append(s, w.of)
  <2>1. \A k \in 1 .. (n + 1) : t[k] = IF k = n + 1 THEN w.of ELSE s[k]
    BY <1>1
  <2>2. t \in Seq(Seq(Nat)) /\ Len(t) = n + 1
    <3>1. \A k \in 1 .. (n + 1) : u[k].of \in Seq(Nat)
      BY <1>1, <1>2
    <3> HIDE DEF u
    <3> QED
      BY <1>1, <3>1
  <2> HIDE DEF t, s
  <2> QED
    BY <1>1, <1>2, <1>3, <2>1, <2>2
<1>5. FlattenSeq(Append(s, w.of)) = FlattenSeq(s) \o w.of /\ FlattenSeq(s) \in Seq(Nat)
  <2> HIDE DEF s
  <2> QED
    BY <1>2, <1>3, FlattenAppend
<1>6. Carried(u) = FlattenSeq(t) /\ Carried(ws) = FlattenSeq(s)
  BY DEF Carried, n
<1> QED
  BY <1>4, <1>5, <1>6

\* Where the images are, and everything else.
Images(ws) == { k \in DOMAIN ws : ws[k].kind = "images" }
Spoken(ws) == DOMAIN ws \ Images(ws)

\* A message behind the others on the wire is one more of its own sort.
LEMMA SortAppend ==
  ASSUME NEW ws \in Seq(WireMessage), NEW w \in WireMessage
  PROVE  LET u == Append(ws, w) IN
         /\ w.kind # "images" =>
              /\ Pick(u, Spoken(u)) = Append(Pick(ws, Spoken(ws)), w)
              /\ Pick(u, Images(u)) = Pick(ws, Images(ws))
         /\ w.kind = "images" =>
              /\ Pick(u, Spoken(u)) = Pick(ws, Spoken(ws))
              /\ Pick(u, Images(u)) = Append(Pick(ws, Images(ws)), w)
<1> DEFINE u == Append(ws, w)
           n == Len(ws)
<1>1. /\ n \in Nat /\ DOMAIN ws = 1 .. n /\ DOMAIN u = DOMAIN ws \cup {n + 1}
      /\ u[n + 1] = w /\ (\A k \in DOMAIN ws : u[k] = ws[k]) /\ n + 1 \notin DOMAIN ws
  OBVIOUS
<1>2. Images(ws) \in SUBSET (DOMAIN ws) /\ Spoken(ws) \in SUBSET (DOMAIN ws)
  BY DEF Images, Spoken
<1>3. /\ Pick(u, Spoken(ws)) = Pick(ws, Spoken(ws)) /\ Pick(u, Images(ws)) = Pick(ws, Images(ws))
      /\ Pick(u, Spoken(ws) \cup {n + 1}) = Append(Pick(ws, Spoken(ws)), w)
      /\ Pick(u, Images(ws) \cup {n + 1}) = Append(Pick(ws, Images(ws)), w)
  BY <1>2, PickEarlier, PickLast
<1> HIDE DEF u, n
<1>4. w.kind # "images" => Images(u) = Images(ws) /\ Spoken(u) = Spoken(ws) \cup {n + 1}
  BY <1>1 DEF Images, Spoken
<1>5. w.kind = "images" => Images(u) = Images(ws) \cup {n + 1} /\ Spoken(u) = Spoken(ws)
  BY <1>1 DEF Images, Spoken
<1> QED
  BY <1>3, <1>4, <1>5 DEF u

\* Flushing the images held back adds them and nothing else.
LEMMA Flushing ==
  ASSUME NEW ws \in Seq(WireMessage), NEW held \in Seq(Nat)
  PROVE  LET u == ws \o toolImagesMessage(held) IN
         /\ u \in Seq(WireMessage)
         /\ u = IF held = <<>> THEN ws ELSE Append(ws, Wire("images", held))
         /\ Pick(u, Spoken(u)) = Pick(ws, Spoken(ws))
         /\ Carried(Pick(u, Images(u))) = Carried(Pick(ws, Images(ws))) \o held
<1> DEFINE w == Wire("images", held)
           v == Append(ws, w)
<1>1. w \in WireMessage /\ w.kind = "images" /\ w.of = held
  BY DEF Wire, WireMessage
<1>2. Images(ws) \in SUBSET (DOMAIN ws)
  BY DEF Images
<1>3. Pick(ws, Images(ws)) \in Seq(WireMessage)
  BY <1>2, PickType
<1> HIDE DEF w
<1>4. Carried(Pick(ws, Images(ws))) \in Seq(Nat)
  BY <1>1, <1>3, CarriedAppend
<1>5. CASE held = <<>>
  <2>1. ws \o toolImagesMessage(held) = ws
    BY <1>5 DEF toolImagesMessage
  <2>2. Carried(Pick(ws, Images(ws))) \o <<>> = Carried(Pick(ws, Images(ws)))
    BY <1>4
  <2> QED
    BY <1>5, <2>1, <2>2
<1>6. CASE held # <<>>
  <2>1. ws \o toolImagesMessage(held) = v
    <3>1. toolImagesMessage(held) = <<w>>
      BY <1>6 DEF toolImagesMessage, w
    <3> QED
      BY <1>1, <3>1
  <2>2. /\ Pick(v, Spoken(v)) = Pick(ws, Spoken(ws))
        /\ Pick(v, Images(v)) = Append(Pick(ws, Images(ws)), w)
    BY <1>1, SortAppend
  <2>3. Carried(Append(Pick(ws, Images(ws)), w)) = Carried(Pick(ws, Images(ws))) \o held
    BY <1>1, <1>3, CarriedAppend
  <2>4. v \in Seq(WireMessage)
    BY <1>1
  <2> HIDE DEF v
  <2> QED
    BY <1>6, <2>1, <2>2, <2>3, <2>4 DEF v, w
<1> QED
  BY <1>5, <1>6

\* The messages as they are sent, and their positions.
Turns(s, i) == [ j \in 1 .. i |-> Wire(s[j].role, <<j>>) ]
UpTo(i) == [ j \in 1 .. i |-> j ]

\* Images stand behind a run of results, and every other message is followed by the
\* result that follows it in s.
Placed(s, i, ws) ==
  /\ i = 0 => ws = <<>>
  /\ i # 0 => Len(ws) >= 1 /\ ws[Len(ws)] = Wire(s[i].role, <<i>>)
  /\ \A k \in Images(ws) : /\ k > 1 /\ k < Len(ws)
                           /\ ws[k - 1].kind = "tool" /\ ws[k + 1].kind # "tool"
  /\ \A k \in Spoken(ws) : \E j \in 1 .. i :
        /\ ws[k] = Wire(s[j].role, <<j>>)
        /\ j = i => k = Len(ws)
        /\ j < i => k < Len(ws) /\ (s[j + 1].role = "tool"
                              => ws[k + 1] = Wire("tool", <<j + 1>>))

\* Messages have roles.
LEMMA RoleKnown ==
  ASSUME NEW s \in Seq(Message), NEW i \in DOMAIN s
  PROVE  s[i].role \in Roles
<1>1. s[i] \in Message
  OBVIOUS
<1> QED
  BY <1>1 DEF Message

\* The next message keeps it so,
LEMMA PlacedNext ==
  ASSUME NEW s \in Seq(Message), NEW i \in Nat, i + 1 \in DOMAIN s,
         NEW ws \in Seq(WireMessage), Placed(s, i, ws)
  PROVE  Placed(s, i + 1, Append(ws, Wire(s[i + 1].role, <<i + 1>>)))
<1> DEFINE w == Wire(s[i + 1].role, <<i + 1>>)
           u == Append(ws, w)
           n == Len(ws)
<1>1. s[i + 1].role \in Roles
  BY RoleKnown
<1>2. w \in WireMessage /\ w.kind = s[i + 1].role /\ w.kind # "images"
  BY <1>1 DEF Wire, WireMessage, Roles
<1> HIDE DEF w
<1>3. /\ n \in Nat /\ DOMAIN ws = 1 .. n /\ DOMAIN u = 1 .. (n + 1) /\ Len(u) = n + 1
      /\ u[n + 1] = w /\ (\A k \in 1 .. n : u[k] = ws[k])
  BY <1>2
<1> HIDE DEF u, n
<1>4. ASSUME NEW k \in Images(u)
      PROVE  k > 1 /\ k < Len(u) /\ u[k - 1].kind = "tool" /\ u[k + 1].kind # "tool"
  <2>1. k \in 1 .. (n + 1) /\ k # n + 1 /\ u[k].kind = "images"
    BY <1>2, <1>3 DEF Images
  <2>2. k \in 1 .. n /\ u[k] = ws[k]
    BY <1>3, <2>1
  <2>3. k \in Images(ws)
    BY <1>3, <2>1, <2>2 DEF Images
  <2>4. k > 1 /\ k < n /\ ws[k - 1].kind = "tool" /\ ws[k + 1].kind # "tool"
    BY <2>3 DEF Placed, n
  <2>5. k - 1 \in 1 .. n /\ k + 1 \in 1 .. n
    BY <1>3, <2>2, <2>4
  <2> QED
    BY <1>3, <2>2, <2>4, <2>5
<1>5. ASSUME NEW k \in Spoken(u)
      PROVE  \E j \in 1 .. (i + 1) :
               /\ u[k] = Wire(s[j].role, <<j>>)
               /\ j = i + 1 => k = Len(u)
               /\ j < i + 1 => k < Len(u) /\ (s[j + 1].role = "tool"
                                        => u[k + 1] = Wire("tool", <<j + 1>>))
  <2>1. k \in 1 .. (n + 1) /\ u[k].kind # "images"
    BY <1>3 DEF Spoken, Images
  <2>2. CASE k = n + 1
    <3>1. i + 1 \in 1 .. (i + 1) /\ u[k] = w /\ k = Len(u) /\ ~(i + 1 < i + 1)
      BY <1>3, <2>2
    <3> QED
      BY <3>1 DEF w
  <2>3. CASE k # n + 1
    <3>1. k \in 1 .. n /\ u[k] = ws[k]
      BY <1>3, <2>1, <2>3
    <3>2. k \in Spoken(ws)
      BY <1>3, <2>1, <3>1 DEF Spoken, Images
    <3>3. PICK j \in 1 .. i :
            /\ ws[k] = Wire(s[j].role, <<j>>)
            /\ j = i => k = n
            /\ j < i => k < n /\ (s[j + 1].role = "tool" => ws[k + 1] = Wire("tool", <<j + 1>>))
      BY <3>2 DEF Placed, n
    <3>4. j \in 1 .. (i + 1) /\ j # i + 1 /\ k < Len(u)
      BY <1>3, <3>1
    <3>5. s[j + 1].role = "tool" => u[k + 1] = Wire("tool", <<j + 1>>)
      <4>1. CASE j = i
        BY <1>3, <3>3, <4>1 DEF w
      <4>2. CASE j # i
        <5>1. j < i
          BY <4>2
        <5>2. k + 1 \in 1 .. n
          BY <1>3, <3>1, <3>3, <5>1
        <5> QED
          BY <1>3, <3>3, <5>1, <5>2
      <4> QED
        BY <4>1, <4>2
    <3> QED
      BY <3>1, <3>3, <3>4, <3>5
  <2> QED
    BY <2>2, <2>3
<1>6. i + 1 # 0 /\ Len(u) >= 1 /\ u[Len(u)] = w
  BY <1>3
<1>7. Placed(s, i + 1, u)
  BY <1>4, <1>5, <1>6 DEF Placed, w
<1> QED
  BY <1>7 DEF u, w

\* also when the images of the run before it come first.
LEMMA PlacedBehindImages ==
  ASSUME NEW s \in Seq(Message), NEW i \in Nat, i + 1 \in DOMAIN s,
         NEW ws \in Seq(WireMessage), Placed(s, i, ws), NEW held \in Seq(Nat),
         i # 0, s[i].role = "tool", s[i + 1].role # "tool"
  PROVE  Placed(s, i + 1, Append(Append(ws, Wire("images", held)),
                                 Wire(s[i + 1].role, <<i + 1>>)))
<1> DEFINE w == Wire(s[i + 1].role, <<i + 1>>)
           v == Wire("images", held)
           u == Append(Append(ws, v), w)
           n == Len(ws)
<1>1. s[i + 1].role \in Roles
  BY RoleKnown
<1>2. w \in WireMessage /\ w.kind = s[i + 1].role /\ w.kind # "images"
  BY <1>1 DEF Wire, WireMessage, Roles
<1>3. v \in WireMessage /\ v.kind = "images"
  BY DEF Wire, WireMessage
<1> HIDE DEF w, v
<1>4. /\ n \in Nat /\ DOMAIN ws = 1 .. n /\ DOMAIN u = 1 .. (n + 2) /\ Len(u) = n + 2
      /\ u[n + 2] = w /\ u[n + 1] = v /\ (\A k \in 1 .. n : u[k] = ws[k])
  BY <1>2, <1>3
<1> HIDE DEF u, n
<1>5. n >= 1 /\ ws[n].kind = "tool"
  BY DEF Placed, Wire, n
<1>6. ASSUME NEW k \in Images(u)
      PROVE  k > 1 /\ k < Len(u) /\ u[k - 1].kind = "tool" /\ u[k + 1].kind # "tool"
  <2>1. k \in 1 .. (n + 2) /\ k # n + 2 /\ u[k].kind = "images"
    BY <1>2, <1>4 DEF Images
  <2>2. CASE k = n + 1
    <3>1. k - 1 = n /\ k + 1 = n + 2 /\ n \in 1 .. n /\ k > 1 /\ k < Len(u)
      BY <1>4, <1>5, <2>2
    <3> QED
      BY <1>2, <1>4, <1>5, <3>1
  <2>3. CASE k # n + 1
    <3>1. k \in 1 .. n /\ u[k] = ws[k]
      BY <1>4, <2>1, <2>3
    <3>2. k \in Images(ws)
      BY <1>4, <2>1, <3>1 DEF Images
    <3>3. k > 1 /\ k < n /\ ws[k - 1].kind = "tool" /\ ws[k + 1].kind # "tool"
      BY <3>2 DEF Placed, n
    <3>4. k - 1 \in 1 .. n /\ k + 1 \in 1 .. n
      BY <1>4, <3>1, <3>3
    <3> QED
      BY <1>4, <3>1, <3>3, <3>4
  <2> QED
    BY <2>2, <2>3
<1>7. ASSUME NEW k \in Spoken(u)
      PROVE  \E j \in 1 .. (i + 1) :
               /\ u[k] = Wire(s[j].role, <<j>>)
               /\ j = i + 1 => k = Len(u)
               /\ j < i + 1 => k < Len(u) /\ (s[j + 1].role = "tool"
                                        => u[k + 1] = Wire("tool", <<j + 1>>))
  <2>1. k \in 1 .. (n + 2) /\ u[k].kind # "images" /\ k # n + 1
    BY <1>3, <1>4 DEF Spoken, Images
  <2>2. CASE k = n + 2
    <3>1. i + 1 \in 1 .. (i + 1) /\ u[k] = w /\ k = Len(u) /\ ~(i + 1 < i + 1)
      BY <1>4, <2>2
    <3> QED
      BY <3>1 DEF w
  <2>3. CASE k # n + 2
    <3>1. k \in 1 .. n /\ u[k] = ws[k]
      BY <1>4, <2>1, <2>3
    <3>2. k \in Spoken(ws)
      BY <1>4, <2>1, <3>1 DEF Spoken, Images
    <3>3. PICK j \in 1 .. i :
            /\ ws[k] = Wire(s[j].role, <<j>>)
            /\ j < i => k < n /\ (s[j + 1].role = "tool" => ws[k + 1] = Wire("tool", <<j + 1>>))
      BY <3>2 DEF Placed, n
    <3>4. j \in 1 .. (i + 1) /\ j # i + 1 /\ k < Len(u)
      BY <1>4, <3>1
    <3>5. s[j + 1].role = "tool" => u[k + 1] = Wire("tool", <<j + 1>>)
      <4>1. CASE j = i
        BY <4>1
      <4>2. CASE j # i
        <5>1. j < i
          BY <4>2
        <5>2. k + 1 \in 1 .. n
          BY <1>4, <3>1, <3>3, <5>1
        <5> QED
          BY <1>4, <3>3, <5>1, <5>2
      <4> QED
        BY <4>1, <4>2
    <3> QED
      BY <3>1, <3>3, <3>4, <3>5
  <2> QED
    BY <2>2, <2>3
<1>8. i + 1 # 0 /\ Len(u) >= 1 /\ u[Len(u)] = w
  BY <1>4
<1>9. Placed(s, i + 1, u)
  BY <1>6, <1>7, <1>8 DEF Placed, w
<1> QED
  BY <1>9 DEF u, w, v

\* What toOpenAIMessages has sent, and holds back, after i messages.
SentInv(s, S, i, a) ==
  /\ a.out \in Seq(WireMessage) /\ a.withImages \in Seq(Nat)
  /\ Pick(a.out, Spoken(a.out)) = Turns(s, i)
  /\ Carried(Pick(a.out, Images(a.out))) \o a.withImages = Pick(UpTo(i), S \cap (1 .. i))
  /\ a.withImages # <<>> => i # 0 /\ s[i].role = "tool"
  /\ Placed(s, i, a.out)

\* Positions, and the messages at them, one by one.
LEMMA UpToNext ==
  ASSUME NEW s \in Seq(Message), NEW i \in Nat, i + 1 \in DOMAIN s, NEW S
  PROVE  /\ UpTo(i) \in Seq(Nat) /\ UpTo(i + 1) = Append(UpTo(i), i + 1)
         /\ Turns(s, i) \in Seq(WireMessage)
         /\ Turns(s, i + 1) = Append(Turns(s, i), Wire(s[i + 1].role, <<i + 1>>))
         /\ Pick(UpTo(i), S \cap (1 .. i)) \in Seq(Nat)
         /\ Pick(UpTo(i + 1), S \cap (1 .. (i + 1))) =
              IF i + 1 \in S THEN Append(Pick(UpTo(i), S \cap (1 .. i)), i + 1)
              ELSE Pick(UpTo(i), S \cap (1 .. i))
<1>1. /\ UpTo(i) \in Seq(Nat) /\ Len(UpTo(i)) = i /\ DOMAIN UpTo(i) = 1 .. i
      /\ UpTo(i + 1) \in Seq(Nat) /\ Len(UpTo(i + 1)) = i + 1
      /\ (\A k \in 1 .. i : UpTo(i)[k] = k) /\ \A k \in 1 .. (i + 1) : UpTo(i + 1)[k] = k
  BY DEF UpTo
<1>2. UpTo(i + 1) = Append(UpTo(i), i + 1)
  BY <1>1
<1>3. \A k \in 1 .. (i + 1) : Wire(s[k].role, <<k>>) \in WireMessage
  <2> SUFFICES ASSUME NEW k \in 1 .. (i + 1) PROVE Wire(s[k].role, <<k>>) \in WireMessage
    OBVIOUS
  <2>1. k \in DOMAIN s /\ k \in Nat
    OBVIOUS
  <2>2. s[k].role \in Roles
    BY <2>1, RoleKnown
  <2> QED
    BY <2>1, <2>2 DEF Wire, WireMessage
<1>4. /\ Turns(s, i) \in Seq(WireMessage) /\ Len(Turns(s, i)) = i
      /\ Turns(s, i + 1) \in Seq(WireMessage) /\ Len(Turns(s, i + 1)) = i + 1
      /\ \A k \in 1 .. i : Turns(s, i)[k] = Wire(s[k].role, <<k>>)
      /\ \A k \in 1 .. (i + 1) : Turns(s, i + 1)[k] = Wire(s[k].role, <<k>>)
  <2>1. \A k \in 1 .. i : Wire(s[k].role, <<k>>) \in WireMessage
    <3>1. \A k \in 1 .. i : k \in 1 .. (i + 1)
      OBVIOUS
    <3> QED
      BY <1>3, <3>1
  <2> QED
    BY <1>3, <2>1 DEF Turns
<1>5. Turns(s, i + 1) = Append(Turns(s, i), Wire(s[i + 1].role, <<i + 1>>))
  <2> DEFINE t == Turns(s, i)
             u == Turns(s, i + 1)
             w == Wire(s[i + 1].role, <<i + 1>>)
  <2>1. w \in WireMessage /\ u[i + 1] = w
    <3>1. i + 1 \in 1 .. (i + 1)
      OBVIOUS
    <3> QED
      BY <1>3, <1>4, <3>1
  <2>2. /\ t \in Seq(WireMessage) /\ Len(t) = i /\ u \in Seq(WireMessage) /\ Len(u) = i + 1
        /\ \A k \in 1 .. i : u[k] = t[k]
    <3>1. \A k \in 1 .. i : k \in 1 .. (i + 1)
      OBVIOUS
    <3> QED
      BY <1>4, <3>1
  <2> HIDE DEF t, u, w
  <2>3. u = Append(t, w)
    BY <2>1, <2>2
  <2> QED
    BY <2>3 DEF t, u, w
<1> DEFINE A == S \cap (1 .. i)
<1>6. A \in SUBSET (DOMAIN UpTo(i))
  BY <1>1
<1>7. S \cap (1 .. (i + 1)) = IF i + 1 \in S THEN A \cup {i + 1} ELSE A
  OBVIOUS
<1> HIDE DEF A
<1>8. /\ Pick(UpTo(i), A) \in Seq(Nat)
      /\ Pick(Append(UpTo(i), i + 1), A) = Pick(UpTo(i), A)
      /\ Pick(Append(UpTo(i), i + 1), A \cup {i + 1}) = Append(Pick(UpTo(i), A), i + 1)
  <2> DEFINE p == UpTo(i)
  <2>1. p \in Seq(Nat) /\ Len(p) + 1 = i + 1 /\ A \in SUBSET (DOMAIN p) /\ i + 1 \in Nat
    BY <1>1, <1>6
  <2> HIDE DEF p
  <2>2. Pick(p, A) \in Seq(Nat)
    BY <2>1, PickType
  <2>3. Pick(Append(p, i + 1), A) = Pick(p, A)
    BY <2>1, PickEarlier
  <2>4. Pick(Append(p, i + 1), A \cup {Len(p) + 1}) = Append(Pick(p, A), i + 1)
    BY <2>1, PickLast
  <2> QED
    BY <2>1, <2>2, <2>3, <2>4 DEF p
<1> QED
  BY <1>1, <1>2, <1>4, <1>5, <1>7, <1>8 DEF A

\* Every message keeps it.
LEMMA SentStep ==
  ASSUME NEW s \in Seq(Message), NEW S, NEW i \in Nat, i + 1 \in DOMAIN s,
         \A k \in S : s[k].role = "tool", NEW a, SentInv(s, S, i, a)
  PROVE  SentInv(s, S, i + 1, Sent(s, S, i + 1, a))
<1> DEFINE m == s[i + 1]
           w == Wire(m.role, <<i + 1>>)
           held == a.withImages
           tool == m.role = "tool"
           mid == IF tool THEN a.out ELSE a.out \o toolImagesMessage(held)
           left == IF tool THEN held ELSE <<>>
           out == Append(mid, w)
           next == IF i + 1 \in S THEN Append(left, i + 1) ELSE left
<1>1. a.out \in Seq(WireMessage) /\ held \in Seq(Nat)
  BY DEF SentInv
<1>2. w \in WireMessage /\ w.kind # "images"
  <2>1. m.role \in Roles
    BY RoleKnown
  <2> HIDE DEF m
  <2> QED
    BY <2>1 DEF Wire, WireMessage, Roles
<1> HIDE DEF w
<1>3. Sent(s, S, i + 1, a) = [out |-> out, withImages |-> next]
  <2>1. a.out \o <<>> \o <<w>> = Append(a.out, w)
    BY <1>1, <1>2
  <2>2. a.out \o toolImagesMessage(held) \o <<w>> = Append(a.out \o toolImagesMessage(held), w)
    <3> DEFINE u == a.out \o toolImagesMessage(held)
    <3>1. u \in Seq(WireMessage)
      BY <1>1, Flushing
    <3> HIDE DEF u
    <3>2. u \o <<w>> = Append(u, w)
      BY <1>2, <3>1
    <3> QED
      BY <3>2 DEF u
  <2>3. tool /\ i + 1 \in S <=> i + 1 \in S
    OBVIOUS
  <2> QED
    BY <2>1, <2>2, <2>3 DEF Sent, w
<1>4. /\ mid \in Seq(WireMessage) /\ left \in Seq(Nat)
      /\ Pick(mid, Spoken(mid)) = Turns(s, i)
      /\ Carried(Pick(mid, Images(mid))) \o left = Pick(UpTo(i), S \cap (1 .. i))
  <2>1. CASE tool
    BY <1>1, <2>1 DEF SentInv
  <2>2. CASE ~tool
    <3> DEFINE u == a.out \o toolImagesMessage(held)
    <3>1. /\ u \in Seq(WireMessage) /\ Pick(u, Spoken(u)) = Turns(s, i)
          /\ Carried(Pick(u, Images(u))) = Pick(UpTo(i), S \cap (1 .. i))
      BY <1>1, Flushing DEF SentInv
    <3>2. Pick(UpTo(i), S \cap (1 .. i)) \o <<>> = Pick(UpTo(i), S \cap (1 .. i))
      <4>1. Pick(UpTo(i), S \cap (1 .. i)) \in Seq(Nat)
        BY UpToNext
      <4> QED
        BY <4>1
    <3>3. mid = u /\ left = <<>>
      BY <2>2
    <3>4. <<>> \in Seq(Nat)
      OBVIOUS
    <3> HIDE DEF u, mid, left
    <3> QED
      BY <3>1, <3>2, <3>3, <3>4
  <2> QED
    BY <2>1, <2>2
<1>5. Placed(s, i + 1, out)
  <2>1. CASE tool \/ held = <<>>
    <3>1. mid = a.out
      BY <1>1, <2>1, Flushing
    <3> QED
      BY <1>1, <3>1, PlacedNext DEF SentInv, w
  <2>2. CASE ~tool /\ held # <<>>
    <3>1. mid = Append(a.out, Wire("images", held))
      BY <1>1, <2>2, Flushing
    <3>2. i # 0 /\ s[i].role = "tool" /\ Placed(s, i, a.out)
      BY <2>2 DEF SentInv
    <3> QED
      BY <1>1, <2>2, <3>1, <3>2, PlacedBehindImages DEF w
  <2> QED
    BY <2>1, <2>2
<1> HIDE DEF mid
<1>6. /\ Pick(out, Spoken(out)) = Append(Turns(s, i), w)
      /\ Pick(out, Images(out)) = Pick(mid, Images(mid)) /\ out \in Seq(WireMessage)
  BY <1>2, <1>4, SortAppend
<1>7. Append(Turns(s, i), w) = Turns(s, i + 1)
  BY UpToNext DEF w
<1>8. next \in Seq(Nat)
  BY <1>4
<1>9. Carried(Pick(out, Images(out))) \o next = Pick(UpTo(i + 1), S \cap (1 .. (i + 1)))
  <2> DEFINE c == Carried(Pick(mid, Images(mid)))
  <2>1. c \in Seq(Nat)
    <3>1. Images(mid) \in SUBSET (DOMAIN mid)
      BY DEF Images
    <3>2. Pick(mid, Images(mid)) \in Seq(WireMessage)
      BY <1>4, <3>1, PickType
    <3> QED
      BY <1>2, <3>2, CarriedAppend
  <2> HIDE DEF c, left
  <2>2. c \o Append(left, i + 1) = Append(c \o left, i + 1)
    BY <1>4, <2>1
  <2>3. c \o left = Pick(UpTo(i), S \cap (1 .. i))
    BY <1>4 DEF c
  <2> QED
    BY <1>6, <2>2, <2>3, UpToNext DEF c
<1>10. next # <<>> => tool
  <2>1. ~tool => i + 1 \notin S
    OBVIOUS
  <2> QED
    BY <2>1
<1> HIDE DEF out, next, tool
<1> DEFINE b == [out |-> out, withImages |-> next]
<1>11. b.out = out /\ b.withImages = next
  OBVIOUS
<1>12. i + 1 # 0 /\ (tool <=> s[i + 1].role = "tool")
  BY DEF tool
<1> HIDE DEF b
<1>13. SentInv(s, S, i + 1, b)
  BY <1>5, <1>6, <1>7, <1>8, <1>9, <1>10, <1>11, <1>12 DEF SentInv
<1> QED
  BY <1>3, <1>13 DEF b

\* toOpenAIMessages is the loop over these steps.
LEMMA OpenAILoop ==
  ASSUME NEW s \in Seq(Message), NEW S
  PROVE  \E f : /\ f[0] = Start("openai")
                /\ \A i \in 1 .. Len(s) : f[i] = Sent(s, S, i, f[i - 1])
                /\ toOpenAIMessages(s, S)
                     = f[Len(s)].out \o toolImagesMessage(f[Len(s)].withImages)
<1> DEFINE Solves(g) == g = [ i \in 0 .. Len(s) |->
                                IF i = 0 THEN [out |-> <<>>, withImages |-> <<>>]
                                ELSE Sent(s, S, i, g[i - 1]) ]
           f == CHOOSE g : Solves(g)
<1>1. Len(s) \in Nat
  OBVIOUS
<1>2. PICK g : Runs(g, "openai", s, S, Len(s))
  BY <1>1, LoopExists
<1>3. Solves(g)
  BY <1>2 DEF Runs, Start, Step
<1>4. Solves(f)
  BY <1>3
<1>5. toOpenAIMessages(s, S) = f[Len(s)].out \o toolImagesMessage(f[Len(s)].withImages)
  BY DEF toOpenAIMessages, Sent
<1> HIDE DEF f
<1>6. f[0] = Start("openai") /\ \A i \in 1 .. Len(s) : f[i] = Sent(s, S, i, f[i - 1])
  <2>1. \A i \in 0 .. Len(s) : f[i] = IF i = 0 THEN [out |-> <<>>, withImages |-> <<>>]
                                     ELSE Sent(s, S, i, f[i - 1])
    BY <1>4
  <2>2. 0 \in 0 .. Len(s) /\ \A i \in 1 .. Len(s) : i \in 0 .. Len(s) /\ i # 0
    BY <1>1
  <2> QED
    BY <2>1, <2>2 DEF Start
<1> QED
  BY <1>5, <1>6

\* So the whole transcript is sent that way.
LEMMA OpenAISends ==
  ASSUME NEW s \in Seq(Message), NEW S, \A k \in S : s[k].role = "tool"
  PROVE  \E a : /\ SentInv(s, S, Len(s), a)
                /\ toOpenAIMessages(s, S) = a.out \o toolImagesMessage(a.withImages)
<1>1. PICK f : /\ f[0] = Start("openai")
               /\ \A i \in 1 .. Len(s) : f[i] = Sent(s, S, i, f[i - 1])
               /\ toOpenAIMessages(s, S) = f[Len(s)].out
                    \o toolImagesMessage(f[Len(s)].withImages)
  BY OpenAILoop
<1> DEFINE P == { i \in Nat : i <= Len(s) => SentInv(s, S, i, f[i]) }
<1>2. Len(s) \in Nat /\ DOMAIN s = 1 .. Len(s)
  OBVIOUS
<1>3. 0 \in P
  <2> DEFINE a == [out |-> <<>>, withImages |-> <<>>]
  <2>1. a.out = <<>> /\ a.withImages = <<>> /\ f[0] = a
    BY <1>1 DEF Start
  <2> HIDE DEF a
  <2>2. <<>> \in Seq(WireMessage) /\ <<>> \in Seq(Nat) /\ DOMAIN <<>> = {}
    OBVIOUS
  <2>3. Images(<<>>) = {} /\ Spoken(<<>>) = {}
    BY <2>2 DEF Images, Spoken
  <2>4. \A t : Pick(t, {}) = <<>>
    <3>1. Cardinality({}) = 0
      BY FS_EmptySet
    <3> QED
      BY <3>1 DEF Pick
  <2>5. Turns(s, 0) = <<>>
    BY DEF Turns
  <2>6. Carried(<<>>) \o <<>> = <<>>
    BY DEF Carried, FlattenSeq
  <2>7. S \cap (1 .. 0) = {}
    OBVIOUS
  <2>8. Placed(s, 0, <<>>)
    BY <2>3 DEF Placed
  <2>9. SentInv(s, S, 0, a)
    BY <2>1, <2>2, <2>3, <2>4, <2>5, <2>6, <2>7, <2>8 DEF SentInv
  <2> QED
    BY <2>1, <2>9
<1>4. ASSUME NEW i \in Nat, i \in P PROVE i + 1 \in P
  <2> SUFFICES ASSUME i + 1 <= Len(s) PROVE SentInv(s, S, i + 1, f[i + 1])
    OBVIOUS
  <2>1. i <= Len(s) /\ i + 1 \in DOMAIN s /\ i + 1 \in 1 .. Len(s) /\ (i + 1) - 1 = i
    BY <1>2
  <2>2. SentInv(s, S, i, f[i]) /\ f[i + 1] = Sent(s, S, i + 1, f[i])
    BY <1>1, <1>4, <2>1
  <2> QED
    BY <2>1, <2>2, SentStep
<1>5. Nat \subseteq P
  <2> HIDE DEF P
  <2> QED
    BY <1>3, <1>4, Induction
<1>6. SentInv(s, S, Len(s), f[Len(s)])
  BY <1>2, <1>5
<1> QED
  BY <1>1, <1>6

\* A message on the wire names one position.
LEMMA WireOne ==
  ASSUME NEW r, NEW j
  PROVE  Wire(r, <<j>>).kind = r /\ Wire(r, <<j>>).of[1] = j
<1> DEFINE a == <<j>>
<1>1. a[1] = j
  OBVIOUS
<1> HIDE DEF a
<1>2. Wire(r, a).kind = r /\ Wire(r, a).of = a
  BY DEF Wire
<1> QED
  BY <1>1, <1>2 DEF a

\* The results of a turn follow it on the wire, one by one.
LEMMA ResultsBehind ==
  ASSUME NEW s, Matched(s), NEW ws \in Seq(WireMessage), Placed(s, Len(s), ws),
         NEW k \in Spoken(ws), NEW j \in DOMAIN s, ws[k] = Wire(s[j].role, <<j>>),
         HasCalls(s[j])
  PROVE  \A m \in 1 .. Len(s[j].calls) :
           k + m \in DOMAIN ws /\ ws[k + m] = Wire("tool", <<j + m>>)
<1> DEFINE c == Len(s[j].calls)
           n == Len(s)
           At(m) == k + m \in Spoken(ws) /\ ws[k + m] = Wire(s[j + m].role, <<j + m>>)
           P == { m \in Nat : m <= c => At(m) }
<1>1. /\ s \in Seq(Message) /\ Paired(s) /\ n \in Nat /\ DOMAIN s = 1 .. n
      /\ Len(ws) \in Nat /\ DOMAIN ws = 1 .. Len(ws)
  BY DEF Matched
<1>2. c \in Nat /\ j + c <= n /\ j \in Nat
  BY <1>1, UnitPaired
<1>3. k \in Nat /\ k \in DOMAIN ws
  BY <1>1 DEF Spoken
<1>4. ASSUME NEW m \in 1 .. c PROVE s[j + m].role = "tool"
  <2>1. j + m \in (j + 1) .. (j + c)
    <3> HIDE DEF c
    <3> QED
      BY <1>2
  <2> QED
    BY <2>1, SpanTools
<1> HIDE DEF c, n
<1>5. 0 \in P
  <2>1. k + 0 = k /\ j + 0 = j
    BY <1>2, <1>3
  <2> QED
    BY <2>1
<1>6. ASSUME NEW m \in Nat, m \in P PROVE m + 1 \in P
  <2> SUFFICES ASSUME m + 1 <= c PROVE At(m + 1)
    OBVIOUS
  <2>1. /\ m <= c /\ m + 1 \in 1 .. c /\ j + m < n
        /\ j + (m + 1) = (j + m) + 1 /\ k + (m + 1) = (k + m) + 1
    BY <1>1, <1>2, <1>3
  <2>2. At(m)
    BY <1>6, <2>1
  <2>3. PICK l \in 1 .. n :
          /\ ws[k + m] = Wire(s[l].role, <<l>>)
          /\ l < n => /\ k + m < Len(ws)
                      /\ s[l + 1].role = "tool" => ws[(k + m) + 1] = Wire("tool", <<l + 1>>)
    BY <2>2 DEF Placed, n
  <2>4. l = j + m
    <3>1. Wire(s[l].role, <<l>>).of[1] = l /\ Wire(s[j + m].role, <<j + m>>).of[1] = j + m
      BY WireOne
    <3> QED
      BY <2>2, <2>3, <3>1
  <2>5. s[j + (m + 1)].role = "tool"
    BY <1>4, <2>1
  <2>6. k + m < Len(ws) /\ ws[k + (m + 1)] = Wire("tool", <<j + (m + 1)>>)
    BY <2>1, <2>3, <2>4, <2>5
  <2>7. k + (m + 1) \in DOMAIN ws
    BY <1>1, <1>3, <2>6
  <2>8. ws[k + (m + 1)].kind = "tool"
    BY <2>6, WireOne
  <2> QED
    BY <2>5, <2>6, <2>7, <2>8 DEF Spoken, Images
<1>7. Nat \subseteq P
  <2> HIDE DEF P
  <2> QED
    BY <1>5, <1>6, Induction
<1>8. ASSUME NEW m \in 1 .. c
      PROVE  k + m \in DOMAIN ws /\ ws[k + m] = Wire("tool", <<j + m>>)
  <2>1. m \in Nat /\ m <= c
    BY <1>2
  <2>2. At(m)
    BY <1>7, <2>1
  <2> QED
    BY <1>4, <2>2 DEF Spoken
<1> QED
  BY <1>8 DEF c

\* A turn's calls are what its results answer.
LEMMA AnswersAll ==
  ASSUME NEW s, Matched(s), NEW j \in DOMAIN s
  PROVE  ToSet(s[j].calls) = { s[j + m].callID : m \in 1 .. Len(s[j].calls) }
<1> DEFINE c == s[j].calls
<1>1. s \in Seq(Message)
  BY DEF Matched
<1>2. CASE HasCalls(s[j])
  <2>1. Answered(s, j)
    BY <1>2 DEF Matched, Paired
  <2>2. \A m \in 1 .. Len(c) : s[j + m].callID \in ToSet(c)
    BY <1>1, <2>1, ResultsDistinct
  <2>3. \A id \in ToSet(c) : \E m \in 1 .. Len(c) : s[j + m].callID = id
    BY <2>1 DEF Answered
  <2> HIDE DEF c
  <2>4. ToSet(c) = { s[j + m].callID : m \in 1 .. Len(c) }
    BY <2>2, <2>3
  <2> QED
    BY <2>4 DEF c
<1>3. CASE ~HasCalls(s[j])
  <2>1. c = <<>> /\ Len(c) = 0
    BY <1>3, NoCalls
  <2>2. ToSet(<<>>) = {}
    BY DEF ToSet
  <2> HIDE DEF c
  <2>3. ToSet(c) = { s[j + m].callID : m \in 1 .. Len(c) }
    BY <2>1, <2>2
  <2> QED
    BY <2>3 DEF c
<1> QED
  BY <1>2, <1>3

\* What toOpenAIMessages makes of a history whose calls and results are paired.
LEMMA OpenAIKeeps ==
  ASSUME Matched(transcript),
         \A k \in imaged : k \in DOMAIN transcript /\ transcript[k].role = "tool"
  PROVE  OpenAIWire
<1> DEFINE s == transcript
           n == Len(s)
           wire == toOpenAIMessages(s, imaged)
<1>1. s \in Seq(Message) /\ n \in Nat /\ DOMAIN s = 1 .. n
  BY DEF Matched
<1>2. PICK a : SentInv(s, imaged, n, a) /\ wire = a.out \o toolImagesMessage(a.withImages)
  BY <1>1, OpenAISends
<1> DEFINE out == a.out
           held == a.withImages
<1>3. /\ out \in Seq(WireMessage) /\ held \in Seq(Nat) /\ Placed(s, n, out)
      /\ Pick(out, Spoken(out)) = Turns(s, n)
      /\ Carried(Pick(out, Images(out))) \o held = Pick(UpTo(n), imaged \cap (1 .. n))
      /\ held # <<>> => n # 0 /\ s[n].role = "tool"
  BY <1>2 DEF SentInv
<1>4. /\ wire \in Seq(WireMessage)
      /\ wire = IF held = <<>> THEN out ELSE Append(out, Wire("images", held))
      /\ Pick(wire, Spoken(wire)) = Turns(s, n)
      /\ Carried(Pick(wire, Images(wire))) = Pick(UpTo(n), imaged \cap (1 .. n))
  BY <1>2, <1>3, Flushing
<1> HIDE DEF wire, out, held, s
<1>5. /\ Len(out) \in Nat /\ DOMAIN out = 1 .. Len(out) /\ DOMAIN out \subseteq DOMAIN wire
      /\ Len(wire) \in Nat /\ DOMAIN wire = 1 .. Len(wire) /\ Len(out) <= Len(wire)
      /\ \A k \in DOMAIN out : wire[k] = out[k]
      /\ \A k \in DOMAIN wire : \/ k \in DOMAIN out
                               \/ /\ k = Len(out) + 1 /\ k = Len(wire)
                                  /\ wire[k].kind = "images" /\ held # <<>>
  <2>1. CASE held = <<>>
    <3>1. wire = out
      BY <1>4, <2>1
    <3> QED
      BY <1>3, <3>1
  <2>2. CASE held # <<>>
    <3> DEFINE v == Wire("images", held)
    <3>1. v \in WireMessage /\ v.kind = "images"
      BY <1>3 DEF Wire, WireMessage
    <3>2. wire = Append(out, v)
      BY <1>4, <2>2
    <3> HIDE DEF v
    <3> QED
      BY <1>3, <2>2, <3>1, <3>2
  <2> QED
    BY <2>1, <2>2
<1>6. imaged \cap (1 .. n) = imaged
  BY <1>1 DEF s
<1>7. ASSUME NEW k \in DOMAIN wire, wire[k].kind = "assistant"
      PROVE  LET calls == s[wire[k].of[1]].calls IN
             /\ \A j \in 1 .. Len(calls) : k + j \in DOMAIN wire /\ wire[k + j].kind = "tool"
             /\ ToSet(calls) = { s[wire[k + j].of[1]].callID : j \in 1 .. Len(calls) }
  <2>1. k \in DOMAIN out /\ wire[k] = out[k] /\ k \in Spoken(out)
    BY <1>5, <1>7 DEF Spoken, Images
  <2>2. PICK j \in 1 .. n : out[k] = Wire(s[j].role, <<j>>)
    BY <1>3, <2>1 DEF Placed
  <2>3. wire[k].of[1] = j /\ j \in DOMAIN s
    BY <1>1, <2>1, <2>2, WireOne
  <2> DEFINE c == s[j].calls
  <2>4. \A m \in 1 .. Len(c) : k + m \in DOMAIN wire /\ wire[k + m] = Wire("tool", <<j + m>>)
    <3>1. CASE HasCalls(s[j])
      <4>1. \A m \in 1 .. Len(c) : k + m \in DOMAIN out /\ out[k + m] = Wire("tool", <<j + m>>)
        BY <1>3, <2>1, <2>2, <2>3, <3>1, ResultsBehind DEF s, n
      <4> QED
        BY <1>5, <4>1
    <3>2. CASE ~HasCalls(s[j])
      BY <3>2, NoCalls
    <3> QED
      BY <3>1, <3>2
  <2>5. ToSet(c) = { s[j + m].callID : m \in 1 .. Len(c) }
    <3>1. Matched(s)
      BY DEF s
    <3> QED
      BY <2>3, <3>1, AnswersAll
  <2>6. ASSUME NEW m \in 1 .. Len(c)
        PROVE  wire[k + m].kind = "tool" /\ wire[k + m].of[1] = j + m
    <3>1. Wire("tool", <<j + m>>).kind = "tool" /\ Wire("tool", <<j + m>>).of[1] = j + m
      BY WireOne
    <3> QED
      BY <2>4, <3>1
  <2> HIDE DEF c
  <2>7. ToSet(c) = { s[wire[k + m].of[1]].callID : m \in 1 .. Len(c) }
    BY <2>5, <2>6
  <2> QED
    BY <2>3, <2>4, <2>6, <2>7 DEF c
<1>8. ASSUME NEW k \in Images(wire)
      PROVE  wire[k - 1].kind = "tool" /\ (k < Len(wire) => wire[k + 1].kind # "tool")
  <2>1. k \in DOMAIN wire /\ wire[k].kind = "images"
    BY DEF Images
  <2>2. CASE k \in DOMAIN out
    <3>1. k \in Images(out)
      BY <1>5, <2>1, <2>2 DEF Images
    <3>2. k > 1 /\ k < Len(out) /\ out[k - 1].kind = "tool" /\ out[k + 1].kind # "tool"
      BY <1>3, <3>1 DEF Placed
    <3>3. k - 1 \in DOMAIN out /\ k + 1 \in DOMAIN out
      BY <1>5, <2>2, <3>2
    <3> QED
      BY <1>5, <3>2, <3>3
  <2>3. CASE k = Len(out) + 1 /\ k = Len(wire) /\ held # <<>>
    <3>1. n # 0 /\ Len(out) >= 1 /\ out[Len(out)] = Wire("tool", <<n>>)
      BY <1>3, <2>3 DEF Placed
    <3>2. k - 1 = Len(out) /\ Len(out) \in DOMAIN out /\ ~(k < Len(wire))
      BY <1>5, <2>3, <3>1
    <3> QED
      BY <1>5, <3>1, <3>2, WireOne
  <2> QED
    BY <1>5, <2>1, <2>2, <2>3
<1> QED
  BY <1>4, <1>6, <1>7, <1>8
  DEF OpenAIWire, Images, Spoken, Turns, UpTo, Positions, s, n, wire

-----------------------------------------------------------------------------
(* Anthropic's wire *)

\* The results directly behind message j, as far as message i.
RunBehind(s, j, i) == { l \in (j + 1) .. i : \A m \in (j + 1) .. l : s[m].role = "tool" }

\* A message is followed by its results, in one message, or by none: after i
\* messages, of which the results behind the last one may still grow.
Folded(s, i, ws) ==
  \A k \in DOMAIN ws :
    IF ws[k].kind = "results"
    THEN k < Len(ws) => ws[k + 1].kind # "results"
    ELSE \E j \in 1 .. i :
           /\ ws[k] = Wire(s[j].role, <<j>>) /\ s[j].role # "tool"
           /\ j = i => k = Len(ws)
           /\ j < i => /\ k < Len(ws)
                       /\ ws[k + 1].kind = "results" <=> s[j + 1].role = "tool"
                       /\ s[j + 1].role = "tool" =>
                            /\ ToSet(ws[k + 1].of) = RunBehind(s, j, i)
                            /\ k + 1 < Len(ws) <=> i \notin RunBehind(s, j, i)

\* What the last of them is.
Ends(s, i, ws) ==
  IF i = 0 \/ (i = 1 /\ s[1].role = "system") THEN ws = <<>>
  ELSE /\ Len(ws) >= 1
       /\ IF s[i].role = "tool" THEN ws[Len(ws)].kind = "results"
          ELSE ws[Len(ws)] = Wire(s[i].role, <<i>>)

\* How the results behind a message grow.
LEMMA ResultsGrow ==
  ASSUME NEW s, NEW i \in Nat, NEW j \in 1 .. i
  PROVE  /\ s[i + 1].role # "tool" =>
              RunBehind(s, j, i + 1) = RunBehind(s, j, i) /\ i + 1 \notin RunBehind(s, j, i + 1)
         /\ i \in RunBehind(s, j, i) /\ s[i + 1].role = "tool" =>
              /\ RunBehind(s, j, i + 1) = RunBehind(s, j, i) \cup {i + 1}
              /\ i + 1 \in RunBehind(s, j, i + 1)
         /\ j < i /\ i \notin RunBehind(s, j, i) =>
              RunBehind(s, j, i + 1) = RunBehind(s, j, i) /\ i + 1 \notin RunBehind(s, j, i + 1)
         /\ s[i + 1].role = "tool" => RunBehind(s, i, i + 1) = {i + 1}
         /\ j < i /\ s[i].role # "tool" => i \notin RunBehind(s, j, i)
<1>1. \A l : l \in (j + 1) .. (i + 1) <=> l \in (j + 1) .. i \/ l = i + 1
  OBVIOUS
<1>2. RunBehind(s, j, i + 1) = IF i + 1 \in RunBehind(s, j, i + 1)
                             THEN RunBehind(s, j, i) \cup {i + 1} ELSE RunBehind(s, j, i)
  BY <1>1 DEF RunBehind
<1>3. i + 1 \in RunBehind(s, j, i + 1) <=> \A m \in (j + 1) .. (i + 1) : s[m].role = "tool"
  BY DEF RunBehind
<1>4. i \in RunBehind(s, j, i) <=> j < i /\ \A m \in (j + 1) .. i : s[m].role = "tool"
  BY DEF RunBehind
<1>5. i + 1 \in (j + 1) .. (i + 1)
  OBVIOUS
<1>6. j < i => i \in (j + 1) .. i
  OBVIOUS
<1>7. s[i + 1].role = "tool" => RunBehind(s, i, i + 1) = {i + 1}
  BY DEF RunBehind
<1> QED
  BY <1>1, <1>2, <1>3, <1>4, <1>5, <1>6, <1>7

\* A message that is no result goes behind,
LEMMA FoldedPlain ==
  ASSUME NEW s \in Seq(Message), NEW i \in Nat, i + 1 \in DOMAIN s, s[i + 1].role # "tool",
         NEW ws \in Seq(WireMessage), Folded(s, i, ws)
  PROVE  Folded(s, i + 1, Append(ws, Wire(s[i + 1].role, <<i + 1>>)))
<1> DEFINE w == Wire(s[i + 1].role, <<i + 1>>)
           u == Append(ws, w)
           n == Len(ws)
<1>1. s[i + 1].role \in Roles
  BY RoleKnown
<1>2. w \in WireMessage /\ w.kind # "results"
  BY <1>1 DEF Wire, WireMessage, Roles
<1> HIDE DEF w
<1>3. /\ n \in Nat /\ DOMAIN ws = 1 .. n /\ DOMAIN u = 1 .. (n + 1) /\ Len(u) = n + 1
      /\ u[n + 1] = w /\ (\A k \in 1 .. n : u[k] = ws[k])
  BY <1>2
<1> HIDE DEF u, n
<1>4. ASSUME NEW k \in DOMAIN u, u[k].kind = "results", k < Len(u)
      PROVE  u[k + 1].kind # "results"
  <2>1. k \in 1 .. n /\ u[k] = ws[k] /\ k \in DOMAIN ws
    BY <1>3, <1>4
  <2>2. CASE k = n
    BY <1>2, <1>3, <2>2
  <2>3. CASE k # n
    <3>1. k + 1 \in 1 .. n /\ k < n
      BY <1>3, <2>1, <2>3
    <3>2. ws[k + 1].kind # "results"
      BY <1>4, <2>1, <3>1 DEF Folded, n
    <3> QED
      BY <1>3, <3>1, <3>2
  <2> QED
    BY <2>2, <2>3
<1>5. ASSUME NEW k \in DOMAIN u, u[k].kind # "results"
      PROVE  \E j \in 1 .. (i + 1) :
               /\ u[k] = Wire(s[j].role, <<j>>) /\ s[j].role # "tool"
               /\ j = i + 1 => k = Len(u)
               /\ j < i + 1 =>
                    /\ k < Len(u)
                    /\ u[k + 1].kind = "results" <=> s[j + 1].role = "tool"
                    /\ s[j + 1].role = "tool" =>
                         /\ ToSet(u[k + 1].of) = RunBehind(s, j, i + 1)
                         /\ k + 1 < Len(u) <=> i + 1 \notin RunBehind(s, j, i + 1)
  <2>1. CASE k = n + 1
    <3>1. i + 1 \in 1 .. (i + 1) /\ u[k] = w /\ k = Len(u) /\ ~(i + 1 < i + 1)
      BY <1>3, <2>1
    <3> QED
      BY <3>1 DEF w
  <2>2. CASE k # n + 1
    <3>1. k \in 1 .. n /\ u[k] = ws[k] /\ k \in DOMAIN ws
      BY <1>3, <2>2
    <3>2. PICK j \in 1 .. i :
            /\ ws[k] = Wire(s[j].role, <<j>>) /\ s[j].role # "tool"
            /\ j = i => k = n
            /\ j < i => /\ k < n
                        /\ ws[k + 1].kind = "results" <=> s[j + 1].role = "tool"
                        /\ s[j + 1].role = "tool" => ToSet(ws[k + 1].of) = RunBehind(s, j, i)
      BY <1>5, <3>1 DEF Folded, n
    <3>3. j \in 1 .. (i + 1) /\ j # i + 1 /\ k < Len(u)
      BY <1>3, <3>1
    <3>4. CASE j = i
      <4>1. u[k + 1].kind # "results"
        BY <1>2, <1>3, <3>2, <3>4
      <4> QED
        BY <3>1, <3>2, <3>3, <3>4, <4>1
    <3>5. CASE j # i
      <4>1. j < i
        BY <3>5
      <4>2. k + 1 \in 1 .. n /\ k + 1 < Len(u)
        BY <1>3, <3>1, <3>2, <4>1
      <4>3. RunBehind(s, j, i + 1) = RunBehind(s, j, i) /\ i + 1 \notin RunBehind(s, j, i + 1)
        BY ResultsGrow
      <4>4. u[k + 1] = ws[k + 1]
        BY <1>3, <4>2
      <4> QED
        BY <3>1, <3>2, <3>3, <4>1, <4>2, <4>3, <4>4
    <3> QED
      BY <3>4, <3>5
  <2> QED
    BY <2>1, <2>2
<1>6. Folded(s, i + 1, u)
  BY <1>4, <1>5 DEF Folded
<1> QED
  BY <1>6 DEF u, w

\* so does the first result behind a message,
LEMMA FoldedFirst ==
  ASSUME NEW s \in Seq(Message), NEW i \in Nat, i # 0, i + 1 \in DOMAIN s,
         s[i].role # "tool", s[i + 1].role = "tool",
         NEW ws \in Seq(WireMessage), Folded(s, i, ws), Len(ws) >= 1,
         ws[Len(ws)] = Wire(s[i].role, <<i>>)
  PROVE  Folded(s, i + 1, Append(ws, Wire("results", <<i + 1>>)))
<1> DEFINE w == Wire("results", <<i + 1>>)
           u == Append(ws, w)
           n == Len(ws)
<1>1. s[i].role \in Roles
  <2>1. i \in DOMAIN s
    OBVIOUS
  <2> QED
    BY <2>1, RoleKnown
<1>2. w \in WireMessage /\ w.kind = "results" /\ ToSet(w.of) = {i + 1}
  <2> DEFINE q == <<i + 1>>
  <2>1. q \in Seq(Nat) /\ ToSet(q) = {i + 1}
    BY DEF ToSet
  <2> HIDE DEF q
  <2>2. /\ Wire("results", q) \in WireMessage
        /\ Wire("results", q).kind = "results" /\ Wire("results", q).of = q
    BY <2>1 DEF Wire, WireMessage
  <2> QED
    BY <2>1, <2>2 DEF q
<1> HIDE DEF w
<1>3. /\ n \in Nat /\ DOMAIN ws = 1 .. n /\ DOMAIN u = 1 .. (n + 1) /\ Len(u) = n + 1
      /\ u[n + 1] = w /\ (\A k \in 1 .. n : u[k] = ws[k])
  BY <1>2
<1> HIDE DEF u, n
<1>4. ws[n].kind # "results"
  <2>1. Wire(s[i].role, <<i>>).kind = s[i].role
    BY WireOne
  <2> QED
    BY <1>1, <2>1 DEF n, Roles
<1>5. ASSUME NEW k \in DOMAIN u, u[k].kind = "results", k < Len(u)
      PROVE  u[k + 1].kind # "results"
  <2>1. k \in 1 .. n /\ u[k] = ws[k] /\ k \in DOMAIN ws
    BY <1>3, <1>5
  <2>2. k # n
    BY <1>4, <1>5, <2>1
  <2>3. k + 1 \in 1 .. n /\ k < n
    BY <1>3, <2>1, <2>2
  <2>4. ws[k + 1].kind # "results"
    BY <1>5, <2>1, <2>3 DEF Folded, n
  <2> QED
    BY <1>3, <2>3, <2>4
<1>6. ASSUME NEW k \in DOMAIN u, u[k].kind # "results"
      PROVE  \E j \in 1 .. (i + 1) :
               /\ u[k] = Wire(s[j].role, <<j>>) /\ s[j].role # "tool"
               /\ j = i + 1 => k = Len(u)
               /\ j < i + 1 =>
                    /\ k < Len(u)
                    /\ u[k + 1].kind = "results" <=> s[j + 1].role = "tool"
                    /\ s[j + 1].role = "tool" =>
                         /\ ToSet(u[k + 1].of) = RunBehind(s, j, i + 1)
                         /\ k + 1 < Len(u) <=> i + 1 \notin RunBehind(s, j, i + 1)
  <2>1. k \in 1 .. n /\ u[k] = ws[k] /\ k \in DOMAIN ws
    <3>1. k # n + 1
      BY <1>2, <1>3, <1>6
    <3> QED
      BY <1>3, <3>1
  <2>2. PICK j \in 1 .. i :
          /\ ws[k] = Wire(s[j].role, <<j>>) /\ s[j].role # "tool"
          /\ j = i => k = n
          /\ j < i => /\ k < n
                      /\ ws[k + 1].kind = "results" <=> s[j + 1].role = "tool"
                      /\ s[j + 1].role = "tool" => ToSet(ws[k + 1].of) = RunBehind(s, j, i)
    BY <1>6, <2>1 DEF Folded, n
  <2>3. j \in 1 .. (i + 1) /\ j # i + 1 /\ k < Len(u)
    BY <1>3, <2>1
  <2>4. CASE j = i
    <3>1. u[k + 1] = w /\ ~(k + 1 < Len(u))
      BY <1>3, <2>2, <2>4
    <3>2. RunBehind(s, j, i + 1) = {i + 1}
      BY <2>4, ResultsGrow
    <3> QED
      BY <1>2, <2>1, <2>2, <2>3, <2>4, <3>1, <3>2
  <2>5. CASE j # i
    <3>1. j < i
      BY <2>5
    <3>2. k + 1 \in 1 .. n /\ k + 1 < Len(u)
      BY <1>3, <2>1, <2>2, <3>1
    <3>3. RunBehind(s, j, i + 1) = RunBehind(s, j, i) /\ i + 1 \notin RunBehind(s, j, i + 1)
      BY <3>1, ResultsGrow
    <3>4. u[k + 1] = ws[k + 1]
      BY <1>3, <3>2
    <3> QED
      BY <2>1, <2>2, <2>3, <3>1, <3>2, <3>3, <3>4
  <2> QED
    BY <2>4, <2>5
<1>7. Folded(s, i + 1, u)
  BY <1>5, <1>6 DEF Folded
<1> QED
  BY <1>7 DEF u, w

\* and every further one joins it.
LEMMA FoldedMore ==
  ASSUME NEW s \in Seq(Message), NEW i \in Nat, i + 1 \in DOMAIN s, s[i + 1].role = "tool",
         NEW ws \in Seq(WireMessage), Folded(s, i, ws), NEW u \in Seq(WireMessage),
         Len(u) = Len(ws), Len(ws) >= 1, \A k \in 1 .. (Len(ws) - 1) : u[k] = ws[k],
         ws[Len(ws)].kind = "results", u[Len(ws)].kind = "results",
         ToSet(u[Len(ws)].of) = ToSet(ws[Len(ws)].of) \cup {i + 1}
  PROVE  Folded(s, i + 1, u)
<1> DEFINE n == Len(ws)
<1>1. n \in Nat /\ DOMAIN ws = 1 .. n /\ DOMAIN u = 1 .. n /\ Len(u) = n
  OBVIOUS
<1>2. \A k \in 1 .. n : u[k].kind = ws[k].kind
  <2>1. \A k \in 1 .. n : k = n \/ k \in 1 .. (n - 1)
    <3> HIDE DEF n
    <3> QED
      BY <1>1
  <2> QED
    BY <2>1
<1>3. ASSUME NEW k \in DOMAIN u, u[k].kind = "results", k < Len(u)
      PROVE  u[k + 1].kind # "results"
  <2>1. k \in 1 .. n /\ k + 1 \in 1 .. n
    BY <1>1, <1>3
  <2>2. ws[k].kind = "results" /\ u[k + 1].kind = ws[k + 1].kind /\ k < Len(ws) /\ k \in DOMAIN ws
    BY <1>1, <1>2, <1>3, <2>1
  <2> QED
    BY <2>2 DEF Folded
<1>4. ASSUME NEW k \in DOMAIN u, u[k].kind # "results"
      PROVE  \E j \in 1 .. (i + 1) :
               /\ u[k] = Wire(s[j].role, <<j>>) /\ s[j].role # "tool"
               /\ j = i + 1 => k = Len(u)
               /\ j < i + 1 =>
                    /\ k < Len(u)
                    /\ u[k + 1].kind = "results" <=> s[j + 1].role = "tool"
                    /\ s[j + 1].role = "tool" =>
                         /\ ToSet(u[k + 1].of) = RunBehind(s, j, i + 1)
                         /\ k + 1 < Len(u) <=> i + 1 \notin RunBehind(s, j, i + 1)
  <2>1. /\ k \in 1 .. (n - 1) /\ k \in DOMAIN ws /\ k + 1 \in 1 .. n
        /\ ws[k].kind # "results" /\ u[k] = ws[k]
    <3>1. k # n /\ k \in 1 .. n
      BY <1>1, <1>4
    <3>2. k \in 1 .. (n - 1) /\ k + 1 \in 1 .. n
      BY <1>1, <3>1
    <3> QED
      BY <1>1, <1>2, <1>4, <3>1, <3>2
  <2>2. PICK j \in 1 .. i :
          /\ ws[k] = Wire(s[j].role, <<j>>) /\ s[j].role # "tool"
          /\ j = i => k = n
          /\ j < i => /\ k < n
                      /\ ws[k + 1].kind = "results" <=> s[j + 1].role = "tool"
                      /\ s[j + 1].role = "tool" =>
                           /\ ToSet(ws[k + 1].of) = RunBehind(s, j, i)
                           /\ k + 1 < n <=> i \notin RunBehind(s, j, i)
    BY <2>1 DEF Folded
  <2> HIDE DEF n
  <2>3. j < i /\ j \in 1 .. (i + 1) /\ j # i + 1 /\ k < n
    <3>1. j # i
      BY <1>1, <2>1, <2>2
    <3> QED
      BY <1>1, <2>1, <3>1
  <2>4. u[k + 1].kind = ws[k + 1].kind
    BY <1>2, <2>1
  <2>5. ASSUME s[j + 1].role = "tool"
        PROVE  /\ ToSet(u[k + 1].of) = RunBehind(s, j, i + 1)
               /\ k + 1 < n <=> i + 1 \notin RunBehind(s, j, i + 1)
    <3>1. /\ ToSet(ws[k + 1].of) = RunBehind(s, j, i)
          /\ k + 1 < n <=> i \notin RunBehind(s, j, i)
      BY <2>2, <2>3, <2>5
    <3>2. CASE k + 1 < n
      <4>1. k + 1 \in 1 .. (n - 1)
        BY <1>1, <2>1, <3>2
      <4>2. u[k + 1] = ws[k + 1]
        BY <4>1 DEF n
      <4>3. RunBehind(s, j, i + 1) = RunBehind(s, j, i) /\ i + 1 \notin RunBehind(s, j, i + 1)
        BY <2>3, <3>1, <3>2, ResultsGrow
      <4> QED
        BY <3>1, <3>2, <4>2, <4>3
    <3>3. CASE ~(k + 1 < n)
      <4>1. k + 1 = n
        BY <1>1, <2>1, <3>3
      <4>2. ToSet(u[k + 1].of) = ToSet(ws[k + 1].of) \cup {i + 1}
        BY <4>1 DEF n
      <4>3. /\ RunBehind(s, j, i + 1) = RunBehind(s, j, i) \cup {i + 1}
            /\ i + 1 \in RunBehind(s, j, i + 1)
        BY <3>1, <3>3, ResultsGrow
      <4> QED
        BY <3>1, <3>3, <4>2, <4>3
    <3> QED
      BY <3>2, <3>3
  <2> QED
    BY <1>1, <2>1, <2>2, <2>3, <2>4, <2>5
<1>5. Folded(s, i + 1, u)
  BY <1>3, <1>4 DEF Folded
<1> QED
  BY <1>5

\* What toAnthropicMessages has converted after i messages.
AnthropicWalk ==
  [ok : BOOLEAN, breakpoints : Nat, system : Seq(Nat), converted : Seq(WireMessage)]
ConvertedInv(s, S, i, a) ==
  /\ a \in AnthropicWalk
  /\ a.breakpoints = Cardinality(S \cap (1 .. i))
  /\ a.ok <=> a.breakpoints <= MaxCacheBreakpoints
  /\ i = 0 => a.system = <<>>
  /\ a.system \o Carried(a.converted) = UpTo(i)
  /\ Ends(s, i, a.converted)
  /\ Folded(s, i, a.converted)

\* Counting a hint leaves the rest.
LEMMA Counted ==
  ASSUME NEW a \in AnthropicWalk, NEW S, NEW i
  PROVE  LET b == countCacheBreakpoint(a, S, i) IN
         /\ b \in AnthropicWalk /\ b.system = a.system /\ b.converted = a.converted
         /\ b.breakpoints = a.breakpoints + IF i \in S THEN 1 ELSE 0
         /\ b.ok <=> a.ok /\ b.breakpoints <= MaxCacheBreakpoints
<1> DEFINE c == a.breakpoints + IF i \in S THEN 1 ELSE 0
           ok == a.ok /\ c <= MaxCacheBreakpoints
           b == [a EXCEPT !.breakpoints = c, !.ok = ok]
<1>1. countCacheBreakpoint(a, S, i) = b
  BY DEF countCacheBreakpoint
<1>2. c \in Nat
  BY DEF AnthropicWalk
<1>3. ok \in BOOLEAN
  OBVIOUS
<1> HIDE DEF c, ok
<1>4. /\ b \in AnthropicWalk /\ b.system = a.system /\ b.converted = a.converted
      /\ b.breakpoints = c
  BY <1>2, <1>3 DEF AnthropicWalk
<1>5. b.ok = ok
  BY <1>2, <1>3 DEF AnthropicWalk
<1> HIDE DEF b
<1>6. b.ok <=> a.ok /\ b.breakpoints <= MaxCacheBreakpoints
  BY <1>4, <1>5 DEF ok
<1> QED
  BY <1>1, <1>4, <1>6 DEF c

\* One more hinted position is one more of them.
LEMMA HintsNext ==
  ASSUME NEW S, NEW i \in Nat
  PROVE  /\ Cardinality(S \cap (1 .. i)) \in Nat
         /\ Cardinality(S \cap (1 .. (i + 1)))
              = Cardinality(S \cap (1 .. i)) + IF i + 1 \in S THEN 1 ELSE 0
<1> DEFINE A == S \cap (1 .. i)
<1>1. A \in SUBSET (1 .. i) /\ i + 1 \notin A
  OBVIOUS
<1>2. S \cap (1 .. (i + 1)) = IF i + 1 \in S THEN A \cup {i + 1} ELSE A
  OBVIOUS
<1> HIDE DEF A
<1>3. IsFiniteSet(A) /\ Cardinality(A) \in Nat
  BY <1>1, PositionsFinite
<1>4. Cardinality(A \cup {i + 1}) = Cardinality(A) + 1
  BY <1>1, <1>3, FS_AddElement
<1> QED
  BY <1>2, <1>3, <1>4 DEF A

\* What is done with message i, when it is a system prompt, a result or something
\* else.
ConvertedTo(s, S, i, a, b) ==
  LET led == i = 1 /\ s[i].role = "system" IN
  /\ b \in AnthropicWalk
  /\ b.breakpoints = a.breakpoints + IF i \in S THEN 1 ELSE 0
  /\ b.ok <=> a.ok /\ b.breakpoints <= MaxCacheBreakpoints
  /\ b.system = IF led THEN <<i>> ELSE a.system
  /\ led => b.converted = a.converted
  /\ s[i].role = "tool" => b.converted = toToolResultMessage(a.converted, s, i)
  /\ ~led /\ s[i].role # "tool" => b.converted = Append(a.converted, Wire(s[i].role, <<i>>))

\* One step does that.
LEMMA ConvertedIs ==
  ASSUME NEW s \in Seq(Message), NEW S, NEW i \in DOMAIN s, NEW a \in AnthropicWalk,
         s[i].role = "tool" => toToolResultMessage(a.converted, s, i) \in Seq(WireMessage)
  PROVE  ConvertedTo(s, S, i, a, Converted(s, S, i, a))
<1> DEFINE c == countCacheBreakpoint(a, S, i)
           led == i = 1 /\ s[i].role = "system"
           b == Converted(s, S, i, a)
<1>1. /\ c \in AnthropicWalk /\ c.system = a.system /\ c.converted = a.converted
      /\ c.breakpoints = a.breakpoints + IF i \in S THEN 1 ELSE 0
      /\ c.ok <=> a.ok /\ c.breakpoints <= MaxCacheBreakpoints
  BY Counted
<1>2. Wire(s[i].role, <<i>>) \in WireMessage /\ i \in Nat
  <2>1. s[i].role \in Roles /\ i \in Nat
    BY RoleKnown
  <2> QED
    BY <2>1 DEF Wire, WireMessage
<1>3. CASE led
  <2>1. b = [c EXCEPT !.system = <<i>>]
    BY <1>3 DEF Converted
  <2>2. <<i>> \in Seq(Nat)
    BY <1>2
  <2> DEFINE q == <<i>>
  <2> HIDE DEF c, b, q
  <2>3. /\ b \in AnthropicWalk /\ b.system = q /\ b.converted = c.converted
        /\ b.breakpoints = c.breakpoints /\ b.ok = c.ok
    BY <1>1, <2>1, <2>2 DEF AnthropicWalk, q
  <2> QED
    BY <1>1, <1>3, <2>3 DEF ConvertedTo, b, q
<1>4. ASSUME ~led, NEW t \in Seq(WireMessage), b = [c EXCEPT !.converted = t]
      PROVE  /\ b \in AnthropicWalk /\ b.system = c.system /\ b.converted = t
             /\ b.breakpoints = c.breakpoints /\ b.ok = c.ok
  <2> HIDE DEF c, b
  <2> QED
    BY <1>1, <1>4 DEF AnthropicWalk
<1>5. CASE s[i].role = "tool"
  <2> DEFINE t == toToolResultMessage(a.converted, s, i)
  <2>1. ~led /\ t \in Seq(WireMessage)
    BY <1>5
  <2>2. b = [c EXCEPT !.converted = t]
    BY <1>1, <1>5 DEF Converted
  <2> HIDE DEF c, b, t, led
  <2>3. /\ b \in AnthropicWalk /\ b.system = c.system /\ b.converted = t
        /\ b.breakpoints = c.breakpoints /\ b.ok = c.ok
    BY <1>4, <2>1, <2>2
  <2> QED
    BY <1>1, <1>5, <2>1, <2>3 DEF ConvertedTo, b, t, led
<1>6. CASE s[i].role # "tool" /\ ~led
  <2> DEFINE t == Append(a.converted, Wire(s[i].role, <<i>>))
  <2>1. t \in Seq(WireMessage)
    <3>1. a.converted \in Seq(WireMessage)
      BY DEF AnthropicWalk
    <3> QED
      BY <1>2, <3>1
  <2>2. b = [c EXCEPT !.converted = t]
    BY <1>1, <1>6 DEF Converted
  <2> HIDE DEF c, b, t, led
  <2>3. /\ b \in AnthropicWalk /\ b.system = c.system /\ b.converted = t
        /\ b.breakpoints = c.breakpoints /\ b.ok = c.ok
    BY <1>4, <1>6, <2>1, <2>2
  <2> QED
    BY <1>1, <1>6, <2>3 DEF ConvertedTo, b, t, led
<1>7. led \/ s[i].role = "tool" \/ (s[i].role # "tool" /\ ~led)
  OBVIOUS
<1> QED
  BY <1>3, <1>5, <1>6, <1>7

\* Joining sequences of positions.
LEMMA JoinsAssociate ==
  ASSUME NEW a \in Seq(Nat), NEW b \in Seq(Nat), NEW c \in Seq(Nat)
  PROVE  a \o (b \o c) = (a \o b) \o c
  OBVIOUS

\* Joining one more position.
LEMMA JoinsOne ==
  ASSUME NEW a \in Seq(Nat), NEW b \in Seq(Nat), NEW i \in Nat
  PROVE  a \o (b \o <<i>>) = Append(a \o b, i)
  OBVIOUS

\* A result follows a result or a turn of the model.
LEMMA BeforeResult ==
  ASSUME NEW s, Matched(s), NEW i \in Nat, i + 1 \in DOMAIN s, s[i + 1].role = "tool"
  PROVE  i \in DOMAIN s /\ s[i].role \in {"tool", "assistant"}
<1>1. s \in Seq(Message) /\ DOMAIN s = 1 .. Len(s) /\ Len(s) \in Nat
  BY DEF Matched
<1>2. PICK j \in 1 .. ((i + 1) - 1) : HasCalls(s[j]) /\ i + 1 <= j + Len(s[j].calls)
  BY DEF Matched, Paired
<1>3. j \in DOMAIN s /\ i \in DOMAIN s /\ j \in Nat /\ j <= i
  BY <1>1, <1>2
<1>4. Len(s[j].calls) \in Nat
  BY <1>1, <1>3, CallsType
<1>5. CASE j = i
  BY <1>2, <1>3, <1>5, DeclarerNoTool
<1>6. CASE j # i
  <2>1. i \in (j + 1) .. (j + Len(s[j].calls))
    BY <1>2, <1>3, <1>4, <1>6
  <2> QED
    BY <1>2, <1>3, <2>1, SpanTools
<1> QED
  BY <1>5, <1>6

\* The message a result goes into.
LEMMA ResultJoins ==
  ASSUME NEW s, Matched(s), NEW i \in Nat, i + 1 \in DOMAIN s, s[i + 1].role = "tool",
         NEW ws \in Seq(WireMessage), Ends(s, i, ws), Folded(s, i, ws)
  PROVE  LET u == toToolResultMessage(ws, s, i + 1) IN
         /\ u \in Seq(WireMessage) /\ Len(u) >= 1 /\ u[Len(u)].kind = "results"
         /\ Carried(u) = Carried(ws) \o <<i + 1>>
         /\ Folded(s, i + 1, u)
<1>1. s \in Seq(Message) /\ i \in DOMAIN s /\ i # 0 /\ s[i].role \in {"tool", "assistant"}
  BY BeforeResult DEF Matched
<1>2. /\ Len(ws) >= 1 /\ Len(ws) \in Nat /\ DOMAIN ws = 1 .. Len(ws)
      /\ s[i].role = "tool" => ws[Len(ws)].kind = "results"
      /\ s[i].role = "assistant" => ws[Len(ws)] = Wire(s[i].role, <<i>>)
  BY <1>1 DEF Ends
<1> DEFINE q == <<i + 1>>
<1>3. q \in Seq(Nat) /\ i + 1 \in Nat /\ i + 1 > 1 /\ (i + 1) - 1 = i
  BY <1>1
<1>4. CASE s[i].role = "assistant"
  <2> DEFINE w == Wire("results", q)
             u == Append(ws, w)
  <2>1. toToolResultMessage(ws, s, i + 1) = u
    BY <1>3, <1>4 DEF toToolResultMessage
  <2>2. Folded(s, i + 1, u)
    BY <1>1, <1>2, <1>4, FoldedFirst
  <2> HIDE DEF q
  <2>3. w \in WireMessage /\ w.kind = "results" /\ w.of = q
    BY <1>3 DEF Wire, WireMessage
  <2> HIDE DEF w
  <2>4. u \in Seq(WireMessage) /\ Len(u) >= 1 /\ u[Len(u)] = w
    BY <1>2, <2>3
  <2>5. Carried(u) = Carried(ws) \o q
    BY <2>3, CarriedAppend
  <2> HIDE DEF u
  <2> QED
    BY <2>1, <2>2, <2>3, <2>4, <2>5 DEF q
<1>5. CASE s[i].role = "tool"
  <2> DEFINE n == Len(ws)
             last == ws[n]
             front == Front(ws)
             more == Append(last.of, i + 1)
             w == Wire("results", more)
             u == Append(front, w)
  <2>1. toToolResultMessage(ws, s, i + 1) = u
    BY <1>3, <1>5 DEF toToolResultMessage, Last
  <2>2. last \in WireMessage
    BY <1>2
  <2>3. last.of \in Seq(Nat)
    BY <2>2 DEF WireMessage
  <2>4. /\ front \in Seq(WireMessage) /\ Len(front) = n - 1 /\ ws = Append(front, last)
        /\ \A k \in 1 .. (n - 1) : front[k] = ws[k]
    <3>1. front = SubSeq(ws, 1, n - 1)
      BY DEF Front
    <3> HIDE DEF front
    <3> QED
      BY <1>2, <3>1
  <2> HIDE DEF front, last
  <2>5. more \in Seq(Nat) /\ more = last.of \o q /\ ToSet(more) = ToSet(last.of) \cup {i + 1}
    <3> DEFINE o == last.of
    <3>1. o \in Seq(Nat)
      BY <2>3
    <3> HIDE DEF o
    <3>2. Append(o, i + 1) \in Seq(Nat) /\ Append(o, i + 1) = o \o <<i + 1>>
      BY <1>3, <3>1
    <3>3. ToSet(Append(o, i + 1)) = ToSet(o) \cup {i + 1}
      <4> DEFINE z == Append(o, i + 1)
      <4>1. /\ DOMAIN z = DOMAIN o \cup {Len(o) + 1} /\ z[Len(o) + 1] = i + 1
            /\ \A k \in DOMAIN o : z[k] = o[k]
        BY <1>3, <3>1
      <4> HIDE DEF z
      <4>2. ToSet(z) = { z[k] : k \in DOMAIN z } /\ ToSet(o) = { o[k] : k \in DOMAIN o }
        BY DEF ToSet
      <4>3. ToSet(z) = ToSet(o) \cup {i + 1}
        BY <4>1, <4>2
      <4> QED
        BY <4>3 DEF z
    <3> QED
      BY <3>2, <3>3 DEF o
  <2> HIDE DEF more
  <2>6. w \in WireMessage /\ w.kind = "results" /\ w.of = more
    BY <2>5 DEF Wire, WireMessage
  <2> HIDE DEF w
  <2>7. /\ u \in Seq(WireMessage) /\ Len(u) = n /\ u[n] = w
        /\ \A k \in 1 .. (n - 1) : u[k] = ws[k]
    <3> HIDE DEF n
    <3>1. n \in Nat /\ n >= 1
      BY <1>2 DEF n
    <3> QED
      BY <2>4, <2>6, <3>1
  <2>8. Carried(u) = Carried(ws) \o q
    <3>1. Carried(u) = Carried(front) \o w.of /\ Carried(front) \in Seq(Nat)
      BY <2>4, <2>6, CarriedAppend
    <3>2. Carried(ws) = Carried(front) \o last.of
      BY <2>2, <2>4, CarriedAppend
    <3> DEFINE c == Carried(front)
               o == last.of
    <3>3. c \in Seq(Nat) /\ o \in Seq(Nat) /\ q \in Seq(Nat)
      BY <1>3, <2>3, <3>1
    <3> HIDE DEF c, o, q
    <3>4. c \o (o \o q) = (c \o o) \o q
      BY <3>3, JoinsAssociate
    <3> QED
      BY <2>5, <2>6, <3>1, <3>2, <3>4 DEF c, o
  <2> HIDE DEF u
  <2>9. Folded(s, i + 1, u)
    BY <1>1, <1>2, <1>5, <2>5, <2>6, <2>7, FoldedMore DEF last
  <2> QED
    BY <1>2, <2>1, <2>6, <2>7, <2>8, <2>9
<1> QED
  BY <1>1, <1>4, <1>5

\* Every message keeps it.
LEMMA ConvertedStep ==
  ASSUME NEW s, Matched(s), NEW S, NEW i \in Nat, i + 1 \in DOMAIN s,
         NEW a, ConvertedInv(s, S, i, a)
  PROVE  ConvertedInv(s, S, i + 1, Converted(s, S, i + 1, a))
<1> DEFINE b == Converted(s, S, i + 1, a)
           ws == a.converted
           m == s[i + 1]
           led == i + 1 = 1 /\ m.role = "system"
<1>1. /\ s \in Seq(Message) /\ a \in AnthropicWalk /\ Ends(s, i, ws) /\ Folded(s, i, ws)
      /\ a.system \o Carried(ws) = UpTo(i)
  BY DEF Matched, ConvertedInv
<1>2. ws \in Seq(WireMessage) /\ a.system \in Seq(Nat) /\ a.breakpoints \in Nat
  BY <1>1 DEF AnthropicWalk
<1>3. m.role = "tool" => toToolResultMessage(ws, s, i + 1) \in Seq(WireMessage)
  BY <1>1, <1>2, ResultJoins
<1>4. /\ b \in AnthropicWalk
      /\ b.breakpoints = a.breakpoints + IF i + 1 \in S THEN 1 ELSE 0
      /\ b.ok <=> a.ok /\ b.breakpoints <= MaxCacheBreakpoints
      /\ b.system = IF led THEN <<i + 1>> ELSE a.system
      /\ led => b.converted = ws
      /\ m.role = "tool" => b.converted = toToolResultMessage(ws, s, i + 1)
      /\ ~led /\ m.role # "tool" => b.converted = Append(ws, Wire(m.role, <<i + 1>>))
  <2>1. s[i + 1].role = "tool" => toToolResultMessage(a.converted, s, i + 1) \in Seq(WireMessage)
    BY <1>3
  <2>2. ConvertedTo(s, S, i + 1, a, b)
    BY <1>1, <2>1, ConvertedIs
  <2> QED
    BY <2>2 DEF ConvertedTo
<1> SUFFICES ConvertedInv(s, S, i + 1, b)
  OBVIOUS
<1> HIDE DEF b, ws
<1>5. b.breakpoints = Cardinality(S \cap (1 .. (i + 1)))
  BY <1>4, HintsNext DEF ConvertedInv
<1>6. b.ok <=> b.breakpoints <= MaxCacheBreakpoints
  <2>1. a.ok <=> a.breakpoints <= MaxCacheBreakpoints
    BY DEF ConvertedInv
  <2>2. b.breakpoints <= MaxCacheBreakpoints => a.breakpoints <= MaxCacheBreakpoints
    BY <1>2, <1>4, TranslationAssumption
  <2> QED
    BY <1>4, <2>1, <2>2
<1>7. UpTo(i + 1) = Append(UpTo(i), i + 1) /\ UpTo(i) \in Seq(Nat)
  BY <1>1, UpToNext
<1>8. Carried(ws) \in Seq(Nat)
  <2>1. Wire("tool", <<>>) \in WireMessage
    <3>1. <<>> \in Seq(Nat)
      OBVIOUS
    <3> QED
      BY <3>1 DEF Wire, WireMessage, Roles
  <2> QED
    BY <1>2, <2>1, CarriedAppend
<1>9. ASSUME NEW u \in Seq(WireMessage), Carried(u) = Carried(ws) \o <<i + 1>>
      PROVE  a.system \o Carried(u) = UpTo(i + 1)
  <2> DEFINE c == Carried(ws)
             d == a.system
  <2>1. c \in Seq(Nat) /\ d \in Seq(Nat) /\ i + 1 \in Nat /\ d \o c = UpTo(i)
    BY <1>1, <1>2, <1>8
  <2>2. Carried(u) = c \o <<i + 1>>
    BY <1>9
  <2> HIDE DEF c, d
  <2>3. d \o (c \o <<i + 1>>) = Append(d \o c, i + 1)
    BY <2>1, JoinsOne
  <2> QED
    BY <1>7, <2>1, <2>2, <2>3 DEF d
<1>14. ASSUME b.system \o Carried(b.converted) = UpTo(i + 1),
              Ends(s, i + 1, b.converted), Folded(s, i + 1, b.converted)
       PROVE  ConvertedInv(s, S, i + 1, b)
  <2>1. i + 1 # 0
    OBVIOUS
  <2>2. b \in AnthropicWalk
    BY <1>4
  <2> QED
    BY <1>5, <1>6, <1>14, <2>1, <2>2 DEF ConvertedInv
<1>10. CASE led
  <2>1. i = 0 /\ ws = <<>> /\ s[1].role = "system"
    BY <1>1, <1>10 DEF Ends
  <2>2. b.system = <<1>> /\ b.converted = <<>>
    BY <1>4, <1>10, <2>1
  <2>3. b.system \o Carried(<<>>) = UpTo(1)
    <3>1. Carried(<<>>) = <<>>
      BY DEF Carried, FlattenSeq
    <3>2. <<1>> \o <<>> = <<1>> /\ UpTo(1) = <<1>>
      BY DEF UpTo
    <3> QED
      BY <2>2, <3>1, <3>2
  <2>4. Ends(s, 1, <<>>) /\ Folded(s, 1, <<>>)
    BY <2>1 DEF Ends, Folded
  <2>5. i + 1 = 1
    BY <2>1
  <2> QED
    BY <1>14, <2>2, <2>3, <2>4, <2>5
<1>11. CASE m.role = "tool"
  <2> DEFINE u == toToolResultMessage(ws, s, i + 1)
  <2>1. /\ u \in Seq(WireMessage) /\ Len(u) >= 1 /\ u[Len(u)].kind = "results"
        /\ Carried(u) = Carried(ws) \o <<i + 1>> /\ Folded(s, i + 1, u)
    BY <1>1, <1>2, <1>11, ResultJoins
  <2>2. b.system = a.system /\ b.converted = u /\ ~led
    BY <1>4, <1>11
  <2> HIDE DEF u
  <2>3. Ends(s, i + 1, u)
    <3>1. i + 1 # 0
      OBVIOUS
    <3> QED
      BY <1>11, <2>1, <3>1 DEF Ends
  <2>4. a.system \o Carried(u) = UpTo(i + 1)
    BY <1>9, <2>1
  <2> QED
    BY <1>14, <2>1, <2>2, <2>3, <2>4
<1>12. CASE ~led /\ m.role # "tool"
  <2> DEFINE w == Wire(m.role, <<i + 1>>)
             u == Append(ws, w)
  <2>1. w \in WireMessage /\ w.of = <<i + 1>>
    <3> DEFINE q == <<i + 1>>
    <3>1. m.role \in Roles /\ q \in Seq(Nat)
      BY <1>1, RoleKnown
    <3> HIDE DEF q, m
    <3>2. Wire(m.role, q) \in WireMessage /\ Wire(m.role, q).of = q
      BY <3>1 DEF Wire, WireMessage
    <3> QED
      BY <3>2 DEF q
  <2>2. Folded(s, i + 1, u)
    BY <1>1, <1>2, <1>12, FoldedPlain
  <2>3. b.system = a.system /\ b.converted = u
    BY <1>4, <1>12
  <2>4. Carried(u) = Carried(ws) \o <<i + 1>>
    BY <1>2, <2>1, CarriedAppend
  <2> HIDE DEF w
  <2>5. u \in Seq(WireMessage) /\ Len(u) >= 1 /\ u[Len(u)] = w
    BY <1>2, <2>1
  <2> HIDE DEF u
  <2>6. Ends(s, i + 1, u)
    <3>1. i + 1 # 0
      OBVIOUS
    <3>2. ~(i + 1 = 1 /\ s[1].role = "system")
      BY <1>12
    <3> QED
      BY <1>12, <2>5, <3>1, <3>2 DEF Ends, w
  <2>7. a.system \o Carried(u) = UpTo(i + 1)
    BY <1>9, <2>4, <2>5
  <2> QED
    BY <1>14, <2>2, <2>3, <2>6, <2>7
<1>13. led \/ m.role = "tool" \/ (~led /\ m.role # "tool")
  OBVIOUS
<1> QED
  BY <1>10, <1>11, <1>12, <1>13

\* toAnthropicMessages is the loop over these steps.
LEMMA AnthropicLoop ==
  ASSUME NEW s \in Seq(Message), NEW S
  PROVE  \E f : /\ f[0] = Start("anthropic")
                /\ \A i \in 1 .. Len(s) : f[i] = Converted(s, S, i, f[i - 1])
                /\ toAnthropicMessages(s, S) = f[Len(s)]
<1> DEFINE Solves(g) ==
             g = [ i \in 0 .. Len(s) |->
                     IF i = 0
                     THEN [ok |-> TRUE, breakpoints |-> 0, system |-> <<>>, converted |-> <<>>]
                     ELSE Converted(s, S, i, g[i - 1]) ]
           f == CHOOSE g : Solves(g)
<1>1. Len(s) \in Nat
  OBVIOUS
<1>2. PICK g : Runs(g, "anthropic", s, S, Len(s))
  BY <1>1, LoopExists
<1>3. Solves(g)
  BY <1>2 DEF Runs, Start, Step
<1>4. Solves(f)
  BY <1>3
<1>5. toAnthropicMessages(s, S) = f[Len(s)]
  BY DEF toAnthropicMessages, Converted
<1> HIDE DEF f
<1>6. f[0] = Start("anthropic") /\ \A i \in 1 .. Len(s) : f[i] = Converted(s, S, i, f[i - 1])
  <2>1. \A i \in 0 .. Len(s) :
          f[i] = IF i = 0
                 THEN [ok |-> TRUE, breakpoints |-> 0, system |-> <<>>, converted |-> <<>>]
                 ELSE Converted(s, S, i, f[i - 1])
    BY <1>4
  <2>2. 0 \in 0 .. Len(s) /\ \A i \in 1 .. Len(s) : i \in 0 .. Len(s) /\ i # 0
    BY <1>1
  <2> QED
    BY <2>1, <2>2 DEF Start
<1> QED
  BY <1>5, <1>6

\* So the whole transcript is converted that way.
LEMMA AnthropicConverts ==
  ASSUME NEW s, Matched(s), NEW S
  PROVE  ConvertedInv(s, S, Len(s), toAnthropicMessages(s, S))
<1>1. s \in Seq(Message) /\ Len(s) \in Nat /\ DOMAIN s = 1 .. Len(s)
  BY DEF Matched
<1>2. PICK f : /\ f[0] = Start("anthropic")
               /\ \A i \in 1 .. Len(s) : f[i] = Converted(s, S, i, f[i - 1])
               /\ toAnthropicMessages(s, S) = f[Len(s)]
  BY <1>1, AnthropicLoop
<1> DEFINE P == { i \in Nat : i <= Len(s) => ConvertedInv(s, S, i, f[i]) }
<1>3. 0 \in P
  <2> DEFINE a == [ok |-> TRUE, breakpoints |-> 0, system |-> <<>>, converted |-> <<>>]
  <2>1. <<>> \in Seq(Nat) /\ <<>> \in Seq(WireMessage)
    OBVIOUS
  <2>2. a \in AnthropicWalk
    BY <2>1 DEF AnthropicWalk
  <2>3. a.ok = TRUE /\ a.breakpoints = 0 /\ a.system = <<>> /\ a.converted = <<>> /\ f[0] = a
    BY <1>2 DEF Start
  <2> HIDE DEF a
  <2>4. Cardinality(S \cap (1 .. 0)) = 0
    <3>1. S \cap (1 .. 0) = {}
      OBVIOUS
    <3> QED
      BY <3>1, FS_EmptySet
  <2>5. 0 <= MaxCacheBreakpoints
    BY TranslationAssumption
  <2>6. <<>> \o Carried(<<>>) = UpTo(0)
    BY DEF Carried, FlattenSeq, UpTo
  <2>7. Ends(s, 0, <<>>) /\ Folded(s, 0, <<>>)
    BY DEF Ends, Folded
  <2>8. a.ok <=> a.breakpoints <= MaxCacheBreakpoints
    BY <2>3, <2>5
  <2>9. ConvertedInv(s, S, 0, a)
    BY <2>2, <2>3, <2>4, <2>6, <2>7, <2>8 DEF ConvertedInv
  <2> QED
    BY <2>3, <2>9
<1>4. ASSUME NEW i \in Nat, i \in P PROVE i + 1 \in P
  <2> SUFFICES ASSUME i + 1 <= Len(s) PROVE ConvertedInv(s, S, i + 1, f[i + 1])
    OBVIOUS
  <2>1. i <= Len(s) /\ i + 1 \in DOMAIN s /\ i + 1 \in 1 .. Len(s) /\ (i + 1) - 1 = i
    BY <1>1
  <2>2. ConvertedInv(s, S, i, f[i]) /\ f[i + 1] = Converted(s, S, i + 1, f[i])
    BY <1>2, <1>4, <2>1
  <2> QED
    BY <2>1, <2>2, ConvertedStep
<1>5. Nat \subseteq P
  <2> HIDE DEF P
  <2> QED
    BY <1>3, <1>4, Induction
<1>6. ConvertedInv(s, S, Len(s), f[Len(s)])
  BY <1>1, <1>5
<1> QED
  BY <1>2, <1>6

\* The results behind a turn are those of its calls.
LEMMA ResultsOf ==
  ASSUME NEW s, Matched(s), NEW j \in DOMAIN s, s[j].role # "tool"
  PROVE  RunBehind(s, j, Len(s)) = (j + 1) .. (j + Len(s[j].calls))
<1> DEFINE c == Len(s[j].calls)
           n == Len(s)
           next == j + 1 + c
<1>1. s \in Seq(Message) /\ n \in Nat /\ DOMAIN s = 1 .. n /\ j \in Nat /\ c \in Nat
  BY CallsType DEF Matched
<1>2. /\ next \in (j + 1) .. (n + 1)
      /\ next <= n => s[next].role # "tool"
  BY NextUnit
<1>3. \A l \in (j + 1) .. (j + c) : s[l].role = "tool"
  <2>1. CASE HasCalls(s[j])
    BY <2>1, SpanTools
  <2>2. CASE ~HasCalls(s[j])
    <3>1. c = 0
      BY <2>2, NoCalls
    <3> HIDE DEF c
    <3> QED
      BY <1>1, <3>1
  <2> QED
    BY <2>1, <2>2
<1>0. next = j + 1 + c
  OBVIOUS
<1> HIDE DEF c, n, next
<1>4. ASSUME NEW l \in RunBehind(s, j, n) PROVE l \in (j + 1) .. (j + c)
  <2>1. l \in (j + 1) .. n /\ \A m \in (j + 1) .. l : s[m].role = "tool"
    BY DEF RunBehind
  <2>2. next <= l => next \in (j + 1) .. l /\ next <= n
    BY <1>0, <1>1, <1>2, <2>1
  <2>3. ~(next <= l)
    BY <1>2, <2>1, <2>2
  <2> QED
    BY <1>0, <1>1, <2>1, <2>3
<1>5. ASSUME NEW l \in (j + 1) .. (j + c) PROVE l \in RunBehind(s, j, n)
  <2>1. l \in (j + 1) .. n /\ \A m \in (j + 1) .. l : m \in (j + 1) .. (j + c)
    BY <1>0, <1>1, <1>2
  <2> QED
    BY <1>3, <2>1 DEF RunBehind
<1>6. RunBehind(s, j, n) = (j + 1) .. (j + c)
  BY <1>4, <1>5
<1> QED
  BY <1>6 DEF c, n

\* What toAnthropicMessages makes of a history whose calls and results are paired.
LEMMA AnthropicKeeps ==
  ASSUME Matched(transcript), hinted \in SUBSET (DOMAIN transcript)
  PROVE  AnthropicWire
<1> DEFINE s == transcript
           n == Len(s)
           walk == toAnthropicMessages(s, hinted)
           wire == walk.converted
<1>1. s \in Seq(Message) /\ n \in Nat /\ DOMAIN s = 1 .. n /\ Tame(s)
  BY DEF Matched
<1>2. ConvertedInv(s, hinted, n, walk)
  BY AnthropicConverts
<1> HIDE DEF walk
<1>3. /\ walk.ok <=> Cardinality(hinted \cap (1 .. n)) <= MaxCacheBreakpoints
      /\ walk.system \o Carried(wire) = UpTo(n)
      /\ Folded(s, n, wire) /\ walk \in AnthropicWalk
  BY <1>2 DEF ConvertedInv
<1>4. wire \in Seq(WireMessage)
  BY <1>3 DEF AnthropicWalk
<1> HIDE DEF wire
<1>5. Len(wire) \in Nat /\ DOMAIN wire = 1 .. Len(wire)
  BY <1>4
<1>6. hinted \cap (1 .. n) = hinted
  BY <1>1
<1>7. ASSUME NEW k \in DOMAIN wire, wire[k].kind = "results"
      PROVE  k = Len(wire) \/ wire[k + 1].kind # "results"
  <2>1. k = Len(wire) \/ k < Len(wire)
    BY <1>5
  <2> QED
    BY <1>3, <1>7, <2>1 DEF Folded
<1> HIDE DEF s, n
<1>8. ASSUME NEW k \in DOMAIN wire, wire[k].kind # "results"
      PROVE  \E j \in 1 .. n :
               /\ wire[k] = Wire(s[j].role, <<j>>) /\ s[j].role # "tool"
               /\ j = n => k = Len(wire)
               /\ j < n => /\ k < Len(wire)
                           /\ wire[k + 1].kind = "results" <=> s[j + 1].role = "tool"
                           /\ s[j + 1].role = "tool" => ToSet(wire[k + 1].of) = RunBehind(s, j, n)
  BY <1>3, <1>8 DEF Folded
<1>9. ASSUME NEW k \in DOMAIN wire, wire[k].kind # "results"
      PROVE  LET c == s[wire[k].of[1]].calls IN
             /\ wire[k].kind = "assistant" /\ c # <<>> =>
                  /\ k < Len(wire) /\ wire[k + 1].kind = "results"
                  /\ ToSet(c) = { s[i].callID : i \in ToSet(wire[k + 1].of) }
             /\ ~(wire[k].kind = "assistant" /\ c # <<>>) =>
                  k = Len(wire) \/ wire[k + 1].kind # "results"
  <2>1. PICK j \in 1 .. n :
               /\ wire[k] = Wire(s[j].role, <<j>>) /\ s[j].role # "tool"
               /\ j = n => k = Len(wire)
               /\ j < n => /\ k < Len(wire)
                           /\ wire[k + 1].kind = "results" <=> s[j + 1].role = "tool"
                           /\ s[j + 1].role = "tool" => ToSet(wire[k + 1].of) = RunBehind(s, j, n)
    BY <1>8, <1>9
  <2> DEFINE c == s[j].calls
  <2>2. wire[k].kind = s[j].role /\ wire[k].of[1] = j
    <3>1. Wire(s[j].role, <<j>>).kind = s[j].role /\ Wire(s[j].role, <<j>>).of[1] = j
      BY WireOne
    <3> QED
      BY <2>1, <3>1
  <2>3. j \in DOMAIN s /\ Matched(s) /\ n = Len(s)
    BY <1>1 DEF s, n
  <2>4. HasCalls(s[j]) <=> wire[k].kind = "assistant" /\ c # <<>>
    BY <1>1, <2>2, <2>3 DEF Tame, HasCalls
  <2>5. RunBehind(s, j, n) = (j + 1) .. (j + Len(c)) /\ Len(c) \in Nat
    BY <1>1, <2>1, <2>3, ResultsOf, CallsType
  <2>6. CASE HasCalls(s[j])
    <3>1. Len(c) >= 1 /\ j + Len(c) <= n
      BY <1>1, <2>3, <2>6, CallsType, UnitPaired DEF Matched
    <3>2. s[j + 1].role = "tool"
      <4>1. j + 1 \in (j + 1) .. (j + Len(c))
        <5> HIDE DEF c
        <5> QED
          BY <2>5, <3>1
      <4> QED
        BY <2>3, <2>6, <4>1, SpanTools
    <3>3. j < n
      <4> HIDE DEF c
      <4> QED
        BY <1>1, <2>5, <3>1
    <3>4. /\ k < Len(wire) /\ wire[k + 1].kind = "results"
          /\ ToSet(wire[k + 1].of) = RunBehind(s, j, n)
      BY <2>1, <3>2, <3>3
    <3>5. ToSet(c) = { s[j + m].callID : m \in 1 .. Len(c) }
      BY <2>3, AnswersAll
    <3>6. ToSet(c) = { s[i].callID : i \in (j + 1) .. (j + Len(c)) }
      <4> HIDE DEF c
      <4>1. \A m \in 1 .. Len(c) : j + m \in (j + 1) .. (j + Len(c))
        BY <2>5
      <4>2. \A i \in (j + 1) .. (j + Len(c)) : i - j \in 1 .. Len(c) /\ j + (i - j) = i
        BY <2>5
      <4> QED
        BY <3>5, <4>1, <4>2
    <3> QED
      BY <2>2, <2>4, <2>5, <2>6, <3>4, <3>6
  <2>7. CASE ~HasCalls(s[j])
    <3>1. Len(c) = 0
      BY <2>7, NoCalls
    <3>2. j < n => s[j + 1].role # "tool"
      <4> HIDE DEF c
      <4>1. j + 1 + Len(c) = j + 1
        BY <3>1
      <4>2. j < n => j + 1 <= Len(s)
        BY <1>1, <2>3
      <4> QED
        BY <2>1, <2>3, <4>1, <4>2, NextUnit DEF c
    <3>3. j = n \/ j < n
      BY <1>1
    <3> QED
      BY <2>1, <2>2, <2>4, <2>7, <3>2, <3>3
  <2> QED
    BY <2>6, <2>7
<1>10. \A k \in DOMAIN wire :
         IF wire[k].kind = "assistant" /\ s[wire[k].of[1]].calls # <<>>
         THEN /\ k < Len(wire) /\ wire[k + 1].kind = "results"
              /\ ToSet(s[wire[k].of[1]].calls) = { s[i].callID : i \in ToSet(wire[k + 1].of) }
         ELSE k = Len(wire) \/ wire[k + 1].kind # "results"
  BY <1>7, <1>9
<1> QED
  BY <1>3, <1>6, <1>10 DEF AnthropicWire, UpTo, Positions, s, n, wire, walk

-----------------------------------------------------------------------------
\* What a driver accepts it also sends whole: translated for either provider,
\* every message is sent once and in order, a turn's results directly behind its
\* calls, the images of a run of results together behind it, and every cache hint
\* is counted once: for every history of any length.
THEOREM WireAlwaysKeepsExchanges == HistorySpec => []WireKeepsExchanges
<1>1. HistoryInv => WireKeepsExchanges
  <2> SUFFICES ASSUME HistoryInv PROVE WireKeepsExchanges
    OBVIOUS
  <2>1. transcript \in Seq(Message) /\ Tame(transcript)
    BY DEF HistoryInv
  <2>2. openaiAccepts(transcript) => Matched(transcript)
    BY <2>1, OpenAIRefuses DEF Matched
  <2>3. anthropicAccepts(transcript) => Matched(transcript)
    BY <2>1, AnthropicRefuses DEF Matched
  <2>4. /\ \A k \in imaged : k \in DOMAIN transcript /\ transcript[k].role = "tool"
        /\ hinted \in SUBSET (DOMAIN transcript)
    BY DEF HistoryInv
  <2>5. Matched(transcript) => OpenAIWire
    BY <2>4, OpenAIKeeps
  <2>6. Matched(transcript) => AnthropicWire
    BY <2>4, AnthropicKeeps
  <2> QED
    BY <2>2, <2>3, <2>5, <2>6 DEF WireKeepsExchanges
<1> QED
  BY <1>1, HistoryAlways, PTL

-----------------------------------------------------------------------------
(* Compaction *)

\* TokenCounter.Count returns an int.
CountersCount ==
  \A c \in Counters : \A s \in Seq(Message) : Count(c, s) \in Int /\ UnitCount(c, s) \in Int

\* The variables have their types, and counting starts with the whole history.
Shape ==
  /\ pc \in {"count", "pass", "drop", "adopt", "sent", "failed"}
  /\ start \in Histories
  /\ messages \in Seq(Message)
  /\ draft \in Seq(Message)
  /\ dropped \in Nat
  /\ counter \in Counters
  /\ budget \in Budgets
  /\ pc = "count" => messages = start

\* The draft holds messages of the history, in their order.
KeptInOrder ==
  draft # <<>> =>
    \E f \in [DOMAIN draft -> DOMAIN start] :
      /\ \A k \in DOMAIN draft : draft[k] = start[f[k]]
      /\ \A k, l \in DOMAIN draft : k < l => f[k] < f[l]

\* What is pinned in the history is kept in the draft, and pinned there.
PinsKept ==
  draft # <<>> =>
    \A i \in DOMAIN start : IsPinned(start, i) =>
      \E k \in DOMAIN draft : draft[k] = start[i] /\ IsPinned(draft, k)

\* The units of the draft are units of the history.
UnitsKept ==
  Paired(start) /\ draft # <<>> =>
    \A k \in DOMAIN draft : \E p \in DOMAIN start : Unit(draft, k) = Unit(start, p)

\* The inductive invariant of the two loops.
DraftInv == Shape /\ KeptInOrder /\ DraftLegal /\ PinsKept /\ OldestFirst /\ UnitsKept

\* A history is a well-formed transcript whose messages differ.
LEMMA StartKnown ==
  ASSUME Shape
  PROVE  start \in Seq(Message) /\ WellFormed(start) /\ IsInjective(start) /\ Tame(start)
BY CompactionAssumption DEF Shape, WellFormed, Tame

\* enforceBudget hands the handler the whole history, which keeps the invariant.
LEMMA WholeDraft == ASSUME Shape', draft' = start' PROVE DraftInv'
<1>1. KeptInOrder'
  <2> DEFINE f == [k \in DOMAIN start' |-> k]
  <2>1. f \in [DOMAIN draft' -> DOMAIN start'] /\ \A k \in DOMAIN draft' : f[k] = k
    OBVIOUS
  <2> HIDE DEF f
  <2> QED
    BY <2>1 DEF KeptInOrder
<1>2. DraftLegal' /\ PinsKept'
  BY DEF DraftLegal, PinsKept
<1>3. OldestFirst'
  BY DEF OldestFirst
<1>4. UnitsKept'
  BY DEF UnitsKept
<1> QED
  BY <1>1, <1>2, <1>3, <1>4 DEF DraftInv

\* The draft holds messages of the history, so its calls are well placed too.
LEMMA TameDraft == ASSUME DraftInv PROVE Tame(draft)
<1>1. Tame(start)
  BY StartKnown DEF DraftInv
<1>2. CASE draft = <<>>
  BY <1>2 DEF Tame
<1>3. CASE draft # <<>>
  <2>1. PICK f \in [DOMAIN draft -> DOMAIN start] : \A k \in DOMAIN draft : draft[k] = start[f[k]]
    BY <1>3 DEF DraftInv, KeptInOrder
  <2> QED
    BY <1>1, <2>1 DEF Tame
<1> QED
  BY <1>2, <1>3

\* IsPinned pins nothing anew: what it pins in a draft was pinned in the history.
LEMMA PinnedFromStart ==
  ASSUME DraftInv, Paired(start), NEW k \in DOMAIN draft, NEW i \in DOMAIN start,
         draft[k] = start[i], IsPinned(draft, k)
  PROVE  IsPinned(start, i)
<1>1. /\ start \in Seq(Message) /\ WellFormed(start) /\ IsInjective(start) /\ Tame(start)
      /\ draft \in Seq(Message) /\ draft # <<>> /\ Paired(draft) /\ Tame(draft)
  BY StartKnown, TameDraft DEF DraftInv, Shape, DraftLegal
<1>2. PICK f \in [DOMAIN draft -> DOMAIN start] :
        /\ \A l \in DOMAIN draft : draft[l] = start[f[l]]
        /\ \A l, m \in DOMAIN draft : l < m => f[l] < f[m]
  BY <1>1 DEF DraftInv, KeptInOrder
<1>3. \A l \in DOMAIN draft : \A j \in DOMAIN start : draft[l] = start[j] => f[l] = j
  BY <1>1, <1>2 DEF IsInjective
<1>4. f[k] = i
  BY <1>3
<1>5. /\ \A l \in DOMAIN draft : /\ l \in Nat /\ l >= 1
                                /\ f[l] \in Nat /\ f[l] >= 1 /\ f[l] \in DOMAIN start
      /\ \A j \in DOMAIN start : j \in Nat
  BY <1>1, <1>2
<1>6. \A l, m \in DOMAIN draft : l < m <=> f[l] < f[m]
  BY <1>2, <1>5
<1>7. CASE IsLeadingSystem(draft, k)
  <2>1. draft[k].role = "system" /\ ~IsInjection(draft[k])
    BY <1>7 DEF IsLeadingSystem
  <2>2. i = 1
    BY <1>1, <2>1 DEF WellFormed
  <2>3. IsLeadingSystem(start, i)
    BY <2>1, <2>2 DEF IsLeadingSystem
  <2> QED
    BY <2>3 DEF IsPinned
<1>8. CASE IsInjection(draft[k]) /\ k > lastAnsweringAssistantIndex(draft)
  <2> DEFINE a == lastAnsweringAssistantIndex(start)
  <2>1. a \in 0 .. Len(start) /\ (a > 0 => start[a].role = "assistant" /\ ~IsInjection(start[a]))
    BY <1>1, LastAnswer
  <2>2. \A l \in DOMAIN draft : draft[l].role = "assistant" /\ ~IsInjection(draft[l]) => l < k
    BY <1>1, <1>8, LastAnswer
  <2> SUFFICES ASSUME ~IsPinned(start, i), ~(i > a) PROVE FALSE
    BY <1>8 DEF IsPinned
  <2> HIDE DEF a
  <2>3. /\ a \in DOMAIN start /\ a # i /\ i < a
        /\ start[a].role = "assistant" /\ ~IsInjection(start[a])
    BY <1>1, <1>5, <1>8, <2>1
  <2>4. CASE \E l \in DOMAIN draft : draft[l] = start[a]
    <3>1. PICK l \in DOMAIN draft : draft[l] = start[a]
      BY <2>4
    <3>2. l < k /\ f[l] = a
      BY <1>3, <2>2, <2>3, <3>1
    <3> QED
      BY <1>2, <1>4, <1>5, <2>3, <3>1, <3>2
  <2>5. CASE \A l \in DOMAIN draft : draft[l] # start[a]
    BY <1>1, <2>3, <2>5 DEF DraftInv, OldestFirst
  <2> QED
    BY <2>4, <2>5
<1>9. CASE k = lastConversationalUserIndex(draft)
  <2> DEFINE u == lastConversationalUserIndex(start)
  <2>1. /\ u \in 0 .. Len(start) /\ (u > 0 => IsUserTurn(start[u]))
        /\ \A l \in DOMAIN start : IsUserTurn(start[l]) => l <= u
    BY <1>1, LastUser
  <2>2. IsUserTurn(draft[k]) /\ \A l \in DOMAIN draft : IsUserTurn(draft[l]) => l <= k
    <3> DEFINE v == lastConversationalUserIndex(draft)
    <3>1. /\ v > 0 => IsUserTurn(draft[v])
          /\ \A l \in DOMAIN draft : IsUserTurn(draft[l]) => l <= v
      BY <1>1, LastUser
    <3>2. v = k /\ k > 0
      BY <1>5, <1>9
    <3> HIDE DEF v
    <3> QED
      BY <3>1, <3>2
  <2>3. i <= u /\ u \in DOMAIN start /\ IsUserTurn(start[u]) /\ IsPinned(start, u)
    BY <1>1, <1>5, <2>1, <2>2 DEF IsPinned
  <2> HIDE DEF u
  <2>4. PICK l \in DOMAIN draft : draft[l] = start[u]
    BY <1>1, <2>3 DEF DraftInv, PinsKept
  <2>5. l <= k /\ f[l] = u
    BY <1>3, <2>2, <2>3, <2>4
  <2>6. u = i
    BY <1>4, <1>5, <1>6, <2>3, <2>4, <2>5
  <2> QED
    BY <2>3, <2>6
<1>10. CASE isLiveToolExchange(draft, k)
  <2>1. PICK a \in DOMAIN draft : Live(draft, a, k)
    BY <1>1, <1>10, LiveExchange
  <2> DEFINE b == f[a]
  <2>2. b \in DOMAIN start /\ b \in Nat /\ draft[a] = start[b] /\ HasCalls(start[b])
    BY <1>2, <1>5, <2>1 DEF Live
  <2> HIDE DEF b
  \* The pins of the history's own live exchange and last user turn are in the draft.
  <2>3. ASSUME NEW j \in DOMAIN start, IsUserTurn(start[j]) PROVE j <= b
    <3> DEFINE u == lastConversationalUserIndex(start)
    <3>1. /\ u \in 0 .. Len(start) /\ (u > 0 => IsUserTurn(start[u])) /\ j <= u
      BY <1>1, <2>3, LastUser
    <3>2. u \in DOMAIN start /\ IsUserTurn(start[u]) /\ IsPinned(start, u)
      BY <1>1, <1>5, <3>1 DEF IsPinned
    <3> HIDE DEF u
    <3>3. PICK l \in DOMAIN draft : draft[l] = start[u]
      BY <1>1, <3>2 DEF DraftInv, PinsKept
    <3>4. l <= a /\ f[l] = u
      BY <1>3, <2>1, <3>2, <3>3 DEF Live
    <3>5. u <= b
      BY <1>5, <1>6, <2>1, <3>3, <3>4 DEF b
    <3>6. j \in Nat /\ u \in Nat /\ j <= u
      BY <1>5, <3>1, <3>2
    <3> QED
      BY <2>2, <3>5, <3>6
  <2>4. ASSUME NEW j \in DOMAIN start, HasCalls(start[j]) PROVE j <= b
    <3> DEFINE I == { l \in 1 .. Len(start) : HasCalls(start[l]) }
    <3>1. Len(start) \in Nat /\ I \in SUBSET (0 .. Len(start)) /\ j \in I
      BY <1>1, <2>4
    <3>2. PICK c \in I : \A y \in I : y <= c
      BY <3>1, BoundedMax
    <3>3. c \in DOMAIN start /\ c \in Nat /\ j <= c /\ HasCalls(start[c])
      BY <1>1, <3>1, <3>2
    <3>4. \A l \in DOMAIN start : HasCalls(start[l]) => l <= c
      BY <1>1, <3>2
    <3>5. b <= c
      BY <2>2, <3>4
    <3>6. Live(start, c, c)
      BY <1>5, <2>2, <2>3, <3>3, <3>4, <3>5 DEF Live
    <3>7. IsPinned(start, c)
      BY <1>1, <3>3, <3>6, LiveExchange DEF IsPinned
    <3>8. PICK l \in DOMAIN draft : draft[l] = start[c]
      BY <1>1, <3>3, <3>7 DEF DraftInv, PinsKept
    <3>9. l <= a /\ f[l] = c
      BY <1>3, <2>1, <3>3, <3>8 DEF Live
    <3>10. c <= b
      BY <1>5, <1>6, <2>1, <3>8, <3>9 DEF b
    <3>11. j \in Nat /\ c \in Nat /\ j <= c
      BY <1>5, <3>3
    <3> QED
      BY <2>2, <3>10, <3>11
  <2>5. b <= i
    BY <1>4, <1>5, <1>6, <2>1 DEF b, Live
  <2>6. ASSUME NEW l \in (b + 1) .. i PROVE start[l].role = "tool"
    <3>1. a # k /\ draft[k].role = "tool" /\ b < i
      <4>1. a < k
        BY <1>4, <1>5, <2>1, <2>2 DEF b, Live
      <4>2. k \in (a + 1) .. k
        BY <1>5, <2>1, <4>1
      <4> QED
        BY <1>5, <2>1, <2>2, <4>1, <4>2 DEF Live
    <3>2. PICK j \in 1 .. (i - 1) : HasCalls(start[j]) /\ i <= j + Len(start[j].calls)
      BY <3>1 DEF Paired
    <3>3. j \in DOMAIN start /\ j \in Nat /\ j <= b /\ j < i
      BY <1>1, <1>5, <2>4, <3>2
    <3>4. /\ Len(start[j].calls) \in Nat
          /\ \A m \in (j + 1) .. (j + Len(start[j].calls)) : start[m].role = "tool"
      BY <1>1, <3>2, <3>3, UnitPaired
    <3>5. l \in (j + 1) .. (j + Len(start[j].calls))
      BY <1>5, <2>2, <3>2, <3>3, <3>4
    <3> QED
      BY <3>4, <3>5
  <2>7. Live(start, b, i)
    BY <2>2, <2>3, <2>4, <2>5, <2>6 DEF Live
  <2> QED
    BY <1>1, <2>2, <2>7, LiveExchange DEF IsPinned
<1> QED
  BY <1>7, <1>8, <1>9, <1>10 DEF IsPinned

\* Evicting the first unit that may go keeps the invariant.
LEMMA DropKeepsDraft ==
  ASSUME DraftInv, dropUnit PROVE DraftInv' /\ dropped' # 0
<1> DEFINE d == firstDroppableUnit(draft)
           t == DropUnit(draft, d)
           From(k) == Source(draft, d, k)
<1>1. /\ d # 0 /\ Len(draft) > 1 /\ draft' = t /\ pc = "drop"
      /\ dropped' = dropped + (unitEnd(draft, d) - d)
      /\ pc' \in {"pass", "drop"} /\ UNCHANGED <<start, messages, counter, budget>>
  BY DEF dropUnit, WantsDrop
<1>2. draft \in Seq(Message) /\ draft # <<>> /\ dropped \in Nat
  BY <1>1 DEF DraftInv, Shape
<1>3. d \in DOMAIN draft /\ ~IsPinned(draft, d) /\ \A k \in 1 .. (d - 1) : IsPinned(draft, k)
  BY <1>1, <1>2, FirstDroppable
<1>4. unitEnd(draft, d) \in (d + 1) .. (Len(draft) + 1)
  BY <1>2, <1>3, UnitEndRange
<1>5. /\ t \in Seq(Message)
      /\ \A k \in DOMAIN t : From(k) \in DOMAIN draft \ Gone(draft, d) /\ t[k] = draft[From(k)]
      /\ \A k, l \in DOMAIN t : k < l <=> From(k) < From(l)
      /\ \A q \in DOMAIN draft \ Gone(draft, d) : \E k \in DOMAIN t : From(k) = q /\ t[k] = draft[q]
  BY <1>2, <1>3, Eviction
<1>6. Tame(draft)
  BY TameDraft
<1>7. Paired(start) => Evictable(draft, d)
  BY <1>2, <1>3, <1>6 DEF Evictable, DraftInv, DraftLegal
<1>8. PICK f \in [DOMAIN draft -> DOMAIN start] :
        /\ \A l \in DOMAIN draft : draft[l] = start[f[l]]
        /\ \A l, m \in DOMAIN draft : l < m => f[l] < f[m]
  BY <1>2 DEF DraftInv, KeptInOrder
<1>9. \A q \in DOMAIN draft : IsPinned(draft, q) =>
        \E k \in DOMAIN t : t[k] = draft[q] /\ IsPinned(t, k)
  BY <1>2, <1>3, <1>6, PinsStay
<1>10. Paired(start) => Paired(t)
  BY <1>7, PairsStay
<1>11. Paired(start) => \A k \in DOMAIN t : \E m \in DOMAIN draft : Unit(t, k) = Unit(draft, m)
  BY <1>7, UnitsStay
<1>12. Shape' /\ dropped' # 0
  <2>1. dropped' \in Nat /\ dropped' # 0
    BY <1>1, <1>2, <1>3, <1>4
  <2> QED
    BY <1>1, <1>5, <2>1 DEF DraftInv, Shape
<1> HIDE DEF t
<1>13. KeptInOrder'
  <2> DEFINE g == [k \in DOMAIN t |-> f[From(k)]]
  <2>1. g \in [DOMAIN t -> DOMAIN start] /\ \A k \in DOMAIN t : g[k] = f[From(k)]
    BY <1>5
  <2> HIDE DEF g, From
  <2>2. \A k \in DOMAIN t : t[k] = start[g[k]]
    BY <1>5, <1>8, <2>1
  <2>3. \A k, l \in DOMAIN t : k < l => g[k] < g[l]
    BY <1>5, <1>8, <2>1
  <2> QED
    BY <1>1, <2>1, <2>2, <2>3 DEF KeptInOrder
<1>14. DraftLegal'
  BY <1>1, <1>10 DEF DraftLegal
<1>15. PinsKept'
  <2>1. \A i \in DOMAIN start : IsPinned(start, i) =>
          \E q \in DOMAIN draft : draft[q] = start[i] /\ IsPinned(draft, q)
    BY <1>2 DEF DraftInv, PinsKept
  <2>2. \A i \in DOMAIN start : IsPinned(start, i) =>
          \E k \in DOMAIN t : t[k] = start[i] /\ IsPinned(t, k)
    BY <1>9, <2>1
  <2> QED
    BY <1>1, <2>2 DEF PinsKept
<1>16. UnitsKept'
  <2>1. Paired(start) =>
          \A m \in DOMAIN draft : \E p \in DOMAIN start : Unit(draft, m) = Unit(start, p)
    BY <1>2 DEF DraftInv, UnitsKept
  <2>2. Paired(start) => \A k \in DOMAIN t : \E p \in DOMAIN start : Unit(t, k) = Unit(start, p)
    BY <1>11, <2>1
  <2> QED
    BY <1>1, <2>2 DEF UnitsKept
<1>17. OldestFirst'
  <2> SUFFICES ASSUME Paired(start), NEW i \in DOMAIN start, NEW j \in DOMAIN start, i < j,
                      ~IsPinned(start, i), \A k \in DOMAIN t : t[k] # start[j],
                      NEW k \in DOMAIN t, t[k] = start[i]
               PROVE  FALSE
    BY <1>1 DEF OldestFirst
  <2> HIDE DEF From
  <2>1. From(k) \in DOMAIN draft /\ From(k) \notin Gone(draft, d) /\ draft[From(k)] = start[i]
    BY <1>5
  <2>2. CASE \A l \in DOMAIN draft : draft[l] # start[j]
    BY <1>2, <2>1, <2>2 DEF DraftInv, OldestFirst
  <2>3. CASE \E l \in DOMAIN draft : draft[l] = start[j]
    <3>1. PICK q \in DOMAIN draft : draft[q] = start[j]
      BY <2>3
    <3>2. q \in Gone(draft, d)
      BY <1>5, <3>1
    <3>3. f[q] = j /\ f[From(k)] = i
      BY <1>8, <2>1, <3>1, StartKnown DEF IsInjective, DraftInv
    <3>4. /\ q \in Nat /\ From(k) \in Nat /\ From(k) >= 1 /\ d \in Nat
          /\ start \in Seq(Message) /\ i \in Nat /\ j \in Nat
      BY <1>2, <1>3, <2>1, <3>1, StartKnown DEF DraftInv
    <3>5. ~(q < From(k)) /\ q # From(k)
      BY <1>8, <2>1, <3>1, <3>3, <3>4
    <3>6. q < unitEnd(draft, d) /\ d <= q
      BY <1>2, <1>3, <1>4, <3>2, <3>4 DEF Gone
    <3>7. From(k) < d
      <4>1. unitEnd(draft, d) \in Nat
        BY <1>2, <1>3, <1>4, <3>4
      <4>2. From(k) < unitEnd(draft, d)
        BY <3>4, <3>5, <3>6, <4>1
      <4>3. ~(d <= From(k) /\ From(k) <= unitEnd(draft, d) - 1)
        BY <2>1, <3>4, <4>1 DEF Gone
      <4> QED
        BY <3>4, <4>1, <4>2, <4>3
    <3>8. IsPinned(draft, From(k))
      BY <1>3, <3>4, <3>7
    <3> QED
      BY <2>1, <3>8, PinnedFromStart
  <2> QED
    BY <2>2, <2>3
<1> QED
  BY <1>12, <1>13, <1>14, <1>15, <1>16, <1>17 DEF DraftInv

\* So does every other step of the loops.
LEMMA StepKeepsDraft == DraftInv /\ [Next]_vars => DraftInv'
<1> SUFFICES ASSUME DraftInv, [Next]_vars PROVE DraftInv'
  OBVIOUS
<1>0. ASSUME UNCHANGED <<start, draft>>, Shape' PROVE DraftInv'
  BY <1>0 DEF DraftInv, KeptInOrder, DraftLegal, PinsKept, OldestFirst, UnitsKept
<1>1. CASE enforceBudget
  <2>1. CASE draft' = messages
    <3>1. draft' = start' /\ Shape'
      BY <1>1, <2>1 DEF enforceBudget, DraftInv, Shape
    <3> QED
      BY <3>1, WholeDraft
  <2>2. CASE draft' = draft
    BY <1>0, <1>1, <2>2 DEF enforceBudget, DraftInv, Shape
  <2> QED
    BY <1>1, <2>1, <2>2 DEF enforceBudget
<1>2. CASE startPass \/ handlerDone \/ endPass \/ counterFails
  BY <1>0, <1>2 DEF startPass, handlerDone, endPass, counterFails, DraftInv, Shape
<1>3. CASE dropUnit
  BY <1>3, DropKeepsDraft
<1>4. CASE adopt
  BY <1>0, <1>4 DEF adopt, DraftInv, Shape
<1>5. CASE UNCHANGED vars
  BY <1>0, <1>5 DEF vars, DraftInv, Shape
<1> QED
  BY <1>1, <1>2, <1>3, <1>4, <1>5 DEF Next

\* A round starts in the invariant.
LEMMA DraftStarts == Init => DraftInv
<1> SUFFICES ASSUME Init PROVE DraftInv
  OBVIOUS
<1>1. Shape
  BY CompactionAssumption DEF Init, Shape
<1> QED
  BY <1>1 DEF Init, DraftInv, KeptInOrder, DraftLegal, PinsKept, OldestFirst, UnitsKept

\* In every state of enforceBudget and DropOldestUnits the draft is a legal part of
\* the history that holds its pins.
THEOREM Invariant == Spec => []DraftInv
  BY DraftStarts, StepKeepsDraft, PTL DEF Spec

\* The running estimate stays a number, although it may fall below 0.
LEMMA EstimateCounts ==
  CountersCount /\ DraftInv /\ estimate \in Int /\ [Next]_vars => estimate' \in Int
<1> SUFFICES ASSUME CountersCount, DraftInv, estimate \in Int, [Next]_vars PROVE estimate' \in Int
  OBVIOUS
<1>1. draft \in Seq(Message) /\ counter \in Counters
  BY DEF DraftInv, Shape
<1>2. CASE startPass
  BY <1>1, <1>2 DEF startPass, CountersCount
<1>3. CASE dropUnit
  <2> DEFINE d == firstDroppableUnit(draft)
             unit == SubSeq(draft, d, unitEnd(draft, d) - 1)
  <2>1. d # 0 /\ estimate' = estimate - UnitCount(counter, unit)
    BY <1>3 DEF dropUnit
  <2>2. d \in DOMAIN draft
    BY <1>1, <2>1, FirstDroppable
  <2>3. unitEnd(draft, d) \in (d + 1) .. (Len(draft) + 1)
    BY <1>1, <2>2, UnitEndRange
  <2>4. unit \in Seq(Message)
    BY <1>1, <2>2, <2>3
  <2> HIDE DEF unit
  <2>5. UnitCount(counter, unit) \in Int
    BY <1>1, <2>4 DEF CountersCount
  <2> QED
    BY <2>1, <2>5
<1>4. CASE UNCHANGED estimate
  BY <1>4
<1> QED
  BY <1>2, <1>3, <1>4 DEF Next, enforceBudget, handlerDone, endPass, adopt, counterFails, vars

\* At every point of DropOldestUnits' loops, for every history, counter and budget,
\* no call or result is orphaned, no pin is lost, and nothing leaves while
\* something older that may go stays.
THEOREM EvictionIsSound == CountersCount => (Spec => []EvictionSound)
<1> SUFFICES ASSUME CountersCount PROVE Spec => []EvictionSound
  OBVIOUS
<1>1. Init => estimate \in Int
  BY DEF Init
<1>2. DraftInv /\ estimate \in Int /\ [Next]_vars => (estimate \in Int)'
  BY EstimateCounts
<1>3. DraftInv /\ estimate \in Int => EvictionSound
  <2> SUFFICES ASSUME DraftInv, estimate \in Int PROVE EvictionSound
    OBVIOUS
  <2>1. TypeOK
    BY StartKnown DEF TypeOK, DraftInv, Shape
  <2>2. PinsSurvive
    BY DEF DraftInv, PinsKept, PinsSurvive
  <2> QED
    BY <2>1, <2>2 DEF EvictionSound, DraftInv
<1> QED
  BY <1>1, <1>2, <1>3, Invariant, PTL DEF Spec

\* A transcript with which compaction may end.
Fits(s) == ~IsOverBudget(s) \/ firstDroppableUnit(s) = 0 \/ Len(s) <= 1

\* A pass starts over budget by the authoritative count, and the handler ends only
\* with a transcript that fits or cannot shrink.
FitInv ==
  /\ pc = "drop" /\ dropped = 0 => IsOverBudget(draft) /\ estimate > budget
  /\ pc = "adopt" => Fits(draft)
  /\ pc = "sent" => Fits(messages)

\* What enforceBudget sends fits by the authoritative count, or nothing more may be
\* evicted: the estimate of dropUntilEstimatedToFit never ends compaction early.
\* Holds whatever the counter returns.
THEOREM WhatIsSentFits == Spec => []SentFits
<1>1. Init => FitInv
  BY DEF Init, FitInv
<1>2. DraftInv /\ FitInv /\ [Next]_vars => FitInv'
  <2> SUFFICES ASSUME DraftInv, FitInv, [Next]_vars PROVE FitInv'
    OBVIOUS
  <2>1. Len(draft) \in Nat
    BY DEF DraftInv, Shape
  <2>2. CASE enforceBudget
    BY <2>2 DEF enforceBudget, FitInv, Fits, IsOverBudget
  <2>3. CASE startPass
    BY <2>3 DEF startPass, FitInv, IsOverBudget
  <2>4. CASE handlerDone
    BY <2>1, <2>4 DEF handlerDone, FitInv, Fits, IsOverBudget
  <2>5. CASE dropUnit
    <3>1. dropped' # 0 /\ pc' \in {"pass", "drop"}
      BY <2>5, DropKeepsDraft DEF dropUnit
    <3> QED
      BY <3>1 DEF FitInv
  <2>6. CASE endPass
    BY <2>1, <2>6 DEF endPass, FitInv, Fits, IsOverBudget, WantsDrop
  <2>7. CASE adopt
    BY <2>7 DEF adopt, FitInv, Fits, IsOverBudget
  <2>8. CASE counterFails
    BY <2>8 DEF counterFails, FitInv
  <2>9. CASE UNCHANGED vars
    BY <2>9 DEF vars, FitInv, Fits, IsOverBudget
  <2> QED
    BY <2>2, <2>3, <2>4, <2>5, <2>6, <2>7, <2>8, <2>9 DEF Next
<1>3. FitInv => SentFits
  BY DEF FitInv, Fits, SentFits
<1> QED
  BY <1>1, <1>2, <1>3, Invariant, PTL DEF Spec

\* A transcript that does not start inside an exchange.
Whole(s) == Len(s) <= 1 \/ ~startsMidExchange(s)

\* Between passes the draft is the whole history or starts at an exchange.
WholeInv ==
  ChargesEveryUnit /\ Paired(start) =>
    /\ pc \in {"pass", "adopt"} /\ draft # start => Whole(draft)
    /\ pc = "drop" /\ dropped = 0 /\ draft # start => Whole(draft)
    /\ pc = "sent" /\ messages # start => Whole(messages)

\* Where nothing may be evicted no exchange is cut.
LEMMA NothingCut ==
  ASSUME NEW s, firstDroppableUnit(s) = 0 PROVE Whole(s)
BY DEF Whole, startsMidExchange

\* A counter that charges for every unit of the history charges for the evicted
\* one, which is one of them: the pass goes on.
LEMMA UnitCharged ==
  ASSUME CountersCount, DraftInv, ChargesEveryUnit, Paired(start), dropUnit
  PROVE  pc' = "drop"
<1> DEFINE d == firstDroppableUnit(draft)
           unit == SubSeq(draft, d, unitEnd(draft, d) - 1)
<1>1. d # 0 /\ Len(draft) > 1 /\ pc' = IF UnitCount(counter, unit) <= 0 THEN "pass" ELSE "drop"
  BY DEF dropUnit, WantsDrop
<1>2. draft \in Seq(Message) /\ counter \in Counters /\ draft # <<>>
  BY <1>1 DEF DraftInv, Shape
<1>3. d \in DOMAIN draft
  BY <1>1, <1>2, FirstDroppable
<1>4. unitEnd(draft, d) \in (d + 1) .. (Len(draft) + 1)
  BY <1>2, <1>3, UnitEndRange
<1>5. unit \in Seq(Message)
  BY <1>2, <1>3, <1>4
<1>6. PICK p \in DOMAIN start : Unit(draft, d) = Unit(start, p)
  BY <1>2, <1>3 DEF DraftInv, UnitsKept
<1>7. UnitCount(counter, unit) > 0
  BY <1>6 DEF ChargesEveryUnit, Unit
<1> HIDE DEF unit
<1>8. UnitCount(counter, unit) \in Int
  BY <1>2, <1>5 DEF CountersCount
<1> QED
  BY <1>1, <1>7, <1>8

\* With such a counter a transcript from which anything was evicted is sent only
\* once the whole of the cut exchange is gone.
THEOREM ExchangesAlwaysLeaveWhole == CountersCount => (Spec => []ExchangesLeaveWhole)
<1> SUFFICES ASSUME CountersCount PROVE Spec => []ExchangesLeaveWhole
  OBVIOUS
<1>1. Init => WholeInv
  BY DEF Init, WholeInv
<1>2. DraftInv /\ WholeInv /\ [Next]_vars => WholeInv'
  <2> SUFFICES ASSUME DraftInv, WholeInv, [Next]_vars, (ChargesEveryUnit /\ Paired(start))'
               PROVE  WholeInv'
    BY DEF WholeInv
  <2>1. UNCHANGED <<start, counter>>
    BY DEF Next, enforceBudget, startPass, handlerDone, dropUnit, endPass, adopt, counterFails, vars
  <2>2. ChargesEveryUnit /\ Paired(start)
    BY <2>1 DEF ChargesEveryUnit
  <2>3. Len(draft) \in Nat /\ (pc = "count" => messages = start)
    BY DEF DraftInv, Shape
  <2>4. /\ pc \in {"pass", "adopt"} /\ draft # start => Whole(draft)
        /\ pc = "drop" /\ dropped = 0 /\ draft # start => Whole(draft)
        /\ pc = "sent" /\ messages # start => Whole(messages)
    BY <2>2 DEF WholeInv
  <2>5. CASE enforceBudget
    BY <2>3, <2>5 DEF enforceBudget, WholeInv
  <2>6. CASE startPass
    BY <2>4, <2>6 DEF startPass, WholeInv
  <2>7. CASE handlerDone
    BY <2>4, <2>7 DEF handlerDone, WholeInv
  <2>8. CASE dropUnit
    <3>1. dropped' # 0 /\ pc' = "drop"
      BY <2>2, <2>8, DropKeepsDraft, UnitCharged
    <3> QED
      BY <3>1 DEF WholeInv
  <2>9. CASE endPass
    <3>1. UNCHANGED <<start, draft>> /\ pc' \in {"adopt", "pass"} /\ pc = "drop"
      BY <2>9 DEF endPass
    <3>2. draft # start => Whole(draft)
      <4>1. CASE dropped = 0
        BY <2>4, <3>1, <4>1
      <4>2. CASE dropped # 0 /\ ~WantsDrop
        <5>1. dropped > 0
          BY <4>2 DEF DraftInv, Shape
        <5> QED
          BY <2>3, <4>2, <5>1 DEF WantsDrop, Whole
      <4>3. CASE firstDroppableUnit(draft) = 0
        BY <4>3, NothingCut
      <4> QED
        BY <2>9, <4>1, <4>2, <4>3 DEF endPass
    <3> QED
      BY <3>1, <3>2 DEF WholeInv
  <2>10. CASE adopt
    BY <2>4, <2>10 DEF adopt, WholeInv
  <2>11. CASE counterFails
    BY <2>11 DEF counterFails, WholeInv
  <2>12. CASE UNCHANGED vars
    BY <2>4, <2>12 DEF vars, WholeInv
  <2> QED
    BY <2>5, <2>6, <2>7, <2>8, <2>9, <2>10, <2>11, <2>12 DEF Next
<1>3. WholeInv => ExchangesLeaveWhole
  BY DEF WholeInv, Whole, ExchangesLeaveWhole
<1> QED
  BY <1>1, <1>2, <1>3, Invariant, PTL DEF Spec
=============================================================================

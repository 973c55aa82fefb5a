-------------------------- MODULE DriverStreamsProofs --------------------------
(***************************************************************************)
(* One call of any of the three drivers, with any number of chunks, events *)
(* and Anthropic blocks, and the two reasoning blocks that Labels names of *)
(* OpenAI's: the drivers implement DriverContract, the usage is kept, the  *)
(* finish reasons agree, and the answer is told and kept whole.            *)
(***************************************************************************)
EXTENDS DriverStreams, TLAPS, SequenceTheorems, FiniteSetTheorems, WellFoundedInduction

-----------------------------------------------------------------------------
(* Sequences. *)

\* A sequence of whatever elements: the deltas of three drivers have no common type.
Sequential(s) == \E S : s \in Seq(S)

\* A set that holds 0 and the successor of its every number holds every number.
LEMMA Induction ==
  ASSUME NEW S, 0 \in S, \A i \in Nat : i \in S => i + 1 \in S
  PROVE  Nat \subseteq S
<1> DEFINE R == OpToRel(<, Nat)
           T == Nat \ S
<1>1. IsWellFoundedOn(R, Nat)
  BY NatLessThanWellFounded
<1>2. \A x, y \in Nat : y < x => <<y, x>> \in R
  BY DEF OpToRel
<1> HIDE DEF R
<1>3. SUFFICES ASSUME T # {} PROVE FALSE
  OBVIOUS
<1>4. PICK x \in T : \A y \in T : ~(<<y, x>> \in R)
  BY <1>1, <1>3, WFMin
<1>5. x # 0
  BY <1>4
<1>6. x - 1 \in Nat /\ x - 1 < x /\ (x - 1) + 1 = x
  BY <1>4, <1>5
<1>7. x - 1 \notin S
  BY <1>4, <1>6
<1> QED
  BY <1>2, <1>4, <1>6, <1>7

\* The empty sequence, with which every call starts.
LEMMA NoneSeq == Sequential(<<>>) /\ Len(<<>>) = 0
<1>1. <<>> \in Seq({})
  BY EmptySeq
<1> QED
  BY <1>1 DEF Sequential

\* A sequence of one delta.
LEMMA OneSeq ==
  ASSUME NEW x
  PROVE  Sequential(<<x>>) /\ Len(<<x>>) = 1 /\ <<x>>[1] = x /\ <<x>> # <<>>
<1>1. <<x>> \in Seq({x}) /\ Len(<<x>>) = 1 /\ <<x>>[1] = x
  OBVIOUS
<1>2. <<x>> # <<>>
  OBVIOUS
<1> QED
  BY <1>1, <1>2 DEF Sequential

\* A sequence is empty exactly when its length is 0.
LEMMA SeqLen ==
  ASSUME NEW s, Sequential(s)
  PROVE  Len(s) \in Nat /\ (s = <<>> <=> Len(s) = 0)
<1>1. PICK S : s \in Seq(S)
  BY DEF Sequential
<1> QED
  BY <1>1

\* What is left once a driver has delivered its first pending delta.
LEMMA TailSeq ==
  ASSUME NEW s, Sequential(s), s # <<>>
  PROVE  /\ Sequential(Tail(s)) /\ Len(Tail(s)) = Len(s) - 1
         /\ Head(s) = s[1]
         /\ \A i \in 1 .. Len(Tail(s)) : Tail(s)[i] = s[i + 1]
<1>1. PICK S : s \in Seq(S)
  BY DEF Sequential
<1>2. Tail(s) \in Seq(S)
  BY <1>1
<1> QED
  BY <1>1, <1>2 DEF Sequential

\* The deltas delivered so far grow at their end.
LEMMA AppendSeq ==
  ASSUME NEW s, Sequential(s), NEW x
  PROVE  /\ Sequential(Append(s, x)) /\ Len(Append(s, x)) = Len(s) + 1
         /\ Append(s, x)[Len(s) + 1] = x
         /\ \A i \in 1 .. Len(s) : Append(s, x)[i] = s[i]
         /\ SubSeq(Append(s, x), 1, Len(s)) = s
<1>1. PICK S : s \in Seq(S)
  BY DEF Sequential
<1> DEFINE T == S \cup {x}
<1>2. s \in Seq(T) /\ x \in T
  BY <1>1
<1> HIDE DEF T
<1>3. Append(s, x) \in Seq(T) /\ Len(Append(s, x)) = Len(s) + 1
  BY <1>2
<1>4. Len(s) \in Nat
  BY <1>1
<1>5. /\ Append(s, x)[Len(s) + 1] = x
      /\ \A i \in 1 .. Len(s) : Append(s, x)[i] = s[i]
  BY <1>2, <1>4
<1>6. SubSeq(Append(s, x), 1, Len(s)) = s
  <2> DEFINE t == SubSeq(Append(s, x), 1, Len(s))
  <2>1. t \in Seq(T) /\ Len(t) = Len(s)
    BY <1>3, <1>4, SubSeqProperties
  <2>2. \A i \in 1 .. Len(s) : t[i] = s[i]
    BY <1>3, <1>4, <1>5, SubSeqProperties
  <2> QED
    BY <1>2, <2>1, <2>2, SeqEqual
<1> QED
  BY <1>3, <1>5, <1>6 DEF Sequential

\* Two runs of deltas published one after the other.
LEMMA ConcatSeq ==
  ASSUME NEW s, NEW t, Sequential(s), Sequential(t)
  PROVE  /\ Sequential(s \o t) /\ Len(s \o t) = Len(s) + Len(t)
         /\ \A i \in 1 .. Len(s) : (s \o t)[i] = s[i]
         /\ \A i \in 1 .. Len(t) : (s \o t)[Len(s) + i] = t[i]
<1>1. PICK S : s \in Seq(S)
  BY DEF Sequential
<1>2. PICK S1 : t \in Seq(S1)
  BY DEF Sequential
<1> DEFINE T == S \cup S1
<1>3. s \in Seq(T) /\ t \in Seq(T)
  BY <1>1, <1>2
<1> HIDE DEF T
<1>4. s \o t \in Seq(T)
  BY <1>3
<1>5. /\ Len(s) \in Nat /\ Len(t) \in Nat /\ Len(s \o t) = Len(s) + Len(t)
      /\ \A i \in 1 .. Len(s) + Len(t) : (s \o t)[i] = IF i <= Len(s) THEN s[i] ELSE t[i - Len(s)]
  BY <1>3, ConcatProperties
<1>6. ASSUME NEW i \in 1 .. Len(t) PROVE (s \o t)[Len(s) + i] = t[i]
  <2>1. Len(s) + i \in 1 .. Len(s) + Len(t) /\ ~(Len(s) + i <= Len(s)) /\ (Len(s) + i) - Len(s) = i
    BY <1>5
  <2> QED
    BY <1>5, <2>1
<1> QED
  BY <1>4, <1>5, <1>6 DEF Sequential

\* f holds the flattenings of the prefixes of seqs, up to the m-th.
Unrolls(f, m, seqs, S) ==
  /\ f \in [1 .. m -> Seq(S)]
  /\ \A i \in 1 .. m : f[i] = IF i = 1 THEN seqs[i] ELSE f[i - 1] \o seqs[i]

\* Such a function exists for every sequence of sequences.
LEMMA UnrollingExists ==
  ASSUME NEW S, NEW seqs \in Seq(Seq(S)) PROVE \E f : Unrolls(f, Len(seqs), seqs, S)
<1> DEFINE P == {m \in Nat : m <= Len(seqs) => \E f : Unrolls(f, m, seqs, S)}
<1>0. Len(seqs) \in Nat /\ \A i \in 1 .. Len(seqs) : seqs[i] \in Seq(S)
  OBVIOUS
<1>1. 0 \in P
  <2>1. Unrolls([i \in 1 .. 0 |-> <<>>], 0, seqs, S)
    BY DEF Unrolls
  <2> QED
    BY <2>1
<1>2. ASSUME NEW m \in Nat, m \in P PROVE m + 1 \in P
  <2> SUFFICES ASSUME m + 1 <= Len(seqs) PROVE \E f : Unrolls(f, m + 1, seqs, S)
    OBVIOUS
  <2>1. PICK f : Unrolls(f, m, seqs, S)
    BY <1>0, <1>2
  <2> DEFINE top == IF m = 0 THEN seqs[m + 1] ELSE f[m] \o seqs[m + 1]
             g == [i \in 1 .. m + 1 |-> IF i = m + 1 THEN top ELSE f[i]]
  <2>2. top \in Seq(S)
    <3>1. seqs[m + 1] \in Seq(S)
      BY <1>0
    <3>2. CASE m = 0
      BY <3>1, <3>2
    <3>3. CASE m # 0
      <4>1. f[m] \in Seq(S)
        BY <2>1, <3>3 DEF Unrolls
      <4> QED
        BY <3>1, <3>3, <4>1
    <3> QED
      BY <3>2, <3>3
  <2> HIDE DEF top
  <2>3. g \in [1 .. m + 1 -> Seq(S)]
    BY <2>1, <2>2 DEF Unrolls
  <2>4. ASSUME NEW i \in 1 .. m + 1
        PROVE  g[i] = IF i = 1 THEN seqs[i] ELSE g[i - 1] \o seqs[i]
    <3>1. CASE i = m + 1
      <4>1. i # 1 => g[i - 1] = f[m]
        BY <3>1
      <4> QED
        BY <3>1, <4>1 DEF top
    <3>2. CASE i # m + 1
      <4>1. i \in 1 .. m /\ g[i] = f[i] /\ (i # 1 => g[i - 1] = f[i - 1])
        BY <3>2
      <4> QED
        BY <2>1, <4>1 DEF Unrolls
    <3> QED
      BY <3>1, <3>2
  <2>5. Unrolls(g, m + 1, seqs, S)
    BY <2>3, <2>4 DEF Unrolls
  <2> QED
    BY <2>5
<1>3. Nat \subseteq P
  <2> HIDE DEF P
  <2> QED
    BY <1>1, <1>2, Induction
<1> QED
  BY <1>0, <1>3

\* Flattening sequences over a set gives a sequence over that set (the fragments
\* of deltasFromChunk, the blocks of emitMessageContent).
LEMMA FlattenType ==
  ASSUME NEW S, NEW seqs \in Seq(Seq(S))
  PROVE  FlattenSeq(seqs) \in Seq(S)
<1>0. Len(seqs) \in Nat
  OBVIOUS
<1>1. CASE Len(seqs) = 0
  <2>1. seqs = <<>> /\ <<>> \in Seq(S)
    BY <1>1
  <2> QED
    BY <1>1, <2>1 DEF FlattenSeq
<1>2. CASE Len(seqs) # 0
  <2> DEFINE Solves(f) == f = [i \in 1 .. Len(seqs) |-> IF i = 1 THEN seqs[i] ELSE f[i - 1] \o seqs[i]]
             flatten == CHOOSE f : Solves(f)
  <2>1. PICK f : Unrolls(f, Len(seqs), seqs, S)
    BY UnrollingExists
  <2>2. Solves(f)
    BY <2>1 DEF Unrolls
  <2>3. Solves(flatten)
    BY <2>2
  <2>4. \A k \in Nat : k + 1 <= Len(seqs) => flatten[k + 1] \in Seq(S)
    <3> DEFINE P == {k \in Nat : k + 1 <= Len(seqs) => flatten[k + 1] \in Seq(S)}
    <3> HIDE DEF flatten
    <3>0. \A i \in 1 .. Len(seqs) : flatten[i] = IF i = 1 THEN seqs[i] ELSE flatten[i - 1] \o seqs[i]
      BY <2>3
    <3>1. 0 \in P
      BY <3>0, <1>0
    <3>2. ASSUME NEW k \in Nat, k \in P PROVE k + 1 \in P
      <4> SUFFICES ASSUME (k + 1) + 1 <= Len(seqs) PROVE flatten[(k + 1) + 1] \in Seq(S)
        OBVIOUS
      <4>1. flatten[k + 1] \in Seq(S)
        BY <3>2, <1>0
      <4>2. (k + 1) + 1 \in 1 .. Len(seqs) /\ (k + 1) + 1 # 1 /\ ((k + 1) + 1) - 1 = k + 1
        BY <1>0
      <4>3. flatten[(k + 1) + 1] = flatten[k + 1] \o seqs[(k + 1) + 1]
        BY <3>0, <4>2
      <4> QED
        BY <4>1, <4>2, <4>3
    <3>3. Nat \subseteq P
      <4> HIDE DEF P
      <4> QED
        BY <3>1, <3>2, Induction
    <3> QED
      BY <3>3
  <2>5. FlattenSeq(seqs) = flatten[Len(seqs)]
    BY <1>2 DEF FlattenSeq
  <2>6. PICK k \in Nat : k + 1 = Len(seqs)
    <3>1. Len(seqs) - 1 \in Nat /\ (Len(seqs) - 1) + 1 = Len(seqs)
      BY <1>0, <1>2
    <3> QED
      BY <3>1
  <2> HIDE DEF flatten
  <2>7. k + 1 <= Len(seqs)
    BY <2>6
  <2>8. flatten[k + 1] \in Seq(S)
    BY <2>4, <2>7
  <2> QED
    BY <2>5, <2>6, <2>8
<1> QED
  BY <1>1, <1>2

-----------------------------------------------------------------------------
(* The order of deltas. *)

\* The kinds of the deltas of a sequence, and the reasons its finish deltas name.
Kinds(s) == {s[i].kind : i \in 1 .. Len(s)}
Announced(s) == {s[i].id : i \in {j \in 1 .. Len(s) : s[j].kind = "finish"}}
\* The order every batch of pending deltas keeps: an envelope of reasoning comes
\* first, a finish delta last.
InOrder(s) ==
  \A i \in 1 .. Len(s) : /\ s[i].kind = "finish" => i = Len(s)
                         /\ s[i].kind = "state" => i = 1
Orderly(s) == Sequential(s) /\ InOrder(s)

\* Nothing to publish is in order.
LEMMA NoneOrderly ==
  Orderly(<<>>) /\ Kinds(<<>>) = {} /\ Announced(<<>>) = {}
BY NoneSeq DEF Orderly, InOrder, Kinds, Announced

\* One delta alone is in order.
LEMMA OneOrderly ==
  ASSUME NEW x
  PROVE  /\ Orderly(<<x>>) /\ Kinds(<<x>>) = {x.kind} /\ <<x>> # <<>>
         /\ Announced(<<x>>) = IF x.kind = "finish" THEN {x.id} ELSE {}
<1> DEFINE s == <<x>>
<1>1. Sequential(s) /\ Len(s) = 1 /\ s[1] = x /\ s # <<>>
  BY OneSeq
<1> HIDE DEF s
<1> QED
  BY <1>1 DEF Orderly, InOrder, Kinds, Announced, s

\* Delivering the first pending delta leaves the rest in order, and a finish delta
\* leaves nothing.
LEMMA TailOrderly ==
  ASSUME NEW s, Orderly(s), s # <<>>
  PROVE  /\ Orderly(Tail(s)) /\ "state" \notin Kinds(Tail(s))
         /\ Kinds(s) = {Head(s).kind} \cup Kinds(Tail(s))
         /\ Head(s).kind = "finish" => Tail(s) = <<>>
         /\ Announced(s) = Announced(Tail(s)) \cup
              IF Head(s).kind = "finish" THEN {Head(s).id} ELSE {}
         /\ Announced(Tail(s)) \subseteq Announced(s)
<1> DEFINE t == Tail(s)
<1>1. Len(s) \in Nat /\ Len(s) # 0
  BY SeqLen DEF Orderly
<1>2. /\ Sequential(t) /\ Len(t) = Len(s) - 1 /\ Head(s) = s[1]
      /\ \A i \in 1 .. Len(t) : t[i] = s[i + 1]
  BY TailSeq DEF Orderly
<1>3. Len(t) = 0 <=> t = <<>>
  BY <1>2, SeqLen
<1> HIDE DEF t
<1>4. \A i \in 1 .. Len(t) : i + 1 \in 1 .. Len(s) /\ i + 1 # 1
  BY <1>1, <1>2
<1>5. \A i \in 1 .. Len(s) : i = 1 \/ (i - 1 \in 1 .. Len(t) /\ t[i - 1] = s[i])
  <2> TAKE i \in 1 .. Len(s)
  <2>1. i # 1 => i - 1 \in 1 .. Len(t) /\ (i - 1) + 1 = i
    BY <1>1, <1>2
  <2> QED
    BY <1>2, <2>1
<1>6. 1 \in 1 .. Len(s)
  BY <1>1
<1>7. InOrder(t) /\ "state" \notin Kinds(t)
  <2>1. ASSUME NEW i \in 1 .. Len(t)
        PROVE  t[i].kind # "state" /\ (t[i].kind = "finish" => i = Len(t))
    <3>1. t[i] = s[i + 1] /\ i + 1 \in 1 .. Len(s) /\ i + 1 # 1
      BY <1>2, <1>4
    <3>2. (s[i + 1].kind = "finish" => i + 1 = Len(s)) /\ s[i + 1].kind # "state"
      BY <3>1 DEF Orderly, InOrder
    <3> QED
      BY <1>1, <1>2, <3>1, <3>2
  <2> QED
    BY <2>1 DEF InOrder, Kinds
<1>8. Kinds(s) = {Head(s).kind} \cup Kinds(t)
  <2>1. ASSUME NEW k, k \in Kinds(s) PROVE k \in {Head(s).kind} \cup Kinds(t)
    <3>1. PICK i \in 1 .. Len(s) : k = s[i].kind
      BY <2>1 DEF Kinds
    <3> QED
      BY <1>2, <1>5, <3>1 DEF Kinds
  <2>2. Head(s).kind \in Kinds(s)
    BY <1>2, <1>6 DEF Kinds
  <2>3. ASSUME NEW k, k \in Kinds(t) PROVE k \in Kinds(s)
    BY <1>2, <1>4, <2>3 DEF Kinds
  <2> QED
    BY <2>1, <2>2, <2>3
<1>9. Head(s).kind = "finish" => t = <<>>
  BY <1>1, <1>2, <1>3, <1>6 DEF Orderly, InOrder
<1>10. Announced(s) = Announced(t) \cup IF Head(s).kind = "finish" THEN {Head(s).id} ELSE {}
  <2>1. ASSUME NEW r, r \in Announced(s)
        PROVE  r \in Announced(t) \cup IF Head(s).kind = "finish" THEN {Head(s).id} ELSE {}
    <3>1. PICK i \in 1 .. Len(s) : s[i].kind = "finish" /\ r = s[i].id
      BY <2>1 DEF Announced
    <3>2. CASE i = 1
      BY <1>2, <3>1, <3>2
    <3>3. CASE i # 1
      BY <1>5, <3>1, <3>3 DEF Announced
    <3> QED
      BY <3>2, <3>3
  <2>2. Head(s).kind = "finish" => Head(s).id \in Announced(s)
    BY <1>2, <1>6 DEF Announced
  <2>3. ASSUME NEW r, r \in Announced(t) PROVE r \in Announced(s)
    BY <1>2, <1>4, <2>3 DEF Announced
  <2> QED
    BY <2>1, <2>2, <2>3
<1> QED
  BY <1>2, <1>7, <1>8, <1>9, <1>10 DEF Orderly, t

\* A delivered delta adds its kind, and its reason where it is a finish delta.
LEMMA AppendKinds ==
  ASSUME NEW s, Sequential(s), NEW x
  PROVE  /\ Sequential(Append(s, x)) /\ Kinds(Append(s, x)) = Kinds(s) \cup {x.kind}
         /\ Announced(Append(s, x)) =
              Announced(s) \cup IF x.kind = "finish" THEN {x.id} ELSE {}
<1> DEFINE t == Append(s, x)
<1>1. /\ Sequential(t) /\ Len(t) = Len(s) + 1 /\ t[Len(s) + 1] = x
      /\ \A i \in 1 .. Len(s) : t[i] = s[i]
  BY AppendSeq
<1>2. Len(s) \in Nat
  BY SeqLen
<1> HIDE DEF t
<1>3. 1 .. Len(t) = (1 .. Len(s)) \cup {Len(s) + 1}
  BY <1>1, <1>2
<1>4. Kinds(t) = Kinds(s) \cup {x.kind}
  BY <1>1, <1>3 DEF Kinds
<1>5. Announced(t) = Announced(s) \cup IF x.kind = "finish" THEN {x.id} ELSE {}
  BY <1>1, <1>3 DEF Announced
<1> QED
  BY <1>1, <1>4, <1>5 DEF t

\* A batch without a finish delta before one without an envelope stays in order.
LEMMA ConcatOrderly ==
  ASSUME NEW s, NEW t, Orderly(s), Orderly(t), "finish" \notin Kinds(s), "state" \notin Kinds(t)
  PROVE  /\ Orderly(s \o t) /\ Kinds(s \o t) = Kinds(s) \cup Kinds(t)
         /\ Announced(s \o t) = Announced(s) \cup Announced(t)
         /\ s \o t = <<>> <=> s = <<>> /\ t = <<>>
<1> DEFINE u == s \o t
<1>1. /\ Sequential(u) /\ Len(u) = Len(s) + Len(t)
      /\ \A i \in 1 .. Len(s) : u[i] = s[i]
      /\ \A i \in 1 .. Len(t) : u[Len(s) + i] = t[i]
  BY ConcatSeq DEF Orderly
<1>2. /\ Len(s) \in Nat /\ Len(t) \in Nat /\ (s = <<>> <=> Len(s) = 0) /\ (t = <<>> <=> Len(t) = 0)
      /\ (u = <<>> <=> Len(u) = 0)
  BY <1>1, SeqLen DEF Orderly
<1> HIDE DEF u
<1>3. \A i \in 1 .. Len(u) : \/ i \in 1 .. Len(s) /\ u[i] = s[i]
                             \/ i - Len(s) \in 1 .. Len(t) /\ u[i] = t[i - Len(s)]
  <2> TAKE i \in 1 .. Len(u)
  <2>1. CASE i <= Len(s)
    BY <1>1, <1>2, <2>1
  <2>2. CASE i > Len(s)
    <3>1. i - Len(s) \in 1 .. Len(t) /\ Len(s) + (i - Len(s)) = i
      BY <1>1, <1>2, <2>2
    <3> QED
      BY <1>1, <3>1
  <2> QED
    BY <1>1, <1>2, <2>1, <2>2
<1>4. \A i \in 1 .. Len(s) : i \in 1 .. Len(u) /\ u[i] = s[i]
  BY <1>1, <1>2
<1>5. \A i \in 1 .. Len(t) : Len(s) + i \in 1 .. Len(u) /\ u[Len(s) + i] = t[i]
  BY <1>1, <1>2
<1>6. Kinds(u) = Kinds(s) \cup Kinds(t)
  <2>1. Kinds(u) \subseteq Kinds(s) \cup Kinds(t)
    BY <1>3 DEF Kinds
  <2>2. Kinds(s) \subseteq Kinds(u)
    BY <1>4 DEF Kinds
  <2>3. Kinds(t) \subseteq Kinds(u)
    BY <1>5 DEF Kinds
  <2> QED
    BY <2>1, <2>2, <2>3
<1>7. Announced(u) = Announced(s) \cup Announced(t)
  <2>1. ASSUME NEW r, r \in Announced(u) PROVE r \in Announced(s) \cup Announced(t)
    <3>1. PICK i \in 1 .. Len(u) : u[i].kind = "finish" /\ r = u[i].id
      BY <2>1 DEF Announced
    <3>2. CASE i \in 1 .. Len(s) /\ u[i] = s[i]
      BY <3>1, <3>2 DEF Announced
    <3>3. CASE i - Len(s) \in 1 .. Len(t) /\ u[i] = t[i - Len(s)]
      BY <3>1, <3>3 DEF Announced
    <3> QED
      BY <1>3, <3>2, <3>3
  <2>2. ASSUME NEW r, r \in Announced(s) PROVE r \in Announced(u)
    BY <1>4, <2>2 DEF Announced
  <2>3. ASSUME NEW r, r \in Announced(t) PROVE r \in Announced(u)
    BY <1>5, <2>3 DEF Announced
  <2> QED
    BY <2>1, <2>2, <2>3
<1>8. InOrder(u)
  <2>1. ASSUME NEW i \in 1 .. Len(u)
        PROVE  (u[i].kind = "finish" => i = Len(u)) /\ (u[i].kind = "state" => i = 1)
    <3>1. CASE i \in 1 .. Len(s) /\ u[i] = s[i]
      <4>1. s[i].kind # "finish"
        BY <3>1 DEF Kinds
      <4> QED
        BY <3>1, <4>1 DEF Orderly, InOrder
    <3>2. CASE i - Len(s) \in 1 .. Len(t) /\ u[i] = t[i - Len(s)]
      <4>1. u[i].kind # "state"
        BY <3>2 DEF Kinds
      <4>2. u[i].kind = "finish" => i - Len(s) = Len(t)
        BY <3>2 DEF Orderly, InOrder
      <4> QED
        BY <1>1, <1>2, <4>1, <4>2
    <3> QED
      BY <1>3, <3>1, <3>2
  <2> QED
    BY <2>1 DEF InOrder
<1>9. u = <<>> <=> s = <<>> /\ t = <<>>
  BY <1>1, <1>2
<1> QED
  BY <1>1, <1>6, <1>7, <1>8, <1>9 DEF Orderly, u

\* The deltas that carry the answer.
Payload == {"text", "reasoning", "call"}

\* Payload deltas are in order and announce no reason.
LEMMA PayloadOrderly ==
  ASSUME NEW s, Sequential(s), Kinds(s) \subseteq Payload
  PROVE  Orderly(s) /\ Announced(s) = {} /\ "finish" \notin Kinds(s) /\ "state" \notin Kinds(s)
BY DEF Payload, Orderly, InOrder, Kinds, Announced

\* So is the flattening of sequences of payload deltas.
LEMMA PayloadFlatten ==
  ASSUME NEW k \in Nat, NEW seqs, seqs = [i \in 1 .. k |-> seqs[i]],
         \A i \in 1 .. k : Sequential(seqs[i]) /\ Kinds(seqs[i]) \subseteq Payload
  PROVE  Sequential(FlattenSeq(seqs)) /\ Kinds(FlattenSeq(seqs)) \subseteq Payload
<1> DEFINE S == UNION {{seqs[i][j] : j \in 1 .. Len(seqs[i])} : i \in 1 .. k}
<1>1. \A x \in S : x.kind \in Payload
  BY DEF Kinds
<1>2. ASSUME NEW i \in 1 .. k PROVE seqs[i] \in Seq(S)
  <2>1. PICK T : seqs[i] \in Seq(T)
    BY DEF Sequential
  <2>2. Len(seqs[i]) \in Nat /\ \A j \in 1 .. Len(seqs[i]) : seqs[i][j] \in S
    BY <2>1
  <2> HIDE DEF S
  <2>3. seqs[i] \in [1 .. Len(seqs[i]) -> S]
    BY <2>1, <2>2
  <2> QED
    BY <2>2, <2>3, SeqDef
<1> HIDE DEF S
<1>3. seqs \in Seq(Seq(S))
  <2>1. seqs \in [1 .. k -> Seq(S)]
    BY <1>2
  <2> QED
    BY <2>1, SeqDef
<1>4. FlattenSeq(seqs) \in Seq(S)
  BY <1>3, FlattenType
<1>5. Sequential(FlattenSeq(seqs))
  BY <1>4 DEF Sequential
<1>6. Kinds(FlattenSeq(seqs)) \subseteq Payload
  BY <1>1, <1>4 DEF Kinds
<1> QED
  BY <1>5, <1>6

-----------------------------------------------------------------------------
(* What the operators of the drivers publish. *)

\* An optional delta is in order.
LEMMA IfAnyDeltas ==
  ASSUME NEW body, NEW x
  PROVE  LET s == IfAny(body, x) IN
         /\ x.kind # "finish" => Orderly(s) /\ Announced(s) = {}
         /\ Kinds(s) \subseteq {x.kind} /\ Sequential(s)
<1>1. CASE body = <<>>
  BY <1>1, NoneOrderly DEF IfAny, Orderly
<1>2. CASE body # <<>>
  BY <1>2, OneOrderly DEF IfAny, Orderly
<1> QED
  BY <1>1, <1>2

\* emit publishes one envelope of reasoning at most, and none that was published
\* already, that nobody listens to, or that the Z.ai driver will publish itself.
LEMMA EmitDeltas ==
  ASSUME NEW state
  PROVE  LET s == OpenAI!emit(state) IN
         /\ Orderly(s) /\ Kinds(s) \subseteq {"state"} /\ Announced(s) = {}
         /\ s # <<>> => /\ Tail(s) = <<>> /\ Head(s).kind = "state"
                        /\ ~state.emitted /\ ~OpenAI!IsZai /\ HasCallback
<1> DEFINE x == StateDelta(state.text, state.blocks)
<1>1. x.kind = "state"
  BY DEF StateDelta, Delta
<1>0. OpenAI!StateDelta(state.text, state.blocks) = x
  BY DEF StateDelta, Delta, OpenAI!StateDelta, OpenAI!Delta
<1> HIDE DEF x
<1>2. CASE OpenAI!emit(state) = <<>>
  BY <1>2, NoneOrderly
<1>3. CASE OpenAI!emit(state) = <<x>> /\ ~state.emitted /\ OpenAI!KeepsReasoning
  <2>1. Head(<<x>>) = x /\ Tail(<<x>>) = <<>>
    <3>1. <<x>> \in Seq({x}) /\ Len(<<x>>) = 1
      OBVIOUS
    <3>2. Tail(<<x>>) \in Seq({x}) /\ Len(Tail(<<x>>)) = 0
      BY <3>1, HeadTailProperties
    <3> QED
      BY <3>1, <3>2
  <2> QED
    BY <1>1, <1>3, <2>1, OneOrderly DEF OpenAI!KeepsReasoning, HasCallback, OpenAI!HasCallback
<1> QED
  BY <1>0, <1>2, <1>3 DEF OpenAI!emit

\* Both drivers flatten alike.
LEMMA SameFlatten ==
  \A seqs : /\ OpenAI!FlattenSeq(seqs) = FlattenSeq(seqs)
            /\ Anthropic!FlattenSeq(seqs) = FlattenSeq(seqs)
BY DEF FlattenSeq, OpenAI!FlattenSeq, Anthropic!FlattenSeq

\* deltasFromChunk publishes payload first and the finish delta last, and names
\* exactly the reason finishReasonFromChoice maps.
LEMMA ChunkDeltas ==
  ASSUME NEW c, NEW isRefused, Len(c.calls) \in Nat
  PROVE  LET s == OpenAI!deltasFromChunk(c, isRefused)
             reason == OpenAI!finishReasonFromChoice(c, isRefused) IN
         /\ Orderly(s) /\ "state" \notin Kinds(s)
         /\ s # <<>> => c.choice
         /\ "finish" \in Kinds(s) <=> c.choice /\ reason # Unset
         /\ Announced(s) = IF c.choice /\ reason # Unset THEN {reason} ELSE {}
<1> DEFINE fragment(t) == IF t.index \in 0 .. MaxToolIndex
                          THEN <<OpenAI!ToolCallDelta(t.index, "", t.body)>> ELSE <<>>
           fragments == [i \in 1 .. Len(c.calls) |-> fragment(c.calls[i])]
           reason == OpenAI!finishReasonFromChoice(c, isRefused)
           a == OpenAI!IfAny(c.reasoning, OpenAI!ReasoningDelta(c.reasoning))
           b == OpenAI!IfAny(c.refusal, OpenAI!TextDelta(c.refusal))
           d == OpenAI!IfAny(c.content, OpenAI!TextDelta(c.content))
           f == FlattenSeq(fragments)
           g == IF reason = OpenAI!Unset THEN <<>> ELSE <<OpenAI!FinishDelta(reason)>>
<1>1. CASE ~c.choice
  BY <1>1, NoneOrderly DEF OpenAI!deltasFromChunk
<1>2. CASE c.choice
  <2>1. OpenAI!deltasFromChunk(c, isRefused) = a \o b \o d \o f \o g
    BY <1>2, SameFlatten DEF OpenAI!deltasFromChunk
  <2>2. /\ Sequential(a) /\ Kinds(a) \subseteq Payload
        /\ Sequential(b) /\ Kinds(b) \subseteq Payload
        /\ Sequential(d) /\ Kinds(d) \subseteq Payload
    <3>1. /\ OpenAI!ReasoningDelta(c.reasoning).kind = "reasoning"
          /\ OpenAI!TextDelta(c.refusal).kind = "text"
          /\ OpenAI!TextDelta(c.content).kind = "text"
      BY DEF OpenAI!ReasoningDelta, OpenAI!TextDelta, OpenAI!Delta
    <3>2. \A body, x : OpenAI!IfAny(body, x) = IfAny(body, x)
      BY DEF OpenAI!IfAny, IfAny
    <3> QED
      BY <3>1, <3>2, IfAnyDeltas DEF Payload
  <2>3. Sequential(f) /\ Kinds(f) \subseteq Payload
    <3>1. ASSUME NEW i \in 1 .. Len(c.calls)
          PROVE  Sequential(fragments[i]) /\ Kinds(fragments[i]) \subseteq Payload
      <4>0. \A index, id, body : OpenAI!ToolCallDelta(index, id, body).kind = "call"
        BY DEF OpenAI!ToolCallDelta, OpenAI!Delta
      <4>1. fragments[i] = <<>> \/ \E x : x.kind = "call" /\ fragments[i] = <<x>>
        BY <4>0
      <4>2. CASE fragments[i] = <<>>
        BY <4>2, NoneOrderly DEF Orderly
      <4>3. ASSUME NEW x, x.kind = "call", fragments[i] = <<x>>
            PROVE  Sequential(fragments[i]) /\ Kinds(fragments[i]) \subseteq Payload
        BY <4>3, OneOrderly DEF Orderly, Payload
      <4> HIDE DEF fragments
      <4> QED
        BY <4>1, <4>2, <4>3
    <3>2. fragments = [i \in 1 .. Len(c.calls) |-> fragments[i]]
      OBVIOUS
    <3> HIDE DEF fragments
    <3> QED
      BY <3>1, <3>2, PayloadFlatten
  <2>4. /\ Orderly(g) /\ Kinds(g) = (IF reason = Unset THEN {} ELSE {"finish"})
        /\ Announced(g) = IF reason = Unset THEN {} ELSE {reason}
    <3>1. OpenAI!Unset = Unset
      BY DEF OpenAI!Unset, Unset
    <3>2. OpenAI!FinishDelta(reason).kind = "finish" /\ OpenAI!FinishDelta(reason).id = reason
      BY DEF OpenAI!FinishDelta, OpenAI!Delta
    <3> HIDE DEF reason
    <3>3. CASE reason = Unset
      BY <3>1, <3>3, NoneOrderly
    <3>4. CASE reason # Unset
      BY <3>1, <3>2, <3>4, OneOrderly
    <3> QED
      BY <3>3, <3>4
  <2> HIDE DEF a, b, d, f, g, reason
  <2>5. Sequential(a \o b) /\ Kinds(a \o b) \subseteq Payload
    BY <2>2, PayloadOrderly, ConcatOrderly DEF Orderly
  <2>6. Sequential(a \o b \o d) /\ Kinds(a \o b \o d) \subseteq Payload
    BY <2>2, <2>5, PayloadOrderly, ConcatOrderly DEF Orderly
  <2>7. Sequential(a \o b \o d \o f) /\ Kinds(a \o b \o d \o f) \subseteq Payload
    BY <2>3, <2>6, PayloadOrderly, ConcatOrderly DEF Orderly
  <2> DEFINE p == a \o b \o d \o f
  <2>8. Orderly(p) /\ Announced(p) = {} /\ "finish" \notin Kinds(p) /\ "state" \notin Kinds(p)
    BY <2>7, PayloadOrderly
  <2> HIDE DEF p
  <2>9. "state" \notin Kinds(g)
    BY <2>4
  <2>10. /\ Orderly(p \o g) /\ Kinds(p \o g) = Kinds(p) \cup Kinds(g)
         /\ Announced(p \o g) = Announced(p) \cup Announced(g)
    BY <2>4, <2>8, <2>9, ConcatOrderly
  <2>11. /\ "finish" \in Kinds(p \o g) <=> reason # Unset
         /\ "state" \notin Kinds(p \o g)
         /\ Announced(p \o g) = IF reason # Unset THEN {reason} ELSE {}
    BY <2>4, <2>8, <2>9, <2>10
  <2>12. OpenAI!deltasFromChunk(c, isRefused) = p \o g
    BY <2>1 DEF p
  <2> QED
    BY <1>2, <2>10, <2>11, <2>12 DEF reason
<1> QED
  BY <1>1, <1>2

\* finishStream publishes the reasoning and then the finish delta, which names the
\* message's mapped stop reason, if there is one.
LEMMA StreamEndDeltas ==
  ASSUME NEW m
  PROVE  LET s == Anthropic!finishStreamDeltas(m)
             reason == Anthropic!normalizeFinishReason(m.stop) IN
         /\ Orderly(s)
         /\ "finish" \in Kinds(s) <=> reason # Unset
         /\ Announced(s) = IF reason # Unset THEN {reason} ELSE {}
<1> DEFINE blocks == Anthropic!marshalProviderReasoning(m.content)
           reason == Anthropic!normalizeFinishReason(m.stop)
           p == Anthropic!IfAny(blocks, Anthropic!StateDelta(<<>>, blocks))
           g == IF reason = Unset THEN <<>> ELSE <<Anthropic!FinishDelta(reason)>>
<1>0. Anthropic!Unset = Unset
  BY DEF Anthropic!Unset, Unset
<1>1. Anthropic!usageFromMessage(m).finish = reason
  BY DEF Anthropic!usageFromMessage
<1>2. Anthropic!finishStreamDeltas(m) = p \o g
  BY <1>0, <1>1 DEF Anthropic!finishStreamDeltas
<1>3. Orderly(p) /\ Kinds(p) \subseteq {"state"} /\ Announced(p) = {}
  <2>1. Anthropic!StateDelta(<<>>, blocks).kind = "state"
    BY DEF Anthropic!StateDelta, Anthropic!Delta
  <2>2. \A body, x : Anthropic!IfAny(body, x) = IfAny(body, x)
    BY DEF Anthropic!IfAny, IfAny
  <2> HIDE DEF blocks
  <2> QED
    BY <2>1, <2>2, IfAnyDeltas
<1>4. /\ Orderly(g) /\ Kinds(g) = (IF reason = Unset THEN {} ELSE {"finish"})
      /\ Announced(g) = IF reason = Unset THEN {} ELSE {reason}
  <2>1. Anthropic!FinishDelta(reason).kind = "finish" /\ Anthropic!FinishDelta(reason).id = reason
    BY DEF Anthropic!FinishDelta, Anthropic!Delta
  <2> HIDE DEF reason
  <2>2. CASE reason = Unset
    BY <2>2, NoneOrderly
  <2>3. CASE reason # Unset
    BY <2>1, <2>3, OneOrderly
  <2> QED
    BY <2>2, <2>3
<1> HIDE DEF p, g, reason
<1>5. "finish" \notin Kinds(p) /\ "state" \notin Kinds(g)
  BY <1>3, <1>4
<1>6. /\ Orderly(p \o g) /\ Kinds(p \o g) = Kinds(p) \cup Kinds(g)
      /\ Announced(p \o g) = Announced(p) \cup Announced(g)
  BY <1>3, <1>4, <1>5, ConcatOrderly
<1>7. /\ "finish" \in Kinds(p \o g) <=> reason # Unset
      /\ Announced(p \o g) = IF reason # Unset THEN {reason} ELSE {}
  BY <1>3, <1>4, <1>5, <1>6
<1> QED
  BY <1>2, <1>6, <1>7 DEF reason

\* emitEventDelta publishes payload only.
LEMMA EventDeltas ==
  ASSUME NEW e
  PROVE  LET s == Anthropic!emitEventDelta(e) IN
         Sequential(s) /\ Kinds(s) \subseteq Payload
<1> DEFINE a == Anthropic!ToolCallDelta(Anthropic!NextToolCallIndex, "id", <<>>)
           b == Anthropic!TextDelta(e.body)
           c == Anthropic!ReasoningDelta(e.body)
           d == Anthropic!ToolCallDelta(toolCallIndexes[e.index], "", e.body)
<1>1. a.kind = "call" /\ b.kind = "text" /\ c.kind = "reasoning" /\ d.kind = "call"
  BY DEF Anthropic!ToolCallDelta, Anthropic!TextDelta, Anthropic!ReasoningDelta, Anthropic!Delta
<1>2. Anthropic!emitEventDelta(e) \in {<<>>, <<a>>, <<b>>, <<c>>, <<d>>}
  <2> HIDE DEF a, b, c, d
  <2> QED
    BY DEF Anthropic!emitEventDelta, a, b, c, d
<1> HIDE DEF a, b, c, d
<1> QED
  BY <1>1, <1>2, NoneOrderly, OneOrderly DEF Orderly, Payload

\* emitMessageContent publishes payload only.
LEMMA ContentDeltas ==
  ASSUME NEW content, Len(content) \in Nat
  PROVE  LET s == Anthropic!emitMessageContent(content) IN
         Sequential(s) /\ Kinds(s) \subseteq Payload
<1> DEFINE part(i) == Anthropic!deltaFromContentBlock(content[i], Anthropic!ToolCallOrdinal(content, i))
           parts == [i \in 1 .. Len(content) |-> part(i)]
<1>1. ASSUME NEW i \in 1 .. Len(content)
      PROVE  Sequential(parts[i]) /\ Kinds(parts[i]) \subseteq Payload
  <2> DEFINE b == Anthropic!TextDelta(content[i].body)
             c == Anthropic!ReasoningDelta(content[i].body)
             d == Anthropic!ToolCallDelta(Anthropic!ToolCallOrdinal(content, i), "id", content[i].body)
  <2>1. b.kind = "text" /\ c.kind = "reasoning" /\ d.kind = "call"
    BY DEF Anthropic!ToolCallDelta, Anthropic!TextDelta, Anthropic!ReasoningDelta, Anthropic!Delta
  <2>2. parts[i] \in {<<>>, <<b>>, <<c>>, <<d>>}
    BY DEF Anthropic!deltaFromContentBlock, Anthropic!IfAny
  <2> HIDE DEF b, c, d, parts
  <2> QED
    BY <2>1, <2>2, NoneOrderly, OneOrderly DEF Orderly, Payload
<1>2. parts = [i \in 1 .. Len(content) |-> parts[i]]
  OBVIOUS
<1>3. Anthropic!emitMessageContent(content) = FlattenSeq(parts)
  BY SameFlatten DEF Anthropic!emitMessageContent
<1> HIDE DEF parts
<1> QED
  BY <1>1, <1>2, <1>3, PayloadFlatten

-----------------------------------------------------------------------------
(* Joining texts. *)

\* Two sequences of one element each.
LEMMA PairJoins ==
  ASSUME NEW o, NEW f
  PROVE  <<o>> \o <<f>> = <<o, f>>
<1> DEFINE S == {o, f}
           a == <<o>>
           b == <<f>>
           c == <<o, f>>
<1>1. a \in Seq(S) /\ b \in Seq(S) /\ c \in Seq(S)
  OBVIOUS
<1>2. Len(a) = 1 /\ Len(b) = 1 /\ Len(c) = 2 /\ a[1] = o /\ b[1] = f /\ c[1] = o /\ c[2] = f
  OBVIOUS
<1> HIDE DEF a, b, c, S
<1>3. a \o b \in Seq(S)
  BY <1>1
<1>4. Len(a \o b) = 2 /\ (a \o b)[1] = o /\ (a \o b)[2] = f
  <2>1. Sequential(a) /\ Sequential(b) /\ 1 \in 1 .. 1
    BY <1>1 DEF Sequential
  <2>2. /\ Len(a \o b) = Len(a) + Len(b)
        /\ \A i \in 1 .. Len(a) : (a \o b)[i] = a[i]
        /\ \A i \in 1 .. Len(b) : (a \o b)[Len(a) + i] = b[i]
    BY <2>1, ConcatSeq
  <2>3. (a \o b)[1] = a[1] /\ (a \o b)[1 + 1] = b[1]
    BY <1>2, <2>1, <2>2
  <2> QED
    BY <1>2, <2>2, <2>3
<1>5. \A i \in 1 .. 2 : (a \o b)[i] = c[i]
  BY <1>2, <1>4
<1>6. a \o b = c
  BY <1>1, <1>2, <1>3, <1>4, <1>5, SeqEqual
<1> QED
  BY <1>6 DEF a, b, c

\* FlattenSeq is a loop that joins the sequences one after the other.
LEMMA FlattenUnrolls ==
  ASSUME NEW S, NEW seqs \in Seq(Seq(S))
  PROVE  \E w \in [0 .. Len(seqs) -> Seq(S)] :
           /\ w[0] = <<>>
           /\ \A k \in 1 .. Len(seqs) : w[k] = w[k - 1] \o seqs[k]
           /\ w[Len(seqs)] = FlattenSeq(seqs)
<1> DEFINE m == Len(seqs)
           Solves(f) == f = [i \in 1 .. m |-> IF i = 1 THEN seqs[i] ELSE f[i - 1] \o seqs[i]]
           flatten == CHOOSE f : Solves(f)
           w == [k \in 0 .. m |-> IF k = 0 THEN <<>> ELSE flatten[k]]
<1>1. m \in Nat /\ \A i \in 1 .. m : seqs[i] \in Seq(S)
  OBVIOUS
<1>2. PICK f : Unrolls(f, m, seqs, S)
  BY UnrollingExists
<1>3. Solves(f)
  BY <1>2 DEF Unrolls
<1>4. Solves(flatten)
  BY <1>3
<1>5. FlattenSeq(seqs) = IF m = 0 THEN <<>> ELSE flatten[m]
  <2>1. m = 0 => seqs = <<>>
    OBVIOUS
  <2> QED
    BY <2>1 DEF FlattenSeq
<1> HIDE DEF flatten, m
<1>6. \A k \in 0 .. m : w[k] = IF k = 0 THEN <<>> ELSE flatten[k]
  OBVIOUS
<1>7. w = [k \in 0 .. m |-> w[k]]
  OBVIOUS
<1> HIDE DEF w
<1>8. ASSUME NEW k \in 1 .. m PROVE w[k] = w[k - 1] \o seqs[k]
  <2>1. k \in 0 .. m /\ k # 0 /\ k - 1 \in 0 .. m /\ (k - 1 = 0 <=> k = 1)
    BY <1>1
  <2>2. flatten[k] = IF k = 1 THEN seqs[k] ELSE flatten[k - 1] \o seqs[k]
    BY <1>4
  <2>3. <<>> \o seqs[k] = seqs[k]
    BY <1>1
  <2> QED
    BY <1>6, <2>1, <2>2, <2>3
<1>9. w[0] = <<>> /\ w[m] = FlattenSeq(seqs)
  BY <1>1, <1>5, <1>6
<1>10. w \in [0 .. m -> Seq(S)]
  <2> DEFINE P == {k \in Nat : k <= m => w[k] \in Seq(S)}
  <2>1. 0 \in P
    <3>1. <<>> \in Seq(S)
      OBVIOUS
    <3> QED
      BY <1>9, <3>1
  <2>2. ASSUME NEW k \in Nat, k \in P PROVE k + 1 \in P
    <3> SUFFICES ASSUME k + 1 <= m PROVE w[k + 1] \in Seq(S)
      OBVIOUS
    <3>1. k + 1 \in 1 .. m /\ (k + 1) - 1 = k /\ k <= m
      BY <1>1
    <3>2. w[k + 1] = w[k] \o seqs[k + 1] /\ seqs[k + 1] \in Seq(S) /\ w[k] \in Seq(S)
      BY <1>1, <1>8, <2>2, <3>1
    <3> QED
      BY <3>2
  <2>3. Nat \subseteq P
    <3> HIDE DEF P
    <3> QED
      BY <2>1, <2>2, Induction
  <2>4. \A k \in 0 .. m : w[k] \in Seq(S)
    BY <1>1, <2>3
  <2> QED
    BY <1>7, <2>4
<1> QED
  BY <1>8, <1>9, <1>10 DEF m

\* Parts of a sequence, one for each position, form a sequence.
LEMMA PartsSeq ==
  ASSUME NEW S, NEW k \in Nat, NEW u, u = [i \in 1 .. k |-> u[i]], \A i \in 1 .. k : u[i] \in S
  PROVE  u \in Seq(S) /\ Len(u) = k
<1>1. u \in [1 .. k -> S]
  OBVIOUS
<1>2. u \in Seq(S)
  BY <1>1, SeqDef
<1> QED
  BY <1>1, <1>2

\* u has the parts of a and then those of b.
Follows(u, a, b) ==
  /\ Len(u) = Len(a) + Len(b)
  /\ \A i \in 1 .. Len(a) : u[i] = a[i]
  /\ \A i \in 1 .. Len(b) : u[Len(a) + i] = b[i]

\* The join of the parts of two runs is the join of the one's and of the other's.
LEMMA FlattenConcat ==
  ASSUME NEW S, NEW a \in Seq(Seq(S)), NEW b \in Seq(Seq(S)), NEW u \in Seq(Seq(S)), Follows(u, a, b)
  PROVE  /\ FlattenSeq(u) = FlattenSeq(a) \o FlattenSeq(b)
         /\ FlattenSeq(a) \in Seq(S) /\ FlattenSeq(b) \in Seq(S)
<1>0. \A x, y, z \in Seq(S) : (x \o y) \o z = x \o (y \o z)
  BY ConcatAssociative, SMTT(20)
<1> DEFINE k == Len(a)
           m == Len(b)
<1>1. k \in Nat /\ \A i \in 1 .. k : u[i] = a[i] /\ a[i] \in Seq(S)
  BY DEF Follows
<1>2. m \in Nat /\ \A i \in 1 .. m : u[k + i] = b[i] /\ b[i] \in Seq(S)
  BY DEF Follows
<1>3. Len(u) = k + m
  BY DEF Follows
<1>4. PICK f \in [0 .. k -> Seq(S)] :
        f[0] = <<>> /\ (\A i \in 1 .. k : f[i] = f[i - 1] \o a[i]) /\ f[k] = FlattenSeq(a)
  BY FlattenUnrolls
<1>5. PICK g \in [0 .. m -> Seq(S)] :
        g[0] = <<>> /\ (\A i \in 1 .. m : g[i] = g[i - 1] \o b[i]) /\ g[m] = FlattenSeq(b)
  BY FlattenUnrolls
<1>6. PICK h :
        /\ h \in [0 .. Len(u) -> Seq(S)]
        /\ h[0] = <<>> /\ (\A i \in 1 .. Len(u) : h[i] = h[i - 1] \o u[i]) /\ h[Len(u)] = FlattenSeq(u)
  BY FlattenUnrolls
<1>7. h[0] = <<>> /\ (\A i \in 1 .. (k + m) : h[i] = h[i - 1] \o u[i]) /\ h[k + m] = FlattenSeq(u)
  BY <1>3, <1>6
<1> HIDE DEF k, m
<1> DEFINE At(i) == h[k + i]
<1>8. \A i \in Nat : i <= k => h[i] = f[i]
  <2> DEFINE P == {i \in Nat : i <= k => h[i] = f[i]}
  <2>1. 0 \in P
    BY <1>4, <1>7
  <2>2. ASSUME NEW i \in Nat, i \in P PROVE i + 1 \in P
    <3> SUFFICES ASSUME i + 1 <= k PROVE h[i + 1] = f[i + 1]
      OBVIOUS
    <3>1. i + 1 \in 1 .. k /\ i + 1 \in 1 .. (k + m) /\ (i + 1) - 1 = i /\ i <= k
      BY <1>1, <1>2
    <3>2. h[i + 1] = h[i] \o u[i + 1] /\ f[i + 1] = f[i] \o a[i + 1]
      BY <1>4, <1>7, <3>1
    <3>3. h[i] = f[i] /\ u[i + 1] = a[i + 1]
      BY <1>1, <2>2, <3>1
    <3> QED
      BY <3>2, <3>3
  <2>3. Nat \subseteq P
    <3> HIDE DEF P
    <3> QED
      BY <2>1, <2>2, Induction
  <2> QED
    BY <2>3
<1>9. h[k] = f[k]
  BY <1>1, <1>8
<1>10. /\ At(0) = f[k]
      /\ \A i \in Nat : i + 1 <= m => At(i + 1) = At(i) \o b[i + 1]
  <2>1. k + 0 = k
    BY <1>1
  <2>2. ASSUME NEW i \in Nat, i + 1 <= m PROVE At(i + 1) = At(i) \o b[i + 1]
    <3>1. i + 1 \in 1 .. m /\ k + (i + 1) \in 1 .. (k + m) /\ (k + (i + 1)) - 1 = k + i
      BY <1>1, <1>2, <2>2
    <3> QED
      BY <1>2, <1>7, <3>1
  <2> QED
    BY <1>9, <2>1, <2>2
<1> HIDE DEF At
<1>11. \A i \in Nat : i <= m => g[i] \in Seq(S)
  <2>1. \A i \in Nat : i <= m => i \in 0 .. m
    BY <1>2
  <2> QED
    BY <2>1
<1>12. f[k] \in Seq(S) /\ g[m] \in Seq(S)
  <2>1. k \in 0 .. k /\ m \in 0 .. m
    BY <1>1, <1>2
  <2> QED
    BY <2>1
<1>13. \A i \in Nat : i <= m => At(i) = f[k] \o g[i]
  <2> DEFINE Q == {i \in Nat : i <= m => At(i) = f[k] \o g[i]}
  <2>1. 0 \in Q
    <3>1. f[k] \o <<>> = f[k]
      BY <1>12
    <3> QED
      BY <1>5, <1>10, <3>1
  <2>2. ASSUME NEW i \in Nat, i \in Q PROVE i + 1 \in Q
    <3>0. i + 1 \in Nat
      OBVIOUS
    <3> SUFFICES ASSUME i + 1 <= m PROVE At(i + 1) = f[k] \o g[i + 1]
      BY <3>0
    <3>1. i + 1 \in 1 .. m /\ (i + 1) - 1 = i /\ i <= m
      BY <1>2
    <3>2. At(i + 1) = At(i) \o b[i + 1]
      BY <1>10
    <3>3. At(i) = f[k] \o g[i] /\ g[i + 1] = g[i] \o b[i + 1]
      BY <1>5, <2>2, <3>1
    <3>4. g[i] \in Seq(S) /\ b[i + 1] \in Seq(S)
      BY <1>2, <1>11, <3>1
    <3>5. (f[k] \o g[i]) \o b[i + 1] = f[k] \o (g[i] \o b[i + 1])
      BY <1>0, <1>12, <3>4
    <3> QED
      BY <3>2, <3>3, <3>5
  <2>3. Nat \subseteq Q
    <3> HIDE DEF Q
    <3> QED
      BY <2>1, <2>2, Induction
  <2> QED
    BY <2>3
<1>14. At(m) = f[k] \o g[m]
  BY <1>2, <1>13
<1>15. h[k + m] = f[k] \o g[m]
  BY <1>14 DEF At
<1> QED
  BY <1>2, <1>4, <1>5, <1>7, <1>12, <1>15

\* The join of nothing and of one part.
LEMMA FlattenFew ==
  /\ \A u : u = [i \in 1 .. 0 |-> u[i]] => FlattenSeq(u) = <<>>
  /\ \A u : u = [i \in 1 .. 1 |-> u[i]] => FlattenSeq(u) = u[1]
<1>1. ASSUME NEW u, u = [i \in 1 .. 0 |-> u[i]] PROVE FlattenSeq(u) = <<>>
  <2>1. u = <<>> /\ Len(u) = 0
    BY <1>1
  <2> QED
    BY <2>1 DEF FlattenSeq
<1>2. ASSUME NEW u, u = [i \in 1 .. 1 |-> u[i]] PROVE FlattenSeq(u) = u[1]
  <2> DEFINE Solves(f) == f = [i \in 1 .. Len(u) |-> IF i = 1 THEN u[i] ELSE f[i - 1] \o u[i]]
             flatten == CHOOSE f : Solves(f)
  <2>1. Len(u) = 1
    <3>1. u \in Seq({u[1]}) /\ Len(u) = 1
      BY <1>2, PartsSeq
    <3> QED
      BY <3>1
  <2>2. Solves([i \in 1 .. Len(u) |-> u[1]])
    BY <2>1
  <2>3. Solves(flatten)
    BY <2>2
  <2>4. FlattenSeq(u) = flatten[Len(u)]
    BY <2>1 DEF FlattenSeq
  <2> HIDE DEF flatten
  <2> QED
    BY <2>1, <2>3, <2>4
<1> QED
  BY <1>1, <1>2

\* The provider's texts are sequences of numbered fragments.
Text == Seq(Nat)
CallParts == [index : Int, body : Text]
BlockKinds == {"reasoning.text", "unknown", "none"}
BlockLabels == {"0", "1", "none"}
BlockParts == [type : BlockKinds, index : BlockLabels, id : BlockLabels, body : Text]

\* Every delta carries a text, and one of reasoning no index.
Sound(d) == d.body \in Text /\ (d.kind = "reasoning" => d.index = 0)
Bodied(s) == \A i \in 1 .. Len(s) : Sound(s[i])

\* What one delta says on a channel, and what each of a sequence does.
Part(d, channel) == IF d.kind = channel[1] /\ d.index = channel[2] THEN d.body ELSE <<>>
Parts(s, channel) == [i \in 1 .. Len(s) |-> Part(s[i], channel)]

\* Told joins the parts, which are texts.
LEMMA ToldParts ==
  ASSUME NEW s, Sequential(s), Bodied(s), NEW channel
  PROVE  /\ Told(s, channel) = FlattenSeq(Parts(s, channel))
         /\ Parts(s, channel) \in Seq(Text) /\ Len(Parts(s, channel)) = Len(s)
         /\ Told(s, channel) \in Text
<1> DEFINE u == Parts(s, channel)
<1>1. Told(s, channel) = FlattenSeq(u)
  BY DEF Told, Parts, Part
<1>2. Len(s) \in Nat
  BY SeqLen
<1>3. u = [i \in 1 .. Len(s) |-> u[i]]
  BY DEF Parts
<1>4. <<>> \in Text
  BY DEF Text
<1>5. \A i \in 1 .. Len(s) : u[i] \in Text
  BY <1>4 DEF Parts, Part, Bodied, Sound
<1> HIDE DEF u
<1>6. u \in Seq(Text) /\ Len(u) = Len(s)
  BY <1>2, <1>3, <1>5, PartsSeq
<1>7. FlattenSeq(u) \in Text
  BY <1>6, FlattenType DEF Text
<1> QED
  BY <1>1, <1>6, <1>7 DEF u

\* No delta says nothing.
LEMMA ToldNone == Bodied(<<>>) /\ \A channel : Told(<<>>, channel) = <<>>
<1>1. Bodied(<<>>)
  BY NoneSeq DEF Bodied
<1>2. ASSUME NEW channel PROVE Told(<<>>, channel) = <<>>
  <2>1. Parts(<<>>, channel) = [i \in 1 .. 0 |-> Parts(<<>>, channel)[i]]
    BY NoneSeq DEF Parts
  <2>2. FlattenSeq(Parts(<<>>, channel)) = <<>>
    BY <2>1, FlattenFew
  <2> QED
    BY <1>1, <2>2, NoneSeq, ToldParts
<1> QED
  BY <1>1, <1>2

\* One delta says its part.
LEMMA ToldOne ==
  ASSUME NEW x, Sound(x)
  PROVE  Bodied(<<x>>) /\ \A channel : Told(<<x>>, channel) = Part(x, channel) /\ Part(x, channel) \in Text
<1> DEFINE s == <<x>>
<1>1. Sequential(s) /\ Len(s) = 1 /\ s[1] = x
  BY OneSeq
<1> HIDE DEF s
<1>2. Bodied(s)
  BY <1>1 DEF Bodied
<1>3. ASSUME NEW channel PROVE Told(s, channel) = Part(x, channel) /\ Part(x, channel) \in Text
  <2>1. Parts(s, channel) = [i \in 1 .. 1 |-> Parts(s, channel)[i]] /\ Parts(s, channel)[1] = Part(x, channel)
    BY <1>1 DEF Parts
  <2>2. FlattenSeq(Parts(s, channel)) = Part(x, channel)
    BY <2>1, FlattenFew
  <2>3. Told(s, channel) = FlattenSeq(Parts(s, channel)) /\ Told(s, channel) \in Text
    BY <1>1, <1>2, ToldParts
  <2> QED
    BY <2>2, <2>3
<1> QED
  BY <1>2, <1>3 DEF s

\* Deltas in a row say what the first say and then what the others say.
LEMMA ToldConcat ==
  ASSUME NEW s, NEW t, Sequential(s), Sequential(t), Bodied(s), Bodied(t)
  PROVE  /\ Sequential(s \o t) /\ Bodied(s \o t)
         /\ \A channel : Told(s \o t, channel) = Told(s, channel) \o Told(t, channel)
<1> DEFINE u == s \o t
<1>1. /\ Sequential(u) /\ Len(u) = Len(s) + Len(t)
      /\ \A i \in 1 .. Len(s) : u[i] = s[i]
      /\ \A i \in 1 .. Len(t) : u[Len(s) + i] = t[i]
  BY ConcatSeq
<1>2. Len(s) \in Nat /\ Len(t) \in Nat
  BY SeqLen
<1> HIDE DEF u
<1>3. Bodied(u)
  <2>1. ASSUME NEW i \in 1 .. Len(u) PROVE Sound(u[i])
    <3>1. CASE i \in 1 .. Len(s)
      BY <1>1, <3>1 DEF Bodied
    <3>2. CASE i \notin 1 .. Len(s)
      <4>1. i - Len(s) \in 1 .. Len(t) /\ Len(s) + (i - Len(s)) = i
        BY <1>1, <1>2, <3>2
      <4>2. u[Len(s) + (i - Len(s))] = t[i - Len(s)]
        BY <1>1, <4>1
      <4> QED
        BY <4>1, <4>2 DEF Bodied
    <3> QED
      BY <3>1, <3>2
  <2> QED
    BY <2>1 DEF Bodied
<1>4. ASSUME NEW channel PROVE Told(u, channel) = Told(s, channel) \o Told(t, channel)
  <2> DEFINE a == Parts(s, channel)
             b == Parts(t, channel)
             c == Parts(u, channel)
  <2>1. Told(s, channel) = FlattenSeq(a) /\ a \in Seq(Text) /\ Len(a) = Len(s)
    BY ToldParts
  <2>2. Told(t, channel) = FlattenSeq(b) /\ b \in Seq(Text) /\ Len(b) = Len(t)
    BY ToldParts
  <2>3. Told(u, channel) = FlattenSeq(c) /\ c \in Seq(Text) /\ Len(c) = Len(u)
    BY <1>1, <1>3, ToldParts
  <2>4. \A i \in 1 .. Len(s) : c[i] = a[i]
    BY <1>1, <1>2 DEF Parts
  <2>5. \A i \in 1 .. Len(t) : c[Len(s) + i] = b[i]
    <3>1. \A i \in 1 .. Len(t) : Len(s) + i \in 1 .. Len(u)
      BY <1>1, <1>2
    <3> QED
      BY <1>1, <3>1 DEF Parts
  <2> HIDE DEF a, b, c
  <2>6. Follows(c, a, b)
    BY <1>1, <2>1, <2>2, <2>3, <2>4, <2>5 DEF Follows
  <2> QED
    BY <2>1, <2>2, <2>3, <2>6, FlattenConcat DEF Text
<1> QED
  BY <1>1, <1>3, <1>4 DEF u

\* A delivered delta adds its part at the end.
LEMMA ToldAppend ==
  ASSUME NEW s, Sequential(s), Bodied(s), NEW x, Sound(x)
  PROVE  /\ Bodied(Append(s, x))
         /\ \A channel : Told(Append(s, x), channel) = Told(s, channel) \o Part(x, channel)
<1>1. Append(s, x) = s \o <<x>>
  <2>1. PICK S : s \in Seq(S)
    BY DEF Sequential
  <2> DEFINE T == S \cup {x}
  <2>2. s \in Seq(T) /\ x \in T
    BY <2>1
  <2> HIDE DEF T
  <2> QED
    BY <2>2, AppendIsConcat
<1> DEFINE t == <<x>>
<1>2. Sequential(t) /\ Bodied(t) /\ \A channel : Told(t, channel) = Part(x, channel)
  BY OneSeq, ToldOne
<1>3. Append(s, x) = s \o t
  BY <1>1
<1> HIDE DEF t
<1>4. Bodied(s \o t) /\ \A channel : Told(s \o t, channel) = Told(s, channel) \o Told(t, channel)
  BY <1>2, ToldConcat
<1> QED
  BY <1>2, <1>3, <1>4

\* The first pending delta says its part before the others.
LEMMA ToldHead ==
  ASSUME NEW s, Sequential(s), s # <<>>, Bodied(s)
  PROVE  /\ Bodied(Tail(s)) /\ Sound(Head(s))
         /\ \A channel : Told(s, channel) = Part(Head(s), channel) \o Told(Tail(s), channel)
<1>0. Len(s) \in Nat /\ Len(s) # 0
  BY SeqLen
<1>1. /\ Sequential(Tail(s)) /\ Len(Tail(s)) = Len(s) - 1 /\ Head(s) = s[1]
      /\ \A i \in 1 .. Len(Tail(s)) : Tail(s)[i] = s[i + 1]
  BY TailSeq
<1>2. Bodied(Tail(s)) /\ Sound(Head(s))
  <2>1. \A i \in 1 .. Len(Tail(s)) : i + 1 \in 1 .. Len(s)
    BY <1>0, <1>1
  <2> QED
    BY <1>0, <1>1, <2>1 DEF Bodied
<1>3. s = <<Head(s)>> \o Tail(s)
  <2>1. PICK S : s \in Seq(S)
    BY DEF Sequential
  <2> QED
    BY <2>1
<1> DEFINE h == <<Head(s)>>
<1>4. Sequential(h) /\ Bodied(h) /\ \A channel : Told(h, channel) = Part(Head(s), channel)
  BY <1>2, OneSeq, ToldOne
<1>5. s = h \o Tail(s)
  BY <1>3
<1> HIDE DEF h
<1>6. \A channel : Told(h \o Tail(s), channel) = Told(h, channel) \o Told(Tail(s), channel)
  BY <1>1, <1>2, <1>4, ToldConcat
<1> QED
  BY <1>2, <1>4, <1>5, <1>6

\* Runs of deltas have their elements from one set.
LEMMA CommonType ==
  ASSUME NEW k \in Nat, NEW seqs, seqs = [i \in 1 .. k |-> seqs[i]],
         \A i \in 1 .. k : Sequential(seqs[i])
  PROVE  \E S : seqs \in Seq(Seq(S)) /\ Len(seqs) = k
<1> DEFINE S == UNION {{seqs[i][j] : j \in 1 .. Len(seqs[i])} : i \in 1 .. k}
<1>1. ASSUME NEW i \in 1 .. k PROVE seqs[i] \in Seq(S)
  <2>1. PICK T : seqs[i] \in Seq(T)
    BY DEF Sequential
  <2>2. Len(seqs[i]) \in Nat /\ \A j \in 1 .. Len(seqs[i]) : seqs[i][j] \in S
    BY <2>1
  <2> HIDE DEF S
  <2>3. seqs[i] \in [1 .. Len(seqs[i]) -> S]
    BY <2>1, <2>2
  <2> QED
    BY <2>2, <2>3, SeqDef
<1> HIDE DEF S
<1>2. seqs \in Seq(Seq(S)) /\ Len(seqs) = k
  BY <1>1, PartsSeq
<1> QED
  BY <1>2

\* Runs flattened into one say what each says, joined.
LEMMA ToldFlatten ==
  ASSUME NEW k \in Nat, NEW seqs, seqs = [i \in 1 .. k |-> seqs[i]],
         \A i \in 1 .. k : Sequential(seqs[i]) /\ Bodied(seqs[i])
  PROVE  /\ Sequential(FlattenSeq(seqs)) /\ Bodied(FlattenSeq(seqs))
         /\ \A channel : Told(FlattenSeq(seqs), channel) = FlattenSeq([i \in 1 .. k |-> Told(seqs[i], channel)])
<1>1. PICK S : seqs \in Seq(Seq(S)) /\ Len(seqs) = k
  BY CommonType
<1>2. PICK w \in [0 .. k -> Seq(S)] :
        w[0] = <<>> /\ (\A i \in 1 .. k : w[i] = w[i - 1] \o seqs[i]) /\ w[k] = FlattenSeq(seqs)
  BY <1>1, FlattenUnrolls
<1>3. \A i \in Nat : i <= k => Sequential(w[i]) /\ Bodied(w[i])
  <2> DEFINE P == {i \in Nat : i <= k => Sequential(w[i]) /\ Bodied(w[i])}
  <2>1. 0 \in P
    BY <1>2, NoneSeq, ToldNone
  <2>2. ASSUME NEW i \in Nat, i \in P PROVE i + 1 \in P
    <3>0. i + 1 \in Nat
      OBVIOUS
    <3> SUFFICES ASSUME i + 1 <= k PROVE Sequential(w[i + 1]) /\ Bodied(w[i + 1])
      BY <3>0
    <3>1. i + 1 \in 1 .. k /\ (i + 1) - 1 = i /\ i <= k
      OBVIOUS
    <3>2. w[i + 1] = w[i] \o seqs[i + 1] /\ Sequential(w[i]) /\ Bodied(w[i])
      BY <1>2, <2>2, <3>1
    <3> QED
      BY <3>1, <3>2, ToldConcat
  <2>3. Nat \subseteq P
    <3> HIDE DEF P
    <3> QED
      BY <2>1, <2>2, Induction
  <2> QED
    BY <2>3
<1>5. ASSUME NEW i \in Nat, i + 1 <= k
      PROVE  \A channel : Told(w[i] \o seqs[i + 1], channel) = Told(w[i], channel) \o Told(seqs[i + 1], channel)
  <2> DEFINE s == w[i]
             t == seqs[i + 1]
  <2>1. i + 1 \in 1 .. k /\ i <= k
    BY <1>5
  <2>2. Sequential(s) /\ Bodied(s) /\ Sequential(t) /\ Bodied(t)
    BY <1>3, <2>1
  <2> HIDE DEF s, t
  <2>3. \A channel : Told(s \o t, channel) = Told(s, channel) \o Told(t, channel)
    BY <2>2, ToldConcat
  <2> QED
    BY <2>3 DEF s, t
<1>4. ASSUME NEW channel
      PROVE  Told(w[k], channel) = FlattenSeq([i \in 1 .. k |-> Told(seqs[i], channel)])
  <2> DEFINE parts == [i \in 1 .. k |-> Told(seqs[i], channel)]
  <2>1. parts \in Seq(Seq(Nat)) /\ Len(parts) = k
    <3>1. \A i \in 1 .. k : parts[i] \in Seq(Nat)
      BY ToldParts DEF Text
    <3>2. parts = [i \in 1 .. k |-> parts[i]]
      OBVIOUS
    <3> HIDE DEF parts
    <3> QED
      BY <3>1, <3>2, PartsSeq
  <2>3. \A i \in 1 .. k : parts[i] = Told(seqs[i], channel)
    OBVIOUS
  <2> HIDE DEF parts
  <2>2. PICK v \in [0 .. k -> Seq(Nat)] :
          v[0] = <<>> /\ (\A i \in 1 .. k : v[i] = v[i - 1] \o parts[i]) /\ v[k] = FlattenSeq(parts)
    BY <2>1, FlattenUnrolls
  <2>4. \A i \in Nat : i <= k => Told(w[i], channel) = v[i]
    <3> DEFINE P == {i \in Nat : i <= k => Told(w[i], channel) = v[i]}
    <3>1. 0 \in P
      BY <1>2, <2>2, ToldNone
    <3>2. ASSUME NEW i \in Nat, i \in P PROVE i + 1 \in P
      <4>0. i + 1 \in Nat
        OBVIOUS
      <4> SUFFICES ASSUME i + 1 <= k PROVE Told(w[i + 1], channel) = v[i + 1]
        BY <4>0
      <4>1. i + 1 \in 1 .. k /\ (i + 1) - 1 = i /\ i <= k
        OBVIOUS
      <4>2. w[i + 1] = w[i] \o seqs[i + 1] /\ v[i + 1] = v[i] \o parts[i + 1] /\ Told(w[i], channel) = v[i]
        BY <1>2, <2>2, <3>2, <4>1
      <4>4. Told(w[i] \o seqs[i + 1], channel) = Told(w[i], channel) \o Told(seqs[i + 1], channel)
        BY <1>5
      <4> QED
        BY <2>3, <4>1, <4>2, <4>4
    <3>3. Nat \subseteq P
      <4> HIDE DEF P
      <4> QED
        BY <3>1, <3>2, Induction
    <3> QED
      BY <3>3
  <2> QED
    BY <2>2, <2>4 DEF parts
<1> QED
  BY <1>2, <1>3, <1>4

\* Parts that are all empty join to nothing.
LEMMA FlattenEmpty ==
  ASSUME NEW parts \in Seq(Seq(Nat)), \A i \in 1 .. Len(parts) : parts[i] = <<>>
  PROVE  FlattenSeq(parts) = <<>>
<1> DEFINE k == Len(parts)
<1>0. k \in Nat /\ \A i \in 1 .. k : parts[i] = <<>>
  <2>1. k \in Nat
    OBVIOUS
  <2>2. \A i \in 1 .. k : parts[i] = <<>>
    OBVIOUS
  <2> QED
    BY <2>1, <2>2
<1>2. PICK w \in [0 .. k -> Seq(Nat)] :
        w[0] = <<>> /\ (\A i \in 1 .. k : w[i] = w[i - 1] \o parts[i]) /\ w[k] = FlattenSeq(parts)
  BY FlattenUnrolls
<1> HIDE DEF k
<1>3. \A i \in Nat : i <= k => w[i] = <<>>
  <2> DEFINE P == {i \in Nat : i <= k => w[i] = <<>>}
  <2>1. 0 \in P
    BY <1>2
  <2>2. ASSUME NEW i \in Nat, i \in P PROVE i + 1 \in P
    <3>0. i + 1 \in Nat
      OBVIOUS
    <3> SUFFICES ASSUME i + 1 <= k PROVE w[i + 1] = <<>>
      BY <3>0
    <3>1. i + 1 \in 1 .. k /\ (i + 1) - 1 = i /\ i <= k
      BY <1>0
    <3>2. w[i + 1] = w[i] \o parts[i + 1] /\ w[i] = <<>> /\ parts[i + 1] = <<>>
      BY <1>0, <1>2, <2>2, <3>1
    <3>3. <<>> \o <<>> = <<>>
      BY EmptySeq
    <3> QED
      BY <3>2, <3>3
  <2>3. Nat \subseteq P
    <3> HIDE DEF P
    <3> QED
      BY <2>1, <2>2, Induction
  <2> QED
    BY <2>3
<1> QED
  BY <1>0, <1>2, <1>3

-----------------------------------------------------------------------------
(* The provider's tool calls. *)

\* What one call fragment sends under an index, and what each of a sequence does.
CallPart(c, index) == IF c.index = index THEN c.body ELSE <<>>
CallsParts(calls, index) == [i \in 1 .. Len(calls) |-> CallPart(calls[i], index)]

\* CallsIn joins the parts, which are texts.
LEMMA CallsSum ==
  ASSUME NEW calls \in Seq(CallParts), NEW index
  PROVE  /\ CallsIn(calls, index) = FlattenSeq(CallsParts(calls, index))
         /\ CallsParts(calls, index) \in Seq(Text) /\ Len(CallsParts(calls, index)) = Len(calls)
         /\ CallsIn(calls, index) \in Text
<1> DEFINE u == CallsParts(calls, index)
<1>1. CallsIn(calls, index) = FlattenSeq(u)
  BY DEF CallsIn, CallsParts, CallPart
<1>2. Len(calls) \in Nat /\ \A i \in 1 .. Len(calls) : calls[i].body \in Text
  <2>1. \A i \in 1 .. Len(calls) : calls[i] \in CallParts
    OBVIOUS
  <2> QED
    BY <2>1 DEF CallParts
<1>3. u = [i \in 1 .. Len(calls) |-> u[i]]
  BY DEF CallsParts
<1>4. <<>> \in Text
  BY DEF Text
<1>5. \A i \in 1 .. Len(calls) : u[i] \in Text
  BY <1>2, <1>4 DEF CallsParts, CallPart
<1> HIDE DEF u
<1>6. u \in Seq(Text) /\ Len(u) = Len(calls)
  BY <1>2, <1>3, <1>5, PartsSeq
<1>7. FlattenSeq(u) \in Text
  BY <1>6, FlattenType DEF Text
<1> QED
  BY <1>1, <1>6, <1>7 DEF u

\* No call and one call.
LEMMA CallsFew ==
  /\ \A index : CallsIn(<<>>, index) = <<>>
  /\ \A c, index : CallsIn(<<c>>, index) = CallPart(c, index)
<1>1. ASSUME NEW index PROVE CallsIn(<<>>, index) = <<>>
  <2> DEFINE u == CallsParts(<<>>, index)
  <2>1. u = [i \in 1 .. 0 |-> u[i]]
    BY NoneSeq DEF CallsParts
  <2>2. FlattenSeq(u) = <<>>
    BY <2>1, FlattenFew
  <2> QED
    BY <2>2 DEF CallsIn, CallsParts, CallPart
<1>2. ASSUME NEW c, NEW index PROVE CallsIn(<<c>>, index) = CallPart(c, index)
  <2> DEFINE u == CallsParts(<<c>>, index)
  <2>1. u = [i \in 1 .. 1 |-> u[i]] /\ u[1] = CallPart(c, index)
    BY OneSeq DEF CallsParts
  <2>2. FlattenSeq(u) = CallPart(c, index)
    BY <2>1, FlattenFew
  <2> QED
    BY <2>2 DEF CallsIn, CallsParts, CallPart
<1> QED
  BY <1>1, <1>2

\* Calls in a row send what the first send and then what the others send.
LEMMA CallsConcat ==
  ASSUME NEW s \in Seq(CallParts), NEW t \in Seq(CallParts), NEW index
  PROVE  s \o t \in Seq(CallParts) /\ CallsIn(s \o t, index) = CallsIn(s, index) \o CallsIn(t, index)
<1> DEFINE u == s \o t
           a == CallsParts(s, index)
           b == CallsParts(t, index)
           c == CallsParts(u, index)
<1>1. /\ u \in Seq(CallParts) /\ Len(u) = Len(s) + Len(t)
      /\ \A i \in 1 .. Len(s) : u[i] = s[i]
      /\ \A i \in 1 .. Len(t) : u[Len(s) + i] = t[i]
  <2>1. Sequential(s) /\ Sequential(t)
    BY DEF Sequential
  <2>2. u \in Seq(CallParts)
    OBVIOUS
  <2> QED
    BY <2>1, <2>2, ConcatSeq
<1> HIDE DEF u
<1>2. CallsIn(s, index) = FlattenSeq(a) /\ a \in Seq(Text) /\ Len(a) = Len(s)
  BY CallsSum
<1>3. CallsIn(t, index) = FlattenSeq(b) /\ b \in Seq(Text) /\ Len(b) = Len(t)
  BY CallsSum
<1>4. CallsIn(u, index) = FlattenSeq(c) /\ c \in Seq(Text) /\ Len(c) = Len(u)
  BY <1>1, CallsSum
<1>5. Len(s) \in Nat /\ Len(t) \in Nat
  OBVIOUS
<1>6. \A i \in 1 .. Len(s) : c[i] = a[i]
  BY <1>1, <1>5 DEF CallsParts
<1>7. \A i \in 1 .. Len(t) : c[Len(s) + i] = b[i]
  <2>1. \A i \in 1 .. Len(t) : Len(s) + i \in 1 .. Len(u)
    BY <1>1, <1>5
  <2> QED
    BY <1>1, <2>1 DEF CallsParts
<1> HIDE DEF a, b, c
<1>8. Follows(c, a, b)
  BY <1>1, <1>2, <1>3, <1>4, <1>6, <1>7 DEF Follows
<1>9. FlattenSeq(c) = FlattenSeq(a) \o FlattenSeq(b)
  <2>1. a \in Seq(Seq(Nat)) /\ b \in Seq(Seq(Nat)) /\ c \in Seq(Seq(Nat))
    BY <1>2, <1>3, <1>4 DEF Text
  <2> QED
    BY <1>8, <2>1, FlattenConcat
<1> QED
  BY <1>1, <1>2, <1>3, <1>4, <1>9 DEF u

\* Lists of calls flattened into one send what each sends, joined.
LEMMA CallsFlatten ==
  ASSUME NEW seqs \in Seq(Seq(CallParts)), NEW index
  PROVE  /\ FlattenSeq(seqs) \in Seq(CallParts)
         /\ CallsIn(FlattenSeq(seqs), index) = FlattenSeq([i \in 1 .. Len(seqs) |-> CallsIn(seqs[i], index)])
<1> DEFINE k == Len(seqs)
           parts == [i \in 1 .. k |-> CallsIn(seqs[i], index)]
<1>1. k \in Nat /\ \A i \in 1 .. k : seqs[i] \in Seq(CallParts)
  OBVIOUS
<1>2. PICK w \in [0 .. k -> Seq(CallParts)] :
        w[0] = <<>> /\ (\A i \in 1 .. k : w[i] = w[i - 1] \o seqs[i]) /\ w[k] = FlattenSeq(seqs)
  BY FlattenUnrolls
<1> HIDE DEF k
<1>3. parts \in Seq(Seq(Nat)) /\ Len(parts) = k
  <2>1. \A i \in 1 .. k : parts[i] \in Seq(Nat)
    BY <1>1, CallsSum DEF Text
  <2>2. parts = [i \in 1 .. k |-> parts[i]]
    OBVIOUS
  <2> HIDE DEF parts
  <2> QED
    BY <1>1, <2>1, <2>2, PartsSeq
<1>5. \A i \in 1 .. k : parts[i] = CallsIn(seqs[i], index)
  OBVIOUS
<1> HIDE DEF parts
<1>4. PICK v \in [0 .. k -> Seq(Nat)] :
        v[0] = <<>> /\ (\A i \in 1 .. k : v[i] = v[i - 1] \o parts[i]) /\ v[k] = FlattenSeq(parts)
  BY <1>3, FlattenUnrolls
<1>6. \A i \in Nat : i <= k => CallsIn(w[i], index) = v[i]
  <2> DEFINE P == {i \in Nat : i <= k => CallsIn(w[i], index) = v[i]}
  <2>1. 0 \in P
    BY <1>2, <1>4, CallsFew
  <2>2. ASSUME NEW i \in Nat, i \in P PROVE i + 1 \in P
    <3>0. i + 1 \in Nat
      OBVIOUS
    <3> SUFFICES ASSUME i + 1 <= k PROVE CallsIn(w[i + 1], index) = v[i + 1]
      BY <3>0
    <3>1. i + 1 \in 1 .. k /\ (i + 1) - 1 = i /\ i <= k /\ i \in 0 .. k
      BY <1>1
    <3>2. w[i + 1] = w[i] \o seqs[i + 1] /\ v[i + 1] = v[i] \o parts[i + 1] /\ CallsIn(w[i], index) = v[i]
      BY <1>2, <1>4, <2>2, <3>1
    <3>3. w[i] \in Seq(CallParts) /\ seqs[i + 1] \in Seq(CallParts)
      BY <1>1, <3>1
    <3>4. CallsIn(w[i] \o seqs[i + 1], index) = CallsIn(w[i], index) \o CallsIn(seqs[i + 1], index)
      BY <3>3, CallsConcat
    <3> QED
      BY <1>5, <3>1, <3>2, <3>4
  <2>3. Nat \subseteq P
    <3> HIDE DEF P
    <3> QED
      BY <2>1, <2>2, Induction
  <2> QED
    BY <2>3
<1>7. k \in 0 .. k
  BY <1>1
<1> QED
  BY <1>1, <1>2, <1>4, <1>6, <1>7 DEF parts, k

-----------------------------------------------------------------------------
(* What each kind of delta says. *)

\* Texts join as sequences do.
LEMMA TextJoins ==
  /\ <<>> \in Text
  /\ \A x \in Text : <<>> \o x = x /\ x \o <<>> = x
  /\ \A x, y \in Text : x \o y \in Text
  /\ \A x, y, z \in Text : (x \o y) \o z = x \o (y \o z)
<1>1. <<>> \in Text
  BY DEF Text
<1>2. \A x \in Text : <<>> \o x = x /\ x \o <<>> = x
  BY DEF Text
<1>3. \A x, y \in Text : x \o y \in Text
  BY DEF Text
<1>4. \A x, y, z \in Text : (x \o y) \o z = x \o (y \o z)
  <2> DEFINE S == Nat
  <2> HIDE DEF S
  <2>1. \A x, y, z \in Seq(S) : (x \o y) \o z = x \o (y \o z)
    BY ConcatAssociative, SMTT(20)
  <2> QED
    BY <2>1, Zenon DEF Text, S
<1> QED
  BY <1>1, <1>2, <1>3, <1>4

\* The drivers build their deltas alike.
LEMMA SameDeltas ==
  /\ \A body, x : OpenAI!IfAny(body, x) = IfAny(body, x) /\ Anthropic!IfAny(body, x) = IfAny(body, x)
  /\ \A b : OpenAI!TextDelta(b) = TextDelta(b) /\ Anthropic!TextDelta(b) = TextDelta(b)
  /\ \A b : OpenAI!ReasoningDelta(b) = ReasoningDelta(b) /\ Anthropic!ReasoningDelta(b) = ReasoningDelta(b)
  /\ \A i, x, b : /\ OpenAI!ToolCallDelta(i, x, b) = ToolCallDelta(i, x, b)
                  /\ Anthropic!ToolCallDelta(i, x, b) = ToolCallDelta(i, x, b)
  /\ \A b, x : OpenAI!StateDelta(b, x) = StateDelta(b, x) /\ Anthropic!StateDelta(b, x) = StateDelta(b, x)
  /\ \A r : OpenAI!FinishDelta(r) = FinishDelta(r) /\ Anthropic!FinishDelta(r) = FinishDelta(r)
BY DEF IfAny, OpenAI!IfAny, Anthropic!IfAny, Delta, OpenAI!Delta, Anthropic!Delta,
       TextDelta, OpenAI!TextDelta, Anthropic!TextDelta,
       ReasoningDelta, OpenAI!ReasoningDelta, Anthropic!ReasoningDelta,
       ToolCallDelta, OpenAI!ToolCallDelta, Anthropic!ToolCallDelta,
       StateDelta, OpenAI!StateDelta, Anthropic!StateDelta,
       FinishDelta, OpenAI!FinishDelta, Anthropic!FinishDelta

\* The channels of an answer.
LEMMA ChannelKinds ==
  ASSUME NEW channel \in Channels
  PROVE  /\ channel[1] \in {"text", "reasoning", "call"}
         /\ channel[1] # "call" => channel[2] = 0
         /\ channel[1] = "call" => channel[2] \in 0 .. MaxToolIndex
         /\ channel[1] = "reasoning" => channel = <<"reasoning", 0>>
BY DEF Channels

\* A delta speaks on the channel of its kind.
LEMMA PartOf ==
  ASSUME NEW channel \in Channels
  PROVE  /\ \A b : Part(TextDelta(b), channel) = IF channel[1] = "text" THEN b ELSE <<>>
         /\ \A b : Part(ReasoningDelta(b), channel) = IF channel[1] = "reasoning" THEN b ELSE <<>>
         /\ \A i, x, b : Part(ToolCallDelta(i, x, b), channel) =
                           IF channel[1] = "call" /\ i = channel[2] THEN b ELSE <<>>
         /\ \A b, x : Part(StateDelta(b, x), channel) = <<>>
         /\ \A r : Part(FinishDelta(r), channel) = <<>>
BY ChannelKinds DEF Part, TextDelta, ReasoningDelta, ToolCallDelta, StateDelta, FinishDelta, Delta

\* Every delta carries a text.
LEMMA SoundDeltas ==
  /\ \A b \in Text : Sound(TextDelta(b)) /\ Sound(ReasoningDelta(b))
  /\ \A i, x : \A b \in Text : Sound(ToolCallDelta(i, x, b))
  /\ \A b \in Text : \A x : Sound(StateDelta(b, x))
  /\ \A r : Sound(FinishDelta(r))
BY TextJoins DEF Sound, TextDelta, ReasoningDelta, ToolCallDelta, StateDelta, FinishDelta, Delta

\* An optional delta says what its text says.
LEMMA IfAnySays ==
  ASSUME NEW b \in Text
  PROVE  /\ Sequential(IfAny(b, TextDelta(b))) /\ Bodied(IfAny(b, TextDelta(b)))
         /\ Sequential(IfAny(b, ReasoningDelta(b))) /\ Bodied(IfAny(b, ReasoningDelta(b)))
         /\ \A channel \in Channels :
              /\ Told(IfAny(b, TextDelta(b)), channel) = IF channel[1] = "text" THEN b ELSE <<>>
              /\ Told(IfAny(b, ReasoningDelta(b)), channel) = IF channel[1] = "reasoning" THEN b ELSE <<>>
<1> DEFINE t == TextDelta(b)
           r == ReasoningDelta(b)
<1>1. Sound(t) /\ Sound(r)
  BY SoundDeltas
<1>2. \A channel \in Channels : /\ Part(t, channel) = IF channel[1] = "text" THEN b ELSE <<>>
                                /\ Part(r, channel) = IF channel[1] = "reasoning" THEN b ELSE <<>>
  BY PartOf
<1> HIDE DEF t, r
<1>3. CASE b = <<>>
  <2>1. IfAny(b, t) = <<>> /\ IfAny(b, r) = <<>>
    BY <1>3 DEF IfAny
  <2> QED
    BY <1>3, <2>1, NoneSeq, ToldNone DEF t, r
<1>4. CASE b # <<>>
  <2>1. IfAny(b, t) = <<t>> /\ IfAny(b, r) = <<r>>
    BY <1>4 DEF IfAny
  <2> DEFINE u == <<t>>
             v == <<r>>
  <2>2. Sequential(u) /\ Sequential(v)
    BY OneSeq
  <2>3. /\ Bodied(u) /\ \A channel : Told(u, channel) = Part(t, channel)
        /\ Bodied(v) /\ \A channel : Told(v, channel) = Part(r, channel)
    BY <1>1, ToldOne
  <2>4. IfAny(b, t) = u /\ IfAny(b, r) = v
    BY <2>1
  <2> HIDE DEF u, v
  <2> QED
    BY <1>2, <2>2, <2>3, <2>4 DEF t, r
<1> QED
  BY <1>3, <1>4

\* The reasoning envelope and the finish delta say nothing on a channel.
LEMMA SilentDeltas ==
  ASSUME NEW x, \/ \E b \in Text : \E blocks : x = StateDelta(b, blocks)
                \/ \E r : x = FinishDelta(r)
  PROVE  Sequential(<<x>>) /\ Bodied(<<x>>) /\ \A channel \in Channels : Told(<<x>>, channel) = <<>>
<1>1. Sound(x) /\ \A channel \in Channels : Part(x, channel) = <<>>
  BY PartOf, SoundDeltas
<1>2. Sequential(<<x>>)
  BY OneSeq
<1>3. Bodied(<<x>>) /\ \A channel : Told(<<x>>, channel) = Part(x, channel)
  BY <1>1, ToldOne
<1> QED
  BY <1>1, <1>2, <1>3

\* A chunk's texts; one without a choice has none.
ChunkText(c) ==
  /\ c.reasoning \in Text /\ c.refusal \in Text /\ c.content \in Text
  /\ c.calls \in Seq(CallParts) /\ c.blocks \in Seq(BlockParts)
  /\ ~c.choice => c.reasoning = <<>> /\ c.content = <<>> /\ c.calls = <<>> /\ c.blocks = <<>>

\* What a chunk says on a channel.
Says(c, channel) ==
  CASE channel[1] = "text" -> c.refusal \o c.content
    [] channel[1] = "reasoning" -> c.reasoning
    [] channel[1] = "call" -> CallsIn(c.calls, channel[2])

\* What a chunk says is text.
LEMMA SaysText ==
  ASSUME NEW c, ChunkText(c), NEW channel \in Channels
  PROVE  Says(c, channel) \in Text
<1>1. c.refusal \o c.content \in Text /\ c.reasoning \in Text
  BY TextJoins DEF ChunkText
<1>2. CallsIn(c.calls, channel[2]) \in Text
  BY CallsSum DEF ChunkText
<1> QED
  BY <1>1, <1>2, ChannelKinds DEF Says

\* The delta of each tool call of a chunk whose index the driver passes on.
CallDeltas(calls) ==
  [i \in 1 .. Len(calls) |->
     IF calls[i].index \in 0 .. MaxToolIndex
     THEN <<ToolCallDelta(calls[i].index, "", calls[i].body)>> ELSE <<>>]

\* They say what the calls send.
LEMMA CallDeltasSay ==
  ASSUME NEW calls \in Seq(CallParts)
  PROVE  LET s == FlattenSeq(CallDeltas(calls)) IN
         /\ Sequential(s) /\ Bodied(s)
         /\ \A channel \in Channels :
              Told(s, channel) = IF channel[1] = "call" THEN CallsIn(calls, channel[2]) ELSE <<>>
<1> DEFINE k == Len(calls)
           seqs == CallDeltas(calls)
           x(i) == ToolCallDelta(calls[i].index, "", calls[i].body)
<1>1. k \in Nat /\ \A i \in 1 .. k : calls[i].body \in Text
  <2>1. k \in Nat /\ \A i \in 1 .. k : calls[i] \in CallParts
    OBVIOUS
  <2> QED
    BY <2>1 DEF CallParts
<1>2. seqs = [i \in 1 .. k |-> seqs[i]] /\ \A i \in 1 .. k : seqs[i] = IF calls[i].index \in 0 .. MaxToolIndex THEN <<x(i)>> ELSE <<>>
  BY DEF CallDeltas
<1> HIDE DEF k, seqs
<1>3. ASSUME NEW i \in 1 .. k
      PROVE  /\ Sequential(seqs[i]) /\ Bodied(seqs[i])
             /\ \A channel \in Channels : Told(seqs[i], channel) = IF channel[1] = "call" THEN CallPart(calls[i], channel[2]) ELSE <<>>
  <2>1. CASE calls[i].index \in 0 .. MaxToolIndex
    <3> DEFINE d == x(i)
               s == <<d>>
    <3>1. Sound(d)
      BY <1>1, SoundDeltas
    <3>2. ASSUME NEW channel \in Channels
          PROVE  Part(d, channel) = IF channel[1] = "call" THEN CallPart(calls[i], channel[2]) ELSE <<>>
      <4>1. Part(d, channel) =
              IF channel[1] = "call" /\ calls[i].index = channel[2] THEN calls[i].body ELSE <<>>
        BY PartOf
      <4> QED
        BY <4>1 DEF CallPart
    <3>3. seqs[i] = s
      BY <1>2, <2>1
    <3> HIDE DEF d
    <3>4. Sequential(s) /\ Bodied(s) /\ \A channel : Told(s, channel) = Part(d, channel)
      BY <3>1, OneSeq, ToldOne
    <3> HIDE DEF s
    <3> QED
      BY <3>2, <3>3, <3>4
  <2>2. CASE calls[i].index \notin 0 .. MaxToolIndex
    <3>1. seqs[i] = <<>>
      BY <1>2, <2>2
    <3>2. \A channel \in Channels : channel[1] = "call" => CallPart(calls[i], channel[2]) = <<>>
      BY <2>2, ChannelKinds DEF CallPart
    <3> QED
      BY <3>1, <3>2, NoneSeq, ToldNone
  <2> QED
    BY <2>1, <2>2
<1>4. /\ Sequential(FlattenSeq(seqs)) /\ Bodied(FlattenSeq(seqs))
      /\ \A channel : Told(FlattenSeq(seqs), channel) = FlattenSeq([i \in 1 .. k |-> Told(seqs[i], channel)])
  <2>1. \A i \in 1 .. k : Sequential(seqs[i]) /\ Bodied(seqs[i])
    BY <1>3
  <2>2. seqs = [i \in 1 .. k |-> seqs[i]]
    BY <1>2
  <2> QED
    BY <1>1, <2>1, <2>2, ToldFlatten
<1>5. ASSUME NEW channel \in Channels
      PROVE  FlattenSeq([i \in 1 .. k |-> Told(seqs[i], channel)]) =
               IF channel[1] = "call" THEN CallsIn(calls, channel[2]) ELSE <<>>
  <2> DEFINE parts == [i \in 1 .. k |-> Told(seqs[i], channel)]
  <2>1. CASE channel[1] = "call"
    <3>1. parts = [i \in 1 .. k |-> CallPart(calls[i], channel[2])]
      BY <1>3, <2>1
    <3>2. CallsIn(calls, channel[2]) = FlattenSeq([i \in 1 .. k |-> CallPart(calls[i], channel[2])])
      BY CallsSum DEF CallsParts, k
    <3> QED
      BY <2>1, <3>1, <3>2
  <2>2. CASE channel[1] # "call"
    <3>1. \A i \in 1 .. k : parts[i] = <<>>
      BY <1>3, <2>2
    <3>2. parts = [i \in 1 .. k |-> parts[i]]
      OBVIOUS
    <3> HIDE DEF parts
    <3>3. \A i \in 1 .. k : parts[i] \in Seq(Nat)
      <4>1. <<>> \in Seq(Nat)
        OBVIOUS
      <4> QED
        BY <3>1, <4>1
    <3>4. parts \in Seq(Seq(Nat)) /\ Len(parts) = k
      BY <1>1, <3>2, <3>3, PartsSeq
    <3>5. FlattenSeq(parts) = <<>>
      BY <3>1, <3>4, FlattenEmpty
    <3> QED
      BY <2>2, <3>5 DEF parts
  <2> QED
    BY <2>1, <2>2
<1> QED
  BY <1>4, <1>5 DEF seqs

\* deltasFromChunk publishes what the chunk says.
LEMMA ChunkSays ==
  ASSUME NEW c, ChunkText(c), NEW isRefused, c.choice \in BOOLEAN, ~c.choice => c.refusal = <<>>
  PROVE  LET s == OpenAI!deltasFromChunk(c, isRefused) IN
         /\ Bodied(s)
         /\ \A channel \in Channels : Told(s, channel) = Says(c, channel)
<1> DEFINE reason == OpenAI!finishReasonFromChoice(c, isRefused)
           p1 == IfAny(c.reasoning, ReasoningDelta(c.reasoning))
           p2 == IfAny(c.refusal, TextDelta(c.refusal))
           p3 == IfAny(c.content, TextDelta(c.content))
           p4 == FlattenSeq(CallDeltas(c.calls))
           p5 == IF reason = Unset THEN <<>> ELSE <<FinishDelta(reason)>>
<1>0. c.reasoning \in Text /\ c.refusal \in Text /\ c.content \in Text /\ c.calls \in Seq(CallParts)
  BY DEF ChunkText
<1>1. CASE ~c.choice
  <2>1. OpenAI!deltasFromChunk(c, isRefused) = <<>>
    BY <1>1 DEF OpenAI!deltasFromChunk
  <2>2. c.reasoning = <<>> /\ c.refusal = <<>> /\ c.content = <<>> /\ c.calls = <<>>
    BY <1>1 DEF ChunkText
  <2>3. <<>> \o <<>> = <<>>
    BY TextJoins
  <2>4. \A channel \in Channels : Says(c, channel) = <<>>
    BY <2>2, <2>3, CallsFew, ChannelKinds DEF Says
  <2> QED
    BY <2>1, <2>4, ToldNone
<1>2. CASE c.choice
  <2>1. OpenAI!deltasFromChunk(c, isRefused) = (((p1 \o p2) \o p3) \o p4) \o p5
    BY <1>2, SameDeltas, SameFlatten DEF CallDeltas, OpenAI!deltasFromChunk, OpenAI!Unset, Unset
  <2>2. Sequential(p1) /\ Bodied(p1) /\ \A channel \in Channels : Told(p1, channel) = IF channel[1] = "reasoning" THEN c.reasoning ELSE <<>>
    BY <1>0, IfAnySays
  <2>3. Sequential(p2) /\ Bodied(p2) /\ \A channel \in Channels : Told(p2, channel) = IF channel[1] = "text" THEN c.refusal ELSE <<>>
    BY <1>0, IfAnySays
  <2>4. Sequential(p3) /\ Bodied(p3) /\ \A channel \in Channels : Told(p3, channel) = IF channel[1] = "text" THEN c.content ELSE <<>>
    BY <1>0, IfAnySays
  <2>5. Sequential(p4) /\ Bodied(p4) /\ \A channel \in Channels : Told(p4, channel) = IF channel[1] = "call" THEN CallsIn(c.calls, channel[2]) ELSE <<>>
    BY <1>0, CallDeltasSay
  <2>6. Sequential(p5) /\ Bodied(p5) /\ \A channel \in Channels : Told(p5, channel) = <<>>
    BY SilentDeltas, NoneSeq, ToldNone
  <2> HIDE DEF p1, p2, p3, p4, p5
  <2> DEFINE q2 == p1 \o p2
             q3 == q2 \o p3
             q4 == q3 \o p4
             q5 == q4 \o p5
  <2>7. Sequential(q2) /\ Bodied(q2) /\ \A channel : Told(q2, channel) = Told(p1, channel) \o Told(p2, channel)
    BY <2>2, <2>3, ToldConcat
  <2> HIDE DEF q2
  <2>8. Sequential(q3) /\ Bodied(q3) /\ \A channel : Told(q3, channel) = Told(q2, channel) \o Told(p3, channel)
    BY <2>4, <2>7, ToldConcat
  <2> HIDE DEF q3
  <2>9. Sequential(q4) /\ Bodied(q4) /\ \A channel : Told(q4, channel) = Told(q3, channel) \o Told(p4, channel)
    BY <2>5, <2>8, ToldConcat
  <2> HIDE DEF q4
  <2>10. Bodied(q5) /\ \A channel : Told(q5, channel) = Told(q4, channel) \o Told(p5, channel)
    BY <2>6, <2>9, ToldConcat
  <2>11. OpenAI!deltasFromChunk(c, isRefused) = q5
    BY <2>1 DEF q2, q3, q4
  <2> HIDE DEF q5
  <2>12. ASSUME NEW channel \in Channels PROVE Told(q5, channel) = Says(c, channel)
    <3>1. Told(q5, channel) = (((Told(p1, channel) \o Told(p2, channel)) \o Told(p3, channel)) \o Told(p4, channel)) \o Told(p5, channel)
      BY <2>7, <2>8, <2>9, <2>10
    <3>2. CASE channel[1] = "text"
      <4>1. /\ Told(p1, channel) = <<>> /\ Told(p2, channel) = c.refusal /\ Told(p3, channel) = c.content
            /\ Told(p4, channel) = <<>> /\ Told(p5, channel) = <<>>
        BY <2>2, <2>3, <2>4, <2>5, <2>6, <3>2
      <4>2. Told(q5, channel) = (((<<>> \o c.refusal) \o c.content) \o <<>>) \o <<>>
        BY <3>1, <4>1
      <4>3. c.refusal \o c.content \in Text /\ <<>> \o c.refusal = c.refusal
        BY <1>0, TextJoins
      <4>4. Told(q5, channel) = c.refusal \o c.content
        BY <4>2, <4>3, TextJoins
      <4> QED
        BY <3>2, <4>4 DEF Says
    <3>3. CASE channel[1] = "reasoning"
      <4>1. /\ Told(p1, channel) = c.reasoning /\ Told(p2, channel) = <<>> /\ Told(p3, channel) = <<>>
            /\ Told(p4, channel) = <<>> /\ Told(p5, channel) = <<>>
        BY <2>2, <2>3, <2>4, <2>5, <2>6, <3>3
      <4>2. Told(q5, channel) = c.reasoning
        BY <1>0, <3>1, <4>1, TextJoins
      <4> QED
        BY <3>3, <4>2 DEF Says
    <3>4. CASE channel[1] = "call"
      <4>0. CallsIn(c.calls, channel[2]) \in Text
        BY <1>0, CallsSum
      <4>1. /\ Told(p1, channel) = <<>> /\ Told(p2, channel) = <<>> /\ Told(p3, channel) = <<>>
            /\ Told(p4, channel) = CallsIn(c.calls, channel[2]) /\ Told(p5, channel) = <<>>
        BY <2>2, <2>3, <2>4, <2>5, <2>6, <3>4
      <4>2. Told(q5, channel) = (((<<>> \o <<>>) \o <<>>) \o CallsIn(c.calls, channel[2])) \o <<>>
        BY <3>1, <4>1
      <4>3. Told(q5, channel) = CallsIn(c.calls, channel[2])
        BY <4>0, <4>2, TextJoins
      <4> QED
        BY <3>4, <4>3 DEF Says
    <3> QED
      BY <3>2, <3>3, <3>4, ChannelKinds
  <2> QED
    BY <2>10, <2>11, <2>12
<1> QED
  BY <1>1, <1>2

-----------------------------------------------------------------------------
(* The invariant of a call. *)

\* The driver that makes the call.
Zai == call.driver = "zai"
FromOpenAI == call.driver \in {"openai", "zai"}
FromAnthropic == call.driver = "anthropic"

\* What every chunk has: no finish reason and no refusal without a choice.
ChunkShape(c) ==
  /\ DOMAIN c = {"choice", "reasoning", "blocks", "refusal", "content", "calls", "finish", "usage"}
  /\ c.choice \in BOOLEAN
  /\ Len(c.calls) \in Nat
  /\ ~c.choice => c.finish = "" /\ c.refusal = <<>>
  /\ c.usage \in {OpenAI!NoTokens} \cup UsageFrames

\* Pending deltas are in order, and the records keep their fields.
ShapeInv ==
  /\ Orderly(pending) /\ Sequential(deltas)
  /\ DOMAIN reasoning = {"text", "blocks", "emitted"} /\ reasoning.emitted \in BOOLEAN
  /\ DOMAIN capture = {"reasoning", "published"} /\ capture.published \in BOOLEAN
  /\ DOMAIN answer = {"text", "reasoning", "blocks", "calls", "refused", "reason", "usage"}
  /\ ChunkShape(chunk)

\* The places before an outcome is known.
Running == {"start", "reading", "publish", "consume", "content", "finish", "flush"}

\* What a place in the code says of the response stream, the errors and the deltas.
PlaceInv ==
  /\ streams \in {0, 1}
  /\ streams = 1 => Streams /\ pc \in {"reading", "publish", "close"}
  /\ pc \in Running => err = {}
  /\ pc = "return" => err # {}
  /\ "callback" \in err => "provider" \notin err
  /\ pc = "start" => deltas = <<>>
  /\ pc \in {"consume", "flush"} => FromOpenAI
  /\ pending # <<>> => err = {} /\ pc \notin {"start", "return", "done"}

\* The finish delta is the last of the call, the envelope is not published twice.
OnceInv ==
  /\ "finish" \in Kinds(deltas) => pending = <<>>
  /\ "state" \in Kinds(deltas) => "state" \notin Kinds(pending)

\* A delta of this kind was delivered or is about to be.
Seen(kind) == kind \in Kinds(deltas) \cup Kinds(pending)

\* Nothing is left to publish of the reasoning state.
Quiet == reasoning.emitted \/ ~HasCallback \/ Zai \/ (reasoning.text = <<>> /\ reasoning.blocks = <<>>)

\* The OpenAI and the Z.ai driver: nothing is published behind a finish delta,
\* because the finishing chunk is only published when the reasoning is out.
OpenAIInv ==
  FromOpenAI =>
  /\ pc \notin {"content"}
  /\ pc = "close" => Streams /\ pending = <<>>
  /\ pc = "consume" => ~Streams
  /\ pc = "flush" => Zai
  /\ ~Streams /\ pc \in {"reading", "consume"} => ~Seen("finish") /\ ~Seen("state")
  /\ pc = "publish" =>
       /\ Kinds(pending) \subseteq {"state"} /\ (pending # <<>> => Tail(pending) = <<>>)
       /\ Seen("finish") => Streams /\ ~chunk.choice
       /\ Streams /\ pending = <<>> /\ chunk.choice /\ chunk.finish # "" => Quiet
  /\ pc \in {"publish", "consume"} /\ chunk.choice /\ chunk.finish # "" => answer.reason # Unset
  /\ Seen("finish") => answer.reason # Unset /\ (Streams => Quiet)
  /\ Streams /\ "state" \in Kinds(deltas) /\ ~Zai => reasoning.emitted \/ err # {}
  /\ Zai /\ Seen("state") => capture.published
  /\ Zai /\ "finish" \in Kinds(deltas) => ~HasCallback \/ capture.published \/ capture.reasoning = <<>>

\* The Anthropic driver publishes reasoning and finish delta at its end only.
AnthropicInv ==
  FromAnthropic =>
  /\ pc \in {"start", "reading", "content", "close", "done"}
  /\ pc \in {"reading", "content"} => ~Seen("finish") /\ ~Seen("state")

\* The inductive invariant of a call.
CallInv == ShapeInv /\ PlaceInv /\ OnceInv /\ OpenAIInv /\ AnthropicInv

USE DEF Zai, FromOpenAI, FromAnthropic, OpenAI!IsZai, OpenAI!IsOpenAI, Anthropic!IsAnthropic,
        Streams, OpenAI!Streams, Anthropic!Streams, HasCallback, OpenAI!HasCallback, Anthropic!HasCallback,
        Idle, OpenAI!Idle, Anthropic!Idle, Unset, OpenAI!Unset, Anthropic!Unset,
        Seen, Running

\* A call starts in the invariant.
LEMMA StartsRight == ASSUME Init PROVE CallInv
<1> USE NoneOrderly DEF Init, CallInit
<1>1. ShapeInv
  <2>1. ChunkShape(chunk)
    BY DEF OpenAI!OpenAIInit, OpenAI!NoChunk, OpenAI!NoTokens, ChunkShape
  <2> QED
    BY <2>1 DEF ShapeInv, OpenAI!OpenAIInit, NoAnswer, Orderly
<1>2. PlaceInv
  BY DEF PlaceInv
<1>3. OnceInv
  BY DEF OnceInv
<1>4. OpenAIInv /\ AnthropicInv
  BY DEF OpenAIInv, AnthropicInv
<1> QED
  BY <1>1, <1>2, <1>3, <1>4 DEF CallInv

\* The empty chunk has the shape.
LEMMA BlankChunk ==
  /\ ChunkShape(OpenAI!NoChunk) /\ OpenAI!NoChunk.choice = TRUE
BY NoneSeq DEF OpenAI!NoChunk, ChunkShape

\* Filling in one field of a chunk keeps its shape.
LEMMA ChunkSent ==
  ASSUME NEW c, NEW f, NEW x, ChunkShape(c),
         \/ f \in {"reasoning", "blocks", "content"}
         \/ f = "refusal" /\ c.choice
         \/ f = "finish" /\ c.choice
         \/ f = "calls" /\ Len(x) \in Nat
         \/ f = "usage" /\ x \in {OpenAI!NoTokens} \cup UsageFrames
         \/ f = "choice" /\ x \in BOOLEAN /\ c.finish = "" /\ c.refusal = <<>>
  PROVE  ChunkShape([c EXCEPT ![f] = x])
BY DEF ChunkShape

\* Sending the request, or failing to, keeps the invariant.
LEMMA OpenAIStarts ==
  ASSUME CallInv, OpenAI!openaiStart PROVE CallInv'
<1> USE DEF CallInv, OpenAI!openaiStart, OpenAI!openaiVars
<1>1. ShapeInv'
  BY DEF ShapeInv
<1>2. PlaceInv' /\ OnceInv'
  BY DEF PlaceInv, OnceInv
<1>3. AnthropicInv'
  BY DEF AnthropicInv
<1>4. OpenAIInv'
  BY NoneOrderly DEF OpenAIInv, PlaceInv, OnceInv, Quiet
<1> QED
  BY <1>1, <1>2, <1>3, <1>4

\* Every chunk a provider streams has the shape.
LEMMA StreamedChunks ==
  ASSUME NEW c, \/ c \in OpenAI!ContentChunks \cup OpenAI!FinishChunks \cup OpenAI!UsageChunks
                \/ c = OpenAI!MalformedChunk
                \/ \E b : c = OpenAI!BlockChunk(b)
  PROVE  ChunkShape(c)
<1> DEFINE blank == OpenAI!NoChunk
<1>0. ChunkShape(blank) /\ blank.choice = TRUE /\ blank.finish = "" /\ blank.refusal = <<>>
  BY BlankChunk DEF OpenAI!NoChunk
<1> HIDE DEF blank
<1>1. CASE c \in OpenAI!ContentChunks
  <2>1. ASSUME NEW i, c = [blank EXCEPT !.calls = <<[index |-> i, body |-> OpenAI!Fragment]>>]
        PROVE  ChunkShape(c)
    <3> DEFINE x == <<[index |-> i, body |-> OpenAI!Fragment]>>
    <3>1. Len(x) \in Nat
      OBVIOUS
    <3> HIDE DEF x
    <3> QED
      BY <1>0, <2>1, <3>1, ChunkSent DEF x
  <2>2. CASE c \in {[blank EXCEPT !.reasoning = OpenAI!Fragment], [blank EXCEPT !.content = OpenAI!Fragment],
                    [blank EXCEPT !.refusal = OpenAI!Fragment]}
    <3>1. ASSUME NEW f \in {"reasoning", "content", "refusal"} PROVE ChunkShape([blank EXCEPT ![f] = OpenAI!Fragment])
      BY <1>0, ChunkSent
    <3> QED
      BY <2>2, <3>1
  <2> QED
    BY <1>1, <2>1, <2>2 DEF OpenAI!ContentChunks, blank
<1>2. CASE c \in OpenAI!FinishChunks
  <2>1. PICK r, b : /\ c = [b EXCEPT !.finish = r]
                    /\ b \in {blank, [blank EXCEPT !.content = OpenAI!Fragment],
                              [blank EXCEPT !.reasoning = OpenAI!Fragment]}
                             \cup {[blank EXCEPT !.usage = u] : u \in UsageFrames}
    BY <1>2 DEF OpenAI!FinishChunks, blank
  <2>2. ChunkShape(b) /\ b.choice = TRUE
    <3>1. CASE b = blank
      BY <1>0, <3>1
    <3>2. ASSUME NEW f \in {"content", "reasoning", "usage"}, NEW x, b = [blank EXCEPT ![f] = x],
                 f = "usage" => x \in UsageFrames
          PROVE  ChunkShape(b) /\ b.choice = TRUE
      <4>1. ChunkShape(b)
        BY <1>0, <3>2, ChunkSent
      <4>2. b.choice = TRUE
        BY <1>0, <3>2 DEF ChunkShape
      <4> QED
        BY <4>1, <4>2
    <3> QED
      BY <2>1, <3>1, <3>2
  <2> QED
    BY <2>1, <2>2, ChunkSent
<1>3. CASE c \in OpenAI!UsageChunks
  <2>1. PICK u \in UsageFrames : c = [blank EXCEPT !.choice = FALSE, !.usage = u]
    BY <1>3 DEF OpenAI!UsageChunks, blank
  <2> DEFINE d == [blank EXCEPT !.choice = FALSE]
  <2>2. ChunkShape(d)
    BY <1>0, ChunkSent
  <2>3. c = [d EXCEPT !.usage = u]
    BY <2>1
  <2> HIDE DEF d
  <2> QED
    BY <2>2, <2>3, ChunkSent
<1>4. CASE c = OpenAI!MalformedChunk
  BY <1>0, <1>4, ChunkSent DEF OpenAI!MalformedChunk, blank
<1>5. CASE \E b : c = OpenAI!BlockChunk(b)
  <2>1. PICK x : c = [blank EXCEPT !.blocks = x]
    BY <1>5 DEF OpenAI!BlockChunk, blank
  <2>2. ChunkShape([blank EXCEPT !["blocks"] = x])
    BY <1>0, ChunkSent
  <2> QED
    BY <2>1, <2>2
<1> QED
  BY <1>1, <1>2, <1>3, <1>4, <1>5

\* Every completion has the shape.
LEMMA CompleteChunks ==
  ASSUME NEW c \in OpenAI!Completions
  PROVE  ChunkShape(c)
<1>1. /\ DOMAIN c = {"choice", "reasoning", "blocks", "refusal", "content", "calls", "finish", "usage"}
      /\ c.choice = TRUE /\ c.usage \in {OpenAI!NoTokens} \cup UsageFrames
      /\ c.calls \in {<<>>, <<[index |-> 0, body |-> <<5>>], [index |-> 0, body |-> <<6>>]>>}
  BY DEF OpenAI!Completions
<1>2. Len(c.calls) \in Nat
  BY <1>1
<1> QED
  BY <1>1, <1>2 DEF ChunkShape

\* chunkFromCompletion keeps the shape, the reason, the refusal and the counts.
LEMMA CompletionChunk ==
  ASSUME NEW c, ChunkShape(c)
  PROVE  LET d == OpenAI!chunkFromCompletion(c) IN
         /\ ChunkShape(d) /\ d.choice = c.choice /\ d.finish = c.finish /\ d.refusal = c.refusal
         /\ d.usage = c.usage
<1> DEFINE calls == [i \in 1 .. Len(c.calls) |-> [c.calls[i] EXCEPT !.index = i - 1]]
<1>1. Len(calls) \in Nat
  <2>1. Len(c.calls) \in Nat
    BY DEF ChunkShape
  <2>2. calls \in [1 .. Len(c.calls) -> {calls[i] : i \in 1 .. Len(c.calls)}]
    OBVIOUS
  <2>3. calls \in Seq({calls[i] : i \in 1 .. Len(c.calls)})
    BY <2>1, <2>2, SeqDef
  <2> HIDE DEF calls
  <2> QED
    BY <2>3
<1>2. OpenAI!chunkFromCompletion(c) = [c EXCEPT !.reasoning = <<>>, !.blocks = <<>>, !.calls = calls]
  BY DEF OpenAI!chunkFromCompletion
<1> HIDE DEF calls
<1> QED
  BY <1>1, <1>2 DEF ChunkShape

-----------------------------------------------------------------------------
(* The steps of the OpenAI and the Z.ai driver. *)

\* emit is empty exactly when nothing is left to publish.
LEMMA QuietEmit == OpenAI!emit(reasoning) = <<>> <=> Quiet
<1>1. \A x : <<x>> # <<>>
  BY OneSeq
<1> QED
  BY <1>1 DEF OpenAI!emit, Quiet, OpenAI!KeepsReasoning

\* The same after a step.
LEMMA QuietEmitNext == OpenAI!emit(reasoning)' = <<>> <=> Quiet'
<1>1. \A x : <<x>> # <<>>
  BY OneSeq
<1> QED
  BY <1>1 DEF OpenAI!emit, Quiet, OpenAI!KeepsReasoning

\* consume keeps the shape and never touches emitted.
LEMMA ConsumeShape ==
  ASSUME NEW state, NEW c, DOMAIN state = {"text", "blocks", "emitted"}
  PROVE  LET s == OpenAI!consume(state, c) IN
         /\ DOMAIN s = {"text", "blocks", "emitted"} /\ s.emitted = state.emitted
         /\ ~c.choice => s = state
BY DEF OpenAI!consume, OpenAI!store

\* The loop's next chunk, malformed or published, keeps the invariant.
LEMMA ChunkRead ==
  ASSUME CallInv, OpenAI!Reads, Streams, NEW c, NEW b, ChunkShape(c), OpenAI!nextChunk(c, b)
  PROVE  CallInv'
<1> USE DEF CallInv, OpenAI!Reads
<1>0. /\ pc = "reading" /\ pending = <<>> /\ err = {} /\ UNCHANGED <<call, deltas, usage, streams, capture>>
      /\ chunk' = c /\ (c.choice => answer.reason = Unset)
      /\ DOMAIN answer' = DOMAIN answer
      /\ answer'.reason = IF c.finish = "" THEN answer.reason ELSE c.finish
  BY DEF OpenAI!nextChunk, OpenAI!Sent, PlaceInv, ShapeInv
<1>1. CASE OpenAI!ConsumeFails(reasoning, c)
  <2>1. pc' = "close" /\ err' = {"malformed"} /\ UNCHANGED <<pending, reasoning>>
    BY <1>1 DEF OpenAI!nextChunk
  <2>2. ShapeInv'
    BY <1>0, <2>1 DEF ShapeInv
  <2>3. PlaceInv' /\ OnceInv'
    BY <1>0, <2>1, NoneOrderly DEF PlaceInv, OnceInv
  <2>4. OpenAIInv' /\ AnthropicInv'
    BY <1>0, <2>1 DEF OpenAIInv, AnthropicInv, Quiet
  <2> QED
    BY <2>2, <2>3, <2>4
<1>2. CASE ~OpenAI!ConsumeFails(reasoning, c)
  <2>1. /\ pc' = "publish" /\ err' = {} /\ reasoning' = OpenAI!consume(reasoning, c)
        /\ pending' = IF c.choice /\ c.finish # "" THEN OpenAI!emit(OpenAI!consume(reasoning, c)) ELSE <<>>
    BY <1>0, <1>2 DEF OpenAI!nextChunk, OpenAI!consumeChunkReasoning
  <2>2. /\ DOMAIN reasoning' = {"text", "blocks", "emitted"} /\ reasoning'.emitted = reasoning.emitted
        /\ ~c.choice => reasoning' = reasoning
    BY <2>1, ConsumeShape DEF ShapeInv
  <2>3. /\ Orderly(pending') /\ Kinds(pending') \subseteq {"state"}
        /\ pending' # <<>> => /\ Tail(pending') = <<>> /\ ~reasoning'.emitted /\ ~Zai
                              /\ c.choice /\ c.finish # ""
    <3>1. CASE c.choice /\ c.finish # ""
      BY <2>1, <3>1, EmitDeltas
    <3>2. CASE ~(c.choice /\ c.finish # "")
      BY <2>1, <3>2, NoneOrderly
    <3> QED
      BY <3>1, <3>2
  <2>4. c.choice /\ c.finish # "" /\ pending' = <<>> => Quiet'
    <3>1. c.choice /\ c.finish # "" => pending' = OpenAI!emit(reasoning)'
      BY <1>0, <2>1 DEF OpenAI!emit, OpenAI!KeepsReasoning, OpenAI!StateDelta, OpenAI!Delta
    <3> QED
      BY <3>1, QuietEmitNext
  <2>5. ShapeInv'
    BY <1>0, <2>2, <2>3 DEF ShapeInv
  <2>6. PlaceInv'
    BY <1>0, <2>1 DEF PlaceInv
  <2>7. "finish" \notin Kinds(pending') /\ "finish" \notin Kinds(pending)
    BY <1>0, <2>3, NoneOrderly
  <2>8. "finish" \in Kinds(deltas) => answer.reason # Unset /\ Quiet
    BY <1>0 DEF OpenAIInv
  <2>9. OnceInv'
    BY <1>0, <2>2, <2>3, <2>8, NoneOrderly DEF OnceInv, OpenAIInv
  <2>10. AnthropicInv'
    BY <1>0 DEF AnthropicInv
  <2>11. "finish" \in Kinds(deltas) => ~c.choice /\ Quiet'
    BY <1>0, <2>2, <2>8 DEF Quiet
  <2>12. OpenAIInv'
    <3>1. /\ (Streams /\ "state" \in Kinds(deltas) /\ ~Zai => reasoning.emitted \/ err # {})'
          /\ (Zai /\ Seen("state") => capture.published)'
          /\ (Zai /\ "finish" \in Kinds(deltas) => ~HasCallback \/ capture.published \/ capture.reasoning = <<>>)'
      BY <1>0, <2>1, <2>2, <2>3, NoneOrderly DEF OpenAIInv
    <3>2. (Seen("finish") => answer.reason # Unset /\ (Streams => Quiet))'
      BY <1>0, <2>7, <2>8, <2>11
    <3>3. /\ (pc \in {"publish", "consume"} /\ chunk.choice /\ chunk.finish # "" => answer.reason # Unset)'
          /\ (/\ Kinds(pending) \subseteq {"state"} /\ (pending # <<>> => Tail(pending) = <<>>)
              /\ Seen("finish") => Streams /\ ~chunk.choice
              /\ Streams /\ pending = <<>> /\ chunk.choice /\ chunk.finish # "" => Quiet)'
      BY <1>0, <2>3, <2>4, <2>7, <2>11
    <3> QED
      BY <1>0, <2>1, <3>1, <3>2, <3>3 DEF OpenAIInv
  <2> QED
    BY <2>5, <2>6, <2>9, <2>10, <2>12
<1> QED
  BY <1>1, <1>2

\* A whole completion keeps the invariant.
LEMMA CompletionRead ==
  ASSUME CallInv, OpenAI!Reads, ~Streams, NEW c, ChunkShape(c), OpenAI!completionArrives(c)
  PROVE  CallInv'
<1> USE DEF CallInv, OpenAI!Reads
<1>0. /\ pc = "reading" /\ pending = <<>> /\ err = {} /\ err' = {} /\ pc' = "consume"
      /\ UNCHANGED <<call, n, deltas, usage, streams, raw, refused, reasoning, capture>>
      /\ chunk' = c
      /\ DOMAIN answer' = DOMAIN answer
      /\ answer'.reason = IF c.finish = "" THEN answer.reason ELSE c.finish
  BY DEF OpenAI!completionArrives, OpenAI!Sent, PlaceInv, ShapeInv
<1>1. Orderly(pending') /\ Kinds(pending') \subseteq {"reasoning"}
  <2>1. OpenAI!ReasoningDelta(c.reasoning).kind = "reasoning"
    BY DEF OpenAI!ReasoningDelta, OpenAI!Delta
  <2>2. \A body, x : OpenAI!IfAny(body, x) = IfAny(body, x)
    BY DEF OpenAI!IfAny, IfAny
  <2>3. pending' = <<>> \/ pending' = IfAny(c.reasoning, OpenAI!ReasoningDelta(c.reasoning))
    BY <2>2 DEF OpenAI!completionArrives
  <2> QED
    BY <2>1, <2>3, IfAnyDeltas, NoneOrderly
<1>2. ShapeInv'
  BY <1>0, <1>1 DEF ShapeInv
<1>3. PlaceInv'
  BY <1>0 DEF PlaceInv
<1>4. "finish" \notin Kinds(deltas) /\ "state" \notin Kinds(deltas)
  BY <1>0 DEF OpenAIInv
<1>5. OnceInv' /\ AnthropicInv'
  BY <1>0, <1>1, <1>4 DEF OnceInv, AnthropicInv
<1>6. OpenAIInv'
  BY <1>0, <1>1, <1>4 DEF OpenAIInv
<1> QED
  BY <1>2, <1>3, <1>5, <1>6

\* Publishing a completion as one chunk keeps the invariant.
LEMMA CompletionPublished ==
  ASSUME CallInv, FromOpenAI, OpenAI!publishCompletion
  PROVE  CallInv'
<1> USE DEF CallInv
<1>0. /\ pc = "consume" /\ pending = <<>> /\ err = {} /\ ~Streams
      /\ UNCHANGED <<call, n, deltas, usage, streams, answer, capture>>
      /\ "finish" \notin Kinds(deltas) /\ "state" \notin Kinds(deltas)
  BY DEF OpenAI!publishCompletion, PlaceInv, OpenAIInv
<1>1. CASE OpenAI!ConsumeFails(reasoning, chunk)
  <2>1. pc' = "return" /\ err' = {"malformed"} /\ UNCHANGED <<pending, raw, refused, reasoning, chunk>>
    BY <1>1 DEF OpenAI!publishCompletion
  <2>2. ShapeInv'
    BY <1>0, <2>1 DEF ShapeInv
  <2>3. PlaceInv' /\ OnceInv'
    BY <1>0, <2>1, NoneOrderly DEF PlaceInv, OnceInv
  <2>4. OpenAIInv' /\ AnthropicInv'
    BY <1>0, <2>1, NoneOrderly DEF OpenAIInv, AnthropicInv, Quiet
  <2> QED
    BY <2>2, <2>3, <2>4
<1>2. CASE ~OpenAI!ConsumeFails(reasoning, chunk)
  <2>1. /\ pc' = "publish" /\ err' = {} /\ reasoning' = OpenAI!consume(reasoning, chunk)
        /\ pending' = OpenAI!emit(OpenAI!consume(reasoning, chunk))
        /\ chunk' = OpenAI!chunkFromCompletion(chunk)
    BY <1>0, <1>2 DEF OpenAI!publishCompletion
  <2>2. /\ DOMAIN reasoning' = {"text", "blocks", "emitted"} /\ reasoning'.emitted = reasoning.emitted
    BY <2>1, ConsumeShape DEF ShapeInv
  <2>3. /\ Orderly(pending') /\ Kinds(pending') \subseteq {"state"}
        /\ pending' # <<>> => Tail(pending') = <<>> /\ ~Zai
    BY <2>1, EmitDeltas
  <2>4. ChunkShape(chunk') /\ chunk'.choice = chunk.choice /\ chunk'.finish = chunk.finish
    BY <2>1, CompletionChunk DEF ShapeInv
  <2>5. ShapeInv'
    BY <1>0, <2>2, <2>3, <2>4 DEF ShapeInv
  <2>6. PlaceInv'
    BY <1>0, <2>1 DEF PlaceInv
  <2>7. OnceInv' /\ AnthropicInv'
    BY <1>0, <2>3 DEF OnceInv, AnthropicInv
  <2>8. OpenAIInv'
    BY <1>0, <2>1, <2>2, <2>3, <2>4, NoneOrderly DEF OpenAIInv
  <2> QED
    BY <2>5, <2>6, <2>7, <2>8
<1> QED
  BY <1>1, <1>2

\* A mapped reason comes from a chunk that states one.
LEMMA ReasonKnown ==
  ASSUME NEW c, NEW isRefused, OpenAI!finishReasonFromChoice(c, isRefused) # Unset
  PROVE  c.finish # ""
BY DEF OpenAI!finishReasonFromChoice, OpenAI!normalizeFinishReason

\* publishChunk keeps the invariant: a finish delta comes with the reasoning out.
LEMMA ChunkPublished ==
  ASSUME CallInv, OpenAI!publishChunk PROVE CallInv'
<1> USE DEF CallInv
<1>0. /\ FromOpenAI /\ pc = "publish" /\ pending = <<>> /\ err = {} /\ err' = {}
      /\ UNCHANGED <<call, deltas, streams, answer, raw, refused, reasoning, capture>>
      /\ pc' = IF Streams THEN "reading" ELSE "finish"
      /\ chunk' = OpenAI!NoChunk
      /\ pending' = IF HasCallback THEN OpenAI!deltasFromChunk(chunk, refused) ELSE <<>>
  BY DEF OpenAI!publishChunk, PlaceInv
<1>1. /\ Orderly(pending') /\ "state" \notin Kinds(pending')
      /\ pending' # <<>> => chunk.choice
      /\ "finish" \in Kinds(pending') => chunk.choice /\ chunk.finish # ""
  <2>1. CASE HasCallback
    <3>1. Len(chunk.calls) \in Nat
      BY DEF ShapeInv, ChunkShape
    <3> QED
      BY <1>0, <2>1, <3>1, ChunkDeltas, ReasonKnown
  <2>2. CASE ~HasCallback
    BY <1>0, <2>2, NoneOrderly
  <2> QED
    BY <2>1, <2>2
<1>2. ShapeInv'
  BY <1>0, <1>1, BlankChunk DEF ShapeInv
<1>3. PlaceInv'
  BY <1>0 DEF PlaceInv
<1>4. "finish" \in Kinds(deltas) => ~chunk.choice
  BY <1>0 DEF OpenAIInv
<1>5. OnceInv' /\ AnthropicInv'
  BY <1>0, <1>1, <1>4 DEF OnceInv, AnthropicInv
<1>6. "finish" \in Kinds(pending') => answer.reason # Unset /\ (Streams => Quiet)
  BY <1>0, <1>1 DEF OpenAIInv
<1>7. Quiet' = Quiet
  BY <1>0 DEF Quiet
<1>8. OpenAIInv'
  BY <1>0, <1>1, <1>4, <1>6, <1>7, NoneOrderly DEF OpenAIInv
<1> QED
  BY <1>2, <1>3, <1>5, <1>8

\* The Z.ai driver's reasoningCapture puts its envelope before the finish delta.
LEMMA Flushed ==
  ASSUME CallInv, OpenAI!captureFlush PROVE CallInv'
<1> USE DEF CallInv
<1> DEFINE x == OpenAI!StateDelta(capture.reasoning, <<>>)
<1>0. /\ Zai /\ pending # <<>> /\ Head(pending).kind = "finish" /\ ~capture.published
      /\ pending' = <<x>> \o pending
      /\ DOMAIN capture' = DOMAIN capture /\ capture'.published = TRUE
      /\ UNCHANGED <<call, pc, n, deltas, usage, err, streams, answer, chunk, raw, refused, reasoning>>
  BY DEF OpenAI!captureFlush, OpenAI!NeedsFlush, ShapeInv
<1>1. x.kind = "state"
  BY DEF OpenAI!StateDelta, OpenAI!Delta
<1> HIDE DEF x
<1>2. /\ "state" \notin Kinds(deltas) \cup Kinds(pending)
      /\ "finish" \in Kinds(pending) /\ "finish" \notin Kinds(deltas)
  <2>1. "finish" \in Kinds(pending)
    BY <1>0, TailOrderly DEF ShapeInv
  <2>2. "finish" \notin Kinds(deltas)
    BY <1>0 DEF OnceInv
  <2>3. "state" \notin Kinds(deltas) \cup Kinds(pending)
    BY <1>0 DEF OpenAIInv
  <2> QED
    BY <2>1, <2>2, <2>3
<1>3. /\ Orderly(<<x>>) /\ Kinds(<<x>>) = {"state"} /\ <<x>> # <<>>
  BY <1>1, OneOrderly
<1>4. Orderly(pending') /\ Kinds(pending') = {"state"} \cup Kinds(pending) /\ pending' # <<>>
  BY <1>0, <1>2, <1>3, ConcatOrderly DEF ShapeInv
<1>5. pc # "publish"
  BY <1>0, <1>2 DEF OpenAIInv
<1>6. ShapeInv'
  BY <1>0, <1>4 DEF ShapeInv
<1>7. PlaceInv' /\ OnceInv' /\ AnthropicInv'
  BY <1>0, <1>2, <1>4 DEF PlaceInv, OnceInv, AnthropicInv
<1>8. Quiet' = Quiet
  BY <1>0 DEF Quiet
<1>9. OpenAIInv'
  BY <1>0, <1>2, <1>4, <1>5, <1>8 DEF OpenAIInv, PlaceInv
<1> QED
  BY <1>6, <1>7, <1>9

\* Handing a delta to the callback, which may fail, keeps the invariant.
LEMMA OpenAIDelivers ==
  ASSUME CallInv, NEW ok \in BOOLEAN, OpenAI!openaiDelta(ok) PROVE CallInv'
<1> USE DEF CallInv
<1> DEFINE d == Head(pending)
<1>0. /\ FromOpenAI /\ pending # <<>> /\ deltas' = Append(deltas, d)
      /\ ~(d.kind = "finish" /\ OpenAI!NeedsFlush)
      /\ UNCHANGED <<call, n, usage, streams, answer, chunk, raw, refused>>
      /\ err = {} /\ pc \notin {"start", "return", "done", "close"}
  BY DEF OpenAI!openaiDelta, PlaceInv, OpenAIInv
<1>1. /\ DOMAIN reasoning' = DOMAIN reasoning
      /\ reasoning'.emitted = (reasoning.emitted \/ (ok /\ d.kind = "state" /\ ~Zai))
      /\ reasoning'.text = reasoning.text /\ reasoning'.blocks = reasoning.blocks
  BY DEF OpenAI!openaiDelta, ShapeInv
<1>2. /\ DOMAIN capture' = DOMAIN capture /\ capture'.published = capture.published
      /\ d.kind # "reasoning" => capture' = capture
  BY DEF OpenAI!openaiDelta, ShapeInv
<1>3. /\ Sequential(deltas') /\ Kinds(deltas') = Kinds(deltas) \cup {d.kind}
  BY <1>0, AppendKinds DEF ShapeInv
<1>4. /\ Orderly(Tail(pending)) /\ "state" \notin Kinds(Tail(pending))
      /\ Kinds(pending) = {d.kind} \cup Kinds(Tail(pending))
      /\ d.kind = "finish" => Tail(pending) = <<>>
  BY <1>0, TailOrderly DEF ShapeInv
<1>5. "finish" \notin Kinds(deltas) /\ (d.kind = "state" => "state" \notin Kinds(deltas))
  BY <1>0, <1>4 DEF OnceInv
<1> HIDE DEF d
<1>6. CASE ok
  <2>1. pending' = Tail(pending) /\ err' = {} /\ pc' = pc
    BY <1>0, <1>6 DEF OpenAI!openaiDelta
  <2>2. ShapeInv'
    BY <1>0, <1>1, <1>2, <1>3, <1>4, <2>1 DEF ShapeInv
  <2>3. PlaceInv' /\ OnceInv' /\ AnthropicInv'
    BY <1>0, <1>3, <1>4, <1>5, <2>1, NoneOrderly DEF PlaceInv, OnceInv, AnthropicInv
  <2>4. Quiet => Quiet'
    BY <1>0, <1>1 DEF Quiet
  <2>5. pc = "publish" => d.kind = "state" /\ Tail(pending) = <<>> /\ Quiet'
    BY <1>0, <1>1, <1>4, <1>6 DEF OpenAIInv, Quiet
  <2>6. ((~Streams /\ pc \in {"reading", "consume"}) => ~Seen("finish") /\ ~Seen("state"))'
    BY <1>0, <1>3, <1>4, <2>1 DEF OpenAIInv
  <2>7. (pc = "publish" =>
           /\ Kinds(pending) \subseteq {"state"} /\ (pending # <<>> => Tail(pending) = <<>>)
           /\ Seen("finish") => Streams /\ ~chunk.choice
           /\ Streams /\ pending = <<>> /\ chunk.choice /\ chunk.finish # "" => Quiet)'
    BY <1>0, <1>3, <1>4, <2>1, <2>5, NoneOrderly DEF OpenAIInv
  <2>8. (Seen("finish") => answer.reason # Unset /\ (Streams => Quiet))'
    BY <1>0, <1>3, <1>4, <2>1, <2>4 DEF OpenAIInv
  <2>9. (Streams /\ "state" \in Kinds(deltas) /\ ~Zai => reasoning.emitted \/ err # {})'
    BY <1>0, <1>1, <1>3, <1>6, <2>1 DEF OpenAIInv
  <2>10. (Zai /\ Seen("state") => capture.published)'
    BY <1>0, <1>2, <1>3, <1>4, <2>1 DEF OpenAIInv
  <2>11. (Zai /\ "finish" \in Kinds(deltas) => ~HasCallback \/ capture.published \/ capture.reasoning = <<>>)'
    BY <1>0, <1>2, <1>3, <1>5, <2>1 DEF OpenAI!NeedsFlush
  <2>12. OpenAIInv'
    BY <1>0, <2>1, <2>6, <2>7, <2>8, <2>9, <2>10, <2>11 DEF OpenAIInv
  <2> QED
    BY <2>2, <2>3, <2>12
<1>7. CASE ~ok
  <2>1. /\ pending' = <<>> /\ err' = {"callback"}
        /\ pc' = IF Streams /\ pc \in {"publish", "reading"} THEN "close" ELSE "return"
    BY <1>0, <1>7 DEF OpenAI!openaiDelta
  <2>2. ShapeInv'
    BY <1>0, <1>1, <1>2, <1>3, <2>1, NoneOrderly DEF ShapeInv
  <2>3. PlaceInv'
    BY <1>0, <2>1 DEF PlaceInv
  <2>4. OnceInv' /\ AnthropicInv'
    BY <1>0, <2>1, NoneOrderly DEF OnceInv, AnthropicInv
  <2>5. Quiet => Quiet'
    BY <1>0, <1>1 DEF Quiet
  <2>6. /\ (Seen("finish") => answer.reason # Unset /\ (Streams => Quiet))'
        /\ (Zai /\ Seen("state") => capture.published)'
    BY <1>0, <1>2, <1>3, <1>4, <2>1, <2>5, NoneOrderly DEF OpenAIInv
  <2>7. (Zai /\ "finish" \in Kinds(deltas) => ~HasCallback \/ capture.published \/ capture.reasoning = <<>>)'
    BY <1>0, <1>2, <1>3, <1>5, <2>1 DEF OpenAI!NeedsFlush
  <2>8. OpenAIInv'
    BY <1>0, <2>1, <2>6, <2>7 DEF OpenAIInv
  <2> QED
    BY <2>2, <2>3, <2>4, <2>8
<1> QED
  BY <1>6, <1>7

\* The end or the failure of the response keeps the invariant.
LEMMA OpenAIFails ==
  ASSUME CallInv, OpenAI!endOfStream \/ OpenAI!completionFails PROVE CallInv'
<1> USE DEF CallInv
<1>0. /\ FromOpenAI /\ pc = "reading" /\ pending = <<>> /\ err = {}
      /\ UNCHANGED <<call, n, pending, deltas, usage, streams, answer, chunk, raw, refused, reasoning, capture>>
      /\ \/ Streams /\ pc' = "close"
         \/ ~Streams /\ pc' = "return" /\ err' # {}
      /\ "callback" \notin err'
  BY DEF OpenAI!endOfStream, OpenAI!completionFails, OpenAI!Reads, OpenAI!ProviderFailures,
         OpenAI!openaiVars, PlaceInv
<1>1. ShapeInv'
  BY <1>0 DEF ShapeInv
<1>2. PlaceInv' /\ OnceInv' /\ AnthropicInv'
  BY <1>0 DEF PlaceInv, OnceInv, AnthropicInv
<1>3. Quiet' = Quiet
  BY <1>0 DEF Quiet
<1>4. OpenAIInv'
  BY <1>0, <1>3 DEF OpenAIInv
<1> QED
  BY <1>1, <1>2, <1>4

\* Closing the stream, and emitting the reasoning still held, keeps the invariant.
LEMMA OpenAICloses ==
  ASSUME CallInv, NEW ok \in BOOLEAN, OpenAI!closeOpenAI(ok) PROVE CallInv'
<1> USE DEF CallInv
<1>0. /\ FromOpenAI /\ pc = "close" /\ Streams /\ pending = <<>> /\ streams' = 0
      /\ err' = (IF ok THEN err ELSE err \cup {"close"})
      /\ pc' = (IF err' = {} THEN "finish" ELSE "return")
      /\ pending' = IF err' = {} THEN OpenAI!emit(reasoning) ELSE <<>>
      /\ UNCHANGED <<call, n, deltas, usage, answer, chunk, raw, refused, reasoning, capture>>
  BY DEF OpenAI!closeOpenAI, OpenAI!openaiVars, OpenAIInv
<1>1. err' = {} => err = {}
  BY <1>0
<1>2. /\ Orderly(pending') /\ Kinds(pending') \subseteq {"state"}
      /\ pending' # <<>> => ~reasoning.emitted /\ ~Zai /\ ~Quiet
  <2>1. CASE err' = {}
    BY <1>0, <2>1, EmitDeltas, QuietEmit
  <2>2. CASE err' # {}
    BY <1>0, <2>2, NoneOrderly
  <2> QED
    BY <2>1, <2>2
<1>3. "finish" \in Kinds(deltas) => pending' = <<>>
  BY <1>0, <1>2 DEF OpenAIInv
<1>4. "state" \in Kinds(deltas) => "state" \notin Kinds(pending')
  BY <1>0, <1>1, <1>2, NoneOrderly DEF OpenAIInv
<1>5. ShapeInv'
  BY <1>0, <1>2 DEF ShapeInv
<1>6. PlaceInv'
  BY <1>0 DEF PlaceInv
<1>7. OnceInv' /\ AnthropicInv'
  BY <1>0, <1>3, <1>4 DEF OnceInv, AnthropicInv
<1>8. Quiet' = Quiet
  BY <1>0 DEF Quiet
<1>9. OpenAIInv'
  BY <1>0, <1>1, <1>2, <1>8, NoneOrderly DEF OpenAIInv
<1> QED
  BY <1>5, <1>6, <1>7, <1>9

\* finishResponse keeps the invariant.
LEMMA OpenAIFinishes ==
  ASSUME CallInv, OpenAI!finishResponse PROVE CallInv'
<1> USE DEF CallInv
<1>0. /\ FromOpenAI /\ pc = "finish" /\ pending = <<>> /\ err = {}
      /\ UNCHANGED <<call, n, pending, deltas, streams, answer, chunk, raw, refused, reasoning, capture>>
      /\ \/ pc' = "return" /\ err' = {"provider", "network_error"}
         \/ pc' = (IF Zai THEN "flush" ELSE "done") /\ err' = {}
  BY DEF OpenAI!finishResponse, OpenAI!openaiVars, PlaceInv
<1>1. ShapeInv'
  BY <1>0 DEF ShapeInv
<1>2. PlaceInv' /\ OnceInv' /\ AnthropicInv'
  BY <1>0 DEF PlaceInv, OnceInv, AnthropicInv
<1>3. Quiet' = Quiet
  BY <1>0 DEF Quiet
<1>4. OpenAIInv'
  BY <1>0, <1>3 DEF OpenAIInv
<1> QED
  BY <1>1, <1>2, <1>4

\* flush at the end of a Z.ai call keeps the invariant.
LEMMA ZaiFlushes ==
  ASSUME CallInv, FromOpenAI, OpenAI!flush PROVE CallInv'
<1> USE DEF CallInv
<1>0. /\ Zai /\ pc = "flush" /\ pending = <<>> /\ err = {} /\ err' = {}
      /\ UNCHANGED <<call, n, deltas, usage, streams, answer, chunk, raw, refused, reasoning>>
  BY DEF OpenAI!flush, PlaceInv, OpenAIInv
<1>1. Quiet' = Quiet
  BY <1>0 DEF Quiet
<1>2. CASE OpenAI!NeedsFlush
  <2> DEFINE x == OpenAI!StateDelta(capture.reasoning, <<>>)
  <2>1. /\ pending' = <<x>> /\ DOMAIN capture' = DOMAIN capture /\ capture'.published = TRUE /\ pc' = pc
    BY <1>2 DEF OpenAI!flush, ShapeInv
  <2>2. x.kind = "state"
    BY DEF OpenAI!StateDelta, OpenAI!Delta
  <2> HIDE DEF x
  <2>3. Orderly(pending') /\ Kinds(pending') = {"state"} /\ pending' # <<>>
    BY <2>1, <2>2, OneOrderly
  <2>4. "finish" \notin Kinds(deltas) /\ "state" \notin Kinds(deltas)
    BY <1>0, <1>2 DEF OpenAI!NeedsFlush, OpenAIInv
  <2>5. ShapeInv'
    BY <1>0, <2>1, <2>3 DEF ShapeInv
  <2>6. PlaceInv' /\ OnceInv' /\ AnthropicInv'
    BY <1>0, <2>1, <2>3, <2>4 DEF PlaceInv, OnceInv, AnthropicInv
  <2>7. OpenAIInv'
    BY <1>0, <1>1, <2>1, <2>3, <2>4 DEF OpenAIInv
  <2> QED
    BY <2>5, <2>6, <2>7
<1>3. CASE ~OpenAI!NeedsFlush
  <2>1. pc' = "done" /\ UNCHANGED <<pending, capture>>
    BY <1>3 DEF OpenAI!flush
  <2>2. ShapeInv'
    BY <1>0, <2>1 DEF ShapeInv
  <2>3. PlaceInv' /\ OnceInv' /\ AnthropicInv'
    BY <1>0, <2>1 DEF PlaceInv, OnceInv, AnthropicInv
  <2>4. OpenAIInv'
    BY <1>0, <1>1, <2>1 DEF OpenAIInv
  <2> QED
    BY <2>2, <2>3, <2>4
<1> QED
  BY <1>2, <1>3

\* A mapped error is still an error, and the callback's among what it wraps.
LEMMA ErrorKept ==
  ASSUME NEW e, e # {}, "callback" \in e => "provider" \notin e
  PROVE  LET m == OpenAI!providerError(e) IN
         /\ m # {} /\ ("callback" \in m <=> "callback" \in e)
         /\ "callback" \in m => "provider" \notin m
BY DEF OpenAI!providerError

\* Returning a mapped error keeps the invariant.
LEMMA OpenAIReturns ==
  ASSUME CallInv, OpenAI!returnError PROVE CallInv'
<1> USE DEF CallInv
<1>0. /\ FromOpenAI /\ pc = "return" /\ pc' = "done" /\ pending = <<>> /\ err # {}
      /\ err' # {} /\ ("callback" \in err' => "provider" \notin err')
      /\ UNCHANGED <<call, n, pending, deltas, usage, streams, answer, chunk, raw, refused, reasoning, capture>>
  BY ErrorKept DEF OpenAI!returnError, OpenAI!openaiVars, PlaceInv
<1>1. ShapeInv'
  BY <1>0 DEF ShapeInv
<1>2. PlaceInv' /\ OnceInv' /\ AnthropicInv'
  BY <1>0 DEF PlaceInv, OnceInv, AnthropicInv
<1>3. Quiet' = Quiet
  BY <1>0 DEF Quiet
<1>4. OpenAIInv'
  BY <1>0, <1>3 DEF OpenAIInv
<1> QED
  BY <1>1, <1>2, <1>4

-----------------------------------------------------------------------------
(* The steps of the Anthropic driver. *)

\* Sending the request, or failing to translate it, keeps the invariant.
LEMMA AnthropicStarts ==
  ASSUME CallInv, Anthropic!anthropicStart, UNCHANGED openaiVars PROVE CallInv'
<1> USE DEF CallInv, openaiVars
<1>0. /\ FromAnthropic /\ pc = "start" /\ deltas = <<>> /\ pending = <<>> /\ err = {}
      /\ UNCHANGED <<call, n, pending, deltas, usage>>
      /\ DOMAIN answer' = DOMAIN answer
      /\ \/ pc' = "done" /\ err' = {"request"} /\ streams' = streams
         \/ pc' = "reading" /\ err' = {} /\ streams' = IF Streams THEN 1 ELSE 0
  BY DEF Anthropic!anthropicStart, PlaceInv, ShapeInv
<1>1. ShapeInv'
  BY <1>0 DEF ShapeInv
<1>2. PlaceInv' /\ OnceInv' /\ OpenAIInv'
  BY <1>0 DEF PlaceInv, OnceInv, OpenAIInv
<1>3. AnthropicInv'
  BY <1>0, NoneOrderly DEF AnthropicInv
<1> QED
  BY <1>1, <1>2, <1>3

\* An event of the stream, accumulated and published or not, keeps the invariant.
LEMMA EventRead ==
  ASSUME CallInv, Anthropic!Reads, NEW e, Anthropic!nextEvent(e), UNCHANGED openaiVars
  PROVE  CallInv'
<1> USE DEF CallInv, openaiVars
<1>0. /\ FromAnthropic /\ pc = "reading" /\ pending = <<>> /\ err = {}
      /\ UNCHANGED <<call, deltas, usage, streams>>
      /\ DOMAIN answer' = DOMAIN answer
      /\ \/ pc' = "close" /\ "callback" \notin err' /\ UNCHANGED pending
         \/ pc' = "reading" /\ err' = {}
            /\ pending' = IF HasCallback THEN Anthropic!emitEventDelta(e) ELSE <<>>
  <2>1. DOMAIN answer' = DOMAIN answer
    BY DEF Anthropic!nextEvent, Anthropic!SentEvent
  <2> QED
    BY <2>1 DEF Anthropic!nextEvent, Anthropic!Reads, PlaceInv
<1>1. Orderly(pending') /\ "finish" \notin Kinds(pending') /\ "state" \notin Kinds(pending')
  BY <1>0, EventDeltas, NoneOrderly, PayloadOrderly
<1>2. "finish" \notin Kinds(deltas) /\ "state" \notin Kinds(deltas)
  BY <1>0 DEF AnthropicInv
<1>3. ShapeInv'
  BY <1>0, <1>1 DEF ShapeInv
<1>4. PlaceInv'
  BY <1>0 DEF PlaceInv
<1>5. OnceInv' /\ OpenAIInv' /\ AnthropicInv'
  BY <1>0, <1>1, <1>2 DEF OnceInv, OpenAIInv, AnthropicInv
<1> QED
  BY <1>3, <1>4, <1>5

\* Handing a delta to the callback, which may fail, keeps the invariant.
LEMMA AnthropicDelivers ==
  ASSUME CallInv, NEW ok \in BOOLEAN, Anthropic!anthropicDelta(ok), UNCHANGED openaiVars PROVE CallInv'
<1> USE DEF CallInv, openaiVars
<1> DEFINE d == Head(pending)
<1>0. /\ FromAnthropic /\ pending # <<>> /\ deltas' = Append(deltas, d)
      /\ UNCHANGED <<call, n, usage, streams, answer>> /\ err = {}
      /\ pc \in {"reading", "content", "close"}
      /\ \/ ok /\ pending' = Tail(pending) /\ err' = {} /\ pc' = pc
         \/ ~ok /\ pending' = <<>> /\ err' = {"callback"} /\ pc' = "close"
  BY DEF Anthropic!anthropicDelta, PlaceInv, AnthropicInv
<1>1. /\ Sequential(deltas') /\ Kinds(deltas') = Kinds(deltas) \cup {d.kind}
  BY <1>0, AppendKinds DEF ShapeInv
<1>2. /\ Orderly(Tail(pending)) /\ "state" \notin Kinds(Tail(pending))
      /\ Kinds(pending) = {d.kind} \cup Kinds(Tail(pending))
      /\ d.kind = "finish" => Tail(pending) = <<>>
  BY <1>0, TailOrderly DEF ShapeInv
<1>3. "finish" \notin Kinds(deltas)
  BY <1>0 DEF OnceInv
<1> HIDE DEF d
<1>4. ShapeInv'
  BY <1>0, <1>1, <1>2, NoneOrderly DEF ShapeInv
<1>5. PlaceInv'
  BY <1>0 DEF PlaceInv
<1>6. OnceInv' /\ OpenAIInv'
  BY <1>0, <1>1, <1>2, <1>3, NoneOrderly DEF OnceInv, OpenAIInv
<1>7. AnthropicInv'
  BY <1>0, <1>1, <1>2, NoneOrderly DEF AnthropicInv
<1> QED
  BY <1>4, <1>5, <1>6, <1>7

\* A response that breaks off keeps the invariant.
LEMMA AnthropicStops ==
  ASSUME CallInv, Anthropic!streamFails \/ Anthropic!messageFails, UNCHANGED openaiVars PROVE CallInv'
<1> USE DEF CallInv, openaiVars
<1>0. /\ FromAnthropic /\ pc = "reading" /\ pending = <<>> /\ err = {}
      /\ UNCHANGED <<call, n, pending, deltas, usage, streams, answer>>
      /\ \/ Streams /\ pc' = "close"
         \/ ~Streams /\ pc' = "done"
      /\ "callback" \notin err'
  BY DEF Anthropic!streamFails, Anthropic!messageFails, Anthropic!Reads, PlaceInv
<1>1. ShapeInv' /\ OpenAIInv'
  BY <1>0 DEF ShapeInv, OpenAIInv
<1>2. PlaceInv' /\ OnceInv' /\ AnthropicInv'
  BY <1>0 DEF PlaceInv, OnceInv, AnthropicInv
<1> QED
  BY <1>1, <1>2

\* finishStream keeps the invariant.
LEMMA AnthropicFinishes ==
  ASSUME CallInv, Anthropic!finishStream, UNCHANGED openaiVars PROVE CallInv'
<1> USE DEF CallInv, openaiVars
<1>0. /\ FromAnthropic /\ pc \in {"reading", "content"} /\ pending = <<>> /\ err = {} /\ err' = {}
      /\ UNCHANGED <<call, n, deltas, usage, streams, answer>> /\ pc' = "close"
      /\ pending' = IF HasCallback THEN Anthropic!finishStreamDeltas(message) ELSE <<>>
  BY DEF Anthropic!finishStream, PlaceInv
<1>1. Orderly(pending')
  BY <1>0, StreamEndDeltas, NoneOrderly
<1>2. "finish" \notin Kinds(deltas) /\ "state" \notin Kinds(deltas)
  BY <1>0 DEF AnthropicInv
<1>3. ShapeInv'
  BY <1>0, <1>1 DEF ShapeInv
<1>4. PlaceInv'
  BY <1>0 DEF PlaceInv
<1>5. OnceInv' /\ OpenAIInv' /\ AnthropicInv'
  BY <1>0, <1>2 DEF OnceInv, OpenAIInv, AnthropicInv
<1> QED
  BY <1>3, <1>4, <1>5

\* closeStream keeps the invariant.
LEMMA AnthropicCloses ==
  ASSUME CallInv, NEW ok \in BOOLEAN, Anthropic!closeStream(ok), UNCHANGED openaiVars PROVE CallInv'
<1> USE DEF CallInv, openaiVars
<1>0. /\ FromAnthropic /\ pc = "close" /\ pending = <<>> /\ pc' = "done" /\ streams' = 0
      /\ UNCHANGED <<call, n, pending, deltas, answer>>
      /\ err' = IF ok THEN err ELSE err \cup {"close"}
  BY DEF Anthropic!closeStream
<1>1. ShapeInv' /\ OpenAIInv'
  BY <1>0 DEF ShapeInv, OpenAIInv
<1>2. PlaceInv' /\ OnceInv' /\ AnthropicInv'
  BY <1>0 DEF PlaceInv, OnceInv, AnthropicInv
<1> QED
  BY <1>1, <1>2

\* What every message of Complete has.
LEMMA MessageContent ==
  ASSUME MaxBlocks \in Nat, NEW m \in Anthropic!Messages
  PROVE  /\ Len(m.content) \in Nat
         /\ DOMAIN m = {"content", "stop", "prompt", "completion"}
         /\ m.prompt = 2 /\ m.completion = 1
<1> DEFINE types == UNION {[1 .. k -> Anthropic!BlockTypes] : k \in 0 .. MaxBlocks}
           block(type, i) == [Anthropic!ContentBlock(type, <<i>>) EXCEPT !.open = FALSE]
           content(t) == [i \in DOMAIN t |-> block(t[i], i)]
<1>1. PICK t \in types, r \in StopReasons :
        m = [content |-> content(t), stop |-> r, prompt |-> 2, completion |-> 1]
  BY DEF Anthropic!Messages
<1>2. PICK k \in 0 .. MaxBlocks : t \in [1 .. k -> Anthropic!BlockTypes]
  OBVIOUS
<1>3. k \in Nat /\ DOMAIN t = 1 .. k
  BY <1>2
<1>4. Len(content(t)) = k
  <2> DEFINE s == content(t)
             S == {s[i] : i \in 1 .. k}
  <2>1. s \in [1 .. k -> S]
    BY <1>3
  <2> HIDE DEF s, S
  <2>2. s \in Seq(S) /\ Len(s) = k
    BY <1>3, <2>1, SeqDef
  <2> QED
    BY <2>2 DEF s
<1>5. m.content = content(t) /\ DOMAIN m = {"content", "stop", "prompt", "completion"}
  BY <1>1
<1>6. m.prompt = 2 /\ m.completion = 1
  BY <1>1
<1> HIDE DEF content
<1> QED
  BY <1>3, <1>4, <1>5, <1>6

\* A whole message keeps the invariant.
LEMMA MessageRead ==
  ASSUME CallInv, Anthropic!Reads, ~Streams, MaxBlocks \in Nat, NEW m \in Anthropic!Messages,
         Anthropic!messageArrives(m), UNCHANGED openaiVars
  PROVE  CallInv'
<1> USE DEF CallInv, openaiVars
<1>0. /\ FromAnthropic /\ pc = "reading" /\ pending = <<>> /\ err = {} /\ err' = {}
      /\ UNCHANGED <<call, n, deltas, usage, streams>> /\ pc' = "content"
      /\ pending' = IF HasCallback THEN Anthropic!emitMessageContent(m.content) ELSE <<>>
  BY DEF Anthropic!messageArrives, Anthropic!Reads, PlaceInv
<1>1. DOMAIN answer' = {"text", "reasoning", "blocks", "calls", "refused", "reason", "usage"}
  BY DEF Anthropic!messageArrives
<1>2. Orderly(pending') /\ "finish" \notin Kinds(pending') /\ "state" \notin Kinds(pending')
  BY <1>0, MessageContent, ContentDeltas, NoneOrderly, PayloadOrderly
<1>3. "finish" \notin Kinds(deltas) /\ "state" \notin Kinds(deltas)
  BY <1>0 DEF AnthropicInv
<1>4. ShapeInv'
  BY <1>0, <1>1, <1>2 DEF ShapeInv
<1>5. PlaceInv'
  BY <1>0 DEF PlaceInv
<1>6. OnceInv' /\ OpenAIInv' /\ AnthropicInv'
  BY <1>0, <1>2, <1>3 DEF OnceInv, OpenAIInv, AnthropicInv
<1> QED
  BY <1>4, <1>5, <1>6

-----------------------------------------------------------------------------
(* The invariant holds. *)

\* Every step of every driver keeps the invariant.
LEMMA NextKeeps == ASSUME CallInv, Next PROVE CallInv'
<1>1. CASE OpenAI!OpenAINext
  <2>1. CASE OpenAI!openaiStart
    BY <2>1, OpenAIStarts
  <2>2. CASE /\ OpenAI!Reads /\ Streams
             /\ \E c \in OpenAI!ContentChunks \cup OpenAI!FinishChunks \cup OpenAI!UsageChunks
                           \cup {OpenAI!MalformedChunk} : OpenAI!nextChunk(c, 0)
    BY <2>2, StreamedChunks, ChunkRead
  <2>3. CASE OpenAI!Reads /\ Streams /\ OpenAI!nextBlocks
    BY <2>3, StreamedChunks, ChunkRead DEF OpenAI!nextBlocks
  <2>4. CASE /\ OpenAI!Reads /\ ~Streams
             /\ \E c \in OpenAI!Completions \cup OpenAI!UsageChunks : OpenAI!completionArrives(c)
    BY <2>4, StreamedChunks, CompleteChunks, CompletionRead
  <2>5. CASE OpenAI!publishCompletion
    <3>1. FromOpenAI
      BY <2>5 DEF OpenAI!publishCompletion, CallInv, PlaceInv
    <3> QED
      BY <2>5, <3>1, CompletionPublished
  <2>6. CASE OpenAI!publishChunk \/ OpenAI!captureFlush
    BY <2>6, ChunkPublished, Flushed
  <2>7. CASE \E ok \in BOOLEAN : OpenAI!openaiDelta(ok) \/ OpenAI!closeOpenAI(ok)
    BY <2>7, OpenAIDelivers, OpenAICloses
  <2>8. CASE OpenAI!endOfStream \/ OpenAI!completionFails
    BY <2>8, OpenAIFails
  <2>9. CASE OpenAI!finishResponse \/ OpenAI!returnError
    BY <2>9, OpenAIFinishes, OpenAIReturns
  <2>10. CASE OpenAI!flush
    <3>1. FromOpenAI
      BY <2>10 DEF OpenAI!flush, CallInv, PlaceInv
    <3> QED
      BY <2>10, <3>1, ZaiFlushes
  <2> QED
    BY <1>1, <2>1, <2>2, <2>3, <2>4, <2>5, <2>6, <2>7, <2>8, <2>9, <2>10 DEF OpenAI!OpenAINext
<1>2. CASE Anthropic!AnthropicNext /\ UNCHANGED openaiVars
  <2>1. CASE Anthropic!anthropicStart
    BY <1>2, <2>1, AnthropicStarts
  <2>2. CASE /\ Anthropic!Reads /\ Streams
             /\ \E e \in Anthropic!ProtocolEvents \cup Anthropic!ProtocolErrors : Anthropic!nextEvent(e)
    BY <1>2, <2>2, EventRead
  <2>3. CASE \E ok \in BOOLEAN : Anthropic!anthropicDelta(ok) \/ Anthropic!closeStream(ok)
    BY <1>2, <2>3, AnthropicDelivers, AnthropicCloses
  <2>4. CASE Anthropic!streamFails \/ Anthropic!messageFails
    BY <1>2, <2>4, AnthropicStops
  <2>5. CASE Anthropic!finishStream
    BY <1>2, <2>5, AnthropicFinishes
  <2>6. CASE Anthropic!Reads /\ ~Streams /\ \E m \in Anthropic!Messages : Anthropic!messageArrives(m)
    BY <1>2, <2>6, DriverAssumption, MessageRead
  <2> QED
    BY <1>2, <2>1, <2>2, <2>3, <2>4, <2>5, <2>6 DEF Anthropic!AnthropicNext
<1> QED
  BY <1>1, <1>2 DEF Next

\* In every state of every call the pending deltas are in order, nothing follows a
\* finish delta, and the response stream is open only where the code holds it
\* (consumeStreamReasoning, reasoningCapture, consumeStream, closeStream).
THEOREM Invariant == Spec => []CallInv
<1>1. CallInv /\ [Next]_vars => CallInv'
  <2> SUFFICES ASSUME CallInv, [Next]_vars PROVE CallInv'
    OBVIOUS
  <2>1. CASE Next
    BY <2>1, NextKeeps
  <2>2. CASE UNCHANGED vars
    <3> USE <2>2 DEF CallInv, vars, callVars, openaiVars, anthropicVars
    <3>1. ShapeInv' /\ PlaceInv' /\ OnceInv' /\ AnthropicInv'
      BY DEF ShapeInv, PlaceInv, OnceInv, AnthropicInv
    <3>2. OpenAIInv'
      BY DEF OpenAIInv, Quiet
    <3> QED
      BY <3>1, <3>2
  <2> QED
    BY <2>1, <2>2
<1> QED
  BY <1>1, StartsRight, PTL DEF Spec

-----------------------------------------------------------------------------
(* The contract of one call. *)

\* What a step of a driver must be for the contract.
ContractStep == [Contract!Next]_(Contract!vars)

\* A step that touches neither deltas, stream nor outcome.
LEMMA Stutters ==
  ASSUME deltas' = deltas, "callback" \in err <=> "callback" \in err', streams' = streams,
         pc # "done", pc' # "done"
  PROVE  ContractStep
BY DEF ContractStep, Contract!vars, Done

\* Opening the response stream.
LEMMA Opens ==
  ASSUME deltas = <<>>, deltas' = deltas, "callback" \in err <=> "callback" \in err', streams' = 1,
         pc # "done", pc' # "done"
  PROVE  ContractStep
BY DEF ContractStep, Contract!Next, Contract!Open, Done

\* Closing it.
LEMMA Releases ==
  ASSUME deltas' = deltas, "callback" \in err <=> "callback" \in err', streams' = 0,
         pc # "done", pc' # "done"
  PROVE  ContractStep
BY DEF ContractStep, Contract!Next, Contract!Release, Done

\* Returning: with an error when the callback failed, and with no stream held.
LEMMA Returns ==
  ASSUME deltas' = deltas, "callback" \in err <=> "callback" \in err', streams' = 0,
         pc # "done", pc' = "done"
  PROVE  ContractStep
<1>1. Contract!Return
  BY DEF Contract!Return, Done
<1> QED
  BY <1>1 DEF ContractStep, Contract!Next

\* The contract's history is the deltas delivered.
LEMMA HappenedKinds == \A kind : Contract!Happened(kind) <=> kind \in Kinds(deltas)
BY DEF Contract!Happened, Kinds

\* Delivering a delta: not after a failure, none after the finish delta, an
\* envelope once.
LEMMA Delivers ==
  ASSUME CallInv, pending # <<>>, deltas' = Append(deltas, Head(pending)), streams' = streams,
         pc' # "done"
  PROVE  ContractStep
<1> USE DEF CallInv
<1> DEFINE d == Head(pending)
<1>1. /\ Len(deltas') = Len(deltas) + 1 /\ SubSeq(deltas', 1, Len(deltas)) = deltas
      /\ deltas'[Len(deltas')] = d
  BY AppendSeq DEF ShapeInv
<1>2. err = {} /\ pc # "done"
  BY DEF PlaceInv
<1>3. d.kind \in Kinds(pending)
  BY TailOrderly DEF ShapeInv
<1>4. "finish" \notin Kinds(deltas) /\ ("state" \in Kinds(deltas) => d.kind # "state")
  BY <1>3 DEF OnceInv
<1> HIDE DEF d
<1>5. Contract!Deliver
  BY <1>1, <1>2, <1>4, HappenedKinds DEF Contract!Deliver, Done
<1> QED
  BY <1>5 DEF ContractStep, Contract!Next

\* Every step of every driver is a step of the contract, or invisible to it.
LEMMA StepsKeepContract == ASSUME CallInv, Next PROVE ContractStep
<1> USE DEF CallInv
<1>1. CASE OpenAI!OpenAINext
  <2>1. CASE OpenAI!openaiStart
    BY <2>1, Stutters, Opens, Returns DEF OpenAI!openaiStart, PlaceInv
  <2>2. CASE OpenAI!Reads /\ \E c, b : OpenAI!nextChunk(c, b)
    <3>1. PICK c, b : OpenAI!nextChunk(c, b)
      BY <2>2
    <3>2. pc = "reading" /\ err = {} /\ deltas' = deltas /\ streams' = streams
      BY <2>2, <3>1 DEF OpenAI!Reads, OpenAI!nextChunk, PlaceInv
    <3>3. pc' \in {"close", "publish"} /\ err' \in {{"malformed"}, err}
      <4>1. CASE OpenAI!ConsumeFails(reasoning, c)
        BY <3>1, <4>1 DEF OpenAI!nextChunk
      <4>2. CASE ~OpenAI!ConsumeFails(reasoning, c)
        BY <3>1, <4>2 DEF OpenAI!nextChunk
      <4> QED
        BY <4>1, <4>2
    <3>4. pc' # "done" /\ "callback" \notin err'
      BY <3>2, <3>3
    <3> QED
      BY <3>2, <3>4, Stutters
  <2>3. CASE OpenAI!Reads /\ \E c : OpenAI!completionArrives(c)
    BY <2>3, Stutters DEF OpenAI!Reads, OpenAI!completionArrives, PlaceInv
  <2>4. CASE OpenAI!publishCompletion
    BY <2>4, Stutters DEF OpenAI!publishCompletion, PlaceInv
  <2>5. CASE OpenAI!publishChunk
    BY <2>5, Stutters DEF OpenAI!publishChunk
  <2>6. CASE OpenAI!captureFlush
    BY <2>6, Stutters DEF OpenAI!captureFlush, PlaceInv
  <2>7. CASE \E ok \in BOOLEAN : OpenAI!openaiDelta(ok)
    <3>1. PICK ok \in BOOLEAN : OpenAI!openaiDelta(ok)
      BY <2>7
    <3>2. pending # <<>> /\ deltas' = Append(deltas, Head(pending)) /\ streams' = streams /\ pc # "done"
      BY <3>1 DEF OpenAI!openaiDelta, PlaceInv
    <3>3. pc' # "done"
      BY <3>1, <3>2 DEF OpenAI!openaiDelta
    <3> QED
      BY <3>2, <3>3, Delivers
  <2>8. CASE \E ok \in BOOLEAN : OpenAI!closeOpenAI(ok)
    BY <2>8, Releases DEF OpenAI!closeOpenAI
  <2>9. CASE OpenAI!endOfStream \/ OpenAI!completionFails
    BY <2>9, Stutters DEF OpenAI!endOfStream, OpenAI!completionFails, OpenAI!Reads,
         OpenAI!ProviderFailures, PlaceInv
  <2>10. CASE OpenAI!finishResponse
    <3>1. pc = "finish" /\ streams' = streams /\ deltas' = deltas
      BY <2>10 DEF OpenAI!finishResponse
    <3>2. streams = 0 /\ err = {}
      BY <3>1 DEF PlaceInv
    <3>3. err' \in {{"provider", "network_error"}, {}}
      <4>1. err' = {"provider", "network_error"} \/ err' = err
        BY <2>10 DEF OpenAI!finishResponse
      <4> QED
        BY <3>2, <4>1
    <3> QED
      BY <3>1, <3>2, <3>3, Stutters, Returns
  <2>11. CASE OpenAI!flush
    <3>1. pc = "flush" /\ streams = 0 /\ streams' = 0 /\ deltas' = deltas /\ err' = err
      BY <2>11 DEF OpenAI!flush, PlaceInv
    <3> QED
      BY <3>1, Stutters, Returns
  <2>12. CASE OpenAI!returnError
    <3>1. /\ pc = "return" /\ pc' = "done" /\ streams = 0 /\ streams' = 0 /\ deltas' = deltas
          /\ err # {} /\ ("callback" \in err => "provider" \notin err)
      BY <2>12 DEF OpenAI!returnError, PlaceInv
    <3>2. "callback" \in err <=> "callback" \in err'
      BY <2>12, <3>1, ErrorKept DEF OpenAI!returnError
    <3> QED
      BY <3>1, <3>2, Returns
  <2> QED
    BY <1>1, <2>1, <2>2, <2>3, <2>4, <2>5, <2>6, <2>7, <2>8, <2>9, <2>10, <2>11, <2>12
    DEF OpenAI!OpenAINext, OpenAI!nextBlocks
<1>2. CASE Anthropic!AnthropicNext
  <2>1. CASE Anthropic!anthropicStart
    BY <2>1, Stutters, Opens, Returns DEF Anthropic!anthropicStart, PlaceInv
  <2>2. CASE Anthropic!Reads /\ \E e : Anthropic!nextEvent(e)
    BY <2>2, Stutters DEF Anthropic!Reads, Anthropic!nextEvent, PlaceInv
  <2>3. CASE \E ok \in BOOLEAN : Anthropic!anthropicDelta(ok)
    <3>1. PICK ok \in BOOLEAN : Anthropic!anthropicDelta(ok)
      BY <2>3
    <3>2. pending # <<>> /\ deltas' = Append(deltas, Head(pending)) /\ streams' = streams /\ pc # "done"
      BY <3>1 DEF Anthropic!anthropicDelta, PlaceInv
    <3>3. pc' # "done"
      BY <3>1, <3>2 DEF Anthropic!anthropicDelta
    <3> QED
      BY <3>2, <3>3, Delivers
  <2>4. CASE \E ok \in BOOLEAN : Anthropic!closeStream(ok)
    BY <2>4, Returns DEF Anthropic!closeStream
  <2>5. CASE Anthropic!streamFails
    BY <2>5, Stutters DEF Anthropic!streamFails, Anthropic!Reads, PlaceInv
  <2>6. CASE Anthropic!messageFails
    <3>1. /\ pc = "reading" /\ streams = 0 /\ streams' = 0 /\ deltas' = deltas /\ err = {}
          /\ "callback" \notin err' /\ pc' = "done"
      BY <2>6 DEF Anthropic!messageFails, Anthropic!Reads, PlaceInv
    <3> QED
      BY <3>1, Returns
  <2>7. CASE Anthropic!finishStream
    BY <2>7, Stutters DEF Anthropic!finishStream
  <2>8. CASE Anthropic!Reads /\ \E m \in Anthropic!Messages : Anthropic!messageArrives(m)
    BY <2>8, Stutters DEF Anthropic!messageArrives, Anthropic!Reads
  <2> QED
    BY <1>2, <2>1, <2>2, <2>3, <2>4, <2>5, <2>6, <2>7, <2>8 DEF Anthropic!AnthropicNext
<1> QED
  BY <1>1, <1>2 DEF Next

\* The three drivers implement the contract of one call (DriverContract): the
\* envelope of reasoning at most once, the finish delta once and last, no delta
\* after a failed callback, whose error is returned, and the response stream
\* closed on every way out.
THEOREM DriversKeepTheContract == Spec => ImplementsContract
<1>1. Init => Contract!Init
  BY DEF Init, CallInit, Contract!Init, Done
<1>2. CallInv /\ [Next]_vars => [Contract!Next]_(Contract!vars)
  <2> SUFFICES ASSUME CallInv, [Next]_vars PROVE [Contract!Next]_(Contract!vars)
    OBVIOUS
  <2>1. CASE Next
    BY <2>1, StepsKeepContract DEF ContractStep
  <2>2. CASE UNCHANGED vars
    BY <2>2 DEF vars, callVars, Contract!vars, Done
  <2> QED
    BY <2>1, <2>2
<1> QED
  BY <1>1, <1>2, Invariant, PTL DEF Spec, ImplementsContract, Contract!Spec

-----------------------------------------------------------------------------
(* Usage. *)

\* The two counts of a usage, and the errors after which a chunk may be missing.
Tokens(u) == <<u.prompt, u.completion>>
Flagged == "callback" \in err \/ "malformed" \in err

\* The counts are numbers, and the records keep their fields.
TallyShape ==
  /\ DOMAIN usage = {"finish", "prompt", "completion", "total"}
  /\ usage.prompt \in Nat /\ usage.completion \in Nat
  /\ DOMAIN message = {"content", "stop", "prompt", "completion"}
  /\ message.prompt \in Nat /\ message.completion \in Nat

\* The usage of a call in every place: the counts the provider last reported are in
\* the usage, or in the chunk that is being published, or in the message.
UsageInv ==
  /\ TallyShape
  /\ usage.total = usage.prompt + usage.completion
  /\ Flagged => "provider" \notin err
  /\ ~FromAnthropic /\ ~Flagged =>
       answer.usage = IF pc \in {"publish", "consume"} /\ chunk.usage # OpenAI!NoTokens
                      THEN <<chunk.usage[1], chunk.usage[2]>> ELSE Tokens(usage)
  /\ FromAnthropic =>
       /\ answer.usage = Tokens(message)
       /\ pc # "done" => Tokens(usage) = <<0, 0>>
       /\ pc = "start" \/ (pc = "reading" /\ ~Streams) => Tokens(message) = <<0, 0>>
       /\ pc = "done" => Tokens(usage) = Tokens(message)

\* Nothing is counted before the call.
LEMMA UsageStarts == ASSUME Init PROVE UsageInv
<1> USE DEF Init, CallInit
<1>1. TallyShape
  BY DEF TallyShape, NoUsage, Anthropic!AnthropicInit, Anthropic!NoMessage
<1>2. usage.prompt = 0 /\ usage.completion = 0 /\ usage.total = 0 /\ answer.usage = <<0, 0>>
  BY DEF NoUsage, NoAnswer
<1>3. message.prompt = 0 /\ message.completion = 0
  BY DEF Anthropic!AnthropicInit, Anthropic!NoMessage
<1> QED
  BY <1>1, <1>2, <1>3 DEF UsageInv, Flagged, Tokens

\* A step that leaves the counts, the answer and the chunk alone.
LEMMA UsageUntouched ==
  ASSUME UsageInv, ~FromAnthropic, UNCHANGED <<call, usage, message, answer, chunk>>,
         \/ Flagged'
         \/ ~Flagged /\ (pc' \in {"publish", "consume"} <=> pc \in {"publish", "consume"}),
         Flagged' => "provider" \notin err'
  PROVE  UsageInv'
<1>1. TallyShape'
  BY DEF UsageInv, TallyShape
<1> QED
  BY <1>1 DEF UsageInv, Tokens

\* What the provider counts is taken over, the total derived where it is missing.
LEMMA UsageTaken ==
  ASSUME TallyShape, usage.total = usage.prompt + usage.completion, NEW c, NEW isRefused, ChunkShape(c)
  PROVE  LET u == OpenAI!usageFromChunk(usage, c, isRefused) IN
         /\ DOMAIN u = {"finish", "prompt", "completion", "total"}
         /\ u.prompt \in Nat /\ u.completion \in Nat /\ u.total = u.prompt + u.completion
         /\ Tokens(u) = IF c.usage # OpenAI!NoTokens THEN <<c.usage[1], c.usage[2]>> ELSE Tokens(usage)
         /\ u.finish = IF c.choice /\ OpenAI!finishReasonFromChoice(c, isRefused) # Unset
                       THEN OpenAI!finishReasonFromChoice(c, isRefused) ELSE usage.finish
<1> DEFINE reason == IF c.choice THEN OpenAI!finishReasonFromChoice(c, isRefused) ELSE Unset
           named == IF reason = Unset THEN usage ELSE [usage EXCEPT !.finish = reason]
           total == IF c.usage[3] = 0 THEN c.usage[1] + c.usage[2] ELSE c.usage[3]
           counted == [named EXCEPT !.prompt = c.usage[1], !.completion = c.usage[2], !.total = total]
           u == OpenAI!usageFromChunk(usage, c, isRefused)
<1>1. u = IF c.usage = OpenAI!NoTokens THEN named ELSE counted
  BY DEF OpenAI!usageFromChunk
<1>2. /\ DOMAIN named = {"finish", "prompt", "completion", "total"}
      /\ named.prompt = usage.prompt /\ named.completion = usage.completion /\ named.total = usage.total
      /\ named.finish = IF c.choice /\ OpenAI!finishReasonFromChoice(c, isRefused) # Unset
                        THEN OpenAI!finishReasonFromChoice(c, isRefused) ELSE usage.finish
  BY DEF TallyShape
<1> HIDE DEF named
<1>3. CASE c.usage = OpenAI!NoTokens
  <2>1. u = named
    BY <1>1, <1>3
  <2> HIDE DEF u
  <2>2. u.prompt \in Nat /\ u.completion \in Nat /\ u.total = u.prompt + u.completion
    BY <1>2, <2>1 DEF TallyShape
  <2>3. Tokens(u) = Tokens(usage)
    BY <1>2, <2>1 DEF Tokens
  <2> QED
    BY <1>2, <1>3, <2>1, <2>2, <2>3 DEF u
<1>4. CASE c.usage # OpenAI!NoTokens
  <2>1. c.usage \in Nat \X Nat \X Nat /\ c.usage[3] \in {0, c.usage[1] + c.usage[2]}
    BY <1>4, DriverAssumption DEF ChunkShape
  <2>2. c.usage[1] \in Nat /\ c.usage[2] \in Nat /\ total = c.usage[1] + c.usage[2]
    BY <2>1
  <2>3. /\ DOMAIN counted = DOMAIN named /\ counted.prompt = c.usage[1] /\ counted.completion = c.usage[2]
        /\ counted.total = total /\ counted.finish = named.finish
    BY <1>2
  <2> HIDE DEF counted, total
  <2> QED
    BY <1>1, <1>2, <1>4, <2>2, <2>3 DEF Tokens
<1> QED
  BY <1>3, <1>4

\* Every step of the OpenAI and the Z.ai driver keeps the usage.
LEMMA OpenAIUsage ==
  ASSUME CallInv, UsageInv, OpenAI!OpenAINext, UNCHANGED anthropicVars PROVE UsageInv'
<1> USE DEF anthropicVars
<1>0. ~FromAnthropic
  <2>1. pc \in {"consume", "flush"} => FromOpenAI
    BY DEF CallInv, PlaceInv
  <2> QED
    BY <2>1 DEF OpenAI!OpenAINext, OpenAI!openaiStart, OpenAI!Reads, OpenAI!publishCompletion,
      OpenAI!publishChunk, OpenAI!captureFlush, OpenAI!openaiDelta, OpenAI!closeOpenAI, OpenAI!endOfStream,
      OpenAI!completionFails, OpenAI!finishResponse, OpenAI!flush, OpenAI!returnError
<1>1. CASE OpenAI!openaiStart
  BY <1>0, <1>1, UsageUntouched DEF OpenAI!openaiStart, OpenAI!openaiVars, CallInv, PlaceInv, Flagged
<1>2. ASSUME NEW c, NEW b, ChunkShape(c), OpenAI!Reads, OpenAI!nextChunk(c, b) PROVE UsageInv'
  <2>1. /\ UNCHANGED <<call, usage, message>> /\ chunk' = c /\ pc = "reading" /\ err = {}
        /\ answer'.usage = IF c.usage = OpenAI!NoTokens THEN answer.usage ELSE <<c.usage[1], c.usage[2]>>
    BY <1>2 DEF OpenAI!nextChunk, OpenAI!Sent, OpenAI!Reads, CallInv, ShapeInv, PlaceInv
  <2>2. (pc' = "close" /\ err' = {"malformed"}) \/ (pc' = "publish" /\ err' = {})
    BY <1>2, <2>1 DEF OpenAI!nextChunk
  <2>3. TallyShape'
    BY <2>1 DEF UsageInv, TallyShape
  <2> QED
    BY <1>0, <2>1, <2>2, <2>3 DEF UsageInv, Tokens, Flagged
<1>3. ASSUME NEW c, ChunkShape(c), OpenAI!Reads, OpenAI!completionArrives(c) PROVE UsageInv'
  <2>1. /\ UNCHANGED <<call, usage, message>> /\ chunk' = c /\ pc = "reading" /\ err = {} /\ err' = {}
        /\ pc' = "consume"
        /\ answer'.usage = IF c.usage = OpenAI!NoTokens THEN answer.usage ELSE <<c.usage[1], c.usage[2]>>
    BY <1>3 DEF OpenAI!completionArrives, OpenAI!Sent, OpenAI!Reads, CallInv, ShapeInv, PlaceInv
  <2>2. TallyShape'
    BY <2>1 DEF UsageInv, TallyShape
  <2> QED
    BY <1>0, <2>1, <2>2 DEF UsageInv, Tokens, Flagged
<1>4. CASE OpenAI!publishCompletion
  <2>1. /\ UNCHANGED <<call, usage, message, answer>> /\ pc = "consume" /\ err = {}
        /\ \/ pc' = "return" /\ err' = {"malformed"} /\ chunk' = chunk
           \/ pc' = "publish" /\ err' = {} /\ chunk' = OpenAI!chunkFromCompletion(chunk)
    BY <1>4 DEF OpenAI!publishCompletion, CallInv, PlaceInv
  <2>2. chunk'.usage = chunk.usage
    BY <2>1, CompletionChunk DEF CallInv, ShapeInv
  <2>3. TallyShape'
    BY <2>1 DEF UsageInv, TallyShape
  <2> QED
    BY <1>0, <2>1, <2>2, <2>3 DEF UsageInv, Tokens, Flagged
<1>5. CASE OpenAI!publishChunk
  <2>1. /\ UNCHANGED <<call, message, answer>> /\ pc = "publish" /\ err = {} /\ err' = {}
        /\ usage' = OpenAI!usageFromChunk(usage, chunk, refused)
        /\ pc' \in {"reading", "finish"}
    BY <1>5 DEF OpenAI!publishChunk, CallInv, PlaceInv
  <2>2. /\ DOMAIN usage' = {"finish", "prompt", "completion", "total"}
        /\ usage'.prompt \in Nat /\ usage'.completion \in Nat /\ usage'.total = usage'.prompt + usage'.completion
        /\ Tokens(usage') = IF chunk.usage # OpenAI!NoTokens
                            THEN <<chunk.usage[1], chunk.usage[2]>> ELSE Tokens(usage)
    BY <2>1, UsageTaken DEF UsageInv, CallInv, ShapeInv
  <2>3. TallyShape'
    BY <2>1, <2>2 DEF UsageInv, TallyShape
  <2> QED
    BY <1>0, <2>1, <2>2, <2>3 DEF UsageInv, Flagged
<1>6. CASE OpenAI!captureFlush
  BY <1>0, <1>6, UsageUntouched DEF OpenAI!captureFlush, Flagged, CallInv, PlaceInv
<1>7. CASE \E ok \in BOOLEAN : OpenAI!openaiDelta(ok)
  <2>1. PICK ok \in BOOLEAN : OpenAI!openaiDelta(ok)
    BY <1>7
  <2>2. /\ UNCHANGED <<call, usage, message, answer, chunk>> /\ err = {}
        /\ (err' = {} /\ pc' = pc) \/ err' = {"callback"}
    BY <2>1 DEF OpenAI!openaiDelta, CallInv, PlaceInv
  <2> QED
    BY <1>0, <2>2, UsageUntouched DEF Flagged
<1>8. CASE \E ok \in BOOLEAN : OpenAI!closeOpenAI(ok)
  <2>1. PICK ok \in BOOLEAN : OpenAI!closeOpenAI(ok)
    BY <1>8
  <2>2. /\ UNCHANGED <<call, usage, message, answer, chunk>> /\ pc = "close" /\ pc' \in {"finish", "return"}
        /\ (err' = err \/ err' = err \cup {"close"})
    BY <2>1 DEF OpenAI!closeOpenAI, OpenAI!openaiVars
  <2> QED
    BY <1>0, <2>2, UsageUntouched DEF Flagged, UsageInv
<1>9. CASE OpenAI!endOfStream \/ OpenAI!completionFails
  <2>1. /\ UNCHANGED <<call, usage, message, answer, chunk>> /\ pc = "reading" /\ pc' \in {"close", "return"}
        /\ err = {} /\ err' \in {{}} \cup OpenAI!ProviderFailures
    BY <1>9 DEF OpenAI!endOfStream, OpenAI!completionFails, OpenAI!Reads, OpenAI!openaiVars, CallInv, PlaceInv
  <2>2. "callback" \notin err' /\ "malformed" \notin err'
    BY <2>1 DEF OpenAI!ProviderFailures
  <2> QED
    BY <1>0, <2>1, <2>2, UsageUntouched DEF Flagged
<1>10. CASE OpenAI!finishResponse
  <2>1. /\ UNCHANGED <<call, message, answer, chunk>> /\ pc = "finish" /\ pc' \in {"return", "flush", "done"}
        /\ err = {} /\ (err' = {} \/ err' = {"provider", "network_error"})
        /\ usage' = usage \/ usage' = [usage EXCEPT !.finish = OpenAI!finishReason(raw)]
    BY <1>10 DEF OpenAI!finishResponse, OpenAI!openaiVars, CallInv, PlaceInv
  <2>2. /\ DOMAIN usage' = DOMAIN usage /\ usage'.prompt = usage.prompt
        /\ usage'.completion = usage.completion /\ usage'.total = usage.total
    BY <2>1 DEF UsageInv, TallyShape
  <2>3. TallyShape'
    BY <2>1, <2>2 DEF UsageInv, TallyShape
  <2> QED
    BY <1>0, <2>1, <2>2, <2>3 DEF UsageInv, Tokens, Flagged
<1>11. CASE OpenAI!flush
  <2>1. /\ UNCHANGED <<call, usage, message, answer, chunk>> /\ pc = "flush" /\ pc' \in {"flush", "done"}
        /\ err' = err /\ err = {}
    BY <1>11 DEF OpenAI!flush, CallInv, PlaceInv
  <2> QED
    BY <1>0, <2>1, UsageUntouched DEF Flagged
<1>12. CASE OpenAI!returnError
  <2>1. /\ UNCHANGED <<call, usage, message, answer, chunk>> /\ pc = "return" /\ pc' = "done"
        /\ err' = IF Zai THEN OpenAI!providerError(err) ELSE err
    BY <1>12 DEF OpenAI!returnError, OpenAI!openaiVars
  <2>2. CASE Flagged
    <3>1. err' = err
      BY <2>1, <2>2 DEF UsageInv, OpenAI!providerError
    <3> QED
      BY <1>0, <2>1, <2>2, <3>1, UsageUntouched DEF Flagged, UsageInv
  <2>3. CASE ~Flagged
    <3>1. ~Flagged'
      BY <2>1, <2>3 DEF Flagged, OpenAI!providerError
    <3> QED
      BY <1>0, <2>1, <2>3, <3>1, UsageUntouched
  <2> QED
    BY <2>2, <2>3
<1>13. \A c, b : ChunkShape(c) /\ OpenAI!Reads /\ OpenAI!nextChunk(c, b) => UsageInv'
  BY <1>2
<1>14. \A c : ChunkShape(c) /\ OpenAI!Reads /\ OpenAI!completionArrives(c) => UsageInv'
  BY <1>3
<1>15. CASE /\ OpenAI!Reads
            /\ \E c \in OpenAI!ContentChunks \cup OpenAI!FinishChunks \cup OpenAI!UsageChunks
                          \cup {OpenAI!MalformedChunk} : OpenAI!nextChunk(c, 0)
  BY <1>13, <1>15, StreamedChunks
<1>16. CASE OpenAI!Reads /\ OpenAI!nextBlocks
  BY <1>13, <1>16, StreamedChunks DEF OpenAI!nextBlocks
<1>17. CASE /\ OpenAI!Reads
            /\ \E c \in OpenAI!Completions \cup OpenAI!UsageChunks : OpenAI!completionArrives(c)
  BY <1>14, <1>17, StreamedChunks, CompleteChunks
<1> QED
  BY <1>1, <1>4, <1>5, <1>6, <1>7, <1>8, <1>9, <1>10, <1>11, <1>12, <1>15, <1>16, <1>17 DEF OpenAI!OpenAINext

\* The events Accumulate distinguishes.
EventTypes == {"content_block_start", "content_block_delta", "content_block_stop", "message_delta"}

\* Every event of the provider is one of them.
LEMMA EventTyped ==
  ASSUME NEW e \in Anthropic!ProtocolEvents \cup Anthropic!ProtocolErrors
  PROVE  e.type \in EventTypes
<1>1. \A type, index, kind, body : Anthropic!Event(type, index, kind, body).type = type
  BY DEF Anthropic!Event
<1> DEFINE Typed(x) == x.type \in EventTypes
<1>2. \A index, kind, body :
        /\ Typed(Anthropic!Event("content_block_start", index, kind, body))
        /\ Typed(Anthropic!Event("content_block_delta", index, kind, body))
        /\ Typed(Anthropic!Event("content_block_stop", index, kind, body))
        /\ Typed(Anthropic!Event("message_delta", index, kind, body))
  BY <1>1 DEF EventTypes
<1> HIDE DEF Typed
<1>3. CASE e \in Anthropic!ProtocolEvents
  <2> DEFINE starts == {Anthropic!Event("content_block_start", Len(message.content) + 1, type,
                          IF type = "redacted_thinking" THEN Anthropic!Fragment ELSE <<>>) :
                          type \in Anthropic!BlockTypes}
             fragments(i) == {Anthropic!Event("content_block_delta", i, kind, Anthropic!Fragment) :
                                kind \in Anthropic!DeltaKinds(message.content[i].type)}
             stops == {Anthropic!Event("content_block_stop", i, "", <<>>) : i \in Anthropic!OpenBlocks}
             ends == {Anthropic!Event("message_delta", 0, r, <<>>) : r \in StopReasons}
  <2>0. \/ e \in starts \/ e \in stops \/ e \in ends
        \/ \E i \in Anthropic!OpenBlocks : e \in fragments(i)
    BY <1>3 DEF Anthropic!ProtocolEvents
  <2>1. Typed(e)
    <3>1. CASE e \in starts
      BY <1>2, <3>1
    <3>2. CASE e \in stops
      BY <1>2, <3>2
    <3>3. CASE e \in ends
      BY <1>2, <3>3
    <3>4. CASE \E i \in Anthropic!OpenBlocks : e \in fragments(i)
      BY <1>2, <3>4
    <3> QED
      BY <2>0, <3>1, <3>2, <3>3, <3>4
  <2> QED
    BY <2>1 DEF Typed
<1>4. CASE e \in Anthropic!ProtocolErrors
  <2>1. Typed(e)
    BY <1>2, <1>4 DEF Anthropic!ProtocolErrors
  <2> QED
    BY <2>1 DEF Typed
<1> QED
  BY <1>3, <1>4

\* Accumulate changes what the message says of its end with message_delta only.
LEMMA Accumulated ==
  ASSUME NEW m, DOMAIN m = {"content", "stop", "prompt", "completion"}, NEW e, e.type \in EventTypes
  PROVE  LET a == Anthropic!Accumulate(m, e) IN
         /\ DOMAIN a = DOMAIN m /\ a.prompt = m.prompt
         /\ a.completion = IF e.type = "message_delta" THEN 1 ELSE m.completion
         /\ a.stop = IF e.type = "message_delta" THEN e.kind ELSE m.stop
<1>1. CASE e.type = "content_block_start"
  BY <1>1 DEF Anthropic!Accumulate
<1>2. CASE e.type = "content_block_delta" /\ e.kind = "signature_delta"
  BY <1>2 DEF Anthropic!Accumulate
<1>3. CASE e.type = "content_block_delta" /\ e.kind # "signature_delta"
  BY <1>3 DEF Anthropic!Accumulate
<1>4. CASE e.type = "content_block_stop"
  BY <1>4 DEF Anthropic!Accumulate
<1>5. CASE e.type = "message_delta"
  BY <1>5 DEF Anthropic!Accumulate
<1> QED
  BY <1>1, <1>2, <1>3, <1>4, <1>5 DEF EventTypes

\* What an event adds to the ghost of the answer.
LEMMA Answered ==
  ASSUME ShapeInv, NEW e
  PROVE  LET a == Anthropic!SentEvent(e) IN
         /\ a.usage = IF e.type = "message_delta" THEN <<answer.usage[1], 1>> ELSE answer.usage
         /\ a.reason = IF e.type = "message_delta" THEN e.kind ELSE answer.reason
         /\ a.refused = answer.refused
BY DEF Anthropic!SentEvent, ShapeInv

\* Every step of the Anthropic driver keeps the usage.
LEMMA AnthropicUsage ==
  ASSUME CallInv, UsageInv, Anthropic!AnthropicNext, UNCHANGED openaiVars PROVE UsageInv'
<1> USE DEF openaiVars
<1>1. CASE Anthropic!anthropicStart
  <2>1. /\ FromAnthropic /\ pc = "start" /\ call' = call /\ usage' = usage
        /\ Tokens(usage) = <<0, 0>> /\ Tokens(message) = <<0, 0>> /\ answer.usage = <<0, 0>>
    BY <1>1 DEF Anthropic!anthropicStart, UsageInv
  <2>2. CASE pc' = "done" /\ err' = {"request"} /\ UNCHANGED <<message, answer>>
    <3>1. TallyShape'
      BY <2>1, <2>2 DEF UsageInv, TallyShape
    <3> QED
      BY <2>1, <2>2, <3>1 DEF UsageInv, Tokens, Flagged
  <2>3. CASE /\ pc' = "reading" /\ err' = err
             /\ message' = [Anthropic!NoMessage EXCEPT !.prompt = IF Streams THEN 2 ELSE 0]
             /\ answer' = [answer EXCEPT !.usage = IF Streams THEN <<2, 0>> ELSE @]
    <3> DEFINE none == Anthropic!NoMessage
    <3>1. DOMAIN none = {"content", "stop", "prompt", "completion"} /\ none.completion = 0
      BY DEF Anthropic!NoMessage
    <3> HIDE DEF none
    <3>2. /\ DOMAIN message' = {"content", "stop", "prompt", "completion"}
          /\ message'.prompt = IF Streams THEN 2 ELSE 0
          /\ message'.completion = 0
      BY <2>3, <3>1 DEF none
    <3>3. answer'.usage = IF Streams THEN <<2, 0>> ELSE <<0, 0>>
      BY <2>1, <2>3 DEF CallInv, ShapeInv
    <3>4. TallyShape'
      BY <2>1, <3>2 DEF UsageInv, TallyShape
    <3>5. err' = {}
      BY <2>1, <2>3 DEF CallInv, PlaceInv
    <3> QED
      BY <2>1, <2>3, <3>2, <3>3, <3>4, <3>5 DEF UsageInv, Tokens, Flagged
  <2> QED
    BY <1>1, <2>2, <2>3 DEF Anthropic!anthropicStart
<1>2. ASSUME Anthropic!Reads, Streams, NEW e \in Anthropic!ProtocolEvents \cup Anthropic!ProtocolErrors,
             Anthropic!nextEvent(e)
      PROVE  UsageInv'
  <2>1. /\ FromAnthropic /\ pc = "reading" /\ call' = call /\ usage' = usage /\ err = {}
        /\ DOMAIN message = {"content", "stop", "prompt", "completion"}
        /\ answer.usage = Tokens(message) /\ Tokens(usage) = <<0, 0>>
    BY <1>2 DEF Anthropic!Reads, Anthropic!nextEvent, UsageInv, TallyShape, CallInv, PlaceInv
  <2>2. pc' \in {"reading", "close"} /\ ~Flagged'
    <3>1. err' \in {{}, {"accumulate"}, {"transcript"}} /\ pc' \in {"reading", "close"}
      BY <1>2, <2>1 DEF Anthropic!nextEvent
    <3> QED
      BY <3>1 DEF Flagged
  <2>3. /\ DOMAIN message' = DOMAIN message /\ message'.prompt \in Nat /\ message'.completion \in Nat
        /\ answer'.usage = Tokens(message')
    <3>1. message.prompt \in Nat /\ message.completion \in Nat
      BY DEF UsageInv, TallyShape
    <3>2. CASE Anthropic!AccumulateFails(message, e)
      <4>1. UNCHANGED <<message, answer>>
        BY <1>2, <3>2 DEF Anthropic!nextEvent
      <4> QED
        BY <2>1, <3>1, <4>1
    <3>3. CASE ~Anthropic!AccumulateFails(message, e)
      <4>1. /\ message' = Anthropic!Accumulate(message, e)
            /\ answer' = IF Anthropic!EmitFails(e) THEN answer ELSE Anthropic!SentEvent(e)
        BY <1>2, <3>3 DEF Anthropic!nextEvent
      <4>2. /\ DOMAIN message' = DOMAIN message /\ message'.prompt = message.prompt
            /\ message'.completion = IF e.type = "message_delta" THEN 1 ELSE message.completion
        BY <2>1, <4>1, EventTyped, Accumulated
      <4>3. answer'.usage = IF e.type = "message_delta" THEN <<answer.usage[1], 1>> ELSE answer.usage
        <5>1. Anthropic!EmitFails(e) => e.type # "message_delta"
          BY DEF Anthropic!EmitFails
        <5> QED
          BY <4>1, <5>1, Answered DEF CallInv
      <4> QED
        BY <2>1, <3>1, <4>2, <4>3 DEF Tokens
    <3> QED
      BY <3>2, <3>3
  <2>4. TallyShape'
    BY <2>1, <2>3 DEF UsageInv, TallyShape
  <2>5. (usage.total = usage.prompt + usage.completion)'
    BY <2>1 DEF UsageInv
  <2> QED
    BY <1>2, <2>1, <2>2, <2>3, <2>4, <2>5 DEF UsageInv
<1>3. CASE \E ok \in BOOLEAN : Anthropic!anthropicDelta(ok)
  <2>1. PICK ok \in BOOLEAN : Anthropic!anthropicDelta(ok)
    BY <1>3
  <2>2. /\ FromAnthropic /\ UNCHANGED <<call, usage, answer, message>> /\ err = {}
        /\ \/ err' = {} /\ pc' = pc
           \/ err' = {"callback"} /\ pc' = "close"
        /\ pc # "done"
    BY <2>1 DEF Anthropic!anthropicDelta, Anthropic!anthropicVars, CallInv, PlaceInv
  <2>3. TallyShape'
    BY <2>2 DEF UsageInv, TallyShape
  <2> QED
    BY <2>2, <2>3 DEF UsageInv, Flagged, Tokens
<1>4. CASE \E ok \in BOOLEAN : Anthropic!closeStream(ok)
  <2>1. PICK ok \in BOOLEAN : Anthropic!closeStream(ok)
    BY <1>4
  <2>2. /\ FromAnthropic /\ UNCHANGED <<call, answer, message>> /\ pc' = "done"
        /\ (err' = err \/ err' = err \cup {"close"})
        /\ usage' = Anthropic!usageFromMessage(message)
    BY <2>1 DEF Anthropic!closeStream, Anthropic!anthropicVars
  <2>3. /\ DOMAIN usage' = {"finish", "prompt", "completion", "total"}
        /\ usage'.prompt = message.prompt /\ usage'.completion = message.completion
        /\ usage'.total = message.prompt + message.completion
    BY <2>2 DEF Anthropic!usageFromMessage
  <2>4. TallyShape'
    BY <2>2, <2>3 DEF UsageInv, TallyShape
  <2> QED
    BY <2>2, <2>3, <2>4 DEF UsageInv, Flagged, Tokens
<1>5. CASE Anthropic!streamFails \/ Anthropic!finishStream \/ Anthropic!messageFails
  <2>1. /\ FromAnthropic /\ UNCHANGED <<call, usage, answer, message>> /\ pc \in {"reading", "content"} /\ err = {}
        /\ "callback" \notin err' /\ "malformed" \notin err'
        /\ \/ pc' = "close"
           \/ pc' = "done" /\ pc = "reading" /\ ~Streams
    BY <1>5 DEF Anthropic!streamFails, Anthropic!finishStream, Anthropic!messageFails, Anthropic!Reads,
                Anthropic!anthropicVars, CallInv, PlaceInv
  <2>2. TallyShape'
    BY <2>1 DEF UsageInv, TallyShape
  <2> QED
    BY <2>1, <2>2 DEF UsageInv, Flagged, Tokens
<1>6. ASSUME Anthropic!Reads, NEW m \in Anthropic!Messages, Anthropic!messageArrives(m)
      PROVE  UsageInv'
  <2>1. /\ FromAnthropic /\ pc = "reading" /\ pc' = "content" /\ err' = err /\ UNCHANGED <<call, usage>>
        /\ message' = m
    BY <1>6 DEF Anthropic!Reads, Anthropic!messageArrives
  <2>2. answer'.usage = <<2, 1>>
    BY <1>6 DEF Anthropic!messageArrives
  <2>3. m.prompt = 2 /\ m.completion = 1 /\ DOMAIN m = {"content", "stop", "prompt", "completion"}
    BY MessageContent, DriverAssumption
  <2>4. TallyShape'
    BY <2>1, <2>3 DEF UsageInv, TallyShape
  <2> QED
    BY <2>1, <2>2, <2>3, <2>4 DEF UsageInv, Flagged, Tokens
<1> QED
  BY <1>1, <1>2, <1>3, <1>4, <1>5, <1>6 DEF Anthropic!AnthropicNext

\* Every step keeps the usage.
LEMMA UsageKeeps == CallInv /\ UsageInv /\ [Next]_vars => UsageInv'
<1> SUFFICES ASSUME CallInv, UsageInv, [Next]_vars PROVE UsageInv'
  OBVIOUS
<1>1. CASE Next
  BY <1>1, OpenAIUsage, AnthropicUsage DEF Next
<1>2. CASE UNCHANGED vars
  BY <1>2 DEF vars, callVars, openaiVars, anthropicVars, UsageInv, TallyShape, Flagged, Tokens
<1> QED
  BY <1>1, <1>2

\* A call that returns, even with an error, returns the counts the provider last
\* reported and their sum (usageFromChunk, usageFromMessage): only a callback that
\* failed or a malformed chunk may keep the last chunk out of it.
THEOREM UsageIsKept == Spec => []UsageKept
<1>1. UsageInv => UsageKept
  BY DEF UsageInv, UsageKept, Flagged, Tokens, Done
<1> QED
  BY <1>1, UsageKeeps, Invariant, UsageStarts, PTL DEF Spec

-----------------------------------------------------------------------------
(* Finish reasons. *)

\* No finish delta, no reason announced.
LEMMA SilentIff ==
  ASSUME NEW s PROVE Announced(s) = {} <=> "finish" \notin Kinds(s)
BY DEF Announced, Kinds

\* The reasons announced so far or about to be.
AllAnnounced == Announced(deltas) \cup Announced(pending)

\* The OpenAI and the Z.ai driver: the reason in the usage is the one announced, a
\* refusal seen in an earlier chunk is remembered until the reason is mapped, and
\* only the reason Z.ai maps from the raw one is announced by no delta.
OpenAIReasonInv ==
  ~FromAnthropic =>
  /\ pc = "consume" => (answer.refused <=> refused \/ chunk.refusal # <<>>)
  /\ pc # "consume" /\ err = {} => (refused <=> answer.refused)
  /\ pc \in {"publish", "consume"} /\ chunk.finish # "" => answer.reason = chunk.finish
  /\ pc \in {"start", "reading", "publish", "consume"} /\ usage.finish # Unset =>
       /\ Streams /\ answer.reason # Unset
       /\ pc = "publish" => ~chunk.choice
  /\ usage.finish = "stop" => answer.reason = "stop" /\ ~answer.refused
  /\ AllAnnounced \subseteq {usage.finish}
  /\ Seen("finish") => usage.finish # Unset
  /\ HasCallback /\ err = {} /\ usage.finish # Unset =>
       \/ Seen("finish")
       \/ Zai /\ pc \in {"flush", "done"} /\ usage.finish = OpenAI!finishReason(raw)

\* The Anthropic driver: both come from the stop reason of the message.
AnthropicReasonInv ==
  FromAnthropic =>
  /\ answer.refused = FALSE /\ answer.reason = message.stop
  /\ pc = "start" => message.stop = Unset
  /\ pc # "done" => usage.finish = Unset
  /\ AllAnnounced \subseteq {Anthropic!normalizeFinishReason(message.stop)}
  /\ HasCallback /\ err = {} /\ pc \in {"close", "done"}
       /\ Anthropic!normalizeFinishReason(message.stop) # Unset => Seen("finish")
  /\ pc = "done" /\ err = {} => usage.finish = Anthropic!normalizeFinishReason(message.stop)

\* The strengthening of ReasonsAgree.
ReasonInv == OpenAIReasonInv /\ AnthropicReasonInv

\* No reason before the call.
LEMMA ReasonStarts == ASSUME Init PROVE ReasonInv
<1>1. /\ usage.finish = Unset /\ answer.refused = FALSE /\ answer.reason = Unset /\ message.stop = Unset
      /\ refused = FALSE /\ pc = "start" /\ err = {} /\ deltas = <<>> /\ pending = <<>>
  BY DEF Init, CallInit, NoUsage, NoAnswer, Anthropic!AnthropicInit, Anthropic!NoMessage, OpenAI!OpenAIInit
<1>2. AllAnnounced = {} /\ ~Seen("finish")
  BY <1>1, NoneOrderly DEF AllAnnounced
<1> QED
  BY <1>1, <1>2 DEF ReasonInv, OpenAIReasonInv, AnthropicReasonInv

\* A step of the OpenAI drivers that leaves the reason, the answer, the chunk and the deltas alone.
LEMMA ReasonUntouched ==
  ASSUME ReasonInv, ~FromAnthropic, UNCHANGED <<call, answer, chunk, refused, raw>>,
         usage'.finish = usage.finish,
         AllAnnounced' \subseteq AllAnnounced,
         (Seen("finish"))' => Seen("finish"),
         err' = {} /\ Seen("finish") => (Seen("finish"))',
         err' = {} => err = {},
         pc' \notin {"start", "reading", "publish", "consume"} \/ pc' = pc \/ (pc = "start" /\ pc' = "reading"),
         pc = "consume" /\ err' = {} => pc' = "consume",
         pc \in {"flush", "done"} => pc' \in {"flush", "done"} \/ err' # {}
  PROVE  ReasonInv'
<1>1. OpenAIReasonInv'
  BY DEF ReasonInv, OpenAIReasonInv
<1> QED
  BY <1>1 DEF ReasonInv, AnthropicReasonInv

\* A mapped stop comes from a stop without a refusal.
LEMMA StopReason ==
  ASSUME NEW c, NEW isRefused, OpenAI!finishReasonFromChoice(c, isRefused) = "stop"
  PROVE  c.finish = "stop" /\ ~isRefused
BY DEF OpenAI!finishReasonFromChoice, OpenAI!normalizeFinishReason

\* Every step of the OpenAI and the Z.ai driver keeps the reasons in agreement.
LEMMA OpenAIReason ==
  ASSUME CallInv, UsageInv, ReasonInv, OpenAI!OpenAINext, UNCHANGED anthropicVars PROVE ReasonInv'
<1> USE DEF anthropicVars
<1>0. ~FromAnthropic
  <2>1. pc \in {"consume", "flush"} => FromOpenAI
    BY DEF CallInv, PlaceInv
  <2> QED
    BY <2>1 DEF OpenAI!OpenAINext, OpenAI!openaiStart, OpenAI!Reads, OpenAI!publishCompletion,
      OpenAI!publishChunk, OpenAI!captureFlush, OpenAI!openaiDelta, OpenAI!closeOpenAI, OpenAI!endOfStream,
      OpenAI!completionFails, OpenAI!finishResponse, OpenAI!flush, OpenAI!returnError
<1>1. CASE OpenAI!openaiStart
  <2>1. /\ UNCHANGED <<call, answer, chunk, refused, raw, usage, deltas, pending>> /\ pc = "start"
        /\ pc' \in {"done", "reading"} /\ err = {} 
    BY <1>1 DEF OpenAI!openaiStart, OpenAI!openaiVars, CallInv, PlaceInv
  <2>2. AllAnnounced' = AllAnnounced /\ ((Seen("finish"))' <=> Seen("finish"))
    BY <2>1 DEF AllAnnounced
  <2> QED
    BY <1>0, <2>1, <2>2, ReasonUntouched
<1>2. ASSUME NEW c, NEW b, ChunkShape(c), Streams, OpenAI!Reads, OpenAI!nextChunk(c, b) PROVE ReasonInv'
  <2>1. /\ UNCHANGED <<call, usage, deltas>> /\ chunk' = c /\ pc = "reading" /\ err = {} /\ pending = <<>>
        /\ c.choice => answer.reason = Unset
        /\ answer'.reason = IF c.finish = "" THEN answer.reason ELSE c.finish
        /\ answer'.refused = (answer.refused \/ c.refusal # <<>>)
        /\ refused' = (refused \/ (c.choice /\ c.refusal # <<>>))
    BY <1>2 DEF OpenAI!nextChunk, OpenAI!Sent, OpenAI!Reads, OpenAI!scanChoiceSignals, CallInv, ShapeInv, PlaceInv
  <2>2. \/ pc' = "close" /\ err' = {"malformed"} /\ pending' = <<>>
        \/ pc' = "publish" /\ err' = {} /\ pending' = OpenAI!consumeChunkReasoning(reasoning, c)
    BY <1>2, <2>1 DEF OpenAI!nextChunk
  <2>3. "finish" \notin Kinds(pending') /\ Announced(pending') = {} /\ Kinds(pending) = {} /\ Announced(pending) = {}
    <3>1. pending' = <<>> \/ pending' = OpenAI!emit(OpenAI!consume(reasoning, c))
      BY <2>2 DEF OpenAI!consumeChunkReasoning
    <3>2. CASE pending' = <<>>
      BY <2>1, <3>2, NoneOrderly
    <3>3. CASE pending' = OpenAI!emit(OpenAI!consume(reasoning, c))
      BY <2>1, <3>3, EmitDeltas, NoneOrderly
    <3> QED
      BY <3>1, <3>2, <3>3
  <2>4. AllAnnounced' = AllAnnounced /\ ((Seen("finish"))' <=> Seen("finish"))
    BY <2>1, <2>3 DEF AllAnnounced
  <2>5. ~c.choice => c.finish = "" /\ c.refusal = <<>>
    BY <1>2 DEF ChunkShape
  <2>6. usage.finish # Unset => ~c.choice
    BY <1>0, <2>1 DEF ReasonInv, OpenAIReasonInv
  <2>7. OpenAIReasonInv'
    <3>1. (refused <=> answer.refused)'
      BY <1>0, <2>1, <2>5 DEF ReasonInv, OpenAIReasonInv
    <3>2. (usage.finish = "stop" => answer.reason = "stop" /\ ~answer.refused)'
      BY <1>0, <2>1, <2>5, <2>6 DEF ReasonInv, OpenAIReasonInv
    <3>3. (usage.finish # Unset => Streams /\ answer.reason # Unset /\ ~chunk.choice)'
      BY <1>0, <1>2, <2>1, <2>5, <2>6 DEF ReasonInv, OpenAIReasonInv
    <3>4. (HasCallback /\ err = {} /\ usage.finish # Unset => Seen("finish"))'
      BY <1>0, <2>1, <2>4 DEF ReasonInv, OpenAIReasonInv
    <3>5. (AllAnnounced \subseteq {usage.finish} /\ (Seen("finish") => usage.finish # Unset))'
      BY <1>0, <2>1, <2>4 DEF ReasonInv, OpenAIReasonInv
    <3>6. (chunk.finish # "" => answer.reason = chunk.finish)'
      BY <2>1
    <3> QED
      BY <2>2, <3>1, <3>2, <3>3, <3>4, <3>5, <3>6 DEF OpenAIReasonInv
  <2> QED
    BY <1>0, <2>1, <2>7 DEF ReasonInv, AnthropicReasonInv
<1>3. ASSUME NEW c, ChunkShape(c), ~Streams, OpenAI!Reads, OpenAI!completionArrives(c) PROVE ReasonInv'
  <2>1. /\ UNCHANGED <<call, usage, deltas, refused, raw>> /\ chunk' = c /\ pc = "reading" /\ err = {} /\ err' = {}
        /\ pc' = "consume"
        /\ answer'.reason = IF c.finish = "" THEN answer.reason ELSE c.finish
        /\ answer'.refused = (answer.refused \/ c.refusal # <<>>)
    BY <1>3 DEF OpenAI!completionArrives, OpenAI!Sent, OpenAI!Reads, CallInv, ShapeInv, PlaceInv
  <2>2. usage.finish = Unset /\ ~Seen("finish") /\ AllAnnounced = {}
    BY <1>0, <1>3, <2>1, SilentIff DEF ReasonInv, OpenAIReasonInv, AllAnnounced
  <2>3. Kinds(pending') \subseteq {"reasoning"}
    <3>1. OpenAI!ReasoningDelta(c.reasoning).kind = "reasoning"
      BY DEF OpenAI!ReasoningDelta, OpenAI!Delta
    <3>2. \A body, x : OpenAI!IfAny(body, x) = IfAny(body, x)
      BY DEF OpenAI!IfAny, IfAny
    <3>3. pending' = <<>> \/ pending' = IfAny(c.reasoning, OpenAI!ReasoningDelta(c.reasoning))
      BY <1>3, <3>2 DEF OpenAI!completionArrives
    <3> QED
      BY <3>1, <3>3, IfAnyDeltas, NoneOrderly
  <2>4. (~Seen("finish"))' /\ AllAnnounced' = {}
    BY <2>1, <2>2, <2>3, SilentIff DEF AllAnnounced
  <2>5. OpenAIReasonInv'
    BY <1>0, <1>3, <2>1, <2>2, <2>4 DEF ReasonInv, OpenAIReasonInv
  <2> QED
    BY <1>0, <2>1, <2>5 DEF ReasonInv, AnthropicReasonInv
<1>4. CASE OpenAI!publishCompletion
  <2>1. /\ UNCHANGED <<call, usage, deltas, answer>> /\ pc = "consume" /\ err = {} /\ pending = <<>>
    BY <1>4 DEF OpenAI!publishCompletion, CallInv, PlaceInv
  <2>2. \/ pc' = "return" /\ err' = {"malformed"} /\ UNCHANGED <<chunk, pending>>
        \/ /\ pc' = "publish" /\ err' = {} /\ chunk' = OpenAI!chunkFromCompletion(chunk)
           /\ pending' = OpenAI!emit(OpenAI!consume(reasoning, chunk))
           /\ refused' = (refused \/ (chunk.choice /\ chunk.refusal # <<>>))
    BY <1>4, <2>1 DEF OpenAI!publishCompletion, OpenAI!scanChoiceSignals
  <2>3. /\ usage.finish = Unset /\ ~Streams
        /\ "finish" \notin Kinds(deltas) /\ (answer.refused <=> refused \/ chunk.refusal # <<>>)
        /\ chunk.finish # "" => answer.reason = chunk.finish
    <3>1. FromOpenAI /\ ~Streams
      BY <2>1 DEF CallInv, PlaceInv, OpenAIInv
    <3> QED
      BY <1>0, <2>1, <3>1 DEF ReasonInv, OpenAIReasonInv, CallInv, OpenAIInv
  <2>4. "finish" \notin Kinds(pending')
    BY <2>1, <2>2, EmitDeltas, NoneOrderly
  <2>5. (~Seen("finish"))' /\ AllAnnounced' = {}
    BY <2>1, <2>3, <2>4, SilentIff DEF AllAnnounced
  <2>6. chunk'.finish = chunk.finish /\ (~chunk.choice => chunk.refusal = <<>>)
    <3>1. ChunkShape(chunk)
      BY DEF CallInv, ShapeInv
    <3>2. chunk'.finish = chunk.finish
      BY <2>2, <3>1, CompletionChunk
    <3> QED
      BY <3>1, <3>2 DEF ChunkShape
  <2>7. OpenAIReasonInv'
    BY <1>0, <2>1, <2>2, <2>3, <2>5, <2>6 DEF OpenAIReasonInv
  <2> QED
    BY <1>0, <2>1, <2>7 DEF ReasonInv, AnthropicReasonInv
<1>5. CASE OpenAI!publishChunk
  <2> DEFINE reason == OpenAI!finishReasonFromChoice(chunk, refused)
  <2>1. /\ UNCHANGED <<call, deltas, answer, refused, raw>> /\ pc = "publish" /\ err = {} /\ err' = {} /\ pending = <<>>
        /\ usage' = OpenAI!usageFromChunk(usage, chunk, refused)
        /\ pc' = (IF Streams THEN "reading" ELSE "finish")
        /\ pending' = IF HasCallback THEN OpenAI!deltasFromChunk(chunk, refused) ELSE <<>>
        /\ FromOpenAI
    BY <1>5 DEF OpenAI!publishChunk, CallInv, PlaceInv
  <2>2. usage'.finish = IF chunk.choice /\ reason # Unset THEN reason ELSE usage.finish
    <3>1. TallyShape /\ usage.total = usage.prompt + usage.completion /\ ChunkShape(chunk)
      BY DEF UsageInv, CallInv, ShapeInv
    <3> QED
      BY <2>1, <3>1, UsageTaken
  <2>3. HasCallback =>
          /\ "finish" \in Kinds(pending') <=> chunk.choice /\ reason # Unset
          /\ Announced(pending') = IF chunk.choice /\ reason # Unset THEN {reason} ELSE {}
    <3>1. Len(chunk.calls) \in Nat
      BY DEF CallInv, ShapeInv, ChunkShape
    <3> QED
      BY <2>1, <3>1, ChunkDeltas
  <2>4. ~HasCallback => Kinds(pending') = {} /\ Announced(pending') = {}
    BY <2>1, NoneOrderly
  <2>5. Kinds(pending) = {} /\ Announced(pending) = {}
    BY <2>1, NoneOrderly
  <2>6. reason = "stop" => chunk.finish = "stop" /\ ~refused
    BY StopReason
  <2>7. reason # Unset => chunk.finish # ""
    BY ReasonKnown
  <2>8. usage.finish # Unset => ~chunk.choice /\ Streams /\ answer.reason # Unset
    BY <1>0, <2>1 DEF ReasonInv, OpenAIReasonInv
  <2>9. /\ refused <=> answer.refused
        /\ chunk.finish # "" => answer.reason = chunk.finish
        /\ "finish" \in Kinds(deltas) => usage.finish # Unset
        /\ Announced(deltas) \subseteq {usage.finish}
    BY <1>0, <2>1 DEF ReasonInv, OpenAIReasonInv, AllAnnounced
  <2> HIDE DEF reason
  <2>10. (usage.finish = "stop" => answer.reason = "stop" /\ ~answer.refused)'
    BY <1>0, <2>1, <2>2, <2>6, <2>9 DEF ReasonInv, OpenAIReasonInv
  <2>11. (pc \in {"start", "reading", "publish", "consume"} /\ usage.finish # Unset =>
           /\ Streams /\ answer.reason # Unset /\ (pc = "publish" => ~chunk.choice))'
    BY <2>1, <2>2, <2>7, <2>8, <2>9
  <2>12. (AllAnnounced \subseteq {usage.finish})'
    <3>1. CASE chunk.choice /\ reason # Unset
      <4>1. Announced(deltas) = {}
        BY <2>8, <2>9, <3>1, SilentIff
      <4>2. Announced(pending') \subseteq {reason}
        BY <2>3, <2>4
      <4> QED
        BY <2>1, <2>2, <3>1, <4>1, <4>2 DEF AllAnnounced
    <3>2. CASE ~(chunk.choice /\ reason # Unset)
      <4>1. Announced(pending') = {}
        BY <2>3, <2>4, <3>2
      <4> QED
        BY <2>1, <2>2, <2>9, <3>2, <4>1 DEF AllAnnounced
    <3> QED
      BY <3>1, <3>2
  <2>13. (Seen("finish") => usage.finish # Unset)'
    BY <2>1, <2>2, <2>3, <2>4, <2>9
  <2>14. (HasCallback /\ err = {} /\ usage.finish # Unset => Seen("finish"))'
    <3>1. HasCallback /\ usage.finish # Unset => "finish" \in Kinds(deltas)
      BY <1>0, <2>1, <2>5 DEF ReasonInv, OpenAIReasonInv
    <3> QED
      BY <2>1, <2>2, <2>3, <3>1
  <2>15. OpenAIReasonInv'
    BY <1>0, <2>1, <2>9, <2>10, <2>11, <2>12, <2>13, <2>14 DEF OpenAIReasonInv
  <2> QED
    BY <1>0, <2>1, <2>15 DEF ReasonInv, AnthropicReasonInv
<1>6. CASE OpenAI!captureFlush
  <2> DEFINE x == OpenAI!StateDelta(capture.reasoning, <<>>)
  <2>1. /\ UNCHANGED <<call, pc, answer, chunk, refused, raw, usage, deltas, err>> /\ err = {}
        /\ pending # <<>> /\ pending' = <<x>> \o pending /\ Zai /\ ~capture.published
    BY <1>6 DEF OpenAI!captureFlush, OpenAI!NeedsFlush, CallInv, PlaceInv
  <2>2. x.kind = "state"
    BY DEF OpenAI!StateDelta, OpenAI!Delta
  <2> HIDE DEF x
  <2>3. Orderly(<<x>>) /\ Kinds(<<x>>) = {"state"} /\ Announced(<<x>>) = {}
    BY <2>2, OneOrderly
  <2>4. Orderly(pending) /\ "state" \notin Kinds(pending)
    BY <2>1 DEF CallInv, ShapeInv, OpenAIInv
  <2>5. Kinds(pending') = {"state"} \cup Kinds(pending) /\ Announced(pending') = Announced(pending)
    <3> DEFINE s == <<x>>
    <3>1. pending' = s \o pending /\ Orderly(s) /\ Kinds(s) = {"state"} /\ Announced(s) = {}
      BY <2>1, <2>3
    <3> HIDE DEF s
    <3>2. "finish" \notin Kinds(s)
      BY <3>1
    <3>3. /\ Kinds(s \o pending) = Kinds(s) \cup Kinds(pending)
          /\ Announced(s \o pending) = Announced(s) \cup Announced(pending)
      BY <2>4, <3>1, <3>2, ConcatOrderly
    <3> QED
      BY <3>1, <3>3
  <2>6. AllAnnounced' = AllAnnounced /\ ((Seen("finish"))' <=> Seen("finish"))
    BY <2>1, <2>5 DEF AllAnnounced
  <2> QED
    BY <1>0, <2>1, <2>6, ReasonUntouched
<1>7. CASE \E ok \in BOOLEAN : OpenAI!openaiDelta(ok)
  <2>1. PICK ok \in BOOLEAN : OpenAI!openaiDelta(ok)
    BY <1>7
  <2> DEFINE d == Head(pending)
  <2>2. /\ UNCHANGED <<call, usage, answer, chunk, refused, raw>> /\ err = {} /\ pending # <<>>
        /\ deltas' = Append(deltas, d) /\ pc \notin {"done", "start"}
        /\ \/ err' = {} /\ pc' = pc /\ pending' = Tail(pending)
           \/ err' = {"callback"} /\ pc' \in {"close", "return"} /\ pending' = <<>>
    BY <2>1 DEF OpenAI!openaiDelta, CallInv, PlaceInv
  <2>3. /\ Kinds(deltas') = Kinds(deltas) \cup {d.kind}
        /\ Announced(deltas') = Announced(deltas) \cup IF d.kind = "finish" THEN {d.id} ELSE {}
    BY <2>2, AppendKinds DEF CallInv, ShapeInv
  <2>4. /\ Kinds(pending) = {d.kind} \cup Kinds(Tail(pending))
        /\ Announced(pending) = Announced(Tail(pending)) \cup IF d.kind = "finish" THEN {d.id} ELSE {}
    BY <2>2, TailOrderly DEF CallInv, ShapeInv
  <2> HIDE DEF d
  <2>5. AllAnnounced' \subseteq AllAnnounced
    BY <2>2, <2>3, <2>4, NoneOrderly DEF AllAnnounced
  <2>6. /\ (Seen("finish"))' => Seen("finish")
        /\ err' = {} /\ Seen("finish") => (Seen("finish"))'
    BY <2>2, <2>3, <2>4, NoneOrderly
  <2>7. usage'.finish = usage.finish
    BY <2>2
  <2> QED
    BY <1>0, <2>2, <2>5, <2>6, <2>7, ReasonUntouched
<1>8. CASE \E ok \in BOOLEAN : OpenAI!closeOpenAI(ok)
  <2>1. PICK ok \in BOOLEAN : OpenAI!closeOpenAI(ok)
    BY <1>8
  <2>2. /\ UNCHANGED <<call, usage, answer, chunk, refused, raw, deltas>> /\ pc = "close"
        /\ pc' \in {"finish", "return"} /\ (err' = {} => err = {})
        /\ pending = <<>> /\ (pending' = <<>> \/ pending' = OpenAI!emit(reasoning))
    BY <2>1 DEF OpenAI!closeOpenAI, OpenAI!openaiVars, CallInv, OpenAIInv
  <2>3. "finish" \notin Kinds(pending') /\ Announced(pending') = {} /\ Kinds(pending) = {} /\ Announced(pending) = {}
    BY <2>2, EmitDeltas, NoneOrderly
  <2>4. AllAnnounced' = AllAnnounced /\ ((Seen("finish"))' <=> Seen("finish"))
    BY <2>2, <2>3 DEF AllAnnounced
  <2> QED
    BY <1>0, <2>2, <2>4, ReasonUntouched
<1>9. CASE OpenAI!endOfStream \/ OpenAI!completionFails
  <2>1. /\ UNCHANGED <<call, usage, answer, chunk, refused, raw, deltas, pending>> /\ pc = "reading"
        /\ pc' \in {"close", "return"} /\ err = {}
    BY <1>9 DEF OpenAI!endOfStream, OpenAI!completionFails, OpenAI!Reads, OpenAI!openaiVars, CallInv, PlaceInv
  <2>2. AllAnnounced' = AllAnnounced /\ ((Seen("finish"))' <=> Seen("finish"))
    BY <2>1 DEF AllAnnounced
  <2> QED
    BY <1>0, <2>1, <2>2, ReasonUntouched
<1>10. CASE OpenAI!finishResponse
  <2>1. /\ UNCHANGED <<call, answer, chunk, refused, raw, deltas, pending>> /\ pc = "finish"
        /\ pc' \in {"return", "flush", "done"} /\ err = {}
        /\ \/ usage' = usage
           \/ /\ usage.finish = Unset /\ usage' = [usage EXCEPT !.finish = OpenAI!finishReason(raw)]
              /\ Zai /\ pc' = "flush" /\ err' = {}
    BY <1>10 DEF OpenAI!finishResponse, OpenAI!openaiVars, CallInv, PlaceInv
  <2>2. AllAnnounced' = AllAnnounced /\ ((Seen("finish"))' <=> Seen("finish"))
    BY <2>1 DEF AllAnnounced
  <2>3. CASE usage' = usage
    BY <1>0, <2>1, <2>2, <2>3, ReasonUntouched
  <2>4. CASE /\ usage.finish = Unset /\ usage' = [usage EXCEPT !.finish = OpenAI!finishReason(raw)]
             /\ Zai /\ pc' = "flush" /\ err' = {}
    <3>1. usage'.finish = OpenAI!finishReason(raw)
      BY <2>4 DEF UsageInv, TallyShape
    <3>2. ~Seen("finish") /\ AllAnnounced = {}
      BY <1>0, <2>4, SilentIff DEF ReasonInv, OpenAIReasonInv, AllAnnounced
    <3>3. OpenAI!finishReason(raw) # "stop"
      BY DEF OpenAI!finishReason
    <3>4. refused <=> answer.refused
      BY <1>0, <2>1 DEF ReasonInv, OpenAIReasonInv
    <3>5. OpenAIReasonInv'
      BY <2>1, <2>2, <2>4, <3>1, <3>2, <3>3, <3>4 DEF OpenAIReasonInv
    <3> QED
      BY <2>4, <2>1, <3>5 DEF ReasonInv, AnthropicReasonInv
  <2> QED
    BY <2>1, <2>3, <2>4
<1>11. CASE OpenAI!flush
  <2>1. /\ UNCHANGED <<call, usage, answer, chunk, refused, raw, deltas>> /\ pc = "flush"
        /\ pc' \in {"flush", "done"} /\ err = {} /\ pending = <<>>
        /\ \/ pending' = <<>>
           \/ pending' = <<OpenAI!StateDelta(capture.reasoning, <<>>)>>
    BY <1>11 DEF OpenAI!flush, CallInv, PlaceInv
  <2>2. "finish" \notin Kinds(pending') /\ Announced(pending') = {} /\ Kinds(pending) = {} /\ Announced(pending) = {}
    <3>1. OpenAI!StateDelta(capture.reasoning, <<>>).kind = "state"
      BY DEF OpenAI!StateDelta, OpenAI!Delta
    <3> QED
      BY <2>1, <3>1, NoneOrderly, OneOrderly
  <2>3. AllAnnounced' = AllAnnounced /\ ((Seen("finish"))' <=> Seen("finish"))
    BY <2>1, <2>2 DEF AllAnnounced
  <2> QED
    BY <1>0, <2>1, <2>3, ReasonUntouched
<1>12. CASE OpenAI!returnError
  <2>1. /\ UNCHANGED <<call, usage, answer, chunk, refused, raw, deltas, pending>> /\ pc = "return"
        /\ pc' = "done" /\ err # {} /\ ("callback" \in err => "provider" \notin err)
        /\ err' = IF Zai THEN OpenAI!providerError(err) ELSE err
    BY <1>12 DEF OpenAI!returnError, OpenAI!openaiVars, CallInv, PlaceInv
  <2>2. err' # {}
    BY <2>1, ErrorKept
  <2>3. AllAnnounced' = AllAnnounced /\ ((Seen("finish"))' <=> Seen("finish"))
    BY <2>1 DEF AllAnnounced
  <2> QED
    BY <1>0, <2>1, <2>2, <2>3, ReasonUntouched
<1>13. \A c, b : ChunkShape(c) /\ Streams /\ OpenAI!Reads /\ OpenAI!nextChunk(c, b) => ReasonInv'
  BY <1>2
<1>14. \A c : ChunkShape(c) /\ ~Streams /\ OpenAI!Reads /\ OpenAI!completionArrives(c) => ReasonInv'
  BY <1>3
<1>15. CASE /\ OpenAI!Reads /\ Streams
            /\ \E c \in OpenAI!ContentChunks \cup OpenAI!FinishChunks \cup OpenAI!UsageChunks
                          \cup {OpenAI!MalformedChunk} : OpenAI!nextChunk(c, 0)
  BY <1>13, <1>15, StreamedChunks
<1>16. CASE OpenAI!Reads /\ Streams /\ OpenAI!nextBlocks
  BY <1>13, <1>16, StreamedChunks DEF OpenAI!nextBlocks
<1>17. CASE /\ OpenAI!Reads /\ ~Streams
            /\ \E c \in OpenAI!Completions \cup OpenAI!UsageChunks : OpenAI!completionArrives(c)
  BY <1>14, <1>17, StreamedChunks, CompleteChunks
<1> QED
  BY <1>1, <1>4, <1>5, <1>6, <1>7, <1>8, <1>9, <1>10, <1>11, <1>12, <1>15, <1>16, <1>17 DEF OpenAI!OpenAINext

\* A step of the Anthropic driver before its response is closed, which announces nothing.
LEMMA StillSilent ==
  ASSUME FromAnthropic, call' = call, usage'.finish = Unset,
         answer'.refused = FALSE, answer'.reason = message'.stop,
         pc' # "start", (~Seen("finish"))', (pc \notin {"close", "done"} \/ err # {})', (pc = "done" => err # {})'
  PROVE  ReasonInv'
<1>1. (AllAnnounced = {})'
  BY SilentIff DEF AllAnnounced
<1>2. AnthropicReasonInv'
  BY <1>1 DEF AnthropicReasonInv
<1> QED
  BY <1>2 DEF ReasonInv, OpenAIReasonInv

\* Every step of the Anthropic driver keeps the reasons in agreement.
LEMMA AnthropicReason ==
  ASSUME CallInv, UsageInv, ReasonInv, Anthropic!AnthropicNext, UNCHANGED openaiVars PROVE ReasonInv'
<1> USE DEF openaiVars
<1>1. CASE Anthropic!anthropicStart
  <2>1. /\ FromAnthropic /\ pc = "start" /\ UNCHANGED <<call, usage, deltas, pending>>
        /\ pending = <<>> /\ deltas = <<>>
        /\ usage.finish = Unset /\ answer.refused = FALSE /\ answer.reason = message.stop
    BY <1>1 DEF Anthropic!anthropicStart, CallInv, PlaceInv, ReasonInv, AnthropicReasonInv
  <2>2. (~Seen("finish"))'
    BY <2>1, NoneOrderly
  <2>3. CASE pc' = "done" /\ err' = {"request"} /\ UNCHANGED <<message, answer>>
    BY <2>1, <2>2, <2>3, StillSilent
  <2>4. CASE /\ pc' = "reading"
             /\ message' = [Anthropic!NoMessage EXCEPT !.prompt = IF Streams THEN 2 ELSE 0]
             /\ answer' = [answer EXCEPT !.usage = IF Streams THEN <<2, 0>> ELSE @]
    <3>1. answer'.refused = FALSE /\ answer'.reason = answer.reason
      BY <2>1, <2>4 DEF CallInv, ShapeInv
    <3> DEFINE none == Anthropic!NoMessage
    <3>2. DOMAIN none = {"content", "stop", "prompt", "completion"} /\ none.stop = Unset
      BY DEF Anthropic!NoMessage
    <3> HIDE DEF none
    <3>3. message'.stop = Unset
      BY <2>4, <3>2 DEF none
    <3>4. message.stop = Unset
      BY <2>1 DEF ReasonInv, AnthropicReasonInv
    <3> QED
      BY <2>1, <2>2, <2>4, <3>1, <3>3, <3>4, StillSilent
  <2> QED
    BY <1>1, <2>3, <2>4 DEF Anthropic!anthropicStart
<1>2. ASSUME Anthropic!Reads, Streams, NEW e \in Anthropic!ProtocolEvents \cup Anthropic!ProtocolErrors,
             Anthropic!nextEvent(e)
      PROVE  ReasonInv'
  <2>1. /\ FromAnthropic /\ pc = "reading" /\ UNCHANGED <<call, usage, deltas>> /\ err = {} /\ pending = <<>>
        /\ DOMAIN message = {"content", "stop", "prompt", "completion"}
        /\ usage.finish = Unset /\ answer.refused = FALSE /\ answer.reason = message.stop
        /\ "finish" \notin Kinds(deltas)
    BY <1>2 DEF Anthropic!Reads, Anthropic!nextEvent, UsageInv, TallyShape, CallInv, PlaceInv, AnthropicInv,
                ReasonInv, AnthropicReasonInv
  <2>2. /\ pc' = "reading" \/ (pc' = "close" /\ err' # {})
        /\ pending' = <<>> \/ pending' = Anthropic!emitEventDelta(e)
    BY <1>2, <2>1 DEF Anthropic!nextEvent
  <2>3. (~Seen("finish"))'
    BY <2>1, <2>2, EventDeltas, NoneOrderly, PayloadOrderly
  <2>4. answer'.refused = FALSE /\ answer'.reason = message'.stop
    <3>1. CASE Anthropic!AccumulateFails(message, e)
      BY <1>2, <2>1, <3>1 DEF Anthropic!nextEvent
    <3>2. CASE ~Anthropic!AccumulateFails(message, e)
      <4>1. /\ message' = Anthropic!Accumulate(message, e)
            /\ answer' = IF Anthropic!EmitFails(e) THEN answer ELSE Anthropic!SentEvent(e)
        BY <1>2, <3>2 DEF Anthropic!nextEvent
      <4>2. message'.stop = IF e.type = "message_delta" THEN e.kind ELSE message.stop
        BY <2>1, <4>1, EventTyped, Accumulated
      <4>3. Anthropic!EmitFails(e) => e.type # "message_delta"
        BY DEF Anthropic!EmitFails
      <4>4. /\ answer'.reason = IF e.type = "message_delta" THEN e.kind ELSE answer.reason
            /\ answer'.refused = answer.refused
        BY <4>1, <4>3, Answered DEF CallInv
      <4> QED
        BY <2>1, <4>2, <4>4
    <3> QED
      BY <3>1, <3>2
  <2> QED
    BY <2>1, <2>2, <2>3, <2>4, StillSilent
<1>3. CASE \E ok \in BOOLEAN : Anthropic!anthropicDelta(ok)
  <2>1. PICK ok \in BOOLEAN : Anthropic!anthropicDelta(ok)
    BY <1>3
  <2> DEFINE d == Head(pending)
  <2>2. /\ FromAnthropic /\ UNCHANGED <<call, usage, answer, message>> /\ err = {} /\ pending # <<>>
        /\ deltas' = Append(deltas, d) /\ pc # "done"
        /\ \/ err' = {} /\ pc' = pc /\ pending' = Tail(pending)
           \/ err' = {"callback"} /\ pc' = "close" /\ pending' = <<>>
    BY <2>1 DEF Anthropic!anthropicDelta, Anthropic!anthropicVars, CallInv, PlaceInv
  <2>3. /\ Kinds(deltas') = Kinds(deltas) \cup {d.kind}
        /\ Announced(deltas') = Announced(deltas) \cup IF d.kind = "finish" THEN {d.id} ELSE {}
    BY <2>2, AppendKinds DEF CallInv, ShapeInv
  <2>4. /\ Kinds(pending) = {d.kind} \cup Kinds(Tail(pending))
        /\ Announced(pending) = Announced(Tail(pending)) \cup IF d.kind = "finish" THEN {d.id} ELSE {}
    BY <2>2, TailOrderly DEF CallInv, ShapeInv
  <2> HIDE DEF d
  <2>5. AllAnnounced' \subseteq AllAnnounced
    BY <2>2, <2>3, <2>4, NoneOrderly DEF AllAnnounced
  <2>6. err' = {} /\ Seen("finish") => (Seen("finish"))'
    BY <2>2, <2>3, <2>4
  <2>7. AnthropicReasonInv'
    BY <2>2, <2>5, <2>6 DEF ReasonInv, AnthropicReasonInv
  <2> QED
    BY <2>2, <2>7 DEF ReasonInv, OpenAIReasonInv
<1>4. CASE \E ok \in BOOLEAN : Anthropic!closeStream(ok)
  <2>1. PICK ok \in BOOLEAN : Anthropic!closeStream(ok)
    BY <1>4
  <2>2. /\ FromAnthropic /\ UNCHANGED <<call, answer, message, deltas, pending>> /\ pc = "close" /\ pc' = "done"
        /\ (err' = err \/ err' = err \cup {"close"})
        /\ usage' = Anthropic!usageFromMessage(message)
    BY <2>1 DEF Anthropic!closeStream, Anthropic!anthropicVars
  <2>3. usage'.finish = Anthropic!normalizeFinishReason(message.stop)
    BY <2>2 DEF Anthropic!usageFromMessage
  <2>4. AllAnnounced' = AllAnnounced /\ ((Seen("finish"))' <=> Seen("finish")) /\ (err' = {} => err = {})
    BY <2>2 DEF AllAnnounced
  <2>5. AnthropicReasonInv'
    BY <2>2, <2>3, <2>4 DEF ReasonInv, AnthropicReasonInv
  <2> QED
    BY <2>2, <2>5 DEF ReasonInv, OpenAIReasonInv
<1>5. CASE Anthropic!streamFails \/ Anthropic!messageFails
  <2>1. /\ FromAnthropic /\ UNCHANGED <<call, usage, answer, message, deltas, pending>> /\ pc = "reading"
        /\ err' # {} /\ ~Seen("finish") /\ pc' # "start"
    BY <1>5 DEF Anthropic!streamFails, Anthropic!messageFails, Anthropic!Reads,
                Anthropic!anthropicVars, CallInv, AnthropicInv
  <2>2. (~Seen("finish"))'
    BY <2>1
  <2> QED
    BY <2>1, <2>2, StillSilent DEF ReasonInv, AnthropicReasonInv
<1>6. CASE Anthropic!finishStream
  <2> DEFINE s == Anthropic!finishStreamDeltas(message)
             reason == Anthropic!normalizeFinishReason(message.stop)
  <2>1. /\ FromAnthropic /\ UNCHANGED <<call, usage, answer, message, deltas>> /\ pc \in {"reading", "content"}
        /\ pc' = "close" /\ err' = err /\ pending' = IF HasCallback THEN s ELSE <<>>
        /\ ~Seen("finish")
    BY <1>6 DEF Anthropic!finishStream, Anthropic!anthropicVars, CallInv, AnthropicInv
  <2>2. /\ "finish" \in Kinds(s) <=> reason # Unset
        /\ Announced(s) = IF reason # Unset THEN {reason} ELSE {}
    BY StreamEndDeltas
  <2> HIDE DEF s
  <2>3. Announced(deltas') = {}
    BY <2>1, SilentIff
  <2>4. AllAnnounced' \subseteq {reason}
    BY <2>1, <2>2, <2>3, NoneOrderly DEF AllAnnounced
  <2>5. HasCallback /\ reason # Unset => (Seen("finish"))'
    BY <2>1, <2>2
  <2>6. AnthropicReasonInv'
    BY <2>1, <2>4, <2>5 DEF ReasonInv, AnthropicReasonInv
  <2> QED
    BY <2>1, <2>6 DEF ReasonInv, OpenAIReasonInv
<1>7. ASSUME Anthropic!Reads, NEW m \in Anthropic!Messages, Anthropic!messageArrives(m)
      PROVE  ReasonInv'
  <2>1. /\ FromAnthropic /\ pc = "reading" /\ pc' = "content" /\ UNCHANGED <<call, usage, deltas>>
        /\ message' = m /\ usage.finish = Unset
        /\ "finish" \notin Kinds(deltas)
        /\ pending' = IF HasCallback THEN Anthropic!emitMessageContent(m.content) ELSE <<>>
    BY <1>7 DEF Anthropic!Reads, Anthropic!messageArrives, CallInv, AnthropicInv, ReasonInv, AnthropicReasonInv
  <2>2. answer'.refused = FALSE /\ answer'.reason = m.stop
    BY <1>7 DEF Anthropic!messageArrives
  <2>3. "finish" \notin Kinds(pending')
    BY <2>1, MessageContent, DriverAssumption, ContentDeltas, NoneOrderly, PayloadOrderly
  <2>4. (~Seen("finish"))'
    BY <2>1, <2>3
  <2> QED
    BY <2>1, <2>2, <2>4, StillSilent
<1> QED
  BY <1>1, <1>2, <1>3, <1>4, <1>5, <1>6, <1>7 DEF Anthropic!AnthropicNext

\* Every step keeps the finish reasons agreed.
LEMMA ReasonKeeps == CallInv /\ UsageInv /\ ReasonInv /\ [Next]_vars => ReasonInv'
<1> SUFFICES ASSUME CallInv, UsageInv, ReasonInv, [Next]_vars PROVE ReasonInv'
  OBVIOUS
<1>1. CASE Next
  BY <1>1, OpenAIReason, AnthropicReason DEF Next
<1>2. CASE UNCHANGED vars
  <2>1. AllAnnounced' = AllAnnounced /\ ((Seen("finish"))' <=> Seen("finish"))
    BY <1>2 DEF AllAnnounced, vars, callVars
  <2> USE <1>2, <2>1 DEF vars, callVars, openaiVars, anthropicVars
  <2>2. OpenAIReasonInv'
    BY DEF ReasonInv, OpenAIReasonInv
  <2>3. AnthropicReasonInv'
    BY DEF ReasonInv, AnthropicReasonInv
  <2> QED
    BY <2>2, <2>3 DEF ReasonInv
<1> QED
  BY <1>1, <1>2

\* Every successful call reports in its usage the finish reason it announced to
\* the callback, announces one whenever it reports one that is mapped, and never
\* reads a refusal or an unmapped reason as a clean stop (usageFromChunk,
\* finishReasonFromChoice, finishStream, closeStream).
THEOREM ReasonsAlwaysAgree == Spec => []ReasonsAgree
<1>1. CallInv /\ ReasonInv => ReasonsAgree
  <2> SUFFICES ASSUME CallInv, ReasonInv, pc = "done", err = {} PROVE ReasonsAgree
    BY DEF ReasonsAgree, Succeeded, Done
  <2> DEFINE finishes == {i \in 1..Len(deltas) : deltas[i].kind = "finish"}
  <2>1. pending = <<>>
    BY DEF CallInv, PlaceInv
  <2>2. Kinds(pending) = {} /\ Announced(pending) = {}
    BY <2>1, NoneOrderly
  <2>3. \A i \in finishes : deltas[i].id \in Announced(deltas)
    BY DEF Announced
  <2>4. finishes = {} => "finish" \notin Kinds(deltas)
    BY DEF Kinds
  <2>5. Announced(deltas) \subseteq {usage.finish}
    BY DEF ReasonInv, OpenAIReasonInv, AnthropicReasonInv, AllAnnounced
  <2>6. \A reason : Anthropic!normalizeFinishReason(reason) = "stop" => reason = "end_turn"
    BY DEF Anthropic!normalizeFinishReason
  <2>7. usage.finish = "stop" => answer.reason \in {"stop", "end_turn"} /\ ~answer.refused
    BY <2>6 DEF ReasonInv, OpenAIReasonInv, AnthropicReasonInv
  <2>8. HasCallback /\ finishes = {} =>
          usage.finish = Unset \/ (Zai /\ usage.finish = OpenAI!finishReason(raw))
    BY <2>2, <2>4 DEF ReasonInv, OpenAIReasonInv, AnthropicReasonInv
  <2> QED
    BY <2>3, <2>5, <2>7, <2>8 DEF ReasonsAgree
<1> QED
  BY <1>1, ReasonKeeps, UsageKeeps, Invariant, UsageStarts, ReasonStarts, PTL DEF Spec

-----------------------------------------------------------------------------
(* What was sent is delivered, pending or still to be published. *)

\* Everything that counts as text is text.
TextInv ==
  /\ n \in Nat
  /\ answer.text \in Text /\ answer.reasoning \in Text /\ answer.calls \in Seq(CallParts)
  /\ Bodied(deltas) /\ Bodied(pending) /\ ChunkText(chunk)
  /\ reasoning.text \in Text /\ capture.reasoning \in Text

\* Before the provider said anything.
FreshInv ==
  pc = "start" \/ (pc = "reading" /\ ~Streams) =>
    /\ deltas = <<>> /\ pending = <<>>
    /\ answer.text = <<>> /\ answer.reasoning = <<>> /\ answer.calls = <<>> /\ answer.blocks = <<>>

\* One delta at most carries the reasoning kept for replay.
LoneInv == \A i, j \in 1 .. Len(deltas) : deltas[i].kind = "state" /\ deltas[j].kind = "state" => i = j

\* What the chunk in hand still has to tell.
Due(channel) ==
  CASE pc = "publish" -> Says(chunk, channel)
    [] pc = "consume" -> Says(OpenAI!chunkFromCompletion(chunk), channel)
    [] OTHER -> <<>>

Left(channel) == Told(pending, channel) \o Due(channel)

FlowInv ==
  IF ~HasCallback THEN deltas = <<>> /\ pending = <<>>
  ELSE \A channel \in Channels :
         IF err = {} THEN Told(deltas, channel) \o Left(channel) = SentOn(channel)
         ELSE IsPrefix(Told(deltas, channel), SentOn(channel))

\* chunkFromCompletion keeps the texts and numbers the calls.
LEMMA CompletionText ==
  ASSUME NEW c, ChunkText(c), DOMAIN c = {"choice", "reasoning", "blocks", "refusal", "content", "calls", "finish", "usage"}
  PROVE  LET d == OpenAI!chunkFromCompletion(c) IN
         /\ ChunkText(d) /\ d.reasoning = <<>> /\ d.refusal = c.refusal /\ d.content = c.content
         /\ d.choice = c.choice /\ d.blocks = <<>>
<1> DEFINE calls == [i \in 1 .. Len(c.calls) |-> [c.calls[i] EXCEPT !.index = i - 1]]
           d == [c EXCEPT !.reasoning = <<>>, !.blocks = <<>>, !.calls = calls]
<1>1. Len(c.calls) \in Nat /\ \A i \in 1 .. Len(c.calls) : c.calls[i] \in CallParts
  BY DEF ChunkText
<1>2. \A i \in 1 .. Len(c.calls) : calls[i] \in CallParts
  BY <1>1 DEF CallParts
<1>3. calls = [i \in 1 .. Len(c.calls) |-> calls[i]]
  OBVIOUS
<1>4. c.calls = <<>> => calls = <<>>
  BY NoneSeq
<1>5. OpenAI!chunkFromCompletion(c) = d
  BY DEF OpenAI!chunkFromCompletion
<1> HIDE DEF calls
<1>6. calls \in Seq(CallParts)
  BY <1>1, <1>2, <1>3, PartsSeq
<1>7. /\ d.reasoning = <<>> /\ d.refusal = c.refusal /\ d.content = c.content
      /\ d.choice = c.choice /\ d.blocks = <<>> /\ d.calls = calls
  OBVIOUS
<1> HIDE DEF d
<1>8. <<>> \in Text /\ <<>> \in Seq(BlockParts)
  BY TextJoins
<1>9. ChunkText(d)
  BY <1>4, <1>6, <1>7, <1>8 DEF ChunkText
<1> QED
  BY <1>5, <1>7, <1>9

\* All of it is text.
LEMMA FlowTyped ==
  ASSUME CallInv, TextInv, NEW channel \in Channels
  PROVE  /\ Told(deltas, channel) \in Text /\ Told(pending, channel) \in Text
         /\ Due(channel) \in Text /\ Left(channel) \in Text /\ SentOn(channel) \in Text
<1>1. Told(deltas, channel) \in Text /\ Told(pending, channel) \in Text
  BY ToldParts DEF CallInv, ShapeInv, TextInv, Orderly
<1>2. ChunkText(OpenAI!chunkFromCompletion(chunk))
  BY CompletionText DEF CallInv, ShapeInv, ChunkShape, TextInv
<1>3. Due(channel) \in Text
  BY <1>2, SaysText, TextJoins DEF Due, TextInv
<1>4. CallsIn(answer.calls, channel[2]) \in Text
  BY CallsSum DEF TextInv
<1>5. SentOn(channel) \in Text
  BY <1>4, ChannelKinds DEF SentOn, TextInv
<1> QED
  BY <1>1, <1>3, <1>5, TextJoins DEF Left

\* A text is a prefix of what it is continued to.
LEMMA JoinPrefix ==
  ASSUME NEW x \in Text, NEW y \in Text
  PROVE  IsPrefix(x, x \o y)
<1>1. x \in Seq(Nat) /\ y \in Seq(Nat) /\ x \o y \in Seq(Nat) /\ Len(x) \in Nat
  BY DEF Text
<1>2. Len(x \o y) = Len(x) + Len(y) /\ Len(y) \in Nat
  BY <1>1
<1> DEFINE u == SubSeq(x, 1, Len(x))
           v == SubSeq(x \o y, 1, Len(x))
<1>3. u \in Seq(Nat) /\ Len(u) = Len(x) /\ \A i \in 1 .. Len(x) : u[i] = x[i]
  BY <1>1, SubSeqProperties
<1>4. v \in Seq(Nat) /\ Len(v) = Len(x) /\ \A i \in 1 .. Len(x) : v[i] = (x \o y)[i]
  BY <1>1, <1>2, SubSeqProperties
<1>5. \A i \in 1 .. Len(x) : (x \o y)[i] = x[i]
  BY <1>1
<1> HIDE DEF u, v
<1>6. u = v
  BY <1>1, <1>3, <1>4, <1>5, SeqEqual
<1> QED
  BY <1>1, <1>2, <1>6 DEF IsPrefix, u, v

\* The deltas of a call that went well so far say a prefix of what was sent.
LEMMA FlowPrefix ==
  ASSUME CallInv, TextInv, FlowInv, HasCallback, NEW channel \in Channels
  PROVE  IsPrefix(Told(deltas, channel), SentOn(channel))
<1>1. CASE err = {}
  <2>1. Told(deltas, channel) \in Text /\ Left(channel) \in Text
    BY FlowTyped
  <2>2. Told(deltas, channel) \o Left(channel) = SentOn(channel)
    BY <1>1 DEF FlowInv
  <2> QED
    BY <2>1, <2>2, JoinPrefix
<1>2. CASE err # {}
  BY <1>2 DEF FlowInv
<1> QED
  BY <1>1, <1>2

\* A step that hears nothing and keeps what is left to tell.
LEMMA FlowKeeps ==
  ASSUME CallInv, TextInv, FlowInv, UNCHANGED <<call, deltas>>,
         \A channel \in Channels : SentOn(channel)' = SentOn(channel),
         HasCallback /\ err' = {} => err = {} /\ \A channel \in Channels : Left(channel)' = Left(channel),
         ~HasCallback => pending' = <<>>
  PROVE  FlowInv'
<1>1. CASE ~HasCallback
  BY <1>1 DEF FlowInv
<1>2. CASE HasCallback
  <2>1. ASSUME NEW channel \in Channels, err' = {}
        PROVE  Told(deltas, channel)' \o Left(channel)' = SentOn(channel)'
    BY <1>2, <2>1 DEF FlowInv
  <2>2. ASSUME NEW channel \in Channels
        PROVE  IsPrefix(Told(deltas, channel), SentOn(channel))'
    BY <1>2, FlowPrefix
  <2> QED
    BY <1>2, <2>1, <2>2 DEF FlowInv
<1> QED
  BY <1>1, <1>2

\* A step that hears more, and is left with that to tell.
LEMMA FlowHears ==
  ASSUME CallInv, TextInv, FlowInv, UNCHANGED <<call, deltas>>,
         pending = <<>>, pc \notin {"publish", "consume"}, err = {},
         HasCallback => \A channel \in Channels :
           \E y \in Text : /\ SentOn(channel)' = SentOn(channel) \o y
                           /\ err' = {} => Left(channel)' = y,
         ~HasCallback => pending' = <<>>
  PROVE  FlowInv'
<1>1. CASE ~HasCallback
  BY <1>1 DEF FlowInv
<1>2. CASE HasCallback
  <2>1. ASSUME NEW channel \in Channels
        PROVE  /\ err' = {} => Told(deltas, channel)' \o Left(channel)' = SentOn(channel)'
               /\ IsPrefix(Told(deltas, channel), SentOn(channel))'
    <3>1. Left(channel) = <<>>
      <4>1. Told(pending, channel) = <<>> /\ Due(channel) = <<>>
        BY ToldNone DEF Due
      <4> QED
        BY <4>1, TextJoins DEF Left
    <3>2. Told(deltas, channel) \in Text
      BY FlowTyped
    <3>3. Told(deltas, channel) = SentOn(channel)
      BY <1>2, <3>1, <3>2, TextJoins DEF FlowInv
    <3>4. PICK y \in Text : /\ SentOn(channel)' = SentOn(channel) \o y
                            /\ err' = {} => Left(channel)' = y
      BY <1>2
    <3>5. IsPrefix(Told(deltas, channel), Told(deltas, channel) \o y)
      BY <3>2, JoinPrefix
    <3>6. Told(deltas, channel)' = Told(deltas, channel)
      OBVIOUS
    <3> QED
      BY <3>3, <3>4, <3>5, <3>6
  <2> QED
    BY <1>2, <2>1 DEF FlowInv
<1> QED
  BY <1>1, <1>2

\* A delta is delivered, and the rest are pending unless the callback failed.
LEMMA FlowDelivers ==
  ASSUME CallInv, TextInv, FlowInv, err = {}, pending # <<>>,
         deltas' = Append(deltas, Head(pending)), UNCHANGED <<call, answer>>,
         err' = {} => pending' = Tail(pending) /\ UNCHANGED <<pc, chunk>>
  PROVE  FlowInv'
<1>1. HasCallback
  BY DEF FlowInv
<1>2. Sequential(deltas) /\ Bodied(deltas) /\ Sequential(pending) /\ Bodied(pending)
  BY DEF CallInv, ShapeInv, TextInv, Orderly
<1> DEFINE d == Head(pending)
<1>3. /\ Bodied(Tail(pending)) /\ Sound(d) /\ Sequential(Tail(pending))
      /\ \A channel : Told(pending, channel) = Part(d, channel) \o Told(Tail(pending), channel)
  BY <1>2, ToldHead, TailSeq
<1> HIDE DEF d
<1>4. \A channel : Told(deltas', channel) = Told(deltas, channel) \o Part(d, channel)
  BY <1>2, <1>3, ToldAppend DEF d
<1>5. ASSUME NEW channel \in Channels
      PROVE  /\ err' = {} => Told(deltas, channel)' \o Left(channel)' = SentOn(channel)'
             /\ IsPrefix(Told(deltas, channel), SentOn(channel))'
  <2> DEFINE a == Told(deltas, channel)
             b == Part(d, channel)
             c == Told(Tail(pending), channel)
             due == Due(channel)
  <2>1. a \in Text /\ due \in Text
    BY FlowTyped
  <2>2. b \in Text /\ c \in Text
    <3>1. c \in Text
      BY <1>3, ToldParts
    <3>2. b \in Text
      BY <1>3, TextJoins DEF Part, Sound
    <3> QED
      BY <3>1, <3>2
  <2>3. SentOn(channel)' = SentOn(channel)
    BY DEF SentOn
  <2>4. a \o ((b \o c) \o due) = SentOn(channel)
    BY <1>1, <1>3 DEF FlowInv, Left
  <2>5. Told(deltas, channel)' = a \o b
    BY <1>4
  <2>6. err' = {} => Left(channel)' = c \o due
    BY DEF Left, Due
  <2> HIDE DEF a, b, c, due
  <2>7. (a \o b) \o (c \o due) = a \o ((b \o c) \o due)
    <3>0. \A x, y, z \in Text : (x \o y) \o z = x \o (y \o z)
      BY TextJoins
    <3> DEFINE rest == c \o due
    <3>1. rest \in Text
      BY <2>1, <2>2, TextJoins
    <3> HIDE DEF rest
    <3>4. (a \o b) \o rest = a \o (b \o rest)
      BY <2>1, <2>2, <3>0, <3>1, Zenon
    <3>2. (a \o b) \o (c \o due) = a \o (b \o (c \o due))
      BY <3>4 DEF rest
    <3>3. (b \o c) \o due = b \o (c \o due)
      BY <2>1, <2>2, TextJoins
    <3> QED
      BY <3>2, <3>3
  <2>8. IsPrefix(a \o b, (a \o b) \o (c \o due))
    <3>1. a \o b \in Text /\ c \o due \in Text
      BY <2>1, <2>2, TextJoins
    <3> QED
      BY <3>1, JoinPrefix
  <2> QED
    BY <2>3, <2>4, <2>5, <2>6, <2>7, <2>8
<1> QED
  BY <1>1, <1>5 DEF FlowInv

\* One reasoning envelope delivered is the only one.
LEMMA LoneDelivers ==
  ASSUME CallInv, LoneInv, pending # <<>>, deltas' = Append(deltas, Head(pending))
  PROVE  LoneInv'
<1>1. Sequential(deltas) /\ Orderly(pending)
  BY DEF CallInv, ShapeInv
<1> DEFINE d == Head(pending)
<1>2. d.kind = "state" => "state" \notin Kinds(deltas)
  <2>1. d.kind \in Kinds(pending)
    BY <1>1, TailOrderly
  <2> QED
    BY <2>1 DEF CallInv, OnceInv
<1> HIDE DEF d
<1>3. /\ Len(deltas') = Len(deltas) + 1 /\ deltas'[Len(deltas) + 1] = d
      /\ \A i \in 1 .. Len(deltas) : deltas'[i] = deltas[i]
      /\ Len(deltas) \in Nat
  BY <1>1, AppendSeq, SeqLen DEF d
<1>4. ASSUME NEW i \in 1 .. Len(deltas'), NEW j \in 1 .. Len(deltas'),
             deltas'[i].kind = "state", deltas'[j].kind = "state"
      PROVE  i = j
  <2>1. CASE d.kind = "state"
    <3>1. \A k \in 1 .. Len(deltas) : deltas'[k].kind # "state"
      BY <1>2, <1>3, <2>1 DEF Kinds
    <3> QED
      BY <1>3, <1>4, <3>1
  <2>2. CASE d.kind # "state"
    <3>1. i \in 1 .. Len(deltas) /\ j \in 1 .. Len(deltas)
      BY <1>3, <1>4, <2>2
    <3> QED
      BY <1>3, <1>4, <3>1 DEF LoneInv
  <2> QED
    BY <2>1, <2>2
<1> QED
  BY <1>4 DEF LoneInv

\* The inductive invariant of what is told.
ToldInv == TextInv /\ FreshInv /\ FlowInv /\ LoneInv

\* Nothing is a text and a sequence of calls and of blocks.
LEMMA NoneTyped ==
  /\ <<>> \in Text /\ Len(<<>>) = 0
  /\ <<>> \in Seq(CallParts) /\ <<>> \in Seq(BlockParts)
<1>1. \A S : <<>> \in Seq(S)
  OBVIOUS
<1>2. <<>> \in Seq(CallParts) /\ <<>> \in Seq(BlockParts)
  BY <1>1
<1> QED
  BY <1>2, TextJoins, NoneSeq

\* A call starts with nothing told.
LEMMA ToldStarts == ASSUME Init PROVE ToldInv
<1> USE DEF Init, CallInit, OpenAI!OpenAIInit, NoAnswer
<1>0. <<>> \in Text /\ <<>> \in Seq(CallParts) /\ <<>> \in Seq(BlockParts) /\ Len(<<>>) = 0
  BY NoneTyped
<1>1. ChunkText(chunk)
  BY <1>0 DEF ChunkText, OpenAI!NoChunk
<1>2. TextInv
  BY <1>0, <1>1, ToldNone DEF TextInv
<1>3. FreshInv /\ LoneInv
  <2>1. FreshInv
    BY DEF FreshInv
  <2>2. \A i \in 1 .. Len(deltas) : FALSE
    <3>1. Len(deltas) = 0
      BY <1>0
    <3> HIDE DEF Init
    <3> QED
      BY <3>1
  <2> QED
    BY <2>1, <2>2 DEF LoneInv
<1>4. FlowInv
  <2>1. ASSUME NEW channel \in Channels PROVE Told(deltas, channel) \o Left(channel) = SentOn(channel)
    <3>1. Told(deltas, channel) = <<>> /\ Told(pending, channel) = <<>> /\ Due(channel) = <<>>
      BY ToldNone DEF Due
    <3>2. SentOn(channel) = <<>>
      BY CallsFew, ChannelKinds DEF SentOn
    <3>3. <<>> \o <<>> = <<>>
      BY TextJoins
    <3> QED
      BY <3>1, <3>2, <3>3 DEF Left
  <2> QED
    BY <2>1 DEF FlowInv
<1> QED
  BY <1>2, <1>3, <1>4 DEF ToldInv

\* A step that hears nothing, delivers nothing and keeps what is left to tell.
LEMMA ToldKeeps ==
  ASSUME CallInv, ToldInv, UNCHANGED <<call, n, deltas>>,
         answer'.text = answer.text, answer'.reasoning = answer.reasoning,
         answer'.calls = answer.calls, answer'.blocks = answer.blocks,
         ChunkText(chunk'), reasoning'.text \in Text, capture'.reasoning \in Text, Bodied(pending'),
         pc' # "start", pc' = "reading" /\ ~Streams => pc \in {"start", "reading"} /\ pending' = <<>>,
         HasCallback /\ err' = {} => err = {} /\ \A channel \in Channels : Left(channel)' = Left(channel),
         ~HasCallback => pending' = <<>>
  PROVE  ToldInv'
<1>1. TextInv'
  BY DEF ToldInv, TextInv
<1>2. FreshInv'
  BY DEF ToldInv, FreshInv
<1>3. LoneInv'
  BY DEF ToldInv, LoneInv
<1>4. FlowInv'
  <2>1. \A channel \in Channels : SentOn(channel)' = SentOn(channel)
    BY DEF SentOn
  <2> QED
    BY <2>1, FlowKeeps DEF ToldInv
<1> QED
  BY <1>1, <1>2, <1>3, <1>4 DEF ToldInv

\* A step that hears more.
LEMMA ToldHears ==
  ASSUME CallInv, ToldInv, UNCHANGED <<call, deltas, capture>>, n' \in Nat,
         pending = <<>>, pc \notin {"publish", "consume"}, err = {},
         answer'.text \in Text, answer'.reasoning \in Text, answer'.calls \in Seq(CallParts),
         ChunkText(chunk'), reasoning'.text \in Text, Bodied(pending'),
         pc' # "start", pc' = "reading" => Streams,
         HasCallback => \A channel \in Channels :
           \E y \in Text : SentOn(channel)' = SentOn(channel) \o y /\ (err' = {} => Left(channel)' = y),
         ~HasCallback => pending' = <<>>
  PROVE  ToldInv'
<1>1. TextInv'
  BY DEF ToldInv, TextInv
<1>2. FreshInv'
  BY DEF ToldInv, FreshInv
<1>3. LoneInv'
  BY DEF ToldInv, LoneInv
<1>4. FlowInv'
  BY FlowHears DEF ToldInv
<1> QED
  BY <1>1, <1>2, <1>3, <1>4 DEF ToldInv

\* A step that delivers the next delta.
LEMMA ToldDelivers ==
  ASSUME CallInv, ToldInv, UNCHANGED <<call, n, answer, chunk>>,
         pending # <<>>, err = {}, deltas' = Append(deltas, Head(pending)),
         reasoning'.text \in Text, capture'.reasoning \in Text,
         \/ pending' = Tail(pending) /\ UNCHANGED <<err, pc>>
         \/ pending' = <<>> /\ err' # {} /\ pc' \notin {"start", "reading"}
  PROVE  ToldInv'
<1> DEFINE d == Head(pending)
<1>1. Sequential(pending) /\ Bodied(pending) /\ Sequential(deltas) /\ Bodied(deltas)
  BY DEF CallInv, ShapeInv, Orderly, ToldInv, TextInv
<1>2. Bodied(Tail(pending)) /\ Sound(d)
  BY <1>1, ToldHead
<1> HIDE DEF d
<1>3. Bodied(deltas')
  BY <1>1, <1>2, ToldAppend DEF d
<1>4. TextInv'
  BY <1>2, <1>3, ToldNone DEF ToldInv, TextInv
<1>5. FreshInv'
  BY DEF ToldInv, FreshInv
<1>6. LoneInv'
  BY LoneDelivers DEF ToldInv
<1>7. FlowInv'
  BY FlowDelivers DEF ToldInv
<1> QED
  BY <1>4, <1>5, <1>6, <1>7 DEF ToldInv

-----------------------------------------------------------------------------
(* What the OpenAI and the Z.ai driver are sent. *)

\* A fragment is text.
LEMMA FragmentText == ASSUME n \in Nat PROVE OpenAI!Fragment \in Text /\ Anthropic!Fragment \in Text
BY DEF OpenAI!Fragment, Anthropic!Fragment, Text

\* A chunk with text and without reasoning blocks.
Plain(c) ==
  /\ DOMAIN c = {"choice", "reasoning", "blocks", "refusal", "content", "calls", "finish", "usage"}
  /\ ChunkText(c) /\ c.blocks = <<>>

\* Filling in one field of such a chunk.
LEMMA PlainFilled ==
  ASSUME NEW c, NEW f, NEW x, Plain(c),
         \/ f \in {"reasoning", "content"} /\ x \in Text /\ c.choice
         \/ f = "refusal" /\ x \in Text
         \/ f = "calls" /\ x \in Seq(CallParts) /\ c.choice
         \/ f \in {"finish", "usage"}
         \/ f = "choice" /\ c.reasoning = <<>> /\ c.content = <<>> /\ c.calls = <<>>
  PROVE  Plain([c EXCEPT ![f] = x])
BY DEF Plain, ChunkText

\* The chunks of plain text, the last chunk of a choice, and the usage chunks.
LEMMA PlainText ==
  ASSUME n \in Nat, MaxToolIndex \in Nat,
         NEW c \in OpenAI!ContentChunks \cup OpenAI!FinishChunks \cup OpenAI!UsageChunks
  PROVE  Plain(c)
<1> DEFINE x == OpenAI!Fragment
           blank == OpenAI!NoChunk
<1>0. x \in Text
  BY FragmentText
<1>1. /\ Plain(blank) /\ blank.choice = TRUE
      /\ blank.reasoning = <<>> /\ blank.content = <<>> /\ blank.calls = <<>>
  BY NoneTyped DEF Plain, ChunkText, OpenAI!NoChunk
<1> HIDE DEF x, blank
<1>2. CASE c \in OpenAI!ContentChunks
  <2>1. ASSUME NEW i \in {0, MaxToolIndex + 1}, c = [blank EXCEPT !.calls = <<[index |-> i, body |-> x]>>]
        PROVE  Plain(c)
    <3> DEFINE calls == <<[index |-> i, body |-> x]>>
    <3>1. [index |-> i, body |-> x] \in CallParts
      BY <1>0 DEF CallParts
    <3>2. calls \in Seq(CallParts)
      BY <3>1
    <3> HIDE DEF calls
    <3>3. Plain([blank EXCEPT !["calls"] = calls])
      BY <1>1, <3>2, PlainFilled
    <3> QED
      BY <2>1, <3>3 DEF calls
  <2>2. CASE c \in {[blank EXCEPT !.reasoning = x], [blank EXCEPT !.content = x], [blank EXCEPT !.refusal = x]}
    <3>1. ASSUME NEW f \in {"reasoning", "content", "refusal"} PROVE Plain([blank EXCEPT ![f] = x])
      BY <1>0, <1>1, PlainFilled
    <3> QED
      BY <2>2, <3>1
  <2> QED
    BY <1>2, <2>1, <2>2 DEF OpenAI!ContentChunks, blank, x
<1>3. CASE c \in OpenAI!FinishChunks
  <2>1. PICK r, b : /\ c = [b EXCEPT !.finish = r]
                    /\ b \in {blank, [blank EXCEPT !.content = x], [blank EXCEPT !.reasoning = x]}
                             \cup {[blank EXCEPT !.usage = u] : u \in UsageFrames}
    BY <1>3 DEF OpenAI!FinishChunks, blank, x
  <2>2. Plain(b)
    <3>1. CASE b = blank
      BY <1>1, <3>1
    <3>2. CASE b \in {[blank EXCEPT !.content = x], [blank EXCEPT !.reasoning = x]}
      <4>1. ASSUME NEW f \in {"content", "reasoning"} PROVE Plain([blank EXCEPT ![f] = x])
        BY <1>0, <1>1, PlainFilled
      <4> QED
        BY <3>2, <4>1
    <3>3. ASSUME NEW u, b = [blank EXCEPT !.usage = u] PROVE Plain(b)
      <4>1. Plain([blank EXCEPT !["usage"] = u])
        BY <1>1, PlainFilled
      <4> QED
        BY <3>3, <4>1
    <3> QED
      BY <2>1, <3>1, <3>2, <3>3
  <2>3. Plain([b EXCEPT !["finish"] = r])
    BY <2>2, PlainFilled
  <2> QED
    BY <2>1, <2>3
<1>4. CASE c \in OpenAI!UsageChunks
  <2>1. PICK u \in UsageFrames : c = [blank EXCEPT !.choice = FALSE, !.usage = u]
    BY <1>4 DEF OpenAI!UsageChunks, blank
  <2> DEFINE d == [blank EXCEPT !.choice = FALSE]
  <2>2. Plain([blank EXCEPT !["choice"] = FALSE])
    BY <1>1, PlainFilled
  <2>3. Plain(d) /\ c = [d EXCEPT !["usage"] = u]
    BY <2>1, <2>2
  <2> HIDE DEF d
  <2> QED
    BY <2>3, PlainFilled
<1> QED
  BY <1>2, <1>3, <1>4

\* The fragment of a reasoning block, and what precedes it in a chunk whose blocks
\* are told by their position.
BlockType(b) == IF b > Len(answer.blocks) \/ call.typed THEN "reasoning.text" ELSE "none"
BlockFragment(b) ==
  [type |-> BlockType(b), index |-> IF call.style = "index" THEN OpenAI!Labels[b] ELSE "none",
   id |-> IF call.style = "id" THEN OpenAI!Labels[b] ELSE "none", body |-> OpenAI!Fragment]
Before(b) == [type |-> BlockType(b), index |-> "none", id |-> "none", body |-> <<>>]
BlocksSent(b) ==
  IF call.style = "position" /\ b = 2 THEN <<Before(b), BlockFragment(b)>> ELSE <<BlockFragment(b)>>

\* The chunk of a block.
LEMMA BlockText ==
  ASSUME n \in Nat, NEW b \in 1 .. 2
  PROVE  LET c == OpenAI!BlockChunk(b) IN
         /\ ChunkText(c) /\ c = [OpenAI!NoChunk EXCEPT !.blocks = BlocksSent(b)]
         /\ BlockFragment(b) \in BlockParts /\ Before(b) \in BlockParts
<1> DEFINE f == BlockFragment(b)
           o == Before(b)
           blocks == BlocksSent(b)
<1>1. OpenAI!Labels[b] \in BlockLabels
  <2>1. b = 1 \/ b = 2
    OBVIOUS
  <2> QED
    BY <2>1 DEF OpenAI!Labels, BlockLabels
<1>2. OpenAI!Fragment \in Text /\ <<>> \in Text
  BY FragmentText, TextJoins
<1>3. f \in BlockParts /\ o \in BlockParts
  <2>1. BlockType(b) \in BlockKinds /\ "none" \in BlockLabels
    BY DEF BlockType, BlockKinds, BlockLabels
  <2> QED
    BY <1>1, <1>2, <2>1 DEF BlockFragment, Before, BlockParts
<1>4. blocks \in Seq(BlockParts)
  <2> HIDE DEF f, o
  <2>1. blocks = <<o, f>> \/ blocks = <<f>>
    BY DEF BlocksSent, f, o
  <2>2. <<o, f>> \in Seq(BlockParts)
    BY <1>3
  <2>3. <<f>> \in Seq(BlockParts)
    BY <1>3
  <2> QED
    BY <2>1, <2>2, <2>3
<1>5. OpenAI!BlockChunk(b) = [OpenAI!NoChunk EXCEPT !.blocks = blocks]
  <2> DEFINE type == IF b > Len(answer.blocks) \/ call.typed THEN "reasoning.text" ELSE "none"
             fragment == CASE call.style = "index" -> OpenAI!Block(type, OpenAI!Labels[b], "none", OpenAI!Fragment)
                           [] call.style = "id" -> OpenAI!Block(type, "none", OpenAI!Labels[b], OpenAI!Fragment)
                           [] OTHER -> OpenAI!Block(type, "none", "none", OpenAI!Fragment)
             before == [i \in 1 .. (b - 1) |-> OpenAI!Block(type, "none", "none", <<>>)]
  <2>1. fragment = f
    <3> HIDE DEF OpenAI!Fragment, OpenAI!Labels
    <3> QED
      BY DEF BlockFragment, BlockType, OpenAI!Block
  <2>2. b = 2 => before = <<o>>
    BY DEF Before, BlockType, OpenAI!Block
  <2>3. b # 2 => before = <<>>
    OBVIOUS
  <2>4. OpenAI!BlockChunk(b) = [OpenAI!NoChunk EXCEPT !.blocks = IF call.style = "position" THEN before \o <<fragment>> ELSE <<fragment>>]
    BY DEF OpenAI!BlockChunk
  <2> HIDE DEF before, fragment, f, o
  <2>5. b = 2 => before \o <<f>> = <<o, f>>
    <3>1. <<o>> \o <<f>> = <<o, f>>
      BY PairJoins
    <3> QED
      BY <2>2, <3>1
  <2>6. b # 2 => before \o <<f>> = <<f>>
    <3>1. <<>> \o <<f>> = <<f>>
      BY <1>3
    <3> QED
      BY <2>3, <3>1
  <2> QED
    BY <2>1, <2>4, <2>5, <2>6 DEF BlocksSent, f, o
<1> HIDE DEF blocks
<1>6. ChunkText([OpenAI!NoChunk EXCEPT !.blocks = blocks])
  BY <1>2, <1>4, NoneTyped DEF ChunkText, OpenAI!NoChunk
<1> QED
  BY <1>3, <1>5, <1>6 DEF blocks

\* The chunk of a block that is no reasoning.
LEMMA MalformedText ==
  ChunkText(OpenAI!MalformedChunk)
<1> DEFINE x == OpenAI!Block("unknown", "none", "none", <<>>)
           blocks == <<x>>
<1>1. x \in BlockParts
  BY NoneTyped DEF OpenAI!Block, BlockParts, BlockKinds, BlockLabels
<1>2. blocks \in Seq(BlockParts)
  BY <1>1
<1>3. OpenAI!MalformedChunk = [OpenAI!NoChunk EXCEPT !.blocks = blocks]
  BY DEF OpenAI!MalformedChunk
<1> HIDE DEF blocks
<1> QED
  BY <1>2, <1>3, NoneTyped DEF ChunkText, OpenAI!NoChunk

\* Every completion is text.
LEMMA CompletionsText ==
  ASSUME NEW c \in OpenAI!Completions
  PROVE  ChunkText(c)
<1>0. \A i \in Nat : <<i>> \in Text
  BY DEF Text
<1> DEFINE b1 == <<OpenAI!Block("reasoning.text", "0", "none", <<2>>)>>
           b2 == <<OpenAI!Block("unknown", "none", "none", <<2>>)>>
           calls == <<[index |-> 0, body |-> <<5>>], [index |-> 0, body |-> <<6>>]>>
<1>1. b1 \in Seq(BlockParts) /\ b2 \in Seq(BlockParts)
  <2>1. <<2>> \in Text
    BY <1>0
  <2>2. OpenAI!Block("reasoning.text", "0", "none", <<2>>) \in BlockParts /\ OpenAI!Block("unknown", "none", "none", <<2>>) \in BlockParts
    BY <2>1 DEF OpenAI!Block, BlockParts, BlockKinds, BlockLabels
  <2> QED
    BY <2>2
<1>2. calls \in Seq(CallParts)
  <2>1. <<5>> \in Text /\ <<6>> \in Text
    BY <1>0
  <2>2. [index |-> 0, body |-> <<5>>] \in CallParts /\ [index |-> 0, body |-> <<6>>] \in CallParts
    BY <2>1 DEF CallParts
  <2> QED
    BY <2>2
<1>3. /\ c.choice = TRUE /\ c.reasoning \in {<<>>, <<1>>} /\ c.refusal \in {<<>>, <<4>>} /\ c.content \in {<<>>, <<3>>}
      /\ c.blocks \in {<<>>, b1, b2} /\ c.calls \in {<<>>, calls}
  BY DEF OpenAI!Completions
<1> HIDE DEF b1, b2, calls
<1>4. c.reasoning \in Text /\ c.refusal \in Text /\ c.content \in Text
  BY <1>0, <1>3, TextJoins
<1>5. c.blocks \in Seq(BlockParts) /\ c.calls \in Seq(CallParts)
  BY <1>1, <1>2, <1>3, NoneTyped
<1> QED
  BY <1>3, <1>4, <1>5 DEF ChunkText

-----------------------------------------------------------------------------
(* The OpenAI and the Z.ai driver tell what they are sent. *)

\* The envelope of reasoning says nothing on a channel.
LEMMA EmitSays ==
  ASSUME NEW state, state.text \in Text
  PROVE  LET s == OpenAI!emit(state) IN
         /\ Bodied(s) /\ \A channel \in Channels : Told(s, channel) = <<>>
         /\ ~HasCallback => s = <<>>
<1>1. OpenAI!emit(state) \in {<<>>, <<StateDelta(state.text, state.blocks)>>}
  BY SameDeltas DEF OpenAI!emit
<1>2. ~HasCallback => OpenAI!emit(state) = <<>>
  BY DEF OpenAI!emit, OpenAI!KeepsReasoning
<1> QED
  BY <1>1, <1>2, SilentDeltas, ToldNone

\* Steps that touch no delta.
LEMMA OpenAIToldUntouched ==
  ASSUME CallInv, ToldInv,
         \/ OpenAI!openaiStart \/ OpenAI!endOfStream \/ OpenAI!completionFails
         \/ OpenAI!finishResponse \/ OpenAI!returnError
  PROVE  ToldInv'
<1>1. /\ UNCHANGED <<call, n, deltas, pending, answer, chunk, reasoning, capture>>
      /\ pc \in {"start", "reading", "finish", "return"}
      /\ pc' \in {"done", "close", "return", "flush", "reading"}
      /\ pc' = "reading" => pc = "start"
      /\ err' = {} => err = {}
  BY ErrorKept DEF OpenAI!openaiStart, OpenAI!endOfStream, OpenAI!completionFails, OpenAI!finishResponse,
     OpenAI!returnError, OpenAI!openaiVars, OpenAI!Reads, CallInv, PlaceInv
<1>2. \A channel \in Channels : Left(channel)' = Left(channel)
  BY <1>1 DEF Left, Due
<1>3. pc = "start" => pending = <<>>
  BY DEF CallInv, PlaceInv
<1>4. ~HasCallback => pending' = <<>>
  BY <1>1 DEF ToldInv, FlowInv
<1> QED
  BY <1>1, <1>2, <1>3, <1>4, ToldKeeps DEF ToldInv, TextInv

\* The end of a stream publishes the envelope.
LEMMA OpenAIToldClose ==
  ASSUME CallInv, ToldInv, NEW ok \in BOOLEAN, OpenAI!closeOpenAI(ok)
  PROVE  ToldInv'
<1>1. /\ UNCHANGED <<call, n, deltas, answer, chunk, reasoning, capture>>
      /\ pc = "close" /\ pc' \in {"finish", "return"} /\ pending = <<>>
      /\ err' = {} => err = {}
      /\ pending' = IF err' = {} THEN OpenAI!emit(reasoning) ELSE <<>>
  BY DEF OpenAI!closeOpenAI, OpenAI!openaiVars, CallInv, OpenAIInv
<1>2. /\ Bodied(pending') /\ (~HasCallback => pending' = <<>>)
      /\ \A channel \in Channels : Told(pending', channel) = <<>>
  BY <1>1, EmitSays, ToldNone DEF ToldInv, TextInv
<1>3. \A channel \in Channels : Left(channel)' = Left(channel)
  BY <1>1, <1>2, ToldNone DEF Left, Due
<1> QED
  BY <1>1, <1>2, <1>3, ToldKeeps DEF ToldInv, TextInv

\* The Z.ai driver's own envelope says nothing on a channel.
LEMMA OpenAIToldFlush ==
  ASSUME CallInv, ToldInv, OpenAI!captureFlush \/ (FromOpenAI /\ OpenAI!flush)
  PROVE  ToldInv'
<1> DEFINE x == StateDelta(capture.reasoning, <<>>)
           s == <<x>>
<1>1. Sequential(s) /\ Bodied(s) /\ \A channel \in Channels : Told(s, channel) = <<>>
  BY SilentDeltas DEF ToldInv, TextInv
<1>2. Sequential(pending) /\ Bodied(pending)
  BY DEF CallInv, ShapeInv, Orderly, ToldInv, TextInv
<1>3. /\ UNCHANGED <<call, n, deltas, err, answer, chunk, reasoning>>
      /\ capture'.reasoning = capture.reasoning
      /\ \/ pending' = s \o pending /\ pc' = pc /\ HasCallback
         \/ pending' = s /\ pc' = pc /\ pc = "flush" /\ pending = <<>> /\ HasCallback
         \/ pending' = pending /\ pc = "flush" /\ pc' = "done"
  BY SameDeltas DEF OpenAI!captureFlush, OpenAI!flush, OpenAI!NeedsFlush, CallInv, ShapeInv
<1> HIDE DEF s
<1>4. /\ Bodied(s \o pending)
      /\ \A channel : Told(s \o pending, channel) = Told(s, channel) \o Told(pending, channel)
  BY <1>1, <1>2, ToldConcat
<1>5. ASSUME NEW channel \in Channels PROVE Told(pending', channel) = Told(pending, channel)
  <2>1. Told(pending, channel) \in Text
    BY <1>2, ToldParts
  <2>2. Told(s \o pending, channel) = Told(pending, channel)
    BY <1>1, <1>4, <2>1, TextJoins
  <2>3. Told(<<>>, channel) = <<>>
    BY ToldNone
  <2> QED
    BY <1>1, <1>3, <2>2, <2>3
<1>6. \A channel \in Channels : Left(channel)' = Left(channel)
  BY <1>3, <1>5 DEF Left, Due
<1>7. Bodied(pending')
  BY <1>1, <1>2, <1>3, <1>4
<1>8. ~HasCallback => pending' = <<>>
  BY <1>3 DEF ToldInv, FlowInv
<1>9. pc' # "start" /\ (pc' = "reading" /\ ~Streams => pc \in {"start", "reading"} /\ pending' = <<>>)
  <2>1. CASE pending' = s \o pending /\ pc' = pc
    <3>1. pending # <<>> \/ pc = "flush"
      BY DEF OpenAI!captureFlush, OpenAI!flush
    <3> QED
      BY <2>1, <3>1 DEF ToldInv, FreshInv
  <2> QED
    BY <1>3, <2>1
<1> QED
  BY <1>3, <1>6, <1>7, <1>8, <1>9, ToldKeeps DEF ToldInv, TextInv

\* consume keeps the reasoning text and adds the chunk's to it.
LEMMA ConsumeText ==
  ASSUME NEW state, DOMAIN state = {"text", "blocks", "emitted"}, state.text \in Text, NEW c, ChunkText(c)
  PROVE  OpenAI!consume(state, c).text \in Text
<1>1. state.text \o c.reasoning \in Text
  BY TextJoins DEF ChunkText
<1> QED
  BY <1>1 DEF OpenAI!consume, OpenAI!store

\* A chunk of the stream is left to tell.
LEMMA OpenAIToldChunk ==
  ASSUME CallInv, ToldInv, OpenAI!Reads, Streams, NEW c, NEW b, ChunkText(c), OpenAI!nextChunk(c, b)
  PROVE  ToldInv'
<1>0. /\ pc = "reading" /\ pending = <<>> /\ err = {} /\ UNCHANGED <<call, deltas, capture>>
      /\ chunk' = c /\ n' = n + 1 /\ n' \in Nat
      /\ answer'.text = (answer.text \o c.refusal) \o c.content
      /\ answer'.reasoning = answer.reasoning \o c.reasoning
      /\ answer'.calls = answer.calls \o c.calls
  <2>1. /\ pc = "reading" /\ pending = <<>> /\ err = {} /\ UNCHANGED <<call, deltas, capture>>
        /\ chunk' = c /\ n' = n + 1 /\ answer' = OpenAI!Sent(c, b)
    BY DEF OpenAI!nextChunk, OpenAI!Reads, CallInv, PlaceInv
  <2>2. n' \in Nat
    BY <2>1 DEF ToldInv, TextInv
  <2>3. /\ OpenAI!Sent(c, b).text = (answer.text \o c.refusal) \o c.content
        /\ OpenAI!Sent(c, b).reasoning = answer.reasoning \o c.reasoning
        /\ OpenAI!Sent(c, b).calls = answer.calls \o c.calls
    BY DEF OpenAI!Sent, CallInv, ShapeInv
  <2> QED
    BY <2>1, <2>2, <2>3
<1>1. /\ answer.text \in Text /\ answer.reasoning \in Text /\ answer.calls \in Seq(CallParts)
      /\ c.refusal \in Text /\ c.content \in Text /\ c.reasoning \in Text /\ c.calls \in Seq(CallParts)
  BY DEF ToldInv, TextInv, ChunkText
<1>2. c.refusal \o c.content \in Text
  BY <1>1, TextJoins
<1>3. (answer.text \o c.refusal) \o c.content = answer.text \o (c.refusal \o c.content)
  <2>1. \A x, y, z \in Text : (x \o y) \o z = x \o (y \o z)
    BY TextJoins
  <2> QED
    BY <1>1, <2>1
<1>4. answer'.text \in Text /\ answer'.reasoning \in Text /\ answer'.calls \in Seq(CallParts)
  <2>1. \A x, y \in Text : x \o y \in Text
    BY TextJoins
  <2>2. answer.calls \o c.calls \in Seq(CallParts)
    BY <1>1, CallsConcat
  <2>3. answer.text \o (c.refusal \o c.content) \in Text /\ answer.reasoning \o c.reasoning \in Text
    BY <1>1, <1>2, <2>1
  <2> QED
    BY <1>0, <1>3, <2>2, <2>3
<1>5. /\ reasoning'.text \in Text /\ Bodied(pending') /\ (~HasCallback => pending' = <<>>)
      /\ \A channel \in Channels : Told(pending', channel) = <<>>
      /\ pc' \in {"close", "publish"} /\ (pc' = "close" => err' # {})
  <2>1. CASE OpenAI!ConsumeFails(reasoning, c)
    BY <1>0, <2>1, ToldNone DEF OpenAI!nextChunk, ToldInv, TextInv
  <2>2. CASE ~OpenAI!ConsumeFails(reasoning, c)
    <3>1. OpenAI!consume(reasoning, c).text \in Text
      BY ConsumeText DEF CallInv, ShapeInv, ToldInv, TextInv
    <3>2. /\ reasoning' = OpenAI!consume(reasoning, c) /\ pc' = "publish"
          /\ pending' \in {<<>>, OpenAI!emit(OpenAI!consume(reasoning, c))}
      BY <2>2 DEF OpenAI!nextChunk, OpenAI!consumeChunkReasoning
    <3> QED
      BY <3>1, <3>2, EmitSays, ToldNone
  <2> QED
    BY <2>1, <2>2
<1>6. ASSUME NEW channel \in Channels
      PROVE  \E y \in Text : SentOn(channel)' = SentOn(channel) \o y /\ (err' = {} => Left(channel)' = y)
  <2> DEFINE y == Says(c, channel)
  <2>1. y \in Text
    BY SaysText
  <2>2. SentOn(channel)' = SentOn(channel) \o y
    <3>1. CASE channel[1] = "text"
      BY <1>0, <1>3, <3>1 DEF SentOn, Says
    <3>2. CASE channel[1] = "reasoning"
      BY <1>0, <3>2 DEF SentOn, Says
    <3>3. CASE channel[1] = "call"
      <4>1. CallsIn(answer.calls \o c.calls, channel[2]) = CallsIn(answer.calls, channel[2]) \o CallsIn(c.calls, channel[2])
        BY <1>1, CallsConcat
      <4> QED
        BY <1>0, <3>3, <4>1 DEF SentOn, Says
    <3> QED
      BY <3>1, <3>2, <3>3, ChannelKinds
  <2>3. err' = {} => Left(channel)' = y
    <3>1. err' = {} => Due(channel)' = y
      BY <1>0, <1>5 DEF Due
    <3>2. Told(pending, channel)' = <<>>
      BY <1>5
    <3> HIDE DEF y
    <3> QED
      BY <2>1, <3>1, <3>2, TextJoins DEF Left
  <2> QED
    BY <2>1, <2>2, <2>3
<1> QED
  BY <1>0, <1>4, <1>5, <1>6, ToldHears

\* A completion is left to tell, its visible reasoning first.
LEMMA OpenAIToldCompletion ==
  ASSUME CallInv, ToldInv, OpenAI!Reads, ~Streams, NEW c, ChunkText(c), ChunkShape(c), OpenAI!completionArrives(c)
  PROVE  ToldInv'
<1> DEFINE d == OpenAI!chunkFromCompletion(c)
<1>0. /\ pc = "reading" /\ pending = <<>> /\ err = {} /\ UNCHANGED <<call, n, deltas, err, reasoning, capture>>
      /\ chunk' = c /\ pc' = "consume"
      /\ answer'.text = (answer.text \o c.refusal) \o c.content
      /\ answer'.reasoning = answer.reasoning \o c.reasoning
      /\ answer'.calls = d.calls
      /\ pending' = IF HasCallback THEN IfAny(c.reasoning, ReasoningDelta(c.reasoning)) ELSE <<>>
  BY SameDeltas DEF OpenAI!completionArrives, OpenAI!Sent, OpenAI!Reads, CallInv, PlaceInv, ShapeInv
<1>1. ChunkText(d) /\ d.reasoning = <<>> /\ d.refusal = c.refusal /\ d.content = c.content
  BY CompletionText DEF ChunkShape
<1> HIDE DEF d
<1>2. /\ c.refusal \in Text /\ c.content \in Text /\ c.reasoning \in Text /\ d.calls \in Seq(CallParts)
      /\ answer.text = <<>> /\ answer.reasoning = <<>> /\ answer.calls = <<>>
  BY <1>0, <1>1 DEF ToldInv, FreshInv, ChunkText
<1>3. c.refusal \o c.content \in Text
  BY <1>2, TextJoins
<1>4. answer'.text = c.refusal \o c.content /\ answer'.reasoning = c.reasoning
  BY <1>0, <1>2, TextJoins
<1>5. /\ Bodied(pending') /\ (~HasCallback => pending' = <<>>)
      /\ HasCallback => \A channel \in Channels : Told(pending', channel) = IF channel[1] = "reasoning" THEN c.reasoning ELSE <<>>
  BY <1>0, <1>2, IfAnySays, ToldNone
<1>6. ASSUME HasCallback, NEW channel \in Channels
      PROVE  \E y \in Text : SentOn(channel)' = SentOn(channel) \o y /\ (err' = {} => Left(channel)' = y)
  <2> DEFINE y == SentOn(channel)'
  <2>1. SentOn(channel) = <<>>
    BY <1>2, CallsFew, ChannelKinds DEF SentOn
  <2>2. y = CASE channel[1] = "text" -> c.refusal \o c.content
              [] channel[1] = "reasoning" -> c.reasoning
              [] channel[1] = "call" -> CallsIn(d.calls, channel[2])
    BY <1>0, <1>4 DEF SentOn
  <2>3. Due(channel)' = Says(d, channel)
    BY <1>0 DEF Due, d
  <2>4. Told(pending, channel)' = IF channel[1] = "reasoning" THEN c.reasoning ELSE <<>>
    BY <1>5, <1>6
  <2> HIDE DEF y
  <2>5. CallsIn(d.calls, channel[2]) \in Text
    BY <1>2, CallsSum
  <2>6. y \in Text
    BY <1>2, <1>3, <2>2, <2>5, ChannelKinds
  <2>7. Left(channel)' = Told(pending, channel)' \o Due(channel)'
    BY DEF Left
  <2>8. Left(channel)' = y
    <3>1. CASE channel[1] = "text"
      <4>1. Due(channel)' = y /\ Told(pending, channel)' = <<>>
        BY <1>1, <2>2, <2>3, <2>4, <3>1 DEF Says
      <4> QED
        BY <2>6, <2>7, <4>1, TextJoins
    <3>2. CASE channel[1] = "reasoning"
      <4>1. Due(channel)' = <<>> /\ Told(pending, channel)' = y
        BY <1>1, <2>2, <2>3, <2>4, <3>2 DEF Says
      <4> QED
        BY <2>6, <2>7, <4>1, TextJoins
    <3>3. CASE channel[1] = "call"
      <4>1. Due(channel)' = y /\ Told(pending, channel)' = <<>>
        BY <1>1, <2>2, <2>3, <2>4, <3>3 DEF Says
      <4> QED
        BY <2>6, <2>7, <4>1, TextJoins
    <3> QED
      BY <3>1, <3>2, <3>3, ChannelKinds
  <2> QED
    BY <2>1, <2>6, <2>8, TextJoins DEF y
<1> QED
  BY <1>0, <1>2, <1>3, <1>4, <1>5, <1>6, ToldHears DEF ToldInv, TextInv

\* Publishing a completion as one chunk keeps what is left to tell.
LEMMA OpenAIToldPublished ==
  ASSUME CallInv, ToldInv, OpenAI!publishCompletion
  PROVE  ToldInv'
<1>0. /\ pc = "consume" /\ pending = <<>> /\ err = {} /\ UNCHANGED <<call, n, deltas, answer, capture>>
  BY DEF OpenAI!publishCompletion, CallInv, PlaceInv
<1>1. CASE OpenAI!ConsumeFails(reasoning, chunk)
  <2>1. pc' = "return" /\ err' # {} /\ UNCHANGED <<pending, reasoning, chunk>>
    BY <1>1 DEF OpenAI!publishCompletion
  <2> QED
    BY <1>0, <2>1, ToldKeeps, ToldNone DEF ToldInv, TextInv
<1>2. CASE ~OpenAI!ConsumeFails(reasoning, chunk)
  <2>1. /\ pc' = "publish" /\ err' = {} /\ reasoning' = OpenAI!consume(reasoning, chunk)
        /\ pending' = OpenAI!emit(OpenAI!consume(reasoning, chunk))
        /\ chunk' = OpenAI!chunkFromCompletion(chunk)
    BY <1>0, <1>2 DEF OpenAI!publishCompletion
  <2>2. reasoning'.text \in Text
    BY <2>1, ConsumeText DEF CallInv, ShapeInv, ToldInv, TextInv
  <2>3. /\ Bodied(pending') /\ (~HasCallback => pending' = <<>>)
        /\ \A channel \in Channels : Told(pending', channel) = <<>>
    BY <2>1, <2>2, EmitSays
  <2>4. ChunkText(chunk')
    BY <2>1, CompletionText DEF CallInv, ShapeInv, ChunkShape, ToldInv, TextInv
  <2>5. \A channel \in Channels : Left(channel)' = Left(channel)
    <3>1. ASSUME NEW channel \in Channels PROVE Left(channel)' = Left(channel)
      <4>1. Due(channel)' = Due(channel)
        BY <1>0, <2>1 DEF Due
      <4>2. Told(pending, channel) = <<>> /\ Told(pending, channel)' = <<>>
        BY <1>0, <2>3, ToldNone
      <4> QED
        BY <4>1, <4>2 DEF Left
    <3> QED
      BY <3>1
  <2> QED
    BY <1>0, <2>1, <2>2, <2>3, <2>4, <2>5, ToldKeeps DEF ToldInv, TextInv
<1> QED
  BY <1>1, <1>2

\* publishChunk makes deltas of what the chunk says.
LEMMA OpenAIToldPublishes ==
  ASSUME CallInv, ToldInv, OpenAI!publishChunk
  PROVE  ToldInv'
<1>0. /\ pc = "publish" /\ pending = <<>> /\ err = {} /\ UNCHANGED <<call, n, deltas, err, answer, reasoning, capture>>
      /\ pc' = (IF Streams THEN "reading" ELSE "finish") /\ chunk' = OpenAI!NoChunk
      /\ pending' = IF HasCallback THEN OpenAI!deltasFromChunk(chunk, refused) ELSE <<>>
  BY DEF OpenAI!publishChunk, CallInv, PlaceInv
<1>1. ChunkText(chunk')
  BY <1>0, NoneTyped DEF OpenAI!NoChunk, ChunkText
<1>2. /\ Bodied(pending')
      /\ HasCallback => \A channel \in Channels : Told(pending', channel) = Says(chunk, channel)
  <2>1. ChunkText(chunk) /\ chunk.choice \in BOOLEAN /\ (~chunk.choice => chunk.refusal = <<>>)
    BY DEF CallInv, ShapeInv, ChunkShape, ToldInv, TextInv
  <2> DEFINE s == OpenAI!deltasFromChunk(chunk, refused)
  <2>2. Bodied(s) /\ \A channel \in Channels : Told(s, channel) = Says(chunk, channel)
    BY <2>1, ChunkSays
  <2>3. pending' = IF HasCallback THEN s ELSE <<>>
    BY <1>0
  <2> HIDE DEF s
  <2> QED
    BY <2>2, <2>3, ToldNone
<1>3. ASSUME HasCallback, NEW channel \in Channels PROVE Left(channel)' = Left(channel)
  <2> DEFINE x == Says(chunk, channel)
  <2>1. Told(pending, channel) = <<>> /\ Due(channel) = x
    BY <1>0, ToldNone DEF Due
  <2>2. Told(pending, channel)' = x /\ Due(channel)' = <<>>
    BY <1>0, <1>2, <1>3 DEF Due
  <2>3. x \in Text
    BY SaysText DEF ToldInv, TextInv
  <2>4. Left(channel) = <<>> \o x /\ Left(channel)' = x \o <<>>
    BY <2>1, <2>2 DEF Left
  <2> HIDE DEF x
  <2> QED
    BY <2>3, <2>4, TextJoins
<1> QED
  BY <1>0, <1>1, <1>2, <1>3, ToldKeeps DEF ToldInv, TextInv

\* The callback gets the next delta.
LEMMA OpenAIToldDelivers ==
  ASSUME CallInv, ToldInv, NEW ok \in BOOLEAN, OpenAI!openaiDelta(ok)
  PROVE  ToldInv'
<1> DEFINE d == Head(pending)
<1>0. /\ pending # <<>> /\ err = {} /\ deltas' = Append(deltas, d) /\ UNCHANGED <<call, n, answer, chunk>>
      /\ \/ pending' = Tail(pending) /\ UNCHANGED <<err, pc>>
         \/ pending' = <<>> /\ err' # {} /\ pc' \notin {"start", "reading"}
  BY DEF OpenAI!openaiDelta, CallInv, PlaceInv
<1>1. reasoning'.text = reasoning.text
  BY DEF OpenAI!openaiDelta, CallInv, ShapeInv
<1>2. d.body \in Text
  <2>1. Sequential(pending) /\ Bodied(pending)
    BY DEF CallInv, ShapeInv, Orderly, ToldInv, TextInv
  <2> QED
    BY <1>0, <2>1, ToldHead DEF Sound
<1>3. capture'.reasoning \in {capture.reasoning, capture.reasoning \o d.body}
  BY DEF OpenAI!openaiDelta, CallInv, ShapeInv
<1> HIDE DEF d
<1>4. capture'.reasoning \in Text
  <2>1. capture.reasoning \in Text
    BY DEF ToldInv, TextInv
  <2>2. capture.reasoning \o d.body \in Text
    BY <1>2, <2>1, TextJoins
  <2> QED
    BY <1>3, <2>1, <2>2
<1>5. reasoning'.text \in Text
  BY <1>1 DEF ToldInv, TextInv
<1> QED
  BY <1>0, <1>4, <1>5, ToldDelivers DEF d

\* Every step of the OpenAI and the Z.ai driver.
LEMMA OpenAITold ==
  ASSUME CallInv, ToldInv, OpenAI!OpenAINext
  PROVE  ToldInv'
<1>0. n \in Nat /\ MaxToolIndex \in Nat
  BY DriverAssumption DEF ToldInv, TextInv
<1>1. CASE OpenAI!openaiStart \/ OpenAI!endOfStream \/ OpenAI!completionFails
           \/ OpenAI!finishResponse \/ OpenAI!returnError
  BY <1>1, OpenAIToldUntouched
<1>2. CASE OpenAI!Reads /\ Streams /\ n < MaxChunks
             /\ \E c \in OpenAI!ContentChunks \cup OpenAI!FinishChunks \cup OpenAI!UsageChunks
                           \cup {OpenAI!MalformedChunk} : OpenAI!nextChunk(c, 0)
  BY <1>0, <1>2, PlainText, MalformedText, OpenAIToldChunk DEF Plain
<1>3. CASE OpenAI!Reads /\ Streams /\ n < MaxChunks /\ OpenAI!nextBlocks
  <2>1. PICK b \in 1 .. 2 : OpenAI!nextChunk(OpenAI!BlockChunk(b), b)
    <3>1. PICK b \in 1 .. (IF Len(answer.blocks) < 2 THEN Len(answer.blocks) + 1 ELSE 2) :
            OpenAI!nextChunk(OpenAI!BlockChunk(b), b)
      BY <1>3 DEF OpenAI!nextBlocks
    <3> QED
      BY <3>1
  <2>2. ChunkText(OpenAI!BlockChunk(b))
    BY <1>0, BlockText
  <2> QED
    BY <1>3, <2>1, <2>2, OpenAIToldChunk
<1>4. CASE OpenAI!Reads /\ ~Streams /\ \E c \in OpenAI!Completions \cup OpenAI!UsageChunks : OpenAI!completionArrives(c)
  <2>1. PICK c \in OpenAI!Completions \cup OpenAI!UsageChunks : OpenAI!completionArrives(c)
    BY <1>4
  <2>2. ChunkText(c)
    BY <1>0, CompletionsText, PlainText DEF Plain
  <2>3. ChunkShape(c)
    BY CompleteChunks, StreamedChunks
  <2> QED
    BY <1>4, <2>1, <2>2, <2>3, OpenAIToldCompletion
<1>5. CASE OpenAI!publishCompletion \/ OpenAI!publishChunk
  BY <1>5, OpenAIToldPublished, OpenAIToldPublishes
<1>6. CASE OpenAI!captureFlush \/ OpenAI!flush
  <2>1. OpenAI!flush => FromOpenAI
    BY DEF OpenAI!flush, CallInv, PlaceInv
  <2> QED
    BY <1>6, <2>1, OpenAIToldFlush
<1>7. CASE \E ok \in BOOLEAN : OpenAI!openaiDelta(ok) \/ OpenAI!closeOpenAI(ok)
  BY <1>7, OpenAIToldDelivers, OpenAIToldClose
<1> QED
  BY <1>1, <1>2, <1>3, <1>4, <1>5, <1>6, <1>7 DEF OpenAI!OpenAINext

-----------------------------------------------------------------------------
(* The message of the Anthropic driver. *)

\* A block of a message.
ContentParts == [type : Anthropic!BlockTypes, body : Text, sig : Text, raw : Text, open : BOOLEAN]

\* A closed block's raw JSON is what the provider sent of it.
Renewed(x) == ~x.open => x.raw = x.body \o x.sig

\* The blocks of the message, all of them closed once the provider named its reason.
ContentInv ==
  FromAnthropic =>
  /\ message.content \in Seq(ContentParts)
  /\ \A i \in 1 .. Len(message.content) : Renewed(message.content[i])
  /\ message.stop # Unset => Anthropic!OpenBlocks = {}
  /\ pc = "start" => message.content = <<>>

\* What an event of the provider can be.
EventShape(e) ==
  /\ e.body \in Text
  /\ \/ /\ e.type = "content_block_start" /\ e.kind \in Anthropic!BlockTypes
        /\ e.index = Len(message.content) + 1 /\ message.stop = Unset
     \/ /\ e.type = "content_block_delta" /\ e.index \in Anthropic!OpenBlocks
        /\ \/ e.kind \in Anthropic!DeltaKinds(message.content[e.index].type)
           \/ e.kind = "input_json_delta"
     \/ e.type = "content_block_delta" /\ Anthropic!AccumulateFails(message, e)
     \/ e.type = "content_block_stop" /\ e.index \in Anthropic!OpenBlocks /\ e.kind = ""
     \/ e.type = "message_delta" /\ e.index = 0 /\ e.body = <<>> /\ Anthropic!OpenBlocks = {}

\* Every event of the provider.
LEMMA EventShaped ==
  ASSUME n \in Nat, message.content \in Seq(ContentParts),
         NEW e \in Anthropic!ProtocolEvents \cup Anthropic!ProtocolErrors
  PROVE  EventShape(e)
<1>1. \A type, index, kind, body :
        LET x == Anthropic!Event(type, index, kind, body) IN
        x.type = type /\ x.index = index /\ x.kind = kind /\ x.body = body
  BY DEF Anthropic!Event
<1>2. Anthropic!Fragment \in Text /\ <<>> \in Text
  BY FragmentText, TextJoins
<1>3. Len(message.content) \in Nat
  OBVIOUS
<1> DEFINE fragment == Anthropic!Fragment
<1> HIDE DEF fragment
<1>4. CASE e \in Anthropic!ProtocolEvents
  <2> DEFINE starts == {Anthropic!Event("content_block_start", Len(message.content) + 1, type,
                          IF type = "redacted_thinking" THEN fragment ELSE <<>>) :
                          type \in Anthropic!BlockTypes}
             fragments(i) == {Anthropic!Event("content_block_delta", i, kind, fragment) :
                                kind \in Anthropic!DeltaKinds(message.content[i].type)}
             stops == {Anthropic!Event("content_block_stop", i, "", <<>>) : i \in Anthropic!OpenBlocks}
             ends == {Anthropic!Event("message_delta", 0, r, <<>>) : r \in StopReasons}
  <2>0. \/ e \in starts /\ message.stop = Unset
        \/ e \in stops
        \/ e \in ends /\ Anthropic!OpenBlocks = {}
        \/ \E i \in Anthropic!OpenBlocks : e \in fragments(i)
    BY <1>4 DEF Anthropic!ProtocolEvents, fragment
  <2>1. CASE e \in starts /\ message.stop = Unset
    <3>1. PICK type \in Anthropic!BlockTypes :
            e = Anthropic!Event("content_block_start", Len(message.content) + 1, type,
                                IF type = "redacted_thinking" THEN fragment ELSE <<>>)
      BY <2>1
    <3>2. e.body \in Text
      BY <1>1, <1>2, <3>1 DEF fragment
    <3>3. e.type = "content_block_start" /\ e.kind = type /\ e.index = Len(message.content) + 1
      BY <1>1, <3>1
    <3> QED
      BY <2>1, <3>2, <3>3 DEF EventShape
  <2>2. CASE e \in stops
    <3>1. PICK i \in Anthropic!OpenBlocks : e = Anthropic!Event("content_block_stop", i, "", <<>>)
      BY <2>2
    <3>2. e.type = "content_block_stop" /\ e.index = i /\ e.kind = "" /\ e.body = <<>>
      BY <3>1 DEF Anthropic!Event
    <3> QED
      BY <1>2, <3>1, <3>2 DEF EventShape
  <2>3. CASE e \in ends /\ Anthropic!OpenBlocks = {}
    <3>1. PICK r \in StopReasons : e = Anthropic!Event("message_delta", 0, r, <<>>)
      BY <2>3
    <3>2. e.type = "message_delta" /\ e.index = 0 /\ e.body = <<>>
      BY <1>1, <3>1
    <3> QED
      BY <1>2, <2>3, <3>2 DEF EventShape
  <2>4. CASE \E i \in Anthropic!OpenBlocks : e \in fragments(i)
    <3>1. PICK i \in Anthropic!OpenBlocks : e \in fragments(i)
      BY <2>4
    <3>2. PICK kind \in Anthropic!DeltaKinds(message.content[i].type) :
            e = Anthropic!Event("content_block_delta", i, kind, fragment)
      BY <3>1
    <3>3. e.type = "content_block_delta" /\ e.index = i /\ e.kind = kind /\ e.body \in Text
      BY <1>1, <1>2, <3>2 DEF fragment
    <3> QED
      BY <3>1, <3>2, <3>3 DEF EventShape
  <2> QED
    BY <2>0, <2>1, <2>2, <2>3, <2>4
<1>5. CASE e \in Anthropic!ProtocolErrors
  <2>1. CASE e = Anthropic!Event("content_block_delta", Len(message.content) + 1, "text_delta", fragment)
    <3>1. e.type = "content_block_delta" /\ e.index = Len(message.content) + 1 /\ e.body \in Text
      BY <1>1, <1>2, <2>1 DEF fragment
    <3> QED
      BY <1>3, <3>1 DEF EventShape, Anthropic!AccumulateFails
  <2>2. CASE \E i \in Anthropic!OpenBlocks : e = Anthropic!Event("content_block_delta", i, "input_json_delta", fragment)
    <3>1. PICK i \in Anthropic!OpenBlocks : e = Anthropic!Event("content_block_delta", i, "input_json_delta", fragment)
      BY <2>2
    <3>2. e.type = "content_block_delta" /\ e.index = i /\ e.kind = "input_json_delta" /\ e.body \in Text
      BY <1>1, <1>2, <3>1 DEF fragment
    <3> QED
      BY <3>1, <3>2 DEF EventShape
  <2> QED
    BY <1>5, <2>1, <2>2 DEF Anthropic!ProtocolErrors, fragment
<1> QED
  BY <1>4, <1>5

\* What Accumulate does to the blocks.
LEMMA ContentSteps ==
  ASSUME message.content \in Seq(ContentParts), DOMAIN message = {"content", "stop", "prompt", "completion"},
         NEW e, EventShape(e), ~Anthropic!AccumulateFails(message, e)
  PROVE  LET c == message.content
             d == Anthropic!Accumulate(message, e).content IN
         /\ e.type = "content_block_start" =>
              \E x \in ContentParts : x.open /\ x.type = e.kind /\ d = Append(c, x)
         /\ e.type # "content_block_start" => d = c \/
              \E i \in Anthropic!OpenBlocks : \E x \in ContentParts :
                x.type = c[i].type /\ Renewed(x) /\ d = [c EXCEPT ![i] = x]
<1> DEFINE c == message.content
           d == Anthropic!Accumulate(message, e).content
<1>0. e.body \in Text /\ <<>> \in Text /\ \A x, y \in Text : x \o y \in Text
  BY TextJoins DEF EventShape
<1>1. CASE e.type = "content_block_start"
  <2> DEFINE x == Anthropic!ContentBlock(e.kind, e.body)
  <2>1. x \in ContentParts /\ x.open /\ x.type = e.kind
    BY <1>0, <1>1 DEF EventShape, Anthropic!ContentBlock, ContentParts
  <2>2. d = Append(c, x)
    BY <1>1 DEF Anthropic!Accumulate
  <2> QED
    BY <1>1, <2>1, <2>2
<1>2. CASE e.type = "message_delta"
  <2>1. d = c
    BY <1>2 DEF Anthropic!Accumulate
  <2> QED
    BY <1>2, <2>1
<1>3. CASE e.type \in {"content_block_delta", "content_block_stop"}
  <2> DEFINE i == e.index
             b == c[i]
  <2>1. i \in Anthropic!OpenBlocks /\ i \in 1 .. Len(c) /\ b \in ContentParts /\ b.open
    <3>1. i \in Anthropic!OpenBlocks
      BY <1>3 DEF EventShape
    <3>2. i \in 1 .. Len(c) /\ b.open
      BY <3>1 DEF Anthropic!OpenBlocks
    <3>3. b \in ContentParts
      BY <3>2
    <3> QED
      BY <3>1, <3>2, <3>3
  <2>2. CASE e.type = "content_block_delta" /\ e.kind = "signature_delta"
    <3> DEFINE x == [b EXCEPT !.sig = @ \o e.body]
    <3>1. x \in ContentParts /\ x.type = b.type /\ x.open
      BY <1>0, <2>1 DEF ContentParts
    <3>2. d = [c EXCEPT ![i] = x]
      BY <2>2 DEF Anthropic!Accumulate
    <3> QED
      BY <2>1, <2>2, <3>1, <3>2 DEF Renewed
  <2>3. CASE e.type = "content_block_delta" /\ e.kind # "signature_delta"
    <3> DEFINE x == [b EXCEPT !.body = @ \o e.body]
    <3>1. x \in ContentParts /\ x.type = b.type /\ x.open
      BY <1>0, <2>1 DEF ContentParts
    <3>2. d = [c EXCEPT ![i] = x] \/ d = c
      BY <2>3 DEF Anthropic!Accumulate
    <3> QED
      BY <2>1, <2>3, <3>1, <3>2 DEF Renewed
  <2>4. CASE e.type = "content_block_stop"
    <3> DEFINE x == [b EXCEPT !.raw = b.body \o b.sig, !.open = FALSE]
    <3>1. x \in ContentParts /\ x.type = b.type /\ Renewed(x)
      <4>1. b.body \o b.sig \in Text
        BY <1>0, <2>1 DEF ContentParts
      <4> QED
        BY <2>1, <4>1 DEF ContentParts, Renewed
    <3>2. d = [c EXCEPT ![i] = x]
      BY <2>4 DEF Anthropic!Accumulate
    <3> QED
      BY <2>1, <2>4, <3>1, <3>2
  <2> QED
    BY <1>3, <2>2, <2>3, <2>4
<1> QED
  BY <1>1, <1>2, <1>3 DEF EventShape

\* What a step on the blocks keeps.
LEMMA BlocksKept ==
  ASSUME NEW c \in Seq(ContentParts), \A i \in 1 .. Len(c) : Renewed(c[i]), NEW d,
         \/ \E x \in ContentParts : x.open /\ d = Append(c, x)
         \/ \E i \in 1 .. Len(c) : \E x \in ContentParts : x.type = c[i].type /\ Renewed(x) /\ d = [c EXCEPT ![i] = x]
         \/ d = c
  PROVE  /\ d \in Seq(ContentParts) /\ \A i \in 1 .. Len(d) : Renewed(d[i])
         /\ Len(c) \in Nat /\ Len(d) \in {Len(c), Len(c) + 1}
         /\ \A i \in 1 .. Len(c) : d[i].type = c[i].type
<1>0. Len(c) \in Nat
  OBVIOUS
<1>1. ASSUME NEW x \in ContentParts, x.open, d = Append(c, x)
      PROVE  /\ d \in Seq(ContentParts) /\ Len(d) = Len(c) + 1 /\ d[Len(c) + 1] = x
             /\ \A i \in 1 .. Len(c) : d[i] = c[i]
  BY <1>1
<1>2. ASSUME NEW i \in 1 .. Len(c), NEW x \in ContentParts, d = [c EXCEPT ![i] = x]
      PROVE  /\ d \in Seq(ContentParts) /\ Len(d) = Len(c) /\ d[i] = x
             /\ \A j \in 1 .. Len(c) : j # i => d[j] = c[j]
  BY <1>2
<1>3. CASE \E x \in ContentParts : x.open /\ d = Append(c, x)
  <2>1. PICK x \in ContentParts : x.open /\ d = Append(c, x)
    BY <1>3
  <2>2. /\ d \in Seq(ContentParts) /\ Len(d) = Len(c) + 1 /\ d[Len(c) + 1] = x
        /\ \A i \in 1 .. Len(c) : d[i] = c[i]
    BY <1>1, <2>1
  <2>3. Renewed(x)
    BY <2>1 DEF Renewed
  <2>4. ASSUME NEW i \in 1 .. Len(d) PROVE Renewed(d[i])
    <3>1. i \in 1 .. Len(c) \/ i = Len(c) + 1
      BY <1>0, <2>2
    <3> QED
      BY <2>2, <2>3, <3>1
  <2> QED
    BY <1>0, <2>2, <2>4
<1>4. CASE \E i \in 1 .. Len(c) : \E x \in ContentParts : x.type = c[i].type /\ Renewed(x) /\ d = [c EXCEPT ![i] = x]
  <2>1. PICK i \in 1 .. Len(c), x \in ContentParts : x.type = c[i].type /\ Renewed(x) /\ d = [c EXCEPT ![i] = x]
    BY <1>4
  <2>2. /\ d \in Seq(ContentParts) /\ Len(d) = Len(c) /\ d[i] = x
        /\ \A j \in 1 .. Len(c) : j # i => d[j] = c[j]
    BY <1>2, <2>1
  <2>3. ASSUME NEW j \in 1 .. Len(c) PROVE Renewed(d[j]) /\ d[j].type = c[j].type
    BY <2>1, <2>2
  <2> QED
    BY <1>0, <2>2, <2>3
<1> QED
  BY <1>0, <1>3, <1>4

\* Every block of a whole message is closed and renewed.
LEMMA MessageParts ==
  ASSUME NEW m \in Anthropic!Messages
  PROVE  /\ m.content \in Seq(ContentParts)
         /\ \A i \in 1 .. Len(m.content) : ~m.content[i].open /\ Renewed(m.content[i])
         /\ \A i \in 1 .. Len(m.content) : m.content[i].sig = <<>> /\ m.content[i].raw = m.content[i].body
<1> DEFINE types == UNION {[1 .. k -> Anthropic!BlockTypes] : k \in 0 .. MaxBlocks}
           block(type, i) == [Anthropic!ContentBlock(type, <<i>>) EXCEPT !.open = FALSE]
           content(t) == [i \in DOMAIN t |-> block(t[i], i)]
<1>1. PICK t \in types, r \in StopReasons :
        m = [content |-> content(t), stop |-> r, prompt |-> 2, completion |-> 1]
  BY DEF Anthropic!Messages
<1>2. PICK k \in 0 .. MaxBlocks : t \in [1 .. k -> Anthropic!BlockTypes]
  OBVIOUS
<1>3. k \in Nat /\ DOMAIN t = 1 .. k /\ \A i \in 1 .. k : t[i] \in Anthropic!BlockTypes
  BY <1>2, DriverAssumption
<1>4. ASSUME NEW i \in 1 .. k
      PROVE  LET x == block(t[i], i) IN
             x \in ContentParts /\ ~x.open /\ x.sig = <<>> /\ x.raw = x.body
  <2>1. <<i>> \in Text /\ <<>> \in Text
    BY TextJoins DEF Text
  <2> DEFINE y == <<i>>
             x == [Anthropic!ContentBlock(t[i], y) EXCEPT !.open = FALSE]
  <2>2. y \in Text
    BY <2>1
  <2> HIDE DEF y
  <2>3. PICK type \in Anthropic!BlockTypes : type = t[i]
    BY <1>3
  <2>4. x \in ContentParts /\ ~x.open /\ x.sig = <<>> /\ x.raw = x.body
    BY <2>1, <2>2, <2>3 DEF ContentParts, Anthropic!ContentBlock
  <2> QED
    BY <2>4 DEF y
<1> DEFINE u == content(t)
<1>5. u = [i \in 1 .. k |-> u[i]] /\ \A i \in 1 .. k : u[i] = block(t[i], i)
  BY <1>3
<1>6. m.content = u
  BY <1>1
<1> HIDE DEF u, block
<1>7. \A i \in 1 .. k : u[i] \in ContentParts /\ ~u[i].open /\ u[i].sig = <<>> /\ u[i].raw = u[i].body
  BY <1>4, <1>5 DEF block
<1>8. u \in Seq(ContentParts) /\ Len(u) = k
  BY <1>3, <1>5, <1>7, PartsSeq
<1>9. ASSUME NEW i \in 1 .. k PROVE Renewed(u[i])
  <2>1. u[i].body \in Text
    BY <1>7 DEF ContentParts
  <2> QED
    BY <1>7, <2>1, TextJoins DEF Renewed
<1> QED
  BY <1>6, <1>7, <1>8, <1>9

\* Every step of the Anthropic driver keeps the blocks.
LEMMA ContentKeeps ==
  ASSUME CallInv, UsageInv, ReasonInv, TextInv, ContentInv, Anthropic!AnthropicNext
  PROVE  ContentInv'
<1>1. CASE Anthropic!anthropicStart
  <2>1. /\ FromAnthropic /\ call' = call /\ pc = "start" /\ pc' # "start"
        /\ \/ message' = message
           \/ message' = [Anthropic!NoMessage EXCEPT !.prompt = IF Streams THEN 2 ELSE 0]
    BY <1>1 DEF Anthropic!anthropicStart
  <2>2. message.content = <<>> /\ message.stop = Unset
    BY <2>1 DEF ContentInv, ReasonInv, AnthropicReasonInv
  <2>3. message'.content = <<>> /\ message'.stop = Unset
    <3>1. Anthropic!NoMessage.content = <<>> /\ Anthropic!NoMessage.stop = Unset
      BY DEF Anthropic!NoMessage
    <3>2. CASE message' = [Anthropic!NoMessage EXCEPT !.prompt = IF Streams THEN 2 ELSE 0]
      BY <3>2 DEF Anthropic!NoMessage
    <3> QED
      BY <2>1, <2>2, <3>2
  <2>4. <<>> \in Seq(ContentParts) /\ \A i \in 1 .. Len(<<>>) : FALSE
    <3>1. \A S : <<>> \in Seq(S)
      OBVIOUS
    <3> QED
      BY <3>1, NoneSeq
  <2> QED
    BY <2>1, <2>3, <2>4 DEF ContentInv
<1>2. ASSUME Anthropic!Reads, Streams, NEW e \in Anthropic!ProtocolEvents \cup Anthropic!ProtocolErrors,
             Anthropic!nextEvent(e)
      PROVE  ContentInv'
  <2>1. /\ FromAnthropic /\ call' = call /\ pc' # "start"
        /\ DOMAIN message = {"content", "stop", "prompt", "completion"} /\ n \in Nat
        /\ message.content \in Seq(ContentParts)
        /\ \A i \in 1 .. Len(message.content) : Renewed(message.content[i])
        /\ message.stop # Unset => Anthropic!OpenBlocks = {}
    BY <1>2 DEF Anthropic!Reads, Anthropic!nextEvent, ContentInv, UsageInv, TallyShape, TextInv
  <2>2. EventShape(e)
    BY <2>1, EventShaped
  <2>3. CASE Anthropic!AccumulateFails(message, e)
    <3>1. message' = message
      BY <1>2, <2>3 DEF Anthropic!nextEvent
    <3>2. Anthropic!OpenBlocks' = Anthropic!OpenBlocks
      BY <3>1 DEF Anthropic!OpenBlocks
    <3> QED
      BY <2>1, <3>1, <3>2 DEF ContentInv
  <2>4. CASE ~Anthropic!AccumulateFails(message, e)
    <3> DEFINE c == message.content
               d == Anthropic!Accumulate(message, e).content
    <3>1. /\ e.type = "content_block_start" =>
               \E x \in ContentParts : x.open /\ x.type = e.kind /\ d = Append(c, x)
          /\ e.type # "content_block_start" => d = c \/
               \E i \in Anthropic!OpenBlocks : \E x \in ContentParts :
                 x.type = c[i].type /\ Renewed(x) /\ d = [c EXCEPT ![i] = x]
      BY <2>1, <2>2, <2>4, ContentSteps
    <3>2. Anthropic!OpenBlocks \subseteq 1 .. Len(c)
      BY DEF Anthropic!OpenBlocks
    <3>3. message'.content = d
      BY <1>2, <2>4 DEF Anthropic!nextEvent
    <3>4. message'.stop = IF e.type = "message_delta" THEN e.kind ELSE message.stop
      <4>1. message' = Anthropic!Accumulate(message, e)
        BY <1>2, <2>4 DEF Anthropic!nextEvent
      <4> QED
        BY <2>1, <4>1, EventTyped, Accumulated
    <3> HIDE DEF d
    <3>5. d \in Seq(ContentParts) /\ \A i \in 1 .. Len(d) : Renewed(d[i])
      BY <2>1, <3>1, <3>2, BlocksKept
    <3>6. message'.stop # Unset => Anthropic!OpenBlocks = {} /\ e.type # "content_block_start"
      BY <2>1, <2>2, <3>4 DEF EventShape
    <3>7. message'.stop # Unset => d = c /\ Anthropic!OpenBlocks = {}
      BY <3>1, <3>6
    <3>8. message'.stop # Unset => Anthropic!OpenBlocks' = {}
      BY <3>3, <3>7 DEF Anthropic!OpenBlocks
    <3> QED
      BY <2>1, <3>3, <3>5, <3>8 DEF ContentInv
  <2> QED
    BY <2>3, <2>4
<1>3. ASSUME NEW m \in Anthropic!Messages, Anthropic!messageArrives(m)
      PROVE  ContentInv'
  <2>1. call' = call /\ message' = m /\ pc' # "start"
    BY <1>3 DEF Anthropic!messageArrives
  <2>2. Anthropic!OpenBlocks' = {}
    BY <2>1, MessageParts DEF Anthropic!OpenBlocks
  <2> QED
    BY <2>1, <2>2, MessageParts DEF ContentInv
<1>4. ASSUME UNCHANGED <<call, message>>, pc' # "start"
      PROVE  ContentInv'
  <2>1. Anthropic!OpenBlocks' = Anthropic!OpenBlocks
    BY <1>4 DEF Anthropic!OpenBlocks
  <2> QED
    BY <1>4, <2>1 DEF ContentInv
<1>5. CASE (\E ok \in BOOLEAN : Anthropic!anthropicDelta(ok) \/ Anthropic!closeStream(ok))
           \/ Anthropic!streamFails \/ Anthropic!messageFails \/ Anthropic!finishStream
  <2>1. UNCHANGED <<call, message>> /\ pc' # "start"
    BY <1>5 DEF Anthropic!anthropicDelta, Anthropic!closeStream, Anthropic!streamFails, Anthropic!messageFails,
                Anthropic!finishStream, Anthropic!anthropicVars, Anthropic!Reads, CallInv, PlaceInv
  <2> QED
    BY <1>4, <2>1
<1> QED
  BY <1>1, <1>2, <1>3, <1>5 DEF Anthropic!AnthropicNext

\* The blocks of a message that call a tool.
ToolBlocks(c) == {i \in 1 .. Len(c) : c[i].type = "tool_use"}

\* streamState knows the ordinal of every tool call the message has started.
IndexInv ==
  FromAnthropic /\ HasCallback /\ Streams /\ err = {} =>
  /\ DOMAIN toolCallIndexes = ToolBlocks(message.content)
  /\ \A i \in ToolBlocks(message.content) :
       toolCallIndexes[i] = Anthropic!ToolCallOrdinal(message.content, i)

\* The ordinal of a block depends on the types of those before it.
LEMMA SameOrdinal ==
  ASSUME NEW c, NEW d, Len(c) \in Nat, \A i \in 1 .. Len(c) : d[i].type = c[i].type,
         NEW i \in 1 .. (Len(c) + 1)
  PROVE  Anthropic!ToolCallOrdinal(d, i) = Anthropic!ToolCallOrdinal(c, i)
<1>1. \A j \in 1 .. (i - 1) : d[j].type = c[j].type
  OBVIOUS
<1>2. {j \in 1 .. (i - 1) : d[j].type = "tool_use"} = {j \in 1 .. (i - 1) : c[j].type = "tool_use"}
  BY <1>1
<1> QED
  BY <1>2 DEF Anthropic!ToolCallOrdinal

\* Every step of the Anthropic driver keeps them.
LEMMA IndexKeeps ==
  ASSUME CallInv, UsageInv, TextInv, ContentInv, IndexInv, Anthropic!AnthropicNext
  PROVE  IndexInv'
<1>1. CASE Anthropic!anthropicStart
  <2>1. /\ FromAnthropic /\ UNCHANGED <<call, toolCallIndexes>> /\ pc = "start" /\ err = {}
        /\ err' = {} => message' = [Anthropic!NoMessage EXCEPT !.prompt = IF Streams THEN 2 ELSE 0]
    BY <1>1 DEF Anthropic!anthropicStart, CallInv, PlaceInv
  <2>2. message.content = <<>>
    BY <2>1 DEF ContentInv
  <2>3. err' = {} => message'.content = message.content
    BY <2>1, <2>2 DEF Anthropic!NoMessage
  <2> QED
    BY <2>1, <2>3 DEF IndexInv
<1>2. ASSUME Anthropic!Reads, Streams, NEW e \in Anthropic!ProtocolEvents \cup Anthropic!ProtocolErrors,
             Anthropic!nextEvent(e)
      PROVE  IndexInv'
  <2>1. /\ FromAnthropic /\ call' = call /\ err = {}
        /\ DOMAIN message = {"content", "stop", "prompt", "completion"} /\ n \in Nat
        /\ message.content \in Seq(ContentParts)
        /\ \A i \in 1 .. Len(message.content) : Renewed(message.content[i])
    BY <1>2 DEF Anthropic!Reads, Anthropic!nextEvent, ContentInv, UsageInv, TallyShape, TextInv, CallInv, PlaceInv
  <2>2. EventShape(e)
    BY <2>1, EventShaped
  <2> SUFFICES ASSUME HasCallback, err' = {}
               PROVE  /\ DOMAIN toolCallIndexes' = ToolBlocks(message'.content)
                      /\ \A i \in ToolBlocks(message'.content) :
                           toolCallIndexes'[i] = Anthropic!ToolCallOrdinal(message'.content, i)
    BY <2>1 DEF IndexInv
  <2> DEFINE c == message.content
             d == Anthropic!Accumulate(message, e).content
  <2>3. ~Anthropic!AccumulateFails(message, e) /\ ~Anthropic!EmitFails(e)
    BY <1>2, <2>1 DEF Anthropic!nextEvent
  <2>4. /\ e.type = "content_block_start" =>
             \E x \in ContentParts : x.open /\ x.type = e.kind /\ d = Append(c, x)
        /\ e.type # "content_block_start" => d = c \/
             \E i \in Anthropic!OpenBlocks : \E x \in ContentParts :
               x.type = c[i].type /\ Renewed(x) /\ d = [c EXCEPT ![i] = x]
    BY <2>1, <2>2, <2>3, ContentSteps
  <2>5. message'.content = d
    BY <1>2, <2>3 DEF Anthropic!nextEvent
  <2>6. toolCallIndexes' = IF e.type = "content_block_start" /\ e.kind = "tool_use"
                           THEN [i \in DOMAIN toolCallIndexes \cup {e.index} |->
                                   IF i = e.index THEN Anthropic!NextToolCallIndex ELSE toolCallIndexes[i]]
                           ELSE toolCallIndexes
    BY <1>2, <2>1, <2>3 DEF Anthropic!nextEvent
  <2>7. /\ DOMAIN toolCallIndexes = ToolBlocks(c)
        /\ \A i \in ToolBlocks(c) : toolCallIndexes[i] = Anthropic!ToolCallOrdinal(c, i)
    BY <1>2, <2>1 DEF IndexInv
  <2>8. Anthropic!OpenBlocks \subseteq 1 .. Len(c)
    BY DEF Anthropic!OpenBlocks
  <2> HIDE DEF d
  <2>9. Len(c) \in Nat /\ \A i \in 1 .. Len(c) : d[i].type = c[i].type
    BY <2>1, <2>4, <2>8, BlocksKept
  <2>10. \A i \in 1 .. (Len(c) + 1) : Anthropic!ToolCallOrdinal(d, i) = Anthropic!ToolCallOrdinal(c, i)
    BY <2>9, SameOrdinal
  <2>11. \A i \in ToolBlocks(c) : i \in 1 .. (Len(c) + 1)
    BY <2>9 DEF ToolBlocks
  <2>12. CASE e.type = "content_block_start"
    <3>1. PICK x \in ContentParts : x.type = e.kind /\ d = Append(c, x)
      BY <2>4, <2>12
    <3>2. Len(d) = Len(c) + 1 /\ d[Len(c) + 1] = x
      BY <2>1, <3>1
    <3>3. ToolBlocks(d) = ToolBlocks(c) \cup (IF e.kind = "tool_use" THEN {Len(c) + 1} ELSE {})
      BY <2>9, <3>1, <3>2 DEF ToolBlocks
    <3>4. e.index = Len(c) + 1
      BY <2>2, <2>12 DEF EventShape
    <3>5. Len(c) + 1 \notin ToolBlocks(c)
      BY <2>9 DEF ToolBlocks
    <3>6. Anthropic!NextToolCallIndex = Anthropic!ToolCallOrdinal(c, Len(c) + 1)
      <4>1. ToolBlocks(c) = {j \in 1 .. ((Len(c) + 1) - 1) : c[j].type = "tool_use"}
        BY <2>9 DEF ToolBlocks
      <4> QED
        BY <2>7, <4>1 DEF Anthropic!NextToolCallIndex, Anthropic!ToolCallOrdinal
    <3>7. CASE e.kind = "tool_use"
      <4>1. /\ DOMAIN toolCallIndexes' = ToolBlocks(c) \cup {Len(c) + 1}
            /\ toolCallIndexes'[Len(c) + 1] = Anthropic!NextToolCallIndex
            /\ \A i \in ToolBlocks(c) : toolCallIndexes'[i] = toolCallIndexes[i]
        BY <2>6, <2>7, <2>12, <3>4, <3>5, <3>7
      <4>2. Len(c) + 1 \in 1 .. (Len(c) + 1)
        BY <2>9
      <4> QED
        BY <2>5, <2>7, <2>10, <2>11, <3>3, <3>6, <3>7, <4>1, <4>2
    <3>8. CASE e.kind # "tool_use"
      BY <2>5, <2>6, <2>7, <2>10, <2>11, <3>3, <3>8
    <3> QED
      BY <3>7, <3>8
  <2>13. CASE e.type # "content_block_start"
    <3>1. Len(d) = Len(c)
      <4>1. ASSUME NEW i \in Anthropic!OpenBlocks, NEW x \in ContentParts, d = [c EXCEPT ![i] = x]
            PROVE  Len(d) = Len(c)
        BY <2>1, <2>8, <4>1
      <4> QED
        BY <2>4, <2>13, <4>1
    <3>2. ToolBlocks(d) = ToolBlocks(c)
      BY <2>9, <3>1 DEF ToolBlocks
    <3> QED
      BY <2>5, <2>6, <2>7, <2>10, <2>11, <2>13, <3>2
  <2> QED
    BY <2>12, <2>13
<1>3. ASSUME ~Streams \/ err' # {}, call' = call
      PROVE  IndexInv'
  BY <1>3 DEF IndexInv
<1>4. ASSUME UNCHANGED <<call, message, toolCallIndexes>>, err' = {} => err = {}
      PROVE  IndexInv'
  BY <1>4 DEF IndexInv
<1>5. CASE (\E ok \in BOOLEAN : Anthropic!anthropicDelta(ok) \/ Anthropic!closeStream(ok))
           \/ Anthropic!streamFails \/ Anthropic!messageFails \/ Anthropic!finishStream
  <2>1. UNCHANGED <<call, message, toolCallIndexes>> /\ (err' = {} => err = {})
    BY <1>5 DEF Anthropic!anthropicDelta, Anthropic!closeStream, Anthropic!streamFails, Anthropic!messageFails,
                Anthropic!finishStream, Anthropic!anthropicVars, Anthropic!Reads, CallInv, PlaceInv
  <2> QED
    BY <1>4, <2>1
<1>6. CASE Anthropic!Reads /\ ~Streams /\ \E m \in Anthropic!Messages : Anthropic!messageArrives(m)
  <2>1. call' = call
    BY <1>6 DEF Anthropic!messageArrives
  <2> QED
    BY <1>3, <1>6, <2>1
<1> QED
  BY <1>1, <1>2, <1>5, <1>6 DEF Anthropic!AnthropicNext

-----------------------------------------------------------------------------
(* The Anthropic driver tells what it is sent. *)

\* The ordinal of a block is a number, and the blocks up to it are one more if it
\* calls a tool itself.
LEMMA OrdinalCounts ==
  ASSUME NEW c, NEW i \in Int
  PROVE  /\ Anthropic!ToolCallOrdinal(c, i) \in Nat
         /\ i >= 1 /\ c[i].type = "tool_use" =>
              Cardinality({j \in 1 .. i : c[j].type = "tool_use"}) - 1 = Anthropic!ToolCallOrdinal(c, i)
<1> DEFINE S == {j \in 1 .. (i - 1) : c[j].type = "tool_use"}
           T == {j \in 1 .. i : c[j].type = "tool_use"}
<1>1. IsFiniteSet(S)
  <2>1. IsFiniteSet(1 .. (i - 1))
    BY FS_Interval
  <2> QED
    BY <2>1, FS_Subset
<1>2. Cardinality(S) \in Nat
  BY <1>1, FS_CardinalityType
<1>3. ASSUME i >= 1, c[i].type = "tool_use" PROVE Cardinality(T) = Cardinality(S) + 1
  <2>1. T = S \cup {i} /\ i \notin S
    BY <1>3
  <2> HIDE DEF S, T
  <2> QED
    BY <1>1, <2>1, FS_AddElement
<1>4. i >= 1 /\ c[i].type = "tool_use" => Cardinality(T) - 1 = Cardinality(S)
  <2> HIDE DEF S, T
  <2> QED
    BY <1>2, <1>3
<1>5. Anthropic!ToolCallOrdinal(c, i) = Cardinality(S)
  BY DEF Anthropic!ToolCallOrdinal, Anthropic!Cardinality, Cardinality
<1> QED
  BY <1>2, <1>4, <1>5

\* What the answer said and an event adds to it.
Adds(a, s) ==
  /\ a.text \in Text /\ a.reasoning \in Text /\ a.calls \in Seq(CallParts)
  /\ Bodied(s)
  /\ \A channel \in Channels :
       /\ channel[1] = "text" => a.text = answer.text \o Told(s, channel)
       /\ channel[1] = "reasoning" => a.reasoning = answer.reasoning \o Told(s, channel)
       /\ channel[1] = "call" => CallsIn(a.calls, channel[2]) = CallsIn(answer.calls, channel[2]) \o Told(s, channel)

\* What an event adds is text.
LEMMA EventText ==
  ASSUME ShapeInv, TextInv, NEW e, EventShape(e),
         ~Anthropic!AccumulateFails(message, e), Len(message.content) \in Nat
  PROVE  LET a == Anthropic!SentEvent(e) IN
         a.text \in Text /\ a.reasoning \in Text /\ a.calls \in Seq(CallParts)
<1> DEFINE a == Anthropic!SentEvent(e)
           r == [index |-> Anthropic!ToolCallOrdinal(message.content, e.index), body |-> e.body]
<1>0. /\ e.body \in Text /\ answer.text \in Text /\ answer.reasoning \in Text /\ answer.calls \in Seq(CallParts)
      /\ \A x, y \in Text : x \o y \in Text
  BY TextJoins DEF EventShape, TextInv
<1>1. /\ a.text = IF e.kind = "text_delta" THEN answer.text \o e.body ELSE answer.text
      /\ a.reasoning = IF e.kind = "thinking_delta" THEN answer.reasoning \o e.body ELSE answer.reasoning
      /\ a.calls = IF e.kind = "input_json_delta" THEN Append(answer.calls, r) ELSE answer.calls
  BY DEF Anthropic!SentEvent, ShapeInv
<1>2. ASSUME e.kind = "input_json_delta" PROVE a.calls \in Seq(CallParts)
  <2>1. e.index \in Int
    BY <1>2 DEF EventShape, Anthropic!BlockTypes, Anthropic!ReasoningTypes, Anthropic!OpenBlocks
  <2>2. Anthropic!ToolCallOrdinal(message.content, e.index) \in Nat
    BY <2>1, OrdinalCounts
  <2>3. r \in CallParts
    BY <1>0, <2>2 DEF CallParts
  <2> HIDE DEF r
  <2> QED
    BY <1>0, <1>1, <1>2, <2>3
<1> QED
  BY <1>0, <1>1, <1>2

\* What an event publishes is what it adds.
LEMMA EventSays ==
  ASSUME ShapeInv, TextInv, NEW e, EventShape(e),
         ~Anthropic!AccumulateFails(message, e), Len(message.content) \in Nat,
         e.type = "content_block_delta" /\ e.kind = "input_json_delta" =>
           toolCallIndexes[e.index] = Anthropic!ToolCallOrdinal(message.content, e.index)
  PROVE  Adds(Anthropic!SentEvent(e), Anthropic!emitEventDelta(e))
<1> DEFINE a == Anthropic!SentEvent(e)
           s == Anthropic!emitEventDelta(e)
           r == [index |-> Anthropic!ToolCallOrdinal(message.content, e.index), body |-> e.body]
<1>0. /\ e.body \in Text /\ answer.text \in Text /\ answer.reasoning \in Text /\ answer.calls \in Seq(CallParts)
      /\ \A x \in Text : x \o <<>> = x
      /\ \A x, y \in Text : x \o y \in Text
      /\ <<>> \in Text
  BY TextJoins DEF EventShape, TextInv
<1>1. /\ a.text = IF e.kind = "text_delta" THEN answer.text \o e.body ELSE answer.text
      /\ a.reasoning = IF e.kind = "thinking_delta" THEN answer.reasoning \o e.body ELSE answer.reasoning
      /\ a.calls = IF e.kind = "input_json_delta" THEN Append(answer.calls, r) ELSE answer.calls
  BY DEF Anthropic!SentEvent, ShapeInv
<1>2. \A index : CallsIn(answer.calls, index) \in Text
  BY <1>0, CallsSum
<1>3. a.text \in Text /\ a.reasoning \in Text
  BY <1>0, <1>1
<1>4. ASSUME NEW x, Sound(x), s = <<x>>
      PROVE  Bodied(s) /\ \A channel : Told(s, channel) = Part(x, channel)
  BY <1>4, ToldOne
<1>5. CASE e.type = "content_block_start" /\ e.kind = "tool_use"
  <2> DEFINE x == ToolCallDelta(Anthropic!NextToolCallIndex, "id", <<>>)
  <2>1. s = <<x>>
    BY <1>5, SameDeltas DEF Anthropic!emitEventDelta
  <2>2. Sound(x) /\ \A channel \in Channels : Part(x, channel) = <<>>
    BY <1>0, SoundDeltas, PartOf
  <2> HIDE DEF x, s, a
  <2>3. Bodied(s) /\ \A channel \in Channels : Told(s, channel) = <<>>
    BY <1>4, <2>1, <2>2
  <2> QED
    BY <1>0, <1>1, <1>2, <1>3, <1>5, <2>3 DEF Adds, a, s
<1>6. CASE ~(e.type = "content_block_start" /\ e.kind = "tool_use")
  <2>1. CASE e.kind = "text_delta"
    <3> DEFINE x == TextDelta(e.body)
    <3>1. s = <<x>>
      BY <1>6, <2>1, SameDeltas DEF Anthropic!emitEventDelta
    <3>2. Sound(x) /\ \A channel \in Channels : Part(x, channel) = IF channel[1] = "text" THEN e.body ELSE <<>>
      BY <1>0, SoundDeltas, PartOf
    <3> HIDE DEF x, s, a
    <3>3. Bodied(s) /\ \A channel \in Channels : Told(s, channel) = IF channel[1] = "text" THEN e.body ELSE <<>>
      BY <1>4, <3>1, <3>2
    <3> QED
      BY <1>0, <1>1, <1>2, <1>3, <2>1, <3>3 DEF Adds, a, s
  <2>2. CASE e.kind = "thinking_delta"
    <3> DEFINE x == ReasoningDelta(e.body)
    <3>1. s = <<x>>
      BY <1>6, <2>2, SameDeltas DEF Anthropic!emitEventDelta
    <3>2. Sound(x) /\ \A channel \in Channels : Part(x, channel) = IF channel[1] = "reasoning" THEN e.body ELSE <<>>
      BY <1>0, SoundDeltas, PartOf
    <3> HIDE DEF x, s, a
    <3>3. Bodied(s) /\ \A channel \in Channels : Told(s, channel) = IF channel[1] = "reasoning" THEN e.body ELSE <<>>
      BY <1>4, <3>1, <3>2
    <3> QED
      BY <1>0, <1>1, <1>2, <1>3, <2>2, <3>3 DEF Adds, a, s
  <2>3. CASE e.kind = "input_json_delta"
    <3> DEFINE x == ToolCallDelta(toolCallIndexes[e.index], "", e.body)
    <3>1. s = <<x>>
      BY <1>6, <2>3, SameDeltas DEF Anthropic!emitEventDelta
    <3>2. /\ Sound(x)
          /\ \A channel \in Channels : Part(x, channel) = IF channel[1] = "call" /\ toolCallIndexes[e.index] = channel[2] THEN e.body ELSE <<>>
      BY <1>0, SoundDeltas, PartOf
    <3>3. e.index \in Int /\ (toolCallIndexes[e.index] = r.index \/ e.body = <<>>)
      BY <2>3 DEF EventShape, Anthropic!BlockTypes, Anthropic!ReasoningTypes, Anthropic!OpenBlocks
    <3>4. r \in CallParts
      <4>1. Anthropic!ToolCallOrdinal(message.content, e.index) \in Nat
        BY <3>3, OrdinalCounts
      <4> QED
        BY <1>0, <4>1 DEF CallParts
    <3> DEFINE calls == <<r>>
    <3>5. calls \in Seq(CallParts) /\ Append(answer.calls, r) = answer.calls \o calls
      <4> HIDE DEF r
      <4> QED
        BY <1>0, <3>4
    <3> HIDE DEF x, s, a
    <3>6. Bodied(s) /\ \A channel \in Channels : Told(s, channel) = IF channel[1] = "call" /\ toolCallIndexes[e.index] = channel[2] THEN e.body ELSE <<>>
      BY <1>4, <3>1, <3>2
    <3>7. \A index : CallsIn(calls, index) = IF r.index = index THEN e.body ELSE <<>>
      BY CallsFew DEF CallPart
    <3> HIDE DEF calls, r
    <3>8. /\ a.calls \in Seq(CallParts)
          /\ \A index : CallsIn(a.calls, index) = CallsIn(answer.calls, index) \o CallsIn(calls, index)
      BY <1>0, <1>1, <2>3, <3>5, CallsConcat
    <3>9. \A channel \in Channels : channel[1] = "call" => Told(s, channel) = CallsIn(calls, channel[2])
      BY <3>3, <3>6, <3>7
    <3>10. \A channel \in Channels : channel[1] # "call" => Told(s, channel) = <<>>
      BY <3>6
    <3> QED
      BY <1>0, <1>1, <1>3, <2>3, <3>6, <3>8, <3>9, <3>10 DEF Adds, a, s
  <2>4. CASE e.kind \notin {"text_delta", "thinking_delta", "input_json_delta"}
    <3>1. s = <<>>
      BY <1>6, <2>4 DEF Anthropic!emitEventDelta
    <3>2. Bodied(s) /\ \A channel : Told(s, channel) = <<>>
      BY <3>1, ToldNone
    <3> HIDE DEF s, a
    <3> QED
      BY <1>0, <1>1, <1>2, <1>3, <2>4, <3>2 DEF Adds, a, s
  <2> QED
    BY <2>1, <2>2, <2>3, <2>4
<1> QED
  BY <1>5, <1>6

\* What a block of a whole message says.
LEMMA BlockSays ==
  ASSUME NEW x \in ContentParts, NEW ordinal
  PROVE  LET s == Anthropic!deltaFromContentBlock(x, ordinal) IN
         /\ Sequential(s) /\ Bodied(s)
         /\ \A channel \in Channels :
              Told(s, channel) = IF \/ channel[1] = "text" /\ x.type = "text"
                                    \/ channel[1] = "reasoning" /\ x.type = "thinking"
                                    \/ channel[1] = "call" /\ x.type = "tool_use" /\ ordinal = channel[2]
                                 THEN x.body ELSE <<>>
<1> DEFINE s == Anthropic!deltaFromContentBlock(x, ordinal)
           b == x.body
<1>0. b \in Text /\ x.type \in {"thinking", "redacted_thinking", "text", "tool_use"}
  BY DEF ContentParts, Anthropic!BlockTypes, Anthropic!ReasoningTypes
<1>1. CASE x.type = "thinking"
  <2>1. s = IfAny(b, ReasoningDelta(b))
    BY <1>1, SameDeltas DEF Anthropic!deltaFromContentBlock
  <2> QED
    BY <1>0, <1>1, <2>1, IfAnySays
<1>2. CASE x.type = "text"
  <2>1. s = IfAny(b, TextDelta(b))
    BY <1>2, SameDeltas DEF Anthropic!deltaFromContentBlock
  <2> QED
    BY <1>0, <1>2, <2>1, IfAnySays
<1>3. CASE x.type = "tool_use"
  <2> DEFINE d == ToolCallDelta(ordinal, "id", b)
  <2>1. s = <<d>>
    BY <1>3, SameDeltas DEF Anthropic!deltaFromContentBlock
  <2>2. Sound(d) /\ \A channel \in Channels : Part(d, channel) = IF channel[1] = "call" /\ ordinal = channel[2] THEN b ELSE <<>>
    BY <1>0, SoundDeltas, PartOf
  <2> HIDE DEF d, s
  <2>3. Sequential(<<d>>) /\ Bodied(<<d>>) /\ \A channel : Told(<<d>>, channel) = Part(d, channel)
    BY <2>2, OneSeq, ToldOne
  <2>4. /\ Sequential(s) /\ Bodied(s)
        /\ \A channel \in Channels : Told(s, channel) = IF channel[1] = "call" /\ ordinal = channel[2] THEN b ELSE <<>>
    BY <2>1, <2>2, <2>3
  <2> QED
    BY <1>3, <2>4 DEF s
<1>4. CASE x.type = "redacted_thinking"
  <2>1. s = <<>>
    BY <1>4 DEF Anthropic!deltaFromContentBlock
  <2> QED
    BY <1>4, <2>1, NoneSeq, ToldNone
<1> QED
  BY <1>0, <1>1, <1>2, <1>3, <1>4

\* What emitMessageContent publishes is what the message says.
LEMMA MessageSays ==
  ASSUME NEW c \in Seq(ContentParts)
  PROVE  LET s == Anthropic!emitMessageContent(c) IN
         /\ Bodied(s)
         /\ Anthropic!BodyOf(c, {"text"}) \in Text /\ Anthropic!BodyOf(c, {"thinking"}) \in Text
         /\ Anthropic!CallsSent(c) \in Seq(CallParts)
         /\ \A channel \in Channels :
              /\ channel[1] = "text" => Told(s, channel) = Anthropic!BodyOf(c, {"text"})
              /\ channel[1] = "reasoning" => Told(s, channel) = Anthropic!BodyOf(c, {"thinking"})
              /\ channel[1] = "call" => Told(s, channel) = CallsIn(Anthropic!CallsSent(c), channel[2])
<1> DEFINE k == Len(c)
           ordinal(i) == Anthropic!ToolCallOrdinal(c, i)
           seqs == [i \in 1 .. k |-> Anthropic!deltaFromContentBlock(c[i], ordinal(i))]
           record(i) == [index |-> Cardinality({j \in 1 .. i : c[j].type = "tool_use"}) - 1, body |-> c[i].body]
           called == [i \in 1 .. k |-> IF c[i].type = "tool_use" THEN <<record(i)>> ELSE <<>>]
           bodies(type) == [i \in 1 .. k |-> IF c[i].type \in {type} THEN c[i].body ELSE <<>>]
<1>0. k \in Nat /\ \A i \in 1 .. k : c[i] \in ContentParts /\ c[i].body \in Text
  <2>1. k \in Nat /\ \A i \in 1 .. k : c[i] \in ContentParts
    OBVIOUS
  <2> QED
    BY <2>1 DEF ContentParts
<1>1. Anthropic!emitMessageContent(c) = FlattenSeq(seqs)
  BY SameFlatten DEF Anthropic!emitMessageContent
<1>2. \A type : Anthropic!BodyOf(c, {type}) = FlattenSeq(bodies(type))
  BY SameFlatten DEF Anthropic!BodyOf
<1>3. Anthropic!CallsSent(c) = FlattenSeq(called)
  BY SameFlatten DEF Anthropic!CallsSent, Anthropic!Cardinality, Cardinality
<1>4. seqs = [i \in 1 .. k |-> seqs[i]] /\ \A i \in 1 .. k : seqs[i] = Anthropic!deltaFromContentBlock(c[i], ordinal(i))
  OBVIOUS
<1>5. called = [i \in 1 .. k |-> called[i]] /\ \A i \in 1 .. k : called[i] = IF c[i].type = "tool_use" THEN <<record(i)>> ELSE <<>>
  OBVIOUS
<1>6. \A i \in 1 .. k : /\ ordinal(i) \in Nat
                        /\ c[i].type = "tool_use" => record(i).index = ordinal(i)
                        /\ record(i).body = c[i].body
  <2>1. ASSUME NEW i \in 1 .. k
        PROVE  /\ ordinal(i) \in Nat
               /\ c[i].type = "tool_use" => Cardinality({j \in 1 .. i : c[j].type = "tool_use"}) - 1 = ordinal(i)
    <3>1. i \in Int /\ i >= 1
      BY <1>0
    <3> QED
      BY <3>1, OrdinalCounts
  <2> HIDE DEF ordinal
  <2> QED
    BY <2>1
<1> HIDE DEF seqs, called, ordinal, record
<1>7. \A i \in 1 .. k :
        /\ Sequential(seqs[i]) /\ Bodied(seqs[i])
        /\ \A channel \in Channels :
             Told(seqs[i], channel) = IF \/ channel[1] = "text" /\ c[i].type = "text"
                                         \/ channel[1] = "reasoning" /\ c[i].type = "thinking"
                                         \/ channel[1] = "call" /\ c[i].type = "tool_use" /\ ordinal(i) = channel[2]
                                      THEN c[i].body ELSE <<>>
  BY <1>0, <1>4, BlockSays
<1>8. /\ Bodied(FlattenSeq(seqs))
      /\ \A channel : Told(FlattenSeq(seqs), channel) = FlattenSeq([i \in 1 .. k |-> Told(seqs[i], channel)])
  BY <1>0, <1>4, <1>7, ToldFlatten
<1>9. ASSUME NEW type PROVE FlattenSeq(bodies(type)) \in Text
  <2> DEFINE u == bodies(type)
  <2>1. u = [i \in 1 .. k |-> u[i]] /\ \A i \in 1 .. k : u[i] \in Text
    BY <1>0, TextJoins
  <2> HIDE DEF u
  <2>2. u \in Seq(Text)
    BY <1>0, <2>1, PartsSeq
  <2> QED
    BY <2>2, FlattenType DEF u, Text
<1>10. /\ called \in Seq(Seq(CallParts)) /\ Len(called) = k
       /\ \A i \in 1 .. k : \A index : CallsIn(called[i], index) = IF c[i].type = "tool_use" /\ ordinal(i) = index THEN c[i].body ELSE <<>>
  <2>1. ASSUME NEW i \in 1 .. k
        PROVE  /\ called[i] \in Seq(CallParts)
               /\ \A index : CallsIn(called[i], index) = IF c[i].type = "tool_use" /\ ordinal(i) = index THEN c[i].body ELSE <<>>
    <3>1. CASE c[i].type = "tool_use"
      <4> DEFINE r == record(i)
      <4>1. r \in CallParts
        BY <1>0, <1>6, <3>1 DEF CallParts, record
      <4> HIDE DEF r
      <4>2. <<r>> \in Seq(CallParts)
        BY <4>1
      <4>3. \A index : CallsIn(<<r>>, index) = IF r.index = index THEN r.body ELSE <<>>
        BY CallsFew DEF CallPart
      <4>4. called[i] = <<r>> /\ r.index = ordinal(i) /\ r.body = c[i].body
        BY <1>5, <1>6, <3>1 DEF r
      <4> QED
        BY <3>1, <4>2, <4>3, <4>4
    <3>2. CASE c[i].type # "tool_use"
      BY <1>5, <3>2, CallsFew, NoneTyped
    <3> QED
      BY <3>1, <3>2
  <2>2. called \in Seq(Seq(CallParts)) /\ Len(called) = k
    BY <1>0, <1>5, <2>1, PartsSeq
  <2> QED
    BY <2>1, <2>2
<1>11. /\ FlattenSeq(called) \in Seq(CallParts)
       /\ \A index : CallsIn(FlattenSeq(called), index) = FlattenSeq([i \in 1 .. k |-> CallsIn(called[i], index)])
  BY <1>10, CallsFlatten
<1>12. ASSUME NEW channel \in Channels, NEW parts, \A i \in 1 .. k : Told(seqs[i], channel) = parts[i],
              parts = [i \in 1 .. k |-> parts[i]]
       PROVE  Told(FlattenSeq(seqs), channel) = FlattenSeq(parts)
  <2>1. [i \in 1 .. k |-> Told(seqs[i], channel)] = [i \in 1 .. k |-> parts[i]]
    BY <1>12
  <2> QED
    BY <1>8, <1>12, <2>1
<1>13. ASSUME NEW channel \in Channels
       PROVE  /\ channel[1] = "text" => Told(FlattenSeq(seqs), channel) = FlattenSeq(bodies("text"))
              /\ channel[1] = "reasoning" => Told(FlattenSeq(seqs), channel) = FlattenSeq(bodies("thinking"))
              /\ channel[1] = "call" => Told(FlattenSeq(seqs), channel) = CallsIn(FlattenSeq(called), channel[2])
  <2>1. CASE channel[1] = "text"
    <3> DEFINE parts == bodies("text")
    <3>1. \A i \in 1 .. k : Told(seqs[i], channel) = parts[i]
      BY <1>7, <2>1
    <3>2. parts = [i \in 1 .. k |-> parts[i]]
      OBVIOUS
    <3> HIDE DEF parts
    <3>3. Told(FlattenSeq(seqs), channel) = FlattenSeq(parts)
      BY <1>12, <3>1, <3>2
    <3> QED
      BY <2>1, <3>3 DEF parts
  <2>2. CASE channel[1] = "reasoning"
    <3> DEFINE parts == bodies("thinking")
    <3>1. \A i \in 1 .. k : Told(seqs[i], channel) = parts[i]
      BY <1>7, <2>2
    <3>2. parts = [i \in 1 .. k |-> parts[i]]
      OBVIOUS
    <3> HIDE DEF parts
    <3>3. Told(FlattenSeq(seqs), channel) = FlattenSeq(parts)
      BY <1>12, <3>1, <3>2
    <3> QED
      BY <2>2, <3>3 DEF parts
  <2>3. CASE channel[1] = "call"
    <3> DEFINE parts == [i \in 1 .. k |-> CallsIn(called[i], channel[2])]
    <3>1. \A i \in 1 .. k : Told(seqs[i], channel) = parts[i]
      BY <1>7, <1>10, <2>3
    <3>2. parts = [i \in 1 .. k |-> parts[i]]
      OBVIOUS
    <3>4. FlattenSeq(parts) = CallsIn(FlattenSeq(called), channel[2])
      BY <1>11
    <3> HIDE DEF parts
    <3>3. Told(FlattenSeq(seqs), channel) = FlattenSeq(parts)
      BY <1>12, <3>1, <3>2
    <3> QED
      BY <2>3, <3>3, <3>4
  <2> QED
    BY <2>1, <2>2, <2>3, ChannelKinds
<1> HIDE DEF bodies
<1> QED
  BY <1>1, <1>2, <1>3, <1>8, <1>9, <1>11, <1>13

\* What the end of a response publishes says nothing on a channel.
LEMMA EndSays ==
  ASSUME NEW m
  PROVE  LET s == Anthropic!finishStreamDeltas(m) IN
         Bodied(s) /\ \A channel \in Channels : Told(s, channel) = <<>>
<1> DEFINE blocks == Anthropic!marshalProviderReasoning(m.content)
           reason == Anthropic!usageFromMessage(m).finish
           p == IfAny(blocks, StateDelta(<<>>, blocks))
           q == IF reason = Unset THEN <<>> ELSE <<FinishDelta(reason)>>
<1>0. <<>> \in Text /\ <<>> \o <<>> = <<>>
  BY TextJoins
<1>1. Anthropic!finishStreamDeltas(m) = p \o q
  BY SameDeltas DEF Anthropic!finishStreamDeltas
<1>2. p \in {<<>>, <<StateDelta(<<>>, blocks)>>} /\ q \in {<<>>, <<FinishDelta(reason)>>}
  BY DEF IfAny
<1>3. Sequential(p) /\ Bodied(p) /\ \A channel \in Channels : Told(p, channel) = <<>>
  <2> DEFINE x == StateDelta(<<>>, blocks)
  <2>1. Sequential(<<x>>) /\ Bodied(<<x>>) /\ \A channel \in Channels : Told(<<x>>, channel) = <<>>
    BY <1>0, SilentDeltas
  <2> HIDE DEF x, p
  <2> QED
    BY <1>2, <2>1, NoneSeq, ToldNone DEF x
<1>4. Sequential(q) /\ Bodied(q) /\ \A channel \in Channels : Told(q, channel) = <<>>
  <2> DEFINE x == FinishDelta(reason)
  <2>1. Sequential(<<x>>) /\ Bodied(<<x>>) /\ \A channel \in Channels : Told(<<x>>, channel) = <<>>
    BY SilentDeltas
  <2> HIDE DEF x, q
  <2> QED
    BY <1>2, <2>1, NoneSeq, ToldNone DEF x
<1> HIDE DEF p, q
<1>5. Bodied(p \o q) /\ \A channel : Told(p \o q, channel) = Told(p, channel) \o Told(q, channel)
  BY <1>3, <1>4, ToldConcat
<1> QED
  BY <1>0, <1>1, <1>3, <1>4, <1>5

\* Steps of the Anthropic driver that hear nothing and deliver nothing.
LEMMA AnthropicToldUntouched ==
  ASSUME CallInv, ToldInv, UNCHANGED openaiVars,
         \/ Anthropic!anthropicStart \/ Anthropic!streamFails \/ Anthropic!messageFails
         \/ Anthropic!finishStream \/ \E ok \in BOOLEAN : Anthropic!closeStream(ok)
  PROVE  ToldInv'
<1>1. /\ UNCHANGED <<call, n, deltas, chunk, reasoning, capture>> /\ FromAnthropic
      /\ pc \in {"start", "reading", "content", "close"}
      /\ pc' \in {"done", "reading", "close"}
      /\ pc' = "reading" => pc = "start"
      /\ err' = {} => err = {}
      /\ pending' = pending \/ (pc \in {"reading", "content"} /\ pending = <<>> /\ pending' =
           IF HasCallback THEN Anthropic!finishStreamDeltas(message) ELSE <<>>)
  BY DEF Anthropic!anthropicStart, Anthropic!streamFails, Anthropic!messageFails, Anthropic!finishStream,
         Anthropic!closeStream, Anthropic!anthropicVars, Anthropic!Reads, openaiVars, CallInv, PlaceInv, AnthropicInv
<1>2. /\ answer'.text = answer.text /\ answer'.reasoning = answer.reasoning
      /\ answer'.calls = answer.calls /\ answer'.blocks = answer.blocks
  <2>1. answer' = answer \/ answer' = [answer EXCEPT !.usage = IF Streams THEN <<2, 0>> ELSE @]
    BY DEF Anthropic!anthropicStart, Anthropic!streamFails, Anthropic!messageFails, Anthropic!finishStream,
         Anthropic!closeStream
  <2> QED
    BY <2>1 DEF CallInv, ShapeInv
<1>3. Bodied(pending') /\ \A channel \in Channels : Told(pending', channel) = Told(pending, channel)
  BY <1>1, EndSays, ToldNone DEF ToldInv, TextInv
<1>4. \A channel \in Channels : Left(channel)' = Left(channel)
  BY <1>1, <1>3 DEF Left, Due
<1>5. pc = "start" => pending = <<>>
  BY DEF CallInv, PlaceInv
<1>6. ~HasCallback => pending' = <<>>
  BY <1>1 DEF ToldInv, FlowInv
<1>7. ChunkText(chunk') /\ reasoning'.text \in Text /\ capture'.reasoning \in Text
  BY <1>1 DEF ToldInv, TextInv
<1>8. pc' = "reading" /\ ~Streams => pc \in {"start", "reading"} /\ pending' = <<>>
  BY <1>1, <1>5
<1> QED
  BY <1>1, <1>2, <1>3, <1>4, <1>6, <1>7, <1>8, ToldKeeps

\* The callback gets the next delta.
LEMMA AnthropicToldDelivers ==
  ASSUME CallInv, ToldInv, UNCHANGED openaiVars, NEW ok \in BOOLEAN, Anthropic!anthropicDelta(ok)
  PROVE  ToldInv'
<1>1. /\ pending # <<>> /\ err = {} /\ deltas' = Append(deltas, Head(pending))
      /\ UNCHANGED <<call, n, answer, chunk, reasoning, capture>>
      /\ \/ pending' = Tail(pending) /\ UNCHANGED <<err, pc>>
         \/ pending' = <<>> /\ err' # {} /\ pc' \notin {"start", "reading"}
  BY DEF Anthropic!anthropicDelta, openaiVars, CallInv, PlaceInv
<1>2. reasoning'.text \in Text /\ capture'.reasoning \in Text
  BY <1>1 DEF ToldInv, TextInv
<1> QED
  BY <1>1, <1>2, ToldDelivers

\* An event of the stream is left to tell.
LEMMA AnthropicToldEvent ==
  ASSUME CallInv, UsageInv, ToldInv, ContentInv, IndexInv, UNCHANGED openaiVars, Anthropic!Reads, Streams,
         NEW e \in Anthropic!ProtocolEvents \cup Anthropic!ProtocolErrors, Anthropic!nextEvent(e)
  PROVE  ToldInv'
<1>0. /\ FromAnthropic /\ pc = "reading" /\ pending = <<>> /\ err = {}
      /\ UNCHANGED <<call, deltas, chunk, reasoning, capture>> /\ n \in Nat /\ n' = n + 1
      /\ pc' \in {"reading", "close"}
      /\ message.content \in Seq(ContentParts)
      /\ ChunkText(chunk) /\ reasoning.text \in Text
  BY DEF Anthropic!nextEvent, Anthropic!Reads, openaiVars, CallInv, PlaceInv, ToldInv, TextInv, ContentInv
<1>1. n' \in Nat /\ Len(message.content) \in Nat
  BY <1>0
<1>2. EventShape(e)
  BY <1>0, EventShaped
<1>3. CASE Anthropic!AccumulateFails(message, e) \/ (HasCallback /\ Anthropic!EmitFails(e))
  <2>1. answer' = answer /\ pending' = <<>> /\ err' # {}
    BY <1>0, <1>3 DEF Anthropic!nextEvent
  <2>2. ASSUME NEW channel \in Channels
        PROVE  \E y \in Text : SentOn(channel)' = SentOn(channel) \o y /\ (err' = {} => Left(channel)' = y)
    <3>1. SentOn(channel)' = SentOn(channel)
      BY <2>1 DEF SentOn
    <3>2. SentOn(channel) \in Text
      BY FlowTyped DEF ToldInv
    <3>3. SentOn(channel) \o <<>> = SentOn(channel) /\ <<>> \in Text
      BY <3>2, TextJoins
    <3> QED
      BY <2>1, <3>1, <3>3
  <2>3. /\ answer'.text \in Text /\ answer'.reasoning \in Text /\ answer'.calls \in Seq(CallParts)
        /\ Bodied(pending')
    BY <2>1, ToldNone DEF ToldInv, TextInv
  <2> QED
    BY <1>0, <1>1, <2>1, <2>2, <2>3, ToldHears
<1>4. CASE ~Anthropic!AccumulateFails(message, e) /\ ~HasCallback
  <2>1. answer' = (IF Anthropic!EmitFails(e) THEN answer ELSE Anthropic!SentEvent(e)) /\ pending' = <<>> /\ err' = {}
        /\ pc' = "reading"
    BY <1>0, <1>4 DEF Anthropic!nextEvent
  <2>2. answer'.text \in Text /\ answer'.reasoning \in Text /\ answer'.calls \in Seq(CallParts)
    <3>1. CASE Anthropic!EmitFails(e)
      BY <2>1, <3>1 DEF ToldInv, TextInv
    <3>2. CASE ~Anthropic!EmitFails(e)
      BY <1>1, <1>2, <1>4, <2>1, <3>2, EventText DEF CallInv, ToldInv
    <3> QED
      BY <3>1, <3>2
  <2>3. Bodied(pending')
    BY <2>1, ToldNone
  <2> QED
    BY <1>0, <1>1, <1>4, <2>1, <2>2, <2>3, ToldHears
<1>5. CASE ~Anthropic!AccumulateFails(message, e) /\ ~Anthropic!EmitFails(e) /\ HasCallback
  <2> DEFINE s == Anthropic!emitEventDelta(e)
  <2>1. answer' = Anthropic!SentEvent(e) /\ pending' = s /\ err' = {} /\ pc' = "reading"
    BY <1>0, <1>5 DEF Anthropic!nextEvent
  <2>2. e.type = "content_block_delta" /\ e.kind = "input_json_delta" =>
          toolCallIndexes[e.index] = Anthropic!ToolCallOrdinal(message.content, e.index)
    BY <1>0, <1>5 DEF Anthropic!EmitFails, IndexInv
  <2> HIDE DEF s
  <2>3. Adds(answer', s)
    BY <1>1, <1>2, <1>5, <2>1, <2>2, EventSays DEF CallInv, ToldInv, s
  <2>4. ASSUME NEW channel \in Channels
        PROVE  \E y \in Text : SentOn(channel)' = SentOn(channel) \o y /\ (err' = {} => Left(channel)' = y)
    <3> DEFINE y == Told(s, channel)
    <3>1. Sequential(s)
      BY EventDeltas DEF s
    <3>2. y \in Text
      BY <2>3, <3>1, ToldParts DEF Adds
    <3>3. SentOn(channel)' = SentOn(channel) \o y
      BY <2>3, ChannelKinds DEF Adds, SentOn
    <3>4. Left(channel)' = y \o <<>>
      BY <2>1 DEF Left, Due
    <3> HIDE DEF y
    <3> QED
      BY <3>2, <3>3, <3>4, TextJoins
  <2>5. /\ answer'.text \in Text /\ answer'.reasoning \in Text /\ answer'.calls \in Seq(CallParts)
        /\ Bodied(pending')
    BY <2>1, <2>3 DEF Adds
  <2> QED
    BY <1>0, <1>1, <1>5, <2>1, <2>4, <2>5, ToldHears
<1> QED
  BY <1>3, <1>4, <1>5

\* A whole message is left to tell.
LEMMA AnthropicToldMessage ==
  ASSUME CallInv, ToldInv, UNCHANGED openaiVars, Anthropic!Reads, ~Streams,
         NEW m \in Anthropic!Messages, Anthropic!messageArrives(m)
  PROVE  ToldInv'
<1>0. /\ FromAnthropic /\ pc = "reading" /\ pending = <<>> /\ err = {} /\ err' = {} /\ pc' = "content"
      /\ UNCHANGED <<call, n, deltas, chunk, reasoning, capture>>
      /\ pending' = IF HasCallback THEN Anthropic!emitMessageContent(m.content) ELSE <<>>
      /\ answer'.text = Anthropic!BodyOf(m.content, {"text"})
      /\ answer'.reasoning = Anthropic!BodyOf(m.content, {"thinking"})
      /\ answer'.calls = Anthropic!CallsSent(m.content)
  BY DEF Anthropic!messageArrives, Anthropic!Reads, openaiVars, CallInv, PlaceInv
<1> DEFINE c == m.content
           s == Anthropic!emitMessageContent(c)
<1>1. /\ Bodied(s)
      /\ answer'.text \in Text /\ answer'.reasoning \in Text /\ answer'.calls \in Seq(CallParts)
      /\ \A channel \in Channels : 
           /\ channel[1] = "text" => Told(s, channel) = answer'.text
           /\ channel[1] = "reasoning" => Told(s, channel) = answer'.reasoning
           /\ channel[1] = "call" => Told(s, channel) = CallsIn(answer'.calls, channel[2])
  BY <1>0, MessageParts, MessageSays
<1>2. n' \in Nat /\ ChunkText(chunk') /\ reasoning'.text \in Text
  BY <1>0 DEF ToldInv, TextInv
<1>3. answer.text = <<>> /\ answer.reasoning = <<>> /\ answer.calls = <<>>
  BY <1>0 DEF ToldInv, FreshInv
<1>4. pending' = IF HasCallback THEN s ELSE <<>>
  BY <1>0
<1> HIDE DEF s
<1>5. Bodied(pending')
  BY <1>1, <1>4, ToldNone
<1>6. ASSUME HasCallback, NEW channel \in Channels
      PROVE  \E y \in Text : SentOn(channel)' = SentOn(channel) \o y /\ (err' = {} => Left(channel)' = y)
  <2> DEFINE y == Told(s, channel)
  <2>1. SentOn(channel) = <<>>
    BY <1>3, CallsFew, ChannelKinds DEF SentOn
  <2>2. SentOn(channel)' = y
    BY <1>1, ChannelKinds DEF SentOn
  <2>3. y \in Text
    <3>1. CallsIn(answer'.calls, channel[2]) \in Text
      BY <1>1, CallsSum
    <3> QED
      BY <1>1, <3>1, ChannelKinds
  <2>4. Left(channel)' = y \o <<>>
    BY <1>0, <1>4, <1>6 DEF Left, Due
  <2> HIDE DEF y
  <2> QED
    BY <2>1, <2>2, <2>3, <2>4, TextJoins
<1> QED
  BY <1>0, <1>1, <1>2, <1>4, <1>5, <1>6, ToldHears

\* Every step of the Anthropic driver.
LEMMA AnthropicTold ==
  ASSUME CallInv, UsageInv, ToldInv, ContentInv, IndexInv, Anthropic!AnthropicNext, UNCHANGED openaiVars
  PROVE  ToldInv'
<1>1. CASE \/ Anthropic!anthropicStart \/ Anthropic!streamFails \/ Anthropic!messageFails
           \/ Anthropic!finishStream \/ \E ok \in BOOLEAN : Anthropic!closeStream(ok)
  BY <1>1, AnthropicToldUntouched
<1>2. CASE \E ok \in BOOLEAN : Anthropic!anthropicDelta(ok)
  BY <1>2, AnthropicToldDelivers
<1>3. CASE Anthropic!Reads /\ Streams /\ n < MaxEvents
             /\ \E e \in Anthropic!ProtocolEvents \cup Anthropic!ProtocolErrors : Anthropic!nextEvent(e)
  BY <1>3, AnthropicToldEvent
<1>4. CASE Anthropic!Reads /\ ~Streams /\ \E m \in Anthropic!Messages : Anthropic!messageArrives(m)
  BY <1>4, AnthropicToldMessage
<1> QED
  BY <1>1, <1>2, <1>3, <1>4 DEF Anthropic!AnthropicNext

-----------------------------------------------------------------------------
(* The envelopes of reasoning. *)

\* The envelopes among some deltas, and among those delivered or pending.
Envelopes(s) == {s[i] : i \in {j \in 1 .. Len(s) : s[j].kind = "state"}}
AllEnvelopes == Envelopes(deltas) \cup Envelopes(pending)

\* Envelopes of few deltas.
LEMMA FewEnvelopes ==
  /\ Envelopes(<<>>) = {}
  /\ \A x : Envelopes(<<x>>) = IF x.kind = "state" THEN {x} ELSE {}
  /\ \A s : Envelopes(s) = {} <=> "state" \notin Kinds(s)
<1>1. Envelopes(<<>>) = {}
  BY NoneSeq DEF Envelopes
<1>2. ASSUME NEW x PROVE Envelopes(<<x>>) = IF x.kind = "state" THEN {x} ELSE {}
  <2> DEFINE s == <<x>>
  <2>1. Len(s) = 1 /\ s[1] = x
    BY OneSeq
  <2> HIDE DEF s
  <2>2. Envelopes(s) = IF x.kind = "state" THEN {x} ELSE {}
    BY <2>1 DEF Envelopes
  <2> QED
    BY <2>2 DEF s
<1>3. \A s : Envelopes(s) = {} <=> "state" \notin Kinds(s)
  BY DEF Envelopes, Kinds
<1> QED
  BY <1>1, <1>2, <1>3

\* Envelopes of two batches.
LEMMA JoinedEnvelopes ==
  ASSUME NEW s, NEW t, Sequential(s), Sequential(t)
  PROVE  Envelopes(s \o t) = Envelopes(s) \cup Envelopes(t)
<1> DEFINE u == s \o t
<1>1. /\ Len(u) = Len(s) + Len(t)
      /\ \A i \in 1 .. Len(s) : u[i] = s[i]
      /\ \A i \in 1 .. Len(t) : u[Len(s) + i] = t[i]
  BY ConcatSeq
<1>2. Len(s) \in Nat /\ Len(t) \in Nat
  BY SeqLen
<1> HIDE DEF u
<1>3. ASSUME NEW x \in Envelopes(u) PROVE x \in Envelopes(s) \cup Envelopes(t)
  <2>1. PICK i \in 1 .. Len(u) : u[i].kind = "state" /\ x = u[i]
    BY DEF Envelopes
  <2>2. CASE i <= Len(s)
    <3>1. i \in 1 .. Len(s)
      BY <1>1, <1>2, <2>1, <2>2
    <3> QED
      BY <1>1, <2>1, <3>1 DEF Envelopes
  <2>3. CASE ~(i <= Len(s))
    <3>1. i - Len(s) \in 1 .. Len(t) /\ Len(s) + (i - Len(s)) = i
      BY <1>1, <1>2, <2>1, <2>3
    <3>2. u[i] = t[i - Len(s)]
      BY <1>1, <3>1
    <3> QED
      BY <2>1, <3>1, <3>2 DEF Envelopes
  <2> QED
    BY <2>2, <2>3
<1>4. ASSUME NEW x \in Envelopes(s) PROVE x \in Envelopes(u)
  <2>1. PICK i \in 1 .. Len(s) : s[i].kind = "state" /\ x = s[i]
    BY DEF Envelopes
  <2>2. i \in 1 .. Len(u) /\ u[i] = s[i]
    BY <1>1, <1>2, <2>1
  <2> QED
    BY <2>1, <2>2 DEF Envelopes
<1>5. ASSUME NEW x \in Envelopes(t) PROVE x \in Envelopes(u)
  <2>1. PICK i \in 1 .. Len(t) : t[i].kind = "state" /\ x = t[i]
    BY DEF Envelopes
  <2>2. Len(s) + i \in 1 .. Len(u) /\ u[Len(s) + i] = t[i]
    BY <1>1, <1>2, <2>1
  <2> QED
    BY <2>1, <2>2 DEF Envelopes
<1> QED
  BY <1>3, <1>4, <1>5 DEF u

\* Delivering a delta moves it.
LEMMA MovedEnvelopes ==
  ASSUME CallInv, pending # <<>>, deltas' = Append(deltas, Head(pending)), pending' = Tail(pending)
  PROVE  AllEnvelopes' = AllEnvelopes
<1> DEFINE x == Head(pending)
           s == <<x>>
           t == Tail(pending)
<1>1. Sequential(pending) /\ Sequential(deltas) /\ Sequential(s) /\ Sequential(t)
  BY OneSeq, TailSeq DEF CallInv, ShapeInv, Orderly
<1>2. deltas' = deltas \o s
  <2>1. PICK S : deltas \in Seq(S)
    BY <1>1 DEF Sequential
  <2> QED
    BY <2>1
<1>3. pending = s \o t
  <2>1. PICK S : pending \in Seq(S)
    BY <1>1 DEF Sequential
  <2> QED
    BY <2>1
<1> HIDE DEF s, t
<1>4. Envelopes(deltas') = Envelopes(deltas) \cup Envelopes(s)
  BY <1>1, <1>2, JoinedEnvelopes
<1>5. Envelopes(pending) = Envelopes(s) \cup Envelopes(t)
  BY <1>1, <1>3, JoinedEnvelopes
<1> QED
  BY <1>4, <1>5 DEF AllEnvelopes, t

-----------------------------------------------------------------------------
(* What the Anthropic driver keeps for replay. *)

\* The reasoning blocks of the message, as the SDK keeps them.
Kept == Anthropic!marshalProviderReasoning(message.content)

AnthropicKept ==
  FromAnthropic /\ HasCallback /\ err = {} =>
  /\ answer.blocks = Anthropic!ReasoningSent(message.content)
  /\ pc \in {"close", "done"} => AllEnvelopes = IF Kept = <<>> THEN {} ELSE {StateDelta(<<>>, Kept)}

\* The end of a response publishes what is kept, if there is any.
LEMMA EndEnvelopes ==
  ASSUME NEW m
  PROVE  LET blocks == Anthropic!marshalProviderReasoning(m.content) IN
         Envelopes(Anthropic!finishStreamDeltas(m)) = IF blocks = <<>> THEN {} ELSE {StateDelta(<<>>, blocks)}
<1> DEFINE blocks == Anthropic!marshalProviderReasoning(m.content)
           reason == Anthropic!usageFromMessage(m).finish
           x == StateDelta(<<>>, blocks)
           y == FinishDelta(reason)
           p == IfAny(blocks, x)
           q == IF reason = Unset THEN <<>> ELSE <<y>>
<1>1. Anthropic!finishStreamDeltas(m) = p \o q
  BY SameDeltas DEF Anthropic!finishStreamDeltas
<1>2. x.kind = "state" /\ y.kind = "finish"
  BY DEF StateDelta, FinishDelta, Delta
<1> HIDE DEF x, y, blocks, reason
<1>3. Sequential(p) /\ Envelopes(p) = IF blocks = <<>> THEN {} ELSE {x}
  BY <1>2, FewEnvelopes, NoneSeq, OneSeq DEF IfAny
<1>4. Sequential(q) /\ Envelopes(q) = {}
  BY <1>2, FewEnvelopes, NoneSeq, OneSeq
<1> HIDE DEF p, q
<1>5. Envelopes(p \o q) = Envelopes(p) \cup Envelopes(q)
  BY <1>3, <1>4, JoinedEnvelopes
<1> QED
  BY <1>1, <1>3, <1>4, <1>5 DEF x, blocks

\* Every step of the Anthropic driver keeps what is kept.
LEMMA AnthropicKeeps ==
  ASSUME CallInv, UsageInv, ToldInv, ContentInv, AnthropicKept, Anthropic!AnthropicNext
  PROVE  AnthropicKept'
<1>1. CASE Anthropic!anthropicStart
  <2> SUFFICES ASSUME err' = {} PROVE AnthropicKept'
    BY DEF AnthropicKept
  <2>1. /\ FromAnthropic /\ call' = call /\ pc = "start" /\ err = {} /\ pc' = "reading"
        /\ message' = [Anthropic!NoMessage EXCEPT !.prompt = IF Streams THEN 2 ELSE 0]
        /\ answer' = [answer EXCEPT !.usage = IF Streams THEN <<2, 0>> ELSE @]
    BY <1>1 DEF Anthropic!anthropicStart, CallInv, PlaceInv
  <2>2. answer'.blocks = answer.blocks
    BY <2>1 DEF CallInv, ShapeInv
  <2>3. message'.content = message.content
    BY <2>1 DEF ContentInv, Anthropic!NoMessage
  <2>4. Anthropic!ReasoningSent(message'.content) = Anthropic!ReasoningSent(message.content)
    BY <2>3
  <2> QED
    BY <2>1, <2>2, <2>4 DEF AnthropicKept
<1>2. ASSUME Anthropic!Reads, NEW e, Anthropic!nextEvent(e)
      PROVE  AnthropicKept'
  <2> SUFFICES ASSUME err' = {}, HasCallback PROVE AnthropicKept'
    BY <1>2 DEF AnthropicKept, Anthropic!nextEvent
  <2>1. call' = call /\ pc' = "reading" /\ answer' = Anthropic!SentEvent(e)
    BY <1>2 DEF Anthropic!nextEvent, Anthropic!Reads
  <2>2. answer'.blocks = Anthropic!ReasoningSent(message'.content)
    BY <2>1 DEF Anthropic!SentEvent, CallInv, ShapeInv
  <2> QED
    BY <2>1, <2>2 DEF AnthropicKept
<1>3. ASSUME NEW m, Anthropic!messageArrives(m)
      PROVE  AnthropicKept'
  <2>1. pc' = "content" /\ message' = m
    BY <1>3 DEF Anthropic!messageArrives
  <2>2. answer'.blocks = Anthropic!ReasoningSent(m.content)
    BY <1>3 DEF Anthropic!messageArrives
  <2> QED
    BY <2>1, <2>2 DEF AnthropicKept
<1>4. ASSUME NEW ok \in BOOLEAN, Anthropic!anthropicDelta(ok)
      PROVE  AnthropicKept'
  <2> SUFFICES ASSUME err' = {} PROVE AnthropicKept'
    BY DEF AnthropicKept
  <2>1. /\ UNCHANGED <<call, answer, message, pc, err>> /\ pending # <<>>
        /\ deltas' = Append(deltas, Head(pending)) /\ pending' = Tail(pending)
    BY <1>4 DEF Anthropic!anthropicDelta, Anthropic!anthropicVars
  <2>2. AllEnvelopes' = AllEnvelopes
    BY <2>1, MovedEnvelopes
  <2>3. Kept' = Kept
    BY <2>1 DEF Kept
  <2> QED
    BY <2>1, <2>2, <2>3 DEF AnthropicKept
<1>5. ASSUME NEW ok \in BOOLEAN, Anthropic!closeStream(ok)
      PROVE  AnthropicKept'
  <2>1. /\ UNCHANGED <<call, answer, message, deltas, pending>> /\ pc = "close" /\ (err' = {} => err = {})
    BY <1>5 DEF Anthropic!closeStream, Anthropic!anthropicVars
  <2>2. AllEnvelopes' = AllEnvelopes /\ Kept' = Kept
    BY <2>1 DEF AllEnvelopes, Kept
  <2> QED
    BY <2>1, <2>2 DEF AnthropicKept
<1>6. CASE Anthropic!streamFails \/ Anthropic!messageFails
  <2>1. err' # {}
    BY <1>6 DEF Anthropic!streamFails, Anthropic!messageFails
  <2> QED
    BY <2>1 DEF AnthropicKept
<1>7. CASE Anthropic!finishStream
  <2> SUFFICES ASSUME HasCallback, err' = {} PROVE AnthropicKept'
    BY <1>7 DEF AnthropicKept, Anthropic!finishStream
  <2>1. /\ FromAnthropic /\ UNCHANGED <<call, err, answer, message, deltas>> /\ pc \in {"reading", "content"}
        /\ pending' = Anthropic!finishStreamDeltas(message)
    BY <1>7 DEF Anthropic!finishStream, Anthropic!anthropicVars
  <2>2. "state" \notin Kinds(deltas)
    BY <2>1 DEF CallInv, AnthropicInv
  <2>3. Envelopes(deltas) = {}
    BY <2>2, FewEnvelopes
  <2>4. AllEnvelopes' = IF Kept = <<>> THEN {} ELSE {StateDelta(<<>>, Kept)}
    BY <2>1, <2>3, EndEnvelopes DEF AllEnvelopes, Kept
  <2>5. Kept' = Kept
    BY <2>1 DEF Kept
  <2> QED
    BY <2>1, <2>4, <2>5 DEF AnthropicKept
<1> QED
  BY <1>1, <1>2, <1>3, <1>4, <1>5, <1>6, <1>7 DEF Anthropic!AnthropicNext

-----------------------------------------------------------------------------
(* What the Z.ai driver keeps for replay. *)

\* The channel of reasoning.
Reasoned == <<"reasoning", 0>>

\* The capture has all the reasoning delivered, and published it at most once,
\* when no more can come.
ZaiKept ==
  Zai /\ HasCallback /\ err = {} =>
  /\ capture.reasoning = Told(deltas, Reasoned)
  /\ AllEnvelopes = IF capture.published THEN {StateDelta(capture.reasoning, <<>>)} ELSE {}
  /\ capture.published => /\ capture.reasoning # <<>>
                          /\ "reasoning" \notin Kinds(pending)
                          /\ Seen("finish") \/ pc \in {"flush", "done"}
  /\ pc = "done" => capture.published \/ capture.reasoning = <<>>

\* A step that delivers nothing, captures nothing and publishes no envelope.
LEMMA ZaiStays ==
  ASSUME ZaiKept, Zai, HasCallback, err = {}, UNCHANGED <<call, deltas, capture>>,
         Envelopes(pending') = Envelopes(pending),
         capture.published => /\ "reasoning" \notin Kinds(pending')
                              /\ (Seen("finish"))' \/ pc' \in {"flush", "done"},
         pc' = "done" => capture.published \/ capture.reasoning = <<>>
  PROVE  ZaiKept'
<1>1. AllEnvelopes' = AllEnvelopes
  BY DEF AllEnvelopes
<1>2. Told(deltas, Reasoned)' = Told(deltas, Reasoned)
  OBVIOUS
<1> QED
  BY <1>1, <1>2 DEF ZaiKept

\* Every step of the Z.ai driver keeps what is kept.
LEMMA ZaiKeeps ==
  ASSUME CallInv, ToldInv, ZaiKept, Zai, HasCallback, OpenAI!OpenAINext, err' = {}
  PROVE  ZaiKept'
<1>0. \A state : OpenAI!emit(state) = <<>>
  BY DEF OpenAI!emit, OpenAI!KeepsReasoning
<1>1. CASE OpenAI!openaiStart \/ OpenAI!endOfStream \/ OpenAI!completionFails
           \/ OpenAI!finishResponse \/ OpenAI!returnError
  <2>1. /\ UNCHANGED <<call, deltas, pending, capture>> /\ pc' # "done" /\ err = {}
        /\ pc \in {"start", "reading", "finish", "return"}
    BY <1>1, ErrorKept DEF OpenAI!openaiStart, OpenAI!endOfStream, OpenAI!completionFails, OpenAI!finishResponse,
       OpenAI!returnError, OpenAI!openaiVars, OpenAI!Reads, CallInv, PlaceInv
  <2>2. (Seen("finish"))' <=> Seen("finish")
    BY <2>1
  <2> QED
    BY <2>1, <2>2, ZaiStays DEF ZaiKept
<1>2. ASSUME OpenAI!Reads, Streams, NEW c, NEW b, OpenAI!nextChunk(c, b)
      PROVE  ZaiKept'
  <2>1. UNCHANGED <<call, deltas, capture>> /\ pc = "reading" /\ pending = <<>> /\ pending' = <<>> /\ pc' = "publish"
    BY <1>0, <1>2 DEF OpenAI!nextChunk, OpenAI!consumeChunkReasoning, OpenAI!Reads, OpenAI!ConsumeFails, OpenAI!KeepsReasoning
  <2>2. ((Seen("finish"))' <=> Seen("finish")) /\ Kinds(pending') = {} /\ err = {}
    BY <2>1, NoneOrderly DEF CallInv, PlaceInv
  <2> QED
    BY <2>1, <2>2, ZaiStays DEF ZaiKept
<1>3. ASSUME OpenAI!Reads, ~Streams, NEW c, OpenAI!completionArrives(c)
      PROVE  ZaiKept'
  <2>1. /\ UNCHANGED <<call, deltas, capture>> /\ pc = "reading" /\ pending = <<>> /\ pc' = "consume" /\ err = {}
        /\ pending' = IfAny(c.reasoning, ReasoningDelta(c.reasoning))
    BY <1>3, SameDeltas DEF OpenAI!completionArrives, OpenAI!Reads, CallInv, PlaceInv
  <2>2. ~capture.published
    BY <1>3, <2>1 DEF ZaiKept, CallInv, OpenAIInv
  <2>3. Envelopes(pending) = {} /\ Envelopes(pending') = {}
    <3> DEFINE d == ReasoningDelta(c.reasoning)
    <3>1. d.kind # "state"
      BY DEF ReasoningDelta, Delta
    <3>2. pending' = <<>> \/ pending' = <<d>>
      BY <2>1 DEF IfAny
    <3> HIDE DEF d
    <3> QED
      BY <2>1, <3>1, <3>2, FewEnvelopes
  <2> QED
    BY <2>1, <2>2, <2>3, ZaiStays
<1>4. CASE OpenAI!publishCompletion
  <2>1. UNCHANGED <<call, deltas, capture>> /\ pc = "consume" /\ pending = <<>> /\ pending' = <<>> /\ pc' = "publish" /\ err = {}
    BY <1>0, <1>4 DEF OpenAI!publishCompletion, OpenAI!ConsumeFails, OpenAI!KeepsReasoning, CallInv, PlaceInv
  <2>2. ((Seen("finish"))' <=> Seen("finish")) /\ Kinds(pending') = {}
    BY <2>1, NoneOrderly
  <2> QED
    BY <2>1, <2>2, ZaiStays DEF ZaiKept
<1>5. CASE OpenAI!publishChunk
  <2>1. /\ UNCHANGED <<call, deltas, capture>> /\ pc = "publish" /\ pending = <<>> /\ err = {}
        /\ pending' = OpenAI!deltasFromChunk(chunk, refused) /\ pc' \in {"reading", "finish"}
    BY <1>5 DEF OpenAI!publishChunk, CallInv, PlaceInv
  <2>2. Envelopes(pending') = {} /\ Envelopes(pending) = {}
    <3>1. "state" \notin Kinds(OpenAI!deltasFromChunk(chunk, refused))
      BY ChunkDeltas DEF CallInv, ShapeInv, ChunkShape
    <3> QED
      BY <2>1, <3>1, FewEnvelopes
  <2>3. ASSUME capture.published PROVE "reasoning" \notin Kinds(pending') /\ (Seen("finish"))'
    <3>1. Seen("finish") /\ "finish" \in Kinds(deltas)
      BY <2>1, <2>3, NoneOrderly DEF ZaiKept
    <3>2. ~chunk.choice
      BY <2>1, <3>1 DEF CallInv, OpenAIInv
    <3>3. pending' = <<>>
      BY <2>1, <3>2 DEF OpenAI!deltasFromChunk
    <3> QED
      BY <2>1, <3>1, <3>3, NoneOrderly
  <2> QED
    BY <2>1, <2>2, <2>3, ZaiStays
<1>6. CASE OpenAI!captureFlush
  <2> DEFINE x == StateDelta(capture.reasoning, <<>>)
             s == <<x>>
  <2>1. /\ UNCHANGED <<call, deltas, pc, err>> /\ pending # <<>> /\ Head(pending).kind = "finish"
        /\ ~capture.published /\ capture.reasoning # <<>>
        /\ pending' = s \o pending
        /\ capture' = [capture EXCEPT !.published = TRUE]
    BY <1>6, SameDeltas DEF OpenAI!captureFlush, OpenAI!NeedsFlush
  <2>2. capture'.published /\ capture'.reasoning = capture.reasoning
    BY <2>1 DEF CallInv, ShapeInv
  <2>3. Orderly(pending) /\ Kinds(pending) = {"finish"}
    <3>1. Orderly(pending)
      BY DEF CallInv, ShapeInv
    <3> QED
      BY <2>1, <3>1, TailOrderly, NoneOrderly
  <2>4. x.kind = "state"
    BY DEF StateDelta, Delta
  <2>5. Orderly(s) /\ Kinds(s) = {"state"} /\ Envelopes(s) = {x}
    BY <2>4, OneOrderly, FewEnvelopes
  <2> HIDE DEF s
  <2>6. Kinds(pending') = {"state", "finish"}
    <3>1. "finish" \notin Kinds(s) /\ "state" \notin Kinds(pending)
      BY <2>3, <2>5
    <3>2. Kinds(s \o pending) = Kinds(s) \cup Kinds(pending)
      BY <2>3, <2>5, <3>1, ConcatOrderly
    <3> QED
      BY <2>1, <2>3, <2>5, <3>2
  <2>7. Envelopes(pending') = {x} \cup Envelopes(pending)
    BY <2>1, <2>3, <2>5, JoinedEnvelopes DEF Orderly
  <2>8. AllEnvelopes' = {x} /\ err = {}
    BY <2>1, <2>7 DEF AllEnvelopes, ZaiKept
  <2>9. capture'.reasoning = Told(deltas', Reasoned)
    BY <2>1, <2>2, <2>8 DEF ZaiKept
  <2> HIDE DEF x
  <2>10. AllEnvelopes' = {StateDelta(capture'.reasoning, <<>>)}
    BY <2>2, <2>8 DEF x
  <2>11. pc # "done"
    BY <2>1 DEF CallInv, PlaceInv
  <2> QED
    BY <2>1, <2>2, <2>6, <2>9, <2>10, <2>11 DEF ZaiKept
<1>7. ASSUME NEW ok \in BOOLEAN, OpenAI!openaiDelta(ok)
      PROVE  ZaiKept'
  <2> DEFINE d == Head(pending)
  <2>1. /\ UNCHANGED <<call, pc, err>> /\ pending # <<>> /\ deltas' = Append(deltas, d) /\ pending' = Tail(pending)
        /\ capture' = IF d.kind = "reasoning" THEN [capture EXCEPT !.reasoning = @ \o d.body] ELSE capture
    <3>1. err' = err \cup {"callback"} \/ (pending' = Tail(pending) /\ UNCHANGED <<err, pc>>)
      BY <1>7 DEF OpenAI!openaiDelta
    <3> QED
      BY <1>7, <3>1 DEF OpenAI!openaiDelta
  <2>2. /\ capture'.reasoning = IF d.kind = "reasoning" THEN capture.reasoning \o d.body ELSE capture.reasoning
        /\ capture'.published = capture.published
    BY <2>1 DEF CallInv, ShapeInv
  <2>3. AllEnvelopes' = AllEnvelopes
    BY <2>1, MovedEnvelopes
  <2>4. Sequential(deltas) /\ Bodied(deltas) /\ Sound(d)
    BY <2>1, ToldHead DEF CallInv, ShapeInv, Orderly, ToldInv, TextInv
  <2>5. /\ Kinds(pending) = {d.kind} \cup Kinds(Tail(pending)) /\ Kinds(deltas') = Kinds(deltas) \cup {d.kind}
    BY <2>1, <2>4, TailOrderly, AppendKinds DEF CallInv, ShapeInv
  <2> HIDE DEF d
  <2>6. Told(deltas', Reasoned) = Told(deltas, Reasoned) \o Part(d, Reasoned)
    BY <2>1, <2>4, ToldAppend
  <2>7. capture.reasoning = Told(deltas, Reasoned) /\ capture.reasoning \in Text
    BY <2>1 DEF ZaiKept, ToldInv, TextInv
  <2>8. Part(d, Reasoned) = IF d.kind = "reasoning" THEN d.body ELSE <<>>
    BY <2>4 DEF Part, Reasoned, Sound
  <2>9. capture'.reasoning = Told(deltas', Reasoned)
    BY <2>2, <2>6, <2>7, <2>8, TextJoins
  <2>10. ((Seen("finish"))' <=> Seen("finish"))
    BY <2>1, <2>5
  <2>11. capture.published => d.kind # "reasoning"
    BY <2>1, <2>5 DEF ZaiKept
  <2>12. pc # "done"
    BY <2>1 DEF CallInv, PlaceInv
  <2> QED
    BY <2>1, <2>2, <2>3, <2>5, <2>9, <2>10, <2>11, <2>12 DEF ZaiKept
<1>8. ASSUME NEW ok \in BOOLEAN, OpenAI!closeOpenAI(ok)
      PROVE  ZaiKept'
  <2>1. UNCHANGED <<call, deltas, capture>> /\ pending = <<>> /\ pending' = <<>> /\ pc' # "done" /\ err = {} /\ pc = "close"
    BY <1>0, <1>8 DEF OpenAI!closeOpenAI, OpenAI!openaiVars, CallInv, OpenAIInv
  <2>2. ((Seen("finish"))' <=> Seen("finish")) /\ Kinds(pending') = {}
    BY <2>1, NoneOrderly
  <2> QED
    BY <2>1, <2>2, ZaiStays DEF ZaiKept
<1>9. CASE OpenAI!flush
  <2>1. UNCHANGED <<call, deltas, err>> /\ pc = "flush" /\ pending = <<>>
    BY <1>9 DEF OpenAI!flush
  <2>2. CASE OpenAI!NeedsFlush
    <3> DEFINE x == StateDelta(capture.reasoning, <<>>)
    <3>1. /\ pending' = <<x>> /\ pc' = pc /\ ~capture.published /\ capture.reasoning # <<>>
          /\ capture' = [capture EXCEPT !.published = TRUE]
      BY <1>9, <2>2, SameDeltas DEF OpenAI!flush, OpenAI!NeedsFlush
    <3>2. capture'.published /\ capture'.reasoning = capture.reasoning
      BY <3>1 DEF CallInv, ShapeInv
    <3>3. x.kind = "state"
      BY DEF StateDelta, Delta
    <3> HIDE DEF x
    <3>4. Envelopes(pending') = {x} /\ Kinds(pending') = {"state"}
      BY <3>1, <3>3, FewEnvelopes, OneOrderly
    <3>5. AllEnvelopes' = {x}
      BY <2>1, <3>1, <3>4, FewEnvelopes DEF AllEnvelopes, ZaiKept
    <3> QED
      BY <2>1, <3>1, <3>2, <3>4, <3>5 DEF ZaiKept, x
  <2>3. CASE ~OpenAI!NeedsFlush
    <3>1. UNCHANGED <<pending, capture>> /\ pc' = "done"
      BY <1>9, <2>3 DEF OpenAI!flush
    <3>2. capture.published \/ capture.reasoning = <<>>
      BY <2>3 DEF OpenAI!NeedsFlush
    <3> QED
      BY <2>1, <3>1, <3>2, ZaiStays DEF ZaiKept
  <2> QED
    BY <2>2, <2>3
<1>10. CASE OpenAI!Reads /\ Streams /\ n < MaxChunks /\ OpenAI!nextBlocks
  BY <1>2, <1>10 DEF OpenAI!nextBlocks
<1> QED
  BY <1>1, <1>2, <1>3, <1>4, <1>5, <1>6, <1>7, <1>8, <1>9, <1>10 DEF OpenAI!OpenAINext

-----------------------------------------------------------------------------
(* What the OpenAI driver keeps for replay: merging fragments of blocks. *)

\* One round of the loop in mergeReasoningField.
Merged(blocks, block, position) ==
  LET index == OpenAI!reasoningBlockIndex(blocks, block, position) IN
  IF index = 0 THEN Append(blocks, block)
  ELSE [blocks EXCEPT ![index] = OpenAI!mergeReasoningBlock(@, block)]

\* A round starts from what the round before left.
LEMMA MergeUnrolls ==
  ASSUME NEW before, NEW incoming, Len(incoming) \in Nat, NEW f,
         f = [position \in 0 .. Len(incoming) |->
                IF position = 0 THEN before ELSE Merged(f[position - 1], incoming[position], position)]
  PROVE  \E g : /\ g[0] = before
                /\ \A position \in 1 .. Len(incoming) :
                     g[position] = Merged(g[position - 1], incoming[position], position)
                /\ OpenAI!mergeReasoningField(before, incoming) = g[Len(incoming)]
<1> DEFINE m == Len(incoming)
           Solves(g) ==
             g = [position \in 0 .. m |->
                    IF position = 0 THEN before
                    ELSE LET blocks == g[position - 1]
                             block == incoming[position]
                             index == OpenAI!reasoningBlockIndex(blocks, block, position)
                         IN IF index = 0 THEN Append(blocks, block)
                            ELSE [blocks EXCEPT ![index] = OpenAI!mergeReasoningBlock(@, block)]]
           merged == CHOOSE g : Solves(g)
<1>1. Solves(f)
  BY DEF Merged
<1>2. Solves(merged)
  BY <1>1
<1>3. OpenAI!mergeReasoningField(before, incoming) = merged[m]
  BY DEF OpenAI!mergeReasoningField
<1> HIDE DEF merged, m
<1>4. merged = [position \in 0 .. m |->
                  IF position = 0 THEN before ELSE Merged(merged[position - 1], incoming[position], position)]
  BY <1>2 DEF Merged
<1>5. m \in Nat
  BY DEF m
<1> HIDE DEF Solves
<1>6. merged[0] = before
  BY <1>4, <1>5
<1>7. ASSUME NEW position \in 1 .. m
      PROVE  merged[position] = Merged(merged[position - 1], incoming[position], position)
  <2>1. position \in 0 .. m /\ position # 0
    BY <1>5
  <2> QED
    BY <1>4, <2>1
<1> QED
  BY <1>3, <1>6, <1>7 DEF m

\* Merging at most two blocks.
LEMMA MergesFew ==
  ASSUME NEW before
  PROVE  /\ OpenAI!mergeReasoningField(before, <<>>) = before
         /\ \A x : OpenAI!mergeReasoningField(before, <<x>>) = Merged(before, x, 1)
         /\ \A x, y : OpenAI!mergeReasoningField(before, <<x, y>>) = Merged(Merged(before, x, 1), y, 2)
<1>1. OpenAI!mergeReasoningField(before, <<>>) = before
  <2> DEFINE s == <<>>
             f == [position \in 0 .. 0 |-> before]
  <2>1. Len(s) = 0
    OBVIOUS
  <2> HIDE DEF s
  <2>2. f = [position \in 0 .. Len(s) |->
               IF position = 0 THEN before ELSE Merged(f[position - 1], s[position], position)]
    BY <2>1
  <2> HIDE DEF f
  <2>3. \E g : g[0] = before /\ OpenAI!mergeReasoningField(before, s) = g[Len(s)]
    BY <2>1, <2>2, MergeUnrolls
  <2> QED
    BY <2>1, <2>3 DEF s
<1>2. ASSUME NEW x PROVE OpenAI!mergeReasoningField(before, <<x>>) = Merged(before, x, 1)
  <2> DEFINE s == <<x>>
             z == Merged(before, x, 1)
             f == [position \in 0 .. 1 |-> IF position = 0 THEN before ELSE z]
  <2>1. Len(s) = 1 /\ s[1] = x
    OBVIOUS
  <2> HIDE DEF s, z
  <2>2. f = [position \in 0 .. Len(s) |->
               IF position = 0 THEN before ELSE Merged(f[position - 1], s[position], position)]
    <3>1. \A position \in 0 .. 1 : position = 0 \/ (position = 1 /\ f[position - 1] = before)
      OBVIOUS
    <3> QED
      BY <2>1, <3>1 DEF z
  <2> HIDE DEF f
  <2>3. PICK g : /\ g[0] = before
                 /\ \A position \in 1 .. Len(s) : g[position] = Merged(g[position - 1], s[position], position)
                 /\ OpenAI!mergeReasoningField(before, s) = g[Len(s)]
    <3>1. Len(s) \in Nat
      BY <2>1
    <3> QED
      BY <2>2, <3>1, MergeUnrolls
  <2>4. g[1] = Merged(g[0], s[1], 1)
    BY <2>1, <2>3
  <2> QED
    BY <2>1, <2>3, <2>4 DEF s, z
<1>3. ASSUME NEW x, NEW y
      PROVE  OpenAI!mergeReasoningField(before, <<x, y>>) = Merged(Merged(before, x, 1), y, 2)
  <2> DEFINE s == <<x, y>>
             z == Merged(before, x, 1)
             w == Merged(z, y, 2)
             f == [position \in 0 .. 2 |-> IF position = 0 THEN before ELSE IF position = 1 THEN z ELSE w]
  <2>1. Len(s) = 2 /\ s[1] = x /\ s[2] = y
    OBVIOUS
  <2> HIDE DEF s, z, w
  <2>2. f = [position \in 0 .. Len(s) |->
               IF position = 0 THEN before ELSE Merged(f[position - 1], s[position], position)]
    <3>1. \A position \in 0 .. 2 : \/ position = 0 \/ (position = 1 /\ f[position - 1] = before)
                                   \/ (position = 2 /\ f[position - 1] = z)
      OBVIOUS
    <3> QED
      BY <2>1, <3>1 DEF z, w
  <2> HIDE DEF f
  <2>3. PICK g : /\ g[0] = before
                 /\ \A position \in 1 .. 2 : g[position] = Merged(g[position - 1], s[position], position)
                 /\ OpenAI!mergeReasoningField(before, s) = g[2]
    BY <2>1, <2>2, MergeUnrolls
  <2>4. g[1] = Merged(g[0], s[1], 1) /\ g[2] = Merged(g[1], s[2], 2)
    BY <2>3
  <2> QED
    BY <2>1, <2>3, <2>4 DEF s, z, w
<1> QED
  BY <1>1, <1>2, <1>3

\* The labels of the i-th reasoning block.
Labelled(block, i) ==
  /\ block.type = "reasoning.text"
  /\ block.index = IF call.style = "index" THEN OpenAI!Labels[i] ELSE "none"
  /\ block.id = IF call.style = "id" THEN OpenAI!Labels[i] ELSE "none"

\* The blocks merged so far: two at most, each with the labels of its place.
Sorted(blocks) ==
  /\ blocks \in Seq(BlockParts) /\ Len(blocks) <= 2
  /\ \A i \in 1 .. Len(blocks) : Labelled(blocks[i], i)

\* A fragment belongs to the block of its number, or starts the next one.
LEMMA FragmentPlace ==
  ASSUME NEW blocks, Sorted(blocks), NEW b \in 1 .. 2, b <= Len(blocks) + 1,
         call.style \in {"index", "id", "position"}
  PROVE  OpenAI!reasoningBlockIndex(blocks, BlockFragment(b), IF call.style = "position" THEN b ELSE 1) =
           IF b <= Len(blocks) THEN b ELSE 0
<1> DEFINE f == BlockFragment(b)
           same == {i \in 1 .. Len(blocks) : OpenAI!sameReasoningBlock(blocks[i], f)}
           place == IF call.style = "position" THEN b ELSE 1
<1>0. Len(blocks) \in 0 .. 2
  <2>1. Len(blocks) \in Nat
    <3>1. \A S : \A s \in Seq(S) : Len(s) \in Nat
      OBVIOUS
    <3> QED
      BY <3>1 DEF Sorted
  <2>2. Len(blocks) <= 2
    BY DEF Sorted
  <2>3. \A k \in Nat : k <= 2 => k \in 0 .. 2
    OBVIOUS
  <2> QED
    BY <2>1, <2>2, <2>3
<1>1. /\ f.type \in {"reasoning.text", "none"}
      /\ f.index = IF call.style = "index" THEN OpenAI!Labels[b] ELSE "none"
      /\ f.id = IF call.style = "id" THEN OpenAI!Labels[b] ELSE "none"
  BY DEF BlockFragment, BlockType
<1>2. \A i \in 1 .. 2 : /\ OpenAI!Labels[i] \notin {"none", "null"}
                        /\ OpenAI!Labels[i] = OpenAI!Labels[b] <=> i = b
  <2>1. OpenAI!Labels[1] = "0" /\ OpenAI!Labels[2] = "1"
    BY DEF OpenAI!Labels
  <2>2. \A i \in 1 .. 2 : i = 1 \/ i = 2
    OBVIOUS
  <2> QED
    BY <2>1, <2>2
<1> HIDE DEF f
<1>3. ASSUME call.style \in {"index", "id"}, NEW i \in 1 .. Len(blocks)
      PROVE  OpenAI!sameReasoningBlock(blocks[i], f) <=> i = b
  <2>1. Labelled(blocks[i], i) /\ i \in 1 .. 2
    BY <1>0 DEF Sorted
  <2> QED
    BY <1>1, <1>2, <1>3, <2>1 DEF OpenAI!sameReasoningBlock, Labelled
<1>4. ASSUME call.style = "position", NEW i \in 1 .. Len(blocks)
      PROVE  ~OpenAI!sameReasoningBlock(blocks[i], f)
  BY <1>1, <1>4 DEF OpenAI!sameReasoningBlock
<1>5. OpenAI!reasoningBlockIndex(blocks, f, place) =
        IF same # {} THEN CHOOSE i \in same : \A j \in same : i <= j
        ELSE IF /\ f.index = "none" /\ f.id = "none"
                /\ place <= Len(blocks)
                /\ f.type = "none" \/ blocks[place].type = f.type
             THEN place ELSE 0
  BY DEF OpenAI!reasoningBlockIndex
<1>6. CASE call.style \in {"index", "id"} /\ b <= Len(blocks)
  <2>1. same = {b}
    BY <1>0, <1>3, <1>6
  <2>2. (CHOOSE i \in {b} : \A j \in {b} : i <= j) = b
    OBVIOUS
  <2> HIDE DEF same
  <2>3. OpenAI!reasoningBlockIndex(blocks, f, place) = b
    BY <1>5, <2>1, <2>2
  <2> QED
    BY <1>6, <2>3 DEF f, place
<1>7. CASE call.style \in {"index", "id"} /\ ~(b <= Len(blocks))
  <2>1. same = {}
    BY <1>0, <1>3, <1>7
  <2>2. ~(f.index = "none" /\ f.id = "none")
    BY <1>1, <1>2, <1>7
  <2> HIDE DEF same
  <2>3. OpenAI!reasoningBlockIndex(blocks, f, place) = 0
    BY <1>5, <2>1, <2>2
  <2> QED
    BY <1>7, <2>3 DEF f, place
<1>8. CASE call.style = "position"
  <2>1. same = {} /\ place = b
    BY <1>4, <1>8
  <2>2. f.index = "none" /\ f.id = "none"
    BY <1>1, <1>8
  <2>3. b <= Len(blocks) => (f.type = "none" \/ blocks[b].type = f.type)
    <3>1. b <= Len(blocks) => blocks[b].type = "reasoning.text"
      BY <1>0 DEF Sorted, Labelled
    <3> QED
      BY <1>1, <3>1
  <2> HIDE DEF same, place
  <2>4. OpenAI!reasoningBlockIndex(blocks, f, place) = IF b <= Len(blocks) THEN b ELSE 0
    BY <1>5, <2>1, <2>2, <2>3
  <2> QED
    BY <2>4 DEF f, place
<1> QED
  BY <1>6, <1>7, <1>8

\* A block with the next fragment, and the blocks with it.
Grown(block) ==
  [type |-> block.type, index |-> block.index, id |-> block.id, body |-> block.body \o OpenAI!Fragment]
Extended(blocks, b) ==
  IF b <= Len(blocks) THEN [blocks EXCEPT ![b] = Grown(blocks[b])] ELSE Append(blocks, BlockFragment(b))

\* Sorted blocks are a short sequence of records.
LEMMA SortedTyped ==
  ASSUME NEW blocks, Sorted(blocks)
  PROVE  /\ Len(blocks) \in 0 .. 2 /\ blocks = [i \in 1 .. Len(blocks) |-> blocks[i]]
         /\ \A i \in 1 .. Len(blocks) : blocks[i] \in BlockParts /\ Labelled(blocks[i], i)
<1>1. Len(blocks) \in Nat /\ blocks = [i \in 1 .. Len(blocks) |-> blocks[i]] /\ \A i \in 1 .. Len(blocks) : blocks[i] \in BlockParts
  <2>1. \A S : \A s \in Seq(S) : Len(s) \in Nat /\ s = [i \in 1 .. Len(s) |-> s[i]] /\ \A i \in 1 .. Len(s) : s[i] \in S
    OBVIOUS
  <2> QED
    BY <2>1 DEF Sorted
<1>2. Len(blocks) <= 2 /\ \A i \in 1 .. Len(blocks) : Labelled(blocks[i], i)
  BY DEF Sorted
<1> QED
  BY <1>1, <1>2

\* The fragment merged into its place.
LEMMA FragmentMerged ==
  ASSUME NEW blocks, Sorted(blocks), NEW b \in 1 .. 2, b <= Len(blocks) + 1,
         call.style \in {"index", "id", "position"}
  PROVE  Merged(blocks, BlockFragment(b), IF call.style = "position" THEN b ELSE 1) = Extended(blocks, b)
<1> DEFINE f == BlockFragment(b)
           place == IF call.style = "position" THEN b ELSE 1
<1>1. OpenAI!reasoningBlockIndex(blocks, f, place) = IF b <= Len(blocks) THEN b ELSE 0
  BY FragmentPlace
<1>2. /\ f.type \in {"reasoning.text", "none"}
      /\ f.index = IF call.style = "index" THEN OpenAI!Labels[b] ELSE "none"
      /\ f.id = IF call.style = "id" THEN OpenAI!Labels[b] ELSE "none"
      /\ f.body = OpenAI!Fragment
  BY DEF BlockFragment, BlockType
<1>3. b <= Len(blocks) => Labelled(blocks[b], b)
  BY SortedTyped
<1>4. b <= Len(blocks) => OpenAI!mergeReasoningBlock(blocks[b], f) = Grown(blocks[b])
  <2> HIDE DEF f
  <2> SUFFICES ASSUME b <= Len(blocks) PROVE OpenAI!mergeReasoningBlock(blocks[b], f) = Grown(blocks[b])
    OBVIOUS
  <2>1. (IF f.type = "none" THEN blocks[b].type ELSE f.type) = blocks[b].type
    BY <1>2, <1>3 DEF Labelled
  <2>2. (IF f.index = "none" THEN blocks[b].index ELSE f.index) = blocks[b].index
    BY <1>2, <1>3 DEF Labelled
  <2>3. (IF f.id = "none" THEN blocks[b].id ELSE f.id) = blocks[b].id
    BY <1>2, <1>3 DEF Labelled
  <2> QED
    BY <1>2, <2>1, <2>2, <2>3 DEF OpenAI!mergeReasoningBlock, Grown
<1> HIDE DEF f, place
<1> DEFINE index == OpenAI!reasoningBlockIndex(blocks, f, place)
<1>5. Merged(blocks, f, place) =
        IF index = 0 THEN Append(blocks, f)
        ELSE [blocks EXCEPT ![index] = OpenAI!mergeReasoningBlock(blocks[index], f)]
  BY DEF Merged
<1> HIDE DEF index
<1>6. index = IF b <= Len(blocks) THEN b ELSE 0
  BY <1>1 DEF index
<1>7. b # 0
  OBVIOUS
<1>8. Merged(blocks, f, place) = IF b <= Len(blocks) THEN [blocks EXCEPT ![b] = Grown(blocks[b])] ELSE Append(blocks, f)
  BY <1>4, <1>5, <1>6, <1>7
<1> QED
  BY <1>8 DEF Extended, f, place

\* What precedes the second block's fragment changes nothing.
LEMMA BeforeMerged ==
  ASSUME NEW blocks, Sorted(blocks), NEW b, Len(blocks) >= 1
  PROVE  Merged(blocks, Before(b), 1) = blocks
<1> DEFINE o == Before(b)
           same == {i \in 1 .. Len(blocks) : OpenAI!sameReasoningBlock(blocks[i], o)}
<1>1. /\ o.type \in {"reasoning.text", "none"} /\ o.index = "none" /\ o.id = "none" /\ o.body = <<>>
  BY DEF Before, BlockType
<1>2. /\ 1 \in 1 .. Len(blocks) /\ blocks[1] \in BlockParts /\ blocks[1].type = "reasoning.text"
      /\ blocks = [i \in 1 .. Len(blocks) |-> blocks[i]]
  BY SortedTyped DEF Labelled
<1> HIDE DEF o
<1>3. same = {}
  BY <1>1 DEF OpenAI!sameReasoningBlock
<1>4. OpenAI!reasoningBlockIndex(blocks, o, 1) =
        IF same # {} THEN CHOOSE i \in same : \A j \in same : i <= j
        ELSE IF /\ o.index = "none" /\ o.id = "none"
                /\ 1 <= Len(blocks)
                /\ o.type = "none" \/ blocks[1].type = o.type
             THEN 1 ELSE 0
  BY DEF OpenAI!reasoningBlockIndex
<1> HIDE DEF same
<1>5. OpenAI!reasoningBlockIndex(blocks, o, 1) = 1
  BY <1>1, <1>2, <1>3, <1>4
<1>6. OpenAI!mergeReasoningBlock(blocks[1], o) = blocks[1]
  <2>1. blocks[1].body \o <<>> = blocks[1].body
    BY <1>2, TextJoins DEF BlockParts
  <2>2. blocks[1] = [type |-> blocks[1].type, index |-> blocks[1].index, id |-> blocks[1].id, body |-> blocks[1].body]
    BY <1>2 DEF BlockParts
  <2> QED
    BY <1>1, <1>2, <2>1, <2>2 DEF OpenAI!mergeReasoningBlock
<1>7. Merged(blocks, o, 1) = [blocks EXCEPT ![1] = blocks[1]]
  <2> DEFINE index == OpenAI!reasoningBlockIndex(blocks, o, 1)
  <2>1. Merged(blocks, o, 1) =
          IF index = 0 THEN Append(blocks, o)
          ELSE [blocks EXCEPT ![index] = OpenAI!mergeReasoningBlock(blocks[index], o)]
    BY DEF Merged
  <2> HIDE DEF index
  <2>2. index = 1
    BY <1>5 DEF index
  <2> QED
    BY <1>6, <2>1, <2>2
<1>8. [blocks EXCEPT ![1] = blocks[1]] = blocks
  BY <1>2
<1> QED
  BY <1>7, <1>8 DEF o

\* A chunk of a block extends the blocks stored.
LEMMA BlocksExtended ==
  ASSUME NEW blocks, Sorted(blocks), NEW b \in 1 .. 2, b <= Len(blocks) + 1, blocks # <<>>,
         call.style \in {"index", "id", "position"}
  PROVE  OpenAI!mergeReasoningField(blocks, BlocksSent(b)) = Extended(blocks, b)
<1>0. Len(blocks) >= 1
  <2>1. \A s \in Seq(BlockParts) : s # <<>> => Len(s) >= 1
    OBVIOUS
  <2>2. blocks \in Seq(BlockParts)
    BY DEF Sorted
  <2> QED
    BY <2>1, <2>2
<1>1. Merged(blocks, BlockFragment(b), IF call.style = "position" THEN b ELSE 1) = Extended(blocks, b)
  BY FragmentMerged
<1>2. CASE call.style = "position" /\ b = 2
  <2>1. BlocksSent(b) = <<Before(b), BlockFragment(b)>>
    BY <1>2 DEF BlocksSent
  <2>2. OpenAI!mergeReasoningField(blocks, <<Before(b), BlockFragment(b)>>)
          = Merged(Merged(blocks, Before(b), 1), BlockFragment(b), 2)
    BY MergesFew
  <2>3. Merged(blocks, Before(b), 1) = blocks
    BY <1>0, BeforeMerged
  <2> QED
    BY <1>1, <1>2, <2>1, <2>2, <2>3
<1>3. CASE ~(call.style = "position" /\ b = 2)
  <2>1. BlocksSent(b) = <<BlockFragment(b)>>
    BY <1>3 DEF BlocksSent
  <2>2. OpenAI!mergeReasoningField(blocks, BlocksSent(b)) = Merged(blocks, BlockFragment(b), 1)
    BY <2>1, MergesFew
  <2>3. (IF call.style = "position" THEN b ELSE 1) = 1
    BY <1>3
  <2> QED
    BY <1>1, <2>2, <2>3
<1> QED
  BY <1>2, <1>3

\* The texts of some blocks.
Bodies(blocks) == [i \in 1 .. Len(blocks) |-> blocks[i].body]

\* The blocks extended are sorted, and their bodies are what the provider sent.
LEMMA ExtendedSorted ==
  ASSUME NEW blocks, Sorted(blocks), NEW b \in 1 .. 2, b <= Len(blocks) + 1, n \in Nat,
         Len(answer.blocks) = Len(blocks), call.style \in {"index", "id", "position"}
  PROVE  /\ Sorted(Extended(blocks, b))
         /\ Bodies(Extended(blocks, b)) =
              IF b > Len(blocks) THEN Append(Bodies(blocks), OpenAI!Fragment)
              ELSE [Bodies(blocks) EXCEPT ![b] = @ \o OpenAI!Fragment]
<1> DEFINE x == OpenAI!Fragment
           e == Extended(blocks, b)
           m == Len(blocks)
<1>1. /\ m \in 0 .. 2 /\ blocks = [i \in 1 .. m |-> blocks[i]] /\ blocks \in Seq(BlockParts)
      /\ \A i \in 1 .. m : blocks[i] \in BlockParts /\ Labelled(blocks[i], i)
  BY SortedTyped DEF Sorted
<1>2. x \in Text
  BY FragmentText
<1>3. CASE b <= m
  <2> DEFINE g == Grown(blocks[b])
  <2>1. g \in BlockParts /\ Labelled(g, b) /\ g.body = blocks[b].body \o x
    <3>1. blocks[b] \in BlockParts /\ Labelled(blocks[b], b)
      BY <1>1, <1>3
    <3>2. blocks[b].body \o x \in Text
      BY <1>2, <3>1, TextJoins DEF BlockParts
    <3> HIDE DEF x
    <3> QED
      BY <3>1, <3>2 DEF Grown, BlockParts, Labelled, x
  <2>2. e = [blocks EXCEPT ![b] = g]
    BY <1>3 DEF Extended
  <2> HIDE DEF g, e
  <2>3. e = [i \in 1 .. m |-> IF i = b THEN g ELSE blocks[i]]
    BY <1>1, <2>2
  <2>4. e \in Seq(BlockParts) /\ Len(e) = m
    <3>1. \A i \in 1 .. m : (IF i = b THEN g ELSE blocks[i]) \in BlockParts
      BY <1>1, <2>1
    <3> HIDE DEF m
    <3> QED
      BY <1>1, <2>3, <3>1
  <2>5. \A i \in 1 .. m : e[i] = IF i = b THEN g ELSE blocks[i]
    BY <2>3
  <2>6. Sorted(e)
    BY <1>1, <2>1, <2>4, <2>5 DEF Sorted
  <2>7. Bodies(e) = [Bodies(blocks) EXCEPT ![b] = @ \o x]
    <3>1. Bodies(e) = [i \in 1 .. m |-> e[i].body]
      BY <2>4 DEF Bodies
    <3>2. Bodies(blocks) = [i \in 1 .. m |-> blocks[i].body]
      BY DEF Bodies
    <3>3. b \in 1 .. m
      BY <1>1, <1>3
    <3> DEFINE u == Bodies(blocks)
    <3>4. u = [i \in 1 .. m |-> blocks[i].body] /\ u[b] = blocks[b].body
      BY <3>2, <3>3
    <3> HIDE DEF m, x, u
    <3>5. [u EXCEPT ![b] = @ \o x] = [i \in 1 .. m |-> IF i = b THEN u[b] \o x ELSE blocks[i].body]
      BY <3>4
    <3>6. \A i \in 1 .. m : e[i].body = IF i = b THEN u[b] \o x ELSE blocks[i].body
      BY <2>1, <2>5, <3>4
    <3>7. Bodies(e) = [i \in 1 .. m |-> IF i = b THEN u[b] \o x ELSE blocks[i].body]
      BY <3>1, <3>6
    <3> QED
      BY <3>5, <3>7 DEF u
  <2> QED
    BY <1>1, <1>3, <2>6, <2>7 DEF e
<1>4. CASE b > m
  <2> DEFINE f == BlockFragment(b)
  <2>1. b = m + 1
    BY <1>1, <1>4
  <2>2. f \in BlockParts /\ Labelled(f, b) /\ f.body = x
    <3>1. f \in BlockParts
      BY BlockText
    <3>2. BlockType(b) = "reasoning.text"
      BY <1>4 DEF BlockType
    <3> QED
      BY <3>1, <3>2 DEF Labelled, BlockFragment
  <2>3. e = Append(blocks, f)
    <3>1. ~(b <= m)
      BY <1>1, <1>4
    <3> HIDE DEF f
    <3> QED
      BY <3>1 DEF Extended, f
  <2> HIDE DEF f, e, x
  <2>4. e \in Seq(BlockParts) /\ Len(e) = m + 1
    BY <1>1, <2>2, <2>3
  <2>5. \A i \in 1 .. m + 1 : e[i] = IF i = m + 1 THEN f ELSE blocks[i]
    BY <1>1, <2>3
  <2>6. Sorted(e)
    BY <1>1, <2>1, <2>2, <2>4, <2>5 DEF Sorted
  <2>7. Bodies(e) = Append(Bodies(blocks), x)
    <3>1. Bodies(e) = [i \in 1 .. m + 1 |-> e[i].body]
      BY <2>4 DEF Bodies
    <3>2. Bodies(blocks) = [i \in 1 .. m |-> blocks[i].body]
      BY DEF Bodies
    <3>3. Bodies(blocks) \in Seq(Text) /\ Len(Bodies(blocks)) = m
      <4>1. \A i \in 1 .. m : blocks[i].body \in Text
        BY <1>1 DEF BlockParts
      <4>2. m \in Nat
        BY <1>1
      <4> HIDE DEF m
      <4> QED
        BY <3>2, <4>1, <4>2
    <3> DEFINE u == Bodies(blocks)
    <3>4. \A i \in 1 .. m : u[i] = blocks[i].body
      BY <3>2
    <3> HIDE DEF u, m
    <3>5. Append(u, x) = [i \in 1 .. m + 1 |-> IF i = m + 1 THEN x ELSE u[i]]
      <4>1. u \in Seq(Text) /\ Len(u) = m /\ m \in Nat
        BY <1>1, <3>3 DEF u, m
      <4> DEFINE w == Append(u, x)
      <4>2. w \in Seq(Text) /\ Len(w) = m + 1 /\ w[m + 1] = x /\ \A i \in 1 .. m : w[i] = u[i]
        BY <1>2, <4>1
      <4> HIDE DEF w
      <4>3. w = [i \in 1 .. m + 1 |-> w[i]]
        BY <4>2
      <4>4. \A i \in 1 .. m + 1 : w[i] = IF i = m + 1 THEN x ELSE u[i]
        BY <4>1, <4>2
      <4> QED
        BY <4>3, <4>4 DEF w
    <3>6. \A i \in 1 .. m + 1 : e[i].body = IF i = m + 1 THEN x ELSE u[i]
      <4>1. m \in Nat
        BY <1>1 DEF m
      <4>2. \A i \in 1 .. m + 1 : i = m + 1 \/ i \in 1 .. m
        BY <4>1
      <4>3. \A i \in 1 .. m + 1 : e[i].body = IF i = m + 1 THEN f.body ELSE blocks[i].body
        BY <2>5
      <4> QED
        BY <2>2, <3>4, <4>2, <4>3
    <3> QED
      BY <3>1, <3>5, <3>6 DEF u
  <2> QED
    BY <1>1, <1>4, <2>6, <2>7 DEF e, x
<1> QED
  BY <1>1, <1>3, <1>4

-----------------------------------------------------------------------------
(* What the OpenAI driver keeps for replay. *)

\* The reasoning state has the text and the blocks the provider sent.
ReasoningKept ==
  /\ answer.blocks \in Seq(Text) /\ reasoning.blocks \in Seq(BlockParts)
  /\ IF pc = "consume"
     THEN /\ reasoning.text = <<>> /\ reasoning.blocks = <<>>
          /\ chunk.reasoning = answer.reasoning /\ Bodies(chunk.blocks) = answer.blocks
     ELSE reasoning.text = answer.reasoning /\ Bodies(reasoning.blocks) = answer.blocks
  /\ pc = "start" \/ (pc = "reading" /\ ~Streams) => answer.reasoning = <<>> /\ answer.blocks = <<>>
  /\ Streams => Sorted(reasoning.blocks) /\ (call.style = "plain" => reasoning.blocks = <<>>)

\* The envelope has all of it: it waits for the finish reason, after which no more
\* comes, or for the end.
EnvelopeKept ==
  /\ AllEnvelopes \subseteq {StateDelta(reasoning.text, reasoning.blocks)}
  /\ Seen("state") => ~(reasoning.text = <<>> /\ reasoning.blocks = <<>>)
  /\ Seen("state") /\ pc \in {"reading", "publish"} => answer.reason # Unset \/ ~Streams
  /\ reasoning.emitted => "state" \in Kinds(deltas)
  /\ pc \in {"finish", "done"} \/ (pc = "publish" /\ ~Streams) => Quiet \/ "state" \in Kinds(pending)

Replays == call.driver = "openai" /\ HasCallback
OpenAIKept == Replays /\ err = {} => ReasoningKept /\ EnvelopeKept

\* The envelope emitted.
LEMMA EmitEnvelope ==
  ASSUME NEW state
  PROVE  LET s == OpenAI!emit(state) IN
         /\ Envelopes(s) \subseteq {StateDelta(state.text, state.blocks)}
         /\ "state" \in Kinds(s) <=> s # <<>>
         /\ s # <<>> => ~(state.text = <<>> /\ state.blocks = <<>>)
<1> DEFINE x == StateDelta(state.text, state.blocks)
           s == OpenAI!emit(state)
<1>1. s = <<>> \/ (s = <<x>> /\ ~(state.text = <<>> /\ state.blocks = <<>>))
  BY SameDeltas DEF OpenAI!emit
<1>2. x.kind = "state"
  BY DEF StateDelta, Delta
<1> HIDE DEF x, s
<1>3. Envelopes(<<x>>) = {x} /\ Envelopes(<<>>) = {} /\ <<x>> # <<>>
  BY <1>2, FewEnvelopes, OneSeq
<1>4. "state" \notin Kinds(<<>>) /\ "state" \in Kinds(<<x>>)
  BY <1>2, NoneOrderly, OneOrderly
<1> QED
  BY <1>1, <1>3, <1>4 DEF x, s

\* A step that tells the envelope and touches neither answer nor reasoning.
LEMMA ReasoningStays ==
  ASSUME ReasoningKept, UNCHANGED <<call, answer, reasoning>>, pc # "consume", pc' \notin {"start", "consume"},
         pc' = "reading" /\ ~Streams => pc = "start"
  PROVE  ReasoningKept'
BY DEF ReasoningKept, Sorted, Labelled

\* A step that moves no envelope and finishes nothing.
LEMMA EnvelopeStays ==
  ASSUME EnvelopeKept, UNCHANGED <<call, deltas, answer, reasoning>>,
         Envelopes(pending') = Envelopes(pending),
         pc' \in {"reading", "publish"} => pc \in {"reading", "publish"} \/ ~Seen("state"),
         pc' \in {"finish", "done"} \/ (pc' = "publish" /\ ~Streams) => Quiet \/ "state" \in Kinds(pending')
  PROVE  EnvelopeKept'
<1>1. AllEnvelopes' = AllEnvelopes
  BY DEF AllEnvelopes
<1>2. (Seen("state"))' <=> Seen("state")
  BY FewEnvelopes
<1>3. Quiet' <=> Quiet
  BY DEF Quiet
<1> QED
  BY <1>1, <1>2, <1>3 DEF EnvelopeKept

\* A step that publishes the envelope, of reasoning that is complete.
LEMMA EnvelopePublished ==
  ASSUME UNCHANGED <<call, deltas>>, pending' = OpenAI!emit(reasoning'),
         Envelopes(deltas) \subseteq {StateDelta(reasoning'.text, reasoning'.blocks)},
         "state" \in Kinds(deltas) => ~(reasoning'.text = <<>> /\ reasoning'.blocks = <<>>),
         pc' \in {"reading", "publish"} => answer'.reason # Unset \/ ~Streams,
         reasoning'.emitted => "state" \in Kinds(deltas)
  PROVE  EnvelopeKept'
<1>1. /\ Envelopes(pending') \subseteq {StateDelta(reasoning'.text, reasoning'.blocks)}
      /\ "state" \in Kinds(pending') <=> pending' # <<>>
      /\ pending' # <<>> => ~(reasoning'.text = <<>> /\ reasoning'.blocks = <<>>)
  BY EmitEnvelope
<1>2. pending' = <<>> <=> Quiet'
  <2>1. OpenAI!emit(reasoning') = OpenAI!emit(reasoning)'
    BY DEF OpenAI!emit, OpenAI!KeepsReasoning
  <2> QED
    BY <2>1, QuietEmitNext
<1>3. AllEnvelopes' \subseteq {StateDelta(reasoning'.text, reasoning'.blocks)}
  BY <1>1 DEF AllEnvelopes
<1> QED
  BY <1>1, <1>2, <1>3 DEF EnvelopeKept

\* Steps that publish nothing.
LEMMA OpenAIKeptUntouched ==
  ASSUME CallInv, OpenAIKept, Replays, err' = {},
         \/ OpenAI!openaiStart \/ OpenAI!endOfStream \/ OpenAI!completionFails
         \/ OpenAI!finishResponse \/ OpenAI!returnError
  PROVE  ReasoningKept' /\ EnvelopeKept'
<1>1. /\ UNCHANGED <<call, deltas, pending, answer, reasoning>> /\ err = {}
      /\ \/ pc = "start" /\ pc' = "reading" /\ deltas = <<>> /\ pending = <<>>
         \/ pc = "reading" /\ pc' = "close"
         \/ pc = "finish" /\ pc' = "done"
  BY ErrorKept DEF OpenAI!openaiStart, OpenAI!endOfStream, OpenAI!completionFails, OpenAI!finishResponse,
     OpenAI!returnError, OpenAI!ProviderFailures, OpenAI!openaiVars, OpenAI!Reads, CallInv, PlaceInv, Replays
<1>2. ReasoningKept /\ EnvelopeKept
  BY <1>1 DEF OpenAIKept
<1>3. ReasoningKept'
  BY <1>1, <1>2, ReasoningStays
<1>4. pc = "start" => ~Seen("state")
  BY <1>1, NoneOrderly
<1>5. EnvelopeKept'
  BY <1>1, <1>2, <1>4, EnvelopeStays DEF EnvelopeKept
<1> QED
  BY <1>3, <1>5

\* The end of a stream publishes what was not published before.
LEMMA OpenAIKeptClose ==
  ASSUME CallInv, OpenAIKept, Replays, err' = {}, NEW ok \in BOOLEAN, OpenAI!closeOpenAI(ok)
  PROVE  ReasoningKept' /\ EnvelopeKept'
<1>1. /\ UNCHANGED <<call, deltas, answer, reasoning>> /\ err = {} /\ pc = "close" /\ pending = <<>>
      /\ pc' = "finish" /\ pending' = OpenAI!emit(reasoning)
  BY DEF OpenAI!closeOpenAI, OpenAI!openaiVars, CallInv, OpenAIInv, Replays
<1>2. ReasoningKept /\ EnvelopeKept
  BY <1>1 DEF OpenAIKept
<1>3. ReasoningKept'
  BY <1>1, <1>2, ReasoningStays
<1>4. Envelopes(deltas) \subseteq {StateDelta(reasoning.text, reasoning.blocks)}
  BY <1>2 DEF EnvelopeKept, AllEnvelopes
<1>5. EnvelopeKept'
  BY <1>1, <1>2, <1>4, EnvelopePublished DEF EnvelopeKept
<1> QED
  BY <1>3, <1>5

\* publishChunk makes deltas of a chunk, but no envelope.
LEMMA OpenAIKeptPublishes ==
  ASSUME CallInv, OpenAIKept, Replays, err' = {}, OpenAI!publishChunk
  PROVE  ReasoningKept' /\ EnvelopeKept'
<1>1. /\ UNCHANGED <<call, deltas, answer, reasoning>> /\ err = {} /\ pc = "publish" /\ pending = <<>>
      /\ pc' = (IF Streams THEN "reading" ELSE "finish") /\ pending' = OpenAI!deltasFromChunk(chunk, refused)
  BY DEF OpenAI!publishChunk, CallInv, PlaceInv, Replays
<1>2. ReasoningKept /\ EnvelopeKept
  BY <1>1 DEF OpenAIKept
<1>3. ReasoningKept'
  BY <1>1, <1>2, ReasoningStays
<1>4. "state" \notin Kinds(pending') /\ "state" \notin Kinds(pending)
  BY <1>1, ChunkDeltas, NoneOrderly DEF CallInv, ShapeInv, ChunkShape
<1>5. Envelopes(pending') = Envelopes(pending)
  BY <1>4, FewEnvelopes
<1>6. EnvelopeKept'
  BY <1>1, <1>2, <1>4, <1>5, EnvelopeStays DEF EnvelopeKept
<1> QED
  BY <1>3, <1>6

\* The callback gets the next delta.
LEMMA OpenAIKeptDelivers ==
  ASSUME CallInv, OpenAIKept, Replays, err' = {}, NEW ok \in BOOLEAN, OpenAI!openaiDelta(ok)
  PROVE  ReasoningKept' /\ EnvelopeKept'
<1> DEFINE d == Head(pending)
<1>1. /\ UNCHANGED <<call, answer, chunk, pc>> /\ err = {} /\ pending # <<>> /\ pending' = Tail(pending)
      /\ deltas' = Append(deltas, d)
      /\ reasoning' = [reasoning EXCEPT !.emitted = @ \/ (ok /\ d.kind = "state" /\ ~OpenAI!IsZai)]
      /\ ok
  BY DEF OpenAI!openaiDelta, CallInv, PlaceInv
<1>2. /\ reasoning'.text = reasoning.text /\ reasoning'.blocks = reasoning.blocks
      /\ reasoning'.emitted <=> reasoning.emitted \/ d.kind = "state"
  BY <1>1 DEF CallInv, ShapeInv, Replays
<1>3. ReasoningKept /\ EnvelopeKept
  BY <1>1 DEF OpenAIKept
<1>4. ReasoningKept'
  BY <1>1, <1>2, <1>3 DEF ReasoningKept, Sorted, Labelled
<1>5. AllEnvelopes' = AllEnvelopes
  BY <1>1, MovedEnvelopes
<1>6. /\ Kinds(pending) = {d.kind} \cup Kinds(Tail(pending)) /\ Kinds(deltas') = Kinds(deltas) \cup {d.kind}
  BY <1>1, TailOrderly, AppendKinds DEF CallInv, ShapeInv
<1> HIDE DEF d
<1>7. (Seen("state"))' <=> Seen("state")
  BY <1>1, <1>6
<1>8. Quiet \/ "state" \in Kinds(pending) => Quiet' \/ "state" \in Kinds(pending')
  BY <1>1, <1>2, <1>6 DEF Quiet
<1>9. EnvelopeKept'
  BY <1>1, <1>2, <1>3, <1>5, <1>6, <1>7, <1>8 DEF EnvelopeKept
<1> QED
  BY <1>4, <1>9

\* What consume keeps of a chunk.
LEMMA Consumed ==
  ASSUME CallInv, Replays, NEW c, c.choice
  PROVE  LET s == OpenAI!consume(reasoning, c) IN
         /\ s.text = reasoning.text \o c.reasoning
         /\ s.blocks = IF reasoning.blocks = <<>> \/ ~Streams
                       THEN (IF c.blocks = <<>> THEN reasoning.blocks ELSE c.blocks)
                       ELSE OpenAI!mergeReasoningField(reasoning.blocks, c.blocks)
         /\ s = OpenAI!store(reasoning, c)
BY DEF OpenAI!consume, OpenAI!store, OpenAI!KeepsReasoning, CallInv, ShapeInv, Replays

\* A chunk without blocks adds its text.
LEMMA PlainConsumed ==
  ASSUME CallInv, ToldInv, Replays, Streams, NEW c, Plain(c)
  PROVE  LET s == OpenAI!consume(reasoning, c) IN
         s.text = reasoning.text \o c.reasoning /\ s.blocks = reasoning.blocks
<1> DEFINE s == OpenAI!consume(reasoning, c)
<1>1. CASE c.choice
  <2>1. OpenAI!mergeReasoningField(reasoning.blocks, <<>>) = reasoning.blocks
    BY MergesFew
  <2> HIDE DEF s
  <2>2. /\ s.text = reasoning.text \o c.reasoning
        /\ s.blocks = IF reasoning.blocks = <<>> \/ ~Streams
                      THEN (IF c.blocks = <<>> THEN reasoning.blocks ELSE c.blocks)
                      ELSE OpenAI!mergeReasoningField(reasoning.blocks, c.blocks)
    BY <1>1, Consumed DEF s
  <2>3. c.blocks = <<>>
    BY DEF Plain
  <2> QED
    BY <2>1, <2>2, <2>3 DEF s
<1>2. CASE ~c.choice
  <2>1. s = reasoning
    BY <1>2 DEF OpenAI!consume
  <2>2. c.reasoning = <<>> /\ reasoning.text \in Text
    BY <1>2 DEF Plain, ChunkText, ToldInv, TextInv
  <2> QED
    BY <2>1, <2>2, TextJoins
<1> QED
  BY <1>1, <1>2

\* A chunk of a block extends the blocks.
LEMMA BlockConsumed ==
  ASSUME CallInv, ToldInv, ReasoningKept, Replays, Streams, pc # "consume",
         call.style \in {"index", "id", "position"},
         NEW b \in 1 .. 2, b <= Len(answer.blocks) + 1
  PROVE  LET c == OpenAI!BlockChunk(b)
             s == OpenAI!consume(reasoning, c) IN
         /\ c.choice = TRUE /\ c.reasoning = <<>> /\ c.finish = ""
         /\ s.text = reasoning.text /\ s.blocks = Extended(reasoning.blocks, b)
         /\ Len(answer.blocks) = Len(reasoning.blocks)
<1> DEFINE c == OpenAI!BlockChunk(b)
           s == OpenAI!consume(reasoning, c)
           sent == BlocksSent(b)
<1>1. n \in Nat /\ reasoning.text \in Text
  BY DEF ToldInv, TextInv
<1>2. c = [OpenAI!NoChunk EXCEPT !.blocks = sent]
  BY <1>1, BlockText
<1> HIDE DEF sent
<1>3. c.choice = TRUE /\ c.reasoning = <<>> /\ c.finish = "" /\ c.blocks = sent
  BY <1>2 DEF OpenAI!NoChunk
<1> HIDE DEF c
<1>4. Sorted(reasoning.blocks) /\ Bodies(reasoning.blocks) = answer.blocks
  BY DEF ReasoningKept
<1>5. Len(answer.blocks) = Len(reasoning.blocks)
  <2>1. Len(reasoning.blocks) \in Nat
    BY <1>4, SortedTyped
  <2>2. Len(Bodies(reasoning.blocks)) = Len(reasoning.blocks)
    BY <2>1 DEF Bodies
  <2> QED
    BY <1>4, <2>2
<1>6. /\ s.text = reasoning.text \o <<>>
      /\ s.blocks = IF reasoning.blocks = <<>>
                    THEN (IF sent = <<>> THEN reasoning.blocks ELSE sent)
                    ELSE OpenAI!mergeReasoningField(reasoning.blocks, sent)
  BY <1>3, Consumed
<1>7. reasoning.text \o <<>> = reasoning.text
  BY <1>1, TextJoins
<1> HIDE DEF s
<1>8. CASE reasoning.blocks = <<>>
  <2> DEFINE f == BlockFragment(b)
  <2>1. Len(reasoning.blocks) = 0
    BY <1>8
  <2>2. b = 1
    BY <1>5, <2>1
  <2>3. sent = <<f>>
    BY <2>2 DEF BlocksSent, sent
  <2>4. Extended(reasoning.blocks, b) = Append(<<>>, f)
    BY <1>8, <2>1, <2>2 DEF Extended
  <2> HIDE DEF f
  <2>5. Append(<<>>, f) = <<f>> /\ <<f>> # <<>>
    BY OneSeq
  <2> QED
    BY <1>3, <1>5, <1>6, <1>7, <1>8, <2>3, <2>4, <2>5 DEF s, c
<1>9. CASE reasoning.blocks # <<>>
  <2>1. OpenAI!mergeReasoningField(reasoning.blocks, sent) = Extended(reasoning.blocks, b)
    BY <1>4, <1>5, <1>9, BlocksExtended DEF sent
  <2> QED
    BY <1>3, <1>5, <1>6, <1>7, <1>9, <2>1 DEF s, c
<1> QED
  BY <1>8, <1>9

\* A block that is no reasoning fails the call.
LEMMA MalformedFails ==
  ASSUME CallInv, ReasoningKept, Replays, Streams
  PROVE  OpenAI!ConsumeFails(reasoning, OpenAI!MalformedChunk)
<1> DEFINE x == OpenAI!Block("unknown", "none", "none", <<>>)
           c == OpenAI!MalformedChunk
           blocks == reasoning.blocks
           s == OpenAI!consume(reasoning, c)
<1>1. c.choice = TRUE /\ c.blocks = <<x>>
  <2>1. \A y : LET z == [OpenAI!NoChunk EXCEPT !.blocks = y] IN z.choice = TRUE /\ z.blocks = y
    BY DEF OpenAI!NoChunk
  <2> HIDE DEF x
  <2> QED
    BY <2>1 DEF OpenAI!MalformedChunk, x
<1>2. x.type = "unknown" /\ x.index = "none" /\ x.id = "none"
  BY DEF OpenAI!Block
<1> HIDE DEF x
<1>3. \A z : <<z>> # <<>> /\ Len(<<z>>) = 1 /\ <<z>>[1] = z
  BY OneSeq
<1>4. /\ s.blocks = IF blocks = <<>> THEN <<x>> ELSE OpenAI!mergeReasoningField(blocks, <<x>>)
      /\ s = OpenAI!store(reasoning, c)
  BY <1>1, <1>3, Consumed
<1>5. Sorted(blocks)
  BY DEF ReasoningKept
<1> HIDE DEF c, s, blocks
<1>6. \E i \in 1 .. Len(s.blocks) : s.blocks[i].type = "unknown"
  <2>1. CASE blocks = <<>>
    <3>1. Len(<<x>>) = 1 /\ <<x>>[1].type = "unknown" /\ s.blocks = <<x>>
      BY <1>2, <1>3, <1>4, <2>1
    <3> QED
      BY <3>1
  <2>2. CASE blocks # <<>>
    <3> DEFINE same == {i \in 1 .. Len(blocks) : OpenAI!sameReasoningBlock(blocks[i], x)}
    <3>1. /\ Len(blocks) \in 1 .. 2 /\ blocks[1].type = "reasoning.text"
          /\ Sequential(blocks)
      <4>1. \A t \in Seq(BlockParts) : t # <<>> => Len(t) >= 1
        OBVIOUS
      <4>2. blocks \in Seq(BlockParts)
        BY <1>5 DEF Sorted
      <4>3. Len(blocks) >= 1
        BY <2>2, <4>1, <4>2
      <4>4. Len(blocks) \in 0 .. 2 /\ \A i \in 1 .. Len(blocks) : Labelled(blocks[i], i)
        BY <1>5, SortedTyped
      <4>5. Len(blocks) \in 1 .. 2 /\ Labelled(blocks[1], 1)
        BY <4>3, <4>4
      <4> QED
        BY <4>2, <4>5 DEF Labelled, Sequential
    <3>2. same = {}
      BY <1>2 DEF OpenAI!sameReasoningBlock
    <3>3. OpenAI!reasoningBlockIndex(blocks, x, 1) =
            IF same # {} THEN CHOOSE i \in same : \A j \in same : i <= j
            ELSE IF /\ x.index = "none" /\ x.id = "none"
                    /\ 1 <= Len(blocks)
                    /\ x.type = "none" \/ blocks[1].type = x.type
                 THEN 1 ELSE 0
      BY DEF OpenAI!reasoningBlockIndex
    <3> HIDE DEF same
    <3>4. OpenAI!reasoningBlockIndex(blocks, x, 1) = 0
      BY <1>2, <3>1, <3>2, <3>3
    <3>5. Merged(blocks, x, 1) = Append(blocks, x)
      BY <3>4 DEF Merged
    <3>6. s.blocks = Append(blocks, x)
      BY <1>4, <2>2, <3>5, MergesFew
    <3>7. Len(Append(blocks, x)) = Len(blocks) + 1 /\ Append(blocks, x)[Len(blocks) + 1] = x
      BY <3>1, AppendSeq
    <3>8. Len(blocks) + 1 \in 1 .. Len(blocks) + 1
      BY <3>1
    <3> QED
      BY <1>2, <3>6, <3>7, <3>8
  <2> QED
    BY <2>1, <2>2
<1>7. ~OpenAI!validateReasoningField(s.blocks)
  BY <1>6 DEF OpenAI!validateReasoningField
<1> QED
  BY <1>1, <1>4, <1>7 DEF OpenAI!ConsumeFails, OpenAI!KeepsReasoning, Replays, c

\* The bodies of some blocks are texts, and there are as many of them.
LEMMA BodiesTyped ==
  ASSUME NEW blocks \in Seq(BlockParts)
  PROVE  Bodies(blocks) \in Seq(Text) /\ (Bodies(blocks) = <<>> <=> blocks = <<>>)
<1>1. Len(blocks) \in Nat /\ \A i \in 1 .. Len(blocks) : blocks[i] \in BlockParts
  OBVIOUS
<1>2. \A i \in 1 .. Len(blocks) : blocks[i].body \in Text
  BY <1>1 DEF BlockParts
<1> DEFINE u == Bodies(blocks)
<1>3. u = [i \in 1 .. Len(blocks) |-> blocks[i].body]
  BY DEF Bodies
<1>4. \A i \in 1 .. Len(blocks) : u[i] \in Text
  BY <1>2, <1>3
<1>5. u = [i \in 1 .. Len(blocks) |-> u[i]]
  BY <1>3
<1> HIDE DEF u
<1>6. u \in Seq(Text) /\ Len(u) = Len(blocks)
  BY <1>1, <1>4, <1>5
<1>7. (u = <<>> <=> Len(u) = 0) /\ (blocks = <<>> <=> Len(blocks) = 0)
  <2>1. \A S : \A s \in Seq(S) : s = <<>> <=> Len(s) = 0
    OBVIOUS
  <2> QED
    BY <1>6, <2>1
<1> QED
  BY <1>6, <1>7 DEF u

\* The blocks sent once a chunk is.
LEMMA SentBlocks ==
  ASSUME CallInv
  PROVE  /\ \A c : OpenAI!Sent(c, 0).blocks = answer.blocks
         /\ \A c : \A b \in 1 .. 2 : OpenAI!Sent(c, b).blocks =
              IF b > Len(answer.blocks) THEN Append(answer.blocks, OpenAI!Fragment)
              ELSE [answer.blocks EXCEPT ![b] = @ \o OpenAI!Fragment]
<1>1. DOMAIN answer = {"text", "reasoning", "blocks", "calls", "refused", "reason", "usage"}
  BY DEF CallInv, ShapeInv
<1>2. \A c, b : OpenAI!Sent(c, b).blocks = OpenAI!BlocksWith(answer.blocks, b)
  BY <1>1 DEF OpenAI!Sent
<1>3. \A b \in 1 .. 2 : b # 0
  OBVIOUS
<1> QED
  BY <1>2, <1>3 DEF OpenAI!BlocksWith

\* A chunk of the stream.
LEMMA OpenAIKeptChunk ==
  ASSUME CallInv, CallInv', ReasoningKept, EnvelopeKept, Replays, Streams, OpenAI!Reads,
         NEW c, NEW b, ChunkShape(c), OpenAI!nextChunk(c, b), err' = {},
         reasoning'.text = reasoning.text \o c.reasoning,
         Sorted(reasoning'.blocks), Bodies(reasoning'.blocks) = answer'.blocks,
         call.style = "plain" => reasoning'.blocks = <<>>
  PROVE  ReasoningKept' /\ EnvelopeKept'
<1>1. /\ UNCHANGED <<call, deltas>> /\ pc = "reading" /\ pending = <<>> /\ pc' = "publish" /\ chunk' = c
      /\ ~OpenAI!ConsumeFails(reasoning, c)
      /\ answer' = OpenAI!Sent(c, b)
      /\ reasoning' = OpenAI!consume(reasoning, c)
      /\ pending' = IF c.choice /\ c.finish # "" THEN OpenAI!emit(reasoning') ELSE <<>>
      /\ c.choice => answer.reason = Unset
  BY DEF OpenAI!nextChunk, OpenAI!consumeChunkReasoning, OpenAI!Reads
<1>2. /\ answer'.reasoning = answer.reasoning \o c.reasoning
      /\ answer'.reason = IF c.finish = "" THEN answer.reason ELSE c.finish
  BY <1>1 DEF OpenAI!Sent, CallInv, ShapeInv
<1>3. ReasoningKept'
  <2>1. reasoning'.text = answer'.reasoning
    BY <1>1, <1>2 DEF ReasoningKept
  <2>2. reasoning'.blocks \in Seq(BlockParts)
    BY DEF Sorted
  <2>3. answer'.blocks \in Seq(Text)
    BY <2>2, BodiesTyped
  <2>4. Sorted(reasoning.blocks)'
    BY <1>1 DEF Sorted, Labelled
  <2> QED
    BY <1>1, <2>1, <2>2, <2>3, <2>4 DEF ReasoningKept
<1>4. /\ DOMAIN reasoning = {"text", "blocks", "emitted"}
      /\ reasoning'.emitted = reasoning.emitted /\ (~c.choice => reasoning' = reasoning)
  BY <1>1, ConsumeShape DEF CallInv, ShapeInv
<1>5. Kinds(pending) = {} /\ Kinds(<<>>) = {} /\ Envelopes(<<>>) = {}
  BY <1>1, NoneOrderly, FewEnvelopes
<1>6. EnvelopeKept'
  <2>1. CASE ~c.choice
    <3>1. pending' = <<>> /\ reasoning' = reasoning /\ answer'.reason = answer.reason
      BY <1>1, <1>2, <1>4, <2>1 DEF ChunkShape
    <3>2. AllEnvelopes' = AllEnvelopes
      BY <1>1, <3>1 DEF AllEnvelopes
    <3> QED
      BY <1>1, <1>5, <3>1, <3>2 DEF EnvelopeKept
  <2>2. CASE c.choice
    <3>1. "state" \notin Kinds(deltas) /\ ~reasoning.emitted
      BY <1>1, <2>2 DEF EnvelopeKept
    <3>2. Envelopes(deltas) = {}
      BY <3>1, FewEnvelopes
    <3>3. CASE c.finish # ""
      <4>1. answer'.reason # Unset
        BY <1>1, <2>2, <3>3 DEF CallInv, OpenAIInv, Replays
      <4> QED
        BY <1>1, <1>4, <2>2, <3>1, <3>2, <3>3, <4>1, EnvelopePublished
    <3>4. CASE c.finish = ""
      <4>1. pending' = <<>> /\ AllEnvelopes' = {}
        BY <1>1, <1>5, <3>2, <3>4 DEF AllEnvelopes
      <4>2. ~(Seen("state"))'
        BY <1>1, <1>5, <3>1, <4>1
      <4> QED
        BY <1>1, <1>4, <3>1, <4>1, <4>2 DEF EnvelopeKept
    <3> QED
      BY <3>3, <3>4
  <2> QED
    BY <2>1, <2>2
<1> QED
  BY <1>3, <1>6

\* A completion: all of the reasoning is new.
LEMMA OpenAIKeptCompletion ==
  ASSUME CallInv, ToldInv, OpenAIKept, Replays, err' = {}, OpenAI!Reads, ~Streams,
         NEW c, ChunkText(c), OpenAI!completionArrives(c)
  PROVE  ReasoningKept' /\ EnvelopeKept'
<1>1. /\ UNCHANGED <<call, deltas, reasoning>> /\ pc = "reading" /\ pending = <<>> /\ err = {}
      /\ pc' = "consume" /\ chunk' = c
      /\ pending' = IfAny(c.reasoning, ReasoningDelta(c.reasoning))
  BY SameDeltas DEF OpenAI!completionArrives, OpenAI!Reads, Replays
<1>2. answer'.reasoning = answer.reasoning \o c.reasoning /\ answer'.blocks = Bodies(c.blocks)
  BY DEF OpenAI!completionArrives, OpenAI!Sent, CallInv, ShapeInv, Bodies
<1>3. ReasoningKept /\ EnvelopeKept
  BY <1>1 DEF OpenAIKept
<1>4. /\ answer.reasoning = <<>> /\ reasoning.text = <<>> /\ reasoning.blocks = <<>>
      /\ reasoning.blocks \in Seq(BlockParts)
  BY <1>1, <1>3, BodiesTyped DEF ReasoningKept
<1>5. c.reasoning \in Text /\ c.blocks \in Seq(BlockParts)
  BY DEF ChunkText
<1>6. answer'.reasoning = c.reasoning /\ answer'.blocks \in Seq(Text)
  BY <1>2, <1>4, <1>5, TextJoins, BodiesTyped
<1>7. ReasoningKept'
  BY <1>1, <1>2, <1>4, <1>6 DEF ReasoningKept
<1>8. ~Seen("state")
  BY <1>1 DEF CallInv, OpenAIInv, Replays
<1>9. "state" \notin Kinds(pending')
  <2> DEFINE d == ReasoningDelta(c.reasoning)
  <2>1. d.kind = "reasoning"
    BY DEF ReasoningDelta, Delta
  <2>2. pending' = <<>> \/ pending' = <<d>>
    BY <1>1 DEF IfAny
  <2> HIDE DEF d
  <2> QED
    BY <2>1, <2>2, NoneOrderly, OneOrderly
<1>10. AllEnvelopes' = {}
  BY <1>1, <1>8, <1>9, FewEnvelopes DEF AllEnvelopes
<1>11. EnvelopeKept'
  BY <1>1, <1>3, <1>8, <1>9, <1>10 DEF EnvelopeKept
<1> QED
  BY <1>7, <1>11

\* Publishing it: the reasoning state takes it as it came.
LEMMA OpenAIKeptPublished ==
  ASSUME CallInv, ToldInv, OpenAIKept, Replays, err' = {}, OpenAI!publishCompletion
  PROVE  ReasoningKept' /\ EnvelopeKept'
<1>1. /\ UNCHANGED <<call, deltas, answer>> /\ pc = "consume" /\ pending = <<>> /\ err = {} /\ ~Streams
  BY DEF OpenAI!publishCompletion, CallInv, PlaceInv, OpenAIInv
<1>2. /\ pc' = "publish" /\ reasoning' = OpenAI!consume(reasoning, chunk)
      /\ pending' = OpenAI!emit(reasoning')
  BY DEF OpenAI!publishCompletion
<1>3. ReasoningKept /\ EnvelopeKept
  BY <1>1 DEF OpenAIKept
<1>4. /\ reasoning.text = <<>> /\ reasoning.blocks = <<>>
      /\ chunk.reasoning = answer.reasoning /\ Bodies(chunk.blocks) = answer.blocks
  BY <1>1, <1>3 DEF ReasoningKept
<1>5. /\ chunk.reasoning \in Text /\ chunk.blocks \in Seq(BlockParts)
      /\ ~chunk.choice => chunk.reasoning = <<>> /\ chunk.blocks = <<>>
  BY DEF ToldInv, TextInv, ChunkText
<1>6. /\ reasoning'.text = chunk.reasoning /\ reasoning'.blocks = chunk.blocks
  <2>1. CASE chunk.choice
    <3>1. /\ reasoning'.text = <<>> \o chunk.reasoning
          /\ reasoning'.blocks = IF chunk.blocks = <<>> THEN <<>> ELSE chunk.blocks
      BY <1>1, <1>2, <1>4, <2>1, Consumed
    <3> QED
      BY <1>5, <3>1, TextJoins
  <2>2. CASE ~chunk.choice
    <3>1. reasoning' = reasoning
      BY <1>2, <2>2 DEF OpenAI!consume
    <3> QED
      BY <1>4, <1>5, <2>2, <3>1
  <2> QED
    BY <2>1, <2>2
<1>7. ReasoningKept'
  BY <1>1, <1>2, <1>3, <1>4, <1>5, <1>6 DEF ReasoningKept
<1>8. "state" \notin Kinds(deltas) /\ ~reasoning.emitted
  BY <1>1, <1>3 DEF CallInv, OpenAIInv, EnvelopeKept, Replays
<1>9. Envelopes(deltas) = {}
  BY <1>8, FewEnvelopes
<1>10. reasoning'.emitted = reasoning.emitted
  BY <1>2, ConsumeShape DEF CallInv, ShapeInv
<1>11. EnvelopeKept'
  BY <1>1, <1>2, <1>8, <1>9, <1>10, EnvelopePublished
<1> QED
  BY <1>7, <1>11

\* Every step of the OpenAI driver keeps what is kept.
LEMMA OpenAIKeeps ==
  ASSUME CallInv, CallInv', ToldInv, OpenAIKept, call \in Calls, OpenAI!OpenAINext
  PROVE  OpenAIKept'
<1>0. n \in Nat /\ MaxToolIndex \in Nat /\ call' = call
  BY DriverAssumption DEF ToldInv, TextInv, OpenAI!OpenAINext, OpenAI!openaiStart, OpenAI!nextChunk,
     OpenAI!nextBlocks, OpenAI!completionArrives, OpenAI!publishCompletion, OpenAI!publishChunk, OpenAI!captureFlush,
     OpenAI!openaiDelta, OpenAI!closeOpenAI, OpenAI!endOfStream, OpenAI!completionFails,
     OpenAI!finishResponse, OpenAI!flush, OpenAI!returnError
<1> SUFFICES ASSUME Replays, err' = {} PROVE ReasoningKept' /\ EnvelopeKept'
  BY <1>0 DEF OpenAIKept, Replays
<1>1. CASE OpenAI!openaiStart \/ OpenAI!endOfStream \/ OpenAI!completionFails
           \/ OpenAI!finishResponse \/ OpenAI!returnError
  BY <1>1, OpenAIKeptUntouched
<1>2. ASSUME OpenAI!Reads, Streams,
             \/ \E c \in OpenAI!ContentChunks \cup OpenAI!FinishChunks \cup OpenAI!UsageChunks
                           \cup {OpenAI!MalformedChunk} : OpenAI!nextChunk(c, 0)
             \/ OpenAI!nextBlocks
      PROVE  ReasoningKept' /\ EnvelopeKept'
  <2>1. pc = "reading" /\ err = {} /\ ReasoningKept /\ EnvelopeKept
    BY <1>2 DEF OpenAI!Reads, CallInv, PlaceInv, OpenAIKept
  <2>2. Sorted(reasoning.blocks) /\ (call.style = "plain" => reasoning.blocks = <<>>)
        /\ Bodies(reasoning.blocks) = answer.blocks
    BY <1>2, <2>1 DEF ReasoningKept
  <2>3. \A c, b : OpenAI!nextChunk(c, b) =>
          /\ ~OpenAI!ConsumeFails(reasoning, c)
          /\ reasoning' = OpenAI!consume(reasoning, c) /\ answer' = OpenAI!Sent(c, b)
    BY DEF OpenAI!nextChunk
  <2>4. ASSUME NEW c \in OpenAI!ContentChunks \cup OpenAI!FinishChunks \cup OpenAI!UsageChunks
                           \cup {OpenAI!MalformedChunk},
               OpenAI!nextChunk(c, 0)
        PROVE  ReasoningKept' /\ EnvelopeKept'
    <3>1. c # OpenAI!MalformedChunk
      BY <1>2, <2>1, <2>3, <2>4, MalformedFails
    <3>2. ChunkShape(c) /\ Plain(c)
      BY <1>0, <2>4, <3>1, StreamedChunks, PlainText
    <3>3. /\ reasoning'.text = reasoning.text \o c.reasoning /\ reasoning'.blocks = reasoning.blocks
      BY <1>2, <2>3, <2>4, <3>2, PlainConsumed
    <3>4. answer'.blocks = answer.blocks
      BY <2>3, <2>4, SentBlocks
    <3> QED
      BY <1>2, <2>1, <2>2, <2>4, <3>2, <3>3, <3>4, OpenAIKeptChunk
  <2>5. CASE OpenAI!nextBlocks
    <3>1. PICK b \in 1 .. 2 : b <= Len(answer.blocks) + 1 /\ OpenAI!nextChunk(OpenAI!BlockChunk(b), b)
      <4>1. PICK b \in 1 .. (IF Len(answer.blocks) < 2 THEN Len(answer.blocks) + 1 ELSE 2) :
              OpenAI!nextChunk(OpenAI!BlockChunk(b), b)
        BY <2>5 DEF OpenAI!nextBlocks
      <4>2. \A s \in Seq(Text) : Len(s) \in Nat
        OBVIOUS
      <4>3. Len(answer.blocks) \in Nat
        BY <2>1, <4>2 DEF ReasoningKept
      <4> QED
        BY <4>1, <4>3
    <3> DEFINE c == OpenAI!BlockChunk(b)
    <3>2. call.style \in {"index", "id", "position"}
      <4>1. call.style # "plain"
        BY <2>5 DEF OpenAI!nextBlocks
      <4> QED
        BY <4>1, DriverAssumption
    <3>3. ChunkShape(c)
      BY StreamedChunks
    <3>4. /\ c.choice = TRUE /\ c.reasoning = <<>> /\ c.finish = ""
          /\ OpenAI!consume(reasoning, c).text = reasoning.text
          /\ OpenAI!consume(reasoning, c).blocks = Extended(reasoning.blocks, b)
          /\ Len(answer.blocks) = Len(reasoning.blocks)
      BY <1>2, <2>1, <3>1, <3>2, BlockConsumed
    <3> HIDE DEF c
    <3>5. reasoning'.text = reasoning.text \o c.reasoning /\ reasoning'.blocks = Extended(reasoning.blocks, b)
      <4>1. reasoning.text \o <<>> = reasoning.text
        BY TextJoins DEF ToldInv, TextInv
      <4> QED
        BY <2>3, <3>1, <3>4, <4>1 DEF c
    <3>6. /\ Sorted(Extended(reasoning.blocks, b))
          /\ Bodies(Extended(reasoning.blocks, b)) =
               IF b > Len(reasoning.blocks) THEN Append(Bodies(reasoning.blocks), OpenAI!Fragment)
               ELSE [Bodies(reasoning.blocks) EXCEPT ![b] = @ \o OpenAI!Fragment]
      BY <1>0, <2>2, <3>1, <3>2, <3>4, ExtendedSorted
    <3>7. answer'.blocks = IF b > Len(answer.blocks) THEN Append(answer.blocks, OpenAI!Fragment)
                           ELSE [answer.blocks EXCEPT ![b] = @ \o OpenAI!Fragment]
      <4>1. answer' = OpenAI!Sent(c, b)
        BY <2>3, <3>1 DEF c
      <4>2. OpenAI!Sent(c, b).blocks = IF b > Len(answer.blocks) THEN Append(answer.blocks, OpenAI!Fragment)
                                       ELSE [answer.blocks EXCEPT ![b] = @ \o OpenAI!Fragment]
        BY SentBlocks
      <4> QED
        BY <4>1, <4>2
    <3>8. Bodies(reasoning'.blocks) = answer'.blocks
      BY <2>2, <3>4, <3>5, <3>6, <3>7
    <3>9. Sorted(reasoning'.blocks) /\ OpenAI!nextChunk(c, b) /\ call.style # "plain"
      BY <3>1, <3>2, <3>5, <3>6 DEF c
    <3> QED
      BY <1>2, <2>1, <3>3, <3>5, <3>8, <3>9, OpenAIKeptChunk
  <2> QED
    BY <1>2, <2>4, <2>5
<1>3. ASSUME OpenAI!Reads, ~Streams, NEW c \in OpenAI!Completions \cup OpenAI!UsageChunks, OpenAI!completionArrives(c)
      PROVE  ReasoningKept' /\ EnvelopeKept'
  <2>1. ChunkText(c)
    BY <1>0, CompletionsText, PlainText DEF Plain
  <2> QED
    BY <1>3, <2>1, OpenAIKeptCompletion
<1>4. CASE OpenAI!publishCompletion \/ OpenAI!publishChunk
  BY <1>4, OpenAIKeptPublished, OpenAIKeptPublishes
<1>5. CASE OpenAI!captureFlush \/ OpenAI!flush
  BY <1>5 DEF OpenAI!captureFlush, OpenAI!flush, CallInv, OpenAIInv, PlaceInv, Replays
<1>6. CASE \E ok \in BOOLEAN : OpenAI!openaiDelta(ok) \/ OpenAI!closeOpenAI(ok)
  BY <1>6, OpenAIKeptDelivers, OpenAIKeptClose
<1> QED
  BY <1>1, <1>2, <1>3, <1>4, <1>5, <1>6 DEF OpenAI!OpenAINext

-----------------------------------------------------------------------------
(* The answer of every driver. *)

\* The strengthening of AnswerWhole.
WholeInv ==
  /\ call \in Calls
  /\ ToldInv /\ ContentInv /\ IndexInv
  /\ AnthropicKept /\ ZaiKept /\ OpenAIKept

\* A call starts with nothing kept.
LEMMA WholeStarts == ASSUME Init PROVE WholeInv
<1>1. /\ call \in Calls /\ pc = "start" /\ err = {} /\ pending = <<>> /\ deltas = <<>>
      /\ answer.blocks = <<>> /\ answer.reasoning = <<>>
      /\ message.content = <<>> /\ message.stop = Unset /\ toolCallIndexes = <<>>
      /\ reasoning.text = <<>> /\ reasoning.blocks = <<>> /\ reasoning.emitted = FALSE
      /\ capture.reasoning = <<>> /\ capture.published = FALSE
  BY DEF Init, CallInit, NoAnswer, OpenAI!OpenAIInit, Anthropic!AnthropicInit, Anthropic!NoMessage
<1>2. ToldInv
  BY ToldStarts
<1> HIDE DEF Init
<1>3. /\ \A S : <<>> \in Seq(S)
      /\ Len(<<>>) = 0 /\ \A i \in 1 .. 0 : FALSE
  <2>1. Len(<<>>) = 0
    BY NoneSeq
  <2> QED
    BY <2>1
<1>4. ToolBlocks(message.content) = {} /\ DOMAIN toolCallIndexes = {}
  <2>1. 1 .. 0 = {}
    OBVIOUS
  <2>2. DOMAIN <<>> = {}
    OBVIOUS
  <2> QED
    BY <1>1, <1>3, <2>1, <2>2 DEF ToolBlocks
<1>5. ContentInv
  BY <1>1, <1>3 DEF ContentInv
<1>6. IndexInv
  BY <1>4 DEF IndexInv
<1>7. Kinds(deltas) = {} /\ Kinds(pending) = {} /\ AllEnvelopes = {}
  BY <1>1, NoneOrderly, FewEnvelopes DEF AllEnvelopes
<1>8. AnthropicKept
  <2>1. Anthropic!ReasoningSent(<<>>) = <<>>
    <3> DEFINE c == <<>>
               u == [i \in 1 .. Len(c) |->
                       IF c[i].type \in Anthropic!ReasoningTypes THEN <<c[i].body \o c[i].sig>> ELSE <<>>]
    <3>1. Anthropic!ReasoningSent(c) = FlattenSeq(u)
      BY SameFlatten DEF Anthropic!ReasoningSent
    <3>2. Len(c) = 0
      BY <1>3
    <3> HIDE DEF c
    <3>3. u = [i \in 1 .. 0 |-> u[i]]
      BY <3>2
    <3> HIDE DEF u
    <3>4. FlattenSeq(u) = <<>>
      BY <3>3, FlattenFew
    <3> QED
      BY <3>1, <3>4 DEF c
  <2> QED
    BY <1>1, <2>1 DEF AnthropicKept
<1>9. ZaiKept
  BY <1>1, <1>7, ToldNone DEF ZaiKept
<1>10. OpenAIKept
  <2>1. Bodies(<<>>) = <<>>
    BY <1>3, BodiesTyped
  <2>2. Sorted(<<>>)
    BY <1>3 DEF Sorted
  <2>3. ReasoningKept
    BY <1>1, <1>3, <2>1, <2>2 DEF ReasoningKept
  <2>4. EnvelopeKept
    BY <1>1, <1>7 DEF EnvelopeKept
  <2> QED
    BY <2>3, <2>4 DEF OpenAIKept
<1> QED
  BY <1>1, <1>2, <1>5, <1>6, <1>8, <1>9, <1>10 DEF WholeInv

\* What a step changes of a call that is not the driver's own.
LEMMA OwnSteps ==
  ASSUME CallInv
  PROVE  /\ OpenAI!OpenAINext => FromOpenAI /\ call' = call
         /\ Anthropic!AnthropicNext => FromAnthropic /\ call' = call
<1>1. pc \in {"consume", "flush"} => FromOpenAI
  BY DEF CallInv, PlaceInv
<1>2. OpenAI!OpenAINext => FromOpenAI /\ call' = call
  BY <1>1 DEF OpenAI!OpenAINext, OpenAI!openaiStart, OpenAI!nextChunk,
     OpenAI!nextBlocks, OpenAI!completionArrives, OpenAI!publishCompletion, OpenAI!publishChunk, OpenAI!captureFlush,
     OpenAI!openaiDelta, OpenAI!closeOpenAI, OpenAI!endOfStream, OpenAI!completionFails, OpenAI!Reads,
     OpenAI!finishResponse, OpenAI!flush, OpenAI!returnError
<1>3. Anthropic!AnthropicNext => FromAnthropic /\ call' = call
  BY DEF Anthropic!AnthropicNext, Anthropic!anthropicStart, Anthropic!nextEvent, Anthropic!anthropicDelta,
     Anthropic!closeStream, Anthropic!streamFails, Anthropic!finishStream, Anthropic!messageArrives,
     Anthropic!messageFails, Anthropic!Reads
<1> QED
  BY <1>2, <1>3

\* Every step keeps the answer whole.
LEMMA WholeKeeps ==
  ASSUME CallInv, CallInv', UsageInv, ReasonInv, WholeInv, [Next]_vars
  PROVE  WholeInv'
<1> USE DEF WholeInv
<1>1. CASE OpenAI!OpenAINext /\ UNCHANGED anthropicVars
  <2>1. FromOpenAI /\ call' = call
    BY <1>1, OwnSteps
  <2>2. ToldInv'
    BY <1>1, OpenAITold
  <2>3. ContentInv' /\ IndexInv' /\ AnthropicKept'
    BY <2>1 DEF ContentInv, IndexInv, AnthropicKept
  <2>4. OpenAIKept'
    BY <1>1, OpenAIKeeps
  <2>5. ZaiKept'
    <3>1. CASE Zai /\ HasCallback /\ err' = {}
      BY <1>1, <3>1, ZaiKeeps
    <3>2. CASE ~(Zai /\ HasCallback /\ err' = {})
      BY <2>1, <3>2 DEF ZaiKept
    <3> QED
      BY <3>1, <3>2
  <2> QED
    BY <2>1, <2>2, <2>3, <2>4, <2>5
<1>2. CASE Anthropic!AnthropicNext /\ UNCHANGED openaiVars
  <2>1. FromAnthropic /\ call' = call
    BY <1>2, OwnSteps
  <2>2. TextInv
    BY DEF ToldInv
  <2>3. ToldInv'
    BY <1>2, AnthropicTold
  <2>4. ContentInv' /\ IndexInv' /\ AnthropicKept'
    BY <1>2, <2>2, ContentKeeps, IndexKeeps, AnthropicKeeps
  <2>5. ZaiKept' /\ OpenAIKept'
    BY <2>1 DEF ZaiKept, OpenAIKept, Replays
  <2> QED
    BY <2>1, <2>3, <2>4, <2>5
<1>3. CASE UNCHANGED vars
  <2> USE <1>3 DEF vars, callVars, openaiVars, anthropicVars
  <2>1. ToldInv'
    <3>1. TextInv' /\ FreshInv' /\ LoneInv'
      BY DEF ToldInv, TextInv, FreshInv, LoneInv
    <3>2. FlowInv'
      <4>1. \A channel : Told(deltas, channel)' = Told(deltas, channel)
        OBVIOUS
      <4>2. \A channel : Left(channel)' = Left(channel) /\ SentOn(channel)' = SentOn(channel)
        BY DEF Left, Due, SentOn
      <4> QED
        BY <4>1, <4>2 DEF ToldInv, FlowInv
    <3> QED
      BY <3>1, <3>2 DEF ToldInv
  <2>2. ContentInv' /\ IndexInv'
    BY DEF ContentInv, IndexInv, Anthropic!OpenBlocks
  <2>3. AllEnvelopes' = AllEnvelopes /\ Kept' = Kept
    BY DEF AllEnvelopes, Kept
  <2>4. AnthropicKept' /\ ZaiKept'
    BY <2>3 DEF AnthropicKept, ZaiKept
  <2>5. OpenAIKept'
    <3>1. ReasoningKept' <=> ReasoningKept
      BY DEF ReasoningKept, Sorted, Labelled
    <3>2. EnvelopeKept' <=> EnvelopeKept
      BY <2>3 DEF EnvelopeKept, Quiet
    <3> QED
      BY <3>1, <3>2 DEF OpenAIKept, Replays
  <2> QED
    BY <2>1, <2>2, <2>4, <2>5
<1> QED
  BY <1>1, <1>2, <1>3 DEF Next

\* One envelope is delivered once.
LEMMA EnvelopeAlone ==
  ASSUME LoneInv, NEW x
  PROVE  LET states == {i \in 1 .. Len(deltas) : deltas[i].kind = "state"} IN
         /\ Envelopes(deltas) = {} => states = {}
         /\ Envelopes(deltas) = {x} => \E i \in 1 .. Len(deltas) : states = {i} /\ deltas[i] = x
<1> DEFINE states == {i \in 1 .. Len(deltas) : deltas[i].kind = "state"}
<1>1. Envelopes(deltas) = {deltas[i] : i \in states}
  BY DEF Envelopes
<1>2. \A i, j \in states : i = j
  BY DEF LoneInv
<1>3. ASSUME Envelopes(deltas) = {x} PROVE \E i \in 1 .. Len(deltas) : states = {i} /\ deltas[i] = x
  <2>1. PICK i \in states : deltas[i] = x
    BY <1>1, <1>3
  <2>2. states = {i} /\ i \in 1 .. Len(deltas)
    BY <1>2, <2>1
  <2> QED
    BY <2>1, <2>2
<1> QED
  BY <1>1, <1>3

\* A call that went well has told everything.
LEMMA AllTold ==
  ASSUME CallInv, ToldInv, pc = "done", err = {}, HasCallback, NEW channel \in Channels
  PROVE  Told(deltas, channel) = SentOn(channel)
<1>1. pending = <<>>
  BY DEF CallInv, PlaceInv
<1>2. Told(pending, channel) = <<>> /\ Due(channel) = <<>>
  BY <1>1, ToldNone DEF Due
<1>3. Left(channel) = <<>>
  BY <1>2, TextJoins DEF Left
<1>4. Told(deltas, channel) \in Text
  BY FlowTyped DEF ToldInv
<1>5. Told(deltas, channel) \o Left(channel) = SentOn(channel)
  BY DEF ToldInv, FlowInv
<1> QED
  BY <1>3, <1>4, <1>5, TextJoins

\* What the deltas of a call that went well keep for replay.
Replayed ==
  LET states == {i \in 1 .. Len(deltas) : deltas[i].kind = "state"} IN
  IF ReplayText = <<>> /\ ReplayBlocks = <<>> THEN states = {}
  ELSE \E i \in 1 .. Len(deltas) :
         /\ states = {i}
         /\ deltas[i].body = ReplayText /\ Blocks(deltas[i]) = ReplayBlocks

\* It is enough that the one envelope has it, and that there is one if there is any.
LEMMA ReplayedOnce ==
  ASSUME LoneInv, NEW x, x.body = ReplayText, Blocks(x) = ReplayBlocks,
         Envelopes(deltas) = IF ReplayText = <<>> /\ ReplayBlocks = <<>> THEN {} ELSE {x}
  PROVE  Replayed
BY EnvelopeAlone DEF Replayed

\* The Z.ai driver.
LEMMA ZaiReplays ==
  ASSUME CallInv, WholeInv, pc = "done", err = {}, HasCallback, Zai
  PROVE  Replayed
<1> DEFINE x == StateDelta(capture.reasoning, <<>>)
<1>1. capture.reasoning = answer.reasoning
  <2>1. Reasoned \in Channels /\ SentOn(Reasoned) = answer.reasoning
    BY DEF Reasoned, Channels, SentOn
  <2>2. Told(deltas, Reasoned) = SentOn(Reasoned)
    BY <2>1, AllTold DEF WholeInv
  <2>3. capture.reasoning = Told(deltas, Reasoned)
    BY DEF WholeInv, ZaiKept
  <2> QED
    BY <2>1, <2>2, <2>3
<1>2. ReplayText = answer.reasoning /\ ReplayBlocks = <<>>
  BY DEF ReplayText, ReplayBlocks
<1>3. x.body = capture.reasoning /\ x.blocks = <<>>
  BY DEF StateDelta, Delta
<1>4. Blocks(x) = <<>>
  BY <1>3, BodiesTyped, NoneTyped DEF Blocks, Bodies
<1>5. AllEnvelopes = IF capture.published THEN {x} ELSE {}
  BY DEF WholeInv, ZaiKept
<1>6. capture.published <=> capture.reasoning # <<>>
  BY DEF WholeInv, ZaiKept
<1>7. AllEnvelopes = Envelopes(deltas)
  BY FewEnvelopes DEF AllEnvelopes, CallInv, PlaceInv
<1> HIDE DEF x
<1> QED
  BY <1>1, <1>2, <1>3, <1>4, <1>5, <1>6, <1>7, ReplayedOnce DEF WholeInv, ToldInv

\* The OpenAI driver.
LEMMA OpenAIReplays ==
  ASSUME CallInv, WholeInv, pc = "done", err = {}, Replays
  PROVE  Replayed
<1> DEFINE x == StateDelta(reasoning.text, reasoning.blocks)
<1>1. ReasoningKept /\ EnvelopeKept
  BY DEF WholeInv, OpenAIKept
<1>2. /\ reasoning.text = answer.reasoning /\ Bodies(reasoning.blocks) = answer.blocks
      /\ answer.blocks = <<>> <=> reasoning.blocks = <<>>
  BY <1>1, BodiesTyped DEF ReasoningKept
<1>3. ReplayText = answer.reasoning /\ ReplayBlocks = answer.blocks
  BY DEF ReplayText, ReplayBlocks, Replays
<1>4. x.body = reasoning.text /\ x.blocks = reasoning.blocks
  BY DEF StateDelta, Delta
<1>5. Blocks(x) = answer.blocks
  BY <1>2, <1>4 DEF Blocks, Bodies, Replays
<1>6. pending = <<>> /\ Kinds(pending) = {}
  BY NoneOrderly DEF CallInv, PlaceInv
<1>7. AllEnvelopes = Envelopes(deltas) /\ (Envelopes(deltas) = {} <=> "state" \notin Kinds(deltas))
  BY <1>6, FewEnvelopes DEF AllEnvelopes
<1>8. Envelopes(deltas) \subseteq {x}
  BY <1>1, <1>7 DEF EnvelopeKept
<1>9. "state" \in Kinds(deltas) <=> ~(reasoning.text = <<>> /\ reasoning.blocks = <<>>)
  BY <1>1, <1>6 DEF EnvelopeKept, Quiet, Replays
<1> HIDE DEF x
<1> QED
  BY <1>2, <1>3, <1>4, <1>5, <1>7, <1>8, <1>9, ReplayedOnce DEF WholeInv, ToldInv

\* The Anthropic driver: once the provider named its reason, every block is complete.
LEMMA AnthropicReplays ==
  ASSUME CallInv, ReasonInv, WholeInv, pc = "done", err = {}, HasCallback, FromAnthropic, answer.reason # Unset
  PROVE  Replayed
<1> DEFINE x == StateDelta(<<>>, Kept)
<1>1. message.stop # Unset
  BY DEF ReasonInv, AnthropicReasonInv
<1>2. \A i \in 1 .. Len(message.content) : message.content[i].raw = message.content[i].body \o message.content[i].sig
  <2>1. Anthropic!OpenBlocks = {} /\ \A i \in 1 .. Len(message.content) : Renewed(message.content[i])
    BY <1>1 DEF WholeInv, ContentInv
  <2> QED
    BY <2>1 DEF Renewed, Anthropic!OpenBlocks
<1>3. Kept = Anthropic!ReasoningSent(message.content)
  <2> DEFINE p == [i \in 1 .. Len(message.content) |->
                     IF message.content[i].type \in Anthropic!ReasoningTypes THEN <<message.content[i].raw>> ELSE <<>>]
             q == [i \in 1 .. Len(message.content) |->
                     IF message.content[i].type \in Anthropic!ReasoningTypes
                     THEN <<message.content[i].body \o message.content[i].sig>> ELSE <<>>]
  <2>1. p = q
    BY <1>2
  <2> QED
    BY <2>1, SameFlatten DEF Kept, Anthropic!marshalProviderReasoning, Anthropic!ReasoningSent
<1>4. Kept = answer.blocks
  BY <1>3 DEF WholeInv, AnthropicKept
<1>5. ReplayText = <<>> /\ ReplayBlocks = answer.blocks
  BY DEF ReplayText, ReplayBlocks
<1>6. x.body = <<>> /\ Blocks(x) = Kept
  BY DEF StateDelta, Delta, Blocks
<1>7. AllEnvelopes = IF Kept = <<>> THEN {} ELSE {x}
  BY DEF WholeInv, AnthropicKept
<1>8. AllEnvelopes = Envelopes(deltas)
  BY FewEnvelopes DEF AllEnvelopes, CallInv, PlaceInv
<1> HIDE DEF x
<1> QED
  BY <1>4, <1>5, <1>6, <1>7, <1>8, ReplayedOnce DEF WholeInv, ToldInv

\* In every state the answer is whole.
LEMMA WholeNow ==
  ASSUME CallInv, ReasonInv, WholeInv
  PROVE  AnswerWhole
<1>1. ASSUME NEW channel \in Channels PROVE IsPrefix(Told(deltas, channel), SentOn(channel))
  <2>1. CASE HasCallback
    BY <2>1, FlowPrefix DEF WholeInv, ToldInv
  <2>2. CASE ~HasCallback
    <3>1. Told(deltas, channel) = <<>>
      BY <2>2, ToldNone DEF WholeInv, ToldInv, FlowInv
    <3>2. SentOn(channel) \in Text
      BY ChannelKinds, CallsSum DEF SentOn, WholeInv, ToldInv, TextInv
    <3>3. <<>> \in Text /\ <<>> \o SentOn(channel) = SentOn(channel)
      BY <3>2, TextJoins
    <3> QED
      BY <3>1, <3>2, <3>3, JoinPrefix
  <2> QED
    BY <2>1, <2>2
<1>2. ASSUME pc = "done", err = {}, HasCallback, answer.reason # Unset
      PROVE  /\ \A channel \in Channels : Told(deltas, channel) = SentOn(channel)
             /\ Replayed
  <2>1. \A channel \in Channels : Told(deltas, channel) = SentOn(channel)
    BY <1>2, AllTold DEF WholeInv
  <2>2. call.driver \in {"openai", "zai", "anthropic"}
    BY DriverAssumption DEF WholeInv
  <2>3. Replayed
    BY <1>2, <2>2, ZaiReplays, OpenAIReplays, AnthropicReplays DEF Replays
  <2> QED
    BY <2>1, <2>3
<1> QED
  BY <1>1, <1>2 DEF AnswerWhole, Replayed, Succeeded, Done

\* What the callback hears of the text, the reasoning and each tool call is a
\* prefix of what the provider sent, in its order, and all of it once the call
\* succeeds (deltasFromChunk, emitEventDelta); the reasoning kept for replay is
\* published in one delta and is all the provider sent, the fragments of
\* interleaved blocks joined to the blocks they belong to (mergeReasoningField,
\* reasoningCapture, marshalProviderReasoning).
THEOREM AnswerAlwaysWhole == Spec => []AnswerWhole
<1>1. CallInv /\ CallInv' /\ UsageInv /\ ReasonInv /\ WholeInv /\ [Next]_vars => WholeInv'
  BY WholeKeeps
<1>2. CallInv /\ ReasonInv /\ WholeInv => AnswerWhole
  BY WholeNow
<1> QED
  BY <1>1, <1>2, WholeStarts, ReasonKeeps, ReasonStarts, UsageKeeps, UsageStarts, Invariant, PTL DEF Spec

=================================================================================

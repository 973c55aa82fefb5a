--------------------------- MODULE ToolCallProofs ---------------------------
(***************************************************************************)
(* The way of a tool call, for any number of calls, fragments, callers and *)
(* tokens.                                                                 *)
(*                                                                         *)
(* Assembly: every allocated call stays in the map, so the cap on the map  *)
(* is a cap on the calls; and below the caps the calls held are the        *)
(* provider's, each under the index the provider last opened it with.      *)
(*                                                                         *)
(* Dispatch: the once flag lets one caller through, the owner; the owner's *)
(* place bounds which goroutines can exist; and a token is held exactly by *)
(* the goroutines that exist.  It implements ToolRound.                    *)
(***************************************************************************)
EXTENDS ToolCallAssembly, ToolDispatch, TLAPS, FiniteSetTheorems, SequenceTheorems,
        WellFoundedInduction

-----------------------------------------------------------------------------
(* Assembly *)

\* Every non-empty set of naturals has a least element.
LEMMA NatMin ==
  ASSUME NEW S \in SUBSET Nat, S # {}
  PROVE  \E x \in S : \A y \in S : x <= y
<1> DEFINE R == OpToRel(<, Nat)
<1>1. IsWellFoundedOn(R, Nat)
  BY NatLessThanWellFounded
<1>2. \A x, y \in Nat : y < x => <<y, x>> \in R
  BY DEF OpToRel
<1> HIDE DEF R
<1>3. PICK x \in S : \A y \in S : ~(<<y, x>> \in R)
  BY <1>1, WFMin
<1>4. \A y \in S : ~(y < x)
  BY <1>2, <1>3
<1> QED
  BY <1>4

\* A set of naturals with 0 and with the successor of each member is Nat.
LEMMA Induction ==
  ASSUME NEW S, 0 \in S, \A n \in Nat : n \in S => n + 1 \in S
  PROVE  Nat \subseteq S
<1> DEFINE T == Nat \ S
<1>1. SUFFICES ASSUME T # {} PROVE FALSE
  OBVIOUS
<1>2. PICK x \in T : \A y \in T : x <= y
  <2>1. T \in SUBSET Nat
    OBVIOUS
  <2> HIDE DEF T
  <2> QED
    BY <1>1, <2>1, NatMin
<1>3. x # 0
  BY <1>2
<1>4. x - 1 \in Nat /\ (x - 1) + 1 = x /\ ~(x <= x - 1)
  BY <1>2, <1>3
<1>5. x - 1 \in S
  BY <1>2, <1>4
<1> QED
  BY <1>2, <1>4, <1>5

\* Max of a set of bounded naturals is its greatest member.
LEMMA MaxProperty ==
  ASSUME NEW n \in Nat, NEW S \in SUBSET (0 .. n), S # {}
  PROVE  Max(S) \in S /\ \A y \in S : y <= Max(S)
<1> DEFINE T == { n - k : k \in S }
<1>1. T \in SUBSET Nat /\ T # {}
  <2>1. \A k \in S : n - k \in Nat
    OBVIOUS
  <2>2. PICK k \in S : TRUE
    OBVIOUS
  <2>3. n - k \in T
    BY <2>2
  <2> QED
    BY <2>1, <2>3
<1>2. PICK t \in T : \A u \in T : t <= u
  BY <1>1, NatMin
<1>3. PICK x \in S : t = n - x
  OBVIOUS
<1>4. ASSUME NEW y \in S PROVE x >= y
  <2>1. n - x <= n - y
    BY <1>2, <1>3
  <2> QED
    BY <2>1
<1>5. \E z \in S : \A y \in S : z >= y
  BY <1>4
<1> QED
  BY <1>5 DEF Max

-----------------------------------------------------------------------------
(* The size of the arguments *)

\* The sum over the positions in T, given the sums over fewer of them.
Summed(a, g, T) == IF T = {} THEN 0 ELSE g[T \ {Max(T)}] + a[Max(T)].size

\* There is a sum over every set of positions.
LEMMA SumExists ==
  ASSUME NEW a, NEW n \in Nat
  PROVE  \E g : g = [ T \in SUBSET (1 .. n) |-> Summed(a, g, T) ]
<1> DEFINE Solves(g, m) == g = [ T \in SUBSET (1 .. m) |-> Summed(a, g, T) ]
           P == { m \in Nat : \E g : Solves(g, m) }
<1>1. 0 \in P
  <2> DEFINE g == [ T \in SUBSET (1 .. 0) |-> 0 ]
  <2>1. \A T \in SUBSET (1 .. 0) : T = {}
    OBVIOUS
  <2>2. \A T \in SUBSET (1 .. 0) : g[T] = Summed(a, g, T)
    BY <2>1 DEF Summed
  <2>3. g = [ T \in SUBSET (1 .. 0) |-> g[T] ]
    OBVIOUS
  <2> HIDE DEF g
  <2>4. Solves(g, 0)
    BY <2>2, <2>3
  <2> QED
    BY <2>4
<1>2. ASSUME NEW m \in Nat, m \in P PROVE m + 1 \in P
  <2>1. PICK g : Solves(g, m)
    BY <1>2
  <2> DEFINE h == [ T \in SUBSET (1 .. (m + 1)) |->
                      IF m + 1 \in T THEN g[T \ {m + 1}] + a[m + 1].size
                      ELSE g[T] ]
  <2>2. \A T \in SUBSET (1 .. m) : g[T] = Summed(a, g, T)
    BY <2>1
  <2>3. ASSUME NEW T \in SUBSET (1 .. (m + 1)) PROVE h[T] = Summed(a, h, T)
    <3>1. CASE m + 1 \in T
      <4>1. Max(T) = m + 1
        <5>1. T \in SUBSET (0 .. (m + 1)) /\ T # {} /\ m + 1 \in Nat
          BY <3>1
        <5>2. Max(T) \in T /\ m + 1 <= Max(T)
          BY <3>1, <5>1, MaxProperty
        <5>3. Max(T) \in 1 .. (m + 1)
          BY <5>2
        <5> HIDE DEF h
        <5> QED
          BY <5>2, <5>3
      <4>2. T # {} /\ T \ {m + 1} \in SUBSET (1 .. (m + 1)) /\ m + 1 \notin T \ {m + 1}
        BY <3>1
      <4>3. h[T \ {m + 1}] = g[T \ {m + 1}]
        BY <4>2
      <4>4. h[T] = g[T \ {m + 1}] + a[m + 1].size
        BY <3>1
      <4> HIDE DEF h
      <4> QED
        BY <4>1, <4>2, <4>3, <4>4 DEF Summed
    <3>2. CASE m + 1 \notin T
      <4>1. T \in SUBSET (1 .. m)
        BY <3>2
      <4>2. h[T] = Summed(a, g, T)
        BY <2>2, <3>2, <4>1
      <4>3. T # {} => h[T \ {Max(T)}] = g[T \ {Max(T)}]
        <5>1. T \ {Max(T)} \in SUBSET (1 .. (m + 1)) /\ m + 1 \notin T \ {Max(T)}
          BY <3>2
        <5> QED
          BY <5>1
      <4> HIDE DEF h
      <4> QED
        BY <4>2, <4>3 DEF Summed
    <3> QED
      BY <3>1, <3>2
  <2>4. h = [ T \in SUBSET (1 .. (m + 1)) |-> h[T] ]
    OBVIOUS
  <2> HIDE DEF h
  <2>5. Solves(h, m + 1)
    BY <2>3, <2>4
  <2> QED
    BY <2>5
<1>3. Nat \subseteq P
  <2> HIDE DEF P
  <2> QED
    BY <1>1, <1>2, Induction
<1> QED
  BY <1>3

\* The size of the arguments is the sum of the fragments one by one.
LEMMA SizeUnrolls ==
  ASSUME NEW a \in Seq(Fragment)
  PROVE  \E w : /\ w[0] = 0
                /\ \A k \in 0 .. (Len(a) - 1) : w[k + 1] = w[k] + a[k + 1].size
                /\ Size(a) = w[Len(a)]
<1> DEFINE n == Len(a)
           Solves(g) == g = [ T \in SUBSET (1 .. n) |-> Summed(a, g, T) ]
           iter == CHOOSE g : Solves(g)
           w == [ k \in 0 .. n |-> iter[1 .. k] ]
<1>1. n \in Nat /\ DOMAIN a = 1 .. n
  OBVIOUS
<1>2. Solves(iter)
  <2>1. \E g : Solves(g)
    BY <1>1, SumExists
  <2> QED
    BY <2>1
<1>3. Size(a) = iter[1 .. n]
  <2>1. Size(a) = (CHOOSE g : g = [ T \in SUBSET (DOMAIN a) |-> Summed(a, g, T) ])[DOMAIN a]
    BY DEF Size, FoldLeft, MapThenFoldSet, Summed
  <2> QED
    BY <1>1, <2>1
<1> HIDE DEF iter, n
<1>4. \A T \in SUBSET (1 .. n) : iter[T] = Summed(a, iter, T)
  BY <1>2
<1> HIDE DEF Solves
<1>5. \A k \in 0 .. n : w[k] = iter[1 .. k]
  OBVIOUS
<1> HIDE DEF w
<1>6. w[0] = 0
  <2>1. 1 .. 0 = {} /\ {} \in SUBSET (1 .. n) /\ 0 \in 0 .. n
    BY <1>1
  <2>2. iter[{}] = 0
    BY <1>4, <2>1 DEF Summed
  <2> QED
    BY <1>5, <2>1, <2>2
<1>7. ASSUME NEW k \in 0 .. (n - 1) PROVE w[k + 1] = w[k] + a[k + 1].size
  <2> DEFINE T == 1 .. (k + 1)
  <2>1. k \in Nat /\ k \in 0 .. n /\ k + 1 \in 0 .. n /\ k + 1 <= n
    BY <1>1
  <2>2. T # {} /\ T \in SUBSET (1 .. n) /\ T \in SUBSET (0 .. (k + 1)) /\ k + 1 \in T
    <3>1. k + 1 \in T
      BY <2>1
    <3>2. \A x \in T : x \in 1 .. n /\ x \in 0 .. (k + 1)
      BY <1>1, <2>1
    <3> HIDE DEF T
    <3> QED
      BY <3>1, <3>2
  <2>3. Max(T) \in T /\ k + 1 <= Max(T)
    <3> HIDE DEF T
    <3>1. k + 1 \in Nat
      BY <2>1
    <3> QED
      BY <2>2, <3>1, MaxProperty
  <2>4. Max(T) = k + 1
    BY <2>1, <2>3
  <2>5. T \ {k + 1} = 1 .. k
    BY <2>1
  <2> HIDE DEF T
  <2>6. iter[T] = iter[T \ {Max(T)}] + a[Max(T)].size
    BY <1>4, <2>2 DEF Summed
  <2> QED
    BY <1>5, <2>1, <2>4, <2>5, <2>6 DEF T
<1>8. w[n] = iter[1 .. n]
  BY <1>1, <1>5
<1> QED
  BY <1>3, <1>6, <1>7, <1>8 DEF n

\* Fragments have sizes.
LEMMA SizeType ==
  ASSUME NEW a \in Seq(Fragment)
  PROVE  Size(a) \in Nat
<1>1. PICK w : /\ w[0] = 0
               /\ \A k \in 0 .. (Len(a) - 1) : w[k + 1] = w[k] + a[k + 1].size
               /\ Size(a) = w[Len(a)]
  BY SizeUnrolls
<1> DEFINE P == { k \in Nat : k <= Len(a) => w[k] \in Nat }
<1>2. Len(a) \in Nat /\ \A k \in 1 .. Len(a) : a[k].size \in Nat
  <2>1. \A k \in 1 .. Len(a) : a[k] \in Fragment
    OBVIOUS
  <2>2. \A f \in Fragment : f.size \in Sizes
    BY DEF Fragment
  <2>3. Sizes \subseteq Nat
    BY AssemblyAssumption
  <2>4. Len(a) \in Nat
    OBVIOUS
  <2> QED
    BY <2>1, <2>2, <2>3, <2>4
<1>3. 0 \in P
  BY <1>1
<1>4. ASSUME NEW k \in Nat, k \in P PROVE k + 1 \in P
  <2> SUFFICES ASSUME k + 1 <= Len(a) PROVE w[k + 1] \in Nat
    OBVIOUS
  <2>1. k \in 0 .. (Len(a) - 1) /\ k + 1 \in 1 .. Len(a) /\ k <= Len(a)
    BY <1>2
  <2>2. w[k] \in Nat
    BY <1>4, <2>1
  <2>3. w[k + 1] = w[k] + a[k + 1].size
    BY <1>1, <2>1
  <2> QED
    BY <1>2, <2>1, <2>2, <2>3
<1>5. Nat \subseteq P
  <2> HIDE DEF P
  <2> QED
    BY <1>3, <1>4, Induction
<1>6. w[Len(a)] \in Nat
  BY <1>2, <1>5
<1> QED
  BY <1>1, <1>6

\* A further fragment adds its size.
LEMMA SizeAppend ==
  ASSUME NEW a \in Seq(Fragment), NEW f \in Fragment
  PROVE  Size(Append(a, f)) = Size(a) + f.size
<1> DEFINE b == Append(a, f)
<1>1. /\ b \in Seq(Fragment) /\ Len(a) \in Nat /\ Len(b) = Len(a) + 1
      /\ (\A k \in 1 .. Len(a) : b[k] = a[k]) /\ b[Len(a) + 1] = f
  OBVIOUS
<1> HIDE DEF b
<1>2. PICK w : /\ w[0] = 0
               /\ \A k \in 0 .. (Len(a) - 1) : w[k + 1] = w[k] + a[k + 1].size
               /\ Size(a) = w[Len(a)]
  BY SizeUnrolls
<1>3. PICK v : /\ v[0] = 0
               /\ \A k \in 0 .. (Len(b) - 1) : v[k + 1] = v[k] + b[k + 1].size
               /\ Size(b) = v[Len(b)]
  BY <1>1, SizeUnrolls
<1> DEFINE P == { k \in Nat : k <= Len(a) => v[k] = w[k] }
<1>4. 0 \in P
  BY <1>2, <1>3
<1>5. ASSUME NEW k \in Nat, k \in P PROVE k + 1 \in P
  <2> SUFFICES ASSUME k + 1 <= Len(a) PROVE v[k + 1] = w[k + 1]
    OBVIOUS
  <2>1. k \in 0 .. (Len(a) - 1) /\ k \in 0 .. (Len(b) - 1) /\ k + 1 \in 1 .. Len(a) /\ k <= Len(a)
    BY <1>1
  <2>2. v[k] = w[k]
    BY <1>5, <2>1
  <2>3. w[k + 1] = w[k] + a[k + 1].size
    BY <1>2, <2>1
  <2>4. v[k + 1] = v[k] + b[k + 1].size
    BY <1>3, <2>1
  <2>5. b[k + 1] = a[k + 1]
    BY <1>1, <2>1
  <2> QED
    BY <2>2, <2>3, <2>4, <2>5
<1>6. Nat \subseteq P
  <2> HIDE DEF P
  <2> QED
    BY <1>4, <1>5, Induction
<1>7. v[Len(a)] = w[Len(a)]
  BY <1>1, <1>6
<1>8. v[Len(a) + 1] = v[Len(a)] + b[Len(a) + 1].size
  <2>1. Len(a) \in 0 .. (Len(b) - 1)
    BY <1>1
  <2> QED
    BY <1>3, <2>1
<1>9. Size(b) = v[Len(a) + 1]
  BY <1>1, <1>3
<1> QED
  BY <1>1, <1>2, <1>7, <1>8, <1>9 DEF b

\* No fragments have size 0.
LEMMA SizeEmpty == Size(<<>>) = 0
<1> DEFINE a == <<>>
<1>1. a \in Seq(Fragment) /\ Len(a) = 0
  OBVIOUS
<1> HIDE DEF a
<1>2. PICK w : w[0] = 0 /\ Size(a) = w[Len(a)]
  BY <1>1, SizeUnrolls
<1> QED
  BY <1>1, <1>2 DEF a

-----------------------------------------------------------------------------
(* The calls map *)

\* What is held: every allocated call is in the map, so the cap on the map is a cap
\* on the calls.
Held ==
  /\ heap \in Seq(ToolCall) /\ Len(heap) <= MaxToolCallsPerRound
  /\ DOMAIN calls \subseteq Nat
  /\ \A index \in DOMAIN calls : calls[index] \in DOMAIN heap
  /\ \E n \in Nat : DOMAIN calls \subseteq 0 .. n
  /\ \A ref \in DOMAIN heap : \E index \in DOMAIN calls : calls[index] = ref

\* A map that has the calls where they were.
Covers(map) ==
  /\ DOMAIN calls \subseteq DOMAIN map /\ DOMAIN map \subseteq Nat
  /\ \A index \in DOMAIN calls : map[index] = calls[index]
  /\ \A index \in DOMAIN map : map[index] \in DOMAIN heap
  /\ \E n \in Nat : DOMAIN map \subseteq 0 .. n

\* Put adds one entry.
LEMMA PutEntry ==
  ASSUME NEW map, NEW index, NEW ref
  PROVE  /\ DOMAIN Put(map, index, ref) = DOMAIN map \cup {index}
         /\ Put(map, index, ref)[index] = ref
         /\ \A k \in DOMAIN map : k # index => Put(map, index, ref)[k] = map[k]
  BY DEF Put

\* Maps with bounded indexes are finite.
LEMMA MapFinite ==
  ASSUME NEW map, \E n \in Nat : DOMAIN map \subseteq 0 .. n
  PROVE  IsFiniteSet(DOMAIN map) /\ Cardinality(DOMAIN map) \in Nat
<1>1. PICK n \in Nat : DOMAIN map \subseteq 0 .. n
  OBVIOUS
<1>2. IsFiniteSet(0 .. n)
  BY FS_Interval
<1>3. IsFiniteSet(DOMAIN map)
  BY <1>1, <1>2, FS_Subset
<1> QED
  BY <1>3, FS_CardinalityType

\* unusedToolCallIndex is behind every index in use.
LEMMA UnusedIndex ==
  ASSUME NEW n \in Nat, DOMAIN calls \subseteq 0 .. n
  PROVE  unusedToolCallIndex \in 0 .. (n + 1) /\ unusedToolCallIndex \notin DOMAIN calls
<1> DEFINE D == DOMAIN calls \cup {0}
           top == Max(D)
           Free(free) == /\ \A index \in DOMAIN calls : index < free
                         /\ free > 0 => free - 1 \in DOMAIN calls
<1>1. D \in SUBSET (0 .. n) /\ D # {}
  OBVIOUS
<1>2. top \in D /\ \A y \in D : y <= top
  <2> HIDE DEF D
  <2> QED
    BY <1>1, MaxProperty
<1> HIDE DEF top
<1>3. top \in 0 .. n
  BY <1>1, <1>2
<1>4. \E free \in 0 .. top + 1 : Free(free)
  <2>1. CASE DOMAIN calls = {}
    <3>1. Free(0) /\ 0 \in 0 .. top + 1
      BY <1>3, <2>1
    <3> HIDE DEF Free
    <3> QED
      BY <3>1
  <2>2. CASE DOMAIN calls # {}
    <3>1. top \in DOMAIN calls
      <4>1. PICK y \in DOMAIN calls : TRUE
        BY <2>2
      <4>2. y \in Nat /\ y <= top
        BY <1>2
      <4>3. top = 0 => y = 0
        BY <4>2
      <4> QED
        BY <1>2, <4>1, <4>3
    <3>2. \A index \in DOMAIN calls : index < top + 1
      <4>1. \A index \in DOMAIN calls : index \in Nat /\ index <= top
        BY <1>2
      <4> QED
        BY <1>3, <4>1
    <3>3. (top + 1) - 1 = top /\ top + 1 \in 0 .. top + 1
      BY <1>3
    <3>4. Free(top + 1)
      BY <3>1, <3>2, <3>3
    <3> HIDE DEF Free
    <3> QED
      BY <3>3, <3>4
  <2> QED
    BY <2>1, <2>2
<1>5. unusedToolCallIndex = CHOOSE free \in 0 .. top + 1 : Free(free)
  BY DEF unusedToolCallIndex, top
<1> HIDE DEF Free
<1>6. unusedToolCallIndex \in 0 .. top + 1 /\ Free(unusedToolCallIndex)
  BY <1>4, <1>5
<1>7. \A index \in DOMAIN calls : index < unusedToolCallIndex
  BY <1>6 DEF Free
<1>8. unusedToolCallIndex \notin DOMAIN calls
  <2> SUFFICES ASSUME unusedToolCallIndex \in DOMAIN calls PROVE FALSE
    OBVIOUS
  <2>1. unusedToolCallIndex < unusedToolCallIndex
    BY <1>7
  <2> QED
    BY <1>3, <1>6, <2>1
<1> QED
  BY <1>3, <1>6, <1>8

\* Moving a call to an unused index keeps all of them where they were.
LEMMA MovedAway ==
  ASSUME Held, NEW index \in DOMAIN calls
  PROVE  LET moved == Put(calls, unusedToolCallIndex, calls[index]) IN
         /\ Covers(moved) /\ Cardinality(DOMAIN moved) = Cardinality(DOMAIN calls) + 1
         /\ \E k \in DOMAIN moved : k # index /\ moved[k] = calls[index]
<1> DEFINE u == unusedToolCallIndex
           moved == Put(calls, u, calls[index])
<1>1. PICK n \in Nat : DOMAIN calls \subseteq 0 .. n
  BY DEF Held
<1>2. u \in 0 .. (n + 1) /\ u \notin DOMAIN calls
  BY <1>1, UnusedIndex
<1> HIDE DEF u
<1>3. /\ DOMAIN moved = DOMAIN calls \cup {u} /\ moved[u] = calls[index]
      /\ \A k \in DOMAIN calls : k # u => moved[k] = calls[k]
  BY DEF Put
<1> HIDE DEF moved
<1>4. Covers(moved)
  <2>1. DOMAIN moved \subseteq 0 .. (n + 1) /\ n + 1 \in Nat
    BY <1>1, <1>2, <1>3
  <2>2. \A k \in DOMAIN moved : moved[k] \in DOMAIN heap
    BY <1>2, <1>3 DEF Held
  <2>3. DOMAIN moved \subseteq Nat /\ DOMAIN calls \subseteq DOMAIN moved
    BY <1>3, <2>1
  <2>4. \A k \in DOMAIN calls : moved[k] = calls[k]
    BY <1>2, <1>3
  <2> QED
    BY <2>1, <2>2, <2>3, <2>4 DEF Covers
<1>5. IsFiniteSet(DOMAIN calls)
  BY <1>1, MapFinite
<1>6. Cardinality(DOMAIN moved) = Cardinality(DOMAIN calls) + 1
  BY <1>2, <1>3, <1>5, FS_AddElement
<1>7. \E k \in DOMAIN moved : k # index /\ moved[k] = calls[index]
  BY <1>2, <1>3
<1> QED
  BY <1>4, <1>6, <1>7 DEF moved, u

\* A call with its first fragment.
NewCall(id, fragment) == Extend([id |-> NoID, arguments |-> <<>>], id, fragment)

\* A delta goes to the call at its index,
Extends(index, id, fragment) ==
  /\ index \in DOMAIN calls /\ ~isDifferentCallAtSameIndex(index, id)
  /\ heap' = [heap EXCEPT ![calls[index]] = Extend(@, id, fragment)]
  /\ calls' = calls

\* or opens a call, if the cap allows.
Allocates(index, id, fragment, map) ==
  /\ index \in DOMAIN calls => isDifferentCallAtSameIndex(index, id)
  /\ Covers(map)
  /\ Cardinality(DOMAIN map) =
       IF index \in DOMAIN calls THEN Cardinality(DOMAIN calls) + 1 ELSE Cardinality(DOMAIN calls)
  /\ index \notin DOMAIN calls => map = calls
  /\ index \in DOMAIN calls => \E k \in DOMAIN map : k # index /\ map[k] = calls[index]
  /\ \/ AtCap(map) /\ calls' = map /\ heap' = heap
     \/ /\ ~AtCap(map)
        /\ heap' = Append(heap, NewCall(id, fragment))
        /\ calls' = Put(map, index, Len(heap) + 1)

\* A delta does one or the other.
LEMMA Consumed ==
  ASSUME Held, NEW index, NEW id, NEW fragment, consumeToolCallDelta(index, id, fragment)
  PROVE  \/ Extends(index, id, fragment)
         \/ \E map : Allocates(index, id, fragment, map)
<1> DEFINE isNew == isDifferentCallAtSameIndex(index, id)
           moved == IF isNew THEN Put(calls, unusedToolCallIndex, calls[index]) ELSE calls
<1>1. CASE index \in DOMAIN calls /\ ~isNew
  BY <1>1 DEF consumeToolCallDelta, Extends
<1>2. CASE ~(index \in DOMAIN calls /\ ~isNew)
  <2>1. isNew <=> index \in DOMAIN calls
    BY <1>2 DEF isDifferentCallAtSameIndex
  <2>2. /\ Covers(moved)
        /\ Cardinality(DOMAIN moved) =
             IF index \in DOMAIN calls THEN Cardinality(DOMAIN calls) + 1
             ELSE Cardinality(DOMAIN calls)
        /\ index \in DOMAIN calls => \E k \in DOMAIN moved : k # index /\ moved[k] = calls[index]
    <3>1. CASE isNew
      BY <2>1, <3>1, MovedAway
    <3>2. CASE ~isNew
      <4>1. Covers(calls)
        BY DEF Covers, Held
      <4> QED
        BY <2>1, <3>2, <4>1
    <3> QED
      BY <3>1, <3>2
  <2>3. \/ AtCap(moved) /\ calls' = moved /\ heap' = heap
        \/ /\ ~AtCap(moved)
           /\ heap' = Append(heap, NewCall(id, fragment))
           /\ calls' = Put(moved, index, Len(heap) + 1)
    BY <1>2 DEF consumeToolCallDelta, NewCall
  <2>4. index \notin DOMAIN calls => moved = calls
    BY <2>1
  <2> HIDE DEF moved
  <2>5. Allocates(index, id, fragment, moved)
    BY <2>1, <2>2, <2>3, <2>4 DEF Allocates
  <2> QED
    BY <2>5
<1> QED
  BY <1>1, <1>2

\* Extended calls are calls.
LEMMA ExtendType ==
  ASSUME NEW call \in ToolCall, NEW id \in IDs \cup {NoID}, NEW fragment \in Fragment
  PROVE  Extend(call, id, fragment) \in ToolCall
<1>1. call.arguments \in Seq(Fragment) /\ call.id \in IDs \cup {NoID}
  BY DEF ToolCall
<1>2. Append(call.arguments, fragment) \in Seq(Fragment)
  BY <1>1
<1> QED
  BY <1>1, <1>2 DEF Extend, ToolCall

\* So are new ones.
LEMMA NewCallType ==
  ASSUME NEW id \in IDs \cup {NoID}, NEW fragment \in Fragment
  PROVE  NewCall(id, fragment) \in ToolCall
<1>1. [id |-> NoID, arguments |-> <<>>] \in ToolCall
  BY DEF ToolCall
<1> QED
  BY <1>1, ExtendType DEF NewCall

\* A map that refers to every allocated call has as many entries.
LEMMA MapCounts ==
  ASSUME NEW map, \E n \in Nat : DOMAIN map \subseteq 0 .. n, NEW n \in Nat,
         \A ref \in 1 .. n : \E index \in DOMAIN map : map[index] = ref
  PROVE  n <= Cardinality(DOMAIN map)
<1> DEFINE D == { index \in DOMAIN map : map[index] \in 1 .. n }
           f == [ index \in D |-> map[index] ]
<1>1. IsFiniteSet(DOMAIN map) /\ Cardinality(DOMAIN map) \in Nat
  BY MapFinite
<1>2. D \in SUBSET (DOMAIN map)
  OBVIOUS
<1>3. IsFiniteSet(D) /\ Cardinality(D) <= Cardinality(DOMAIN map) /\ Cardinality(D) \in Nat
  <2> HIDE DEF D
  <2>1. IsFiniteSet(D) /\ Cardinality(D) <= Cardinality(DOMAIN map)
    BY <1>1, <1>2, FS_Subset
  <2> QED
    BY <2>1, FS_CardinalityType
<1>4. f \in Surjection(D, 1 .. n)
  <2>1. f \in [D -> 1 .. n]
    OBVIOUS
  <2>2. \A ref \in 1 .. n : \E index \in D : f[index] = ref
    OBVIOUS
  <2> HIDE DEF f, D
  <2> QED
    BY <2>1, <2>2 DEF Surjection
<1>5. Cardinality(1 .. n) = n
  <2>1. Cardinality(1 .. n) = IF 1 > n THEN 0 ELSE n - 1 + 1
    BY FS_Interval
  <2> QED
    BY <2>1
<1> HIDE DEF f, D
<1>6. Cardinality(1 .. n) <= Cardinality(D)
  BY <1>3, <1>4, FS_Surjection
<1> QED
  BY <1>1, <1>3, <1>5, <1>6

-----------------------------------------------------------------------------
(* The steps *)

\* Below the caps nothing is dropped, and the map follows the provider.
Follows ==
  BelowCaps /\ careless # {"indexes", "ids"} =>
    /\ heap = sent
    /\ Cardinality(DOMAIN calls) <= Len(sent)
    /\ \A index \in Indexes :
         open[index] # 0 => index \in DOMAIN calls /\ calls[index] = open[index]
    /\ "indexes" \notin careless =>
         \A index \in DOMAIN calls : index \in Indexes /\ open[index] # 0

\* The inductive invariant of assembly.
AssemblyInv ==
  /\ AssemblyTypeOK
  /\ Held
  /\ "ids" \notin careless => \A k \in DOMAIN sent : sent[k].id # NoID
  /\ Follows

\* consumeToolCallDelta keeps the map and the calls together.
LEMMA HeldStep ==
  ASSUME Held, NEW index \in Indexes, NEW id \in IDs \cup {NoID}, NEW fragment \in Fragment,
         consumeToolCallDelta(index, id, fragment)
  PROVE  Held'
<1>1. /\ heap \in Seq(ToolCall) /\ Len(heap) \in Nat /\ Len(heap) <= MaxToolCallsPerRound
      /\ DOMAIN heap = 1 .. Len(heap)
      /\ \A k \in DOMAIN calls : calls[k] \in DOMAIN heap
      /\ \A ref \in DOMAIN heap : \E k \in DOMAIN calls : calls[k] = ref
  BY DEF Held
<1>2. index \in Nat /\ MaxToolCallsPerRound \in Nat
  BY AssemblyAssumption
<1>3. CASE Extends(index, id, fragment)
  <2> DEFINE r == calls[index]
  <2>1. /\ r \in DOMAIN heap /\ calls' = calls
        /\ heap' = [heap EXCEPT ![r] = Extend(@, id, fragment)]
    BY <1>1, <1>3 DEF Extends
  <2>2. Extend(heap[r], id, fragment) \in ToolCall
    <3>1. heap[r] \in ToolCall
      BY <1>1, <2>1
    <3> QED
      BY <3>1, ExtendType
  <2> HIDE DEF r
  <2>3. heap' \in Seq(ToolCall) /\ Len(heap') = Len(heap) /\ DOMAIN heap' = DOMAIN heap
    BY <1>1, <2>1, <2>2
  <2> QED
    BY <1>1, <2>1, <2>3 DEF Held
<1>4. ASSUME NEW map, Allocates(index, id, fragment, map) PROVE Held'
  <2>1. PICK n \in Nat : DOMAIN map \subseteq 0 .. n
    BY <1>4 DEF Allocates, Covers
  <2>2. /\ DOMAIN map \subseteq Nat /\ DOMAIN calls \subseteq DOMAIN map
        /\ \A k \in DOMAIN calls : map[k] = calls[k]
        /\ \A k \in DOMAIN map : map[k] \in DOMAIN heap
    BY <1>4 DEF Allocates, Covers
  <2>3. \A ref \in DOMAIN heap : \E k \in DOMAIN map : map[k] = ref
    BY <1>1, <2>2
  <2>4. CASE calls' = map /\ heap' = heap
    BY <1>1, <2>1, <2>2, <2>3, <2>4 DEF Held
  <2>5. CASE ~AtCap(map) /\ heap' = Append(heap, NewCall(id, fragment))
               /\ calls' = Put(map, index, Len(heap) + 1)
    <3> DEFINE ref == Len(heap) + 1
    <3>1. Len(heap) + 1 <= MaxToolCallsPerRound
      <4>1. Len(heap) <= Cardinality(DOMAIN map)
        BY <1>1, <2>1, <2>3, MapCounts
      <4>2. Cardinality(DOMAIN map) \in Nat
        BY <2>1, MapFinite
      <4>3. ~(Cardinality(DOMAIN map) >= MaxToolCallsPerRound)
        BY <2>5 DEF AtCap
      <4> QED
        BY <1>1, <1>2, <4>1, <4>2, <4>3
    <3>2. NewCall(id, fragment) \in ToolCall
      BY NewCallType
    <3>3. /\ heap' \in Seq(ToolCall) /\ Len(heap') = ref /\ DOMAIN heap' = DOMAIN heap \cup {ref}
          /\ ref \notin DOMAIN heap
      BY <1>1, <2>5, <3>2
    <3>4. /\ DOMAIN calls' = DOMAIN map \cup {index} /\ calls'[index] = ref
          /\ \A k \in DOMAIN map : k # index => calls'[k] = map[k]
      BY <2>5 DEF Put
    <3> HIDE DEF ref
    <3>5. DOMAIN calls' \subseteq Nat
      BY <1>2, <2>2, <3>4
    <3>6. \E m \in Nat : DOMAIN calls' \subseteq 0 .. m
      <4> DEFINE m == n + index
      <4>1. m \in Nat /\ \A k \in 0 .. n : k \in 0 .. m
        BY <1>2
      <4>2. index \in 0 .. m
        BY <1>2
      <4> HIDE DEF m
      <4>3. DOMAIN calls' \subseteq 0 .. m
        BY <2>1, <3>4, <4>1, <4>2
      <4> QED
        BY <4>1, <4>3
    <3>7. \A k \in DOMAIN calls' : calls'[k] \in DOMAIN heap'
      BY <2>2, <3>3, <3>4
    <3>8. ASSUME NEW r \in DOMAIN heap' PROVE \E k \in DOMAIN calls' : calls'[k] = r
      <4>1. CASE r = ref
        BY <3>4, <4>1
      <4>2. CASE r # ref
        <5>1. r \in DOMAIN heap
          BY <3>3, <4>2
        <5>2. CASE index \notin DOMAIN calls
          <6>1. map = calls
            BY <1>4, <5>2 DEF Allocates
          <6>2. PICK k \in DOMAIN map : map[k] = r
            BY <2>3, <5>1
          <6>3. k # index
            BY <5>2, <6>1
          <6> QED
            BY <3>4, <6>2, <6>3
        <5>3. CASE index \in DOMAIN calls
          <6>1. PICK u \in DOMAIN map : u # index /\ map[u] = calls[index]
            BY <1>4, <5>3 DEF Allocates
          <6>2. PICK k \in DOMAIN map : map[k] = r
            BY <2>3, <5>1
          <6>3. k = index => map[u] = r
            BY <2>2, <5>3, <6>1, <6>2
          <6> QED
            BY <3>4, <6>1, <6>2, <6>3
        <5> QED
          BY <5>2, <5>3
      <4> QED
        BY <4>1, <4>2
    <3> QED
      BY <3>1, <3>3, <3>5, <3>6, <3>7, <3>8, <1>1, <2>5 DEF Held, ref
  <2> QED
    BY <1>4, <2>4, <2>5 DEF Allocates
<1> QED
  BY <1>3, <1>4, Consumed

\* A call is its id and its arguments.
LEMMA CallParts ==
  ASSUME NEW c \in ToolCall
  PROVE  /\ c.id \in IDs \cup {NoID} /\ c.arguments \in Seq(Fragment)
         /\ \A f : [c EXCEPT !.arguments = Append(@, f)]
                    = [id |-> c.id, arguments |-> Append(c.arguments, f)]
  BY DEF ToolCall

\* A first fragment keeps the provider below the caps only if it was below them.
LEMMA BelowOpened ==
  ASSUME NEW s \in Seq(ToolCall), NEW c \in ToolCall, sent = s, sent' = Append(s, c), BelowCaps'
  PROVE  BelowCaps /\ Len(s) + 1 < MaxToolCallsPerRound /\ Size(c.arguments) <= MaxArguments
<1>1. /\ Len(s) \in Nat /\ Len(Append(s, c)) = Len(s) + 1
      /\ \A x \in ToSet(s) \cup {c} : x \in ToSet(Append(s, c))
  <2>1. /\ Len(s) \in Nat /\ Len(Append(s, c)) = Len(s) + 1
        /\ DOMAIN Append(s, c) = 1 .. (Len(s) + 1) /\ DOMAIN s = 1 .. Len(s)
        /\ (\A k \in DOMAIN s : Append(s, c)[k] = s[k]) /\ Append(s, c)[Len(s) + 1] = c
    OBVIOUS
  <2> QED
    BY <2>1 DEF ToSet
<1>2. /\ Len(Append(s, c)) < MaxToolCallsPerRound
      /\ \A x \in ToSet(Append(s, c)) : Size(x.arguments) <= MaxArguments
  BY DEF BelowCaps
<1>3. MaxToolCallsPerRound \in Nat
  BY AssemblyAssumption
<1>4. Len(s) + 1 < MaxToolCallsPerRound /\ Len(s) < MaxToolCallsPerRound
  BY <1>1, <1>2, <1>3
<1>5. \A x \in ToSet(s) \cup {c} : Size(x.arguments) <= MaxArguments
  BY <1>1, <1>2
<1> QED
  BY <1>4, <1>5 DEF BelowCaps

\* So does a further one.
LEMMA BelowContinued ==
  ASSUME NEW s \in Seq(ToolCall), NEW k \in DOMAIN s, NEW f \in Fragment, sent = s,
         sent' = [s EXCEPT ![k].arguments = Append(@, f)], BelowCaps'
  PROVE  BelowCaps /\ Size(s[k].arguments) + f.size <= MaxArguments
<1> DEFINE t == [s EXCEPT ![k].arguments = Append(@, f)]
           a == s[k].arguments
<1>1. s[k] \in ToolCall /\ a \in Seq(Fragment)
  <2>1. s[k] \in ToolCall
    OBVIOUS
  <2> QED
    BY <2>1, CallParts
<1>2. /\ Len(t) = Len(s) /\ DOMAIN t = DOMAIN s /\ DOMAIN s = 1 .. Len(s)
      /\ t[k] = [s[k] EXCEPT !.arguments = Append(a, f)]
      /\ \A l \in DOMAIN s : l # k => t[l] = s[l]
  OBVIOUS
<1>3. t[k].arguments = Append(a, f)
  BY <1>1, <1>2 DEF ToolCall
<1>4. Size(Append(a, f)) = Size(a) + f.size
  BY <1>1, SizeAppend
<1>5. Size(a) \in Nat /\ f.size \in Nat /\ MaxArguments \in Nat
  <2>1. f.size \in Sizes
    BY DEF Fragment
  <2>2. Sizes \subseteq Nat /\ MaxArguments \in Nat
    BY AssemblyAssumption
  <2> QED
    BY <1>1, <2>1, <2>2, SizeType
<1>6. Len(t) < MaxToolCallsPerRound /\ \A x \in ToSet(t) : Size(x.arguments) <= MaxArguments
  BY DEF BelowCaps
<1> HIDE DEF t, a
<1>7. \A l \in DOMAIN s : Size(t[l].arguments) <= MaxArguments
  BY <1>2, <1>6 DEF ToSet
<1>8. Size(a) + f.size <= MaxArguments
  BY <1>2, <1>3, <1>4, <1>7
<1>9. \A l \in DOMAIN s : Size(s[l].arguments) <= MaxArguments
  <2>1. Size(a) <= MaxArguments
    BY <1>5, <1>8
  <2> QED
    BY <1>2, <1>7, <2>1 DEF a
<1>10. \A x \in ToSet(s) : Size(x.arguments) <= MaxArguments
  BY <1>9 DEF ToSet
<1> QED
  BY <1>2, <1>6, <1>8, <1>10 DEF BelowCaps, a

\* Only the provider knows what it may be careless with.
LEMMA OneFault ==
  ASSUME AssemblyTypeOK, careless # {"indexes", "ids"}
  PROVE  "ids" \notin careless \/ "indexes" \notin careless
<1>1. careless \in SUBSET {"indexes", "ids"}
  BY AssemblyAssumption DEF AssemblyTypeOK
<1> QED
  BY <1>1

\* The first fragment of a call opens it.
LEMMA OpenFollows ==
  ASSUME AssemblyInv, NEW index \in Indexes, NEW id \in IDs \cup {NoID}, NEW size \in Sizes,
         Open(index, id, size)
  PROVE  Follows'
<1> DEFINE first == [call |-> Len(sent) + 1, place |-> 1, size |-> size]
           new == [id |-> id, arguments |-> <<first>>]
<1>1. /\ sent \in Seq(ToolCall) /\ Len(sent) \in Nat /\ DOMAIN sent = 1 .. Len(sent)
      /\ open \in [Indexes -> 0 .. Len(sent)] /\ index \in Nat
      /\ heap \in Seq(ToolCall) /\ MaxToolCallsPerRound \in Nat
  BY AssemblyAssumption DEF AssemblyInv, AssemblyTypeOK
<1>2. first \in Fragment
  BY <1>1 DEF Fragment
<1>3. new \in ToolCall
  BY <1>2 DEF ToolCall
<1>4. /\ open[index] # 0 => "indexes" \in careless
      /\ "ids" \in careless \/ id \notin {NoID} \cup { call.id : call \in ToSet(sent) }
      /\ sent' = Append(sent, new) /\ open' = [open EXCEPT ![index] = Len(sent) + 1]
      /\ consumeToolCallDelta(index, id, first) /\ careless' = careless
  BY DEF Open
<1>5. <<first>> = Append(<<>>, first) /\ new.arguments = <<first>>
  OBVIOUS
<1> HIDE DEF first
<1> SUFFICES ASSUME (BelowCaps /\ careless # {"indexes", "ids"})'
             PROVE  (/\ heap = sent
                     /\ Cardinality(DOMAIN calls) <= Len(sent)
                     /\ \A j \in Indexes :
                          open[j] # 0 => j \in DOMAIN calls /\ calls[j] = open[j]
                     /\ "indexes" \notin careless =>
                          \A j \in DOMAIN calls : j \in Indexes /\ open[j] # 0)'
  BY DEF Follows
<1>6. BelowCaps /\ Len(sent) + 1 < MaxToolCallsPerRound /\ Size(<<first>>) <= MaxArguments
  <2> HIDE DEF new
  <2> QED
    BY <1>1, <1>3, <1>4, <1>5, BelowOpened
<1>7. careless # {"indexes", "ids"}
  BY <1>4
<1>8. /\ heap = sent
      /\ Cardinality(DOMAIN calls) <= Len(sent)
      /\ \A j \in Indexes : open[j] # 0 => j \in DOMAIN calls /\ calls[j] = open[j]
      /\ "indexes" \notin careless => \A j \in DOMAIN calls : j \in Indexes /\ open[j] # 0
  BY <1>6, <1>7 DEF AssemblyInv, Follows
<1>9. "indexes" \notin careless => index \notin DOMAIN calls
  BY <1>4, <1>8
<1>10. index \in DOMAIN calls => isDifferentCallAtSameIndex(index, id)
  <2> SUFFICES ASSUME index \in DOMAIN calls PROVE isDifferentCallAtSameIndex(index, id)
    OBVIOUS
  <2>1. "ids" \notin careless
    BY <1>7, <1>9, OneFault DEF AssemblyInv
  <2>2. calls[index] \in DOMAIN sent
    BY <1>8 DEF AssemblyInv, Held
  <2>3. sent[calls[index]].id # NoID /\ sent[calls[index]] \in ToSet(sent)
    BY <2>1, <2>2 DEF AssemblyInv, ToSet
  <2>4. id # NoID /\ id # sent[calls[index]].id
    BY <1>4, <2>1, <2>3
  <2> QED
    BY <1>8, <2>3, <2>4 DEF isDifferentCallAtSameIndex
<1>11. PICK map : Allocates(index, id, first, map)
  <2>1. ~Extends(index, id, first)
    BY <1>10 DEF Extends
  <2>2. Held
    BY DEF AssemblyInv
  <2> QED
    BY <1>4, <2>1, <2>2, Consumed
<1>12. IsFiniteSet(DOMAIN map) /\ Cardinality(DOMAIN map) \in Nat
       /\ IsFiniteSet(DOMAIN calls) /\ Cardinality(DOMAIN calls) \in Nat
  <2>1. /\ \E n \in Nat : DOMAIN map \subseteq 0 .. n
        /\ \E n \in Nat : DOMAIN calls \subseteq 0 .. n
    BY <1>11 DEF Allocates, Covers, AssemblyInv, Held
  <2> QED
    BY <2>1, MapFinite
<1>13. Cardinality(DOMAIN map) <= Len(sent) + 1
  BY <1>1, <1>8, <1>11, <1>12 DEF Allocates
<1>14. ~AtCap(map)
  BY <1>1, <1>6, <1>12, <1>13 DEF AtCap
<1>15. heap' = Append(heap, NewCall(id, first)) /\ calls' = Put(map, index, Len(heap) + 1)
  BY <1>11, <1>14 DEF Allocates
<1>16. NewCall(id, first) = new
  <2> DEFINE none == <<>>
  <2>1. none \in Seq(Fragment) /\ Append(none, first) = <<first>>
    BY <1>5
  <2>2. Size(none) + first.size = Size(<<first>>)
    <3> HIDE DEF none
    <3> QED
      BY <1>2, <2>1, SizeAppend
  <2>3. ~(Size(none) + first.size > MaxArguments)
    <3>1. Size(<<first>>) \in Nat
      <4>1. <<first>> \in Seq(Fragment)
        BY <1>2
      <4> QED
        BY <4>1, SizeType
    <3>2. MaxArguments \in Nat
      BY AssemblyAssumption
    <3> QED
      BY <1>6, <2>2, <3>1, <3>2
  <2> HIDE DEF none
  <2>4. NewCall(id, first) = Extend([id |-> NoID, arguments |-> none], id, first)
    BY DEF NewCall, none
  <2>5. Extend([id |-> NoID, arguments |-> none], id, first)
          = [id |-> id, arguments |-> Append(none, first)]
    BY <2>3 DEF Extend
  <2> QED
    BY <2>1, <2>4, <2>5
<1> HIDE DEF new
<1>17. heap' = sent'
  BY <1>4, <1>8, <1>15, <1>16
<1>18. /\ DOMAIN calls' = DOMAIN map \cup {index} /\ calls'[index] = Len(sent) + 1
       /\ \A k \in DOMAIN map : k # index => calls'[k] = map[k]
  BY <1>8, <1>15 DEF Put
<1>19. Cardinality(DOMAIN calls') <= Len(sent')
  <2>1. Len(sent') = Len(sent) + 1
    BY <1>1, <1>3, <1>4
  <2>2. CASE index \in DOMAIN calls
    <3>1. DOMAIN calls' = DOMAIN map
      BY <1>11, <1>18, <2>2 DEF Allocates, Covers
    <3> QED
      BY <1>13, <2>1, <3>1
  <2>3. CASE index \notin DOMAIN calls
    <3>1. map = calls
      BY <1>11, <2>3 DEF Allocates
    <3>2. Cardinality(DOMAIN calls') = Cardinality(DOMAIN calls) + 1
      BY <1>12, <1>18, <2>3, <3>1, FS_AddElement
    <3> QED
      BY <1>1, <1>8, <1>12, <2>1, <3>2
  <2> QED
    BY <2>2, <2>3
<1>20. \A j \in DOMAIN calls : j \in DOMAIN map /\ map[j] = calls[j]
  BY <1>11 DEF Allocates, Covers
<1>21. ASSUME NEW j \in Indexes, open'[j] # 0 PROVE j \in DOMAIN calls' /\ calls'[j] = open'[j]
  <2>1. CASE j = index
    BY <1>1, <1>4, <1>18, <2>1
  <2>2. CASE j # index
    <3>1. open'[j] = open[j]
      BY <1>1, <1>4, <2>2
    <3>2. j \in DOMAIN calls /\ calls[j] = open[j]
      BY <1>8, <1>21, <3>1
    <3> QED
      BY <1>18, <1>20, <2>2, <3>1, <3>2
  <2> QED
    BY <2>1, <2>2
<1>22. ASSUME "indexes" \notin careless', NEW j \in DOMAIN calls'
       PROVE  j \in Indexes /\ open'[j] # 0
  <2>1. "indexes" \notin careless /\ index \notin DOMAIN calls
    BY <1>4, <1>9, <1>22
  <2>2. map = calls
    BY <1>11, <2>1 DEF Allocates
  <2>3. j = index \/ (j # index /\ j \in DOMAIN calls)
    BY <1>18, <2>2
  <2>4. CASE j = index
    BY <1>1, <1>4, <2>4
  <2>5. CASE j # index /\ j \in DOMAIN calls
    BY <1>1, <1>4, <1>8, <2>1, <2>5
  <2> QED
    BY <2>3, <2>4, <2>5
<1> QED
  BY <1>17, <1>19, <1>21, <1>22

\* A further fragment goes to its call.
LEMMA ContinueFollows ==
  ASSUME AssemblyInv, NEW index \in Indexes, NEW size \in Sizes, Continue(index, size)
  PROVE  Follows'
<1> DEFINE k == open[index]
           f == [call |-> k, place |-> Len(sent[k].arguments) + 1, size |-> size]
<1>1. /\ sent \in Seq(ToolCall) /\ DOMAIN sent = 1 .. Len(sent) /\ Len(sent) \in Nat
      /\ open \in [Indexes -> 0 .. Len(sent)]
  BY DEF AssemblyInv, AssemblyTypeOK
<1>2. /\ k # 0 /\ sent' = [sent EXCEPT ![k].arguments = Append(@, f)]
      /\ consumeToolCallDelta(index, NoID, f) /\ open' = open /\ careless' = careless
  BY DEF Continue
<1>3. k \in DOMAIN sent
  BY <1>1, <1>2
<1>4. sent[k] \in ToolCall /\ sent[k].arguments \in Seq(Fragment)
  <2>1. sent[k] \in ToolCall
    BY <1>1, <1>3
  <2> QED
    BY <2>1, CallParts
<1>5. f \in Fragment
  BY <1>1, <1>3, <1>4 DEF Fragment
<1> HIDE DEF f
<1> SUFFICES ASSUME (BelowCaps /\ careless # {"indexes", "ids"})'
             PROVE  (/\ heap = sent
                     /\ Cardinality(DOMAIN calls) <= Len(sent)
                     /\ \A j \in Indexes :
                          open[j] # 0 => j \in DOMAIN calls /\ calls[j] = open[j]
                     /\ "indexes" \notin careless =>
                          \A j \in DOMAIN calls : j \in Indexes /\ open[j] # 0)'
  BY DEF Follows
<1>6. BelowCaps /\ Size(sent[k].arguments) + f.size <= MaxArguments
  <2> HIDE DEF k
  <2> QED
    BY <1>1, <1>2, <1>3, <1>5, BelowContinued
<1>7. /\ heap = sent
      /\ Cardinality(DOMAIN calls) <= Len(sent)
      /\ \A j \in Indexes : open[j] # 0 => j \in DOMAIN calls /\ calls[j] = open[j]
      /\ "indexes" \notin careless => \A j \in DOMAIN calls : j \in Indexes /\ open[j] # 0
  BY <1>2, <1>6 DEF AssemblyInv, Follows
<1>8. index \in DOMAIN calls /\ calls[index] = k /\ ~isDifferentCallAtSameIndex(index, NoID)
  BY <1>2, <1>7 DEF isDifferentCallAtSameIndex
<1> HIDE DEF k
<1>9. heap' = [heap EXCEPT ![k] = Extend(@, NoID, f)] /\ calls' = calls
  <2>1. Held
    BY DEF AssemblyInv
  <2>2. \A map : ~Allocates(index, NoID, f, map)
    BY <1>8 DEF Allocates
  <2>3. Extends(index, NoID, f)
    BY <1>2, <2>1, <2>2, Consumed
  <2> QED
    BY <1>8, <2>3 DEF Extends
<1>10. Extend(sent[k], NoID, f) = [sent[k] EXCEPT !.arguments = Append(@, f)]
  <2>1. ~(Size(sent[k].arguments) + f.size > MaxArguments)
    <3>1. Size(sent[k].arguments) \in Nat
      BY <1>4, SizeType
    <3>2. f.size \in Sizes
      BY <1>5 DEF Fragment
    <3>3. Sizes \subseteq Nat /\ MaxArguments \in Nat
      BY AssemblyAssumption
    <3>4. f.size \in Nat
      BY <3>2, <3>3
    <3>5. Size(sent[k].arguments) + f.size <= MaxArguments
      BY <1>6
    <3> QED
      BY <3>1, <3>3, <3>4, <3>5
  <2>2. Extend(sent[k], NoID, f) = [id |-> sent[k].id, arguments |-> Append(sent[k].arguments, f)]
    BY <2>1 DEF Extend
  <2>3. [sent[k] EXCEPT !.arguments = Append(@, f)]
          = [id |-> sent[k].id, arguments |-> Append(sent[k].arguments, f)]
    BY <1>4, CallParts
  <2> QED
    BY <2>2, <2>3
<1>11. heap' = sent' /\ Len(sent') = Len(sent)
  BY <1>1, <1>2, <1>3, <1>7, <1>9, <1>10
<1> QED
  BY <1>2, <1>7, <1>9, <1>11

\* No call is held at the start.
LEMMA AssemblyInitInv == AssemblyInit => AssemblyInv
<1> SUFFICES ASSUME AssemblyInit PROVE AssemblyInv
  OBVIOUS
<1>1. /\ calls = <<>> /\ heap = <<>> /\ sent = <<>> /\ careless \in Providers
      /\ open = [index \in Indexes |-> 0]
  BY DEF AssemblyInit
<1>2. DOMAIN calls = {} /\ DOMAIN heap = {} /\ DOMAIN sent = {} /\ Len(heap) = 0 /\ Len(sent) = 0
  BY <1>1
<1>3. heap \in Seq(ToolCall) /\ sent \in Seq(ToolCall)
  BY <1>1
<1>4. open \in [Indexes -> 0 .. Len(sent)]
  BY <1>1, <1>2
<1>5. MaxToolCallsPerRound \in Nat
  BY AssemblyAssumption
<1>6. AssemblyTypeOK
  BY <1>1, <1>2, <1>3, <1>4, <1>5 DEF AssemblyTypeOK
<1>7. Held
  <2>1. DOMAIN calls \subseteq 0 .. 0 /\ 0 \in Nat
    BY <1>2
  <2> QED
    BY <1>2, <1>3, <1>5, <2>1 DEF Held
<1>8. Follows
  <2>1. Cardinality(DOMAIN calls) = 0
    BY <1>2, FS_EmptySet
  <2>2. \A index \in Indexes : open[index] = 0
    BY <1>1
  <2> QED
    BY <1>1, <1>2, <2>1, <2>2 DEF Follows
<1> QED
  BY <1>2, <1>6, <1>7, <1>8 DEF AssemblyInv

\* Every delta keeps the invariant.
LEMMA AssemblyStep == AssemblyInv /\ [AssemblyNext]_assemblyVars => AssemblyInv'
<1> SUFFICES ASSUME AssemblyInv, [AssemblyNext]_assemblyVars PROVE AssemblyInv'
  OBVIOUS
<1>1. /\ sent \in Seq(ToolCall) /\ Len(sent) \in Nat /\ DOMAIN sent = 1 .. Len(sent)
      /\ open \in [Indexes -> 0 .. Len(sent)] /\ careless \in Providers /\ Held
      /\ "ids" \notin careless => \A k \in DOMAIN sent : sent[k].id # NoID
  BY DEF AssemblyInv, AssemblyTypeOK
<1>2. CASE UNCHANGED assemblyVars
  <2>1. calls' = calls /\ heap' = heap /\ sent' = sent /\ open' = open /\ careless' = careless
    BY <1>2 DEF assemblyVars
  <2>2. AssemblyTypeOK' /\ Held'
    BY <2>1 DEF AssemblyInv, AssemblyTypeOK, Held
  <2>3. Follows'
    BY <2>1 DEF AssemblyInv, Follows, BelowCaps
  <2> QED
    BY <1>1, <2>1, <2>2, <2>3 DEF AssemblyInv
<1>3. ASSUME NEW index \in Indexes, NEW id \in IDs \cup {NoID}, NEW size \in Sizes,
             Open(index, id, size)
      PROVE  AssemblyInv'
  <2> DEFINE first == [call |-> Len(sent) + 1, place |-> 1, size |-> size]
             new == [id |-> id, arguments |-> <<first>>]
  <2>1. first \in Fragment
    BY <1>1 DEF Fragment
  <2>2. new \in ToolCall
    BY <2>1 DEF ToolCall
  <2>3. /\ "ids" \in careless \/ id # NoID
        /\ sent' = Append(sent, new) /\ open' = [open EXCEPT ![index] = Len(sent) + 1]
        /\ consumeToolCallDelta(index, id, first) /\ careless' = careless
    BY <1>3 DEF Open
  <2>a. new.id = id
    OBVIOUS
  <2> HIDE DEF first, new
  <2>4. Held'
    BY <1>1, <2>1, <2>3, HeldStep
  <2>5. /\ sent' \in Seq(ToolCall) /\ Len(sent') = Len(sent) + 1
        /\ DOMAIN sent' = DOMAIN sent \cup {Len(sent) + 1}
        /\ sent'[Len(sent) + 1] = new /\ \A k \in DOMAIN sent : sent'[k] = sent[k]
    BY <1>1, <2>2, <2>3
  <2>6. open' \in [Indexes -> 0 .. Len(sent')]
    BY <1>1, <2>3, <2>5
  <2>7. AssemblyTypeOK'
    BY <1>1, <2>3, <2>4, <2>5, <2>6 DEF AssemblyTypeOK, Held
  <2>8. Follows'
    BY <1>3, OpenFollows
  <2>9. ("ids" \notin careless => \A k \in DOMAIN sent : sent[k].id # NoID)'
    BY <1>1, <2>3, <2>5, <2>a
  <2> QED
    BY <2>4, <2>7, <2>8, <2>9 DEF AssemblyInv
<1>4. ASSUME NEW index \in Indexes, NEW size \in Sizes, Continue(index, size) PROVE AssemblyInv'
  <2> DEFINE k == open[index]
             f == [call |-> k, place |-> Len(sent[k].arguments) + 1, size |-> size]
             t == [sent[k] EXCEPT !.arguments = Append(@, f)]
  <2>1. /\ k # 0 /\ sent' = [sent EXCEPT ![k].arguments = Append(@, f)]
        /\ consumeToolCallDelta(index, NoID, f) /\ open' = open /\ careless' = careless
    BY <1>4 DEF Continue
  <2>2. k \in DOMAIN sent
    BY <1>1, <2>1
  <2>3. sent[k] \in ToolCall
    BY <1>1, <2>2
  <2>4. sent[k].arguments \in Seq(Fragment) /\ sent[k].id \in IDs \cup {NoID}
    BY <2>3, CallParts
  <2>5. f \in Fragment
    BY <1>1, <2>2, <2>4 DEF Fragment
  <2> HIDE DEF f
  <2>6. Held'
    <3> HIDE DEF k
    <3> QED
      BY <1>1, <2>1, <2>5, HeldStep
  <2>7. t \in ToolCall /\ t.id = sent[k].id
    <3>1. t = [id |-> sent[k].id, arguments |-> Append(sent[k].arguments, f)]
      BY <2>3, CallParts
    <3>2. Append(sent[k].arguments, f) \in Seq(Fragment)
      BY <2>4, <2>5
    <3> HIDE DEF t
    <3> QED
      BY <2>4, <3>1, <3>2 DEF ToolCall
  <2>8. sent' = [sent EXCEPT ![k] = t]
    BY <2>1
  <2> HIDE DEF k, t
  <2>9. /\ sent' \in Seq(ToolCall) /\ Len(sent') = Len(sent) /\ DOMAIN sent' = DOMAIN sent
        /\ \A l \in DOMAIN sent : sent'[l] = IF l = k THEN t ELSE sent[l]
    BY <1>1, <2>2, <2>7, <2>8
  <2>10. AssemblyTypeOK'
    BY <1>1, <2>1, <2>6, <2>9 DEF AssemblyTypeOK, Held
  <2>11. Follows'
    BY <1>4, ContinueFollows
  <2>12. ("ids" \notin careless => \A l \in DOMAIN sent : sent[l].id # NoID)'
    BY <1>1, <2>1, <2>2, <2>7, <2>9
  <2> QED
    BY <2>6, <2>10, <2>11, <2>12 DEF AssemblyInv
<1> QED
  BY <1>2, <1>3, <1>4 DEF AssemblyNext

-----------------------------------------------------------------------------
(* Draining *)

\* How many members of S come before x.
Rank(S, x) == Cardinality({ l \in S : l < x })

\* Sets of indexes are finite.
LEMMA RankType ==
  ASSUME NEW n \in Nat, NEW S \in SUBSET (0 .. n), NEW x
  PROVE  /\ IsFiniteSet(S) /\ Cardinality(S) \in Nat
         /\ IsFiniteSet({ l \in S : l < x }) /\ Rank(S, x) \in Nat
<1>1. IsFiniteSet(0 .. n)
  BY FS_Interval
<1>2. IsFiniteSet(S)
  BY <1>1, FS_Subset
<1>3. { l \in S : l < x } \in SUBSET S
  OBVIOUS
<1>4. IsFiniteSet({ l \in S : l < x })
  BY <1>2, <1>3, FS_Subset
<1> QED
  BY <1>2, <1>4, FS_CardinalityType DEF Rank

\* Ranks grow with the indexes and stay below their number.
LEMMA RankGrows ==
  ASSUME NEW n \in Nat, NEW S \in SUBSET (0 .. n), NEW x \in S
  PROVE  /\ Rank(S, x) \in 0 .. (Cardinality(S) - 1)
         /\ \A y \in S : x < y => Rank(S, x) < Rank(S, y)
<1> DEFINE Below(z) == { l \in S : l < z }
<1>1. /\ IsFiniteSet(S) /\ Cardinality(S) \in Nat /\ IsFiniteSet(Below(x)) /\ Rank(S, x) \in Nat
  BY RankType
<1>2. x \in Nat /\ S \subseteq Nat
  OBVIOUS
<1>3. x \notin Below(x)
  BY <1>2
<1>4. IsFiniteSet(Below(x) \cup {x}) /\ Cardinality(Below(x) \cup {x}) = Rank(S, x) + 1
  BY <1>1, <1>3, FS_AddElement DEF Rank
<1>5. Below(x) \cup {x} \in SUBSET S
  OBVIOUS
<1>6. Rank(S, x) + 1 <= Cardinality(S)
  BY <1>1, <1>4, <1>5, FS_Subset
<1>7. ASSUME NEW y \in S, x < y PROVE Rank(S, x) < Rank(S, y)
  <2>1. IsFiniteSet(Below(y)) /\ Rank(S, y) \in Nat
    BY RankType
  <2>2. Below(x) \cup {x} \in SUBSET Below(y)
    <3>1. \A l \in S : l < x \/ l = x => l < y
      BY <1>2, <1>7
    <3>2. \A l \in Below(x) \cup {x} : l \in S /\ (l < x \/ l = x)
      OBVIOUS
    <3> QED
      BY <3>1, <3>2
  <2>3. Rank(S, x) + 1 <= Rank(S, y)
    BY <1>4, <2>1, <2>2, FS_Subset DEF Rank
  <2> QED
    BY <1>1, <2>1, <2>3
<1> QED
  BY <1>1, <1>6, <1>7

\* Every number below that is the rank of one index.
LEMMA RankReaches ==
  ASSUME NEW n \in Nat, NEW S \in SUBSET (0 .. n)
  PROVE  /\ \A m \in 0 .. (Cardinality(S) - 1) : \E x \in S : Rank(S, x) = m
         /\ \A x, y \in S : Rank(S, x) = Rank(S, y) => x = y
<1> DEFINE c == Cardinality(S)
           f == [ x \in S |-> Rank(S, x) ]
<1>1. c \in Nat /\ IsFiniteSet(S)
  BY RankType
<1>2. f \in [S -> 0 .. (c - 1)]
  BY RankGrows
<1>3. ASSUME NEW x \in S, NEW y \in S, Rank(S, x) = Rank(S, y) PROVE x = y
  <2>1. x \in Nat /\ y \in Nat
    OBVIOUS
  <2>2. Rank(S, x) \in Nat /\ Rank(S, y) \in Nat
    BY RankType
  <2>3. (x < y => Rank(S, x) < Rank(S, y)) /\ (y < x => Rank(S, y) < Rank(S, x))
    BY RankGrows
  <2>4. ~(x < y) /\ ~(y < x)
    BY <1>3, <2>2, <2>3
  <2> QED
    BY <2>1, <2>4
<1>4. f \in Injection(S, 0 .. (c - 1))
  BY <1>2, <1>3 DEF Injection, IsInjective
<1>5. IsFiniteSet(0 .. (c - 1)) /\ Cardinality(0 .. (c - 1)) = c
  <2> HIDE DEF c
  <2>1. IsFiniteSet(0 .. (c - 1))
        /\ Cardinality(0 .. (c - 1)) = IF 0 > c - 1 THEN 0 ELSE (c - 1) - 0 + 1
    BY <1>1, FS_Interval
  <2> QED
    BY <1>1, <2>1
<1> HIDE DEF f
<1>6. f \in Surjection(S, 0 .. (c - 1))
  BY <1>4, <1>5, FS_Injection
<1>7. ASSUME NEW m \in 0 .. (c - 1) PROVE \E x \in S : Rank(S, x) = m
  <2>1. PICK x \in S : f[x] = m
    BY <1>6 DEF Surjection
  <2> QED
    BY <2>1 DEF f
<1> QED
  BY <1>3, <1>7

\* The indexes whose calls are drained: the first one of every id.
Kept ==
  { index \in DOMAIN calls :
      /\ heap[calls[index]].id # NoID
      /\ \A earlier \in DOMAIN calls :
           earlier < index => heap[calls[earlier]].id # heap[calls[index]].id }

\* drainToolCalls returns their calls, each once.
LEMMA Drained ==
  ASSUME Held
  PROVE  LET d == drainToolCalls IN
         \E at \in [DOMAIN d -> Kept] :
           /\ \A k \in DOMAIN d : d[k] = heap[calls[at[k]]]
           /\ \A index \in Kept : \E k \in DOMAIN d : at[k] = index
           /\ \A k, l \in DOMAIN d : at[k] = at[l] => k = l
<1> DEFINE d == drainToolCalls
           c == Cardinality(Kept)
           At(k) == CHOOSE index \in Kept : Rank(Kept, index) = k - 1
           at == [ k \in 1 .. c |-> At(k) ]
<1>1. PICK n \in Nat : DOMAIN calls \subseteq 0 .. n
  BY DEF Held
<1>2. Kept \in SUBSET (0 .. n)
  BY <1>1 DEF Kept
<1>3. c \in Nat
  BY <1>2, RankType
<1>4. d = [ k \in 1 .. c |-> heap[calls[At(k)]] ]
  BY DEF drainToolCalls, Kept, Rank
<1>5. ASSUME NEW k \in 1 .. c PROVE At(k) \in Kept /\ Rank(Kept, At(k)) = k - 1
  <2>1. k - 1 \in 0 .. (c - 1)
    BY <1>3
  <2>2. \E index \in Kept : Rank(Kept, index) = k - 1
    BY <1>2, <2>1, RankReaches
  <2> QED
    BY <2>2
<1> HIDE DEF At, c
<1>6. at \in [1 .. c -> Kept] /\ DOMAIN d = 1 .. c
  BY <1>4, <1>5
<1>7. \A k \in DOMAIN d : d[k] = heap[calls[at[k]]]
  BY <1>4
<1>8. ASSUME NEW index \in Kept PROVE \E k \in DOMAIN d : at[k] = index
  <2> DEFINE k == Rank(Kept, index) + 1
  <2>1. Rank(Kept, index) \in 0 .. (c - 1)
    BY <1>2, RankGrows DEF c
  <2>2. k \in 1 .. c /\ k - 1 = Rank(Kept, index)
    BY <1>3, <2>1
  <2> HIDE DEF k
  <2>3. At(k) = index
    <3>1. At(k) \in Kept /\ Rank(Kept, At(k)) = Rank(Kept, index)
      BY <1>5, <2>2
    <3>2. \A x, y \in Kept : Rank(Kept, x) = Rank(Kept, y) => x = y
      BY <1>2, RankReaches
    <3> QED
      BY <3>1, <3>2
  <2> QED
    BY <1>6, <2>2, <2>3
<1>9. ASSUME NEW k \in DOMAIN d, NEW l \in DOMAIN d, at[k] = at[l] PROVE k = l
  <2>1. k \in 1 .. c /\ l \in 1 .. c /\ At(k) = At(l)
    BY <1>6, <1>9
  <2>2. k - 1 = l - 1
    BY <1>5, <2>1
  <2> QED
    BY <1>3, <2>1, <2>2
<1> HIDE DEF d, at
<1> QED
  BY <1>6, <1>7, <1>8, <1>9 DEF d

\* Whatever the provider streams, the calls that enter the assistant message have
\* distinct ids and stay within the cap; below the caps they are the provider's,
\* whole and in order, and none is missing: for any number of calls, fragments and
\* indexes.
THEOREM AssemblyIsSound == AssemblySpec => []DrainedSound
<1>1. AssemblyInv => DrainedSound
  <2> SUFFICES ASSUME AssemblyInv PROVE DrainedSound
    OBVIOUS
  <2> DEFINE d == drainToolCalls
             Id(index) == heap[calls[index]].id
  <2>1. PICK at \in [DOMAIN d -> Kept] :
           /\ \A k \in DOMAIN d : d[k] = heap[calls[at[k]]]
           /\ \A index \in Kept : \E k \in DOMAIN d : at[k] = index
           /\ \A k, l \in DOMAIN d : at[k] = at[l] => k = l
    BY Drained DEF AssemblyInv
  <2> HIDE DEF d
  <2>2. /\ DOMAIN calls \subseteq Nat /\ Kept \subseteq DOMAIN calls
        /\ \A index \in Kept : Id(index) # NoID
        /\ \A i, j \in Kept : i < j => Id(i) # Id(j)
        /\ \A index \in DOMAIN calls : calls[index] \in DOMAIN heap
        /\ \A ref \in DOMAIN heap : \E index \in DOMAIN calls : calls[index] = ref
    BY DEF AssemblyInv, Held, Kept
  <2>3. DrainedLegal
    <3>1. \A k \in DOMAIN d : d[k].id # NoID
      BY <2>1, <2>2
    <3>2. ASSUME NEW k \in DOMAIN d, NEW l \in DOMAIN d, d[k].id = d[l].id PROVE k = l
      <4>1. at[k] \in Kept /\ at[l] \in Kept /\ Id(at[k]) = Id(at[l])
        BY <2>1, <3>2
      <4>2. at[k] \in Nat /\ at[l] \in Nat /\ ~(at[k] < at[l]) /\ ~(at[l] < at[k])
        BY <2>2, <4>1
      <4>3. at[k] = at[l]
        BY <4>2
      <4> QED
        BY <2>1, <4>3
    <3> QED
      BY <3>1, <3>2 DEF DrainedLegal, d
  <2>4. ASSUME BelowCaps, careless # {"indexes", "ids"}
        PROVE  /\ ToSet(d) \subseteq ToSet(sent)
               /\ { call.id : call \in ToSet(sent) } \ {NoID} = { call.id : call \in ToSet(d) }
    <3>1. heap = sent
      BY <2>4 DEF AssemblyInv, Follows
    <3>2. ASSUME NEW x \in ToSet(d) PROVE x \in ToSet(sent) /\ x.id # NoID
      <4>1. PICK k \in DOMAIN d : d[k] = x
        BY <3>2 DEF ToSet
      <4>2. x = heap[calls[at[k]]] /\ at[k] \in Kept /\ calls[at[k]] \in DOMAIN heap
        BY <2>1, <2>2, <4>1
      <4> QED
        BY <2>2, <3>1, <4>2 DEF ToSet
    <3>3. ASSUME NEW x \in ToSet(sent), x.id # NoID PROVE \E y \in ToSet(d) : y.id = x.id
      <4>1. PICK ref \in DOMAIN heap : heap[ref] = x
        BY <3>1 DEF ToSet
      <4> DEFINE S == { index \in DOMAIN calls : Id(index) = x.id }
      <4>2. S \in SUBSET Nat /\ S # {}
        <5>1. PICK index \in DOMAIN calls : calls[index] = ref
          BY <2>2, <4>1
        <5>2. index \in S
          BY <4>1, <5>1
        <5> QED
          BY <2>2, <5>2
      <4>3. PICK index \in S : \A y \in S : index <= y
        <5> HIDE DEF S
        <5> QED
          BY <4>2, NatMin
      <4>4. \A earlier \in DOMAIN calls : earlier < index => Id(earlier) # Id(index)
        <5> SUFFICES ASSUME NEW earlier \in DOMAIN calls, earlier < index, Id(earlier) = Id(index)
                     PROVE  FALSE
          OBVIOUS
        <5>1. earlier \in S
          OBVIOUS
        <5>2. index <= earlier /\ earlier \in Nat /\ index \in Nat
          BY <4>2, <4>3, <5>1
        <5> QED
          BY <5>2
      <4>5. index \in Kept
        BY <3>3, <4>4 DEF Kept
      <4>6. PICK k \in DOMAIN d : at[k] = index
        BY <2>1, <4>5
      <4>7. d[k] \in ToSet(d) /\ d[k].id = x.id
        BY <2>1, <4>6 DEF ToSet
      <4> QED
        BY <4>7
    <3> QED
      BY <3>2, <3>3
  <2>5. DrainedFaithful
    BY <2>4 DEF DrainedFaithful, d
  <2>6. AssemblyTypeOK
    BY DEF AssemblyInv
  <2> QED
    BY <2>3, <2>5, <2>6 DEF DrainedSound
<1> QED
  BY <1>1, AssemblyInitInv, AssemblyStep, PTL DEF AssemblySpec

-----------------------------------------------------------------------------
(* Dispatch *)

Owning      == {"hooks", "dispatch", "wait", "aborted", "recorded"}
Dispatching == {"dispatch", "wait", "recorded"}

OneOwner ==
  /\ ~executed => next = 1 /\ \A p \in Callers : caller[p] = "idle"
  /\ \A p, q \in Callers :
        caller[p] \in Owning /\ caller[q] \in Owning => p = q
  /\ executed => \E p \in Callers : caller[p] \in Owning

\* What the owner's place says about the goroutines of the calls.
WorkersFollowOwner ==
  /\ (\A p \in Callers : caller[p] \notin Dispatching) =>
        \A c \in Calls : worker[c] = "none"
  /\ \A p \in Callers :
        /\ caller[p] \in {"hooks", "dispatch"} => next \in Calls
        /\ caller[p] = "dispatch" =>
             \A c \in Calls : worker[c] = "none" <=> c >= next
        /\ caller[p] \in {"wait", "recorded"} =>
             \A c \in Calls : worker[c] # "none"
        /\ caller[p] = "recorded" => \A c \in Calls : worker[c] = "done"

\* What a goroutine's stage says about its call.
StageMeaning ==
  \A c \in Calls :
     /\ worker[c] \in {"release", "done"} <=> outcome[c] # "none"
     /\ worker[c] \in {"none", "start"} => starts[c] = 0 /\ handler[c] = "none"
     /\ worker[c] \in {"release", "done"} /\ handler[c] = "running" => c \in expired

TokensCount == tokens = Cardinality(Holding)

Inv == TypeOK /\ OneOwner /\ WorkersFollowOwner /\ StageMeaning /\ TokensCount

-----------------------------------------------------------------------------
\* The calls holding a token are finitely many.
LEMMA HoldingFinite == IsFiniteSet(Holding) /\ Cardinality(Holding) \in Nat
<1>1. IsFiniteSet(Calls)
  BY FS_Interval, DispatchAssumption DEF Calls
<1>2. Holding \subseteq Calls
  BY DEF Holding
<1> QED
  BY <1>1, <1>2, FS_Subset, FS_CardinalityType

\* The inductive invariant holds before ExecuteToolCalls is called.
LEMMA InvInit == Init => Inv
<1> SUFFICES ASSUME Init PROVE Inv
  OBVIOUS
<1> USE DEF Init
<1>1. TypeOK
  <2>1. executed \in BOOLEAN
    BY Zenon
  <2>2. next \in 1 .. NumCalls + 1 /\ tokens \in 0 .. MaxConcurrentTools
    BY DispatchAssumption
  <2>3. caller \in [Callers -> Places] /\ worker \in [Calls -> Stages]
    BY DEF Places, Stages
  <2>4. /\ handler \in [Calls -> {"none", "running", "returned"}]
        /\ starts \in [Calls -> Nat]
        /\ outcome \in [Calls -> Outcomes]
    BY DEF Outcomes
  <2> QED
    BY <2>1, <2>2, <2>3, <2>4 DEF TypeOK
<1>2. OneOwner /\ WorkersFollowOwner /\ StageMeaning
  BY DEF OneOwner, WorkersFollowOwner, StageMeaning, Owning, Dispatching
<1>3. Holding = {}
  BY DEF Holding
<1>4. TokensCount
  BY <1>3, FS_EmptySet DEF TokensCount
<1> QED
  BY <1>1, <1>2, <1>4 DEF Inv

-----------------------------------------------------------------------------
(* Each conjunct of the invariant across a step. *)

\* Every step keeps the types; the token count needs TokensCount.
LEMMA TypeStep == TypeOK /\ OneOwner /\ WorkersFollowOwner /\ [Next]_vars /\ TokensCount => TypeOK'
<1> SUFFICES ASSUME TypeOK, OneOwner, WorkersFollowOwner, TokensCount, [Next]_vars
             PROVE  TypeOK'
  OBVIOUS
<1> USE DispatchAssumption DEF TypeOK, Places, Stages, Outcomes
<1>1. ASSUME NEW p \in Callers, ExecuteToolCalls(p) PROVE TypeOK'
  <2>1. executed' \in BOOLEAN
    BY <1>1, Zenon DEF ExecuteToolCalls
  <2> QED
    BY <1>1, <2>1 DEF ExecuteToolCalls, Move, workerVars
<1>2. ASSUME NEW p \in Callers, fireToolCallStart(p) PROVE TypeOK'
  <2>1. executed' \in BOOLEAN
    BY <1>2, Zenon DEF fireToolCallStart
  <2>2. next \in Calls
    BY <1>2 DEF fireToolCallStart, WorkersFollowOwner
  <2>3. next' \in 1 .. NumCalls + 1
    BY <1>2, <2>2 DEF fireToolCallStart, Calls
  <2> QED
    BY <1>2, <2>1, <2>3 DEF fireToolCallStart, Move, workerVars
<1>3. ASSUME NEW p \in Callers, fireToolCallStartFails(p) PROVE TypeOK'
  <2>1. executed' \in BOOLEAN
    BY <1>3, Zenon DEF fireToolCallStartFails
  <2> QED
    BY <1>3, <2>1 DEF fireToolCallStartFails, Move, workerVars
<1>4. ASSUME NEW p \in Callers, runToolCalls(p) PROVE TypeOK'
  <2>1. executed' \in BOOLEAN
    BY <1>4, Zenon DEF runToolCalls
  <2> QED
    BY <1>4, <2>1 DEF runToolCalls, Move, Calls
<1>5. ASSUME NEW p \in Callers, recordToolOutcomes(p) PROVE TypeOK'
  <2>1. executed' \in BOOLEAN
    BY <1>5, Zenon DEF recordToolOutcomes
  <2> QED
    BY <1>5, <2>1 DEF recordToolOutcomes, Move, workerVars
<1>6. ASSUME NEW c \in Calls, WorkerStep(c) \/ handlerReturns(c) \/ Expire(c) PROVE TypeOK'
  <2>1. executed' \in BOOLEAN
    BY <1>6, Zenon DEF WorkerStep, runToolCall, executeToolHandler, runToolLifecycle,
                       releaseToken, handlerReturns, Expire, callerVars
  <2>2. caller' = caller /\ next' = next
    BY <1>6 DEF WorkerStep, runToolCall, executeToolHandler, runToolLifecycle,
                releaseToken, handlerReturns, Expire, callerVars
  <2>3. worker' \in [Calls -> Stages] /\ handler' \in [Calls -> {"none", "running", "returned"}]
    BY <1>6 DEF WorkerStep, runToolCall, executeToolHandler, runToolLifecycle,
                releaseToken, handlerReturns, Expire, callerVars, Decide, Advance
  <2>4. starts' \in [Calls -> Nat] /\ outcome' \in [Calls -> Outcomes] /\ expired' \subseteq Calls
    BY <1>6 DEF WorkerStep, runToolCall, executeToolHandler, runToolLifecycle,
                releaseToken, handlerReturns, Expire, callerVars, Decide, Advance
  <2>5. tokens' \in 0 .. MaxConcurrentTools
    <3>1. CASE releaseToken(c)
      <4>1. c \in Holding
        BY <3>1 DEF releaseToken, Holding
      <4>2. tokens > 0
        BY <4>1, HoldingFinite, FS_EmptySet DEF TokensCount
      <4> QED
        BY <3>1, <4>2 DEF releaseToken
    <3>2. CASE ~releaseToken(c)
      BY <1>6, <3>2 DEF WorkerStep, runToolCall, executeToolHandler, runToolLifecycle,
                        handlerReturns, Expire, callerVars
    <3> QED
      BY <3>1, <3>2
  <2> QED
    BY <2>1, <2>2, <2>3, <2>4, <2>5
<1>7. CASE UNCHANGED vars
  <2>1. executed' \in BOOLEAN
    BY <1>7, Zenon DEF vars
  <2> QED
    BY <1>7, <2>1 DEF vars
<1> QED
  BY <1>1, <1>2, <1>3, <1>4, <1>5, <1>6, <1>7 DEF Next, CallerStep

\* The once flag lets one caller through.
LEMMA OwnerStep == TypeOK /\ OneOwner /\ [Next]_vars => OneOwner'
<1> SUFFICES ASSUME TypeOK, OneOwner, [Next]_vars PROVE OneOwner'
  OBVIOUS
<1> USE DEF TypeOK, OneOwner, Owning
<1>1. ASSUME NEW p \in Callers, ExecuteToolCalls(p) PROVE OneOwner'
  <2>1. CASE executed
    <3>1. \A q \in Callers : caller'[q] = IF q = p THEN "refused" ELSE caller[q]
      BY <1>1, <2>1 DEF ExecuteToolCalls, Move
    <3>2. executed'
      BY <1>1, Zenon DEF ExecuteToolCalls
    <3>3. PICK q \in Callers : caller[q] \in Owning
      BY <2>1
    <3>4. q # p
      BY <1>1, <3>3 DEF ExecuteToolCalls
    <3> QED
      BY <3>1, <3>2, <3>3, <3>4
  <2>2. CASE ~executed
    <3>1. \A q \in Callers : caller'[q] = IF q = p THEN "hooks" ELSE "idle"
      BY <1>1, <2>2 DEF ExecuteToolCalls, Move
    <3>2. executed'
      BY <1>1, Zenon DEF ExecuteToolCalls
    <3> QED
      BY <3>1, <3>2
  <2> QED
    BY <2>1, <2>2
<1>2. ASSUME NEW p \in Callers, CallerStep(p) PROVE OneOwner'
  <2>1. executed' = executed
    BY <1>2, Zenon DEF CallerStep, fireToolCallStart, fireToolCallStartFails,
                       runToolCalls, recordToolOutcomes
  <2>2. /\ caller[p] \in Owning
        /\ \E place \in Owning : \A q \in Callers :
              caller'[q] = IF q = p THEN place ELSE caller[q]
    BY <1>2 DEF CallerStep, fireToolCallStart, fireToolCallStartFails,
                runToolCalls, recordToolOutcomes, Move
  <2> QED
    BY <2>1, <2>2
<1>3. ASSUME NEW c \in Calls, WorkerStep(c) \/ handlerReturns(c) \/ Expire(c)
      PROVE  OneOwner'
  <2>1. UNCHANGED <<executed, caller, next>>
    BY <1>3, Zenon DEF WorkerStep, runToolCall, executeToolHandler, runToolLifecycle,
                releaseToken, handlerReturns, Expire, callerVars, Decide, Advance
  <2> QED
    BY <2>1
<1>4. CASE UNCHANGED vars
  BY <1>4 DEF vars
<1> QED
  BY <1>1, <1>2, <1>3, <1>4 DEF Next

\* The goroutines that exist are the ones the owner has dispatched.
LEMMA FollowStep ==
  TypeOK /\ OneOwner /\ WorkersFollowOwner /\ [Next]_vars => WorkersFollowOwner'
<1> SUFFICES ASSUME TypeOK, OneOwner, WorkersFollowOwner, [Next]_vars
             PROVE  WorkersFollowOwner'
  OBVIOUS
<1> USE DispatchAssumption DEF TypeOK, WorkersFollowOwner, Owning, Dispatching
<1>1. ASSUME NEW p \in Callers, ExecuteToolCalls(p) PROVE WorkersFollowOwner'
  <2>1. UNCHANGED <<worker, next>>
    BY <1>1 DEF ExecuteToolCalls, workerVars
  <2>2. CASE executed
    <3>1. \A q \in Callers : caller'[q] = IF q = p THEN "refused" ELSE caller[q]
      BY <1>1, <2>2 DEF ExecuteToolCalls, Move
    <3> QED
      BY <1>1, <2>1, <3>1 DEF ExecuteToolCalls
  <2>3. CASE ~executed
    <3>1. next = 1 /\ \A q \in Callers : caller[q] = "idle"
      BY <2>3 DEF OneOwner
    <3>2. \A q \in Callers : caller'[q] = IF q = p THEN "hooks" ELSE "idle"
      BY <1>1, <2>3, <3>1 DEF ExecuteToolCalls, Move
    <3>3. next \in Calls
      BY <2>3, <3>1 DEF Calls
    <3> QED
      BY <2>1, <3>1, <3>2, <3>3
  <2> QED
    BY <2>2, <2>3
<1>2. ASSUME NEW p \in Callers, fireToolCallStart(p) PROVE WorkersFollowOwner'
  <2>1. \A q \in Callers : q # p => caller[q] \notin Owning
    BY <1>2 DEF fireToolCallStart, OneOwner
  <2>2. \A c \in Calls : worker[c] = "none"
    BY <1>2, <2>1 DEF fireToolCallStart
  <2>3. UNCHANGED worker /\ next' \in Calls
    BY <1>2 DEF fireToolCallStart, workerVars, Calls
  <2>4. \A q \in Callers : q # p => caller'[q] \notin Owning
    BY <1>2, <2>1 DEF fireToolCallStart, Move
  <2>5. caller'[p] = "hooks" \/ (caller'[p] = "dispatch" /\ next' = 1)
    BY <1>2 DEF fireToolCallStart, Move
  <2> QED
    BY <2>2, <2>3, <2>4, <2>5 DEF Calls
<1>3. ASSUME NEW p \in Callers, fireToolCallStartFails(p) PROVE WorkersFollowOwner'
  <2>1. \A q \in Callers : q # p => caller[q] \notin Owning
    BY <1>3 DEF fireToolCallStartFails, OneOwner
  <2>2. \A c \in Calls : worker[c] = "none"
    BY <1>3, <2>1 DEF fireToolCallStartFails
  <2> QED
    BY <1>3, <2>1, <2>2 DEF fireToolCallStartFails, Move, workerVars
<1>4. ASSUME NEW p \in Callers, runToolCalls(p) PROVE WorkersFollowOwner'
  <2>1. \A q \in Callers : q # p => caller'[q] \notin Owning
    BY <1>4 DEF runToolCalls, OneOwner, Move
  <2>2. /\ caller'[p] = IF next = NumCalls THEN "wait" ELSE "dispatch"
        /\ next \in Calls /\ next' = next + 1
        /\ \A c \in Calls : worker'[c] = IF c = next THEN "start" ELSE worker[c]
        /\ \A c \in Calls : worker[c] = "none" <=> c >= next
    BY <1>4 DEF runToolCalls, Move
  <2> QED
    BY <2>1, <2>2 DEF Calls
<1>5. ASSUME NEW p \in Callers, recordToolOutcomes(p) PROVE WorkersFollowOwner'
  <2>1. \A q \in Callers : q # p => caller'[q] \notin Owning
    BY <1>5 DEF recordToolOutcomes, OneOwner, Move
  <2> QED
    BY <1>5, <2>1 DEF recordToolOutcomes, Move, workerVars
<1>6. ASSUME NEW c \in Calls, WorkerStep(c) \/ handlerReturns(c) \/ Expire(c)
      PROVE  WorkersFollowOwner'
  <2>1. UNCHANGED <<caller, next>>
    BY <1>6 DEF WorkerStep, runToolCall, executeToolHandler, runToolLifecycle,
                releaseToken, handlerReturns, Expire, callerVars
  <2>2. \/ UNCHANGED worker
        \/ /\ worker[c] \notin {"none", "done"}
           /\ worker' = [worker EXCEPT ![c] = worker'[c]]
           /\ worker'[c] # "none"
    BY <1>6 DEF WorkerStep, runToolCall, executeToolHandler, runToolLifecycle,
                releaseToken, handlerReturns, Expire, Decide, Advance
  <2> QED
    BY <2>1, <2>2
<1>7. CASE UNCHANGED vars
  BY <1>7 DEF vars
<1> QED
  BY <1>1, <1>2, <1>3, <1>4, <1>5, <1>6, <1>7 DEF Next, CallerStep

\* What a goroutine has done agrees with its handler and its outcome.
LEMMA StageStep ==
  TypeOK /\ WorkersFollowOwner /\ StageMeaning /\ [Next]_vars => StageMeaning'
<1> SUFFICES ASSUME TypeOK, WorkersFollowOwner, StageMeaning, [Next]_vars
             PROVE  StageMeaning'
  OBVIOUS
<1> USE DEF TypeOK, StageMeaning, Stages, Outcomes
<1>1. ASSUME NEW p \in Callers, ExecuteToolCalls(p) \/ CallerStep(p), ~runToolCalls(p)
      PROVE  StageMeaning'
  BY <1>1 DEF ExecuteToolCalls, CallerStep, fireToolCallStart, fireToolCallStartFails,
              recordToolOutcomes, workerVars
<1>2. ASSUME NEW p \in Callers, runToolCalls(p) PROVE StageMeaning'
  <2>1. worker[next] = "none" /\ next \in Calls
    BY <1>2, DispatchAssumption DEF runToolCalls, WorkersFollowOwner, Calls
  <2> QED
    BY <1>2, <2>1 DEF runToolCalls
<1>3. ASSUME NEW c \in Calls, WorkerStep(c) \/ handlerReturns(c) \/ Expire(c)
      PROVE  StageMeaning'
  BY <1>3 DEF WorkerStep, runToolCall, executeToolHandler, runToolLifecycle,
              releaseToken, handlerReturns, Expire, Decide, Advance
<1>4. CASE UNCHANGED vars
  BY <1>4 DEF vars
<1> QED
  BY <1>1, <1>2, <1>3, <1>4 DEF Next, CallerStep

\* The semaphore holds one token per goroutine.
LEMMA TokensStep ==
  TypeOK /\ WorkersFollowOwner /\ TokensCount /\ [Next]_vars => TokensCount'
<1> SUFFICES ASSUME TypeOK, WorkersFollowOwner, TokensCount, [Next]_vars
             PROVE  TokensCount'
  OBVIOUS
<1> USE DEF TypeOK, TokensCount, Stages
<1>1. ASSUME UNCHANGED <<tokens, worker>> PROVE TokensCount'
  BY <1>1 DEF Holding
<1>2. ASSUME NEW p \in Callers, runToolCalls(p) PROVE TokensCount'
  <2>1. worker[next] = "none" /\ next \in Calls
    BY <1>2, DispatchAssumption DEF runToolCalls, WorkersFollowOwner, Calls
  <2>2. Holding' = Holding \cup {next} /\ next \notin Holding
    BY <1>2, <2>1 DEF runToolCalls, Holding
  <2>3. Cardinality(Holding \cup {next}) = Cardinality(Holding) + 1
    BY <2>2, HoldingFinite, FS_AddElement
  <2> QED
    BY <1>2, <2>2, <2>3 DEF runToolCalls
<1>3. ASSUME NEW c \in Calls, releaseToken(c) PROVE TokensCount'
  <2>1. Holding' = Holding \ {c} /\ c \in Holding
    BY <1>3 DEF releaseToken, Advance, Holding
  <2>2. Cardinality(Holding \ {c}) = Cardinality(Holding) - 1
    BY <2>1, HoldingFinite, FS_RemoveElement
  <2> QED
    BY <1>3, <2>1, <2>2 DEF releaseToken
<1>4. ASSUME NEW c \in Calls, WorkerStep(c), ~releaseToken(c) PROVE TokensCount'
  <2>1. tokens' = tokens /\ Holding' = Holding
    BY <1>4 DEF WorkerStep, runToolCall, executeToolHandler, runToolLifecycle,
                Decide, Advance, Holding
  <2> QED
    BY <2>1
<1> QED
  <2>1. ASSUME NEW p \in Callers, ExecuteToolCalls(p) \/ CallerStep(p), ~runToolCalls(p)
        PROVE  UNCHANGED <<tokens, worker>>
    BY <2>1 DEF ExecuteToolCalls, CallerStep, fireToolCallStart,
                fireToolCallStartFails, recordToolOutcomes, workerVars
  <2>2. ASSUME NEW c \in Calls, handlerReturns(c) \/ Expire(c)
        PROVE  UNCHANGED <<tokens, worker>>
    BY <2>2 DEF handlerReturns, Expire
  <2>3. UNCHANGED vars => UNCHANGED <<tokens, worker>>
    BY DEF vars
  <2> QED
    BY <1>1, <1>2, <1>3, <1>4, <2>1, <2>2, <2>3 DEF Next, CallerStep

\* The invariant is inductive.
LEMMA InvStep == Inv /\ [Next]_vars => Inv'
  BY TypeStep, OwnerStep, FollowStep, StageStep, TokensStep DEF Inv

\* The inductive invariant holds throughout every behaviour.
LEMMA Invariance == Spec => []Inv
  BY InvInit, InvStep, PTL DEF Spec

-----------------------------------------------------------------------------
(* The results. *)

\* The variables of runToolCalls keep their types.
THEOREM TypeCorrect == Spec => []TypeOK
  BY Invariance, PTL DEF Inv

\* The semaphore counts the goroutines the dispatch loop started, and
\* maxConcurrentTools bounds them, for any number of calls a provider asks for; a
\* handler that runs without its call's token is one a timeout abandoned.
THEOREM WorkersStayBounded == Spec => []WorkersBounded
<1>1. Inv => WorkersBounded
  <2> SUFFICES ASSUME Inv PROVE WorkersBounded
    OBVIOUS
  <2>1. tokens = Cardinality(Holding) /\ tokens <= MaxConcurrentTools
    BY DispatchAssumption DEF Inv, TypeOK, TokensCount
  <2>2. ASSUME NEW c \in Calls, handler[c] = "running", c \notin expired
        PROVE  c \in Holding
    <3>1. worker[c] \in Stages
      BY DEF Inv, TypeOK
    <3>2. worker[c] \notin {"none", "start", "release", "done"}
      BY <2>2 DEF Inv, StageMeaning
    <3> QED
      BY <3>1, <3>2 DEF Stages, Holding
  <2> QED
    BY <2>1, <2>2 DEF WorkersBounded, Running
<1> QED
  BY <1>1, Invariance, PTL

\* The deferred Wait of runToolCalls leaves no goroutine behind that could still
\* write an outcome, and a failed start hook has started none.
THEOREM NoWorkerLeftBehind == Spec => []NothingLeftBehind
<1>1. Inv => NothingLeftBehind
  <2> SUFFICES ASSUME Inv, NEW p \in Callers
               PROVE  /\ caller[p] = "recorded" =>
                           \A c \in Calls : worker[c] = "done" /\ outcome[c] # "none"
                      /\ caller[p] = "aborted" =>
                           \A c \in Calls : worker[c] = "none" /\ handler[c] = "none"
    BY DEF NothingLeftBehind
  <2>1. ASSUME caller[p] = "recorded"
        PROVE  \A c \in Calls : worker[c] = "done" /\ outcome[c] # "none"
    BY <2>1 DEF Inv, WorkersFollowOwner, StageMeaning
  <2>2. ASSUME caller[p] = "aborted"
        PROVE  \A c \in Calls : worker[c] = "none" /\ handler[c] = "none"
    <3>1. \A q \in Callers : caller[q] \notin Dispatching
      BY <2>2 DEF Inv, OneOwner, Owning, Dispatching
    <3> QED
      BY <3>1 DEF Inv, WorkersFollowOwner, StageMeaning
  <2> QED
    BY <2>1, <2>2
<1> QED
  BY <1>1, Invariance, PTL

-----------------------------------------------------------------------------
(* Refinement. *)

Decided == { c \in Calls : outcome[c] # "none" }

\* An initial state of the dispatch is one of the abstract round.
LEMMA RoundInit == Init => Round!Init
<1> SUFFICES ASSUME Init PROVE Round!Init
  OBVIOUS
<1>1. Status = "offered"
  BY DEF Init, Status
<1>2. Decided = {} /\ starts = [c \in Calls |-> 0]
  BY DEF Init, Decided
<1> QED
  BY <1>1, <1>2 DEF Round!Init, Decided

\* The owner's place decides the status of the round.
LEMMA StatusByOwner ==
  ASSUME Inv
  PROVE  /\ ~executed => Status = "offered"
         /\ \A p \in Callers :
               /\ caller[p] \in {"hooks", "dispatch", "wait"} => Status = "executing"
               /\ caller[p] = "aborted" => Status = "aborted"
               /\ caller[p] = "recorded" => Status = "answered"
<1> USE DEF Inv, OneOwner, Owning, Status
<1>1. ~executed => Status = "offered"
  OBVIOUS
<1>2. ASSUME NEW p \in Callers, caller[p] \in {"hooks", "dispatch", "wait"}
      PROVE  Status = "executing"
  <2>1. executed
    BY <1>2
  <2>2. \A q \in Callers : caller[q] \notin {"aborted", "recorded"}
    BY <1>2
  <2> QED
    BY <2>1, <2>2
<1>3. ASSUME NEW p \in Callers, caller[p] = "aborted" PROVE Status = "aborted"
  BY <1>3
<1>4. ASSUME NEW p \in Callers, caller[p] = "recorded" PROVE Status = "answered"
  BY <1>4
<1> QED
  BY <1>1, <1>2, <1>3, <1>4

\* A goroutine of a call exists only while the round is executing.
LEMMA WorkingMeansExecuting ==
  ASSUME Inv, NEW c \in Calls, worker[c] \notin {"none", "done"}
  PROVE  Status = "executing"
<1>1. PICK p \in Callers : caller[p] \in Dispatching
  BY DEF Inv, WorkersFollowOwner
<1>2. caller[p] \in {"dispatch", "wait"}
  BY <1>1 DEF Inv, WorkersFollowOwner, Dispatching
<1> QED
  BY <1>2, StatusByOwner

\* Every step of the dispatcher is a step of the round or a stutter.
LEMMA RoundStep == Inv /\ Inv' /\ [Next]_vars => [Round!Next]_Round!vars
<1> SUFFICES ASSUME Inv, Inv', [Next]_vars PROVE [Round!Next]_Round!vars
  OBVIOUS
<1> USE DEF Round!vars
<1>1. ASSUME NEW p \in Callers, ExecuteToolCalls(p) PROVE [Round!Next]_Round!vars
  <2>1. UNCHANGED <<starts, outcome>>
    BY <1>1 DEF ExecuteToolCalls, workerVars
  <2>2. CASE executed
    <3>1. Status' = Status
      BY <1>1, <2>2 DEF ExecuteToolCalls, Move, Status, Inv, TypeOK
    <3> QED
      BY <2>1, <3>1
  <2>3. CASE ~executed
    <3>1. caller'[p] = "hooks"
      BY <1>1, <2>3 DEF ExecuteToolCalls, Move, Inv, TypeOK
    <3>2. Status = "offered" /\ Status' = "executing"
      <4>1. Status = "offered"
        BY <2>3, StatusByOwner
      <4>2. Status' = "executing"
        <5>1. \A q \in Callers : caller'[q] \notin {"aborted", "recorded"}
          BY <3>1 DEF Inv, OneOwner, Owning
        <5>2. executed'
          BY <1>1, Zenon DEF ExecuteToolCalls
        <5> QED
          BY <5>1, <5>2 DEF Status
      <4> QED
        BY <4>1, <4>2
    <3> QED
      BY <2>1, <3>2 DEF Round!Next, Round!Claim
  <2> QED
    BY <2>2, <2>3
<1>2. ASSUME NEW p \in Callers, fireToolCallStart(p) \/ runToolCalls(p)
      PROVE  [Round!Next]_Round!vars
  <2>1. UNCHANGED <<starts, outcome, executed>>
    BY <1>2, Zenon DEF fireToolCallStart, runToolCalls, workerVars
  <2>2. Status' = Status
    BY <1>2, <2>1 DEF fireToolCallStart, runToolCalls, Move, Status, Inv, TypeOK
  <2> QED
    BY <2>1, <2>2
<1>3. ASSUME NEW p \in Callers, fireToolCallStartFails(p) PROVE [Round!Next]_Round!vars
  <2>1. UNCHANGED <<starts, outcome>>
    BY <1>3 DEF fireToolCallStartFails, workerVars
  <2>2. Status = "executing"
    BY <1>3, StatusByOwner DEF fireToolCallStartFails
  <2>3. caller'[p] = "aborted" /\ Status' = "aborted"
    BY <1>3 DEF fireToolCallStartFails, Move, Status, Inv, TypeOK
  <2>4. \A q \in Callers : caller[q] \notin Dispatching
    BY <1>3 DEF fireToolCallStartFails, Inv, OneOwner, Owning, Dispatching
  <2>5. \A c \in Calls : starts[c] = 0 /\ outcome[c] = "none"
    BY <2>4 DEF Inv, WorkersFollowOwner, StageMeaning
  <2> QED
    BY <2>1, <2>2, <2>3, <2>5 DEF Round!Next, Round!Abort
<1>4. ASSUME NEW p \in Callers, recordToolOutcomes(p) PROVE [Round!Next]_Round!vars
  <2>1. UNCHANGED <<starts, outcome>>
    BY <1>4 DEF recordToolOutcomes, workerVars
  <2>2. Status = "executing"
    BY <1>4, StatusByOwner DEF recordToolOutcomes
  <2>3. caller'[p] = "recorded"
    BY <1>4 DEF recordToolOutcomes, Move, Inv, TypeOK
  <2>4. Status' = "answered"
    <3>1. \A q \in Callers : caller'[q] # "aborted"
      BY <2>3 DEF Inv, OneOwner, Owning
    <3> QED
      BY <2>3, <3>1 DEF Status
  <2>5. \A c \in Calls : outcome[c] # "none"
    BY <1>4 DEF recordToolOutcomes, Inv, StageMeaning
  <2> QED
    BY <2>1, <2>2, <2>4, <2>5 DEF Round!Next, Round!Complete
<1>5. ASSUME NEW c \in Calls, handlerReturns(c) \/ Expire(c) \/ releaseToken(c)
      PROVE  [Round!Next]_Round!vars
  <2>1. UNCHANGED <<executed, caller, starts, outcome>>
    BY <1>5, Zenon DEF handlerReturns, Expire, releaseToken, callerVars
  <2> QED
    BY <2>1 DEF Status
<1>6. ASSUME NEW c \in Calls, executeToolHandler(c) PROVE [Round!Next]_Round!vars
  <2>1. UNCHANGED <<executed, caller, outcome>>
    BY <1>6, Zenon DEF executeToolHandler, callerVars
  <2>2. Status = "executing" /\ Status' = Status
    BY <1>6, <2>1, WorkingMeansExecuting DEF executeToolHandler, Status
  <2>3. starts[c] = 0 /\ outcome[c] = "none"
    BY <1>6 DEF executeToolHandler, Inv, StageMeaning
  <2>4. starts' = [starts EXCEPT ![c] = 1]
    BY <1>6, <2>3 DEF executeToolHandler
  <2> QED
    BY <2>1, <2>2, <2>3, <2>4 DEF Round!Next, Round!Run
<1>7. ASSUME NEW c \in Calls, runToolCall(c) \/ runToolLifecycle(c)
      PROVE  [Round!Next]_Round!vars
  <2>1. UNCHANGED <<executed, caller, starts>>
    BY <1>7, Zenon DEF runToolCall, runToolLifecycle, callerVars
  <2>2. Status = "executing" /\ Status' = Status
    BY <1>7, <2>1, WorkingMeansExecuting DEF runToolCall, runToolLifecycle, Status
  <2>3. /\ outcome[c] = "none" /\ outcome'[c] # "none"
        /\ \A d \in Calls : d # c => outcome'[d] = outcome[d]
    BY <1>7 DEF runToolCall, runToolLifecycle, Decide, Inv, StageMeaning, TypeOK
  <2>4. { d \in Calls : outcome'[d] # "none" }
          = { d \in Calls : outcome[d] # "none" } \cup {c}
    BY <2>3
  <2> QED
    BY <2>1, <2>2, <2>3, <2>4 DEF Round!Next, Round!Decide
<1>8. CASE UNCHANGED vars
  BY <1>8 DEF vars, Status
<1> QED
  BY <1>1, <1>2, <1>3, <1>4, <1>5, <1>6, <1>7, <1>8 DEF Next, CallerStep, WorkerStep

\* Response.ExecuteToolCalls, called from any number of goroutines, is one tool
\* round: claimed once, no handler started twice or after its outcome was
\* decided, nothing run when it aborts, one outcome per call when it completes.
THEOREM DispatchImplementsRound == Spec => ImplementsToolRound
<1>1. Spec => Round!Init /\ [][Round!Next]_Round!vars
  BY Invariance, RoundInit, RoundStep, PTL DEF Spec
<1> QED
  BY <1>1 DEF ImplementsToolRound, Round!Spec
=============================================================================

----------------------------- MODULE RetryProofs -----------------------------
(***************************************************************************)
(* The retry decorator for any number of attempts, any delays and any      *)
(* failures a provider can produce: output is never repeated, the ledger   *)
(* balances, the backoff stays within the configuration, and retries are   *)
(* made exactly for transient failures.                                    *)
(***************************************************************************)
EXTENDS Retry, TLAPS, FiniteSetTheorems, SequenceTheorems, WellFoundedInduction

-----------------------------------------------------------------------------
(* Induction, with the predicate as a set so that it can be instantiated.  *)

\* A set of naturals with 0 and with the successor of each member is Nat.
LEMMA Induction ==
  ASSUME NEW S, 0 \in S, \A n \in Nat : n \in S => n + 1 \in S
  PROVE  Nat \subseteq S
<1> DEFINE R == OpToRel(<, Nat)
           T == Nat \ S
<1>1. IsWellFoundedOn(R, Nat)
  BY NatLessThanWellFounded
<1>2. \A x, y \in Nat : y < x => <<y, x>> \in R
  BY DEF OpToRel
<1> HIDE DEF R
<1>3. SUFFICES ASSUME T # {} PROVE FALSE
  OBVIOUS
<1>4. PICK x \in T : \A y \in T : ~(<<y, x>> \in R)
  BY <1>1, <1>3, WFMin
<1>5. x # 0
  BY <1>4
<1>6. x - 1 \in Nat /\ x - 1 < x /\ (x - 1) + 1 = x
  BY <1>4, <1>5
<1>7. x - 1 \notin S
  BY <1>4, <1>6
<1> QED
  BY <1>2, <1>4, <1>6, <1>7

-----------------------------------------------------------------------------
(* The backoff. *)

Steps == [delay : 0 .. MaxDelay, capped : BOOLEAN]

\* One iteration of delay's loop.
Doubling(before) ==
  IF before.capped \/ before.delay >= MaxDelay \div 2
  THEN [delay |-> MaxDelay, capped |-> TRUE]
  ELSE [delay |-> before.delay * 2, capped |-> FALSE]

\* Doubling stays within the maximum, whatever the configuration.
LEMMA DoublingType ==
  ASSUME NEW before \in Steps
  PROVE  Doubling(before) \in Steps
<1>1. before.delay \in Nat /\ before.delay <= MaxDelay /\ MaxDelay \in Nat
  BY RetryAssumption DEF Steps
<1>2. CASE before.capped \/ before.delay >= MaxDelay \div 2
  BY <1>1, <1>2 DEF Doubling, Steps
<1>3. CASE ~(before.capped \/ before.delay >= MaxDelay \div 2)
  <2>1. before.delay * 2 \in 0 .. MaxDelay
    <3>1. before.delay < MaxDelay \div 2
      BY <1>1, <1>3
    <3> QED
      BY <1>1, <3>1
  <2> QED
    BY <1>3, <2>1 DEF Doubling, Steps
<1> QED
  BY <1>2, <1>3

Start == [delay |-> InitialDelay, capped |-> FALSE]

\* The first delay is the initial one.
LEMMA StartType == Start \in Steps
  BY RetryAssumption DEF Start, Steps

\* f unrolls the recursion of doubled up to n.
Unrolls(f, n) ==
  /\ f \in [0 .. n -> Steps]
  /\ \A i \in 0 .. n : f[i] = IF i <= 1 THEN Start ELSE Doubling(f[i - 1])

\* The recursion of delay's loop has an unrolling of every length,
LEMMA UnrollingExists ==
  ASSUME NEW n \in Nat PROVE \E f : Unrolls(f, n)
<1> DEFINE S == {m \in Nat : \E f : Unrolls(f, m)}
<1>1. 0 \in S
  <2>1. Unrolls([i \in 0 .. 0 |-> Start], 0)
    BY StartType DEF Unrolls
  <2> QED
    BY <2>1
<1>2. ASSUME NEW m \in Nat, m \in S PROVE m + 1 \in S
  <2>1. PICK f : Unrolls(f, m)
    BY <1>2
  <2> DEFINE top == IF m + 1 <= 1 THEN Start ELSE Doubling(f[m])
             g == [i \in 0 .. m + 1 |-> IF i = m + 1 THEN top ELSE f[i]]
  <2>2. top \in Steps
    BY <2>1, StartType, DoublingType DEF Unrolls
  <2> HIDE DEF top
  <2>3. g \in [0 .. m + 1 -> Steps]
    BY <2>1, <2>2 DEF Unrolls
  <2>4. ASSUME NEW i \in 0 .. m + 1
        PROVE  g[i] = IF i <= 1 THEN Start ELSE Doubling(g[i - 1])
    <3>1. CASE i = m + 1
      <4>1. i > 1 => g[i - 1] = f[m]
        BY <3>1
      <4> QED
        BY <3>1, <4>1 DEF top
    <3>2. CASE i # m + 1
      <4>1. i \in 0 .. m /\ g[i] = f[i] /\ (i > 1 => g[i - 1] = f[i - 1])
        BY <3>2
      <4> QED
        BY <2>1, <4>1 DEF Unrolls
    <3> QED
      BY <3>1, <3>2
  <2>5. Unrolls(g, m + 1)
    BY <2>3, <2>4 DEF Unrolls
  <2> QED
    BY <2>5
<1>3. Nat \subseteq S
  <2> HIDE DEF S
  <2> QED
    BY <1>1, <1>2, Induction
<1> QED
  BY <1>3

\* and two unrollings agree where both are defined.
LEMMA UnrollingUnique ==
  ASSUME NEW n \in Nat, NEW m \in Nat, NEW f, NEW g,
         Unrolls(f, n), Unrolls(g, m), NEW k \in Nat, k <= n, k <= m
  PROVE  f[k] = g[k]
<1> DEFINE S == {i \in Nat : i <= n /\ i <= m => f[i] = g[i]}
<1>1. 0 \in S
  BY DEF Unrolls
<1>2. ASSUME NEW i \in Nat, i \in S PROVE i + 1 \in S
  <2> SUFFICES ASSUME i + 1 <= n, i + 1 <= m PROVE f[i + 1] = g[i + 1]
    OBVIOUS
  <2>1. f[i] = g[i]
    BY <1>2
  <2>2. i + 1 \in 0 .. n /\ i + 1 \in 0 .. m /\ (i + 1) - 1 = i
    OBVIOUS
  <2> QED
    BY <2>1, <2>2 DEF Unrolls
<1>3. Nat \subseteq S
  <2> HIDE DEF S
  <2> QED
    BY <1>1, <1>2, Induction
<1> QED
  BY <1>3

\* The recursive definition of doubled has a solution, so it is one.
LEMMA DoubledUnfolds ==
  doubled = [n \in Nat |-> IF n <= 1 THEN Start ELSE Doubling(doubled[n - 1])]
<1> DEFINE F == [n \in Nat |-> (CHOOSE f : Unrolls(f, n))[n]]
<1>1. ASSUME NEW n \in Nat
      PROVE  F[n] = IF n <= 1 THEN Start ELSE Doubling(F[n - 1])
  <2>1. PICK f : f = CHOOSE g : Unrolls(g, n)
    OBVIOUS
  <2>2. Unrolls(f, n) /\ F[n] = f[n]
    BY <2>1, UnrollingExists
  <2>3. CASE n <= 1
    BY <2>2, <2>3 DEF Unrolls
  <2>4. CASE n > 1
    <3>1. n - 1 \in Nat
      BY <2>4
    <3>2. PICK h : h = CHOOSE g : Unrolls(g, n - 1)
      OBVIOUS
    <3>3. Unrolls(h, n - 1) /\ F[n - 1] = h[n - 1]
      BY <3>1, <3>2, UnrollingExists
    <3>4. f[n - 1] = h[n - 1]
      BY <2>2, <2>4, <3>1, <3>3, UnrollingUnique
    <3>5. f[n] = Doubling(f[n - 1])
      BY <2>2, <2>4 DEF Unrolls
    <3> HIDE DEF F
    <3> QED
      BY <2>2, <2>4, <3>3, <3>4, <3>5
  <2> QED
    BY <2>3, <2>4
<1>2. F = [n \in Nat |-> F[n]]
  OBVIOUS
<1> HIDE DEF F
<1>3. F = [n \in Nat |-> IF n <= 1 THEN Start ELSE Doubling(F[n - 1])]
  BY <1>1, <1>2
<1> QED
  BY <1>3 DEF doubled, Start, Doubling

\* Every delay before jitter lies within the configured maximum.
LEMMA DoubledType ==
  ASSUME NEW n \in Nat PROVE doubled[n] \in Steps
<1> DEFINE S == {i \in Nat : doubled[i] \in Steps}
<1>1. 0 \in S
  BY DoubledUnfolds, StartType
<1>2. ASSUME NEW i \in Nat, i \in S PROVE i + 1 \in S
  <2>1. doubled[i + 1] = IF i + 1 <= 1 THEN Start ELSE Doubling(doubled[i])
    BY DoubledUnfolds
  <2> QED
    BY <1>2, <2>1, StartType, DoublingType
<1>3. Nat \subseteq S
  <2> HIDE DEF S
  <2> QED
    BY <1>1, <1>2, Induction
<1> QED
  BY <1>3

\* So does every delay taken, with jitter or from Retry-After.
LEMMA DelayType ==
  ASSUME NEW n \in Nat, NEW err, err.after \in Nat
  PROVE  delay(n, err) \subseteq 0 .. MaxDelay
<1>1. doubled[n].delay \in 0 .. MaxDelay /\ MaxDelay \in Nat
  BY DoubledType, RetryAssumption DEF Steps
<1> DEFINE d == doubled[n].delay
<1>2. d \in Nat /\ d <= MaxDelay
  BY <1>1
<1>3. doubled[n].delay \div 2 \in Nat /\ 2 * (doubled[n].delay \div 2) <= doubled[n].delay
  <2> HIDE DEF d
  <2>1. d \div 2 \in Nat /\ 2 * (d \div 2) <= d
    BY <1>2
  <2> QED
    BY <2>1 DEF d
<1> QED
  BY <1>1, <1>3 DEF delay

-----------------------------------------------------------------------------
(* Classification. *)

\* The whole path from a failure over the driver's normalisation and its
\* sentinels to classifyRetry retries what the documentation calls transient.
LEMMA ClassifiedAsDocumented ==
  ASSUME NEW f \in Failure
  PROVE  /\ classifyRetry(normalizeProviderError(f)).retryable <=> Transient(f)
         /\ normalizeProviderError(f).after \in Nat
<1> DEFINE err == normalizeProviderError(f)
<1> SUFFICES (classifyRetry(err).retryable <=> Transient(f)) /\ err.after \in Nat
  OBVIOUS
<1>1. /\ f.kind \in {"answer", "event", "transport", "context", "other"}
      /\ f.status \in Nat /\ f.retryAfter \in Nat
  BY DEF Failure
<1>2. /\ err.is = IF f.kind = "answer" THEN ProviderSentinel(f.status, f.code)
                  ELSE IF f.kind = "context" THEN {"Canceled"} ELSE {}
      /\ err.provider = (f.kind \in {"answer", "event"})
      /\ err.net = (f.kind = "transport")
      /\ err.status = IF f.kind = "answer" THEN f.status ELSE 0
      /\ err.code = f.code
      /\ err.after = IF f.kind = "answer" THEN f.retryAfter ELSE 0
  BY <1>1 DEF normalizeProviderError
<1> HIDE DEF err
<1>3. err.after \in Nat
  BY <1>1, <1>2
<1>4. CASE f.kind = "answer"
  <2>1. "Canceled" \notin err.is
    BY <1>2, <1>4 DEF ProviderSentinel
  <2>2. "ErrQuotaExhausted" \in err.is <=> f.code = "quota"
    BY <1>2, <1>4 DEF ProviderSentinel
  <2>3. "ErrRateLimited" \in err.is <=>
          \/ f.code = "rate_limit"
          \/ f.code \notin {"context_length", "quota"} /\ f.status = 429
    BY <1>2, <1>4 DEF ProviderSentinel
  <2>4. Transient(f) <=>
          \/ f.code \in TransientCodes
          \/ f.code \notin TransientCodes \cup PermanentCodes /\ (f.status = 429 \/ f.status >= 500)
    BY <1>4 DEF Transient
  <2>5. err.provider /\ err.status = f.status /\ err.code = f.code
    BY <1>2, <1>4
  <2>6. classifyRetry(err).retryable <=>
          /\ f.code # "quota"
          /\ \/ "ErrRateLimited" \in err.is
             \/ f.code \in TransientCodes
             \/ f.code \notin TransientCodes \cup PermanentCodes /\ (f.status = 429 \/ f.status >= 500)
    BY <2>1, <2>2, <2>5 DEF classifyRetry, classifyHTTPStatus, Verdict
  <2> QED
    BY <1>3, <2>3, <2>4, <2>6 DEF TransientCodes, PermanentCodes
<1>5. CASE f.kind = "event"
  <2>1. Transient(f) <=> f.code \in TransientCodes
    BY <1>5 DEF Transient
  <2>2. err.is = {} /\ err.provider /\ err.status = 0 /\ err.code = f.code
    BY <1>2, <1>5
  <2>3. ~(0 = 429 \/ 0 >= 500)
    OBVIOUS
  <2>4. {"Canceled", "ErrQuotaExhausted", "ErrRateLimited"} \cap err.is = {}
    BY <2>2
  <2>5. classifyRetry(err).retryable <=> f.code \in TransientCodes
    BY <2>2, <2>3, <2>4 DEF classifyRetry, classifyHTTPStatus, Verdict
  <2> QED
    BY <1>3, <2>1, <2>5
<1>6. CASE f.kind \in {"transport", "context", "other"}
  BY <1>2, <1>6, <1>3 DEF classifyRetry, Transient, Verdict
<1> QED
  BY <1>1, <1>4, <1>5, <1>6

-----------------------------------------------------------------------------
(* The invariant. *)

Entry == [attempt : 1 .. MaxAttempts, streamed : BOOLEAN, delay : 0 .. MaxDelay,
          tokens : Charges]

\* The ledger is a record whose entries are bounded.
LedgerType ==
  ledger \in [attempts : 0 .. MaxAttempts, failed : Seq(Entry), wasted : Nat]

\* One entry per attempt that failed, this one's as soon as it failed.
LedgerFollows ==
  /\ Len(ledger.failed) = IF pc = "call" \/ (pc = "returned" /\ outcome.ok)
                          THEN attempt - 1 ELSE attempt
  /\ ledger.attempts = Len(ledger.failed) + (IF outcome.ok THEN 1 ELSE 0)
  /\ \A k \in 1 .. Len(ledger.failed) : ledger.failed[k].attempt = k

\* What was charged is in the ledger, but for what the caller gets.
ChargesFollow ==
  /\ outcome.total + ledger.wasted = charged
  /\ ~outcome.ok => outcome.total = 0
  /\ pc # "returned" => outcome = Pending

\* Output of this attempt only, and then it is the last.
OutputFollows == delivered = IF streamed THEN {attempt} ELSE {}

SleepBounded == slept <= (attempt - 1) * MaxDelay

Inv ==
  /\ TypeOK /\ LedgerType
  /\ LedgerFollows /\ ChargesFollow /\ OutputFollows /\ SleepBounded
  /\ RetriedWhenTransient

\* A call of the decorated driver starts in the invariant.
LEMMA InitInv == Init => Inv
<1> SUFFICES ASSUME Init PROVE Inv
  OBVIOUS
<1>1. /\ pc = "call" /\ attempt = 1 /\ ~streamed /\ delivered = {}
      /\ ledger = [attempts |-> 0, failed |-> <<>>, wasted |-> 0]
      /\ charged = 0 /\ failure = NoFailure /\ slept = 0
      /\ outcome = Pending /\ outcome.total = 0 /\ outcome.ok = FALSE
  BY DEF Init, Pending
<1>2. LedgerType
  BY <1>1, RetryAssumption DEF LedgerType
<1>3. TypeOK
  <2>1. ledger.attempts = 0 /\ ledger.wasted = 0 /\ ledger.failed = <<>>
    BY <1>1
  <2>2. attempt \in 1 .. MaxAttempts /\ ledger.attempts \in 0 .. MaxAttempts
    BY <1>1, <2>1, RetryAssumption
  <2>3. ledger.failed \in Seq([attempt : 1 .. MaxAttempts, streamed : BOOLEAN,
                              delay : Nat, tokens : Charges])
    BY <2>1
  <2>4. streamed \in BOOLEAN
    BY DEF Init
  <2>5. outcome.total \in Nat /\ outcome.ok \in BOOLEAN
    <3>1. outcome.total \in Nat
      BY <1>1
    <3>2. outcome.ok \in BOOLEAN
      BY <1>1, Zenon
    <3> QED
      BY <3>1, <3>2
  <2>6. failure \in Failures \cup {NoFailure} /\ charged \in Nat /\ slept \in Nat
    BY <1>1
  <2>7. ledger.wasted \in Nat /\ delivered \subseteq 1 .. MaxAttempts /\ pc = "call"
    BY <1>1, <2>1
  <2> QED
    BY <2>2, <2>3, <2>4, <2>5, <2>6, <2>7 DEF TypeOK
<1>4. LedgerFollows /\ ChargesFollow /\ OutputFollows /\ SleepBounded
  BY <1>1, RetryAssumption DEF LedgerFollows, ChargesFollow, OutputFollows, SleepBounded
<1>5. RetriedWhenTransient
  BY <1>1 DEF RetriedWhenTransient
<1> QED
  BY <1>2, <1>3, <1>4, <1>5 DEF Inv

\* A delta of the attempt in progress.
LEMMA DeltaInv == ASSUME Inv, onDelta PROVE Inv'
<1> USE DEF Inv, onDelta
<1>1. TypeOK' /\ LedgerType'
  BY DEF TypeOK, LedgerType
<1>2. LedgerFollows' /\ ChargesFollow' /\ SleepBounded'
  BY DEF LedgerFollows, ChargesFollow, SleepBounded
<1>3. OutputFollows'
  BY DEF OutputFollows
<1>4. RetriedWhenTransient'
  BY DEF RetriedWhenTransient
<1> QED
  BY <1>1, <1>2, <1>3, <1>4

\* An attempt that succeeded.
LEMMA SuccessInv ==
  ASSUME Inv, NEW tokens \in Charges, successfulRetryUsage(tokens) PROVE Inv'
<1>1. /\ pc = "call" /\ pc' = "returned" /\ outcome = Pending
      /\ outcome' = [total |-> tokens, ok |-> TRUE, is |-> {}]
      /\ outcome'.total = tokens /\ outcome'.ok = TRUE
      /\ charged' = charged + tokens /\ tokens \in Nat /\ charged \in Nat
      /\ UNCHANGED <<attempt, streamed, delivered, failure, slept>>
  BY RetryAssumption DEF Inv, TypeOK, ChargesFollow, successfulRetryUsage, Return
<1>2. /\ ledger' = [ledger EXCEPT !.attempts = @ + 1] /\ LedgerType
      /\ ledger'.failed = ledger.failed /\ ledger'.wasted = ledger.wasted
      /\ ledger'.attempts = ledger.attempts + 1
  BY DEF Inv, LedgerType, successfulRetryUsage
<1>3. attempt \in 1 .. MaxAttempts /\ MaxAttempts \in Nat
  BY RetryAssumption DEF Inv, TypeOK
<1>4. outcome.ok = FALSE /\ outcome.total = 0
  BY <1>1 DEF Pending
<1>5. Len(ledger.failed) = attempt - 1 /\ ledger.attempts = attempt - 1
  BY <1>1, <1>3, <1>4 DEF Inv, LedgerFollows
<1>6. LedgerType'
  BY <1>2, <1>3, <1>5 DEF LedgerType
<1>7. TypeOK'
  BY <1>1, <1>2, <1>3, <1>5 DEF Inv, TypeOK
<1>8. LedgerFollows'
  BY <1>1, <1>2, <1>3, <1>5 DEF Inv, LedgerFollows
<1>9. ChargesFollow'
  BY <1>1, <1>2, <1>4 DEF Inv, ChargesFollow, LedgerType
<1>10. OutputFollows' /\ SleepBounded' /\ RetriedWhenTransient'
  BY <1>1 DEF Inv, OutputFollows, SleepBounded, RetriedWhenTransient
<1> QED
  BY <1>6, <1>7, <1>8, <1>9, <1>10 DEF Inv

\* An attempt that failed, whether it is the last or not.
LEMMA FailureInv ==
  ASSUME Inv, NEW failed \in Failures, NEW tokens \in Charges,
         classifyAttempt(failed, tokens)
  PROVE  Inv'
<1> DEFINE err     == normalizeProviderError(failed)
           verdict == classifyRetry(err)
           stop    == shouldStopRetry(verdict.retryable)
           Entered(pause) == [attempt |-> attempt, streamed |-> streamed,
                              delay |-> pause, tokens |-> tokens]
<1>1. /\ pc = "call" /\ charged' = charged + tokens /\ failure' = failed
      /\ UNCHANGED <<attempt, streamed, delivered, slept>>
  BY DEF classifyAttempt
<1>2. IF stop THEN Return(0, FALSE, mapProviderError(err, verdict.status))
      ELSE pc' = "notify" /\ UNCHANGED outcome
  BY DEF classifyAttempt
<1>3. PICK pause \in IF stop THEN {0} ELSE delay(attempt, err) :
         recordFailedAttempt(pause, tokens)
  BY DEF classifyAttempt
<1>4. /\ err.after \in Nat
      /\ verdict.retryable <=> Transient(failed)
  BY ClassifiedAsDocumented, RetryAssumption
<1>5. stop <=> ~Transient(failed) \/ streamed \/ attempt = MaxAttempts
  BY <1>4 DEF shouldStopRetry
<1> HIDE DEF verdict, stop
<1>6. /\ attempt \in 1 .. MaxAttempts /\ MaxAttempts \in Nat /\ MaxDelay \in Nat
      /\ streamed \in BOOLEAN /\ tokens \in Nat /\ charged \in Nat
      /\ Charges \subseteq Nat
  BY RetryAssumption DEF Inv, TypeOK
<1>7. pause \in 0 .. MaxDelay
  BY <1>3, <1>4, <1>6, DelayType
<1> HIDE DEF err
<1>8. Entered(pause) \in Entry
  BY <1>6, <1>7 DEF Entry
<1>9. /\ ledger \in [attempts : 0 .. MaxAttempts, failed : Seq(Entry), wasted : Nat]
      /\ outcome = Pending /\ outcome.ok = FALSE /\ outcome.total = 0
  BY <1>1 DEF Inv, LedgerType, ChargesFollow, Pending
<1>10. Len(ledger.failed) = attempt - 1 /\ ledger.attempts = attempt - 1
  BY <1>1, <1>6, <1>9 DEF Inv, LedgerFollows
<1>11. /\ ledger' = [attempts |-> ledger.attempts + 1,
                     failed |-> Append(ledger.failed, Entered(pause)),
                     wasted |-> ledger.wasted + tokens]
       /\ ledger'.attempts = ledger.attempts + 1
       /\ ledger'.failed = Append(ledger.failed, Entered(pause))
       /\ ledger'.wasted = ledger.wasted + tokens
  BY <1>3 DEF recordFailedAttempt
<1>12. /\ Entered(pause).attempt = attempt
  OBVIOUS
<1> HIDE DEF Entered
<1>13. LedgerType'
  BY <1>6, <1>8, <1>9, <1>10, <1>11 DEF LedgerType
<1>14. /\ Len(ledger'.failed) = attempt
       /\ \A k \in 1 .. attempt : ledger'.failed[k].attempt = k
  <2>1. Len(ledger'.failed) = attempt
    BY <1>6, <1>9, <1>10, <1>11
  <2>2. ASSUME NEW k \in 1 .. attempt PROVE ledger'.failed[k].attempt = k
    <3>1. CASE k = attempt
      BY <1>6, <1>9, <1>10, <1>11, <1>12, <3>1
    <3>2. CASE k < attempt
      <4>1. k \in 1 .. Len(ledger.failed) /\ ledger'.failed[k] = ledger.failed[k]
        BY <1>6, <1>9, <1>10, <1>11, <3>2
      <4> QED
        BY <4>1 DEF Inv, LedgerFollows
    <3> QED
      BY <1>6, <3>1, <3>2
  <2> QED
    BY <2>1, <2>2
<1>15. outcome'.ok = FALSE /\ outcome'.total = 0 /\ pc' = IF stop THEN "returned" ELSE "notify"
  BY <1>2, <1>9 DEF Return
<1>16. LedgerFollows'
  <2>1. pc' # "call" /\ ~outcome'.ok /\ attempt' = attempt
    BY <1>1, <1>15
  <2>2. ledger'.attempts = attempt
    BY <1>6, <1>10, <1>11
  <2> QED
    BY <1>6, <1>14, <2>1, <2>2 DEF LedgerFollows
<1>17. ChargesFollow'
  <2>1. outcome'.total + ledger'.wasted = charged'
    <3>1. ledger.wasted \in Nat /\ ledger.wasted = charged
      BY <1>6, <1>9 DEF Inv, ChargesFollow
    <3> QED
      BY <1>1, <1>6, <1>11, <1>15, <3>1
  <2>2. pc' # "returned" => outcome' = Pending
    BY <1>2, <1>9, <1>15
  <2> QED
    BY <1>15, <2>1, <2>2 DEF ChargesFollow
<1>18. OutputFollows' /\ SleepBounded'
  BY <1>1 DEF Inv, OutputFollows, SleepBounded
<1>19. RetriedWhenTransient'
  BY <1>1, <1>5, <1>6, <1>15 DEF RetriedWhenTransient
<1>20. TypeOK'
  <2>1. /\ ledger'.attempts \in 0 .. MaxAttempts /\ ledger'.wasted \in Nat
        /\ ledger'.failed \in Seq(Entry)
    BY <1>13 DEF LedgerType
  <2>2. ledger'.failed \in Seq([attempt : 1 .. MaxAttempts, streamed : BOOLEAN,
                                delay : Nat, tokens : Charges])
    <3>1. Entry \subseteq [attempt : 1 .. MaxAttempts, streamed : BOOLEAN,
                          delay : Nat, tokens : Charges]
      BY <1>6 DEF Entry
    <3> QED
      BY <2>1, <3>1, SeqMonotonic
  <2>3. outcome'.ok \in BOOLEAN /\ outcome'.total \in Nat
    <3>1. outcome'.ok \in BOOLEAN
      BY <1>15, Zenon
    <3> QED
      BY <1>15, <3>1
  <2>4. pc' \in {"call", "notify", "wait", "returned"}
    BY <1>15
  <2> QED
    BY <1>1, <1>6, <2>1, <2>2, <2>3, <2>4 DEF Inv, TypeOK
<1> QED
  BY <1>13, <1>16, <1>17, <1>18, <1>19, <1>20 DEF Inv

\* The caller's retry callback.
LEMMA NotifyInv == ASSUME Inv, notifyRetry PROVE Inv'
<1>1. /\ pc = "notify" /\ UNCHANGED <<attempt, streamed, delivered, ledger, charged, failure, slept>>
      /\ outcome.ok = FALSE /\ outcome.total = 0
  BY DEF notifyRetry, Inv, ChargesFollow, Pending
<1>2. /\ outcome'.ok = FALSE /\ outcome'.total = 0
      /\ \/ pc' = "wait" /\ outcome' = outcome
         \/ pc' = "returned" /\ outcome'.is = {"callback"}
  BY <1>1 DEF notifyRetry, Return
<1>3. outcome'.ok \in BOOLEAN
  BY <1>2, Zenon
<1>4. TypeOK' /\ LedgerType'
  BY <1>1, <1>2, <1>3 DEF Inv, TypeOK, LedgerType
<1>5. LedgerFollows' /\ ChargesFollow'
  BY <1>1, <1>2 DEF Inv, LedgerFollows, ChargesFollow
<1>6. OutputFollows' /\ SleepBounded'
  BY <1>1 DEF Inv, OutputFollows, SleepBounded
<1>7. RetriedWhenTransient'
  BY <1>1, <1>2 DEF Inv, RetriedWhenTransient
<1> QED
  BY <1>4, <1>5, <1>6, <1>7 DEF Inv

\* The backoff, or the end of the caller's context.
LEMMA WaitInv == ASSUME Inv, wait PROVE Inv'
<1> DEFINE pause == ledger.failed[Len(ledger.failed)].delay
<1>1. /\ pc = "wait" /\ UNCHANGED <<delivered, ledger, charged, failure>>
      /\ outcome = Pending /\ outcome.ok = FALSE /\ outcome.total = 0
      /\ ~streamed /\ attempt < MaxAttempts
  BY DEF wait, Inv, ChargesFollow, Pending, RetriedWhenTransient
<1>2. /\ attempt \in 1 .. MaxAttempts /\ MaxAttempts \in Nat /\ MaxDelay \in Nat
      /\ slept \in Nat /\ ledger.failed \in Seq(Entry)
      /\ Len(ledger.failed) = attempt
  BY <1>1, RetryAssumption DEF Inv, TypeOK, LedgerType, LedgerFollows
<1>3. pause \in 0 .. MaxDelay
  <2>1. ledger.failed[attempt] \in Entry
    BY <1>2
  <2> QED
    BY <1>2, <2>1 DEF Entry
<1>4. CASE /\ pc' = "call" /\ attempt' = attempt + 1 /\ streamed' = FALSE
           /\ slept' = slept + pause /\ UNCHANGED outcome
  <2> HIDE DEF pause
  <2>1. attempt' \in 1 .. MaxAttempts /\ slept' \in Nat
    BY <1>1, <1>2, <1>3, <1>4
  <2>2. streamed' \in BOOLEAN
    BY <1>4
  <2>3. TypeOK' /\ LedgerType'
    BY <1>1, <1>4, <2>1, <2>2 DEF Inv, TypeOK, LedgerType
  <2>4. LedgerFollows' /\ ChargesFollow'
    <3>1. LedgerFollows'
      <4>1. ~outcome'.ok /\ pc' = "call" /\ ledger' = ledger /\ attempt' - 1 = attempt
        BY <1>1, <1>2, <1>4
      <4>2. ledger.attempts = Len(ledger.failed) + 0
        BY <1>1 DEF Inv, LedgerFollows
      <4> QED
        BY <1>2, <4>1, <4>2 DEF Inv, LedgerFollows
    <3>2. ChargesFollow'
      BY <1>1, <1>4 DEF Inv, ChargesFollow
    <3> QED
      BY <3>1, <3>2
  <2>5. OutputFollows'
    BY <1>1, <1>4 DEF Inv, OutputFollows
  <2>6. SleepBounded'
    <3>1. slept <= (attempt - 1) * MaxDelay
      BY DEF Inv, SleepBounded
    <3>2. (attempt' - 1) * MaxDelay = (attempt - 1) * MaxDelay + MaxDelay
      BY <1>2, <1>4
    <3>3. (attempt - 1) * MaxDelay \in Nat
      BY <1>2
    <3> QED
      BY <1>2, <1>3, <1>4, <3>1, <3>2, <3>3 DEF SleepBounded
  <2>7. RetriedWhenTransient'
    BY <1>4 DEF RetriedWhenTransient
  <2> QED
    BY <2>3, <2>4, <2>5, <2>6, <2>7 DEF Inv
<1>5. CASE Return(0, FALSE, {"Canceled"}) /\ UNCHANGED <<attempt, streamed, slept>>
  <2>1. /\ pc' = "returned" /\ outcome'.ok = FALSE /\ outcome'.total = 0
        /\ outcome'.is = {"Canceled"}
    BY <1>5 DEF Return
  <2>2. outcome'.ok \in BOOLEAN
    BY <2>1, Zenon
  <2>3. TypeOK' /\ LedgerType'
    BY <1>1, <1>5, <2>1, <2>2 DEF Inv, TypeOK, LedgerType
  <2>4. LedgerFollows' /\ ChargesFollow'
    BY <1>1, <1>5, <2>1 DEF Inv, LedgerFollows, ChargesFollow
  <2>5. OutputFollows' /\ SleepBounded' /\ RetriedWhenTransient'
    BY <1>1, <1>5, <2>1 DEF Inv, OutputFollows, SleepBounded, RetriedWhenTransient
  <2> QED
    BY <2>3, <2>4, <2>5 DEF Inv
<1> QED
  BY <1>4, <1>5 DEF wait

-----------------------------------------------------------------------------

\* The invariant holds throughout.
THEOREM Invariant == Spec => []Inv
<1>1. Inv /\ [Next]_vars => Inv'
  <2> SUFFICES ASSUME Inv, [Next]_vars PROVE Inv'
    OBVIOUS
  <2>1. CASE UNCHANGED vars
    BY <2>1 DEF vars, Inv, TypeOK, LedgerType, LedgerFollows, ChargesFollow, OutputFollows,
                SleepBounded, RetriedWhenTransient
  <2>2. CASE Next
    BY <2>2, DeltaInv, SuccessInv, FailureInv, NotifyInv, WaitInv DEF Next, callWithRetry
  <2> QED
    BY <2>1, <2>2
<1> QED
  BY <1>1, InitInv, PTL DEF Spec

\* Once a delta of an attempt reached the caller no other attempt is made, for
\* every number of attempts (attempt's wrapper and shouldStopRetry).
THEOREM OutputIsNeverReplayed == Spec => []OutputNeverReplayed
<1>1. Inv => OutputNeverReplayed
  <2> SUFFICES ASSUME Inv PROVE OutputNeverReplayed
    OBVIOUS
  <2>1. delivered = {attempt} \/ delivered = {}
    BY DEF Inv, OutputFollows
  <2>2. Cardinality({attempt}) = 1 /\ Cardinality({}) = 0
    BY FS_Singleton, FS_EmptySet
  <2> QED
    BY <2>1, <2>2 DEF OutputNeverReplayed
<1> QED
  BY <1>1, Invariant, PTL

\* Usage.Total and the wasted tokens add up to what the provider charged over
\* all attempts, whatever ended the call (recordFailedAttempt and
\* successfulRetryUsage).
THEOREM LedgerAlwaysBalances == Spec => []LedgerBalanced
<1>1. Inv => LedgerBalanced
  <2> SUFFICES ASSUME Inv, pc = "returned" PROVE LedgerBalanced
    BY DEF LedgerBalanced
  <2>1. DOMAIN ledger.failed = 1 .. Len(ledger.failed)
    BY DEF Inv, LedgerType
  <2> QED
    BY <2>1 DEF Inv, LedgerFollows, ChargesFollow, LedgerBalanced
<1> QED
  BY <1>1, Invariant, PTL

\* No delay and no sum of delays exceeds what the caller configured, whatever
\* the provider's Retry-After asks for (delay).
THEOREM BackoffStaysBounded == Spec => []BackoffBounded
<1>1. Inv => BackoffBounded
  <2> SUFFICES ASSUME Inv PROVE BackoffBounded
    OBVIOUS
  <2>1. ASSUME NEW k \in DOMAIN ledger.failed PROVE ledger.failed[k].delay <= MaxDelay
    <3>1. ledger.failed \in Seq(Entry)
      BY DEF Inv, LedgerType
    <3>2. ledger.failed[k] \in Entry
      BY <3>1
    <3> QED
      BY <3>2, RetryAssumption DEF Entry
  <2>2. slept <= (MaxAttempts - 1) * MaxDelay
    <3>1. /\ attempt \in Nat /\ MaxAttempts \in Nat /\ MaxDelay \in Nat /\ slept \in Nat
          /\ attempt >= 1 /\ attempt <= MaxAttempts
      BY RetryAssumption DEF Inv, TypeOK
    <3>2. (MaxAttempts - 1) * MaxDelay = (attempt - 1) * MaxDelay + (MaxAttempts - attempt) * MaxDelay
      BY <3>1
    <3>3. (MaxAttempts - attempt) * MaxDelay >= 0
      BY <3>1
    <3> QED
      BY <3>1, <3>2, <3>3 DEF Inv, SleepBounded
  <2> QED
    BY <2>1, <2>2 DEF Inv, BackoffBounded
<1> QED
  BY <1>1, Invariant, PTL

\* A retry is made exactly for a failure the documentation calls transient,
\* while nothing was delivered and attempts are left (classifyRetry,
\* ProviderSentinel, shouldStopRetry).
THEOREM TransientIsRetried == Spec => []RetriedWhenTransient
  BY Invariant, PTL DEF Inv
=============================================================================

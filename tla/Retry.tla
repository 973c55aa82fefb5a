-------------------------------- MODULE Retry --------------------------------
(***************************************************************************)
(* retry.go: the decorator that calls a driver again after a transient     *)
(* failure, the classification of failures it decides by, the backoff, and *)
(* the ledger it keeps; errors.go's ProviderSentinel and the error         *)
(* normalisation of the OpenAI and Anthropic drivers it classifies.        *)
(*                                                                         *)
(* The driver, the provider, the caller's delta and retry callbacks and    *)
(* the caller's context are external.  Stream and Complete run through the *)
(* same loop; Complete is a call whose deltas come after it cannot fail    *)
(* any more.                                                               *)
(***************************************************************************)
EXTENDS Integers, Sequences, FiniteSets

CONSTANTS
  MaxAttempts,        \* RetryConfig.MaxAttempts, validated
  InitialDelay,       \* RetryConfig.InitialDelay
  MaxDelay,           \* RetryConfig.MaxDelay
  Jitter,             \* RetryConfig.Jitter
  RespectRetryAfter,  \* RetryConfig.RespectRetryAfter
  Failures,           \* ways a provider call may fail
  Charges             \* tokens a provider may charge for an attempt

\* A failure as the SDK or the network reports it: an answer with a status, an
\* error event inside a stream (no status), a broken connection, the caller's
\* context, or something else.
Failure ==
  [kind : {"answer", "event", "transport", "context", "other"},
   status : Nat, code : STRING, retryAfter : Nat]

ASSUME RetryAssumption ==
  /\ MaxAttempts \in Nat \ {0}
  /\ InitialDelay \in Nat /\ MaxDelay \in Nat
  /\ InitialDelay <= MaxDelay
  /\ Jitter \in BOOLEAN /\ RespectRetryAfter \in BOOLEAN
  /\ Failures \subseteq Failure
  /\ Charges \subseteq Nat

-----------------------------------------------------------------------------
(* errors.go and drivers/*/errors.go *)

ProviderSentinel(status, code) ==
  CASE code = "context_length" -> {"ErrContextExceeded"}
    [] code = "rate_limit" -> {"ErrRateLimited"}
    [] code = "quota" -> {"ErrQuotaExhausted"}
    [] code \notin {"context_length", "rate_limit", "quota"} /\ status = 429 ->
         {"ErrRateLimited"}
    [] code \notin {"context_length", "rate_limit", "quota"} /\ status \in {401, 403} ->
         {"ErrNotAuthenticated"}
    [] code \notin {"context_length", "rate_limit", "quota"} /\ status = 404 ->
         {"ErrNotFound"}
    [] OTHER -> {}

\* The error a driver returns, by what errors.Is and errors.As find in it.  An
\* error event becomes a ProviderError without a sentinel.
normalizeProviderError(failure) ==
  [is       |-> CASE failure.kind = "answer" ->
                       ProviderSentinel(failure.status, failure.code)
                  [] failure.kind = "context" -> {"Canceled"}
                  [] failure.kind \notin {"answer", "context"} -> {},
   provider |-> failure.kind \in {"answer", "event"},
   net      |-> failure.kind = "transport",
   status   |-> IF failure.kind = "answer" THEN failure.status ELSE 0,
   code     |-> failure.code,
   after    |-> IF failure.kind = "answer" THEN failure.retryAfter ELSE 0]

-----------------------------------------------------------------------------
(* retry.go: classification *)

Verdict(retryable, status) == [retryable |-> retryable, status |-> status]

TransientCodes == {"overloaded", "api_error", "rate_limit"}
PermanentCodes == {"context_length", "quota"}

classifyHTTPStatus(status) == Verdict(status = 429 \/ status >= 500, status)

\* Fault: the status outranks the provider's code.
classifyByStatus(err) ==
  IF "Canceled" \in err.is THEN Verdict(FALSE, 0)
  ELSE IF err.provider THEN classifyHTTPStatus(err.status)
  ELSE Verdict(err.net, 0)

\* The provider's code decides before the status; an unknown code leaves it to
\* the status.
classifyRetry(err) ==
  IF "Canceled" \in err.is THEN Verdict(FALSE, 0)
  ELSE IF "ErrQuotaExhausted" \in err.is THEN Verdict(FALSE, 429)
  ELSE IF "ErrRateLimited" \in err.is THEN Verdict(TRUE, 429)
  ELSE IF err.provider /\ err.code \in TransientCodes \cup PermanentCodes
       THEN Verdict(err.code \in TransientCodes, err.status)
  ELSE IF err.provider THEN classifyHTTPStatus(err.status)
  ELSE Verdict(err.net, 0)

\* What the caller can match on: the mapped sentinel replaces the error's own.
mapProviderError(err, status) ==
  IF err.provider /\ err.code = "context_length" THEN {"ErrContextExceeded"}
  ELSE CASE status \in {401, 403} -> {"ErrNotAuthenticated"}
         [] status = 404 -> {"ErrNotFound"}
         [] status = 429 -> {"ErrRateLimited"}
         [] status \notin {401, 403, 404, 429} -> err.is

-----------------------------------------------------------------------------
(* retry.go: backoff *)

\* The delay before jitter, doubling until it reaches the maximum; a delay that
\* was cut off at the maximum is returned without jitter.
doubled[attempt \in Nat] ==
  IF attempt <= 1 THEN [delay |-> InitialDelay, capped |-> FALSE]
  ELSE LET before == doubled[attempt - 1] IN
       IF before.capped \/ before.delay >= MaxDelay \div 2
       THEN [delay |-> MaxDelay, capped |-> TRUE]
       ELSE [delay |-> before.delay * 2, capped |-> FALSE]

\* Fault: Retry-After is taken as it comes.
delayUncapped(attempt, err) ==
  IF RespectRetryAfter /\ err.after > 0 THEN {err.after} ELSE {doubled[attempt].delay}

\* The delays possible behind the given attempt.
delay(attempt, err) ==
  LET base == doubled[attempt]
      half == base.delay \div 2
  IN  IF RespectRetryAfter /\ err.after > 0
      THEN {IF err.after < MaxDelay THEN err.after ELSE MaxDelay}
      ELSE IF base.capped \/ ~Jitter THEN {base.delay}
      ELSE half .. half + (IF half = 0 THEN 0 ELSE half - 1)

-----------------------------------------------------------------------------
VARIABLES
  pc,         \* "call", "notify", "wait" or "returned"
  attempt,    \* the loop variable of callWithRetry
  streamed,   \* whether this attempt delivered a delta
  delivered,  \* history: the attempts whose deltas reached the caller
  ledger,     \* aggregate.Retry
  charged,    \* history: what the provider charged in all
  failure,    \* the failure of the last attempt that failed
  slept,      \* history: the backoff waited for in all
  outcome     \* what the caller gets: Usage.Total and what the error matches

vars == <<pc, attempt, streamed, delivered, ledger, charged, failure, slept,
          outcome>>

NoFailure == [kind |-> "other", status |-> 0, code |-> "", retryAfter |-> 0]

Pending == [total |-> 0, ok |-> FALSE, is |-> {}]

TypeOK ==
  /\ pc \in {"call", "notify", "wait", "returned"}
  /\ attempt \in 1 .. MaxAttempts
  /\ streamed \in BOOLEAN
  /\ delivered \subseteq 1 .. MaxAttempts
  /\ ledger.attempts \in 0 .. MaxAttempts
  /\ ledger.wasted \in Nat
  /\ ledger.failed \in Seq([attempt : 1 .. MaxAttempts, streamed : BOOLEAN,
                            delay : Nat, tokens : Charges])
  /\ charged \in Nat
  /\ failure \in Failures \cup {NoFailure}
  /\ slept \in Nat
  /\ outcome.total \in Nat /\ outcome.ok \in BOOLEAN

Init ==
  /\ pc = "call"
  /\ attempt = 1
  /\ streamed = FALSE
  /\ delivered = {}
  /\ ledger = [attempts |-> 0, failed |-> <<>>, wasted |-> 0]
  /\ charged = 0
  /\ failure = NoFailure
  /\ slept = 0
  /\ outcome = Pending

\* Fault: delivered output is not noted.
onDeltaUnnoted ==
  /\ pc = "call"
  /\ delivered' = delivered \cup {attempt}
  /\ UNCHANGED <<pc, attempt, streamed, ledger, charged, failure, slept, outcome>>

\* attempt's wrapper around the caller's callback notes that output was
\* delivered.
onDelta ==
  /\ pc = "call"
  /\ ~streamed
  /\ streamed' = TRUE
  /\ delivered' = delivered \cup {attempt}
  /\ UNCHANGED <<pc, attempt, ledger, charged, failure, slept, outcome>>

Return(total, ok, is) ==
  /\ pc' = "returned"
  /\ outcome' = [total |-> total, ok |-> ok, is |-> is]

successfulRetryUsage(tokens) ==
  /\ pc = "call"
  /\ charged' = charged + tokens
  /\ ledger' = [ledger EXCEPT !.attempts = @ + 1]
  /\ Return(tokens, TRUE, {})
  /\ UNCHANGED <<attempt, streamed, delivered, failure, slept>>

shouldStopRetry(retryable) ==
  ~retryable \/ streamed \/ attempt = MaxAttempts

\* Fault: tokens of a failed attempt are forgotten.
recordWithoutTokens(pause, tokens) ==
  ledger' = [ledger EXCEPT !.attempts = @ + 1,
                           !.failed = Append(@, [attempt |-> attempt,
                                                 streamed |-> streamed,
                                                 delay |-> pause,
                                                 tokens |-> tokens])]

recordFailedAttempt(pause, tokens) ==
  ledger' = [attempts |-> ledger.attempts + 1,
             failed   |-> Append(ledger.failed,
                                 [attempt |-> attempt, streamed |-> streamed,
                                  delay |-> pause, tokens |-> tokens]),
             wasted   |-> ledger.wasted + tokens]

\* A failed attempt: classify it, record it, give up or go on to the retry
\* callback.
classifyAttempt(failed, tokens) ==
  LET err     == normalizeProviderError(failed)
      verdict == classifyRetry(err)
      stop    == shouldStopRetry(verdict.retryable)
  IN  /\ pc = "call"
      /\ charged' = charged + tokens
      /\ failure' = failed
      /\ \E pause \in IF stop THEN {0} ELSE delay(attempt, err) :
            recordFailedAttempt(pause, tokens)
      /\ IF stop THEN Return(0, FALSE, mapProviderError(err, verdict.status))
         ELSE pc' = "notify" /\ UNCHANGED outcome
      /\ UNCHANGED <<attempt, streamed, delivered, slept>>

\* The OnRetry callback; its error ends the run.
notifyRetry ==
  /\ pc = "notify"
  /\ \/ pc' = "wait" /\ UNCHANGED outcome
     \/ Return(0, FALSE, {"callback"})
  /\ UNCHANGED <<attempt, streamed, delivered, ledger, charged, failure, slept>>

\* Fault: a timer of zero never fires and the context is not selected on.
waitForTimer ==
  /\ pc = "wait"
  /\ ledger.failed[Len(ledger.failed)].delay > 0
  /\ pc' = "call"
  /\ attempt' = attempt + 1
  /\ streamed' = FALSE
  /\ slept' = slept + ledger.failed[Len(ledger.failed)].delay
  /\ UNCHANGED <<delivered, ledger, charged, failure, outcome>>

\* The backoff runs out, or the caller's context ends first.
wait ==
  /\ pc = "wait"
  /\ \/ /\ pc' = "call"
        /\ attempt' = attempt + 1
        /\ streamed' = FALSE
        /\ slept' = slept + ledger.failed[Len(ledger.failed)].delay
        /\ UNCHANGED outcome
     \/ /\ Return(0, FALSE, {"Canceled"})
        /\ UNCHANGED <<attempt, streamed, slept>>
  /\ UNCHANGED <<delivered, ledger, charged, failure>>

callWithRetry ==
  \/ onDelta
  \/ \E tokens \in Charges :
        \/ successfulRetryUsage(tokens)
        \/ \E failed \in Failures : classifyAttempt(failed, tokens)
  \/ notifyRetry
  \/ wait

Next == callWithRetry

Spec == Init /\ [][Next]_vars

\* Drivers and callbacks return; timers fire.
FairSpec == Spec /\ WF_vars(Next)

-----------------------------------------------------------------------------
(* Properties *)

\* Once a delta of an attempt reached the caller, no other attempt is made: the
\* caller never sees output twice.
OutputNeverReplayed ==
  /\ Cardinality(delivered) <= 1
  /\ \A a \in delivered : attempt = a

\* Nothing the provider charged is lost or counted twice: Usage.Total plus the
\* wasted tokens, BilledTotalTokens, is what all attempts cost, and every
\* attempt but a successful last one is in the ledger, in order.
LedgerBalanced ==
  pc = "returned" =>
    /\ outcome.total + ledger.wasted = charged
    /\ ~outcome.ok => outcome.total = 0
    /\ ledger.attempts = Len(ledger.failed) + (IF outcome.ok THEN 1 ELSE 0)
    /\ \A k \in DOMAIN ledger.failed : ledger.failed[k].attempt = k

\* A provider's Retry-After cannot park a run: the whole backoff is bounded by
\* the caller's own configuration, and no jitter exceeds it or goes below zero
\* (TypeOK).
BackoffBounded ==
  /\ TypeOK
  /\ \A k \in DOMAIN ledger.failed : ledger.failed[k].delay <= MaxDelay
  /\ slept <= (MaxAttempts - 1) * MaxDelay

\* docs/retries.md on failures: connection failures are transient; the
\* provider's code, when known, outranks the status; 429 and 5xx are transient;
\* everything else, cancellation above all, is not.
Transient(f) ==
  CASE f.kind = "transport" -> TRUE
    [] f.kind \in {"answer", "event"} /\ f.code \in TransientCodes -> TRUE
    [] f.kind = "answer" /\ f.code \notin TransientCodes \cup PermanentCodes ->
         f.status = 429 \/ f.status >= 500
    [] OTHER -> FALSE

\* A retry is made exactly when the failure is transient, nothing was delivered
\* and attempts are left.
RetriedWhenTransient ==
  /\ pc \in {"notify", "wait"} =>
       Transient(failure) /\ ~streamed /\ attempt < MaxAttempts
  /\ pc = "returned" /\ ~outcome.ok /\ Transient(failure) =>
       streamed \/ attempt = MaxAttempts \/ outcome.is \in {{"callback"}, {"Canceled"}}

\* Every call of the decorated driver returns.
CallReturns == <>(pc = "returned")

\* errors.go: a spent quota is ErrQuotaExhausted, never ErrRateLimited.
QuotaIsNoRateLimit ==
  pc = "returned" /\ failure.code = "quota" => "ErrRateLimited" \notin outcome.is
=============================================================================

------------------------------- MODULE RetryMC -------------------------------
(* Every kind of failure, status class and provider code. *)
EXTENDS Retry

statuses == {200, 401, 404, 429, 500}
codes    == {"", "unknown", "overloaded", "rate_limit", "context_length", "quota"}

Fails(kinds, status, code, after) ==
  [kind : kinds, status : status, code : code, retryAfter : after]

failures ==
  Fails({"answer"}, statuses, codes, {0, 2, 9})
    \cup Fails({"event"}, {0}, codes, {0})
    \cup Fails({"transport", "context", "other"}, {0}, {""}, {0})
=============================================================================

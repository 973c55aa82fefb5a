--------------------------- MODULE DriverStreamsMC ---------------------------
EXTENDS DriverStreams

Call(driver, mode, callback, style, typed) ==
  [driver |-> driver, mode |-> mode, callback |-> callback, style |-> style, typed |-> typed]

\* Every driver in both modes, with and without a callback, and providers that
\* label reasoning blocks in each of the ways the OpenAI driver merges.
MCCalls ==
  {Call(d, m, TRUE, "plain", TRUE) : d \in {"openai", "zai", "anthropic"},
                                     m \in {"stream", "complete"}}
    \cup {Call(d, "stream", FALSE, "plain", TRUE) : d \in {"openai", "anthropic"}}
    \cup {Call("openai", "stream", TRUE, s, t) : s \in {"index", "id", "position"},
                                                 t \in BOOLEAN}

MCFinishReasons == {"stop", "length", "sensitive", "network_error"}
MCStopReasons == {"end_turn", "refusal", "unknown"}
MCUsageFrames == {<<2, 1, 0>>}
=============================================================================

--------------------------- MODULE McpConnection ---------------------------
(***************************************************************************)
(* The life of one mcp.Connection: Connect, the watcher it leaves behind,  *)
(* and the methods any goroutine may call on it at any moment, Close,      *)
(* RefreshTools and the handlers of its tools.                             *)
(*                                                                         *)
(* The session is the SDK's and external: it ends when the server goes     *)
(* away or Close asks for it, once no request is in flight, and what ended *)
(* it may or may not be a failure.                                         *)
(***************************************************************************)
EXTENDS Naturals

CONSTANTS
  Closers,      \* goroutines calling Close
  Refreshers,   \* goroutines calling RefreshTools
  Calls,        \* tool calls
  Starter,      \* the goroutine in Connect
  Pages         \* pages of the server's tool list

ASSUME ConnectionAssumption ==
  /\ Starter \notin Closers \cup Refreshers
  /\ Pages \in Nat \ {0}

Actors == Closers \cup {Starter}       \* who may run Close
Listers == Refreshers \cup {Starter}   \* who may run listTools

VARIABLES
  kind,       \* a stdio server or an HTTP one
  serverUp,   \* external: the process runs, or the endpoint answers
  session,    \* the SDK session: "none", "open", "ended"
  broken,     \* the session ended with an error
  connect,    \* where Connect is
  closing, err, closeErr, done, stopped, \* Connection's fields; stopped: c.stop() ran
  once,       \* closeOnce
  ended,      \* Close's local: the watcher had reported before it
  tools,      \* the list, as the pages it was made of
  watcher,    \* where watch is
  closer,     \* where a call of Close is
  lister,     \* where a call of RefreshTools, or Connect's listing, is
  listing,    \* the pages it has read
  call,       \* where a tool call is
  late        \* history: calls begun after Done or after a Close returned

connVars == <<closing, err, closeErr, done, stopped, once, ended>>
serverVars == <<kind, serverUp>>
sessionVars == <<session, broken>>
listVars == <<tools, lister, listing>>
callVars == <<call, late>>
vars == <<serverVars, sessionVars, connect, connVars, watcher, closer, listVars,
          callVars>>

TypeOK ==
  /\ kind \in {"stdio", "http"}
  /\ serverUp \in BOOLEAN
  /\ session \in {"none", "open", "ended"}
  /\ broken \in BOOLEAN
  /\ connect \in {"open", "list", "close", "up", "failed"}
  /\ {closing, err, closeErr, done, stopped, ended} \subseteq BOOLEAN
  /\ once \in {"fresh", "running", "done"}
  /\ tools \in {0, Pages}   \* nothing yet, or a whole listing
  /\ watcher \in {"none", "wait", "record", "announce", "gone"}
  /\ closer \in [Actors -> {"idle", "queued", "session", "stop", "returned"}]
  /\ lister \in [Listers -> {"idle", "list", "store", "ok", "failed", "stopped"}]
  /\ listing \in [Listers -> 0 .. Pages]
  /\ call \in [Calls -> {"idle", "checked", "sent", "ok", "failed", "stopped"}]
  /\ late \subseteq Calls

Init ==
  /\ kind \in {"stdio", "http"} /\ serverUp = TRUE
  /\ session = "none" /\ broken = FALSE
  /\ connect = "open"
  /\ closing = FALSE /\ err = FALSE /\ closeErr = FALSE
  /\ done = FALSE /\ stopped = FALSE /\ once = "fresh" /\ ended = FALSE
  /\ tools = 0
  /\ watcher = "none"
  /\ closer = [p \in Actors |-> "idle"]
  /\ lister = [p \in Listers |-> "idle"]
  /\ listing = [p \in Listers |-> 0]
  /\ call = [k \in Calls |-> "idle"]
  /\ late = {}

-----------------------------------------------------------------------------
(* The server and the SDK session. *)

\* The process dies or the endpoint stops answering.
ServerGoes ==
  /\ serverUp
  /\ serverUp' = FALSE
  /\ UNCHANGED <<kind, sessionVars, connect, connVars, watcher, closer, listVars,
                 callVars>>

\* session.Close was called and has not come back.
SessionClosing == \E p \in Actors : closer[p] = "session"

\* The session takes new requests.
Accepts == session = "open" /\ serverUp /\ ~SessionClosing

\* A session ends when nothing is in flight any more.  The error is the one of
\* reading, writing or the process's exit.
SessionEnds ==
  /\ session = "open"
  /\ ~serverUp \/ SessionClosing
  /\ \A k \in Calls : call[k] # "sent"
  /\ session' = "ended"
  /\ broken' \in BOOLEAN
  /\ UNCHANGED <<serverVars, connect, connVars, watcher, closer, listVars, callVars>>

-----------------------------------------------------------------------------
(* listTools, for Connect and for RefreshTools. *)

\* The next page of the SDK's iterator.
listTools(p) ==
  /\ lister[p] = "list"
  /\ Accepts
  /\ listing' = [listing EXCEPT ![p] = @ + 1]
  /\ lister' = [lister EXCEPT ![p] = IF listing[p] + 1 = Pages THEN "store"
                                     ELSE "list"]
  /\ UNCHANGED <<serverVars, sessionVars, connect, connVars, watcher, closer, tools,
                 callVars>>

\* A page that cannot be read, a schema that is no object, the end of ctx: the
\* pages read so far are dropped.
listToolsFails(p) ==
  /\ lister[p] = "list"
  /\ listing' = [listing EXCEPT ![p] = 0]
  /\ lister' = [lister EXCEPT ![p] = "failed"]
  /\ UNCHANGED <<serverVars, sessionVars, connect, connVars, watcher, closer, tools,
                 callVars>>

-----------------------------------------------------------------------------
(* Connect. *)

\* open succeeded: the session is up and the listing begins.
open ==
  /\ connect = "open"
  /\ serverUp
  /\ session' = "open"
  /\ connect' = "list"
  /\ lister' = [lister EXCEPT ![Starter] = "list"]
  /\ UNCHANGED <<serverVars, broken, connVars, watcher, closer, tools, listing,
                 callVars>>

\* open failed: the lifetime is cancelled, which kills a started process.
openFails ==
  /\ connect = "open"
  /\ stopped' = TRUE
  /\ connect' = "failed"
  /\ UNCHANGED <<serverVars, sessionVars, closing, err, closeErr, done, once, ended,
                 watcher, closer, listVars, callVars>>

\* The first list is kept and the watcher started: Connect returns.
Connect ==
  /\ connect = "list"
  /\ lister[Starter] = "store"
  /\ tools' = listing[Starter]
  /\ lister' = [lister EXCEPT ![Starter] = "ok"]
  /\ connect' = "up"
  /\ watcher' = "wait"
  /\ UNCHANGED <<serverVars, sessionVars, connVars, closer, listing, callVars>>

\* The listing failed: Connect closes the connection it built.
connectCloses ==
  /\ connect = "list"
  /\ lister[Starter] = "failed"
  /\ connect' = "close"
  /\ UNCHANGED <<serverVars, sessionVars, connVars, watcher, closer, listVars,
                 callVars>>

\* That Close came back: Connect returns the error and no connection.
connectFails ==
  /\ connect = "close"
  /\ closer[Starter] = "returned"
  /\ connect' = "failed"
  /\ UNCHANGED <<serverVars, sessionVars, connVars, watcher, closer, listVars,
                 callVars>>

-----------------------------------------------------------------------------
(* Close. *)

MayClose(p) == IF p = Starter THEN connect = "close" ELSE connect = "up"

\* The first call wins closeOnce, announces itself and notes, under the mutex,
\* whether the watcher has reported.  Then it is in session.Close.
Close(p) ==
  /\ closer[p] = "idle" /\ MayClose(p)
  /\ once = "fresh"
  /\ once' = "running"
  /\ closing' = TRUE
  /\ ended' = err
  /\ closer' = [closer EXCEPT ![p] = "session"]
  /\ UNCHANGED <<serverVars, sessionVars, connect, err, closeErr, done, stopped,
                 watcher, listVars, callVars>>

\* Fault: a failure of session.Close is returned whatever was reported before.
closeRepeats(p) ==
  /\ closer[p] = "session"
  /\ session = "ended"
  /\ closeErr' = broken
  /\ closer' = [closer EXCEPT ![p] = "stop"]
  /\ UNCHANGED <<serverVars, sessionVars, connect, closing, err, done, stopped, once,
                 ended, watcher, listVars, callVars>>

\* session.Close came back.
closeSession(p) ==
  /\ closer[p] = "session"
  /\ session = "ended"
  /\ closeErr' = (broken /\ ~ended)
  /\ closer' = [closer EXCEPT ![p] = "stop"]
  /\ UNCHANGED <<serverVars, sessionVars, connect, closing, err, done, stopped, once,
                 ended, watcher, listVars, callVars>>

\* c.stop() cancels the lifetime of the process; the once is done.
closeStop(p) ==
  /\ closer[p] = "stop"
  /\ stopped' = TRUE
  /\ once' = "done"
  /\ closer' = [closer EXCEPT ![p] = "returned"]
  /\ UNCHANGED <<serverVars, sessionVars, connect, closing, err, closeErr, done, ended,
                 watcher, listVars, callVars>>

\* Another call of Close blocks in closeOnce.
closeQueued(p) ==
  /\ closer[p] = "idle" /\ MayClose(p)
  /\ once # "fresh"
  /\ closer' = [closer EXCEPT ![p] = "queued"]
  /\ UNCHANGED <<serverVars, sessionVars, connect, connVars, watcher, listVars, callVars>>

\* Fault: a boolean in place of the once, so a second call does not wait.
closeAtOnce(p) ==
  /\ closer[p] = "queued"
  /\ closer' = [closer EXCEPT ![p] = "returned"]
  /\ UNCHANGED <<serverVars, sessionVars, connect, connVars, watcher, listVars, callVars>>

\* ... until the first one is through.
closeAgain(p) ==
  /\ closer[p] = "queued"
  /\ once = "done"
  /\ closer' = [closer EXCEPT ![p] = "returned"]
  /\ UNCHANGED <<serverVars, sessionVars, connect, connVars, watcher, listVars, callVars>>

-----------------------------------------------------------------------------
(* watch. *)

\* Fault: the watcher waits for a Close only.
watchCloseOnly ==
  /\ watcher = "wait"
  /\ session = "ended" /\ closing
  /\ watcher' = "record"
  /\ UNCHANGED <<serverVars, sessionVars, connect, connVars, closer, listVars, callVars>>

\* Fault: Done closes before the reason is recorded.
watchDoneFirst ==
  /\ watcher = "wait"
  /\ session = "ended"
  /\ watcher' = "record"
  /\ done' = TRUE
  /\ UNCHANGED <<serverVars, sessionVars, connect, closing, err, closeErr, stopped, once,
                 ended, closer, listVars, callVars>>

\* session.Wait came back.
watchWakes ==
  /\ watcher = "wait"
  /\ session = "ended"
  /\ watcher' = "record"
  /\ UNCHANGED <<serverVars, sessionVars, connect, connVars, closer, listVars, callVars>>

\* Under the mutex: the end is the server's unless a Close began.
watch ==
  /\ watcher = "record"
  /\ err' = ~closing
  /\ watcher' = "announce"
  /\ UNCHANGED <<serverVars, sessionVars, connect, closing, closeErr, done, stopped, once,
                 ended, closer, listVars, callVars>>

\* The deferred close of Done, after the unlock.
watchDone ==
  /\ watcher = "announce"
  /\ done' = TRUE
  /\ watcher' = "gone"
  /\ UNCHANGED <<serverVars, sessionVars, connect, closing, err, closeErr, stopped, once,
                 ended, closer, listVars, callVars>>

-----------------------------------------------------------------------------
(* RefreshTools. *)

\* Err is asked first, under the mutex.
RefreshTools(p) ==
  /\ connect = "up"
  /\ lister[p] = "idle"
  /\ lister' = [lister EXCEPT ![p] = IF err THEN "stopped" ELSE "list"]
  /\ UNCHANGED <<serverVars, sessionVars, connect, connVars, watcher, closer, tools,
                 listing, callVars>>

\* The complete list and its warnings replace the ones before, under the mutex.
storeTools(p) ==
  /\ lister[p] = "store"
  /\ tools' = listing[p]
  /\ lister' = [lister EXCEPT ![p] = "ok"]
  /\ UNCHANGED <<serverVars, sessionVars, connect, connVars, watcher, closer, listing,
                 callVars>>

-----------------------------------------------------------------------------
(* The handler of a tool. *)

CloseReturned == \E p \in Actors : closer[p] = "returned"

\* Fault: the handler does not ask Err.
callUnchecked(k) ==
  /\ connect = "up"
  /\ call[k] = "idle"
  /\ call' = [call EXCEPT ![k] = "checked"]
  /\ late' = IF done \/ CloseReturned THEN late \cup {k} ELSE late
  /\ UNCHANGED <<serverVars, sessionVars, connect, connVars, watcher, closer, listVars>>

\* Err is asked first.
handler(k) ==
  /\ connect = "up"
  /\ call[k] = "idle"
  /\ call' = [call EXCEPT ![k] = IF err THEN "stopped" ELSE "checked"]
  /\ late' = IF done \/ CloseReturned THEN late \cup {k} ELSE late
  /\ UNCHANGED <<serverVars, sessionVars, connect, connVars, watcher, closer, listVars>>

\* CallTool: a session that ends or has ended refuses it.
callTool(k) ==
  /\ call[k] = "checked"
  /\ call' = [call EXCEPT ![k] = IF Accepts THEN "sent" ELSE "failed"]
  /\ UNCHANGED <<serverVars, sessionVars, connect, connVars, watcher, closer, listVars,
                 late>>

\* The answer of a server that is there, or a failure: no server, the tool's
\* timeout, a result that cannot be converted.
callReturns(k) ==
  /\ call[k] = "sent"
  /\ \E result \in {"ok", "failed"} :
        /\ result = "ok" => serverUp
        /\ call' = [call EXCEPT ![k] = result]
  /\ UNCHANGED <<serverVars, sessionVars, connect, connVars, watcher, closer, listVars,
                 late>>

-----------------------------------------------------------------------------
ConnectStep == open \/ openFails \/ Connect \/ connectCloses \/ connectFails
CloseStep(p) == closeSession(p) \/ closeStop(p) \/ closeAgain(p)
WatchStep == watchWakes \/ watch \/ watchDone
ListStep(p) == listTools(p) \/ listToolsFails(p) \/ (p # Starter /\ storeTools(p))
CallStep(k) == callTool(k) \/ callReturns(k)

Next ==
  \/ ServerGoes \/ SessionEnds
  \/ ConnectStep \/ WatchStep
  \/ \E p \in Actors : Close(p) \/ closeQueued(p) \/ CloseStep(p)
  \/ \E p \in Listers : ListStep(p)
  \/ \E p \in Refreshers : RefreshTools(p)
  \/ \E k \in Calls : handler(k) \/ CallStep(k)

Spec == Init /\ [][Next]_vars

\* Goroutines are scheduled, Connect goes on to close what it opened, requests
\* end with their contexts, and the SDK ends a session that was closed, signalling
\* and killing a process that does not leave, or whose pipe broke.  Nothing makes
\* it notice an HTTP server that went away.
FairSpec ==
  /\ Spec
  /\ WF_vars(ConnectStep) /\ WF_vars(Close(Starter)) 
  /\ WF_vars(SessionEnds /\ (SessionClosing \/ kind = "stdio"))
  /\ WF_vars(WatchStep)
  /\ \A p \in Actors : WF_vars(CloseStep(p))
  /\ \A p \in Listers : WF_vars(ListStep(p))
  /\ \A k \in Calls : WF_vars(CallStep(k))

-----------------------------------------------------------------------------
(* Properties *)

\* However the watcher and Close interleave, the end of a connection is reported
\* once: through Err or by Close, never both; a watcher that ends without a
\* report left it to a Close; and a failure of the session is not lost.
EndReportedOnce ==
  /\ ~(err /\ closeErr)
  /\ done => (err \/ closing)
  /\ done /\ once = "done" /\ broken => (err \/ closeErr)

\* Every call of Close, the ones that found another in progress too, comes back
\* only when the session has ended and the process's lifetime is cancelled; and a
\* Connect that failed leaves no session and no process behind.
ClosedMeansStopped ==
  /\ CloseReturned => stopped /\ session = "ended"
  /\ connect = "failed" => stopped /\ session # "open"

\* What a caller learned is final: neither Err after Done nor the error every
\* Close returns changes any more.
ReportsFinal ==
  [][/\ done => err' = err /\ done'
     /\ CloseReturned => closeErr' = closeErr]_vars

\* A call begun after the connection ended never reaches a server, and if it was
\* the server that went away the call says so (docs/mcp.md on ErrServerStopped).
LateCallsFail ==
  \A k \in late :
     /\ call[k] \in {"checked", "failed", "stopped"}
     /\ err => call[k] = "stopped"

\* The tools of a connection are a whole listing or none, though the server goes
\* away between two pages (TypeOK), and they fail once the connection ended.
ToolsUsable == TypeOK /\ LateCallsFail

\* Done closes once a stdio server is gone or a Close began, and every Close
\* returns.
ConnectionEnds ==
  /\ (connect = "up" /\ (closing \/ (kind = "stdio" /\ ~serverUp))) ~> done
  /\ \A p \in Actors : closer[p] \in {"queued", "session"} ~> closer[p] = "returned"
=============================================================================

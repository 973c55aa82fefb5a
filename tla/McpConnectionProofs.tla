------------------------- MODULE McpConnectionProofs -------------------------
(***************************************************************************)
(* One MCP connection with any number of goroutines that close it, refresh *)
(* its tools and call them: the end is reported once and for good, Close   *)
(* and a failed Connect leave nothing running, and late calls fail.        *)
(*                                                                         *)
(* The invariant follows the two goroutines that race for the end.  The    *)
(* one Close that won the once has noted in ended what the watcher had     *)
(* reported, and the watcher reports nothing once a Close began: so from   *)
(* then on ended and err are equal, and the failure of a session goes to   *)
(* exactly one of them.                                                    *)
(***************************************************************************)
EXTENDS McpConnection, TLAPS

\* Connect is the only user of a connection until it returns it.
ConnectInv ==
  /\ connect = "open" => session = "none" /\ lister[Starter] = "idle"
  /\ connect = "list" => session # "none" /\ lister[Starter] \in {"list", "store", "failed"}
  /\ connect = "close" => session # "none" /\ lister[Starter] = "failed"
  /\ connect = "failed" => stopped /\ session # "open" /\ lister[Starter] # "list"
  /\ connect = "up" => session # "none" /\ lister[Starter] = "ok"
  /\ connect # "up" =>
       /\ watcher = "none"
       /\ \A p \in Closers : closer[p] = "idle"
       /\ \A k \in Calls : call[k] = "idle"
  /\ connect \notin {"close", "failed"} => closer[Starter] = "idle"

\* A listing is stored when it is whole.
ListInv ==
  \A p \in Listers :
    /\ lister[p] = "idle" => listing[p] = 0
    /\ lister[p] = "list" => listing[p] < Pages
    /\ lister[p] = "store" => listing[p] = Pages

\* One Close runs in the once; the others wait for it.
OnceInv ==
  /\ closing <=> once # "fresh"
  /\ \A p \in Actors : once = "fresh" => closer[p] = "idle"
  /\ \A p \in Actors : closer[p] \in {"session", "stop"} => once = "running"
  /\ \A p, q \in Actors : closer[p] \in {"session", "stop"} /\ closer[q] \in {"session", "stop"}
                            => p = q
  /\ \A p \in Actors : closer[p] = "stop" => session = "ended"
  /\ \A p \in Actors : closer[p] = "returned" => once = "done"
  /\ once = "done" => stopped /\ session = "ended"

\* Who reports the end.
ReportInv ==
  /\ closing => (ended <=> err)
  /\ once = "fresh" => ~closeErr
  /\ \A p \in Actors : closer[p] = "session" => ~closeErr
  /\ \A p \in Actors : closer[p] = "stop" => (closeErr <=> broken /\ ~ended)
  /\ once = "done" => (closeErr <=> broken /\ ~ended)
  /\ closeErr => once # "fresh" /\ ~ended

\* The watcher.
WatchInv ==
  /\ watcher \in {"record", "announce", "gone"} => session = "ended"
  /\ err => watcher \in {"announce", "gone"}
  /\ watcher \in {"announce", "gone"} => err \/ closing
  /\ done => watcher = "gone"

\* Calls begun after the end.
LateInv ==
  \A k \in late :
    /\ session = "ended" /\ (done \/ closing)
    /\ call[k] \in {"checked", "failed", "stopped"}
    /\ err => call[k] = "stopped"

Inv == TypeOK /\ ConnectInv /\ ListInv /\ OnceInv /\ ReportInv /\ WatchInv /\ LateInv

-----------------------------------------------------------------------------
(* One lemma per action. *)

USE ConnectionAssumption DEF connVars, serverVars, sessionVars, listVars, callVars, Actors, Listers

\* The server goes away.
LEMMA ServerGoesInv == ASSUME Inv, ServerGoes PROVE Inv'
<1> USE DEF Inv, ServerGoes
<1>1. TypeOK'
  BY DEF ListInv, TypeOK
<1>2. ConnectInv'
  BY DEF ConnectInv, OnceInv, TypeOK
<1>3. ListInv'
  BY DEF ListInv, TypeOK
<1>4. OnceInv'
  BY DEF ConnectInv, OnceInv, TypeOK
<1>5. ReportInv'
  BY DEF OnceInv, ReportInv, TypeOK
<1>6. WatchInv'
  BY DEF ConnectInv, OnceInv, WatchInv, TypeOK
<1>7. LateInv'
  BY DEF ConnectInv, LateInv, OnceInv, WatchInv, TypeOK
<1> QED
  BY <1>1, <1>2, <1>3, <1>4, <1>5, <1>6, <1>7

\* The session ends.
LEMMA SessionEndsInv == ASSUME Inv, SessionEnds PROVE Inv'
<1> USE DEF Inv, SessionEnds
<1>1. TypeOK'
  BY DEF ListInv, TypeOK, SessionClosing
<1>2. ConnectInv'
  BY DEF ConnectInv, OnceInv, TypeOK, SessionClosing
<1>3. ListInv'
  BY DEF ListInv, TypeOK, SessionClosing
<1>4. OnceInv'
  BY DEF ConnectInv, OnceInv, TypeOK, SessionClosing
<1>5. ReportInv'
  BY DEF OnceInv, ReportInv, TypeOK, SessionClosing
<1>6. WatchInv'
  BY DEF ConnectInv, OnceInv, WatchInv, TypeOK, SessionClosing
<1>7. LateInv'
  BY DEF ConnectInv, LateInv, OnceInv, WatchInv, TypeOK, SessionClosing
<1> QED
  BY <1>1, <1>2, <1>3, <1>4, <1>5, <1>6, <1>7

\* A page is read.
LEMMA ListToolsInv == ASSUME Inv, NEW p \in Listers, listTools(p) PROVE Inv'
<1> USE DEF Inv, listTools
<1>1. TypeOK'
  BY DEF ListInv, TypeOK
<1>2. ConnectInv'
  BY DEF ConnectInv, OnceInv, TypeOK
<1>3. ListInv'
  BY DEF ListInv, TypeOK
<1>4. OnceInv'
  BY DEF ConnectInv, OnceInv, TypeOK
<1>5. ReportInv'
  BY DEF OnceInv, ReportInv, TypeOK
<1>6. WatchInv'
  BY DEF ConnectInv, OnceInv, WatchInv, TypeOK
<1>7. LateInv'
  BY DEF ConnectInv, LateInv, OnceInv, WatchInv, TypeOK
<1> QED
  BY <1>1, <1>2, <1>3, <1>4, <1>5, <1>6, <1>7

\* A page cannot be read.
LEMMA ListToolsFailsInv == ASSUME Inv, NEW p \in Listers, listToolsFails(p) PROVE Inv'
<1> USE DEF Inv, listToolsFails
<1>1. TypeOK'
  BY DEF ListInv, TypeOK
<1>2. ConnectInv'
  BY DEF ConnectInv, OnceInv, TypeOK
<1>3. ListInv'
  BY DEF ListInv, TypeOK
<1>4. OnceInv'
  BY DEF ConnectInv, OnceInv, TypeOK
<1>5. ReportInv'
  BY DEF OnceInv, ReportInv, TypeOK
<1>6. WatchInv'
  BY DEF ConnectInv, OnceInv, WatchInv, TypeOK
<1>7. LateInv'
  BY DEF ConnectInv, LateInv, OnceInv, WatchInv, TypeOK
<1> QED
  BY <1>1, <1>2, <1>3, <1>4, <1>5, <1>6, <1>7

\* Connect has a session.
LEMMA OpenInv == ASSUME Inv, open PROVE Inv'
<1> USE DEF Inv, open
<1>1. TypeOK'
  BY DEF ListInv, TypeOK
<1>2. ConnectInv'
  BY DEF ConnectInv, OnceInv, TypeOK
<1>3. ListInv'
  BY DEF ConnectInv, ListInv, TypeOK
<1>4. OnceInv'
  BY DEF ConnectInv, OnceInv, TypeOK
<1>5. ReportInv'
  BY DEF OnceInv, ReportInv, TypeOK
<1>6. WatchInv'
  BY DEF ConnectInv, OnceInv, WatchInv, TypeOK
<1>7. LateInv'
  BY DEF ConnectInv, LateInv, OnceInv, WatchInv, TypeOK
<1> QED
  BY <1>1, <1>2, <1>3, <1>4, <1>5, <1>6, <1>7

\* Connect has none.
LEMMA OpenFailsInv == ASSUME Inv, openFails PROVE Inv'
<1> USE DEF Inv, openFails
<1>1. TypeOK'
  BY DEF ListInv, TypeOK
<1>2. ConnectInv'
  BY DEF ConnectInv, OnceInv, TypeOK
<1>3. ListInv'
  BY DEF ListInv, TypeOK
<1>4. OnceInv'
  BY DEF ConnectInv, OnceInv, TypeOK
<1>5. ReportInv'
  BY DEF OnceInv, ReportInv, TypeOK
<1>6. WatchInv'
  BY DEF ConnectInv, OnceInv, WatchInv, TypeOK
<1>7. LateInv'
  BY DEF ConnectInv, LateInv, OnceInv, WatchInv, TypeOK
<1> QED
  BY <1>1, <1>2, <1>3, <1>4, <1>5, <1>6, <1>7

\* Connect returns the connection.
LEMMA ConnectReturnsInv == ASSUME Inv, Connect PROVE Inv'
<1> USE DEF Inv, Connect
<1>1. TypeOK'
  BY DEF ListInv, TypeOK
<1>2. ConnectInv'
  BY DEF ConnectInv, OnceInv, TypeOK
<1>3. ListInv'
  BY DEF ListInv, TypeOK
<1>4. OnceInv'
  BY DEF ConnectInv, OnceInv, TypeOK
<1>5. ReportInv'
  BY DEF OnceInv, ReportInv, TypeOK
<1>6. WatchInv'
  BY DEF ConnectInv, OnceInv, WatchInv, TypeOK
<1>7. LateInv'
  BY DEF ConnectInv, LateInv, OnceInv, WatchInv, TypeOK
<1> QED
  BY <1>1, <1>2, <1>3, <1>4, <1>5, <1>6, <1>7

\* Connect gives up.
LEMMA ConnectClosesInv == ASSUME Inv, connectCloses PROVE Inv'
<1> USE DEF Inv, connectCloses
<1>1. TypeOK'
  BY DEF ListInv, TypeOK
<1>2. ConnectInv'
  BY DEF ConnectInv, OnceInv, TypeOK
<1>3. ListInv'
  BY DEF ListInv, TypeOK
<1>4. OnceInv'
  BY DEF ConnectInv, OnceInv, TypeOK
<1>5. ReportInv'
  BY DEF OnceInv, ReportInv, TypeOK
<1>6. WatchInv'
  BY DEF ConnectInv, OnceInv, WatchInv, TypeOK
<1>7. LateInv'
  BY DEF ConnectInv, LateInv, OnceInv, WatchInv, TypeOK
<1> QED
  BY <1>1, <1>2, <1>3, <1>4, <1>5, <1>6, <1>7

\* Connect returns its error.
LEMMA ConnectFailsInv == ASSUME Inv, connectFails PROVE Inv'
<1> USE DEF Inv, connectFails
<1>1. TypeOK'
  BY DEF ListInv, TypeOK
<1>2. ConnectInv'
  BY DEF ConnectInv, OnceInv, TypeOK
<1>3. ListInv'
  BY DEF ListInv, TypeOK
<1>4. OnceInv'
  BY DEF ConnectInv, OnceInv, TypeOK
<1>5. ReportInv'
  BY DEF OnceInv, ReportInv, TypeOK
<1>6. WatchInv'
  BY DEF ConnectInv, OnceInv, WatchInv, TypeOK
<1>7. LateInv'
  BY DEF ConnectInv, LateInv, OnceInv, WatchInv, TypeOK
<1> QED
  BY <1>1, <1>2, <1>3, <1>4, <1>5, <1>6, <1>7

\* A Close wins the once.
LEMMA CloseInv == ASSUME Inv, NEW p \in Actors, Close(p) PROVE Inv'
<1> USE DEF Inv, Close
<1>1. TypeOK'
  BY DEF ListInv, TypeOK, MayClose
<1>2. ConnectInv'
  BY DEF ConnectInv, OnceInv, TypeOK, MayClose
<1>3. ListInv'
  BY DEF ListInv, TypeOK, MayClose
<1>4. OnceInv'
  BY DEF ConnectInv, OnceInv, TypeOK, MayClose
<1>5. ReportInv'
  BY DEF OnceInv, ReportInv, TypeOK, MayClose
<1>6. WatchInv'
  BY DEF ConnectInv, OnceInv, WatchInv, TypeOK, MayClose
<1>7. LateInv'
  BY DEF ConnectInv, LateInv, OnceInv, WatchInv, TypeOK, MayClose
<1> QED
  BY <1>1, <1>2, <1>3, <1>4, <1>5, <1>6, <1>7

\* Its session is closed.
LEMMA CloseSessionInv == ASSUME Inv, NEW p \in Actors, closeSession(p) PROVE Inv'
<1> USE DEF Inv, closeSession
<1>1. TypeOK'
  BY DEF ListInv, TypeOK
<1>2. ConnectInv'
  BY DEF ConnectInv, OnceInv, TypeOK
<1>3. ListInv'
  BY DEF ListInv, TypeOK
<1>4. OnceInv'
  BY DEF ConnectInv, OnceInv, TypeOK
<1>5. ReportInv'
  BY DEF OnceInv, ReportInv, TypeOK
<1>6. WatchInv'
  BY DEF ConnectInv, OnceInv, WatchInv, TypeOK
<1>7. LateInv'
  BY DEF ConnectInv, LateInv, OnceInv, WatchInv, TypeOK
<1> QED
  BY <1>1, <1>2, <1>3, <1>4, <1>5, <1>6, <1>7

\* It is through.
LEMMA CloseStopInv == ASSUME Inv, NEW p \in Actors, closeStop(p) PROVE Inv'
<1> USE DEF Inv, closeStop
<1>1. TypeOK'
  BY DEF ListInv, TypeOK
<1>2. ConnectInv'
  BY DEF ConnectInv, OnceInv, TypeOK
<1>3. ListInv'
  BY DEF ListInv, TypeOK
<1>4. OnceInv'
  BY DEF ConnectInv, OnceInv, TypeOK
<1>5. ReportInv'
  BY DEF OnceInv, ReportInv, TypeOK
<1>6. WatchInv'
  BY DEF ConnectInv, OnceInv, WatchInv, TypeOK
<1>7. LateInv'
  BY DEF ConnectInv, LateInv, OnceInv, WatchInv, TypeOK
<1> QED
  BY <1>1, <1>2, <1>3, <1>4, <1>5, <1>6, <1>7

\* Another Close.
LEMMA CloseQueuedInv == ASSUME Inv, NEW p \in Actors, closeQueued(p) PROVE Inv'
<1> USE DEF Inv, closeQueued
<1>1. TypeOK'
  BY DEF ListInv, TypeOK, MayClose
<1>2. ConnectInv'
  BY DEF ConnectInv, OnceInv, TypeOK, MayClose
<1>3. ListInv'
  BY DEF ListInv, TypeOK, MayClose
<1>4. OnceInv'
  BY DEF ConnectInv, OnceInv, TypeOK, MayClose
<1>5. ReportInv'
  BY DEF OnceInv, ReportInv, TypeOK, MayClose
<1>6. WatchInv'
  BY DEF ConnectInv, OnceInv, WatchInv, TypeOK, MayClose
<1>7. LateInv'
  BY DEF ConnectInv, LateInv, OnceInv, WatchInv, TypeOK, MayClose
<1> QED
  BY <1>1, <1>2, <1>3, <1>4, <1>5, <1>6, <1>7

\* It is let through.
LEMMA CloseAgainInv == ASSUME Inv, NEW p \in Actors, closeAgain(p) PROVE Inv'
<1> USE DEF Inv, closeAgain
<1>1. TypeOK'
  BY DEF ListInv, TypeOK
<1>2. ConnectInv'
  BY DEF ConnectInv, OnceInv, TypeOK
<1>3. ListInv'
  BY DEF ListInv, TypeOK
<1>4. OnceInv'
  BY DEF ConnectInv, OnceInv, TypeOK
<1>5. ReportInv'
  BY DEF OnceInv, ReportInv, TypeOK
<1>6. WatchInv'
  BY DEF ConnectInv, OnceInv, WatchInv, TypeOK
<1>7. LateInv'
  BY DEF ConnectInv, LateInv, OnceInv, WatchInv, TypeOK
<1> QED
  BY <1>1, <1>2, <1>3, <1>4, <1>5, <1>6, <1>7

\* The watcher wakes.
LEMMA WatchWakesInv == ASSUME Inv, watchWakes PROVE Inv'
<1> USE DEF Inv, watchWakes
<1>1. TypeOK'
  BY DEF ListInv, TypeOK
<1>2. ConnectInv'
  BY DEF ConnectInv, OnceInv, TypeOK
<1>3. ListInv'
  BY DEF ListInv, TypeOK
<1>4. OnceInv'
  BY DEF ConnectInv, OnceInv, TypeOK
<1>5. ReportInv'
  BY DEF OnceInv, ReportInv, TypeOK
<1>6. WatchInv'
  BY DEF ConnectInv, OnceInv, WatchInv, TypeOK
<1>7. LateInv'
  BY DEF ConnectInv, LateInv, OnceInv, WatchInv, TypeOK
<1> QED
  BY <1>1, <1>2, <1>3, <1>4, <1>5, <1>6, <1>7

\* The watcher reports.
LEMMA WatchReportsInv == ASSUME Inv, watch PROVE Inv'
<1> USE DEF Inv, watch
<1>1. TypeOK'
  BY DEF ListInv, TypeOK
<1>2. ConnectInv'
  BY DEF ConnectInv, OnceInv, TypeOK
<1>3. ListInv'
  BY DEF ListInv, TypeOK
<1>4. OnceInv'
  BY DEF ConnectInv, OnceInv, TypeOK
<1>5. ReportInv'
  BY DEF OnceInv, ReportInv, WatchInv, TypeOK
<1>6. WatchInv'
  BY DEF ConnectInv, OnceInv, WatchInv, TypeOK
<1>7. LateInv'
  BY DEF ConnectInv, LateInv, OnceInv, WatchInv, TypeOK
<1> QED
  BY <1>1, <1>2, <1>3, <1>4, <1>5, <1>6, <1>7

\* The watcher closes Done.
LEMMA WatchDoneInv == ASSUME Inv, watchDone PROVE Inv'
<1> USE DEF Inv, watchDone
<1>1. TypeOK'
  BY DEF ListInv, TypeOK
<1>2. ConnectInv'
  BY DEF ConnectInv, OnceInv, TypeOK
<1>3. ListInv'
  BY DEF ListInv, TypeOK
<1>4. OnceInv'
  BY DEF ConnectInv, OnceInv, TypeOK
<1>5. ReportInv'
  BY DEF OnceInv, ReportInv, TypeOK
<1>6. WatchInv'
  BY DEF ConnectInv, OnceInv, WatchInv, TypeOK
<1>7. LateInv'
  BY DEF ConnectInv, LateInv, OnceInv, WatchInv, TypeOK
<1> QED
  BY <1>1, <1>2, <1>3, <1>4, <1>5, <1>6, <1>7

\* A refresh begins.
LEMMA RefreshToolsInv == ASSUME Inv, NEW p \in Refreshers, RefreshTools(p) PROVE Inv'
<1> USE DEF Inv, RefreshTools
<1>1. TypeOK'
  BY DEF ListInv, TypeOK
<1>2. ConnectInv'
  BY DEF ConnectInv, OnceInv, TypeOK
<1>3. ListInv'
  BY DEF ListInv, TypeOK
<1>4. OnceInv'
  BY DEF ConnectInv, OnceInv, TypeOK
<1>5. ReportInv'
  BY DEF OnceInv, ReportInv, TypeOK
<1>6. WatchInv'
  BY DEF ConnectInv, OnceInv, WatchInv, TypeOK
<1>7. LateInv'
  BY DEF ConnectInv, LateInv, OnceInv, WatchInv, TypeOK
<1> QED
  BY <1>1, <1>2, <1>3, <1>4, <1>5, <1>6, <1>7

\* A refresh ends.
LEMMA StoreToolsInv == ASSUME Inv, NEW p \in Listers, p # Starter, storeTools(p) PROVE Inv'
<1> USE DEF Inv, storeTools
<1>1. TypeOK'
  BY DEF ListInv, TypeOK
<1>2. ConnectInv'
  BY DEF ConnectInv, OnceInv, TypeOK
<1>3. ListInv'
  BY DEF ListInv, TypeOK
<1>4. OnceInv'
  BY DEF ConnectInv, OnceInv, TypeOK
<1>5. ReportInv'
  BY DEF OnceInv, ReportInv, TypeOK
<1>6. WatchInv'
  BY DEF ConnectInv, OnceInv, WatchInv, TypeOK
<1>7. LateInv'
  BY DEF ConnectInv, LateInv, OnceInv, WatchInv, TypeOK
<1> QED
  BY <1>1, <1>2, <1>3, <1>4, <1>5, <1>6, <1>7

\* A tool is called.
LEMMA HandlerInv == ASSUME Inv, NEW k \in Calls, handler(k) PROVE Inv'
<1> USE DEF Inv, handler
<1>1. TypeOK'
  BY DEF ListInv, TypeOK, CloseReturned
<1>2. ConnectInv'
  BY DEF ConnectInv, OnceInv, TypeOK, CloseReturned
<1>3. ListInv'
  BY DEF ListInv, TypeOK, CloseReturned
<1>4. OnceInv'
  BY DEF ConnectInv, OnceInv, TypeOK, CloseReturned
<1>5. ReportInv'
  BY DEF OnceInv, ReportInv, TypeOK, CloseReturned
<1>6. WatchInv'
  BY DEF ConnectInv, OnceInv, WatchInv, TypeOK, CloseReturned
<1>7. LateInv'
  BY DEF ConnectInv, LateInv, OnceInv, WatchInv, TypeOK, CloseReturned
<1> QED
  BY <1>1, <1>2, <1>3, <1>4, <1>5, <1>6, <1>7

\* The call is sent.
LEMMA CallToolInv == ASSUME Inv, NEW k \in Calls, callTool(k) PROVE Inv'
<1> USE DEF Inv, callTool
<1>1. TypeOK'
  BY DEF ListInv, TypeOK, Accepts
<1>2. ConnectInv'
  BY DEF ConnectInv, OnceInv, TypeOK, Accepts
<1>3. ListInv'
  BY DEF ListInv, TypeOK, Accepts
<1>4. OnceInv'
  BY DEF ConnectInv, OnceInv, TypeOK, Accepts
<1>5. ReportInv'
  BY DEF OnceInv, ReportInv, TypeOK, Accepts
<1>6. WatchInv'
  BY DEF ConnectInv, OnceInv, WatchInv, TypeOK, Accepts
<1>7. LateInv'
  BY DEF ConnectInv, LateInv, OnceInv, WatchInv, TypeOK, Accepts
<1> QED
  BY <1>1, <1>2, <1>3, <1>4, <1>5, <1>6, <1>7

\* The call returns.
LEMMA CallReturnsInv == ASSUME Inv, NEW k \in Calls, callReturns(k) PROVE Inv'
<1> USE DEF Inv, callReturns
<1>1. TypeOK'
  BY DEF ListInv, TypeOK
<1>2. ConnectInv'
  BY DEF ConnectInv, OnceInv, TypeOK
<1>3. ListInv'
  BY DEF ListInv, TypeOK
<1>4. OnceInv'
  BY DEF ConnectInv, OnceInv, TypeOK
<1>5. ReportInv'
  BY DEF OnceInv, ReportInv, TypeOK
<1>6. WatchInv'
  BY DEF ConnectInv, OnceInv, WatchInv, TypeOK
<1>7. LateInv'
  BY DEF ConnectInv, LateInv, OnceInv, WatchInv, TypeOK
<1> QED
  BY <1>1, <1>2, <1>3, <1>4, <1>5, <1>6, <1>7

-----------------------------------------------------------------------------

\* A connection starts in the invariant.
LEMMA InitInv == Init => Inv
<1> SUFFICES ASSUME Init PROVE Inv
  OBVIOUS
<1> USE DEF Init
<1>1. TypeOK
  <2>1. serverUp \in BOOLEAN /\ broken \in BOOLEAN
    OBVIOUS
  <2>2. {closing, err, closeErr, done, stopped, ended} \subseteq BOOLEAN
    BY Zenon
  <2>3. 0 \in 0 .. Pages
    OBVIOUS
  <2> QED
    BY <2>1, <2>2, <2>3 DEF TypeOK
<1>2. ConnectInv /\ ListInv /\ OnceInv /\ ReportInv /\ WatchInv /\ LateInv
  BY DEF ConnectInv, ListInv, OnceInv, ReportInv, WatchInv, LateInv
<1> QED
  BY <1>1, <1>2 DEF Inv

\* Every step of every goroutine keeps it.
LEMMA NextInv == Inv /\ [Next]_vars => Inv'
<1> SUFFICES ASSUME Inv, [Next]_vars PROVE Inv'
  OBVIOUS
<1>1. CASE UNCHANGED vars
  BY <1>1 DEF vars, Inv, TypeOK, ConnectInv, ListInv, OnceInv, ReportInv, WatchInv, LateInv
<1>2. CASE ServerGoes \/ SessionEnds
  BY <1>2, ServerGoesInv, SessionEndsInv
<1>3. CASE ConnectStep
  BY <1>3, OpenInv, OpenFailsInv, ConnectReturnsInv, ConnectClosesInv, ConnectFailsInv DEF ConnectStep
<1>4. CASE WatchStep
  BY <1>4, WatchWakesInv, WatchReportsInv, WatchDoneInv DEF WatchStep
<1>5. ASSUME NEW p \in Actors, Close(p) \/ closeQueued(p) \/ CloseStep(p) PROVE Inv'
  BY <1>5, CloseInv, CloseQueuedInv, CloseSessionInv, CloseStopInv, CloseAgainInv DEF CloseStep
<1>6. ASSUME NEW p \in Listers, ListStep(p) PROVE Inv'
  BY <1>6, ListToolsInv, ListToolsFailsInv, StoreToolsInv DEF ListStep
<1>7. ASSUME NEW p \in Refreshers, RefreshTools(p) PROVE Inv'
  BY <1>7, RefreshToolsInv
<1>8. ASSUME NEW k \in Calls, handler(k) \/ CallStep(k) PROVE Inv'
  BY <1>8, HandlerInv, CallToolInv, CallReturnsInv DEF CallStep
<1> QED
  BY <1>1, <1>2, <1>3, <1>4, <1>5, <1>6, <1>7, <1>8 DEF Next

\* The invariant holds throughout.
THEOREM Invariant == Spec => []Inv
  BY InitInv, NextInv, PTL DEF Spec

\* The end of a connection is reported through Err or by Close, never by both,
\* and a session's failure is never lost, for any number of calls of Close
\* (watch and Close).
THEOREM EndIsReportedOnce == Spec => []EndReportedOnce
<1>1. Inv => EndReportedOnce
  BY DEF Inv, TypeOK, OnceInv, ReportInv, WatchInv, EndReportedOnce
<1> QED
  BY <1>1, Invariant, PTL

\* Any Close that came back, and a Connect that failed, leave neither a session
\* nor the process's lifetime behind (Close and connect).
THEOREM NothingLeftRunning == Spec => []ClosedMeansStopped
<1>1. Inv => ClosedMeansStopped
  BY DEF Inv, ConnectInv, OnceInv, ClosedMeansStopped, CloseReturned
<1> QED
  BY <1>1, Invariant, PTL

\* The tools of a connection are whole listings, and none of any number of
\* calls begun after its end reaches a server (listTools and the handlers).
THEOREM ToolsStayUsable == Spec => []ToolsUsable
<1>1. Inv => ToolsUsable
  BY DEF Inv, LateInv, ToolsUsable, LateCallsFail
<1> QED
  BY <1>1, Invariant, PTL

\* What Err says after Done, and what a Close returned, never changes (watch and
\* closeOnce).
THEOREM ReportsAreFinal == Spec => ReportsFinal
<1> DEFINE Final == /\ done => err' = err /\ done'
                    /\ CloseReturned => closeErr' = closeErr
<1>1. ASSUME Inv, [Next]_vars PROVE [Final]_vars
  <2>1. CASE UNCHANGED vars
    BY <2>1
  <2>2. ASSUME Next, UNCHANGED <<err, done, closeErr>> PROVE Final
    BY <2>2
  <2>3. CASE watch \/ watchDone \/ \E p \in Actors : closeSession(p)
    BY <1>1, <2>3 DEF Inv, TypeOK, OnceInv, WatchInv, CloseReturned, watch, watchDone, closeSession
  <2>4. CASE Next /\ ~(watch \/ watchDone \/ \E p \in Actors : closeSession(p))
    <3>1. UNCHANGED <<err, done, closeErr>>
      BY <2>4 DEF Next, ServerGoes, SessionEnds, ConnectStep, open, openFails, Connect,
           connectCloses, connectFails, WatchStep, watchWakes, Close, closeQueued, CloseStep,
           closeStop, closeAgain, ListStep, listTools, listToolsFails, storeTools, RefreshTools,
           handler, CallStep, callTool, callReturns
    <3> QED
      BY <2>2, <2>4, <3>1
  <2> QED
    BY <1>1, <2>1, <2>3, <2>4
<1> QED
  BY <1>1, Invariant, PTL DEF Spec, ReportsFinal
=============================================================================

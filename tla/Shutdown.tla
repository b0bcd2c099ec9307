------------------------------ MODULE Shutdown ------------------------------
(***************************************************************************)
(* The life of the process: start-up, the goroutines of main's wait group, *)
(* HTTP requests that restart the watcher or scan in the background, and   *)
(* the order in which shutdown waits for all of them before the store is   *)
(* closed.                                                                 *)
(*                                                                         *)
(*   cmd/cuearr/main.go                 serve, runSupervised               *)
(*   internal/adapters/http/handlers.go handleScanJobs, handlePutSettings  *)
(*   internal/adapters/http/server.go   WaitScans                          *)
(***************************************************************************)
EXTENDS Watcher

CONSTANTS Main, Scans      \* main among the callers; scan requests

ASSUME MainAssumption == Main \in Callers

Puts == Callers \ {Main}   \* PUT /settings requests

VARIABLES
    main,            \* what main does or waits for next
    helpers,         \* goroutines of the wait group not yet waited for
    listening,       \* the HTTP server accepts requests
    http,            \* per request: new, active or done
    bg               \* per scan request: its background scan, if it runs

process == <<main, helpers, listening, http, bg>>
vars == <<watcherVars, process>>

Supervised == {"worker", "listener"}
Helpers    == {"worker", "poller", "listener", "startup scan"}
MainSteps  == {"boot", "serving", "http", "stop", "scans", "join", "again",
               "unwind", "last join", "closed"}
BgSteps    == {"none", "begun", "walking"}

ProcessTypeOK ==
    /\ main \in MainSteps
    /\ helpers \subseteq Helpers
    /\ listening \in BOOLEAN
    /\ http \in [Puts \cup Scans -> {"new", "active", "done"}]
    /\ bg \in [Scans -> BgSteps]

TypesOK == TypeOK /\ ProcessTypeOK

\* Worker and poller are started, then the watcher of the configured
\* directories, if there are any.
Init ==
    /\ WatcherInit
    /\ ctl = [c \in Callers |-> IF c = Main THEN "stat" ELSE "out"]
    /\ \E some \in BOOLEAN : wants = [c \in Callers |-> c = Main /\ some]
    /\ main = "boot" /\ helpers = {"worker", "poller"}
    /\ listening = FALSE
    /\ http = [r \in Puts \cup Scans |-> "new"]
    /\ bg = [s \in Scans |-> "none"]

----------------------------------------------------------------------------
(* main                                                                    *)

\* Everything of the watcher but the root context and main's call.
Beside == <<disk, phase, cancelled, loop, debouncer, owed, mu, current>>

\* Restart failed: nothing but the wait group is deferred yet.
BootFails ==
    /\ main = "boot" /\ ctl[Main] = "err"
    /\ halt' = TRUE /\ main' = "last join"
    /\ UNCHANGED <<Beside, ctl, wants, helpers, listening, http, bg>>

\* main calls watchers.Stop().
CallStop ==
    /\ ctl' = [ctl EXCEPT ![Main] = "lock"]
    /\ wants' = [wants EXCEPT ![Main] = FALSE]

\* The session secret cannot be read: the watcher is stopped first.
SecretFails ==
    /\ main = "boot" /\ ctl[Main] = "ok"
    /\ halt' = TRUE /\ main' = "unwind"
    /\ CallStop
    /\ UNCHANGED <<Beside, helpers, listening, http, bg>>

Serve ==
    /\ main = "boot" /\ ctl[Main] = "ok"
    /\ main' = "serving"
    /\ listening' = TRUE
    /\ helpers' = helpers \cup {"listener"} \cup
                      {h \in {"startup scan"} : wants[Main]}
    /\ UNCHANGED <<watcherVars, http, bg>>

\* A bug: the listener is left open.
ShutdownForgotten ==
    /\ main = "serving" /\ halt
    /\ main' = "http"
    /\ UNCHANGED <<watcherVars, helpers, listening, http, bg>>

\* <-ctx.Done(): Shutdown closes the listener and waits for the requests.
BeginShutdown ==
    /\ main = "serving" /\ halt
    /\ main' = "http"
    /\ listening' = FALSE
    /\ UNCHANGED <<watcherVars, helpers, http, bg>>

\* Shutdown returns when no request is active or after ten seconds, that is
\* in any state.
HttpIsDown ==
    /\ main = "http"
    /\ main' = "stop"
    /\ CallStop
    /\ UNCHANGED <<Beside, halt, helpers, listening, http, bg>>

WatchersStopped ==
    /\ main = "stop" /\ ctl[Main] = "ok"
    /\ main' = "scans"
    /\ UNCHANGED <<watcherVars, helpers, listening, http, bg>>

\* A bug: the background scans are not waited for.
ScansForgotten ==
    /\ main = "scans"
    /\ main' = "join"
    /\ UNCHANGED <<watcherVars, helpers, listening, http, bg>>

WaitScans ==
    /\ main = "scans" /\ \A s \in Scans : bg[s] = "none"
    /\ main' = "join"
    /\ UNCHANGED <<watcherVars, helpers, listening, http, bg>>

\* The listener ends when Shutdown has closed it, the startup scan at its end
\* or with the context, worker and poller with the context.  Nobody sees a
\* helper end but who waits for it.
Ends(h) == IF h = "listener" THEN ~listening ELSE halt

\* wg.Wait(), then the deferred watchers.Stop().
WaitGroup ==
    /\ main = "join" /\ \A h \in helpers : Ends(h)
    /\ main' = "again"
    /\ helpers' = {}
    /\ CallStop
    /\ UNCHANGED <<Beside, halt, listening, http, bg>>

StoppedAgain ==
    /\ main \in {"again", "unwind"} /\ ctl[Main] = "ok"
    /\ main' = "last join"
    /\ UNCHANGED <<watcherVars, helpers, listening, http, bg>>

\* The deferred wg.Wait() and store.Close().
Close ==
    /\ main = "last join" /\ \A h \in helpers : Ends(h)
    /\ main' = "closed"
    /\ helpers' = {}
    /\ UNCHANGED <<watcherVars, listening, http, bg>>

----------------------------------------------------------------------------
(* The goroutines of the wait group                                        *)

\* SIGINT or SIGTERM
Signal ==
    /\ main \in {"boot", "serving"} /\ ~halt
    /\ halt' = TRUE
    /\ UNCHANGED <<Beside, ctl, wants, process>>

\* runSupervised: a part that ends by itself takes the process down.
HelperFails(h) ==
    /\ h \in helpers \cap Supervised /\ ~halt
    /\ helpers' = helpers \ {h}
    /\ halt' = TRUE
    /\ UNCHANGED <<Beside, ctl, wants, main, listening, http, bg>>

----------------------------------------------------------------------------
(* Requests                                                                *)

Arrive(r) ==
    /\ listening /\ "listener" \in helpers /\ http[r] = "new"
    /\ http' = [http EXCEPT ![r] = "active"]
    /\ UNCHANGED <<watcherVars, main, helpers, listening, bg>>

\* ApplySettings under settingsMu: the watch directories have changed.
PutRestarts(r) ==
    /\ http[r] = "active" /\ ctl[r] = "out"
    /\ \A p \in Puts \ {r} : http[p] # "active" \/ ctl[p] = "out"
    /\ ctl' = [ctl EXCEPT ![r] = "stat"]
    /\ \E some \in BOOLEAN : wants' = [wants EXCEPT ![r] = some]
    /\ UNCHANGED <<Beside, halt, process>>

PutEnds(r) ==
    /\ http[r] = "active" /\ ctl[r] \in {"out", "ok", "err"}
    /\ http' = [http EXCEPT ![r] = "done"]
    /\ ctl' = [ctl EXCEPT ![r] = "out"]
    /\ wants' = [wants EXCEPT ![r] = FALSE]
    /\ UNCHANGED <<Beside, halt, main, helpers, listening, bg>>

\* handleScanJobs: refused without watch directories, else scanWG.Add(1).
ScanRequest(s) ==
    /\ http[s] = "active"
    /\ http' = [http EXCEPT ![s] = "done"]
    /\ \E to \in {"none", "begun"} : bg' = [bg EXCEPT ![s] = to]
    /\ UNCHANGED <<watcherVars, main, helpers, listening>>

\* ScanAll looks at the context before it opens the first directory, and
\* uses the store only while it walks.
BgScan(s) ==
    /\ \/ bg[s] = "begun" /\ ~halt /\ bg' = [bg EXCEPT ![s] = "walking"]
       \/ bg[s] = "begun" /\ halt /\ bg' = [bg EXCEPT ![s] = "none"]
       \/ bg[s] = "walking" /\ bg' = [bg EXCEPT ![s] = "none"]
    /\ UNCHANGED <<watcherVars, main, helpers, listening, http>>

----------------------------------------------------------------------------
MainStep ==
    \/ BootFails \/ SecretFails \/ Serve \/ BeginShutdown \/ HttpIsDown
    \/ WatchersStopped \/ WaitScans \/ WaitGroup \/ StoppedAgain \/ Close

Request(r) == IF r \in Puts THEN PutEnds(r) ELSE ScanRequest(r)

WatcherStep ==
    \/ AlbumsChange
    \/ \E w \in Callers : Goroutine(w) \/ Timers(w) \/ Call(w)

Running ==
    \/ MainStep
    \/ Signal
    \/ WatcherStep /\ UNCHANGED process
    \/ \E h \in Helpers : HelperFails(h)
    \/ \E r \in Puts \cup Scans : Arrive(r) \/ Request(r)
    \/ \E r \in Puts : PutRestarts(r)
    \/ \E s \in Scans : BgScan(s)

\* With main the process ends, whatever still runs.
Exited == main = "closed" /\ UNCHANGED vars

Next == (main # "closed" /\ Running) \/ Exited

\* Goroutines are scheduled, timers expire, scans end, and so does every
\* request that does not wait for a lock.  The number of these steps is
\* bounded, so none is put off for ever by the others.
System ==
    \/ MainStep
    \/ (\E w \in Callers : Goroutine(w) \/ Timers(w) \/ Call(w)) /\ UNCHANGED process
    \/ \E r \in Puts \cup Scans : Request(r)
    \/ \E s \in Scans : BgScan(s)

Spec == Init /\ [][Next]_vars /\ WF_vars(main # "closed" /\ System)

----------------------------------------------------------------------------
\* The store is closed last: no watcher and no background scan is left that
\* would use it.  Requests that outlive the ten seconds of Shutdown may,
\* their statements fail.
StoreClosedLast ==
    main = "closed" =>
        /\ \A w \in Callers : running[w] = {} /\ phase[w] \in {"none", "start", "done"}
        /\ \A s \in Scans : bg[s] # "walking"

\* A supervised part that failed, or a signal, ends the process, whatever
\* the requests and scans of that moment do.
ShutdownEnds == halt ~> main = "closed"

\* Restart and Stop come back although they hold the mutex while they wait
\* for a watcher and for its scans.
CallsReturn ==
    \A c \in Callers : ctl[c] \in {"stat", "lock", "wait"} ~>
                         ctl[c] \in {"ok", "err"} \/ main = "closed"

----------------------------------------------------------------------------
(* The inductive invariant: from each point of main's way on, what can     *)
(* still run.                                                              *)

RequestsInv ==
    /\ \A r \in Puts : /\ http[r] # "active" => ctl[r] = "out"
                       /\ http[r] # "done" /\ ctl[r] = "out" => phase[r] = "none"
    /\ main \in {"boot", "unwind"} =>
          /\ ~listening
          /\ \A r \in Puts \cup Scans : http[r] = "new"
          /\ \A s \in Scans : bg[s] = "none"

MainInv ==
    /\ main \notin {"boot", "serving"} => halt
    /\ main \notin {"boot", "stop", "again", "unwind"} => ctl[Main] \in {"ok", "err"}
    /\ main = "boot" /\ ctl[Main] # "ok" => current = Nobody

\* Once main has stopped the watcher, one that a request starts is cancelled
\* before it looks at a directory; likewise the scans after WaitScans.
StoppedInv ==
    /\ \/ main \in {"scans", "join", "again", "last join", "closed"}
       \/ main \in {"stop", "unwind"} /\ ctl[Main] = "ok"
       => \A w \in Callers : phase[w] \in {"none", "start", "done"}
    /\ main \in {"join", "again", "last join", "closed"} =>
          \A s \in Scans : bg[s] # "walking"

IInv == /\ TypesOK /\ TimersInv /\ PhaseInv /\ ControllerInv
        /\ RequestsInv /\ MainInv /\ StoppedInv
=============================================================================

------------------------------ MODULE Watcher ------------------------------
(***************************************************************************)
(* The file-system watcher, its debouncer, and the controller that         *)
(* replaces one watcher by the next.                                       *)
(*                                                                         *)
(*   internal/adapters/fs/watcher.go    Watcher.Start, debouncer           *)
(*   cmd/cuearr/main.go                 watcherController                  *)
(*                                                                         *)
(* A watcher is one goroutine (Start) with one goroutine per timer of its  *)
(* debouncer that has fired.  It is named by the caller of Restart that    *)
(* launched it, since a caller launches at most one.  The steps are the    *)
(* sections between two waits or lock operations: debouncer.mu is never    *)
(* held over a wait, so a section under it is one step; the controller's   *)
(* mutex is held while an old watcher ends, so its owner is state.         *)
(*                                                                         *)
(* This module has the state and the operations; Shutdown says when they   *)
(* are called, and has the specification.                                  *)
(***************************************************************************)
EXTENDS Naturals, FiniteSets

CONSTANTS
    Albums,          \* directories below one watch root, at most that deep
    Callers,         \* who may call Restart: main and PUT requests
    Nobody,          \* no caller, no watcher
    MaxChanges       \* bound on changes to the albums

ASSUME NobodyAssumption     == Nobody \notin Callers
ASSUME MaxChangesAssumption == MaxChanges \in Nat

VARIABLES
    there, changes,                   \* albums that exist; changes so far
    halt,                             \* the root context is cancelled
    phase,                            \* per watcher: where Start is
    cancelled,                        \* its own context is cancelled
    watched, unread, events,          \* inotify watches, still to add, queue
    timers, armed, fired, running,    \* debouncer: map, timers, callbacks, scans
    ids,                              \* timers created so far
    owed,                             \* ghost: changes it was told, not scanned
    mu, ctl, wants, current           \* controller: owner, calls, the watcher

disk == <<there, changes>>
debouncer == <<timers, armed, fired, running, ids>>
loop == <<watched, unread, events>>
controller == <<mu, ctl, wants, current>>
watcherVars == <<disk, halt, phase, cancelled, loop, debouncer, owed, controller>>

Phases == {"none", "start", "adding", "loop", "stopping", "done"}
Timer  == Albums \X Nat
Event  == {"create", "write"} \X Albums
Calls  == {"out", "stat", "lock", "wait", "ok", "err"}

TypeOK ==
    /\ there \subseteq Albums /\ changes \in Nat /\ halt \in BOOLEAN
    /\ phase \in [Callers -> Phases]
    /\ cancelled \in [Callers -> BOOLEAN]
    /\ watched \in [Callers -> SUBSET Albums]
    /\ unread \in [Callers -> SUBSET Albums]
    /\ events \in [Callers -> SUBSET Event]
    /\ timers \in [Callers -> [Albums -> Nat]]
    /\ armed \in [Callers -> SUBSET Timer]
    /\ fired \in [Callers -> SUBSET Timer]
    /\ running \in [Callers -> SUBSET Timer]
    /\ ids \in Nat
    /\ owed \in [Callers -> SUBSET Albums]
    /\ mu \in Callers \cup {Nobody}
    /\ ctl \in [Callers -> Calls]
    /\ wants \in [Callers -> BOOLEAN]
    /\ current \in Callers \cup {Nobody}

Nowhere == [c \in Callers |-> {}]

WatcherInit ==
    /\ there \in SUBSET Albums /\ changes = 0 /\ halt = FALSE
    /\ phase = [c \in Callers |-> "none"]
    /\ cancelled = [c \in Callers |-> FALSE]
    /\ watched = Nowhere /\ unread = Nowhere /\ events = Nowhere
    /\ timers = [c \in Callers |-> [a \in Albums |-> 0]]
    /\ armed = Nowhere /\ fired = Nowhere /\ running = Nowhere
    /\ ids = 0 /\ owed = Nowhere
    /\ mu = Nobody /\ current = Nobody

----------------------------------------------------------------------------
(* The albums change.  inotify queues an event for whoever watches.        *)

Listens(w) == phase[w] \in {"adding", "loop"}
Sees(w, a) == Listens(w) /\ a \in watched[w]

Changed(ev, tell) ==
    /\ changes < MaxChanges
    /\ changes' = changes + 1
    /\ events' = [w \in Callers |-> events[w] \cup {e \in {ev} : w \in tell}]
    /\ UNCHANGED <<halt, phase, cancelled, watched, unread, debouncer, controller>>

\* Start adds the root before it lists it, so from then on a new directory
\* below it is an event.
Mkdir(a) ==
    LET tell == {w \in Callers : Listens(w)}
    IN  /\ a \notin there
        /\ there' = there \cup {a}
        /\ Changed(<<"create", a>>, tell)
        /\ owed' = [w \in Callers |-> owed[w] \cup {x \in {a} : w \in tell}]

\* A cue sheet or an image in the album is created or written.  If its
\* creation is still in the queue, handling that finds the file too.
Write(a) ==
    LET tell == {w \in Callers : Sees(w, a)}
        knows == {w \in Callers : <<"create", a>> \in events[w]}
    IN  /\ a \in there
        /\ Changed(<<"write", a>>, tell)
        /\ owed' = [w \in Callers |-> owed[w] \cup {x \in {a} : w \in tell \cup knows}]
        /\ UNCHANGED there

----------------------------------------------------------------------------
(* Watcher.Start                                                           *)

Cancelled(w) == halt \/ cancelled[w]

\* Start returns, and its inotify watches are closed.
Quit(w) ==
    /\ phase' = [phase EXCEPT ![w] = "done"]
    /\ watched' = [watched EXCEPT ![w] = {}]
    /\ unread' = [unread EXCEPT ![w] = {}]
    /\ events' = [events EXCEPT ![w] = {}]
    /\ owed' = [owed EXCEPT ![w] = {}]
    /\ UNCHANGED <<disk, halt, cancelled, debouncer, controller>>

\* newFS, then the root is added and listed; each can fail.
Open(w) ==
    /\ phase[w] = "start"
    /\ \/ Quit(w)
       \/ /\ ~Cancelled(w)
          /\ phase' = [phase EXCEPT ![w] = "adding"]
          /\ unread' = [unread EXCEPT ![w] = there]
          /\ UNCHANGED <<disk, halt, cancelled, watched, events, debouncer,
                         owed, controller>>

\* addWatchTree of one album: a directory that has gone ends the watcher.
AddAlbum(w, a) ==
    /\ phase[w] = "adding" /\ a \in unread[w]
    /\ \/ Quit(w)
       \/ /\ ~Cancelled(w)
          /\ watched' = [watched EXCEPT ![w] = @ \cup {a}]
          /\ unread' = [unread EXCEPT ![w] = @ \ {a}]
          /\ UNCHANGED <<disk, halt, phase, cancelled, events, debouncer,
                         owed, controller>>

Enter(w) ==
    /\ phase[w] = "adding" /\ unread[w] = {}
    /\ phase' = [phase EXCEPT ![w] = "loop"]
    /\ UNCHANGED <<disk, halt, cancelled, loop, debouncer, owed, controller>>

\* A bug: the timer that is replaced is not stopped.
ScheduleAgain(w, a) ==
    /\ ids' = ids + 1
    /\ armed' = [armed EXCEPT ![w] = @ \cup {<<a, ids + 1>>}]
    /\ timers' = [timers EXCEPT ![w][a] = ids + 1]
    /\ UNCHANGED <<fired, running>>

\* debouncer.schedule: the timer of the album is replaced.  Stop has no
\* effect on one that has fired.
Schedule(w, a) ==
    /\ ids' = ids + 1
    /\ armed' = [armed EXCEPT ![w] = (@ \ {<<a, timers[w][a]>>}) \cup {<<a, ids + 1>>}]
    /\ timers' = [timers EXCEPT ![w][a] = ids + 1]
    /\ UNCHANGED <<fired, running>>

HandleWrite(w, a) ==
    /\ phase[w] = "loop" /\ <<"write", a>> \in events[w]
    /\ events' = [events EXCEPT ![w] = @ \ {<<"write", a>>}]
    /\ Schedule(w, a)
    /\ UNCHANGED <<disk, halt, phase, cancelled, watched, unread, owed, controller>>

\* A new directory is watched first and walked afterwards.  A watch that
\* cannot be added is logged and the directory forgotten.
HandleCreate(w, a) ==
    /\ phase[w] = "loop" /\ <<"create", a>> \in events[w]
    /\ events' = [events EXCEPT ![w] = @ \ {<<"create", a>>}]
    /\ \/ /\ ~Cancelled(w)
          /\ watched' = [watched EXCEPT ![w] = @ \cup {a}]
          /\ Schedule(w, a)
          /\ UNCHANGED owed
       \/ /\ owed' = [owed EXCEPT ![w] = @ \ {a}]
          /\ UNCHANGED <<watched, debouncer>>
    /\ UNCHANGED <<disk, halt, phase, cancelled, unread, controller>>

\* <-ctx.Done(), then the first half of debouncer.stop.
StopDebouncer(w) ==
    /\ phase[w] = "loop" /\ Cancelled(w)
    /\ phase' = [phase EXCEPT ![w] = "stopping"]
    /\ armed' = [armed EXCEPT ![w] = {}]
    /\ timers' = [timers EXCEPT ![w] = [a \in Albums |-> 0]]
    /\ owed' = [owed EXCEPT ![w] = {}]
    /\ UNCHANGED <<disk, halt, cancelled, loop, fired, running, ids, controller>>

\* A bug: stop does not wait for the scans that run.
ReturnsEarly(w) == phase[w] = "stopping" /\ Quit(w)

\* d.running.Wait(), and Start returns.
Returns(w) ==
    /\ phase[w] = "stopping" /\ running[w] = {}
    /\ Quit(w)

----------------------------------------------------------------------------
(* Timers                                                                  *)

\* The two seconds are over: the callback runs and asks for debouncer.mu.
Expire(w, t) ==
    /\ t \in armed[w]
    /\ armed' = [armed EXCEPT ![w] = @ \ {t}]
    /\ fired' = [fired EXCEPT ![w] = @ \cup {t}]
    /\ UNCHANGED <<disk, halt, phase, cancelled, loop, timers, running, ids,
                   owed, controller>>

Stopped(w) == phase[w] \in {"stopping", "done"}

\* A bug: the callback does not look whether it is the album's timer.
FireAny(w, t) ==
    /\ t \in fired[w]
    /\ fired' = [fired EXCEPT ![w] = @ \ {t}]
    /\ IF Stopped(w)
       THEN UNCHANGED <<timers, running, owed>>
       ELSE /\ timers' = [timers EXCEPT ![w][t[1]] = 0]
            /\ running' = [running EXCEPT ![w] = @ \cup {t}]
            /\ owed' = [owed EXCEPT ![w] = @ \ {t[1]}]
    /\ UNCHANGED <<disk, halt, phase, cancelled, loop, armed, ids, controller>>

\* A bug: a callback that comes too late removes the map's entry all the same.
FireForgets(w, t) ==
    /\ t \in fired[w]
    /\ fired' = [fired EXCEPT ![w] = @ \ {t}]
    /\ timers' = [timers EXCEPT ![w][t[1]] = 0]
    /\ IF Stopped(w) \/ timers[w][t[1]] # t[2]
       THEN UNCHANGED <<running, owed>>
       ELSE /\ running' = [running EXCEPT ![w] = @ \cup {t}]
            /\ owed' = [owed EXCEPT ![w] = @ \ {t[1]}]
    /\ UNCHANGED <<disk, halt, phase, cancelled, loop, armed, ids, controller>>

\* The callback holds debouncer.mu: it scans unless the debouncer has been
\* stopped or another timer has taken its place.  The scan reads the album
\* from now on, so it sees what was owed.
Fire(w, t) ==
    /\ t \in fired[w]
    /\ fired' = [fired EXCEPT ![w] = @ \ {t}]
    /\ IF Stopped(w) \/ timers[w][t[1]] # t[2]
       THEN UNCHANGED <<timers, running, owed>>
       ELSE /\ timers' = [timers EXCEPT ![w][t[1]] = 0]
            /\ running' = [running EXCEPT ![w] = @ \cup {t}]
            /\ owed' = [owed EXCEPT ![w] = @ \ {t[1]}]
    /\ UNCHANGED <<disk, halt, phase, cancelled, loop, armed, ids, controller>>

ScanEnds(w, t) ==
    /\ t \in running[w]
    /\ running' = [running EXCEPT ![w] = @ \ {t}]
    /\ UNCHANGED <<disk, halt, phase, cancelled, loop, timers, armed, fired,
                   ids, owed, controller>>

----------------------------------------------------------------------------
(* watcherController: a call is out, in stat or waiting for the mutex, or  *)
(* holds it while the old watcher ends.                                    *)

\* Restart looks at the directories before it takes the mutex.
Stat(c) ==
    /\ ctl[c] = "stat"
    /\ \E to \in {"lock", "err"} : ctl' = [ctl EXCEPT ![c] = to]
    /\ UNCHANGED <<disk, halt, phase, cancelled, loop, debouncer, owed, mu,
                   wants, current>>

\* A bug: the old watcher is waited for but not told to end.
LockNoCancel(c) ==
    /\ ctl[c] = "lock" /\ mu = Nobody
    /\ IF current = Nobody
       THEN ctl' = [ctl EXCEPT ![c] = "ok"] /\ mu' = Nobody
            /\ current' = (IF wants[c] THEN c ELSE Nobody)
            /\ phase' = IF wants[c] THEN [phase EXCEPT ![c] = "start"] ELSE phase
       ELSE /\ mu' = c
            /\ ctl' = [ctl EXCEPT ![c] = "wait"]
            /\ UNCHANGED <<phase, current>>
    /\ UNCHANGED <<disk, halt, cancelled, loop, debouncer, owed, wants>>

\* A new watcher is started when there are directories to watch.
Launch(c) ==
    /\ ctl' = [ctl EXCEPT ![c] = "ok"]
    /\ mu' = Nobody
    /\ current' = IF wants[c] THEN c ELSE Nobody
    /\ phase' = IF wants[c] THEN [phase EXCEPT ![c] = "start"] ELSE phase

Lock(c) ==
    /\ ctl[c] = "lock" /\ mu = Nobody
    /\ IF current = Nobody
       THEN Launch(c) /\ UNCHANGED cancelled
       ELSE /\ mu' = c
            /\ cancelled' = [cancelled EXCEPT ![current] = TRUE]
            /\ ctl' = [ctl EXCEPT ![c] = "wait"]
            /\ UNCHANGED <<phase, current>>
    /\ UNCHANGED <<disk, halt, loop, debouncer, owed, wants>>

\* A bug: the old watcher is cancelled but not waited for.
JoinNot(c) ==
    /\ ctl[c] = "wait"
    /\ Launch(c)
    /\ UNCHANGED <<disk, halt, cancelled, loop, debouncer, owed, wants>>

\* c.wg.Wait()
Join(c) ==
    /\ ctl[c] = "wait" /\ phase[current] = "done"
    /\ Launch(c)
    /\ UNCHANGED <<disk, halt, cancelled, loop, debouncer, owed, wants>>

----------------------------------------------------------------------------
AlbumsChange == \E a \in Albums : Mkdir(a) \/ Write(a)

Goroutine(w) ==
    \/ Open(w) \/ Enter(w) \/ StopDebouncer(w) \/ Returns(w)
    \/ \E a \in Albums : AddAlbum(w, a) \/ HandleWrite(w, a) \/ HandleCreate(w, a)

Timers(w) ==
    \/ \E t \in armed[w] : Expire(w, t)
    \/ \E t \in fired[w] : Fire(w, t)
    \/ \E t \in running[w] : ScanEnds(w, t)

Call(c) == Stat(c) \/ Lock(c) \/ Join(c)

----------------------------------------------------------------------------
Alive(w) == phase[w] \notin {"none", "done"} \/ running[w] # {}

\* Restart hands over without an overlap: two watchers, counting the scans
\* they have started, are never at work at the same time.
OneWatcher == \A v, w \in Callers : Alive(v) /\ Alive(w) => v = w

\* Once Start has returned nothing of that watcher is left that could scan:
\* no scan runs, and no timer, not even one that has fired and waits for the
\* mutex, is still the timer of its album.
QuietAfterStop ==
    \A w \in Callers : phase[w] = "done" =>
        /\ running[w] = {} /\ armed[w] = {}
        /\ \A t \in fired[w] : timers[w][t[1]] # t[2]

\* A scan begins only with the newest timer of its album, that is after the
\* album has been quiet for the whole interval.
NewestTimerScans ==
    [][ \A w \in Callers : \A t \in running'[w] \ running[w] :
            \A u \in armed[w] \cup fired[w] : u[1] = t[1] => u[2] <= t[2]
      ]_watcherVars

\* A change that a watcher was told is followed by a scan of the album,
\* unless the watcher is stopped or cannot watch the album.
ChangeIsScanned ==
    \A w \in Callers, a \in Albums : a \in owed[w] ~> a \notin owed[w]

----------------------------------------------------------------------------
(* The inductive invariant of the watcher: what timers and calls mean.     *)

\* An armed timer is its album's timer; one that has fired may have been
\* replaced, but only by a newer one.
TimersOf(w) ==
    /\ \A a \in Albums : timers[w][a] <= ids
    /\ \A t \in armed[w] : timers[w][t[1]] = t[2] /\ t \notin fired[w]
    /\ \A t \in armed[w] \cup fired[w] :
          /\ t[2] \in 1 .. ids
          /\ timers[w][t[1]] # 0 => t[2] <= timers[w][t[1]]

TimersInv == \A w \in Callers : TimersOf(w)

\* There are no timers before the event loop, none in the map after stop.
PhaseOf(w) ==
    /\ phase[w] \in {"none", "start", "adding"} => fired[w] = {} /\ running[w] = {}
    /\ phase[w] # "loop" => armed[w] = {} /\ \A a \in Albums : timers[w][a] = 0
    /\ phase[w] = "done" => running[w] = {}

PhaseInv == \A w \in Callers : PhaseOf(w)

\* The controller knows the only watcher that is not done, and who waits for
\* one holds the mutex.
ControllerInv ==
    /\ \A c \in Callers : ctl[c] = "wait" <=> mu = c
    /\ mu # Nobody => current # Nobody
    /\ \A w \in Callers : phase[w] \notin {"none", "done"} => current = w
    /\ \A c \in Callers : ctl[c] \in {"stat", "lock", "wait"} /\ wants[c] =>
          phase[c] = "none"
=============================================================================

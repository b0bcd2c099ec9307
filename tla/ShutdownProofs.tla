--------------------------- MODULE ShutdownProofs ---------------------------
(***************************************************************************)
(* Theorems about Shutdown and the Watcher below it, for any albums, any   *)
(* number of callers of Restart and of scan requests, and any number of    *)
(* changes.                                                                *)
(*                                                                         *)
(* IInv is inductive.  Its parts are shown one by one: the types, the      *)
(* timers, what each phase of Start leaves of them, the controller's       *)
(* mutex, the requests, and how far main has come.                         *)
(***************************************************************************)
EXTENDS Shutdown, TLAPS

\* A step that is not one of a watcher or of a call leaves both alone.
Elsewhere == UNCHANGED <<phase, debouncer, mu, current>>

OfWatcher(w) == Goroutine(w) \/ Timers(w) \/ Call(w)

LEMMA StepKinds ==
    ASSUME [Next]_vars
    PROVE  Elsewhere \/ \E w \in Callers : OfWatcher(w) /\ UNCHANGED process
  <1> USE DEF Elsewhere, Beside, watcherVars, controller, debouncer
  <1>1. CASE MainStep
    <2>1. CASE BootFails BY <2>1 DEF BootFails
    <2>2. CASE SecretFails BY <2>2 DEF SecretFails
    <2>3. CASE Serve BY <2>3 DEF Serve
    <2>4. CASE BeginShutdown BY <2>4 DEF BeginShutdown
    <2>5. CASE HttpIsDown BY <2>5 DEF HttpIsDown
    <2>6. CASE WatchersStopped BY <2>6 DEF WatchersStopped
    <2>7. CASE WaitScans BY <2>7 DEF WaitScans
    <2>8. CASE WaitGroup BY <2>8 DEF WaitGroup
    <2>9. CASE StoppedAgain BY <2>9 DEF StoppedAgain
    <2>10. CASE Close BY <2>10 DEF Close
    <2> QED
      BY <1>1, <2>1, <2>2, <2>3, <2>4, <2>5, <2>6, <2>7, <2>8, <2>9, <2>10
      DEF MainStep
  <1>2. CASE Signal
    BY <1>2 DEF Signal
  <1>3. CASE AlbumsChange
    <2>1. PICK a \in Albums : Mkdir(a) \/ Write(a)
      BY <1>3 DEF AlbumsChange
    <2> QED
      BY <2>1 DEF Mkdir, Write, Changed
  <1>4. ASSUME NEW h \in Helpers, HelperFails(h) PROVE Elsewhere
    BY <1>4 DEF HelperFails
  <1>5. ASSUME NEW r \in Puts \cup Scans, Arrive(r) \/ Request(r) PROVE Elsewhere
    BY <1>5 DEF Arrive, Request, PutEnds, ScanRequest
  <1>6. ASSUME NEW r \in Puts, PutRestarts(r) PROVE Elsewhere
    BY <1>6 DEF PutRestarts
  <1>7. ASSUME NEW s \in Scans, BgScan(s) PROVE Elsewhere
    BY <1>7 DEF BgScan
  <1>8. CASE UNCHANGED vars
    BY <1>8 DEF vars
  <1>9. ASSUME NEW w \in Callers, OfWatcher(w), UNCHANGED process
        PROVE  \E v \in Callers : OfWatcher(v) /\ UNCHANGED process
    BY <1>9
  <1> QED
    BY <1>1, <1>2, <1>3, <1>4, <1>5, <1>6, <1>7, <1>8, <1>9
    DEF Next, Exited, Running, WatcherStep, OfWatcher

-----------------------------------------------------------------------------
(* Types                                                                   *)

LEMMA InitTypes == ASSUME Init PROVE TypesOK
  <1> USE MainAssumption DEF Init, WatcherInit, Nowhere
  <1>1. TypeOK
    BY DEF TypeOK, Phases, Calls
  <1>2. ProcessTypeOK
    BY DEF ProcessTypeOK, MainSteps, BgSteps, Helpers, Puts
  <1> QED
    BY <1>1, <1>2 DEF TypesOK

LEMMA AddOne ==
    ASSUME NEW S, NEW f \in [Callers -> SUBSET S], NEW w \in Callers, NEW x \in S
    PROVE  [f EXCEPT ![w] = @ \cup {x}] \in [Callers -> SUBSET S]
  <1>1. f[w] \cup {x} \in SUBSET S
    OBVIOUS
  <1> QED
    BY <1>1

LEMMA DropOne ==
    ASSUME NEW S, NEW f \in [Callers -> SUBSET S], NEW w \in Callers, NEW x
    PROVE  [f EXCEPT ![w] = @ \ {x}] \in [Callers -> SUBSET S]
  <1>1. f[w] \ {x} \in SUBSET S
    OBVIOUS
  <1> QED
    BY <1>1

LEMMA QuitTypes ==
    ASSUME TypeOK, NEW w \in Callers, Quit(w)
    PROVE  TypeOK'
  BY DEF Quit, TypeOK, Phases, disk, debouncer, controller

LEMMA ScheduleTypes ==
    ASSUME TypeOK, NEW w \in Callers, NEW a \in Albums, Schedule(w, a)
    PROVE  /\ timers' \in [Callers -> [Albums -> Nat]]
           /\ armed' \in [Callers -> SUBSET Timer]
           /\ ids' \in Nat /\ ids' = ids + 1
           /\ UNCHANGED <<fired, running>>
  <1>1. ids \in Nat /\ <<a, ids + 1>> \in Timer
    BY DEF TypeOK, Timer
  <1>2. timers[w] \in [Albums -> Nat] /\ armed[w] \in SUBSET Timer
    BY DEF TypeOK
  <1>3. timers' = [timers EXCEPT ![w] = [timers[w] EXCEPT ![a] = ids + 1]]
    BY <1>2 DEF Schedule, TypeOK
  <1>4. timers' \in [Callers -> [Albums -> Nat]]
    BY <1>1, <1>2, <1>3 DEF TypeOK
  <1>5. armed' = [armed EXCEPT ![w] = (@ \ {<<a, timers[w][a]>>}) \cup {<<a, ids + 1>>}]
    BY DEF Schedule
  <1>6. armed' \in [Callers -> SUBSET Timer]
    BY <1>1, <1>2, <1>5 DEF TypeOK
  <1> QED
    BY <1>1, <1>4, <1>6 DEF Schedule

LEMMA GoroutineTypes ==
    ASSUME TypeOK, NEW w \in Callers, Goroutine(w)
    PROVE  TypeOK'
  <1> USE DEF disk, loop, debouncer, controller
  <1>1. CASE Open(w)
    <2>1. CASE Quit(w)
      BY <2>1, QuitTypes
    <2>2. CASE ~Quit(w)
      <3>1. there \in SUBSET Albums
        BY DEF TypeOK
      <3> QED
        BY <1>1, <2>2, <3>1 DEF Open, TypeOK, Phases
    <2> QED
      BY <2>1, <2>2
  <1>2. CASE Enter(w)
    BY <1>2 DEF Enter, TypeOK, Phases
  <1>3. CASE StopDebouncer(w)
    <2>1. timers' \in [Callers -> [Albums -> Nat]]
      BY <1>3 DEF StopDebouncer, TypeOK
    <2> QED
      BY <1>3, <2>1 DEF StopDebouncer, TypeOK, Phases
  <1>4. CASE Returns(w)
    BY <1>4, QuitTypes DEF Returns
  <1>5. ASSUME NEW a \in Albums, AddAlbum(w, a) PROVE TypeOK'
    <2>1. CASE Quit(w)
      BY <2>1, QuitTypes
    <2>2. CASE ~Quit(w)
      <3>1. [watched EXCEPT ![w] = @ \cup {a}] \in [Callers -> SUBSET Albums]
        BY AddOne DEF TypeOK
      <3>2. watched' = [watched EXCEPT ![w] = @ \cup {a}]
        BY <1>5, <2>2 DEF AddAlbum
      <3>3. watched' \in [Callers -> SUBSET Albums]
        BY <3>1, <3>2
      <3>4. unread' \in [Callers -> SUBSET Albums]
        <4>1. [unread EXCEPT ![w] = @ \ {a}] \in [Callers -> SUBSET Albums]
          BY DropOne DEF TypeOK
        <4> QED
          BY <1>5, <2>2, <4>1 DEF AddAlbum
      <3> QED
        BY <1>5, <2>2, <3>3, <3>4 DEF AddAlbum, TypeOK
    <2> QED
      BY <2>1, <2>2
  <1>6. ASSUME NEW a \in Albums, HandleWrite(w, a) PROVE TypeOK'
    <2>1. Schedule(w, a)
      BY <1>6 DEF HandleWrite
    <2> QED
      BY <1>6, <2>1, ScheduleTypes DEF HandleWrite, TypeOK
  <1>7. ASSUME NEW a \in Albums, HandleCreate(w, a) PROVE TypeOK'
    <2>1. CASE Schedule(w, a)
      <3>1. /\ timers' \in [Callers -> [Albums -> Nat]]
            /\ armed' \in [Callers -> SUBSET Timer]
            /\ ids' \in Nat /\ UNCHANGED <<fired, running>>
        BY <2>1, ScheduleTypes
      <3>2. /\ watched' \in [Callers -> SUBSET Albums]
            /\ events' \in [Callers -> SUBSET Event]
            /\ owed' \in [Callers -> SUBSET Albums]
            /\ UNCHANGED <<disk, halt, phase, cancelled, unread, controller>>
        <4>1. [watched EXCEPT ![w] = @ \cup {a}] \in [Callers -> SUBSET Albums]
          BY AddOne DEF TypeOK
        <4>2. \/ watched' = [watched EXCEPT ![w] = @ \cup {a}]
              \/ watched' = watched
          BY <1>7 DEF HandleCreate
        <4>3. watched' \in [Callers -> SUBSET Albums]
          BY <4>1, <4>2 DEF TypeOK
        <4>4. events' \in [Callers -> SUBSET Event]
          BY <1>7 DEF HandleCreate, TypeOK
        <4>5. owed' \in [Callers -> SUBSET Albums]
          <5>1. [owed EXCEPT ![w] = @ \ {a}] \in [Callers -> SUBSET Albums]
            BY DropOne DEF TypeOK
          <5>2. \/ owed' = [owed EXCEPT ![w] = @ \ {a}]
                \/ owed' = owed
            BY <1>7 DEF HandleCreate
          <5> QED
            BY <5>1, <5>2 DEF TypeOK
        <4> QED
          BY <1>7, <4>3, <4>4, <4>5 DEF HandleCreate
      <3> QED
        BY <3>1, <3>2 DEF TypeOK
    <2>2. CASE ~Schedule(w, a)
      BY <1>7, <2>2 DEF HandleCreate, TypeOK
    <2> QED
      BY <2>1, <2>2
  <1> QED
    BY <1>1, <1>2, <1>3, <1>4, <1>5, <1>6, <1>7 DEF Goroutine

LEMMA TimersTypes ==
    ASSUME TypeOK, NEW w \in Callers, Timers(w)
    PROVE  TypeOK'
  <1> USE DEF disk, loop, controller, TypeOK
  <1>1. ASSUME NEW t \in armed[w], Expire(w, t) PROVE TypeOK'
    BY <1>1 DEF Expire
  <1>2. ASSUME NEW t \in fired[w], Fire(w, t) PROVE TypeOK'
    <2>1. t \in Timer /\ t[1] \in Albums /\ timers[w] \in [Albums -> Nat]
      BY <1>2 DEF Timer
    <2>2. [timers EXCEPT ![w][t[1]] = 0] \in [Callers -> [Albums -> Nat]]
      BY <2>1
    <2>3. CASE UNCHANGED <<timers, running, owed>>
      BY <1>2, <2>3 DEF Fire
    <2>4. CASE ~UNCHANGED <<timers, running, owed>>
      <3>1. /\ timers' = [timers EXCEPT ![w][t[1]] = 0]
            /\ running' = [running EXCEPT ![w] = @ \cup {t}]
            /\ owed' = [owed EXCEPT ![w] = @ \ {t[1]}]
        BY <1>2, <2>4 DEF Fire
      <3>2. /\ timers' \in [Callers -> [Albums -> Nat]]
            /\ running' \in [Callers -> SUBSET Timer]
            /\ owed' \in [Callers -> SUBSET Albums]
        BY <2>1, <2>2, <3>1
      <3> QED
        BY <1>2, <3>2 DEF Fire
    <2> QED
      BY <2>3, <2>4
  <1>3. ASSUME NEW t \in running[w], ScanEnds(w, t) PROVE TypeOK'
    BY <1>3 DEF ScanEnds
  <1> QED
    BY <1>1, <1>2, <1>3 DEF Timers

LEMMA CallTypes ==
    ASSUME TypeOK, NEW c \in Callers, Call(c)
    PROVE  TypeOK'
  BY DEF Call, Stat, Lock, Join, Launch, TypeOK, Phases, Calls, disk, loop,
         debouncer

LEMMA ChangeTypes ==
    ASSUME TypeOK, AlbumsChange
    PROVE  TypeOK'
  <1> USE DEF Changed, Event, TypeOK, debouncer, controller
  <1>1. PICK a \in Albums : Mkdir(a) \/ Write(a)
    BY DEF AlbumsChange
  <1>2. CASE Mkdir(a)
    BY <1>2 DEF Mkdir
  <1>3. CASE Write(a)
    BY <1>3 DEF Write
  <1> QED
    BY <1>1, <1>2, <1>3

LEMMA MainTypes ==
    ASSUME TypesOK, MainStep
    PROVE  TypesOK'
  <1> USE MainAssumption
          DEF TypesOK, TypeOK, ProcessTypeOK, Beside, watcherVars, disk, loop,
              debouncer, controller, MainSteps, Calls, CallStop
  <1>1. CASE BootFails BY <1>1 DEF BootFails
  <1>2. CASE SecretFails BY <1>2 DEF SecretFails
  <1>3. CASE Serve BY <1>3 DEF Serve, Helpers
  <1>4. CASE BeginShutdown BY <1>4 DEF BeginShutdown
  <1>5. CASE HttpIsDown BY <1>5 DEF HttpIsDown
  <1>6. CASE WatchersStopped BY <1>6 DEF WatchersStopped
  <1>7. CASE WaitScans BY <1>7 DEF WaitScans
  <1>8. CASE WaitGroup BY <1>8 DEF WaitGroup
  <1>9. CASE StoppedAgain BY <1>9 DEF StoppedAgain
  <1>10. CASE Close BY <1>10 DEF Close
  <1> QED
    BY <1>1, <1>2, <1>3, <1>4, <1>5, <1>6, <1>7, <1>8, <1>9, <1>10
    DEF MainStep

\* Everybody but main and the watchers.
Others ==
    \/ Signal
    \/ \E h \in Helpers : HelperFails(h)
    \/ \E r \in Puts \cup Scans : Arrive(r) \/ Request(r)
    \/ \E r \in Puts : PutRestarts(r)
    \/ \E s \in Scans : BgScan(s)

LEMMA OthersTypes ==
    ASSUME TypesOK, Others
    PROVE  TypesOK'
  <1> USE DEF TypesOK, TypeOK, ProcessTypeOK, Beside, watcherVars, disk, loop,
              debouncer, controller, Calls, process
  <1>1. CASE Signal
    BY <1>1 DEF Signal
  <1>2. ASSUME NEW h \in Helpers, HelperFails(h) PROVE TypesOK'
    BY <1>2 DEF HelperFails
  <1>3. ASSUME NEW r \in Puts \cup Scans, Arrive(r) PROVE TypesOK'
    BY <1>3 DEF Arrive
  <1>4. ASSUME NEW r \in Puts \cup Scans, Request(r) PROVE TypesOK'
    BY <1>4 DEF Request, PutEnds, ScanRequest, Puts, BgSteps
  <1>5. ASSUME NEW r \in Puts, PutRestarts(r) PROVE TypesOK'
    BY <1>5 DEF PutRestarts, Puts
  <1>6. ASSUME NEW s \in Scans, BgScan(s) PROVE TypesOK'
    BY <1>6 DEF BgScan, BgSteps
  <1> QED
    BY <1>1, <1>2, <1>3, <1>4, <1>5, <1>6 DEF Others

\* Every step, as the proofs below take it apart.
LEMMA NextCases ==
    ASSUME [Next]_vars
    PROVE  \/ MainStep
           \/ AlbumsChange /\ UNCHANGED process
           \/ \E w \in Callers : OfWatcher(w) /\ UNCHANGED process
           \/ Others
           \/ UNCHANGED vars
  BY DEF Next, Exited, Running, WatcherStep, OfWatcher, Others

LEMMA TypesStep ==
    ASSUME TypesOK, [Next]_vars
    PROVE  TypesOK'
  <1>1. ASSUME TypeOK', UNCHANGED process PROVE TypesOK'
    BY <1>1 DEF TypesOK, ProcessTypeOK, process
  <1>2. CASE AlbumsChange /\ UNCHANGED process
    BY <1>1, <1>2, ChangeTypes DEF TypesOK
  <1>3. ASSUME NEW w \in Callers, OfWatcher(w), UNCHANGED process PROVE TypesOK'
    BY <1>1, <1>3, GoroutineTypes, TimersTypes, CallTypes DEF TypesOK, OfWatcher
  <1>4. CASE UNCHANGED vars
    BY <1>4 DEF vars, watcherVars, disk, loop, debouncer, controller, process,
                TypesOK, TypeOK, ProcessTypeOK
  <1> QED
    BY <1>2, <1>3, <1>4, MainTypes, OthersTypes, NextCases

-----------------------------------------------------------------------------
(* The timers of a debouncer                                               *)

LEMMA TimersUntouched ==
    ASSUME TypeOK, NEW v \in Callers, TimersOf(v), ids' \in {ids, ids + 1},
           timers'[v] = timers[v], armed'[v] = armed[v], fired'[v] = fired[v]
    PROVE  TimersOf(v)'
  <1>1. /\ ids \in Nat /\ timers[v] \in [Albums -> Nat]
        /\ armed[v] \in SUBSET Timer /\ fired[v] \in SUBSET Timer
    BY DEF TypeOK
  <1>2. \A t \in Timer : t[1] \in Albums /\ t[2] \in Nat
    BY DEF Timer
  <1>3. \A a \in Albums : timers'[v][a] <= ids'
    BY <1>1 DEF TimersOf
  <1>4. \A t \in armed'[v] : timers'[v][t[1]] = t[2] /\ t \notin fired'[v]
    BY DEF TimersOf
  <1>5. ASSUME NEW t \in armed'[v] \cup fired'[v]
        PROVE  t[2] \in 1 .. ids' /\ (timers'[v][t[1]] # 0 => t[2] <= timers'[v][t[1]])
    BY <1>1, <1>2, <1>5 DEF TimersOf
  <1> QED
    BY <1>3, <1>4, <1>5 DEF TimersOf

\* The new timer is newer than all others, and the old one is not armed.
LEMMA ScheduleTimers ==
    ASSUME TypeOK, TimersInv, NEW w \in Callers, NEW a \in Albums,
           Schedule(w, a)
    PROVE  TimersInv'
  <1> DEFINE n == ids + 1
  <1>1. /\ ids \in Nat /\ timers[w] \in [Albums -> Nat]
        /\ armed[w] \in SUBSET Timer /\ fired[w] \in SUBSET Timer
        /\ TimersOf(w)
    BY DEF TypeOK, TimersInv
  <1>2. \A t \in Timer : t[1] \in Albums /\ t[2] \in Nat /\ t = <<t[1], t[2]>>
    BY DEF Timer
  <1>3. /\ ids' = n
        /\ timers' = [timers EXCEPT ![w] = [timers[w] EXCEPT ![a] = n]]
        /\ armed' = [armed EXCEPT ![w] = (@ \ {<<a, timers[w][a]>>}) \cup {<<a, n>>}]
        /\ fired' = fired
    BY DEF Schedule, TypeOK
  <1>4. ASSUME NEW v \in Callers, v # w PROVE TimersOf(v)'
    <2>1. /\ timers'[v] = timers[v] /\ armed'[v] = armed[v] /\ fired'[v] = fired[v]
      BY <1>3, <1>4 DEF TypeOK
    <2> QED
      BY <1>3, <2>1, TimersUntouched DEF TimersInv
  <1>5. /\ timers'[w] = [timers[w] EXCEPT ![a] = n]
        /\ armed'[w] = (armed[w] \ {<<a, timers[w][a]>>}) \cup {<<a, n>>}
        /\ fired'[w] = fired[w]
    BY <1>3 DEF TypeOK
  <1>6. /\ timers'[w][a] = n
        /\ \A b \in Albums : b # a => timers'[w][b] = timers[w][b]
    BY <1>1, <1>5
  <1>7. \A t \in armed[w] : t # <<a, timers[w][a]>> => t[1] # a
    BY <1>1, <1>2 DEF TimersOf
  <1>8. \A t \in fired[w] : t # <<a, n>>
    BY <1>1, <1>2 DEF TimersOf
  <1>9. \A b \in Albums : timers'[w][b] <= ids'
    BY <1>1, <1>3, <1>6 DEF TimersOf
  <1>10. ASSUME NEW t \in armed'[w]
         PROVE  timers'[w][t[1]] = t[2] /\ t \notin fired'[w]
    <2>1. CASE t = <<a, n>>
      BY <2>1, <1>5, <1>6, <1>8
    <2>2. CASE t # <<a, n>>
      <3>1. t \in armed[w] /\ t[1] # a /\ t[1] \in Albums
        BY <2>2, <1>1, <1>2, <1>5, <1>7, <1>10
      <3> QED
        BY <3>1, <1>1, <1>5, <1>6 DEF TimersOf
    <2> QED
      BY <2>1, <2>2
  <1>11. ASSUME NEW t \in armed'[w] \cup fired'[w]
         PROVE  /\ t[2] \in 1 .. ids'
                /\ timers'[w][t[1]] # 0 => t[2] <= timers'[w][t[1]]
    <2>1. CASE t = <<a, n>>
      BY <2>1, <1>1, <1>3, <1>6
    <2>2. CASE t # <<a, n>>
      <3>1. t \in armed[w] \cup fired[w] /\ t[1] \in Albums /\ t[2] \in Nat
        BY <2>2, <1>1, <1>2, <1>5, <1>11
      <3>2. t[2] \in 1 .. ids /\ (timers[w][t[1]] # 0 => t[2] <= timers[w][t[1]])
        BY <3>1, <1>1 DEF TimersOf
      <3>3. CASE t[1] = a
        BY <3>1, <3>2, <3>3, <1>1, <1>3, <1>6
      <3>4. CASE t[1] # a
        BY <3>1, <3>2, <3>4, <1>1, <1>3, <1>6
      <3> QED
        BY <3>3, <3>4
    <2> QED
      BY <2>1, <2>2
  <1>12. TimersOf(w)'
    BY <1>9, <1>10, <1>11 DEF TimersOf
  <1> QED
    BY <1>4, <1>12 DEF TimersInv

LEMMA TimerSteps ==
    ASSUME TypeOK, TimersInv, NEW w \in Callers, Timers(w)
    PROVE  TimersInv'
  <1>1. /\ ids \in Nat /\ timers[w] \in [Albums -> Nat]
        /\ armed[w] \in SUBSET Timer /\ fired[w] \in SUBSET Timer
        /\ TimersOf(w)
    BY DEF TypeOK, TimersInv
  <1>2. \A t \in Timer : t[1] \in Albums /\ t[2] \in Nat /\ t = <<t[1], t[2]>>
    BY DEF Timer
  <1>3. ASSUME NEW t \in armed[w], Expire(w, t) PROVE TimersInv'
    <2>1. /\ armed' = [armed EXCEPT ![w] = @ \ {t}]
          /\ fired' = [fired EXCEPT ![w] = @ \cup {t}]
          /\ timers' = timers /\ ids' = ids
      BY <1>3 DEF Expire
    <2>2. ASSUME NEW v \in Callers, v # w PROVE TimersOf(v)'
      <3>1. timers'[v] = timers[v] /\ armed'[v] = armed[v] /\ fired'[v] = fired[v]
        BY <2>1, <2>2 DEF TypeOK
      <3> QED
        BY <2>1, <3>1, TimersUntouched DEF TimersInv
    <2>3. TimersOf(w)'
      <3>1. armed'[w] = armed[w] \ {t} /\ fired'[w] = fired[w] \cup {t}
        BY <2>1 DEF TypeOK
      <3> QED
        BY <2>1, <3>1, <1>1 DEF TimersOf
    <2> QED
      BY <2>2, <2>3 DEF TimersInv
  <1>4. ASSUME NEW t \in fired[w], Fire(w, t) PROVE TimersInv'
    <2>1. /\ fired' = [fired EXCEPT ![w] = @ \ {t}]
          /\ armed' = armed /\ ids' = ids
      BY <1>4 DEF Fire
    <2>2. \/ timers' = timers
          \/ /\ timers[w][t[1]] = t[2]
             /\ timers' = [timers EXCEPT ![w] = [timers[w] EXCEPT ![t[1]] = 0]]
      BY <1>4 DEF Fire, TypeOK
    <2>3. ASSUME NEW v \in Callers, v # w PROVE TimersOf(v)'
      <3>1. timers'[v] = timers[v] /\ armed'[v] = armed[v] /\ fired'[v] = fired[v]
        BY <2>1, <2>2, <2>3 DEF TypeOK
      <3> QED
        BY <2>1, <3>1, TimersUntouched DEF TimersInv
    <2>4. TimersOf(w)'
      <3>1. armed'[w] = armed[w] /\ fired'[w] = fired[w] \ {t}
        BY <2>1 DEF TypeOK
      <3>2. CASE timers' = timers
        BY <2>1, <3>1, <3>2, <1>1 DEF TimersOf
      <3>3. CASE timers' # timers
        <4>1. /\ timers[w][t[1]] = t[2]
              /\ timers'[w] = [timers[w] EXCEPT ![t[1]] = 0]
          BY <2>2, <3>3 DEF TypeOK
        <4>2. t[1] \in Albums
          BY <1>1, <1>2, <1>4
        <4>3. \A u \in armed[w] : u[1] # t[1]
          BY <4>1, <1>1, <1>2, <1>4 DEF TimersOf
        <4>4. /\ timers'[w][t[1]] = 0
              /\ \A b \in Albums : b # t[1] => timers'[w][b] = timers[w][b]
          BY <4>1, <4>2, <1>1
        <4>5. \A b \in Albums : timers'[w][b] <= ids'
          BY <2>1, <4>4, <1>1 DEF TimersOf
        <4>6. \A u \in armed'[w] : timers'[w][u[1]] = u[2] /\ u \notin fired'[w]
          BY <3>1, <4>3, <4>4, <1>1, <1>2 DEF TimersOf
        <4>7. ASSUME NEW u \in armed'[w] \cup fired'[w]
              PROVE  /\ u[2] \in 1 .. ids'
                     /\ timers'[w][u[1]] # 0 => u[2] <= timers'[w][u[1]]
          <5>1. u \in armed[w] \cup fired[w] /\ u[1] \in Albums
            BY <3>1, <4>7, <1>1, <1>2
          <5> QED
            BY <2>1, <4>4, <5>1, <1>1 DEF TimersOf
        <4> QED
          BY <4>5, <4>6, <4>7 DEF TimersOf
      <3> QED
        BY <3>2, <3>3
    <2> QED
      BY <2>3, <2>4 DEF TimersInv
  <1>5. ASSUME NEW t \in running[w], ScanEnds(w, t) PROVE TimersInv'
    BY <1>5, TimersUntouched DEF ScanEnds, TimersInv
  <1> QED
    BY <1>3, <1>4, <1>5 DEF Timers

LEMMA TimersStep ==
    ASSUME TypeOK, TimersInv, [Next]_vars
    PROVE  TimersInv'
  <1>1. ASSUME UNCHANGED debouncer PROVE TimersInv'
    BY <1>1, TimersUntouched DEF debouncer, TimersInv
  <1>2. ASSUME NEW w \in Callers, Goroutine(w) PROVE TimersInv'
    <2>1. CASE \E a \in Albums : Schedule(w, a)
      BY <2>1, ScheduleTimers
    <2>2. CASE StopDebouncer(w)
      <3>1. /\ armed' = [armed EXCEPT ![w] = {}]
            /\ timers' = [timers EXCEPT ![w] = [a \in Albums |-> 0]]
            /\ fired' = fired /\ ids' = ids
        BY <2>2 DEF StopDebouncer
      <3>2. ASSUME NEW v \in Callers, v # w PROVE TimersOf(v)'
        <4>1. timers'[v] = timers[v] /\ armed'[v] = armed[v] /\ fired'[v] = fired[v]
          BY <3>1, <3>2 DEF TypeOK
        <4> QED
          BY <3>1, <4>1, TimersUntouched DEF TimersInv
      <3>3. TimersOf(w)'
        <4>1. armed'[w] = {} /\ timers'[w] = [a \in Albums |-> 0]
          BY <3>1 DEF TypeOK
        <4>2. \A t \in fired[w] : t[1] \in Albums
          BY DEF TypeOK, Timer
        <4>3. ids \in Nat /\ TimersOf(w)
          BY DEF TypeOK, TimersInv
        <4> QED
          BY <3>1, <4>1, <4>2, <4>3 DEF TimersOf
      <3> QED
        BY <3>2, <3>3 DEF TimersInv
    <2> QED
      BY <1>1, <1>2, <2>1, <2>2
      DEF Goroutine, Open, Enter, Returns, AddAlbum, HandleWrite, HandleCreate, Quit
  <1>3. ASSUME NEW w \in Callers, Call(w) PROVE TimersInv'
    BY <1>1, <1>3 DEF Call, Stat, Lock, Join
  <1>4. CASE Elsewhere
    BY <1>1, <1>4 DEF Elsewhere
  <1> QED
    BY <1>2, <1>3, <1>4, TimerSteps, StepKinds DEF OfWatcher

-----------------------------------------------------------------------------
(* What the phases of Start leave of the timers                            *)

SameWatcher(v) ==
    /\ phase'[v] = phase[v] /\ timers'[v] = timers[v] /\ armed'[v] = armed[v]
    /\ fired'[v] = fired[v] /\ running'[v] = running[v]

LEMMA GoroutinePhase ==
    ASSUME TypeOK, PhaseInv, NEW w \in Callers, Goroutine(w)
    PROVE  PhaseInv'
  <1> USE DEF debouncer
  <1>1. PhaseOf(w)
    BY DEF PhaseInv
  <1>2. ASSUME \A v \in Callers \ {w} : SameWatcher(v), PhaseOf(w)'
        PROVE  PhaseInv'
    BY <1>2 DEF SameWatcher, PhaseInv, PhaseOf
  <1>3. ASSUME phase[w] # "loop", Quit(w), phase[w] = "stopping" => running[w] = {}
        PROVE  PhaseInv'
    <2>1. \A v \in Callers \ {w} : SameWatcher(v)
      BY <1>3 DEF Quit, TypeOK, SameWatcher
    <2>2. phase'[w] = "done" /\ UNCHANGED <<timers, armed, fired, running>>
      BY <1>3 DEF Quit, TypeOK
    <2>3. PhaseOf(w)'
      BY <1>1, <1>3, <2>2 DEF PhaseOf, TypeOK, Phases
    <2> QED
      BY <1>2, <2>1, <2>3
  <1>4. CASE Open(w)
    <2>1. CASE Quit(w)
      BY <1>3, <1>4, <2>1 DEF Open
    <2>2. CASE ~Quit(w)
      <3>1. /\ phase' = [phase EXCEPT ![w] = "adding"] /\ phase[w] = "start"
            /\ UNCHANGED <<timers, armed, fired, running>>
        BY <1>4, <2>2 DEF Open
      <3> QED
        BY <1>1, <1>2, <3>1 DEF PhaseOf, SameWatcher, TypeOK
    <2> QED
      BY <2>1, <2>2
  <1>5. CASE Enter(w)
    <2>1. /\ phase' = [phase EXCEPT ![w] = "loop"]
          /\ UNCHANGED <<timers, armed, fired, running>>
      BY <1>5 DEF Enter
    <2> QED
      BY <1>2, <2>1 DEF PhaseOf, SameWatcher, TypeOK
  <1>6. CASE StopDebouncer(w)
    <2>1. /\ phase' = [phase EXCEPT ![w] = "stopping"]
          /\ armed' = [armed EXCEPT ![w] = {}]
          /\ timers' = [timers EXCEPT ![w] = [a \in Albums |-> 0]]
          /\ UNCHANGED <<fired, running>>
      BY <1>6 DEF StopDebouncer
    <2>2. \A v \in Callers \ {w} : SameWatcher(v)
      BY <2>1 DEF SameWatcher, TypeOK
    <2>3. phase'[w] = "stopping" /\ armed'[w] = {} /\ timers'[w] = [a \in Albums |-> 0]
      BY <2>1 DEF TypeOK
    <2> QED
      BY <1>2, <2>2, <2>3 DEF PhaseOf
  <1>7. CASE Returns(w)
    BY <1>3, <1>7 DEF Returns
  <1>8. ASSUME NEW a \in Albums, AddAlbum(w, a) PROVE PhaseInv'
    <2>1. CASE Quit(w)
      BY <1>3, <1>8, <2>1 DEF AddAlbum
    <2>2. CASE ~Quit(w)
      BY <1>1, <1>2, <1>8, <2>2 DEF AddAlbum, PhaseOf, SameWatcher
    <2> QED
      BY <2>1, <2>2
  <1>9. ASSUME NEW a \in Albums, HandleWrite(w, a) \/ HandleCreate(w, a)
        PROVE  PhaseInv'
    <2>1. phase[w] = "loop" /\ phase' = phase
      BY <1>9 DEF HandleWrite, HandleCreate
    <2>2. \A v \in Callers \ {w} : SameWatcher(v)
      <3>1. CASE Schedule(w, a)
        BY <2>1, <3>1 DEF Schedule, SameWatcher, TypeOK
      <3>2. CASE UNCHANGED <<timers, armed, fired, running>>
        BY <2>1, <3>2 DEF SameWatcher
      <3> QED
        BY <1>9, <3>1, <3>2 DEF HandleWrite, HandleCreate
    <2> QED
      BY <1>2, <2>1, <2>2 DEF PhaseOf
  <1> QED
    BY <1>4, <1>5, <1>6, <1>7, <1>8, <1>9 DEF Goroutine

LEMMA TimerPhase ==
    ASSUME TypeOK, PhaseInv, NEW w \in Callers, Timers(w)
    PROVE  PhaseInv'
  <1>1. PhaseOf(w)
    BY DEF PhaseInv
  <1>2. ASSUME \A v \in Callers \ {w} : SameWatcher(v), PhaseOf(w)'
        PROVE  PhaseInv'
    BY <1>2 DEF SameWatcher, PhaseInv, PhaseOf
  <1>3. ASSUME NEW t \in armed[w], Expire(w, t) PROVE PhaseInv'
    <2>1. phase[w] = "loop" /\ phase' = phase
      BY <1>1, <1>3 DEF PhaseOf, Expire
    <2>2. \A v \in Callers \ {w} : SameWatcher(v)
      BY <1>3 DEF Expire, SameWatcher, TypeOK
    <2> QED
      BY <1>2, <2>1, <2>2 DEF PhaseOf
  <1>4. ASSUME NEW t \in fired[w], Fire(w, t) PROVE PhaseInv'
    <2>1. phase[w] \notin {"none", "start", "adding"} /\ phase' = phase
      BY <1>1, <1>4 DEF PhaseOf, Fire
    <2>2. \A v \in Callers \ {w} : SameWatcher(v)
      <3>1. CASE Stopped(w) \/ timers[w][t[1]] # t[2]
        BY <1>4, <3>1 DEF Fire, SameWatcher, TypeOK
      <3>2. CASE ~(Stopped(w) \/ timers[w][t[1]] # t[2])
        BY <1>4, <3>2 DEF Fire, SameWatcher, TypeOK
      <3> QED
        BY <3>1, <3>2
    <2>3. CASE phase[w] = "loop"
      BY <1>2, <2>1, <2>2, <2>3 DEF PhaseOf
    <2>4. CASE phase[w] # "loop"
      <3>1. UNCHANGED <<timers, running, armed>>
        BY <1>4, <2>1, <2>4 DEF Fire, Stopped, TypeOK, Phases
      <3> QED
        BY <1>1, <1>2, <2>1, <2>2, <2>4, <3>1 DEF PhaseOf
    <2> QED
      BY <2>3, <2>4
  <1>5. ASSUME NEW t \in running[w], ScanEnds(w, t) PROVE PhaseInv'
    <2>1. running' = [running EXCEPT ![w] = @ \ {t}] /\ running[w] # {}
          /\ UNCHANGED <<phase, timers, armed, fired>>
      BY <1>5 DEF ScanEnds
    <2>2. \A v \in Callers \ {w} : SameWatcher(v)
      BY <2>1 DEF SameWatcher, TypeOK
    <2> QED
      BY <1>1, <1>2, <2>1, <2>2 DEF PhaseOf
  <1> QED
    BY <1>3, <1>4, <1>5 DEF Timers

LEMMA PhaseStep ==
    ASSUME TypeOK, PhaseInv, ControllerInv, [Next]_vars
    PROVE  PhaseInv'
  <1>1. ASSUME UNCHANGED <<phase, debouncer>> PROVE PhaseInv'
    BY <1>1 DEF debouncer, PhaseInv, PhaseOf
  <1>2. ASSUME NEW c \in Callers, Call(c) PROVE PhaseInv'
    <2>1. CASE UNCHANGED phase
      BY <1>1, <1>2, <2>1 DEF Call, Stat, Lock, Join
    <2>2. CASE ~UNCHANGED phase
      <3>1. /\ ctl[c] \in {"lock", "wait"} /\ wants[c]
            /\ phase' = [phase EXCEPT ![c] = "start"]
            /\ UNCHANGED debouncer
        BY <1>2, <2>2 DEF Call, Stat, Lock, Join, Launch
      <3>2. phase[c] = "none"
        BY <3>1 DEF ControllerInv
      <3> QED
        BY <3>1, <3>2 DEF debouncer, PhaseInv, PhaseOf, TypeOK
    <2> QED
      BY <2>1, <2>2
  <1>3. CASE Elsewhere
    BY <1>1, <1>3 DEF Elsewhere
  <1> QED
    BY <1>2, <1>3, GoroutinePhase, TimerPhase, StepKinds DEF OfWatcher

-----------------------------------------------------------------------------
(* What a step may do to the phases and to the calls                       *)

GoesOn(w) ==
    \/ phase' = phase
    \/ phase[w] \in {"start", "adding", "loop", "stopping"}
       /\ phase' = [phase EXCEPT ![w] = "done"]
    \/ phase[w] = "start" /\ ~halt /\ phase' = [phase EXCEPT ![w] = "adding"]
    \/ phase[w] = "adding" /\ phase' = [phase EXCEPT ![w] = "loop"]
    \/ phase[w] = "loop" /\ phase' = [phase EXCEPT ![w] = "stopping"]

LEMMA WatcherMoves ==
    ASSUME NEW w \in Callers, Goroutine(w) \/ Timers(w)
    PROVE  GoesOn(w) /\ UNCHANGED <<halt, mu, ctl, wants, current>>
  <1> USE DEF GoesOn, controller, Cancelled, Quit
  <1>1. CASE Open(w) BY <1>1 DEF Open
  <1>2. CASE Enter(w) BY <1>2 DEF Enter
  <1>3. CASE StopDebouncer(w) BY <1>3 DEF StopDebouncer
  <1>4. CASE Returns(w) BY <1>4 DEF Returns
  <1>5. ASSUME NEW a \in Albums, AddAlbum(w, a) \/ HandleWrite(w, a) \/ HandleCreate(w, a)
        PROVE  GoesOn(w) /\ UNCHANGED <<halt, mu, ctl, wants, current>>
    BY <1>5 DEF AddAlbum, HandleWrite, HandleCreate
  <1>6. ASSUME NEW t, Expire(w, t) \/ Fire(w, t) \/ ScanEnds(w, t)
        PROVE  GoesOn(w) /\ UNCHANGED <<halt, mu, ctl, wants, current>>
    BY <1>6 DEF Expire, Fire, ScanEnds
  <1> QED
    BY <1>1, <1>2, <1>3, <1>4, <1>5, <1>6 DEF Goroutine, Timers

Looks(c) ==
    /\ ctl[c] = "stat" /\ \E to \in {"lock", "err"} : ctl' = [ctl EXCEPT ![c] = to]
    /\ UNCHANGED <<phase, mu, current>>

Waits(c) ==
    /\ ctl[c] = "lock" /\ mu = Nobody /\ current # Nobody
    /\ ctl' = [ctl EXCEPT ![c] = "wait"] /\ mu' = c
    /\ UNCHANGED <<phase, current>>

Replaces(c) ==
    /\ \/ ctl[c] = "lock" /\ mu = Nobody /\ current = Nobody
       \/ ctl[c] = "wait" /\ phase[current] = "done"
    /\ Launch(c)

LEMMA CallMoves ==
    ASSUME NEW c \in Callers, Call(c)
    PROVE  /\ Looks(c) \/ Waits(c) \/ Replaces(c)
           /\ UNCHANGED <<halt, wants, debouncer>>
  BY DEF Call, Stat, Lock, Join, Looks, Waits, Replaces

LEMMA MainMoves ==
    ASSUME MainStep
    PROVE  /\ UNCHANGED <<phase, mu, current, http, bg>> /\ halt' \in {halt, TRUE}
           /\ main \notin {"boot", "serving"} => main' \notin {"boot", "serving"}
           /\ \/ UNCHANGED <<ctl, wants>>
              \/ CallStop /\ (ctl[Main] = "ok" \/ main \in {"http", "join"})
  <1> USE DEF Beside, watcherVars, controller
  <1>1. CASE BootFails BY <1>1 DEF BootFails
  <1>2. CASE SecretFails BY <1>2 DEF SecretFails
  <1>3. CASE Serve BY <1>3 DEF Serve
  <1>4. CASE BeginShutdown BY <1>4 DEF BeginShutdown
  <1>5. CASE HttpIsDown BY <1>5 DEF HttpIsDown
  <1>6. CASE WatchersStopped BY <1>6 DEF WatchersStopped
  <1>7. CASE WaitScans BY <1>7 DEF WaitScans
  <1>8. CASE WaitGroup BY <1>8 DEF WaitGroup
  <1>9. CASE StoppedAgain BY <1>9 DEF StoppedAgain
  <1>10. CASE Close BY <1>10 DEF Close
  <1> QED
    BY <1>1, <1>2, <1>3, <1>4, <1>5, <1>6, <1>7, <1>8, <1>9, <1>10
    DEF MainStep

\* The calls of the others are those of requests.
LEMMA OtherMoves ==
    ASSUME Others
    PROVE  /\ UNCHANGED <<phase, mu, current, main>>
           /\ \/ UNCHANGED <<ctl, wants>>
              \/ \E r \in Puts, some \in BOOLEAN :
                    /\ http[r] = "active" /\ ctl[r] = "out"
                    /\ ctl' = [ctl EXCEPT ![r] = "stat"]
                    /\ wants' = [wants EXCEPT ![r] = some]
                    /\ http' = http
              \/ \E r \in Puts :
                    /\ http[r] = "active" /\ ctl[r] \in {"out", "ok", "err"}
                    /\ ctl' = [ctl EXCEPT ![r] = "out"]
                    /\ wants' = [wants EXCEPT ![r] = FALSE]
                    /\ http' = [http EXCEPT ![r] = "done"]
  <1> USE DEF Beside, watcherVars, controller, process
  <1>1. CASE Signal BY <1>1 DEF Signal
  <1>2. ASSUME NEW h \in Helpers, HelperFails(h)
        PROVE  UNCHANGED <<phase, mu, current, main, ctl, wants>>
    BY <1>2 DEF HelperFails
  <1>3. ASSUME NEW r \in Puts \cup Scans, Arrive(r)
        PROVE  UNCHANGED <<phase, mu, current, main, ctl, wants>>
    BY <1>3 DEF Arrive
  <1>4. ASSUME NEW s, ScanRequest(s) \/ BgScan(s)
        PROVE  UNCHANGED <<phase, mu, current, main, ctl, wants>>
    BY <1>4 DEF ScanRequest, BgScan
  <1>5. ASSUME NEW r \in Puts, PutEnds(r) \/ PutRestarts(r)
        PROVE  UNCHANGED <<phase, mu, current, main>>
    BY <1>5 DEF PutEnds, PutRestarts
  <1> QED
    BY <1>1, <1>2, <1>3, <1>4, <1>5
    DEF Others, Request, PutEnds, PutRestarts

-----------------------------------------------------------------------------
(* The controller                                                          *)

LEMMA ControllerStep ==
    ASSUME TypesOK, ControllerInv, RequestsInv, MainInv, [Next]_vars
    PROVE  ControllerInv'
  <1> USE NobodyAssumption DEF ControllerInv
  <1>0. TypeOK
    BY DEF TypesOK
  <1>1. ASSUME NEW w \in Callers, GoesOn(w), UNCHANGED <<mu, ctl, wants, current>>
        PROVE  ControllerInv'
    BY <1>0, <1>1 DEF GoesOn, TypeOK
  <1>2. ASSUME NEW c \in Callers, Call(c) PROVE ControllerInv'
    <2>1. UNCHANGED wants
      BY <1>2, CallMoves
    <2>2. CASE Looks(c)
      BY <1>0, <2>1, <2>2 DEF Looks, TypeOK
    <2>3. CASE Waits(c)
      BY <1>0, <2>1, <2>3 DEF Waits, TypeOK
    <2>4. CASE Replaces(c)
      <3>1. /\ ctl' = [ctl EXCEPT ![c] = "ok"] /\ mu' = Nobody
            /\ current' = IF wants[c] THEN c ELSE Nobody
            /\ phase' = IF wants[c] THEN [phase EXCEPT ![c] = "start"] ELSE phase
        BY <2>4 DEF Replaces, Launch
      <3>2. \A d \in Callers : ctl[d] = "wait" => d = c
        BY <2>4 DEF Replaces
      <3>3. \A w \in Callers : phase[w] \in {"none", "done"}
        BY <1>0, <2>4 DEF Replaces, TypeOK
      <3>4. \A d \in Callers : ctl'[d] # "wait"
        BY <1>0, <3>1, <3>2 DEF TypeOK
      <3>5. \A w \in Callers : phase'[w] \notin {"none", "done"} => current' = w
        BY <1>0, <3>1, <3>3 DEF TypeOK
      <3>6. \A d \in Callers : ctl'[d] \in {"stat", "lock", "wait"} /\ wants'[d] =>
                phase'[d] = "none"
        BY <1>0, <2>1, <3>1 DEF TypeOK
      <3> QED
        BY <3>1, <3>4, <3>5, <3>6
    <2> QED
      BY <1>2, <2>2, <2>3, <2>4, CallMoves
  <1>3. CASE MainStep
    <2>1. UNCHANGED <<phase, mu, current>>
      BY <1>3, MainMoves
    <2>2. CASE UNCHANGED <<ctl, wants>>
      BY <2>1, <2>2
    <2>3. CASE ~UNCHANGED <<ctl, wants>>
      <3>1. CallStop /\ ctl[Main] \in {"ok", "err"}
        BY <1>3, <2>3, MainMoves DEF MainInv
      <3> QED
        BY <1>0, <2>1, <3>1, MainAssumption DEF CallStop, TypeOK
    <2> QED
      BY <2>2, <2>3
  <1>4. CASE Others
    <2>1. UNCHANGED <<phase, mu, current>>
      BY <1>4, OtherMoves
    <2>2. CASE UNCHANGED <<ctl, wants>>
      BY <2>1, <2>2
    <2>3. ASSUME NEW r \in Puts, NEW some \in BOOLEAN,
                 http[r] = "active", ctl[r] = "out",
                 ctl' = [ctl EXCEPT ![r] = "stat"],
                 wants' = [wants EXCEPT ![r] = some]
          PROVE  ControllerInv'
      <3>1. r \in Callers /\ phase[r] = "none"
        BY <2>3 DEF RequestsInv, Puts
      <3> QED
        BY <1>0, <2>1, <2>3, <3>1 DEF TypeOK
    <2>4. ASSUME NEW r \in Puts, ctl[r] \in {"out", "ok", "err"},
                 ctl' = [ctl EXCEPT ![r] = "out"],
                 wants' = [wants EXCEPT ![r] = FALSE]
          PROVE  ControllerInv'
      <3>1. r \in Callers
        BY DEF Puts
      <3> QED
        BY <1>0, <2>1, <2>4, <3>1 DEF TypeOK
    <2> QED
      BY <1>4, <2>2, <2>3, <2>4, OtherMoves
  <1>5. CASE AlbumsChange \/ UNCHANGED vars
    <2>1. UNCHANGED <<phase, mu, ctl, wants, current>>
      BY <1>5 DEF AlbumsChange, Mkdir, Write, Changed, vars, watcherVars, controller
    <2> QED
      BY <2>1
  <1> QED
    BY <1>1, <1>2, <1>3, <1>4, <1>5, WatcherMoves, NextCases DEF OfWatcher

\* Requests and main's calls do not meet: main is not a request.
LEMMA OthersLeaveMain ==
    ASSUME TypesOK, Others
    PROVE  ctl'[Main] = ctl[Main]
  <1>1. ctl \in [Callers -> Calls] /\ Main \notin Puts
    BY DEF TypesOK, TypeOK, Puts
  <1> QED
    BY <1>1, OtherMoves, MainAssumption

-----------------------------------------------------------------------------
(* Requests                                                                *)

LEMMA RequestsOthers ==
    ASSUME TypesOK, RequestsInv, Others
    PROVE  RequestsInv'
  <1> USE DEF TypesOK, TypeOK, ProcessTypeOK, Beside, watcherVars, controller,
              RequestsInv, Puts, process
  <1>1. CASE Signal BY <1>1 DEF Signal
  <1>2. ASSUME NEW h \in Helpers, HelperFails(h) PROVE RequestsInv'
    BY <1>2 DEF HelperFails
  <1>3. ASSUME NEW r \in Puts \cup Scans, Arrive(r) PROVE RequestsInv'
    BY <1>3 DEF Arrive
  <1>4. ASSUME NEW r \in Puts, PutEnds(r) PROVE RequestsInv'
    BY <1>4 DEF PutEnds
  <1>5. ASSUME NEW r \in Scans \ Puts, ScanRequest(r) PROVE RequestsInv'
    BY <1>5 DEF ScanRequest
  <1>6. ASSUME NEW r \in Puts, PutRestarts(r) PROVE RequestsInv'
    BY <1>6 DEF PutRestarts
  <1>7. ASSUME NEW s \in Scans, BgScan(s) PROVE RequestsInv'
    BY <1>7 DEF BgScan
  <1> QED
    BY <1>1, <1>2, <1>3, <1>4, <1>5, <1>6, <1>7 DEF Others, Request

LEMMA RequestsStep ==
    ASSUME TypesOK, RequestsInv, [Next]_vars
    PROVE  RequestsInv'
  <1>0. TypeOK
    BY DEF TypesOK
  <1>1. ASSUME NEW w \in Callers, GoesOn(w), UNCHANGED <<ctl, process>>
        PROVE  RequestsInv'
    BY <1>0, <1>1 DEF RequestsInv, GoesOn, TypeOK, process, Puts
  <1>2. ASSUME NEW c \in Callers, Call(c), UNCHANGED process
        PROVE  RequestsInv'
    <2>1. /\ ctl[c] \in {"stat", "lock", "wait"}
          /\ \E to \in Calls \ {"out"} : ctl' = [ctl EXCEPT ![c] = to]
          /\ phase' = phase \/ phase' = [phase EXCEPT ![c] = "start"]
      BY <1>2, CallMoves DEF Looks, Waits, Replaces, Launch, Calls
    <2> QED
      BY <1>0, <1>2, <2>1 DEF RequestsInv, TypeOK, process, Puts
  <1>3. CASE MainStep
    <2>1. \A r \in Puts : ctl'[r] = ctl[r]
      BY <1>0, <1>3, MainMoves, MainAssumption DEF CallStop, TypeOK, Puts
    <2>2. UNCHANGED <<phase, http, bg>>
      BY <1>3, MainMoves
    <2>3. main' \in {"boot", "unwind"} => main \in {"boot", "unwind"} /\ listening' = listening
      BY <1>3 DEF MainStep, BootFails, SecretFails, Serve, BeginShutdown, HttpIsDown,
                  WatchersStopped, WaitScans, WaitGroup, StoppedAgain, Close
    <2> QED
      BY <2>1, <2>2, <2>3 DEF RequestsInv
  <1>4. CASE (AlbumsChange /\ UNCHANGED process) \/ UNCHANGED vars
    <2>1. UNCHANGED <<phase, ctl, main, listening, http, bg>>
      BY <1>4 DEF AlbumsChange, Mkdir, Write, Changed, vars, watcherVars,
                  controller, process
    <2> QED
      BY <2>1 DEF RequestsInv
  <1> QED
    BY <1>1, <1>2, <1>3, <1>4, RequestsOthers, WatcherMoves, NextCases DEF OfWatcher

-----------------------------------------------------------------------------
(* How far main has come                                                   *)

LEMMA MainStepInv ==
    ASSUME TypesOK, RequestsInv, MainInv, [Next]_vars
    PROVE  MainInv'
  <1>0. TypeOK /\ main \in MainSteps
    BY DEF TypesOK, ProcessTypeOK
  <1>1. ASSUME UNCHANGED <<halt, ctl, current, main>> PROVE MainInv'
    BY <1>1 DEF MainInv
  <1>2. ASSUME NEW c \in Callers, Call(c), UNCHANGED process
        PROVE  MainInv'
    <2>1. /\ ctl[c] \in {"stat", "lock", "wait"}
          /\ \E to \in Calls \ {"out"} : ctl' = [ctl EXCEPT ![c] = to]
          /\ UNCHANGED <<main, halt>>
      BY <1>2, CallMoves DEF Looks, Waits, Replaces, Launch, Calls, process
    <2>2. main \notin {"boot", "stop", "again", "unwind"} => ctl'[Main] \in {"ok", "err"}
      BY <1>0, <2>1, MainAssumption DEF MainInv, TypeOK
    <2>3. ASSUME main = "boot", ctl'[Main] # "ok" PROVE current' = Nobody
      <3>1. c = Main
        BY <2>1, <2>3 DEF RequestsInv, Puts
      <3>2. ~Replaces(c)
        BY <1>0, <2>3, <3>1, MainAssumption DEF Replaces, Launch, TypeOK
      <3>3. current = Nobody
        BY <2>1, <2>3, <3>1 DEF MainInv
      <3> QED
        BY <1>2, <3>2, <3>3, CallMoves DEF Looks, Waits
    <2> QED
      BY <2>1, <2>2, <2>3 DEF MainInv
  <1>3. CASE MainStep
    <2> USE MainAssumption DEF MainInv, TypeOK, CallStop, Beside, watcherVars,
                               controller, MainSteps
    <2>1. CASE BootFails BY <1>0, <2>1 DEF BootFails
    <2>2. CASE SecretFails BY <1>0, <2>2 DEF SecretFails
    <2>3. CASE Serve BY <1>0, <2>3 DEF Serve
    <2>4. CASE BeginShutdown BY <1>0, <2>4 DEF BeginShutdown
    <2>5. CASE HttpIsDown BY <1>0, <2>5 DEF HttpIsDown
    <2>6. CASE WatchersStopped BY <1>0, <2>6 DEF WatchersStopped
    <2>7. CASE WaitScans BY <1>0, <2>7 DEF WaitScans
    <2>8. CASE WaitGroup BY <1>0, <2>8 DEF WaitGroup
    <2>9. CASE StoppedAgain BY <1>0, <2>9 DEF StoppedAgain
    <2>10. CASE Close BY <1>0, <2>10 DEF Close
    <2> QED
      BY <1>3, <2>1, <2>2, <2>3, <2>4, <2>5, <2>6, <2>7, <2>8, <2>9, <2>10
      DEF MainStep
  <1>4. CASE Others
    <2>1. UNCHANGED <<main, current>> /\ ctl'[Main] = ctl[Main]
      BY <1>4, OtherMoves, OthersLeaveMain
    <2>2. halt => halt'
      BY <1>4 DEF Others, Signal, HelperFails, Arrive, Request, PutEnds,
                  ScanRequest, PutRestarts, BgScan, watcherVars
    <2> QED
      BY <2>1, <2>2 DEF MainInv
  <1>5. CASE (AlbumsChange /\ UNCHANGED process) \/ UNCHANGED vars
    BY <1>1, <1>5 DEF AlbumsChange, Mkdir, Write, Changed, vars, watcherVars,
                      controller, process
  <1> QED
    BY <1>1, <1>2, <1>3, <1>4, <1>5, WatcherMoves, NextCases DEF OfWatcher, process

LEMMA StoppedStep ==
    ASSUME TypesOK, ControllerInv, RequestsInv, MainInv, StoppedInv, [Next]_vars
    PROVE  StoppedInv'
  <1> DEFINE Past == \/ main \in {"scans", "join", "again", "last join", "closed"}
                     \/ main \in {"stop", "unwind"} /\ ctl[Main] = "ok"
             Still == \A w \in Callers : phase[w] \in {"none", "start", "done"}
             Idle == \A w \in Callers : phase[w] \in {"none", "done"}
             NoWalk == main \in {"join", "again", "last join", "closed"} =>
                           \A s \in Scans : bg[s] # "walking"
  <1>0. TypeOK /\ main \in MainSteps
    BY DEF TypesOK, ProcessTypeOK
  <1>1. StoppedInv <=> (Past => Still) /\ NoWalk
    BY DEF StoppedInv
  <1>2. StoppedInv' <=> (Past' => Still') /\ NoWalk'
    BY DEF StoppedInv
  <1> HIDE DEF Past, Still, NoWalk
  <1>3. ASSUME UNCHANGED <<phase, main, bg>>, ctl'[Main] = ctl[Main] PROVE StoppedInv'
    BY <1>3 DEF StoppedInv
  <1>4. ASSUME NEW w \in Callers, GoesOn(w), UNCHANGED <<ctl, process>>
        PROVE  StoppedInv'
    <2>1. NoWalk'
      BY <1>1, <1>4 DEF NoWalk, process
    <2>2. ASSUME Past' PROVE Still'
      <3>1. Past /\ Still
        BY <1>1, <1>4, <2>2 DEF Past, process
      <3>2. halt
        BY <1>0, <3>1 DEF Past, MainInv
      <3> QED
        BY <1>0, <1>4, <3>1, <3>2 DEF Still, GoesOn, TypeOK
    <2> QED
      BY <1>2, <2>1, <2>2
  <1>5. ASSUME NEW c \in Callers, Call(c), UNCHANGED process
        PROVE  StoppedInv'
    <2>1. NoWalk'
      BY <1>1, <1>5 DEF NoWalk, process
    <2>2. phase' = phase \/ phase' = [phase EXCEPT ![c] = "start"]
      BY <1>5, CallMoves DEF Looks, Waits, Replaces, Launch
    <2>3. ASSUME Replaces(c) PROVE Idle
      BY <1>0, <2>3, NobodyAssumption DEF Replaces, ControllerInv, TypeOK
    <2>4. ASSUME Past', ~Past PROVE c = Main /\ Replaces(c)
      <3>1. ctl[Main] # "ok" /\ ctl'[Main] = "ok"
        BY <1>5, <2>4 DEF Past, process
      <3> QED
        BY <1>0, <1>5, <3>1, CallMoves, MainAssumption
        DEF Looks, Waits, Replaces, Launch, TypeOK
    <2>5. ASSUME Past' PROVE Still
      BY <1>1, <2>3, <2>4, <2>5 DEF Still
    <2>6. ASSUME Past' PROVE Still'
      BY <1>0, <2>2, <2>5, <2>6 DEF Still, TypeOK
    <2> QED
      BY <1>2, <2>1, <2>6
  <1>6. CASE MainStep
    <2> USE MainAssumption, NobodyAssumption DEF TypeOK
    <2>0. UNCHANGED <<phase, bg>>
      BY <1>6, MainMoves
    <2>1. CASE BootFails
      <3>1. Idle
        BY <1>0, <2>1 DEF BootFails, MainInv, ControllerInv
      <3>2. \A s \in Scans : bg[s] = "none"
        BY <2>1 DEF BootFails, RequestsInv
      <3> QED
        BY <1>2, <2>0, <3>1, <3>2 DEF Still, NoWalk
    <2>2. CASE SecretFails \/ HttpIsDown
      <3>1. main' \in {"unwind", "stop"} /\ ctl'[Main] = "lock"
        BY <1>0, <2>2 DEF SecretFails, HttpIsDown, CallStop
      <3> QED
        BY <1>2, <3>1 DEF Past, NoWalk
    <2>3. CASE Serve \/ BeginShutdown
      <3>1. main' \in {"serving", "http"}
        BY <2>3 DEF Serve, BeginShutdown
      <3> QED
        BY <1>2, <3>1 DEF Past, NoWalk
    <2>4. CASE WatchersStopped
      BY <1>1, <1>2, <2>0, <2>4 DEF WatchersStopped, Past, Still, NoWalk
    <2>5. CASE WaitScans
      BY <1>1, <1>2, <2>0, <2>5 DEF WaitScans, Past, Still, NoWalk
    <2>6. CASE WaitGroup \/ Close
      BY <1>1, <1>2, <2>0, <2>6 DEF WaitGroup, Close, Past, Still, NoWalk
    <2>7. CASE StoppedAgain
      <3>1. main = "unwind" => \A s \in Scans : bg[s] = "none"
        BY DEF RequestsInv
      <3> QED
        BY <1>1, <1>2, <2>0, <2>7, <3>1 DEF StoppedAgain, Past, Still, NoWalk
    <2> QED
      BY <1>6, <2>1, <2>2, <2>3, <2>4, <2>5, <2>6, <2>7 DEF MainStep
  <1>7. CASE Others
    <2>1. UNCHANGED <<phase, main>> /\ ctl'[Main] = ctl[Main]
      BY <1>7, OtherMoves, OthersLeaveMain
    <2>2. Past' => Still'
      BY <1>1, <2>1 DEF Past, Still
    <2>3. NoWalk'
      <3>1. CASE main \notin {"join", "again", "last join", "closed"}
        BY <2>1, <3>1 DEF NoWalk
      <3>2. CASE main \in {"join", "again", "last join", "closed"}
        <4>1. halt /\ \A s \in Scans : bg[s] # "walking"
          BY <1>1, <3>2 DEF MainInv, NoWalk
        <4>2. ASSUME NEW s \in Scans PROVE bg'[s] # "walking"
          <5>1. ASSUME NEW r \in Scans, ScanRequest(r) \/ BgScan(r)
                PROVE  bg'[s] # "walking"
            BY <4>1, <5>1 DEF ScanRequest, BgScan, TypesOK, ProcessTypeOK
          <5>2. CASE UNCHANGED bg
            BY <4>1, <5>2
          <5>3. ASSUME NEW r \in Puts \cup Scans, Request(r)
                PROVE  UNCHANGED bg \/ \E q \in Scans : ScanRequest(q)
            BY <5>3 DEF Request, PutEnds
          <5> QED
            BY <1>7, <5>1, <5>2, <5>3
            DEF Others, Signal, HelperFails, Arrive, PutRestarts, process
        <4> QED
          BY <4>2 DEF NoWalk
      <3> QED
        BY <3>1, <3>2
    <2> QED
      BY <1>2, <2>2, <2>3
  <1>8. CASE (AlbumsChange /\ UNCHANGED process) \/ UNCHANGED vars
    <2>1. UNCHANGED <<phase, ctl, main, bg>>
      BY <1>8 DEF AlbumsChange, Mkdir, Write, Changed, vars, watcherVars,
                  controller, process
    <2> QED
      BY <1>3, <2>1
  <1> QED
    BY <1>4, <1>5, <1>6, <1>7, <1>8, WatcherMoves, NextCases DEF OfWatcher

-----------------------------------------------------------------------------
(* The theorems                                                            *)

LEMMA InitInv == ASSUME Init PROVE IInv
  <1>1. TypesOK
    BY InitTypes
  <1>2. TimersInv /\ PhaseInv
    BY DEF Init, WatcherInit, Nowhere, TimersInv, TimersOf, PhaseInv, PhaseOf
  <1>3. ControllerInv
    BY NobodyAssumption DEF Init, WatcherInit, ControllerInv
  <1>4. RequestsInv /\ MainInv /\ StoppedInv
    BY MainAssumption
    DEF Init, WatcherInit, RequestsInv, MainInv, StoppedInv, Puts
  <1> QED
    BY <1>1, <1>2, <1>3, <1>4 DEF IInv

LEMMA NextInv == ASSUME IInv, [Next]_vars PROVE IInv'
  BY TypesStep, TimersStep, PhaseStep, ControllerStep, RequestsStep,
     MainStepInv, StoppedStep DEF IInv, TypesOK

\* The inductive invariant of main's timers, watchers, calls and requests.
THEOREM Invariance == Spec => []IInv
  BY InitInv, NextInv, PTL DEF Spec

\* Every variable of Shutdown and Watcher keeps its type.
THEOREM TypeCorrect == Spec => []TypesOK
  <1>1. IInv => TypesOK
    BY DEF IInv
  <1> QED
    BY <1>1, Invariance, PTL

\* Restart and Stop hand over without an overlap: at most one watcher, with
\* the scans it has started, is alive, however many requests restart it.
THEOREM OneWatcherAlive == Spec => []OneWatcher
  <1>1. IInv => OneWatcher
    <2> SUFFICES ASSUME IInv, NEW v \in Callers, NEW w \in Callers,
                        Alive(v), Alive(w)
                 PROVE  v = w
      BY DEF OneWatcher
    <2>1. ASSUME NEW u \in Callers, Alive(u) PROVE current = u
      BY <2>1 DEF IInv, Alive, PhaseInv, PhaseOf, ControllerInv
    <2> QED
      BY <2>1
  <1> QED
    BY <1>1, Invariance, PTL

\* Start leaves nothing behind that could still scan, whatever timers were
\* armed or had fired when it was told to stop.
THEOREM NothingAfterStop == Spec => []QuietAfterStop
  <1>1. IInv => QuietAfterStop
    <2> SUFFICES ASSUME IInv, NEW w \in Callers, phase[w] = "done"
                 PROVE  /\ running[w] = {} /\ armed[w] = {}
                        /\ \A t \in fired[w] : timers[w][t[1]] # t[2]
      BY DEF QuietAfterStop
    <2>1. PhaseOf(w) /\ TimersOf(w) /\ ids \in Nat
      BY DEF IInv, PhaseInv, TimersInv, TypesOK, TypeOK
    <2>2. \A t \in fired[w] : t[1] \in Albums
      BY DEF IInv, TypesOK, TypeOK, Timer
    <2> QED
      BY <2>1, <2>2 DEF PhaseOf, TimersOf
  <1> QED
    BY <1>1, Invariance, PTL

\* A scan begins with the newest timer of its album only.
THEOREM ScansNewest == Spec => NewestTimerScans
  <1>1. ASSUME IInv, [Next]_vars, NEW w \in Callers, NEW t \in running'[w] \ running[w],
               NEW u \in armed[w] \cup fired[w], u[1] = t[1]
        PROVE  u[2] <= t[2]
    <2>1. TypeOK /\ TimersOf(w)
      <3>1. TypeOK /\ TimersInv
        BY <1>1 DEF IInv, TypesOK
      <3> QED
        BY <3>1 DEF TimersInv
    <2>2. ASSUME NEW v \in Callers, Goroutine(v) \/ Call(v) PROVE running' = running
      BY <2>2, CallMoves DEF Goroutine, Open, Enter, StopDebouncer, Returns, AddAlbum,
         HandleWrite, HandleCreate, Quit, Schedule, debouncer
    <2>3. PICK v \in Callers : Timers(v)
      BY <1>1, <2>2, StepKinds DEF OfWatcher, Elsewhere, debouncer
    <2>4. PICK s \in fired[v] : Fire(v, s)
      <3>1. ASSUME NEW s, Expire(v, s) \/ ScanEnds(v, s) PROVE running'[w] \subseteq running[w]
        BY <2>1, <3>1 DEF Expire, ScanEnds, TypeOK
      <3> QED
        BY <1>1, <2>3, <3>1 DEF Timers
    <2>5. v = w /\ s = t /\ timers[w][t[1]] = t[2]
      <3>1. ~(Stopped(v) \/ timers[v][s[1]] # s[2])
        BY <1>1, <2>4 DEF Fire
      <3>2. running' = [running EXCEPT ![v] = @ \cup {s}]
        BY <2>4, <3>1 DEF Fire
      <3>3. v = w /\ s = t
        BY <1>1, <2>1, <3>2 DEF TypeOK
      <3> QED
        BY <3>1, <3>3
    <2>6. t[2] \in 1 .. ids /\ ids \in Nat
      BY <2>1, <2>4, <2>5 DEF TimersOf, TypeOK
    <2>7. CASE u \in armed[w]
      BY <1>1, <2>1, <2>5, <2>6, <2>7 DEF TimersOf
    <2>8. CASE u \in fired[w]
      BY <1>1, <2>1, <2>5, <2>6, <2>8 DEF TimersOf
    <2> QED
      BY <2>7, <2>8
  <1>2. IInv /\ [Next]_vars =>
          [ \A w \in Callers : \A t \in running'[w] \ running[w] :
              \A u \in armed[w] \cup fired[w] : u[1] = t[1] => u[2] <= t[2]
          ]_watcherVars
    BY <1>1
  <1> QED
    BY <1>2, Invariance, PTL DEF Spec, NewestTimerScans

\* The store is closed when no watcher and no background scan is left.
THEOREM StoreIsClosedLast == Spec => []StoreClosedLast
  <1>1. IInv => StoreClosedLast
    BY DEF IInv, StoppedInv, PhaseInv, PhaseOf, StoreClosedLast
  <1> QED
    BY <1>1, Invariance, PTL
=============================================================================

------------------------------ MODULE Settings ------------------------------
(***************************************************************************)
(* The settings of a running process: the row in the store, the copy in    *)
(* memory, the requests that change both, the goroutine that is told of a  *)
(* change, sign-in through OIDC, and the process's start and end.          *)
(*                                                                         *)
(*   internal/adapters/http/handlers.go handlePutSettings(Auth)            *)
(*   cmd/cuearr/main.go                 run, ApplySettings,                *)
(*                                      waitForImportPoll                  *)
(*   internal/app/runtime.go            RuntimeConfig                      *)
(*   internal/adapters/auth/            bootstrap.go, oidc.go              *)
(*                                                                         *)
(* A request holds settingsMu from its first statement to its answer.      *)
(* Its steps are the calls that touch the store or the memory; readers of  *)
(* either, and a crash, come in between.  A statement that fails has no    *)
(* effect.                                                                 *)
(***************************************************************************)
EXTENDS SettingsData, Naturals, FiniteSets

CONSTANTS
    Puts, Auths,     \* requests PUT /settings and PUT /settings/auth
    Browsers,        \* who signs in through OIDC
    Nobody,
    MaxCrashes       \* bound on ends of the process

ASSUME NobodyAssumption     == Nobody \notin Puts \cup Auths \cup Browsers
ASSUME KindsAssumption      == Puts \cap Auths = {}
ASSUME MaxCrashesAssumption == MaxCrashes \in Nat

Requests == Puts \cup Auths

VARIABLES
    life, crashes,   \* where the process is; how often it ended
    store,           \* the settings row
    memory,          \* RuntimeConfig
    channel, closed, \* its channel, and those closed
    mu,              \* settingsMu: who holds it
    at, old, new,    \* per request: its step, what it read, what it writes
    apart,           \* ghost: a rollback failed, memory is older than the row
    poller,          \* the import poller
    oidcMu, cache,   \* OIDCHandler: its mutex, the issuer it has a provider of
    signIn           \* per browser: a sign-in in progress

runtime == <<memory, channel, closed>>
requests == <<mu, at, old, new>>
oidc == <<oidcMu, cache, signIn>>
process == <<life, crashes>>
vars == <<process, store, runtime, requests, apart, poller, oidc>>

Answers == {"ok", "err", "stuck", "lost"}
Steps == {"none", "read", "stored", "failed"} \cup Answers
Issuer == Issuers \cup {None}
SignIn == [at : {"idle", "provider", "discover", "have"}, leg : {"login", "callback"},
           cfg : Issuer, provider : Issuer]
Poller == [at : {"ask", "wait"}, poll : BOOLEAN, channel : Nat]

TypeOK ==
    /\ life \in {"down", "boot", "load", "begin", "serving"} /\ crashes \in Nat
    /\ store \in Settings /\ memory \in Settings
    /\ channel \in Nat /\ closed \subseteq Nat
    /\ mu \in Requests \cup {Nobody}
    /\ at \in [Requests -> Steps]
    /\ old \in [Requests -> Settings] /\ new \in [Requests -> Settings]
    /\ apart \in BOOLEAN
    /\ poller \in Poller
    /\ oidcMu \in Browsers \cup {Nobody} /\ cache \in Issuer
    /\ signIn \in [Browsers -> SignIn]

Asking == [at |-> "ask", poll |-> FALSE, channel |-> 0]
Outside == [at |-> "idle", leg |-> "login", cfg |-> None, provider |-> None]

Init ==
    /\ life = "down" /\ crashes = 0
    /\ store = Blank /\ memory = Blank
    /\ channel = 0 /\ closed = {}
    /\ mu = Nobody /\ at = [r \in Requests |-> "none"]
    /\ old = [r \in Requests |-> Blank] /\ new = [r \in Requests |-> Blank]
    /\ apart = FALSE
    /\ poller = Asking
    /\ oidcMu = Nobody /\ cache = None
    /\ signIn = [b \in Browsers |-> Outside]

----------------------------------------------------------------------------
(* A request takes the mutex, and answers: the mutex is free again.        *)

Hold(r, s) ==
    /\ mu' = r
    /\ at' = [at EXCEPT ![r] = "read"]
    /\ old' = [old EXCEPT ![r] = store]
    /\ new' = [new EXCEPT ![r] = s]

Answer(r, answer) ==
    /\ mu' = Nobody
    /\ at' = [at EXCEPT ![r] = answer]
    /\ old' = [old EXCEPT ![r] = Blank]
    /\ new' = [new EXCEPT ![r] = Blank]

----------------------------------------------------------------------------
(* Start and end of the process                                            *)

Start ==
    /\ life = "down" /\ life' = "boot"
    /\ UNCHANGED <<crashes, store, runtime, requests, apart, poller, oidc>>

\* A statement failed, the engine is unknown or a directory is missing: the
\* process ends.
StartFails ==
    /\ life \in {"boot", "load", "begin"} /\ life' = "down"
    /\ UNCHANGED <<crashes, store, runtime, requests, apart, poller, oidc>>

Bootstrap ==
    /\ life = "boot" /\ life' = "load"
    /\ store' = Bootstrapped(store)
    /\ UNCHANGED <<crashes, runtime, requests, apart, poller, oidc>>

LoadRuntimeSettings ==
    /\ life = "load" /\ life' = "begin"
    /\ store' = Seeded(store) /\ memory' = Seeded(store)
    /\ channel' = 0 /\ closed' = {}
    /\ apart' = FALSE /\ poller' = Asking
    /\ UNCHANGED <<crashes, requests, oidc>>

Serve ==
    /\ life = "begin" /\ HasSplitter(memory) /\ life' = "serving"
    /\ UNCHANGED <<crashes, store, runtime, requests, apart, poller, oidc>>

\* What browsers keep of a sign-in outlives the process.
Forgotten(s) ==
    [s EXCEPT !.at = "idle", !.cfg = None, !.provider = None]

End ==
    /\ life # "down" /\ crashes < MaxCrashes
    /\ life' = "down" /\ crashes' = crashes + 1
    /\ IF mu = Nobody THEN UNCHANGED requests ELSE Answer(mu, "lost")
    /\ oidcMu' = Nobody /\ cache' = None
    /\ signIn' = [b \in Browsers |-> Forgotten(signIn[b])]
    /\ UNCHANGED <<store, runtime, apart, poller>>

----------------------------------------------------------------------------
(* Requests                                                                *)

Aside == <<process, poller, oidc>>

\* Refused: the method or the body is wrong, or Get fails.
Refuse(r) ==
    /\ life = "serving" /\ mu = Nobody /\ at[r] = "none"
    /\ at' = [at EXCEPT ![r] = "err"]
    /\ UNCHANGED <<Aside, store, runtime, mu, old, new, apart>>

PutBegin(r, b) ==
    /\ life = "serving" /\ mu = Nobody /\ at[r] = "none"
    /\ b.conf.engine # "native"
    /\ Hold(r, Merged(store, b))
    /\ UNCHANGED <<Aside, store, runtime, apart>>

\* A bug: PUT /settings/auth does not take the mutex.
AuthBeginUnlocked(r, p) ==
    /\ life = "serving" /\ at[r] = "none"
    /\ store.auth.password = None
    /\ Hold(r, WithPassword(store, p))
    /\ UNCHANGED <<Aside, store, runtime, apart>>

AuthBegin(r, p) ==
    /\ life = "serving" /\ mu = Nobody /\ at[r] = "none"
    /\ store.auth.password = None
    /\ Hold(r, WithPassword(store, p))
    /\ UNCHANGED <<Aside, store, runtime, apart>>

\* settings.Put
Store(r) ==
    /\ at[r] = "read"
    /\ \/ /\ Answer(r, "err")
          /\ UNCHANGED store
       \/ /\ store' = new[r]
          /\ at' = [at EXCEPT ![r] = "stored"]
          /\ UNCHANGED <<mu, old, new>>
    /\ UNCHANGED <<Aside, runtime, apart>>

\* PUT /settings/auth changes the row only: memory is not asked for secrets.
AuthEnds(r) ==
    /\ at[r] = "stored"
    /\ Answer(r, "ok")
    /\ UNCHANGED <<Aside, store, runtime, apart>>

\* A bug: the poller waits on the channel it has been given before.
ApplySilently(r) ==
    /\ at[r] = "stored" /\ HasSplitter(new[r])
    /\ memory' = new[r]
    /\ apart' = FALSE
    /\ Answer(r, "ok")
    /\ UNCHANGED <<Aside, store, channel, closed>>

\* ApplySettings: the engine is known and the watcher could be restarted.
\* RuntimeConfig.Apply closes the channel and makes a new one.
Apply(r) ==
    /\ at[r] = "stored" /\ HasSplitter(new[r])
    /\ memory' = new[r]
    /\ closed' = closed \cup {channel} /\ channel' = channel + 1
    /\ apart' = FALSE
    /\ Answer(r, "ok")
    /\ UNCHANGED <<Aside, store>>

MustRestart(s) == s.conf.dirs # memory.conf.dirs

\* A directory of the new settings may be missing.
ApplyFails(r) ==
    /\ at[r] = "stored"
    /\ ~HasSplitter(new[r]) \/ (MustRestart(new[r]) /\ new[r].conf.dirs # "none")
    /\ at' = [at EXCEPT ![r] = "failed"]
    /\ UNCHANGED <<Aside, store, runtime, mu, old, new, apart>>

\* A bug: what could not be applied stays in the store.
RollbackForgotten(r) ==
    /\ at[r] = "failed"
    /\ Answer(r, "err")
    /\ UNCHANGED <<Aside, runtime, store, apart>>

\* The row is written back, with a context of its own; its failure is logged.
Rollback(r) ==
    /\ at[r] = "failed"
    /\ \/ store' = old[r] /\ Answer(r, "err") /\ UNCHANGED apart
       \/ UNCHANGED store /\ Answer(r, "stuck") /\ apart' = TRUE
    /\ UNCHANGED <<Aside, runtime>>

----------------------------------------------------------------------------
(* The import poller: waitForImportPoll                                    *)

BesidePoller == <<process, store, runtime, requests, apart, oidc>>

\* SnapshotWithChanges reads settings and channel under one lock.
Snapshot ==
    /\ life \in {"begin", "serving"} /\ poller.at = "ask"
    /\ poller' = [at |-> "wait", poll |-> memory.conf.poll, channel |-> channel]
    /\ UNCHANGED BesidePoller

\* The channel was closed, or the interval is over and a poll has been made.
Wakes ==
    /\ life \in {"begin", "serving"} /\ poller.at = "wait"
    /\ poller.channel \in closed \/ poller.poll
    /\ poller' = [poller EXCEPT !.at = "ask"]
    /\ UNCHANGED BesidePoller

----------------------------------------------------------------------------
(* Sign-in through OIDC: HandleLogin sends the browser to the provider,    *)
(* HandleCallback takes it back.  Both read the settings first, and both   *)
(* get the provider from a cache that is filled under a mutex.             *)

BesideOIDC == <<process, store, runtime, requests, apart, poller>>

SignInMoves(b, f) ==
    /\ signIn' = [signIn EXCEPT ![b] = f]
    /\ UNCHANGED BesideOIDC

ReadConfig(b) ==
    /\ life = "serving" /\ signIn[b].at = "idle" /\ store.auth.issuer # None
    /\ SignInMoves(b, [signIn[b] EXCEPT !.at = "provider", !.cfg = store.auth.issuer])
    /\ UNCHANGED <<oidcMu, cache>>

\* A bug: the cached provider is used whoever issued it.
CachedAny(b) ==
    /\ signIn[b].at = "provider" /\ oidcMu = Nobody /\ cache # None
    /\ SignInMoves(b, [signIn[b] EXCEPT !.at = "have", !.provider = cache])
    /\ UNCHANGED <<oidcMu, cache>>

Cached(b) ==
    /\ signIn[b].at = "provider" /\ oidcMu = Nobody /\ cache = signIn[b].cfg
    /\ SignInMoves(b, [signIn[b] EXCEPT !.at = "have", !.provider = cache])
    /\ UNCHANGED <<oidcMu, cache>>

\* The mutex is held while the issuer's document is fetched.
Discover(b) ==
    /\ signIn[b].at = "provider" /\ oidcMu = Nobody /\ cache # signIn[b].cfg
    /\ SignInMoves(b, [signIn[b] EXCEPT !.at = "discover"])
    /\ oidcMu' = b /\ UNCHANGED cache

Discovered(b) ==
    /\ signIn[b].at = "discover"
    /\ oidcMu' = Nobody
    /\ \/ /\ cache' = signIn[b].cfg
          /\ SignInMoves(b, [signIn[b] EXCEPT !.at = "have", !.provider = signIn[b].cfg])
       \/ /\ UNCHANGED cache
          /\ SignInMoves(b, Forgotten(signIn[b]))

\* The browser is sent to the provider, and may come back.
SendAway(b) ==
    /\ signIn[b].at = "have" /\ signIn[b].leg = "login"
    /\ SignInMoves(b, [Outside EXCEPT !.leg = "callback"])
    /\ UNCHANGED <<oidcMu, cache>>

\* A code can be exchanged at the provider that issued it only; then, or
\* when it is refused, the sign-in is over.
Exchange(b) ==
    /\ signIn[b].at = "have" /\ signIn[b].leg = "callback"
    /\ SignInMoves(b, Outside)
    /\ UNCHANGED <<oidcMu, cache>>

----------------------------------------------------------------------------
Life == Start \/ StartFails \/ Bootstrap \/ LoadRuntimeSettings \/ Serve \/ End

Request(r) ==
    \/ Refuse(r) \/ Store(r)
    \/ r \in Puts /\ (Apply(r) \/ ApplyFails(r) \/ Rollback(r))
    \/ r \in Puts /\ \E b \in Body : PutBegin(r, b)
    \/ r \in Auths /\ (AuthEnds(r) \/ \E p \in Passwords : AuthBegin(r, p))

Browser(b) ==
    \/ ReadConfig(b) \/ Cached(b) \/ Discover(b) \/ Discovered(b)
    \/ SendAway(b) \/ Exchange(b)

Next ==
    \/ Life
    \/ \E r \in Requests : Request(r)
    \/ Snapshot \/ Wakes
    \/ \E b \in Browsers : Browser(b)

Spec == Init /\ [][Next]_vars

----------------------------------------------------------------------------
Writing(r) == at[r] \in {"stored", "failed"}

\* The settings that count: those in the row, but while a change is stored
\* and not yet applied, those it replaces.
Committed == IF mu # Nobody /\ Writing(mu) THEN old[mu] ELSE store

Reply(r) == IF at[r] \in Answers THEN at[r] ELSE "none"

Register == INSTANCE SettingsRegister WITH
    value <- Committed, answer <- [r \in Requests |-> Reply(r)]

\* Requests change the settings one after the other and as a whole, across
\* restarts: none is lost or half done, whatever fails.
RegisterSpec == Register!Spec

\* A process that serves works with the settings in the row, unless one has
\* failed to be taken back.
MemoryMatchesStore ==
    life = "serving" /\ ~apart => memory.conf = Committed.conf /\ memory.key = Committed.key

\* Once a password is set the settings never go without one again.
PasswordStays ==
    [][Committed.auth.password # None => Committed'.auth.password # None]_vars

\* A poller that waits with settings that are no longer those in memory is
\* about to be woken.
PollerIsTold ==
    life = "serving" /\ poller.at = "wait" /\ poller.poll # memory.conf.poll =>
        poller.channel \in closed

\* A sign-in goes on with a provider of the issuer it has read from the
\* settings, not of one that was configured before.
ProviderIsConfigured ==
    \A b \in Browsers : signIn[b].at = "have" => signIn[b].provider = signIn[b].cfg

----------------------------------------------------------------------------
\* Who holds settingsMu is at work, and nobody else is; the row is the one it
\* has read until it has written its own.
RequestsInv ==
    /\ \A r \in Requests : at[r] \in {"read", "stored", "failed"} <=> mu = r
    /\ mu # Nobody => life = "serving"
    /\ \A r \in Requests :
        /\ at[r] = "read" => store = old[r]
        /\ Writing(r) => store = new[r] /\ (at[r] = "failed" => r \in Puts)
        /\ at[r] \in {"read", "stored", "failed"} =>
              IF r \in Puts THEN \E b \in Body : new[r] = Merged(old[r], b)
              ELSE old[r].auth.password = None /\
                   \E p \in Passwords : new[r] = WithPassword(old[r], p)

RuntimeInv ==
    /\ closed = 0 .. channel - 1
    /\ poller.at = "wait" => /\ poller.channel <= channel
                             /\ poller.channel = channel => poller.poll = memory.conf.poll
    /\ life = "begin" => ~apart /\ memory = store

OIDCInv ==
    \A b \in Browsers : signIn[b].at = "discover" <=> oidcMu = b

IInv == /\ TypeOK /\ RequestsInv /\ RuntimeInv /\ OIDCInv
        /\ MemoryMatchesStore /\ PollerIsTold /\ ProviderIsConfigured
=============================================================================

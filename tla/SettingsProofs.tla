--------------------------- MODULE SettingsProofs ---------------------------
(***************************************************************************)
(* Proofs about the settings of a running process.                         *)
(*                                                                         *)
(* IInv is inductive: who holds settingsMu is the only request at work and *)
(* knows what the row contains (RequestsInv); the poller waits either on   *)
(* the present channel with the present setting or on a closed channel     *)
(* (RuntimeInv).  With it, memory agrees with the row, the poller is told, *)
(* a password stays, and the whole is a register that requests change one  *)
(* after the other (SettingsRegister).                                     *)
(***************************************************************************)
EXTENDS Settings, TLAPS

----------------------------------------------------------------------------
(* Values                                                                  *)

LEMMA BlankIsSettings == Blank \in Settings
  BY DEF Blank, Settings, Conf, Auth, NoConf

LEMMA MergedIsSettings ==
  ASSUME NEW s \in Settings, NEW b \in Body
  PROVE  Merged(s, b) \in Settings
<1>1. b \in [conf : Conf, key : Keys \cup {None}, auth : Auth \cup {None}]
  BY BodyAssumption
<1>2. s.auth \in Auth /\ s.key \in Keys \cup {None}
  BY DEF Settings
<1>3. MergedAuth(s.auth, b.auth) \in Auth
  BY <1>1, <1>2 DEF MergedAuth, OrKept, Auth
<1>4. OrKept(b.key, s.key) \in Keys \cup {None}
  BY <1>1, <1>2 DEF OrKept
<1> QED
  BY <1>1, <1>3, <1>4 DEF Merged, Settings

LEMMA WithPasswordIsSettings ==
  ASSUME NEW s \in Settings, NEW p \in Passwords
  PROVE  /\ WithPassword(s, p) \in Settings
         /\ WithPassword(s, p).conf = s.conf
         /\ WithPassword(s, p).key = s.key
         /\ WithPassword(s, p).auth.password = p
<1>1. s = [conf |-> s.conf, key |-> s.key, auth |-> s.auth]
  BY DEF Settings
<1>2. s.auth = [password |-> s.auth.password, issuer |-> s.auth.issuer]
  BY DEF Settings, Auth
<1>3. WithPassword(s, p) = [conf |-> s.conf, key |-> s.key,
                            auth |-> [password |-> p, issuer |-> s.auth.issuer]]
  BY <1>1, <1>2 DEF WithPassword
<1> QED
  BY <1>3 DEF Settings, Auth

LEMMA BootstrappedIsSettings ==
  ASSUME NEW s \in Settings
  PROVE  Bootstrapped(s) \in Settings
<1>1. s.auth \in Auth
  BY DEF Settings
<1>2. [password |-> OrKept(s.auth.password, EnvPassword),
       issuer |-> OrKept(s.auth.issuer, EnvIssuer)] \in Auth
  BY <1>1, EnvAssumption DEF OrKept, Auth
<1> QED
  BY <1>2 DEF Bootstrapped, Settings

LEMMA SeededIsSettings ==
  ASSUME NEW s \in Settings
  PROVE  Seeded(s) \in Settings
  BY DefaultsAssumption DEF Seeded, Settings

\* A password that is set stays set in whatever the code makes of settings.
LEMMA PasswordKept ==
  ASSUME NEW s \in Settings, s.auth.password # None
  PROVE  /\ \A b \in Body : Merged(s, b).auth.password # None
         /\ Bootstrapped(s).auth.password # None
         /\ Seeded(s).auth.password # None
<1>1. ASSUME NEW b \in Body PROVE Merged(s, b).auth.password # None
  BY DEF Merged, MergedAuth, OrKept
<1>2. Bootstrapped(s).auth.password # None
  BY DEF Bootstrapped, OrKept, Settings
<1>3. Seeded(s).auth.password # None
  BY DEF Seeded
<1> QED
  BY <1>1, <1>2, <1>3

----------------------------------------------------------------------------
(* Types                                                                   *)

ProcessTypes == /\ life \in {"down", "boot", "load", "begin", "serving"}
                /\ crashes \in Nat
ValueTypes == store \in Settings /\ memory \in Settings /\ apart \in BOOLEAN
RequestTypes == /\ mu \in Requests \cup {Nobody}
                /\ at \in [Requests -> Steps]
                /\ old \in [Requests -> Settings] /\ new \in [Requests -> Settings]
PollerTypes == channel \in Nat /\ closed \subseteq Nat /\ poller \in Poller
OIDCTypes == /\ oidcMu \in Browsers \cup {Nobody} /\ cache \in Issuer
             /\ signIn \in [Browsers -> SignIn]

LEMMA TypeParts ==
  TypeOK <=> /\ ProcessTypes /\ ValueTypes /\ RequestTypes
             /\ PollerTypes /\ OIDCTypes
  BY DEF TypeOK, ProcessTypes, ValueTypes, RequestTypes, PollerTypes, OIDCTypes

\* An answer leaves the requests typed.
LEMMA AnswerTypes ==
  ASSUME RequestTypes, NEW r \in Requests, NEW answer \in Answers, Answer(r, answer)
  PROVE  RequestTypes'
<1>1. at' \in [Requests -> Steps]
  BY DEF RequestTypes, Answer, Steps
<1>2. old' \in [Requests -> Settings] /\ new' \in [Requests -> Settings]
  BY BlankIsSettings DEF RequestTypes, Answer
<1> QED
  BY <1>1, <1>2 DEF RequestTypes, Answer

LEMMA HoldTypes ==
  ASSUME RequestTypes, store \in Settings, NEW r \in Requests,
         NEW s \in Settings, Hold(r, s)
  PROVE  RequestTypes'
<1>1. at' \in [Requests -> Steps]
  BY DEF RequestTypes, Hold, Steps
<1>2. old' \in [Requests -> Settings] /\ new' \in [Requests -> Settings]
  BY DEF RequestTypes, Hold
<1> QED
  BY <1>1, <1>2 DEF RequestTypes, Hold

\* A step to the next line of the same request.
LEMMA MoveTypes ==
  ASSUME RequestTypes, NEW r \in Requests, NEW s \in Steps,
         at' = [at EXCEPT ![r] = s], UNCHANGED <<mu, old, new>>
  PROVE  RequestTypes'
  BY DEF RequestTypes

LEMMA InitTypes == Init => TypeOK
<1> SUFFICES ASSUME Init PROVE TypeOK
  OBVIOUS
<1>1. ProcessTypes BY DEF Init, ProcessTypes
<1>2. ValueTypes BY BlankIsSettings DEF Init, ValueTypes
<1>3. RequestTypes
  BY BlankIsSettings DEF Init, RequestTypes, Steps
<1>4. PollerTypes BY DEF Init, PollerTypes, Asking, Poller
<1>5. OIDCTypes
  <2>1. Outside \in SignIn BY DEF Outside, SignIn, Issuer
  <2> QED BY <2>1 DEF Init, OIDCTypes, Issuer
<1> QED
  BY <1>1, <1>2, <1>3, <1>4, <1>5, TypeParts

LEMMA ProcessTypesStep ==
  ASSUME ProcessTypes, [Next]_vars PROVE ProcessTypes'
<1> USE DEF ProcessTypes, process
<1>1. CASE Life
  BY <1>1, MaxCrashesAssumption
  DEF Life, Start, StartFails, Bootstrap, LoadRuntimeSettings, Serve, End
<1>2. ASSUME NEW r \in Requests, Request(r) PROVE ProcessTypes'
  BY <1>2 DEF Request, Refuse, Store, AuthEnds, Apply, ApplyFails, Rollback, PutBegin,
     AuthBegin, Aside
<1>3. CASE Snapshot \/ Wakes BY <1>3 DEF Snapshot, Wakes, BesidePoller
<1>4. ASSUME NEW b \in Browsers, Browser(b) PROVE ProcessTypes'
  BY <1>4 DEF Browser, ReadConfig, Cached, Discover, Discovered, SendAway, Exchange,
     SignInMoves, BesideOIDC
<1>5. CASE UNCHANGED vars BY <1>5 DEF vars
<1> QED
  BY <1>1, <1>2, <1>3, <1>4, <1>5 DEF Next

LEMMA RequestTypesStep ==
  ASSUME TypeOK, [Next]_vars PROVE RequestTypes'
<1> RequestTypes /\ store \in Settings BY TypeParts DEF ValueTypes
<1>1. CASE UNCHANGED requests BY <1>1 DEF RequestTypes, requests
<1>2. CASE Life
  <2>1. CASE End
    BY <2>1, <1>1, AnswerTypes DEF End, Answers, RequestTypes
  <2> QED
    BY <2>1, <1>1, <1>2 DEF Life, Start, StartFails, Bootstrap, LoadRuntimeSettings, Serve
<1>3. ASSUME NEW r \in Requests, Request(r) PROVE RequestTypes'
  <2>1. CASE Refuse(r) BY <2>1, <1>3, MoveTypes DEF Refuse, Steps, Answers
  <2>2. CASE Store(r)
    <3>1. CASE Answer(r, "err") BY <3>1, <1>3, AnswerTypes DEF Answers
    <3>2. CASE at' = [at EXCEPT ![r] = "stored"] /\ UNCHANGED <<mu, old, new>>
      BY <3>2, <1>3, MoveTypes DEF Steps
    <3> QED BY <2>2, <3>1, <3>2 DEF Store
  <2>3. CASE AuthEnds(r) BY <2>3, <1>3, AnswerTypes DEF AuthEnds, Answers
  <2>4. CASE Apply(r) BY <2>4, <1>3, AnswerTypes DEF Apply, Answers
  <2>5. CASE ApplyFails(r) BY <2>5, <1>3, MoveTypes DEF ApplyFails, Steps
  <2>6. CASE Rollback(r) BY <2>6, <1>3, AnswerTypes DEF Rollback, Answers
  <2>7. ASSUME NEW b \in Body, PutBegin(r, b) PROVE RequestTypes'
    <3>1. Hold(r, Merged(store, b)) BY <2>7 DEF PutBegin
    <3> QED BY <3>1, <1>3, HoldTypes, MergedIsSettings
  <2>8. ASSUME NEW p \in Passwords, AuthBegin(r, p) PROVE RequestTypes'
    <3>1. Hold(r, WithPassword(store, p)) BY <2>8 DEF AuthBegin
    <3> QED BY <3>1, <1>3, HoldTypes, WithPasswordIsSettings
  <2> QED
    BY <1>3, <2>1, <2>2, <2>3, <2>4, <2>5, <2>6, <2>7, <2>8 DEF Request
<1>4. CASE Snapshot \/ Wakes BY <1>4, <1>1 DEF Snapshot, Wakes, BesidePoller
<1>5. ASSUME NEW b \in Browsers, Browser(b) PROVE RequestTypes'
  BY <1>5, <1>1 DEF Browser, ReadConfig, Cached, Discover, Discovered, SendAway,
     Exchange, SignInMoves, BesideOIDC
<1>6. CASE UNCHANGED vars BY <1>6, <1>1 DEF vars
<1> QED
  BY <1>2, <1>3, <1>4, <1>5, <1>6 DEF Next

LEMMA ValueTypesStep ==
  ASSUME TypeOK, [Next]_vars PROVE ValueTypes'
<1> ValueTypes /\ RequestTypes BY TypeParts
<1>1. CASE UNCHANGED <<store, memory, apart>> BY <1>1 DEF ValueTypes
<1>2. CASE Life
  <2>1. CASE Bootstrap
    BY <2>1, BootstrappedIsSettings DEF Bootstrap, runtime, ValueTypes
  <2>2. CASE LoadRuntimeSettings
    BY <2>2, SeededIsSettings DEF LoadRuntimeSettings, ValueTypes
  <2> QED
    BY <2>1, <2>2, <1>1, <1>2 DEF Life, Start, StartFails, Serve, End, runtime
<1>3. ASSUME NEW r \in Requests, Request(r) PROVE ValueTypes'
  <2>1. old[r] \in Settings /\ new[r] \in Settings BY <1>3 DEF RequestTypes
  <2> QED
    BY <2>1, <1>3 DEF Request, Refuse, Store, AuthEnds, Apply, ApplyFails, Rollback,
       PutBegin, AuthBegin, runtime, ValueTypes
<1>4. CASE Snapshot \/ Wakes BY <1>4, <1>1 DEF Snapshot, Wakes, BesidePoller, runtime
<1>5. ASSUME NEW b \in Browsers, Browser(b) PROVE ValueTypes'
  BY <1>5, <1>1 DEF Browser, ReadConfig, Cached, Discover, Discovered, SendAway,
     Exchange, SignInMoves, BesideOIDC, runtime
<1>6. CASE UNCHANGED vars BY <1>6, <1>1 DEF vars, runtime
<1> QED
  BY <1>2, <1>3, <1>4, <1>5, <1>6 DEF Next

LEMMA PollerTypesStep ==
  ASSUME TypeOK, [Next]_vars PROVE PollerTypes'
<1> PollerTypes /\ memory.conf.poll \in BOOLEAN
  BY TypeParts DEF ValueTypes, Settings, Conf
<1>1. CASE UNCHANGED <<channel, closed, poller>> BY <1>1 DEF PollerTypes
<1>2. CASE Life
  <2>1. CASE LoadRuntimeSettings
    BY <2>1 DEF LoadRuntimeSettings, PollerTypes, Asking, Poller
  <2> QED
    BY <2>1, <1>1, <1>2 DEF Life, Start, StartFails, Bootstrap, Serve, End, runtime
<1>3. ASSUME NEW r \in Requests, Request(r) PROVE PollerTypes'
  <2>1. CASE Apply(r) BY <2>1 DEF Apply, Aside, PollerTypes
  <2> QED
    BY <2>1, <1>1, <1>3 DEF Request, Refuse, Store, AuthEnds, ApplyFails, Rollback,
       PutBegin, AuthBegin, runtime, Aside
<1>4. CASE Snapshot
  BY <1>4 DEF Snapshot, BesidePoller, runtime, PollerTypes, Poller
<1>5. CASE Wakes
  BY <1>5 DEF Wakes, BesidePoller, runtime, PollerTypes, Poller
<1>6. ASSUME NEW b \in Browsers, Browser(b) PROVE PollerTypes'
  BY <1>6, <1>1 DEF Browser, ReadConfig, Cached, Discover, Discovered, SendAway,
     Exchange, SignInMoves, BesideOIDC, runtime
<1>7. CASE UNCHANGED vars BY <1>7, <1>1 DEF vars, runtime
<1> QED
  BY <1>2, <1>3, <1>4, <1>5, <1>6, <1>7 DEF Next

----------------------------------------------------------------------------
(* Sign-in                                                                 *)

Providers == OIDCTypes /\ OIDCInv /\ ProviderIsConfigured

LEMMA ForgottenTypes ==
  ASSUME NEW s \in SignIn
  PROVE  Forgotten(s) \in SignIn /\ Forgotten(s).at = "idle"
  BY DEF Forgotten, SignIn, Issuer

\* What a step of one browser must give for the others to be undisturbed.
LEMMA SignInKept ==
  ASSUME Providers, NEW b \in Browsers, NEW f \in SignIn,
         signIn' = [signIn EXCEPT ![b] = f],
         f.at = "have" => f.provider = f.cfg,
         oidcMu' \in Browsers \cup {Nobody}, cache' \in Issuer,
         f.at = "discover" <=> oidcMu' = b,
         \A c \in Browsers \ {b} : oidcMu = c <=> oidcMu' = c
  PROVE  Providers'
<1>1. signIn' \in [Browsers -> SignIn]
  BY DEF Providers, OIDCTypes
<1>2. \A c \in Browsers : signIn'[c] = IF c = b THEN f ELSE signIn[c]
  BY DEF Providers, OIDCTypes
<1>3. OIDCInv'
  BY <1>2 DEF Providers, OIDCInv
<1>4. ProviderIsConfigured'
  BY <1>2 DEF Providers, ProviderIsConfigured
<1> QED
  BY <1>1, <1>3, <1>4 DEF Providers, OIDCTypes

LEMMA ProvidersStep ==
  ASSUME TypeOK, Providers, [Next]_vars PROVE Providers'
<1>1. CASE UNCHANGED oidc
  BY <1>1 DEF oidc, Providers, OIDCTypes, OIDCInv, ProviderIsConfigured
<1>2. CASE Life
  <2>1. CASE End
    <3>1. \A b \in Browsers : signIn'[b] \in SignIn /\ signIn'[b].at = "idle"
      BY <2>1, ForgottenTypes DEF End, Providers, OIDCTypes
    <3>2. signIn' \in [Browsers -> SignIn]
      BY <2>1, <3>1 DEF End
    <3>3. oidcMu' = Nobody /\ cache' = None
      BY <2>1 DEF End
    <3>4. OIDCInv' /\ ProviderIsConfigured'
      BY <3>1, <3>3, NobodyAssumption DEF OIDCInv, ProviderIsConfigured
    <3> QED
      BY <3>2, <3>3, <3>4 DEF Providers, OIDCTypes, Issuer
  <2> QED
    BY <2>1, <1>1, <1>2
    DEF Life, Start, StartFails, Bootstrap, LoadRuntimeSettings, Serve
<1>3. ASSUME NEW r \in Requests, Request(r) PROVE Providers'
  BY <1>3, <1>1 DEF Request, Refuse, Store, AuthEnds, Apply, ApplyFails, Rollback,
     PutBegin, AuthBegin, Aside
<1>4. CASE Snapshot \/ Wakes
  BY <1>4, <1>1 DEF Snapshot, Wakes, BesidePoller
<1>5. ASSUME NEW b \in Browsers, Browser(b) PROVE Providers'
  <2> DEFINE f == signIn'[b]
  <2>0. /\ signIn \in [Browsers -> SignIn] /\ signIn[b] \in SignIn
        /\ cache \in Issuer /\ oidcMu \in Browsers \cup {Nobody}
        /\ store.auth.issuer \in Issuer
        /\ signIn[b].at = "discover" <=> oidcMu = b
        /\ b # Nobody
    BY <1>5, NobodyAssumption
    DEF Providers, OIDCTypes, OIDCInv, TypeOK, Settings, Auth, Issuer
  <2>1. CASE ReadConfig(b)
    <3> DEFINE g == [signIn[b] EXCEPT !.at = "provider", !.cfg = store.auth.issuer]
    <3>1. g \in SignIn /\ g.at = "provider"
      BY <2>0 DEF SignIn
    <3>2. /\ signIn' = [signIn EXCEPT ![b] = g] /\ UNCHANGED <<oidcMu, cache>>
          /\ oidcMu # b
      BY <2>0, <2>1 DEF ReadConfig, SignInMoves
    <3> HIDE DEF g
    <3> QED BY <1>5, <2>0, <3>1, <3>2, SignInKept
  <2>2. CASE Cached(b)
    <3> DEFINE g == [signIn[b] EXCEPT !.at = "have", !.provider = cache]
    <3>1. g \in SignIn /\ g.at = "have" /\ g.provider = cache /\ g.cfg = signIn[b].cfg
      BY <2>0 DEF SignIn
    <3>2. /\ signIn' = [signIn EXCEPT ![b] = g] /\ UNCHANGED <<oidcMu, cache>>
          /\ oidcMu # b /\ cache = signIn[b].cfg
      BY <2>0, <2>2 DEF Cached, SignInMoves
    <3> HIDE DEF g
    <3> QED BY <1>5, <2>0, <3>1, <3>2, SignInKept
  <2>3. CASE Discover(b)
    <3> DEFINE g == [signIn[b] EXCEPT !.at = "discover"]
    <3>1. g \in SignIn /\ g.at = "discover"
      BY <2>0 DEF SignIn
    <3>2. /\ signIn' = [signIn EXCEPT ![b] = g] /\ UNCHANGED cache
          /\ oidcMu = Nobody /\ oidcMu' = b
      BY <2>3 DEF Discover, SignInMoves
    <3>3. \A c \in Browsers \ {b} : oidcMu = c <=> oidcMu' = c
      BY <3>2, NobodyAssumption
    <3> HIDE DEF g
    <3> QED BY <1>5, <2>0, <3>1, <3>2, <3>3, SignInKept
  <2>4. CASE Discovered(b)
    <3>1. oidcMu = b /\ oidcMu' = Nobody
      BY <2>0, <2>4 DEF Discovered
    <3>2. \A c \in Browsers \ {b} : oidcMu = c <=> oidcMu' = c
      BY <3>1, NobodyAssumption
    <3>3. CASE cache' = signIn[b].cfg /\
               SignInMoves(b, [signIn[b] EXCEPT !.at = "have", !.provider = signIn[b].cfg])
      <4> DEFINE g == [signIn[b] EXCEPT !.at = "have", !.provider = signIn[b].cfg]
      <4>1. /\ g \in SignIn /\ g.at = "have" /\ g.provider = g.cfg
            /\ signIn[b].cfg \in Issuer
        BY <2>0 DEF SignIn
      <4>2. signIn' = [signIn EXCEPT ![b] = g] /\ cache' \in Issuer
        BY <3>3, <4>1 DEF SignInMoves
      <4> HIDE DEF g
      <4> QED BY <1>5, <2>0, <3>1, <3>2, <4>1, <4>2, SignInKept
    <3>4. CASE UNCHANGED cache /\ SignInMoves(b, Forgotten(signIn[b]))
      <4>1. signIn' = [signIn EXCEPT ![b] = Forgotten(signIn[b])]
        BY <3>4 DEF SignInMoves
      <4> QED BY <1>5, <2>0, <3>1, <3>2, <3>4, <4>1, ForgottenTypes, SignInKept
    <3> QED
      BY <2>4, <3>3, <3>4 DEF Discovered
  <2>5. CASE SendAway(b) \/ Exchange(b)
    <3> DEFINE g == IF SendAway(b) THEN [Outside EXCEPT !.leg = "callback"] ELSE Outside
    <3>1. g \in SignIn /\ g.at = "idle"
      BY DEF Outside, SignIn, Issuer
    <3>2. /\ signIn' = [signIn EXCEPT ![b] = g] /\ UNCHANGED <<oidcMu, cache>>
          /\ oidcMu # b
      BY <2>0, <2>5 DEF SendAway, Exchange, SignInMoves
    <3> HIDE DEF g
    <3> QED BY <1>5, <2>0, <3>1, <3>2, SignInKept
  <2> QED
    BY <1>5, <2>1, <2>2, <2>3, <2>4, <2>5 DEF Browser
<1>6. CASE UNCHANGED vars
  BY <1>6, <1>1 DEF vars
<1> QED
  BY <1>2, <1>3, <1>4, <1>5, <1>6 DEF Next

----------------------------------------------------------------------------
(* The mutex and the row                                                   *)

\* A step that leaves the requests alone also leaves the row alone while the
\* mutex is held.
LEMMA RequestsKept ==
  ASSUME RequestsInv, UNCHANGED requests,
         mu # Nobody => life' = "serving" /\ UNCHANGED store
  PROVE  RequestsInv'
<1>1. UNCHANGED <<mu, at, old, new>>
  BY DEF requests
<1>2. \A r \in Requests : at[r] \in {"read", "stored", "failed"} => UNCHANGED store
  BY NobodyAssumption DEF RequestsInv, Requests
<1> QED
  BY <1>1, <1>2 DEF RequestsInv, Writing

LEMMA RequestsAnswered ==
  ASSUME RequestTypes, RequestsInv, NEW r \in Requests, NEW answer \in Answers,
         mu \in {r, Nobody}, Answer(r, answer)
  PROVE  RequestsInv'
<1>1. /\ mu' = Nobody /\ r # Nobody
      /\ \A q \in Requests : at'[q] = IF q = r THEN answer ELSE at[q]
  BY NobodyAssumption DEF Answer, RequestTypes, Requests
<1>2. \A q \in Requests : at'[q] \notin {"read", "stored", "failed"}
  BY <1>1, NobodyAssumption DEF RequestsInv, Answers, Requests
<1> QED
  BY <1>1, <1>2, NobodyAssumption DEF RequestsInv, Writing, Requests

LEMMA RequestsHeld ==
  ASSUME RequestTypes, RequestsInv, NEW r \in Requests, NEW s \in Settings,
         mu = Nobody, life = "serving", Hold(r, s), UNCHANGED <<life, store>>,
         IF r \in Puts THEN \E b \in Body : s = Merged(store, b)
         ELSE /\ store.auth.password = None
              /\ \E p \in Passwords : s = WithPassword(store, p)
  PROVE  RequestsInv'
<1>1. /\ mu' = r /\ r # Nobody
      /\ \A q \in Requests : at'[q] = IF q = r THEN "read" ELSE at[q]
      /\ old'[r] = store /\ new'[r] = s
  BY NobodyAssumption DEF Hold, RequestTypes, Requests
<1>2. \A q \in Requests \ {r} : at'[q] \notin {"read", "stored", "failed"}
  BY <1>1, NobodyAssumption DEF RequestsInv, Requests
<1>3. \A q \in Requests : at'[q] \in {"read", "stored", "failed"} <=> mu' = q
  BY <1>1, <1>2
<1>4. mu' # Nobody => life' = "serving"
  OBVIOUS
<1>5. ~Writing(r)' /\ \A q \in Requests \ {r} : ~Writing(q)'
  BY <1>1, <1>2 DEF Writing
<1> QED
  BY <1>1, <1>2, <1>3, <1>4, <1>5 DEF RequestsInv

\* The holder goes from at[r] to s.
LEMMA RequestsMoved ==
  ASSUME RequestTypes, RequestsInv, NEW r \in Requests, NEW s \in {"stored", "failed"},
         at[r] \in {"read", "stored", "failed"}, at' = [at EXCEPT ![r] = s],
         UNCHANGED <<life, mu, old, new>>, store' = new[r], s = "failed" => r \in Puts
  PROVE  RequestsInv'
<1>1. mu = r /\ \A q \in Requests : at'[q] = IF q = r THEN s ELSE at[q]
  BY DEF RequestsInv, RequestTypes
<1>2. \A q \in Requests \ {r} : at'[q] \notin {"read", "stored", "failed"}
  BY <1>1 DEF RequestsInv
<1>3. \A q \in Requests \ {r} : ~Writing(q)'
  BY <1>2 DEF Writing
<1>4. /\ mu' # Nobody => life' = "serving"
      /\ \A q \in Requests : at'[q] \in {"read", "stored", "failed"} <=> mu' = q
  BY <1>1, <1>2 DEF RequestsInv
<1>5. IF r \in Puts THEN \E b \in Body : new'[r] = Merged(old'[r], b)
      ELSE /\ old'[r].auth.password = None
           /\ \E p \in Passwords : new'[r] = WithPassword(old'[r], p)
  BY DEF RequestsInv
<1> QED
  BY <1>1, <1>2, <1>3, <1>4, <1>5 DEF RequestsInv

LEMMA RequestsStep ==
  ASSUME TypeOK, RequestsInv, [Next]_vars PROVE RequestsInv'
<1> RequestTypes /\ store \in Settings BY TypeParts DEF ValueTypes
<1>1. CASE Life
  <2>1. CASE End
    <3>1. CASE mu = Nobody BY <2>1, <3>1, RequestsKept DEF End
    <3>2. CASE mu # Nobody
      BY <2>1, <3>2, RequestsAnswered DEF End, Answers, RequestTypes
    <3> QED BY <3>1, <3>2
  <2>2. CASE Life /\ ~End
    <3>1. life # "serving"
      BY <2>2 DEF Life, Start, StartFails, Bootstrap, LoadRuntimeSettings, Serve
    <3>2. mu = Nobody BY <3>1 DEF RequestsInv
    <3>3. UNCHANGED requests
      BY <2>2 DEF Life, Start, StartFails, Bootstrap, LoadRuntimeSettings, Serve
    <3> QED BY <3>2, <3>3, RequestsKept
  <2> QED BY <1>1, <2>1, <2>2
<1>2. ASSUME NEW r \in Requests, Request(r) PROVE RequestsInv'
  <2>0. at[r] \in {"read", "stored", "failed"} => mu = r /\ life = "serving"
    BY <1>2, NobodyAssumption DEF RequestsInv, Requests
  <2>1. CASE Refuse(r)
    <3>1. /\ mu = Nobody /\ UNCHANGED <<life, store, mu, old, new>>
          /\ \A q \in Requests : at'[q] = IF q = r THEN "err" ELSE at[q]
      BY <2>1 DEF Refuse, Aside, process, RequestTypes
    <3>2. \A q \in Requests : at'[q] \notin {"read", "stored", "failed"}
      BY <3>1, NobodyAssumption DEF RequestsInv, Requests
    <3> QED
      BY <3>1, <3>2, NobodyAssumption DEF RequestsInv, Writing, Requests
  <2>2. CASE Store(r)
    <3>1. at[r] = "read" BY <2>2 DEF Store
    <3>2. CASE Answer(r, "err")
      BY <1>2, <2>0, <3>1, <3>2, RequestsAnswered DEF Answers
    <3>3. CASE /\ store' = new[r] /\ at' = [at EXCEPT ![r] = "stored"]
               /\ UNCHANGED <<mu, old, new>>
      BY <1>2, <2>2, <3>1, <3>3, RequestsMoved DEF Store, Aside, process
    <3> QED BY <2>2, <3>2, <3>3 DEF Store
  <2>3. CASE AuthEnds(r)
    BY <1>2, <2>0, <2>3, RequestsAnswered DEF AuthEnds, Answers
  <2>4. CASE Apply(r)
    BY <1>2, <2>0, <2>4, RequestsAnswered DEF Apply, Answers
  <2>5. CASE r \in Puts /\ ApplyFails(r)
    <3>1. /\ at[r] = "stored" /\ at' = [at EXCEPT ![r] = "failed"]
          /\ UNCHANGED <<life, mu, old, new, store>>
      BY <2>5 DEF ApplyFails, Aside, process
    <3>2. store' = new[r]
      BY <1>2, <3>1 DEF RequestsInv, Writing
    <3> QED BY <1>2, <2>5, <3>1, <3>2, RequestsMoved
  <2>6. CASE Rollback(r)
    BY <1>2, <2>0, <2>6, RequestsAnswered DEF Rollback, Answers
  <2>7. ASSUME NEW b \in Body, r \in Puts, PutBegin(r, b) PROVE RequestsInv'
    <3>1. /\ Hold(r, Merged(store, b)) /\ mu = Nobody /\ life = "serving"
          /\ UNCHANGED <<life, store>>
      BY <2>7 DEF PutBegin, Aside, process
    <3> QED BY <1>2, <2>7, <3>1, RequestsHeld, MergedIsSettings
  <2>8. ASSUME NEW p \in Passwords, r \in Auths, AuthBegin(r, p) PROVE RequestsInv'
    <3>1. /\ Hold(r, WithPassword(store, p)) /\ mu = Nobody /\ life = "serving"
          /\ UNCHANGED <<life, store>> /\ store.auth.password = None
      BY <2>8 DEF AuthBegin, Aside, process
    <3>2. r \notin Puts BY <2>8, KindsAssumption
    <3> QED BY <1>2, <3>1, <3>2, RequestsHeld, WithPasswordIsSettings
  <2> QED
    BY <1>2, <2>1, <2>2, <2>3, <2>4, <2>5, <2>6, <2>7, <2>8 DEF Request
<1>3. CASE Snapshot \/ Wakes
  BY <1>3, RequestsKept DEF Snapshot, Wakes, BesidePoller, process, RequestsInv
<1>4. ASSUME NEW b \in Browsers, Browser(b) PROVE RequestsInv'
  <2>1. UNCHANGED <<process, store, requests>>
    BY <1>4 DEF Browser, ReadConfig, Cached, Discover, Discovered, SendAway,
       Exchange, SignInMoves, BesideOIDC
  <2> QED BY <2>1, RequestsKept DEF process, RequestsInv
<1>5. CASE UNCHANGED vars
  BY <1>5, RequestsKept DEF vars, process, RequestsInv
<1> QED
  BY <1>1, <1>2, <1>3, <1>4, <1>5 DEF Next

----------------------------------------------------------------------------
(* Memory and the poller                                                   *)

LEMMA RuntimeKept ==
  ASSUME RuntimeInv, UNCHANGED <<runtime, poller>>,
         life' = "begin" => life = "begin" /\ UNCHANGED <<store, apart>>
  PROVE  RuntimeInv'
  BY DEF RuntimeInv, runtime

LEMMA RuntimeStep ==
  ASSUME TypeOK, RequestsInv, RuntimeInv, [Next]_vars PROVE RuntimeInv'
<1> PollerTypes /\ ValueTypes BY TypeParts
<1>1. CASE Life
  <2>1. CASE Start BY <2>1, RuntimeKept DEF Start
  <2>2. CASE StartFails BY <2>2, RuntimeKept DEF StartFails
  <2>3. CASE Bootstrap BY <2>3, RuntimeKept DEF Bootstrap
  <2>4. CASE LoadRuntimeSettings
    BY <2>4 DEF LoadRuntimeSettings, RuntimeInv, Asking
  <2>5. CASE Serve BY <2>5, RuntimeKept DEF Serve
  <2>6. CASE End BY <2>6, RuntimeKept DEF End
  <2> QED
    BY <1>1, <2>1, <2>2, <2>3, <2>4, <2>5, <2>6 DEF Life
<1>2. ASSUME NEW r \in Requests, Request(r) PROVE RuntimeInv'
  <2>0. UNCHANGED <<life, poller>> /\ life = "serving"
    <3>1. at[r] \in {"read", "stored", "failed"} => life = "serving"
      BY <1>2, NobodyAssumption DEF RequestsInv, Requests
    <3> QED
      BY <1>2, <3>1 DEF Request, Refuse, Store, AuthEnds, Apply, ApplyFails, Rollback,
         PutBegin, AuthBegin, Aside, process
  <2>1. CASE Apply(r)
    <3>1. closed' = closed \cup {channel} /\ channel' = channel + 1
      BY <2>1 DEF Apply
    <3>2. closed' = 0 .. channel' - 1
      BY <3>1 DEF RuntimeInv, PollerTypes
    <3>3. poller.at = "wait" => poller.channel <= channel /\ poller.channel \in Nat
      BY DEF RuntimeInv, PollerTypes, Poller
    <3>4. poller.at = "wait" => poller.channel <= channel' /\ poller.channel # channel'
      BY <3>1, <3>3 DEF PollerTypes
    <3> QED
      BY <2>0, <3>2, <3>4 DEF RuntimeInv
  <2>2. CASE Request(r) /\ ~Apply(r)
    <3>1. UNCHANGED runtime
      BY <2>2 DEF Request, Refuse, Store, AuthEnds, ApplyFails, Rollback, PutBegin,
         AuthBegin
    <3> QED BY <2>0, <3>1, RuntimeKept
  <2> QED BY <1>2, <2>1, <2>2
<1>3. CASE Snapshot
  BY <1>3 DEF Snapshot, BesidePoller, runtime, process, RuntimeInv, PollerTypes
<1>4. CASE Wakes
  <2>1. poller'.at = "ask"
    BY <1>4 DEF Wakes, PollerTypes, Poller
  <2> QED
    BY <1>4, <2>1 DEF Wakes, BesidePoller, runtime, process, RuntimeInv
<1>5. ASSUME NEW b \in Browsers, Browser(b) PROVE RuntimeInv'
  <2>1. UNCHANGED BesideOIDC
    BY <1>5 DEF Browser, ReadConfig, Cached, Discover, Discovered, SendAway,
       Exchange, SignInMoves
  <2> QED BY <2>1, RuntimeKept DEF BesideOIDC, process
<1>6. CASE UNCHANGED vars
  BY <1>6, RuntimeKept DEF vars, process
<1> QED
  BY <1>1, <1>2, <1>3, <1>4, <1>5, <1>6 DEF Next

----------------------------------------------------------------------------
(* The settings that count                                                 *)

LEMMA HolderIsAt ==
  ASSUME RequestsInv, NEW r \in Requests
  PROVE  /\ at[r] \in {"read", "stored", "failed"} => mu = r /\ r # Nobody
         /\ Writing(r) => Committed = old[r] /\ store = new[r]
         /\ at[r] = "read" => Committed = store
<1>1. /\ r # Nobody
      /\ at[r] \in {"read", "stored", "failed"} => mu = r
  BY NobodyAssumption DEF RequestsInv, Requests
<1> QED
  BY <1>1 DEF RequestsInv, Writing, Committed

Replies == [r \in Requests |-> Reply(r)]

Given(r, answer) ==
  Replies[r] = "none" /\ Replies' = [Replies EXCEPT ![r] = answer]

LEMMA ReplyMoved ==
  ASSUME RequestTypes, NEW r \in Requests, at[r] \notin Answers,
         NEW s \in Steps \ Answers, at' = [at EXCEPT ![r] = s]
  PROVE  UNCHANGED Replies
<1>1. \A q \in Requests : at'[q] = IF q = r THEN s ELSE at[q]
  BY DEF RequestTypes
<1>2. \A q \in Requests : Reply(q)' = Reply(q)
  BY <1>1 DEF Reply
<1> QED BY <1>2 DEF Replies

LEMMA ReplyGiven ==
  ASSUME RequestTypes, NEW r \in Requests, at[r] \notin Answers,
         NEW answer \in Answers, at' = [at EXCEPT ![r] = answer]
  PROVE  Given(r, answer)
<1>1. \A q \in Requests : at'[q] = IF q = r THEN answer ELSE at[q]
  BY DEF RequestTypes
<1>2. \A q \in Requests : Reply(q)' = IF q = r THEN answer ELSE Reply(q)
  BY <1>1 DEF Reply
<1>3. Reply(r) = "none"
  BY DEF Reply
<1> QED BY <1>2, <1>3 DEF Given, Replies

\* Where the mutex is and what the step left say what counts.
LEMMA CommittedKept ==
  ASSUME UNCHANGED <<store, mu, at, old>>
  PROVE  UNCHANGED <<Committed, Replies>>
  BY DEF Committed, Writing, Replies, Reply

LEMMA CommittedFree ==
  ASSUME mu = Nobody PROVE Committed = store
  BY DEF Committed

Quiet == UNCHANGED <<Committed, Replies>> /\ UNCHANGED <<memory, apart>>
Refused(r) == Given(r, "err") /\ UNCHANGED Committed /\ UNCHANGED <<memory, apart>>
Applied(r) == /\ Given(r, "ok") /\ memory' = Committed'
              /\ \E b \in Body : Committed' = Merged(Committed, b)
PasswordSet(r) == /\ Given(r, "ok") /\ UNCHANGED <<memory, apart>>
                  /\ Committed.auth.password = None
                  /\ \E p \in Passwords : Committed' = WithPassword(Committed, p)
LeftApart(r) == /\ Given(r, "stuck") /\ apart'
                /\ \E b \in Body : Committed' = Merged(Committed, b)

LEMMA RequestEffect ==
  ASSUME TypeOK, RequestsInv, NEW r \in Requests, Request(r)
  PROVE  /\ UNCHANGED life /\ life = "serving"
         /\ \/ Quiet \/ Refused(r) \/ Applied(r)
            \/ PasswordSet(r) \/ LeftApart(r)
<1> RequestTypes /\ at \in [Requests -> Steps]
  BY TypeParts DEF RequestTypes
<1> USE HolderIsAt
<1>0. UNCHANGED life /\ life = "serving"
  <2>1. at[r] \in {"read", "stored", "failed"} => life = "serving"
    BY NobodyAssumption DEF RequestsInv, Requests
  <2> QED
    BY <2>1 DEF Request, Refuse, Store, AuthEnds, Apply, ApplyFails, Rollback,
       PutBegin, AuthBegin, Aside, process
<1>1. CASE Refuse(r)
  <2>1. at[r] \notin Answers /\ at' = [at EXCEPT ![r] = "err"]
        /\ mu = Nobody /\ UNCHANGED <<mu, store, memory, apart>>
    BY <1>1 DEF Refuse, Answers, runtime
  <2>2. UNCHANGED Committed BY <2>1 DEF Committed
  <2>3. Given(r, "err") BY <2>1, ReplyGiven DEF Answers
  <2> QED BY <1>0, <2>1, <2>2, <2>3 DEF Refused
<1>2. CASE Store(r)
  <2>1. at[r] = "read" /\ mu = r /\ Committed = store /\ store = old[r]
        /\ at[r] \notin Answers /\ UNCHANGED <<memory, apart>> /\ r # Nobody
    BY <1>2 DEF Store, Answers, runtime, RequestsInv
  <2>2. CASE Answer(r, "err") /\ UNCHANGED store
    <3>1. Given(r, "err") BY <2>1, <2>2, ReplyGiven DEF Answer, Answers
    <3>2. UNCHANGED Committed BY <2>1, <2>2 DEF Answer, Committed
    <3> QED BY <1>0, <2>1, <3>1, <3>2 DEF Refused
  <2>3. CASE /\ store' = new[r] /\ at' = [at EXCEPT ![r] = "stored"]
             /\ UNCHANGED <<mu, old, new>>
    <3>1. UNCHANGED Replies BY <2>1, <2>3, ReplyMoved DEF Answers, Steps
    <3>2. at'[r] = "stored" BY <2>3
    <3>3. UNCHANGED Committed BY <2>1, <2>3, <3>2 DEF Committed, Writing
    <3> QED BY <1>0, <2>1, <3>1, <3>3 DEF Quiet
  <2> QED BY <1>2, <2>2, <2>3 DEF Store
<1>3. CASE r \in Auths /\ AuthEnds(r)
  <2>1. at[r] = "stored" /\ Writing(r) /\ at[r] \notin Answers
        /\ Answer(r, "ok") /\ UNCHANGED <<store, memory, apart>>
    BY <1>3 DEF AuthEnds, Writing, Answers, runtime
  <2>2. Given(r, "ok") BY <2>1, ReplyGiven DEF Answer, Answers
  <2>3. Committed' = new[r] /\ Committed = old[r]
    BY <2>1 DEF Answer, Committed
  <2>4. r \notin Puts BY <1>3, KindsAssumption
  <2>5. old[r].auth.password = None /\ \E p \in Passwords : new[r] = WithPassword(old[r], p)
    BY <2>1, <2>4 DEF RequestsInv
  <2> QED BY <1>0, <2>1, <2>2, <2>3, <2>5 DEF PasswordSet
<1>4. CASE r \in Puts /\ Apply(r)
  <2>1. at[r] = "stored" /\ Writing(r) /\ at[r] \notin Answers
        /\ Answer(r, "ok") /\ memory' = new[r] /\ UNCHANGED store
    BY <1>4 DEF Apply, Writing, Answers
  <2>2. Given(r, "ok") BY <2>1, ReplyGiven DEF Answer, Answers
  <2>3. Committed' = new[r] /\ Committed = old[r]
    BY <2>1 DEF Answer, Committed
  <2>4. \E b \in Body : new[r] = Merged(old[r], b)
    BY <2>1, <1>4 DEF RequestsInv
  <2> QED BY <1>0, <2>1, <2>2, <2>3, <2>4 DEF Applied
<1>5. CASE r \in Puts /\ ApplyFails(r)
  <2>1. /\ at[r] = "stored" /\ at[r] \notin Answers /\ mu = r /\ Writing(r)
        /\ at' = [at EXCEPT ![r] = "failed"]
        /\ UNCHANGED <<store, memory, apart, mu, old>>
    BY <1>5 DEF ApplyFails, Answers, runtime, Writing
  <2>2. UNCHANGED Replies BY <2>1, ReplyMoved DEF Answers, Steps
  <2>3. at'[r] = "failed" BY <2>1
  <2>4. UNCHANGED Committed BY <2>1, <2>3 DEF Committed, Writing
  <2> QED BY <1>0, <2>1, <2>2, <2>4 DEF Quiet
<1>6. CASE r \in Puts /\ Rollback(r)
  <2>1. at[r] = "failed" /\ Writing(r) /\ at[r] \notin Answers /\ UNCHANGED memory
    BY <1>6 DEF Rollback, Writing, Answers, runtime
  <2>2. CASE store' = old[r] /\ Answer(r, "err") /\ UNCHANGED apart
    <3>1. Given(r, "err") BY <2>1, <2>2, ReplyGiven DEF Answer, Answers
    <3>2. UNCHANGED Committed BY <2>1, <2>2 DEF Answer, Committed
    <3> QED BY <1>0, <2>1, <2>2, <3>1, <3>2 DEF Refused
  <2>3. CASE UNCHANGED store /\ Answer(r, "stuck") /\ apart' = TRUE
    <3>1. Given(r, "stuck") BY <2>1, <2>3, ReplyGiven DEF Answer, Answers
    <3>2. Committed' = new[r] /\ Committed = old[r]
      BY <2>1, <2>3 DEF Answer, Committed
    <3>3. \E b \in Body : new[r] = Merged(old[r], b)
      BY <2>1, <1>6 DEF RequestsInv
    <3> QED BY <1>0, <2>3, <3>1, <3>2, <3>3 DEF LeftApart
  <2> QED BY <1>6, <2>2, <2>3 DEF Rollback
<1>7. ASSUME \/ \E b \in Body : PutBegin(r, b)
             \/ \E p \in Passwords : AuthBegin(r, p)
      PROVE  Quiet
  <2>1. /\ at[r] = "none" /\ at[r] \notin Answers /\ mu = Nobody
        /\ at' = [at EXCEPT ![r] = "read"] /\ mu' = r
        /\ UNCHANGED <<store, memory, apart>>
    BY <1>7 DEF PutBegin, AuthBegin, Hold, runtime, Answers
  <2>2. UNCHANGED Replies BY <2>1, ReplyMoved DEF Answers, Steps
  <2>3. at'[r] = "read" BY <2>1
  <2>4. UNCHANGED Committed BY <2>1, <2>3 DEF Committed, Writing
  <2> QED BY <2>1, <2>2, <2>4 DEF Quiet
<1> QED
  BY <1>0, <1>1, <1>2, <1>3, <1>4, <1>5, <1>6, <1>7 DEF Request

\* The process ends: the request at work has had its effect or not.
Lost(r) ==
  /\ Given(r, "lost")
  /\ \/ UNCHANGED Committed
     \/ \E b \in Body : Committed' = Merged(Committed, b)
     \/ /\ Committed.auth.password = None
        /\ \E p \in Passwords : Committed' = WithPassword(Committed, p)

Booted ==
  /\ Committed' \in {Bootstrapped(Committed), Seeded(Committed)}
  /\ UNCHANGED Replies

LEMMA EndEffect ==
  ASSUME TypeOK, RequestsInv, End
  PROVE  \/ UNCHANGED <<Committed, Replies>>
         \/ \E r \in Requests : Lost(r)
<1> RequestTypes BY TypeParts
<1>1. CASE mu = Nobody
  BY <1>1, CommittedKept DEF End, requests
<1>2. CASE mu # Nobody
  <2>1. PICK r \in Requests : r = mu BY <1>2 DEF RequestTypes
  <2>2. /\ at[r] \in {"read", "stored", "failed"} /\ at[r] \notin Answers
        /\ Answer(r, "lost") /\ UNCHANGED store
    BY <1>2, <2>1 DEF End, RequestsInv, Answers
  <2>3. Given(r, "lost") BY <2>2, ReplyGiven DEF Answer, Answers
  <2>4. Committed' = store BY <2>2 DEF Answer, Committed
  <2>5. CASE at[r] = "read"
    <3>1. Committed = store BY <2>5, HolderIsAt
    <3> QED BY <2>3, <2>4, <3>1 DEF Lost
  <2>6. CASE at[r] # "read"
    <3>1. Writing(r) BY <2>2, <2>6 DEF Writing
    <3>2. Committed = old[r] /\ store = new[r] BY <3>1, HolderIsAt
    <3>3. IF r \in Puts THEN \E b \in Body : new[r] = Merged(old[r], b)
          ELSE /\ old[r].auth.password = None
               /\ \E p \in Passwords : new[r] = WithPassword(old[r], p)
      BY <2>2 DEF RequestsInv
    <3> QED BY <2>3, <2>4, <3>2, <3>3 DEF Lost
  <2> QED BY <2>5, <2>6
<1> QED BY <1>1, <1>2

LEMMA LifeEffect ==
  ASSUME TypeOK, RequestsInv, Life
  PROVE  \/ UNCHANGED <<Committed, Replies>>
         \/ Booted
         \/ \E r \in Requests : Lost(r)
<1>1. CASE Start \/ StartFails \/ Serve
  BY <1>1, CommittedKept DEF Start, StartFails, Serve, requests
<1>2. CASE Bootstrap \/ LoadRuntimeSettings
  <2>1. life # "serving" /\ UNCHANGED requests
        /\ store' \in {Bootstrapped(store), Seeded(store)}
    BY <1>2 DEF Bootstrap, LoadRuntimeSettings
  <2>2. mu = Nobody BY <2>1 DEF RequestsInv
  <2>3. Committed = store /\ Committed' = store'
    BY <2>1, <2>2 DEF requests, Committed
  <2>4. UNCHANGED Replies BY <2>1 DEF requests, Replies, Reply
  <2> QED BY <2>1, <2>3, <2>4 DEF Booted
<1>3. CASE End BY <1>3, EndEffect
<1> QED BY <1>1, <1>2, <1>3 DEF Life

\* The steps of the poller and of browsers touch none of it.
LEMMA AsideEffect ==
  ASSUME \/ Snapshot \/ Wakes \/ UNCHANGED vars
         \/ \E b \in Browsers : Browser(b)
  PROVE  UNCHANGED <<life, store, memory, apart, requests>>
<1>1. CASE Snapshot \/ Wakes
  BY <1>1 DEF Snapshot, Wakes, BesidePoller, process, runtime
<1>2. ASSUME NEW b \in Browsers, Browser(b)
      PROVE  UNCHANGED <<life, store, memory, apart, requests>>
  BY <1>2 DEF Browser, ReadConfig, Cached, Discover, Discovered, SendAway, Exchange,
     SignInMoves, BesideOIDC, process, runtime
<1>3. CASE UNCHANGED vars
  BY <1>3 DEF vars, process, runtime
<1> QED BY <1>1, <1>2, <1>3

LEMMA CommittedIsSettings ==
  ASSUME TypeOK PROVE Committed \in Settings
  BY DEF TypeOK, Committed

LEMMA MemoryStep ==
  ASSUME TypeOK, RequestsInv, RuntimeInv, MemoryMatchesStore, [Next]_vars
  PROVE  MemoryMatchesStore'
<1>1. CASE Life
  <2>1. CASE Serve
    <3>1. mu = Nobody BY <2>1 DEF Serve, RequestsInv
    <3>2. Committed' = store /\ memory' = store
      BY <2>1, <3>1 DEF Serve, requests, runtime, RuntimeInv, Committed
    <3> QED BY <3>2 DEF MemoryMatchesStore
  <2>2. CASE Life /\ ~Serve
    <3>1. life' # "serving"
      BY <2>2 DEF Life, Start, StartFails, Bootstrap, LoadRuntimeSettings, End
    <3> QED BY <3>1 DEF MemoryMatchesStore
  <2> QED BY <1>1, <2>1, <2>2
<1>2. ASSUME NEW r \in Requests, Request(r) PROVE MemoryMatchesStore'
  <2>1. /\ UNCHANGED life /\ life = "serving"
        /\ Quiet \/ Refused(r) \/ Applied(r) \/ PasswordSet(r) \/ LeftApart(r)
    BY <1>2, RequestEffect
  <2>2. CASE Quiet \/ Refused(r)
    BY <2>1, <2>2 DEF Quiet, Refused, MemoryMatchesStore
  <2>3. CASE Applied(r) BY <2>3 DEF Applied, MemoryMatchesStore
  <2>4. CASE PasswordSet(r)
    <3>1. PICK p \in Passwords : Committed' = WithPassword(Committed, p)
      BY <2>4 DEF PasswordSet
    <3>2. Committed'.conf = Committed.conf /\ Committed'.key = Committed.key
      BY <3>1, WithPasswordIsSettings, CommittedIsSettings
    <3> QED BY <2>1, <2>4, <3>2 DEF PasswordSet, MemoryMatchesStore
  <2>5. CASE LeftApart(r) BY <2>5 DEF LeftApart, MemoryMatchesStore
  <2> QED BY <2>1, <2>2, <2>3, <2>4, <2>5
<1>3. CASE UNCHANGED <<life, store, memory, apart, requests>>
  BY <1>3 DEF requests, Committed, Writing, MemoryMatchesStore
<1> QED
  BY <1>1, <1>2, <1>3, AsideEffect DEF Next

----------------------------------------------------------------------------
(* The theorems                                                            *)

LEMMA InitInv == Init => IInv
<1> SUFFICES ASSUME Init PROVE IInv
  OBVIOUS
<1>1. TypeOK BY InitTypes
<1>2. RequestsInv
  BY NobodyAssumption DEF Init, RequestsInv, Writing, Requests
<1>3. RuntimeInv
  BY DEF Init, RuntimeInv, Asking
<1>4. OIDCInv /\ ProviderIsConfigured
  BY NobodyAssumption DEF Init, OIDCInv, ProviderIsConfigured, Outside
<1>5. MemoryMatchesStore /\ PollerIsTold
  BY DEF Init, MemoryMatchesStore, PollerIsTold, Asking
<1> QED
  BY <1>1, <1>2, <1>3, <1>4, <1>5 DEF IInv

LEMMA StepInv == IInv /\ [Next]_vars => IInv'
<1> SUFFICES ASSUME IInv, [Next]_vars PROVE IInv'
  OBVIOUS
<1>0. /\ TypeOK /\ RequestsInv /\ RuntimeInv /\ OIDCInv
      /\ MemoryMatchesStore /\ PollerIsTold /\ ProviderIsConfigured
  BY DEF IInv
<1>1. Providers'
  BY <1>0, ProvidersStep, TypeParts DEF Providers
<1>2. TypeOK'
  <2>1. ProcessTypes' BY <1>0, TypeParts, ProcessTypesStep
  <2>2. ValueTypes' /\ RequestTypes' /\ PollerTypes'
    BY <1>0, ValueTypesStep, RequestTypesStep, PollerTypesStep
  <2>3. OIDCTypes' BY <1>1 DEF Providers
  <2> QED
    BY <2>1, <2>2, <2>3
    DEF TypeOK, ProcessTypes, ValueTypes, RequestTypes, PollerTypes, OIDCTypes
<1>3. RequestsInv' BY <1>0, RequestsStep
<1>4. RuntimeInv' BY <1>0, RuntimeStep
<1>5. MemoryMatchesStore' BY <1>0, MemoryStep
<1>6. PollerIsTold'
  <2>1. PollerTypes' BY <1>2 DEF TypeOK, PollerTypes
  <2> QED BY <2>1, <1>4 DEF PollerTypes, Poller, RuntimeInv, PollerIsTold
<1>7. OIDCInv' /\ ProviderIsConfigured' BY <1>1 DEF Providers
<1> QED
  BY <1>2, <1>3, <1>4, <1>5, <1>6, <1>7 DEF IInv

\* The inductive invariant: the types, who holds settingsMu and what the row
\* then contains, the poller's channel, and the mutex of the provider cache.
THEOREM Invariance == Spec => []IInv
  BY InitInv, StepInv, PTL DEF Spec

\* LoadRuntimeSettings, handlePutSettings and its rollback keep the copy in
\* memory and the row together.
THEOREM MemoryFollowsStore == Spec => []MemoryMatchesStore
<1>1. IInv => MemoryMatchesStore BY DEF IInv
<1> QED BY <1>1, Invariance, PTL

\* waitForImportPoll does not miss a change of the settings.
THEOREM PollerHearsOfChanges == Spec => []PollerIsTold
<1>1. IInv => PollerIsTold BY DEF IInv
<1> QED BY <1>1, Invariance, PTL

\* OIDCHandler.provider returns the provider of the issuer that was asked for.
THEOREM SignInUsesConfigured == Spec => []ProviderIsConfigured
<1>1. IInv => ProviderIsConfigured BY DEF IInv
<1> QED BY <1>1, Invariance, PTL

\* SettingsRegister works with the same values.
LEMMA SameValues ==
  /\ Register!Blank = Blank
  /\ \A s, b : Register!Merged(s, b) = Merged(s, b)
  /\ \A s, p : Register!WithPassword(s, p) = WithPassword(s, p)
  /\ \A s : Register!Bootstrapped(s) = Bootstrapped(s)
  /\ \A s : Register!Seeded(s) = Seeded(s)
<1>1. Register!Blank = Blank
  BY DEF Register!Blank, Blank, Register!NoConf, NoConf
<1>2. \A x, y : Register!OrKept(x, y) = OrKept(x, y)
  BY DEF Register!OrKept, OrKept
<1>3. \A x, y : Register!MergedAuth(x, y) = MergedAuth(x, y)
  BY <1>2 DEF Register!MergedAuth, MergedAuth
<1>4. \A s, b : Register!Merged(s, b) = Merged(s, b)
  BY <1>2, <1>3 DEF Register!Merged, Merged
<1>5. \A s, p : Register!WithPassword(s, p) = WithPassword(s, p)
  BY Zenon DEF Register!WithPassword, WithPassword
<1>6. \A s : Register!Bootstrapped(s) = Bootstrapped(s)
  BY <1>2, Zenon DEF Register!Bootstrapped, Bootstrapped
<1>7. \A s : Register!Seeded(s) = Seeded(s)
  BY DEF Register!Seeded, Seeded, Register!Empty, Empty
<1> QED BY <1>1, <1>4, <1>5, <1>6, <1>7

LEMMA RegisterInit == Init => Register!Init
<1> SUFFICES ASSUME Init PROVE Register!Init
  OBVIOUS
<1>1. Committed = Blank BY DEF Init, Committed
<1>2. Replies = [r \in Requests |-> "none"]
  BY DEF Init, Replies, Reply, Answers
<1> QED BY <1>1, <1>2, SameValues DEF Register!Init, Replies

LEMMA RegisterStep == IInv /\ [Next]_vars => [Register!Next]_Register!regVars
<1> SUFFICES ASSUME IInv, [Next]_vars PROVE [Register!Next]_Register!regVars
  OBVIOUS
<1>0. TypeOK /\ RequestsInv BY DEF IInv
<1>1. CASE UNCHANGED <<Committed, Replies>>
  BY <1>1 DEF Register!regVars, Replies
<1>2. CASE Booted
  BY <1>2, SameValues DEF Booted, Register!Next, Register!Boot, Replies
<1>3. ASSUME NEW r \in Requests, Lost(r) PROVE Register!Next
  <2>1. Register!Lose(r)
    BY <1>3, SameValues DEF Lost, Given, Replies, Register!Lose, Register!Replied
  <2> QED BY <2>1 DEF Register!Next
<1>4. ASSUME NEW r \in Requests, Request(r) PROVE [Register!Next]_Register!regVars
  <2>1. Quiet \/ Refused(r) \/ Applied(r) \/ PasswordSet(r) \/ LeftApart(r)
    BY <1>0, <1>4, RequestEffect
  <2>2. CASE Quiet BY <2>2, <1>1 DEF Quiet
  <2>3. CASE Refused(r)
    <3>1. Register!Refuse(r)
      BY <2>3 DEF Refused, Given, Replies, Register!Refuse, Register!Replied
    <3> QED BY <3>1 DEF Register!Next
  <2>4. CASE Applied(r)
    <3>1. Register!Change(r)
      BY <2>4, SameValues DEF Applied, Given, Replies, Register!Change, Register!Replied
    <3> QED BY <3>1 DEF Register!Next
  <2>5. CASE PasswordSet(r)
    <3>1. Register!FirstPassword(r)
      BY <2>5, SameValues DEF PasswordSet, Given, Replies, Register!FirstPassword, Register!Replied
    <3> QED BY <3>1 DEF Register!Next
  <2>6. CASE LeftApart(r)
    <3>1. Register!Stuck(r)
      BY <2>6, SameValues DEF LeftApart, Given, Replies, Register!Stuck, Register!Replied
    <3> QED BY <3>1 DEF Register!Next
  <2> QED BY <2>1, <2>2, <2>3, <2>4, <2>5, <2>6
<1>5. CASE UNCHANGED <<life, store, memory, apart, requests>>
  BY <1>5, <1>1, CommittedKept DEF requests
<1>6. CASE Life BY <1>0, <1>1, <1>2, <1>3, <1>6, LifeEffect
<1> QED
  BY <1>4, <1>5, <1>6, AsideEffect DEF Next

\* settingsMu, the rollback and the merge of secrets make the settings a
\* register: a change has its effect in one step, on the latest value.
THEOREM ImplementsRegister == Spec => RegisterSpec
<1>1. Spec => [][Register!Next]_Register!regVars
  BY Invariance, RegisterStep, PTL DEF Spec
<1> QED
  BY <1>1, RegisterInit, PTL DEF Spec, RegisterSpec, Register!Spec

\* No step of the code takes the password away: not a merge, not a rollback,
\* not a restart.
THEOREM PasswordIsKept == Spec => PasswordStays
<1>1. IInv /\ [Next]_vars =>
        [Committed.auth.password # None => Committed'.auth.password # None]_vars
  <2> SUFFICES ASSUME IInv, [Next]_vars, Committed.auth.password # None
               PROVE  Committed'.auth.password # None
    OBVIOUS
  <2>1. Committed \in Settings BY CommittedIsSettings DEF IInv
  <2>2. CASE UNCHANGED Committed BY <2>2
  <2>3. CASE \E b \in Body : Committed' = Merged(Committed, b)
    BY <2>1, <2>3, PasswordKept
  <2>4. CASE Committed' \in {Bootstrapped(Committed), Seeded(Committed)}
    BY <2>1, <2>4, PasswordKept
  <2>5. [Register!Next]_Register!regVars BY RegisterStep
  <2>6. ASSUME NEW p \in Passwords, Committed' = WithPassword(Committed, p)
        PROVE  Committed'.auth.password # None
    BY <2>1, <2>6, WithPasswordIsSettings, NoneAssumption
  <2> QED
    BY <2>2, <2>3, <2>4, <2>5, <2>6, SameValues
    DEF Register!Next, Register!Change, Register!FirstPassword, Register!Refuse,
        Register!Stuck, Register!Lose, Register!Boot, Register!regVars
<1> QED
  BY <1>1, Invariance, PTL DEF Spec, PasswordStays
=============================================================================

---------------------------- MODULE SettingsData ----------------------------
(***************************************************************************)
(* The settings as values, and what the handlers make of them.             *)
(*                                                                         *)
(*   internal/domain/settings.go        Settings                           *)
(*   internal/adapters/http/handlers.go handlePutSettings,                 *)
(*                                      mergeAuthSettings                  *)
(*   internal/app/runtime.go            LoadRuntimeSettings                *)
(*   internal/adapters/auth/bootstrap.go                                   *)
(*                                                                         *)
(* Of the fields are kept those that decide something: the directories to  *)
(* watch, where output goes, the engine, whether Lidarr is polled, the     *)
(* Lidarr key, the password and the OIDC issuer.  None is a field that is  *)
(* not set.                                                                *)
(***************************************************************************)

CONSTANTS
    None,
    Body,            \* bodies of PUT /settings
    Defaults,        \* those of the YAML file
    Passwords, Keys, Issuers,
    EnvPassword,     \* CUEARR_INITIAL_PASSWORD, or None
    EnvIssuer        \* CUEARR_OIDC_ISSUER, or None

Conf == [dirs : {"none", "first", "second"}, out : {"none", "set"},
         engine : {"", "shntool", "native", "unknown"}, poll : BOOLEAN]
Auth == [password : Passwords \cup {None}, issuer : Issuers \cup {None}]
Settings == [conf : Conf, key : Keys \cup {None}, auth : Auth]

ASSUME BodyAssumption     == Body \subseteq [conf : Conf, key : Keys \cup {None},
                                            auth : Auth \cup {None}]
ASSUME DefaultsAssumption == Defaults \in Conf
ASSUME EnvAssumption      == /\ EnvPassword \in Passwords \cup {None}
                             /\ EnvIssuer \in Issuers \cup {None}
ASSUME NoneAssumption     == None \notin Passwords \cup Keys \cup Issuers \cup Auth

NoConf == [dirs |-> "none", out |-> "none", engine |-> "", poll |-> FALSE]
Blank == [conf |-> NoConf, key |-> None, auth |-> [password |-> None, issuer |-> None]]

\* runtimeSettingsEmpty: the Lidarr part is not looked at.
Empty(s) == s.conf.dirs = "none" /\ s.conf.out = "none" /\ s.conf.engine = ""

OrKept(x, kept) == IF x = None THEN kept ELSE x

\* A bug: the section is taken as it is.
MergedAsGiven(auth, a) == IF a = None THEN auth ELSE a

\* mergeAuthSettings: a secret that is not given is kept, a missing section
\* keeps all of it.
MergedAuth(auth, a) ==
    IF a = None THEN auth
    ELSE [password |-> OrKept(a.password, auth.password), issuer |-> a.issuer]

Merged(s, b) ==
    [conf |-> b.conf, key |-> OrKept(b.key, s.key), auth |-> MergedAuth(s.auth, b.auth)]

WithPassword(s, p) == [s EXCEPT !.auth.password = p]

\* Bootstrap: the environment fills in what is not set.
Bootstrapped(s) ==
    [s EXCEPT !.auth = [password |-> OrKept(s.auth.password, EnvPassword),
                        issuer |-> OrKept(s.auth.issuer, EnvIssuer)]]

\* LoadRuntimeSettings: the first start takes the YAML file's settings.
Seeded(s) ==
    IF Empty(s) THEN [conf |-> Defaults, key |-> None, auth |-> s.auth] ELSE s

\* newSplitter
HasSplitter(s) == s.conf.engine # "unknown"
=============================================================================

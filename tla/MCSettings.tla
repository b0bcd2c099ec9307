----------------------------- MODULE MCSettings -----------------------------
(***************************************************************************)
(* Two PUT /settings requests, one PUT /settings/auth, one browser and one *)
(* end of the process.  The bodies watch the first or the second           *)
(* directory or none, with the engine known, unknown or left out, switch   *)
(* the poller on or off, and set, keep or drop the secrets and the issuer. *)
(***************************************************************************)
EXTENDS Settings

CONSTANTS p1, p2, s1, b1, key1, pw1, pw2, issuer1, issuer2

TwoPuts == {p1, p2}
OneAuth == {s1}
OneBrowser == {b1}
OneKey == {key1}
TwoPasswords == {pw1, pw2}
TwoIssuers == {issuer1, issuer2}

First == [NoConf EXCEPT !.dirs = "first", !.poll = TRUE]
Second == [NoConf EXCEPT !.dirs = "second", !.engine = "shntool"]
Unknown == [Second EXCEPT !.engine = "unknown"]
Sign(p, i) == [password |-> p, issuer |-> i]
SomeBodies ==
    {[conf |-> First, key |-> None, auth |-> None],
     [conf |-> Second, key |-> key1, auth |-> Sign(None, issuer2)],
     [conf |-> Unknown, key |-> None, auth |-> Sign(pw1, issuer1)],
     [conf |-> NoConf, key |-> None, auth |-> Sign(None, None)]}
YAML == [NoConf EXCEPT !.dirs = "first", !.engine = "shntool"]
=============================================================================

-------------------------- MODULE SettingsRegister --------------------------
(***************************************************************************)
(* What the settings promise to whoever changes them: one value, changed   *)
(* in one step by a request that is answered with success, and not changed *)
(* by one that is refused.  A request that a crash takes with it may have  *)
(* had its effect or not.                                                  *)
(*                                                                         *)
(* A change is a change of the current value: nothing that another request *)
(* has set meanwhile is lost.  The first password is set once.             *)
(***************************************************************************)
EXTENDS SettingsData

CONSTANT Requests

VARIABLES value, answer

regVars == <<value, answer>>

Replied(r, to) == answer[r] = "none" /\ answer' = [answer EXCEPT ![r] = to]

Init == value = Blank /\ answer = [r \in Requests |-> "none"]

Change(r) ==
    /\ Replied(r, "ok")
    /\ \E b \in Body : value' = Merged(value, b)

FirstPassword(r) ==
    /\ value.auth.password = None
    /\ Replied(r, "ok")
    /\ \E p \in Passwords : value' = WithPassword(value, p)

Refuse(r) == Replied(r, "err") /\ UNCHANGED value

\* The change could not be applied, nor taken back.
Stuck(r) ==
    /\ Replied(r, "stuck")
    /\ \E b \in Body : value' = Merged(value, b)

Lose(r) ==
    /\ Replied(r, "lost")
    /\ \/ UNCHANGED value
       \/ \E b \in Body : value' = Merged(value, b)
       \/ /\ value.auth.password = None
          /\ \E p \in Passwords : value' = WithPassword(value, p)

Boot == value' \in {Bootstrapped(value), Seeded(value)} /\ UNCHANGED answer

Next ==
    \/ \E r \in Requests : Change(r) \/ FirstPassword(r) \/ Refuse(r) \/ Stuck(r) \/ Lose(r)
    \/ Boot

Spec == Init /\ [][Next]_regVars
=============================================================================

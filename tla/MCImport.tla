------------------------------ MODULE MCImport ------------------------------
(***************************************************************************)
(* Import on small instances.  One or two manual requests next to the      *)
(* worker and the poller are enough for a claim, a competing claim and a   *)
(* third party that writes a stale copy.  Cooldown and MaxLag of one or    *)
(* two ticks put the lease before and behind its expiry.  One requeue that *)
(* is read early and written late starts a second run of the job.  A poll  *)
(* interval that is sometimes zero lets the poller wait without a timer.   *)
(***************************************************************************)
EXTENDS Import, TLC

CONSTANTS m1, m2

OneManual  == {m1}
TwoManuals == {m1, m2}

AlwaysOn == {TRUE}
OnAndOff == BOOLEAN

Symmetry == Permutations(TwoManuals)
=============================================================================

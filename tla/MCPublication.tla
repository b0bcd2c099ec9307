--------------------------- MODULE MCPublication ---------------------------
(***************************************************************************)
(* Publication on small instances.  Two tracks are enough for a directory  *)
(* to be partly filled; two attempts are enough for an attempt that is     *)
(* requeued and one that exhausts the budget.  Two clients with a request  *)
(* each are what a stale skip takes: one client reads the completed row,   *)
(* the other requeues the job with an older copy, and then the first one   *)
(* writes.  They are interchangeable in a run without liveness.            *)
(***************************************************************************)
EXTENDS Publication, TLC

CONSTANTS t1, t2, c1, c2

OneTrack   == {t1}
TwoTracks  == {t1, t2}
OneClient  == {c1}
TwoClients == {c1, c2}

Symmetry == Permutations(TwoClients)
=============================================================================

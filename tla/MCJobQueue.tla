----------------------------- MODULE MCJobQueue -----------------------------
(***************************************************************************)
(* JobQueue on a small instance: two albums, so that one job can wait for  *)
(* or be overtaken by another, one of them with a publication that cannot  *)
(* be recovered, and three requests, so that two can race to create a job  *)
(* and a third can requeue it, or write it back as completed.              *)
(***************************************************************************)
EXTENDS JobQueue

CONSTANTS a1, a2

TwoAlbums == {a1, a2}
OneAlbum  == {a1}
=============================================================================

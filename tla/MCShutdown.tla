----------------------------- MODULE MCShutdown -----------------------------
(***************************************************************************)
(* The process with one album, main and one PUT request as callers, and    *)
(* one scan request.  Two changes let a timer be replaced; the PUT         *)
(* replaces the watcher main has started, and shutdown meets it anywhere.  *)
(***************************************************************************)
EXTENDS Shutdown

CONSTANTS a1, main1, put1, scan1

OneAlbum   == {a1}
TwoCallers == {main1, put1}
OneScan    == {scan1}
=============================================================================

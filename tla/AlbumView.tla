----------------------------- MODULE AlbumView -----------------------------
(***************************************************************************)
(* What the publication protocol of internal/app/publish.go promises to    *)
(* anybody who looks at an album directory: Lidarr, Plex, the user.        *)
(*                                                                         *)
(* A reader of the album path finds nothing or every track of one version  *)
(* of the album, never a part of one.  The newest version that was ever    *)
(* visible stays recoverable: it may be hidden for a moment while its      *)
(* successor is swapped in, it is never deleted, and it gives way only to  *)
(* a later version.                                                        *)
(***************************************************************************)
EXTENDS Naturals

CONSTANT Tracks      \* the files a complete album consists of

VARIABLES
    version,         \* the newest version that can be recovered; 0: no album
    view             \* the tracks a reader of the album path finds

viewVars == <<version, view>>

ViewInit ==
    \/ version = 0 /\ view = {}
    \/ version = 1 /\ view = Tracks

\* A later version becomes visible, in one step and as a whole.
Publish ==
    /\ version' \in Nat
    /\ version' > version
    /\ view' = Tracks

\* The album is moved out of the way while its successor is swapped in.
Hide ==
    /\ view = Tracks
    /\ view' = {}
    /\ UNCHANGED version

\* The same version returns.
Reappear ==
    /\ version # 0
    /\ view = {}
    /\ view' = Tracks
    /\ UNCHANGED version

ViewNext == Publish \/ Hide \/ Reappear

ViewSpec == ViewInit /\ [][ViewNext]_viewVars
=============================================================================

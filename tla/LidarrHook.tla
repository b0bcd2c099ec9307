----------------------------- MODULE LidarrHook -----------------------------
(***************************************************************************)
(* Which directory an event of Lidarr asks to scan.                        *)
(*                                                                         *)
(*   internal/adapters/http/lidarr.go                                      *)
(*                                                                         *)
(* An event is its type and what it has in each place where a path may     *)
(* stand: the keys of the body, the first of trackFiles, and the keys of   *)
(* environment and env.  A place holds a list of parts, one for a plain    *)
(* string; None is a part that is empty, and the empty list a place that   *)
(* is missing or no string.  A path is its own name, that of the directory *)
(* it is in, what stands there (a directory, a file or nothing) and        *)
(* whether it ends like a file name: [self, parent, kind, extension].      *)
(***************************************************************************)
EXTENDS CueSheet

TopLevelKeys == <<"path", "DownloadPath", "DownloadFolder", "lidarr_trackfile_path",
                  "lidarr_release_path", "Lidarr_AddedTrackPaths">>
NestedKeys == <<"DownloadPath", "DownloadFolder", "path", "Lidarr_AddedTrackPaths",
                "lidarr_trackfile_path", "lidarr_release_path">>

\* Where the body is looked through, in this order.
LookedThrough ==
    [i \in DOMAIN TopLevelKeys |-> <<"top", TopLevelKeys[i]>>] \o <<<<"trackFiles", "path">>>> \o
    [i \in DOMAIN NestedKeys |-> <<"environment", NestedKeys[i]>>] \o
    [i \in DOMAIN NestedKeys |-> <<"env", NestedKeys[i]>>]

Held(event, place) == IF place \in DOMAIN event.held THEN event.held[place] ELSE << >>

\* A bug: only the first part of a list is looked at.
FirstPartOnly(parts) == IF parts = << >> THEN None ELSE parts[1]

\* firstPathFromAddedTrackPaths: blanks are passed over.
FirstPath(parts) ==
    LET given == {i \in DOMAIN parts : parts[i] # None}
    IN  IF given = {} THEN None ELSE parts[Min(given)]

\* extractLidarrScanPath
ExtractLidarrScanPath(event) ==
    FirstPath([i \in DOMAIN LookedThrough |-> FirstPath(Held(event, LookedThrough[i]))])

\* lidarrDirForScan: what is not there is taken for a file by its name.
LidarrDirForScan(path) ==
    IF path.kind = "directory" \/ (path.kind = "nothing" /\ ~path.extension)
    THEN path.self
    ELSE path.parent

\* handleLidarrHook: the directory to scan; None when the event is a test and
\* Bad when it names no path.
HookDir(event) ==
    IF event.test THEN None
    ELSE LET path == ExtractLidarrScanPath(event)
         IN  IF path = None THEN Bad ELSE LidarrDirForScan(path)

\* The reference: every path that the event names.
Named(event) ==
    (UNION {ToSet(event.held[place]) : place \in DOMAIN event.held}) \ {None}
=============================================================================

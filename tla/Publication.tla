---------------------------- MODULE Publication ----------------------------
(***************************************************************************)
(* The life of ONE split job: its row in the jobs table, the single worker *)
(* goroutine that runs it, and the four directories its publication moves  *)
(* files between.  One action per file-system call and per database call,  *)
(* so that every call can fail, the process can die between any two, and a *)
(* client that read the row earlier can write its copy back at any point.  *)
(*                                                                         *)
(*   internal/app/worker.go                Run, runOnce                    *)
(*   internal/app/run.go                   RunJob, failJob                 *)
(*   internal/app/publish.go               PublishTracks, PrepareStaging   *)
(*   internal/app/publication_recovery.go  recoverPublications             *)
(*   internal/domain/retry.go              BeginAttempt, ApplyAttemptFailure *)
(*   internal/app/enqueue.go, internal/adapters/http/handlers.go           *)
(*                                         the requests that requeue a job *)
(*   internal/app/import.go                skipIfPending                   *)
(*                                                                         *)
(* The store has one connection, so each of its statements is one step.    *)
(* os.Rename is one step; os.RemoveAll is not: when it fails, or the       *)
(* process dies in it, any part of the tree may be left (Leftovers).  A    *)
(* death in the middle of a RemoveAll or of a WriteFile is the failing     *)
(* outcome of that step followed by ProcessEnds.                           *)
(***************************************************************************)
EXTENDS Naturals

CONSTANTS
    Tracks,          \* the files of the album, as VerifySplit expects them
    MaxAttempts,     \* Settings.MaxAttempts, at least 1
    Clients,         \* goroutines of requests and of the import poller
    MaxRequests      \* bound: requests that find the job failed or completed

ASSUME TracksAssumption      == Tracks # {}
ASSUME MaxAttemptsAssumption == MaxAttempts \in Nat \ {0}
ASSUME MaxRequestsAssumption == MaxRequests \in Nat

VARIABLES
    row,             \* the job's row: [status, attempts]
    pc,              \* the call the worker goroutine makes next
    held,            \* AttemptCount in the worker's copy of the job
    isolate,         \* recoverPublications runs in a tick, not at startup
    complete,        \* what recoverPublication found
    staging,         \* {base}/.cuearr-staging/{id}
    publishing,      \* {base}/.{album}.publishing-{id}
    aside,           \* {base}/.{album}.aside-{id}
    final,           \* {base}/{album}, what everybody else looks at
    pending,         \* per client: the copy of the row it is about to write
    requests,        \* requests made so far (bounded by MaxRequests)
    stopping,        \* the process context is cancelled
    calm,            \* no further fault, crash or shutdown
    stale,           \* history: "completed" was written by a client, over a
                     \* job that had been queued again since it was read
    gen,             \* version of the latest split
    seen             \* newest version that was ever at final

disk  == <<staging, publishing, aside, final>>
env   == <<pending, requests, stopping, calm, stale>>
copy  == <<held, isolate, complete>>
vars  == <<row, pc, copy, disk, env, gen, seen>>

-----------------------------------------------------------------------------
\* Directories.  A directory is the version of the album it holds, the tracks
\* that are in it and whether it has a manifest naming this job; version 0 is
\* the absence of the directory.

Dir   == [ver : Nat, tracks : SUBSET Tracks, manifest : BOOLEAN]
NoDir == [ver |-> 0, tracks |-> {}, manifest |-> FALSE]

Exists(d) == d.ver # 0
Whole(d)  == Exists(d) /\ d.tracks = Tracks

\* What a RemoveAll that fails or is interrupted can leave of d.
Leftovers(d) ==
    {[ver |-> d.ver, tracks |-> t, manifest |-> m] :
        t \in SUBSET d.tracks, m \in {b \in BOOLEAN : b => d.manifest}}

\* Directory d becomes the album that everybody sees.
Show(d) ==
    /\ final' = d
    /\ seen' = IF d.ver > seen THEN d.ver ELSE seen

Status == {"queued", "running", "publishing", "completed", "failed"}

RecoverSteps == {"readManifest", "recoverAside", "recoverFinal",
                 "recoverPublishing", "recoverStaging", "settle", "quarantine"}
SplitSteps   == {"begin", "preflight", "prepare", "split", "intent"}
PublishSteps == {"leftover", "checkAside", "makePublishing", "move", "manifest",
                 "swapOut", "place", "swapIn", "restore", "dropAside",
                 "dropPublishing"}
EndSteps     == {"cleanup", "complete", "hook", "failCleanup", "failJob", "apply"}
LoopSteps    == {"down", "list", "recoverHook", "requeueRunning", "idle", "claim",
                 "exhausted", "exited"}
Steps == RecoverSteps \cup SplitSteps \cup PublishSteps \cup EndSteps
            \cup LoopSteps

\* n is the number of the request.
NoRequest == [kind |-> "none", attempts |-> 0, n |-> 0]
Request   == [kind : {"none", "enqueue", "retry", "skip"}, attempts : Nat, n : Nat]

TypeOK ==
    /\ row \in [status : Status, attempts : Nat]
    /\ pc \in Steps
    /\ held \in Nat
    /\ isolate \in BOOLEAN
    /\ complete \in BOOLEAN
    /\ staging \in Dir
    /\ publishing \in Dir
    /\ aside \in Dir
    /\ final \in Dir
    /\ pending \in [Clients -> Request]
    /\ requests \in Nat
    /\ stopping \in BOOLEAN
    /\ calm \in BOOLEAN
    /\ stale \in BOOLEAN
    /\ gen \in Nat \ {0}
    /\ seen \in Nat

\* The job was just enqueued.  Its album path is free, or holds a version of
\* the album that another job (of a lost or recreated database) published.
Init ==
    /\ row = [status |-> "queued", attempts |-> 0]
    /\ pc = "down"
    /\ held = 0
    /\ isolate = FALSE
    /\ complete = FALSE
    /\ staging = NoDir
    /\ publishing = NoDir
    /\ aside = NoDir
    /\ \/ final = NoDir /\ seen = 0
       \/ final = [ver |-> 1, tracks |-> Tracks, manifest |-> FALSE] /\ seen = 1
    /\ pending = [c \in Clients |-> NoRequest]
    /\ requests = 0
    /\ stopping = FALSE
    /\ calm = FALSE
    /\ stale = FALSE
    /\ gen = 1

-----------------------------------------------------------------------------
\* Store.Update with a whole row.  After the process context is cancelled
\* every statement fails, also those of requests; before, it may.

DbFails == stopping \/ ~calm

Update(status, attempts, next, onError) ==
    \/ /\ ~stopping
       /\ row' = [status |-> status, attempts |-> attempts]
       /\ pc' = next
    \/ /\ DbFails
       /\ row' = row
       /\ pc' = onError

-----------------------------------------------------------------------------
\* Worker.Run: startup recovery, then the tick loop.

Start ==
    /\ pc = "down"
    /\ pc' = "list"
    /\ isolate' = FALSE
    /\ UNCHANGED <<row, held, complete, disk, env, gen, seen>>

Tick ==
    /\ pc = "idle"
    /\ pc' = "list"
    /\ isolate' = TRUE
    /\ UNCHANGED <<row, held, complete, disk, env, gen, seen>>

\* The select takes the cancelled context.
Leave ==
    /\ pc = "idle"
    /\ stopping
    /\ pc' = "exited"
    /\ UNCHANGED <<row, copy, disk, env, gen, seen>>

\* Where recoverPublications returns to, without and with an error: a tick
\* goes on to the claim either way, startup gives up.
AfterRecovery   == IF isolate THEN "claim" ELSE "requeueRunning"
RecoveryGivesUp == IF isolate THEN "claim" ELSE "exited"

ListPublishing ==
    /\ pc = "list"
    /\ \/ /\ ~stopping
          /\ row.status = "publishing"
          /\ held' = row.attempts
          /\ pc' = "readManifest"
       \/ /\ ~stopping
          /\ row.status # "publishing"
          /\ pc' = AfterRecovery
          /\ UNCHANGED held
       \/ /\ DbFails
          /\ pc' = RecoveryGivesUp
          /\ UNCHANGED held
    /\ UNCHANGED <<row, isolate, complete, disk, env, gen, seen>>

\* Mutant of RequeueRunning: running jobs of the last process stay as they are.
RequeueRunningNever ==
    /\ pc = "requeueRunning"
    /\ pc' = "idle"
    /\ UNCHANGED <<row, copy, disk, env, gen, seen>>

RequeueRunning ==
    /\ pc = "requeueRunning"
    /\ \/ /\ ~stopping
          /\ row' = IF row.status = "running"
                    THEN [row EXCEPT !.status = "queued"] ELSE row
          /\ pc' = "idle"
       \/ DbFails /\ row' = row /\ pc' = "exited"
    /\ UNCHANGED <<copy, disk, env, gen, seen>>

\* recoverPublication failed: startup stops, a tick quarantines the job.
RecoveryError == pc' = IF isolate THEN "quarantine" ELSE "exited"

\* Mutant of ReadManifest: a manifest is taken for granted.
ReadManifestTrusting ==
    /\ pc = "readManifest"
    /\ complete' = TRUE
    /\ pc' = "recoverAside"
    /\ UNCHANGED <<row, held, isolate, disk, env, gen, seen>>

\* Mutant of ReadManifest: the backup of an interrupted swap is forgotten.
ReadManifestForgetful ==
    /\ pc = "readManifest"
    /\ complete' = (final.manifest /\ Whole(final))
    /\ pc' = IF complete' THEN "recoverAside" ELSE "recoverPublishing"
    /\ UNCHANGED <<row, held, isolate, disk, env, gen, seen>>

\* The manifest decides whether the publication went through.
ReadManifest ==
    /\ pc = "readManifest"
    /\ \/ /\ ~final.manifest
          /\ complete' = FALSE
          /\ pc' = IF ~Exists(final) /\ Exists(aside)
                   THEN "recoverFinal" ELSE "recoverPublishing"
       \/ /\ final.manifest
          /\ Whole(final)
          /\ complete' = TRUE
          /\ pc' = "recoverAside"
       \/ /\ ~calm \/ (final.manifest /\ ~Whole(final))
          /\ RecoveryError
          /\ UNCHANGED complete
    /\ UNCHANGED <<row, held, isolate, disk, env, gen, seen>>

RecoverAside ==
    /\ pc = "recoverAside"
    /\ \/ aside' = NoDir /\ pc' = "recoverPublishing"
       \/ ~calm /\ aside' \in Leftovers(aside) /\ RecoveryError
    /\ UNCHANGED <<row, copy, staging, publishing, final, env, gen, seen>>

RecoverFinal ==
    /\ pc = "recoverFinal"
    /\ \/ Show(aside) /\ aside' = NoDir /\ pc' = "recoverPublishing"
       \/ ~calm /\ RecoveryError /\ UNCHANGED <<aside, final, seen>>
    /\ UNCHANGED <<row, copy, staging, publishing, env, gen>>

RecoverPublishing ==
    /\ pc = "recoverPublishing"
    /\ \/ publishing' = NoDir /\ pc' = "recoverStaging"
       \/ ~calm /\ publishing' \in Leftovers(publishing) /\ RecoveryError
    /\ UNCHANGED <<row, copy, staging, aside, final, env, gen, seen>>

RecoverStaging ==
    /\ pc = "recoverStaging"
    /\ \/ staging' = NoDir /\ pc' = "settle"
       \/ ~calm /\ staging' \in Leftovers(staging) /\ RecoveryError
    /\ UNCHANGED <<row, copy, publishing, aside, final, env, gen, seen>>

\* Whoever completes a job knows that its album is published.
Completes(next, onError) ==
    /\ Update("completed", held, next, onError)
    /\ stale' = IF pc' = next THEN FALSE ELSE stale

\* Mutant of Settle: every recovered publication counts as completed.
SettleOptimistic ==
    /\ pc = "settle"
    /\ Completes("recoverHook", RecoveryGivesUp)
    /\ UNCHANGED <<copy, disk, pending, requests, stopping, calm, gen, seen>>

Settle ==
    /\ pc = "settle"
    /\ \/ complete /\ Completes("recoverHook", RecoveryGivesUp)
       \/ ~complete /\ Update("queued", held, AfterRecovery, RecoveryGivesUp) /\ UNCHANGED stale
    /\ UNCHANGED <<copy, disk, pending, requests, stopping, calm, gen, seen>>

\* AfterSplitComplete with the copy that was completed: when import is off,
\* skipIfPending writes it once more.  An error is only logged.
HookWrite ==
    \/ UNCHANGED <<row, stale>>
    \/ /\ ~stopping
       /\ row' = [status |-> "completed", attempts |-> held]
       /\ stale' = FALSE

RecoverHook ==
    /\ pc = "recoverHook"
    /\ HookWrite
    /\ pc' = AfterRecovery
    /\ UNCHANGED <<copy, disk, pending, requests, stopping, calm, gen, seen>>

Quarantine ==
    /\ pc = "quarantine"
    /\ Update("failed", held, "claim", "claim")
    /\ UNCHANGED <<copy, disk, env, gen, seen>>

-----------------------------------------------------------------------------
\* Worker.runOnce: claim and budget check.

\* Mutant of Claim: the budget is not checked before the run.
ClaimUnchecked ==
    /\ pc = "claim"
    /\ \/ /\ row.status = "queued"
          /\ row' = [row EXCEPT !.status = "running"]
          /\ held' = row.attempts
          /\ pc' = "begin"
       \/ row.status # "queued" /\ pc' = "idle" /\ UNCHANGED <<row, held>>
    /\ UNCHANGED <<isolate, complete, disk, env, gen, seen>>

Claim ==
    /\ pc = "claim"
    /\ \/ /\ ~stopping
          /\ row.status = "queued"
          /\ row' = [row EXCEPT !.status = "running"]
          /\ held' = row.attempts
          /\ pc' = IF row.attempts >= MaxAttempts THEN "exhausted" ELSE "begin"
       \/ /\ row.status # "queued" \/ DbFails
          /\ pc' = "idle"
          /\ UNCHANGED <<row, held>>
    /\ UNCHANGED <<isolate, complete, disk, env, gen, seen>>

Exhausted ==
    /\ pc = "exhausted"
    /\ Update("failed", held, "idle", "idle")
    /\ UNCHANGED <<copy, disk, env, gen, seen>>

\* JobRunner.RunJob up to the verified split.  BeginAttempt counts in the
\* copy that RunJob returns only if its row was written.
Begin ==
    /\ pc = "begin"
    /\ \/ /\ ~stopping
          /\ row' = [status |-> "running", attempts |-> held + 1]
          /\ held' = held + 1
          /\ pc' = "preflight"
       \/ /\ DbFails
          /\ pc' = "apply"
          /\ UNCHANGED <<row, held>>
    /\ UNCHANGED <<isolate, complete, disk, env, gen, seen>>

Preflight ==
    /\ pc = "preflight"
    /\ pc' \in {"prepare", "failJob"}
    /\ UNCHANGED <<row, copy, disk, env, gen, seen>>

PrepareStaging ==
    /\ pc = "prepare"
    /\ \/ /\ gen' = gen + 1
          /\ staging' = [ver |-> gen + 1, tracks |-> {}, manifest |-> FALSE]
          /\ pc' = "split"
       \/ /\ ~calm
          /\ staging' \in Leftovers(staging) \cup {NoDir}
          /\ pc' = "failJob"
          /\ UNCHANGED gen
    /\ UNCHANGED <<row, copy, publishing, aside, final, env, seen>>

\* Mutant of Split: the split is not verified.
SplitUnverified ==
    /\ pc = "split"
    /\ \E t \in SUBSET Tracks \ {{}} : staging' = [staging EXCEPT !.tracks = t]
    /\ pc' = "intent"
    /\ UNCHANGED <<row, copy, publishing, aside, final, env, gen, seen>>

\* Split, inspectSource and VerifySplit: only a complete split goes on.
Split ==
    /\ pc = "split"
    /\ \/ staging' = [staging EXCEPT !.tracks = Tracks] /\ pc' = "intent"
       \/ /\ \E t \in SUBSET Tracks : staging' = [staging EXCEPT !.tracks = t]
          /\ pc' = "failCleanup"
    /\ UNCHANGED <<row, copy, publishing, aside, final, env, gen, seen>>

\* Mutant of Intent: the publication starts although the row was not written.
IntentIgnored ==
    /\ pc = "intent"
    /\ Update("publishing", held, "leftover", "leftover")
    /\ UNCHANGED <<copy, disk, env, gen, seen>>

\* The publication intent is persisted before the first rename.
Intent ==
    /\ pc = "intent"
    /\ Update("publishing", held, "leftover", "failCleanup")
    /\ UNCHANGED <<copy, disk, env, gen, seen>>

-----------------------------------------------------------------------------
\* publishReplaceDir.

DropLeftover ==
    /\ pc = "leftover"
    /\ \/ publishing' = NoDir /\ pc' = "checkAside"
       \/ ~calm /\ publishing' \in Leftovers(publishing) /\ pc' = "failCleanup"
    /\ UNCHANGED <<row, copy, staging, aside, final, env, gen, seen>>

\* A backup from an interrupted swap goes back; next to an album it is an
\* error ("stale album backup requires recovery").
CheckAside ==
    /\ pc = "checkAside"
    /\ \/ ~Exists(aside) /\ pc' = "makePublishing" /\ UNCHANGED <<aside, final, seen>>
       \/ /\ Exists(aside) /\ ~Exists(final)
          /\ Show(aside)
          /\ aside' = NoDir
          /\ pc' = "makePublishing"
       \/ /\ ~calm \/ (Exists(aside) /\ Exists(final))
          /\ pc' = "failCleanup"
          /\ UNCHANGED <<aside, final, seen>>
    /\ UNCHANGED <<row, copy, staging, publishing, env, gen>>

MakePublishing ==
    /\ pc = "makePublishing"
    /\ \/ /\ publishing' = [ver |-> staging.ver, tracks |-> {}, manifest |-> FALSE]
          /\ pc' = "move"
       \/ ~calm /\ pc' = "failCleanup" /\ UNCHANGED publishing
    /\ UNCHANGED <<row, copy, staging, aside, final, env, gen, seen>>

\* moveTracks: one rename per track.
MoveTrack ==
    /\ pc = "move"
    /\ \/ \E t \in staging.tracks :
            /\ staging' = [staging EXCEPT !.tracks = @ \ {t}]
            /\ publishing' = [publishing EXCEPT !.tracks = @ \cup {t}]
            /\ pc' = IF staging.tracks = {t} THEN "manifest" ELSE "move"
       \/ ~calm /\ pc' = "dropPublishing" /\ UNCHANGED <<staging, publishing>>
    /\ UNCHANGED <<row, copy, aside, final, env, gen, seen>>

\* Mutant of WriteManifest: its error is ignored.
WriteManifestIgnored ==
    /\ pc = "manifest"
    /\ publishing' \in {publishing, [publishing EXCEPT !.manifest = TRUE]}
    /\ pc' = "swapOut"
    /\ UNCHANGED <<row, copy, staging, aside, final, env, gen, seen>>

WriteManifest ==
    /\ pc = "manifest"
    /\ \/ publishing' = [publishing EXCEPT !.manifest = TRUE] /\ pc' = "swapOut"
       \/ ~calm /\ pc' = "dropPublishing" /\ UNCHANGED publishing
    /\ UNCHANGED <<row, copy, staging, aside, final, env, gen, seen>>

\* Mutant of SwapOut: the old album is removed instead of moved aside.
SwapOutDeleting ==
    /\ pc = "swapOut"
    /\ final' = NoDir
    /\ pc' = "place"
    /\ UNCHANGED <<row, copy, staging, publishing, aside, env, gen, seen>>

\* Stat final; an album that is there moves aside.
SwapOut ==
    /\ pc = "swapOut"
    /\ \/ ~Exists(final) /\ pc' = "place" /\ UNCHANGED <<aside, final>>
       \/ Exists(final) /\ aside' = final /\ final' = NoDir /\ pc' = "swapIn"
       \/ ~calm /\ pc' = "dropPublishing" /\ UNCHANGED <<aside, final>>
    /\ UNCHANGED <<row, copy, staging, publishing, env, gen, seen>>

Place ==
    /\ pc = "place"
    /\ \/ Show(publishing) /\ publishing' = NoDir /\ pc' = "cleanup"
       \/ ~calm /\ pc' = "dropPublishing" /\ UNCHANGED <<final, publishing, seen>>
    /\ UNCHANGED <<row, copy, staging, aside, env, gen>>

SwapIn ==
    /\ pc = "swapIn"
    /\ \/ Show(publishing) /\ publishing' = NoDir /\ pc' = "dropAside"
       \/ ~calm /\ pc' = "restore" /\ UNCHANGED <<final, publishing, seen>>
    /\ UNCHANGED <<row, copy, staging, aside, env, gen>>

\* A failed restore is only logged.
Restore ==
    /\ pc = "restore"
    /\ \/ Show(aside) /\ aside' = NoDir
       \/ ~calm /\ UNCHANGED <<aside, final, seen>>
    /\ pc' = "dropPublishing"
    /\ UNCHANGED <<row, copy, staging, publishing, env, gen>>

\* A backup that cannot be removed is only logged.
DropAside ==
    /\ pc = "dropAside"
    /\ aside' \in IF calm THEN {NoDir} ELSE {NoDir} \cup Leftovers(aside)
    /\ pc' = "cleanup"
    /\ UNCHANGED <<row, copy, staging, publishing, final, env, gen, seen>>

DropPublishing ==
    /\ pc = "dropPublishing"
    /\ publishing' \in IF calm THEN {NoDir} ELSE {NoDir} \cup Leftovers(publishing)
    /\ pc' = "failCleanup"
    /\ UNCHANGED <<row, copy, staging, aside, final, env, gen, seen>>

-----------------------------------------------------------------------------
\* The end of RunJob and of runOnce.

\* A staging directory that stays is ErrPublicationPending: the row keeps
\* "publishing" and the next tick recovers it.
Cleanup ==
    /\ pc = "cleanup"
    /\ \/ staging' = NoDir /\ pc' = "complete"
       \/ ~calm /\ staging' \in Leftovers(staging) /\ pc' = "idle"
    /\ UNCHANGED <<row, copy, publishing, aside, final, env, gen, seen>>

Complete ==
    /\ pc = "complete"
    /\ Completes("hook", "idle")
    /\ UNCHANGED <<copy, disk, pending, requests, stopping, calm, gen, seen>>

Hook ==
    /\ pc = "hook"
    /\ HookWrite
    /\ pc' = "idle"
    /\ UNCHANGED <<copy, disk, pending, requests, stopping, calm, gen, seen>>

FailCleanup ==
    /\ pc = "failCleanup"
    /\ staging' \in IF calm THEN {NoDir} ELSE {NoDir} \cup Leftovers(staging)
    /\ pc' = "failJob"
    /\ UNCHANGED <<row, copy, publishing, aside, final, env, gen, seen>>

\* failJob writes "failed" whatever the budget is; runOnce then applies it.
FailJob ==
    /\ pc = "failJob"
    /\ Update("failed", held, "apply", "apply")
    /\ UNCHANGED <<copy, disk, env, gen, seen>>

\* Mutant of ApplyFailure: a job is queued once more than its budget allows.
ApplyFailureOnceMore ==
    /\ pc = "apply"
    /\ LET n == IF held < 1 THEN 1 ELSE held IN
          Update(IF n <= MaxAttempts THEN "queued" ELSE "failed", n, "idle", "idle")
    /\ UNCHANGED <<copy, disk, env, gen, seen>>

\* domain.ApplyAttemptFailure.
ApplyFailure ==
    /\ pc = "apply"
    /\ LET n == IF held < 1 THEN 1 ELSE held IN
          Update(IF n < MaxAttempts THEN "queued" ELSE "failed", n, "idle", "idle")
    /\ UNCHANGED <<copy, disk, env, gen, seen>>

-----------------------------------------------------------------------------
\* Requests that read the row, change their copy and write the whole of it
\* back.  A failed job is requeued: Enqueue (a scan, the watcher, a hook) keeps
\* AttemptCount, a manual retry resets it.  A completed job whose import was
\* asked for while import is off is marked as skipped (skipIfPending): the
\* import columns are in module Import, and here any completed row may have
\* its import pending.

ReadFailed(c) ==
    /\ pc # "down"
    /\ ~stopping
    /\ pending[c].kind = "none"
    /\ requests < MaxRequests
    /\ row.status = "failed"
    /\ \E kind \in {"enqueue", "retry"} :
          pending' = [pending EXCEPT ![c] =
              [kind |-> kind,
               attempts |-> IF kind = "retry" THEN 0 ELSE row.attempts,
               n |-> requests + 1]]
    /\ requests' = requests + 1
    /\ UNCHANGED <<row, pc, copy, disk, stopping, calm, stale, gen, seen>>

ReadCompleted(c) ==
    /\ pc # "down"
    /\ ~stopping
    /\ pending[c].kind = "none"
    /\ requests < MaxRequests
    /\ row.status = "completed"
    /\ pending' = [pending EXCEPT ![c] =
          [kind |-> "skip", attempts |-> row.attempts, n |-> requests + 1]]
    /\ requests' = requests + 1
    /\ UNCHANGED <<row, pc, copy, disk, stopping, calm, stale, gen, seen>>

\* What a client writes; without an answer of the store, nothing.
Writes(c, status) ==
    /\ \/ ~stopping /\ row' = [status |-> status, attempts |-> pending[c].attempts]
       \/ DbFails /\ row' = row
    /\ pending' = [pending EXCEPT ![c] = NoRequest]

WriteRequeued(c) ==
    /\ pending[c].kind \in {"enqueue", "retry"}
    /\ Writes(c, "queued")
    /\ UNCHANGED <<pc, copy, disk, requests, stopping, calm, stale, gen, seen>>

WriteSkipped(c) ==
    /\ pending[c].kind = "skip"
    /\ Writes(c, "completed")
    /\ stale' = (stale \/ row'.status # row.status)
    /\ UNCHANGED <<pc, copy, disk, requests, stopping, calm, gen, seen>>

-----------------------------------------------------------------------------
\* The process and its environment.

Shutdown ==
    /\ pc # "down"
    /\ ~calm
    /\ ~stopping
    /\ stopping' = TRUE
    /\ UNCHANGED <<row, pc, copy, disk, pending, requests, calm, stale, gen, seen>>

\* The process dies at any point, or ends after the worker has left.
ProcessEnds ==
    /\ pc # "down"
    /\ pc = "exited" \/ ~calm
    /\ pc' = "down"
    /\ stopping' = FALSE
    /\ pending' = [c \in Clients |-> NoRequest]
    /\ UNCHANGED <<row, copy, disk, requests, calm, stale, gen, seen>>

\* From some point on nothing fails any more; the liveness properties are
\* about what happens then.
CalmDown ==
    /\ ~calm
    /\ calm' = TRUE
    /\ UNCHANGED <<row, pc, copy, disk, pending, requests, stopping, stale, gen, seen>>

Recovery ==
    \/ ListPublishing \/ ReadManifest \/ RecoverAside \/ RecoverFinal
    \/ RecoverPublishing \/ RecoverStaging \/ Settle \/ RecoverHook \/ Quarantine
    \/ RequeueRunning

Attempt ==
    \/ Claim \/ Exhausted \/ Begin \/ Preflight \/ PrepareStaging \/ Split
    \/ Intent

PublishTracks ==
    \/ DropLeftover \/ CheckAside \/ MakePublishing \/ MoveTrack \/ WriteManifest
    \/ SwapOut \/ Place \/ SwapIn \/ Restore \/ DropAside \/ DropPublishing

Outcome == Cleanup \/ Complete \/ Hook \/ FailCleanup \/ FailJob \/ ApplyFailure

Worker == Tick \/ Leave \/ Recovery \/ Attempt \/ PublishTracks \/ Outcome

Client(c) == ReadFailed(c) \/ ReadCompleted(c) \/ WriteRequeued(c) \/ WriteSkipped(c)

Next ==
    \/ Start
    \/ Worker
    \/ \E c \in Clients : Client(c)
    \/ Shutdown
    \/ ProcessEnds
    \/ CalmDown

Spec == Init /\ [][Next]_vars

\* The worker goroutine is scheduled, a process that ended is started again
\* (restart: unless-stopped), and a handler that has read goes on to write.
\* Between a tick and a cancelled context that are both ready, select chooses
\* at random, so it does not choose the tick for ever: SF on Leave.
Fairness ==
    /\ WF_vars(Worker)
    /\ SF_vars(Leave)
    /\ WF_vars(Start)
    /\ WF_vars(pc = "exited" /\ ProcessEnds)
    /\ \A c \in Clients : WF_vars(WriteRequeued(c) \/ WriteSkipped(c))

FairSpec == Spec /\ Fairness

-----------------------------------------------------------------------------
\* What the protocol is for.

\* Whoever looks at the album path finds no directory or every track: Lidarr
\* never sees a half-written album (docs/file-reliability.md), whatever call
\* failed and wherever the process died.
NeverPartial == Exists(final) => final.tracks = Tracks

\* The newest version that was ever visible is at the album path, or whole in
\* the aside directory while the path is free: rollback and recovery never
\* delete pre-existing tracks (the comment on PublishReplaceDir) and never
\* bring an older version back over a newer one.
NewestAlbumKept ==
    IF Exists(final) THEN final.ver = seen
    ELSE seen # 0 => Whole(aside) /\ aside.ver = seen

\* A completed row means a published album: all tracks under the album path
\* with this job's manifest, nothing left in staging or half published.  RunJob,
\* recovery and the hook write it in other steps than the renames, and a client
\* writes it over an old copy.  The exception is such a copy that lands on a job
\* which was queued again after the copy was read (stale): then the job may be
\* in the middle of its swap.  It ends when the job is next completed.
Published ==
    /\ Whole(final) /\ final.manifest
    /\ ~Exists(staging) /\ ~Exists(publishing)

CompletedIsPublished == row.status = "completed" /\ ~stale => Published

\* No row and no copy ever counts more attempts than the settings allow, also
\* not after crashes in the middle of an attempt or stale requeues.
AttemptsBounded ==
    /\ row.attempts <= MaxAttempts
    /\ held <= MaxAttempts
    /\ \A c \in Clients : pending[c].attempts <= MaxAttempts

\* The publication is what AlbumView promises: visible all at once, version
\* by version, never lost.
View == INSTANCE AlbumView WITH
            version <- IF Exists(final) THEN final.ver ELSE aside.ver,
            view    <- final.tracks

ViewSpec == View!ViewSpec

\* With one album, that of this job, every step is one of JobQueue or none: what
\* JobQueue takes a run of a job for is what its file-system calls amount to.
\* Whether faults have stopped plays no part in that.  The behaviour starts
\* where the job has just been enqueued.
QueueStep(p) ==
    CASE p \in RecoverSteps -> "recover"
      [] p \in {"preflight", "prepare", "split"} -> "work"
      [] p \in PublishSteps \ {"dropAside"} -> "publish"
      [] p \in {"dropAside", "cleanup"} -> "complete"
      [] p = "failCleanup" -> "failJob"
      [] OTHER -> p

QueueRows ==
    [a \in {"album"} |-> [id |-> 1, status |-> row.status, attempts |-> row.attempts]]

QueueCopy(attempts) == [album |-> "album", id |-> 1, attempts |-> attempts]

QueueCall(request) ==
    [n |-> request.n + 1,
     step |-> request.kind,
     copy |-> QueueCopy(request.attempts)]

QueueCalls == {QueueCall(pending[c]) : c \in {d \in Clients : pending[d].kind # "none"}}

RunSteps == {"exhausted", "recoverHook"} \cup SplitSteps \cup PublishSteps \cup EndSteps

QueueJob == IF pc \in RunSteps THEN QueueCopy(held)
            ELSE [album |-> "album", id |-> 0, attempts |-> 0]

QueueTodo == IF pc \in RecoverSteps THEN {QueueCopy(held)} ELSE {}

\* The job's manifest is at the album path or aside.
QueueLive ==
    IF \E d \in {final, aside} : Exists(d) /\ d.manifest THEN {"album"} ELSE {}

Queue == INSTANCE JobQueue WITH
            Albums        <- {"album"},
            MaxRequests   <- MaxRequests + 1,
            Unrecoverable <- {},
            DbFaults      <- TRUE,
            rows          <- QueueRows,
            live          <- QueueLive,
            calls         <- QueueCalls,
            requests      <- requests + 1,
            answers       <- {[album |-> "album", id |-> 1]},
            pc            <- QueueStep(pc),
            job           <- QueueJob,
            todo          <- QueueTodo,
            calm          <- FALSE

QueueSpec == Queue!Enqueued("album") /\ [][Queue!Next]_(Queue!vars)

\* The album path changes only while the persisted row says "publishing", so
\* that a restart knows it has a swap to look at.  (Until somebody requests a
\* requeue: a stale one can overwrite the row in the middle of a swap.)
IntentBeforeSwap ==
    [][final' # final /\ requests = 0 => row.status = "publishing"]_vars

\* A job that is queued, or publishing, or left in any state by a process
\* that ended, is settled once faults stop: no crash leaves it stuck.
Settles ==
    (calm /\ (row.status \in {"queued", "publishing"} \/ pc = "down"))
        ~> row.status \in {"completed", "failed"}

\* An album that a crash hid in the middle of its swap is visible again after
\* the restart, also when every later attempt to split the job fails.
HiddenAlbumReturns ==
    (calm /\ pc = "down" /\ row.status = "publishing"
          /\ ~Exists(final) /\ Exists(aside))
        ~> Exists(final)

-----------------------------------------------------------------------------
\* The inductive invariant: what the worker knows at each of its steps.

\* Nothing on disk is newer than the latest split.
VersionsBounded ==
    /\ staging.ver <= gen
    /\ publishing.ver <= gen
    /\ aside.ver <= gen
    /\ final.ver <= gen
    /\ seen <= gen

\* One whole copy of the newest visible version, at the path or aside.
AlbumSafe ==
    \/ Whole(final) /\ final.ver = seen
    \/ final = NoDir /\ Whole(aside) /\ aside.ver = seen
    \/ final = NoDir /\ ~Exists(aside) /\ seen = 0

\* The version being built is whole before it moves, and later than the
\* visible one until it is shown.
BuildInv ==
    /\ pc \in {"split", "intent", "leftover", "checkAside", "makePublishing", "move"}
        => staging.ver = gen
    /\ pc \in {"intent", "leftover", "checkAside", "makePublishing"}
        => staging.tracks = Tracks
    /\ pc \in {"split", "intent", "leftover", "checkAside", "makePublishing", "move",
               "manifest", "swapOut", "place", "swapIn"}
        => seen < gen
    /\ pc \in {"move", "manifest", "swapOut", "place", "swapIn"}
        => publishing.ver = gen
    /\ pc = "move" => publishing.tracks \cup staging.tracks = Tracks
    /\ pc \in {"manifest", "swapOut", "place", "swapIn"} => publishing.tracks = Tracks
    /\ pc \in {"swapOut", "place", "swapIn"} => publishing.manifest

\* Where the album is at each step of the swap.
SwapInv ==
    /\ pc \in {"makePublishing", "move", "manifest", "swapOut", "place"} => ~Exists(aside)
    /\ pc \in {"place", "swapIn", "restore", "recoverFinal"} => ~Exists(final)
    /\ pc \in {"swapIn", "restore", "recoverFinal"} => Exists(aside)
    /\ pc \in {"dropAside", "cleanup", "complete", "hook", "recoverHook"}
        => Exists(final) /\ final.manifest
    /\ pc = "recoverAside" => complete
    /\ pc = "recoverFinal" => ~complete
    /\ pc \in {"recoverAside", "recoverPublishing", "recoverStaging", "settle"} /\ complete
        => Exists(final) /\ final.manifest
    /\ pc \in {"dropAside", "cleanup", "complete", "hook", "recoverHook",
               "recoverStaging", "settle"}
        => ~Exists(publishing)
    /\ pc \in {"complete", "hook", "recoverHook", "settle"} => ~Exists(staging)

\* The row says "completed" only between runs, unless a stale copy said so.
CompletedInv ==
    row.status = "completed" /\ ~stale =>
        /\ pc \in {"down", "list", "recoverHook", "requeueRunning", "idle", "claim",
                  "hook", "exited"}
        /\ Exists(final) /\ final.manifest
        /\ ~Exists(staging) /\ ~Exists(publishing)

BudgetInv == AttemptsBounded /\ (pc = "begin" => held < MaxAttempts)

\* Before the first request the row says what the worker wrote: "publishing"
\* from the intent to the end of the swap, and while recovery looks at it.
IntentInv ==
    requests = 0 =>
        /\ \A c \in Clients : pending[c].kind = "none"
        /\ pc \in {"leftover", "checkAside", "makePublishing", "move", "manifest",
                   "swapOut", "place", "swapIn", "restore", "readManifest",
                   "recoverAside", "recoverFinal"}
            => row.status = "publishing"

\* Only a tick quarantines, and requests that are under way have numbers of
\* their own.
QueueInv ==
    /\ pc = "quarantine" => isolate
    /\ \A c \in Clients : pending[c].kind # "none" => pending[c].n \in 1 .. requests
    /\ \A c, d \in Clients :
        pending[c].kind # "none" /\ pending[d].kind # "none" /\ pending[c].n = pending[d].n
            => c = d

DiskInv == VersionsBounded /\ AlbumSafe /\ BuildInv /\ SwapInv

IInv == TypeOK /\ DiskInv /\ CompletedInv /\ BudgetInv /\ QueueInv

-----------------------------------------------------------------------------
\* What the documents say and the code does not do.

\* docs/file-reliability.md:13, failed attempts "re-queue until max_attempts":
\* a job that rests in "failed" has used its budget.
FailedIsExhausted ==
    row.status = "failed" /\ pc = "idle" => row.attempts >= MaxAttempts

\* The same line, "marked `completed` only after publish and DB update succeed":
\* who reads "completed" finds the album.
CompletedAfterPublish == row.status = "completed" => Whole(final)

\* design document, line 60, "skip if same album already completed": a
\* completed job is not queued again.
CompletedIsFinal ==
    [][row.status = "completed" => row'.status = "completed"]_vars
=============================================================================

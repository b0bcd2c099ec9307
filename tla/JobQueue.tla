------------------------------ MODULE JobQueue ------------------------------
(***************************************************************************)
(* The jobs table and everybody who works on it: requests that enqueue an  *)
(* album (watcher scans, the scan and create endpoints, the Lidarr hook),  *)
(* manual retries, requests for an import that find it switched off, and   *)
(* the one worker goroutine that claims jobs.                              *)
(*                                                                         *)
(*   internal/app/enqueue.go                 Enqueue                       *)
(*   internal/adapters/http/handlers.go      handleRetryJob                *)
(*   internal/app/worker.go                  Run, runOnce                  *)
(*   internal/app/publication_recovery.go    recoverPublications           *)
(*   internal/app/import.go                  skipIfPending                 *)
(*   internal/adapters/store/sqlite          the statements and the UNIQUE *)
(*                                           index on the fingerprint      *)
(*                                                                         *)
(* Every database statement is one step, and a request or the worker that  *)
(* read a row writes its copy of the whole row back later: as queued when  *)
(* it was read as failed, as completed when it was read as completed (that *)
(* the import is skipped is in columns module Import has).  What a run of  *)
(* a job does to the disk is reduced to whether the album was published;   *)
(* module Publication has the detail, and implements this module with one  *)
(* album.  In a graceful shutdown statements fail (DbFaults) until the     *)
(* worker leaves or the process ends.                                      *)
(***************************************************************************)
EXTENDS Naturals

CONSTANTS
    Albums,          \* fingerprints
    MaxAttempts,     \* Settings.MaxAttempts
    MaxRequests,     \* bound: requests that are made
    Unrecoverable,   \* albums whose publication recovery cannot succeed
    DbFaults         \* whether a statement can fail

ASSUME QueueAssumption ==
    /\ MaxAttempts \in Nat \ {0}
    /\ MaxRequests \in Nat
    /\ Albums # {}
    /\ Unrecoverable \subseteq Albums
    /\ DbFaults \in BOOLEAN

VARIABLES
    rows,            \* the jobs table, by fingerprint
    calls,           \* requests between two of their statements
    requests,        \* requests made so far; the latest one's number
    answers,         \* answers of Enqueue
    pc,              \* the statement the worker makes next
    job,             \* the worker's copy of the job it runs, or Nobody
    todo,            \* copies recoverPublications still has to settle
    isolate,         \* recoverPublications runs in a tick
    live,            \* albums that were published with their job's manifest
    calm             \* no further fault or crash

table   == <<rows, live>>
clients == <<calls, requests, answers>>
worker  == <<job, todo, isolate>>
vars    == <<table, clients, pc, worker, calm>>

\* Row id 0 is no row.  Enqueue draws a fresh id (uuid.NewString) together
\* with CreatedAt, so ids also order the rows by creation time.
Status == {"none", "queued", "running", "publishing", "completed", "failed"}
Row    == [id : Nat, status : Status, attempts : Nat]
NoRow  == [id |-> 0, status |-> "none", attempts |-> 0]
Copy   == [album : Albums, id : Nat, attempts : Nat]
Nobody == [album |-> CHOOSE a \in Albums : TRUE, id |-> 0, attempts |-> 0]
Call   == [n : Nat, step : {"create", "refind", "enqueue", "retry", "skip"}, copy : Copy]
Answer == [album : Albums, id : Nat]

Steps == {"down", "list", "recover", "recoverHook", "requeueRunning", "idle",
          "claim", "exhausted", "begin", "work", "intent", "publish", "complete",
          "hook", "failJob", "apply", "exited"}

TypeOK ==
    /\ rows \in [Albums -> Row]
    /\ live \in SUBSET Albums
    /\ calls \in SUBSET Call
    /\ requests \in Nat
    /\ answers \in SUBSET Answer
    /\ pc \in Steps
    /\ job \in Copy
    /\ todo \in SUBSET Copy
    /\ isolate \in BOOLEAN
    /\ calm \in BOOLEAN

Init ==
    /\ rows = [a \in Albums |-> NoRow]
    /\ live = {}
    /\ calls = {}
    /\ requests = 0
    /\ answers = {}
    /\ pc = "down"
    /\ job = Nobody
    /\ todo = {}
    /\ isolate = FALSE
    /\ calm = FALSE

DbFails == DbFaults /\ ~calm

CopyOf(a) == [album |-> a, id |-> rows[a].id, attempts |-> rows[a].attempts]

\* Store.Update: the whole row, whatever it says by now.
Write(copy, status) ==
    rows' = [rows EXCEPT ![copy.album] =
        [id |-> copy.id, status |-> status, attempts |-> copy.attempts]]

-----------------------------------------------------------------------------
\* Enqueue.

Say(a, id) == answers' = answers \cup {[album |-> a, id |-> id]}

Goes(call, step) ==
    calls' = (calls \ {call}) \cup {[call EXCEPT !.step = step]}

\* Mutant of Find: the job is requeued under a fresh id.
FindRenaming(a) ==
    /\ pc # "down"
    /\ requests < MaxRequests
    /\ rows[a].status \in {"none", "failed"}
    /\ requests' = requests + 1
    /\ calls' = calls \cup
          {[n |-> requests',
            step |-> IF rows[a] = NoRow THEN "create" ELSE "enqueue",
            copy |-> [album |-> a, id |-> requests', attempts |-> rows[a].attempts]]}
    /\ UNCHANGED <<table, answers, pc, worker, calm>>

\* FindByFingerprint: a failed job is going to be requeued, a missing one to
\* be created, any other is the answer.
Find(a) ==
    /\ pc # "down"
    /\ requests < MaxRequests
    /\ requests' = requests + 1
    /\ \/ /\ rows[a].status = "failed"
          /\ calls' = calls \cup
                {[n |-> requests', step |-> "enqueue", copy |-> CopyOf(a)]}
          /\ UNCHANGED answers
       \/ /\ rows[a] = NoRow
          /\ calls' = calls \cup
                {[n |-> requests', step |-> "create",
                  copy |-> [album |-> a, id |-> requests', attempts |-> 0]]}
          /\ UNCHANGED answers
       \/ /\ rows[a].status \notin {"none", "failed"}
          /\ Say(a, rows[a].id)
          /\ UNCHANGED calls
    /\ UNCHANGED <<table, pc, worker, calm>>

\* Mutant of Create: the table has no UNIQUE index.
CreateUnchecked(call) ==
    /\ call.step = "create"
    /\ Write(call.copy, "queued")
    /\ Say(call.copy.album, call.copy.id)
    /\ calls' = calls \ {call}
    /\ UNCHANGED <<live, requests, pc, worker, calm>>

\* The UNIQUE index refuses a second row for the fingerprint.
Create(call) ==
    /\ call.step = "create"
    /\ LET a == call.copy.album IN
       \/ /\ rows[a] = NoRow
          /\ Write(call.copy, "queued")
          /\ Say(a, call.copy.id)
          /\ calls' = calls \ {call}
       \/ /\ rows[a] # NoRow
          /\ Goes(call, "refind")
          /\ UNCHANGED <<rows, answers>>
       \/ /\ DbFails
          /\ calls' = calls \ {call}
          /\ UNCHANGED <<rows, answers>>
    /\ UNCHANGED <<live, requests, pc, worker, calm>>

\* After ErrConflict the row of the other request is the answer.
Refind(call) ==
    /\ call.step = "refind"
    /\ \/ Say(call.copy.album, rows[call.copy.album].id)
       \/ DbFails /\ UNCHANGED answers
    /\ calls' = calls \ {call}
    /\ UNCHANGED <<table, requests, pc, worker, calm>>

\* Enqueue requeues the failed job it found with its attempt count.
Requeue(call) ==
    /\ call.step = "enqueue"
    /\ \/ Write(call.copy, "queued") /\ Say(call.copy.album, call.copy.id)
       \/ DbFails /\ UNCHANGED <<rows, answers>>
    /\ calls' = calls \ {call}
    /\ UNCHANGED <<live, requests, pc, worker, calm>>

-----------------------------------------------------------------------------
\* handleRetryJob: Get, RequeueFailedJob, Update.

Get(a) ==
    /\ pc # "down"
    /\ requests < MaxRequests
    /\ rows[a].status = "failed"
    /\ requests' = requests + 1
    /\ calls' = calls \cup
          {[n |-> requests', step |-> "retry",
            copy |-> [album |-> a, id |-> rows[a].id, attempts |-> 0]]}
    /\ UNCHANGED <<table, answers, pc, worker, calm>>

Retry(call) ==
    /\ call.step = "retry"
    /\ \/ Write(call.copy, "queued")
       \/ DbFails /\ UNCHANGED rows
    /\ calls' = calls \ {call}
    /\ UNCHANGED <<live, requests, answers, pc, worker, calm>>

-----------------------------------------------------------------------------
\* RequestImportForJob, of the import endpoint and the import poller, reads a
\* completed job; when import is off, skipIfPending writes the copy back.

GetCompleted(a) ==
    /\ pc # "down"
    /\ requests < MaxRequests
    /\ rows[a].status = "completed"
    /\ requests' = requests + 1
    /\ calls' = calls \cup {[n |-> requests', step |-> "skip", copy |-> CopyOf(a)]}
    /\ UNCHANGED <<table, answers, pc, worker, calm>>

Skip(call) ==
    /\ call.step = "skip"
    /\ \/ Write(call.copy, "completed")
       \/ DbFails /\ UNCHANGED rows
    /\ calls' = calls \ {call}
    /\ UNCHANGED <<live, requests, answers, pc, worker, calm>>

-----------------------------------------------------------------------------
\* Worker.Run: startup and ticks.

Start ==
    /\ pc = "down"
    /\ pc' = "list"
    /\ isolate' = FALSE
    /\ UNCHANGED <<table, clients, job, todo, calm>>

Tick ==
    /\ pc = "idle"
    /\ pc' = "list"
    /\ isolate' = TRUE
    /\ UNCHANGED <<table, clients, job, todo, calm>>

\* The select takes the cancelled context.
Leave ==
    /\ pc = "idle"
    /\ ~calm
    /\ pc' = "exited"
    /\ UNCHANGED <<table, clients, worker, calm>>

\* A tick goes on to the claim after a recovery error, startup gives up.
RecoveryGivesUp == IF isolate THEN "claim" ELSE "exited"

\* The loop of recoverPublications, its end included.
AfterRecovery == IF isolate THEN "claim" ELSE "requeueRunning"

RecoverNext == pc' = IF todo' = {} THEN AfterRecovery ELSE "recover"

ListPublishing ==
    /\ pc = "list"
    /\ \/ /\ todo' = {CopyOf(a) : a \in {b \in Albums : rows[b].status = "publishing"}}
          /\ RecoverNext
       \/ /\ DbFails
          /\ pc' = RecoveryGivesUp
          /\ UNCHANGED todo
    /\ UNCHANGED <<table, clients, job, isolate, calm>>

\* The manifest at the album path decides, and a completed job goes on to the
\* import hook.  When a later attempt was cut off in its swap, the manifest of
\* an earlier publication is aside, and the job is queued again.
Recovers(copy) ==
    /\ todo' = todo \ {copy}
    /\ \/ Write(copy, "queued") /\ RecoverNext /\ job' = job
       \/ /\ copy.album \in live
          /\ Write(copy, "completed")
          /\ pc' = "recoverHook"
          /\ job' = copy

\* Mutant of RecoverJob: startup skips a publication it cannot recover.
RecoverJobSkipping(copy) ==
    /\ pc = "recover"
    /\ \/ Recovers(copy)
       \/ ~calm /\ todo' = todo \ {copy} /\ RecoverNext /\ UNCHANGED <<rows, job>>
    /\ UNCHANGED <<live, clients, isolate, calm>>

\* Mutant of RecoverJob: a tick ends at the first error, as startup does.
RecoverJobStalling(copy) ==
    /\ pc = "recover"
    /\ \/ copy.album \notin Unrecoverable /\ Recovers(copy)
       \/ /\ copy.album \in Unrecoverable \/ ~calm
          /\ pc' = IF isolate THEN "idle" ELSE "exited"
          /\ todo' = {}
          /\ UNCHANGED <<rows, job>>
    /\ UNCHANGED <<live, clients, isolate, calm>>

\* recoverPublishingJob, with the copy that was listed.  A store error of one
\* job does not keep a tick from the others; startup gives up.
RecoverJob(copy) ==
    /\ pc = "recover"
    /\ \/ copy.album \notin Unrecoverable /\ Recovers(copy)
       \/ /\ isolate
          /\ \/ (copy.album \in Unrecoverable \/ ~calm) /\ Write(copy, "failed")
             \/ DbFails /\ UNCHANGED rows
          /\ todo' = todo \ {copy}
          /\ RecoverNext
          /\ UNCHANGED job
       \/ /\ ~isolate
          /\ copy.album \in Unrecoverable \/ ~calm
          /\ pc' = "exited"
          /\ todo' = {}
          /\ UNCHANGED <<rows, job>>
    /\ UNCHANGED <<live, clients, isolate, calm>>

\* AfterSplitComplete with the copy that was completed: skipIfPending writes
\* it when import is off.  An error is only logged.
HookWrite ==
    /\ Write(job, "completed") \/ UNCHANGED rows
    /\ job' = Nobody

RecoverHook ==
    /\ pc = "recoverHook"
    /\ HookWrite
    /\ todo' = todo
    /\ RecoverNext
    /\ UNCHANGED <<live, clients, isolate, calm>>

RecoverRunning ==
    /\ pc = "requeueRunning"
    /\ \/ /\ rows' = [a \in Albums |->
                        IF rows[a].status = "running"
                        THEN [rows[a] EXCEPT !.status = "queued"] ELSE rows[a]]
          /\ pc' = "idle"
       \/ DbFails /\ pc' = "exited" /\ UNCHANGED rows
    /\ UNCHANGED <<live, clients, worker, calm>>

-----------------------------------------------------------------------------
\* Worker.runOnce and JobRunner.RunJob, statement by statement.

\* Worker statement: on success the job's row becomes its copy with a status.
Update(status, next, onError) ==
    \/ Write(job, status) /\ pc' = next
    \/ DbFails /\ pc' = onError /\ UNCHANGED rows

\* ClaimNextQueued takes the oldest queued job, in one statement.
Claim ==
    /\ pc = "claim"
    /\ \/ \E a \in Albums :
            /\ rows[a].status = "queued"
            /\ \A b \in Albums : rows[b].status = "queued" => rows[a].id <= rows[b].id
            /\ rows' = [rows EXCEPT ![a].status = "running"]
            /\ job' = CopyOf(a)
            /\ pc' = IF rows[a].attempts >= MaxAttempts THEN "exhausted" ELSE "begin"
       \/ /\ DbFails \/ \A a \in Albums : rows[a].status # "queued"
          /\ pc' = "idle"
          /\ UNCHANGED <<rows, job>>
    /\ UNCHANGED <<live, clients, todo, isolate, calm>>

Exhausted ==
    /\ pc = "exhausted"
    /\ Update("failed", "idle", "idle")
    /\ job' = Nobody
    /\ UNCHANGED <<live, clients, todo, isolate, calm>>

\* BeginAttempt, persisted before any work.
Begin ==
    /\ pc = "begin"
    /\ LET begun == [job EXCEPT !.attempts = @ + 1] IN
       \/ /\ Write(begun, "running")
          /\ job' = begun
          /\ pc' = "work"
       \/ /\ DbFails
          /\ pc' = "apply"
          /\ UNCHANGED <<rows, job>>
    /\ UNCHANGED <<live, clients, todo, isolate, calm>>

\* Preflight, staging, split and verification succeed or fail.
Work ==
    /\ pc = "work"
    /\ pc' \in {"intent", "failJob"}
    /\ UNCHANGED <<table, clients, worker, calm>>

Intent ==
    /\ pc = "intent"
    /\ Update("publishing", "publish", "failJob")
    /\ UNCHANGED <<live, clients, worker, calm>>

\* PublishTracks and the cleanup: published, or not, or published with the
\* staging directory left for recovery (ErrPublicationPending).
Publish ==
    /\ pc = "publish"
    /\ \/ live' = live \cup {job.album} /\ pc' = "complete" /\ job' = job
       \/ ~calm /\ live' = live \cup {job.album} /\ pc' = "idle" /\ job' = Nobody
       \/ ~calm /\ live' = live /\ pc' = "failJob" /\ job' = job
    /\ UNCHANGED <<rows, clients, todo, isolate, calm>>

Complete ==
    /\ pc = "complete"
    /\ Update("completed", "hook", "idle")
    /\ job' = IF pc' = "hook" THEN job ELSE Nobody
    /\ UNCHANGED <<live, clients, todo, isolate, calm>>

\* The same for the job that was just run.
Hook ==
    /\ pc = "hook"
    /\ HookWrite
    /\ pc' = "idle"
    /\ UNCHANGED <<live, clients, todo, isolate, calm>>

FailJob ==
    /\ pc = "failJob"
    /\ Update("failed", "apply", "apply")
    /\ UNCHANGED <<live, clients, worker, calm>>

\* ApplyAttemptFailure.
ApplyFailure ==
    /\ pc = "apply"
    /\ LET n == IF job.attempts < 1 THEN 1 ELSE job.attempts IN
       \/ Write([job EXCEPT !.attempts = n], IF n < MaxAttempts THEN "queued" ELSE "failed")
       \/ DbFails /\ UNCHANGED rows
    /\ pc' = "idle"
    /\ job' = Nobody
    /\ UNCHANGED <<live, clients, todo, isolate, calm>>

-----------------------------------------------------------------------------
\* The process and its environment.

ProcessEnds ==
    /\ pc # "down"
    /\ pc = "exited" \/ ~calm
    /\ pc' = "down"
    /\ calls' = {}
    /\ job' = Nobody
    /\ todo' = {}
    /\ UNCHANGED <<table, requests, answers, isolate, calm>>

CalmDown ==
    /\ ~calm
    /\ calm' = TRUE
    /\ UNCHANGED <<table, clients, pc, worker>>

Request == \E a \in Albums : Find(a) \/ Get(a) \/ GetCompleted(a)

Answering ==
    \E call \in calls :
        Create(call) \/ Refind(call) \/ Requeue(call) \/ Retry(call) \/ Skip(call)

Worker ==
    \/ Tick \/ Leave \/ ListPublishing \/ RecoverRunning
    \/ RecoverHook \/ \E copy \in todo : RecoverJob(copy)
    \/ Claim \/ Exhausted \/ Begin \/ Work \/ Intent \/ Publish \/ Complete
    \/ Hook \/ FailJob \/ ApplyFailure

Next == Request \/ Answering \/ Start \/ Worker \/ ProcessEnds \/ CalmDown

Spec == Init /\ [][Next]_vars

\* A state that is reached: one album has just been enqueued, for the first
\* time, and the process has ended.
Enqueued(a) ==
    /\ rows = [b \in Albums |-> IF b = a THEN [id |-> 1, status |-> "queued", attempts |-> 0]
                               ELSE NoRow]
    /\ live = {}
    /\ calls = {}
    /\ requests = 1
    /\ answers = {[album |-> a, id |-> 1]}
    /\ pc = "down"
    /\ job = Nobody
    /\ todo = {}
    /\ isolate = FALSE
    /\ calm = FALSE

\* The worker goroutine and the request goroutines are scheduled, and a
\* process that ended is started again.
Fairness ==
    /\ WF_vars(Worker)
    /\ WF_vars(Start)
    /\ WF_vars(Answering)
    /\ WF_vars(pc = "exited" /\ ProcessEnds)

FairSpec == Spec /\ Fairness

-----------------------------------------------------------------------------
\* What the queue is for.

\* One job per album: requests that race between the find and the insert all
\* answer with the same job, the one that is and stays in the table.
OneJobPerAlbum == \A x \in answers : x.id = rows[x.album].id

\* Whatever copy is going to be written back, however old it is, belongs to
\* the row it will overwrite: no job is written over another one, or into a
\* row that is not there.
InRun == {"exhausted", "begin", "work", "intent", "publish", "complete", "hook",
          "failJob", "apply"}

HeldCopies ==
    todo \cup {call.copy : call \in {k \in calls : k.step \in {"enqueue", "retry", "skip"}}}
         \cup IF pc \in InRun \cup {"recoverHook"} THEN {job} ELSE {}

Matches(copy) == copy.id # 0 /\ copy.id = rows[copy.album].id

CopiesMatchRows == \A copy \in HeldCopies : Matches(copy)

\* Startup is fail-closed (comment on recoverPublications): the worker does
\* not get to the queue while a publication is unsettled.
StartupSettlesPublications ==
    pc = "requeueRunning" => \A a \in Albums : rows[a].status # "publishing"

\* A running row is the job in the worker's hands: no tick whose statements
\* succeed leaves one behind that only a restart would find.  It is not so with
\* DbFaults, and a theorem without them.
NoOrphanRunning ==
    pc \in {"idle", "claim"} => \A a \in Albums : rows[a].status # "running"

\* One bad publication never stalls the queue (same comment): once the worker
\* loop runs and faults stop, every queued job is settled, also next to jobs
\* that fail for ever and publications that cannot be recovered.
QueueDrains ==
    \A a \in Albums :
        (calm /\ pc = "idle" /\ rows[a].status = "queued")
            ~> rows[a].status \in {"completed", "failed"}

-----------------------------------------------------------------------------
\* The inductive invariant.

\* A row, once there, keeps its id: whoever writes it holds that id.
IdsInv ==
    /\ \A a \in Albums : rows[a] = NoRow \/ (rows[a].id # 0 /\ rows[a].status # "none")
    /\ CopiesMatchRows
    /\ \A call \in calls :
        /\ call.step = "create" => call.copy.id # 0
        /\ call.step = "refind" => rows[call.copy.album].id # 0
    /\ \A x \in answers : x.id # 0 /\ x.id = rows[x.album].id

\* What startup has not settled yet is on its list.
StartupInv ==
    /\ StartupSettlesPublications
    /\ pc \in {"recover", "recoverHook"} /\ ~isolate =>
        \A a \in Albums : rows[a].status = "publishing" => \E copy \in todo : copy.album = a

IInv == TypeOK /\ IdsInv /\ StartupInv

\* Without store faults: who knows of a running row.
RunningInv ==
    /\ \A a \in Albums : rows[a].status = "running" =>
        \/ pc \in InRun /\ job.album = a
        \/ pc \in {"down", "exited", "requeueRunning"}
        \/ pc \in {"list", "recover", "recoverHook"} /\ ~isolate
    /\ pc \in {"publish", "hook"} => rows[job.album].status # "running"
=============================================================================

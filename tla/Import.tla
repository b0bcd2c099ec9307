------------------------------- MODULE Import -------------------------------
(***************************************************************************)
(* The import of ONE job into Lidarr: the import columns of its row, and   *)
(* everybody who writes them: whoever requests the import (the worker      *)
(* after the split, the safety-net poller, the import endpoint), and       *)
(* whoever writes the whole row: the worker in a run of the job, and every *)
(* request that queues it again, with a copy however old.                  *)
(*                                                                         *)
(*   internal/app/import.go             AfterSplitComplete,                *)
(*                                      RequestImportForJob, PollPendingImports *)
(*   internal/domain/import.go          BeginImportRequest, Complete...    *)
(*   internal/adapters/store/sqlite     ClaimImport, FinishImport, Update  *)
(*   internal/app/enqueue.go, internal/adapters/http/handlers.go           *)
(*                                      Enqueue, handleRetryJob            *)
(*   internal/app/run.go, worker.go, publication_recovery.go               *)
(*                                      the statements of a run            *)
(*   cmd/cuearr/main.go                 runImportPoller, waitForImportPoll *)
(*                                                                         *)
(* Of a run only what it writes is here: modules Publication and JobQueue  *)
(* say when.  A copy of a job that is not completed has empty import       *)
(* columns (JobInv), and so has the row it is written over the whole of.   *)
(*                                                                         *)
(* Nobody holds a lock while Lidarr is asked.  The claim in the row is a   *)
(* lease: it keeps others away for Cooldown, and the result is written     *)
(* back only over the claim it belongs to.                                 *)
(*                                                                         *)
(* Time is discrete and relative: the age of the claim in the row, and for *)
(* every actor the time since it read the clock.  import_requested_at, as  *)
(* the identity of a claim, is the claim's number: time stamps have a      *)
(* resolution of a nanosecond.  A death of the process and its restart are *)
(* one step; a graceful shutdown is statements and requests that fail,     *)
(* followed by that step.                                                  *)
(***************************************************************************)
EXTENDS Naturals

CONSTANTS
    Manual,          \* goroutines that serve the import endpoint
    Cooldown,        \* ImportRequestCooldown
    MaxLag,          \* longest time from reading the clock to the last write
    Polls,           \* which of LidarrPollIntervalSec > 0 and <= 0 are ever set
    MaxClaims,       \* bound: no new actors after so many claims
    MaxRequeues      \* bound: requests that find the job failed

ASSUME ManualAssumption   == "worker" \notin Manual /\ "poller" \notin Manual
ASSUME CooldownAssumption == Cooldown \in Nat \ {0}
ASSUME MaxLagAssumption   == MaxLag \in Nat
ASSUME PollsAssumption    == Polls \in SUBSET BOOLEAN
ASSUME MaxClaimsAssumption == MaxClaims \in Nat
ASSUME MaxRequeuesAssumption == MaxRequeues \in Nat

VARIABLES
    row,             \* the job's status and its import columns
    stale,           \* copies of the failed job that requests will write queued
    requeues,        \* such copies made so far (bounded by MaxRequeues)
    runs,            \* history: how often the job was completed
    act,             \* per actor: [step, importing, polls, lag, claim, result, run]
    importing,       \* settings: import is enabled, configured, not in place
    polling,         \* settings: the poll interval is positive
    claims,          \* claims made so far; the latest one's number
    accepted,        \* claims whose request Lidarr answered with success
    calm             \* no further fault, crash or change of settings

jobvars  == <<stale, requeues, runs>>
settings == <<importing, polling>>
vars     == <<row, jobvars, act, settings, claims, accepted, calm>>

Actors == {"worker", "poller"} \cup Manual

MaxAge == Cooldown + MaxLag     \* an older claim is not told from this one

JobStatus == {"queued", "running", "publishing", "failed", "completed"}
Status == {"none", "requested", "imported", "failed", "skipped"}
Row    == [job : JobStatus, status : Status, claim : Nat, age : 0 .. MaxAge]
Steps  == {"idle", "run", "hook", "waiting", "list", "get", "skip", "claim", "send",
           "finish"}
Result == {"imported", "failed"}
Actor  == [step : Steps, importing : BOOLEAN, polls : BOOLEAN,
           lag : 0 .. MaxLag, claim : Nat, result : Result, run : Nat]

\* What a whole copy of the row is, of a job whose import nobody has touched.
Fresh(job) == [job |-> job, status |-> "none", claim |-> 0, age |-> 0]

\* An actor that has read the clock, and one that has claimed.
Timed(a)    == act[a].step \in {"claim", "send", "finish"}
InFlight(a) == act[a].step \in {"send", "finish"}

\* It claimed since the job was last completed.
OfThisRun(a) == InFlight(a) /\ act[a].run = runs

TypeOK ==
    /\ row \in Row
    /\ stale \in Nat
    /\ requeues \in Nat
    /\ runs \in Nat
    /\ act \in [Actors -> Actor]
    /\ importing \in BOOLEAN
    /\ polling \in BOOLEAN
    /\ claims \in Nat
    /\ accepted \in SUBSET Nat
    /\ calm \in BOOLEAN

\* An actor with a snapshot s of the settings, and one with a claim.
At(step, s) ==
    [step |-> step, importing |-> s, polls |-> FALSE, lag |-> 0, claim |-> 0,
     result |-> "failed", run |-> 0]

Holding(step, a, n, result, run) ==
    [step |-> step, importing |-> FALSE, polls |-> FALSE, lag |-> act[a].lag,
     claim |-> n, result |-> result, run |-> run]

Resting == At("idle", FALSE)

\* The job was just enqueued.
Init ==
    /\ row = Fresh("queued")
    /\ stale = 0
    /\ requeues = 0
    /\ runs = 0
    /\ act = [a \in Actors |-> Resting]
    /\ importing \in BOOLEAN
    /\ polling \in Polls
    /\ claims = 0
    /\ accepted = {}
    /\ calm = FALSE

Becomes(a, actor) == act' = [act EXCEPT ![a] = actor]
Ends(a)           == Becomes(a, Resting)

-----------------------------------------------------------------------------
\* The runs of the job, by what they write: the whole row from the worker's
\* copy, whatever the row says by now.  A statement that fails writes nothing.

Worker(from, to) ==
    /\ act["worker"].step = from
    /\ Becomes("worker", At(to, FALSE))

\* ClaimNextQueued, or ListPublishing and recoverPublishingJob.
TakeUp ==
    /\ Worker("idle", "run")
    /\ \/ row.job = "queued" /\ row' = [row EXCEPT !.job = "running"]
       \/ row.job = "publishing" /\ row' = row
    /\ UNCHANGED <<jobvars, settings, claims, accepted, calm>>

\* BeginAttempt, the publication intent, failJob.
Working ==
    /\ Worker("run", "run")
    /\ row' \in {Fresh("running"), Fresh("publishing"), Fresh("failed")}
    /\ UNCHANGED <<jobvars, settings, claims, accepted, calm>>

\* ApplyAttemptFailure, an exhausted budget, a recovery that failed or that
\* found nothing published; or the run ends without a statement that succeeds.
GiveUp ==
    /\ Worker("run", "idle")
    /\ \/ row' \in {Fresh("queued"), Fresh("failed")}
       \/ ~calm /\ row' = row
    /\ UNCHANGED <<jobvars, settings, claims, accepted, calm>>

\* RunJob or recoverPublishingJob completes the job and goes on to the hook.
Complete ==
    /\ Worker("run", "hook")
    /\ row' = Fresh("completed")
    /\ runs' = runs + 1
    /\ UNCHANGED <<stale, requeues, settings, claims, accepted, calm>>

\* Enqueue or handleRetryJob finds the job failed ...
ReadFailed ==
    /\ row.job = "failed"
    /\ requeues < MaxRequeues
    /\ stale' = stale + 1
    /\ requeues' = requeues + 1
    /\ UNCHANGED <<row, runs, act, settings, claims, accepted, calm>>

\* ... and later writes its copy as queued, over a job that may have been
\* completed and imported since.
WriteQueued ==
    /\ stale > 0
    /\ stale' = stale - 1
    /\ row' = Fresh("queued") \/ (~calm /\ row' = row)
    /\ UNCHANGED <<requeues, runs, act, settings, claims, accepted, calm>>

-----------------------------------------------------------------------------
\* AfterSplitComplete, with settings s and a job whose import status is found.

\* In place, disabled or not configured: a job nobody has touched is skipped,
\* skipIfPending leaves any other alone.  Otherwise the clock is read.
AfterSplitComplete(a, s, found) ==
    Becomes(a, IF s THEN At("claim", s)
               ELSE IF found = "none" THEN At("skip", s)
               ELSE Resting)

\* RunJob and recoverPublishingJob call it with the copy they completed.
Hook ==
    /\ act["worker"].step = "hook"
    /\ AfterSplitComplete("worker", importing, "none")
    /\ UNCHANGED <<row, jobvars, settings, claims, accepted, calm>>

\* SkipImport and Update: the whole row, from the copy that was read.
Skip(a) ==
    /\ act[a].step = "skip"
    /\ \/ row' = [Fresh("completed") EXCEPT !.status = "skipped"]
       \/ ~calm /\ row' = row
    /\ Ends(a)
    /\ UNCHANGED <<jobvars, settings, claims, accepted, calm>>

\* Mutant of MayClaim: the cooldown is not looked at.
MayClaimImpatient(lag) == row.status \in {"none", "failed", "requested"}

\* Mutant of MayClaim: an import that succeeded can be requested again.
MayClaimAgain(lag) ==
    \/ row.status \in {"none", "failed", "imported"}
    \/ row.status = "requested" /\ row.age >= Cooldown + lag

\* BeginImportRequest at a time that was read lag ago.  ClaimImport asks
\* before whether the job is completed.
MayClaim(lag) ==
    \/ row.status \in {"none", "failed"}
    \/ row.status = "requested" /\ row.age >= Cooldown + lag

\* Mutant of Claim: import_requested_at is left out of the UPDATE.
ClaimUnstamped(a) ==
    /\ act[a].step = "claim"
    /\ \/ /\ row.job = "completed" /\ MayClaim(act[a].lag)
          /\ claims' = claims + 1
          /\ row' = [row EXCEPT !.status = "requested", !.claim = claims']
          /\ Becomes(a, Holding("send", a, claims', "failed", runs))
       \/ /\ row.job # "completed" \/ ~MayClaim(act[a].lag)
          /\ Ends(a)
          /\ UNCHANGED <<row, claims>>
    /\ UNCHANGED <<jobvars, settings, accepted, calm>>

\* Store.ClaimImport, in one transaction.
Claim(a) ==
    /\ act[a].step = "claim"
    /\ \/ /\ row.job = "completed" /\ MayClaim(act[a].lag)
          /\ claims' = claims + 1
          /\ row' = [job |-> "completed", status |-> "requested", claim |-> claims',
                     age |-> act[a].lag]
          /\ Becomes(a, Holding("send", a, claims', "failed", runs))
       \/ /\ row.job # "completed" \/ ~MayClaim(act[a].lag) \/ ~calm
          /\ Ends(a)
          /\ UNCHANGED <<row, claims>>
    /\ UNCHANGED <<jobvars, settings, accepted, calm>>

\* Mutant of Send: a request counts as accepted once it is sent.
SendOptimistic(a) ==
    /\ act[a].step = "send"
    /\ accepted' \in {accepted, accepted \cup {act[a].claim}}
    /\ Becomes(a, Holding("finish", a, act[a].claim, "imported", act[a].run))
    /\ UNCHANGED <<row, jobvars, settings, claims, calm>>

\* LidarrClient.RequestImport.  It fails when Lidarr refuses, and also when
\* an answer does not arrive.
Send(a) ==
    /\ act[a].step = "send"
    /\ \/ /\ accepted' = accepted \cup {act[a].claim}
          /\ Becomes(a, Holding("finish", a, act[a].claim, "imported", act[a].run))
       \/ /\ ~calm
          /\ Becomes(a, Holding("finish", a, act[a].claim, "failed", act[a].run))
          /\ UNCHANGED accepted
    /\ UNCHANGED <<row, jobvars, settings, claims, calm>>

\* Mutant of FinishImport: the claim is not compared.
FinishImportBlindly(a) ==
    /\ act[a].step = "finish"
    /\ row' = [row EXCEPT !.status = act[a].result, !.age = 0]
    /\ Ends(a)
    /\ UNCHANGED <<jobvars, settings, claims, accepted, calm>>

\* Store.FinishImport: only over the claim that was made.
FinishImport(a) ==
    /\ act[a].step = "finish"
    /\ \/ /\ row.status = "requested" /\ row.claim = act[a].claim
          /\ row' = [row EXCEPT !.status = act[a].result, !.age = 0]
       \/ /\ ~calm \/ row.status # "requested" \/ row.claim # act[a].claim
          /\ row' = row
    /\ Ends(a)
    /\ UNCHANGED <<jobvars, settings, claims, accepted, calm>>

-----------------------------------------------------------------------------
\* Who else calls it.

\* No new work is begun when the bound on claims is reached.
Begins == calm \/ claims < MaxClaims

\* handleImportJob: a snapshot of the settings, then RequestImportForJob.
Request(m) ==
    /\ act[m].step = "idle"
    /\ ~calm /\ Begins
    /\ Becomes(m, At("get", importing))
    /\ UNCHANGED <<row, jobvars, settings, claims, accepted, calm>>

\* RequestImportForJob reads the row, and gives up on a job that is not, or
\* not any more, completed.
Get(a) ==
    /\ act[a].step = "get"
    /\ \/ row.job = "completed" /\ AfterSplitComplete(a, act[a].importing, row.status)
       \/ (row.job # "completed" \/ ~calm) /\ Ends(a)
    /\ UNCHANGED <<row, jobvars, settings, claims, accepted, calm>>

\* waitForImportPoll takes its snapshot before it waits ...
Waiting == [At("waiting", importing) EXCEPT !.polls = polling]

Wait ==
    /\ act["poller"].step = "idle"
    /\ Becomes("poller", Waiting)
    /\ UNCHANGED <<row, jobvars, settings, claims, accepted, calm>>

\* Mutant of WaitAgain: without an interval only the end of the process is
\* waited for.
WaitAgainTimed ==
    /\ act["poller"].step = "waiting" /\ act["poller"].polls
    /\ act["poller"] # Waiting
    /\ Becomes("poller", Waiting)
    /\ UNCHANGED <<row, jobvars, settings, claims, accepted, calm>>

\* ... takes another one when the settings change ...
WaitAgain ==
    /\ act["poller"].step = "waiting"
    /\ act["poller"] # Waiting
    /\ Becomes("poller", Waiting)
    /\ UNCHANGED <<row, jobvars, settings, claims, accepted, calm>>

\* ... and returns the one it has when the timer fires; there is none without
\* an interval.  When both are ready, select chooses either.
Poll ==
    /\ act["poller"].step = "waiting" /\ act["poller"].polls
    /\ Begins
    /\ Becomes("poller", At("list", act["poller"].importing))
    /\ UNCHANGED <<row, jobvars, settings, claims, accepted, calm>>

\* ListPendingImports: also a claim older than the cooldown.
Pending ==
    /\ row.job = "completed"
    /\ \/ row.status \in {"none", "failed"}
       \/ row.status = "requested" /\ row.age >= Cooldown

List ==
    /\ act["poller"].step = "list"
    /\ \/ Pending /\ Becomes("poller", At("get", act["poller"].importing))
       \/ (~Pending \/ ~calm) /\ Ends("poller")
    /\ UNCHANGED <<row, jobvars, settings, claims, accepted, calm>>

-----------------------------------------------------------------------------
\* The environment.

\* PUT /settings.
ChangeSettings ==
    /\ ~calm
    /\ importing' \in BOOLEAN /\ polling' \in Polls
    /\ UNCHANGED <<row, jobvars, act, claims, accepted, calm>>

\* Nobody takes longer than MaxLag.
Tick ==
    /\ \A a \in Actors : Timed(a) => act[a].lag < MaxLag
    /\ act' = [a \in Actors |->
                 IF Timed(a) THEN [act[a] EXCEPT !.lag = @ + 1] ELSE act[a]]
    /\ row' = IF row.status = "requested" /\ row.age < MaxAge
              THEN [row EXCEPT !.age = @ + 1] ELSE row
    /\ UNCHANGED <<jobvars, settings, claims, accepted, calm>>

\* The process dies and is started again: requests and their copies are gone,
\* RecoverRunning queues a running job, and the worker takes the job up again
\* unless it is completed or failed.
Restart ==
    /\ ~calm
    /\ act' = [a \in Actors |-> Resting]
    /\ row' = IF row.job = "running" THEN [row EXCEPT !.job = "queued"] ELSE row
    /\ stale' = 0
    /\ UNCHANGED <<requeues, runs, settings, claims, accepted, calm>>

CalmDown ==
    /\ ~calm
    /\ calm' = TRUE
    /\ UNCHANGED <<row, jobvars, act, settings, claims, accepted>>

Step(a) == Get(a) \/ Skip(a) \/ Claim(a) \/ Send(a) \/ FinishImport(a)

Poller == Wait \/ WaitAgain \/ Poll \/ List \/ Step("poller")

Run == TakeUp \/ Working \/ GiveUp \/ Complete

Next ==
    \/ Run \/ Hook \/ Step("worker")
    \/ ReadFailed \/ WriteQueued
    \/ Poller
    \/ \E m \in Manual : Request(m) \/ Step(m)
    \/ ChangeSettings \/ Tick \/ Restart \/ CalmDown

Spec == Init /\ [][Next]_vars

\* Goroutines are scheduled and time passes.  Nothing is assumed of runs.
Fairness ==
    /\ WF_vars(Hook \/ Step("worker"))
    /\ WF_vars(Poller)
    /\ \A m \in Manual : WF_vars(Step(m))
    /\ WF_vars(Tick)

FairSpec == Spec /\ Fairness

-----------------------------------------------------------------------------
\* What the lease is for.

\* For every time the job is completed, while a request is unanswered nobody
\* else asks Lidarr for the album: the claim's cooldown (two minutes) outlives
\* whoever made the claim (thirty seconds of HTTP timeout and two statements).
\* A stale requeue empties the claim's columns, but also the job's status, and
\* no claim is made before the job is completed again; then the hook asks again
\* whatever became of the earlier request.
OneRequestAtATime ==
    \A a, b \in Actors :
        InFlight(a) /\ InFlight(b) /\ act[a].run = act[b].run => a = b

\* Once the row says "imported", nobody whose claim was made since the job was
\* completed is asking Lidarr, and until the job is completed once more nobody
\* ever does: not the poller, not the import endpoint, not one who looked at the
\* row before.  (A stale skip may still overwrite the status, and a stale requeue
\* the whole row; after the latter the job is run, and Lidarr asked, again.)
Closed ==
    /\ row.job # "completed" \/ row.status \in {"imported", "skipped"}
    /\ \A a \in Actors : ~OfThisRun(a)

NeverAskedAgain ==
    [][/\ row.status = "imported" => Closed
       /\ Closed /\ runs' = runs => Closed']_vars

\* An outcome in the row is that of the latest claim, however late the answer
\* to an older one arrives: a result is written over its own claim only.
OutcomeIsLatest ==
    row.status \in {"imported", "failed"} =>
        /\ row.claim = claims
        /\ row.status = "imported" <=> claims \in accepted

\* With the poller on at last and Lidarr well, the import of a job ends up
\* imported (or skipped, when a change of settings was in between) and stays so
\* while the job is completed, also when the process died, or the store failed,
\* between the claim and its outcome, after every stale requeue, and when the
\* poller was off before: it waits for a change of the settings then.
ImportSettles ==
    (calm /\ importing /\ polling)
        ~> [](row.job = "completed" => row.status \in {"imported", "skipped"})

-----------------------------------------------------------------------------
\* The inductive invariants.

\* Whoever writes the row of a job that is not completed leaves its import
\* columns empty.
JobInv == row.status # "none" => row.job = "completed"

\* Why two requests of a run are never in flight, if MaxLag < Cooldown: while
\* one is, the row carries its claim, as old as the time since its clock was
\* read, or is skipped, or the job was queued again; none can be claimed.
ClaimKept ==
    \A a \in Actors : OfThisRun(a) =>
        \/ row.job # "completed"
        \/ row.status = "skipped"
        \/ row.status = "requested" /\ row.claim = act[a].claim /\ row.age = act[a].lag

RunsInv == \A a \in Actors : InFlight(a) => act[a].run <= runs

Lease == RunsInv /\ OneRequestAtATime /\ ClaimKept

\* Why an outcome is that of the latest claim, whatever MaxLag is: every claim
\* is in the hands of one actor, who knows whether Lidarr accepted it.
ClaimsInv ==
    /\ \A n \in accepted : n <= claims
    /\ row.status \in {"requested", "imported", "failed"} => row.claim = claims
    /\ \A a \in Actors : InFlight(a) =>
        /\ act[a].claim <= claims
        /\ act[a].claim = claims => row.status \notin {"imported", "failed"}
        /\ \A b \in Actors : InFlight(b) /\ act[b].claim = act[a].claim => b = a
    /\ \A a \in Actors : act[a].step = "send" => act[a].claim \notin accepted
    /\ \A a \in Actors : act[a].step = "finish" =>
        (act[a].result = "imported" <=> act[a].claim \in accepted)

IInv == TypeOK /\ JobInv /\ ClaimsInv /\ OutcomeIsLatest

-----------------------------------------------------------------------------
\* What a document says and the code does not do.

\* Design document of the import (docs/superpowers/specs), line 59: "skipped"
\* comes after "none", never over a request or an outcome.
SkippedFromNone ==
    [][row'.status = "skipped" => row.status \in {"none", "skipped"}]_vars
=============================================================================

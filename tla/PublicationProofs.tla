--------------------------- MODULE PublicationProofs ---------------------------
(***************************************************************************)
(* Theorems about Publication, for every set of tracks, every retry budget *)
(* and any number of clients and requests.                                 *)
(*                                                                         *)
(* IInv is the inductive invariant.  Its five parts are preserved by every *)
(* step, one lemma each (TypeOKStep, BudgetStep, DiskStep, CompletedStep,  *)
(* QueueInvStep), with a case per action.  The safety properties are       *)
(* consequences of it, and so are the refinements: given IInv, a step      *)
(* publishes, hides or restores the album of AlbumView or leaves it as it  *)
(* is, and is a step of JobQueue with one album or changes nothing there.  *)
(***************************************************************************)
EXTENDS Publication, TLAPS

\* What is known of the absence of a directory.
LEMMA NoDirFacts ==
    /\ NoDir \in Dir
    /\ NoDir.ver = 0 /\ NoDir.tracks = {} /\ NoDir.manifest = FALSE
  BY DEF NoDir, Dir

\* A failed RemoveAll leaves a directory of the same version, or none where
\* there was none, with no more tracks than before.
LEMMA LeftoversFacts ==
    ASSUME NEW d \in Dir, NEW l \in Leftovers(d)
    PROVE  /\ l \in Dir
           /\ l.ver = d.ver
           /\ l.tracks \subseteq d.tracks
  BY SMT DEF Leftovers, Dir

\* What the statements that complete a job write.
Completed ==
    /\ row'.status = "completed"
    /\ row'.attempts = held
    /\ held \in Nat => row' \in [status : Status, attempts : Nat]
    /\ stale' = FALSE

LEMMA CompletedFacts ==
    ASSUME row' = [status |-> "completed", attempts |-> held], stale' = FALSE
    PROVE  Completed
  BY DEF Completed, Status

LEMMA CompletesFacts ==
    ASSUME NEW next, NEW onError, Completes(next, onError), stale \in BOOLEAN
    PROVE  \/ Completed /\ pc' = next
           \/ row' = row /\ pc' = onError /\ stale' \in BOOLEAN /\ (stale' => stale)
                         /\ (pc' = next \/ stale' = stale)
  BY CompletedFacts, Zenon DEF Completes, Update

LEMMA HookWriteFacts ==
    ASSUME HookWrite
    PROVE  (row' = row /\ stale' = stale) \/ Completed
  BY CompletedFacts, Zenon DEF HookWrite

-----------------------------------------------------------------------------
\* Every step keeps every variable in its type.
LEMMA TypeOKStep ==
    ASSUME TypeOK, [Next]_vars
    PROVE  TypeOK'
  <1> USE NoDirFacts DEF TypeOK, disk, env, copy, Status, Request, NoRequest,
          Steps, RecoverSteps, SplitSteps, PublishSteps, EndSteps, LoopSteps
  <1>1. CASE Start
    BY <1>1 DEF Start
  <1>2. CASE Tick
    BY <1>2 DEF Tick
  <1>3. CASE Leave
    BY <1>3 DEF Leave
  <1>4. CASE Recovery
    <2>1. CASE ListPublishing
      BY <2>1 DEF ListPublishing, AfterRecovery, RecoveryGivesUp
    <2>2. CASE ReadManifest
      BY <2>2 DEF ReadManifest, RecoveryError
    <2>3. CASE RecoverAside
      BY <2>3, LeftoversFacts DEF RecoverAside, RecoveryError
    <2>4. CASE RecoverFinal
      BY <2>4 DEF RecoverFinal, Dir, Show, RecoveryError
    <2>5. CASE RecoverPublishing
      BY <2>5, LeftoversFacts DEF RecoverPublishing, RecoveryError
    <2>6. CASE RecoverStaging
      BY <2>6, LeftoversFacts DEF RecoverStaging, RecoveryError
    <2>7. CASE Settle
      <3>1. CASE ~complete
        BY <2>7, <3>1 DEF Settle, AfterRecovery, RecoveryGivesUp, Update
      <3>2. CASE complete
        BY <2>7, <3>2, CompletesFacts DEF Completed, Settle, AfterRecovery, RecoveryGivesUp
      <3> QED
        BY <3>1, <3>2 DEF TypeOK
    <2>8. CASE Quarantine
      BY <2>8 DEF Quarantine, Update
    <2>9. CASE RequeueRunning
      BY <2>9 DEF RequeueRunning
    <2>10. CASE RecoverHook
      BY <2>10, HookWriteFacts DEF Completed, RecoverHook, AfterRecovery
    <2> QED
      BY <1>4, <2>1, <2>2, <2>3, <2>4, <2>5, <2>6, <2>7, <2>8, <2>9, <2>10 DEF Recovery
  <1>5. CASE Attempt
    <2>1. CASE Claim
      BY <2>1 DEF Claim
    <2>2. CASE Exhausted
      BY <2>2 DEF Exhausted, Update
    <2>3. CASE Begin
      BY <2>3 DEF Begin
    <2>4. CASE Preflight
      BY <2>4 DEF Preflight
    <2>5. CASE PrepareStaging
      <3>1. CASE staging' = [ver |-> gen + 1, tracks |-> {}, manifest |-> FALSE]
        <4>1. staging' \in Dir
          BY <3>1 DEF Dir
        <4> QED
          BY <2>5, <4>1 DEF PrepareStaging
      <3>2. CASE staging' \in Leftovers(staging) \cup {NoDir} /\ UNCHANGED gen
        BY <2>5, <3>2, LeftoversFacts DEF PrepareStaging
      <3> QED
        BY <2>5, <3>1, <3>2 DEF PrepareStaging
    <2>6. CASE Split
      BY <2>6 DEF Split, Dir
    <2>7. CASE Intent
      BY <2>7 DEF Intent, Update
    <2> QED
      BY <1>5, <2>1, <2>2, <2>3, <2>4, <2>5, <2>6, <2>7 DEF Attempt
  <1>6. CASE PublishTracks
    <2>1. CASE DropLeftover
      BY <2>1, LeftoversFacts DEF DropLeftover
    <2>2. CASE CheckAside
      BY <2>2 DEF CheckAside, Dir, Show
    <2>3. CASE MakePublishing
      <3>1. publishing' \in Dir
        <4>1. CASE publishing' = [ver |-> staging.ver, tracks |-> {}, manifest |-> FALSE]
          BY <4>1 DEF Dir
        <4>2. CASE UNCHANGED publishing
          BY <4>2
        <4> QED
          BY <2>3, <4>1, <4>2 DEF MakePublishing
      <3> QED
        BY <2>3, <3>1 DEF MakePublishing
    <2>4. CASE MoveTrack
      BY <2>4 DEF MoveTrack, Dir
    <2>5. CASE WriteManifest
      <3>1. publishing' \in Dir
        BY <2>5, Zenon DEF WriteManifest, Dir
      <3> QED
        BY <2>5, <3>1 DEF WriteManifest
    <2>6. CASE SwapOut
      BY <2>6 DEF SwapOut
    <2>7. CASE Place
      BY <2>7 DEF Place, Dir, Show
    <2>8. CASE SwapIn
      BY <2>8 DEF SwapIn, Dir, Show
    <2>9. CASE Restore
      BY <2>9 DEF Restore, Dir, Show
    <2>10. CASE DropAside
      BY <2>10, LeftoversFacts DEF DropAside
    <2>11. CASE DropPublishing
      BY <2>11, LeftoversFacts DEF DropPublishing
    <2> QED
      BY <1>6, <2>1, <2>2, <2>3, <2>4, <2>5, <2>6, <2>7, <2>8, <2>9, <2>10,
         <2>11 DEF PublishTracks
  <1>7. CASE Outcome
    <2>1. CASE Cleanup
      BY <2>1, LeftoversFacts DEF Cleanup
    <2>2. CASE Complete
      BY <2>2, CompletesFacts DEF Completed, Complete
    <2>3. CASE FailCleanup
      BY <2>3, LeftoversFacts DEF FailCleanup
    <2>4. CASE FailJob
      BY <2>4 DEF FailJob, Update
    <2>5. CASE ApplyFailure
      BY <2>5 DEF ApplyFailure, Update
    <2>6. CASE Hook
      BY <2>6, HookWriteFacts DEF Completed, Hook
    <2> QED
      BY <1>7, <2>1, <2>2, <2>3, <2>4, <2>5, <2>6 DEF Outcome
  <1>8. ASSUME NEW c \in Clients, Client(c)
        PROVE  TypeOK'
    <2>1. CASE ReadFailed(c)
      BY <2>1 DEF ReadFailed
    <2>2. CASE ReadCompleted(c)
      BY <2>2 DEF ReadCompleted
    <2>3. CASE WriteRequeued(c)
      BY <2>3 DEF WriteRequeued, Writes
    <2>4. CASE WriteSkipped(c)
      BY <2>4 DEF WriteSkipped, Writes
    <2> QED
      BY <1>8, <2>1, <2>2, <2>3, <2>4 DEF Client
  <1>9. CASE Shutdown
    BY <1>9 DEF Shutdown
  <1>10. CASE ProcessEnds
    BY <1>10 DEF ProcessEnds
  <1>11. CASE CalmDown
    BY <1>11 DEF CalmDown
  <1>12. CASE UNCHANGED vars
    BY <1>12 DEF vars
  <1> QED
    BY <1>1, <1>2, <1>3, <1>4, <1>5, <1>6, <1>7, <1>8, <1>9, <1>10, <1>11, <1>12
       DEF Next, Worker

-----------------------------------------------------------------------------
\* The attempt count grows only in BeginAttempt, which the budget check of the
\* claim precedes; a requeue writes a count that was read before.
LEMMA BudgetStep ==
    ASSUME TypeOK, BudgetInv, [Next]_vars
    PROVE  BudgetInv'
  <1> USE MaxAttemptsAssumption DEF TypeOK, BudgetInv, AttemptsBounded, env,
          copy, NoRequest, Request
  <1>1. CASE Start
    BY <1>1 DEF Start
  <1>2. CASE Tick
    BY <1>2 DEF Tick
  <1>3. CASE Leave
    BY <1>3 DEF Leave
  <1>4. CASE Recovery
    <2>1. CASE ListPublishing
      BY <2>1 DEF ListPublishing, AfterRecovery, RecoveryGivesUp
    <2>2. CASE ReadManifest
      BY <2>2 DEF ReadManifest, RecoveryError
    <2>3. CASE RecoverAside
      BY <2>3 DEF RecoverAside, RecoveryError
    <2>4. CASE RecoverFinal
      BY <2>4 DEF RecoverFinal, Show, RecoveryError
    <2>5. CASE RecoverPublishing
      BY <2>5 DEF RecoverPublishing, RecoveryError
    <2>6. CASE RecoverStaging
      BY <2>6 DEF RecoverStaging, RecoveryError
    <2>7. CASE Settle
      <3>1. CASE ~complete
        BY <2>7, <3>1 DEF Settle, AfterRecovery, RecoveryGivesUp, Update
      <3>2. CASE complete
        <4>1. Completed \/ row' = row
          BY <2>7, <3>2, CompletesFacts DEF Settle
        <4>2. row'.attempts <= MaxAttempts
          BY <4>1 DEF Completed
        <4> QED
          BY <2>7, <3>2, <4>2, CompletesFacts DEF Settle, AfterRecovery, RecoveryGivesUp
      <3> QED
        BY <3>1, <3>2 DEF TypeOK
    <2>8. CASE Quarantine
      BY <2>8 DEF Quarantine, Update
    <2>9. CASE RequeueRunning
      BY <2>9 DEF RequeueRunning
    <2>10. CASE RecoverHook
      BY <2>10, HookWriteFacts DEF Completed, RecoverHook, AfterRecovery
    <2> QED
      BY <1>4, <2>1, <2>2, <2>3, <2>4, <2>5, <2>6, <2>7, <2>8, <2>9, <2>10 DEF Recovery
  <1>5. CASE Attempt
    <2>1. CASE Claim
      BY <2>1 DEF Claim
    <2>2. CASE Exhausted
      BY <2>2 DEF Exhausted, Update
    <2>3. CASE Begin
      BY <2>3 DEF Begin
    <2>4. CASE Preflight
      BY <2>4 DEF Preflight
    <2>5. CASE PrepareStaging
      BY <2>5 DEF PrepareStaging
    <2>6. CASE Split
      BY <2>6 DEF Split
    <2>7. CASE Intent
      BY <2>7 DEF Intent, Update
    <2> QED
      BY <1>5, <2>1, <2>2, <2>3, <2>4, <2>5, <2>6, <2>7 DEF Attempt
  <1>6. CASE PublishTracks
    <2>1. CASE DropLeftover
      BY <2>1 DEF DropLeftover
    <2>2. CASE CheckAside
      BY <2>2 DEF CheckAside, Show
    <2>3. CASE MakePublishing
      BY <2>3 DEF MakePublishing
    <2>4. CASE MoveTrack
      BY <2>4 DEF MoveTrack
    <2>5. CASE WriteManifest
      BY <2>5 DEF WriteManifest
    <2>6. CASE SwapOut
      BY <2>6 DEF SwapOut
    <2>7. CASE Place
      BY <2>7 DEF Place, Show
    <2>8. CASE SwapIn
      BY <2>8 DEF SwapIn, Show
    <2>9. CASE Restore
      BY <2>9 DEF Restore, Show
    <2>10. CASE DropAside
      BY <2>10 DEF DropAside
    <2>11. CASE DropPublishing
      BY <2>11 DEF DropPublishing
    <2> QED
      BY <1>6, <2>1, <2>2, <2>3, <2>4, <2>5, <2>6, <2>7, <2>8, <2>9, <2>10,
         <2>11 DEF PublishTracks
  <1>7. CASE Outcome
    <2>1. CASE Cleanup
      BY <2>1 DEF Cleanup
    <2>2. CASE Complete
      <3>1. Completed \/ row' = row
        BY <2>2, CompletesFacts DEF Complete
      <3>2. row'.attempts <= MaxAttempts
        BY <3>1 DEF Completed
      <3> QED
        BY <2>2, <3>2, CompletesFacts DEF Complete
    <2>3. CASE FailCleanup
      BY <2>3 DEF FailCleanup
    <2>4. CASE FailJob
      BY <2>4 DEF FailJob, Update
    <2>5. CASE ApplyFailure
      BY <2>5 DEF ApplyFailure, Update
    <2>6. CASE Hook
      BY <2>6, HookWriteFacts DEF Completed, Hook
    <2> QED
      BY <1>7, <2>1, <2>2, <2>3, <2>4, <2>5, <2>6 DEF Outcome
  <1>8. ASSUME NEW c \in Clients, Client(c)
        PROVE  BudgetInv'
    <2>1. CASE ReadFailed(c)
      BY <2>1 DEF ReadFailed
    <2>2. CASE ReadCompleted(c)
      BY <2>2 DEF ReadCompleted
    <2>3. CASE WriteRequeued(c)
      BY <2>3 DEF WriteRequeued, Writes
    <2>4. CASE WriteSkipped(c)
      BY <2>4 DEF WriteSkipped, Writes
    <2> QED
      BY <1>8, <2>1, <2>2, <2>3, <2>4 DEF Client
  <1>9. CASE Shutdown
    BY <1>9 DEF Shutdown
  <1>10. CASE ProcessEnds
    BY <1>10 DEF ProcessEnds
  <1>11. CASE CalmDown
    BY <1>11 DEF CalmDown
  <1>12. CASE UNCHANGED vars
    BY <1>12 DEF vars
  <1> QED
    BY <1>1, <1>2, <1>3, <1>4, <1>5, <1>6, <1>7, <1>8, <1>9, <1>10, <1>11, <1>12
       DEF Next, Worker

-----------------------------------------------------------------------------
\* The directories: at each step of the worker the album is where SwapInv and
\* BuildInv say, so no outcome of the step loses it or shows a part of it.
LEMMA DiskStep ==
    ASSUME TypeOK, TypeOK', DiskInv, [Next]_vars
    PROVE  DiskInv'
  <1> USE NoDirFacts DEF TypeOK, Exists, Whole, Dir, disk, env, copy, DiskInv,
          VersionsBounded, AlbumSafe, BuildInv, SwapInv
  <1>1. CASE Start
    BY <1>1 DEF Start
  <1>2. CASE Tick
    BY <1>2 DEF Tick
  <1>3. CASE Leave
    BY <1>3 DEF Leave
  <1>4. CASE Recovery
    <2>1. CASE ListPublishing
      BY <2>1 DEF ListPublishing, AfterRecovery, RecoveryGivesUp
    <2>2. CASE ReadManifest
      BY <2>2 DEF ReadManifest, RecoveryError
    <2>3. CASE RecoverAside
      BY <2>3, LeftoversFacts DEF RecoverAside, RecoveryError
    <2>4. CASE RecoverFinal
      <3>1. CASE Show(aside) /\ aside' = NoDir /\ pc' = "recoverPublishing"
        <4>1. Whole(aside) /\ aside.ver = seen
          BY <2>4, NoDirFacts DEF RecoverFinal
        <4>2. final' = aside /\ seen' = seen
          BY <3>1, <4>1 DEF Show
        <4> QED
          BY <2>4, <3>1, <4>1, <4>2 DEF RecoverFinal
      <3>2. CASE RecoveryError /\ UNCHANGED <<aside, final, seen>>
        BY <2>4, <3>2 DEF RecoverFinal, RecoveryError
      <3> QED
        BY <2>4, <3>1, <3>2 DEF RecoverFinal
    <2>5. CASE RecoverPublishing
      BY <2>5, LeftoversFacts DEF RecoverPublishing, RecoveryError
    <2>6. CASE RecoverStaging
      BY <2>6, LeftoversFacts DEF RecoverStaging, RecoveryError
    <2>7. CASE Settle
      BY <2>7 DEF Settle, Completes, AfterRecovery, RecoveryGivesUp, Update
    <2>8. CASE Quarantine
      BY <2>8 DEF Quarantine, Update
    <2>9. CASE RequeueRunning
      BY <2>9 DEF RequeueRunning
    <2>10. CASE RecoverHook
      BY <2>10 DEF RecoverHook, HookWrite, AfterRecovery
    <2> QED
      BY <1>4, <2>1, <2>2, <2>3, <2>4, <2>5, <2>6, <2>7, <2>8, <2>9, <2>10 DEF Recovery
  <1>5. CASE Attempt
    <2>1. CASE Claim
      BY <2>1 DEF Claim
    <2>2. CASE Exhausted
      BY <2>2 DEF Exhausted, Update
    <2>3. CASE Begin
      BY <2>3 DEF Begin
    <2>4. CASE Preflight
      BY <2>4 DEF Preflight
    <2>5. CASE PrepareStaging
      BY <2>5, LeftoversFacts DEF PrepareStaging
    <2>6. CASE Split
      BY <2>6 DEF Split
    <2>7. CASE Intent
      BY <2>7 DEF Intent, Update
    <2> QED
      BY <1>5, <2>1, <2>2, <2>3, <2>4, <2>5, <2>6, <2>7 DEF Attempt
  <1>6. CASE PublishTracks
    <2>1. CASE DropLeftover
      BY <2>1, LeftoversFacts DEF DropLeftover
    <2>2. CASE CheckAside
      BY <2>2 DEF CheckAside, Show
    <2>3. CASE MakePublishing
      BY <2>3 DEF MakePublishing
    <2>4. CASE MoveTrack
      <3>1. CASE UNCHANGED <<staging, publishing>>
        BY <2>4, <3>1 DEF MoveTrack
      <3>2. ASSUME NEW t \in staging.tracks,
                   staging' = [staging EXCEPT !.tracks = @ \ {t}],
                   publishing' = [publishing EXCEPT !.tracks = @ \cup {t}],
                   pc' = IF staging.tracks = {t} THEN "manifest" ELSE "move"
            PROVE  DiskInv'
        <4>1. /\ staging'.ver = staging.ver
              /\ staging'.tracks = staging.tracks \ {t}
              /\ publishing'.ver = publishing.ver
              /\ publishing'.tracks = publishing.tracks \cup {t}
          BY <3>2
        <4>2. publishing'.tracks \cup staging'.tracks = Tracks
          BY <2>4, <4>1 DEF MoveTrack
        <4>3. staging.tracks = {t} => publishing'.tracks = Tracks
          BY <4>1, <4>2
        <4> QED
          BY <2>4, <3>2, <4>1, <4>2, <4>3 DEF MoveTrack
      <3> QED
        BY <2>4, <3>1, <3>2 DEF MoveTrack
    <2>5. CASE WriteManifest
      BY <2>5 DEF WriteManifest
    <2>6. CASE SwapOut
      BY <2>6 DEF SwapOut
    <2>7. CASE Place
      BY <2>7 DEF Place, Show
    <2>8. CASE SwapIn
      BY <2>8 DEF SwapIn, Show
    <2>9. CASE Restore
      BY <2>9 DEF Restore, Show
    <2>10. CASE DropAside
      BY <2>10, LeftoversFacts DEF DropAside
    <2>11. CASE DropPublishing
      BY <2>11, LeftoversFacts DEF DropPublishing
    <2> QED
      BY <1>6, <2>1, <2>2, <2>3, <2>4, <2>5, <2>6, <2>7, <2>8, <2>9, <2>10,
         <2>11 DEF PublishTracks
  <1>7. CASE Outcome
    <2>1. CASE Cleanup
      BY <2>1, LeftoversFacts DEF Cleanup
    <2>2. CASE Complete
      BY <2>2 DEF Complete, Completes, Update
    <2>3. CASE FailCleanup
      BY <2>3, LeftoversFacts DEF FailCleanup
    <2>4. CASE FailJob
      BY <2>4 DEF FailJob, Update
    <2>5. CASE ApplyFailure
      BY <2>5 DEF ApplyFailure, Update
    <2>6. CASE Hook
      BY <2>6 DEF Hook, HookWrite
    <2> QED
      BY <1>7, <2>1, <2>2, <2>3, <2>4, <2>5, <2>6 DEF Outcome
  <1>8. ASSUME NEW c \in Clients, Client(c)
        PROVE  DiskInv'
    <2>1. CASE ReadFailed(c)
      BY <2>1 DEF ReadFailed
    <2>2. CASE ReadCompleted(c)
      BY <2>2 DEF ReadCompleted
    <2>3. CASE WriteRequeued(c)
      BY <2>3 DEF WriteRequeued, Writes
    <2>4. CASE WriteSkipped(c)
      BY <2>4 DEF WriteSkipped, Writes
    <2> QED
      BY <1>8, <2>1, <2>2, <2>3, <2>4 DEF Client
  <1>9. CASE Shutdown
    BY <1>9 DEF Shutdown
  <1>10. CASE ProcessEnds
    BY <1>10 DEF ProcessEnds
  <1>11. CASE CalmDown
    BY <1>11 DEF CalmDown
  <1>12. CASE UNCHANGED vars
    BY <1>12 DEF vars
  <1> QED
    BY <1>1, <1>2, <1>3, <1>4, <1>5, <1>6, <1>7, <1>8, <1>9, <1>10, <1>11, <1>12
       DEF Next, Worker

-----------------------------------------------------------------------------
\* The row says "completed" only between runs, over a published album, unless a
\* stale copy said so: Complete, Settle and the hook write it behind the
\* renames, and a run starts only from "queued".
LEMMA CompletedStep ==
    ASSUME TypeOK, DiskInv, CompletedInv, [Next]_vars
    PROVE  CompletedInv'
  <1> USE NoDirFacts DEF TypeOK, Exists, Whole, Dir, disk, env, copy, DiskInv,
          CompletedInv, SwapInv
  <1>1. CASE Start
    BY <1>1 DEF Start
  <1>2. CASE Tick
    BY <1>2 DEF Tick
  <1>3. CASE Leave
    BY <1>3 DEF Leave
  <1>4. CASE Recovery
    <2>1. CASE ListPublishing
      BY <2>1 DEF ListPublishing, AfterRecovery, RecoveryGivesUp
    <2>2. CASE ReadManifest
      BY <2>2 DEF ReadManifest, RecoveryError
    <2>3. CASE RecoverAside
      BY <2>3, LeftoversFacts DEF RecoverAside, RecoveryError
    <2>4. CASE RecoverFinal
      BY <2>4 DEF RecoverFinal, Show, RecoveryError
    <2>5. CASE RecoverPublishing
      BY <2>5, LeftoversFacts DEF RecoverPublishing, RecoveryError
    <2>6. CASE RecoverStaging
      BY <2>6, LeftoversFacts DEF RecoverStaging, RecoveryError
    <2>7. CASE Settle
      <3>1. CASE ~complete
        BY <2>7, <3>1 DEF Settle, AfterRecovery, RecoveryGivesUp, Update
      <3>2. CASE complete
        BY <2>7, <3>2, CompletesFacts DEF Completed, Settle, AfterRecovery, RecoveryGivesUp
      <3> QED
        BY <3>1, <3>2
    <2>8. CASE Quarantine
      BY <2>8 DEF Quarantine, Update
    <2>9. CASE RequeueRunning
      BY <2>9 DEF RequeueRunning
    <2>10. CASE RecoverHook
      BY <2>10 DEF RecoverHook, HookWrite, AfterRecovery
    <2> QED
      BY <1>4, <2>1, <2>2, <2>3, <2>4, <2>5, <2>6, <2>7, <2>8, <2>9, <2>10 DEF Recovery
  <1>5. CASE Attempt
    <2>1. CASE Claim
      BY <2>1 DEF Claim
    <2>2. CASE Exhausted
      BY <2>2 DEF Exhausted, Update
    <2>3. CASE Begin
      BY <2>3 DEF Begin
    <2>4. CASE Preflight
      BY <2>4 DEF Preflight
    <2>5. CASE PrepareStaging
      BY <2>5, LeftoversFacts DEF PrepareStaging
    <2>6. CASE Split
      BY <2>6 DEF Split
    <2>7. CASE Intent
      BY <2>7 DEF Intent, Update
    <2> QED
      BY <1>5, <2>1, <2>2, <2>3, <2>4, <2>5, <2>6, <2>7 DEF Attempt
  <1>6. CASE PublishTracks
    <2>1. CASE DropLeftover
      BY <2>1, LeftoversFacts DEF DropLeftover
    <2>2. CASE CheckAside
      BY <2>2 DEF CheckAside, Show
    <2>3. CASE MakePublishing
      BY <2>3 DEF MakePublishing
    <2>4. CASE MoveTrack
      BY <2>4 DEF MoveTrack
    <2>5. CASE WriteManifest
      BY <2>5 DEF WriteManifest
    <2>6. CASE SwapOut
      BY <2>6 DEF SwapOut
    <2>7. CASE Place
      BY <2>7 DEF Place, Show
    <2>8. CASE SwapIn
      BY <2>8 DEF SwapIn, Show
    <2>9. CASE Restore
      BY <2>9 DEF Restore, Show
    <2>10. CASE DropAside
      BY <2>10, LeftoversFacts DEF DropAside
    <2>11. CASE DropPublishing
      BY <2>11, LeftoversFacts DEF DropPublishing
    <2> QED
      BY <1>6, <2>1, <2>2, <2>3, <2>4, <2>5, <2>6, <2>7, <2>8, <2>9, <2>10,
         <2>11 DEF PublishTracks
  <1>7. CASE Outcome
    <2>1. CASE Cleanup
      BY <2>1, LeftoversFacts DEF Cleanup
    <2>2. CASE Complete
      BY <2>2, CompletesFacts DEF Completed, Complete
    <2>3. CASE FailCleanup
      BY <2>3, LeftoversFacts DEF FailCleanup
    <2>4. CASE FailJob
      BY <2>4 DEF FailJob, Update
    <2>5. CASE ApplyFailure
      BY <2>5 DEF ApplyFailure, Update
    <2>6. CASE Hook
      BY <2>6 DEF Hook, HookWrite
    <2> QED
      BY <1>7, <2>1, <2>2, <2>3, <2>4, <2>5, <2>6 DEF Outcome
  <1>8. ASSUME NEW c \in Clients, Client(c)
        PROVE  CompletedInv'
    <2>1. CASE ReadFailed(c)
      BY <2>1 DEF ReadFailed
    <2>2. CASE ReadCompleted(c)
      BY <2>2 DEF ReadCompleted
    <2>3. CASE WriteRequeued(c)
      BY <2>3 DEF WriteRequeued, Writes
    <2>4. CASE WriteSkipped(c)
      BY <2>4 DEF WriteSkipped, Writes
    <2> QED
      BY <1>8, <2>1, <2>2, <2>3, <2>4 DEF Client
  <1>9. CASE Shutdown
    BY <1>9 DEF Shutdown
  <1>10. CASE ProcessEnds
    BY <1>10 DEF ProcessEnds
  <1>11. CASE CalmDown
    BY <1>11 DEF CalmDown
  <1>12. CASE UNCHANGED vars
    BY <1>12 DEF vars
  <1> QED
    BY <1>1, <1>2, <1>3, <1>4, <1>5, <1>6, <1>7, <1>8, <1>9, <1>10, <1>11, <1>12
       DEF Next, Worker

-----------------------------------------------------------------------------
\* Recovery of a publication is called off to the quarantine in a tick only,
\* and a request keeps the number it was given.
LEMMA QueueInvStep ==
    ASSUME TypeOK, QueueInv, [Next]_vars
    PROVE  QueueInv'
  <1> USE DEF QueueInv, env, copy
  <1>1. CASE Start \/ Tick \/ Leave
    BY <1>1 DEF Start, Tick, Leave
  <1>2. CASE Recovery
    <2>1. CASE ListPublishing \/ Settle \/ RecoverHook \/ Quarantine \/ RequeueRunning
      BY <2>1 DEF ListPublishing, Settle, Completes, RecoverHook, Quarantine, RequeueRunning,
                  AfterRecovery, RecoveryGivesUp, Update
    <2>2. CASE ReadManifest \/ RecoverAside \/ RecoverFinal \/ RecoverPublishing
               \/ RecoverStaging
      BY <2>2 DEF ReadManifest, RecoverAside, RecoverFinal, RecoverPublishing,
                  RecoverStaging, RecoveryError
    <2> QED
      BY <1>2, <2>1, <2>2 DEF Recovery
  <1>3. CASE Attempt
    BY <1>3 DEF Attempt, Claim, Exhausted, Begin, Preflight, PrepareStaging, Split, Intent,
                Update
  <1>4. CASE PublishTracks
    BY <1>4 DEF PublishTracks, DropLeftover, CheckAside, MakePublishing, MoveTrack,
       WriteManifest, SwapOut, Place, SwapIn, Restore, DropAside, DropPublishing
  <1>5. CASE Outcome
    BY <1>5 DEF Outcome, Cleanup, Complete, Completes, Hook, FailCleanup, FailJob,
                ApplyFailure, Update
  <1>6. ASSUME NEW c \in Clients, ReadFailed(c) \/ ReadCompleted(c)
        PROVE  QueueInv'
    <2>1. /\ requests \in Nat /\ requests' = requests + 1
          /\ pc' = pc /\ isolate' = isolate
          /\ pending'[c].n = requests + 1 /\ pending'[c].kind # "none"
          /\ \A d \in Clients : d # c => pending'[d] = pending[d]
      BY <1>6 DEF ReadFailed, ReadCompleted, TypeOK
    <2>2. \A d \in Clients : pending[d].kind # "none" => pending[d].n # requests + 1
      BY <2>1
    <2>3. \A d \in Clients :
            pending'[d].kind # "none" =>
                IF d = c THEN pending'[d].n = requests + 1
                ELSE pending'[d].n = pending[d].n /\ pending[d].kind # "none"
      BY <2>1
    <2>4. \A d, e \in Clients :
            pending'[d].kind # "none" /\ pending'[e].kind # "none"
            /\ pending'[d].n = pending'[e].n => d = e
      BY <2>2, <2>3
    <2>5. \A d \in Clients : pending'[d].kind # "none" => pending'[d].n \in 1 .. requests'
      BY <2>1, <2>3
    <2> QED
      BY <2>1, <2>4, <2>5
  <1>7. ASSUME NEW c \in Clients, WriteRequeued(c) \/ WriteSkipped(c)
        PROVE  QueueInv'
    <2>1. /\ pc' = pc /\ isolate' = isolate /\ requests' = requests
          /\ pending'[c] = NoRequest
          /\ \A d \in Clients : d # c => pending'[d] = pending[d]
      BY <1>7 DEF WriteRequeued, WriteSkipped, Writes, TypeOK
    <2>2. \A d \in Clients : pending[d].kind # "none" => pending[d].n # 0
      BY DEF TypeOK
    <2> QED
      BY <2>1, <2>2 DEF NoRequest
  <1>8. CASE Shutdown \/ CalmDown
    BY <1>8 DEF Shutdown, CalmDown
  <1>9. CASE ProcessEnds
    BY <1>9 DEF ProcessEnds, NoRequest
  <1>10. CASE UNCHANGED vars
    BY <1>10 DEF vars
  <1> QED
    BY <1>1, <1>2, <1>3, <1>4, <1>5, <1>6, <1>7, <1>8, <1>9, <1>10
       DEF Next, Worker, Client

-----------------------------------------------------------------------------
\* The initial states satisfy the inductive invariant.
LEMMA InitIInv == Init => IInv
  <1> SUFFICES ASSUME Init
               PROVE  IInv
    OBVIOUS
  <1> USE NoDirFacts DEF Init
  <1>1. TypeOK
    <2>1. final \in Dir /\ seen \in Nat
      <3>1. [ver |-> 1, tracks |-> Tracks, manifest |-> FALSE] \in Dir
        BY DEF Dir
      <3>2. CASE final = NoDir /\ seen = 0
        BY <3>2
      <3>3. CASE final = [ver |-> 1, tracks |-> Tracks, manifest |-> FALSE] /\ seen = 1
        BY <3>1, <3>3
      <3> QED
        BY <3>2, <3>3
    <2>2. row \in [status : Status, attempts : Nat]
      BY DEF Status
    <2>3. pending \in [Clients -> Request]
      BY DEF Request, NoRequest
    <2>4. pc \in Steps
      BY DEF Steps, LoopSteps
    <2>5. staging \in Dir /\ publishing \in Dir /\ aside \in Dir
      OBVIOUS
    <2>6. held \in Nat /\ requests \in Nat /\ gen \in Nat \ {0}
      OBVIOUS
    <2>7. isolate \in BOOLEAN /\ complete \in BOOLEAN /\ stopping \in BOOLEAN /\ calm \in BOOLEAN
          /\ stale \in BOOLEAN
      OBVIOUS
    <2> QED
      BY <2>1, <2>2, <2>3, <2>4, <2>5, <2>6, <2>7, Zenon DEF TypeOK
  <1>2. DiskInv
    BY DEF DiskInv, VersionsBounded, AlbumSafe, BuildInv, SwapInv, Exists, Whole
  <1>3. CompletedInv
    BY DEF CompletedInv
  <1>4. BudgetInv
    BY MaxAttemptsAssumption DEF BudgetInv, AttemptsBounded, NoRequest
  <1>5. QueueInv
    BY DEF QueueInv, NoRequest
  <1> QED
    BY <1>1, <1>2, <1>3, <1>4, <1>5 DEF IInv

\* Type correctness of every behaviour of the job, the worker and the clients.
THEOREM TypeCorrect == Spec => []TypeOK
  <1>1. Init => TypeOK
    BY InitIInv DEF IInv
  <1>2. TypeOK /\ [Next]_vars => TypeOK'
    BY TypeOKStep
  <1> QED
    BY <1>1, <1>2, PTL DEF Spec

\* The inductive invariant holds in every reachable state.
THEOREM Invariance == Spec => []IInv
  <1>1. IInv /\ [Next]_vars => IInv'
    BY TypeOKStep, BudgetStep, DiskStep, CompletedStep, QueueInvStep DEF IInv
  <1> QED
    BY InitIInv, <1>1, PTL DEF Spec

\* Nobody ever finds a part of an album under the album path.
THEOREM NeverPartialHolds == Spec => []NeverPartial
  <1>1. IInv => NeverPartial
    BY NoDirFacts DEF IInv, DiskInv, AlbumSafe, NeverPartial, Whole, Exists
  <1> QED
    BY Invariance, <1>1, PTL

\* The newest visible version of the album is never lost or superseded by an
\* older one, whatever fails.
THEOREM NewestAlbumIsKept == Spec => []NewestAlbumKept
  <1>1. IInv => NewestAlbumKept
    BY NoDirFacts DEF IInv, DiskInv, AlbumSafe, NewestAlbumKept, Whole, Exists
  <1> QED
    BY Invariance, <1>1, PTL

\* No false completion: a completed row stands for a whole published album, but
\* for a stale skip over a job that was queued again, until its next completion.
THEOREM CompletedMeansPublished == Spec => []CompletedIsPublished
  <1>1. IInv => CompletedIsPublished
    BY NoDirFacts DEF IInv, DiskInv, AlbumSafe, CompletedInv, CompletedIsPublished,
                      Published, Whole, Exists
  <1> QED
    BY Invariance, <1>1, PTL

\* No row, worker copy or stale client copy exceeds the retry budget.
THEOREM AttemptsAreBounded == Spec => []AttemptsBounded
  <1>1. IInv => AttemptsBounded
    BY DEF IInv, BudgetInv
  <1> QED
    BY Invariance, <1>1, PTL
-----------------------------------------------------------------------------
\* The persisted intent.

\* The steps that touch the album path, and those before them since the row
\* was written or read, leave the row alone.
LEMMA IntentStep ==
    ASSUME TypeOK, IntentInv, [Next]_vars
    PROVE  IntentInv'
  <1> USE DEF IntentInv, env
  <1>1. CASE Start \/ Tick \/ Leave
    BY <1>1 DEF Start, Tick, Leave
  <1>2. CASE Recovery
    <2>1. CASE ListPublishing
      BY <2>1 DEF ListPublishing, AfterRecovery, RecoveryGivesUp
    <2>2. CASE ReadManifest \/ RecoverAside \/ RecoverFinal \/ RecoverPublishing
               \/ RecoverStaging
      BY <2>2 DEF ReadManifest, RecoverAside, RecoverFinal, RecoverPublishing,
                  RecoverStaging, RecoveryError
    <2>3. CASE Settle \/ RecoverHook \/ Quarantine \/ RequeueRunning
      BY <2>3 DEF Settle, Completes, RecoverHook, Quarantine, RequeueRunning, AfterRecovery,
                  RecoveryGivesUp, Update
    <2> QED
      BY <1>2, <2>1, <2>2, <2>3 DEF Recovery
  <1>3. CASE Attempt
    <2>1. CASE Claim \/ Exhausted \/ Begin \/ Preflight \/ PrepareStaging \/ Split
      BY <2>1 DEF Claim, Exhausted, Begin, Preflight, PrepareStaging, Split, Update
    <2>2. CASE Intent
      BY <2>2 DEF Intent, Update
    <2> QED
      BY <1>3, <2>1, <2>2 DEF Attempt
  <1>4. CASE PublishTracks
    BY <1>4 DEF PublishTracks, DropLeftover, CheckAside, MakePublishing, MoveTrack,
       WriteManifest, SwapOut, Place, SwapIn, Restore, DropAside, DropPublishing
  <1>5. CASE Outcome
    BY <1>5 DEF Outcome, Cleanup, Complete, Completes, Hook, FailCleanup, FailJob,
                ApplyFailure, Update
  <1>6. ASSUME NEW c \in Clients, ReadFailed(c) \/ ReadCompleted(c)
        PROVE  IntentInv'
    BY <1>6 DEF ReadFailed, ReadCompleted, TypeOK
  <1>7. ASSUME NEW c \in Clients, WriteRequeued(c) \/ WriteSkipped(c)
        PROVE  IntentInv'
    BY <1>7 DEF WriteRequeued, WriteSkipped
  <1>8. CASE Shutdown \/ CalmDown
    BY <1>8 DEF Shutdown, CalmDown
  <1>9. CASE ProcessEnds
    BY <1>9 DEF ProcessEnds, NoRequest
  <1>10. CASE UNCHANGED vars
    BY <1>10 DEF vars
  <1> QED
    BY <1>1, <1>2, <1>3, <1>4, <1>5, <1>6, <1>7, <1>8, <1>9, <1>10
       DEF Next, Worker, Client

\* Only these steps change what is at the album path.
LEMMA FinalMoves ==
    ASSUME [Next]_vars, final' # final
    PROVE  pc \in {"checkAside", "swapOut", "place", "swapIn", "restore", "recoverFinal"}
  <1> USE DEF disk
  <1>1. CASE Start \/ Tick \/ Leave
    BY <1>1 DEF Start, Tick, Leave
  <1>2. CASE Recovery
    BY <1>2 DEF Recovery, ListPublishing, ReadManifest, RecoverAside, RecoverFinal,
       RecoverPublishing, RecoverStaging, Settle, RecoverHook, Quarantine, RequeueRunning
  <1>3. CASE Attempt
    BY <1>3 DEF Attempt, Claim, Exhausted, Begin, Preflight, PrepareStaging, Split, Intent
  <1>4. CASE PublishTracks
    BY <1>4 DEF PublishTracks, DropLeftover, CheckAside, MakePublishing, MoveTrack,
       WriteManifest, SwapOut, Place, SwapIn, Restore, DropAside, DropPublishing
  <1>5. CASE Outcome
    BY <1>5 DEF Outcome, Cleanup, Complete, Hook, FailCleanup, FailJob, ApplyFailure
  <1>6. ASSUME NEW c \in Clients, Client(c)
        PROVE  FALSE
    BY <1>6 DEF Client, ReadFailed, ReadCompleted, WriteRequeued, WriteSkipped
  <1>7. CASE Shutdown \/ CalmDown \/ ProcessEnds \/ UNCHANGED vars
    BY <1>7 DEF Shutdown, CalmDown, ProcessEnds, vars
  <1> QED
    BY <1>1, <1>2, <1>3, <1>4, <1>5, <1>6, <1>7 DEF Next, Worker

\* Before the first request, the album path is touched only under a persisted
\* "publishing": RunJob writes the intent before PublishTracks, and recovery
\* starts from it.
THEOREM IntentIsPersisted == Spec => IntentBeforeSwap
  <1>1. Init => IntentInv
    BY DEF Init, IntentInv, NoRequest
  <1>2. TypeOK /\ IntentInv /\ [Next]_vars => IntentInv'
    BY IntentStep
  <1>3. TypeOK /\ IntentInv /\ [Next]_vars =>
          [final' # final /\ requests = 0 => row.status = "publishing"]_vars
    BY FinalMoves DEF IntentInv
  <1> QED
    BY TypeCorrect, <1>1, <1>2, <1>3, PTL DEF Spec, IntentBeforeSwap

-----------------------------------------------------------------------------
\* A step that touches neither the album path nor the backup is invisible to
\* AlbumView.
LEMMA ViewStutter ==
    ASSUME UNCHANGED <<aside, final>>
    PROVE  UNCHANGED View!viewVars
  BY DEF View!viewVars, Exists

\* Dropping the backup of an album that is there is invisible, too.
LEMMA ViewDropAside ==
    ASSUME Exists(final), UNCHANGED final
    PROVE  UNCHANGED View!viewVars
  BY DEF View!viewVars, Exists

\* Bringing back the backup to a free album path is Reappear.
LEMMA ViewRestore ==
    ASSUME IInv, ~Exists(final), Exists(aside), Show(aside)
    PROVE  View!Reappear
  <1>1. Whole(aside) /\ final = NoDir
    BY NoDirFacts DEF IInv, DiskInv, AlbumSafe, Whole, Exists
  <1>2. final' = aside
    BY DEF Show
  <1> QED
    BY <1>1, <1>2, NoDirFacts DEF View!Reappear, Whole, Exists

\* Showing the version that was built is Publish: it is whole, and later than
\* the one that was visible.
LEMMA ViewPublish ==
    ASSUME IInv, pc \in {"place", "swapIn"}, Show(publishing), UNCHANGED aside
    PROVE  View!Publish
  <1>1. /\ publishing.ver = gen /\ publishing.tracks = Tracks /\ seen < gen
        /\ ~Exists(final)
        /\ gen \in Nat \ {0}
    BY DEF IInv, TypeOK, DiskInv, BuildInv, SwapInv
  <1>2. final.ver = 0 /\ aside.ver <= seen /\ aside.ver \in Nat /\ seen \in Nat
    BY <1>1, NoDirFacts
       DEF IInv, TypeOK, DiskInv, AlbumSafe, Whole, Exists, Dir
  <1>3. final' = publishing
    BY DEF Show
  <1> QED
    BY <1>1, <1>2, <1>3 DEF View!Publish, Exists

\* Every step of the job is a step of AlbumView or a stutter.
LEMMA ViewStep ==
    ASSUME IInv, [Next]_vars
    PROVE  View!ViewNext \/ UNCHANGED View!viewVars
  <1>1. CASE Start \/ Tick \/ Leave
    BY <1>1, ViewStutter DEF Start, Tick, Leave, disk
  <1>2. CASE Recovery
    <2>1. CASE ListPublishing \/ ReadManifest \/ RecoverPublishing \/ RecoverStaging
               \/ Settle \/ RecoverHook \/ Quarantine \/ RequeueRunning
      BY <2>1, ViewStutter
         DEF ListPublishing, ReadManifest, RecoverPublishing, RecoverStaging, Settle,
             RecoverHook, Quarantine, RequeueRunning, disk
    <2>2. CASE RecoverAside
      <3>1. Exists(final)
        BY <2>2 DEF RecoverAside, IInv, DiskInv, SwapInv
      <3> QED
        BY <2>2, <3>1, ViewDropAside DEF RecoverAside
    <2>3. CASE RecoverFinal
      <3>1. ~Exists(final) /\ Exists(aside)
        BY <2>3 DEF RecoverFinal, IInv, DiskInv, SwapInv
      <3> QED
        BY <2>3, <3>1, ViewRestore, ViewStutter DEF RecoverFinal, View!ViewNext
    <2> QED
      BY <1>2, <2>1, <2>2, <2>3 DEF Recovery
  <1>3. CASE Attempt
    BY <1>3, ViewStutter
       DEF Attempt, Claim, Exhausted, Begin, Preflight, PrepareStaging, Split, Intent, disk
  <1>4. CASE PublishTracks
    <2>1. CASE DropLeftover \/ MakePublishing \/ MoveTrack \/ WriteManifest
               \/ DropPublishing
      BY <2>1, ViewStutter
         DEF DropLeftover, MakePublishing, MoveTrack, WriteManifest, DropPublishing, disk
    <2>2. CASE CheckAside
      BY <2>2, ViewRestore, ViewStutter DEF CheckAside, View!ViewNext
    <2>3. CASE SwapOut
      <3>1. CASE UNCHANGED <<aside, final>>
        BY <3>1, ViewStutter
      <3>2. CASE Exists(final) /\ aside' = final /\ final' = NoDir
        <4>1. final.tracks = Tracks
          BY <3>2, NoDirFacts DEF IInv, DiskInv, AlbumSafe, Whole, Exists
        <4>2. View!Hide
          BY <3>2, <4>1, NoDirFacts DEF View!Hide, Exists
        <4> QED
          BY <4>2 DEF View!ViewNext
      <3> QED
        BY <2>3, <3>1, <3>2 DEF SwapOut
    <2>4. CASE Place
      BY <2>4, ViewPublish, ViewStutter DEF Place, View!ViewNext
    <2>5. CASE SwapIn
      BY <2>5, ViewPublish, ViewStutter DEF SwapIn, View!ViewNext
    <2>6. CASE Restore
      <3>1. ~Exists(final) /\ Exists(aside)
        BY <2>6 DEF Restore, IInv, DiskInv, SwapInv
      <3> QED
        BY <2>6, <3>1, ViewRestore, ViewStutter DEF Restore, View!ViewNext
    <2>7. CASE DropAside
      <3>1. Exists(final)
        BY <2>7 DEF DropAside, IInv, DiskInv, SwapInv
      <3> QED
        BY <2>7, <3>1, ViewDropAside DEF DropAside
    <2> QED
      BY <1>4, <2>1, <2>2, <2>3, <2>4, <2>5, <2>6, <2>7 DEF PublishTracks
  <1>5. CASE Outcome
    BY <1>5, ViewStutter
       DEF Outcome, Cleanup, Complete, Hook, FailCleanup, FailJob, ApplyFailure, disk
  <1>6. ASSUME NEW c \in Clients, Client(c)
        PROVE  UNCHANGED View!viewVars
    BY <1>6, ViewStutter
       DEF Client, ReadFailed, ReadCompleted, WriteRequeued, WriteSkipped, disk
  <1>7. CASE Shutdown \/ ProcessEnds \/ CalmDown
    BY <1>7, ViewStutter DEF Shutdown, ProcessEnds, CalmDown, disk
  <1>8. CASE UNCHANGED vars
    BY <1>8, ViewStutter DEF vars, disk
  <1> QED
    BY <1>1, <1>2, <1>3, <1>4, <1>5, <1>6, <1>7, <1>8 DEF Next, Worker

\* The publication protocol implements AlbumView: for a reader of the album
\* path every version appears at once and none is ever lost.
THEOREM ImplementsAlbumView == Spec => ViewSpec
  <1>1. Init => View!ViewInit
    BY NoDirFacts DEF Init, View!ViewInit, Exists
  <1>2. IInv /\ [Next]_vars => [View!ViewNext]_(View!viewVars)
    BY ViewStep
  <1> QED
    BY Invariance, <1>1, <1>2, PTL DEF Spec, ViewSpec, View!ViewSpec
-----------------------------------------------------------------------------
\* What the variables of JobQueue are, before a step and after it.
QueueFacts ==
    /\ QueueRows["album"] = [id |-> 1, status |-> row.status, attempts |-> row.attempts]
    /\ pc \in RunSteps => QueueJob = QueueCopy(held)
    /\ pc \notin RunSteps => QueueJob = Queue!Nobody
    /\ pc \in RecoverSteps => QueueTodo = {QueueCopy(held)}
    /\ pc \notin RecoverSteps => QueueTodo = {}
    /\ Exists(final) /\ final.manifest => QueueLive = {"album"}
    /\ ~Exists(final) /\ Exists(aside) =>
            QueueLive = IF aside.manifest THEN {"album"} ELSE {}
    /\ ~Exists(aside) =>
            QueueLive = IF Exists(final) /\ final.manifest THEN {"album"} ELSE {}

LEMMA OneAlbum == (CHOOSE a \in {"album"} : TRUE) = "album"
  OBVIOUS

LEMMA QueueFactsHold == QueueFacts
  BY OneAlbum DEF QueueFacts, QueueRows, QueueJob, QueueTodo, QueueLive, QueueCopy, Queue!Nobody

LEMMA QueueFactsHoldNext == QueueFacts'
  BY OneAlbum DEF QueueFacts, QueueRows, QueueJob, QueueTodo, QueueLive, QueueCopy, Queue!Nobody

\* A step that leaves the row, the album path and the backup, or the requests
\* alone leaves what JobQueue knows of them alone.
LEMMA QueueFrames ==
    /\ UNCHANGED row => UNCHANGED QueueRows
    /\ UNCHANGED <<aside, final>> => UNCHANGED QueueLive
    /\ UNCHANGED pending => UNCHANGED QueueCalls
  BY DEF QueueRows, QueueLive, QueueCalls

\* A statement that writes the job's row.
LEMMA QueueWrites ==
    ASSUME NEW status, NEW attempts, row' = [status |-> status, attempts |-> attempts]
    PROVE  Queue!Write(QueueCopy(attempts), status)
  BY DEF Queue!Write, QueueRows, QueueCopy

\* Which step of JobQueue a step of the worker belongs to.
LEMMA QueueStepFacts ==
    /\ \A p \in RecoverSteps : QueueStep(p) = "recover"
    /\ \A p \in {"preflight", "prepare", "split"} : QueueStep(p) = "work"
    /\ \A p \in PublishSteps \ {"dropAside"} : QueueStep(p) = "publish"
    /\ QueueStep("dropAside") = "complete" /\ QueueStep("cleanup") = "complete"
    /\ QueueStep("failCleanup") = "failJob"
    /\ \A p \in LoopSteps \cup {"begin", "intent", "complete", "hook", "failJob", "apply"} :
            QueueStep(p) = p
  <1> USE DEF QueueStep, RecoverSteps, PublishSteps, LoopSteps
  <1>1. \A p \in RecoverSteps : QueueStep(p) = "recover"
    OBVIOUS
  <1>2. \A p \in {"preflight", "prepare", "split"} : QueueStep(p) = "work"
    OBVIOUS
  <1>3. \A p \in PublishSteps \ {"dropAside"} : QueueStep(p) = "publish"
    OBVIOUS
  <1>4. /\ QueueStep("dropAside") = "complete" /\ QueueStep("cleanup") = "complete"
        /\ QueueStep("failCleanup") = "failJob"
    OBVIOUS
  <1>5. \A p \in LoopSteps \cup {"begin", "intent", "complete", "hook", "failJob", "apply"} :
            QueueStep(p) = p
    OBVIOUS
  <1> QED
    BY <1>1, <1>2, <1>3, <1>4, <1>5

\* A step inside one of JobQueue.
LEMMA QueueStutter ==
    ASSUME UNCHANGED <<row, held, isolate, pending, requests, QueueLive>>,
           \/ pc' = pc
           \/ pc \in RecoverSteps /\ pc' \in RecoverSteps
           \/ pc \in RunSteps /\ pc' \in RunSteps /\ QueueStep(pc') = QueueStep(pc)
    PROVE  UNCHANGED Queue!vars
  <1>1. QueueStep(pc)' = QueueStep(pc)
    BY QueueStepFacts
  <1>2. UNCHANGED QueueJob /\ UNCHANGED QueueTodo
    BY DEF QueueJob, QueueTodo, RunSteps, RecoverSteps, SplitSteps, PublishSteps, EndSteps
  <1> QED
    BY <1>1, <1>2, QueueFrames
       DEF Queue!vars, Queue!table, Queue!clients, Queue!worker

\* The worker loop and the process.
LEMMA QueueLoop ==
    ASSUME Start \/ Tick \/ Leave \/ Shutdown \/ ProcessEnds \/ CalmDown
    PROVE  [Queue!Next]_(Queue!vars)
  <1> USE QueueFrames, QueueFactsHold, QueueFactsHoldNext, QueueStepFacts
          DEF QueueFacts, disk, env, copy, Queue!table, Queue!clients, Queue!worker,
              LoopSteps, RunSteps, RecoverSteps, SplitSteps, PublishSteps, EndSteps
  <1>1. CASE Start
    <2>1. Queue!Start
      BY <1>1 DEF Start, Queue!Start
    <2> QED
      BY <2>1 DEF Queue!Next
  <1>2. CASE Tick
    <2>1. Queue!Tick
      BY <1>2 DEF Tick, Queue!Tick
    <2> QED
      BY <2>1 DEF Queue!Next, Queue!Worker
  <1>3. CASE Leave
    <2>1. Queue!Leave
      BY <1>3 DEF Leave, Queue!Leave
    <2> QED
      BY <2>1 DEF Queue!Next, Queue!Worker
  <1>4. CASE Shutdown \/ CalmDown
    <2>1. UNCHANGED <<row, pc, held, isolate, pending, requests, QueueLive>>
      BY <1>4 DEF Shutdown, CalmDown
    <2> QED
      BY <2>1, QueueStutter
  <1>5. CASE ProcessEnds
    <2>1. QueueCalls' = {}
      BY <1>5 DEF ProcessEnds, QueueCalls, NoRequest
    <2>2. QueueStep(pc) # "down" /\ QueueStep(pc') = "down"
      BY <1>5 DEF ProcessEnds, QueueStep
    <2>3. Queue!ProcessEnds
      BY <1>5, <2>1, <2>2 DEF ProcessEnds, Queue!ProcessEnds
    <2> QED
      BY <2>3 DEF Queue!Next
  <1> QED
    BY <1>1, <1>2, <1>3, <1>4, <1>5

\* The hook of a job that was completed.
LEMMA QueueHookWrite ==
    ASSUME HookWrite, pc \in RunSteps, pc' \notin RunSteps
    PROVE  Queue!HookWrite
  <1>1. QueueJob = QueueCopy(held) /\ QueueJob' = Queue!Nobody
    BY QueueFactsHold, QueueFactsHoldNext DEF QueueFacts
  <1>2. CASE UNCHANGED row
    BY <1>1, <1>2, QueueFrames DEF Queue!HookWrite
  <1>3. CASE row' = [status |-> "completed", attempts |-> held]
    BY <1>1, <1>3, QueueWrites DEF Queue!HookWrite
  <1> QED
    BY <1>2, <1>3 DEF HookWrite

\* recoverPublications.
LEMMA QueueRecovery ==
    ASSUME IInv, Recovery
    PROVE  [Queue!Next]_(Queue!vars)
  <1> DEFINE me == QueueCopy(held)
  <1> USE QueueFrames, QueueFactsHold, QueueFactsHoldNext, QueueStepFacts
          DEF QueueFacts, disk, env, copy, Queue!table, Queue!clients, Queue!worker,
              LoopSteps, RunSteps, RecoverSteps, SplitSteps, PublishSteps, EndSteps
  <1>1. CASE ListPublishing
    <2>1. Queue!CopyOf("album") = QueueCopy(row.attempts)
      BY DEF Queue!CopyOf, QueueCopy
    <2>2. {Queue!CopyOf(a) : a \in {b \in {"album"} : QueueRows[b].status = "publishing"}}
            = IF row.status = "publishing" THEN {QueueCopy(row.attempts)} ELSE {}
      BY <2>1
    <2>3. QueueTodo' = IF pc' = "readManifest" THEN {QueueCopy(row.attempts)} ELSE {}
      BY <1>1 DEF ListPublishing, AfterRecovery, RecoveryGivesUp
    <2>4. Queue!ListPublishing
      BY <1>1, <2>2, <2>3 DEF ListPublishing, AfterRecovery, RecoveryGivesUp,
         Queue!ListPublishing, Queue!RecoverNext, Queue!AfterRecovery, Queue!RecoveryGivesUp,
         Queue!DbFails
    <2> QED
      BY <2>4 DEF Queue!Next, Queue!Worker
  <1>2. ASSUME pc \in RecoverSteps, Queue!RecoverJob(me)
        PROVE  [Queue!Next]_(Queue!vars)
    <2>1. me \in QueueTodo
      BY <1>2
    <2> QED
      BY <1>2, <2>1 DEF Queue!Next, Queue!Worker
  <1>3. ASSUME pc \in RecoverSteps, ~isolate, pc' = "exited",
               UNCHANGED <<row, held, isolate, env, QueueLive>>
        PROVE  Queue!RecoverJob(me)
    BY <1>3 DEF Queue!RecoverJob
  <1>4. CASE ReadManifest \/ RecoverAside \/ RecoverFinal \/ RecoverPublishing
             \/ RecoverStaging
    <2>1. /\ UNCHANGED <<row, held, isolate, env>> /\ pc \in RecoverSteps
          /\ pc' \in RecoverSteps \/ (pc' = "exited" /\ ~isolate)
      BY <1>4 DEF ReadManifest, RecoverAside, RecoverFinal, RecoverPublishing,
                  RecoverStaging, RecoveryError
    <2>2. UNCHANGED QueueLive
      <3>1. CASE RecoverAside
        BY <3>1 DEF RecoverAside, IInv, DiskInv, SwapInv
      <3>2. CASE RecoverFinal
        BY <3>2, NoDirFacts DEF RecoverFinal, Show, IInv, DiskInv, SwapInv, Exists
      <3> QED
        BY <1>4, <3>1, <3>2 DEF ReadManifest, RecoverPublishing, RecoverStaging
    <2>3. CASE pc' \in RecoverSteps
      <3>1. UNCHANGED Queue!vars
        BY <2>1, <2>2, <2>3, QueueStutter
      <3> QED
        BY <3>1
    <2>4. CASE pc' = "exited" /\ ~isolate
      BY <1>2, <1>3, <2>1, <2>2, <2>4
    <2> QED
      BY <2>1, <2>3, <2>4
  <1>5. CASE Settle
    <2>1. complete => QueueLive = {"album"}
      BY <1>5 DEF Settle, IInv, DiskInv, SwapInv
    <2>2. me.album = "album" /\ UNCHANGED QueueLive
      BY <1>5 DEF Settle, QueueCopy
    <2>3. CASE row' = row /\ pc' = RecoveryGivesUp
      <3>1. Queue!RecoverJob(me)
        BY <1>5, <2>2, <2>3 DEF Settle, RecoveryGivesUp, Queue!RecoverJob, Queue!RecoverNext,
           Queue!AfterRecovery, Queue!DbFails
      <3> QED
        BY <1>2, <1>5, <3>1 DEF Settle
    <2>4. CASE ~complete /\ row' = [status |-> "queued", attempts |-> held]
               /\ pc' = AfterRecovery
      <3>1. Queue!Write(me, "queued") /\ UNCHANGED QueueJob
        BY <1>5, <2>4, QueueWrites DEF Settle, AfterRecovery
      <3>2. Queue!Recovers(me)
        BY <1>5, <2>4, <3>1 DEF Settle, AfterRecovery, Queue!Recovers, Queue!RecoverNext,
           Queue!AfterRecovery
      <3>3. Queue!RecoverJob(me)
        BY <1>5, <2>2, <3>2 DEF Settle, Queue!RecoverJob
      <3> QED
        BY <1>2, <1>5, <3>3 DEF Settle
    <2>5. CASE complete /\ row' = [status |-> "completed", attempts |-> held]
               /\ pc' = "recoverHook"
      <3>1. Queue!Write(me, "completed") /\ QueueJob' = me
        BY <1>5, <2>5, QueueWrites DEF Settle
      <3>2. Queue!Recovers(me)
        BY <1>5, <2>1, <2>2, <2>5, <3>1 DEF Settle, Queue!Recovers
      <3>3. Queue!RecoverJob(me)
        BY <1>5, <2>2, <3>2 DEF Settle, Queue!RecoverJob
      <3> QED
        BY <1>2, <1>5, <3>3 DEF Settle
    <2> QED
      BY <1>5, <2>3, <2>4, <2>5 DEF Settle, Completes, Update
  <1>6. CASE Quarantine
    <2>1. isolate /\ pc' = "claim"
      BY <1>6 DEF Quarantine, Update, IInv, QueueInv
    <2>2. Queue!Write(me, "failed") \/ UNCHANGED QueueRows
      BY <1>6, QueueWrites DEF Quarantine, Update
    <2>3. Queue!RecoverJob(me)
      BY <1>6, <2>1, <2>2 DEF Quarantine, Queue!RecoverJob, Queue!RecoverNext,
         Queue!AfterRecovery, Queue!DbFails
    <2> QED
      BY <1>2, <1>6, <2>3 DEF Quarantine
  <1>7. CASE RequeueRunning
    <2>1. CASE row' = row /\ pc' = "exited"
      <3>1. Queue!RecoverRunning
        BY <1>7, <2>1 DEF RequeueRunning, Queue!RecoverRunning, Queue!DbFails
      <3> QED
        BY <3>1 DEF Queue!Next, Queue!Worker
    <2>2. CASE /\ row' = IF row.status = "running"
                         THEN [row EXCEPT !.status = "queued"] ELSE row
               /\ pc' = "idle"
      <3>1. QueueRows' = [a \in {"album"} |->
                            IF QueueRows[a].status = "running"
                            THEN [QueueRows[a] EXCEPT !.status = "queued"] ELSE QueueRows[a]]
        BY <2>2 DEF QueueRows, IInv, TypeOK
      <3>2. Queue!RecoverRunning
        BY <1>7, <2>2, <3>1 DEF RequeueRunning, Queue!RecoverRunning
      <3> QED
        BY <3>2 DEF Queue!Next, Queue!Worker
    <2> QED
      BY <1>7, <2>1, <2>2 DEF RequeueRunning
  <1>8. CASE RecoverHook
    <2>1. Queue!RecoverHook
      BY <1>8, QueueHookWrite DEF RecoverHook, AfterRecovery, Queue!RecoverHook,
         Queue!RecoverNext, Queue!AfterRecovery
    <2> QED
      BY <2>1 DEF Queue!Next, Queue!Worker
  <1> QED
    BY <1>1, <1>4, <1>5, <1>6, <1>7, <1>8 DEF Recovery

\* A statement of the worker about the job it runs.
LEMMA QueueUpdates ==
    ASSUME NEW status, NEW next, NEW onError, NEW step, NEW onErrorStep,
           pc \in RunSteps, Update(status, held, next, onError),
           QueueStep(next) = step, QueueStep(onError) = onErrorStep
    PROVE  Queue!Update(status, step, onErrorStep)
  <1>1. QueueJob = QueueCopy(held)
    BY QueueFactsHold DEF QueueFacts
  <1>2. CASE row' = [status |-> status, attempts |-> held] /\ pc' = next
    BY <1>1, <1>2, QueueWrites DEF Queue!Update
  <1>3. CASE row' = row /\ pc' = onError
    BY <1>3, QueueFrames DEF Queue!Update, Queue!DbFails
  <1> QED
    BY <1>2, <1>3 DEF Update

\* runOnce and RunJob up to the publication.
LEMMA QueueAttempt ==
    ASSUME TypeOK, Attempt
    PROVE  [Queue!Next]_(Queue!vars)
  <1> USE QueueFrames, QueueFactsHold, QueueFactsHoldNext, QueueStepFacts
          DEF QueueFacts, disk, env, copy, Queue!table, Queue!clients, Queue!worker,
              LoopSteps, RunSteps, RecoverSteps, SplitSteps, PublishSteps, EndSteps
  <1>1. CASE Claim
    <2>1. CASE UNCHANGED <<row, held>> /\ pc' = "idle"
      <3>1. Queue!Claim
        BY <1>1, <2>1 DEF Claim, Queue!Claim, Queue!DbFails
      <3> QED
        BY <3>1 DEF Queue!Next, Queue!Worker
    <2>2. CASE /\ row.status = "queued"
               /\ row' = [row EXCEPT !.status = "running"]
               /\ held' = row.attempts
               /\ pc' = IF row.attempts >= MaxAttempts THEN "exhausted" ELSE "begin"
      <3>1. QueueRows' = [QueueRows EXCEPT !["album"].status = "running"]
        BY <2>2 DEF QueueRows, TypeOK
      <3>2. QueueJob' = Queue!CopyOf("album")
        BY <2>2 DEF Queue!CopyOf, QueueCopy
      <3>3. /\ QueueRows["album"].status = "queued" /\ QueueRows["album"].id = 1
            /\ QueueRows["album"].attempts = row.attempts
        BY <2>2
      <3>4. /\ QueueStep(pc) = "claim" /\ UNCHANGED <<QueueLive, QueueCalls, QueueTodo, isolate>>
            /\ requests' = requests
        BY <1>1, <2>2 DEF Claim
      <3>5. QueueStep(pc') = IF QueueRows["album"].attempts >= MaxAttempts
                             THEN "exhausted" ELSE "begin"
        BY <2>2, <3>3
      <3> HIDE DEF QueueFacts
      <3>6. Queue!Claim
        BY <3>1, <3>2, <3>3, <3>4, <3>5 DEF Queue!Claim
      <3> QED
        BY <3>6 DEF Queue!Next, Queue!Worker
    <2> QED
      BY <1>1, <2>1, <2>2 DEF Claim
  <1>2. CASE Exhausted
    <2>1. Queue!Update("failed", "idle", "idle")
      BY <1>2, QueueUpdates DEF Exhausted
    <2>2. Queue!Exhausted
      BY <1>2, <2>1 DEF Exhausted, Update, Queue!Exhausted
    <2> QED
      BY <2>2 DEF Queue!Next, Queue!Worker
  <1>3. CASE Begin
    <2> DEFINE n == held + 1
    <2>1. [QueueCopy(held) EXCEPT !.attempts = @ + 1] = QueueCopy(n)
      BY DEF QueueCopy
    <2>2. CASE /\ row' = [status |-> "running", attempts |-> n]
               /\ held' = n
               /\ pc' = "preflight"
      <3>1. Queue!Write(QueueCopy(n), "running") /\ QueueJob' = QueueCopy(n)
        BY <2>2, QueueWrites
      <3>2. Queue!Begin
        BY <1>3, <2>1, <2>2, <3>1 DEF Begin, Queue!Begin
      <3> QED
        BY <3>2 DEF Queue!Next, Queue!Worker
    <2>3. CASE UNCHANGED <<row, held>> /\ pc' = "apply"
      <3>1. Queue!Begin
        BY <1>3, <2>3 DEF Begin, Queue!Begin, Queue!DbFails
      <3> QED
        BY <3>1 DEF Queue!Next, Queue!Worker
    <2> QED
      BY <1>3, <2>2, <2>3 DEF Begin
  <1>4. CASE Preflight \/ PrepareStaging \/ Split
    <2>1. /\ UNCHANGED <<row, held, isolate, env, QueueLive>>
          /\ pc \in {"preflight", "prepare", "split"}
          /\ pc' \in {"prepare", "split", "intent", "failCleanup", "failJob"}
      BY <1>4 DEF Preflight, PrepareStaging, Split
    <2>2. CASE pc' \in {"prepare", "split"}
      <3>1. UNCHANGED Queue!vars
        BY <2>1, <2>2, QueueStutter
      <3> QED
        BY <3>1
    <2>3. CASE pc' \in {"intent", "failCleanup", "failJob"}
      <3>1. Queue!Work
        BY <2>1, <2>3 DEF Queue!Work
      <3> QED
        BY <3>1 DEF Queue!Next, Queue!Worker
    <2> QED
      BY <2>1, <2>2, <2>3
  <1>5. CASE Intent
    <2>1. Queue!Update("publishing", "publish", "failJob")
      BY <1>5, QueueUpdates DEF Intent
    <2>2. Queue!Intent
      BY <1>5, <2>1 DEF Intent, Update, Queue!Intent
    <2> QED
      BY <2>2 DEF Queue!Next, Queue!Worker
  <1> QED
    BY <1>1, <1>2, <1>3, <1>4, <1>5 DEF Attempt

\* The swap: the album of the job is live once it is shown, and from then on.
LEMMA QueuePublish ==
    ASSUME IInv, PublishTracks
    PROVE  [Queue!Next]_(Queue!vars)
  <1> USE QueueFrames, QueueFactsHold, QueueFactsHoldNext, QueueStepFacts, NoDirFacts
          DEF QueueFacts, disk, env, copy, Exists, Queue!table, Queue!clients, Queue!worker,
              LoopSteps, RunSteps, RecoverSteps, SplitSteps, PublishSteps, EndSteps
  <1>1. UNCHANGED <<row, held, isolate, env>>
    BY DEF PublishTracks, DropLeftover, CheckAside, MakePublishing, MoveTrack, WriteManifest,
           SwapOut, Place, SwapIn, Restore, DropAside, DropPublishing
  <1>2. CASE UNCHANGED QueueLive /\ QueueStep(pc') = QueueStep(pc)
             /\ pc \in RunSteps /\ pc' \in RunSteps
    <2>1. UNCHANGED Queue!vars
      BY <1>1, <1>2, QueueStutter
    <2> QED
      BY <2>1
  <1>3. CASE UNCHANGED QueueLive /\ QueueStep(pc) = "publish" /\ pc' = "failCleanup"
             /\ pc \in RunSteps
    <2>1. Queue!Publish
      BY <1>1, <1>3 DEF Queue!Publish
    <2> QED
      BY <2>1 DEF Queue!Next, Queue!Worker
  <1>4. CASE QueueLive' = {"album"} /\ QueueStep(pc) = "publish" /\ pc \in RunSteps
             /\ pc' \in {"cleanup", "dropAside"}
    <2>1. QueueLive \subseteq {"album"}
      BY DEF QueueLive
    <2>2. QueueLive' = QueueLive \cup {QueueJob.album}
      <3>1. QueueJob.album = "album"
        BY <1>4 DEF QueueCopy
      <3> QED
        BY <1>4, <2>1, <3>1
    <2>3. UNCHANGED <<QueueRows, QueueCalls, requests, QueueJob, QueueTodo, isolate>>
          /\ QueueStep(pc)' = "complete"
      BY <1>1, <1>4
    <2>4. Queue!Publish
      BY <1>4, <2>2, <2>3 DEF Queue!Publish
    <2> QED
      BY <2>4 DEF Queue!Next, Queue!Worker
  <1>5. CASE DropLeftover \/ MakePublishing \/ MoveTrack \/ WriteManifest \/ DropPublishing
    BY <1>2, <1>3, <1>5 DEF DropLeftover, MakePublishing, MoveTrack, WriteManifest,
                            DropPublishing
  <1>6. CASE CheckAside
    <2>1. UNCHANGED QueueLive
      BY <1>6 DEF CheckAside, Show
    <2> QED
      BY <1>2, <1>3, <1>6, <2>1 DEF CheckAside
  <1>7. CASE SwapOut
    <2>1. UNCHANGED QueueLive
      BY <1>7 DEF SwapOut, IInv, DiskInv, SwapInv
    <2> QED
      BY <1>2, <1>7, <2>1 DEF SwapOut
  <1>8. CASE Place \/ SwapIn
    <2>1. publishing.manifest /\ Exists(publishing)
      BY <1>8 DEF Place, SwapIn, IInv, DiskInv, BuildInv, TypeOK
    <2>2. CASE pc' = "dropPublishing" \/ pc' = "restore"
      <3>1. UNCHANGED QueueLive
        BY <1>8, <2>2 DEF Place, SwapIn
      <3> QED
        BY <1>2, <1>8, <2>2, <3>1 DEF Place, SwapIn
    <2>3. CASE pc' = "cleanup" \/ pc' = "dropAside"
      <3>1. QueueLive' = {"album"}
        BY <1>8, <2>1, <2>3 DEF Place, SwapIn, Show
      <3> QED
        BY <1>4, <1>8, <2>3, <3>1 DEF Place, SwapIn
    <2> QED
      BY <1>8, <2>2, <2>3 DEF Place, SwapIn
  <1>9. CASE Restore
    <2>1. UNCHANGED QueueLive
      BY <1>9 DEF Restore, Show, IInv, DiskInv, SwapInv
    <2> QED
      BY <1>2, <1>9, <2>1 DEF Restore
  <1>10. CASE DropAside
    <2>1. UNCHANGED QueueLive
      BY <1>10 DEF DropAside, IInv, DiskInv, SwapInv
    <2> QED
      BY <1>2, <1>10, <2>1 DEF DropAside
  <1> QED
    BY <1>5, <1>6, <1>7, <1>8, <1>9, <1>10 DEF PublishTracks

\* The end of a run.
LEMMA QueueOutcome ==
    ASSUME TypeOK, Outcome
    PROVE  [Queue!Next]_(Queue!vars)
  <1> USE QueueFrames, QueueFactsHold, QueueFactsHoldNext, QueueStepFacts
          DEF QueueFacts, disk, env, copy, Queue!table, Queue!clients, Queue!worker,
              LoopSteps, RunSteps, RecoverSteps, SplitSteps, PublishSteps, EndSteps
  <1>1. CASE FailCleanup \/ (Cleanup /\ pc' = "complete")
    <2>1. /\ UNCHANGED <<row, held, isolate, pending, requests, QueueLive>>
          /\ pc \in RunSteps /\ pc' \in RunSteps /\ QueueStep(pc') = QueueStep(pc)
      BY <1>1 DEF Cleanup, FailCleanup
    <2>2. UNCHANGED Queue!vars
      BY <2>1, QueueStutter
    <2> QED
      BY <2>2
  <1>2. CASE Cleanup /\ pc' = "idle"
    <2>1. Queue!Complete
      BY <1>2 DEF Cleanup, Queue!Complete, Queue!Update, Queue!DbFails
    <2> QED
      BY <2>1 DEF Queue!Next, Queue!Worker
  <1>3. CASE Complete
    <2>1. Queue!Update("completed", "hook", "idle")
      BY <1>3, QueueUpdates DEF Complete, Completes
    <2>2. Queue!Complete
      BY <1>3, <2>1 DEF Complete, Completes, Update, Queue!Complete
    <2> QED
      BY <2>2 DEF Queue!Next, Queue!Worker
  <1>4. CASE FailJob
    <2>1. Queue!Update("failed", "apply", "apply")
      BY <1>4, QueueUpdates DEF FailJob
    <2>2. Queue!FailJob
      BY <1>4, <2>1 DEF FailJob, Update, Queue!FailJob
    <2> QED
      BY <2>2 DEF Queue!Next, Queue!Worker
  <1>5. CASE ApplyFailure
    <2> DEFINE n == IF held < 1 THEN 1 ELSE held
               status == IF n < MaxAttempts THEN "queued" ELSE "failed"
    <2>1. Update(status, n, "idle", "idle")
      BY <1>5 DEF ApplyFailure
    <2>2. QueueCopy(held).attempts = held
          /\ [QueueCopy(held) EXCEPT !.attempts = n] = QueueCopy(n)
      BY DEF QueueCopy
    <2>3. Queue!Write(QueueCopy(n), status) \/ UNCHANGED QueueRows
      <3> HIDE DEF n, status
      <3> QED
        BY <2>1, QueueWrites DEF Update
    <2>4. QueueStep(pc) = "apply" /\ QueueStep(pc') = "idle" /\ QueueJob = QueueCopy(held)
          /\ QueueJob' = Queue!Nobody /\ requests' = requests
          /\ UNCHANGED <<QueueLive, QueueCalls, QueueTodo, isolate>>
      BY <1>5 DEF ApplyFailure, Update
    <2>5. Queue!ApplyFailure
      BY <2>2, <2>3, <2>4 DEF Queue!ApplyFailure, Queue!DbFails
    <2> QED
      BY <2>5 DEF Queue!Next, Queue!Worker
  <1>6. CASE Hook
    <2>1. Queue!Hook
      BY <1>6, QueueHookWrite DEF Hook, Queue!Hook
    <2> QED
      BY <2>1 DEF Queue!Next, Queue!Worker
  <1> QED
    BY <1>1, <1>2, <1>3, <1>4, <1>5, <1>6 DEF Outcome, Cleanup

\* Requests that requeue the failed job, or write the completed one once more.
LEMMA QueueRequests ==
    ASSUME IInv, NEW c \in Clients, Client(c)
    PROVE  [Queue!Next]_(Queue!vars)
  <1> USE QueueFrames, QueueFactsHold, QueueFactsHoldNext, QueueStepFacts
          DEF QueueFacts, disk, env, copy, Queue!table, Queue!clients, Queue!worker
  <1> DEFINE active == {d \in Clients : pending[d].kind # "none"}
  <1>1. UNCHANGED <<QueueLive, QueueJob, QueueTodo, isolate>> /\ UNCHANGED QueueStep(pc)
    BY DEF Client, ReadFailed, ReadCompleted, WriteRequeued, WriteSkipped, QueueJob, QueueTodo
  <1>2. pending \in [Clients -> Request] /\ requests \in Nat /\ MaxRequests \in Nat
    BY MaxRequestsAssumption DEF IInv, TypeOK
  <1>3. CASE ReadFailed(c) \/ ReadCompleted(c)
    <2> DEFINE call(kind, n) ==
                 [n |-> requests + 2, step |-> kind, copy |-> QueueCopy(n)]
    <2>1. PICK kind \in {"enqueue", "retry", "skip"} :
            /\ pending' = [pending EXCEPT ![c] =
                [kind |-> kind,
                 attempts |-> IF kind = "retry" THEN 0 ELSE row.attempts,
                 n |-> requests + 1]]
            /\ row.status = IF kind = "skip" THEN "completed" ELSE "failed"
      <3>1. CASE ReadFailed(c)
        BY <3>1 DEF ReadFailed
      <3>2. CASE ReadCompleted(c)
        BY <3>2 DEF ReadCompleted
      <3> QED
        BY <1>3, <3>1, <3>2
    <2>2. QueueCalls' = QueueCalls
            \cup {call(kind, IF kind = "retry" THEN 0 ELSE row.attempts)}
      <3>1. QueueCall(pending'[c]) = call(kind, IF kind = "retry" THEN 0 ELSE row.attempts)
        BY <1>2, <2>1 DEF QueueCall
      <3>2. \A d \in Clients : d # c => pending'[d] = pending[d]
        BY <1>2, <2>1
      <3>3. pending[c].kind = "none" /\ pending'[c].kind # "none"
        BY <1>2, <1>3, <2>1 DEF ReadFailed, ReadCompleted
      <3> HIDE DEF call
      <3> QED
        BY <3>1, <3>2, <3>3 DEF QueueCalls
    <2>3. /\ row' = row /\ QueueStep(pc) # "down"
          /\ requests + 1 < MaxRequests + 1 /\ requests' = requests + 1
          /\ (requests + 1)' = requests + 2
      BY <1>2, <1>3 DEF ReadFailed, ReadCompleted, QueueStep
    <2>4. Queue!CopyOf("album") = QueueCopy(row.attempts)
      BY DEF Queue!CopyOf, QueueCopy
    <2>5. CASE kind = "enqueue"
      <3>1. Queue!Find("album")
        BY <1>1, <2>1, <2>2, <2>3, <2>4, <2>5 DEF Queue!Find
      <3> QED
        BY <3>1 DEF Queue!Next, Queue!Request
    <2>6. CASE kind = "retry"
      <3>1. QueueCopy(0) = [album |-> "album", id |-> 1, attempts |-> 0]
        BY DEF QueueCopy
      <3>2. Queue!Get("album")
        BY <1>1, <2>1, <2>2, <2>3, <2>6, <3>1 DEF Queue!Get
      <3> QED
        BY <3>2 DEF Queue!Next, Queue!Request
    <2>7. CASE kind = "skip"
      <3>1. Queue!GetCompleted("album")
        BY <1>1, <2>1, <2>2, <2>3, <2>4, <2>7 DEF Queue!GetCompleted
      <3> QED
        BY <3>1 DEF Queue!Next, Queue!Request
    <2> QED
      BY <2>5, <2>6, <2>7
  <1>4. CASE WriteRequeued(c) \/ WriteSkipped(c)
    <2> DEFINE call == QueueCall(pending[c])
               status == IF pending[c].kind = "skip" THEN "completed" ELSE "queued"
    <2>1. /\ call \in QueueCalls /\ call.step = pending[c].kind
          /\ call.copy = QueueCopy(pending[c].attempts)
      BY <1>4 DEF WriteRequeued, WriteSkipped, QueueCalls, QueueCall
    <2>2. QueueCalls' = QueueCalls \ {call}
      <3>1. /\ pending'[c].kind = "none"
            /\ \A d \in Clients : d # c => pending'[d] = pending[d]
        BY <1>2, <1>4 DEF WriteRequeued, WriteSkipped, Writes, NoRequest
      <3>2. \A d \in active : d # c => QueueCall(pending[d]) # call
        <4>1. \A d \in active : QueueCall(pending[d]).n = pending[d].n + 1
          BY DEF QueueCall
        <4>2. \A d \in active : pending[d].n \in Nat
          BY <1>2 DEF Request
        <4>3. c \in active
          BY <1>4 DEF WriteRequeued, WriteSkipped
        <4>4. \A d \in active : d # c => pending[d].n # pending[c].n
          BY <4>3 DEF IInv, QueueInv
        <4> QED
          BY <4>1, <4>2, <4>3, <4>4
      <3> HIDE DEF call
      <3> QED
        BY <3>1, <3>2 DEF QueueCalls, call
    <2>3. \/ row' = [status |-> status, attempts |-> pending[c].attempts]
          \/ row' = row
      BY <1>4 DEF WriteRequeued, WriteSkipped, Writes
    <2>4. Queue!Write(call.copy, status) \/ UNCHANGED QueueRows
      <3> HIDE DEF status
      <3> QED
        BY <2>1, <2>3, QueueWrites
    <2>5. call.step \in {"enqueue", "retry", "skip"} /\ requests' = requests
          /\ call.copy.album = "album" /\ call.copy.id = 1
      BY <1>2, <1>4, <2>1 DEF WriteRequeued, WriteSkipped, Request, QueueCopy
    <2>6. status = IF call.step = "skip" THEN "completed" ELSE "queued"
      BY <2>1
    <2>7. Queue!Requeue(call) \/ Queue!Retry(call) \/ Queue!Skip(call)
      <3> HIDE DEF call, status
      <3>1. CASE call.step = "enqueue"
        BY <1>1, <2>2, <2>4, <2>5, <2>6, <3>1 DEF Queue!Requeue, Queue!Say, Queue!DbFails
      <3>2. CASE call.step = "retry"
        BY <1>1, <2>2, <2>4, <2>5, <2>6, <3>2 DEF Queue!Retry, Queue!DbFails
      <3>3. CASE call.step = "skip"
        BY <1>1, <2>2, <2>4, <2>5, <2>6, <3>3 DEF Queue!Skip, Queue!DbFails
      <3> QED
        BY <2>5, <3>1, <3>2, <3>3
    <2> QED
      BY <2>1, <2>7 DEF Queue!Next, Queue!Answering
  <1> QED
    BY <1>3, <1>4 DEF Client

\* Publication implements JobQueue with one album: whatever call of the swap
\* fails, wherever the process dies and whichever stale request is written, the
\* row changes only as JobQueue says, and JobQueue takes the album for
\* published only while its manifest is at the album path or aside.
THEOREM ImplementsJobQueue == Spec => QueueSpec
  <1>1. Init => Queue!Enqueued("album")
    <2> SUFFICES ASSUME Init
                 PROVE  Queue!Enqueued("album")
      OBVIOUS
    <2>1. QueueCalls = {}
      BY DEF Init, QueueCalls, NoRequest
    <2>2. QueueLive = {}
      BY NoDirFacts DEF Init, QueueLive, Exists
    <2>3. QueueStep(pc) = "down" /\ QueueJob = Queue!Nobody /\ QueueTodo = {}
      BY QueueFactsHold, QueueStepFacts DEF Init, QueueFacts, LoopSteps, RunSteps, RecoverSteps,
         SplitSteps, PublishSteps, EndSteps
    <2>4. QueueRows = [b \in {"album"} |->
                        IF b = "album" THEN [id |-> 1, status |-> "queued", attempts |-> 0]
                        ELSE Queue!NoRow]
      BY DEF Init, QueueRows
    <2> QED
      BY <2>1, <2>2, <2>3, <2>4 DEF Init, Queue!Enqueued
  <1>2. IInv /\ [Next]_vars => [Queue!Next]_(Queue!vars)
    <2> SUFFICES ASSUME IInv, [Next]_vars
                 PROVE  [Queue!Next]_(Queue!vars)
      OBVIOUS
    <2>1. CASE UNCHANGED vars
      <3>1. UNCHANGED <<row, pc, held, isolate, pending, requests, QueueLive>>
        BY <2>1, QueueFrames DEF vars, copy, disk, env
      <3>2. UNCHANGED Queue!vars
        BY <3>1, QueueStutter
      <3> QED
        BY <3>2
    <2>2. CASE Next
      BY <2>2, QueueLoop, QueueRecovery, QueueAttempt, QueuePublish, QueueOutcome,
         QueueRequests DEF Next, Worker, IInv
    <2> QED
      BY <2>1, <2>2
  <1> QED
    BY Invariance, <1>1, <1>2, PTL DEF Spec, QueueSpec
=============================================================================

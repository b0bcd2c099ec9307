# A TLA+ model of cuearr

cuearr watches directories for albums that are one audio image with a cue
sheet, splits each image into tracks, publishes the tracks as an album
directory and asks Lidarr to import it. This directory holds TLA+ modules of
the parts of it where order, failure and concurrency decide whether an album is
kept, split once and imported once; TLC configurations that check them on small
instances; and proofs, checked by TLAPS, that the main invariants hold for
instances of every size.

Paths below are relative to `internal/` unless they start with `cmd/`, `docs/`
or `deploy/`. `PROJECT.json` maps each definition to the lines it stands for.

## 1. Inventory

### Who runs

One process (`cmd/cuearr/main.go`) with these goroutines: ONE worker
(`app/worker.go`), an import poller (`runImportPoller`), a file-system watcher
with a timer per directory (`adapters/fs/watcher.go`), a startup scan, and a
goroutine per HTTP request (`adapters/http`). They share a SQLite database
(one connection, so one statement or transaction at a time), the runtime
settings (`app/runtime.go`) and the file system. `runSupervised` ends the
process when one of its parts fails (a watcher that fails is only logged); the
container is restarted (`restart: unless-stopped`,
`deploy/docker/docker-compose.yml`).

### Components

| component | state it keeps | operations | interacts with | hard behaviours | what makes it correct |
|---|---|---|---|---|---|
| publication protocol, `app/publish.go`, `app/publication_recovery.go` | staging, `.publishing-`, `.aside-` and album directory, manifest | PrepareStaging, PublishTracks, recoverPublication | job runner, worker start, file system | a crash or an error between any two of about a dozen calls; removals that stop half way | a reader sees all tracks or none; the newest album is never lost; completed means published |
| worker and job runner, `app/worker.go`, `app/run.go`, `domain/retry.go` | the copy of the job in hand | startup recovery, tick, claim, attempt, failure, completion, import hook | store, publication, import hook | statements that fail after work was done; shutdown at any point; the retry budget across restarts | every job settles; no more attempts than allowed; nobody is left running |
| enqueue and manual retry, `app/enqueue.go`, `handlers.go` | a copy of the row between two statements | find, create, refind, requeue; get, write back | store; races with the worker and with each other | whole rows written back from a copy that can be old | one job per album; a job is not written over another |
| job store, `adapters/store/sqlite` | jobs table, settings row | statements and transactions | everybody | UNIQUE index, conditional updates | see the users of each statement |
| import, `app/import.go`, `domain/import.go`, poller in `main.go` | import columns, settings snapshot of the poller | claim, request, finish, skip, poll | store, Lidarr, settings | slow or lost answers, a claim that expires, crash between claim and outcome, whole rows written from an old copy by a skipped import or a stale requeue | for each completion of the job one request at a time and none after success; an outcome belongs to its claim; imports settle |
| runtime settings, `app/runtime.go`, PUT handlers | settings in memory, in the store, change channel | Put, Apply, roll back, snapshot, seed at start | every component through snapshots | a statement or an apply fails, the process ends between two of them | requests change one register; memory follows it; no missed change |
| watcher and debouncer, `adapters/fs/watcher.go`, `watcherController` | timers by directory, stopped flag, running count | schedule, fire, stop, restart | enqueue | a timer already fired when it is replaced; Restart waits under a mutex | a change is scanned after the album has been quiet; no scan after stop; one watcher |
| supervision and shutdown, `cmd/cuearr/main.go` | root context, wait group, fatal channel | cancel, Shutdown, Stop, WaitScans, Wait | all goroutines | order of waiting, parts that fail meanwhile | shutdown ends; nothing touches a closed store |
| webhook, `adapters/http/lidarr.go` | none | choose the directory to scan | detection, enqueue | a body whose paths may stand in twenty places | the album that is named is scanned |
| album detection, `app/scan.go`, `app/detect.go`, `domain/album.go` | none | list, read the sheet, stat, hash | watcher, endpoints, enqueue | the album is written meanwhile | one album, one fingerprint |
| cue parsing and timing, `domain/cue*.go` | none | pure | detection, splitter, verification | lines in any order, boundary values | reads what is said; lengths tile the image |
| preflight, `app/preflight.go` | none | stat, room, wait, stat | job runner | an image still being copied, a full disk | an image at rest, and room for the copy |
| WAV and FLAC durations, `adapters/audio` | none | chunk walk; `metaflac`, `flac -t` | verification | odd chunks, wrong lengths in headers | the length of the audio |
| verification, `app/verify.go` | none | read the sheet again, measure, compare | job runner | sheet and image may be others than those split | accepted tracks are those of the sheet |
| authentication, `adapters/auth` | password and issuer in the settings, cached OIDC provider | bootstrap, first password, sign-in | settings | a provider cached for another issuer, two first passwords | one first password; the configured provider |
| HTTP rendering, diagnostics, static page, configuration, logging, external splitter and tagger | no state the above depends on | | | | outcomes only |

`PROJECT.json` lists the components with their status, and the hazards, each at
its line with the properties that cover it.

## 2. What is modelled

### AlbumView

What anybody who looks at an album path is promised: the path shows no track or
all tracks of one version; a later version replaces an earlier one in one step;
an album may be hidden for a moment while it is replaced, and the same version,
or a later one, comes after. Three actions: Publish, Hide, Reappear.

### Publication

The life of ONE job: its row, the worker, and the four directories. One action
per file-system call and per statement, so that each can fail and the process
can die between any two.

| state | code |
|---|---|
| `row` | status and attempt count of the row |
| `pc` | the call the worker makes next |
| `held`, `isolate`, `complete` | attempt count in the worker's copy; argument of `recoverPublications`; verdict of `recoverPublication` |
| `staging`, `publishing`, `aside`, `final` | the directories: version, tracks in it, manifest of this job |
| `pending`, `requests` | per client, the copy it has read and not yet written: of a failed job to be queued (Enqueue or retry), of a completed one whose import is to be skipped; how many so far |
| `stale` | a skip was written over a job that had been queued again since its copy was read, and the job was not completed since (not in the code) |
| `stopping`, `calm` | context cancelled; faults have stopped |
| `gen`, `seen` | versions split so far; newest version that was ever visible |

A directory is a version number, a set of tracks and a flag for a manifest; a
rename moves it in one step, a failing removal leaves any part of it
(`Leftovers`). Actions are named for the call or function they stand for. The
steps of recovery are shared by startup (`isolate = FALSE`, an error ends the
worker) and tick (an error quarantines the job).

Everybody writes whole rows (`Store.Update`). The copy a client holds can be as
old as it likes: it may put `queued` over a completed job and `completed` over
one that is queued, running or publishing. `HookWrite` is the same write by the
worker, just after it completed the job; it may overwrite a requeue.

What it leaves out: other albums (JobQueue), the audio, what the splitter
prints, paths (the output directory, or the image's own directory for in-place
output, is assumed not to change between attempts), and `PublishMergeInto`,
which RunJob never chooses. The manifest of ANOTHER job at the album path is a
directory without this job's manifest. `MaxAttempts` is
constant: lowering it in the settings could leave rows above it.

`QueueSpec` says that Publication implements JobQueue with one album, from the
state where the job has just been enqueued. `QueueStep` groups the calls into
JobQueue's steps: all of recovery is `recover`, preflight to split is `work`,
the swap up to the rename that shows the album is `publish`, what follows it is
`complete`. The album is `live` while this job's manifest is at the path or
aside; every client's pending requeue is one of `calls`, told apart by its
number; a shutdown is a run in which statements fail until the worker leaves.

### JobQueue

The jobs table for a set of albums, requests between their statements, and the
worker statement by statement. What happens on disk is reduced to whether the
album was published (`live`). What recovery finds is then open for an album
that is live: completed, or, when a later attempt was cut off in its swap and
the manifest of the earlier one is aside, queued again (`Recovers`).
Publication, which implements this module, decides it.

| state | code |
|---|---|
| `rows` | by fingerprint: row id, status, attempts (no row: id 0) |
| `calls` | requests (and rounds of the import poller) that have read and not yet written: step and copy; `skip` is a completed job that will be written back as completed |
| `answers` | ids that Enqueue has answered |
| `pc`, `job`, `todo`, `isolate` | next statement, copy in hand (`Nobody` between runs), copies listed by `recoverPublications`, its argument |
| `live` | albums published by their job |

Ids are numbers that grow, which is also the order in which jobs are claimed
(`ORDER BY created_at`). `Unrecoverable` albums are those whose recovery never
succeeds (a torn manifest). Store faults can be switched off (`DbFaults`).

### Import

The import of ONE job: its status, its import columns, and everybody who writes
them. Those who ask Lidarr are the worker (the hook after each run), the poller
and some requests. No lock is held meanwhile: the row carries a claim that keeps
others away for `Cooldown`. Time is discrete and kept as ages: the age of the
claim in the row, and for each actor the time since it read the clock, at most
`MaxLag`. Settings change at any time; the poller works with the snapshot it
took before it waited, and without a poll interval it waits for a change of the
settings only. A crash forgets all actors and all copies.

| state | code |
|---|---|
| `row` | status of the job; status, claim and age of its import |
| `stale`, `requeues` | copies of the failed job that Enqueue or a retry has read and not yet written; how many so far |
| `act` | per actor: its step, its snapshot of the settings, the time since it read the clock, its claim, the result, the run in which it claimed |
| `importing`, `polling` | settings: import is configured; the poll interval is positive |
| `claims`, `accepted`, `runs` | claims so far, those Lidarr accepted (an answer that is lost is a failure to the client); how often the job was completed (history) |

The other writers write the whole row. A run of the job (`TakeUp`, `Working`,
`GiveUp`, `Complete`) is here only what it writes, in any order the other two
modules may have; `WriteQueued` is a stale requeue, which empties the import
columns of a job that is requested or imported, after which the job is run, its
hook claims, and Lidarr is asked, again. So what the module promises is promised
for each completion of the job (`runs`). `Claim` asks for the job's status as
`ClaimImport` does; `FinishImport` does not, as the code does not.

Manual requests are modelled with the poller's listing of one job; paging and
other jobs are left out, since claims of different rows do not meet.

### Watcher and Shutdown

Watcher has the state and the steps of the watcher, its debouncer and the
controller that replaces one watcher by the next; Shutdown composes them with
`main`, the wait group and the requests that call the controller or scan in the
background, and has the specification.

| state | code |
|---|---|
| `there`, `changes` | the albums that exist; how often they changed so far |
| `halt`, `phase`, `cancelled` | root context; per watcher, where `Start` is and whether its own context is cancelled |
| `watched`, `unread`, `events` | inotify watches, directories still to add, the queue |
| `timers`, `armed`, `fired`, `running` | the debouncer's map; timers that count down; callbacks that wait for its mutex; scans |
| `owed` | changes a watcher was told of and has not scanned (not in the code) |
| `mu`, `ctl`, `wants`, `current` | the controller's mutex, its calls, whether the new watcher has directories, the watcher it knows |
| `main`, `helpers`, `listening`, `http`, `bg` | what main waits for, the wait group, the listener, requests, background scans |

A callback that has fired is told apart from a timer that counts down, since
`time.Timer.Stop` has no effect on it: this is the race that the comparison of
timers in the callback is for. A watch that cannot be added ends a watcher that
starts and is passed over by one that runs, as in the code. Left out: the depth
of the tree, the limit of the kernel's queue, the exit status. Helpers are the
goroutines main waits for; what worker and poller do is Publication's and
Import's subject, here they may fail or end with the context.

### SettingsData, SettingsRegister and Settings

SettingsData has the settings as values and what the handlers make of a body.
SettingsRegister is the promise: one value that each request changes at once or
not at all. Settings is the code, one action per call that touches the row or
the memory, with statements that fail, settings that cannot be applied, the
rollback that can fail too, and the end of the process at any step.

| state | code |
|---|---|
| `life`, `crashes` | start-up in the order of `run`; how often the process ended |
| `store`, `memory` | the row; `RuntimeConfig` |
| `channel`, `closed` | its change channel, and those closed |
| `mu`, `at`, `old`, `new` | `settingsMu`; per request its step, what it read and what it writes |
| `apart` | a rollback failed (not in the code) |
| `poller` | what `waitForImportPoll` took before it waits |
| `oidcMu`, `cache`, `signIn` | the mutex and the provider of `OIDCHandler`, sign-ins |

Of the fields, those are kept that decide something here. The refinement maps
the register's value to the row, but while a request has stored its change and
not applied it, to what it replaces; that is the moment at which memory and row
differ and a crash decides for the new one. A request that dies may have had its
effect (`Lose`). Left out: the refusals of `HandleCallback` before it asks for
the provider, hashing, cookies and request filtering.

### CueSheet, WavFile, LidarrHook and Intake

The first three are the pure algorithms, each with a reference that says the
same without the code's loop: `SheetOf` (what a cue sheet says as a whole)
against `ParseCue`, `DurationOf` against the chunk loop of `wav.go`, `Named`
against the search for a path in an event of Lidarr. What the external splitter
may leave (`Cut`, `Left`) is the exact tracks or such with one of them too long,
not decodable, missing or too many.

Intake composes them: one album directory, scans of it, one attempt to split
it, and somebody who may write it between any two looks at it.

| state | code |
|---|---|
| `versions` | the album over time: a second cue sheet, the cue sheet, the images (chunks, length in the header, real length, time, audio); the last one is on the disk |
| `det` | per scan: the step of `DetectAlbum` and what it has so far, with the moments of its first and last look |
| `att` | the attempt: the step of `RunJob` from preflight to verification, the two stats, the room, the outputs, the tags |

Only the sequence of versions is not in the code; it lets properties speak of
what the album was when somebody looked. A hash is what it is the hash of. Times
are in frames, 75 a second; a tolerance of whole frames is exact, as all lengths
are differences of whole frames in the model (the code compares nanoseconds,
100 ms are 7.5 frames). Any call of the attempt can fail (`AttemptFails`), so a
refusal needs no action of its own: no other step is left then. Left out: quotes
and blanks in cue sheets, lines longer than the scanner's buffer, the walk of the tree, path mapping, decoding (what
`metaflac` and `flac -t` answer is assumed right), durations beyond two million
minutes, where the code's int64 of nanoseconds overflows, and a writer that
makes an image shorter and longer again between two looks. The fingerprint is not
compared with the album when the job runs, in the code either.

## 3. What is checked

| run | instance | distinct states | shows |
|---|---|---|---|
| `publication` | 1 track, 2 clients, 2 attempts, 2 requests | 2 267 000 | `NewestAlbumKept`, `CompletedIsPublished`, `AttemptsBounded`, `IntentBeforeSwap`; implements AlbumView (`ViewSpec`) and JobQueue with one album (`QueueSpec`); the inductive invariant `IInv` |
| `publication_live` | 2 tracks, 1 client, 2 attempts, 1 request | 705 000 | `NeverPartial`; `Settles`, `HiddenAlbumReturns` |
| `job_queue` | 2 albums, one unrecoverable, 3 requests, 2 attempts, store faults | 285 000 | `OneJobPerAlbum`, `CopiesMatchRows`, `StartupSettlesPublications`; `QueueDrains` |
| `import` | 2 manual requests, Cooldown 2, MaxLag 1, 2 claims, 1 stale requeue | 3 530 000 | `OneRequestAtATime`, `NeverAskedAgain`, `ClaimKept` |
| `import_live` | 1 manual request, Cooldown 1, MaxLag 1, 1 claim before `calm`, 1 stale requeue, polling on and off | 901 000 | `OutcomeIsLatest`, `ImportSettles`, `IInv` with requests as slow as the lease |
| `shutdown` | 1 album, 2 changes, main and one PUT as callers, 1 scan request | 115 000 | `OneWatcher`, `QuietAfterStop`, `StoreClosedLast`, `NewestTimerScans`, `IInv`; `ChangeIsScanned`, `CallsReturn`, `ShutdownEnds` |
| `settings` | 2 PUT /settings, 1 PUT /settings/auth, 1 browser, 1 end of the process, 4 bodies | 275 000 | implements SettingsRegister (`RegisterSpec`); `MemoryMatchesStore`, `PollerIsTold`, `ProviderIsConfigured`, `PasswordStays` |
| `intake` | 41 albums, 2 scans, 1 attempt, 1 write, 7 events | 414 000 | `SheetIsRead`, `WavIsMeasured`, `ScansAgree`, `RoomAndRest`, `AcceptedTracksFit`, `HookFindsAlbum` |
| `publication_exhausted`, `publication_final`, `publication_stale`, `import_skip` | 1 track, 1 or 2 clients; 1 manual request | | four statements of the documents that the code does not keep, section 5 |

Bounds and why they are enough. Two tracks make a directory that is partly
filled; one is enough where only the existence of directories matters. Two
attempts are one that is requeued and one that exhausts the budget; a manual
retry starts again. One request that is read in one state and written in any
later one is enough for a stale requeue. A stale skip needs two clients: one
reads the failed row, another the completed one, the first writes `queued`, and
the second writes `completed` at any point of the run that follows. In JobQueue
three requests let two race to create a job while a third requeues it. Two
albums let one job wait for or pass another. In Import a claim, a competing
claim and a bystander with an old copy are the interesting roles, and cooldowns
of two ticks put a reader of the clock before, at and after the expiry; one
requeue that is read early and written late gives a second run, with a request
of the first still in flight. `MaxRequests`, `MaxRequeues` and `MaxClaims` bound
only new requests and new rounds, never the handling of those begun; after
`calm` the poller's rounds are no longer bounded, so that liveness does not rest
on it.
Ages stop at `Cooldown + MaxLag`, beyond which no condition tells them apart.

In Shutdown one album is enough, since nothing the code does relates two
directories but the end of the watcher; two changes let a timer be replaced
before, while and after it fires; main and one request are all who can hold and
wait for the controller's mutex at once, `settingsMu` admits no second request.
In Settings two bodies that differ in each field, one with an unknown engine and
one that drops what it may make every merge visible, and the requests and the
end of the process meet at each step. In Intake the albums are chosen: cue
sheets with lines missing, doubled or in odd places, images with chunks in every
order, odd sizes and lengths that lie, and two that are still being copied; one
write between two looks makes any look stale, and two scans are what a
fingerprint needs to be compared. `Tolerance` 1 has tracks at and one frame
beyond it; `FreeSpaces` one byte short of what is needed and just enough.

Symmetry is used in `publication`, `publication_stale`, `import` and `intake`,
where clients, manual requests or scans are interchangeable and no liveness is
checked. Deadlock is checked in all runs but `settings` and
`intake`: there requests, scans and attempts come to an end and the system may
rest.

Each property also has a mutant: a definition of the module with a plausible
bug, under which TLC finds the property violated.

### Fairness

- `WF(Worker)`, `WF` of the requests' steps, `WF(Poller)`: goroutines are
  scheduled. In JobQueue and Publication the interval ticker is folded into
  this.
- `WF(Tick)` in Import: time passes, and every HTTP request ends with its
  client's timeout.
- `WF(Start)` and `WF` of the end of a process whose worker has left: the
  supervisor ends it and the container is restarted.
- `SF(Leave)` in Publication: when a tick and a cancelled context are ready,
  Go's select chooses at random, so it cannot choose the tick for ever.
- `WF(System)` in Shutdown: goroutines run, timers expire, scans and requests
  end. One condition for all of them suffices because the number of these steps
  is bounded, so none is put off for ever by the others. Changes of albums, the
  signal, failing helpers and new requests are not in it.
- New requests, crashes, faults, shutdowns, changes of settings and, in Import,
  the runs of the job are never fair. The liveness properties are about what happens once `calm`, which is a
  state nothing forces: that faults stop is a hypothesis of each property.

## 4. What is proved

The modules whose names end in `Proofs` are checked by TLAPS for every value of
the constants that the modules' ASSUMEs admit: any number of tracks, albums,
requests, callers, scans and so on. The bounds on crashes, changes and writes
are constants too, so the theorems hold for each of them.

**Publication.** `IInv = TypeOK /\ DiskInv /\ CompletedInv /\ BudgetInv /\ QueueInv`. The
properties are not inductive: that the album is never lost depends on what the
worker knows at each call. `DiskInv` says it: `AlbumSafe`, one whole directory
of the newest visible version is at the path, or aside while the path is free;
`BuildInv`, from the split on the version being built is complete and newer
than the visible one; `SwapInv`, which of the directories exists at each step
of the swap and of recovery, in particular that a manifest at the album path
implies a finished swap. `CompletedInv` adds that nothing between claim and
completion runs while the row says completed, because only a claim leads there,
stale requeues write `queued`, and a skip that lands on a job in a run says so
in `stale`: that job may have its album aside, and the statement holds again
from its next completion on. From `IInv` follow `NeverPartial`,
`NewestAlbumKept`, `CompletedIsPublished` and `AttemptsBounded`. The same facts
show that each step of Publication is a step of AlbumView or leaves its
variables unchanged (`ImplementsAlbumView`), and that each is a step of JobQueue
with one album or leaves its variables unchanged (`ImplementsJobQueue`). For the
second, `SwapInv` says that the manifest is never lost between the path and the
backup, so that the album stays live, and `QueueInv` that only a tick
quarantines and that no two pending requeues have the same number. The proof has
a lemma for each group of actions and one step per action, over the facts of
`QueueFacts`, which say what JobQueue's variables are at each call.
`IntentIsPersisted` proves
`IntentBeforeSwap` from an invariant of its own, `IntentInv`: until somebody
requeues the job, the row says publishing from the intent to the end of the
swap and while recovery looks at the directories.

**JobQueue.** `IInv = TypeOK /\ IdsInv /\ StartupInv`. The argument is that a
row, once there, keeps its id: whoever writes a row holds a copy with that
row's id, however old the copy is, and whoever creates one finds none. From it
follow `OneJobPerAlbum` and `CopiesMatchRows`. `StartupInv` says that while
startup recovery runs, each publishing row is on its list; requests cannot add
one, since they write only `queued` or `completed`. `NoOrphan` needs `DbFaults = FALSE` and a
second invariant, `RunningInv`: a running row is the worker's job, or it is
left over from a dead process and startup has not requeued it yet. It is
proved only; no run checks it, since the run of this module has store faults.
`InvarianceFromEnqueued` shows `IInv` also for the behaviours that begin where
Publication does.

**Import.** `IInv = TypeOK /\ JobInv /\ ClaimsInv /\ OutcomeIsLatest`, for any
`MaxLag`: a job that is not completed has empty import columns, every claim is
in one actor's hands, who knows whether Lidarr accepted it, and a result is
written only over its own claim. A requeue only takes the claim out of the row,
so that a late result finds no row to be written to. With the hypothesis
`MaxLag < Cooldown`, which is thirty seconds of HTTP timeout and two statements
against two minutes, `Lease = RunsInv /\ OneRequestAtATime /\ ClaimKept` is
inductive too, with `IInv`: while an actor that claimed since the job was last
completed is in flight, the row carries its claim, as old as the time since the
actor read the clock, or says skipped, or the job is not completed; in each case
nobody can claim. A completion begins a new run, in which nobody has a claim
yet. `OneRequest`, `ClaimIsKept` and `NobodyAsksAgain` state the hypothesis; the
last adds that a job that is imported, or skipped with nobody of its run in
flight, stays so until it is completed once more (`Closed`). The proofs go over
the kinds of steps (`Kinds`): what a step does to the row and to one actor.

**Watcher and Shutdown.** `IInv` says what the timers mean (`TimersInv`: an armed
timer is its album's, one that has fired may only have been replaced by a newer
one), when there can be none (`PhaseInv`), that the controller knows the only
watcher that is not done and that who waits holds the mutex (`ControllerInv`),
and from which point of main's way on requests, watchers and scans are over
(`RequestsInv`, `MainInv`, `StoppedInv`). The last is the reason for the order
of shutdown: after Stop a request may still start a watcher, but it finds the
context cancelled before it has looked at a directory. From it follow
`OneWatcher`, `QuietAfterStop`, `NewestTimerScans` and `StoreClosedLast`.

**Settings.** `IInv`: whoever holds `settingsMu` is the only request at work,
the row is the one it read until it writes its own (`RequestsInv`); the poller
waits on the present channel with the present setting, or on a closed one
(`RuntimeInv`). With it each step of Settings is a step of SettingsRegister or
changes nothing of it (`ImplementsRegister`), memory follows, the poller is told,
a password stays, and a sign-in uses the provider that is configured.

**Intake.** The invariant says of each part of what a scan or the attempt has
seen, in which version since it began it was there. If no write came between
the first look and the last, all parts are of one version, and the fingerprint
determines it (`FingerprintsTellAlbumsApart`). The writer of the
model never makes an image shorter, so two stats that agree leave no room for a
change of size between them; and the arithmetic of the free space does not overflow for sizes up to half of its range
(`SplitterHasRoomAndRest`, `RoomIsEnough`). `TracksTile`: the lengths that
verification expects are not negative, and each track ends where the next
begins.

The sheet a scan has is that of its cue, and the directory that of its event; the
image of the attempt is plain in every version, because the chunks of an image
never change, and the outputs are accepted for a sheet and a length that the
album had. So the four properties of what is read, measured and accepted are
theorems too, by what the algorithms compute:

**CueSheet.** `CueIsRead`: for every sequence of lines, `ParseCue` rejects it
when `Rejected` says so and returns `SheetOf` otherwise. The loop invariant
(`LineIsRead`) is that what is known behind line `i` is `SheetOf` of the first
`i` lines; the lemmas before it say what one more line does to the last word for
a key (`SaidNow`), to the set of tracks and to the k-th of them.

**WavFile.** `WholeFileIsMeasured`: of a whole plain file the loop knows, at each
chunk, the format and the size of the data it has passed, and ends with the
right length, for every list of chunks. `OneLength`: of a plain file it finds
that length or none, whatever the header and the real length say.
`NoLengthWithoutAudio`: a length is found only when a data chunk ends before the
end of the file.

**LidarrHook.** The first part given, in the first place that has one, is a path
that the event names, and there is one if it names any (`EventsFindTheAlbum`).

`AcceptedTracksTileTheImage`: outputs that are each within the tolerance of their
expected length end, added up, within as many tolerances of where the next track
begins, by induction over the tracks (`OutputsAddUp`).

Induction over data is done by hand: the least number that a property of a loop
fails for leads to a contradiction (`Induction` in CueSheetProofs, for a set of
numbers), and a recursive function is unfolded one step at a time (`SumsStep`,
`MeasuresStep`). The conditions of each CASE exclude one another, so that a CASE
says which of its branches counts.

The assumptions on Intake's constants are those the code's types give: a size is
below half of the range of the free space (an int64 against a uint64), a cue is
a sequence of lines and a timestamp one of numbers, the parts of a place in an
event are a sequence and the place is one of those the code looks in (a path
anywhere else is none to the code), chunks have natural sizes, and the marks
None and Bad are no values of the program.

Only model-checked: liveness (`Settles`, `HiddenAlbumReturns`, `QueueDrains`,
`ImportSettles`, `ChangeIsScanned`, `CallsReturn`, `ShutdownEnds`), which needs
ENABLED and fairness.

## 5. Where the documents and the code disagree

1. `FailedIsExhausted`. `docs/file-reliability.md` says failed attempts are
   re-queued until `max_attempts`. `failJob` first writes `failed`; the budget
   is applied by a second write. A crash or a store error between the two
   leaves the job in `failed` with attempts left, and so does the quarantine of
   a publication that a tick cannot recover.
2. `CompletedIsFinal`. The design document says an album that is completed is
   skipped. Enqueue and the manual retry write a whole row back that they read
   as failed; if somebody else requeued the job and it was completed in the
   meantime, it is queued and split once more. The album is not lost by it
   (`NewestAlbumKept` holds with these requests).
3. `CompletedAfterPublish`. `docs/file-reliability.md` says a job is marked
   completed only after the publish succeeded. `skipIfPending` writes the whole
   row it was given, status completed included. When a stale requeue queued the
   job again after that copy was read, `completed` lands on a job that runs, and
   the old album may be aside at that moment. A run that goes on writes its own
   status later; after a crash in the swap the album stays aside, since recovery
   lists publishing rows only and neither Enqueue nor a retry requeues a
   completed job. `NewestAlbumKept` still holds, the album is whole in the aside
   directory; `HiddenAlbumReturns` is about rows that say publishing.
4. `SkippedFromNone`. The import design says `skipped` comes after `none`.
   `skipIfPending` tests its copy and then writes the row, over a request or an
   outcome that came in between.

A consequence of the second: the stale requeue writes the import columns too,
`none` over `requested` or `imported`. The job is split again and its hook asks
Lidarr again, while an earlier request may be in flight. The properties of
Import are therefore about what happens between two completions of the job.

Two relatives of the second that no document contradicts: a manual retry that
comes between `failJob` and `ApplyAttemptFailure` is overwritten by the
latter, and a stale Enqueue restores an older attempt count.

Two more that `Settings` shows as behaviour, and no document denies. A crash
after the row was written and before a rollback keeps an engine that is unknown:
each start then fails until the row is repaired. A sign-in that was begun with
one issuer is taken back with the one that is configured by then, and refused by
it.

And of `Intake`: the cue sheet, the image's time and its content are read one
after the other. A scan that overlaps a write can give a fingerprint of no state
the album ever had, and the next scan makes a second job for it.
`ScansAgree` is about scans that no write overlapped.

## 6. What is not modelled, and the plan

What could follow, in this order:

1. Publication with an output directory that changes between attempts: the
   backup of an interrupted swap is then in the other one.
2. The walk of the tree (`adapters/fs/detect.go`) with its depth, and
   `MapLidarrPath`: prefixes of paths, which need paths as sequences.
3. `PublishMergeInto`, if a code path of the daemon comes to choose it.

Not planned: the cryptography of authentication, rendering of responses,
diagnostics, the web page, configuration parsing and logging, which keep no
state that the above depends on, and the external splitter and tagger, which
are nondeterministic outcomes here.

------------------------------- MODULE Intake -------------------------------
(***************************************************************************)
(* One album directory from the event that names it to the tracks that are *)
(* accepted for publication, while somebody else may still be writing it.  *)
(*                                                                         *)
(*   internal/adapters/http/lidarr.go  handleLidarrHook                    *)
(*   internal/app/scan.go, detect.go   ScanDir, DetectAlbum                *)
(*   internal/domain/album.go          BuildSplitPlan, Fingerprint         *)
(*   internal/app/preflight.go         Preflight.Check                     *)
(*   internal/app/run.go               RunJob, from preflight to verify    *)
(*   internal/app/verify.go            VerifySplit                         *)
(*                                                                         *)
(* Every look at the directory is a step of its own, so that the album can *)
(* change between any two.  What becomes of the fingerprint is JobQueue's, *)
(* what becomes of the accepted tracks Publication's subject.  A hash is   *)
(* what it is the hash of.                                                 *)
(***************************************************************************)
EXTENDS WavFile, LidarrHook

CONSTANTS
    Albums,          \* the album to begin with: [second, cue, files]
    Names, Layouts,  \* the names of its images; the chunks they may have
    Cues, Edits,     \* its cue sheets; those that the writer may put in place
    Scans,           \* scans of the album, by whomever they are asked for
    Events,          \* events of Lidarr, see LidarrHook
    Album,           \* the directory
    WavNames,        \* the names that end in .wav
    FreeSpaces,      \* what the file system may say is free
    Tolerance,       \* durationTolerance, in frames
    Reserve,         \* freeSpaceReserve
    Limit,           \* math.MaxUint64
    MaxWrites        \* bound: changes of the album

File == [chunks : Layouts, riff : Nat, end : 0 .. Limit \div 2, mtime : Nat, audio : Nat]
AlbumsOf(images) == [second : BOOLEAN, cue : Cues, files : [images -> File]]

\* A size is an int64.
ASSUME SizesAssumption ==
    /\ Limit \in Nat /\ Reserve \in 0 .. Limit \div 2 /\ FreeSpaces \subseteq Nat
    /\ \A chunks \in Layouts : EndOf(chunks) \in 0 .. Limit \div 2
ASSUME AlbumsAssumption ==
    /\ \A a \in Albums : \E images \in SUBSET Names : a \in AlbumsOf(images)
    /\ Edits \subseteq Cues /\ None \notin Names /\ Album \notin {None, Bad}
    /\ Layouts \subseteq Seq(Chunk) /\ Tolerance \in Nat

\* A cue is a sequence of lines, a timestamp one of numbers.
ASSUME CuesAssumption ==
    \A c \in Cues :
        /\ c \in Seq(ToSet(c))
        /\ \A l \in ToSet(c) :
                l.key \in {"index00", "index01"} => l.val \in {None, Bad} \cup Seq(Int)

\* A place is one that the code looks in, and holds a sequence of parts.
ASSUME EventsAssumption ==
    \A event \in Events : \A place \in DOMAIN event.held :
        /\ place \in ToSet(LookedThrough)
        /\ event.held[place] \in Seq(ToSet(event.held[place]))

VARIABLES
    versions,        \* the album over time, the last one is on the disk
    det,             \* the scans
    att              \* the one attempt to split

vars == <<versions, det, att>>

Current == versions[Len(versions)]
Now == Len(versions)

NewScan == [at |-> "idle", event |-> None, dir |-> Album, from |-> 0, to |-> 0,
            cue |-> << >>, names |-> {}, sheet |-> None, image |-> None,
            stat |-> None, fingerprint |-> None]
NewAttempt == [at |-> "idle", image |-> None, size |-> 0, free |-> 0, first |-> 0,
               second |-> 0, outputs |-> << >>, source |-> 0, measured |-> None,
               read |-> 0, tags |-> << >>]

Init ==
    /\ versions \in {<<a>> : a \in Albums}
    /\ det = [s \in Scans |-> NewScan]
    /\ att = NewAttempt

----------------------------------------------------------------------------
(* The writer: a download, a tagger, the user.                             *)

Write(a) ==
    /\ Now <= MaxWrites
    /\ a # Current
    /\ versions' = Append(versions, a)
    /\ UNCHANGED <<det, att>>

With(name, f) == [Current EXCEPT !.files = [Current.files EXCEPT ![name] = f]]

\* The copy of an image goes on to its end.
Grow(name) ==
    LET f == Current.files[name]
    IN  /\ f.end < EndOf(f.chunks)
        /\ Write(With(name, [f EXCEPT !.end = EndOf(f.chunks)]))

\* Other audio of the same length is put in place, with its own time of
\* modification or, as cp -p does it, with the one that was there.
Replace(name) ==
    LET f == [Current.files[name] EXCEPT !.audio = @ + 1]
    IN  Write(With(name, f)) \/ Write(With(name, [f EXCEPT !.mtime = @ + 1]))

Touch(name) ==
    LET f == Current.files[name] IN Write(With(name, [f EXCEPT !.mtime = @ + 1]))

EditCue == \E c \in Edits : Write([Current EXCEPT !.cue = c])

AddCue == Write([Current EXCEPT !.second = ~@])

Writes ==
    \/ \E name \in DOMAIN Current.files : Grow(name) \/ Replace(name) \/ Touch(name)
    \/ EditCue
    \/ AddCue

----------------------------------------------------------------------------
(* DetectAlbum.                                                            *)

Step(s, from, change) ==
    /\ det[s].at = from
    /\ det' = [det EXCEPT ![s] = change]
    /\ UNCHANGED <<versions, att>>

Lost == [NewScan EXCEPT !.at = "failed"]

\* The watcher, the scan endpoint, the list of an earlier walk.
BeginScan(s) == Step(s, "idle", [det[s] EXCEPT !.at = "begun", !.from = Now])

\* handleLidarrHook, up to the answer where there is nothing to scan.
Hook(s, event) ==
    Step(s, "idle",
         IF HookDir(event) \in {None, Bad}
         THEN [det[s] EXCEPT !.at = "refused", !.event = event, !.dir = None]
         ELSE [det[s] EXCEPT !.at = "begun", !.event = event, !.from = Now,
                             !.dir = HookDir(event)])

\* listDirEntries and PickSingleCueFile; nothing is known of other directories.
ListDir(s) ==
    Step(s, "begun",
         IF det[s].dir # Album \/ Current.second
         THEN Lost
         ELSE [det[s] EXCEPT !.at = "listed", !.event = None, !.names = DOMAIN Current.files])

PickSingleAudio(names) == IF Cardinality(names) = 1 THEN CHOOSE n \in names : TRUE ELSE None

\* BuildSplitPlan: the image that a sheet means, or None.
ImageOf(sheet, names) ==
    LET name == IF sheet.file # None THEN sheet.file ELSE PickSingleAudio(names)
    IN  IF name \in names THEN name ELSE None

ReadCue(s) ==
    LET sheet == ParseCue(Current.cue)
        image == IF sheet = Bad THEN None ELSE ImageOf(sheet, det[s].names)
    IN  Step(s, "listed",
             [det[s] EXCEPT !.at = IF image = None THEN "failed" ELSE "read",
                            !.cue = Current.cue, !.sheet = sheet, !.image = image])

Identity(f) == <<f.end, f.mtime>>
Content(f) == <<f.chunks, f.riff, f.end, f.audio>>

\* imageIdentity: first the stat, then the hash.
StatImage(s) ==
    Step(s, "read", [det[s] EXCEPT !.at = "stated",
                                   !.stat = Identity(Current.files[det[s].image])])

\* A bug: the content of the image is not part of the fingerprint.
FingerprintOfStat(cue, image, stat, content) == <<cue, image, stat>>

Fingerprint(cue, image, stat, content) == <<cue, image, stat, content>>

HashImage(s) ==
    Step(s, "stated",
         [det[s] EXCEPT !.at = "done", !.to = Now,
            !.fingerprint = Fingerprint(det[s].cue, det[s].image, det[s].stat,
                                        Content(Current.files[det[s].image]))])

\* A call fails, or the request is cancelled.
ScanFails(s) ==
    /\ det[s].at \in {"begun", "listed", "read", "stated"}
    /\ Step(s, det[s].at, Lost)

Detect(s) ==
    \/ BeginScan(s)
    \/ \E event \in Events : Hook(s, event)
    \/ ListDir(s)
    \/ ReadCue(s)
    \/ StatImage(s)
    \/ HashImage(s)
    \/ ScanFails(s)

----------------------------------------------------------------------------
(* The attempt.                                                            *)

Go(from, change) ==
    /\ att.at = from
    /\ att' = change
    /\ UNCHANGED <<versions, det>>

Failed == [NewAttempt EXCEPT !.at = "failed"]

\* RunJob with the job of a scan.
BeginAttempt(s) ==
    /\ det[s].at = "done"
    /\ Go("idle", [att EXCEPT !.at = "stat", !.image = det[s].image])

Image == Current.files[att.image]

FirstStat ==
    Go("stat", [att EXCEPT !.at = "room", !.size = Image.end, !.first = Now])

RequiredFreeSpace(size) ==
    LET double == IF size > Limit \div 2 THEN Limit ELSE size * 2
        withReserve == IF size > Limit - Reserve THEN Limit ELSE size + Reserve
    IN  Max({double, withReserve})

\* EnsureWritable and FreeSpace, then the wait for the stability gap.
CheckRoom ==
    \E free \in FreeSpaces :
        /\ free >= RequiredFreeSpace(att.size)
        /\ Go("room", [att EXCEPT !.at = "gap", !.free = free])

\* A bug: an image that has grown in the meantime is taken for complete.
SecondStatAnySize ==
    /\ att.at = "gap" /\ Image.end >= att.size
    /\ Go("gap", [att EXCEPT !.at = "split", !.second = Now])

SecondStat ==
    /\ att.at = "gap" /\ Image.end = att.size
    /\ Go("gap", [att EXCEPT !.at = "split", !.second = Now])

\* The splitter cuts at the starts.
Cut(starts, total) ==
    [i \in DOMAIN starts |->
        (IF i = Len(starts) THEN total ELSE starts[i + 1]) - starts[i]]

\* What it may leave: the tracks it is asked for, one that is a little or much
\* too long, one that cannot be decoded, a file more or less.
Left(exact, total) ==
    {exact, Append(exact, total), Tail(exact)}
    \cup {[exact EXCEPT ![i] = @ + d] : i \in DOMAIN exact, d \in {-Tolerance, Tolerance + 1}}
    \cup {[exact EXCEPT ![i] = x] : i \in DOMAIN exact, x \in {Bad, total}}

Outputs(sheet, f) == Left(Cut(Starts(sheet), DurationOf(f)), DurationOf(f))

\* The engine can split only what it can read itself.
Split ==
    LET sheet == ParseCue(Current.cue)
    IN  /\ att.at = "split" /\ Plain(Image)
        /\ sheet # Bad
        /\ Starts(sheet) # << >> /\ Bad \notin ToSet(Starts(sheet))
        /\ \E outputs \in Outputs(sheet, Image) \ {<< >>} :
                Go("split", [NewAttempt EXCEPT !.at = "inspect", !.image = att.image,
                                               !.outputs = outputs])

\* What metaflac and flac -t make of an image.
FlacInspect(f) == IF Whole(f) THEN DurationOf(f) ELSE Bad

\* inspectSource
Duration(name) ==
    LET f == Current.files[name]
    IN  IF name \in WavNames THEN Inspect(f) ELSE FlacInspect(f)

InspectSource ==
    /\ att.at = "inspect" /\ Duration(att.image) # Bad
    /\ Go("inspect", [att EXCEPT !.at = "verify", !.source = Now,
                                 !.measured = Duration(att.image)])

Near(a, b) == a - b \in -Tolerance .. Tolerance

Accepts(sheet, outputs, total) ==
    /\ sheet # Bad
    /\ Len(outputs) = Len(sheet.tracks)
    /\ LET expected == ExpectedTrackDurations(sheet, total)
       IN  /\ expected # Bad
           /\ \A i \in DOMAIN outputs : outputs[i] # Bad /\ Near(outputs[i], expected[i])

TagsFor(sheet) ==
    [i \in DOMAIN sheet.tracks |->
        [title |-> sheet.tracks[i].title,
         artist |-> IF sheet.tracks[i].performer # None THEN sheet.tracks[i].performer
                    ELSE sheet.performer,
         album |-> sheet.title,
         number |-> sheet.tracks[i].number]]

\* VerifySplit reads the cue sheet again; the outputs are nobody else's.
VerifySplit ==
    LET sheet == ParseCue(Current.cue)
    IN  /\ att.at = "verify" /\ Accepts(sheet, att.outputs, att.measured)
        /\ Go("verify", [att EXCEPT !.at = "accepted", !.read = Now, !.tags = TagsFor(sheet)])

\* A check refuses the album or a call fails: a stat, a write, the splitter,
\* metaflac.  As any of them can fail in every state, an attempt that must be
\* refused is one that only this step is left for.
AttemptFails ==
    /\ att.at \in {"stat", "room", "gap", "split", "inspect", "verify"}
    /\ Go(att.at, Failed)

Attempt ==
    \/ \E s \in Scans : BeginAttempt(s)
    \/ FirstStat
    \/ CheckRoom
    \/ SecondStat
    \/ Split
    \/ InspectSource
    \/ VerifySplit
    \/ AttemptFails

Next == Writes \/ (\E s \in Scans : Detect(s)) \/ Attempt

Spec == Init /\ [][Next]_vars

----------------------------------------------------------------------------
(* Properties.                                                             *)

\* ParseCue reads what the cue sheet says, whatever the order of its lines:
\* the last word of the album or of a track counts, a track's lines are those
\* up to the next TRACK, and a second FILE or a TRACK that is no number is
\* rejected.
SheetIsRead ==
    \A s \in Scans : det[s].sheet # None =>
        det[s].sheet = IF Rejected(det[s].cue) THEN Bad ELSE SheetOf(det[s].cue)

\* The chunk loop of wav.go finds the length of every plain PCM image that is
\* whole, whatever stands between its chunks and in whatever order they come,
\* and finds none where the audio that is declared is not all there.
WavIsMeasured ==
    \A name \in DOMAIN Current.files :
        LET f == Current.files[name]
        IN  /\ Whole(f) /\ Plain(f) => Inspect(f) = DurationOf(f)
            /\ Inspect(f) # Bad =>
                    \E i \in DOMAIN f.chunks :
                        f.chunks[i].id = "data" /\ Places(f.chunks)[i + 1] <= f.end

\* Two scans that no write has overlapped give an album one fingerprint when it
\* was the same for both of them and two when its cue sheet or its image, or
\* only the image's time, was not: also where the size and the time are the old
\* ones.
Quiet(s) == det[s].at = "done" /\ det[s].from = det[s].to

Scanned(s) ==
    LET a == versions[det[s].from] IN <<a.cue, det[s].image, a.files[det[s].image]>>

ScansAgree ==
    \A s, t \in Scans : Quiet(s) /\ Quiet(t) =>
        (det[s].fingerprint = det[t].fingerprint <=> Scanned(s) = Scanned(t))

\* The splitter is started on an image that did not grow while the preflight
\* waited, and with room for a second copy of it and for the reserve.
RoomAndRest ==
    att.at = "split" =>
        /\ \A v \in att.first .. att.second : versions[v].files[att.image].end = att.size
        /\ att.free >= 2 * att.size /\ att.free >= att.size + Reserve

\* Tracks that VerifySplit accepts tile the image: as many as the sheet has, and
\* up to the end of each of them as long together as the sheet and the measured
\* image say, within the tolerance of each.  They carry the sheet's titles, and
\* its performer where a track has none.
AcceptedTracksFit ==
    att.at = "accepted" =>
        LET sheet == SheetOf(versions[att.read].cue)
            total == DurationOf(versions[att.source].files[att.image])
            starts == Append(Starts(sheet), total)
            n == Len(att.outputs)
        IN  /\ n = Len(sheet.tracks) /\ n = Len(att.tags)
            /\ \A i \in 1 .. n :
                /\ Sums(att.outputs)[i] - (starts[i + 1] - starts[1])
                        \in -(i * Tolerance) .. i * Tolerance
                /\ att.tags[i].title = sheet.tracks[i].title
                /\ att.tags[i].artist \in {sheet.tracks[i].performer, sheet.performer}
                /\ sheet.performer # None => att.tags[i].artist # None

\* An event of Lidarr scans the album when the paths that it names are the
\* album's directory or files in it, in whatever place they stand and with
\* whatever blanks before them, and nothing that it does not name.
OfAlbum(path) ==
    \/ path.self = Album /\ path.kind = "directory"
    \/ path.parent = Album /\ (path.kind = "file" \/
                               (path.kind = "nothing" /\ path.extension))

HookFindsAlbum ==
    \A s \in Scans : det[s].event # None /\ ~det[s].event.test =>
        LET named == Named(det[s].event)
        IN  /\ named # {} /\ (\A path \in named : OfAlbum(path)) => det[s].dir = Album
            /\ det[s].dir # None =>
                    \E path \in named : det[s].dir \in {path.self, path.parent}
=============================================================================

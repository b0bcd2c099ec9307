---------------------------- MODULE IntakeProofs ----------------------------
(***************************************************************************)
(* What holds of Intake for every album, writer, tolerance and file system.*)
(*                                                                         *)
(* The inductive invariant says what every step of a scan and of the       *)
(* attempt has seen: of which version of the album, between the scan's     *)
(* first step and now, each part of it is.  What a cue sheet says and how  *)
(* long an image is comes from CueSheetProofs and WavFileProofs.           *)
(***************************************************************************)
EXTENDS Intake, WavFileProofs

----------------------------------------------------------------------------
(* The operators of the code.                                              *)

\* The durations that VerifySplit expects leave no gap and no overlap: none of
\* them is negative, each track ends where the next one begins and the last one
\* at the end of the image.
THEOREM TracksTile ==
    ASSUME NEW n \in Nat \ {0}, NEW starts \in [1 .. n -> Nat], NEW total \in Nat,
           Fits(starts, total)
    PROVE  LET lengths == Lengths(starts, total)
           IN  /\ \A i \in 1 .. n : lengths[i] \in Nat
               /\ \A i \in 1 .. n - 1 : starts[i] + lengths[i] = starts[i + 1]
               /\ starts[n] + lengths[n] = total
<1> DEFINE lengths == Lengths(starts, total)
<1>1. Len(starts) = n /\ DOMAIN starts = 1 .. n
  OBVIOUS
<1>2. /\ \A i \in 1 .. n - 1 : starts[i] <= starts[i + 1]
      /\ starts[n] <= total
  <2>1. /\ \A i \in 2 .. n : starts[i - 1] <= starts[i]
        /\ starts[n] <= total
    BY <1>1 DEF Fits
  <2>2. ASSUME NEW i \in 1 .. n - 1
        PROVE  starts[i] <= starts[i + 1]
    <3>1. i + 1 \in 2 .. n /\ (i + 1) - 1 = i
      OBVIOUS
    <3> QED
      BY <2>1, <3>1
  <2> QED
    BY <2>1, <2>2
<1>3. ASSUME NEW i \in 1 .. n - 1
      PROVE  lengths[i] = starts[i + 1] - starts[i]
  BY <1>1 DEF Lengths
<1>4. lengths[n] = total - starts[n]
  BY <1>1 DEF Lengths
<1>5. \A i \in 1 .. n : starts[i] \in Nat
  OBVIOUS
<1>6. ASSUME NEW i \in 1 .. n - 1
      PROVE  lengths[i] \in Nat /\ starts[i] + lengths[i] = starts[i + 1]
  <2>1. starts[i] \in Nat /\ starts[i + 1] \in Nat /\ starts[i] <= starts[i + 1]
    BY <1>2, <1>5
  <2> QED
    BY <2>1, <1>3
<1>7. lengths[n] \in Nat /\ starts[n] + lengths[n] = total
  BY <1>2, <1>4, <1>5
<1>8. \A i \in 1 .. n : i \in 1 .. n - 1 \/ i = n
  OBVIOUS
<1> QED
  BY <1>6, <1>7, <1>8

\* requiredFreeSpace asks for room for a second copy of the image and for the
\* image with the reserve, and does not overflow, for every size of a file.
THEOREM RoomIsEnough ==
    ASSUME NEW size \in 0 .. Limit \div 2
    PROVE  /\ RequiredFreeSpace(size) \in 0 .. Limit
           /\ RequiredFreeSpace(size) >= 2 * size
           /\ RequiredFreeSpace(size) >= size + Reserve
<1>1. Limit \in Nat /\ Reserve \in Nat /\ Reserve <= Limit \div 2
  BY SizesAssumption
<1>2. size \in Nat /\ size * 2 <= Limit /\ size <= Limit - Reserve
  BY <1>1
<1>3. RequiredFreeSpace(size) = Max({size * 2, size + Reserve})
  BY <1>1, <1>2 DEF RequiredFreeSpace
<1>4. ASSUME NEW a \in Nat, NEW b \in Nat
      PROVE  Max({a, b}) \in {a, b} /\ Max({a, b}) >= a /\ Max({a, b}) >= b
  <2>1. \E x \in {a, b} : \A y \in {a, b} : x >= y
    OBVIOUS
  <2> QED
    BY <2>1 DEF Max
<1> QED
  BY <1>1, <1>2, <1>3, <1>4

\* The tracks of a sheet that was read begin at numbers, or at none.
LEMMA StartsAre ==
    ASSUME NEW cue \in Cues, ParseCue(cue) # Bad
    PROVE  LET sheet == ParseCue(cue)
           IN  /\ sheet = SheetOf(cue) /\ ~Rejected(cue)
               /\ Len(sheet.tracks) \in Nat /\ DOMAIN sheet.tracks = 1 .. Len(sheet.tracks)
               /\ Starts(sheet) \in Seq(Int \cup {Bad})
               /\ Len(Starts(sheet)) = Len(sheet.tracks)
<1> DEFINE sheet == SheetOf(cue)
           m == Cardinality(TrackLines(cue))
<1>1. cue \in Seq(ToSet(cue)) /\ Len(cue) \in Nat /\ DOMAIN cue = 1 .. Len(cue)
  BY CuesAssumption
<1>2. ParseCue(cue) = sheet /\ ~Rejected(cue)
  BY <1>1, CueIsRead
<1>3. m \in Nat
  <2>1. TrackLines(cue) \subseteq 1 .. Len(cue)
    BY <1>1 DEF TrackLines, KeyLines
  <2> QED
    BY <1>1, <2>1, UpTo
<1>4. sheet.tracks = [k \in 1 .. m |-> TrackAt(cue, Nth(TrackLines(cue), k))]
  BY DEF SheetOf
<1>5. DOMAIN sheet.tracks = 1 .. m /\ Len(sheet.tracks) = m
  BY <1>3, <1>4
<1>6. ASSUME NEW k \in 1 .. m
      PROVE  sheet.tracks[k].index01 \in {None, Bad} \cup Seq(Int)
  <2>1. ASSUME NEW from, NEW to
        PROVE  LastSaid(cue, "index01", from, to) \in {None, Bad} \cup Seq(Int)
    <3> DEFINE said == {i \in KeyLines(cue, "index01") :
                            from < i /\ i < to /\
                            ("index01" \in {"index00", "index01"} => cue[i].val # None)}
    <3>1. LastSaid(cue, "index01", from, to) =
                IF said = {} THEN None ELSE cue[Max(said)].val
      BY DEF LastSaid
    <3>2. said \subseteq 0 .. Len(cue) /\ said \subseteq DOMAIN cue /\ \A i \in said : cue[i].key = "index01"
      BY <1>1 DEF KeyLines
    <3> HIDE DEF said
    <3>3. said # {} => Max(said) \in said
      BY <1>1, <3>2, GreatestOf
    <3>4. \A i \in said : cue[i] \in ToSet(cue)
      BY <1>1, <3>2 DEF ToSet
    <3> QED
      BY <3>1, <3>2, <3>3, <3>4, CuesAssumption
  <2> QED
    BY <1>4, <2>1 DEF TrackAt
<1> HIDE DEF sheet, m
<1>7. ASSUME NEW t \in {None, Bad} \cup Seq(Int)
      PROVE  ParseCueIndex(t) \in Int \cup {Bad}
  BY DEF ParseCueIndex
<1>8. Starts(sheet) = [k \in 1 .. m |-> ParseCueIndex(sheet.tracks[k].index01)]
  BY <1>5 DEF Starts
<1>9. Starts(sheet) \in Seq(Int \cup {Bad}) /\ Len(Starts(sheet)) = m
  BY <1>3, <1>6, <1>7, <1>8
<1> QED
  BY <1>2, <1>3, <1>5, <1>9 DEF sheet

\* What the splitter leaves are tracks with a length, or with none.
LEMMA OutputsAre ==
    ASSUME NEW cue \in Cues, ParseCue(cue) # Bad, Starts(ParseCue(cue)) # << >>,
           Bad \notin ToSet(Starts(ParseCue(cue))),
           NEW f \in File, Plain(f), NEW outputs \in Outputs(ParseCue(cue), f)
    PROVE  outputs \in Seq(Int \cup {Bad})
<1> DEFINE starts == Starts(ParseCue(cue))
           total == DurationOf(f)
           n == Len(starts)
           exact == Cut(starts, total)
<1>1. n \in Nat /\ n # 0 /\ DOMAIN starts = 1 .. n /\ \A i \in 1 .. n : starts[i] \in Int
  <2>1. starts \in Seq(Int \cup {Bad})
    BY StartsAre
  <2>2. \A i \in 1 .. n : starts[i] \in ToSet(starts)
    BY <2>1 DEF ToSet
  <2> QED
    BY <2>1, <2>2
<1>2. total \in Nat
  BY LengthOfPlain, AlbumsAssumption DEF File
<1>3. outputs \in Left(exact, total)
  BY DEF Outputs
<1>4. exact = [i \in 1 .. n |-> (IF i = n THEN total ELSE starts[i + 1]) - starts[i]]
  BY <1>1 DEF Cut
<1> HIDE DEF starts, total, n, exact
<1>5. exact \in Seq(Int) /\ Len(exact) = n /\ n \in Nat \ {0}
  <2>1. ASSUME NEW i \in 1 .. n
        PROVE  (IF i = n THEN total ELSE starts[i + 1]) - starts[i] \in Int
    <3>1. i # n => i + 1 \in 1 .. n
      BY <1>1
    <3>2. (IF i = n THEN total ELSE starts[i + 1]) \in Int /\ starts[i] \in Int
      BY <1>1, <1>2, <3>1
    <3> QED
      BY <3>2
  <2> QED
    BY <1>1, <1>4, <2>1
<1>6. \A i \in DOMAIN exact : exact[i] \in Int /\ i \in 1 .. n
  BY <1>5
<1>7. Tolerance \in Nat
  BY AlbumsAssumption
<1>8. ASSUME NEW i \in DOMAIN exact, NEW x \in Int \cup {Bad}
      PROVE  [exact EXCEPT ![i] = x] \in Seq(Int \cup {Bad})
  BY <1>5
<1>9. CASE outputs \in {exact, Append(exact, total), Tail(exact)}
  <2>1. Append(exact, total) \in Seq(Int) /\ Tail(exact) \in Seq(Int)
    <3>1. exact # << >>
      BY <1>5
    <3> QED
      BY <1>2, <1>5, <3>1
  <2>2. \A o \in Seq(Int) : o \in Seq(Int \cup {Bad})
    OBVIOUS
  <2> QED
    BY <1>5, <1>9, <2>1, <2>2
<1>10. CASE outputs \in {[exact EXCEPT ![i] = @ + d] :
                            i \in DOMAIN exact, d \in {-Tolerance, Tolerance + 1}}
  <2>1. PICK i \in DOMAIN exact, d \in {-Tolerance, Tolerance + 1} :
            outputs = [exact EXCEPT ![i] = exact[i] + d]
    BY <1>10
  <2>2. exact[i] + d \in Int
    BY <1>6, <1>7
  <2> QED
    BY <1>8, <2>1, <2>2
<1>11. CASE outputs \in {[exact EXCEPT ![i] = x] : i \in DOMAIN exact, x \in {Bad, total}}
  BY <1>2, <1>8, <1>11
<1> QED
  BY <1>3, <1>9, <1>10, <1>11 DEF Left

----------------------------------------------------------------------------
(* The inductive invariant.                                                *)

ImageAt(v, name) == versions[v].files[name]

\* The same images all the time, with the same chunks, and none becomes shorter.
VersionsInv(images) ==
    /\ versions \in Seq(AlbumsOf(images)) /\ Now >= 1
    /\ \A v \in 1 .. Now : \A w \in v .. Now : \A name \in images :
            /\ ImageAt(v, name).end <= ImageAt(w, name).end
            /\ ImageAt(v, name).chunks = ImageAt(w, name).chunks

\* The sheet is that of the cue, the directory that of the event.
ReadsInv(sc) ==
    /\ sc.sheet # None => sc.cue \in Cues /\ sc.sheet = ParseCue(sc.cue)
    /\ sc.event # None =>
            /\ sc.event \in Events
            /\ sc.dir = IF HookDir(sc.event) \in {None, Bad} THEN None ELSE HookDir(sc.event)

\* What a scan has of the album was there at a moment since it began.
ScanInv(images, sc) ==
    /\ DOMAIN sc = DOMAIN NewScan /\ ReadsInv(sc)
    /\ sc.at \in {"begun", "listed", "read", "stated", "done"} => sc.from \in 1 .. Now
    /\ sc.at = "listed" => sc.names = images
    /\ sc.at \in {"read", "stated", "done"} => sc.image \in images
    /\ sc.at \in {"read", "stated"} =>
            \E v \in sc.from .. Now : sc.cue = versions[v].cue
    /\ sc.at = "stated" =>
            \E v \in sc.from .. Now : sc.stat = Identity(ImageAt(v, sc.image))
    /\ sc.at = "done" =>
            /\ sc.to \in sc.from .. Now
            /\ sc.to = sc.from =>
                    sc.fingerprint =
                        Fingerprint(versions[sc.from].cue, sc.image,
                                    Identity(ImageAt(sc.from, sc.image)),
                                    Content(ImageAt(sc.from, sc.image)))

\* The image is plain, and the outputs were accepted for a sheet and a length
\* that the album had.
OutputsInv(images, a) ==
    /\ a.at \in {"inspect", "verify", "accepted"} =>
            /\ a.image \in images /\ a.outputs \in Seq(Int \cup {Bad})
            /\ \A v \in 1 .. Now : Plain(ImageAt(v, a.image))
    /\ a.at \in {"verify", "accepted"} =>
            a.source \in 1 .. Now /\ a.measured = DurationOf(ImageAt(a.source, a.image))
    /\ a.at = "accepted" =>
            /\ a.read \in 1 .. Now
            /\ Accepts(ParseCue(versions[a.read].cue), a.outputs, a.measured)
            /\ a.tags = TagsFor(ParseCue(versions[a.read].cue))

AttemptInv(images, a) ==
    /\ DOMAIN a = DOMAIN NewAttempt /\ OutputsInv(images, a)
    /\ a.at \in {"stat", "room", "gap", "split"} => a.image \in images
    /\ a.at \in {"room", "gap", "split"} =>
            a.first \in 1 .. Now /\ a.size = ImageAt(a.first, a.image).end
    /\ a.at \in {"gap", "split"} =>
            a.free \in Nat /\ a.free >= RequiredFreeSpace(a.size)
    /\ a.at = "split" =>
            a.second \in a.first .. Now /\ a.size = ImageAt(a.second, a.image).end

Inv(images) ==
    /\ VersionsInv(images)
    /\ DOMAIN det = Scans /\ \A s \in Scans : ScanInv(images, det[s])
    /\ AttemptInv(images, att)

IInv == \E images \in SUBSET Names : Inv(images)

LEMMA InitIInv == Init => IInv
<1> SUFFICES ASSUME Init PROVE IInv
  OBVIOUS
<1>1. PICK a \in Albums : versions = <<a>>
  BY DEF Init
<1>2. PICK images \in SUBSET Names : a \in AlbumsOf(images)
  BY AlbumsAssumption
<1>3. VersionsInv(images)
  <2>1. versions \in Seq(AlbumsOf(images)) /\ Now = 1
    BY <1>1, <1>2 DEF Now
  <2>2. ASSUME NEW name \in images
        PROVE  ImageAt(1, name).end \in Int
    <3>1. versions[1] \in AlbumsOf(images)
      BY <1>1, <1>2
    <3>2. ImageAt(1, name) \in File
      BY <3>1 DEF ImageAt, AlbumsOf
    <3> QED
      BY <3>2, SizesAssumption DEF File
  <2> QED
    BY <2>1, <2>2 DEF VersionsInv
<1>4. ASSUME NEW s \in Scans
      PROVE  ScanInv(images, det[s])
  BY DEF Init, NewScan, ScanInv, ReadsInv
<1>5. AttemptInv(images, att)
  BY DEF Init, NewAttempt, AttemptInv, OutputsInv
<1>6. DOMAIN det = Scans
  BY DEF Init
<1> QED
  BY <1>3, <1>4, <1>5, <1>6 DEF IInv, Inv

----------------------------------------------------------------------------
(* A write: all that was seen stays where it was seen.                     *)

LEMMA CurrentIsAlbum ==
    ASSUME NEW images, VersionsInv(images)
    PROVE  /\ Now \in Nat /\ Now >= 1 /\ DOMAIN versions = 1 .. Now
           /\ \A v \in 1 .. Now : versions[v] \in AlbumsOf(images)
           /\ \A v \in 1 .. Now : \A name \in images :
                    /\ ImageAt(v, name) \in File
                    /\ ImageAt(v, name).end \in 0 .. Limit \div 2
           /\ Current = versions[Now] /\ Current \in AlbumsOf(images)
           /\ DOMAIN Current.files = images
           /\ \A name \in images : Current.files[name] = ImageAt(Now, name)
<1>1. /\ Now \in Nat /\ Now >= 1 /\ DOMAIN versions = 1 .. Now
      /\ \A v \in 1 .. Now : versions[v] \in AlbumsOf(images)
  BY DEF VersionsInv, Now
<1>2. ASSUME NEW v \in 1 .. Now, NEW name \in images
      PROVE  ImageAt(v, name) \in File /\ ImageAt(v, name).end \in 0 .. Limit \div 2
  <2>1. versions[v] \in AlbumsOf(images)
    BY <1>1
  <2>2. ImageAt(v, name) \in File
    BY <2>1 DEF ImageAt, AlbumsOf
  <2> QED
    BY <2>2 DEF File
<1>3. Current = versions[Now] /\ Current \in AlbumsOf(images)
  BY <1>1 DEF Current, Now
<1> QED
  BY <1>1, <1>2, <1>3 DEF AlbumsOf, ImageAt

LEMMA WriteKeepsInv ==
    ASSUME NEW images, Inv(images), NEW a \in AlbumsOf(images), Write(a),
           \A name \in images : /\ Current.files[name].end <= a.files[name].end
                                 /\ Current.files[name].chunks = a.files[name].chunks
    PROVE  Inv(images)'
<1> USE DEF Inv
<1>1. VersionsInv(images)
  OBVIOUS
<1>2. Now \in Nat /\ Now >= 1 /\ versions \in Seq(AlbumsOf(images))
  BY <1>1, CurrentIsAlbum DEF VersionsInv
<1>3. /\ versions' \in Seq(AlbumsOf(images)) /\ Now' = Now + 1
      /\ versions'[Now + 1] = a
      /\ \A v \in 1 .. Now : versions'[v] = versions[v]
  BY <1>2 DEF Write, Now
<1>4. \A v \in 1 .. Now : \A name : ImageAt(v, name)' = ImageAt(v, name)
  BY <1>3 DEF ImageAt
<1>5. VersionsInv(images)'
  <2>1. ASSUME NEW v \in 1 .. Now + 1, NEW w \in v .. Now + 1, NEW name \in images
        PROVE  /\ ImageAt(v, name)'.end <= ImageAt(w, name)'.end
               /\ ImageAt(v, name)'.chunks = ImageAt(w, name)'.chunks
    <3>1. CASE w \in 1 .. Now
      BY <1>2, <1>4, <3>1 DEF VersionsInv
    <3>2. CASE w = Now + 1
      <4>1. ImageAt(w, name)' = a.files[name]
        BY <1>3, <3>2 DEF ImageAt
      <4>2. a.files[name].end \in Int
        BY SizesAssumption DEF AlbumsOf, File
      <4>3. CASE v = Now + 1
        BY <3>2, <4>1, <4>2, <4>3
      <4>4. CASE v \in 1 .. Now
        <5>1. ImageAt(v, name)' = ImageAt(v, name)
          BY <1>4, <4>4
        <5>2. /\ ImageAt(v, name).end <= ImageAt(Now, name).end
              /\ ImageAt(v, name).chunks = ImageAt(Now, name).chunks
          BY <1>2, <4>4 DEF VersionsInv
        <5>3. ImageAt(Now, name) = Current.files[name]
          BY <1>1, CurrentIsAlbum
        <5>4. ImageAt(v, name).end \in Int /\ ImageAt(Now, name).end \in Int
          BY <1>1, <1>2, <4>4, CurrentIsAlbum
        <5> QED
          BY <4>1, <4>2, <5>1, <5>2, <5>3, <5>4
      <4> QED
        BY <1>2, <4>3, <4>4
    <3> QED
      BY <1>2, <3>1, <3>2
  <2> QED
    BY <1>2, <1>3, <2>1 DEF VersionsInv
<1>6. ASSUME NEW s \in Scans
      PROVE  ScanInv(images, det[s])'
  <2> DEFINE sc == det[s]
  <2>1. det'[s] = sc /\ ScanInv(images, sc)
    BY DEF Write
  <2>2. sc.at \in {"begun", "listed", "read", "stated", "done"} =>
            sc.from .. Now \subseteq sc.from .. Now + 1 /\ sc.from .. Now \subseteq 1 .. Now
    BY <1>2, <2>1 DEF ScanInv
  <2> HIDE DEF sc
  <2>3. sc.at \in {"read", "stated"} =>
            \E v \in sc.from .. Now' : sc.cue = versions'[v].cue
    BY <1>3, <2>1, <2>2 DEF ScanInv
  <2>4. sc.at = "stated" =>
            \E v \in sc.from .. Now' : sc.stat = Identity(versions'[v].files[sc.image])
    BY <1>3, <2>1, <2>2 DEF ScanInv, ImageAt
  <2>5. sc.at = "done" =>
            /\ sc.to \in sc.from .. Now'
            /\ sc.from \in 1 .. Now
    BY <1>2, <1>3, <2>1, <2>2 DEF ScanInv
  <2>6. sc.at = "done" /\ sc.to = sc.from =>
            sc.fingerprint = Fingerprint(versions'[sc.from].cue, sc.image,
                                         Identity(versions'[sc.from].files[sc.image]),
                                         Content(versions'[sc.from].files[sc.image]))
    BY <1>3, <2>1, <2>5 DEF ScanInv, ImageAt
  <2>7. sc.at \in {"begun", "listed", "read", "stated", "done"} => sc.from \in 1 .. Now'
    BY <1>2, <1>3, <2>1 DEF ScanInv
  <2>8. ScanInv(images, sc)'
    <3>1. sc' = sc
      BY <2>1 DEF sc
    <3> QED
      BY <2>1, <2>3, <2>4, <2>5, <2>6, <2>7, <3>1 DEF ScanInv, ImageAt
  <2> QED
    BY <2>8 DEF sc
<1>7. AttemptInv(images, att)'
  <2>1. att' = att /\ AttemptInv(images, att)
    BY DEF Write
  <2>2. att.at \in {"room", "gap", "split"} =>
            att.first \in 1 .. Now' /\ att.size = ImageAt(att.first, att.image)'.end
    BY <1>2, <1>3, <1>4, <2>1 DEF AttemptInv
  <2>3. att.at = "split" =>
            att.second \in att.first .. Now' /\ att.size = ImageAt(att.second, att.image)'.end
    BY <1>2, <1>3, <1>4, <2>1 DEF AttemptInv
  <2>4. OutputsInv(images, att)'
    <3>1. att.at \in {"inspect", "verify", "accepted"} =>
                \A v \in 1 .. Now' : Plain(ImageAt(v, att.image))'
      <4> SUFFICES ASSUME att.at \in {"inspect", "verify", "accepted"},
                          NEW v \in 1 .. Now + 1
                   PROVE  Plain(ImageAt(v, att.image)')
        BY <1>3, <2>1
      <4>1. att.image \in images /\ Plain(ImageAt(Now, att.image))
        BY <1>2, <2>1 DEF AttemptInv, OutputsInv
      <4>2. ImageAt(v, att.image)'.chunks = ImageAt(Now, att.image).chunks
        <5>1. \A u \in 1 .. Now + 1 : \A name \in images :
                versions'[u].files[name].chunks = versions'[Now + 1].files[name].chunks
          <6>1. \A u \in 1 .. Now' : \A w \in u .. Now' : \A name \in images :
                  versions'[u].files[name].chunks = versions'[w].files[name].chunks
            BY <1>5 DEF VersionsInv, ImageAt
          <6>2. \A u \in 1 .. Now + 1 : Now + 1 \in u .. Now + 1
            BY <1>2
          <6> QED
            BY <1>3, <6>1, <6>2
        <5>2. versions'[Now] = versions[Now] /\ Now \in 1 .. Now + 1
          BY <1>2, <1>3
        <5> QED
          BY <2>1, <4>1, <5>1, <5>2 DEF ImageAt
      <4> QED
        BY <4>1, <4>2 DEF Plain, Count, Only
    <3>2. OutputsInv(images, att) /\ 1 .. Now \subseteq 1 .. Now'
      BY <1>2, <1>3, <2>1 DEF AttemptInv
    <3>3. att.at \in {"inspect", "verify", "accepted"} =>
                att.image \in images /\ att.outputs \in Seq(Int \cup {Bad})
      BY <3>2 DEF OutputsInv
    <3>4. att.at \in {"verify", "accepted"} =>
            /\ att.source \in 1 .. Now'
            /\ att.measured = DurationOf(ImageAt(att.source, att.image)')
      BY <1>4, <2>1, <3>2 DEF OutputsInv
    <3>5. att.at = "accepted" =>
            /\ att.read \in 1 .. Now'
            /\ versions'[att.read].cue = versions[att.read].cue
            /\ Accepts(ParseCue(versions[att.read].cue), att.outputs, att.measured)
            /\ att.tags = TagsFor(ParseCue(versions[att.read].cue))
      BY <1>3, <3>2 DEF OutputsInv
    <3>6. att.at = "accepted" =>
            /\ Accepts(ParseCue(versions'[att.read].cue), att.outputs, att.measured)
            /\ att.tags = TagsFor(ParseCue(versions'[att.read].cue))
      BY <3>5
    <3>7. att' = att
      BY <2>1
    <3> QED
      BY <3>1, <3>3, <3>4, <3>5, <3>6, <3>7 DEF OutputsInv
  <2> QED
    BY <2>1, <2>2, <2>3, <2>4 DEF AttemptInv
<1>8. det' = det
  BY DEF Write
<1> QED
  BY <1>5, <1>6, <1>7, <1>8

LEMMA WritesKeepInv ==
    ASSUME NEW images, Inv(images), Writes
    PROVE  Inv(images)'
<1>1. VersionsInv(images)
  BY DEF Inv
<1>2. /\ Current \in AlbumsOf(images) /\ DOMAIN Current.files = images
      /\ \A name \in images : Current.files[name] \in File
      /\ \A name \in images : Current.files[name].end \in 0 .. Limit \div 2
  BY <1>1, CurrentIsAlbum DEF AlbumsOf, File
<1>3. ASSUME NEW name \in images, NEW f \in File, Write(With(name, f)),
             Current.files[name].end <= f.end, Current.files[name].chunks = f.chunks
      PROVE  Inv(images)'
  <2>1. With(name, f) \in AlbumsOf(images)
    BY <1>2 DEF With, AlbumsOf
  <2>2. \A other \in images :
            With(name, f).files[other] = IF other = name THEN f ELSE Current.files[other]
    BY <1>2 DEF With, AlbumsOf
  <2>3. \A other \in images :
            /\ Current.files[other].end <= With(name, f).files[other].end
            /\ Current.files[other].chunks = With(name, f).files[other].chunks
    <3>1. ASSUME NEW other \in images
          PROVE  /\ Current.files[other].end <= With(name, f).files[other].end
                 /\ Current.files[other].chunks = With(name, f).files[other].chunks
      <4>1. CASE other = name
        BY <1>3, <2>2, <4>1
      <4>2. CASE other # name
        BY <1>2, <2>2, <4>2
      <4> QED
        BY <4>1, <4>2
    <3> QED
      BY <3>1
  <2> QED
    BY <1>3, <2>1, <2>3, WriteKeepsInv
<1>4. ASSUME NEW a \in AlbumsOf(images), Write(a), a.files = Current.files
      PROVE  Inv(images)'
  <2>1. \A name \in images : /\ Current.files[name].end <= a.files[name].end
                              /\ Current.files[name].chunks = a.files[name].chunks
    BY <1>2, <1>4
  <2> QED
    BY <1>4, <2>1, WriteKeepsInv
<1>5. ASSUME NEW name \in images, Grow(name)
      PROVE  Inv(images)'
  <2> DEFINE f == Current.files[name]
             g == [f EXCEPT !.end = EndOf(f.chunks)]
  <2>1. f \in File /\ EndOf(f.chunks) \in 0 .. Limit \div 2
    BY <1>2, SizesAssumption DEF File
  <2>2. f.end < EndOf(f.chunks) /\ Write(With(name, g))
    BY <1>5 DEF Grow
  <2>3. g \in File /\ f.end <= g.end /\ f.chunks = g.chunks
    BY <2>1, <2>2 DEF File
  <2> QED
    BY <1>3, <2>2, <2>3
<1>6. ASSUME NEW name \in images, Replace(name)
      PROVE  Inv(images)'
  <2> DEFINE f == Current.files[name]
             g == [f EXCEPT !.audio = @ + 1]
             h == [g EXCEPT !.mtime = @ + 1]
  <2>1. f \in File /\ f.end \in 0 .. Limit \div 2
    BY <1>2
  <2>2. g \in File /\ f.end <= g.end /\ f.chunks = g.chunks
    BY <2>1 DEF File
  <2>3. Write(With(name, g)) \/ Write(With(name, h))
    BY <1>6 DEF Replace
  <2> HIDE DEF g
  <2>4. h \in File /\ g.end = h.end /\ g.chunks = h.chunks
    BY <2>2 DEF File
  <2> QED
    BY <1>3, <2>2, <2>3, <2>4
<1>7. ASSUME NEW name \in images, Touch(name)
      PROVE  Inv(images)'
  <2> DEFINE f == Current.files[name]
             g == [f EXCEPT !.mtime = @ + 1]
  <2>1. f \in File /\ f.end \in 0 .. Limit \div 2
    BY <1>2
  <2>2. g \in File /\ f.end <= g.end /\ f.chunks = g.chunks
    BY <2>1 DEF File
  <2> QED
    BY <1>3, <1>7, <2>2 DEF Touch
<1>8. ASSUME EditCue
      PROVE  Inv(images)'
  <2>1. PICK c \in Edits : Write([Current EXCEPT !.cue = c])
    BY <1>8 DEF EditCue
  <2>2. c \in Cues
    BY AlbumsAssumption
  <2>3. /\ [Current EXCEPT !.cue = c] \in AlbumsOf(images)
        /\ [Current EXCEPT !.cue = c].files = Current.files
    BY <1>2, <2>2 DEF AlbumsOf
  <2> QED
    BY <1>4, <2>1, <2>3
<1>9. ASSUME AddCue
      PROVE  Inv(images)'
  <2> DEFINE second == ~Current.second
  <2>1. Write([Current EXCEPT !.second = second])
    BY <1>9 DEF AddCue
  <2>2. second \in BOOLEAN
    BY Zenon
  <2> HIDE DEF second
  <2>3. /\ [Current EXCEPT !.second = second] \in AlbumsOf(images)
        /\ [Current EXCEPT !.second = second].files = Current.files
    BY <1>2, <2>2 DEF AlbumsOf
  <2> QED
    BY <1>4, <2>1, <2>3
<1> QED
  BY <1>2, <1>5, <1>6, <1>7, <1>8, <1>9 DEF Writes

----------------------------------------------------------------------------
(* A scan.                                                                 *)

\* Only the scan that takes the step has to be looked at.
LEMMA StepKeepsInv ==
    ASSUME NEW images, Inv(images), NEW s \in Scans, NEW from, NEW change,
           Step(s, from, change), ScanInv(images, change)
    PROVE  Inv(images)'
<1>1. /\ versions' = versions /\ att' = att
      /\ DOMAIN det' = Scans /\ det'[s] = change
      /\ \A t \in Scans : t # s => det'[t] = det[t]
  BY DEF Step, Inv
<1>2. VersionsInv(images)'
  BY <1>1 DEF Inv, VersionsInv, ImageAt, Now
<1>3. ASSUME NEW t \in Scans
      PROVE  ScanInv(images, det[t])'
  <2>1. ScanInv(images, det'[t])
    BY <1>1 DEF Inv
  <2> QED
    BY <1>1, <2>1 DEF ScanInv, ImageAt, Now
<1>4. AttemptInv(images, att)'
  BY <1>1 DEF Inv, AttemptInv, OutputsInv, ImageAt, Now
<1> QED
  BY <1>1, <1>2, <1>3, <1>4 DEF Inv

LEMMA DetectKeepsInv ==
    ASSUME NEW images \in SUBSET Names, Inv(images), NEW s \in Scans, Detect(s)
    PROVE  Inv(images)'
<1>1. /\ Now \in Nat /\ Now >= 1 /\ Current = versions[Now] /\ DOMAIN Current.files = images
      /\ \A name \in images : Current.files[name] = ImageAt(Now, name)
  BY CurrentIsAlbum DEF Inv
<1>2. ScanInv(images, det[s]) /\ DOMAIN det[s] = DOMAIN NewScan
  BY DEF Inv, ScanInv
<1>3. ScanInv(images, Lost)
  BY DEF ScanInv, ReadsInv, Lost, NewScan
<1>4. ASSUME BeginScan(s)
      PROVE  Inv(images)'
  <2> DEFINE change == [det[s] EXCEPT !.at = "begun", !.from = Now]
  <2>1. /\ DOMAIN change = DOMAIN NewScan /\ change.at = "begun" /\ change.from = Now
        /\ change.sheet = det[s].sheet /\ change.cue = det[s].cue
        /\ change.event = det[s].event /\ change.dir = det[s].dir
    BY <1>2 DEF NewScan
  <2>2. ScanInv(images, change)
    BY <1>1, <1>2, <2>1 DEF ScanInv, ReadsInv
  <2> QED
    BY <1>4, <2>2, StepKeepsInv DEF BeginScan
<1>5. ASSUME NEW event \in Events, Hook(s, event)
      PROVE  Inv(images)'
  <2> DEFINE refused == [det[s] EXCEPT !.at = "refused", !.event = event, !.dir = None]
             begun == [det[s] EXCEPT !.at = "begun", !.event = event, !.from = Now,
                                     !.dir = HookDir(event)]
  <2>1. /\ DOMAIN refused = DOMAIN NewScan /\ refused.at = "refused"
        /\ refused.sheet = det[s].sheet /\ refused.cue = det[s].cue
        /\ refused.event = event /\ refused.dir = None
    BY <1>2 DEF NewScan
  <2>2. /\ DOMAIN begun = DOMAIN NewScan /\ begun.at = "begun" /\ begun.from = Now
        /\ begun.sheet = det[s].sheet /\ begun.cue = det[s].cue
        /\ begun.event = event /\ begun.dir = HookDir(event)
    BY <1>2 DEF NewScan
  <2>3. HookDir(event) \in {None, Bad} => ScanInv(images, refused)
    BY <1>2, <2>1 DEF ScanInv, ReadsInv
  <2>4. HookDir(event) \notin {None, Bad} => ScanInv(images, begun)
    BY <1>1, <1>2, <2>2 DEF ScanInv, ReadsInv
  <2>5. IF HookDir(event) \in {None, Bad} THEN Step(s, "idle", refused)
        ELSE Step(s, "idle", begun)
    BY <1>5 DEF Hook
  <2> QED
    BY <2>3, <2>4, <2>5, StepKeepsInv
<1>6. ASSUME ListDir(s)
      PROVE  Inv(images)'
  <2> DEFINE change == [det[s] EXCEPT !.at = "listed", !.event = None,
                                      !.names = DOMAIN Current.files]
  <2>1. /\ DOMAIN change = DOMAIN NewScan /\ change.at = "listed"
        /\ change.from = det[s].from /\ change.names = images
        /\ change.sheet = det[s].sheet /\ change.cue = det[s].cue /\ change.event = None
    BY <1>1, <1>2 DEF NewScan
  <2>2. Step(s, "begun", Lost) \/ Step(s, "begun", change)
    BY <1>6 DEF ListDir
  <2>3. det[s].at = "begun"
    BY <2>2 DEF Step
  <2>4. ScanInv(images, change)
    BY <1>2, <2>1, <2>3 DEF ScanInv, ReadsInv
  <2> QED
    BY <1>3, <2>2, <2>4, StepKeepsInv
<1>7. ASSUME ReadCue(s)
      PROVE  Inv(images)'
  <2> DEFINE sheet == ParseCue(Current.cue)
             image == IF sheet = Bad THEN None ELSE ImageOf(sheet, det[s].names)
             change == [det[s] EXCEPT !.at = IF image = None THEN "failed" ELSE "read",
                                      !.cue = Current.cue, !.sheet = sheet,
                                      !.image = image]
  <2>1. Step(s, "listed", change)
    BY <1>7 DEF ReadCue
  <2>2. det[s].at = "listed" /\ det[s].names = images /\ det[s].from \in 1 .. Now
    BY <1>2, <2>1 DEF Step, ScanInv
  <2>3. image = None \/ image \in images
    BY <2>2 DEF ImageOf
  <2>4. Current.cue \in Cues
    BY CurrentIsAlbum DEF Inv, AlbumsOf
  <2>5. sheet = ParseCue(Current.cue)
    OBVIOUS
  <2> HIDE DEF sheet, image
  <2>6. /\ DOMAIN change = DOMAIN NewScan /\ change.from = det[s].from
        /\ change.cue = Current.cue /\ change.image = image /\ change.sheet = sheet
        /\ change.event = det[s].event /\ change.dir = det[s].dir
        /\ change.at = IF image = None THEN "failed" ELSE "read"
    BY <1>2 DEF NewScan
  <2>7. Now \in det[s].from .. Now
    BY <1>1, <2>2
  <2>8. ScanInv(images, change)
    <3>1. ReadsInv(change)
      BY <1>2, <2>6, <2>4, <2>5 DEF ScanInv, ReadsInv
    <3>2. CASE image = None
      BY <2>6, <3>2, <3>1 DEF ScanInv
    <3>3. CASE image # None
      BY <1>1, <2>2, <2>3, <2>6, <2>7, <3>3, <3>1 DEF ScanInv
    <3> QED
      BY <3>2, <3>3
  <2> QED
    BY <2>1, <2>8, StepKeepsInv
<1>8. ASSUME StatImage(s)
      PROVE  Inv(images)'
  <2> DEFINE stat == Identity(Current.files[det[s].image])
             change == [det[s] EXCEPT !.at = "stated", !.stat = stat]
  <2>1. Step(s, "read", change)
    BY <1>8 DEF StatImage
  <2>2. /\ det[s].image \in images /\ det[s].from \in 1 .. Now
        /\ \E v \in det[s].from .. Now : det[s].cue = versions[v].cue
    BY <1>2, <2>1 DEF Step, ScanInv
  <2>3. Now \in det[s].from .. Now /\ stat = Identity(ImageAt(Now, det[s].image))
    BY <1>1, <2>2
  <2> HIDE DEF stat
  <2>4. /\ DOMAIN change = DOMAIN NewScan /\ change.at = "stated"
        /\ change.from = det[s].from /\ change.cue = det[s].cue
        /\ change.image = det[s].image /\ change.stat = stat
        /\ change.sheet = det[s].sheet /\ change.event = det[s].event
        /\ change.dir = det[s].dir
    BY <1>2 DEF NewScan
  <2>5. ScanInv(images, change)
    BY <1>2, <2>2, <2>3, <2>4 DEF ScanInv, ReadsInv
  <2> QED
    BY <2>1, <2>5, StepKeepsInv
<1>9. ASSUME HashImage(s)
      PROVE  Inv(images)'
  <2> DEFINE print == Fingerprint(det[s].cue, det[s].image, det[s].stat,
                                  Content(Current.files[det[s].image]))
             change == [det[s] EXCEPT !.at = "done", !.to = Now, !.fingerprint = print]
  <2>1. Step(s, "stated", change)
    BY <1>9 DEF HashImage
  <2>2. /\ det[s].image \in images /\ det[s].from \in 1 .. Now
        /\ \E v \in det[s].from .. Now : det[s].cue = versions[v].cue
        /\ \E v \in det[s].from .. Now :
                det[s].stat = Identity(ImageAt(v, det[s].image))
    BY <1>2, <2>1 DEF Step, ScanInv
  <2>3. Now = det[s].from =>
            print = Fingerprint(versions[det[s].from].cue, det[s].image,
                                Identity(ImageAt(det[s].from, det[s].image)),
                                Content(ImageAt(det[s].from, det[s].image)))
    <3>1. ASSUME Now = det[s].from
          PROVE  /\ det[s].cue = versions[det[s].from].cue
                 /\ det[s].stat = Identity(ImageAt(det[s].from, det[s].image))
                 /\ Current.files[det[s].image] = ImageAt(det[s].from, det[s].image)
      <4>1. \A v \in det[s].from .. Now : v = det[s].from
        BY <1>1, <3>1
      <4> QED
        BY <1>1, <2>2, <3>1, <4>1
    <3> QED
      BY <3>1
  <2> HIDE DEF print
  <2>4. /\ DOMAIN change = DOMAIN NewScan /\ change.at = "done"
        /\ change.from = det[s].from /\ change.to = Now
        /\ change.image = det[s].image /\ change.fingerprint = print
        /\ change.sheet = det[s].sheet /\ change.cue = det[s].cue
        /\ change.event = det[s].event /\ change.dir = det[s].dir
    BY <1>2 DEF NewScan
  <2>5. ScanInv(images, change)
    BY <1>1, <1>2, <2>2, <2>3, <2>4 DEF ScanInv, ReadsInv
  <2> QED
    BY <2>1, <2>5, StepKeepsInv
<1>10. ASSUME ScanFails(s)
       PROVE  Inv(images)'
  BY <1>3, <1>10, StepKeepsInv DEF ScanFails
<1> QED
  BY <1>4, <1>5, <1>6, <1>7, <1>8, <1>9, <1>10 DEF Detect

----------------------------------------------------------------------------
(* The attempt.                                                            *)

LEMMA GoKeepsInv ==
    ASSUME NEW images, Inv(images), NEW from, NEW change,
           Go(from, change), AttemptInv(images, change)
    PROVE  Inv(images)'
<1>1. versions' = versions /\ det' = det /\ att' = change
  BY DEF Go
<1>2. VersionsInv(images)'
  BY <1>1 DEF Inv, VersionsInv, ImageAt, Now
<1>3. \A s \in Scans : ScanInv(images, det[s])'
  BY <1>1 DEF Inv, ScanInv, ImageAt, Now
<1>4. AttemptInv(images, att)'
  BY <1>1 DEF AttemptInv, OutputsInv, ImageAt, Now
<1> QED
  BY <1>1, <1>2, <1>3, <1>4 DEF Inv

LEMMA AttemptKeepsInv ==
    ASSUME NEW images \in SUBSET Names, Inv(images), Attempt
    PROVE  Inv(images)'
<1>1. /\ Now \in Nat /\ Now >= 1 /\ Current = versions[Now]
      /\ \A name \in images : Current.files[name] = ImageAt(Now, name)
  BY CurrentIsAlbum DEF Inv
<1>2. AttemptInv(images, att) /\ DOMAIN att = DOMAIN NewAttempt
  BY DEF Inv, AttemptInv
<1>3. ASSUME NEW s \in Scans, BeginAttempt(s)
      PROVE  Inv(images)'
  <2> DEFINE change == [att EXCEPT !.at = "stat", !.image = det[s].image]
  <2>1. Go("idle", change) /\ det[s].image \in images
    BY <1>3 DEF BeginAttempt, Inv, ScanInv
  <2>2. DOMAIN change = DOMAIN NewAttempt /\ change.at = "stat" /\ change.image = det[s].image
    BY <1>2 DEF NewAttempt
  <2>3. AttemptInv(images, change)
    BY <2>1, <2>2 DEF AttemptInv, OutputsInv
  <2> QED
    BY <2>1, <2>3, GoKeepsInv
<1>4. ASSUME FirstStat
      PROVE  Inv(images)'
  <2> DEFINE change == [att EXCEPT !.at = "room", !.size = Image.end, !.first = Now]
  <2>1. Go("stat", change)
    BY <1>4 DEF FirstStat
  <2>2. att.image \in images
    BY <1>2, <2>1 DEF Go, AttemptInv
  <2>3. /\ DOMAIN change = DOMAIN NewAttempt /\ change.at = "room"
        /\ change.image = att.image /\ change.size = Image.end /\ change.first = Now
    BY <1>2 DEF NewAttempt
  <2>4. Image = ImageAt(Now, att.image)
    BY <1>1, <2>2 DEF Image
  <2>5. AttemptInv(images, change)
    BY <1>1, <2>2, <2>3, <2>4 DEF AttemptInv, OutputsInv
  <2> QED
    BY <2>1, <2>5, GoKeepsInv
<1>5. ASSUME CheckRoom
      PROVE  Inv(images)'
  <2>1. PICK free \in FreeSpaces :
            /\ free >= RequiredFreeSpace(att.size)
            /\ Go("room", [att EXCEPT !.at = "gap", !.free = free])
    BY <1>5 DEF CheckRoom
  <2> DEFINE change == [att EXCEPT !.at = "gap", !.free = free]
  <2>2. /\ att.image \in images /\ att.first \in 1 .. Now
        /\ att.size = ImageAt(att.first, att.image).end
    BY <1>2, <2>1 DEF Go, AttemptInv
  <2>3. /\ DOMAIN change = DOMAIN NewAttempt /\ change.at = "gap"
        /\ change.image = att.image /\ change.size = att.size
        /\ change.first = att.first /\ change.free = free
    BY <1>2 DEF NewAttempt
  <2>4. free \in Nat
    BY SizesAssumption
  <2>5. AttemptInv(images, change)
    BY <2>1, <2>2, <2>3, <2>4 DEF AttemptInv, OutputsInv
  <2> QED
    BY <2>1, <2>5, GoKeepsInv
<1>6. ASSUME SecondStat
      PROVE  Inv(images)'
  <2> DEFINE change == [att EXCEPT !.at = "split", !.second = Now]
  <2>1. Image.end = att.size /\ Go("gap", change)
    BY <1>6 DEF SecondStat
  <2>2. /\ att.image \in images /\ att.first \in 1 .. Now
        /\ att.size = ImageAt(att.first, att.image).end
        /\ att.free \in Nat /\ att.free >= RequiredFreeSpace(att.size)
    BY <1>2, <2>1 DEF Go, AttemptInv
  <2>3. /\ DOMAIN change = DOMAIN NewAttempt /\ change.at = "split"
        /\ change.image = att.image /\ change.size = att.size
        /\ change.first = att.first /\ change.free = att.free /\ change.second = Now
    BY <1>2 DEF NewAttempt
  <2>4. Image = ImageAt(Now, att.image) /\ Now \in att.first .. Now
    BY <1>1, <2>2 DEF Image
  <2>5. AttemptInv(images, change)
    BY <2>1, <2>2, <2>3, <2>4 DEF AttemptInv, OutputsInv
  <2> QED
    BY <2>1, <2>5, GoKeepsInv
<1>7. ASSUME Split
      PROVE  Inv(images)'
  <2> DEFINE sheet == ParseCue(Current.cue)
  <2>1. PICK outputs \in Outputs(sheet, Image) :
            Go("split", [NewAttempt EXCEPT !.at = "inspect", !.image = att.image,
                                           !.outputs = outputs])
    BY <1>7 DEF Split
  <2> DEFINE change == [NewAttempt EXCEPT !.at = "inspect", !.image = att.image,
                                          !.outputs = outputs]
  <2>2. att.image \in images
    BY <1>2, <2>1 DEF Go, AttemptInv
  <2>3. /\ Image = ImageAt(Now, att.image) /\ Image \in File /\ Plain(Image)
        /\ Current.cue \in Cues
    BY <1>1, <1>7, <2>2, CurrentIsAlbum DEF Split, Image, Inv, AlbumsOf
  <2>4. outputs \in Seq(Int \cup {Bad})
    BY <1>7, <2>1, <2>3, OutputsAre DEF Split
  <2>5. \A v \in 1 .. Now : Plain(ImageAt(v, att.image))
    <3>1. \A v \in 1 .. Now : ImageAt(v, att.image).chunks = Image.chunks
      BY <1>1, <2>2, <2>3 DEF Inv, VersionsInv
    <3> QED
      BY <2>3, <3>1 DEF Plain, Count, Only
  <2>6. /\ DOMAIN change = DOMAIN NewAttempt /\ change.at = "inspect"
        /\ change.image = att.image /\ change.outputs = outputs
    BY DEF NewAttempt
  <2>7. AttemptInv(images, change)
    BY <2>2, <2>4, <2>5, <2>6 DEF AttemptInv, OutputsInv
  <2> QED
    BY <2>1, <2>7, GoKeepsInv
<1>8. ASSUME InspectSource
      PROVE  Inv(images)'
  <2> DEFINE length == Duration(att.image)
             change == [att EXCEPT !.at = "verify", !.source = Now, !.measured = length]
  <2>1. Go("inspect", change) /\ length # Bad
    BY <1>8 DEF InspectSource
  <2>2. /\ att.image \in images /\ att.outputs \in Seq(Int \cup {Bad})
        /\ \A v \in 1 .. Now : Plain(ImageAt(v, att.image))
    BY <1>2, <2>1 DEF Go, AttemptInv, OutputsInv
  <2>3. length = DurationOf(ImageAt(Now, att.image))
    <3> DEFINE f == ImageAt(Now, att.image)
    <3>1. Current.files[att.image] = f /\ f \in File /\ Plain(f)
      BY <1>1, <2>2, CurrentIsAlbum DEF Inv
    <3>2. f.chunks \in Seq(Chunk)
      BY <3>1, AlbumsAssumption DEF File
    <3>3. Inspect(f) \in {Bad, DurationOf(f)}
      BY <3>1, <3>2, OneLength
    <3>4. FlacInspect(f) \in {Bad, DurationOf(f)}
      BY DEF FlacInspect
    <3>5. length \in {Inspect(f), FlacInspect(f)}
      BY <3>1 DEF Duration
    <3> QED
      BY <2>1, <3>3, <3>4, <3>5
  <2> HIDE DEF length
  <2>4. /\ DOMAIN change = DOMAIN NewAttempt /\ change.at = "verify"
        /\ change.image = att.image /\ change.outputs = att.outputs
        /\ change.source = Now /\ change.measured = length
    BY <1>2 DEF NewAttempt
  <2>5. AttemptInv(images, change)
    BY <1>1, <2>2, <2>3, <2>4 DEF AttemptInv, OutputsInv
  <2> QED
    BY <2>1, <2>5, GoKeepsInv
<1>9. ASSUME VerifySplit
      PROVE  Inv(images)'
  <2> DEFINE tags == TagsFor(ParseCue(Current.cue))
             change == [att EXCEPT !.at = "accepted", !.read = Now, !.tags = tags]
  <2>1. /\ Go("verify", change)
        /\ Accepts(ParseCue(Current.cue), att.outputs, att.measured)
    BY <1>9 DEF VerifySplit
  <2>2. /\ att.image \in images /\ att.outputs \in Seq(Int \cup {Bad})
        /\ \A v \in 1 .. Now : Plain(ImageAt(v, att.image))
        /\ att.source \in 1 .. Now
        /\ att.measured = DurationOf(ImageAt(att.source, att.image))
    BY <1>2, <2>1 DEF Go, AttemptInv, OutputsInv
  <2>3. tags = TagsFor(ParseCue(versions[Now].cue))
    BY <1>1
  <2> HIDE DEF tags
  <2>4. /\ DOMAIN change = DOMAIN NewAttempt /\ change.at = "accepted"
        /\ change.image = att.image /\ change.outputs = att.outputs
        /\ change.source = att.source /\ change.measured = att.measured
        /\ change.read = Now /\ change.tags = tags
    BY <1>2 DEF NewAttempt
  <2>5. AttemptInv(images, change)
    BY <1>1, <2>1, <2>2, <2>3, <2>4 DEF AttemptInv, OutputsInv
  <2> QED
    BY <2>1, <2>5, GoKeepsInv
<1>10. ASSUME AttemptFails
       PROVE  Inv(images)'
  <2>1. AttemptInv(images, Failed)
    BY DEF AttemptInv, OutputsInv, Failed, NewAttempt
  <2> QED
    BY <1>10, <2>1, GoKeepsInv DEF AttemptFails
<1> QED
  BY <1>3, <1>4, <1>5, <1>6, <1>7, <1>8, <1>9, <1>10 DEF Attempt

LEMMA NextIInv == IInv /\ [Next]_vars => IInv'
<1> SUFFICES ASSUME IInv, [Next]_vars PROVE IInv'
  OBVIOUS
<1>1. PICK images \in SUBSET Names : Inv(images)
  BY DEF IInv
<1>2. ASSUME UNCHANGED vars
      PROVE  Inv(images)'
  BY <1>1, <1>2 DEF vars, Inv, VersionsInv, ScanInv, ReadsInv, AttemptInv, OutputsInv, ImageAt, Now
<1>3. Inv(images)'
  BY <1>1, <1>2, WritesKeepInv, DetectKeepsInv, AttemptKeepsInv DEF Next
<1> QED
  BY <1>3 DEF IInv

LEMMA Invariance == Spec => []IInv
  BY InitIInv, NextIInv, PTL DEF Spec

----------------------------------------------------------------------------
(* What follows from it.                                                   *)

LEMMA FilesAreEqual ==
    ASSUME NEW f \in File, NEW g \in File, Identity(f) = Identity(g), Content(f) = Content(g)
    PROVE  f = g
  BY DEF File, Identity, Content

LEMMA ScansAgreeHolds == IInv => ScansAgree
<1> SUFFICES ASSUME IInv, NEW s \in Scans, NEW t \in Scans, Quiet(s), Quiet(t)
             PROVE  det[s].fingerprint = det[t].fingerprint <=> Scanned(s) = Scanned(t)
  BY DEF ScansAgree
<1>1. PICK images \in SUBSET Names : Inv(images)
  BY DEF IInv
<1> DEFINE Seen(r) == ImageAt(det[r].from, det[r].image)
<1>2. ASSUME NEW r \in Scans, Quiet(r)
      PROVE  /\ det[r].from \in 1 .. Now /\ det[r].image \in images
             /\ det[r].fingerprint =
                    Fingerprint(versions[det[r].from].cue, det[r].image,
                                Identity(Seen(r)), Content(Seen(r)))
             /\ Scanned(r) = <<versions[det[r].from].cue, det[r].image, Seen(r)>>
  <2>1. ScanInv(images, det[r]) /\ det[r].at = "done" /\ det[r].to = det[r].from
    BY <1>1, <1>2 DEF Inv, Quiet
  <2> QED
    BY <2>1 DEF ScanInv, Scanned, ImageAt
<1>3. Seen(s) \in File /\ Seen(t) \in File
  BY <1>1, <1>2, CurrentIsAlbum DEF Inv
<1>4. Identity(Seen(s)) = Identity(Seen(t)) /\ Content(Seen(s)) = Content(Seen(t))
        => Seen(s) = Seen(t)
  BY <1>3, FilesAreEqual
<1> HIDE DEF Seen
<1> QED
  BY <1>2, <1>4 DEF Fingerprint

\* Two scans during which nobody wrote give an album one fingerprint exactly
\* when the sheet and the image, with its size and time, were the same for both.
THEOREM FingerprintsTellAlbumsApart == Spec => []ScansAgree
  BY Invariance, ScansAgreeHolds, PTL

LEMMA RoomAndRestHolds == IInv => RoomAndRest
<1> SUFFICES ASSUME IInv, att.at = "split"
             PROVE  /\ \A v \in att.first .. att.second :
                            versions[v].files[att.image].end = att.size
                    /\ att.free >= 2 * att.size /\ att.free >= att.size + Reserve
  BY DEF RoomAndRest
<1>1. PICK images \in SUBSET Names : Inv(images)
  BY DEF IInv
<1>2. /\ att.image \in images /\ att.first \in 1 .. Now /\ att.second \in att.first .. Now
      /\ att.size = ImageAt(att.first, att.image).end
      /\ att.size = ImageAt(att.second, att.image).end
      /\ att.free \in Nat /\ att.free >= RequiredFreeSpace(att.size)
  BY <1>1 DEF Inv, AttemptInv
<1>3. /\ Now \in Nat
      /\ \A v \in 1 .. Now : ImageAt(v, att.image).end \in 0 .. Limit \div 2
  BY <1>1, <1>2, CurrentIsAlbum DEF Inv
<1>4. ASSUME NEW v \in att.first .. att.second
      PROVE  versions[v].files[att.image].end = att.size
  <2>1. v \in 1 .. Now /\ v \in att.first .. Now /\ att.second \in v .. Now
    BY <1>2, <1>3
  <2>2. /\ ImageAt(att.first, att.image).end <= ImageAt(v, att.image).end
        /\ ImageAt(v, att.image).end <= ImageAt(att.second, att.image).end
    BY <1>1, <1>2, <2>1 DEF Inv, VersionsInv
  <2>3. ImageAt(v, att.image).end \in Int /\ att.size \in Int
    BY <1>2, <1>3, <2>1
  <2> QED
    BY <1>2, <2>2, <2>3 DEF ImageAt
<1>5. att.size \in 0 .. Limit \div 2
  BY <1>2, <1>3
<1>6. /\ RequiredFreeSpace(att.size) \in Int
      /\ RequiredFreeSpace(att.size) >= 2 * att.size
      /\ RequiredFreeSpace(att.size) >= att.size + Reserve
  BY <1>5, RoomIsEnough
<1>7. att.size \in Int /\ Reserve \in Int
  BY <1>5, SizesAssumption
<1> QED
  BY <1>2, <1>4, <1>6, <1>7

\* The splitter is only started on an image whose size was the same all through
\* the stability gap, and with room for a second copy of it and the reserve.
THEOREM SplitterHasRoomAndRest == Spec => []RoomAndRest
  BY Invariance, RoomAndRestHolds, PTL
----------------------------------------------------------------------------
(* What is read, and what is measured.                                     *)

\* Every scan reads the sheet that its cue describes, or rejects it.
THEOREM EveryScanReadsItsCue == Spec => []SheetIsRead
<1>1. IInv => SheetIsRead
  <2> SUFFICES ASSUME IInv, NEW s \in Scans, det[s].sheet # None
               PROVE  det[s].sheet = IF Rejected(det[s].cue) THEN Bad ELSE SheetOf(det[s].cue)
    BY DEF SheetIsRead
  <2>1. det[s].cue \in Cues /\ det[s].sheet = ParseCue(det[s].cue)
    BY DEF IInv, Inv, ScanInv, ReadsInv
  <2> QED
    BY <2>1, CuesAssumption, CueIsRead
<1> QED
  BY <1>1, Invariance, PTL

\* At any time, wav.go measures every image of the album that is plain and
\* whole, and none whose audio is not all there.
THEOREM EveryImageIsMeasured == Spec => []WavIsMeasured
<1>1. IInv => WavIsMeasured
  <2> SUFFICES ASSUME IInv, NEW name \in DOMAIN Current.files
               PROVE  LET f == Current.files[name]
                      IN  /\ Whole(f) /\ Plain(f) => Inspect(f) = DurationOf(f)
                          /\ Inspect(f) # Bad =>
                                \E i \in DOMAIN f.chunks :
                                    f.chunks[i].id = "data" /\ Places(f.chunks)[i + 1] <= f.end
    BY DEF WavIsMeasured
  <2>1. PICK images \in SUBSET Names : Inv(images)
    BY DEF IInv
  <2> DEFINE f == Current.files[name]
  <2>2. f \in File /\ f.end \in 0 .. Limit \div 2
    BY <2>1, CurrentIsAlbum DEF Inv, AlbumsOf
  <2>3. f.chunks \in Seq(Chunk) /\ f.riff \in Nat /\ f.end \in Nat
    BY <2>2, AlbumsAssumption, SizesAssumption DEF File
  <2>4. DOMAIN f.chunks = 1 .. Len(f.chunks)
    BY <2>3
  <2> HIDE DEF f
  <2>5. Whole(f) /\ Plain(f) => Inspect(f) = DurationOf(f)
    BY <2>3, WholeFileIsMeasured
  <2>6. Inspect(f) # Bad =>
            \E i \in DOMAIN f.chunks :
                f.chunks[i].id = "data" /\ Places(f.chunks)[i + 1] <= f.end
    BY <2>3, <2>4, NoLengthWithoutAudio
  <2> QED
    BY <2>5, <2>6 DEF f
<1> QED
  BY <1>1, Invariance, PTL

----------------------------------------------------------------------------
(* Events of Lidarr.                                                       *)

\* The first part that is given is one of them, and there is one if any is.
LEMMA FirstPathIs ==
    ASSUME NEW parts, NEW n \in Nat, DOMAIN parts = 1 .. n
    PROVE  /\ FirstPath(parts) # None => \E i \in 1 .. n : FirstPath(parts) = parts[i]
           /\ (\E i \in 1 .. n : parts[i] # None) => FirstPath(parts) # None
<1> DEFINE given == {i \in DOMAIN parts : parts[i] # None}
<1>1. FirstPath(parts) = IF given = {} THEN None ELSE parts[Min(given)]
  BY DEF FirstPath
<1>2. given \subseteq Nat /\ given \subseteq 1 .. n /\ \A i \in given : parts[i] # None
  OBVIOUS
<1>3. given # {} <=> \E i \in 1 .. n : parts[i] # None
  OBVIOUS
<1> HIDE DEF given
<1>4. given # {} => Min(given) \in given
  BY <1>2, LeastOf
<1> QED
  BY <1>1, <1>2, <1>3, <1>4

LEMMA SixKeys ==
    ASSUME NEW a, NEW b, NEW c, NEW d, NEW e, NEW f
    PROVE  \E S : <<a, b, c, d, e, f>> \in Seq(S)
<1> DEFINE S == {a, b, c, d, e, f}
<1>1. a \in S /\ b \in S /\ c \in S /\ d \in S /\ e \in S /\ f \in S
  OBVIOUS
<1> HIDE DEF S
<1>2. <<a, b, c, d, e, f>> \in Seq(S)
  BY <1>1
<1> QED
  BY <1>2

LEMMA UnderKeys ==
    ASSUME NEW x, NEW S, NEW s \in Seq(S)
    PROVE  [i \in DOMAIN s |-> <<x, s[i]>>] \in Seq({<<x, y>> : y \in S})
<1>1. Len(s) \in Nat /\ DOMAIN s = 1 .. Len(s) /\ \A i \in 1 .. Len(s) : s[i] \in S
  OBVIOUS
<1>2. ASSUME NEW i \in 1 .. Len(s) PROVE <<x, s[i]>> \in {<<x, y>> : y \in S}
  BY <1>1
<1> QED
  BY <1>1, <1>2

\* The places form a sequence.
LEMMA LookedThroughIs == Len(LookedThrough) \in Nat /\ DOMAIN LookedThrough = 1 .. Len(LookedThrough)
<1>1. PICK T : TopLevelKeys \in Seq(T)
  BY SixKeys DEF TopLevelKeys
<1>2. PICK N : NestedKeys \in Seq(N)
  BY SixKeys DEF NestedKeys
<1> DEFINE Under(place, keys) == [i \in DOMAIN keys |-> <<place, keys[i]>>]
           third == <<"trackFiles", "path">>
           TT == {<<"top", y>> : y \in T}
           NN == {<<"environment", y>> : y \in N}
           EE == {<<"env", y>> : y \in N}
<1>3. /\ Under("top", TopLevelKeys) \in Seq(TT)
      /\ Under("environment", NestedKeys) \in Seq(NN)
      /\ Under("env", NestedKeys) \in Seq(EE)
  BY <1>1, <1>2, UnderKeys
<1>4. LookedThrough = Under("top", TopLevelKeys) \o <<third>> \o
                      Under("environment", NestedKeys) \o Under("env", NestedKeys)
  BY DEF LookedThrough
<1> DEFINE A == Under("top", TopLevelKeys)
           C == Under("environment", NestedKeys)
           D == Under("env", NestedKeys)
           All == TT \cup {third} \cup NN \cup EE
<1>5. A \in Seq(TT) /\ C \in Seq(NN) /\ D \in Seq(EE) /\ LookedThrough = A \o <<third>> \o C \o D
  BY <1>3, <1>4
<1>6. TT \subseteq All /\ NN \subseteq All /\ EE \subseteq All /\ third \in All
  OBVIOUS
<1> HIDE DEF A, C, D, All, third, TT, NN, EE
<1>7. A \in Seq(All) /\ C \in Seq(All) /\ D \in Seq(All) /\ <<third>> \in Seq(All)
  BY <1>5, <1>6
<1>8. LookedThrough \in Seq(All)
  BY <1>5, <1>7
<1> QED
  BY <1>8

\* The path that is scanned is one that the event names, if it names any.
LEMMA PathIsNamed ==
    ASSUME NEW event \in Events
    PROVE  /\ ExtractLidarrScanPath(event) # None =>
                    ExtractLidarrScanPath(event) \in Named(event)
           /\ Named(event) # {} => ExtractLidarrScanPath(event) # None
<1> DEFINE n == Len(LookedThrough)
           found == [i \in DOMAIN LookedThrough |-> FirstPath(Held(event, LookedThrough[i]))]
<1>1. n \in Nat /\ DOMAIN LookedThrough = 1 .. n /\ DOMAIN found = 1 .. n
  BY LookedThroughIs
<1>2. ExtractLidarrScanPath(event) = FirstPath(found)
  BY DEF ExtractLidarrScanPath
<1>3. /\ FirstPath(found) # None => \E i \in 1 .. n : FirstPath(found) = found[i]
      /\ (\E i \in 1 .. n : found[i] # None) => FirstPath(found) # None
  BY <1>1, FirstPathIs
<1>4. ASSUME NEW place
      PROVE  /\ FirstPath(Held(event, place)) # None =>
                    FirstPath(Held(event, place)) \in Named(event)
             /\ place \in DOMAIN event.held /\ ToSet(event.held[place]) \ {None} # {} =>
                    FirstPath(Held(event, place)) # None
  <2> DEFINE parts == Held(event, place)
  <2>1. CASE place \in DOMAIN event.held
    <3>1. parts = event.held[place] /\ parts \in Seq(ToSet(parts))
      BY <2>1, EventsAssumption DEF Held
    <3>2. Len(parts) \in Nat /\ DOMAIN parts = 1 .. Len(parts)
          /\ ToSet(parts) = {parts[i] : i \in 1 .. Len(parts)}
      BY <3>1 DEF ToSet
    <3> HIDE DEF parts
    <3>3. /\ FirstPath(parts) # None => \E i \in 1 .. Len(parts) : FirstPath(parts) = parts[i]
          /\ (\E i \in 1 .. Len(parts) : parts[i] # None) => FirstPath(parts) # None
      BY <3>2, FirstPathIs
    <3>4. FirstPath(parts) # None => FirstPath(parts) \in Named(event)
      <4> SUFFICES ASSUME FirstPath(parts) # None
                   PROVE  FirstPath(parts) \in Named(event)
        OBVIOUS
      <4>1. FirstPath(parts) \in ToSet(parts)
        BY <3>2, <3>3
      <4>2. ToSet(parts) \in {ToSet(event.held[p]) : p \in DOMAIN event.held}
        BY <2>1, <3>1
      <4> QED
        BY <4>1, <4>2 DEF Named
    <3>5. ToSet(parts) \ {None} # {} => FirstPath(parts) # None
      BY <3>2, <3>3
    <3> QED
      BY <3>1, <3>4, <3>5 DEF parts
  <2>2. CASE place \notin DOMAIN event.held
    <3>1. parts = << >>
      BY <2>2 DEF Held
    <3>2. FirstPath(<< >>) = None
      BY DEF FirstPath
    <3> QED
      BY <2>2, <3>1, <3>2
  <2> QED
    BY <2>1, <2>2
<1>5. FirstPath(found) # None => FirstPath(found) \in Named(event)
  BY <1>1, <1>3, <1>4
<1>6. ASSUME NEW path \in Named(event)
      PROVE  FirstPath(found) # None
  <2>1. PICK place \in DOMAIN event.held : path \in ToSet(event.held[place]) /\ path # None
    <3>1. path \in UNION {ToSet(event.held[p]) : p \in DOMAIN event.held} /\ path # None
      BY DEF Named
    <3>2. PICK parts \in {ToSet(event.held[p]) : p \in DOMAIN event.held} : path \in parts
      BY <3>1
    <3> QED
      BY <3>1, <3>2
  <2>2. PICK i \in 1 .. n : LookedThrough[i] = place
    BY <1>1, <2>1, EventsAssumption DEF ToSet
  <2>3. found[i] = FirstPath(Held(event, place)) /\ FirstPath(Held(event, place)) # None
    BY <1>1, <1>4, <2>1, <2>2
  <2> QED
    BY <1>3, <2>3
<1> HIDE DEF found
<1> QED
  BY <1>2, <1>5, <1>6

\* An event that names the album, and nothing else, scans the album, wherever in
\* the body it names it; and no event scans what it does not name.
THEOREM EventsFindTheAlbum == Spec => []HookFindsAlbum
<1>1. IInv => HookFindsAlbum
  <2> SUFFICES ASSUME IInv, NEW s \in Scans, det[s].event # None, ~det[s].event.test
               PROVE  LET named == Named(det[s].event)
                      IN  /\ named # {} /\ (\A path \in named : OfAlbum(path)) =>
                                det[s].dir = Album
                          /\ det[s].dir # None =>
                                \E path \in named : det[s].dir \in {path.self, path.parent}
    BY DEF HookFindsAlbum
  <2> DEFINE event == det[s].event
             path == ExtractLidarrScanPath(event)
  <2>1. /\ event \in Events
        /\ det[s].dir = IF HookDir(event) \in {None, Bad} THEN None ELSE HookDir(event)
    BY DEF IInv, Inv, ScanInv, ReadsInv
  <2>2. /\ path # None => path \in Named(event)
        /\ Named(event) # {} => path # None
    BY <2>1, PathIsNamed
  <2>3. HookDir(event) = IF path = None THEN Bad ELSE LidarrDirForScan(path)
    BY DEF HookDir
  <2> HIDE DEF event, path
  <2>4. ASSUME Named(event) # {}, \A p \in Named(event) : OfAlbum(p)
        PROVE  det[s].dir = Album
    <3>1. path # None /\ OfAlbum(path)
      BY <2>2, <2>4
    <3>2. LidarrDirForScan(path) = Album
      BY <3>1 DEF OfAlbum, LidarrDirForScan
    <3> QED
      BY <2>1, <2>3, <3>1, <3>2, AlbumsAssumption
  <2>5. ASSUME det[s].dir # None
        PROVE  \E p \in Named(event) : det[s].dir \in {p.self, p.parent}
    <3>1. path # None /\ det[s].dir = LidarrDirForScan(path)
      BY <2>1, <2>3, <2>5
    <3>2. LidarrDirForScan(path) \in {path.self, path.parent}
      BY DEF LidarrDirForScan
    <3> QED
      BY <2>2, <3>1, <3>2
  <2> QED
    BY <2>4, <2>5 DEF event
<1> QED
  BY <1>1, Invariance, PTL

----------------------------------------------------------------------------
(* The tracks that are accepted.                                           *)

\* Each output may be off by the tolerance, the first i together by i of them.
LEMMA OutputsAddUp ==
    ASSUME NEW n \in Nat, NEW total \in Int, NEW starts \in Seq(Int), Len(starts) = n,
           NEW outputs \in Seq(Int), Len(outputs) = n,
           \A i \in 1 .. n : Near(outputs[i], Lengths(starts, total)[i])
    PROVE  \A i \in 1 .. n :
                Sums(outputs)[i] - (Append(starts, total)[i + 1] - starts[1])
                    \in -(i * Tolerance) .. i * Tolerance
<1> DEFINE ends == Append(starts, total)
           Off(i) == Sums(outputs)[i] - (ends[i + 1] - starts[1])
           T == {i \in Nat : i \in 1 .. n => Off(i) \in -(i * Tolerance) .. i * Tolerance}
<1>1. Tolerance \in Nat
  BY AlbumsAssumption
<1>2. \A i \in 1 .. n : starts[i] \in Int /\ outputs[i] \in Int /\ ends[i] = starts[i]
  OBVIOUS
<1>3. ends[n + 1] = total
  OBVIOUS
<1>4. \A i \in 1 .. n : Lengths(starts, total)[i] = ends[i + 1] - ends[i]
  <2>1. ASSUME NEW i \in 1 .. n
        PROVE  (IF i = Len(starts) THEN total ELSE starts[i + 1]) = ends[i + 1]
    <3>1. i # n => i + 1 \in 1 .. n
      OBVIOUS
    <3> QED
      BY <1>2, <1>3, <3>1
  <2>2. DOMAIN starts = 1 .. n
    OBVIOUS
  <2> QED
    BY <1>2, <2>1, <2>2 DEF Lengths
<1>5. \A i \in 1 .. n + 1 : ends[i] \in Int
  <2>1. \A i \in 1 .. n + 1 : i \in 1 .. n \/ i = n + 1
    OBVIOUS
  <2> QED
    BY <1>2, <1>3, <2>1
<1>6. /\ Sums(outputs)[0] = 0 /\ \A i \in 0 .. n : Sums(outputs)[i] \in Int
      /\ \A i \in 1 .. n : Sums(outputs)[i] = Sums(outputs)[i - 1] + outputs[i]
  BY SumsStep
<1>7. \A i \in 1 .. n : outputs[i] - (ends[i + 1] - ends[i]) \in -Tolerance .. Tolerance
  BY <1>4 DEF Near
<1>8. 1 \in 1 .. n => ends[1] = starts[1] /\ starts[1] \in Int
  BY <1>2
<1> DEFINE sum == Sums(outputs)
<1>9. 0 \in T
  OBVIOUS
<1>10. ASSUME NEW i \in Nat, i \in T
       PROVE  i + 1 \in T
  <2> DEFINE k == i + 1
  <2> SUFFICES ASSUME k \in 1 .. n
               PROVE  sum[k] - (ends[k + 1] - starts[1]) \in -(k * Tolerance) .. k * Tolerance
    OBVIOUS
  <2> DEFINE a == sum[i]
             b == sum[k]
             x == outputs[k]
             e == ends[k]
             g == ends[k + 1]
             z == starts[1]
             t == i * Tolerance
             u == k * Tolerance
  <2>1. u = t + Tolerance /\ t \in Nat
    BY <1>1
  <2>2. 1 \in 1 .. n /\ k \in 1 .. n /\ k + 1 \in 1 .. n + 1 /\ k \in 1 .. n + 1 /\ k - 1 = i
        /\ i \in 0 .. n /\ k \in 0 .. n
    OBVIOUS
  <2>3. a \in Int /\ b \in Int /\ b = a + x /\ x \in Int /\ e \in Int /\ g \in Int /\ z \in Int
    BY <1>2, <1>5, <1>6, <1>8, <2>2
  <2>4. x - (g - e) \in -Tolerance .. Tolerance
    BY <1>7, <2>2
  <2>5. a - (e - z) \in -t .. t
    <3>1. CASE i = 0
      <4>1. a = 0 /\ e = z
        BY <1>6, <1>8, <2>2, <3>1
      <4> QED
        BY <2>1, <2>3, <4>1
    <3>2. CASE i # 0
      <4>1. i \in 1 .. n
        BY <2>2, <3>2
      <4> QED
        BY <1>10, <4>1
    <3> QED
      BY <3>1, <3>2
  <2> HIDE DEF a, b, x, e, g, z, t, u
  <2>6. b - (g - z) \in -u .. u
    BY <1>1, <2>1, <2>3, <2>4, <2>5
  <2> QED
    BY <2>6 DEF b, g, z, u
<1> HIDE DEF T
<1>11. \A i \in Nat : i \in T
  BY <1>9, <1>10, Induction
<1>12. ASSUME NEW i \in 1 .. n
       PROVE  Off(i) \in -(i * Tolerance) .. i * Tolerance
  <2>1. i \in Nat /\ i \in T
    BY <1>11
  <2> HIDE DEF Off
  <2> QED
    BY <2>1 DEF T
<1> QED
  BY <1>12

\* The tracks that VerifySplit accepts are those of the sheet that it read, tile
\* the image that inspectSource measured, and carry the sheet's tags: for every
\* cue sheet, image, splitter and tolerance.
THEOREM AcceptedTracksTileTheImage == Spec => []AcceptedTracksFit
<1>1. IInv => AcceptedTracksFit
  <2> SUFFICES ASSUME IInv, att.at = "accepted"
               PROVE  AcceptedTracksFit
    BY DEF AcceptedTracksFit
  <2>1. PICK images \in SUBSET Names : Inv(images)
    BY DEF IInv
  <2> DEFINE cue == versions[att.read].cue
             parsed == ParseCue(cue)
             sheet == SheetOf(cue)
             f == ImageAt(att.source, att.image)
             total == DurationOf(f)
             starts == Starts(sheet)
             n == Len(att.outputs)
  <2>2. /\ att.image \in images /\ att.outputs \in Seq(Int \cup {Bad})
        /\ att.source \in 1 .. Now /\ att.measured = total /\ Plain(f)
        /\ att.read \in 1 .. Now /\ Accepts(parsed, att.outputs, att.measured)
        /\ att.tags = TagsFor(parsed)
    BY <2>1 DEF Inv, AttemptInv, OutputsInv
  <2>3. cue \in Cues
    <3>1. versions[att.read] \in AlbumsOf(images)
      BY <2>1, <2>2, CurrentIsAlbum DEF Inv
    <3> QED
      BY <3>1 DEF AlbumsOf
  <2>4. parsed # Bad
    BY <2>2 DEF Accepts
  <2>5. parsed = sheet
    BY <2>3, <2>4, StartsAre
  <2>6. /\ Len(sheet.tracks) \in Nat /\ DOMAIN sheet.tracks = 1 .. Len(sheet.tracks)
        /\ starts \in Seq(Int \cup {Bad}) /\ Len(starts) = Len(sheet.tracks)
    BY <2>3, <2>4, <2>5, StartsAre
  <2>7. total \in Nat
    <3>1. f \in File
      BY <2>1, <2>2, CurrentIsAlbum DEF Inv
    <3> QED
      BY <2>2, <3>1, LengthOfPlain, AlbumsAssumption DEF File
  <2> HIDE DEF parsed, sheet, total, starts, f, cue, n
  <2>8. /\ n = Len(sheet.tracks) /\ ExpectedTrackDurations(sheet, total) # Bad
        /\ \A i \in DOMAIN att.outputs :
                /\ att.outputs[i] # Bad
                /\ Near(att.outputs[i], ExpectedTrackDurations(sheet, total)[i])
    BY <2>2, <2>5 DEF Accepts, n
  <2>9. Fits(starts, total) /\ ExpectedTrackDurations(sheet, total) = Lengths(starts, total)
    BY <2>8 DEF ExpectedTrackDurations, starts
  <2>10. n \in Nat /\ DOMAIN att.outputs = 1 .. n /\ Len(starts) = n /\ DOMAIN starts = 1 .. n
    BY <2>2, <2>6, <2>8 DEF n
  <2>11. att.outputs \in Seq(Int) /\ Len(att.outputs) = n
    <3>1. \A i \in 1 .. n : att.outputs[i] \in Int
      BY <2>2, <2>8, <2>10
    <3>2. att.outputs = [i \in 1 .. n |-> att.outputs[i]]
      BY <2>2, <2>10
    <3> QED
      BY <2>10, <3>1, <3>2 DEF n
  <2>12. starts \in Seq(Int)
    <3>1. \A i \in 1 .. n : starts[i] \in Int
      BY <2>6, <2>9, <2>10 DEF Fits
    <3>2. starts = [i \in 1 .. n |-> starts[i]]
      BY <2>6, <2>10
    <3> QED
      BY <2>10, <3>1, <3>2
  <2>13. ASSUME NEW i \in 1 .. n
         PROVE  Near(att.outputs[i], Lengths(starts, total)[i])
    BY <2>8, <2>9, <2>10
  <2>14. \A i \in 1 .. n :
            Sums(att.outputs)[i] - (Append(starts, total)[i + 1] - starts[1])
                \in -(i * Tolerance) .. i * Tolerance
    <3>1. total \in Int /\ \A i \in 1 .. n : Near(att.outputs[i], Lengths(starts, total)[i])
      BY <2>7, <2>13
    <3> QED
      BY <2>10, <2>11, <2>12, <3>1, OutputsAddUp
  <2>15. n # 0 => Append(starts, total)[1] = starts[1]
    BY <2>7, <2>10, <2>12
  <2>16. att.tags = [i \in 1 .. n |->
            [title |-> sheet.tracks[i].title,
             artist |-> IF sheet.tracks[i].performer # None THEN sheet.tracks[i].performer
                        ELSE sheet.performer,
             album |-> sheet.title,
             number |-> sheet.tracks[i].number]]
    BY <2>2, <2>5, <2>6, <2>8 DEF TagsFor
  <2>17. Len(att.tags) = n
    BY <2>10, <2>16
  <2>18. ASSUME NEW i \in 1 .. n
         PROVE  /\ att.tags[i].title = sheet.tracks[i].title
                /\ att.tags[i].artist \in {sheet.tracks[i].performer, sheet.performer}
                /\ sheet.performer # None => att.tags[i].artist # None
    BY <2>16
  <2>19. ASSUME NEW i \in 1 .. n
         PROVE  Sums(att.outputs)[i]
                    - (Append(starts, total)[i + 1] - Append(starts, total)[1])
                    \in -(i * Tolerance) .. i * Tolerance
    BY <2>10, <2>14, <2>15
  <2> QED
    BY <2>8, <2>17, <2>18, <2>19
       DEF AcceptedTracksFit, n, starts, total, f, sheet, cue, ImageAt
<1> QED
  BY <1>1, Invariance, PTL
=============================================================================

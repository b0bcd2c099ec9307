------------------------------ MODULE CueSheet ------------------------------
(***************************************************************************)
(* A cue sheet: how it is read and how long its tracks must be.            *)
(*                                                                         *)
(*   internal/domain/cue.go         ParseCue                               *)
(*   internal/domain/cue_timing.go  ParseCueIndex, ExpectedTrackDurations  *)
(*                                                                         *)
(* A line is a key and a value: "title", "performer", "file", "track",     *)
(* "index00", "index01", "genre" and "date" (both of REM), or another word *)
(* that is passed over.  None is a value that is left out, Bad one that is *)
(* no number; quotes and blanks are gone.  Times are in frames, 75 to the  *)
(* second, which the code multiplies by time.Second before it divides: the *)
(* model is exact where the code's int64 does not overflow, up to two      *)
(* million minutes.                                                        *)
(***************************************************************************)
EXTENDS Integers, SequencesExt

CONSTANTS None, Bad

ASSUME MarksAssumption == None # Bad /\ {None, Bad} \cap Int = {}

\* The numbers of a sequence, added up one by one.
Sums(s) ==
    LET sum[i \in 0 .. Len(s)] == IF i = 0 THEN 0 ELSE sum[i - 1] + s[i]
    IN  sum

NoSheet == [title |-> None, performer |-> None, genre |-> None, date |-> None,
            file |-> None, tracks |-> << >>]
NewTrack(n) == [number |-> n, title |-> None, performer |-> None,
                index00 |-> None, index01 |-> None]
Unread == [sheet |-> NoSheet, fileSeen |-> FALSE, error |-> FALSE]

OfSheet(p, key, val) == [p EXCEPT !.sheet = [p.sheet EXCEPT ![key] = val]]

OfTrack(p, key, val) ==
    LET tracks == p.sheet.tracks
        last == Len(tracks)
    IN  OfSheet(p, "tracks", [tracks EXCEPT ![last] = [tracks[last] EXCEPT ![key] = val]])

Refused(p) == [p EXCEPT !.error = TRUE]

\* A bug: a FILE line counts only when it gives a name.
ReadLineByName(p, l) ==
    IF p.error THEN p
    ELSE CASE l.key \in {"genre", "date"} -> OfSheet(p, l.key, l.val)
           [] l.key \in {"title", "performer"} ->
                 IF p.sheet.tracks = << >> THEN OfSheet(p, l.key, l.val)
                 ELSE OfTrack(p, l.key, l.val)
           [] l.key = "file" ->
                 IF p.sheet.file # None THEN Refused(p) ELSE OfSheet(p, "file", l.val)
           [] l.key = "track" /\ l.val = Bad -> Refused(p)
           [] l.key = "track" /\ l.val \notin {None, Bad} ->
                 OfSheet(p, "tracks", Append(p.sheet.tracks, NewTrack(l.val)))
           [] l.key \in {"index00", "index01"} /\ p.sheet.tracks # << >> /\ l.val # None ->
                 OfTrack(p, l.key, l.val)
           [] OTHER -> p

ReadLine(p, l) ==
    IF p.error THEN p
    ELSE CASE l.key \in {"genre", "date"} -> OfSheet(p, l.key, l.val)
           [] l.key \in {"title", "performer"} ->
                 IF p.sheet.tracks = << >> THEN OfSheet(p, l.key, l.val)
                 ELSE OfTrack(p, l.key, l.val)
           [] l.key = "file" ->
                 IF p.fileSeen THEN Refused(p)
                 ELSE [OfSheet(p, "file", l.val) EXCEPT !.fileSeen = TRUE]
           [] l.key = "track" /\ l.val = Bad -> Refused(p)
           [] l.key = "track" /\ l.val \notin {None, Bad} ->
                 OfSheet(p, "tracks", Append(p.sheet.tracks, NewTrack(l.val)))
           [] l.key \in {"index00", "index01"} /\ p.sheet.tracks # << >> /\ l.val # None ->
                 OfTrack(p, l.key, l.val)
           [] OTHER -> p

\* What is known behind each line.
Reading(lines) ==
    LET read[i \in 0 .. Len(lines)] ==
            IF i = 0 THEN Unread ELSE ReadLine(read[i - 1], lines[i])
    IN  read

\* The sheet of a cue, or Bad.
ParseCue(lines) ==
    LET p == Reading(lines)[Len(lines)]
    IN  IF p.error THEN Bad ELSE p.sheet

----------------------------------------------------------------------------
\* An INDEX timestamp is a sequence of numbers.
ParseCueIndex(t) ==
    IF t \in {None, Bad} THEN Bad
    ELSE IF Len(t) = 3 /\ t[1] >= 0 /\ t[2] \in 0 .. 59 /\ t[3] \in 0 .. 74
         THEN (t[1] * 60 + t[2]) * 75 + t[3]
         ELSE Bad

Starts(sheet) ==
    [i \in DOMAIN sheet.tracks |-> ParseCueIndex(sheet.tracks[i].index01)]

\* What the durations must be for tracks that begin at starts, or Bad.
Fits(starts, total) ==
    /\ starts # << >> /\ total >= 0
    /\ \A i \in DOMAIN starts : starts[i] # Bad
    /\ \A i \in 2 .. Len(starts) : starts[i - 1] <= starts[i]
    /\ starts[Len(starts)] <= total

\* A bug: the last track is as long as the image.
LengthsWhole(starts, total) ==
    [i \in DOMAIN starts |->
        IF i = Len(starts) THEN total ELSE starts[i + 1] - starts[i]]

Lengths(starts, total) ==
    [i \in DOMAIN starts |->
        (IF i = Len(starts) THEN total ELSE starts[i + 1]) - starts[i]]

ExpectedTrackDurations(sheet, total) ==
    IF Fits(Starts(sheet), total) THEN Lengths(Starts(sheet), total) ELSE Bad

----------------------------------------------------------------------------
(* The reference: what a cue says, without reading it line by line.        *)

KeyLines(lines, key) == {i \in DOMAIN lines : lines[i].key = key}

\* The value that counts for a key between two lines is the last one.
LastSaid(lines, key, from, to) ==
    LET said == {i \in KeyLines(lines, key) :
                    from < i /\ i < to /\
                    (key \in {"index00", "index01"} => lines[i].val # None)}
    IN  IF said = {} THEN None ELSE lines[Max(said)].val

Rejected(lines) ==
    \/ \E i, j \in KeyLines(lines, "file") : i # j
    \/ \E i \in KeyLines(lines, "track") : lines[i].val = Bad

TrackLines(lines) == {i \in KeyLines(lines, "track") : lines[i].val # None}

\* The k-th of a set of numbers.
Rank(numbers, i) == Cardinality({j \in numbers : j <= i})
Nth(numbers, k) == CHOOSE i \in numbers : Rank(numbers, i) = k

\* Where the next track begins, or the end.
NextTrack(lines, i) == Min({j \in TrackLines(lines) : j > i} \cup {Len(lines) + 1})

\* A track is what stands between its line and the next one's.
TrackAt(lines, i) ==
    LET next == NextTrack(lines, i)
    IN  [number |-> lines[i].val,
         title |-> LastSaid(lines, "title", i, next),
         performer |-> LastSaid(lines, "performer", i, next),
         index00 |-> LastSaid(lines, "index00", i, next),
         index01 |-> LastSaid(lines, "index01", i, next)]

SheetOf(lines) ==
    LET end == Len(lines) + 1
        first == NextTrack(lines, 0)
        tracks == TrackLines(lines)
    IN  [title |-> LastSaid(lines, "title", 0, first),
         performer |-> LastSaid(lines, "performer", 0, first),
         genre |-> LastSaid(lines, "genre", 0, end),
         date |-> LastSaid(lines, "date", 0, end),
         file |-> LastSaid(lines, "file", 0, end),
         tracks |-> [k \in 1 .. Cardinality(tracks) |-> TrackAt(lines, Nth(tracks, k))]]
=============================================================================

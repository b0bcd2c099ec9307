------------------------------ MODULE MCIntake ------------------------------
(***************************************************************************)
(* Instances of Intake for TLC: albums that differ in their cue sheet,     *)
(* albums that differ in their image, and two that a writer may change.    *)
(***************************************************************************)
EXTENDS Intake

CONSTANTS wav, flac, nameA, nameB, nameC, elsewhere

L(key, val) == [key |-> key, val |-> val]
Track(n, at) == <<L("track", n), L("title", n), L("index01", <<0, 0, at>>)>>

Plainly ==
    <<L("performer", nameA), L("title", nameB), L("file", wav)>> \o Track(1, 0)
        \o Track(2, 4) \o <<L("performer", nameC)>>

\* Lines in odd places, values that are missing or no numbers.
OddCues ==
    {<< >>,
     <<L("file", None), L("file", wav)>> \o Track(1, 0),
     <<L("index01", <<0, 0, 3>>), L("file", None), L("track", None)>> \o Track(1, 0),
     <<L("title", nameA), L("file", wav), L("title", None)>> \o Track(1, 2)
        \o <<L("index01", <<0, 0, 1>>), L("index01", None), L("date", nameB)>>
        \o Track(2, 1) \o <<L("genre", None), L("index00", <<0, 0, 9>>)>>,
     <<L("file", wav), L("track", Bad)>> \o Track(2, 3),
     <<L("file", wav)>> \o Track(1, 5) \o Track(2, 4),
     <<L("file", wav)>> \o Track(1, 0) \o <<L("track", 2), L("index01", <<0, 60, 0>>)>>,
     <<L("file", wav)>> \o Track(1, 0) \o <<L("track", 2), L("title", nameA)>>,
     <<L("file", wav)>> \o Track(1, 0) \o Track(2, 74) \o Track(3, 75),
     <<L("file", wav)>> \o Track(2, 0) \o Track(1, 10),
     Track(1, 0) \o <<L("file", flac)>>}

C(id, size) == [id |-> id, size |-> size, pcm |-> TRUE, rate |-> 75, align |-> 2]
Fmt == C("fmt", 16)
Data == C("data", 20)

Image0(chunks) ==
    [chunks |-> chunks, riff |-> EndOf(chunks), end |-> EndOf(chunks),
     mtime |-> 1, audio |-> 1]

OddImages ==
    {Image0(chunks) : chunks \in
        {<<Fmt, C("LIST", 5), Data>>, <<C("LIST", 5), C("fmt", 17), C("id3", 0), Data>>,
         <<Data, C("LIST", 1), Fmt>>, <<Fmt, Data, C("LIST", 3)>>, <<Fmt, Fmt, Data>>,
         <<Fmt, Data, Data>>, <<Fmt>>, <<Data>>, << >>, <<Fmt, C("data", 21)>>,
         <<C("data", 21), Fmt>>, <<Fmt, C("data", 0)>>, <<C("fmt", 14), Data>>,
         <<[Fmt EXCEPT !.pcm = FALSE], Data>>, <<[Fmt EXCEPT !.rate = 0], Data>>,
         <<[Fmt EXCEPT !.align = 0], Data>>, <<[Fmt EXCEPT !.rate = 150], Data>>}}
    \cup {[Image0(<<Fmt, Data, C("LIST", 4)>>) EXCEPT !.riff = r] :
            r \in {0, 12, 40, 63, 64, 65, 76, 77, 1000}}

Growing(image) == [image EXCEPT !.end = 50]

Of(cue, files) == [second |-> FALSE, cue |-> cue, files |-> files]

MCAlbums ==
    {Of(cue, wav :> Image0(<<Fmt, Data>>)) : cue \in OddCues}
    \cup {Of(Plainly, wav :> image) : image \in OddImages}
    \cup {Of(Plainly, wav :> Growing(Image0(<<Fmt, Data>>))),
          Of(Tail(Plainly), wav :> Image0(<<Fmt, Data>>)),
          Of(Track(1, 0) \o Track(2, 4),
             wav :> Image0(<<Fmt, Data>>) @@ flac :> Image0(<<Fmt, Data>>)),
          Of(<<L("file", flac)>> \o Track(1, 0),
             wav :> Image0(<<Fmt, Data>>) @@ flac :> Growing(Image0(<<Fmt, Data>>)))}

MCNames == {wav, flac}
MCLayouts == {a.files[n].chunks : a \in MCAlbums, n \in {wav}}
MCEdits == {Plainly, <<L("file", wav)>> \o Track(1, 0)}
MCCues == MCEdits \cup {a.cue : a \in MCAlbums}

Path(self, parent, kind, extension) ==
    [self |-> self, parent |-> parent, kind |-> kind, extension |-> extension]
MCWavNames == {wav}

InAlbum(kind) == Path(nameA, Album, kind, TRUE)
TheAlbum(kind) == Path(Album, elsewhere, kind, FALSE)

E(test, held) == [test |-> test, held |-> held]

MCEvents ==
    {E(TRUE, <<"top", "path">> :> <<TheAlbum("directory")>>),
     E(FALSE, <<"top", "path">> :> <<TheAlbum("directory")>>),
     E(FALSE, <<"top", "path">> :> <<None>> @@ <<"env", "path">> :> <<InAlbum("file")>>),
     E(FALSE, <<"top", "Lidarr_AddedTrackPaths">> :> <<None, InAlbum("nothing")>>),
     E(FALSE, <<"trackFiles", "path">> :> <<InAlbum("file")>>
              @@ <<"environment", "DownloadPath">> :> <<Path(elsewhere, nameC, "directory", FALSE)>>),
     E(FALSE, <<"environment", "lidarr_release_path">> :> <<TheAlbum("nothing")>>),
     E(FALSE, <<"top", "Lidarr_AddedTrackPaths">> :> <<None, None>>)}

MCSymmetry == Permutations(Scans)
=============================================================================

------------------------------ MODULE WavFile -------------------------------
(***************************************************************************)
(* A WAV image and how its length is measured.                             *)
(*                                                                         *)
(*   internal/adapters/audio/wavduration/wav.go                            *)
(*                                                                         *)
(* A file is a sequence of chunks behind a header of 12 bytes, the end     *)
(* that the header declares, and its real length, which is smaller while   *)
(* the file is being written.  A chunk takes 8 bytes and its size, and a   *)
(* byte more when the size is odd.  Reading at a place where no chunk      *)
(* begins yields nothing that makes sense.                                 *)
(***************************************************************************)
EXTENDS CueSheet

HeaderSize == 12
ChunkHeader == 8

\* What the code takes from a chunk; the last three are of "fmt".
Chunk == [id : STRING, size : Nat, pcm : BOOLEAN, rate : Int, align : Int]

ASSUME FormatAssumption == None \notin [rate : Int, align : Int]

Room(c) == ChunkHeader + c.size + (c.size % 2)

\* Where the chunks begin; the last number is where they end.
Places(chunks) ==
    LET rooms == [i \in DOMAIN chunks |-> Room(chunks[i])]
    IN  [i \in 1 .. Len(chunks) + 1 |-> HeaderSize + Sums(rooms)[i - 1]]

EndOf(chunks) == Places(chunks)[Len(chunks) + 1]

Measuring == [position |-> HeaderSize, format |-> None, data |-> None, result |-> None]

\* wavInfo, in frames
WavInfo(format, size) ==
    IF size % format.align # 0 THEN Bad
    ELSE ((size \div format.align) * 75) \div format.rate

\* A bug: the byte that fills up an odd chunk is not skipped.
SkippedUnfilled(position, c) == position + ChunkHeader + c.size

Skipped(position, c) == position + Room(c)

\* One turn of the loop: the chunk at the position.
ReadChunk(s, c, place, riff) ==
    LET next == Skipped(s.position, c)
    IN  IF s.result # None \/ s.position = riff THEN s
        ELSE IF s.position + ChunkHeader > riff \/ s.position # place \/ next > riff
        THEN [s EXCEPT !.result = Bad]
        ELSE CASE c.id = "fmt" ->
                    IF c.size < 16 \/ ~c.pcm \/ c.rate <= 0 \/ c.align <= 0
                    THEN [s EXCEPT !.result = Bad]
                    ELSE [position |-> next, format |-> [rate |-> c.rate, align |-> c.align],
                          data |-> s.data, result |-> None]
               [] c.id = "data" ->
                    IF s.format # None
                    THEN [s EXCEPT !.result = WavInfo(s.format, c.size)]
                    ELSE [position |-> next, format |-> None, data |-> c.size,
                          result |-> None]
               [] OTHER -> [s EXCEPT !.position = next]

\* What is known behind each chunk.
Measures(f) ==
    LET places == Places(f.chunks)
        turn[i \in 0 .. Len(f.chunks)] ==
            IF i = 0 THEN Measuring
            ELSE ReadChunk(turn[i - 1], f.chunks[i], places[i], f.riff)
    IN  turn

\* The duration of a file, or Bad.
Inspect(f) ==
    LET s == Measures(f)[Len(f.chunks)]
    IN  IF f.end < HeaderSize \/ f.riff < HeaderSize \/ f.riff > f.end THEN Bad
        ELSE IF s.result # None THEN s.result
        ELSE IF s.position # f.riff \/ s.format = None \/ s.data = None THEN Bad
        ELSE WavInfo(s.format, s.data)

----------------------------------------------------------------------------
(* The reference: the length of a file that is whole.                      *)

Only(f, id) == CHOOSE c \in ToSet(f.chunks) : c.id = id
Count(f, id) == Cardinality({i \in DOMAIN f.chunks : f.chunks[i].id = id})

Whole(f) == f.riff = EndOf(f.chunks) /\ f.riff <= f.end

Plain(f) ==
    /\ Count(f, "fmt") = 1 /\ Count(f, "data") = 1
    /\ LET c == Only(f, "fmt") IN c.size >= 16 /\ c.pcm /\ c.rate > 0 /\ c.align > 0
    /\ Only(f, "data").size % Only(f, "fmt").align = 0

DurationOf(f) ==
    LET c == Only(f, "fmt")
    IN  ((Only(f, "data").size \div c.align) * 75) \div c.rate
=============================================================================

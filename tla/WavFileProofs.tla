--------------------------- MODULE WavFileProofs ----------------------------
(***************************************************************************)
(* What the chunk loop measures, for every file.                           *)
(*                                                                         *)
(* Behind every chunk that lies before the declared end the loop stands    *)
(* where the next one begins, and knows the format and the size of the     *)
(* audio when it has passed their chunks.                                  *)
(***************************************************************************)
EXTENDS WavFile, CueSheetProofs

----------------------------------------------------------------------------
(* The operators.                                                          *)

LEMMA RoomOf ==
    ASSUME NEW c \in Chunk
    PROVE  Room(c) \in Nat /\ Room(c) >= ChunkHeader + c.size /\ c.size \in Nat
<1>1. c.size \in Nat
  BY DEF Chunk
<1>2. \A k \in Nat : k % 2 \in Nat
  OBVIOUS
<1> QED
  BY <1>1, <1>2 DEF Room, ChunkHeader

\* A chunk ends where the next one begins.
LEMMA PlacesStep ==
    ASSUME NEW chunks \in Seq(Chunk)
    PROVE  /\ Len(chunks) \in Nat /\ DOMAIN chunks = 1 .. Len(chunks)
           /\ Places(chunks)[1] = HeaderSize
           /\ \A i \in 1 .. Len(chunks) + 1 : Places(chunks)[i] \in Int
           /\ \A i \in 1 .. Len(chunks) :
                Places(chunks)[i + 1] = Places(chunks)[i] + Room(chunks[i])
<1> DEFINE n == Len(chunks)
           rooms == [i \in DOMAIN chunks |-> Room(chunks[i])]
<1>1. n \in Nat /\ DOMAIN chunks = 1 .. n /\ \A i \in 1 .. n : chunks[i] \in Chunk
  OBVIOUS
<1>2. rooms \in Seq(Int) /\ Len(rooms) = n /\ \A i \in 1 .. n : rooms[i] = Room(chunks[i])
  <2>1. \A i \in 1 .. n : Room(chunks[i]) \in Int
    BY <1>1, RoomOf
  <2> QED
    BY <1>1, <2>1
<1>3. \A i \in 1 .. n + 1 : Places(chunks)[i] = HeaderSize + Sums(rooms)[i - 1]
  BY DEF Places
<1> HIDE DEF rooms
<1>4. /\ Sums(rooms)[0] = 0 /\ \A i \in 0 .. n : Sums(rooms)[i] \in Int
      /\ \A i \in 1 .. n : Sums(rooms)[i] = Sums(rooms)[i - 1] + Room(chunks[i])
  <2>1. /\ Sums(rooms)[0] = 0
        /\ \A i \in 0 .. Len(rooms) : Sums(rooms)[i] \in Int
        /\ \A i \in 1 .. Len(rooms) : Sums(rooms)[i] = Sums(rooms)[i - 1] + rooms[i]
    BY <1>2, SumsStep
  <2> QED
    BY <1>2, <2>1
<1>5. Places(chunks)[1] = HeaderSize
  BY <1>1, <1>3, <1>4 DEF HeaderSize
<1>6. \A i \in 1 .. n + 1 : Places(chunks)[i] \in Int
  <2>1. \A i \in 1 .. n + 1 : i - 1 \in 0 .. n
    BY <1>1
  <2> QED
    BY <1>3, <1>4, <2>1 DEF HeaderSize
<1>7. ASSUME NEW i \in 1 .. n
      PROVE  Places(chunks)[i + 1] = Places(chunks)[i] + Room(chunks[i])
  <2>1. i \in 1 .. n + 1 /\ i + 1 \in 1 .. n + 1 /\ (i + 1) - 1 = i
        /\ i - 1 \in 0 .. n /\ i \in 0 .. n
    BY <1>1
  <2>2. Places(chunks)[i] = HeaderSize + Sums(rooms)[i - 1]
    BY <1>3, <2>1
  <2>3. Places(chunks)[i + 1] = HeaderSize + Sums(rooms)[i]
    BY <1>3, <2>1
  <2>4. /\ Sums(rooms)[i - 1] \in Int /\ Sums(rooms)[i] = Sums(rooms)[i - 1] + Room(chunks[i])
        /\ Room(chunks[i]) \in Nat
    BY <1>1, <1>4, <2>1, RoomOf
  <2> QED
    BY <2>2, <2>3, <2>4 DEF HeaderSize
<1> QED
  BY <1>1, <1>5, <1>6, <1>7

\* Every chunk takes its room behind the ones before it.
LEMMA PlacesGrow ==
    ASSUME NEW chunks \in Seq(Chunk), NEW i \in 1 .. Len(chunks) + 1
    PROVE  \A j \in 1 .. Len(chunks) + 1 : i < j =>
                Places(chunks)[i] + ChunkHeader <= Places(chunks)[j]
<1> DEFINE n == Len(chunks)
           P == Places(chunks)
           T == {k \in Nat : i + k + 1 \in 1 .. n + 1 =>
                                P[i] + ChunkHeader <= P[i + k + 1]}
<1>1. n \in Nat
  OBVIOUS
<1>2. \A k \in 1 .. n : /\ P[k] \in Int /\ P[k + 1] \in Int
                        /\ P[k] + ChunkHeader <= P[k + 1]
  <2>1. ASSUME NEW k \in 1 .. n
        PROVE  /\ P[k] \in Int /\ P[k + 1] = P[k] + Room(chunks[k])
               /\ Room(chunks[k]) \in Nat /\ Room(chunks[k]) >= ChunkHeader
    <3>1. chunks[k] \in Chunk
      OBVIOUS
    <3>2. Room(chunks[k]) \in Nat /\ Room(chunks[k]) >= ChunkHeader
      BY <3>1, RoomOf DEF ChunkHeader
    <3>3. k \in 1 .. n + 1
      BY <1>1
    <3> QED
      BY <3>2, <3>3, PlacesStep
  <2> QED
    BY <2>1 DEF ChunkHeader
<1>3. 0 \in T
  BY <1>1, <1>2
<1>4. ASSUME NEW k \in Nat, k \in T
      PROVE  k + 1 \in T
  <2> SUFFICES ASSUME i + (k + 1) + 1 \in 1 .. n + 1
               PROVE  P[i] + ChunkHeader <= P[i + (k + 1) + 1]
    OBVIOUS
  <2>1. /\ i + k + 1 \in 1 .. n /\ i + k + 1 \in 1 .. n + 1 /\ i \in 1 .. n
        /\ i + (k + 1) + 1 = (i + k + 1) + 1
    BY <1>1
  <2> HIDE DEF P
  <2>2. P[i] \in Int /\ P[i + k + 1] \in Int /\ P[(i + k + 1) + 1] \in Int
        /\ P[i + k + 1] + ChunkHeader <= P[(i + k + 1) + 1]
    BY <1>2, <2>1
  <2>3. P[i] + ChunkHeader <= P[i + k + 1]
    BY <1>4, <2>1
  <2> QED
    BY <2>1, <2>2, <2>3 DEF ChunkHeader
<1> HIDE DEF T
<1>5. \A k \in Nat : k \in T
  BY <1>3, <1>4, Induction
<1> SUFFICES ASSUME NEW j \in 1 .. n + 1, i < j
             PROVE  P[i] + ChunkHeader <= P[j]
  OBVIOUS
<1>6. j - i - 1 \in Nat /\ i + (j - i - 1) + 1 = j
  BY <1>1
<1> QED
  BY <1>5, <1>6 DEF T

LEMMA MeasuresAre ==
    ASSUME NEW f, Len(f.chunks) \in Nat
    PROVE  Measures(f) =
                [i \in 0 .. Len(f.chunks) |->
                    IF i = 0 THEN Measuring
                    ELSE ReadChunk(Measures(f)[i - 1], f.chunks[i],
                                   Places(f.chunks)[i], f.riff)]
<1> DEFINE Turn(s, i) == ReadChunk(s, f.chunks[i], Places(f.chunks)[i], f.riff)
           Run(n, g) == g = [i \in 0 .. n |-> IF i = 0 THEN Measuring ELSE Turn(g[i - 1], i)]
           T == {n \in Nat : \E g : Run(n, g)}
<1>5. Measures(f) = CHOOSE g : Run(Len(f.chunks), g)
  BY DEF Measures
<1> HIDE DEF Turn
<1>1. 0 \in T
  <2>1. Run(0, [i \in 0 .. 0 |-> Measuring])
    OBVIOUS
  <2> QED
    BY <2>1
<1>2. ASSUME NEW n \in Nat, n \in T
      PROVE  n + 1 \in T
  <2>1. PICK g : Run(n, g)
    BY <1>2
  <2> DEFINE h == [i \in 0 .. n + 1 |-> IF i = n + 1 THEN Turn(g[n], n + 1) ELSE g[i]]
  <2>2. ASSUME NEW i \in 0 .. n + 1
        PROVE  h[i] = IF i = 0 THEN Measuring ELSE Turn(h[i - 1], i)
    <3>1. CASE i = n + 1
      BY <3>1
    <3>2. CASE i = 0
      BY <2>1, <3>2
    <3>3. CASE i \in 1 .. n
      <4>1. h[i] = g[i] /\ h[i - 1] = g[i - 1]
        BY <3>3
      <4>2. g[i] = Turn(g[i - 1], i)
        BY <2>1, <3>3
      <4> QED
        BY <3>3, <4>1, <4>2
    <3> QED
      BY <3>1, <3>2, <3>3
  <2>3. Run(n + 1, h)
    BY <2>2
  <2> HIDE DEF Run, h
  <2> QED
    BY <2>3
<1> HIDE DEF T
<1>3. Len(f.chunks) \in T
  BY <1>1, <1>2, Induction
<1>4. \E g : Run(Len(f.chunks), g)
  BY <1>3 DEF T
<1> QED
  BY <1>4, <1>5 DEF Turn

\* What holds of a file before the loop and is kept by every turn holds after it.
LEMMA MeasuresStep ==
    ASSUME NEW f, f.chunks \in Seq(Chunk)
    PROVE  /\ Measures(f)[0] = Measuring
           /\ \A i \in 1 .. Len(f.chunks) :
                Measures(f)[i] = ReadChunk(Measures(f)[i - 1], f.chunks[i],
                                           Places(f.chunks)[i], f.riff)
<1>1. Len(f.chunks) \in Nat
  OBVIOUS
<1> QED
  BY <1>1, MeasuresAre

LEMMA OnlyIs ==
    ASSUME NEW f, f.chunks \in Seq(Chunk), NEW id, Count(f, id) = 1
    PROVE  \E a \in 1 .. Len(f.chunks) :
                /\ f.chunks[a].id = id /\ Only(f, id) = f.chunks[a]
                /\ \A i \in 1 .. Len(f.chunks) : f.chunks[i].id = id => i = a
<1> DEFINE n == Len(f.chunks)
           T == {i \in 1 .. n : f.chunks[i].id = id}
<1>1. n \in Nat /\ DOMAIN f.chunks = 1 .. n
  OBVIOUS
<1>2. IsFiniteSet(T) /\ Cardinality(T) = 1
  <2>1. IsFiniteSet(1 .. n)
    BY <1>1, FS_Interval
  <2> QED
    BY <1>1, <2>1, FS_Subset DEF Count
<1>3. PICK a : T = {a}
  BY <1>2, FS_Singleton
<1>4. ToSet(f.chunks) = {f.chunks[i] : i \in 1 .. n}
  BY <1>1 DEF ToSet
<1>5. a \in 1 .. n /\ f.chunks[a].id = id /\ \A i \in 1 .. n : f.chunks[i].id = id => i = a
  BY <1>3
<1>6. f.chunks[a] \in ToSet(f.chunks)
      /\ \A c \in ToSet(f.chunks) : c.id = id => c = f.chunks[a]
  BY <1>4, <1>5
<1>7. Only(f, id) = f.chunks[a]
  BY <1>5, <1>6 DEF Only
<1> QED
  BY <1>5, <1>7
----------------------------------------------------------------------------
(* One turn of the loop.                                                   *)

Fields == {"position", "format", "data", "result"}

\* The loop stops, passes over the chunk, or knows more behind it.
LEMMA TurnIs ==
    ASSUME NEW s, DOMAIN s = Fields, NEW c, NEW place, NEW riff
    PROVE  LET t == ReadChunk(s, c, place, riff)
               behind == Skipped(s.position, c)
               refused == \/ s.position + ChunkHeader > riff
                          \/ s.position # place
                          \/ behind > riff
               broken == c.size < 16 \/ ~c.pcm \/ c.rate <= 0 \/ c.align <= 0
           IN  /\ DOMAIN t = Fields
               /\ s.result # None \/ s.position = riff => t = s
               /\ ~(s.result # None \/ s.position = riff) =>
                    /\ refused => /\ t.result = Bad /\ t.format = s.format
                                  /\ t.data = s.data
                    /\ ~refused /\ c.id = "fmt" /\ broken =>
                            /\ t.result = Bad /\ t.format = s.format /\ t.data = s.data
                    /\ ~refused /\ c.id = "fmt" /\ ~broken =>
                            /\ t.result = None /\ t.data = s.data /\ t.position = behind
                            /\ t.format = [rate |-> c.rate, align |-> c.align]
                    /\ ~refused /\ c.id = "data" /\ s.format # None =>
                            /\ t.result = WavInfo(s.format, c.size)
                            /\ t.format = s.format /\ t.data = s.data
                    /\ ~refused /\ c.id = "data" /\ s.format = None =>
                            /\ t.result = None /\ t.format = None /\ t.data = c.size
                            /\ t.position = behind
                    /\ ~refused /\ c.id \notin {"fmt", "data"} =>
                            /\ t.result = s.result /\ t.format = s.format
                            /\ t.data = s.data /\ t.position = behind
<1> DEFINE t == ReadChunk(s, c, place, riff)
           behind == Skipped(s.position, c)
           refused == \/ s.position + ChunkHeader > riff
                      \/ s.position # place
                      \/ behind > riff
           broken == c.size < 16 \/ ~c.pcm \/ c.rate <= 0 \/ c.align <= 0
           ends == s.result # None \/ s.position = riff
<1>1. CASE ends
  BY <1>1 DEF ReadChunk
<1>2. ASSUME t = [s EXCEPT !.result = Bad]
      PROVE  /\ DOMAIN t = Fields /\ t.result = Bad /\ t.format = s.format
             /\ t.data = s.data
  BY <1>2 DEF Fields
<1>3. CASE ~ends /\ refused
  <2>1. t = [s EXCEPT !.result = Bad]
    BY <1>3 DEF ReadChunk
  <2> QED
    BY <1>2, <1>3, <2>1
<1>4. CASE ~ends /\ ~refused /\ c.id = "fmt" /\ broken
  <2>1. t = [s EXCEPT !.result = Bad]
    BY <1>4 DEF ReadChunk
  <2> QED
    BY <1>2, <1>4, <2>1
<1>5. CASE ~ends /\ ~refused /\ c.id = "fmt" /\ ~broken
  <2>1. t = [position |-> behind, format |-> [rate |-> c.rate, align |-> c.align],
             data |-> s.data, result |-> None]
    BY <1>5 DEF ReadChunk
  <2> QED
    BY <1>5, <2>1 DEF Fields
<1>6. CASE ~ends /\ ~refused /\ c.id = "data" /\ s.format # None
  <2>1. t = [s EXCEPT !.result = WavInfo(s.format, c.size)]
    BY <1>6 DEF ReadChunk
  <2> QED
    BY <1>6, <2>1 DEF Fields
<1>7. CASE ~ends /\ ~refused /\ c.id = "data" /\ s.format = None
  <2>1. t = [position |-> behind, format |-> None, data |-> c.size, result |-> None]
    BY <1>7 DEF ReadChunk
  <2> QED
    BY <1>7, <2>1 DEF Fields
<1>8. CASE ~ends /\ ~refused /\ c.id \notin {"fmt", "data"}
  <2>1. t = [s EXCEPT !.position = behind]
    BY <1>8 DEF ReadChunk
  <2> QED
    BY <1>8, <2>1 DEF Fields
<1> QED
  BY <1>1, <1>3, <1>4, <1>5, <1>6, <1>7, <1>8

\* What a turn can come to.
TurnsTo(s, c, place, riff, t) ==
    /\ DOMAIN t = Fields
    /\ \/ t = s
       \/ t.result = Bad /\ t.format = s.format /\ t.data = s.data
       \/ /\ c.id = "fmt" /\ t.result = None /\ t.data = s.data
          /\ t.format = [rate |-> c.rate, align |-> c.align]
       \/ /\ c.id = "data" /\ s.position = place /\ ~(Skipped(s.position, c) > riff)
          /\ \/ /\ s.format # None /\ t.result = WavInfo(s.format, c.size)
                /\ t.format = s.format /\ t.data = s.data
             \/ t.result = None /\ t.format = None /\ t.data = c.size
       \/ t.result = s.result /\ t.format = s.format /\ t.data = s.data

LEMMA Turns ==
    ASSUME NEW s, DOMAIN s = Fields, NEW c, NEW place, NEW riff
    PROVE  TurnsTo(s, c, place, riff, ReadChunk(s, c, place, riff))
BY TurnIs DEF TurnsTo

----------------------------------------------------------------------------
(* No length without audio.                                                *)

\* The audio that is declared lies in one of the first i chunks, before riff.
Audio(f, i) ==
    \E j \in 1 .. i : f.chunks[j].id = "data" /\ Places(f.chunks)[j + 1] <= f.riff

Backed(f, s, i) ==
    /\ DOMAIN s = Fields
    /\ s.data # None => Audio(f, i)
    /\ s.result \notin {None, Bad} => Audio(f, i)

LEMMA TurnIsBacked ==
    ASSUME NEW f, f.chunks \in Seq(Chunk), f.riff \in Nat, NEW i \in 1 .. Len(f.chunks),
           NEW s, Backed(f, s, i - 1)
    PROVE  Backed(f, ReadChunk(s, f.chunks[i], Places(f.chunks)[i], f.riff), i)
<1> DEFINE c == f.chunks[i]
           place == Places(f.chunks)[i]
           t == ReadChunk(s, c, place, f.riff)
<1>1. Audio(f, i - 1) => Audio(f, i)
  BY DEF Audio
<1>2. DOMAIN s = Fields
  BY DEF Backed
<1>3. ASSUME s.position = place, ~(Skipped(s.position, c) > f.riff), c.id = "data"
      PROVE  Audio(f, i)
  <2>1. Places(f.chunks)[i + 1] = place + Room(c) /\ i \in 1 .. i
        /\ Places(f.chunks)[i + 1] \in Int
    BY PlacesStep
  <2>2. Places(f.chunks)[i + 1] <= f.riff
    BY <1>3, <2>1 DEF Skipped
  <2> QED
    BY <1>3, <2>1, <2>2 DEF Audio
<1>4. /\ DOMAIN t = Fields
      /\ \/ t = s
         \/ t.result = Bad /\ t.format = s.format /\ t.data = s.data
         \/ t.result = None /\ t.data = s.data
         \/ Audio(f, i)
         \/ t.result = s.result /\ t.format = s.format /\ t.data = s.data
  <2>1. TurnsTo(s, c, place, f.riff, t)
    BY <1>2, Turns
  <2> HIDE DEF c, place, t
  <2> QED
    BY <1>3, <2>1 DEF TurnsTo
<1>5. Backed(f, t, i)
  <2> HIDE DEF t
  <2> QED
    BY <1>1, <1>4 DEF Backed
<1> QED
  BY <1>5

(***************************************************************************)
(* Inspect gives no duration to a file in which the audio that its headers *)
(* declare is not all there: where it gives one, a data chunk ends before  *)
(* the end of the file.                                                    *)
(***************************************************************************)
THEOREM NoLengthWithoutAudio ==
    ASSUME NEW f, f.chunks \in Seq(Chunk), f.riff \in Nat, f.end \in Nat, Inspect(f) # Bad
    PROVE  \E j \in 1 .. Len(f.chunks) :
                f.chunks[j].id = "data" /\ Places(f.chunks)[j + 1] <= f.end
<1> DEFINE n == Len(f.chunks)
           T == {i \in Nat : i <= n => Backed(f, Measures(f)[i], i)}
<1>1. n \in Nat
  OBVIOUS
<1>2. 0 \in T
  <2>1. Backed(f, Measuring, 0)
    BY DEF Backed, Measuring, Fields
  <2> QED
    BY <2>1, MeasuresStep
<1>3. ASSUME NEW i \in Nat, i \in T
      PROVE  i + 1 \in T
  <2> SUFFICES ASSUME i + 1 <= n PROVE Backed(f, Measures(f)[i + 1], i + 1)
    OBVIOUS
  <2>1. i + 1 \in 1 .. n /\ (i + 1) - 1 = i /\ Backed(f, Measures(f)[i], i)
    BY <1>1, <1>3
  <2>2. Measures(f)[i + 1] = ReadChunk(Measures(f)[i], f.chunks[i + 1],
                                       Places(f.chunks)[i + 1], f.riff)
    BY <2>1, MeasuresStep
  <2> QED
    BY <2>1, <2>2, TurnIsBacked
<1> HIDE DEF T
<1>4. n \in T
  BY <1>1, <1>2, <1>3, Induction
<1>5. Backed(f, Measures(f)[n], n)
  BY <1>1, <1>4 DEF T
<1>6. f.riff <= f.end /\ Audio(f, n)
  BY <1>5 DEF Inspect, Backed
<1>7. PICK j \in 1 .. n : f.chunks[j].id = "data" /\ Places(f.chunks)[j + 1] <= f.riff
  BY <1>6 DEF Audio
<1>8. Places(f.chunks)[j + 1] \in Int
  <2>1. j + 1 \in 1 .. n + 1
    BY <1>1
  <2> QED
    BY <2>1, PlacesStep
<1> QED
  BY <1>6, <1>7, <1>8

----------------------------------------------------------------------------
(* One length, and the right one.                                          *)

Format(f) == [rate |-> Only(f, "fmt").rate, align |-> Only(f, "fmt").align]

LEMMA LengthOfPlain ==
    ASSUME NEW f, f.chunks \in Seq(Chunk), Plain(f)
    PROVE  /\ WavInfo(Format(f), Only(f, "data").size) = DurationOf(f)
           /\ DurationOf(f) \in Nat
<1>1. Only(f, "fmt") \in Chunk /\ Only(f, "data") \in Chunk
  <2>1. Count(f, "fmt") = 1 /\ Count(f, "data") = 1
    BY DEF Plain
  <2> QED
    BY <2>1, OnlyIs
<1> DEFINE c == Only(f, "fmt")
           size == Only(f, "data").size
<1>2. c.rate \in Nat \ {0} /\ c.align \in Nat \ {0} /\ size \in Nat /\ size % c.align = 0
  BY <1>1 DEF Plain, Chunk
<1>3. Format(f).rate = c.rate /\ Format(f).align = c.align
  BY DEF Format
<1>4. DurationOf(f) = ((size \div c.align) * 75) \div c.rate
  BY DEF DurationOf
<1>5. WavInfo(Format(f), size) = ((size \div c.align) * 75) \div c.rate
  BY <1>2, <1>3 DEF WavInfo
<1> HIDE DEF c, size
<1>6. \A a \in Nat, b \in Nat \ {0} : a \div b \in Nat
  OBVIOUS
<1>7. ((size \div c.align) * 75) \div c.rate \in Nat
  <2>1. size \div c.align \in Nat
    BY <1>2, <1>6
  <2>2. (size \div c.align) * 75 \in Nat
    BY <2>1
  <2> QED
    BY <1>2, <1>6, <2>2
<1> QED
  BY <1>4, <1>5, <1>7 DEF size

Right(f, s) ==
    /\ DOMAIN s = Fields
    /\ s.format \in {None, Format(f)}
    /\ s.data \in {None, Only(f, "data").size}
    /\ s.result \in {None, Bad, DurationOf(f)}

LEMMA TurnIsRight ==
    ASSUME NEW f, f.chunks \in Seq(Chunk), Plain(f),
           NEW i \in 1 .. Len(f.chunks), NEW s, Right(f, s)
    PROVE  Right(f, ReadChunk(s, f.chunks[i], Places(f.chunks)[i], f.riff))
<1> DEFINE c == f.chunks[i]
           place == Places(f.chunks)[i]
<1>1. DOMAIN s = Fields
  BY DEF Right
<1>2. c.id = "fmt" => [rate |-> c.rate, align |-> c.align] = Format(f)
  BY OnlyIs DEF Plain, Format
<1>3. c.id = "data" => c.size = Only(f, "data").size
  BY OnlyIs DEF Plain
<1>4. WavInfo(Format(f), Only(f, "data").size) = DurationOf(f)
  BY LengthOfPlain
<1> DEFINE t == ReadChunk(s, c, place, f.riff)
<1>5. /\ DOMAIN t = Fields
      /\ \/ t = s
         \/ t.result = Bad /\ t.format = s.format /\ t.data = s.data
         \/ t.result = None /\ t.data = s.data /\ t.format = Format(f)
         \/ /\ t.result = WavInfo(s.format, Only(f, "data").size) /\ s.format # None
            /\ t.format = s.format /\ t.data = s.data
         \/ t.result = None /\ t.format = None /\ t.data = Only(f, "data").size
         \/ t.result = s.result /\ t.format = s.format /\ t.data = s.data
  <2>1. TurnsTo(s, c, place, f.riff, t)
    BY <1>1, Turns
  <2> HIDE DEF c, place, t
  <2> QED
    BY <1>2, <1>3, <2>1 DEF TurnsTo
<1>6. Right(f, t)
  <2> HIDE DEF t
  <2> QED
    BY <1>4, <1>5 DEF Right
<1> QED
  BY <1>6

LEMMA LoopIsRight ==
    ASSUME NEW f, f.chunks \in Seq(Chunk), Plain(f)
    PROVE  Right(f, Measures(f)[Len(f.chunks)])
<1> DEFINE n == Len(f.chunks)
           T == {i \in Nat : i <= n => Right(f, Measures(f)[i])}
<1>1. n \in Nat
  OBVIOUS
<1>2. 0 \in T
  <2>1. Right(f, Measuring)
    BY DEF Right, Measuring, Fields
  <2> QED
    BY <2>1, MeasuresStep
<1>3. ASSUME NEW i \in Nat, i \in T
      PROVE  i + 1 \in T
  <2> SUFFICES ASSUME i + 1 <= n PROVE Right(f, Measures(f)[i + 1])
    OBVIOUS
  <2>1. i + 1 \in 1 .. n /\ (i + 1) - 1 = i /\ Right(f, Measures(f)[i])
    BY <1>1, <1>3
  <2>2. Measures(f)[i + 1] = ReadChunk(Measures(f)[i], f.chunks[i + 1],
                                       Places(f.chunks)[i + 1], f.riff)
    BY <2>1, MeasuresStep
  <2> QED
    BY <2>1, <2>2, TurnIsRight
<1> HIDE DEF T
<1>4. n \in T
  BY <1>1, <1>2, <1>3, Induction
<1> QED
  BY <1>1, <1>4 DEF T

(***************************************************************************)
(* A plain PCM image has one length: whatever is left of it on the disk,   *)
(* and whatever end it declares, Inspect gives that one or an error.       *)
(***************************************************************************)
THEOREM OneLength ==
    ASSUME NEW f, f.chunks \in Seq(Chunk), Plain(f)
    PROVE  Inspect(f) \in {Bad, DurationOf(f)}
<1> DEFINE s == Measures(f)[Len(f.chunks)]
<1>1. Right(f, s)
  BY LoopIsRight
<1>2. WavInfo(Format(f), Only(f, "data").size) = DurationOf(f)
  BY LengthOfPlain
<1>3. \/ Inspect(f) = Bad
      \/ s.result # None /\ Inspect(f) = s.result
      \/ s.result = None /\ s.format # None /\ s.data # None
         /\ Inspect(f) = WavInfo(s.format, s.data)
  BY DEF Inspect
<1> HIDE DEF s
<1> QED
  BY <1>1, <1>2, <1>3 DEF Right
----------------------------------------------------------------------------
(* A whole file.                                                           *)

\* Behind i chunks of a whole file, in which a is the format and b the audio.
Passing(f, s, i, a, b) ==
    /\ DOMAIN s = Fields
    /\ a < b /\ b <= i => s.result = DurationOf(f)
    /\ ~(a < b /\ b <= i) =>
        /\ s.result = None
        /\ s.position = Places(f.chunks)[i + 1]
        /\ s.format = IF a <= i THEN Format(f) ELSE None
        /\ s.data = IF b <= i THEN Only(f, "data").size ELSE None

LEMMA TurnPasses ==
    ASSUME NEW f, f.chunks \in Seq(Chunk), Plain(f), f.riff = EndOf(f.chunks),
           NEW a \in 1 .. Len(f.chunks), NEW b \in 1 .. Len(f.chunks),
           f.chunks[a].id = "fmt", f.chunks[b].id = "data",
           \A i \in 1 .. Len(f.chunks) : f.chunks[i].id = "fmt" => i = a,
           \A i \in 1 .. Len(f.chunks) : f.chunks[i].id = "data" => i = b,
           Only(f, "fmt") = f.chunks[a], Only(f, "data") = f.chunks[b],
           NEW i \in 1 .. Len(f.chunks), NEW s, Passing(f, s, i - 1, a, b)
    PROVE  Passing(f, ReadChunk(s, f.chunks[i], Places(f.chunks)[i], f.riff), i, a, b)
<1> DEFINE n == Len(f.chunks)
           c == f.chunks[i]
           place == Places(f.chunks)[i]
           behind == Places(f.chunks)[i + 1]
           size == Only(f, "data").size
           t == ReadChunk(s, c, place, f.riff)
<1> SUFFICES Passing(f, t, i, a, b)
  OBVIOUS
<1>1. n \in Nat /\ i \in 1 .. n + 1 /\ (i - 1) + 1 = i
  OBVIOUS
<1>2. /\ place \in Int /\ behind \in Int /\ f.riff \in Int
      /\ behind = place + Room(c) /\ place + ChunkHeader <= f.riff
      /\ behind <= f.riff /\ place # f.riff
  <2>1. i + 1 \in 1 .. n + 1 /\ n + 1 \in 1 .. n + 1 /\ i < n + 1
    BY <1>1
  <2>2. f.riff = Places(f.chunks)[n + 1]
    BY DEF EndOf
  <2>3. /\ place \in Int /\ behind \in Int /\ f.riff \in Int /\ behind = place + Room(c)
    BY <1>1, <2>1, <2>2, PlacesStep
  <2>4. place + ChunkHeader <= f.riff
    BY <1>1, <2>1, <2>2, PlacesGrow
  <2>5. behind <= f.riff
    <3>1. CASE i = n
      BY <2>2, <2>3, <3>1
    <3>2. CASE i + 1 < n + 1
      <4>1. behind + ChunkHeader <= f.riff
        BY <2>1, <2>2, <3>2, PlacesGrow
      <4> QED
        BY <2>3, <4>1 DEF ChunkHeader
    <3> QED
      BY <1>1, <3>1, <3>2
  <2> QED
    BY <2>3, <2>4, <2>5 DEF ChunkHeader
<1>3. /\ c.id = "fmt" <=> i = a
      /\ c.id = "data" <=> i = b
      /\ a # b
      /\ i = b => c.size = size
      /\ i = a => /\ [rate |-> c.rate, align |-> c.align] = Format(f)
                  /\ ~(c.size < 16 \/ ~c.pcm \/ c.rate <= 0 \/ c.align <= 0)
  <2>1. i = a => ~(c.size < 16 \/ ~c.pcm \/ c.rate <= 0 \/ c.align <= 0)
    <3>1. \A k \in 1 .. n : f.chunks[k] \in Chunk
      OBVIOUS
    <3>2. c.size \in Nat /\ c.rate \in Int /\ c.align \in Int
      BY <3>1 DEF Chunk
    <3>3. ASSUME i = a
          PROVE  c.size >= 16 /\ c.pcm /\ c.rate > 0 /\ c.align > 0
      BY <3>3 DEF Plain
    <3> QED
      BY <3>2, <3>3
  <2>2. a # b
    <3>1. "fmt" # "data"
      OBVIOUS
    <3> QED
      BY <3>1
  <2>3. i = b => c.size = size
    OBVIOUS
  <2>4. i = a => [rate |-> c.rate, align |-> c.align] = Format(f)
    BY DEF Format
  <2>5. (c.id = "fmt" <=> i = a) /\ (c.id = "data" <=> i = b)
    OBVIOUS
  <2> HIDE DEF c, size
  <2> QED
    BY <2>1, <2>2, <2>3, <2>4, <2>5
<1>4. WavInfo(Format(f), size) = DurationOf(f) /\ DurationOf(f) # None /\ Format(f) # None
  <2>1. WavInfo(Format(f), size) = DurationOf(f) /\ DurationOf(f) \in Nat
    BY LengthOfPlain
  <2>2. Format(f) \in [rate : Int, align : Int]
    <3>1. Only(f, "fmt") \in Chunk
      OBVIOUS
    <3> QED
      BY <3>1 DEF Format, Chunk
  <2> HIDE DEF size
  <2> QED
    BY <2>1, <2>2, MarksAssumption, FormatAssumption
<1>5. DOMAIN s = Fields /\ Skipped(place, c) = behind
  BY <1>2 DEF Passing, Skipped
<1>6. CASE a < b /\ b <= i - 1
  <2>1. s.result = DurationOf(f)
    BY <1>6 DEF Passing
  <2>2. t = s
    BY <1>4, <2>1 DEF ReadChunk
  <2> QED
    BY <1>1, <1>5, <1>6, <2>1, <2>2 DEF Passing
<1>7. CASE ~(a < b /\ b <= i - 1)
  <2>1. /\ s.result = None /\ s.position = place
        /\ s.format = IF a <= i - 1 THEN Format(f) ELSE None
        /\ s.data = IF b <= i - 1 THEN size ELSE None
    BY <1>1, <1>7 DEF Passing
  <2>2. /\ ~(s.result # None \/ s.position = f.riff)
        /\ ~(\/ s.position + ChunkHeader > f.riff
             \/ s.position # place
             \/ Skipped(s.position, c) > f.riff)
    BY <1>2, <1>5, <2>1 DEF ChunkHeader
  <2>3. /\ DOMAIN t = Fields
        /\ i = a => /\ t.result = None /\ t.data = s.data /\ t.position = behind
                    /\ t.format = Format(f)
        /\ i = b /\ s.format # None => t.result = DurationOf(f)
        /\ i = b /\ s.format = None => /\ t.result = None /\ t.format = None
                                       /\ t.data = size /\ t.position = behind
        /\ i # a /\ i # b => /\ t.result = None /\ t.format = s.format
                             /\ t.data = s.data /\ t.position = behind
    <3>1. /\ DOMAIN t = Fields
          /\ i = a => /\ t.result = None /\ t.data = s.data
                      /\ t.position = Skipped(s.position, c)
                      /\ t.format = [rate |-> c.rate, align |-> c.align]
          /\ i = b /\ s.format # None => t.result = WavInfo(s.format, c.size)
          /\ i = b /\ s.format = None => /\ t.result = None /\ t.format = None
                                         /\ t.data = c.size
                                         /\ t.position = Skipped(s.position, c)
          /\ i # a /\ i # b => /\ t.result = s.result /\ t.format = s.format
                               /\ t.data = s.data
                               /\ t.position = Skipped(s.position, c)
      BY <1>3, <1>5, <2>2, TurnIs
    <3> HIDE DEF t, c, size, behind, place
    <3>2. s.format # None => s.format = Format(f)
      BY <2>1
    <3> QED
      BY <1>3, <1>4, <1>5, <2>1, <3>1, <3>2
  <2> HIDE DEF t, size
  <2>4. i - 1 \in Int /\ a \in Int /\ b \in Int /\ i \in Int
    BY <1>1
  <2>5. a <= i - 1 <=> (a <= i /\ i # a)
    BY <2>4
  <2>6. b <= i - 1 <=> (b <= i /\ i # b)
    BY <2>4
  <2>7. CASE i = a
    <3>1. ~(a < b /\ b <= i) /\ a <= i /\ i # b
      BY <1>3, <2>4, <2>7
    <3> QED
      BY <2>1, <2>3, <2>6, <2>7, <3>1 DEF Passing, size
  <2>8. CASE i = b /\ a < b
    <3>1. a <= i - 1 /\ b <= i
      BY <2>4, <2>8
    <3> QED
      BY <1>4, <2>1, <2>3, <2>8, <3>1 DEF Passing
  <2>9. CASE i = b /\ ~(a < b)
    <3>1. ~(a <= i - 1) /\ ~(a <= i) /\ b <= i
      BY <1>3, <2>4, <2>9
    <3> QED
      BY <2>1, <2>3, <2>9, <3>1 DEF Passing, size
  <2>10. CASE i # a /\ i # b
    <3>1. ~(a < b /\ b <= i)
      BY <1>7, <2>6, <2>10
    <3> QED
      BY <2>1, <2>3, <2>5, <2>6, <2>10, <3>1 DEF Passing, size
  <2> QED
    BY <2>7, <2>8, <2>9, <2>10
<1> QED
  BY <1>6, <1>7

(***************************************************************************)
(* Inspect finds the duration of every whole plain PCM image: whatever     *)
(* other chunks there are, of whatever size, before, between and behind    *)
(* the two that count, and in whatever order these come.                   *)
(***************************************************************************)
THEOREM WholeFileIsMeasured ==
    ASSUME NEW f, f.chunks \in Seq(Chunk), f.end \in Nat, Whole(f), Plain(f)
    PROVE  Inspect(f) = DurationOf(f)
<1> DEFINE n == Len(f.chunks)
           P == Places(f.chunks)
<1>1. n \in Nat /\ f.riff = EndOf(f.chunks) /\ f.riff = P[n + 1]
  BY DEF Whole, EndOf
<1>2. PICK a \in 1 .. n : /\ f.chunks[a].id = "fmt" /\ Only(f, "fmt") = f.chunks[a]
                          /\ \A i \in 1 .. n : f.chunks[i].id = "fmt" => i = a
  BY OnlyIs DEF Plain
<1>3. PICK b \in 1 .. n : /\ f.chunks[b].id = "data" /\ Only(f, "data") = f.chunks[b]
                          /\ \A i \in 1 .. n : f.chunks[i].id = "data" => i = b
  BY OnlyIs DEF Plain
<1> DEFINE T == {i \in Nat : i <= n => Passing(f, Measures(f)[i], i, a, b)}
<1>4. 0 \in T
  <2>1. ~(b <= 0) /\ ~(a <= 0) /\ 0 + 1 = 1
    OBVIOUS
  <2>2. P[1] = HeaderSize
    BY PlacesStep
  <2>3. Passing(f, Measuring, 0, a, b)
    BY <2>1, <2>2 DEF Passing, Measuring, Fields
  <2> QED
    BY <2>3, MeasuresStep
<1>5. ASSUME NEW i \in Nat, i \in T
      PROVE  i + 1 \in T
  <2> SUFFICES ASSUME i + 1 <= n PROVE Passing(f, Measures(f)[i + 1], i + 1, a, b)
    OBVIOUS
  <2>1. i + 1 \in 1 .. n /\ (i + 1) - 1 = i /\ Passing(f, Measures(f)[i], i, a, b)
    BY <1>1, <1>5
  <2>2. Measures(f)[i + 1] = ReadChunk(Measures(f)[i], f.chunks[i + 1],
                                       Places(f.chunks)[i + 1], f.riff)
    BY <2>1, MeasuresStep
  <2>3. Passing(f, ReadChunk(Measures(f)[i], f.chunks[i + 1],
                             Places(f.chunks)[i + 1], f.riff), i + 1, a, b)
    BY <1>1, <1>2, <1>3, <2>1, TurnPasses
  <2> QED
    BY <2>2, <2>3
<1> HIDE DEF T
<1>6. n \in T
  BY <1>1, <1>4, <1>5, Induction
<1> DEFINE s == Measures(f)[n]
<1>7. Passing(f, s, n, a, b)
  BY <1>1, <1>6 DEF T
<1>8. ~(f.end < HeaderSize \/ f.riff < HeaderSize \/ f.riff > f.end)
  <2>1. P[1] = HeaderSize /\ 1 \in 1 .. n + 1 /\ n + 1 \in 1 .. n + 1 /\ 1 < n + 1
    BY <1>1, PlacesStep
  <2>2. P[n + 1] \in Int /\ P[1] + ChunkHeader <= P[n + 1]
    BY <2>1, PlacesStep, PlacesGrow
  <2>3. f.riff <= f.end
    BY DEF Whole
  <2> QED
    BY <1>1, <2>1, <2>2, <2>3 DEF HeaderSize, ChunkHeader
<1>9. /\ WavInfo(Format(f), Only(f, "data").size) = DurationOf(f)
       /\ DurationOf(f) # None /\ Format(f) # None /\ Only(f, "data").size # None
  <2>1. Format(f) \in [rate : Int, align : Int] /\ Only(f, "data").size \in Nat
    <3>1. Only(f, "fmt") \in Chunk /\ Only(f, "data") \in Chunk
      BY <1>2, <1>3
    <3> QED
      BY <3>1 DEF Format, Chunk
  <2>2. WavInfo(Format(f), Only(f, "data").size) = DurationOf(f) /\ DurationOf(f) \in Nat
    BY LengthOfPlain
  <2> QED
    BY <2>1, <2>2, MarksAssumption, FormatAssumption
<1> HIDE DEF s
<1>10. CASE a < b
  <2>1. b <= n
    OBVIOUS
  <2>2. s.result = DurationOf(f)
    BY <1>7, <1>10, <2>1 DEF Passing
  <2> QED
    BY <1>8, <1>9, <2>2 DEF Inspect, s
<1>11. CASE ~(a < b)
  <2>1. a <= n /\ b <= n
    OBVIOUS
  <2>2. /\ s.result = None /\ s.position = f.riff /\ s.format = Format(f)
        /\ s.data = Only(f, "data").size
    BY <1>1, <1>7, <1>11, <2>1 DEF Passing
  <2> QED
    BY <1>8, <1>9, <2>2 DEF Inspect, s
<1> QED
  BY <1>10, <1>11
=============================================================================

--------------------------- MODULE CueSheetProofs ---------------------------
(***************************************************************************)
(* What CueSheet computes for every cue sheet, however long it is.         *)
(*                                                                         *)
(* The reader is a loop over the lines.  What it knows behind n lines is   *)
(* what the first n lines say: that is the invariant of the loop, and it   *)
(* is proved by induction on n.  The induction is the least-number         *)
(* principle: of the numbers that a set of numbers lacks, one is the least.*)
(***************************************************************************)
EXTENDS CueSheet, FiniteSetTheorems, WellFoundedInduction, TLAPS

----------------------------------------------------------------------------
(* Numbers.                                                                *)

LEMMA LeastElement ==
    ASSUME NEW T, T \subseteq Nat, T # {}
    PROVE  \E x \in T : \A y \in T : x <= y
<1> DEFINE R == OpToRel(<, Nat)
<1>1. IsWellFoundedOn(R, Nat)
  BY NatLessThanWellFounded
<1>2. \A x, y \in Nat : x < y => <<x, y>> \in R
  BY DEF OpToRel
<1> HIDE DEF R
<1>3. PICK x \in T : \A y \in T : ~(<<y, x>> \in R)
  BY <1>1, WFMin
<1>4. ASSUME NEW y \in T
      PROVE  x <= y
  <2>1. x \in Nat /\ y \in Nat /\ ~(<<y, x>> \in R)
    BY <1>3
  <2> QED
    BY <1>2, <2>1
<1> QED
  BY <1>4

LEMMA Induction ==
    ASSUME NEW T, 0 \in T, \A n \in Nat : n \in T => n + 1 \in T
    PROVE  \A n \in Nat : n \in T
<1> SUFFICES ASSUME Nat \ T # {} PROVE FALSE
  OBVIOUS
<1>1. PICK x \in Nat \ T : \A y \in Nat \ T : x <= y
  BY LeastElement
<1>2. x # 0 /\ x - 1 \in Nat /\ (x - 1) + 1 = x /\ ~(x <= x - 1)
  BY <1>1
<1>3. x - 1 \in T
  BY <1>1, <1>2
<1> QED
  BY <1>2, <1>3

LEMMA LeastOf ==
    ASSUME NEW T, T \subseteq Nat, T # {}
    PROVE  Min(T) \in T /\ \A y \in T : Min(T) <= y
BY LeastElement DEF Min

LEMMA LeastIs ==
    ASSUME NEW T, T \subseteq Nat, NEW x \in T, \A y \in T : x <= y
    PROVE  Min(T) = x
<1>1. Min(T) \in T /\ Min(T) <= x /\ x <= Min(T)
  BY LeastOf
<1>2. Min(T) \in Nat /\ x \in Nat
  BY <1>1
<1> QED
  BY <1>1, <1>2

LEMMA GreatestIs ==
    ASSUME NEW T, T \subseteq Nat, NEW x \in T, \A y \in T : y <= x
    PROVE  Max(T) = x
<1>1. \A y \in T : x >= y
  OBVIOUS
<1>2. Max(T) \in T /\ \A y \in T : Max(T) >= y
  BY <1>1 DEF Max
<1>3. Max(T) \in Nat /\ x \in Nat /\ Max(T) >= x /\ x >= Max(T)
  BY <1>1, <1>2
<1> QED
  BY <1>3

\* A set of numbers that are small enough has a greatest one.
LEMMA GreatestOf ==
    ASSUME NEW n \in Nat, NEW T, T \subseteq 0 .. n, T # {}
    PROVE  Max(T) \in T /\ \A y \in T : y <= Max(T)
<1> DEFINE D == {n - y : y \in T}
<1>1. \A y \in T : y \in Int /\ n - y \in Nat
  <2>1. \A y \in T : y \in 0 .. n
    OBVIOUS
  <2> QED
    BY <2>1
<1>2. D \subseteq Nat /\ D # {}
  BY <1>1
<1>3. PICK d \in D : \A e \in D : d <= e
  BY <1>2, LeastElement
<1>4. PICK x \in T : d = n - x
  OBVIOUS
<1>5. ASSUME NEW y \in T
      PROVE  y <= x
  <2>1. n - y \in D
    OBVIOUS
  <2>2. n - x <= n - y /\ x \in Int /\ y \in Int
    BY <1>1, <1>3, <1>4, <2>1
  <2> QED
    BY <2>2
<1>6. T \subseteq Nat
  OBVIOUS
<1>7. Max(T) = x
  BY <1>5, <1>6, GreatestIs
<1> QED
  BY <1>5, <1>7

----------------------------------------------------------------------------
(* Running sums.                                                           *)

LEMMA SumsAre ==
    ASSUME NEW s, Len(s) \in Nat
    PROVE  Sums(s) = [i \in 0 .. Len(s) |-> IF i = 0 THEN 0 ELSE Sums(s)[i - 1] + s[i]]
<1> DEFINE Sum(n, g) == g = [i \in 0 .. n |-> IF i = 0 THEN 0 ELSE g[i - 1] + s[i]]
           T == {n \in Nat : \E g : Sum(n, g)}
<1>1. 0 \in T
  <2>1. Sum(0, [i \in 0 .. 0 |-> 0])
    OBVIOUS
  <2> QED
    BY <2>1
<1>2. ASSUME NEW n \in Nat, n \in T
      PROVE  n + 1 \in T
  <2>1. PICK g : Sum(n, g)
    BY <1>2
  <2> DEFINE h == [i \in 0 .. n + 1 |-> IF i = n + 1 THEN g[n] + s[n + 1] ELSE g[i]]
  <2>2. ASSUME NEW i \in 0 .. n + 1
        PROVE  h[i] = IF i = 0 THEN 0 ELSE h[i - 1] + s[i]
    <3>1. CASE i = n + 1
      BY <3>1
    <3>2. CASE i = 0
      BY <2>1, <3>2
    <3>3. CASE i \in 1 .. n
      <4>1. h[i] = g[i] /\ h[i - 1] = g[i - 1]
        BY <3>3
      <4>2. g[i] = g[i - 1] + s[i]
        BY <2>1, <3>3
      <4> QED
        BY <3>3, <4>1, <4>2
    <3> QED
      BY <3>1, <3>2, <3>3
  <2>3. Sum(n + 1, h)
    BY <2>2
  <2> HIDE DEF Sum, h
  <2> QED
    BY <2>3
<1> HIDE DEF T
<1>3. Len(s) \in T
  BY <1>1, <1>2, Induction
<1>4. \E g : Sum(Len(s), g)
  BY <1>3 DEF T
<1>5. Sums(s) = CHOOSE g : Sum(Len(s), g)
  BY DEF Sums
<1> QED
  BY <1>4, <1>5

LEMMA SumsStep ==
    ASSUME NEW s \in Seq(Int)
    PROVE  /\ Sums(s)[0] = 0
           /\ \A i \in 0 .. Len(s) : Sums(s)[i] \in Int
           /\ \A i \in 1 .. Len(s) : Sums(s)[i] = Sums(s)[i - 1] + s[i]
<1>1. Len(s) \in Nat
  OBVIOUS
<1>2. /\ Sums(s)[0] = 0
      /\ \A i \in 1 .. Len(s) : Sums(s)[i] = Sums(s)[i - 1] + s[i]
  BY <1>1, SumsAre
<1> DEFINE T == {n \in Nat : n <= Len(s) => Sums(s)[n] \in Int}
<1>3. 0 \in T
  BY <1>2
<1>4. ASSUME NEW n \in Nat, n \in T
      PROVE  n + 1 \in T
  <2> SUFFICES ASSUME n + 1 <= Len(s) PROVE Sums(s)[n + 1] \in Int
    OBVIOUS
  <2>1. n + 1 \in 1 .. Len(s) /\ (n + 1) - 1 = n /\ Sums(s)[n] \in Int
    BY <1>1, <1>4
  <2> QED
    BY <1>2, <2>1
<1> HIDE DEF T
<1>5. \A n \in Nat : n \in T
  BY <1>3, <1>4, Induction
<1> QED
  BY <1>2, <1>5 DEF T

----------------------------------------------------------------------------
(* The k-th of a set of numbers.                                           *)

LEMMA UpTo ==
    ASSUME NEW n \in Nat, NEW T, T \subseteq 1 .. n
    PROVE  /\ IsFiniteSet(T) /\ Cardinality(T) \in Nat
           /\ \A U \in SUBSET T : IsFiniteSet(U) /\ Cardinality(U) \in Nat
           /\ \A U \in SUBSET T : Cardinality(U) <= Cardinality(T)
           /\ \A U \in SUBSET T : Cardinality(U) = Cardinality(T) => U = T
<1>1. IsFiniteSet(1 .. n)
  BY FS_Interval
<1>2. IsFiniteSet(T)
  BY <1>1, FS_Subset
<1>3. \A U \in SUBSET T : IsFiniteSet(U) /\ Cardinality(U) \in Nat
  BY <1>2, FS_Subset, FS_CardinalityType
<1>4. \A U \in SUBSET T : /\ Cardinality(U) <= Cardinality(T)
                          /\ Cardinality(U) = Cardinality(T) => U = T
  BY <1>2, FS_Subset
<1> QED
  BY <1>2, <1>3, <1>4

\* A number that is greater than those of a set is the last one with them.
LEMMA RankGrows ==
    ASSUME NEW n \in Nat, NEW T, T \subseteq 1 .. n
    PROVE  /\ Cardinality(T \cup {n + 1}) = Cardinality(T) + 1
           /\ Rank(T \cup {n + 1}, n + 1) = Cardinality(T) + 1
           /\ \A i \in T : Rank(T \cup {n + 1}, i) = Rank(T, i)
           /\ \A i \in T : Rank(T, i) \in 1 .. Cardinality(T)
<1>1. \A j \in T : j \in 1 .. n
  OBVIOUS
<1>2. n + 1 \notin T
  BY <1>1
<1>3. Cardinality(T \cup {n + 1}) = Cardinality(T) + 1
  BY <1>2, UpTo, FS_AddElement
<1>4. {j \in T \cup {n + 1} : j <= n + 1} = T \cup {n + 1}
  <2>1. \A j \in T \cup {n + 1} : j <= n + 1
    BY <1>1
  <2> QED
    BY <2>1
<1>5. ASSUME NEW i \in T
      PROVE  /\ {j \in T \cup {n + 1} : j <= i} = {j \in T : j <= i}
             /\ Rank(T, i) \in 1 .. Cardinality(T)
  <2>1. i \in 1 .. n
    BY <1>1
  <2>2. {j \in T \cup {n + 1} : j <= i} = {j \in T : j <= i}
    BY <2>1
  <2> DEFINE U == {j \in T : j <= i}
  <2>3. U \in SUBSET T /\ i \in U
    BY <2>1
  <2> HIDE DEF U
  <2>4. IsFiniteSet(U) /\ Cardinality(U) \in Nat /\ Cardinality(U) <= Cardinality(T)
    BY <2>3, UpTo
  <2>5. Cardinality(U) # 0
    BY <2>3, <2>4, FS_EmptySet
  <2>6. Cardinality(U) \in 1 .. Cardinality(T)
    BY <2>4, <2>5, UpTo
  <2> QED
    BY <2>2, <2>6 DEF Rank, U
<1> QED
  BY <1>3, <1>4, <1>5 DEF Rank

LEMMA RankReached ==
    ASSUME NEW n \in Nat, NEW T, T \subseteq 1 .. n, NEW k \in 1 .. Cardinality(T)
    PROVE  \E i \in T : Rank(T, i) = k
<1> DEFINE Reached(U) == \A m \in 1 .. Cardinality(U) : \E i \in U : Rank(U, i) = m
           P == {m \in Nat : \A U \in SUBSET (1 .. m) : Reached(U)}
<1>1. 0 \in P
  <2>1. ASSUME NEW U \in SUBSET (1 .. 0)
        PROVE  Reached(U)
    <3>1. U = {}
      OBVIOUS
    <3>2. Cardinality(U) = 0
      BY <3>1, FS_EmptySet
    <3> QED
      BY <3>2
  <2> QED
    BY <2>1
<1>2. ASSUME NEW m \in Nat, m \in P
      PROVE  m + 1 \in P
  <2>1. ASSUME NEW U \in SUBSET (1 .. m + 1)
        PROVE  Reached(U)
    <3> DEFINE V == U \ {m + 1}
    <3>1. V \in SUBSET (1 .. m)
      OBVIOUS
    <3>2. Reached(V)
      BY <1>2, <3>1
    <3>3. CASE m + 1 \notin U
      <4>1. U = V
        BY <3>3
      <4> QED
        BY <3>2, <4>1
    <3>4. CASE m + 1 \in U
      <4>1. U = V \cup {m + 1}
        BY <3>4
      <4> HIDE DEF V
      <4>2. /\ Cardinality(U) = Cardinality(V) + 1
            /\ Rank(U, m + 1) = Cardinality(V) + 1
            /\ \A i \in V : Rank(U, i) = Rank(V, i)
        BY <3>1, <4>1, RankGrows
      <4>3. Cardinality(V) \in Nat
        BY <3>1, UpTo
      <4>4. ASSUME NEW j \in 1 .. Cardinality(U)
            PROVE  \E i \in U : Rank(U, i) = j
        <5>1. CASE j = Cardinality(V) + 1
          BY <3>4, <4>2, <5>1
        <5>2. CASE j \in 1 .. Cardinality(V)
          BY <3>2, <4>1, <4>2, <5>2
        <5> QED
          BY <4>2, <4>3, <5>1, <5>2
      <4> QED
        BY <4>4
    <3> QED
      BY <3>3, <3>4
  <2> HIDE DEF Reached
  <2> QED
    BY <2>1
<1> HIDE DEF P
<1>3. n \in P
  BY <1>1, <1>2, Induction
<1> QED
  BY <1>3 DEF P

LEMMA RankTells ==
    ASSUME NEW n \in Nat, NEW T, T \subseteq 1 .. n, NEW i \in T, NEW j \in T,
           Rank(T, i) = Rank(T, j)
    PROVE  i = j
<1>1. ASSUME NEW a \in T, NEW b \in T, a < b
      PROVE  Rank(T, a) # Rank(T, b)
  <2> DEFINE A == {x \in T : x <= a}
             B == {x \in T : x <= b}
  <2>1. \A x \in T : x \in Int
    OBVIOUS
  <2>2. b \in B /\ b \notin A
    BY <1>1, <2>1
  <2>3. \A x \in T : x <= a => x <= b
    BY <1>1, <2>1
  <2>4. A \in SUBSET B /\ B \subseteq 1 .. n
    BY <2>3
  <2> HIDE DEF A, B
  <2>5. Cardinality(A) = Cardinality(B) => A = B
    BY <2>4, UpTo
  <2> QED
    BY <2>2, <2>5 DEF A, B, Rank
<1>2. i \in Int /\ j \in Int
  OBVIOUS
<1> QED
  BY <1>1, <1>2

LEMMA NthIs ==
    ASSUME NEW n \in Nat, NEW T, T \subseteq 1 .. n, NEW k \in 1 .. Cardinality(T)
    PROVE  Nth(T, k) \in T /\ Rank(T, Nth(T, k)) = k
BY RankReached DEF Nth

LEMMA NthGrows ==
    ASSUME NEW n \in Nat, NEW T, T \subseteq 1 .. n
    PROVE  /\ \A k \in 1 .. Cardinality(T) : Nth(T \cup {n + 1}, k) = Nth(T, k)
           /\ Nth(T \cup {n + 1}, Cardinality(T) + 1) = n + 1
<1> DEFINE U == T \cup {n + 1}
<1>1. n + 1 \in Nat /\ U \subseteq 1 .. n + 1 /\ n + 1 \in U /\ T \subseteq U
  OBVIOUS
<1>2. /\ Cardinality(U) = Cardinality(T) + 1 /\ Cardinality(T) \in Nat
      /\ Rank(U, n + 1) = Cardinality(T) + 1
      /\ \A i \in T : Rank(U, i) = Rank(T, i)
  <2>1. Cardinality(T) \in Nat
    BY UpTo
  <2> QED
    BY <2>1, RankGrows
<1> HIDE DEF U
<1>3. ASSUME NEW k \in 1 .. Cardinality(T)
      PROVE  Nth(U, k) = Nth(T, k)
  <2>1. Nth(T, k) \in U /\ Rank(U, Nth(T, k)) = k
    BY <1>1, <1>2, NthIs
  <2>2. k \in 1 .. Cardinality(U)
    BY <1>2
  <2>3. Nth(U, k) \in U /\ Rank(U, Nth(U, k)) = k
    BY <1>1, <2>2, NthIs
  <2> QED
    BY <1>1, <2>1, <2>3, RankTells
<1>4. Nth(U, Cardinality(T) + 1) = n + 1
  <2>1. Cardinality(T) + 1 \in 1 .. Cardinality(U)
    BY <1>2
  <2>2. /\ Nth(U, Cardinality(T) + 1) \in U
        /\ Rank(U, Nth(U, Cardinality(T) + 1)) = Cardinality(T) + 1
    BY <1>1, <2>1, NthIs
  <2> QED
    BY <1>1, <1>2, <2>2, RankTells
<1> QED
  BY <1>3, <1>4 DEF U

\* The last one is the greatest, and the others are not.
LEMMA NthIsLast ==
    ASSUME NEW n \in Nat, NEW T, T \subseteq 1 .. n, NEW k \in 1 .. Cardinality(T)
    PROVE  (\E j \in T : j > Nth(T, k)) <=> k # Cardinality(T)
<1> DEFINE i == Nth(T, k)
           U == {j \in T : j <= i}
<1>1. i \in T /\ Cardinality(U) = k
  BY NthIs DEF Rank
<1>2. \A j \in T : j <= i <=> ~(j > i)
  <2>1. \A j \in T : j \in Int
    OBVIOUS
  <2>2. i \in Int
    BY <1>1, <2>1
  <2> HIDE DEF i
  <2> QED
    BY <2>1, <2>2
<1>3. U \in SUBSET T /\ (U = T <=> ~ \E j \in T : j > i)
  BY <1>2
<1> HIDE DEF U, i
<1>4. U = T <=> Cardinality(U) = Cardinality(T)
  BY <1>3, UpTo
<1> QED
  BY <1>1, <1>3, <1>4 DEF i

----------------------------------------------------------------------------
(* What one more line changes in what a sheet says.                        *)

Longer(s, t, n) ==
    /\ n \in Nat /\ DOMAIN s = 1 .. n /\ Len(s) = n
    /\ DOMAIN t = 1 .. n + 1 /\ Len(t) = n + 1
    /\ \A i \in 1 .. n : t[i] = s[i]

LEMMA KeyLinesGrow ==
    ASSUME NEW s, NEW t, NEW n, Longer(s, t, n), NEW key
    PROVE  /\ KeyLines(s, key) \subseteq 1 .. n
           /\ KeyLines(t, key) = IF t[n + 1].key = key THEN KeyLines(s, key) \cup {n + 1}
                                 ELSE KeyLines(s, key)
<1>1. /\ n \in Nat /\ DOMAIN s = 1 .. n /\ DOMAIN t = 1 .. n + 1
      /\ \A i \in 1 .. n : t[i] = s[i]
  BY DEF Longer
<1>2. \A i : i \in 1 .. n + 1 <=> i \in 1 .. n \/ i = n + 1
  BY <1>1
<1>3. \A i : i \in KeyLines(t, key) <=>
                i \in KeyLines(s, key) \/ (i = n + 1 /\ t[n + 1].key = key)
  BY <1>1, <1>2 DEF KeyLines
<1> QED
  BY <1>1, <1>3 DEF KeyLines

LEMMA TrackLinesGrow ==
    ASSUME NEW s, NEW t, NEW n, Longer(s, t, n)
    PROVE  /\ TrackLines(s) \subseteq 1 .. n
           /\ TrackLines(t) = IF t[n + 1].key = "track" /\ t[n + 1].val # None
                              THEN TrackLines(s) \cup {n + 1} ELSE TrackLines(s)
<1>1. n \in Nat /\ \A i \in 1 .. n : t[i] = s[i]
  BY DEF Longer
<1>2. /\ KeyLines(s, "track") \subseteq 1 .. n
      /\ KeyLines(t, "track") = IF t[n + 1].key = "track"
                                THEN KeyLines(s, "track") \cup {n + 1}
                                ELSE KeyLines(s, "track")
  BY KeyLinesGrow
<1>3. \A i : i \in TrackLines(t) <=>
                \/ i \in TrackLines(s)
                \/ i = n + 1 /\ t[n + 1].key = "track" /\ t[n + 1].val # None
  BY <1>1, <1>2 DEF TrackLines
<1> QED
  BY <1>2, <1>3 DEF TrackLines

\* What a line says for a key counts.
Counts(l, key) == l.key = key /\ (key \in {"index00", "index01"} => l.val # None)

LEMMA SaidBefore ==
    ASSUME NEW s, NEW t, NEW n, Longer(s, t, n), NEW key,
           NEW from \in Nat, NEW to \in 0 .. n + 1
    PROVE  LastSaid(t, key, from, to) = LastSaid(s, key, from, to)
<1> DEFINE S == {i \in KeyLines(s, key) :
                    from < i /\ i < to /\
                    (key \in {"index00", "index01"} => s[i].val # None)}
           T == {i \in KeyLines(t, key) :
                    from < i /\ i < to /\
                    (key \in {"index00", "index01"} => t[i].val # None)}
<1>1. n \in Nat /\ \A i \in 1 .. n : t[i] = s[i]
  BY DEF Longer
<1>2. /\ KeyLines(s, key) \subseteq 1 .. n
      /\ KeyLines(t, key) = IF t[n + 1].key = key THEN KeyLines(s, key) \cup {n + 1}
                            ELSE KeyLines(s, key)
  BY KeyLinesGrow
<1>3. ~(n + 1 < to)
  BY <1>1
<1>4. S = T
  BY <1>1, <1>2, <1>3
<1>5. ASSUME S # {}
      PROVE  t[Max(S)] = s[Max(S)]
  <2>1. S \subseteq 0 .. n
    BY <1>2
  <2> HIDE DEF S
  <2>2. Max(S) \in S
    BY <1>1, <1>5, <2>1, GreatestOf
  <2>3. Max(S) \in 1 .. n
    BY <1>2, <2>2 DEF S
  <2> QED
    BY <1>1, <2>3
<1>6. LastSaid(s, key, from, to) = IF S = {} THEN None ELSE s[Max(S)].val
  BY DEF LastSaid
<1>7. LastSaid(t, key, from, to) = IF T = {} THEN None ELSE t[Max(T)].val
  BY DEF LastSaid
<1> HIDE DEF S, T
<1> QED
  BY <1>4, <1>5, <1>6, <1>7

LEMMA SaidNow ==
    ASSUME NEW s, NEW t, NEW n, Longer(s, t, n), NEW key, NEW from \in 0 .. n
    PROVE  LastSaid(t, key, from, n + 2) =
                IF Counts(t[n + 1], key) THEN t[n + 1].val ELSE LastSaid(s, key, from, n + 1)
<1> DEFINE S == {i \in KeyLines(s, key) :
                    from < i /\ i < n + 1 /\
                    (key \in {"index00", "index01"} => s[i].val # None)}
           T == {i \in KeyLines(t, key) :
                    from < i /\ i < n + 2 /\
                    (key \in {"index00", "index01"} => t[i].val # None)}
<1>1. n \in Nat /\ from \in Nat /\ \A i \in 1 .. n : t[i] = s[i]
  BY DEF Longer
<1>2. /\ KeyLines(s, key) \subseteq 1 .. n
      /\ KeyLines(t, key) = IF t[n + 1].key = key THEN KeyLines(s, key) \cup {n + 1}
                            ELSE KeyLines(s, key)
  BY KeyLinesGrow
<1>3. \A i \in 1 .. n : i < n + 1 /\ i < n + 2
  BY <1>1
<1>4. from < n + 1 /\ n + 1 < n + 2
  BY <1>1
<1>5. T = IF Counts(t[n + 1], key) THEN S \cup {n + 1} ELSE S
  <2>1. \A i : i \in T <=> i \in S \/ (i = n + 1 /\ Counts(t[n + 1], key))
    BY <1>1, <1>2, <1>3, <1>4 DEF Counts
  <2> HIDE DEF S, T
  <2> QED
    BY <2>1
<1>6. S \subseteq 1 .. n
  BY <1>2
<1>7. LastSaid(s, key, from, n + 1) = IF S = {} THEN None ELSE s[Max(S)].val
  BY DEF LastSaid
<1>8. LastSaid(t, key, from, n + 2) = IF T = {} THEN None ELSE t[Max(T)].val
  BY DEF LastSaid
<1> HIDE DEF S, T
<1>9. CASE Counts(t[n + 1], key)
  <2>1. T = S \cup {n + 1} /\ n + 1 \in T
    BY <1>5, <1>9
  <2>2. T \subseteq Nat /\ \A i \in T : i <= n + 1
    BY <1>1, <1>6, <2>1
  <2>3. Max(T) = n + 1
    BY <2>1, <2>2, GreatestIs
  <2> QED
    BY <1>8, <1>9, <2>1, <2>3
<1>10. CASE ~Counts(t[n + 1], key)
  <2>1. T = S
    BY <1>5, <1>10
  <2>2. ASSUME S # {}
        PROVE  t[Max(S)] = s[Max(S)]
    <3>1. S \subseteq 0 .. n
      BY <1>1, <1>6
    <3>2. Max(S) \in 1 .. n
      BY <1>1, <1>6, <2>2, <3>1, GreatestOf
    <3> QED
      BY <1>1, <3>2
  <2> QED
    BY <1>7, <1>8, <1>10, <2>1, <2>2
<1> QED
  BY <1>9, <1>10

LEMMA NothingSaid ==
    ASSUME NEW s, DOMAIN s \subseteq Int, NEW key, NEW from \in Nat
    PROVE  LastSaid(s, key, from, from + 1) = None
<1>1. ASSUME NEW i \in KeyLines(s, key), from < i, i < from + 1
      PROVE  FALSE
  <2>1. i \in Int
    BY DEF KeyLines
  <2> QED
    BY <1>1, <2>1
<1> QED
  BY <1>1 DEF LastSaid

\* The next track begins where it began before, or else where the new line is,
\* or else it is still to come.
LEMMA NextTrackGrows ==
    ASSUME NEW s, NEW t, NEW n, Longer(s, t, n), NEW i \in 0 .. n
    PROVE  /\ (\E j \in TrackLines(s) : j > i) =>
                    NextTrack(s, i) \in 1 .. n /\ NextTrack(t, i) = NextTrack(s, i)
           /\ ~(\E j \in TrackLines(s) : j > i) =>
                    /\ NextTrack(s, i) = n + 1
                    /\ NextTrack(t, i) = IF n + 1 \in TrackLines(t) THEN n + 1 ELSE n + 2
<1> DEFINE S == {j \in TrackLines(s) : j > i}
           T == {j \in TrackLines(t) : j > i}
<1>1. n \in Nat /\ i \in Nat /\ Len(s) = n /\ Len(t) = n + 1
  BY DEF Longer
<1>2. /\ TrackLines(s) \subseteq 1 .. n
      /\ TrackLines(t) = IF n + 1 \in TrackLines(t) THEN TrackLines(s) \cup {n + 1}
                         ELSE TrackLines(s)
  <2>1. /\ TrackLines(s) \subseteq 1 .. n
        /\ TrackLines(t) = IF t[n + 1].key = "track" /\ t[n + 1].val # None
                           THEN TrackLines(s) \cup {n + 1} ELSE TrackLines(s)
    BY TrackLinesGrow
  <2>2. n + 1 \notin TrackLines(s)
    BY <1>1, <2>1
  <2> QED
    BY <2>1, <2>2
<1>3. n + 1 > i
  BY <1>1
<1>4. S \subseteq 1 .. n /\ T = IF n + 1 \in TrackLines(t) THEN S \cup {n + 1} ELSE S
  <2>1. \A j : j \in T <=> j \in S \/ (j = n + 1 /\ n + 1 \in TrackLines(t))
    BY <1>2, <1>3
  <2>2. S \subseteq 1 .. n
    BY <1>2
  <2> HIDE DEF S, T
  <2> QED
    BY <2>1, <2>2
<1>5. NextTrack(s, i) = Min(S \cup {n + 1}) /\ NextTrack(t, i) = Min(T \cup {n + 2})
  <2>1. Len(t) + 1 = n + 2
    BY <1>1
  <2> QED
    BY <1>1, <2>1 DEF NextTrack
<1>6. S = {} <=> ~ \E j \in TrackLines(s) : j > i
  OBVIOUS
<1> HIDE DEF S, T
<1>7. ASSUME S # {}
      PROVE  NextTrack(s, i) \in 1 .. n /\ NextTrack(t, i) = NextTrack(s, i)
  <2>1. S \subseteq Nat
    BY <1>1, <1>4
  <2>2. Min(S) \in S /\ \A y \in S : Min(S) <= y
    BY <1>7, <2>1, LeastOf
  <2>3. Min(S) \in 1 .. n
    BY <1>4, <2>2
  <2>4. Min(S) <= n + 1 /\ Min(S) <= n + 2
    BY <1>1, <2>3
  <2>5. Min(S \cup {n + 1}) = Min(S)
    <3>1. S \cup {n + 1} \subseteq Nat
      BY <1>1, <2>1
    <3> QED
      BY <2>2, <2>4, <3>1, LeastIs
  <2>6. Min(T \cup {n + 2}) = Min(S)
    <3>1. T \cup {n + 2} \subseteq Nat
      BY <1>1, <1>4, <2>1
    <3>2. Min(S) \in T /\ \A y \in T \cup {n + 2} : Min(S) <= y
      BY <1>4, <2>2, <2>4
    <3> QED
      BY <3>1, <3>2, LeastIs
  <2> QED
    BY <1>5, <2>3, <2>5, <2>6
<1>8. ASSUME S = {}
      PROVE  /\ NextTrack(s, i) = n + 1
             /\ NextTrack(t, i) = IF n + 1 \in TrackLines(t) THEN n + 1 ELSE n + 2
  <2>1. \A k \in Nat : Min({k}) = k
    BY LeastIs
  <2>2. Min(S \cup {n + 1}) = n + 1
    BY <1>1, <1>8, <2>1
  <2>3. CASE n + 1 \in TrackLines(t)
    <3>1. T \cup {n + 2} = {n + 1, n + 2}
      BY <1>4, <1>8, <2>3
    <3>2. {n + 1, n + 2} \subseteq Nat /\ n + 1 <= n + 1 /\ n + 1 <= n + 2
      BY <1>1
    <3>3. Min({n + 1, n + 2}) = n + 1
      BY <3>2, LeastIs
    <3> QED
      BY <1>5, <2>2, <2>3, <3>1, <3>3
  <2>4. CASE n + 1 \notin TrackLines(t)
    <3>1. T \cup {n + 2} = {n + 2} /\ n + 2 \in Nat
      BY <1>1, <1>4, <1>8, <2>4
    <3> QED
      BY <1>5, <2>1, <2>2, <2>4, <3>1
  <2> QED
    BY <2>3, <2>4
<1> QED
  BY <1>6, <1>7, <1>8

\* What counts up to the next track: the new line when it comes before.
LEMMA SaidToNext ==
    ASSUME NEW s, NEW t, NEW n, Longer(s, t, n), NEW i \in 0 .. n, NEW key, key # "track"
    PROVE  LastSaid(t, key, i, NextTrack(t, i)) =
                IF ~(\E j \in TrackLines(s) : j > i) /\ Counts(t[n + 1], key)
                THEN t[n + 1].val
                ELSE LastSaid(s, key, i, NextTrack(s, i))
<1>1. n \in Nat /\ i \in Nat
  BY DEF Longer
<1>2. CASE \E j \in TrackLines(s) : j > i
  <2>1. NextTrack(s, i) \in 0 .. n + 1 /\ NextTrack(t, i) = NextTrack(s, i)
    BY <1>1, <1>2, NextTrackGrows
  <2>2. LastSaid(t, key, i, NextTrack(t, i)) = LastSaid(s, key, i, NextTrack(s, i))
    BY <1>1, <2>1, SaidBefore
  <2> QED
    BY <1>2, <2>2
<1>3. CASE ~ \E j \in TrackLines(s) : j > i
  <2>1. NextTrack(s, i) = n + 1
    BY <1>3, NextTrackGrows
  <2>2. CASE n + 1 \in TrackLines(t)
    <3>1. NextTrack(t, i) = n + 1
      BY <1>3, <2>2, NextTrackGrows
    <3>2. ~Counts(t[n + 1], key)
      BY <2>2 DEF TrackLines, KeyLines, Counts
    <3>3. LastSaid(t, key, i, n + 1) = LastSaid(s, key, i, n + 1)
      BY <1>1, SaidBefore
    <3> QED
      BY <2>1, <3>1, <3>2, <3>3
  <2>3. CASE n + 1 \notin TrackLines(t)
    <3>1. NextTrack(t, i) = n + 2
      BY <1>3, <2>3, NextTrackGrows
    <3>2. LastSaid(t, key, i, n + 2) =
                IF Counts(t[n + 1], key) THEN t[n + 1].val
                ELSE LastSaid(s, key, i, n + 1)
      BY SaidNow
    <3> QED
      BY <1>3, <2>1, <3>1, <3>2
  <2> QED
    BY <2>2, <2>3
<1> QED
  BY <1>2, <1>3

\* The last track with one more line.
Behind(track, l) ==
    [number |-> track.number,
     title |-> IF Counts(l, "title") THEN l.val ELSE track.title,
     performer |-> IF Counts(l, "performer") THEN l.val ELSE track.performer,
     index00 |-> IF Counts(l, "index00") THEN l.val ELSE track.index00,
     index01 |-> IF Counts(l, "index01") THEN l.val ELSE track.index01]

LEMMA TrackGrows ==
    ASSUME NEW s, NEW t, NEW n, Longer(s, t, n), NEW i \in TrackLines(s)
    PROVE  TrackAt(t, i) = IF \E j \in TrackLines(s) : j > i THEN TrackAt(s, i)
                           ELSE Behind(TrackAt(s, i), t[n + 1])
<1>1. n \in Nat /\ i \in 1 .. n /\ t[i] = s[i]
  BY TrackLinesGrow DEF Longer
<1>2. i \in 0 .. n
  BY <1>1
<1> DEFINE Said(key) ==
            LastSaid(t, key, i, NextTrack(t, i)) =
                IF ~(\E j \in TrackLines(s) : j > i) /\ Counts(t[n + 1], key)
                THEN t[n + 1].val
                ELSE LastSaid(s, key, i, NextTrack(s, i))
<1>3. Said("title") /\ Said("performer") /\ Said("index00") /\ Said("index01")
  <2>1. \A key : key # "track" => Said(key)
    BY <1>2, SaidToNext
  <2> HIDE DEF Said
  <2> QED
    BY <2>1
<1>4. CASE \E j \in TrackLines(s) : j > i
  BY <1>1, <1>3, <1>4 DEF TrackAt
<1>5. CASE ~ \E j \in TrackLines(s) : j > i
  BY <1>1, <1>3, <1>5 DEF TrackAt, Behind
<1> QED
  BY <1>4, <1>5

LEMMA NewTrackGrows ==
    ASSUME NEW s, NEW t, NEW n, Longer(s, t, n), n + 1 \in TrackLines(t)
    PROVE  TrackAt(t, n + 1) = NewTrack(t[n + 1].val)
<1>1. n \in Nat /\ n + 1 \in Nat /\ DOMAIN t = 1 .. n + 1 /\ Len(t) + 1 = n + 2
  BY DEF Longer
<1>2. \A j \in TrackLines(t) : ~(j > n + 1)
  <2>1. \A j \in TrackLines(t) : j \in 1 .. n + 1
    BY <1>1 DEF TrackLines, KeyLines
  <2> QED
    BY <1>1, <2>1
<1>3. NextTrack(t, n + 1) = n + 2
  <2>1. {j \in TrackLines(t) : j > n + 1} \cup {Len(t) + 1} = {n + 2}
    BY <1>1, <1>2
  <2>2. \A k \in Nat : Min({k}) = k
    BY LeastIs
  <2> QED
    BY <1>1, <2>1, <2>2 DEF NextTrack
<1>4. \A key : LastSaid(t, key, n + 1, n + 2) = None
  <2>1. DOMAIN t \subseteq Int /\ (n + 1) + 1 = n + 2
    BY <1>1
  <2> QED
    BY <1>1, <2>1, NothingSaid
<1> QED
  BY <1>3, <1>4 DEF TrackAt, NewTrack

Tracks(lines) == SheetOf(lines).tracks

\* A TRACK line adds a track; every other line is the last track's.
LEMMA TracksGrow ==
    ASSUME NEW s, NEW t, NEW n, Longer(s, t, n)
    PROVE  LET m == Cardinality(TrackLines(s))
           IN  /\ m \in Nat /\ DOMAIN Tracks(s) = 1 .. m /\ (m = 0 <=> TrackLines(s) = {})
               /\ \A k \in 1 .. m : \E i : Tracks(s)[k] = TrackAt(s, i)
               /\ n + 1 \in TrackLines(t) =>
                    Tracks(t) = [k \in 1 .. m + 1 |->
                        IF k = m + 1 THEN NewTrack(t[n + 1].val) ELSE Tracks(s)[k]]
               /\ n + 1 \notin TrackLines(t) =>
                    Tracks(t) = [k \in 1 .. m |->
                        IF k = m THEN Behind(Tracks(s)[k], t[n + 1]) ELSE Tracks(s)[k]]
<1> DEFINE S == TrackLines(s)
           T == TrackLines(t)
           m == Cardinality(S)
<1>1. n \in Nat
  BY DEF Longer
<1>2. S \subseteq 1 .. n /\ T = IF n + 1 \in T THEN S \cup {n + 1} ELSE S
  <2>1. n + 1 \notin 1 .. n
    BY <1>1
  <2> QED
    BY <2>1, TrackLinesGrow
<1>3. /\ Tracks(s) = [k \in 1 .. m |-> TrackAt(s, Nth(S, k))]
      /\ Tracks(t) = [k \in 1 .. Cardinality(T) |-> TrackAt(t, Nth(T, k))]
  BY DEF Tracks, SheetOf
<1>4. \A i \in S : TrackAt(t, i) = IF \E j \in S : j > i THEN TrackAt(s, i)
                                   ELSE Behind(TrackAt(s, i), t[n + 1])
  BY TrackGrows
<1>5. n + 1 \in T => TrackAt(t, n + 1) = NewTrack(t[n + 1].val)
  BY NewTrackGrows
<1>6. n + 1 \in T => ~ \E key \in {"title", "performer", "index00", "index01"} :
                            Counts(t[n + 1], key)
  BY DEF TrackLines, KeyLines, Counts
<1> HIDE DEF S, T
<1>7. m \in Nat /\ (m = 0 <=> S = {})
  <2>1. IsFiniteSet(S)
    BY <1>1, <1>2, UpTo
  <2> QED
    BY <1>1, <1>2, <2>1, UpTo, FS_EmptySet
<1> HIDE DEF m
<1>8. \A k \in 1 .. m : Nth(S, k) \in S /\ ((\E j \in S : j > Nth(S, k)) <=> k # m)
  BY <1>1, <1>2, NthIs, NthIsLast DEF m
<1>9. \A k \in 1 .. m : Tracks(s)[k] = TrackAt(s, Nth(S, k))
  BY <1>3
<1>10. CASE n + 1 \in T
  <2>1. T = S \cup {n + 1}
    BY <1>2, <1>10
  <2>2. /\ Cardinality(T) = m + 1 /\ Nth(T, m + 1) = n + 1
        /\ \A k \in 1 .. m : Nth(T, k) = Nth(S, k)
    <3>1. Cardinality(S \cup {n + 1}) = Cardinality(S) + 1
      BY <1>1, <1>2, RankGrows
    <3>2. /\ \A k \in 1 .. Cardinality(S) : Nth(S \cup {n + 1}, k) = Nth(S, k)
          /\ Nth(S \cup {n + 1}, Cardinality(S) + 1) = n + 1
      BY <1>1, <1>2, NthGrows
    <3> QED
      BY <2>1, <3>1, <3>2 DEF m
  <2>3. ASSUME NEW k \in 1 .. m
        PROVE  TrackAt(t, Nth(T, k)) = Tracks(s)[k]
    <3>1. Nth(S, k) \in S /\ Tracks(s)[k] = TrackAt(s, Nth(S, k))
      BY <1>8, <1>9
    <3>2. Behind(TrackAt(s, Nth(S, k)), t[n + 1]) = TrackAt(s, Nth(S, k))
      BY <1>6, <1>10 DEF Behind, TrackAt
    <3>3. TrackAt(t, Nth(S, k)) = TrackAt(s, Nth(S, k))
      BY <1>4, <3>1, <3>2
    <3> QED
      BY <2>2, <3>1, <3>3
  <2>4. \A k \in 1 .. m + 1 :
            TrackAt(t, Nth(T, k)) = IF k = m + 1 THEN NewTrack(t[n + 1].val) ELSE Tracks(s)[k]
    <3>1. \A k \in 1 .. m + 1 : k = m + 1 \/ k \in 1 .. m
      BY <1>7
    <3>2. m + 1 \notin 1 .. m
      BY <1>7
    <3> QED
      BY <1>5, <1>10, <2>2, <2>3, <3>1, <3>2
  <2>5. Tracks(t) = [k \in 1 .. m + 1 |->
                        IF k = m + 1 THEN NewTrack(t[n + 1].val) ELSE Tracks(s)[k]]
    BY <1>3, <2>2, <2>4
  <2> QED
    BY <1>3, <1>7, <1>9, <1>10, <2>5 DEF S, T, m
<1>11. CASE n + 1 \notin T
  <2>1. T = S /\ Cardinality(T) = m
    BY <1>2, <1>11 DEF m
  <2>2. ASSUME NEW k \in 1 .. m
        PROVE  TrackAt(t, Nth(T, k)) =
                    IF k = m THEN Behind(Tracks(s)[k], t[n + 1]) ELSE Tracks(s)[k]
    BY <1>4, <1>8, <1>9, <2>1
  <2>3. Tracks(t) = [k \in 1 .. m |->
                        IF k = m THEN Behind(Tracks(s)[k], t[n + 1]) ELSE Tracks(s)[k]]
    BY <1>3, <2>1, <2>2
  <2> QED
    BY <1>3, <1>7, <1>9, <1>11, <2>3 DEF S, T, m
<1> QED
  BY <1>10, <1>11

----------------------------------------------------------------------------
(* The invariant of the reader.                                            *)

\* What is known behind the lines is what they say, unless they are rejected.
Reads(p, lines) ==
    /\ p.error \in BOOLEAN /\ p.fileSeen \in BOOLEAN
    /\ p = [sheet |-> p.sheet, fileSeen |-> p.fileSeen, error |-> p.error]
    /\ p.error <=> Rejected(lines)
    /\ ~p.error => /\ p.sheet = SheetOf(lines)
                   /\ p.fileSeen <=> KeyLines(lines, "file") # {}

\* One field of a record, changed, and the three records.
Set(r, key, val) == [r EXCEPT ![key] = val]
Known(a, b, c) == [sheet |-> a, fileSeen |-> b, error |-> c]
Sheet(a, b, c, d, e, f) ==
    [title |-> a, performer |-> b, genre |-> c, date |-> d, file |-> e, tracks |-> f]
Track(a, b, c, d, e) ==
    [number |-> a, title |-> b, performer |-> c, index00 |-> d, index01 |-> e]

LEMMA SetOfKnown ==
    ASSUME NEW a, NEW b, NEW c, NEW val
    PROVE  /\ Set(Known(a, b, c), "sheet", val) = Known(val, b, c)
           /\ Set(Known(a, b, c), "fileSeen", val) = Known(a, val, c)
           /\ Set(Known(a, b, c), "error", val) = Known(a, b, val)
<1>1. Set(Known(a, b, c), "sheet", val) = Known(val, b, c)
  BY DEF Set, Known
<1>2. Set(Known(a, b, c), "fileSeen", val) = Known(a, val, c)
  BY DEF Set, Known
<1>3. Set(Known(a, b, c), "error", val) = Known(a, b, val)
  BY DEF Set, Known
<1> QED
  BY <1>1, <1>2, <1>3

LEMMA SetOfSheet ==
    ASSUME NEW a, NEW b, NEW c, NEW d, NEW e, NEW f, NEW val,
           NEW key \in {"title", "performer", "genre", "date", "file", "tracks"}
    PROVE  Set(Sheet(a, b, c, d, e, f), key, val) =
                Sheet(IF key = "title" THEN val ELSE a,
                      IF key = "performer" THEN val ELSE b,
                      IF key = "genre" THEN val ELSE c,
                      IF key = "date" THEN val ELSE d,
                      IF key = "file" THEN val ELSE e,
                      IF key = "tracks" THEN val ELSE f)
<1>1. CASE key = "title"
  BY <1>1 DEF Set, Sheet
<1>2. CASE key = "performer"
  BY <1>2 DEF Set, Sheet
<1>3. CASE key = "genre"
  BY <1>3 DEF Set, Sheet
<1>4. CASE key = "date"
  BY <1>4 DEF Set, Sheet
<1>5. CASE key = "file"
  BY <1>5 DEF Set, Sheet
<1>6. CASE key = "tracks"
  BY <1>6 DEF Set, Sheet
<1> QED
  BY <1>1, <1>2, <1>3, <1>4, <1>5, <1>6

LEMMA SetOfTrack ==
    ASSUME NEW a, NEW b, NEW c, NEW d, NEW e, NEW val,
           NEW key \in {"title", "performer", "index00", "index01"}
    PROVE  Set(Track(a, b, c, d, e), key, val) =
                Track(a,
                      IF key = "title" THEN val ELSE b,
                      IF key = "performer" THEN val ELSE c,
                      IF key = "index00" THEN val ELSE d,
                      IF key = "index01" THEN val ELSE e)
<1>1. CASE key = "title"
  BY <1>1 DEF Set, Track
<1>2. CASE key = "performer"
  BY <1>2 DEF Set, Track
<1>3. CASE key = "index00"
  BY <1>3 DEF Set, Track
<1>4. CASE key = "index01"
  BY <1>4 DEF Set, Track
<1> QED
  BY <1>1, <1>2, <1>3, <1>4

LEMMA RefusedIs ==
    ASSUME NEW a, NEW b, NEW c
    PROVE  Refused(Known(a, b, c)) = Known(a, b, TRUE)
<1>1. \A p : Refused(p) = Set(p, "error", TRUE)
  BY DEF Refused, Set
<1>2. \A val : Set(Known(a, b, c), "error", val) = Known(a, b, val)
  BY SetOfKnown
<1> QED
  BY <1>1, <1>2, Zenon

LEMMA OfSheetIs ==
    ASSUME NEW a, NEW b, NEW c, NEW key, NEW val
    PROVE  OfSheet(Known(a, b, c), key, val) = Known(Set(a, key, val), b, c)
<1>1. \A p : OfSheet(p, key, val) = Set(p, "sheet", Set(p.sheet, key, val))
  BY DEF OfSheet, Set
<1>2. Known(a, b, c).sheet = a
  BY DEF Known
<1> QED
  BY <1>1, <1>2, SetOfKnown

LEMMA SheetGrows ==
    ASSUME NEW s, NEW t, NEW n, Longer(s, t, n)
    PROVE  LET l == t[n + 1]
               sheet == SheetOf(s)
           IN  SheetOf(t) =
                [title |-> IF TrackLines(s) = {} /\ Counts(l, "title")
                           THEN l.val ELSE sheet.title,
                 performer |-> IF TrackLines(s) = {} /\ Counts(l, "performer")
                               THEN l.val ELSE sheet.performer,
                 genre |-> IF Counts(l, "genre") THEN l.val ELSE sheet.genre,
                 date |-> IF Counts(l, "date") THEN l.val ELSE sheet.date,
                 file |-> IF Counts(l, "file") THEN l.val ELSE sheet.file,
                 tracks |-> Tracks(t)]
<1>1. n \in Nat /\ Len(s) + 1 = n + 1 /\ Len(t) + 1 = n + 2 /\ 0 \in 0 .. n
  BY DEF Longer
<1>2. (\E j \in TrackLines(s) : j > 0) <=> TrackLines(s) # {}
  <2>1. \A j \in TrackLines(s) : j \in 1 .. n
    BY TrackLinesGrow
  <2> QED
    BY <1>1, <2>1
<1>3. \A key : key # "track" =>
        LastSaid(t, key, 0, NextTrack(t, 0)) =
            IF TrackLines(s) = {} /\ Counts(t[n + 1], key) THEN t[n + 1].val
            ELSE LastSaid(s, key, 0, NextTrack(s, 0))
  BY <1>1, <1>2, SaidToNext
<1>4. \A key : LastSaid(t, key, 0, Len(t) + 1) =
                    IF Counts(t[n + 1], key) THEN t[n + 1].val
                    ELSE LastSaid(s, key, 0, Len(s) + 1)
  BY <1>1, SaidNow
<1>5. "title" # "track" /\ "performer" # "track"
  OBVIOUS
<1> QED
  BY <1>3, <1>4, <1>5 DEF SheetOf, Tracks

LEMMA RejectedGrows ==
    ASSUME NEW s, NEW t, NEW n, Longer(s, t, n)
    PROVE  /\ Rejected(t) <=> \/ Rejected(s)
                              \/ t[n + 1].key = "file" /\ KeyLines(s, "file") # {}
                              \/ t[n + 1].key = "track" /\ t[n + 1].val = Bad
           /\ KeyLines(t, "file") # {} <=>
                    KeyLines(s, "file") # {} \/ t[n + 1].key = "file"
<1>1. n \in Nat /\ n + 1 \notin 1 .. n /\ \A i \in 1 .. n : t[i] = s[i]
  BY DEF Longer
<1>2. \A key : /\ KeyLines(s, key) \subseteq 1 .. n
               /\ KeyLines(t, key) = IF t[n + 1].key = key THEN KeyLines(s, key) \cup {n + 1}
                                     ELSE KeyLines(s, key)
  BY KeyLinesGrow
<1>3. (\E i, j \in KeyLines(t, "file") : i # j) <=>
            \/ \E i, j \in KeyLines(s, "file") : i # j
            \/ t[n + 1].key = "file" /\ KeyLines(s, "file") # {}
  BY <1>1, <1>2
<1>4. (\E i \in KeyLines(t, "track") : t[i].val = Bad) <=>
            \/ \E i \in KeyLines(s, "track") : s[i].val = Bad
            \/ t[n + 1].key = "track" /\ t[n + 1].val = Bad
  <2>1. /\ KeyLines(s, "track") \subseteq 1 .. n
        /\ KeyLines(t, "track") = IF t[n + 1].key = "track"
                                  THEN KeyLines(s, "track") \cup {n + 1}
                                  ELSE KeyLines(s, "track")
    BY <1>2
  <2> QED
    BY <1>1, <2>1
<1>5. KeyLines(t, "file") # {} <=> KeyLines(s, "file") # {} \/ t[n + 1].key = "file"
  BY <1>2
<1> QED
  BY <1>3, <1>4, <1>5 DEF Rejected

LEMMA LineIsRead ==
    ASSUME NEW s, NEW t, NEW n, Longer(s, t, n), NEW p, Reads(p, s)
    PROVE  Reads(ReadLine(p, t[n + 1]), t)
<1> DEFINE l == t[n + 1]
           sheet == SheetOf(s)
           m == Cardinality(TrackLines(s))
<1> SUFFICES Reads(ReadLine(p, l), t)
  OBVIOUS
<1>1. /\ Rejected(t) <=> \/ Rejected(s)
                         \/ l.key = "file" /\ KeyLines(s, "file") # {}
                         \/ l.key = "track" /\ l.val = Bad
      /\ KeyLines(t, "file") # {} <=> KeyLines(s, "file") # {} \/ l.key = "file"
  BY RejectedGrows
<1>2. SheetOf(t) = Sheet(
        IF TrackLines(s) = {} /\ Counts(l, "title") THEN l.val ELSE sheet.title,
        IF TrackLines(s) = {} /\ Counts(l, "performer") THEN l.val ELSE sheet.performer,
        IF Counts(l, "genre") THEN l.val ELSE sheet.genre,
        IF Counts(l, "date") THEN l.val ELSE sheet.date,
        IF Counts(l, "file") THEN l.val ELSE sheet.file,
        Tracks(t))
  BY SheetGrows DEF Sheet
<1>3. n + 1 \in TrackLines(t) <=> l.key = "track" /\ l.val # None
  BY DEF TrackLines, KeyLines, Longer
<1>4. sheet = Sheet(sheet.title, sheet.performer, sheet.genre, sheet.date, sheet.file,
                    Tracks(s))
  BY DEF SheetOf, Tracks, Sheet
<1>5. /\ m \in Nat /\ DOMAIN Tracks(s) = 1 .. m /\ (m = 0 <=> TrackLines(s) = {})
      /\ \A k \in 1 .. m : \E i : Tracks(s)[k] = TrackAt(s, i)
      /\ l.key = "track" /\ l.val # None =>
            Tracks(t) = [k \in 1 .. m + 1 |->
                            IF k = m + 1 THEN NewTrack(l.val) ELSE Tracks(s)[k]]
      /\ ~(l.key = "track" /\ l.val # None) =>
            Tracks(t) = [k \in 1 .. m |->
                            IF k = m THEN Behind(Tracks(s)[k], l) ELSE Tracks(s)[k]]
  BY <1>3, TracksGrow
<1>6. Tracks(s) = [k \in 1 .. m |-> Tracks(s)[k]] /\ Len(Tracks(s)) = m
  <2>1. Tracks(s) = [k \in 1 .. m |-> TrackAt(s, Nth(TrackLines(s), k))]
    BY DEF Tracks, SheetOf
  <2> QED
    BY <1>5, <2>1
<1>7. Tracks(s) = << >> <=> TrackLines(s) = {}
  BY <1>5, <1>6
<1>8. sheet.tracks = Tracks(s)
  BY DEF Tracks
<1> HIDE DEF l, sheet, m
<1>9. CASE p.error
  <2>1. ReadLine(p, l) = p
    BY <1>9 DEF ReadLine
  <2> QED
    BY <1>1, <1>9, <2>1 DEF Reads
<1>10. CASE ~p.error
  <2>1. /\ p = Known(sheet, p.fileSeen, FALSE) /\ p.sheet = sheet
        /\ p.fileSeen \in BOOLEAN /\ ~Rejected(s)
        /\ p.fileSeen <=> KeyLines(s, "file") # {}
    <3>1. p.error = FALSE
      BY <1>10 DEF Reads
    <3> QED
      BY <3>1 DEF Reads, sheet, Known
  <2> DEFINE seen == p.fileSeen
  <2>2. ASSUME NEW new, NEW any \in BOOLEAN, ReadLine(p, l) = Known(new, any, FALSE),
               new = SheetOf(t), ~Rejected(t), any <=> KeyLines(t, "file") # {}
        PROVE  Reads(ReadLine(p, l), t)
    BY <2>2 DEF Reads, Known
  <2>3. ASSUME Rejected(t), ReadLine(p, l) = Refused(p)
        PROVE  Reads(ReadLine(p, l), t)
    <3>1. ReadLine(p, l) = Known(sheet, seen, TRUE)
      BY <2>1, <2>3, RefusedIs
    <3> QED
      BY <2>1, <2>3, <3>1 DEF Reads, Known
  <2>4. \A key, val : OfSheet(p, key, val) = Known(Set(sheet, key, val), seen, FALSE)
    <3>1. \A key, val, no : OfSheet(Known(sheet, seen, no), key, val) =
                                Known(Set(sheet, key, val), seen, no)
      BY OfSheetIs
    <3>2. \A key, val : OfSheet(Known(sheet, seen, FALSE), key, val) =
                            Known(Set(sheet, key, val), seen, FALSE)
      BY <3>1, Zenon
    <3> QED
      BY <2>1, <3>2
  <2>5. ASSUME NEW key \in {"title", "performer", "genre", "date", "file", "tracks"}, NEW val
        PROVE  Set(sheet, key, val) =
                    Sheet(IF key = "title" THEN val ELSE sheet.title,
                          IF key = "performer" THEN val ELSE sheet.performer,
                          IF key = "genre" THEN val ELSE sheet.genre,
                          IF key = "date" THEN val ELSE sheet.date,
                          IF key = "file" THEN val ELSE sheet.file,
                          IF key = "tracks" THEN val ELSE Tracks(s))
    BY <1>4, SetOfSheet
  <2>6. ASSUME NEW k \in 1 .. m
        PROVE  /\ Tracks(s)[k] = Track(Tracks(s)[k].number, Tracks(s)[k].title,
                        Tracks(s)[k].performer, Tracks(s)[k].index00, Tracks(s)[k].index01)
               /\ Behind(Tracks(s)[k], l) = Track(Tracks(s)[k].number,
                        IF Counts(l, "title") THEN l.val ELSE Tracks(s)[k].title,
                        IF Counts(l, "performer") THEN l.val ELSE Tracks(s)[k].performer,
                        IF Counts(l, "index00") THEN l.val ELSE Tracks(s)[k].index00,
                        IF Counts(l, "index01") THEN l.val ELSE Tracks(s)[k].index01)
    BY <1>5 DEF TrackAt, Behind, Track
  <2>7. ASSUME ~ \E key \in {"title", "performer", "index00", "index01"} : Counts(l, key),
               ~(l.key = "track" /\ l.val # None)
        PROVE  Tracks(t) = Tracks(s)
    <3>1. \A k \in 1 .. m : Behind(Tracks(s)[k], l) = Tracks(s)[k]
      BY <2>6, <2>7
    <3> QED
      BY <1>5, <1>6, <2>7, <3>1
  <2>8. ASSUME NEW key \in {"title", "performer", "index00", "index01"},
                Counts(l, key), TrackLines(s) # {}
        PROVE  OfTrack(p, key, l.val) = Known(Set(sheet, "tracks", Tracks(t)), seen, FALSE)
    <3>1. m \in 1 .. m /\ ~(l.key = "track" /\ l.val # None)
      BY <1>5, <2>8 DEF Counts
    <3> DEFINE track == Tracks(s)[m]
    <3>2. Set(track, key, l.val) =
                Track(track.number,
                      IF key = "title" THEN l.val ELSE track.title,
                      IF key = "performer" THEN l.val ELSE track.performer,
                      IF key = "index00" THEN l.val ELSE track.index00,
                      IF key = "index01" THEN l.val ELSE track.index01)
      BY <2>6, <3>1, SetOfTrack
    <3>3. \A other \in {"title", "performer", "index00", "index01"} :
              Counts(l, other) <=> other = key
      BY <2>8 DEF Counts
    <3>4. Behind(track, l) = Set(track, key, l.val)
      BY <2>6, <3>1, <3>2, <3>3
    <3>5. Set(Tracks(s), m, Set(track, key, l.val)) = Tracks(t)
      <4>1. Tracks(t) = [k \in 1 .. m |->
                            IF k = m THEN Set(track, key, l.val) ELSE Tracks(s)[k]]
        BY <1>5, <3>1, <3>4
      <4>2. \A val : Set(Tracks(s), m, val) =
                        [k \in 1 .. m |-> IF k = m THEN val ELSE Tracks(s)[k]]
        BY <1>5, <1>6 DEF Set
      <4> QED
        BY <4>1, <4>2
    <3>6. OfTrack(p, key, l.val) =
                OfSheet(p, "tracks", Set(Tracks(s), m, Set(Tracks(s)[m], key, l.val)))
      BY <1>6, <1>8, <2>1 DEF OfTrack, Set
    <3> QED
      BY <2>4, <3>5, <3>6
  <2>9. CASE l.key \in {"genre", "date"}
    <3>1. ReadLine(p, l) = OfSheet(p, l.key, l.val)
      BY <1>10, <2>9 DEF ReadLine
    <3>2. \A key : Counts(l, key) <=> key = l.key
      BY <2>9 DEF Counts
    <3>3. Tracks(t) = Tracks(s)
      BY <2>7, <2>9, <3>2
    <3>4. Set(sheet, l.key, l.val) = SheetOf(t)
      BY <1>2, <2>5, <2>9, <3>2, <3>3
    <3> QED
      BY <1>1, <2>1, <2>2, <2>4, <2>9, <3>1, <3>4
  <2>10. CASE l.key \in {"title", "performer"} /\ TrackLines(s) = {}
    <3>1. ReadLine(p, l) = OfSheet(p, l.key, l.val)
      BY <1>7, <1>8, <1>10, <2>1, <2>10 DEF ReadLine
    <3>2. \A key : Counts(l, key) <=> key = l.key
      BY <2>10 DEF Counts
    <3>3. Tracks(t) = Tracks(s)
      BY <1>5, <1>6, <2>10
    <3>4. Set(sheet, l.key, l.val) = SheetOf(t)
      BY <1>2, <2>5, <2>10, <3>2, <3>3
    <3> QED
      BY <1>1, <2>1, <2>2, <2>4, <2>10, <3>1, <3>4
  <2>11. CASE /\ l.key \in {"title", "performer", "index00", "index01"}
              /\ Counts(l, l.key) /\ TrackLines(s) # {}
    <3>1. ReadLine(p, l) = OfTrack(p, l.key, l.val)
      BY <1>7, <1>8, <1>10, <2>1, <2>11 DEF ReadLine, Counts
    <3>2. \A key : Counts(l, key) => key = l.key
      BY DEF Counts
    <3>3. Set(sheet, "tracks", Tracks(t)) = SheetOf(t)
      BY <1>2, <2>5, <2>11, <3>2
    <3> QED
      BY <1>1, <2>1, <2>2, <2>8, <2>11, <3>1, <3>3
  <2>12. CASE l.key = "file"
    <3>1. CASE p.fileSeen
      BY <1>1, <1>10, <2>1, <2>3, <2>12, <3>1 DEF ReadLine
    <3>2. CASE ~p.fileSeen
      <4>1. ReadLine(p, l) = Set(OfSheet(p, "file", l.val), "fileSeen", TRUE)
        BY <1>10, <2>12, <3>2 DEF ReadLine, Set
      <4>2. ReadLine(p, l) = Known(Set(sheet, "file", l.val), TRUE, FALSE)
        <5>1. \A val, no : Set(Known(Set(sheet, "file", l.val), seen, no), "fileSeen", val) =
                              Known(Set(sheet, "file", l.val), val, no)
          BY SetOfKnown
        <5> QED
          BY <2>4, <4>1, <5>1, Zenon
      <4>3. \A key : Counts(l, key) <=> key = "file"
        BY <2>12 DEF Counts
      <4>4. Tracks(t) = Tracks(s)
        BY <2>7, <2>12, <4>3
      <4>5. Set(sheet, "file", l.val) = SheetOf(t)
        BY <1>2, <2>5, <4>3, <4>4
      <4>6. ~Rejected(t) /\ KeyLines(t, "file") # {}
        BY <1>1, <2>1, <2>12, <3>2
      <4> QED
        BY <2>2, <4>2, <4>5, <4>6
    <3> QED
      BY <3>1, <3>2
  <2>13. CASE l.key = "track" /\ l.val = Bad
    BY <1>1, <1>10, <2>3, <2>13, MarksAssumption DEF ReadLine
  <2>14. CASE l.key = "track" /\ l.val \notin {None, Bad}
    <3>1. ReadLine(p, l) = OfSheet(p, "tracks", Append(Tracks(s), NewTrack(l.val)))
      BY <1>8, <1>10, <2>1, <2>14 DEF ReadLine
    <3>2. Append(Tracks(s), NewTrack(l.val)) = Tracks(t)
      <4>1. Tracks(s) \in Seq({Tracks(s)[k] : k \in 1 .. m})
        BY <1>5, <1>6
      <4>2. \A k \in 1 .. m + 1 : k = m + 1 \/ k \in 1 .. m
        BY <1>5
      <4>3. Append(Tracks(s), NewTrack(l.val)) =
                [k \in 1 .. m + 1 |-> IF k = m + 1 THEN NewTrack(l.val) ELSE Tracks(s)[k]]
        BY <1>5, <1>6, <4>1, <4>2
      <4> QED
        BY <1>5, <2>14, <4>3
    <3>3. \A key : key # "track" => ~Counts(l, key)
      BY <2>14 DEF Counts
    <3>4. Set(sheet, "tracks", Tracks(t)) = SheetOf(t)
      BY <1>2, <2>5, <3>3
    <3> QED
      BY <1>1, <2>1, <2>2, <2>4, <2>14, <3>1, <3>2, <3>4
  <2>15. CASE \/ l.key = "track" /\ l.val = None
              \/ /\ l.key \in {"index00", "index01"}
                 /\ ~(Counts(l, l.key) /\ TrackLines(s) # {})
              \/ l.key \notin {"genre", "date", "title", "performer", "file", "track",
                                "index00", "index01"}
    <3>1. ReadLine(p, l) = p
      BY <1>7, <1>8, <1>10, <2>1, <2>15, MarksAssumption DEF ReadLine, Counts
    <3>2. \A key \in {"title", "performer", "genre", "date", "file"} : ~Counts(l, key)
      BY <2>15 DEF Counts
    <3>3. Tracks(t) = Tracks(s)
      <4>1. CASE TrackLines(s) = {}
        BY <1>5, <1>6, <2>15, <4>1
      <4>2. CASE TrackLines(s) # {}
        BY <2>7, <2>15, <4>2 DEF Counts
      <4> QED
        BY <4>1, <4>2
    <3>4. sheet = SheetOf(t)
      BY <1>2, <1>4, <3>2, <3>3
    <3> QED
      BY <1>1, <2>1, <2>2, <2>15, <3>1, <3>4, MarksAssumption
  <2> QED
    BY <2>9, <2>10, <2>11, <2>12, <2>13, <2>14, <2>15 DEF Counts
<1> QED
  BY <1>9, <1>10
----------------------------------------------------------------------------
(* The loop.                                                               *)

LEMMA ReadingIs ==
    ASSUME NEW lines, Len(lines) \in Nat
    PROVE  Reading(lines) =
                [i \in 0 .. Len(lines) |->
                    IF i = 0 THEN Unread ELSE ReadLine(Reading(lines)[i - 1], lines[i])]
<1> DEFINE Read(n, g) == g = [i \in 0 .. n |-> IF i = 0 THEN Unread
                                                ELSE ReadLine(g[i - 1], lines[i])]
           T == {n \in Nat : \E g : Read(n, g)}
<1>1. 0 \in T
  <2>1. Read(0, [i \in 0 .. 0 |-> Unread])
    OBVIOUS
  <2> QED
    BY <2>1
<1>2. ASSUME NEW n \in Nat, n \in T
      PROVE  n + 1 \in T
  <2>1. PICK g : Read(n, g)
    BY <1>2
  <2> DEFINE h == [i \in 0 .. n + 1 |-> IF i = n + 1 THEN ReadLine(g[n], lines[n + 1])
                                         ELSE g[i]]
  <2>2. ASSUME NEW i \in 0 .. n + 1
        PROVE  h[i] = IF i = 0 THEN Unread ELSE ReadLine(h[i - 1], lines[i])
    <3>1. CASE i = n + 1
      BY <3>1
    <3>2. CASE i = 0
      BY <2>1, <3>2
    <3>3. CASE i \in 1 .. n
      <4>1. h[i] = g[i] /\ h[i - 1] = g[i - 1]
        BY <3>3
      <4>2. g[i] = ReadLine(g[i - 1], lines[i])
        BY <2>1, <3>3
      <4> QED
        BY <3>3, <4>1, <4>2
    <3> QED
      BY <3>1, <3>2, <3>3
  <2>3. Read(n + 1, h)
    BY <2>2
  <2> HIDE DEF Read, h
  <2> QED
    BY <2>3
<1> HIDE DEF T
<1>3. Len(lines) \in T
  BY <1>1, <1>2, Induction
<1>4. \E g : Read(Len(lines), g)
  BY <1>3 DEF T
<1>5. Reading(lines) = CHOOSE g : Read(Len(lines), g)
  BY DEF Reading
<1> QED
  BY <1>4, <1>5

\* No lines say nothing.
LEMMA NothingIsRead ==
    ASSUME NEW lines, DOMAIN lines = 1 .. 0, Len(lines) = 0
    PROVE  Reads(Unread, lines)
<1>1. \A key : KeyLines(lines, key) = {}
  BY DEF KeyLines
<1>2. TrackLines(lines) = {}
  BY <1>1 DEF TrackLines
<1>3. \A key, from, to : LastSaid(lines, key, from, to) = None
  BY <1>1 DEF LastSaid
<1>4. Cardinality({}) = 0
  BY FS_EmptySet
<1>5. SheetOf(lines) = NoSheet
  BY <1>2, <1>3, <1>4 DEF SheetOf, NoSheet
<1>6. ~Rejected(lines)
  BY <1>1 DEF Rejected
<1> QED
  BY <1>1, <1>5, <1>6 DEF Reads, Unread

(***************************************************************************)
(* Behind every line the reader knows what the lines up to it say, and is  *)
(* refused when they are rejected: ParseCue returns the sheet of its       *)
(* description SheetOf, or an error for a second FILE line or a TRACK line *)
(* that does not begin with a number, however long the cue is.             *)
(***************************************************************************)
THEOREM CueIsRead ==
    ASSUME NEW lines, lines \in Seq(ToSet(lines))
    PROVE  ParseCue(lines) = IF Rejected(lines) THEN Bad ELSE SheetOf(lines)
<1> DEFINE prefix(n) == [i \in 1 .. n |-> lines[i]]
           T == {n \in Nat : n <= Len(lines) => Reads(Reading(lines)[n], prefix(n))}
<1>1. Len(lines) \in Nat /\ prefix(Len(lines)) = lines
  OBVIOUS
<1>2. /\ Reading(lines)[0] = Unread
      /\ \A i \in 1 .. Len(lines) :
            Reading(lines)[i] = ReadLine(Reading(lines)[i - 1], lines[i])
  BY <1>1, ReadingIs
<1>3. 0 \in T
  <2>1. DOMAIN prefix(0) = 1 .. 0 /\ Len(prefix(0)) = 0
    OBVIOUS
  <2> HIDE DEF prefix
  <2> QED
    BY <1>2, <2>1, NothingIsRead
<1>4. ASSUME NEW n \in Nat, n \in T
      PROVE  n + 1 \in T
  <2> SUFFICES ASSUME n + 1 <= Len(lines)
               PROVE  Reads(Reading(lines)[n + 1], prefix(n + 1))
    OBVIOUS
  <2>1. Longer(prefix(n), prefix(n + 1), n) /\ prefix(n + 1)[n + 1] = lines[n + 1]
    BY DEF Longer
  <2>2. /\ n + 1 \in 1 .. Len(lines) /\ (n + 1) - 1 = n
        /\ Reads(Reading(lines)[n], prefix(n))
    BY <1>1, <1>4
  <2>3. Reading(lines)[n + 1] = ReadLine(Reading(lines)[n], lines[n + 1])
    BY <1>2, <2>2
  <2> HIDE DEF prefix
  <2> QED
    BY <2>1, <2>2, <2>3, LineIsRead
<1> HIDE DEF T
<1>5. Len(lines) \in T
  BY <1>1, <1>3, <1>4, Induction
<1>6. Reads(Reading(lines)[Len(lines)], lines)
  BY <1>1, <1>5 DEF T
<1> QED
  BY <1>6 DEF ParseCue, Reads
=============================================================================

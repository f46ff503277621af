--------------------------- MODULE CoreLogProofs ---------------------------
(***************************************************************************)
(* Proofs about what is done with the output of the core.                  *)
(*                                                                         *)
(* LogWriter: the writer holds the right file, the log stays within its    *)
(* limit, and what a trim keeps is the newest output, for every length of  *)
(* the chunks, every limit and every number of failures.                   *)
(*                                                                         *)
(* LogWatchers: every line is reported once and every fatal line is seen,  *)
(* for any number of streams, however the output is cut into chunks, and   *)
(* for every limit of the line buffer.                                     *)
(***************************************************************************)
EXTENDS LogWriter, LogWatchers, FiniteSetTheorems, SequenceTheorems, WellFoundedInduction,
        NaturalsInduction, TLAPS

----------------------------------------------------------------------------
(* Greatest and least elements *)

\* A function with integer values has a greatest one on a finite set: a
\* smallest set on which it had none would have none without one of its
\* elements either.
LEMMA Greatest ==
  ASSUME NEW S, IsFiniteSet(S), S # {}, NEW f \in [S -> Int]
  PROVE  \E x \in S : \A y \in S : f[y] <= f[x]
<1> SUFFICES ASSUME ~\E x \in S : \A y \in S : f[y] <= f[x] PROVE FALSE
  OBVIOUS
<1> DEFINE Has(T) == \E x \in T : \A y \in T : f[y] <= f[x]
           Bad == {T \in FiniteSubsetsOf(S) : T # {} /\ ~Has(T)}
<1>1. S \in Bad
  BY DEF FiniteSubsetsOf
<1>2. PICK T \in Bad : \A U \in Bad : ~(<<U, T>> \in StrictSubsetOrdering(S))
  <2>1. Bad \subseteq FiniteSubsetsOf(S) /\ Bad # {}
    BY <1>1
  <2>2. IsWellFoundedOn(StrictSubsetOrdering(S), FiniteSubsetsOf(S))
    BY FS_StrictSubsetOrderingWellFounded
  <2> HIDE DEF Bad
  <2> QED BY <2>1, <2>2, WFMin
<1>3. PICK x \in T : TRUE
  BY <1>2
<1> DEFINE U == T \ {x}
<1>4. U \in FiniteSubsetsOf(S) /\ <<U, T>> \in StrictSubsetOrdering(S)
  BY <1>2, <1>3, FS_RemoveElement, FS_Subset DEF FiniteSubsetsOf, StrictSubsetOrdering
<1>5. U = {} \/ Has(U)
  BY <1>2, <1>4
<1>6. T \subseteq S
  BY <1>2 DEF FiniteSubsetsOf
<1>7. CASE U = {}
  BY <1>2, <1>3, <1>6, <1>7
<1>8. CASE Has(U)
  <2>1. PICK u \in U : \A y \in U : f[y] <= f[u]
    BY <1>8
  <2>2. CASE f[x] <= f[u]
    BY <1>2, <1>6, <2>1, <2>2
  <2>3. CASE ~(f[x] <= f[u])
    <3>1. \A y \in T : f[y] <= f[x]
      BY <1>3, <1>6, <2>1, <2>3
    <3> QED BY <1>2, <1>3, <3>1
  <2> QED BY <2>2, <2>3
<1> QED BY <1>5, <1>7, <1>8

\* The greatest element of a finite set of integers.
LEMMA MaxFacts ==
  ASSUME NEW S \in SUBSET Int, IsFiniteSet(S), S # {}
  PROVE  Max(S) \in S /\ \A y \in S : y <= Max(S)
<1>1. \E x \in S : \A y \in S : x >= y
  <2> DEFINE f == [x \in S |-> x]
  <2>1. PICK x \in S : \A y \in S : f[y] <= f[x]
    <3>1. f \in [S -> Int]
      OBVIOUS
    <3> HIDE DEF f
    <3> QED BY <3>1, Greatest
  <2> QED BY <2>1
<1> QED BY <1>1 DEF Max

\* The least element of a finite set of integers.
LEMMA MinFacts ==
  ASSUME NEW S \in SUBSET Int, IsFiniteSet(S), S # {}
  PROVE  Min(S) \in S /\ \A y \in S : Min(S) <= y
<1>1. \E x \in S : \A y \in S : x =< y
  <2> DEFINE f == [x \in S |-> -x]
  <2>1. PICK x \in S : \A y \in S : f[y] <= f[x]
    <3>1. f \in [S -> Int]
      OBVIOUS
    <3> HIDE DEF f
    <3> QED BY <3>1, Greatest
  <2> QED BY <2>1
<1> QED BY <1>1 DEF Min

----------------------------------------------------------------------------
(* Text *)

\* A text and its length.
LEMMA TextFacts ==
  ASSUME NEW t \in Text
  PROVE  /\ Len(t) \in Nat /\ DOMAIN t = 1..Len(t)
         /\ \A i \in 1..Len(t) : t[i] \in Bytes \cup {LineFeed}
BY LenProperties DEF Text

\* Two texts are the same when their bytes are.
LEMMA TextEqual ==
  ASSUME NEW s \in Text, NEW t \in Text, Len(s) = Len(t), \A i \in 1..Len(s) : s[i] = t[i]
  PROVE  s = t
BY SeqEqual DEF Text

\* The bytes of a part of a text.
LEMMA PartFacts ==
  ASSUME NEW t \in Text, NEW m \in Nat, NEW n \in 0..Len(t), 1 <= m
  PROVE  /\ SubSeq(t, m, n) \in Text
         /\ Len(SubSeq(t, m, n)) = IF m <= n THEN n - m + 1 ELSE 0
         /\ \A i \in 1..(n - m + 1) : SubSeq(t, m, n)[i] = t[m + i - 1]
<1>1. \A i \in m..n : t[i] \in Bytes \cup {LineFeed}
  BY TextFacts
<1>2. m \in Int /\ n \in Int
  BY TextFacts
<1> QED BY <1>1, <1>2, SubSeqProperties DEF Text

\* Texts one after the other.
LEMMA ConcatFacts ==
  ASSUME NEW s \in Text, NEW t \in Text
  PROVE  /\ s \o t \in Text
         /\ Len(s \o t) = Len(s) + Len(t)
         /\ \A i \in 1..(Len(s) + Len(t)) :
              (s \o t)[i] = IF i <= Len(s) THEN s[i] ELSE t[i - Len(s)]
BY ConcatProperties DEF Text

\* s is what t ends with.
Suffix(s, t) ==
  Len(s) <= Len(t) /\ \A i \in 1..Len(s) : s[i] = t[Len(t) - Len(s) + i]

\* The last bytes of a text are a suffix of it.
LEMMA LastBytesFacts ==
  ASSUME NEW t \in Text, NEW n \in Nat
  PROVE  /\ LastBytes(t, n) \in Text
         /\ Len(LastBytes(t, n)) = IF Len(t) <= n THEN Len(t) ELSE n
         /\ Suffix(LastBytes(t, n), t)
<1>1. CASE Len(t) <= n
  BY <1>1, TextFacts DEF LastBytes, Suffix
<1>2. CASE ~(Len(t) <= n)
  <2>1. Len(t) \in Nat /\ Len(t) - n + 1 \in Nat /\ 1 <= Len(t) - n + 1
    BY <1>2, TextFacts
  <2>2. LastBytes(t, n) = SubSeq(t, Len(t) - n + 1, Len(t))
    BY <1>2 DEF LastBytes
  <2> QED BY <1>2, <2>1, <2>2, PartFacts DEF Suffix
<1> QED BY <1>1, <1>2

\* What TailKept says of the content of a file is that it is a suffix.
LEMMA SuffixIsLast ==
  ASSUME NEW s \in Text, NEW t \in Text
  PROVE  Suffix(s, t) <=> s = LastBytes(t, Len(s))
<1> DEFINE u == LastBytes(t, Len(s))
<1>1. Len(s) \in Nat /\ Len(t) \in Nat
  BY TextFacts
<1>2. u \in Text /\ Len(u) = (IF Len(t) <= Len(s) THEN Len(t) ELSE Len(s)) /\ Suffix(u, t)
  BY <1>1, LastBytesFacts
<1> HIDE DEF u
<1>3. ASSUME Suffix(s, t) PROVE s = u
  <2>1. Len(u) = Len(s)
    BY <1>1, <1>2, <1>3 DEF Suffix
  <2>2. ASSUME NEW i \in 1..Len(s) PROVE s[i] = u[i]
    BY <1>2, <1>3, <2>1 DEF Suffix
  <2> QED BY <1>2, <2>1, <2>2, TextEqual
<1>4. s = u => Suffix(s, t)
  BY <1>2
<1> QED BY <1>3, <1>4 DEF u

\* A suffix of a suffix.
LEMMA SuffixTrans ==
  ASSUME NEW s \in Text, NEW t \in Text, NEW u \in Text, Suffix(s, t), Suffix(t, u)
  PROVE  Suffix(s, u)
<1>1. Len(s) \in Nat /\ Len(t) \in Nat /\ Len(u) \in Nat
  BY TextFacts
<1>2. ASSUME NEW i \in 1..Len(s) PROVE s[i] = u[Len(u) - Len(s) + i]
  <2>1. s[i] = t[Len(t) - Len(s) + i]
    BY DEF Suffix
  <2>2. Len(t) - Len(s) + i \in 1..Len(t)
    BY <1>1 DEF Suffix
  <2>3. t[Len(t) - Len(s) + i] = u[Len(u) - Len(t) + (Len(t) - Len(s) + i)]
    BY <2>2 DEF Suffix
  <2> QED BY <1>1, <2>1, <2>3
<1> QED BY <1>1, <1>2 DEF Suffix

\* What is appended to both is appended to the suffix.
LEMMA SuffixAppend ==
  ASSUME NEW s \in Text, NEW t \in Text, NEW u \in Text, Suffix(s, t)
  PROVE  Suffix(s \o u, t \o u)
<1>1. Len(s) \in Nat /\ Len(t) \in Nat /\ Len(u) \in Nat
  BY TextFacts
<1>2. ASSUME NEW i \in 1..(Len(s) + Len(u)) PROVE (s \o u)[i] = (t \o u)[Len(t) - Len(s) + i]
  <2>1. Len(t) - Len(s) + i \in 1..(Len(t) + Len(u))
    BY <1>1 DEF Suffix
  <2>2. CASE i <= Len(s)
    <3>1. (s \o u)[i] = s[i] /\ (t \o u)[Len(t) - Len(s) + i] = t[Len(t) - Len(s) + i]
      BY <1>1, <2>1, <2>2, ConcatFacts
    <3> QED BY <1>1, <2>2, <3>1 DEF Suffix
  <2>3. CASE ~(i <= Len(s))
    <3>1. (s \o u)[i] = u[i - Len(s)]
      BY <1>1, <2>3, ConcatFacts
    <3>2. (t \o u)[Len(t) - Len(s) + i] = u[(Len(t) - Len(s) + i) - Len(t)]
      BY <1>1, <2>1, <2>3, ConcatFacts
    <3> QED BY <1>1, <3>1, <3>2
  <2> QED BY <2>2, <2>3
<1> QED BY <1>1, <1>2, ConcatFacts DEF Suffix

----------------------------------------------------------------------------
(* Lines and trims *)

\* The limit that a trim aims at is a positive part of the limit.
LEMMA TargetFacts ==
  ASSUME NEW m \in Nat \ {0}
  PROVE  TargetBytes(m) \in Nat /\ 1 <= TargetBytes(m) /\ TargetBytes(m) <= m
BY DEF TargetBytes

\* A larger limit keeps more.
LEMMA TargetMonotone ==
  ASSUME NEW m \in Nat \ {0}, NEW n \in Nat \ {0}, m <= n
  PROVE  TargetBytes(m) <= TargetBytes(n)
BY DEF TargetBytes

\* Line feeds are places in the text.
LEMMA LineFeedFacts ==
  ASSUME NEW t \in Text
  PROVE  LineFeeds(t) \in SUBSET (1..Len(t)) /\ IsFiniteSet(LineFeeds(t))
<1>1. LineFeeds(t) \in SUBSET (1..Len(t))
  BY TextFacts DEF LineFeeds
<1>2. IsFiniteSet(1..Len(t))
  <2>1. Len(t) \in Int
    BY TextFacts
  <2> QED BY <2>1, FS_Interval
<1> QED BY <1>1, <1>2, FS_Subset

\* Where the last line of a text starts: behind this place.
Start(t) == Max({0} \cup (LineFeeds(t) \ {Len(t)}))

\* The last line is what follows the last line feed that something follows.
LEMMA StartFacts ==
  ASSUME NEW t \in Text
  PROVE  /\ Start(t) \in 0..Len(t)
         /\ Start(t) = 0 \/ Start(t) \in LineFeeds(t) \ {Len(t)}
         /\ \A i \in LineFeeds(t) \ {Len(t)} : i <= Start(t)
         /\ Len(LastLine(t)) = Len(t) - Start(t)
<1> DEFINE E == {0} \cup (LineFeeds(t) \ {Len(t)})
<1>1. Len(t) \in Nat
  BY TextFacts
<1>2. E \in SUBSET (0..Len(t)) /\ E # {} /\ 0 \in E
  BY <1>1, LineFeedFacts
<1>3. IsFiniteSet(E)
  <2>1. IsFiniteSet(0..Len(t))
    BY <1>1, FS_Interval
  <2> QED BY <1>2, <2>1, FS_Subset
<1>4. E \in SUBSET Int
  BY <1>1, <1>2
<1> HIDE DEF E
<1>5. Max(E) \in E /\ \A y \in E : y <= Max(E)
  BY <1>2, <1>3, <1>4, MaxFacts
<1>6. Start(t) = Max(E)
  BY DEF Start, E
<1>7. Start(t) \in 0..Len(t)
  BY <1>2, <1>5, <1>6
<1>8. LastLine(t) = SubSeq(t, Start(t) + 1, Len(t))
  BY <1>6 DEF LastLine, From, Start
<1>9. Len(LastLine(t)) = Len(t) - Start(t)
  <2>1. Start(t) + 1 \in Nat /\ 1 <= Start(t) + 1 /\ Len(t) \in 0..Len(t)
    BY <1>1, <1>7
  <2>2. Len(SubSeq(t, Start(t) + 1, Len(t))) = IF Start(t) + 1 <= Len(t) THEN Len(t) - (Start(t) + 1) + 1 ELSE 0
    BY <2>1, PartFacts
  <2> QED BY <1>1, <1>7, <1>8, <2>2
<1> QED BY <1>5, <1>6, <1>7, <1>9 DEF E

\* readLogTail: what is kept fits, is a suffix, and is cut at most behind a
\* line feed that something follows.
LEMMA LogTailFacts ==
  ASSUME NEW t \in Text, NEW n \in Nat
  PROVE  /\ LogTail(t, n) \in Text
         /\ Len(LogTail(t, n)) <= n /\ Suffix(LogTail(t, n), t)
         /\ \/ Len(LogTail(t, n)) = Len(LastBytes(t, n))
            \/ \E j \in LineFeeds(t) \ {Len(t)} : Len(LogTail(t, n)) = Len(t) - j
<1> DEFINE tail == LastBytes(t, n)
<1>1. Len(t) \in Nat
  BY TextFacts
<1>2. tail \in Text /\ Len(tail) = (IF Len(t) <= n THEN Len(t) ELSE n) /\ Suffix(tail, t)
  BY LastBytesFacts
<1> HIDE DEF tail
<1>3. Len(tail) \in Nat /\ Len(tail) <= n
  BY <1>1, <1>2
<1>4. CASE Len(t) > n /\ \E i \in LineFeeds(tail) : i < Len(tail)
  <2> DEFINE i == Min(LineFeeds(tail))
             cut == SubSeq(tail, i + 1, Len(tail))
  <2>1. LogTail(t, n) = cut
    BY <1>4 DEF LogTail, From, tail
  <2>2. LineFeeds(tail) \in SUBSET Int /\ IsFiniteSet(LineFeeds(tail)) /\ LineFeeds(tail) # {}
    BY <1>2, <1>3, <1>4, LineFeedFacts
  <2>3. i \in LineFeeds(tail) /\ \A y \in LineFeeds(tail) : i <= y
    BY <2>2, MinFacts
  <2>4. i \in 1..Len(tail) /\ i < Len(tail) /\ tail[i] = LineFeed
    <3>1. i \in 1..Len(tail) /\ tail[i] = LineFeed
      BY <1>2, <2>3, LineFeedFacts DEF LineFeeds
    <3>2. PICK y \in LineFeeds(tail) : y < Len(tail)
      BY <1>4
    <3>3. i <= y /\ y \in Int
      BY <2>2, <2>3, <3>2
    <3> HIDE DEF i
    <3> QED BY <1>3, <3>1, <3>2, <3>3
  <2> HIDE DEF i
  <2>5. /\ cut \in Text /\ Len(cut) = Len(tail) - i
        /\ \A k \in 1..(Len(tail) - i) : cut[k] = tail[i + k]
    <3>1. i + 1 \in Nat /\ 1 <= i + 1 /\ Len(tail) \in 0..Len(tail) /\ i + 1 <= Len(tail)
      BY <1>3, <2>4
    <3>2. /\ cut \in Text /\ Len(cut) = Len(tail) - (i + 1) + 1
          /\ \A k \in 1..(Len(tail) - (i + 1) + 1) : cut[k] = tail[(i + 1) + k - 1]
      BY <1>2, <3>1, PartFacts
    <3>3. Len(tail) - (i + 1) + 1 = Len(tail) - i /\ \A k \in Int : (i + 1) + k - 1 = i + k
      BY <1>3, <2>4
    <3> HIDE DEF cut
    <3>4. ASSUME NEW k \in 1..(Len(tail) - i) PROVE cut[k] = tail[i + k]
      <4>1. k \in 1..(Len(tail) - (i + 1) + 1) /\ (i + 1) + k - 1 = i + k
        BY <3>3
      <4>2. cut[k] = tail[(i + 1) + k - 1]
        BY <3>2, <4>1
      <4> QED BY <4>1, <4>2
    <3> QED BY <3>2, <3>3, <3>4
  <2>6. Suffix(cut, tail)
    <3> HIDE DEF cut
    <3>1. ASSUME NEW k \in 1..Len(cut) PROVE cut[k] = tail[Len(tail) - Len(cut) + k]
      BY <1>3, <2>4, <2>5
    <3> QED BY <1>3, <2>4, <2>5, <3>1 DEF Suffix
  <2>7. Suffix(cut, t)
    BY <1>2, <2>5, <2>6, SuffixTrans
  <2> DEFINE j == Len(t) - Len(tail) + i
  <2>8. j \in LineFeeds(t) \ {Len(t)} /\ Len(cut) = Len(t) - j
    <3>1. j \in 1..Len(t) /\ j # Len(t) /\ Len(t) - j = Len(tail) - i
      BY <1>1, <1>2, <1>3, <2>4 DEF Suffix
    <3>2. t[j] = tail[i]
      BY <1>2, <2>4 DEF Suffix
    <3> QED BY <2>4, <2>5, <3>1, <3>2, TextFacts DEF LineFeeds
  <2> HIDE DEF cut, j
  <2>9. Len(cut) <= n
    BY <1>3, <2>4, <2>5
  <2> QED BY <2>1, <2>5, <2>7, <2>8, <2>9
<1>5. CASE ~(Len(t) > n /\ \E i \in LineFeeds(tail) : i < Len(tail))
  <2>1. LogTail(t, n) = tail
    BY <1>5 DEF LogTail, tail
  <2> QED BY <1>2, <1>3, <2>1 DEF tail
<1> QED BY <1>4, <1>5

\* The least that a trim aims at.
Least == TargetBytes(Min(Sizes))

\* The limits: the least one, and what every trim aims at.
LEMMA LeastFacts ==
  /\ Least \in Nat /\ Max(Sizes) \in Nat
  /\ \A m \in Sizes : m \in Nat \ {0} /\ m <= Max(Sizes) /\ Least <= TargetBytes(m)
<1>1. Sizes \in SUBSET Int /\ IsFiniteSet(Sizes) /\ Sizes # {} /\ Sizes \subseteq Nat \ {0}
  BY SizesAssumption
<1>2. Min(Sizes) \in Sizes /\ \A m \in Sizes : Min(Sizes) <= m
  BY <1>1, MinFacts
<1>3. Max(Sizes) \in Sizes /\ \A m \in Sizes : m <= Max(Sizes)
  BY <1>1, MaxFacts
<1> QED BY <1>1, <1>2, <1>3, TargetFacts, TargetMonotone DEF Least

\* TailKept for one file: its content and all that was appended to it.
KeptTail(d, a) ==
  Suffix(d, a) /\ (Len(LastLine(a)) <= Least => Len(LastLine(a)) <= Len(d))

\* A file from which nothing was dropped.
LEMMA KeptWhole ==
  ASSUME NEW t \in Text
  PROVE  KeptTail(t, t)
<1>1. Len(t) \in Nat
  BY TextFacts
<1>2. Len(LastLine(t)) <= Len(t)
  BY <1>1, StartFacts
<1> QED BY <1>1, <1>2 DEF KeptTail, Suffix

\* Output is appended: a last line that begins in it is kept, and one that
\* began before it grows by it in the file as well.
LEMMA KeptAppend ==
  ASSUME NEW d \in Text, NEW a \in Text, NEW u \in Text, KeptTail(d, a)
  PROVE  KeptTail(d \o u, a \o u)
<1>1. Suffix(d \o u, a \o u)
  BY SuffixAppend DEF KeptTail
<1> SUFFICES ASSUME Len(LastLine(a \o u)) <= Least
             PROVE  Len(LastLine(a \o u)) <= Len(d \o u)
  BY <1>1 DEF KeptTail
<1> DEFINE b == a \o u
<1>2. /\ Len(a) \in Nat /\ Len(d) \in Nat /\ Len(u) \in Nat
      /\ b \in Text /\ Len(b) = Len(a) + Len(u) /\ Len(d \o u) = Len(d) + Len(u)
  BY TextFacts, ConcatFacts
<1>3. ASSUME NEW i \in 1..Len(a) PROVE b[i] = a[i]
  BY <1>2, ConcatFacts
<1> HIDE DEF b
<1>4. /\ Start(b) \in 0..Len(b) /\ Start(a) \in 0..Len(a)
      /\ Len(LastLine(b)) = Len(b) - Start(b) /\ Len(LastLine(a)) = Len(a) - Start(a)
  BY <1>2, StartFacts
<1>5. CASE Start(b) >= Len(a)
  BY <1>2, <1>4, <1>5 DEF b
<1>6. CASE Start(b) < Len(a)
  <2>1. Start(b) <= Start(a)
    <3>1. CASE Start(b) = 0
      BY <1>4, <3>1
    <3>2. CASE Start(b) # 0
      <4>0. Start(b) = 0 \/ Start(b) \in LineFeeds(b)
        BY <1>2, StartFacts
      <4>1. Start(b) \in LineFeeds(b) /\ Start(b) \in 1..Len(a)
        BY <1>2, <1>4, <1>6, <3>2, <4>0
      <4>2. a[Start(b)] = LineFeed
        BY <1>3, <4>1 DEF LineFeeds
      <4>3. Start(b) \in LineFeeds(a) \ {Len(a)}
        BY <1>2, <1>6, <4>1, <4>2, TextFacts DEF LineFeeds
      <4> QED BY <4>3, StartFacts
    <3> QED BY <3>1, <3>2
  <2>2. Start(a) <= Start(b)
    <3>1. CASE Start(a) = 0
      BY <1>4, <3>1
    <3>2. CASE Start(a) # 0
      <4>1. Start(a) \in LineFeeds(a) \ {Len(a)} /\ Start(a) \in 1..Len(a)
        BY <1>2, <1>4, <3>2, StartFacts
      <4>2. b[Start(a)] = LineFeed
        BY <1>3, <4>1 DEF LineFeeds
      <4>3. Start(a) \in LineFeeds(b) \ {Len(b)}
        BY <1>2, <4>1, <4>2, TextFacts DEF LineFeeds
      <4> QED BY <1>2, <4>3, StartFacts
    <3> QED BY <3>1, <3>2
  <2>3. Start(a) = Start(b) /\ Least \in Nat
    BY <1>4, <2>1, <2>2, LeastFacts
  <2>4. Len(LastLine(b)) <= Least
    BY DEF b
  <2>5. Len(LastLine(a)) <= Least
    BY <1>2, <1>4, <2>3, <2>4
  <2>6. Len(LastLine(a)) <= Len(d)
    BY <2>5 DEF KeptTail
  <2> QED BY <1>2, <1>4, <2>3, <2>6 DEF b
<1> QED BY <1>2, <1>4, <1>5, <1>6

\* The file is trimmed: a cut is made behind a line feed that something
\* follows, and so not within the last line.
LEMMA KeptTrim ==
  ASSUME NEW d \in Text, NEW a \in Text, KeptTail(d, a), NEW m \in Sizes
  PROVE  LET tail == LogTail(d, TargetBytes(m))
         IN  tail \in Text /\ Len(tail) <= m /\ Len(tail) <= Len(d) /\ KeptTail(tail, a)
<1> DEFINE n == TargetBytes(m)
           tail == LogTail(d, n)
<1>1. n \in Nat /\ n <= m /\ Least \in Nat /\ Least <= n /\ m \in Nat
  BY LeastFacts, TargetFacts
<1> HIDE DEF n
<1>2. /\ tail \in Text /\ Len(tail) <= n /\ Suffix(tail, d)
      /\ \/ Len(tail) = Len(LastBytes(d, n))
         \/ \E j \in LineFeeds(d) \ {Len(d)} : Len(tail) = Len(d) - j
  BY <1>1, LogTailFacts
<1> HIDE DEF tail
<1>3. Len(d) \in Nat /\ Len(a) \in Nat /\ Len(tail) \in Nat
  BY <1>2, TextFacts
<1>4. Suffix(tail, a)
  BY <1>2, SuffixTrans DEF KeptTail
<1>5. ASSUME Len(LastLine(a)) <= Least PROVE Len(LastLine(a)) <= Len(tail)
  <2>1. Len(LastLine(a)) = Len(a) - Start(a) /\ Start(a) \in 0..Len(a)
    BY StartFacts
  <2>2. Len(LastLine(a)) <= Len(d)
    BY <1>5 DEF KeptTail
  <2>3. CASE Len(tail) = Len(LastBytes(d, n))
    <3>1. Len(LastBytes(d, n)) = IF Len(d) <= n THEN Len(d) ELSE n
      BY <1>1, LastBytesFacts
    <3> QED BY <1>1, <1>3, <1>5, <2>1, <2>2, <2>3, <3>1
  <2>4. ASSUME NEW j \in LineFeeds(d) \ {Len(d)}, Len(tail) = Len(d) - j
        PROVE  Len(LastLine(a)) <= Len(tail)
    <3> DEFINE k == Len(a) - Len(d) + j
    <3>1. j \in 1..Len(d) /\ j # Len(d) /\ d[j] = LineFeed
      BY <2>4, LineFeedFacts DEF LineFeeds
    <3>2. Len(d) <= Len(a) /\ a[k] = d[j]
      BY <3>1 DEF KeptTail, Suffix
    <3>3. k \in 1..Len(a) /\ k # Len(a) /\ Len(a) - k = Len(tail)
      BY <1>3, <2>4, <3>1, <3>2
    <3> HIDE DEF k
    <3>4. k \in LineFeeds(a) \ {Len(a)}
      BY <3>1, <3>2, <3>3, TextFacts DEF LineFeeds
    <3>5. k <= Start(a)
      BY <3>4, StartFacts
    <3> QED BY <1>3, <2>1, <3>3, <3>5
  <2> QED BY <1>2, <2>3, <2>4
<1>6. Len(tail) <= m /\ Len(tail) <= Len(d)
  BY <1>1, <1>2, <1>3 DEF Suffix
<1>7. tail \in Text /\ Len(tail) <= m /\ Len(tail) <= Len(d) /\ KeptTail(tail, a)
  BY <1>2, <1>4, <1>5, <1>6 DEF KeptTail
<1> QED BY <1>7 DEF tail, n

----------------------------------------------------------------------------
(* The parts of an operation *)

Writer == [file : Paths \cup {NoPath}, path : Paths \cup {NoPath},
           saveLogs : BOOLEAN, maxBytes : Sizes, closed : BOOLEAN]

LogState == [writer : Writer, disk : [Paths -> Text], appended : [Paths -> Text], failed : BOOLEAN]

\* A writer that holds a file holds that of its path, and may write to it.
Right(w) == w.file # NoPath => w.file = w.path /\ w.saveLogs /\ ~w.closed

\* What holds between any two system calls.
Good(l) ==
  l \in LogState /\ Right(l.writer) /\ \A p \in Paths : KeptTail(l.disk[p], l.appended[p])

\* The settings and the closed flag of one writer are those of another.
SameSettings(l, r) ==
  /\ r.writer.path = l.writer.path /\ r.writer.saveLogs = l.writer.saveLogs
  /\ r.writer.maxBytes = l.writer.maxBytes /\ r.writer.closed = l.writer.closed

\* No file got longer.
NoLonger(l, r) == \A p \in Paths : Len(r.disk[p]) <= Len(l.disk[p])

\* The fields of a writer and of a state.
LEMMA GoodFacts ==
  ASSUME NEW l, Good(l)
  PROVE  /\ l.writer \in Writer /\ l.disk \in [Paths -> Text] /\ l.appended \in [Paths -> Text]
         /\ l.failed \in BOOLEAN
         /\ \A p \in Paths : Len(l.disk[p]) \in Nat
         /\ l.writer.file # NoPath => l.writer.path \in Paths
<1>1. l \in LogState
  BY DEF Good
<1>2. l.writer \in Writer /\ l.disk \in [Paths -> Text] /\ l.appended \in [Paths -> Text]
      /\ l.failed \in BOOLEAN
  BY <1>1 DEF LogState
<1>3. \A p \in Paths : Len(l.disk[p]) \in Nat
  BY <1>2, TextFacts
<1>4. l.writer.file # NoPath => l.writer.path \in Paths
  BY <1>2 DEF Good, Right, Writer
<1> QED BY <1>2, <1>3, <1>4

\* An error changes nothing else.
LEMMA FailedGood ==
  ASSUME NEW l, Good(l)
  PROVE  /\ Good(Failed(l)) /\ Failed(l).failed
         /\ Failed(l).writer = l.writer /\ Failed(l).disk = l.disk /\ Failed(l).appended = l.appended
<1>1. l \in LogState
  BY DEF Good
<1>2. /\ Failed(l) \in LogState /\ Failed(l).failed /\ Failed(l).writer = l.writer
      /\ Failed(l).disk = l.disk /\ Failed(l).appended = l.appended
  BY <1>1 DEF Failed, LogState
<1> QED BY <1>2 DEF Good

\* closeFileLocked
LEMMA ClosedGood ==
  ASSUME NEW l, Good(l)
  PROVE  /\ Good(Closed(l)) /\ Closed(l).writer.file = NoPath /\ SameSettings(l, Closed(l))
         /\ Closed(l).disk = l.disk /\ Closed(l).appended = l.appended /\ Closed(l).failed = l.failed
<1>1. l \in LogState
  BY DEF Good
<1>2. /\ Closed(l) \in LogState /\ Closed(l).writer = [l.writer EXCEPT !.file = NoPath]
      /\ Closed(l).disk = l.disk /\ Closed(l).appended = l.appended /\ Closed(l).failed = l.failed
  BY <1>1 DEF Closed, LogState, Writer
<1>3. l.writer \in Writer
  BY <1>1 DEF LogState
<1>4. Closed(l).writer.file = NoPath /\ SameSettings(l, Closed(l))
  BY <1>2, <1>3 DEF Writer, SameSettings
<1> QED BY <1>2, <1>4 DEF Good, Right

\* os.OpenFile of ensureOpenLocked and reopenLocked
LEMMA OpenedGood ==
  ASSUME NEW l, Good(l), Saves(l.writer), ~l.writer.closed
  PROVE  /\ Good(Opened(l)) /\ Opened(l).writer.file = l.writer.path /\ SameSettings(l, Opened(l))
         /\ Opened(l).disk = l.disk /\ Opened(l).appended = l.appended /\ Opened(l).failed = l.failed
<1>1. l \in LogState /\ l.writer \in Writer
  BY DEF Good, LogState
<1>2. /\ Opened(l) \in LogState /\ Opened(l).writer = [l.writer EXCEPT !.file = l.writer.path]
      /\ Opened(l).disk = l.disk /\ Opened(l).appended = l.appended /\ Opened(l).failed = l.failed
  BY <1>1 DEF Opened, LogState, Writer
<1>4. Opened(l).writer.file = l.writer.path /\ SameSettings(l, Opened(l))
  BY <1>1, <1>2 DEF Writer, SameSettings
<1> QED BY <1>2, <1>4 DEF Good, Right, Saves, SameSettings

\* The write of a text to the open file.
LEMMA AppendedGood ==
  ASSUME NEW l, Good(l), l.writer.file # NoPath, NEW t \in Text
  PROVE  LET r == Appended(l, t)
         IN  /\ Good(r) /\ r.writer = l.writer /\ r.failed = l.failed
             /\ \A p \in Paths : Len(r.disk[p]) = IF p = l.writer.path THEN Len(l.disk[p]) + Len(t) ELSE Len(l.disk[p])
<1> DEFINE r == Appended(l, t)
           q == l.writer.file
<1>1. l \in LogState /\ l.writer \in Writer /\ l.disk \in [Paths -> Text] /\ l.appended \in [Paths -> Text]
  BY DEF Good, LogState
<1>2. q = l.writer.path /\ q \in Paths
  BY <1>1 DEF Good, Right, Writer
<1>3. l.disk[q] \in Text /\ l.appended[q] \in Text
  BY <1>1, <1>2
<1>4. l.disk[q] \o t \in Text /\ l.appended[q] \o t \in Text /\ Len(l.disk[q] \o t) = Len(l.disk[q]) + Len(t)
  BY <1>3, ConcatFacts
<1>5. /\ r.writer = l.writer /\ r.failed = l.failed
      /\ r.disk = [l.disk EXCEPT ![q] = l.disk[q] \o t]
      /\ r.appended = [l.appended EXCEPT ![q] = l.appended[q] \o t]
      /\ r \in LogState
  BY <1>1, <1>2, <1>4 DEF Appended, LogState
<1> HIDE DEF r
<1>6. \A p \in Paths : KeptTail(r.disk[p], r.appended[p])
  <2>1. KeptTail(l.disk[q] \o t, l.appended[q] \o t)
    BY <1>2, <1>3, KeptAppend DEF Good
  <2> QED BY <1>1, <1>2, <1>5, <2>1 DEF Good
<1>7. \A p \in Paths : Len(r.disk[p]) = IF p = l.writer.path THEN Len(l.disk[p]) + Len(t) ELSE Len(l.disk[p])
  BY <1>1, <1>2, <1>4, <1>5
<1>8. Good(r)
  BY <1>5, <1>6 DEF Good
<1> QED BY <1>5, <1>7, <1>8 DEF r

\* os.WriteFile of what a trim keeps.
LEMMA RewrittenGood ==
  ASSUME NEW l, Good(l), l.writer.path \in Paths
  PROVE  LET t == LogTail(l.disk[l.writer.path], TargetBytes(l.writer.maxBytes))
             r == Rewritten(l, t)
         IN  /\ Good(r) /\ r.writer = l.writer /\ r.failed = l.failed
             /\ NoLonger(l, r) /\ Len(r.disk[l.writer.path]) <= l.writer.maxBytes
<1> DEFINE q == l.writer.path
           t == LogTail(l.disk[q], TargetBytes(l.writer.maxBytes))
           r == Rewritten(l, t)
<1>1. /\ l \in LogState /\ l.writer \in Writer /\ l.disk \in [Paths -> Text] /\ l.appended \in [Paths -> Text]
      /\ l.writer.maxBytes \in Sizes
  BY DEF Good, LogState, Writer
<1>2. l.disk[q] \in Text /\ l.appended[q] \in Text /\ KeptTail(l.disk[q], l.appended[q])
  BY <1>1 DEF Good
<1>3. t \in Text /\ Len(t) <= l.writer.maxBytes /\ Len(t) <= Len(l.disk[q]) /\ KeptTail(t, l.appended[q])
  BY <1>1, <1>2, KeptTrim
<1> HIDE DEF t
<1>4. /\ r.writer = l.writer /\ r.failed = l.failed /\ r.appended = l.appended
      /\ r.disk = [l.disk EXCEPT ![q] = t] /\ r \in LogState
  BY <1>1, <1>3 DEF Rewritten, LogState
<1> HIDE DEF r
<1>5. \A p \in Paths : KeptTail(r.disk[p], r.appended[p])
  BY <1>1, <1>3, <1>4 DEF Good
<1>6. \A p \in Paths : Len(l.disk[p]) <= Len(l.disk[p])
  BY GoodFacts
<1>7. NoLonger(l, r) /\ Len(r.disk[q]) <= l.writer.maxBytes
  BY <1>1, <1>3, <1>4, <1>6 DEF NoLonger
<1>8. Good(r)
  BY <1>4, <1>5 DEF Good
<1> QED BY <1>4, <1>7, <1>8 DEF r, t

\* os.WriteFile that is cut short.
LEMMA CutShortGood ==
  ASSUME NEW l, Good(l), l.writer.path \in Paths, NEW t \in Text,
         Len(t) <= Len(l.disk[l.writer.path])
  PROVE  LET r == CutShort(l, t)
         IN  Good(r) /\ r.writer = l.writer /\ r.failed = l.failed /\ NoLonger(l, r)
<1> DEFINE q == l.writer.path
           r == CutShort(l, t)
<1>1. /\ l \in LogState /\ l.writer \in Writer /\ l.disk \in [Paths -> Text] /\ l.appended \in [Paths -> Text]
  BY DEF Good, LogState
<1>2. KeptTail(t, t)
  BY KeptWhole
<1>3. /\ r.writer = l.writer /\ r.failed = l.failed
      /\ r.disk = [l.disk EXCEPT ![q] = t] /\ r.appended = [l.appended EXCEPT ![q] = t] /\ r \in LogState
  BY <1>1 DEF CutShort, Rewritten, LogState
<1> HIDE DEF r
<1>4. \A p \in Paths : KeptTail(r.disk[p], r.appended[p])
  BY <1>1, <1>2, <1>3 DEF Good
<1>5. \A p \in Paths : Len(l.disk[p]) <= Len(l.disk[p])
  BY GoodFacts
<1>6. NoLonger(l, r)
  BY <1>1, <1>3, <1>5 DEF NoLonger
<1>7. Good(r)
  BY <1>3, <1>4 DEF Good
<1> QED BY <1>3, <1>6, <1>7 DEF r

\* reopenLocked
LEMMA ReopenGood ==
  ASSUME NEW l, Good(l), Saves(l.writer), ~l.writer.closed, NEW r \in Reopen(l)
  PROVE  /\ Good(r) /\ SameSettings(l, r) /\ r.disk = l.disk
         /\ ~r.failed => r.writer.file = l.writer.path
<1>1. CASE r = Opened(l)
  BY <1>1, OpenedGood
<1>2. CASE r = Failed(l)
  BY <1>2, FailedGood DEF SameSettings
<1> QED BY <1>1, <1>2 DEF Reopen

\* reopenLocked after an error
LEMMA ReopenFailedGood ==
  ASSUME NEW l, Good(l), Saves(l.writer), ~l.writer.closed, NEW r \in ReopenAfterError(l)
  PROVE  Good(r) /\ SameSettings(l, r) /\ r.disk = l.disk /\ r.failed
<1>1. PICK e \in Reopen(l) : r = Failed(e)
  BY DEF ReopenAfterError
<1>2. Good(e) /\ SameSettings(l, e) /\ e.disk = l.disk
  BY ReopenGood
<1>3. Good(r) /\ r.failed /\ r.writer = e.writer /\ r.disk = e.disk
  BY <1>1, <1>2, FailedGood
<1> QED BY <1>2, <1>3 DEF SameSettings

\* enforceLimitLocked: whatever fails, the file is not longer than before and
\* ends with the newest output; when nothing fails, the file that was open is
\* open and within its limit.
LEMMA EnforceFacts ==
  ASSUME NEW l, Good(l), NEW r \in EnforceLimit(l)
  PROVE  /\ Good(r) /\ SameSettings(l, r) /\ NoLonger(l, r)
         /\ ~r.failed /\ l.writer.file # NoPath =>
              r.writer.file = l.writer.path /\ Len(r.disk[l.writer.path]) <= l.writer.maxBytes
<1> DEFINE q == l.writer.path
           tail == LogTail(l.disk[q], TargetBytes(l.writer.maxBytes))
           c == Closed(l)
<1>1. \A p \in Paths : Len(l.disk[p]) \in Nat
  BY GoodFacts
<1>2. SameSettings(l, l) /\ NoLonger(l, l)
  BY <1>1 DEF SameSettings, NoLonger
<1>3. /\ Good(Failed(l)) /\ Failed(l).failed /\ SameSettings(l, Failed(l)) /\ NoLonger(l, Failed(l))
  BY <1>1, FailedGood DEF SameSettings, NoLonger
<1>4. CASE l.writer.file = NoPath
  <2>1. r = l
    BY <1>4 DEF EnforceLimit
  <2> QED BY <1>2, <1>4, <2>1
<1>5. CASE l.writer.file # NoPath /\ Len(l.disk[q]) <= l.writer.maxBytes
  <2>1. r = l \/ r = Failed(l)
    BY <1>5 DEF EnforceLimit
  <2>2. l.writer.file = q /\ q \in Paths /\ l.writer.maxBytes \in Nat
    BY <1>5, GoodFacts, LeastFacts DEF Good, Right, Writer
  <2>3. Len(l.disk[q]) <= l.writer.maxBytes
    BY <1>1, <1>5, <2>2
  <2> QED BY <1>2, <1>3, <2>1, <2>2, <2>3
<1>6. CASE l.writer.file # NoPath /\ ~(Len(l.disk[q]) <= l.writer.maxBytes)
  <2>1. q \in Paths /\ l.writer.saveLogs /\ ~l.writer.closed /\ l.writer.maxBytes \in Sizes
    BY <1>6, GoodFacts DEF Good, Right, Writer
  <2>2. /\ Good(c) /\ SameSettings(l, c) /\ c.disk = l.disk /\ c.failed = l.failed
        /\ c.writer.path = q /\ c.writer.maxBytes = l.writer.maxBytes
    BY ClosedGood DEF SameSettings
  <2>3. Saves(c.writer) /\ ~c.writer.closed
    BY <2>1, <2>2, NamesAssumption DEF Saves, SameSettings
  <2> DEFINE w == Rewritten(c, tail)
             shorts == UNION {ReopenAfterError(CutShort(c, SubSeq(tail, 1, i))) : i \in 0..Len(tail)}
  <2>4. \/ r \in {Failed(l), Failed(c)} \/ r \in ReopenAfterError(c)
        \/ \E i \in 0..Len(tail) : r \in ReopenAfterError(CutShort(c, SubSeq(tail, 1, i)))
        \/ r \in ReopenAfterError(w) \/ r \in Reopen(w)
    <3>0. EnforceLimit(l) = {Failed(l)} \cup Trim(l)
      BY <1>6 DEF EnforceLimit
    <3>1. Trim(l) = {Failed(c)} \cup ReopenAfterError(c) \cup shorts \cup ReopenAfterError(w) \cup Reopen(w)
      BY DEF Trim
    <3>2. r \in shorts => \E i \in 0..Len(tail) : r \in ReopenAfterError(CutShort(c, SubSeq(tail, 1, i)))
      OBVIOUS
    <3> HIDE DEF shorts
    <3> QED BY <3>0, <3>1, <3>2
  <2>5. /\ Good(w) /\ w.writer = c.writer /\ NoLonger(c, w) /\ Len(w.disk[q]) <= l.writer.maxBytes
    BY <2>1, <2>2, RewrittenGood
  <2>6. tail \in Text /\ Len(tail) <= Len(l.disk[q])
    BY <2>1, GoodFacts, KeptTrim DEF Good
  <2> HIDE DEF w, tail, c
  <2>7. CASE r = Failed(l)
    BY <1>3, <2>7
  <2>8. CASE r = Failed(c)
    BY <1>1, <2>2, <2>8, FailedGood DEF SameSettings, NoLonger
  <2>9. CASE r \in ReopenAfterError(c)
    <3>1. Good(r) /\ SameSettings(c, r) /\ r.disk = c.disk /\ r.failed
      BY <2>2, <2>3, <2>9, ReopenFailedGood
    <3> QED BY <1>1, <2>2, <3>1 DEF SameSettings, NoLonger
  <2>10. ASSUME NEW i \in 0..Len(tail), r \in ReopenAfterError(CutShort(c, SubSeq(tail, 1, i)))
         PROVE  Good(r) /\ SameSettings(l, r) /\ NoLonger(l, r) /\ r.failed
    <3> DEFINE t == SubSeq(tail, 1, i)
               k == CutShort(c, t)
    <3>0. Len(tail) \in Nat
      BY <2>6, TextFacts
    <3>1. t \in Text /\ Len(t) = i
      <4>1. t \in Text /\ Len(t) = IF 1 <= i THEN i - 1 + 1 ELSE 0
        BY <2>6, <3>0, PartFacts
      <4> QED BY <3>0, <4>1
    <3>2. Len(t) <= Len(c.disk[q])
      BY <1>1, <2>1, <2>2, <2>6, <3>1, TextFacts
    <3> HIDE DEF t
    <3>3. Good(k) /\ k.writer = c.writer /\ NoLonger(c, k)
      BY <2>1, <2>2, <3>1, <3>2, CutShortGood
    <3>4. r \in ReopenAfterError(k)
      BY <2>10 DEF t
    <3> HIDE DEF k
    <3>5. Good(r) /\ SameSettings(k, r) /\ r.disk = k.disk /\ r.failed
      BY <2>3, <3>3, <3>4, ReopenFailedGood
    <3> QED BY <2>2, <3>3, <3>5 DEF SameSettings, NoLonger
  <2>11. CASE r \in ReopenAfterError(w)
    <3>1. Good(r) /\ SameSettings(w, r) /\ r.disk = w.disk /\ r.failed
      BY <2>3, <2>5, <2>11, ReopenFailedGood
    <3> QED BY <2>2, <2>5, <3>1 DEF SameSettings, NoLonger
  <2>12. CASE r \in Reopen(w)
    <3>1. Good(r) /\ SameSettings(w, r) /\ r.disk = w.disk /\ (~r.failed => r.writer.file = w.writer.path)
      BY <2>3, <2>5, <2>12, ReopenGood
    <3> QED BY <2>2, <2>5, <3>1 DEF SameSettings, NoLonger
  <2> QED BY <2>4, <2>7, <2>8, <2>9, <2>10, <2>11, <2>12
<1> QED BY <1>4, <1>5, <1>6

\* The callers of enforceLimitLocked: when nothing fails, the file is open and
\* within its limit.
LEMMA EnforceOrCloseFacts ==
  ASSUME NEW l, Good(l), l.writer.file # NoPath, NEW r \in EnforceOrClose(l)
  PROVE  /\ Good(r) /\ SameSettings(l, r) /\ NoLonger(l, r)
         /\ ~r.failed => Len(r.disk[l.writer.path]) <= l.writer.maxBytes
<1>1. PICK e \in EnforceLimit(l) : r = IF e.failed THEN Closed(e) ELSE e
  BY DEF EnforceOrClose
<1>2. /\ Good(e) /\ SameSettings(l, e) /\ NoLonger(l, e)
      /\ ~e.failed => Len(e.disk[l.writer.path]) <= l.writer.maxBytes
  BY EnforceFacts
<1>3. CASE e.failed
  <2>1. r = Closed(e)
    BY <1>1, <1>3
  <2> QED BY <1>2, <1>3, <2>1, ClosedGood DEF SameSettings, NoLonger
<1>4. CASE ~e.failed
  BY <1>1, <1>2, <1>4
<1> QED BY <1>3, <1>4

\* ensureOpenLocked
LEMMA EnsureOpenFacts ==
  ASSUME NEW l, Good(l), Saves(l.writer), ~l.writer.closed, NEW r \in EnsureOpen(l)
  PROVE  /\ Good(r) /\ SameSettings(l, r) /\ NoLonger(l, r)
         /\ ~r.failed => r.writer.file = l.writer.path /\ r.writer.file # NoPath
<1>1. SameSettings(l, l) /\ NoLonger(l, l)
  BY GoodFacts DEF SameSettings, NoLonger
<1>2. CASE l.writer.file # NoPath
  BY <1>1, <1>2 DEF EnsureOpen, Good, Right
<1>3. CASE l.writer.file = NoPath /\ r = Failed(l)
  BY <1>1, <1>3, FailedGood DEF SameSettings, NoLonger
<1>4. CASE l.writer.file = NoPath /\ r \in EnforceLimit(Opened(l))
  <2> DEFINE o == Opened(l)
  <2>1. Good(o) /\ o.writer.file = l.writer.path /\ SameSettings(l, o) /\ o.disk = l.disk
    BY OpenedGood
  <2> HIDE DEF o
  <2>2. o.writer.file # NoPath /\ o.writer.path = l.writer.path
    BY <2>1 DEF Saves, SameSettings
  <2>3. /\ Good(r) /\ SameSettings(o, r) /\ NoLonger(o, r)
        /\ ~r.failed => r.writer.file = o.writer.path
    BY <1>4, <2>1, <2>2, EnforceFacts DEF o
  <2> QED BY <2>1, <2>2, <2>3 DEF SameSettings, NoLonger
<1> QED BY <1>2, <1>3, <1>4 DEF EnsureOpen

----------------------------------------------------------------------------
(* The operations *)

Longest == Max({Len(c) : c \in Chunks})

\* The chunks have a longest one.
LEMMA LongestFacts ==
  Longest \in Nat /\ \A c \in Chunks : Len(c) \in Nat /\ Len(c) <= Longest
<1> DEFINE f == [c \in Chunks |-> Len(c)]
           S == {Len(c) : c \in Chunks}
<1>1. \A c \in Chunks : c \in Text /\ Len(c) \in Nat
  BY ChunksAssumption, TextFacts
<1>2. f \in [Chunks -> Int]
  BY <1>1
<1>3. PICK g \in Chunks : \A c \in Chunks : f[c] <= f[g]
  <2> HIDE DEF f
  <2> QED BY <1>2, ChunksAssumption, Greatest
<1>4. \E x \in S : \A y \in S : x >= y
  <2>1. Len(g) \in S
    BY <1>3
  <2>2. ASSUME NEW y \in S PROVE Len(g) >= y
    BY <1>1, <1>3
  <2> QED BY <2>1, <2>2
<1>5. Longest \in S /\ \A y \in S : Longest >= y
  BY <1>4 DEF Longest, Max
<1>6. Longest \in Nat
  BY <1>1, <1>5
<1>7. ASSUME NEW c \in Chunks PROVE Len(c) \in Nat /\ Len(c) <= Longest
  <2>1. Len(c) \in S /\ Len(c) \in Nat
    BY <1>1
  <2> HIDE DEF S
  <2> QED BY <1>5, <1>6, <2>1
<1> QED BY <1>6, <1>7

\* What an operation that found l may leave.  A file grows by one chunk at
\* most, and by nothing over its limit when the operation succeeds.
Outcome(l, r) ==
  /\ Good(r)
  /\ \A p \in Paths : Len(r.disk[p]) <= Len(l.disk[p]) + Longest
  /\ ~r.failed =>
       /\ \A p \in Paths : Len(r.disk[p]) <= Len(l.disk[p]) \/ Len(r.disk[p]) <= Max(Sizes)
       /\ r.writer.file # NoPath => Len(r.disk[r.writer.path]) <= r.writer.maxBytes

\* An operation that failed before it wrote anything.
LEMMA FailedOutcome ==
  ASSUME NEW l, NEW r, Good(l), Good(r), NoLonger(l, r), r.failed
  PROVE  Outcome(l, r)
<1>1. \A p \in Paths : Len(l.disk[p]) \in Nat /\ Len(r.disk[p]) \in Nat
  BY GoodFacts
<1> QED BY <1>1, LongestFacts DEF Outcome, NoLonger

\* boundedLogWriter.Write of a chunk.
LEMMA WriteOutcome ==
  ASSUME NEW l, Good(l), Saves(l.writer), ~l.writer.closed, NEW t \in Chunks, NEW r \in WriteChunk(l, t)
  PROVE  Outcome(l, r)
<1>1. PICK e \in EnsureOpen(l) :
           r \in IF e.failed THEN {e}
                 ELSE {Failed(Closed(Appended(e, SubSeq(t, 1, i)))) : i \in 0..(Len(t) - 1)}
                      \cup EnforceOrClose(Appended(e, t))
  BY DEF WriteChunk
<1>2. /\ Good(e) /\ SameSettings(l, e) /\ NoLonger(l, e)
      /\ ~e.failed => e.writer.file = l.writer.path /\ e.writer.file # NoPath
  BY EnsureOpenFacts
<1>3. t \in Text /\ Len(t) \in Nat /\ Len(t) <= Longest /\ Longest \in Nat
  BY ChunksAssumption, LongestFacts
<1>4. \A p \in Paths : Len(l.disk[p]) \in Nat /\ Len(e.disk[p]) \in Nat
  BY <1>2, GoodFacts
<1>5. e.writer.path = l.writer.path /\ e.writer.maxBytes = l.writer.maxBytes
  BY <1>2 DEF SameSettings
<1>6. CASE e.failed
  BY <1>1, <1>2, <1>6, FailedOutcome
<1>7. ASSUME ~e.failed, NEW i \in 0..(Len(t) - 1), r = Failed(Closed(Appended(e, SubSeq(t, 1, i))))
      PROVE  Outcome(l, r)
  <2> DEFINE u == SubSeq(t, 1, i)
             a == Appended(e, u)
  <2>0. i \in 0..Len(t) /\ i \in Nat
    BY <1>3
  <2>1. u \in Text /\ Len(u) = i
    <3>1. u \in Text /\ Len(u) = IF 1 <= i THEN i - 1 + 1 ELSE 0
      BY <1>3, <2>0, PartFacts
    <3> QED BY <2>0, <3>1
  <2> HIDE DEF u
  <2>2. /\ Good(a)
        /\ \A p \in Paths : Len(a.disk[p]) = IF p = e.writer.path THEN Len(e.disk[p]) + Len(u) ELSE Len(e.disk[p])
    BY <1>2, <1>7, <2>1, AppendedGood
  <2>3. r = Failed(Closed(a))
    BY <1>7 DEF u
  <2> HIDE DEF a
  <2>4. Good(r) /\ r.failed /\ r.disk = a.disk
    BY <2>2, <2>3, ClosedGood, FailedGood
  <2>5. ASSUME NEW p \in Paths PROVE Len(r.disk[p]) <= Len(l.disk[p]) + Longest
    <3>1. Len(e.disk[p]) <= Len(l.disk[p])
      BY <1>2 DEF NoLonger
    <3>2. Len(r.disk[p]) = Len(e.disk[p]) + i \/ Len(r.disk[p]) = Len(e.disk[p])
      BY <2>1, <2>2, <2>4
    <3> QED BY <1>3, <1>4, <3>1, <3>2
  <2> QED BY <2>4, <2>5 DEF Outcome
<1>8. ASSUME ~e.failed, r \in EnforceOrClose(Appended(e, t))
      PROVE  Outcome(l, r)
  <2> DEFINE a == Appended(e, t)
  <2>1. /\ Good(a) /\ a.writer = e.writer
        /\ \A p \in Paths : Len(a.disk[p]) = IF p = e.writer.path THEN Len(e.disk[p]) + Len(t) ELSE Len(e.disk[p])
    BY <1>2, <1>3, <1>8, AppendedGood
  <2>2. r \in EnforceOrClose(a)
    BY <1>8
  <2> HIDE DEF a
  <2>3. /\ Good(r) /\ SameSettings(a, r) /\ NoLonger(a, r)
        /\ ~r.failed => Len(r.disk[a.writer.path]) <= a.writer.maxBytes
    BY <1>2, <1>8, <2>1, <2>2, EnforceOrCloseFacts
  <2>4. \A p \in Paths : Len(r.disk[p]) \in Nat /\ Len(a.disk[p]) \in Nat
    BY <2>1, <2>3, GoodFacts
  <2>5. ASSUME NEW p \in Paths PROVE Len(r.disk[p]) <= Len(l.disk[p]) + Longest
    <3>1. Len(e.disk[p]) <= Len(l.disk[p]) /\ Len(r.disk[p]) <= Len(a.disk[p])
      BY <1>2, <2>3 DEF NoLonger
    <3>2. Len(a.disk[p]) = Len(e.disk[p]) + Len(t) \/ Len(a.disk[p]) = Len(e.disk[p])
      BY <2>1
    <3>3. Len(l.disk[p]) \in Nat /\ Len(e.disk[p]) \in Nat /\ Len(r.disk[p]) \in Nat /\ Len(a.disk[p]) \in Nat
      BY <1>4, <2>4
    <3>4. Len(t) \in Nat /\ Len(t) <= Longest /\ Longest \in Nat
      BY <1>3
    <3>5. \A x, y, z, w, v, m \in Nat :
            x <= y /\ z <= w /\ (w = x + v \/ w = x) /\ v <= m => z <= y + m
      OBVIOUS
    <3> QED BY <3>1, <3>2, <3>3, <3>4, <3>5
  <2>6. r.writer.path = e.writer.path /\ r.writer.maxBytes = e.writer.maxBytes
    BY <2>1, <2>3 DEF SameSettings
  <2>7. ~r.failed => Len(r.disk[r.writer.path]) <= r.writer.maxBytes
    BY <2>1, <2>3, <2>6
  <2>8. r.writer.maxBytes \in Nat /\ r.writer.maxBytes <= Max(Sizes) /\ Max(Sizes) \in Nat
    BY <2>3, GoodFacts, LeastFacts DEF Writer
  <2>9. ASSUME ~r.failed, NEW p \in Paths PROVE Len(r.disk[p]) <= Len(l.disk[p]) \/ Len(r.disk[p]) <= Max(Sizes)
    <3>1. CASE p = e.writer.path
      BY <2>4, <2>6, <2>7, <2>8, <2>9, <3>1
    <3>2. CASE p # e.writer.path
      BY <1>2, <1>4, <2>1, <2>3, <2>4, <3>2 DEF NoLonger
    <3> QED BY <3>1, <3>2
  <2> QED BY <2>3, <2>5, <2>7, <2>9 DEF Outcome
<1> QED BY <1>1, <1>6, <1>7, <1>8

\* boundedLogWriter.Update with settings that save logs.
LEMMA UpdateOutcome ==
  ASSUME NEW l, Good(l), Saves(l.writer), ~l.writer.closed,
         NEW r \in UNION {IF e.failed THEN {e} ELSE EnforceOrClose(e) : e \in EnsureOpen(l)}
  PROVE  Outcome(l, r)
<1>1. PICK e \in EnsureOpen(l) : r \in IF e.failed THEN {e} ELSE EnforceOrClose(e)
  OBVIOUS
<1>2. /\ Good(e) /\ SameSettings(l, e) /\ NoLonger(l, e)
      /\ ~e.failed => e.writer.file = l.writer.path /\ e.writer.file # NoPath
  BY EnsureOpenFacts
<1>3. CASE e.failed
  BY <1>1, <1>2, <1>3, FailedOutcome
<1>4. CASE ~e.failed
  <2>1. /\ Good(r) /\ SameSettings(e, r) /\ NoLonger(e, r)
        /\ ~r.failed => Len(r.disk[e.writer.path]) <= e.writer.maxBytes
    BY <1>1, <1>2, <1>4, EnforceOrCloseFacts
  <2>2. \A p \in Paths : Len(r.disk[p]) \in Nat /\ Len(e.disk[p]) \in Nat /\ Len(l.disk[p]) \in Nat
    BY <1>2, <2>1, GoodFacts
  <2>3. \A p \in Paths : Len(r.disk[p]) <= Len(l.disk[p])
    BY <1>2, <2>1, <2>2 DEF NoLonger
  <2>4. ~r.failed => Len(r.disk[r.writer.path]) <= r.writer.maxBytes
    BY <2>1 DEF SameSettings
  <2> QED BY <2>1, <2>2, <2>3, <2>4, LongestFacts DEF Outcome
<1> QED BY <1>3, <1>4

----------------------------------------------------------------------------
(* The inductive invariant *)

\* The three properties hold together.
LogInv == RightFile /\ Bounded /\ TailKept

\* The state between two operations is a good one.
LEMMA LogIsGood ==
  ASSUME LogInv
  PROVE  /\ Good(Log) /\ Log.writer = writer /\ Log.disk = disk /\ Log.failed = FALSE
         /\ \A p \in Paths : Len(disk[p]) <= Max(Sizes) + faults * Longest
<1>1. /\ writer \in Writer /\ disk \in [Paths -> Text] /\ appended \in [Paths -> Text]
  BY DEF LogInv, RightFile, TypeOK, Writer
<1>2. Log \in LogState /\ Log.writer = writer /\ Log.disk = disk /\ Log.appended = appended /\ Log.failed = FALSE
  BY <1>1 DEF Log, LogState
<1>3. ASSUME NEW p \in Paths PROVE KeptTail(disk[p], appended[p])
  <2>1. Suffix(disk[p], appended[p])
    BY <1>1, SuffixIsLast DEF LogInv, TailKept
  <2>2. Len(LastLine(appended[p])) <= Least => Len(disk[p]) >= Len(LastLine(appended[p]))
    BY DEF LogInv, TailKept, Least
  <2>3. Len(disk[p]) \in Nat /\ Len(LastLine(appended[p])) \in Int
    <3>1. disk[p] \in Text /\ appended[p] \in Text
      BY <1>1
    <3>2. Len(appended[p]) \in Nat /\ Len(disk[p]) \in Nat
      BY <3>1, TextFacts
    <3> QED BY <3>1, <3>2, StartFacts
  <2> QED BY <2>1, <2>2, <2>3 DEF KeptTail
<1>4. Right(writer)
  BY DEF LogInv, RightFile, Right
<1> QED BY <1>2, <1>3, <1>4 DEF Good, LogInv, Bounded, Longest

\* What an operation leaves satisfies the invariant.
LEMMA BecomesInv ==
  ASSUME LogInv, NEW outcomes, \A r \in outcomes : Outcome(Log, r), Becomes(outcomes),
         writes' \in Nat, updates' \in Nat
  PROVE  LogInv'
<1>1. PICK r \in outcomes :
         /\ faults' = IF r.failed THEN faults + 1 ELSE faults
         /\ writer' = r.writer /\ disk' = r.disk /\ appended' = r.appended /\ failed' = r.failed
  BY DEF Becomes
<1>2. Outcome(Log, r)
  OBVIOUS
<1>3. Good(r)
  BY <1>2 DEF Outcome
<1>4. /\ r.writer \in Writer /\ r.disk \in [Paths -> Text] /\ r.appended \in [Paths -> Text]
      /\ r.failed \in BOOLEAN /\ (\A p \in Paths : Len(r.disk[p]) \in Nat)
  BY <1>3, GoodFacts
<1>5. faults \in Nat
  BY DEF LogInv, RightFile, TypeOK
<1>6. RightFile'
  <2>1. faults' \in Nat
    BY <1>1, <1>4, <1>5
  <2>2. TypeOK'
    BY <1>1, <1>4, <2>1 DEF TypeOK, Writer
  <2> QED BY <1>1, <1>3, <2>2 DEF RightFile, Good, Right
<1>7. Bounded'
  <2> DEFINE b == Max(Sizes) + faults * Longest
  <2>1. Max(Sizes) \in Nat /\ Longest \in Nat
    BY LeastFacts, LongestFacts
  <2>2. faults * Longest \in Nat /\ (faults + 1) * Longest = faults * Longest + Longest
    BY <1>5, <2>1
  <2>3. \A p \in Paths : Len(disk[p]) \in Nat /\ Len(disk[p]) <= b
    BY LogIsGood, GoodFacts
  <2>4. Log.disk = disk
    BY LogIsGood
  <2>5. ASSUME NEW p \in Paths PROVE Len(disk'[p]) <= Max(Sizes) + faults' * Longest
    <3>1. CASE r.failed
      <4>1. Len(r.disk[p]) <= Len(disk[p]) + Longest
        BY <1>2, <2>4 DEF Outcome
      <4>2. faults' * Longest = faults * Longest + Longest
        BY <1>1, <2>2, <3>1
      <4> QED BY <1>1, <1>4, <2>1, <2>2, <2>3, <4>1, <4>2
    <3>2. CASE ~r.failed
      <4>1. Len(r.disk[p]) <= Len(disk[p]) \/ Len(r.disk[p]) <= Max(Sizes)
        BY <1>2, <2>4, <3>2 DEF Outcome
      <4>2. faults' * Longest = faults * Longest
        BY <1>1, <3>2
      <4> QED BY <1>1, <1>4, <2>1, <2>2, <2>3, <4>1, <4>2
    <3> QED BY <3>1, <3>2
  <2>6. writer'.file # NoPath /\ ~failed' => Len(disk'[writer'.path]) <= writer'.maxBytes
    BY <1>1, <1>2 DEF Outcome
  <2> QED BY <2>5, <2>6 DEF Bounded, Longest
<1>8. TailKept'
  <2>1. ASSUME NEW p \in Paths
        PROVE  /\ r.disk[p] = LastBytes(r.appended[p], Len(r.disk[p]))
               /\ Len(LastLine(r.appended[p])) <= Least => Len(r.disk[p]) >= Len(LastLine(r.appended[p]))
    <3>1. r.disk[p] \in Text /\ r.appended[p] \in Text /\ KeptTail(r.disk[p], r.appended[p])
      BY <1>3, <1>4 DEF Good
    <3>2. Len(r.appended[p]) \in Nat /\ Len(r.disk[p]) \in Nat
      BY <3>1, TextFacts
    <3>3. Len(LastLine(r.appended[p])) \in Int
      BY <3>1, <3>2, StartFacts
    <3> QED BY <3>1, <3>2, <3>3, SuffixIsLast DEF KeptTail
  <2> QED BY <1>1, <2>1 DEF TailKept, Least
<1> QED BY <1>6, <1>7, <1>8 DEF LogInv

\* The log of an earlier launch is a text.
LEMMA OldLogFacts == OldLog \in Text /\ Len(OldLog) = Max(Sizes)
<1>1. Max(Sizes) \in Nat
  BY LeastFacts
<1>2. (CHOOSE b \in Bytes : TRUE) \in Bytes
  BY NamesAssumption
<1> QED BY <1>1, <1>2 DEF OldLog, Text

\* newBoundedLogWriter
LEMMA InitInv == Init => LogInv
<1> SUFFICES ASSUME Init PROVE LogInv
  OBVIOUS
<1>1. ASSUME NEW p \in Paths PROVE disk[p] \in Text /\ Len(disk[p]) \in Nat /\ Len(disk[p]) <= Max(Sizes)
  <2>1. disk[p] = <<>> \/ disk[p] = OldLog
    BY DEF Init
  <2>2. <<>> \in Text /\ Len(<<>>) = 0
    BY DEF Text
  <2> QED BY <2>1, <2>2, OldLogFacts, LeastFacts
<1>2. disk \in [Paths -> Text]
  BY <1>1 DEF Init
<1>3. RightFile
  <2>1. writer \in [file : Paths \cup {NoPath}, path : Paths \cup {NoPath},
                    saveLogs : BOOLEAN, maxBytes : Sizes, closed : BOOLEAN] /\ writer.file = NoPath
    BY DEF Init
  <2>2. writes = 0 /\ updates = 0 /\ faults = 0
    BY DEF Init
  <2>3. failed \in BOOLEAN /\ appended = disk
    BY DEF Init
  <2> QED BY <1>2, <2>1, <2>2, <2>3 DEF RightFile, TypeOK
<1>4. Bounded
  <2>1. faults * Longest = 0
    BY LongestFacts DEF Init
  <2>2. writer.file = NoPath
    BY DEF Init
  <2>3. ASSUME NEW p \in Paths PROVE Len(disk[p]) <= Max(Sizes) + faults * Longest
    BY <1>1, <2>1, LeastFacts
  <2> QED BY <2>2, <2>3 DEF Bounded, Longest
<1>5. TailKept
  <2>1. ASSUME NEW p \in Paths
        PROVE  /\ disk[p] = LastBytes(appended[p], Len(disk[p]))
               /\ Len(LastLine(appended[p])) <= Least => Len(disk[p]) >= Len(LastLine(appended[p]))
    <3>1. disk[p] \in Text /\ appended[p] = disk[p]
      BY <1>1 DEF Init
    <3>2. Suffix(disk[p], disk[p]) /\ (Len(LastLine(disk[p])) <= Least => Len(LastLine(disk[p])) <= Len(disk[p]))
      BY <3>1, KeptWhole DEF KeptTail
    <3>3. Len(disk[p]) \in Nat
      BY <1>1
    <3>4. Len(LastLine(disk[p])) \in Int
      BY <3>1, <3>3, StartFacts
    <3> QED BY <3>1, <3>2, <3>3, <3>4, SuffixIsLast
  <2> QED BY <2>1 DEF TailKept, Least
<1> QED BY <1>3, <1>4, <1>5 DEF LogInv

\* An operation that changes no file and leaves none open that was closed.
LEMMA IdleOutcome ==
  ASSUME NEW l, NEW r, Good(l), Good(r), r.disk = l.disk, r.writer.file = NoPath
  PROVE  Outcome(l, r)
BY GoodFacts, LongestFacts DEF Outcome

\* boundedLogWriter.Write
LEMMA WriteInv == ASSUME LogInv, NEW t \in Chunks, Write(t) PROVE LogInv'
<1>1. Good(Log) /\ Log.writer = writer
  BY LogIsGood
<1>2. writes \in Nat /\ updates \in Nat
  BY DEF LogInv, RightFile, TypeOK
<1>3. writes' \in Nat /\ updates' \in Nat
  BY <1>2 DEF Write
<1>4. CASE ~writer.closed /\ Saves(writer)
  <2>1. Becomes(WriteChunk(Log, t))
    BY <1>4 DEF Write
  <2>2. \A r \in WriteChunk(Log, t) : Outcome(Log, r)
    BY <1>1, <1>4, WriteOutcome
  <2> QED BY <1>3, <2>1, <2>2, BecomesInv
<1>5. CASE ~(~writer.closed /\ Saves(writer))
  <2>1. Becomes({Log})
    BY <1>5 DEF Write
  <2>2. writer.file = NoPath
    BY <1>5, NamesAssumption DEF LogInv, RightFile, TypeOK, Saves
  <2>3. Outcome(Log, Log)
    BY <1>1, <2>2, IdleOutcome
  <2>4. \A r \in {Log} : Outcome(Log, r)
    BY <2>3
  <2> QED BY <1>3, <2>1, <2>4, BecomesInv
<1> QED BY <1>4, <1>5

\* boundedLogWriter.Update
LEMMA UpdateInv == ASSUME LogInv, NEW s \in Settings, Update(s) PROVE LogInv'
<1> DEFINE old == IF writer.path # s.path \/ ~s.saveLogs THEN Closed(Log) ELSE Log
           new == With(old, s)
<1>1. Good(Log) /\ Log.writer = writer /\ Log.disk = disk
  BY LogIsGood
<1>2. writes' \in Nat /\ updates' \in Nat
  BY DEF LogInv, RightFile, TypeOK, Update
<1>3. /\ Good(old) /\ old.disk = disk /\ old.writer.closed = writer.closed
      /\ old.writer.file # NoPath => old.writer.path = s.path /\ s.saveLogs
  <2>1. CASE writer.path # s.path \/ ~s.saveLogs
    BY <1>1, <2>1, ClosedGood DEF SameSettings
  <2>2. CASE ~(writer.path # s.path \/ ~s.saveLogs)
    BY <1>1, <2>2
  <2> QED BY <2>1, <2>2
<1>4. ~writer.closed /\ s.path \in Paths \cup {NoPath} /\ s.saveLogs \in BOOLEAN /\ s.maxBytes \in Sizes
  BY DEF Update, Settings
<1> HIDE DEF old
<1>5. /\ new \in LogState /\ new.disk = old.disk /\ new.appended = old.appended
      /\ new.writer.file = old.writer.file /\ new.writer.path = s.path /\ new.writer.saveLogs = s.saveLogs
      /\ new.writer.maxBytes = s.maxBytes /\ new.writer.closed = old.writer.closed
  <2>1. old \in LogState /\ old.writer \in Writer
    BY <1>3 DEF Good, LogState
  <2> QED BY <1>4, <2>1 DEF With, LogState, Writer
<1> HIDE DEF new
<1>6. Good(new)
  BY <1>3, <1>4, <1>5 DEF Good, Right
<1>7. CASE Saves(s)
  <2> DEFINE O == UNION {IF e.failed THEN {e} ELSE EnforceOrClose(e) : e \in EnsureOpen(new)}
  <2>1. Becomes(O)
    BY <1>7 DEF Update, new, old
  <2>2. Saves(new.writer) /\ ~new.writer.closed
    BY <1>3, <1>4, <1>5, <1>7 DEF Saves
  <2>3. ASSUME NEW r \in O PROVE Outcome(Log, r)
    <3>1. Outcome(new, r)
      BY <1>6, <2>2, UpdateOutcome
    <3>2. new.disk = Log.disk
      BY <1>1, <1>3, <1>5
    <3> QED BY <3>1, <3>2 DEF Outcome
  <2> HIDE DEF O
  <2> QED BY <1>2, <2>1, <2>3, BecomesInv
<1>8. CASE ~Saves(s)
  <2>1. Becomes({new})
    BY <1>8 DEF Update, new, old
  <2>2. new.writer.file = NoPath
    BY <1>5, <1>6, <1>8, NamesAssumption DEF Good, Right, Saves
  <2>3. \A r \in {new} : Outcome(Log, r)
    BY <1>1, <1>3, <1>5, <1>6, <2>2, IdleOutcome
  <2> QED BY <1>2, <2>1, <2>3, BecomesInv
<1> QED BY <1>7, <1>8

\* boundedLogWriter.Close
LEMMA CloseInv == ASSUME LogInv, Close PROVE LogInv'
<1>1. RightFile'
  BY DEF Close, LogInv, RightFile, TypeOK
<1>2. Bounded'
  <2>1. writer'.file = NoPath
    BY DEF Close, LogInv, RightFile, TypeOK
  <2> QED BY <2>1 DEF Close, LogInv, Bounded
<1>3. TailKept'
  BY DEF Close, LogInv, TailKept
<1> QED BY <1>1, <1>2, <1>3 DEF LogInv

\* The properties hold together, for any text, limits and failures.
THEOREM LogInvAlways == Spec => []LogInv
<1>1. LogInv /\ [Next]_vars => LogInv'
  <2> SUFFICES ASSUME LogInv, [Next]_vars PROVE LogInv'
    OBVIOUS
  <2>1. CASE UNCHANGED vars
    BY <2>1 DEF vars, LogInv, RightFile, TypeOK, Bounded, TailKept
  <2> QED BY <2>1, WriteInv, UpdateInv, CloseInv DEF Next
<1> QED BY <1>1, InitInv, PTL DEF Spec

\* boundedLogWriter writes to no file but the one it is configured for, and to
\* none after Close or once logging was switched off.
THEOREM RightFileAlways == Spec => []RightFile
<1>1. LogInv => RightFile
  BY DEF LogInv
<1> QED BY <1>1, LogInvAlways, PTL

\* enforceLimitLocked keeps the log within its limit, and one failing operation
\* lets in one chunk more at most, for every limit and every chunk.
THEOREM BoundedAlways == Spec => []Bounded
<1>1. LogInv => Bounded
  BY DEF LogInv
<1> QED BY <1>1, LogInvAlways, PTL

\* readLogTail drops the oldest output only: a log ends with what was written
\* last, and its last line is whole if it fits in what a trim keeps.
THEOREM TailAlways == Spec => []TailKept
<1>1. LogInv => TailKept
  BY DEF LogInv
<1> QED BY <1>1, LogInvAlways, PTL

----------------------------------------------------------------------------
(* The watchers: induction, stated with a set because no prover here can    *)
(* instantiate a theorem that has an operator as its parameter              *)

\* A set that has 0 and with each number the next one has all of them.
LEMMA RangeInduction ==
  ASSUME NEW n \in Nat, NEW P \in SUBSET (0..n), 0 \in P,
         \A k \in 1..n : k - 1 \in P => k \in P
  PROVE  P = 0..n
<1> SUFFICES ASSUME (0..n) \ P # {} PROVE FALSE
  OBVIOUS
<1>1. PICK x \in (0..n) \ P : \A y \in (0..n) \ P : ~(<<y, x>> \in OpToRel(<, Nat))
  <2>1. (0..n) \ P \subseteq Nat
    OBVIOUS
  <2> QED BY <2>1, NatLessThanWellFounded, WFMin
<1>2. x # 0 /\ x - 1 \in 0..n /\ x - 1 < x /\ x \in 1..n /\ x \in Nat /\ x - 1 \in Nat
  OBVIOUS
<1>3. <<x - 1, x>> \in OpToRel(<, Nat)
  BY <1>2 DEF OpToRel
<1>4. x - 1 \in P
  BY <1>1, <1>2, <1>3
<1>5. x \in P
  BY <1>2, <1>4
<1> QED BY <1>5
----------------------------------------------------------------------------
(* Texts and their lines *)

\* The text of the core's output.
LEMMA OutFacts ==
  ASSUME NEW t \in Output
  PROVE  Len(t) \in Nat /\ DOMAIN t = 1..Len(t) /\ \A i \in 1..Len(t) : t[i] \in Letters
BY LenProperties DEF Output

\* Two texts are the same when their letters are.
LEMMA OutEqual ==
  ASSUME NEW s \in Output, NEW t \in Output, Len(s) = Len(t), \A i \in 1..Len(s) : s[i] = t[i]
  PROVE  s = t
BY SeqEqual DEF Output

\* The letters of a part of a text.
LEMMA OutPart ==
  ASSUME NEW t \in Output, NEW m \in Nat, NEW n \in 0..Len(t), 1 <= m
  PROVE  /\ SubSeq(t, m, n) \in Output
         /\ Len(SubSeq(t, m, n)) = IF m <= n THEN n - m + 1 ELSE 0
         /\ \A i \in 1..(n - m + 1) : SubSeq(t, m, n)[i] = t[m + i - 1]
<1>1. \A i \in m..n : t[i] \in Letters
  BY OutFacts
<1>2. m \in Int /\ n \in Int
  BY OutFacts
<1> QED BY <1>1, <1>2, SubSeqProperties DEF Output

\* Texts one after the other.
LEMMA OutConcat ==
  ASSUME NEW s \in Output, NEW t \in Output
  PROVE  /\ s \o t \in Output
         /\ Len(s \o t) = Len(s) + Len(t)
         /\ \A i \in 1..(Len(s) + Len(t)) :
              (s \o t)[i] = IF i <= Len(s) THEN s[i] ELSE t[i - Len(s)]
BY ConcatProperties DEF Output

\* The number of line feeds before a place.
Rank(t, i) == Cardinality({j \in LineEnds(t) : j < i})

\* Line feeds can be counted.
LEMMA RankFacts ==
  ASSUME NEW t \in Output
  PROVE  /\ LineEnds(t) \subseteq 1..Len(t) /\ IsFiniteSet(LineEnds(t)) /\ Count(t) \in Nat
         /\ \A i : IsFiniteSet({j \in LineEnds(t) : j < i}) /\ Rank(t, i) \in Nat
<1>1. LineEnds(t) \subseteq 1..Len(t) /\ Len(t) \in Nat
  BY OutFacts DEF LineEnds
<1>2. IsFiniteSet(1..Len(t))
  BY <1>1, FS_Interval
<1>3. IsFiniteSet(LineEnds(t))
  BY <1>1, <1>2, FS_Subset
<1>4. Count(t) \in Nat
  BY <1>3, FS_CardinalityType DEF Count
<1>5. ASSUME NEW i
      PROVE  IsFiniteSet({j \in LineEnds(t) : j < i}) /\ Rank(t, i) \in Nat
  <2>1. IsFiniteSet({j \in LineEnds(t) : j < i})
    BY <1>3, FS_Subset
  <2> QED BY <2>1, FS_CardinalityType DEF Rank
<1> QED BY <1>1, <1>3, <1>4, <1>5

\* A later place has a higher rank.
LEMMA RankMonotone ==
  ASSUME NEW t \in Output, NEW i \in LineEnds(t), NEW j \in Nat, i < j
  PROVE  Rank(t, i) < Rank(t, j)
<1> DEFINE A == {k \in LineEnds(t) : k < i}
           B == {k \in LineEnds(t) : k < j}
<1>1. i \in Nat /\ \A k \in LineEnds(t) : k \in Nat
  BY RankFacts, OutFacts
<1>2. A \in SUBSET B /\ i \in B /\ i \notin A
  <2>1. ASSUME NEW k \in LineEnds(t), k < i PROVE k < j
    BY <1>1, <2>1
  <2>2. A \in SUBSET B
    BY <2>1
  <2>3. i \in B /\ i \notin A
    BY <1>1
  <2> QED BY <2>2, <2>3
<1>3. IsFiniteSet(B) /\ Rank(t, i) \in Nat /\ Rank(t, j) \in Nat
  BY RankFacts
<1>4. Rank(t, i) = Cardinality(A) /\ Rank(t, j) = Cardinality(B)
  BY DEF Rank
<1> HIDE DEF A, B
<1>5. Cardinality(A) <= Cardinality(B) /\ (Cardinality(B) = Cardinality(A) => B = A)
  BY <1>2, <1>3, FS_Subset
<1> QED BY <1>2, <1>3, <1>4, <1>5

\* The rank of a line feed is below their number.
LEMMA RankBelow ==
  ASSUME NEW t \in Output, NEW i \in LineEnds(t)
  PROVE  Rank(t, i) < Count(t)
<1> DEFINE A == {k \in LineEnds(t) : k < i}
           B == LineEnds(t)
<1>1. i \in Nat
  BY RankFacts, OutFacts
<1>2. A \in SUBSET B /\ i \in B /\ i \notin A
  BY <1>1
<1>3. IsFiniteSet(B) /\ Rank(t, i) \in Nat /\ Count(t) \in Nat
  BY RankFacts
<1>4. Rank(t, i) = Cardinality(A) /\ Count(t) = Cardinality(B)
  BY DEF Rank, Count
<1> HIDE DEF A, B
<1>5. Cardinality(A) <= Cardinality(B) /\ (Cardinality(B) = Cardinality(A) => B = A)
  BY <1>2, <1>3, FS_Subset
<1> QED BY <1>2, <1>3, <1>4, <1>5

\* Every line has an end: the ranks of n line feeds are the numbers below n.
LEMMA RankOnto ==
  ASSUME NEW t \in Output, NEW r \in 0..(Count(t) - 1)
  PROVE  \E i \in LineEnds(t) : Rank(t, i) = r
<1> DEFINE S == LineEnds(t)
           n == Count(t)
           T == 0..(n - 1)
           f == [i \in S |-> Rank(t, i)]
<1>1. n \in Nat /\ IsFiniteSet(S) /\ Cardinality(S) = n
  BY RankFacts DEF Count
<1>2. ASSUME NEW i \in S PROVE Rank(t, i) \in T
  <2>1. Rank(t, i) \in Nat
    BY RankFacts
  <2>2. Rank(t, i) < n
    BY RankBelow
  <2> HIDE DEF n
  <2> QED BY <1>1, <2>1, <2>2
<1>3. ASSUME NEW i \in S, NEW j \in S, Rank(t, i) = Rank(t, j) PROVE i = j
  <2>1. i \in Nat /\ j \in Nat /\ Rank(t, i) \in Nat
    <3>1. Rank(t, i) \in Nat /\ S \subseteq 1..Len(t)
      BY RankFacts
    <3> QED BY <3>1
  <2>2. ~(i < j) /\ ~(j < i)
    BY <1>3, <2>1, RankMonotone
  <2> QED BY <2>1, <2>2
<1>4. IsFiniteSet(T) /\ Cardinality(T) = n
  BY <1>1, FS_Interval
<1>5. f \in [S -> T]
  <2> HIDE DEF S, T
  <2> QED BY <1>2
<1>6. \A a, b \in DOMAIN f : f[a] = f[b] => a = b
  <2> HIDE DEF S
  <2> QED BY <1>3
<1>7. f \in Injection(S, T)
  <2> HIDE DEF S, T, f
  <2> QED BY <1>5, <1>6 DEF Injection, IsInjective
<1>8. f \in Surjection(S, T)
  <2> HIDE DEF S, T, f
  <2> QED BY <1>1, <1>4, <1>7, FS_Injection
<1>9. \E i \in S : f[i] = r
  <2>1. r \in T
    OBVIOUS
  <2> HIDE DEF S, T, f
  <2> QED BY <1>8, <2>1 DEF Surjection
<1> QED BY <1>9

\* The first line begins with the text.
LEMMA BeforeFirst == ASSUME NEW t PROVE Before(t, 1) = 0
BY DEF Before

\* Line k begins behind the line feed of rank k - 2.
LEMMA BeforeFacts ==
  ASSUME NEW t \in Output, NEW k \in 2..(Count(t) + 1)
  PROVE  /\ Before(t, k) \in LineEnds(t)
         /\ Rank(t, Before(t, k)) = k - 2
         /\ \A i \in LineEnds(t) : Rank(t, i) = k - 2 => i = Before(t, k)
<1>1. Count(t) \in Nat
  BY RankFacts
<1>2. k # 1 /\ k - 2 \in 0..(Count(t) - 1)
  BY <1>1
<1>3. \E i \in LineEnds(t) : Rank(t, i) = k - 2
  BY <1>2, RankOnto
<1>4. Before(t, k) = CHOOSE i \in LineEnds(t) : Rank(t, i) = k - 2
  BY <1>2 DEF Before, Rank
<1>5. Before(t, k) \in LineEnds(t) /\ Rank(t, Before(t, k)) = k - 2
  BY <1>3, <1>4
<1>6. ASSUME NEW i \in LineEnds(t), Rank(t, i) = k - 2 PROVE i = Before(t, k)
  <2> DEFINE j == Before(t, k)
  <2>1. i \in Nat /\ j \in Nat /\ Rank(t, i) \in Nat /\ Rank(t, i) = Rank(t, j) /\ j \in LineEnds(t)
    BY <1>5, <1>6, RankFacts, OutFacts
  <2> HIDE DEF j
  <2>2. ~(i < j) /\ ~(j < i)
    BY <2>1, RankMonotone
  <2>3. i = j
    BY <2>1, <2>2
  <2> QED BY <2>3 DEF j
<1> QED BY <1>5, <1>6

\* Every line begins in the text or at its end.
LEMMA BeforeRange ==
  ASSUME NEW t \in Output, NEW k \in 1..(Count(t) + 1)
  PROVE  Before(t, k) \in 0..Len(t)
<1>1. Count(t) \in Nat /\ Len(t) \in Nat /\ LineEnds(t) \subseteq 1..Len(t)
  BY RankFacts, OutFacts
<1>2. CASE k = 1
  BY <1>1, <1>2, BeforeFirst
<1>3. CASE k # 1
  <2>1. k \in 2..(Count(t) + 1)
    BY <1>1, <1>3
  <2> QED BY <1>1, <2>1, BeforeFacts
<1> QED BY <1>2, <1>3

\* Lines follow each other.
LEMMA BeforeMonotone ==
  ASSUME NEW t \in Output, NEW k \in 1..Count(t)
  PROVE  Before(t, k) < Before(t, k + 1)
<1>1. Count(t) \in Nat /\ Len(t) \in Nat /\ LineEnds(t) \subseteq 1..Len(t)
  BY RankFacts, OutFacts
<1>2. k + 1 \in 2..(Count(t) + 1)
  BY <1>1
<1>3. Before(t, k + 1) \in LineEnds(t) /\ Rank(t, Before(t, k + 1)) = k + 1 - 2
  BY <1>2, BeforeFacts
<1>4. CASE k = 1
  BY <1>1, <1>3, <1>4, BeforeFirst
<1>5. CASE k # 1
  <2>1. k \in 2..(Count(t) + 1)
    BY <1>1, <1>5
  <2> DEFINE i == Before(t, k)
             j == Before(t, k + 1)
  <2>2. i \in LineEnds(t) /\ Rank(t, i) = k - 2 /\ j \in LineEnds(t) /\ Rank(t, j) = k - 1
    BY <1>1, <1>3, <2>1, BeforeFacts
  <2> HIDE DEF i, j
  <2>3. i \in Nat /\ j \in Nat
    BY <1>1, <2>2
  <2>4. ~(j < i)
    BY <2>2, <2>3, RankMonotone
  <2>5. i # j
    BY <2>2
  <2>6. i < j
    BY <2>3, <2>4, <2>5
  <2> QED BY <2>6 DEF i, j
<1> QED BY <1>4, <1>5

----------------------------------------------------------------------------
(* Lines of a text that is continued *)

\* Counting two sets of places, one behind the other.
LEMMA ShiftCard ==
  ASSUME NEW n \in Nat, NEW S \in SUBSET (1..n), NEW T \in SUBSET (Nat \ {0}), IsFiniteSet(T)
  PROVE  Cardinality(S \cup {n + j : j \in T}) = Cardinality(S) + Cardinality(T)
<1> DEFINE U == {n + j : j \in T}
           f == [j \in T |-> n + j]
<1>1. IsFiniteSet(S)
  <2>1. IsFiniteSet(1..n)
    BY FS_Interval
  <2> QED BY <2>1, FS_Subset
<1>2. f \in [T -> U] /\ (\A a, b \in DOMAIN f : f[a] = f[b] => a = b)
  OBVIOUS
<1>3. \A u \in U : \E j \in T : f[j] = u
  OBVIOUS
<1>4. f \in Bijection(T, U)
  <2> HIDE DEF f, U
  <2> QED BY <1>2, <1>3 DEF Bijection, Injection, Surjection, IsInjective
<1>5. IsFiniteSet(U) /\ Cardinality(U) = Cardinality(T)
  <2> HIDE DEF f, U
  <2>1. ExistsBijection(T, U)
    BY <1>4 DEF ExistsBijection
  <2> QED BY <2>1, FS_Bijection
<1>6. S \cap U = {}
  <2>1. ASSUME NEW x \in S, NEW j \in T PROVE x # n + j
    <3>1. x \in 1..n /\ j \in Nat /\ j # 0
      OBVIOUS
    <3> QED BY <3>1
  <2> QED BY <2>1
<1> HIDE DEF U
<1>7. Cardinality(S \cup U) = Cardinality(S) + Cardinality(U) - Cardinality(S \cap U)
  BY <1>1, <1>5, FS_Union
<1>8. Cardinality(S \cap U) = 0 /\ Cardinality(S) \in Nat /\ Cardinality(T) \in Nat
  BY <1>1, <1>6, FS_EmptySet, FS_CardinalityType
<1>9. Cardinality(S \cup U) = Cardinality(S) + Cardinality(T)
  BY <1>5, <1>7, <1>8
<1> QED BY <1>9 DEF U

\* The line feeds of two texts, one behind the other.
LEMMA ConcatEnds ==
  ASSUME NEW s \in Output, NEW t \in Output
  PROVE  LineEnds(s \o t) = LineEnds(s) \cup {Len(s) + j : j \in LineEnds(t)}
<1> DEFINE u == s \o t
           n == Len(s)
           m == Len(t)
<1>1. /\ u \in Output /\ Len(u) = n + m /\ n \in Nat /\ m \in Nat
      /\ \A i \in 1..(n + m) : u[i] = IF i <= n THEN s[i] ELSE t[i - n]
  BY OutConcat, OutFacts
<1>2. DOMAIN u = 1..(n + m) /\ DOMAIN s = 1..n /\ DOMAIN t = 1..m
  BY <1>1, OutFacts
<1> HIDE DEF u, n, m
<1>3. ASSUME NEW i \in LineEnds(u)
      PROVE  i \in LineEnds(s) \/ \E j \in LineEnds(t) : i = n + j
  <2>1. i \in 1..(n + m) /\ u[i] = "n"
    BY <1>2 DEF LineEnds
  <2>2. CASE i <= n
    BY <1>1, <1>2, <2>1, <2>2 DEF LineEnds
  <2>3. CASE ~(i <= n)
    <3>1. i - n \in 1..m /\ i = n + (i - n)
      BY <1>1, <2>1, <2>3
    <3>2. t[i - n] = "n"
      BY <1>1, <2>1, <2>3
    <3>3. i - n \in LineEnds(t)
      BY <1>2, <3>1, <3>2 DEF LineEnds
    <3> QED BY <3>1, <3>3
  <2> QED BY <2>2, <2>3
<1>4. ASSUME NEW i \in LineEnds(s) PROVE i \in LineEnds(u)
  <2>1. i \in 1..n /\ s[i] = "n"
    BY <1>2 DEF LineEnds
  <2>2. i \in 1..(n + m) /\ i <= n
    BY <1>1, <2>1
  <2> QED BY <1>1, <1>2, <2>1, <2>2 DEF LineEnds
<1>5. ASSUME NEW j \in LineEnds(t) PROVE n + j \in LineEnds(u)
  <2>1. j \in 1..m /\ t[j] = "n"
    BY <1>2 DEF LineEnds
  <2>2. n + j \in 1..(n + m) /\ ~(n + j <= n) /\ (n + j) - n = j
    BY <1>1, <2>1
  <2>3. u[n + j] = t[j]
    BY <1>1, <2>2
  <2> QED BY <1>2, <2>1, <2>2, <2>3 DEF LineEnds
<1>6. LineEnds(u) = LineEnds(s) \cup {n + j : j \in LineEnds(t)}
  BY <1>3, <1>4, <1>5
<1> QED BY <1>6 DEF u, n

\* Lines add up.
LEMMA ConcatCount ==
  ASSUME NEW s \in Output, NEW t \in Output
  PROVE  Count(s \o t) = Count(s) + Count(t)
<1>1. LineEnds(s) \in SUBSET (1..Len(s)) /\ Len(s) \in Nat /\ IsFiniteSet(LineEnds(t))
  BY RankFacts, OutFacts
<1>2. LineEnds(t) \in SUBSET (Nat \ {0})
  BY RankFacts, OutFacts
<1>3. Cardinality(LineEnds(s) \cup {Len(s) + j : j \in LineEnds(t)})
        = Cardinality(LineEnds(s)) + Cardinality(LineEnds(t))
  BY <1>1, <1>2, ShiftCard
<1> QED BY <1>3, ConcatEnds DEF Count

\* Ranks go on with the number of lines.
LEMMA ConcatRank ==
  ASSUME NEW s \in Output, NEW t \in Output
  PROVE  /\ \A i \in 1..Len(s) : Rank(s \o t, i) = Rank(s, i)
         /\ \A j \in 1..Len(t) : Rank(s \o t, Len(s) + j) = Count(s) + Rank(t, j)
<1> DEFINE n == Len(s)
           A == LineEnds(s)
           B == LineEnds(t)
           C == LineEnds(s \o t)
<1>1. n \in Nat /\ Len(t) \in Nat /\ A \subseteq 1..n /\ B \subseteq 1..Len(t)
  BY RankFacts, OutFacts
<1>2. C = A \cup {n + j : j \in B}
  BY ConcatEnds
<1>3. ASSUME NEW i \in 1..n PROVE Rank(s \o t, i) = Rank(s, i)
  <2>1. {j \in C : j < i} = {j \in A : j < i}
    <3> HIDE DEF A, B, C, n
    <3>1. \A j \in B : ~(n + j < i)
      BY <1>1
    <3> QED BY <1>2, <3>1
  <2> QED BY <2>1 DEF Rank
<1>4. ASSUME NEW j \in 1..Len(t) PROVE Rank(s \o t, n + j) = Count(s) + Rank(t, j)
  <2> DEFINE D == {k \in B : k < j}
  <2>1. {k \in C : k < n + j} = A \cup {n + k : k \in D}
    <3> HIDE DEF A, B, C, n
    <3>1. \A k \in A : k < n + j
      BY <1>1
    <3>2. ASSUME NEW k \in B PROVE n + k < n + j <=> k < j
      BY <1>1
    <3> QED BY <1>2, <3>1, <3>2
  <2>2. IsFiniteSet(D) /\ Rank(t, j) = Cardinality(D)
    BY RankFacts DEF Rank
  <2>3. D \in SUBSET (Nat \ {0}) /\ A \in SUBSET (1..n)
    BY <1>1
  <2>4. Cardinality(A \cup {n + k : k \in D}) = Cardinality(A) + Cardinality(D)
    <3> HIDE DEF A, D, n
    <3> QED BY <1>1, <2>2, <2>3, ShiftCard
  <2>5. Rank(s \o t, n + j) = Cardinality({k \in C : k < n + j})
    BY DEF Rank
  <2>6. Count(s) = Cardinality(A)
    BY DEF Count
  <2> QED BY <2>1, <2>2, <2>4, <2>5, <2>6
<1> QED BY <1>3, <1>4

\* The beginnings of the lines of two texts, one behind the other.
LEMMA ConcatBefore ==
  ASSUME NEW s \in Output, NEW t \in Output
  PROVE  /\ \A k \in 1..(Count(s) + 1) : Before(s \o t, k) = Before(s, k)
         /\ \A k \in 2..(Count(t) + 1) : Before(s \o t, Count(s) + k) = Len(s) + Before(t, k)
<1> DEFINE u == s \o t
           n == Len(s)
<1>1. /\ Count(s) \in Nat /\ Count(t) \in Nat /\ Count(u) = Count(s) + Count(t) /\ u \in Output
      /\ n \in Nat /\ Len(t) \in Nat
      /\ LineEnds(s) \subseteq 1..n /\ LineEnds(t) \subseteq 1..Len(t)
  BY RankFacts, OutFacts, ConcatCount, OutConcat
<1>2. LineEnds(u) = LineEnds(s) \cup {n + j : j \in LineEnds(t)}
  BY ConcatEnds
<1>3. /\ \A i \in 1..n : Rank(u, i) = Rank(s, i)
      /\ \A j \in 1..Len(t) : Rank(u, n + j) = Count(s) + Rank(t, j)
  BY ConcatRank
<1> HIDE DEF u, n
<1>4. ASSUME NEW k \in 1..(Count(s) + 1) PROVE Before(u, k) = Before(s, k)
  <2>1. CASE k = 1
    BY <2>1, BeforeFirst
  <2>2. CASE k # 1
    <3>1. k \in 2..(Count(s) + 1) /\ k \in 2..(Count(u) + 1)
      BY <1>1, <2>2
    <3> DEFINE i == Before(s, k)
    <3>2. i \in LineEnds(s) /\ Rank(s, i) = k - 2
      BY <3>1, BeforeFacts
    <3> HIDE DEF i
    <3>3. i \in LineEnds(u) /\ Rank(u, i) = k - 2
      BY <1>1, <1>2, <1>3, <3>2
    <3>4. i = Before(u, k)
      BY <1>1, <3>1, <3>3, BeforeFacts
    <3> QED BY <3>4 DEF i
  <2> QED BY <2>1, <2>2
<1>5. ASSUME NEW k \in 2..(Count(t) + 1) PROVE Before(u, Count(s) + k) = n + Before(t, k)
  <2> DEFINE j == Before(t, k)
  <2>1. Count(s) + k \in 2..(Count(u) + 1)
    BY <1>1
  <2>2. j \in LineEnds(t) /\ Rank(t, j) = k - 2
    BY BeforeFacts
  <2> HIDE DEF j
  <2>3. n + j \in LineEnds(u) /\ Rank(u, n + j) = Count(s) + (k - 2)
    BY <1>1, <1>2, <1>3, <2>2
  <2>4. Count(s) + (k - 2) = (Count(s) + k) - 2
    BY <1>1
  <2>5. n + j = Before(u, Count(s) + k)
    BY <1>1, <2>1, <2>3, <2>4, BeforeFacts
  <2> QED BY <2>5 DEF j
<1> QED BY <1>4, <1>5 DEF u, n

\* A line is a part of the text.
LEMMA LineFacts ==
  ASSUME NEW t \in Output, NEW k \in 1..(Count(t) + 1)
  PROVE  LineOf(t, k) \in Output
<1>1. Count(t) \in Nat /\ Len(t) \in Nat /\ Before(t, k) \in 0..Len(t)
  BY RankFacts, OutFacts, BeforeRange
<1>2. CASE k > Count(t)
  <2>1. LineOf(t, k) = SubSeq(t, Before(t, k) + 1, Len(t))
    BY <1>2 DEF LineOf
  <2> QED BY <1>1, <2>1, OutPart
<1>3. CASE ~(k > Count(t))
  <2>1. LineOf(t, k) = SubSeq(t, Before(t, k) + 1, Before(t, k + 1) - 1)
    BY <1>3 DEF LineOf
  <2>2. k \in 1..Count(t) /\ k + 1 \in 1..(Count(t) + 1)
    BY <1>1, <1>3
  <2>3. Before(t, k + 1) \in 0..Len(t) /\ Before(t, k) < Before(t, k + 1)
    BY <2>2, BeforeRange, BeforeMonotone
  <2>4. Before(t, k + 1) - 1 \in 0..Len(t) /\ Before(t, k) + 1 \in Nat /\ 1 <= Before(t, k) + 1
    BY <1>1, <2>3
  <2> QED BY <2>1, <2>4, OutPart
<1> QED BY <1>2, <1>3

\* The unfinished line is the end of the text and has no line feed.
LEMMA UnfinishedFacts ==
  ASSUME NEW t \in Output
  PROVE  /\ Unfinished(t) \in Output
         /\ Unfinished(t) = SubSeq(t, Before(t, Count(t) + 1) + 1, Len(t))
         /\ Count(Unfinished(t)) = 0
<1> DEFINE b == Before(t, Count(t) + 1)
           u == Unfinished(t)
<1>1. Count(t) \in Nat /\ Len(t) \in Nat /\ b \in 0..Len(t) /\ LineEnds(t) \subseteq 1..Len(t)
  BY RankFacts, OutFacts, BeforeRange
<1>2. u = SubSeq(t, b + 1, Len(t))
  BY <1>1 DEF Unfinished, LineOf
<1>3. u \in Output
  BY <1>1, LineFacts DEF Unfinished
<1> HIDE DEF u
<1>4. Len(u) = Len(t) - b /\ \A i \in 1..(Len(t) - b) : u[i] = t[b + i]
  <2> HIDE DEF b
  <2>1. b + 1 \in Nat /\ 1 <= b + 1 /\ Len(t) \in 0..Len(t) /\ Len(t) - (b + 1) + 1 = Len(t) - b
    BY <1>1
  <2>2. /\ Len(u) = IF b + 1 <= Len(t) THEN Len(t) - (b + 1) + 1 ELSE 0
        /\ \A i \in 1..(Len(t) - b) : u[i] = t[b + 1 + i - 1]
    BY <1>2, <2>1, OutPart
  <2>3. \A i \in 1..(Len(t) - b) : b + 1 + i - 1 = b + i
    BY <1>1
  <2> QED BY <1>1, <2>2, <2>3
<1>5. ASSUME NEW i \in LineEnds(u) PROVE FALSE
  <2>1. i \in 1..(Len(t) - b) /\ u[i] = "n"
    BY <1>3, <1>4, OutFacts DEF LineEnds
  <2>2. b + i \in 1..Len(t) /\ t[b + i] = "n" /\ b + i \in Nat
    BY <1>1, <1>4, <2>1
  <2>3. b + i \in LineEnds(t)
    BY <2>2, OutFacts DEF LineEnds
  <2>4. Rank(t, b + i) < Count(t) /\ Rank(t, b + i) \in Nat
    BY <2>3, RankBelow, RankFacts
  <2>5. Count(t) # 0 /\ Count(t) + 1 \in 2..(Count(t) + 1)
    BY <1>1, <2>4
  <2>6. b \in LineEnds(t) /\ Rank(t, b) = Count(t) + 1 - 2
    <3> DEFINE k == Count(t) + 1
    <3>1. k \in 2..(Count(t) + 1)
      BY <2>5
    <3> HIDE DEF k
    <3>2. Before(t, k) \in LineEnds(t) /\ Rank(t, Before(t, k)) = k - 2
      BY <3>1, BeforeFacts
    <3>3. b = Before(t, k) /\ k - 2 = Count(t) + 1 - 2
      BY <1>1 DEF k
    <3> HIDE DEF b
    <3> QED BY <3>2, <3>3
  <2>7. b < b + i
    BY <1>1, <2>1
  <2>8. Rank(t, b) < Rank(t, b + i)
    <3> HIDE DEF b
    <3> QED BY <2>2, <2>6, <2>7, RankMonotone
  <2> QED BY <1>1, <2>4, <2>6, <2>8
<1>6. LineEnds(u) = {}
  BY <1>5
<1>7. Count(u) = 0
  BY <1>6, FS_EmptySet DEF Count
<1> QED BY <1>2, <1>3, <1>7 DEF u

\* A text without a line feed is its unfinished line.
LEMMA UnfinishedWhole ==
  ASSUME NEW t \in Output, Count(t) = 0
  PROVE  Unfinished(t) = t /\ LineOf(t, 1) = t
<1>1. Len(t) \in Nat /\ Before(t, 1) = 0
  BY OutFacts, BeforeFirst
<1>2. LineOf(t, 1) = SubSeq(t, 1, Len(t))
  BY <1>1 DEF LineOf
<1>3. SubSeq(t, 1, Len(t)) = t
  <2>1. /\ SubSeq(t, 1, Len(t)) \in Output
        /\ Len(SubSeq(t, 1, Len(t))) = IF 1 <= Len(t) THEN Len(t) - 1 + 1 ELSE 0
        /\ \A i \in 1..(Len(t) - 1 + 1) : SubSeq(t, 1, Len(t))[i] = t[1 + i - 1]
    BY <1>1, OutPart
  <2> DEFINE s == SubSeq(t, 1, Len(t))
  <2>2. s \in Output /\ Len(s) = Len(t) /\ \A i \in 1..Len(s) : s[i] = t[i]
    BY <1>1, <2>1
  <2> HIDE DEF s
  <2>3. s = t
    BY <2>2, OutEqual
  <2> QED BY <2>3 DEF s
<1> QED BY <1>2, <1>3 DEF Unfinished

\* The lines of a text that is continued: finished lines stay, the first line
\* of the continuation continues the unfinished one, and the others follow.
LEMMA ConcatLines ==
  ASSUME NEW s \in Output, NEW t \in Output
  PROVE  /\ \A k \in 1..Count(s) : LineOf(s \o t, k) = LineOf(s, k)
         /\ LineOf(s \o t, Count(s) + 1) = Unfinished(s) \o LineOf(t, 1)
         /\ \A k \in 2..(Count(t) + 1) : LineOf(s \o t, Count(s) + k) = LineOf(t, k)
<1> DEFINE u == s \o t
           n == Len(s)
           m == Len(t)
           a == Count(s)
           b == Count(t)
<1>1. /\ a \in Nat /\ b \in Nat /\ n \in Nat /\ m \in Nat
      /\ Count(u) = a + b /\ u \in Output /\ Len(u) = n + m
      /\ \A i \in 1..(n + m) : u[i] = IF i <= n THEN s[i] ELSE t[i - n]
  BY RankFacts, OutFacts, ConcatCount, OutConcat
<1>2. /\ \A k \in 1..(a + 1) : Before(u, k) = Before(s, k)
      /\ \A k \in 2..(b + 1) : Before(u, a + k) = n + Before(t, k)
  BY ConcatBefore
<1>3. /\ \A k \in 1..(a + 1) : Before(s, k) \in 0..n
      /\ \A k \in 1..(b + 1) : Before(t, k) \in 0..m
  BY BeforeRange
<1>4. /\ \A k \in 1..a : Before(s, k) < Before(s, k + 1)
      /\ \A k \in 1..b : Before(t, k) < Before(t, k + 1)
  BY BeforeMonotone
<1>5. s \in Output /\ t \in Output /\ Before(t, 1) = 0
  BY BeforeFirst
<1>6. /\ \A k \in 1..a : LineOf(s, k) = SubSeq(s, Before(s, k) + 1, Before(s, k + 1) - 1)
      /\ Unfinished(s) = SubSeq(s, Before(s, a + 1) + 1, n)
      /\ \A k \in 1..(b + 1) : LineOf(t, k) = SubSeq(t, Before(t, k) + 1,
                                   IF k > b THEN m ELSE Before(t, k + 1) - 1)
      /\ \A k \in 1..(a + b + 1) : LineOf(u, k) = SubSeq(u, Before(u, k) + 1,
                                   IF k > a + b THEN n + m ELSE Before(u, k + 1) - 1)
  <2>1. \A k \in 1..a : ~(k > a)
    BY <1>1
  <2>2. \A k \in 1..a : LineOf(s, k) = SubSeq(s, Before(s, k) + 1, Before(s, k + 1) - 1)
    BY <2>1 DEF LineOf
  <2>3. Unfinished(s) = SubSeq(s, Before(s, a + 1) + 1, n)
    BY <1>1, UnfinishedFacts
  <2> HIDE DEF u
  <2>4. \A k \in 1..(a + b + 1) : LineOf(u, k) = SubSeq(u, Before(u, k) + 1,
                                   IF k > a + b THEN n + m ELSE Before(u, k + 1) - 1)
    BY <1>1 DEF LineOf
  <2> QED BY <2>2, <2>3, <2>4 DEF LineOf
<1> HIDE DEF u, n, m, a, b
<1>7. ASSUME NEW k \in 1..a PROVE LineOf(u, k) = LineOf(s, k)
  <2> DEFINE i == Before(s, k)
             j == Before(s, k + 1)
  <2>1. k \in 1..(a + 1) /\ k + 1 \in 1..(a + 1) /\ k \in 1..(a + b + 1) /\ ~(k > a + b)
    BY <1>1
  <2>2. i \in 0..n /\ j \in 0..n /\ i < j /\ Before(u, k) = i /\ Before(u, k + 1) = j
    BY <1>2, <1>3, <1>4, <2>1
  <2>3. LineOf(u, k) = SubSeq(u, i + 1, j - 1) /\ LineOf(s, k) = SubSeq(s, i + 1, j - 1)
    BY <1>6, <2>1, <2>2
  <2> HIDE DEF i, j
  <2>4. /\ i + 1 \in Nat /\ 1 <= i + 1 /\ j - 1 \in 0..n /\ j - 1 \in 0..(n + m)
        /\ (j - 1) - (i + 1) + 1 = j - i - 1
    BY <1>1, <2>2
  <2> DEFINE x == SubSeq(u, i + 1, j - 1)
             y == SubSeq(s, i + 1, j - 1)
  <2>5. /\ x \in Output /\ y \in Output /\ Len(x) = Len(y)
        /\ Len(x) = IF i + 1 <= j - 1 THEN j - i - 1 ELSE 0
        /\ \A l \in 1..(j - i - 1) : x[l] = u[i + 1 + l - 1] /\ y[l] = s[i + 1 + l - 1]
    BY <1>1, <1>5, <2>4, OutPart DEF n
  <2> HIDE DEF x, y
  <2>6. Len(x) = j - i - 1
    BY <1>1, <2>2, <2>5
  <2>7. \A l \in 1..(j - i - 1) : u[i + 1 + l - 1] = s[i + 1 + l - 1]
    <3> SUFFICES ASSUME NEW l \in 1..(j - i - 1) PROVE u[i + 1 + l - 1] = s[i + 1 + l - 1]
      OBVIOUS
    <3>1. i + 1 + l - 1 \in 1..(n + m) /\ i + 1 + l - 1 <= n
      BY <1>1, <2>2
    <3> QED BY <1>1, <3>1
  <2>8. x = y
    BY <2>5, <2>6, <2>7, OutEqual
  <2> QED BY <2>3, <2>8 DEF x, y
<1>8. LineOf(u, a + 1) = Unfinished(s) \o LineOf(t, 1)
  <2> DEFINE i == Before(s, a + 1)
             j == IF b = 0 THEN m ELSE Before(t, 2) - 1
  <2>1. a + 1 \in 1..(a + 1) /\ a + 1 \in 1..(a + b + 1) /\ (a + 1 > a + b <=> b = 0) /\ (1 > b <=> b = 0)
        /\ 1 \in 1..(b + 1)
    BY <1>1
  <2>2. i \in 0..n /\ Before(u, a + 1) = i
    BY <1>2, <1>3, <2>1
  <2>3. b # 0 => Before(u, a + 2) = n + Before(t, 2) /\ Before(t, 2) \in 0..m /\ 0 < Before(t, 2)
    <3>1. b # 0 => 2 \in 2..(b + 1) /\ 2 \in 1..(b + 1) /\ 1 \in 1..b /\ 1 + 1 = 2
      BY <1>1
    <3> QED BY <1>2, <1>3, <1>4, <1>5, <3>1
  <2>4. a + 1 + 1 = a + 2 /\ 1 + 1 = 2
    BY <1>1
  <2>5. j \in 0..m
    BY <1>1, <2>3
  <2>6. LineOf(t, 1) = SubSeq(t, 1, j)
    <3>1. LineOf(t, 1) = SubSeq(t, Before(t, 1) + 1, IF 1 > b THEN m ELSE Before(t, 1 + 1) - 1)
      BY <1>6, <2>1
    <3> QED BY <1>5, <2>1, <2>4, <3>1
  <2>7. LineOf(u, a + 1) = SubSeq(u, i + 1, n + j)
    <3>1. LineOf(u, a + 1) = SubSeq(u, i + 1, IF b = 0 THEN n + m ELSE Before(u, a + 2) - 1)
      BY <1>6, <2>1, <2>2, <2>4
    <3>2. b # 0 => Before(u, a + 2) - 1 = n + (Before(t, 2) - 1)
      BY <1>1, <2>3
    <3> QED BY <3>1, <3>2
  <2>8. Unfinished(s) = SubSeq(s, i + 1, n)
    BY <1>6
  <2> HIDE DEF i, j
  <2> DEFINE x == SubSeq(u, i + 1, n + j)
             y == SubSeq(s, i + 1, n)
             z == SubSeq(t, 1, j)
  <2>9. /\ i + 1 \in Nat /\ 1 <= i + 1 /\ n + j \in 0..(n + m) /\ n \in 0..n /\ 1 \in Nat
        /\ (n + j) - (i + 1) + 1 = n - i + j /\ n - (i + 1) + 1 = n - i /\ j - 1 + 1 = j
    BY <1>1, <2>2, <2>5
  <2>10. /\ x \in Output /\ Len(x) = IF i + 1 <= n + j THEN n - i + j ELSE 0
         /\ \A l \in 1..(n - i + j) : x[l] = u[i + 1 + l - 1]
    BY <1>1, <2>9, OutPart
  <2>11. /\ y \in Output /\ Len(y) = IF i + 1 <= n THEN n - i ELSE 0
         /\ \A l \in 1..(n - i) : y[l] = s[i + 1 + l - 1]
    BY <1>5, <2>9, OutPart DEF n
  <2>12. /\ z \in Output /\ Len(z) = IF 1 <= j THEN j ELSE 0
         /\ \A l \in 1..j : z[l] = t[1 + l - 1]
    <3>1. j \in 0..Len(t) /\ 1 \in Nat /\ 1 <= 1
      BY <2>5 DEF m
    <3>2. /\ z \in Output /\ Len(z) = IF 1 <= j THEN j - 1 + 1 ELSE 0
          /\ \A l \in 1..(j - 1 + 1) : z[l] = t[1 + l - 1]
      BY <1>5, <3>1, OutPart
    <3> HIDE DEF z
    <3> QED BY <2>9, <3>2
  <2> HIDE DEF x, y, z
  <2>13. Len(x) = n - i + j /\ Len(y) = n - i /\ Len(z) = j
    BY <1>1, <2>2, <2>5, <2>10, <2>11, <2>12
  <2> DEFINE v == y \o z
  <2>14. /\ v \in Output /\ Len(v) = n - i + j
         /\ \A l \in 1..(n - i + j) : v[l] = IF l <= n - i THEN y[l] ELSE z[l - (n - i)]
    BY <2>11, <2>12, <2>13, OutConcat
  <2> HIDE DEF v
  <2>15. ASSUME NEW l \in 1..(n - i + j) PROVE x[l] = v[l]
    <3>1. i + 1 + l - 1 = i + l /\ i + l \in 1..(n + m) /\ x[l] = u[i + l]
      BY <1>1, <2>2, <2>5, <2>10
    <3>2. CASE l <= n - i
      <4>1. l \in 1..(n - i) /\ i + l <= n
        BY <1>1, <2>2, <2>5, <3>2
      <4>2. v[l] = s[i + l]
        BY <2>11, <2>14, <3>1, <3>2, <4>1
      <4> QED BY <1>1, <3>1, <4>1, <4>2
    <3>3. CASE ~(l <= n - i)
      <4>1. /\ l - (n - i) \in 1..j /\ ~(i + l <= n)
            /\ 1 + (l - (n - i)) - 1 = l - (n - i) /\ (i + l) - n = l - (n - i)
        BY <1>1, <2>2, <2>5, <3>3
      <4>2. v[l] = t[l - (n - i)]
        BY <2>12, <2>14, <3>3, <4>1
      <4> QED BY <1>1, <3>1, <4>1, <4>2
    <3> QED BY <3>2, <3>3
  <2>16. x = v
    BY <2>10, <2>13, <2>14, <2>15, OutEqual
  <2> QED BY <2>6, <2>7, <2>8, <2>16 DEF x, y, z, v
<1>9. ASSUME NEW k \in 2..(b + 1) PROVE LineOf(u, a + k) = LineOf(t, k)
  <2> DEFINE i == Before(t, k)
             j == IF k > b THEN m ELSE Before(t, k + 1) - 1
  <2>1. a + k \in 1..(a + b + 1) /\ (a + k > a + b <=> k > b) /\ k \in 1..(b + 1) /\ a + k + 1 = a + (k + 1)
    BY <1>1
  <2>2. i \in 0..m /\ Before(u, a + k) = n + i
    BY <1>2, <1>3, <2>1
  <2>3. ~(k > b) => /\ Before(u, a + (k + 1)) = n + Before(t, k + 1)
                    /\ Before(t, k + 1) \in 0..m /\ i < Before(t, k + 1)
    <3>1. ~(k > b) => k + 1 \in 2..(b + 1) /\ k + 1 \in 1..(b + 1) /\ k \in 1..b
      BY <1>1
    <3> QED BY <1>2, <1>3, <1>4, <3>1
  <2>4. j \in 0..m /\ i <= j
    BY <1>1, <2>2, <2>3
  <2>5. LineOf(t, k) = SubSeq(t, i + 1, j)
    BY <1>6, <2>1
  <2>6. LineOf(u, a + k) = SubSeq(u, n + i + 1, n + j)
    <3>1. LineOf(u, a + k) = SubSeq(u, n + i + 1, IF k > b THEN n + m ELSE Before(u, a + (k + 1)) - 1)
      BY <1>6, <2>1, <2>2
    <3>2. ~(k > b) => Before(u, a + (k + 1)) - 1 = n + (Before(t, k + 1) - 1)
      BY <1>1, <2>3
    <3> QED BY <3>1, <3>2
  <2> HIDE DEF i, j
  <2> DEFINE x == SubSeq(u, n + i + 1, n + j)
             y == SubSeq(t, i + 1, j)
  <2>7. /\ n + i + 1 \in Nat /\ 1 <= n + i + 1 /\ n + j \in 0..(n + m) /\ i + 1 \in Nat /\ 1 <= i + 1
        /\ (n + j) - (n + i + 1) + 1 = j - i /\ j - (i + 1) + 1 = j - i
    BY <1>1, <2>2, <2>4
  <2>8. /\ x \in Output /\ Len(x) = IF n + i + 1 <= n + j THEN j - i ELSE 0
        /\ \A l \in 1..(j - i) : x[l] = u[n + i + 1 + l - 1]
    BY <1>1, <2>7, OutPart
  <2>9. /\ y \in Output /\ Len(y) = IF i + 1 <= j THEN j - i ELSE 0
        /\ \A l \in 1..(j - i) : y[l] = t[i + 1 + l - 1]
    BY <1>5, <2>4, <2>7, OutPart DEF m
  <2> HIDE DEF x, y
  <2>10. Len(x) = j - i /\ Len(y) = j - i
    BY <1>1, <2>2, <2>4, <2>8, <2>9
  <2>11. ASSUME NEW l \in 1..(j - i) PROVE x[l] = y[l]
    <3>1. /\ n + i + 1 + l - 1 \in 1..(n + m) /\ ~(n + i + 1 + l - 1 <= n)
          /\ (n + i + 1 + l - 1) - n = i + 1 + l - 1
      BY <1>1, <2>2, <2>4
    <3>2. u[n + i + 1 + l - 1] = t[i + 1 + l - 1]
      BY <1>1, <3>1
    <3> QED BY <2>8, <2>9, <3>2
  <2>12. x = y
    BY <2>8, <2>9, <2>10, <2>11, OutEqual
  <2> QED BY <2>5, <2>6, <2>12 DEF x, y
<1> QED BY <1>7, <1>8, <1>9 DEF u, a, b

----------------------------------------------------------------------------
(* What is kept of an unfinished line *)

\* The last LineLimit letters.
Cut(u) == SubSeq(u, (IF Len(u) > LineLimit THEN Len(u) - LineLimit ELSE 0) + 1, Len(u))

\* What is cut is the end of the line, or the line when it is short.
LEMMA CutFacts ==
  ASSUME NEW u \in Output
  PROVE  /\ Cut(u) \in Output
         /\ Len(Cut(u)) = IF Len(u) > LineLimit THEN LineLimit ELSE Len(u)
         /\ \A i \in 1..Len(Cut(u)) : Cut(u)[i] = u[Len(u) - Len(Cut(u)) + i]
         /\ Len(u) <= LineLimit => Cut(u) = u
<1> DEFINE n == Len(u)
           d == IF n > LineLimit THEN n - LineLimit ELSE 0
           c == Cut(u)
<1>1. n \in Nat /\ LineLimit \in Nat /\ d \in 0..n
  BY OutFacts, LimitsAssumption
<1>2. c = SubSeq(u, d + 1, n)
  BY DEF Cut
<1> HIDE DEF d, c
<1>3. d + 1 \in Nat /\ 1 <= d + 1 /\ n \in 0..n /\ n - (d + 1) + 1 = n - d
  BY <1>1
<1>4. /\ c \in Output /\ Len(c) = IF d + 1 <= n THEN n - (d + 1) + 1 ELSE 0
      /\ \A i \in 1..(n - (d + 1) + 1) : c[i] = u[d + 1 + i - 1]
  BY <1>2, <1>3, OutPart
<1> HIDE DEF n
<1>5. /\ Len(c) = n - d /\ Len(c) = IF n > LineLimit THEN LineLimit ELSE n
      /\ n - Len(c) = d
  BY <1>1, <1>3, <1>4 DEF d
<1>6. ASSUME NEW i \in 1..Len(c) PROVE c[i] = u[n - Len(c) + i]
  <2>1. i \in 1..(n - d) /\ d + 1 + i - 1 = n - Len(c) + i
    BY <1>1, <1>5
  <2> QED BY <1>3, <1>4, <2>1
<1>7. ASSUME n <= LineLimit PROVE c = u
  <2>1. Len(c) = Len(u) /\ \A i \in 1..Len(c) : n - Len(c) + i = i
    BY <1>1, <1>5, <1>7 DEF n
  <2> QED BY <1>4, <1>6, <2>1, OutEqual
<1> QED BY <1>4, <1>5, <1>6, <1>7 DEF c, n

\* Cutting before the line is continued makes no difference.
LEMMA CutConcat ==
  ASSUME NEW u \in Output, NEW t \in Output
  PROVE  Cut(Cut(u) \o t) = Cut(u \o t)
<1> DEFINE a == Len(u)
           b == Len(t)
           c == Cut(u)
           p == c \o t
           q == u \o t
           e == Len(c)
           x == Cut(p)
           y == Cut(q)
<1>1. /\ c \in Output /\ e = (IF a > LineLimit THEN LineLimit ELSE a)
      /\ \A i \in 1..e : c[i] = u[a - e + i]
  BY CutFacts
<1>2. a \in Nat /\ b \in Nat /\ LineLimit \in Nat
  BY OutFacts, LimitsAssumption
<1>3. /\ p \in Output /\ Len(p) = e + b
      /\ \A i \in 1..(e + b) : p[i] = IF i <= e THEN c[i] ELSE t[i - e]
  BY <1>1, OutConcat
<1>4. /\ q \in Output /\ Len(q) = a + b
      /\ \A i \in 1..(a + b) : q[i] = IF i <= a THEN u[i] ELSE t[i - a]
  BY OutConcat
<1> HIDE DEF p, q, c
<1>5. /\ x \in Output /\ Len(x) = (IF e + b > LineLimit THEN LineLimit ELSE e + b)
      /\ \A i \in 1..Len(x) : x[i] = p[e + b - Len(x) + i]
  <2>1. /\ x \in Output /\ Len(x) = (IF Len(p) > LineLimit THEN LineLimit ELSE Len(p))
        /\ \A i \in 1..Len(x) : x[i] = p[Len(p) - Len(x) + i]
    BY <1>3, CutFacts
  <2>2. Len(p) = e + b
    BY <1>3
  <2>3. e \in Nat /\ b \in Nat
    BY <1>1, <1>2
  <2>4. x \in Output /\ Len(x) \in Nat
    BY <2>1, OutFacts
  <2> HIDE DEF x, e, b
  <2>5. Len(x) = (IF e + b > LineLimit THEN LineLimit ELSE e + b)
    BY <2>1, <2>2, <2>3
  <2>6. \A i \in 1..Len(x) : x[i] = p[e + b - Len(x) + i]
    <3> SUFFICES ASSUME NEW i \in 1..Len(x) PROVE x[i] = p[e + b - Len(x) + i]
      OBVIOUS
    <3>1. x[i] = p[Len(p) - Len(x) + i]
      BY <2>1
    <3>2. Len(p) - Len(x) + i = e + b - Len(x) + i
      BY <2>2, <2>3, <2>4
    <3> QED BY <3>1, <3>2
  <2> QED BY <2>4, <2>5, <2>6
<1>6. /\ y \in Output /\ Len(y) = (IF a + b > LineLimit THEN LineLimit ELSE a + b)
      /\ \A i \in 1..Len(y) : y[i] = q[a + b - Len(y) + i]
  <2>1. /\ y \in Output /\ Len(y) = (IF Len(q) > LineLimit THEN LineLimit ELSE Len(q))
        /\ \A i \in 1..Len(y) : y[i] = q[Len(q) - Len(y) + i]
    BY <1>4, CutFacts
  <2> HIDE DEF y
  <2> QED BY <1>4, <2>1
<1> HIDE DEF x, y, a, b, e
<1>7. Len(x) = Len(y) /\ Len(x) \in 0..(e + b) /\ e \in 0..a
  BY <1>1, <1>2, <1>5, <1>6
<1>8. ASSUME NEW i \in 1..Len(x) PROVE x[i] = y[i]
  <2> DEFINE k == e + b - Len(x) + i
             l == a + b - Len(x) + i
  <2>1. x[i] = p[k] /\ y[i] = q[l]
    BY <1>5, <1>6, <1>7
  <2>2. k \in 1..(e + b) /\ l \in 1..(a + b) /\ l = k + (a - e)
    BY <1>1, <1>2, <1>7
  <2> HIDE DEF k, l
  <2>3. CASE k <= e
    <3>1. k \in 1..e /\ l <= a /\ a - e + k = l
      BY <1>2, <1>7, <2>2, <2>3
    <3> QED BY <1>1, <1>3, <1>4, <2>1, <2>2, <2>3, <3>1
  <2>4. CASE ~(k <= e)
    <3>1. ~(l <= a) /\ l - a = k - e
      BY <1>2, <1>7, <2>2, <2>4
    <3> QED BY <1>3, <1>4, <2>1, <2>2, <2>4, <3>1
  <2> QED BY <2>3, <2>4
<1>9. x = y
  BY <1>5, <1>6, <1>7, <1>8, OutEqual
<1> QED BY <1>9 DEF x, y, p, q, c

\* A match in what is left of a line is a match in the line.
LEMMA CutMatches ==
  ASSUME NEW u \in Output, NEW t \in Output, Matches(Cut(u) \o t)
  PROVE  Matches(u \o t)
<1> DEFINE a == Len(u)
           b == Len(t)
           c == Cut(u)
           p == c \o t
           q == u \o t
           e == Len(c)
<1>1. /\ c \in Output /\ e = (IF a > LineLimit THEN LineLimit ELSE a)
      /\ \A i \in 1..e : c[i] = u[a - e + i]
  BY CutFacts
<1>2. a \in Nat /\ b \in Nat /\ LineLimit \in Nat
  BY OutFacts, LimitsAssumption
<1>3. /\ p \in Output /\ Len(p) = e + b
      /\ \A i \in 1..(e + b) : p[i] = IF i <= e THEN c[i] ELSE t[i - e]
  BY <1>1, OutConcat
<1>4. /\ q \in Output /\ Len(q) = a + b
      /\ \A i \in 1..(a + b) : q[i] = IF i <= a THEN u[i] ELSE t[i - a]
  BY OutConcat
<1>5. PICK i \in 1..(Len(p) - 1) : p[i] = "x" /\ p[i + 1] = "y"
  BY DEF Matches
<1> HIDE DEF p, q, c, a, b, e
<1>6. e \in 0..a
  BY <1>1, <1>2
<1>7. ASSUME NEW k \in 1..(e + b) PROVE k + (a - e) \in 1..(a + b) /\ p[k] = q[k + (a - e)]
  <2> DEFINE l == k + (a - e)
  <2>1. l \in 1..(a + b)
    BY <1>2, <1>6
  <2>2. CASE k <= e
    <3>1. k \in 1..e /\ l <= a /\ a - e + k = l
      BY <1>2, <1>6, <2>2
    <3> QED BY <1>1, <1>3, <1>4, <2>1, <2>2, <3>1
  <2>3. CASE ~(k <= e)
    <3>1. ~(l <= a) /\ l - a = k - e
      BY <1>2, <1>6, <2>3
    <3> QED BY <1>3, <1>4, <2>1, <2>3, <3>1
  <2> QED BY <2>1, <2>2, <2>3
<1> DEFINE j == i + (a - e)
<1>8. i \in 1..(e + b) /\ i + 1 \in 1..(e + b) /\ i + 1 + (a - e) = j + 1
  BY <1>2, <1>3, <1>6
<1>9. q[j] = "x" /\ q[j + 1] = "y"
  BY <1>5, <1>7, <1>8
<1>10. j \in 1..(Len(q) - 1)
  BY <1>2, <1>3, <1>4, <1>6
<1> HIDE DEF j
<1>11. Matches(q)
  BY <1>9, <1>10 DEF Matches
<1> QED BY <1>11 DEF q

\* A line that matches goes on matching.
LEMMA MatchesLonger ==
  ASSUME NEW u \in Output, NEW t \in Output, Matches(u)
  PROVE  Matches(u \o t)
<1> DEFINE q == u \o t
<1>1. /\ q \in Output /\ Len(q) = Len(u) + Len(t) /\ Len(u) \in Nat /\ Len(t) \in Nat
      /\ \A i \in 1..(Len(u) + Len(t)) : q[i] = IF i <= Len(u) THEN u[i] ELSE t[i - Len(u)]
  BY OutConcat, OutFacts
<1>2. PICK i \in 1..(Len(u) - 1) : u[i] = "x" /\ u[i + 1] = "y"
  BY DEF Matches
<1> HIDE DEF q
<1>3. /\ i \in 1..(Len(u) + Len(t)) /\ i + 1 \in 1..(Len(u) + Len(t))
      /\ i <= Len(u) /\ i + 1 <= Len(u) /\ i \in 1..(Len(q) - 1)
  BY <1>1
<1>4. q[i] = "x" /\ q[i + 1] = "y"
  BY <1>1, <1>2, <1>3
<1>5. Matches(q)
  BY <1>3, <1>4 DEF Matches
<1> QED BY <1>5 DEF q

\* The line buffer is the end of the unfinished line.
LEMMA BufferFacts ==
  ASSUME NEW t \in Output
  PROVE  /\ LineBuffer(t) = Cut(Unfinished(t)) /\ LineBuffer(t) \in Output
         /\ Count(LineBuffer(t)) = 0 /\ Unfinished(LineBuffer(t)) = LineBuffer(t)
<1> DEFINE u == Unfinished(t)
           c == Cut(u)
<1>1. u \in Output /\ Count(u) = 0
  BY UnfinishedFacts
<1>2. LineBuffer(t) = c
  BY DEF LineBuffer, Cut
<1> HIDE DEF u
<1>3. /\ c \in Output /\ Len(c) \in Nat /\ Len(u) \in Nat
      /\ Len(c) = (IF Len(u) > LineLimit THEN LineLimit ELSE Len(u)) /\ LineLimit \in Nat
      /\ \A i \in 1..Len(c) : c[i] = u[Len(u) - Len(c) + i]
  BY <1>1, CutFacts, OutFacts, LimitsAssumption
<1>4. LineEnds(u) = {}
  BY <1>1, RankFacts, FS_EmptySet DEF Count
<1> HIDE DEF c
<1>5. ASSUME NEW i \in LineEnds(c) PROVE FALSE
  <2>1. i \in 1..Len(c) /\ c[i] = "n"
    BY <1>3, OutFacts DEF LineEnds
  <2>2. Len(u) - Len(c) + i \in 1..Len(u) /\ u[Len(u) - Len(c) + i] = "n"
    <3>1. u[Len(u) - Len(c) + i] = "n"
      BY <1>3, <2>1
    <3>2. Len(c) <= Len(u) /\ Len(c) \in Nat /\ Len(u) \in Nat
      BY <1>3
    <3> QED BY <2>1, <3>1, <3>2
  <2>3. Len(u) - Len(c) + i \in LineEnds(u)
    BY <1>1, <2>2, OutFacts DEF LineEnds
  <2> QED BY <1>4, <2>3
<1>6. Count(c) = 0
  <2>1. LineEnds(c) = {}
    BY <1>5
  <2> QED BY <2>1, FS_EmptySet DEF Count
<1>7. Unfinished(c) = c
  BY <1>3, <1>6, UnfinishedWhole
<1> QED BY <1>2, <1>3, <1>6, <1>7 DEF c, u

\* The watcher keeps what it would keep of the whole output.
LEMMA BufferStep ==
  ASSUME NEW t \in Output, NEW c \in Output
  PROVE  LineBuffer(LineBuffer(t) \o c) = LineBuffer(t \o c)
<1> DEFINE b == LineBuffer(t)
           u == Unfinished(t)
<1>1. b = Cut(u) /\ b \in Output /\ Count(b) = 0 /\ Unfinished(b) = b /\ u \in Output
  BY BufferFacts, UnfinishedFacts
<1> HIDE DEF b, u
<1>2. b \o c \in Output /\ t \o c \in Output
  BY <1>1, OutConcat
<1>3. /\ Count(b \o c) = Count(c) /\ Count(t \o c) = Count(t) + Count(c)
      /\ Count(c) \in Nat /\ Count(t) \in Nat
  BY <1>1, ConcatCount, RankFacts
<1>4. /\ LineBuffer(b \o c) = Cut(Unfinished(b \o c))
      /\ LineBuffer(t \o c) = Cut(Unfinished(t \o c))
  BY <1>2, BufferFacts
<1>5. /\ Unfinished(b \o c) = LineOf(b \o c, Count(c) + 1)
      /\ Unfinished(t \o c) = LineOf(t \o c, Count(t) + Count(c) + 1)
  BY <1>3 DEF Unfinished
<1>6. /\ LineOf(b \o c, 0 + 1) = b \o LineOf(c, 1)
      /\ \A k \in 2..(Count(c) + 1) : LineOf(b \o c, 0 + k) = LineOf(c, k)
  <2>1. /\ LineOf(b \o c, Count(b) + 1) = Unfinished(b) \o LineOf(c, 1)
        /\ \A k \in 2..(Count(c) + 1) : LineOf(b \o c, Count(b) + k) = LineOf(c, k)
    <3>1. b \in Output
      BY <1>1
    <3> QED BY <3>1, ConcatLines
  <2> QED BY <1>1, <2>1
<1>7. /\ LineOf(t \o c, Count(t) + 1) = u \o LineOf(c, 1)
      /\ \A k \in 2..(Count(c) + 1) : LineOf(t \o c, Count(t) + k) = LineOf(c, k)
  BY <1>1, ConcatLines DEF u
<1>8. LineOf(c, 1) \in Output
  <2>1. 1 \in 1..(Count(c) + 1)
    BY <1>3
  <2> QED BY <2>1, LineFacts
<1>9. CASE Count(c) = 0
  <2>1. Unfinished(b \o c) = b \o LineOf(c, 1) /\ Unfinished(t \o c) = u \o LineOf(c, 1)
    BY <1>3, <1>5, <1>6, <1>7, <1>9
  <2> QED BY <1>1, <1>4, <1>8, <2>1, CutConcat DEF b
<1>10. CASE Count(c) # 0
  <2> DEFINE k == Count(c) + 1
  <2>1. k \in 2..(Count(c) + 1) /\ 0 + k = Count(c) + 1 /\ Count(t) + k = Count(t) + Count(c) + 1
    BY <1>3, <1>10
  <2> HIDE DEF k
  <2>2. Unfinished(b \o c) = LineOf(c, k) /\ Unfinished(t \o c) = LineOf(c, k)
    BY <1>5, <1>6, <1>7, <2>1
  <2> QED BY <1>4, <2>2 DEF b
<1> QED BY <1>9, <1>10

\* The lines of a chunk that is put behind the kept part of the unfinished
\* line, and those of the whole output.
LEMMA MatchStep ==
  ASSUME NEW t \in Output, NEW c \in Output
  PROVE  /\ Count(LineBuffer(t) \o c) = Count(c)
         /\ Count(t \o c) = Count(t) + Count(c) /\ Count(t) \in Nat /\ Count(c) \in Nat
         /\ \A k \in 1..Count(c) :
              /\ k \in MatchingLines(LineBuffer(t) \o c) => Count(t) + k \in MatchingLines(t \o c)
              /\ Count(t) + k \in ShortMatches(t \o c) => k \in MatchingLines(LineBuffer(t) \o c)
         /\ \A k \in 1..Count(t) :
              /\ k \in MatchingLines(t \o c) <=> k \in MatchingLines(t)
              /\ k \in ShortMatches(t \o c) <=> k \in ShortMatches(t)
<1> DEFINE b == LineBuffer(t)
           u == Unfinished(t)
           n == Count(t)
           m == Count(c)
<1>1. b = Cut(u) /\ b \in Output /\ Count(b) = 0 /\ Unfinished(b) = b /\ u \in Output
  BY BufferFacts, UnfinishedFacts
<1> HIDE DEF b, u
<1>2. Count(b \o c) = 0 + m /\ Count(t \o c) = n + m /\ m \in Nat /\ n \in Nat
  BY <1>1, ConcatCount, RankFacts
<1>3. /\ LineOf(b \o c, 0 + 1) = b \o LineOf(c, 1)
      /\ \A k \in 2..(m + 1) : LineOf(b \o c, 0 + k) = LineOf(c, k)
  <2>1. /\ LineOf(b \o c, Count(b) + 1) = Unfinished(b) \o LineOf(c, 1)
        /\ \A k \in 2..(m + 1) : LineOf(b \o c, Count(b) + k) = LineOf(c, k)
    <3>1. b \in Output
      BY <1>1
    <3> QED BY <3>1, ConcatLines
  <2> QED BY <1>1, <2>1
<1>4. /\ \A k \in 1..n : LineOf(t \o c, k) = LineOf(t, k)
      /\ LineOf(t \o c, n + 1) = u \o LineOf(c, 1)
      /\ \A k \in 2..(m + 1) : LineOf(t \o c, n + k) = LineOf(c, k)
  BY ConcatLines DEF u
<1>5. LineOf(c, 1) \in Output
  <2>1. 1 \in 1..(Count(c) + 1)
    BY <1>2
  <2> QED BY <2>1, LineFacts
<1> HIDE DEF n, m
<1>6. ASSUME NEW k \in 1..m
      PROVE  /\ k \in MatchingLines(b \o c) => n + k \in MatchingLines(t \o c)
             /\ n + k \in ShortMatches(t \o c) => k \in MatchingLines(b \o c)
  <2>1. 0 + m = m /\ 0 + k = k /\ n + k \in 1..(n + m)
    BY <1>2
  <2>2. /\ k \in MatchingLines(b \o c) <=> Matches(LineOf(b \o c, k))
        /\ n + k \in MatchingLines(t \o c) <=> Matches(LineOf(t \o c, n + k))
    BY <1>2, <2>1 DEF MatchingLines
  <2>3. n + k \in ShortMatches(t \o c)
          => n + k \in MatchingLines(t \o c) /\ Len(LineOf(t \o c, n + k)) <= LineLimit
    BY DEF ShortMatches
  <2>4. CASE k = 1
    <3> DEFINE v == LineOf(c, 1)
    <3>1. LineOf(b \o c, k) = Cut(u) \o v /\ LineOf(t \o c, n + k) = u \o v
      BY <1>1, <1>3, <1>4, <2>1, <2>4
    <3>2. Matches(Cut(u) \o v) => Matches(u \o v)
      BY <1>1, <1>5, CutMatches
    <3>3. Len(u \o v) <= LineLimit => Cut(u) = u
      <4>1. Len(u \o v) = Len(u) + Len(v) /\ Len(u) \in Nat /\ Len(v) \in Nat /\ LineLimit \in Nat
        BY <1>1, <1>5, OutConcat, OutFacts, LimitsAssumption
      <4>2. Len(u) <= LineLimit => Cut(u) = u
        BY <1>1, CutFacts
      <4> HIDE DEF v
      <4> QED BY <4>1, <4>2
    <3> HIDE DEF v
    <3> QED BY <2>2, <2>3, <3>1, <3>2, <3>3
  <2>5. CASE k # 1
    <3>1. k \in 2..(m + 1)
      BY <1>2, <2>5
    <3>2. LineOf(b \o c, k) = LineOf(t \o c, n + k)
      BY <1>3, <1>4, <2>1, <3>1
    <3> QED BY <2>2, <2>3, <3>2
  <2> QED BY <2>4, <2>5
<1>7. ASSUME NEW k \in 1..n
      PROVE  /\ k \in MatchingLines(t \o c) <=> k \in MatchingLines(t)
             /\ k \in ShortMatches(t \o c) <=> k \in ShortMatches(t)
  <2>1. k \in 1..(n + m) /\ LineOf(t \o c, k) = LineOf(t, k)
    BY <1>2, <1>4
  <2>2. k \in MatchingLines(t \o c) <=> k \in MatchingLines(t)
    BY <1>2, <2>1 DEF MatchingLines, n
  <2> QED BY <2>1, <2>2 DEF ShortMatches
<1> QED BY <1>2, <1>6, <1>7 DEF b, n, m

\* Only the lines of a text match.
LEMMA LinesBelow ==
  ASSUME NEW t \in Output
  PROVE  MatchingLines(t) \subseteq 1..Count(t) /\ ShortMatches(t) \subseteq MatchingLines(t)
BY DEF MatchingLines, ShortMatches

\* Finishing a text makes its unfinished line a line.
LEMMA FinishFacts ==
  ASSUME NEW t \in Output
  PROVE  /\ Finish(t) \in Output /\ Count(Finish(t)) = Count(t) + 1 /\ Count(t) \in Nat
         /\ \A k \in 1..Count(t) :
              /\ k \in MatchingLines(Finish(t)) <=> k \in MatchingLines(t)
              /\ k \in ShortMatches(Finish(t)) <=> k \in ShortMatches(t)
         /\ Count(t) + 1 \in MatchingLines(Finish(t)) <=> Matches(Unfinished(t))
         /\ Matches(LineBuffer(t)) => Count(t) + 1 \in MatchingLines(Finish(t))
         /\ Count(t) + 1 \in ShortMatches(Finish(t)) => Matches(LineBuffer(t))
<1> DEFINE f == <<"n">>
           u == Unfinished(t)
           n == Count(t)
<1>1. f \in Output /\ Len(f) = 1 /\ f[1] = "n"
  BY DEF Output, Letters
<1>2. Finish(t) = t \o f
  <2>1. t \in Seq(Letters) /\ "n" \in Letters
    BY DEF Output, Letters
  <2> QED BY <2>1 DEF Finish
<1> HIDE DEF f, u
<1>3. LineEnds(f) = {1}
  BY <1>1, OutFacts DEF LineEnds
<1>4. Count(f) = 1
  BY <1>3, FS_Singleton DEF Count
<1>5. Finish(t) \in Output /\ Count(Finish(t)) = n + 1 /\ n \in Nat
  BY <1>1, <1>2, <1>4, OutConcat, ConcatCount, RankFacts
<1>6. LineOf(f, 1) = <<>>
  <2>1. Before(f, 1) = 0
    BY BeforeFirst
  <2>2. Before(f, 2) = 1
    <3>1. 2 \in 2..(Count(f) + 1)
      BY <1>4
    <3>2. Before(f, 2) \in LineEnds(f)
      BY <1>1, <3>1, BeforeFacts
    <3> QED BY <1>3, <3>2
  <2>3. LineOf(f, 1) = SubSeq(f, 0 + 1, 1 - 1)
    BY <1>4, <2>1, <2>2 DEF LineOf
  <2>4. 0 \in 0..Len(f) /\ 1 \in Nat /\ 1 <= 1 /\ ~(1 <= 0)
    BY <1>1
  <2>5. SubSeq(f, 1, 0) \in Output /\ Len(SubSeq(f, 1, 0)) = 0
    BY <1>1, <2>4, OutPart
  <2>6. SubSeq(f, 1, 0) = <<>>
    BY <2>5, EmptySeq DEF Output
  <2> QED BY <2>3, <2>6
<1>7. u \in Output /\ LineBuffer(t) = Cut(u) /\ u \o <<>> = u /\ LineBuffer(t) \in Output
  <2>1. u \in Output /\ LineBuffer(t) = Cut(u) /\ LineBuffer(t) \in Output
    BY UnfinishedFacts, BufferFacts DEF u
  <2> QED BY <2>1, ConcatEmptySeq DEF Output
<1>8. LineOf(Finish(t), n + 1) = u
  <2>1. LineOf(t \o f, n + 1) = u \o LineOf(f, 1)
    BY <1>1, ConcatLines DEF u
  <2> QED BY <1>2, <1>6, <1>7, <2>1
<1>9. n + 1 \in MatchingLines(Finish(t)) <=> Matches(u)
  <2>1. n + 1 \in 1..(n + 1)
    BY <1>5
  <2> QED BY <1>5, <1>8, <2>1 DEF MatchingLines
<1>10. ASSUME Matches(Cut(u)) PROVE Matches(u)
  <2> DEFINE e == <<>>
  <2>1. e \in Output
    BY DEF Output
  <2>2. Cut(u) \in Seq(Letters)
    BY <1>7 DEF Output
  <2>3. Cut(u) \o e = Cut(u)
    BY <2>2, ConcatEmptySeq
  <2>4. u \o e = u
    BY <1>7
  <2> HIDE DEF e
  <2>5. Matches(Cut(u) \o e)
    BY <1>10, <2>3
  <2>6. Matches(u \o e)
    BY <1>7, <2>1, <2>5, CutMatches
  <2> QED BY <2>4, <2>6
<1>11. ASSUME n + 1 \in ShortMatches(Finish(t)) PROVE Matches(Cut(u))
  <2>1. n + 1 \in MatchingLines(Finish(t)) /\ Len(u) <= LineLimit
    BY <1>8, <1>11 DEF ShortMatches
  <2> QED BY <1>7, <1>9, <2>1, CutFacts
<1>12. \A k \in 1..n : /\ k \in MatchingLines(t \o f) <=> k \in MatchingLines(t)
                       /\ k \in ShortMatches(t \o f) <=> k \in ShortMatches(t)
  BY <1>1, MatchStep
<1> QED BY <1>2, <1>5, <1>7, <1>9, <1>10, <1>11, <1>12 DEF u

----------------------------------------------------------------------------
(* The published lines *)

\* What was published after each line.
EventsRun(F, n, L) ==
  /\ F \in [0..n -> Seq(Nat)]
  /\ F[0] = <<>>
  /\ \A k \in 1..n : F[k] = IF k \in L THEN Append(F[k - 1], Count(eventFeed) + k) ELSE F[k - 1]

Increasing(s) == \A i, j \in DOMAIN s : i < j => s[i] < s[j]

\* The sequence s has the numbers of the set S, in increasing order.
Enumerates(s, S) ==
  /\ s \in Seq(Nat) /\ Increasing(s)
  /\ \A i \in DOMAIN s : s[i] \in S
  /\ \A x \in S : \E i \in DOMAIN s : s[i] = x

\* A larger number at the end.
LEMMA EnumeratesAppend ==
  ASSUME NEW s, NEW S \in SUBSET Nat, NEW x \in Nat, Enumerates(s, S), \A y \in S : y < x
  PROVE  Enumerates(Append(s, x), S \cup {x})
<1> DEFINE r == Append(s, x)
           n == Len(s)
<1>1. /\ s \in Seq(Nat) /\ Increasing(s) /\ (\A i \in DOMAIN s : s[i] \in S)
      /\ (\A y \in S : \E i \in DOMAIN s : s[i] = y)
  BY DEF Enumerates
<1>2. /\ r \in Seq(Nat) /\ n \in Nat /\ DOMAIN s = 1..n /\ DOMAIN r = 1..(n + 1)
      /\ r[n + 1] = x /\ \A i \in 1..n : r[i] = s[i]
  BY <1>1
<1> HIDE DEF r, n
<1>3. ASSUME NEW i \in DOMAIN r, NEW j \in DOMAIN r, i < j PROVE r[i] < r[j]
  <2>1. i \in 1..n
    BY <1>2, <1>3
  <2>2. CASE j = n + 1
    BY <1>1, <1>2, <2>1, <2>2
  <2>3. CASE j # n + 1
    <3>1. j \in 1..n
      BY <1>2, <2>3
    <3> QED BY <1>1, <1>2, <1>3, <2>1, <3>1 DEF Increasing
  <2> QED BY <2>2, <2>3
<1>4. ASSUME NEW i \in DOMAIN r PROVE r[i] \in S \cup {x}
  <2>1. CASE i = n + 1
    BY <1>2, <2>1
  <2>2. CASE i # n + 1
    <3>1. i \in 1..n
      BY <1>2, <2>2
    <3> QED BY <1>1, <1>2, <3>1
  <2> QED BY <2>1, <2>2
<1>5. ASSUME NEW y \in S \cup {x} PROVE \E i \in DOMAIN r : r[i] = y
  <2>1. CASE y = x
    <3>1. n + 1 \in DOMAIN r /\ r[n + 1] = y
      BY <1>2, <2>1
    <3> QED BY <3>1
  <2>2. CASE y \in S
    <3>1. PICK i \in DOMAIN s : s[i] = y
      BY <1>1, <2>2
    <3>2. i \in 1..n /\ i \in DOMAIN r
      BY <1>2
    <3> QED BY <1>2, <3>1, <3>2
  <2> QED BY <2>1, <2>2
<1>6. Enumerates(r, S \cup {x})
  BY <1>2, <1>3, <1>4, <1>5 DEF Enumerates, Increasing
<1> QED BY <1>6 DEF r

\* Larger numbers at the end.
LEMMA EnumeratesConcat ==
  ASSUME NEW s, NEW t, NEW S \in SUBSET Nat, NEW T \in SUBSET Nat, Enumerates(s, S), Enumerates(t, T),
         \A x \in S, y \in T : x < y
  PROVE  Enumerates(s \o t, S \cup T)
<1> DEFINE r == s \o t
           n == Len(s)
           m == Len(t)
<1>1. /\ s \in Seq(Nat) /\ Increasing(s) /\ (\A i \in DOMAIN s : s[i] \in S)
      /\ (\A y \in S : \E i \in DOMAIN s : s[i] = y)
      /\ t \in Seq(Nat) /\ Increasing(t) /\ (\A i \in DOMAIN t : t[i] \in T)
      /\ (\A y \in T : \E i \in DOMAIN t : t[i] = y)
  BY DEF Enumerates
<1>2. /\ r \in Seq(Nat) /\ n \in Nat /\ m \in Nat
      /\ DOMAIN s = 1..n /\ DOMAIN t = 1..m /\ DOMAIN r = 1..(n + m)
      /\ (\A i \in 1..n : r[i] = s[i])
      /\ \A i \in 1..m : r[n + i] = t[i]
  BY <1>1
<1> HIDE DEF r, n, m
<1>3. ASSUME NEW i \in 1..(n + m), ~(i <= n)
      PROVE  i - n \in 1..m /\ r[i] = t[i - n] /\ i - n \in DOMAIN t
  <2>1. i - n \in 1..m /\ n + (i - n) = i
    BY <1>2, <1>3
  <2> QED BY <1>2, <2>1
<1>4. ASSUME NEW i \in DOMAIN r, NEW j \in DOMAIN r, i < j PROVE r[i] < r[j]
  <2>1. i \in 1..(n + m) /\ j \in 1..(n + m) /\ (i <= n => i \in 1..n) /\ (j <= n => j \in 1..n)
    BY <1>2
  <2>2. CASE j <= n
    <3>1. i \in 1..n /\ j \in 1..n
      BY <1>2, <1>4, <2>1, <2>2
    <3> QED BY <1>1, <1>2, <1>4, <3>1 DEF Increasing
  <2>3. CASE i <= n /\ ~(j <= n)
    <3>1. r[i] \in S
      BY <1>1, <1>2, <2>1, <2>3
    <3>2. r[j] \in T
      BY <1>1, <1>3, <2>1, <2>3
    <3> QED BY <3>1, <3>2
  <2>4. CASE ~(i <= n) /\ ~(j <= n)
    <3>1. r[i] = t[i - n] /\ r[j] = t[j - n] /\ i - n \in DOMAIN t /\ j - n \in DOMAIN t
      BY <1>3, <2>1, <2>4
    <3>2. i - n < j - n
      BY <1>2, <1>4, <2>1
    <3> QED BY <1>1, <3>1, <3>2 DEF Increasing
  <2>5. ~(i <= n) => ~(j <= n)
    BY <1>2, <1>4, <2>1
  <2> QED BY <2>2, <2>3, <2>4, <2>5
<1>5. ASSUME NEW i \in DOMAIN r PROVE r[i] \in S \cup T
  <2>1. i \in 1..(n + m) /\ (i <= n => i \in 1..n)
    BY <1>2
  <2>2. CASE i <= n
    BY <1>1, <1>2, <2>1, <2>2
  <2>3. CASE ~(i <= n)
    BY <1>1, <1>3, <2>1, <2>3
  <2> QED BY <2>2, <2>3
<1>6. ASSUME NEW y \in S \cup T PROVE \E i \in DOMAIN r : r[i] = y
  <2>1. CASE y \in S
    <3>1. PICK i \in DOMAIN s : s[i] = y
      BY <1>1, <2>1
    <3>2. i \in 1..n /\ i \in DOMAIN r
      BY <1>2
    <3> QED BY <1>2, <3>1, <3>2
  <2>2. CASE y \in T
    <3>1. PICK i \in DOMAIN t : t[i] = y
      BY <1>1, <2>2
    <3>2. i \in 1..m /\ n + i \in DOMAIN r
      BY <1>2
    <3>3. r[n + i] = y
      BY <1>2, <3>1, <3>2
    <3> QED BY <3>2, <3>3
  <2> QED BY <2>1, <2>2
<1>7. Enumerates(r, S \cup T)
  BY <1>2, <1>4, <1>5, <1>6 DEF Enumerates, Increasing
<1> QED BY <1>7 DEF r

\* The sequence of published lines exists: TLA+ defines it by recursion.
LEMMA EventsExist ==
  ASSUME NEW n \in Nat, NEW L, Count(eventFeed) \in Nat
  PROVE  \E F : EventsRun(F, n, L)
<1> DEFINE c == Count(eventFeed)
           Runs(F, m) == F[0] = <<>> /\ \A k \in 1..m : F[k] = IF k \in L THEN Append(F[k - 1], c + k) ELSE F[k - 1]
           P == {m \in 0..n : \E F \in [0..m -> Seq(Nat)] : Runs(F, m)}
<1>0. c \in Nat
  OBVIOUS
<1> HIDE DEF c
<1>1. 0 \in P
  <2> DEFINE F == [i \in 0..0 |-> <<>>]
  <2>1. F \in [0..0 -> Seq(Nat)] /\ Runs(F, 0)
    OBVIOUS
  <2>2. \E f \in [0..0 -> Seq(Nat)] : Runs(f, 0)
    <3> HIDE DEF F, Runs
    <3> QED BY <2>1
  <2>3. 0 \in 0..n
    OBVIOUS
  <2> QED BY <2>2, <2>3
<1>2. ASSUME NEW m \in 1..n, m - 1 \in P
      PROVE  m \in P
  <2>1. PICK F \in [0..(m - 1) -> Seq(Nat)] : Runs(F, m - 1)
    BY <1>2
  <2> DEFINE g == IF m \in L THEN Append(F[m - 1], c + m) ELSE F[m - 1]
             H == [k \in 0..m |-> IF k = m THEN g ELSE F[k]]
  <2>2. m - 1 \in 0..(m - 1) /\ F[m - 1] \in Seq(Nat) /\ c + m \in Nat
    BY <1>0
  <2>3. g \in Seq(Nat)
    BY <2>2
  <2>4. H \in [0..m -> Seq(Nat)]
    <3> HIDE DEF g
    <3> QED BY <2>3
  <2>5. H[0] = <<>>
    BY <2>1
  <2>6. ASSUME NEW k \in 1..m
        PROVE  H[k] = IF k \in L THEN Append(H[k - 1], c + k) ELSE H[k - 1]
    <3>1. k - 1 \in 0..m /\ k - 1 # m /\ H[k - 1] = F[k - 1]
      OBVIOUS
    <3>2. CASE k = m
      <4>1. H[k] = g
        BY <3>2
      <4> HIDE DEF H
      <4> QED BY <3>1, <3>2, <4>1
    <3>3. CASE k # m
      <4>1. k \in 1..(m - 1) /\ H[k] = F[k]
        BY <3>3
      <4>2. F[k] = IF k \in L THEN Append(F[k - 1], c + k) ELSE F[k - 1]
        BY <2>1, <4>1
      <4> HIDE DEF H
      <4> QED BY <3>1, <4>1, <4>2
    <3> QED BY <3>2, <3>3
  <2> HIDE DEF H
  <2>7. Runs(H, m)
    BY <2>5, <2>6
  <2>8. \E f \in [0..m -> Seq(Nat)] : Runs(f, m)
    <3> HIDE DEF Runs
    <3> QED BY <2>4, <2>7
  <2>9. m \in 0..n
    OBVIOUS
  <2> QED BY <2>8, <2>9
<1>3. P = 0..n
  <2> HIDE DEF P
  <2>1. P \in SUBSET (0..n)
    BY DEF P
  <2> QED BY <1>1, <1>2, <2>1, RangeInduction
<1>4. n \in P
  <2> HIDE DEF P
  <2> QED BY <1>3
<1>5. PICK F \in [0..n -> Seq(Nat)] : Runs(F, n)
  BY <1>4
<1> QED BY <1>5 DEF EventsRun, c

\* Events publishes the numbers of the matching lines, in increasing order.
LEMMA EventsFacts ==
  ASSUME NEW t \in Output, eventFeed \in Output
  PROVE  Enumerates(Events(t), {Count(eventFeed) + k : k \in MatchingLines(t)})
<1> DEFINE n == Count(t)
           c == Count(eventFeed)
           L == MatchingLines(t)
           Body(F) == [k \in 0..n |-> IF k = 0 THEN <<>>
                                      ELSE IF k \in L THEN Append(F[k - 1], c + k) ELSE F[k - 1]]
           K == CHOOSE F : F = Body(F)
<1>0. n \in Nat /\ c \in Nat /\ L \subseteq 1..n
  BY RankFacts, LinesBelow
<1>1. PICK F : EventsRun(F, n, L)
  BY <1>0, EventsExist
<1>2. /\ F \in [0..n -> Seq(Nat)] /\ F[0] = <<>>
      /\ \A k \in 1..n : F[k] = IF k \in L THEN Append(F[k - 1], c + k) ELSE F[k - 1]
  BY <1>1 DEF EventsRun
<1>3. Events(t) = K[n]
  BY DEF Events
<1> HIDE DEF n, c, L
<1>4. F = Body(F)
  <2>1. \A k \in 0..n : F[k] = Body(F)[k]
    <3> SUFFICES ASSUME NEW k \in 0..n PROVE F[k] = Body(F)[k]
      OBVIOUS
    <3>1. CASE k = 0
      BY <1>2, <3>1
    <3>2. CASE k # 0
      <4>1. k \in 1..n
        BY <1>0, <3>2
      <4> QED BY <1>2, <3>2, <4>1
    <3> QED BY <3>1, <3>2
  <2>2. Body(F) = [k \in 0..n |-> Body(F)[k]]
    OBVIOUS
  <2>3. F = [k \in 0..n |-> F[k]]
    BY <1>2
  <2> HIDE DEF Body
  <2> QED BY <2>1, <2>2, <2>3
<1>5. K = Body(K)
  <2> HIDE DEF Body
  <2> QED BY <1>4
<1> HIDE DEF K
<1>6. K[0] = <<>> /\ \A k \in 1..n : K[k] = IF k \in L THEN Append(K[k - 1], c + k) ELSE K[k - 1]
  <2>1. K[0] = <<>>
    BY <1>0, <1>5
  <2>2. ASSUME NEW k \in 1..n PROVE K[k] = IF k \in L THEN Append(K[k - 1], c + k) ELSE K[k - 1]
    <3>1. k \in 0..n /\ k # 0
      OBVIOUS
    <3> QED BY <1>5, <3>1
  <2> QED BY <2>1, <2>2
<1> DEFINE Upto(k) == {c + l : l \in {l \in L : l <= k}}
           P == {k \in 0..n : Enumerates(K[k], Upto(k))}
<1>7. 0 \in P
  <2>1. Upto(0) = {}
    BY <1>0
  <2>2. <<>> \in Seq(Nat) /\ DOMAIN <<>> = {}
    OBVIOUS
  <2>3. Enumerates(<<>>, {})
    BY <2>2 DEF Enumerates, Increasing
  <2> HIDE DEF Upto
  <2>4. 0 \in 0..n
    BY <1>0
  <2> QED BY <1>6, <2>1, <2>3, <2>4
<1>8. ASSUME NEW k \in 1..n, k - 1 \in P PROVE k \in P
  <2>1. k \in 0..n /\ Enumerates(K[k - 1], Upto(k - 1))
    BY <1>8
  <2>2. CASE k \in L
    <3>1. Upto(k) = Upto(k - 1) \cup {c + k}
      <4>1. \A l \in L : l <= k <=> l <= k - 1 \/ l = k
        BY <1>0
      <4> QED BY <2>2, <4>1
    <3>2. c + k \in Nat /\ Upto(k - 1) \in SUBSET Nat /\ \A y \in Upto(k - 1) : y < c + k
      <4>1. ASSUME NEW l \in L, l <= k - 1 PROVE c + l \in Nat /\ c + l < c + k
        BY <1>0, <4>1
      <4>2. c + k \in Nat
        BY <1>0
      <4> QED BY <4>1, <4>2
    <3>3. K[k] = Append(K[k - 1], c + k)
      BY <1>6, <2>2
    <3> HIDE DEF Upto
    <3>4. Enumerates(Append(K[k - 1], c + k), Upto(k - 1) \cup {c + k})
      BY <2>1, <3>2, EnumeratesAppend
    <3> QED BY <2>1, <3>1, <3>3, <3>4
  <2>3. CASE k \notin L
    <3>1. Upto(k) = Upto(k - 1)
      <4>1. \A l \in L : l <= k <=> l <= k - 1
        BY <1>0, <2>3
      <4> QED BY <4>1
    <3>2. K[k] = K[k - 1]
      BY <1>6, <2>3
    <3> HIDE DEF Upto
    <3> QED BY <2>1, <3>1, <3>2
  <2> QED BY <2>2, <2>3
<1>9. n \in P
  <2> HIDE DEF P
  <2>1. P \in SUBSET (0..n)
    BY DEF P
  <2>2. P = 0..n
    BY <1>0, <1>7, <1>8, <2>1, RangeInduction
  <2> QED BY <1>0, <2>2
<1>10. Upto(n) = {c + k : k \in L}
  BY <1>0
<1> QED BY <1>3, <1>9, <1>10 DEF c, L

----------------------------------------------------------------------------
(* The inductive invariant *)

\* What the watchers keep is what is left of all that they were given; after
\* Swap nothing is taken in, so that Stop finds the same.
Buffers ==
  /\ startup.lineBuffer = LineBuffer(startupFeed)
  /\ session \in {"starting", "running", "stop", "take"} => watcher.lineBuffer = LineBuffer(eventFeed)
  /\ session \in {"take", "publish", "over"} => ~watcher.active
  /\ session = "publish" => line = LineBuffer(eventFeed)

WatchInv == EventsOnce /\ FatalSeen /\ Buffers

\* Lines of a text are published: each of those that are surely seen, only
\* matching ones, in order.
Listed(p, t) ==
  \E S : Enumerates(p, S) /\ ShortMatches(t) \subseteq S /\ S \subseteq MatchingLines(t)

\* Listed says that the published numbers themselves are such a set.
LEMMA ListedFacts ==
  ASSUME NEW p \in Seq(Nat), NEW t
  PROVE  Listed(p, t) <=>
           /\ \A i, j \in DOMAIN p : i < j => p[i] < p[j]
           /\ ShortMatches(t) \subseteq {p[i] : i \in DOMAIN p}
           /\ {p[i] : i \in DOMAIN p} \subseteq MatchingLines(t)
<1> DEFINE R == {p[i] : i \in DOMAIN p}
<1>1. ASSUME Listed(p, t)
      PROVE  /\ \A i, j \in DOMAIN p : i < j => p[i] < p[j]
             /\ ShortMatches(t) \subseteq R /\ R \subseteq MatchingLines(t)
  <2>1. PICK S : Enumerates(p, S) /\ ShortMatches(t) \subseteq S /\ S \subseteq MatchingLines(t)
    BY <1>1 DEF Listed
  <2> QED BY <2>1 DEF Enumerates, Increasing
<1>2. ASSUME \A i, j \in DOMAIN p : i < j => p[i] < p[j],
             ShortMatches(t) \subseteq R, R \subseteq MatchingLines(t)
      PROVE  Listed(p, t)
  <2>1. Enumerates(p, R)
    BY <1>2 DEF Enumerates, Increasing
  <2> HIDE DEF R
  <2> QED BY <1>2, <2>1 DEF Listed
<1> QED BY <1>1, <1>2

\* EventsOnce in terms of Listed.
LEMMA EventsListed ==
  ASSUME WatchTypeOK
  PROVE  EventsOnce <=> Listed(published, IF session = "over" THEN Finish(eventFeed) ELSE eventFeed)
<1> DEFINE feed == IF session = "over" THEN Finish(eventFeed) ELSE eventFeed
<1>1. published \in Seq(Nat)
  BY DEF WatchTypeOK
<1> HIDE DEF feed
<1>2. EventsOnce <=>
           /\ \A i, j \in DOMAIN published : i < j => published[i] < published[j]
           /\ ShortMatches(feed) \subseteq {published[i] : i \in DOMAIN published}
           /\ {published[i] : i \in DOMAIN published} \subseteq MatchingLines(feed)
  BY DEF EventsOnce, feed
<1>3. EventsOnce <=> Listed(published, feed)
  BY <1>1, <1>2, ListedFacts
<1> QED BY <1>3 DEF feed

\* A chunk: what Events finds in the buffer and the chunk is what is new in
\* the output.
LEMMA ListedStep ==
  ASSUME NEW p, NEW q, NEW t \in Output, NEW c \in Output, Listed(p, t),
         Enumerates(q, {Count(t) + k : k \in MatchingLines(LineBuffer(t) \o c)})
  PROVE  Listed(p \o q, t \o c)
<1> DEFINE b == LineBuffer(t)
           n == Count(t)
           m == Count(c)
           L == MatchingLines(b \o c)
           T == {n + k : k \in L}
           u == t \o c
<1>1. PICK S : Enumerates(p, S) /\ ShortMatches(t) \subseteq S /\ S \subseteq MatchingLines(t)
  BY DEF Listed
<1>2. b \in Output /\ b \o c \in Output /\ u \in Output
  BY BufferFacts, OutConcat
<1>3. /\ Count(b \o c) = m /\ Count(u) = n + m /\ n \in Nat /\ m \in Nat
      /\ \A k \in 1..m : /\ k \in L => n + k \in MatchingLines(u)
                         /\ n + k \in ShortMatches(u) => k \in L
      /\ \A k \in 1..n : /\ k \in MatchingLines(u) <=> k \in MatchingLines(t)
                         /\ k \in ShortMatches(u) <=> k \in ShortMatches(t)
  BY MatchStep
<1>4. L \subseteq 1..m
  <2>1. L \subseteq 1..Count(b \o c)
    BY <1>2, LinesBelow
  <2> QED BY <1>3, <2>1
<1>5. S \subseteq 1..n /\ MatchingLines(u) \subseteq 1..(n + m) /\ ShortMatches(u) \subseteq MatchingLines(u)
  <2>1. MatchingLines(t) \subseteq 1..n
    BY LinesBelow
  <2>2. MatchingLines(u) \subseteq 1..Count(u) /\ ShortMatches(u) \subseteq MatchingLines(u)
    BY <1>2, LinesBelow
  <2> QED BY <1>1, <1>3, <2>1, <2>2
<1>6. Enumerates(q, T)
  OBVIOUS
<1> HIDE DEF b, n, m, L, u
<1>7. S \in SUBSET Nat /\ T \in SUBSET Nat /\ \A x \in S, y \in T : x < y
  <2>1. ASSUME NEW k \in L PROVE n + k \in Nat /\ \A x \in S : x < n + k
    BY <1>3, <1>4, <1>5
  <2>2. S \in SUBSET Nat
    BY <1>5
  <2> QED BY <2>1, <2>2
<1>8. Enumerates(p \o q, S \cup T)
  <2> HIDE DEF T
  <2> QED BY <1>1, <1>6, <1>7, EnumeratesConcat
<1>9. S \cup T \subseteq MatchingLines(u)
  BY <1>1, <1>3, <1>4, <1>5
<1>10. ASSUME NEW x \in ShortMatches(u) PROVE x \in S \cup T
  <2>1. x \in 1..(n + m)
    BY <1>5
  <2>2. CASE x <= n
    <3>1. x \in 1..n
      BY <1>3, <2>1, <2>2
    <3> QED BY <1>1, <1>3, <3>1
  <2>3. CASE ~(x <= n)
    <3>1. x - n \in 1..m /\ n + (x - n) = x
      BY <1>3, <2>1, <2>3
    <3>2. x - n \in L
      BY <1>3, <3>1
    <3> QED BY <3>1, <3>2
  <2> QED BY <2>2, <2>3
<1> HIDE DEF T
<1>11. Listed(p \o q, u)
  BY <1>8, <1>9, <1>10 DEF Listed
<1> QED BY <1>11 DEF u

\* Stop publishes the unfinished line.
LEMMA ListedFinish ==
  ASSUME NEW p, NEW t \in Output, Listed(p, t)
  PROVE  Listed(IF Matches(LineBuffer(t)) THEN Append(p, Count(t) + 1) ELSE p, Finish(t))
<1> DEFINE n == Count(t)
           f == Finish(t)
<1>1. PICK S : Enumerates(p, S) /\ ShortMatches(t) \subseteq S /\ S \subseteq MatchingLines(t)
  BY DEF Listed
<1>2. /\ f \in Output /\ Count(f) = n + 1 /\ n \in Nat
      /\ \A k \in 1..n : /\ k \in MatchingLines(f) <=> k \in MatchingLines(t)
                         /\ k \in ShortMatches(f) <=> k \in ShortMatches(t)
      /\ Matches(LineBuffer(t)) => n + 1 \in MatchingLines(f)
      /\ n + 1 \in ShortMatches(f) => Matches(LineBuffer(t))
  BY FinishFacts
<1>3. S \subseteq 1..n /\ ShortMatches(f) \subseteq MatchingLines(f) /\ MatchingLines(f) \subseteq 1..(n + 1)
  <2>1. MatchingLines(t) \subseteq 1..n
    BY LinesBelow
  <2>2. MatchingLines(f) \subseteq 1..Count(f) /\ ShortMatches(f) \subseteq MatchingLines(f)
    BY <1>2, LinesBelow
  <2> QED BY <1>1, <1>2, <2>1, <2>2
<1> HIDE DEF n, f
<1>4. ASSUME NEW x \in ShortMatches(f) PROVE x \in S \/ x = n + 1
  <2>1. x \in 1..(n + 1)
    BY <1>3
  <2>2. x # n + 1 => x \in 1..n
    BY <1>2, <2>1
  <2> QED BY <1>1, <1>2, <2>2
<1>5. S \subseteq MatchingLines(f)
  BY <1>1, <1>2, <1>3
<1>6. CASE Matches(LineBuffer(t))
  <2>1. S \in SUBSET Nat /\ n + 1 \in Nat /\ \A y \in S : y < n + 1
    BY <1>2, <1>3
  <2>2. Enumerates(Append(p, n + 1), S \cup {n + 1})
    BY <1>1, <2>1, EnumeratesAppend
  <2>3. ShortMatches(f) \subseteq S \cup {n + 1} /\ S \cup {n + 1} \subseteq MatchingLines(f)
    BY <1>2, <1>4, <1>5, <1>6
  <2>4. Listed(Append(p, n + 1), f)
    BY <2>2, <2>3 DEF Listed
  <2> QED BY <1>6, <2>4 DEF n, f
<1>7. CASE ~Matches(LineBuffer(t))
  <2>1. ShortMatches(f) \subseteq S
    BY <1>2, <1>4, <1>7
  <2>2. Listed(p, f)
    BY <1>1, <1>5, <2>1 DEF Listed
  <2> QED BY <1>7, <2>2 DEF f
<1> QED BY <1>6, <1>7

\* A chunk shows a fatal line exactly when the buffer and the chunk do, up to
\* long lines.
LEMMA FatalOf ==
  ASSUME NEW t \in Output, NEW c \in Output
  PROVE  /\ Fatal(LineBuffer(t) \o c) => MatchingLines(Finish(t \o c)) # {}
         /\ MatchingLines(Finish(t)) # {} => MatchingLines(Finish(t \o c)) # {}
         /\ ShortMatches(Finish(t \o c)) # {} =>
              ShortMatches(Finish(t)) # {} \/ Fatal(LineBuffer(t) \o c)
<1> DEFINE b == LineBuffer(t)
           n == Count(t)
           m == Count(c)
           u == t \o c
           f == Finish(u)
           g == Finish(t)
<1>1. b \in Output /\ b \o c \in Output /\ u \in Output
  BY BufferFacts, OutConcat
<1>2. /\ Count(b \o c) = m /\ Count(u) = n + m /\ n \in Nat /\ m \in Nat
      /\ \A k \in 1..m : /\ k \in MatchingLines(b \o c) => n + k \in MatchingLines(u)
                         /\ n + k \in ShortMatches(u) => k \in MatchingLines(b \o c)
      /\ \A k \in 1..n : /\ k \in MatchingLines(u) <=> k \in MatchingLines(t)
                         /\ k \in ShortMatches(u) <=> k \in ShortMatches(t)
  BY MatchStep
<1>3. /\ f \in Output /\ Count(f) = Count(u) + 1
      /\ \A k \in 1..Count(u) : /\ k \in MatchingLines(f) <=> k \in MatchingLines(u)
                                /\ k \in ShortMatches(f) <=> k \in ShortMatches(u)
      /\ Count(u) + 1 \in MatchingLines(f) <=> Matches(Unfinished(u))
      /\ Matches(LineBuffer(u)) => Count(u) + 1 \in MatchingLines(f)
      /\ Count(u) + 1 \in ShortMatches(f) => Matches(LineBuffer(u))
  BY <1>1, FinishFacts
<1>4. /\ g \in Output /\ Count(g) = n + 1
      /\ \A k \in 1..n : /\ k \in MatchingLines(g) <=> k \in MatchingLines(t)
                         /\ k \in ShortMatches(g) <=> k \in ShortMatches(t)
      /\ n + 1 \in MatchingLines(g) <=> Matches(Unfinished(t))
  BY FinishFacts
<1>5. LineBuffer(b \o c) = LineBuffer(u)
  BY BufferStep
<1>6. Fatal(b \o c) <=> MatchingLines(b \o c) # {} \/ Matches(LineBuffer(u))
  BY <1>5 DEF Fatal
<1>7. MatchingLines(b \o c) \subseteq 1..m
  <2>1. MatchingLines(b \o c) \subseteq 1..Count(b \o c)
    BY <1>1, LinesBelow
  <2> QED BY <1>2, <2>1
<1>8. /\ MatchingLines(f) \subseteq 1..(n + m + 1) /\ ShortMatches(f) \subseteq MatchingLines(f)
      /\ MatchingLines(g) \subseteq 1..(n + 1)
      /\ \A k \in MatchingLines(u) : k \in MatchingLines(f)
  <2>1. MatchingLines(f) \subseteq 1..Count(f) /\ ShortMatches(f) \subseteq MatchingLines(f)
    BY <1>3, LinesBelow
  <2>2. MatchingLines(g) \subseteq 1..Count(g)
    BY <1>4, LinesBelow
  <2>3. MatchingLines(u) \subseteq 1..Count(u)
    BY <1>1, LinesBelow
  <2>4. \A k \in MatchingLines(u) : k \in MatchingLines(f)
    BY <1>3, <2>3
  <2> QED BY <1>2, <1>3, <1>4, <2>1, <2>2, <2>4
<1>9. LineOf(u, n + 1) = Unfinished(t) \o LineOf(c, 1)
  BY ConcatLines
<1>10. Unfinished(t) \in Output /\ LineOf(c, 1) \in Output
  <2>1. 1 \in 1..(Count(c) + 1)
    BY <1>2
  <2> QED BY <2>1, LineFacts, UnfinishedFacts
<1> HIDE DEF b, n, m, u, f, g
<1>11. ASSUME Fatal(b \o c) PROVE MatchingLines(f) # {}
  <2>1. CASE MatchingLines(b \o c) # {}
    <3>1. PICK k \in MatchingLines(b \o c) : TRUE
      BY <2>1
    <3> QED BY <1>2, <1>7, <1>8, <3>1
  <2>2. CASE Matches(LineBuffer(u))
    BY <1>3, <2>2
  <2> QED BY <1>6, <1>11, <2>1, <2>2
<1>12. ASSUME MatchingLines(g) # {} PROVE MatchingLines(f) # {}
  <2>1. PICK k \in MatchingLines(g) : k \in 1..(n + 1)
    BY <1>8, <1>12
  <2>2. CASE k # n + 1
    <3>1. k \in 1..n
      BY <1>2, <2>1, <2>2
    <3> QED BY <1>2, <1>4, <1>8, <2>1, <3>1
  <2>3. CASE k = n + 1
    <3>1. Matches(LineOf(u, n + 1))
      BY <1>4, <1>9, <1>10, <2>1, <2>3, MatchesLonger
    <3>2. CASE m = 0
      <4>1. Unfinished(u) = LineOf(u, n + 1)
        BY <1>2, <3>2 DEF Unfinished
      <4> QED BY <1>3, <3>1, <4>1
    <3>3. CASE m # 0
      <4>1. n + 1 \in 1..(n + m)
        BY <1>2, <3>3
      <4>2. n + 1 \in MatchingLines(u)
        BY <1>2, <3>1, <4>1 DEF MatchingLines
      <4> QED BY <1>8, <4>2
    <3> QED BY <3>2, <3>3
  <2> QED BY <2>2, <2>3
<1>13. ASSUME ShortMatches(f) # {} PROVE ShortMatches(g) # {} \/ Fatal(b \o c)
  <2>1. PICK k \in ShortMatches(f) : k \in 1..(n + m + 1)
    BY <1>8, <1>13
  <2>2. CASE k \in 1..n
    <3>1. k \in 1..(n + m)
      BY <1>2, <2>2
    <3> QED BY <1>2, <1>3, <1>4, <2>1, <2>2, <3>1
  <2>3. CASE k = n + m + 1
    BY <1>2, <1>3, <1>6, <2>1, <2>3
  <2>4. CASE k \notin 1..n /\ k # n + m + 1
    <3>1. k \in 1..(n + m) /\ k - n \in 1..m /\ n + (k - n) = k
      BY <1>2, <2>1, <2>4
    <3>2. k \in ShortMatches(u)
      BY <1>2, <1>3, <2>1, <3>1
    <3>3. k - n \in MatchingLines(b \o c)
      BY <1>2, <3>1, <3>2
    <3> QED BY <1>6, <3>3
  <2> QED BY <2>2, <2>3, <2>4
<1> QED BY <1>11, <1>12, <1>13 DEF b, u, f, g

\* The first fatal line is reported, and only then.
LEMMA FatalStep ==
  ASSUME WatchInv, WatchTypeOK', NEW c \in Output,
         startupFeed' = startupFeed \o c,
         startup'.reported = (startup.reported \/ (Fatal(startup.lineBuffer \o c) /\ ~startup.reported)),
         startup'.lineBuffer = LineBuffer(startup.lineBuffer \o c)
  PROVE  FatalSeen' /\ startup'.lineBuffer = LineBuffer(startupFeed')
<1> DEFINE t == startupFeed
<1>1. t \in Output /\ startup.lineBuffer = LineBuffer(t)
  BY DEF WatchInv, EventsOnce, WatchTypeOK, Buffers
<1>2. /\ ShortMatches(Finish(t)) # {} => startup.reported
      /\ startup.reported => MatchingLines(Finish(t)) # {}
  BY DEF WatchInv, FatalSeen
<1>3. startup'.reported <=> startup.reported \/ Fatal(LineBuffer(t) \o c)
  <2>1. startup.reported \in BOOLEAN
    BY DEF WatchInv, EventsOnce, WatchTypeOK
  <2> QED BY <1>1, <2>1
<1>4. startup'.lineBuffer = LineBuffer(t \o c)
  BY <1>1, BufferStep
<1> HIDE DEF t
<1>5. /\ Fatal(LineBuffer(t) \o c) => MatchingLines(Finish(t \o c)) # {}
      /\ MatchingLines(Finish(t)) # {} => MatchingLines(Finish(t \o c)) # {}
      /\ ShortMatches(Finish(t \o c)) # {} =>
              ShortMatches(Finish(t)) # {} \/ Fatal(LineBuffer(t) \o c)
  BY <1>1, FatalOf
<1>6. /\ ShortMatches(Finish(t \o c)) # {} => startup'.reported
      /\ startup'.reported => MatchingLines(Finish(t \o c)) # {}
  BY <1>2, <1>3, <1>5
<1>7. startupFeed' = t \o c
  BY DEF t
<1>8. FatalSeen' = (/\ ShortMatches(Finish(startupFeed')) # {} => startup'.reported
                    /\ startup'.reported => MatchingLines(Finish(startupFeed')) # {})
  BY DEF FatalSeen
<1> QED BY <1>4, <1>6, <1>7, <1>8

\* EventsOnce after a step.
LEMMA EventsListedNext ==
  ASSUME WatchTypeOK', NEW feed, feed = (IF session' = "over" THEN Finish(eventFeed') ELSE eventFeed'),
         Listed(published', feed)
  PROVE  EventsOnce'
<1>1. published' \in Seq(Nat)
  BY DEF WatchTypeOK
<1>2. /\ \A i, j \in DOMAIN published' : i < j => published'[i] < published'[j]
      /\ ShortMatches(feed) \subseteq {published'[i] : i \in DOMAIN published'}
      /\ {published'[i] : i \in DOMAIN published'} \subseteq MatchingLines(feed)
  BY <1>1, ListedFacts
<1> QED BY <1>2 DEF EventsOnce

\* Steps that give the watchers nothing.
LEMMA IdleStep ==
  ASSUME WatchInv, WatchTypeOK', UNCHANGED <<published, startupFeed, eventFeed>>,
         startup'.lineBuffer = startup.lineBuffer, startup'.reported = startup.reported,
         session' = "over" <=> session = "over"
  PROVE  EventsOnce' /\ FatalSeen' /\ startup'.lineBuffer = LineBuffer(startupFeed')
<1>1. EventsOnce'
  <2> DEFINE feed == IF session = "over" THEN Finish(eventFeed) ELSE eventFeed
  <2>1. Listed(published, feed)
    BY EventsListed DEF WatchInv, EventsOnce
  <2>2. feed = IF session' = "over" THEN Finish(eventFeed') ELSE eventFeed'
    OBVIOUS
  <2>3. published' = published
    OBVIOUS
  <2> HIDE DEF feed
  <2> QED BY <2>1, <2>2, <2>3, EventsListedNext
<1>2. FatalSeen' /\ startup'.lineBuffer = LineBuffer(startupFeed')
  BY DEF WatchInv, FatalSeen, Buffers
<1> QED BY <1>1, <1>2

\* Reading a chunk preserves the invariant.
LEMMA ReadStep ==
  ASSUME WatchInv, NEW s \in Streams, ReadOutput(s)
  PROVE  WatchInv'
<1> USE DEF ReadOutput
<1>1. WatchTypeOK'
  <2>1. PICK c \in Reads : copier' = [copier EXCEPT ![s] = [pc |-> "startup", chunk |-> c]]
    OBVIOUS
  <2>2. c \in Output /\ chunks + 1 \in 0..MaxChunks
    BY ReadsAssumption, LimitsAssumption DEF WatchInv, EventsOnce, WatchTypeOK
  <2> QED BY <2>1, <2>2 DEF WatchInv, EventsOnce, WatchTypeOK
<1>2. EventsOnce' /\ FatalSeen' /\ startup'.lineBuffer = LineBuffer(startupFeed')
  BY <1>1, IdleStep
<1> QED BY <1>2 DEF WatchInv, Buffers

\* The goroutines keep their types.
LEMMA CopierType ==
  ASSUME WatchInv, NEW s \in Streams, PassToLog(s) \/ \E pc \in {"event", "locked"} : Goto(s, pc)
  PROVE  copier' \in [Streams -> [pc : {"read", "startup", "event", "locked"}, chunk : Output]]
<1>1. copier \in [Streams -> [pc : {"read", "startup", "event", "locked"}, chunk : Output]]
  BY DEF WatchInv, EventsOnce, WatchTypeOK
<1>2. CASE PassToLog(s)
  <2>1. <<>> \in Output
    BY DEF Output
  <2>2. copier' = [copier EXCEPT ![s] = [pc |-> "read", chunk |-> <<>>]]
    BY <1>2 DEF PassToLog
  <2> QED BY <1>1, <2>1, <2>2
<1>3. ASSUME NEW pc \in {"event", "locked"}, Goto(s, pc)
      PROVE  copier' \in [Streams -> [pc : {"read", "startup", "event", "locked"}, chunk : Output]]
  <2>1. copier' = [copier EXCEPT ![s].pc = pc]
    BY <1>3 DEF Goto
  <2> QED BY <1>1, <2>1
<1> QED BY <1>2, <1>3

\* The startup watcher preserves the invariant.
LEMMA StartupStep ==
  ASSUME WatchInv, NEW s \in Streams, StartupWrite(s)
  PROVE  WatchInv'
<1> DEFINE c == copier[s].chunk
           combined == startup.lineBuffer \o c
           report == Fatal(combined) /\ ~startup.reported
<1>1. /\ c \in Output /\ startup.lineBuffer \in Output /\ startupFeed \in Output
      /\ startup.reported \in BOOLEAN /\ startup.fatal \in BOOLEAN
  BY DEF WatchInv, EventsOnce, WatchTypeOK
<1>2. /\ startup' = [lineBuffer |-> LineBuffer(combined), reported |-> startup.reported \/ report,
                     fatal |-> startup.fatal \/ report]
      /\ startupFeed' = startupFeed \o c /\ Goto(s, "event")
      /\ UNCHANGED <<chunks, session, watcher, line, published, eventFeed>>
  BY DEF StartupWrite
<1>3. combined \in Output /\ startupFeed \o c \in Output /\ LineBuffer(combined) \in Output
  BY <1>1, OutConcat, BufferFacts
<1>4. /\ startup'.lineBuffer = LineBuffer(combined) /\ startup'.reported = (startup.reported \/ report)
      /\ startup' \in [lineBuffer : Output, reported : BOOLEAN, fatal : BOOLEAN]
  <2> HIDE DEF combined
  <2>1. (startup.reported \/ report) \in BOOLEAN /\ (startup.fatal \/ report) \in BOOLEAN
    BY <1>1
  <2> HIDE DEF report
  <2> QED BY <1>2, <1>3, <2>1
<1>5. copier' \in [Streams -> [pc : {"read", "startup", "event", "locked"}, chunk : Output]]
  BY <1>2, CopierType
<1>6. WatchTypeOK'
  BY <1>2, <1>3, <1>4, <1>5 DEF WatchInv, EventsOnce, WatchTypeOK
<1>7. FatalSeen' /\ startup'.lineBuffer = LineBuffer(startupFeed')
  BY <1>1, <1>2, <1>4, <1>6, FatalStep
<1>8. EventsOnce'
  <2> DEFINE feed == IF session = "over" THEN Finish(eventFeed) ELSE eventFeed
  <2>1. Listed(published, feed)
    BY EventsListed DEF WatchInv, EventsOnce
  <2>2. feed = (IF session' = "over" THEN Finish(eventFeed') ELSE eventFeed') /\ published' = published
    BY <1>2
  <2> HIDE DEF feed
  <2> QED BY <1>6, <2>1, <2>2, EventsListedNext
<1> QED BY <1>2, <1>7, <1>8 DEF WatchInv, Buffers

\* The check before the mutex preserves the invariant.
LEMMA CheckStep ==
  ASSUME WatchInv, NEW s \in Streams, EventCheck(s)
  PROVE  WatchInv'
<1>1. copier' \in [Streams -> [pc : {"read", "startup", "event", "locked"}, chunk : Output]]
  BY CopierType DEF EventCheck
<1>2. WatchTypeOK'
  BY <1>1 DEF EventCheck, WatchInv, EventsOnce, WatchTypeOK
<1>3. EventsOnce' /\ FatalSeen' /\ startup'.lineBuffer = LineBuffer(startupFeed')
  BY <1>2, IdleStep DEF EventCheck
<1> QED BY <1>3 DEF EventCheck, WatchInv, Buffers

\* The event watcher, whether it was stopped meanwhile or not, preserves the
\* invariant.
LEMMA EventStep ==
  ASSUME WatchInv, NEW s \in Streams, EventWrite(s)
  PROVE  WatchInv'
<1>1. copier' \in [Streams -> [pc : {"read", "startup", "event", "locked"}, chunk : Output]]
  BY CopierType DEF EventWrite
<1>2. CASE ~watcher.active
  <2>1. UNCHANGED <<watcher, published, eventFeed, chunks, session, startup, line, startupFeed>>
    BY <1>2 DEF EventWrite
  <2>2. WatchTypeOK'
    BY <1>1, <2>1 DEF WatchInv, EventsOnce, WatchTypeOK
  <2>3. EventsOnce' /\ FatalSeen' /\ startup'.lineBuffer = LineBuffer(startupFeed')
    BY <2>1, <2>2, IdleStep
  <2> QED BY <2>1, <2>3 DEF WatchInv, Buffers
<1>3. CASE watcher.active
  <2> DEFINE c == copier[s].chunk
             t == eventFeed
             combined == watcher.lineBuffer \o c
  <2>1. /\ c \in Output /\ watcher \in [active : BOOLEAN, lineBuffer : Output] /\ t \in Output
        /\ published \in Seq(Nat)
    BY DEF WatchInv, EventsOnce, WatchTypeOK
  <2>2. /\ watcher' = [watcher EXCEPT !.lineBuffer = LineBuffer(combined)]
        /\ published' = published \o Events(combined)
        /\ eventFeed' = t \o c
        /\ UNCHANGED <<chunks, session, startup, line, startupFeed>>
    BY <1>3 DEF EventWrite, TakeIn
  <2>3. session \in {"starting", "running", "stop"}
    BY <1>3 DEF WatchInv, Buffers, EventsOnce, WatchTypeOK
  <2>4. watcher.lineBuffer = LineBuffer(t)
    BY <2>3 DEF WatchInv, Buffers
  <2>5. combined \in Output /\ t \o c \in Output /\ LineBuffer(combined) \in Output
    BY <2>1, OutConcat, BufferFacts
  <2>6. Enumerates(Events(combined), {Count(t) + k : k \in MatchingLines(combined)})
    BY <2>1, <2>5, EventsFacts
  <2>7. Listed(published, t)
    <3>1. Listed(published, IF session = "over" THEN Finish(eventFeed) ELSE eventFeed)
      BY EventsListed DEF WatchInv, EventsOnce
    <3> QED BY <2>3, <3>1
  <2>8. Listed(published \o Events(combined), t \o c)
    <3>1. combined = LineBuffer(t) \o c
      BY <2>4
    <3> HIDE DEF combined, c, t
    <3> QED BY <2>1, <2>6, <2>7, <3>1, ListedStep
  <2>9. published \o Events(combined) \in Seq(Nat)
    <3>1. Events(combined) \in Seq(Nat)
      BY <2>6 DEF Enumerates
    <3> QED BY <2>1, <3>1
  <2>10. /\ watcher' \in [active : BOOLEAN, lineBuffer : Output]
         /\ watcher'.active = watcher.active /\ watcher'.lineBuffer = LineBuffer(combined)
    <3> HIDE DEF combined
    <3> QED BY <2>1, <2>2, <2>5
  <2>11. WatchTypeOK'
    BY <1>1, <2>2, <2>5, <2>9, <2>10 DEF WatchInv, EventsOnce, WatchTypeOK
  <2>12. EventsOnce'
    <3> DEFINE feed == t \o c
    <3>1. feed = (IF session' = "over" THEN Finish(eventFeed') ELSE eventFeed')
      BY <2>2, <2>3
    <3>2. Listed(published', feed)
      BY <2>2, <2>8
    <3> HIDE DEF feed
    <3> QED BY <2>11, <3>1, <3>2, EventsListedNext
  <2>13. FatalSeen' /\ startup'.lineBuffer = LineBuffer(startupFeed')
    BY <2>2 DEF WatchInv, FatalSeen, Buffers
  <2>14. watcher'.lineBuffer = LineBuffer(eventFeed')
    <3>1. LineBuffer(combined) = LineBuffer(t \o c)
      BY <2>1, <2>4, BufferStep
    <3> QED BY <2>2, <2>10, <3>1
  <2> QED BY <2>2, <2>3, <2>10, <2>12, <2>13, <2>14 DEF WatchInv, Buffers
<1> QED BY <1>2, <1>3

\* The steps of the launch up to the publication.
LEMMA LaunchStep ==
  ASSUME WatchInv, StartupDone \/ StartupFatal \/ LaunchEnds \/ StopSwap \/ StopTake
  PROVE  WatchInv'
<1>1. WatchTypeOK
  BY DEF WatchInv, EventsOnce
<1>2. UNCHANGED outputVars /\ UNCHANGED published
  BY DEF StartupDone, StartupFatal, LaunchEnds, StopSwap, StopTake
<1>3. session # "over" /\ session' \in {"starting", "running", "stop", "take", "publish"}
  BY DEF StartupDone, StartupFatal, LaunchEnds, StopSwap, StopTake
<1>4. /\ startup' \in [lineBuffer : Output, reported : BOOLEAN, fatal : BOOLEAN]
      /\ startup'.lineBuffer = startup.lineBuffer /\ startup'.reported = startup.reported
  BY <1>1 DEF WatchTypeOK, StartupDone, StartupFatal, LaunchEnds, StopSwap, StopTake
<1>5. watcher' \in [active : BOOLEAN, lineBuffer : Output] /\ line' \in Output
  <2>1. <<>> \in Output
    BY DEF Output
  <2> QED BY <1>1, <2>1 DEF WatchTypeOK, StartupDone, StartupFatal, LaunchEnds, StopSwap, StopTake
<1>6. WatchTypeOK'
  BY <1>1, <1>2, <1>3, <1>4, <1>5 DEF WatchTypeOK, outputVars
<1>7. EventsOnce' /\ FatalSeen' /\ startup'.lineBuffer = LineBuffer(startupFeed')
  BY <1>2, <1>3, <1>4, <1>6, IdleStep DEF outputVars
<1>8. /\ session' \in {"starting", "running", "stop", "take"} => watcher'.lineBuffer = LineBuffer(eventFeed')
      /\ session' \in {"take", "publish", "over"} => ~watcher'.active
      /\ session' = "publish" => line' = LineBuffer(eventFeed')
  <2>1. eventFeed' = eventFeed
    BY <1>2 DEF outputVars
  <2>2. CASE StartupDone \/ StartupFatal \/ LaunchEnds
    BY <2>1, <2>2 DEF WatchInv, Buffers, StartupDone, StartupFatal, LaunchEnds
  <2>3. CASE StopSwap
    <3>1. watcher' = [watcher EXCEPT !.active = FALSE] /\ session = "stop" /\ session' = "take"
      BY <2>3 DEF StopSwap
    <3>2. watcher'.lineBuffer = watcher.lineBuffer /\ ~watcher'.active
      BY <1>1, <3>1 DEF WatchTypeOK
    <3> QED BY <2>1, <3>1, <3>2 DEF WatchInv, Buffers
  <2>4. CASE StopTake
    <3>1. /\ watcher' = [watcher EXCEPT !.lineBuffer = <<>>] /\ line' = watcher.lineBuffer
          /\ session = "take" /\ session' = "publish"
      BY <2>4 DEF StopTake
    <3>2. watcher'.active = watcher.active
      BY <1>1, <3>1 DEF WatchTypeOK
    <3> QED BY <2>1, <3>1, <3>2 DEF WatchInv, Buffers
  <2> QED BY <2>2, <2>3, <2>4
<1> QED BY <1>7, <1>8 DEF WatchInv, Buffers

\* The publication of the unfinished line preserves the invariant.
LEMMA PublishStep ==
  ASSUME WatchInv, StopPublish
  PROVE  WatchInv'
<1> DEFINE t == eventFeed
           p == IF Matches(LineBuffer(t)) THEN Append(published, Count(t) + 1) ELSE published
<1>1. WatchTypeOK /\ t \in Output /\ published \in Seq(Nat) /\ Count(t) \in Nat
  BY RankFacts DEF WatchInv, EventsOnce, WatchTypeOK
<1>2. /\ session = "publish" /\ session' = "over" /\ line = LineBuffer(t)
      /\ UNCHANGED <<outputVars, startup, watcher, line>>
  BY DEF StopPublish, WatchInv, Buffers
<1>3. published' = p
  BY <1>2 DEF StopPublish
<1>4. p \in Seq(Nat)
  <2>1. Count(t) + 1 \in Nat
    BY <1>1
  <2> QED BY <1>1, <2>1
<1>5. WatchTypeOK'
  BY <1>1, <1>2, <1>3, <1>4 DEF WatchTypeOK, outputVars
<1>6. Listed(published, t)
  <2>1. Listed(published, IF session = "over" THEN Finish(eventFeed) ELSE eventFeed)
    BY EventsListed DEF WatchInv, EventsOnce
  <2> QED BY <1>2, <2>1
<1>7. Listed(p, Finish(t))
  BY <1>1, <1>6, ListedFinish
<1>8. EventsOnce'
  <2> DEFINE feed == Finish(t)
  <2>1. feed = (IF session' = "over" THEN Finish(eventFeed') ELSE eventFeed')
    BY <1>2 DEF outputVars
  <2>2. Listed(published', feed)
    BY <1>3, <1>7
  <2> HIDE DEF feed
  <2> QED BY <1>5, <2>1, <2>2, EventsListedNext
<1>9. FatalSeen' /\ startup'.lineBuffer = LineBuffer(startupFeed')
  BY <1>2 DEF WatchInv, FatalSeen, Buffers, outputVars
<1> QED BY <1>2, <1>8, <1>9 DEF WatchInv, Buffers

\* A step that changes nothing preserves the invariant.
LEMMA StutterStep ==
  ASSUME WatchInv, UNCHANGED watchVars
  PROVE  WatchInv'
<1>1. WatchTypeOK'
  BY DEF WatchInv, EventsOnce, WatchTypeOK, watchVars
<1>2. EventsOnce' /\ FatalSeen' /\ startup'.lineBuffer = LineBuffer(startupFeed')
  BY <1>1, IdleStep DEF watchVars
<1> QED BY <1>2 DEF WatchInv, Buffers, watchVars

\* The invariant holds at the beginning.
LEMMA WatchStart == WatchInit => WatchInv
<1> SUFFICES ASSUME WatchInit PROVE WatchInv
  OBVIOUS
<1> DEFINE e == <<>>
<1>1. e \in Output /\ e \in Seq(Nat) /\ DOMAIN e = {} /\ Len(e) = 0
  BY DEF Output
<1>2. /\ copier = [s \in Streams |-> [pc |-> "read", chunk |-> e]] /\ chunks = 0 /\ session = "starting"
      /\ startup = [lineBuffer |-> e, reported |-> FALSE, fatal |-> FALSE]
      /\ watcher = [active |-> TRUE, lineBuffer |-> e] /\ line = e /\ published = e
      /\ startupFeed = e /\ eventFeed = e
  BY DEF WatchInit
<1> HIDE DEF e
<1>3. LineEnds(e) = {} /\ Count(e) = 0
  <2>1. LineEnds(e) = {}
    BY <1>1 DEF LineEnds
  <2> QED BY <2>1, FS_EmptySet DEF Count
<1>4. Unfinished(e) = e
  BY <1>1, <1>3, UnfinishedWhole
<1>5. LineBuffer(e) = e
  <2>1. LineBuffer(e) = Cut(e)
    BY <1>1, <1>4, BufferFacts
  <2>2. 0 <= LineLimit
    BY LimitsAssumption
  <2> QED BY <1>1, <2>1, <2>2, CutFacts
<1>6. MatchingLines(e) = {} /\ ShortMatches(e) = {}
  BY <1>3 DEF MatchingLines, ShortMatches
<1>7. WatchTypeOK
  BY <1>1, <1>2, LimitsAssumption DEF WatchTypeOK
<1>8. EventsOnce
  <2>1. Enumerates(e, {})
    BY <1>1 DEF Enumerates, Increasing
  <2>2. Listed(e, e)
    BY <1>6, <2>1 DEF Listed
  <2>3. Listed(published, IF session = "over" THEN Finish(eventFeed) ELSE eventFeed)
    BY <1>2, <2>2
  <2> QED BY <1>7, <2>3, EventsListed
<1>9. ShortMatches(Finish(e)) = {}
  <2> DEFINE f == Finish(e)
  <2>1. f \in Output /\ Count(f) = 0 + 1
    BY <1>1, <1>3, FinishFacts
  <2>2. ShortMatches(f) \subseteq MatchingLines(f) /\ MatchingLines(f) \subseteq 1..Count(f)
    BY <2>1, LinesBelow
  <2>3. 0 + 1 \in ShortMatches(f) => Matches(e)
    BY <1>1, <1>3, <1>5, FinishFacts
  <2>4. ~Matches(e)
    BY <1>1 DEF Matches
  <2> HIDE DEF f
  <2>5. ShortMatches(f) = {}
    BY <2>1, <2>2, <2>3, <2>4
  <2> QED BY <2>5 DEF f
<1>10. FatalSeen
  BY <1>2, <1>9 DEF FatalSeen
<1> QED BY <1>2, <1>5, <1>8, <1>10 DEF WatchInv, Buffers

\* However the output is cut, the watchers' buffers hold what is left of it,
\* and both watchers have reported what they were given: the invariant that
\* every step of the goroutines and of the launch preserves.
THEOREM WatchInvariant == WatchSpec => []WatchInv
<1>1. WatchInv /\ [WatchNext]_watchVars => WatchInv'
  <2> SUFFICES ASSUME WatchInv, [WatchNext]_watchVars PROVE WatchInv'
    OBVIOUS
  <2>1. ASSUME NEW s \in Streams, ReadOutput(s) \/ PassOn(s) PROVE WatchInv'
    BY <2>1, ReadStep, StartupStep, CheckStep, EventStep DEF PassOn
  <2>2. CASE StartupDone \/ StartupFatal \/ LaunchEnds \/ StopSwap \/ StopTake
    BY <2>2, LaunchStep
  <2>3. CASE StopPublish
    BY <2>3, PublishStep
  <2>4. CASE OutputEnds \/ UNCHANGED watchVars
    BY <2>4, StutterStep DEF OutputEnds
  <2> QED BY <2>1, <2>2, <2>3, <2>4 DEF WatchNext
<1> QED BY <1>1, WatchStart, PTL DEF WatchSpec

\* coreLogEventWatcher: for any number of streams, any chunks and any limit,
\* each matching line that is not longer than the limit is published once, in
\* the order of the output, the unfinished line by Stop, and nothing else is.
THEOREM EventsOnceAlways == WatchSpec => []EventsOnce
<1>1. WatchInv => EventsOnce
  BY DEF WatchInv
<1> QED BY <1>1, WatchInvariant, PTL

\* startupLogWatcher: a fatal line is reported as soon as it shows, and a
\* report is about a fatal line of the output.
THEOREM FatalSeenAlways == WatchSpec => []FatalSeen
<1>1. WatchInv => FatalSeen
  BY DEF WatchInv
<1> QED BY <1>1, WatchInvariant, PTL

\* The channel of the startup watcher holds an error only after the report.
RoomForReport == startup.fatal => startup.reported

\* startupLogWatcher.reportFatal sends under the mutex that both copying
\* goroutines need: it finds room in the channel whatever the core writes and
\* whenever the start stopped receiving, so it never waits.  (OutputDrains
\* follows from it under the fairness of the goroutines, which TLC checks.)
THEOREM RoomForReportAlways == WatchSpec => []RoomForReport
<1>1. WatchInit => RoomForReport
  BY DEF WatchInit, RoomForReport
<1>2. RoomForReport /\ [WatchNext]_watchVars => RoomForReport'
  <2> SUFFICES ASSUME RoomForReport, [WatchNext]_watchVars PROVE RoomForReport'
    OBVIOUS
  <2>1. ASSUME NEW s \in Streams, StartupWrite(s) PROVE RoomForReport'
    BY <2>1 DEF StartupWrite, RoomForReport
  <2>2. CASE StartupFatal
    BY <2>2 DEF StartupFatal, RoomForReport
  <2>3. ASSUME startup' = startup PROVE RoomForReport'
    BY <2>3 DEF RoomForReport
  <2>4. ASSUME NEW s \in Streams, ReadOutput(s) \/ EventCheck(s) \/ EventWrite(s)
        PROVE  startup' = startup
    BY <2>4 DEF ReadOutput, EventCheck, EventWrite
  <2>5. CASE StartupDone \/ LaunchEnds \/ StopSwap \/ StopTake \/ StopPublish
    BY <2>3, <2>5 DEF StartupDone, LaunchEnds, StopSwap, StopTake, StopPublish
  <2>6. CASE OutputEnds \/ UNCHANGED watchVars
    BY <2>3, <2>6 DEF OutputEnds, watchVars
  <2> QED BY <2>1, <2>2, <2>3, <2>4, <2>5, <2>6 DEF WatchNext, PassOn
<1> QED BY <1>1, <1>2, PTL DEF WatchSpec
=============================================================================

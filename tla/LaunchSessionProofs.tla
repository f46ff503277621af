------------------------ MODULE LaunchSessionProofs ------------------------
(***************************************************************************)
(* The safety properties of a launch, for every set of sessions and every  *)
(* bound.                                                                  *)
(***************************************************************************)
EXTENDS LaunchSession, TLAPS, FiniteSetTheorems, SequenceTheorems,
        WellFoundedInduction

----------------------------------------------------------------------------
(* Recursion along a sequence.  The provers do not instantiate an induction *)
(* theorem that has an operator as its parameter, so induction is stated    *)
(* with a set.                                                              *)

\* A set that has 0 and with each number the next one has all of them.
LEMMA RangeInduction ==
  ASSUME NEW n \in Nat, NEW P \in SUBSET (0..n), 0 \in P,
         \A k \in 1..n : k - 1 \in P => k \in P
  PROVE  P = 0..n
<1> SUFFICES ASSUME (0..n) \ P # {} PROVE FALSE
  OBVIOUS
<1>1. PICK x \in (0..n) \ P : \A y \in (0..n) \ P : ~(<<y, x>> \in OpToRel(<, Nat))
  <2>1. (0..n) \ P \subseteq Nat
    OBVIOUS
  <2> QED BY <2>1, NatLessThanWellFounded, WFMin
<1>2. x # 0 /\ x - 1 \in 0..n /\ x - 1 < x /\ x \in 1..n /\ x \in Nat /\ x - 1 \in Nat
  OBVIOUS
<1>3. <<x - 1, x>> \in OpToRel(<, Nat)
  BY <1>2 DEF OpToRel
<1>4. x - 1 \in P
  BY <1>1, <1>2, <1>3
<1>5. x \in P
  BY <1>2, <1>4
<1> QED BY <1>5

\* A function that is defined by recursion exists.
RecursionRun(F, V, b, n, G) ==
  /\ F \in [0..n -> V]
  /\ F[0] = b
  /\ \A k \in 1..n : F[k] = G[k][F[k - 1]]

\* Step by step, a function that follows G from b exists on 0..n.
LEMMA Recursion ==
  ASSUME NEW V, NEW b \in V, NEW n \in Nat, NEW G \in [1..n -> [V -> V]]
  PROVE  \E F : RecursionRun(F, V, b, n, G)
<1> DEFINE Good(F, m) == F[0] = b /\ \A k \in 1..m : F[k] = G[k][F[k - 1]]
           P == {m \in 0..n : \E F \in [0..m -> V] : Good(F, m)}
<1>1. 0 \in P
  <2> DEFINE F == [i \in 0..0 |-> b]
  <2>1. F \in [0..0 -> V] /\ Good(F, 0)
    OBVIOUS
  <2>2. \E f \in [0..0 -> V] : Good(f, 0)
    <3> HIDE DEF F, Good
    <3> QED BY <2>1
  <2>3. 0 \in 0..n
    OBVIOUS
  <2> QED BY <2>2, <2>3
<1>2. ASSUME NEW m \in 1..n, m - 1 \in P
      PROVE  m \in P
  <2>1. PICK F \in [0..(m - 1) -> V] : Good(F, m - 1)
    BY <1>2
  <2> DEFINE H == [k \in 0..m |-> IF k = m THEN G[m][F[m - 1]] ELSE F[k]]
  <2>2. m \in 1..n /\ m - 1 \in 0..(m - 1) /\ F[m - 1] \in V
    OBVIOUS
  <2>4. G[m][F[m - 1]] \in V
    BY <2>2
  <2>5. H \in [0..m -> V]
    BY <2>4
  <2>6. H[0] = b
    BY <2>1
  <2>7. ASSUME NEW k \in 1..m
        PROVE  H[k] = G[k][H[k - 1]]
    <3>1. k - 1 \in 0..m /\ k - 1 # m /\ H[k - 1] = F[k - 1]
      OBVIOUS
    <3>2. CASE k = m
      BY <3>1, <3>2
    <3>3. CASE k # m
      <4>1. k \in 1..(m - 1) /\ H[k] = F[k]
        BY <3>3
      <4> QED BY <2>1, <3>1, <4>1
    <3> QED BY <3>2, <3>3
  <2> HIDE DEF H
  <2>8. Good(H, m)
    BY <2>6, <2>7
  <2>9. \E f \in [0..m -> V] : Good(f, m)
    <3> HIDE DEF Good
    <3> QED BY <2>5, <2>8
  <2>10. m \in 0..n
    OBVIOUS
  <2> QED BY <2>9, <2>10
<1>3. P = 0..n
  <2> HIDE DEF P
  <2>1. P \in SUBSET (0..n)
    BY DEF P
  <2> QED BY <1>1, <1>2, <2>1, RangeInduction
<1>4. n \in P
  <2> HIDE DEF P
  <2> QED BY <1>3
<1>5. PICK F \in [0..n -> V] : Good(F, n)
  BY <1>4
<1> QED BY <1>5 DEF RecursionRun

----------------------------------------------------------------------------
(* Keep *)

\* What Keep has of the first k elements.
KeepRun(F, E, s, S) ==
  /\ F \in [0..Len(s) -> Seq(E)]
  /\ F[0] = <<>>
  /\ \A k \in 1..Len(s) :
       F[k] = IF s[k] \in S THEN Append(F[k - 1], s[k]) ELSE F[k - 1]
  /\ Keep(s, S) = F[Len(s)]

\* Keep is computed by a run over the sequence.
LEMMA KeepRecursion ==
  ASSUME NEW E, NEW s \in Seq(E), NEW S
  PROVE  \E F : KeepRun(F, E, s, S)
<1> DEFINE n == Len(s)
           V == Seq(E)
           b == <<>>
           Step(v, k) == IF s[k] \in S THEN Append(v, s[k]) ELSE v
           G == [k \in 1..n |-> [v \in V |-> Step(v, k)]]
           Body(F) == [k \in 0..n |-> IF k = 0 THEN <<>>
                         ELSE IF s[k] \in S THEN Append(F[k - 1], s[k]) ELSE F[k - 1]]
           K == CHOOSE F : F = Body(F)
<1>0. n \in Nat /\ <<>> \in V /\ \A k \in 1..n : s[k] \in E
  OBVIOUS
<1>1. \A v \in V : \A k \in 1..n : Step(v, k) \in V
  BY <1>0
<1>2. G \in [1..n -> [V -> V]]
  <2> HIDE DEF Step, V, n
  <2> QED BY <1>1
<1>20. PICK F : RecursionRun(F, V, b, n, G)
  <2>1. n \in Nat /\ b \in V
    BY <1>0
  <2> HIDE DEF G, V, n, b
  <2> QED BY <1>2, <2>1, Recursion
<1>3. F \in [0..n -> V] /\ F[0] = b /\ \A k \in 1..n : F[k] = G[k][F[k - 1]]
  <2> HIDE DEF G, V, n, b
  <2> QED BY <1>20 DEF RecursionRun
<1>4. \A k \in 1..n : F[k] = Step(F[k - 1], k)
  <2> SUFFICES ASSUME NEW k \in 1..n PROVE F[k] = Step(F[k - 1], k)
    OBVIOUS
  <2>1. k - 1 \in 0..n /\ F[k - 1] \in V
    <3>1. k - 1 \in 0..n
      BY <1>0
    <3> HIDE DEF V, n
    <3> QED BY <1>3, <3>1
  <2>3. G[k][F[k - 1]] = Step(F[k - 1], k)
    <3> HIDE DEF Step, V, n
    <3> QED BY <2>1
  <2> QED BY <1>3, <2>3
<1>5. F = Body(F)
  <2>1. \A k \in 0..n : F[k] = Body(F)[k]
    <3> SUFFICES ASSUME NEW k \in 0..n PROVE F[k] = Body(F)[k]
      OBVIOUS
    <3>1. CASE k = 0
      BY <1>3, <3>1
    <3>2. CASE k # 0
      <4>1. k \in 1..n
        BY <1>0, <3>2
      <4> QED BY <1>4, <3>2, <4>1
    <3> QED BY <3>1, <3>2
  <2>2. Body(F) = [k \in 0..n |-> Body(F)[k]]
    OBVIOUS
  <2>3. F = [k \in 0..n |-> F[k]]
    <3> HIDE DEF V, n
    <3> QED BY <1>3
  <2> HIDE DEF Body
  <2> QED BY <2>1, <2>2, <2>3
<1>6. K = Body(K)
  <2> HIDE DEF Body
  <2> QED BY <1>5
<1>7. Keep(s, S) = K[n]
  BY DEF Keep
<1> HIDE DEF K
<1>8. K[0] = <<>> /\ \A k \in 1..n : K[k] = Step(K[k - 1], k)
  <2>1. K[0] = <<>>
    BY <1>0, <1>6
  <2>2. ASSUME NEW k \in 1..n PROVE K[k] = Step(K[k - 1], k)
    <3>1. k \in 0..n /\ k # 0
      OBVIOUS
    <3> QED BY <1>6, <3>1
  <2> QED BY <2>1, <2>2
<1>9. K \in [0..n -> V]
  <2> DEFINE P == {k \in 0..n : K[k] \in V}
  <2>1. 0 \in P
    <3>1. 0 \in 0..n
      BY <1>0
    <3> HIDE DEF V
    <3> QED BY <1>0, <1>8, <3>1
  <2>2. ASSUME NEW k \in 1..n, k - 1 \in P PROVE k \in P
    <3>1. Step(K[k - 1], k) \in V
      BY <1>1, <2>2
    <3>2. k \in 0..n
      OBVIOUS
    <3> QED BY <1>8, <3>1, <3>2
  <2>3. P = 0..n
    <3> HIDE DEF P, n
    <3>1. P \in SUBSET (0..n)
      BY DEF P
    <3> QED BY <1>0, <2>1, <2>2, <3>1, RangeInduction
  <2>4. K = [k \in 0..n |-> K[k]]
    BY <1>6
  <2> QED BY <2>3, <2>4
<1>10. KeepRun(K, E, s, S)
  BY <1>7, <1>8, <1>9 DEF KeepRun
<1> QED BY <1>10

\* One sequence has the elements of another in their order.
InOrder(t, s) ==
  \A k, l \in DOMAIN t : k < l =>
    \E i, j \in DOMAIN s : i < j /\ t[k] = s[i] /\ t[l] = s[j]

\* What Keep returns: the elements that are in the set, in their order.
LEMMA KeepFacts ==
  ASSUME NEW E, NEW s \in Seq(E), NEW S
  PROVE  /\ Keep(s, S) \in Seq(E)
         /\ ToSet(Keep(s, S)) = ToSet(s) \cap S
         /\ InOrder(Keep(s, S), s)
<1>0. PICK F : KeepRun(F, E, s, S)
  BY KeepRecursion
<1>1. /\ F \in [0..Len(s) -> Seq(E)]
      /\ F[0] = <<>>
      /\ \A k \in 1..Len(s) :
           F[k] = IF s[k] \in S THEN Append(F[k - 1], s[k]) ELSE F[k - 1]
      /\ Keep(s, S) = F[Len(s)]
  BY <1>0 DEF KeepRun
<1> DEFINE n == Len(s)
           Good(k) ==
             /\ \A l \in DOMAIN F[k] : \E i \in 1..k : s[i] \in S /\ F[k][l] = s[i]
             /\ \A i \in 1..k : s[i] \in S => \E l \in DOMAIN F[k] : F[k][l] = s[i]
             /\ \A l, m \in DOMAIN F[k] : l < m =>
                  \E i, j \in 1..k : i < j /\ F[k][l] = s[i] /\ F[k][m] = s[j]
           P == {k \in 0..n : Good(k)}
<1>2. n \in Nat /\ DOMAIN s = 1..n
  OBVIOUS
<1>3. 0 \in P
  <2>1. DOMAIN F[0] = {}
    BY <1>1
  <2> QED BY <1>2, <2>1
<1>4. ASSUME NEW k \in 1..n, k - 1 \in P
      PROVE  k \in P
  <2> DEFINE f == F[k - 1]
             g == F[k]
  <2>0. k \in 0..n /\ k - 1 \in 0..n /\ k \in Nat /\ f \in Seq(E) /\ s[k] \in E
        /\ g \in Seq(E)
    <3>1. k \in 0..n /\ k - 1 \in 0..n /\ k \in Nat
      BY <1>2
    <3>2. s[k] \in E
      BY <1>2
    <3> QED BY <1>1, <3>1, <3>2
  <2>1. CASE s[k] \in S
    <3>1. g = Append(f, s[k])
      BY <1>1, <2>1
    <3>2. /\ Len(g) = Len(f) + 1 /\ g[Len(f) + 1] = s[k]
          /\ \A l \in 1..Len(f) : g[l] = f[l]
          /\ DOMAIN g = 1..(Len(f) + 1) /\ DOMAIN f = 1..Len(f)
      BY <2>0, <3>1
    <3>3. Good(k - 1)
      BY <1>4
    <3> HIDE DEF f, g
    <3>4. ASSUME NEW l \in DOMAIN g
          PROVE  \E i \in 1..k : s[i] \in S /\ g[l] = s[i]
      <4>1. CASE l = Len(f) + 1
        BY <2>0, <2>1, <3>2, <4>1
      <4>2. CASE l # Len(f) + 1
        <5>1. l \in DOMAIN f /\ g[l] = f[l]
          BY <2>0, <3>2, <4>2
        <5>2. PICK i \in 1..(k - 1) : s[i] \in S /\ f[l] = s[i]
          BY <3>3, <5>1 DEF f
        <5> QED BY <2>0, <5>1, <5>2
      <4> QED BY <4>1, <4>2
    <3>5. ASSUME NEW i \in 1..k, s[i] \in S
          PROVE  \E l \in DOMAIN g : g[l] = s[i]
      <4>1. CASE i = k
        <5>1. Len(f) + 1 \in DOMAIN g
          BY <2>0, <3>2
        <5> QED BY <3>2, <4>1, <5>1
      <4>2. CASE i # k
        <5>1. i \in 1..(k - 1)
          BY <2>0, <4>2
        <5>2. PICK l \in DOMAIN f : f[l] = s[i]
          BY <3>3, <3>5, <5>1 DEF f
        <5>3. l \in DOMAIN g /\ g[l] = f[l]
          BY <2>0, <3>2
        <5> QED BY <5>2, <5>3
      <4> QED BY <4>1, <4>2
    <3>6. ASSUME NEW l \in DOMAIN g, NEW m \in DOMAIN g, l < m
          PROVE  \E i, j \in 1..k : i < j /\ g[l] = s[i] /\ g[m] = s[j]
      <4>1. l \in DOMAIN f /\ g[l] = f[l]
        BY <2>0, <3>2, <3>6
      <4>2. CASE m = Len(f) + 1
        <5>1. PICK i \in 1..(k - 1) : f[l] = s[i]
          BY <3>3, <4>1 DEF f
        <5>2. i \in 1..k /\ k \in 1..k /\ i < k
          BY <2>0
        <5> QED BY <3>2, <4>1, <4>2, <5>1, <5>2
      <4>3. CASE m # Len(f) + 1
        <5>1. m \in DOMAIN f /\ g[m] = f[m]
          BY <2>0, <3>2, <4>3
        <5>2. PICK i \in 1..(k - 1), j \in 1..(k - 1) : i < j /\ f[l] = s[i] /\ f[m] = s[j]
          BY <3>3, <3>6, <4>1, <5>1 DEF f
        <5>3. i \in 1..k /\ j \in 1..k
          BY <2>0
        <5> QED BY <4>1, <5>1, <5>2, <5>3
      <4> QED BY <4>2, <4>3
    <3>7. Good(k)
      BY <3>4, <3>5, <3>6 DEF g
    <3> QED BY <2>0, <3>7
  <2>2. CASE s[k] \notin S
    <3>1. F[k] = F[k - 1]
      BY <1>1, <2>2
    <3>2. \A i \in 1..(k - 1) : i \in 1..k
      BY <2>0
    <3>3. \A i \in 1..k : s[i] \in S => i \in 1..(k - 1)
      BY <2>0, <2>2
    <3>4. Good(k - 1)
      BY <1>4
    <3>5. Good(k)
      BY <3>1, <3>2, <3>3, <3>4
    <3> QED BY <2>0, <3>5
  <2> QED BY <2>1, <2>2
<1>5. n \in P
  <2> HIDE DEF P
  <2>1. P \in SUBSET (0..n)
    BY DEF P
  <2>2. P = 0..n
    BY <1>2, <1>3, <1>4, <2>1, RangeInduction
  <2> QED BY <1>2, <2>2
<1>6. Good(n)
  BY <1>5
<1>7. Keep(s, S) = F[n] /\ F[n] \in Seq(E)
  BY <1>1, <1>2
<1> DEFINE t == F[n]
<1>8. /\ \A l \in DOMAIN t : \E i \in 1..n : s[i] \in S /\ t[l] = s[i]
      /\ \A i \in 1..n : s[i] \in S => \E l \in DOMAIN t : t[l] = s[i]
      /\ \A l, m \in DOMAIN t : l < m =>
           \E i, j \in 1..n : i < j /\ t[l] = s[i] /\ t[m] = s[j]
  BY <1>6
<1>9. Keep(s, S) = t
  BY <1>7
<1> HIDE DEF t
<1>10. ToSet(t) = ToSet(s) \cap S
  BY <1>2, <1>8 DEF ToSet
<1>11. InOrder(t, s)
  <2> SUFFICES ASSUME NEW k \in DOMAIN t, NEW l \in DOMAIN t, k < l
               PROVE  \E i, j \in DOMAIN s : i < j /\ t[k] = s[i] /\ t[l] = s[j]
    BY DEF InOrder
  <2>1. PICK i \in 1..n, j \in 1..n : i < j /\ t[k] = s[i] /\ t[l] = s[j]
    BY <1>8
  <2>2. i \in DOMAIN s /\ j \in DOMAIN s
    BY <1>2
  <2> QED BY <2>1, <2>2
<1>12. t \in Seq(E)
  BY <1>7 DEF t
<1> QED BY <1>9, <1>10, <1>11, <1>12

\* Keep of what ends in an element of the set ends in it.
LEMMA KeepLast ==
  ASSUME NEW E, NEW s \in Seq(E), NEW S, s # <<>>, s[Len(s)] \in S
  PROVE  \E r \in Seq(E) : Keep(s, S) = Append(r, s[Len(s)])
<1>1. PICK F : KeepRun(F, E, s, S)
  BY KeepRecursion
<1>2. Len(s) \in 1..Len(s) /\ Len(s) - 1 \in 0..Len(s)
  OBVIOUS
<1>3. F[Len(s) - 1] \in Seq(E)
  BY <1>1, <1>2 DEF KeepRun
<1>4. Keep(s, S) = Append(F[Len(s) - 1], s[Len(s)])
  BY <1>1, <1>2 DEF KeepRun
<1> QED BY <1>3, <1>4

\* A set that has the first elements and not the others.
LEMMA KeepFront ==
  ASSUME NEW E, NEW s \in Seq(E), NEW S, NEW n \in 0..Len(s),
         \A k \in 1..Len(s) : s[k] \in S <=> k <= n
  PROVE  Keep(s, S) = SubSeq(s, 1, n)
<1>1. PICK F : KeepRun(F, E, s, S)
  BY KeepRecursion
<1> DEFINE m == Len(s)
           Least(k) == IF k <= n THEN k ELSE n
           Good(k) == Len(F[k]) = Least(k) /\ \A i \in 1..Least(k) : F[k][i] = s[i]
           P == {k \in 0..m : Good(k)}
<1>2. /\ m \in Nat /\ n \in Nat /\ n <= m
      /\ F[0] = <<>> /\ Keep(s, S) = F[m]
      /\ \A k \in 0..m : F[k] \in Seq(E)
  <2>1. m \in Nat /\ n \in Nat /\ n <= m
    OBVIOUS
  <2>2. F[0] = <<>> /\ Keep(s, S) = F[m] /\ F \in [0..m -> Seq(E)]
    BY <1>1 DEF KeepRun
  <2> QED BY <2>1, <2>2
<1>3. \A k \in 1..m : F[k] = IF s[k] \in S THEN Append(F[k - 1], s[k]) ELSE F[k - 1]
  BY <1>1 DEF KeepRun
<1>4. 0 \in P
  BY <1>2
<1>5. ASSUME NEW k \in 1..m, k - 1 \in P
      PROVE  k \in P
  <2>1. k \in Nat /\ k \in 0..m /\ k - 1 \in 0..m /\ F[k - 1] \in Seq(E) /\ s[k] \in E
    BY <1>2
  <2> DEFINE f == F[k - 1]
  <2>2. Good(k - 1)
    BY <1>5
  <2>3. CASE k <= n
    <3>1. F[k] = Append(f, s[k])
      BY <1>3, <2>3
    <3>2. Len(f) = k - 1 /\ \A i \in 1..(k - 1) : f[i] = s[i]
      BY <1>2, <2>1, <2>2, <2>3
    <3> HIDE DEF f
    <3>3. Len(F[k]) = k /\ \A i \in 1..k : F[k][i] = s[i]
      BY <2>1, <3>1, <3>2 DEF f
    <3> QED BY <2>1, <2>3, <3>3
  <2>4. CASE ~(k <= n)
    <3>1. F[k] = f
      BY <1>3, <2>4
    <3>2. Least(k - 1) = n /\ Least(k) = n
      BY <1>2, <2>1, <2>4
    <3> HIDE DEF Least
    <3> QED BY <2>1, <2>2, <3>1, <3>2
  <2> QED BY <2>3, <2>4
<1>6. m \in P
  <2> HIDE DEF P
  <2>1. P \in SUBSET (0..m)
    BY DEF P
  <2>2. P = 0..m
    BY <1>2, <1>4, <1>5, <2>1, RangeInduction
  <2> QED BY <1>2, <2>2
<1>7. Len(F[m]) = n /\ \A i \in 1..n : F[m][i] = s[i]
  BY <1>2, <1>6
<1>8. /\ SubSeq(s, 1, n) \in Seq(E) /\ Len(SubSeq(s, 1, n)) = n
      /\ \A i \in 1..n : SubSeq(s, 1, n)[i] = s[i]
  BY <1>2
<1>9. F[m] \in Seq(E)
  BY <1>2
<1> HIDE DEF m
<1>10. F[m] = SubSeq(s, 1, n)
  BY <1>7, <1>8, <1>9, SeqEqual
<1> QED BY <1>2, <1>10

----------------------------------------------------------------------------
(* FlattenSeq *)

\* What FlattenSeq has of the first k sequences.
FlattenRun(F, E, s) ==
  /\ F \in [0..Len(s) -> Seq(E)]
  /\ F[0] = <<>>
  /\ \A k \in 1..Len(s) : F[k] = F[k - 1] \o s[k]
  /\ FlattenSeq(s) = F[Len(s)]

\* FlattenSeq is computed by a run over the sequences.
LEMMA FlattenRecursion ==
  ASSUME NEW E, NEW s \in Seq(Seq(E))
  PROVE  \E F : FlattenRun(F, E, s)
<1> DEFINE n == Len(s)
           V == Seq(E)
           b == <<>>
           G == [k \in 1..n |-> [v \in V |-> v \o s[k]]]
           Body(f) == [i \in 1..n |-> IF i = 1 THEN s[i] ELSE f[i - 1] \o s[i]]
           K == CHOOSE f : f = Body(f)
<1>0. n \in Nat /\ b \in V /\ \A k \in 1..n : s[k] \in V
  OBVIOUS
<1>1. \A v \in V : \A k \in 1..n : v \o s[k] \in V
  BY <1>0
<1>2. G \in [1..n -> [V -> V]]
  <2> HIDE DEF V, n
  <2> QED BY <1>1
<1>20. PICK F : RecursionRun(F, V, b, n, G)
  <2>1. n \in Nat /\ b \in V
    BY <1>0
  <2> HIDE DEF G, V, n, b
  <2> QED BY <1>2, <2>1, Recursion
<1>3. F \in [0..n -> V] /\ F[0] = b /\ \A k \in 1..n : F[k] = G[k][F[k - 1]]
  <2> HIDE DEF G, V, n, b
  <2> QED BY <1>20 DEF RecursionRun
<1>4. \A k \in 1..n : F[k] = F[k - 1] \o s[k]
  <2> SUFFICES ASSUME NEW k \in 1..n PROVE F[k] = F[k - 1] \o s[k]
    OBVIOUS
  <2>1. k - 1 \in 0..n
    BY <1>0
  <2>2. F[k - 1] \in V
    <3> HIDE DEF V, n
    <3> QED BY <1>3, <2>1
  <2>3. G[k][F[k - 1]] = F[k - 1] \o s[k]
    <3> HIDE DEF V, n
    <3> QED BY <2>2
  <2> QED BY <1>3, <2>3
<1>5. CASE n = 0
  <2>1. s = <<>> /\ FlattenSeq(s) = s
    BY <1>5 DEF FlattenSeq
  <2>2. FlattenSeq(s) = F[n]
    BY <1>3, <1>5, <2>1
  <2>3. FlattenRun(F, E, s)
    BY <1>3, <1>4, <2>2 DEF FlattenRun
  <2> QED BY <2>3
<1>6. CASE n # 0
  <2>0. 1 \in 1..n /\ n \in 1..n
    BY <1>0, <1>6
  <2> DEFINE R == [i \in 1..n |-> F[i]]
  <2>1. F[1] = s[1]
    <3>1. F[1] = F[0] \o s[1]
      <4>1. 1 - 1 = 0
        OBVIOUS
      <4> QED BY <1>4, <2>0, <4>1
    <3>2. s[1] \in V
      BY <1>0, <2>0
    <3> QED BY <1>3, <3>1, <3>2, ConcatEmptySeq
  <2>2. R = Body(R)
    <3>1. ASSUME NEW i \in 1..n PROVE F[i] = Body(R)[i]
      <4>1. CASE i = 1
        BY <2>1, <4>1
      <4>2. CASE i # 1
        <5>1. i - 1 \in 1..n
          BY <1>0, <4>2
        <5>2. R[i - 1] = F[i - 1]
          BY <5>1
        <5> QED BY <1>4, <4>2, <5>2
      <4> QED BY <4>1, <4>2
    <3>2. Body(R) = [i \in 1..n |-> Body(R)[i]]
      OBVIOUS
    <3> HIDE DEF Body
    <3> QED BY <3>1, <3>2
  <2>3. K = Body(K)
    <3> HIDE DEF Body, R
    <3> QED BY <2>2
  <2>4. FlattenSeq(s) = K[n]
    BY <1>6 DEF FlattenSeq
  <2> HIDE DEF K
  <2> DEFINE P == {k \in 0..n : k = 0 \/ K[k] = F[k]}
  <2>5. 0 \in P
    BY <1>0
  <2>6. ASSUME NEW k \in 1..n, k - 1 \in P PROVE k \in P
    <3>1. K[k] = IF k = 1 THEN s[k] ELSE K[k - 1] \o s[k]
      BY <2>3
    <3>2. k \in 0..n /\ (k # 1 => k - 1 # 0)
      BY <1>0
    <3>3. K[k] = F[k]
      BY <1>4, <2>1, <2>6, <3>1, <3>2
    <3> QED BY <3>2, <3>3
  <2>7. P = 0..n
    <3> HIDE DEF P, n
    <3>1. P \in SUBSET (0..n)
      BY DEF P
    <3> QED BY <1>0, <2>5, <2>6, <3>1, RangeInduction
  <2>8. K[n] = F[n]
    BY <1>0, <1>6, <2>7
  <2>9. FlattenRun(F, E, s)
    BY <1>3, <1>4, <2>4, <2>8 DEF FlattenRun
  <2> QED BY <2>9
<1> QED BY <1>5, <1>6

----------------------------------------------------------------------------
(* The plan of the mounts *)

RequestType == [target : Path, readOnly : BOOLEAN, file : BOOLEAN, proc : BOOLEAN]

\* What a list of mounts has to do with the requests: each is made of all the
\* requests for its target, there is one for every target, and no two are for
\* the same.
Merges(list, mounts) ==
  /\ list \in Seq(RequestType)
  /\ \A k, l \in DOMAIN list : k # l => list[k].target # list[l].target
  /\ \A i \in DOMAIN mounts : \E k \in DOMAIN list : list[k].target = mounts[i].target
  /\ \A k \in DOMAIN list :
       /\ \E i \in DOMAIN mounts : mounts[i].target = list[k].target
       /\ list[k].readOnly <=> \A j \in DOMAIN mounts :
            mounts[j].target = list[k].target => mounts[j].readOnly
       /\ list[k].file <=> \E j \in DOMAIN mounts :
            mounts[j].target = list[k].target /\ mounts[j].file

\* A set of numbers has a least one.
LEMMA Least ==
  ASSUME NEW S \in SUBSET Nat, S # {}
  PROVE  \E x \in S : \A y \in S : x <= y
<1>1. PICK x \in S : \A y \in S : ~(<<y, x>> \in OpToRel(<, Nat))
  BY NatLessThanWellFounded, WFMin
<1>2. ASSUME NEW y \in S PROVE x <= y
  <2>1. y \in Nat /\ x \in Nat
    OBVIOUS
  <2>2. y < x => <<y, x>> \in OpToRel(<, Nat)
    BY <2>1 DEF OpToRel
  <2>3. ~(y < x)
    BY <1>1, <2>2
  <2> QED BY <2>1, <2>3
<1> QED BY <1>2

\* What merging the requests gives.
LEMMA MergedFacts ==
  ASSUME NEW mounts \in Seq(RequestType)
  PROVE  Merges(Merged(mounts), mounts)
<1> DEFINE D == DOMAIN mounts
           same(i) == {j \in D : mounts[j].target = mounts[i].target}
           ids == [i \in D |-> i]
           firsts == {i \in D : \A j \in same(i) : i <= j}
           first == Keep(ids, firsts)
           Make(i) == [target |-> mounts[i].target,
                       readOnly |-> \A j \in same(i) : mounts[j].readOnly,
                       file |-> \E j \in same(i) : mounts[j].file,
                       proc |-> \E j \in same(i) : mounts[j].proc]
           merged == [k \in DOMAIN first |-> Make(first[k])]
<1>1. Merged(mounts) = merged
  BY DEF Merged
<1>2. D \in SUBSET Nat /\ D = 1..Len(mounts) /\ Len(mounts) \in Nat
  OBVIOUS
<1>3. ids \in Seq(D) /\ DOMAIN ids = D /\ ToSet(ids) = D
  BY <1>2 DEF ToSet
<1>4. first \in Seq(D) /\ ToSet(first) = D \cap firsts /\ InOrder(first, ids)
  <2> HIDE DEF ids, firsts, D
  <2> QED BY <1>3, KeepFacts
<1>5. \A i \in D : Make(i) \in RequestType
  <2> SUFFICES ASSUME NEW i \in D PROVE Make(i) \in RequestType
    OBVIOUS
  <2> DEFINE r == \A j \in same(i) : mounts[j].readOnly
             f == \E j \in same(i) : mounts[j].file
             p == \E j \in same(i) : mounts[j].proc
  <2>1. mounts[i].target \in Path
    <3>1. mounts[i] \in RequestType
      BY <1>2
    <3> QED BY <3>1 DEF RequestType
  <2>2. r \in BOOLEAN /\ f \in BOOLEAN /\ p \in BOOLEAN
    OBVIOUS
  <2>3. Make(i) = [target |-> mounts[i].target, readOnly |-> r, file |-> f, proc |-> p]
    OBVIOUS
  <2> HIDE DEF r, f, p, Make
  <2> QED BY <2>1, <2>2, <2>3 DEF RequestType
<1>6. \A k \in DOMAIN first : first[k] \in D /\ first[k] \in firsts
  BY <1>4 DEF ToSet
<1>7. merged \in Seq(RequestType)
  <2> HIDE DEF first, Make, D
  <2>1. DOMAIN first = 1..Len(first) /\ Len(first) \in Nat
    BY <1>4
  <2> QED BY <1>5, <1>6, <2>1
<1>8. DOMAIN merged = DOMAIN first /\ \A k \in DOMAIN first : merged[k] = Make(first[k])
  OBVIOUS
<1>9. ASSUME NEW k \in DOMAIN first, NEW l \in DOMAIN first, k < l
      PROVE  first[k] < first[l] /\ mounts[first[k]].target # mounts[first[l]].target
  <2>1. PICK i \in D, j \in D : i < j /\ first[k] = ids[i] /\ first[l] = ids[j]
    <3> HIDE DEF first, D
    <3> QED BY <1>3, <1>4, <1>9 DEF InOrder
  <2>2. first[k] = i /\ first[l] = j
    BY <2>1
  <2>3. i \in firsts /\ j \in firsts
    BY <1>6, <2>2
  <2> HIDE DEF first
  <2>4. mounts[i].target # mounts[j].target
    BY <1>2, <2>1, <2>3
  <2> QED BY <2>1, <2>2, <2>4
<1> HIDE DEF first, merged
<1>10. ASSUME NEW k \in DOMAIN merged, NEW l \in DOMAIN merged, k # l
       PROVE  merged[k].target # merged[l].target
  <2>1. k \in Nat /\ l \in Nat
    BY <1>7
  <2>2. merged[k].target = mounts[first[k]].target /\ merged[l].target = mounts[first[l]].target
    BY <1>8
  <2>3. CASE k < l
    BY <1>8, <1>9, <2>2, <2>3
  <2>4. CASE l < k
    BY <1>8, <1>9, <2>2, <2>4
  <2> QED BY <1>10, <2>1, <2>3, <2>4
<1>11. ASSUME NEW i \in D
       PROVE  \E k \in DOMAIN merged : merged[k].target = mounts[i].target
  <2>1. same(i) \in SUBSET Nat /\ i \in same(i)
    BY <1>2
  <2>2. PICK x \in same(i) : \A y \in same(i) : x <= y
    <3> HIDE DEF same
    <3> QED BY <2>1, Least
  <2>3. x \in D /\ mounts[x].target = mounts[i].target /\ same(x) = same(i)
    BY <2>2
  <2>4. x \in firsts
    BY <2>2, <2>3
  <2>5. PICK k \in DOMAIN first : first[k] = x
    BY <1>4, <2>3, <2>4 DEF ToSet
  <2> QED BY <1>8, <2>3, <2>5
<1>12. ASSUME NEW k \in DOMAIN merged
       PROVE  /\ \E i \in D : mounts[i].target = merged[k].target
              /\ merged[k].readOnly <=> \A j \in D :
                   mounts[j].target = merged[k].target => mounts[j].readOnly
              /\ merged[k].file <=> \E j \in D :
                   mounts[j].target = merged[k].target /\ mounts[j].file
  <2>1. merged[k] = Make(first[k]) /\ first[k] \in D
    BY <1>6, <1>8
  <2>2. merged[k].target = mounts[first[k]].target
    BY <2>1
  <2>3. merged[k].readOnly <=> \A j \in same(first[k]) : mounts[j].readOnly
    BY <2>1
  <2>4. merged[k].file <=> \E j \in same(first[k]) : mounts[j].file
    BY <2>1
  <2> QED BY <2>1, <2>2, <2>3, <2>4
<1> QED BY <1>1, <1>7, <1>10, <1>11, <1>12 DEF Merges

\* The greatest of a bounded set of numbers.
LEMMA MaxFacts ==
  ASSUME NEW m \in Nat, NEW S \in SUBSET (0..m), S # {}
  PROVE  Max(S) \in S /\ \A y \in S : y <= Max(S)
<1> DEFINE T == {m - x : x \in S}
<1>1. T \in SUBSET Nat /\ T # {}
  <2>1. \A x \in S : m - x \in Nat
    OBVIOUS
  <2>2. T # {}
    OBVIOUS
  <2> QED BY <2>1, <2>2
<1>2. PICK t \in T : \A u \in T : t <= u
  <2> HIDE DEF T
  <2> QED BY <1>1, Least
<1>3. PICK x \in S : t = m - x
  OBVIOUS
<1>4. ASSUME NEW y \in S PROVE x >= y
  <2>1. m - y \in T /\ x \in 0..m /\ y \in 0..m
    OBVIOUS
  <2>2. m - x <= m - y
    <3> HIDE DEF T
    <3> QED BY <1>2, <1>3, <2>1
  <2> QED BY <2>1, <2>2
<1>5. \E z \in S : \A y \in S : z >= y
  BY <1>4
<1>6. Max(S) \in S /\ \A y \in S : Max(S) >= y
  BY <1>5 DEF Max
<1>7. ASSUME NEW y \in S PROVE y <= Max(S)
  <2>1. y \in 0..m /\ Max(S) \in 0..m /\ Max(S) >= y
    BY <1>6
  <2> HIDE <1>6
  <2> QED BY <2>1
<1> QED BY <1>6, <1>7

\* Finitely many numbers have a bound.
LEMMA Bounded ==
  ASSUME NEW n \in Nat, NEW f \in [1..n -> Nat]
  PROVE  \E m \in Nat : \A y \in 1..n : f[y] <= m
<1> DEFINE P == {k \in 0..n : \E m \in Nat : \A y \in 1..k : f[y] <= m}
<1>1. 0 \in P
  <2>1. 0 \in 0..n /\ \A y \in 1..0 : f[y] <= 0
    OBVIOUS
  <2> QED BY <2>1
<1>2. ASSUME NEW k \in 1..n, k - 1 \in P PROVE k \in P
  <2>1. PICK m \in Nat : \A y \in 1..(k - 1) : f[y] <= m
    BY <1>2
  <2> DEFINE b == IF m <= f[k] THEN f[k] ELSE m
  <2>2. f[k] \in Nat /\ k \in 0..n /\ b \in Nat /\ m <= b /\ f[k] <= b
    OBVIOUS
  <2>3. ASSUME NEW y \in 1..k PROVE f[y] <= b
    <3>1. f[y] \in Nat
      OBVIOUS
    <3>2. CASE y = k
      BY <2>2, <3>2
    <3>3. CASE y # k
      <4>1. f[y] <= m
        BY <2>1, <3>3
      <4> HIDE DEF b
      <4> QED BY <2>2, <3>1, <4>1
    <3> QED BY <3>2, <3>3
  <2> HIDE DEF b
  <2> QED BY <2>2, <2>3
<1>3. n \in P
  <2> HIDE DEF P
  <2>1. P \in SUBSET (0..n)
    BY DEF P
  <2>2. P = 0..n
    BY <1>1, <1>2, <2>1, RangeInduction
  <2> QED BY <2>2
<1> QED BY <1>3

\* A list is sorted: a mount comes before the deeper ones.
Sorted(list) ==
  \A k, l \in DOMAIN list : k < l => Depth(list[k].target) <= Depth(list[l].target)

\* compactSandboxMounts merges the requests and sorts them.
LEMMA CompactFacts ==
  ASSUME NEW mounts \in Seq(RequestType)
  PROVE  /\ Merges(compactSandboxMounts(mounts), mounts)
         /\ Sorted(compactSandboxMounts(mounts))
<1> DEFINE merged == Merged(mounts)
           depths == {0} \cup {Depth(merged[i].target) : i \in DOMAIN merged}
           deepest == Max(depths)
           Level(d) == {m \in ToSet(merged) : Depth(m.target) = d}
           segs == [d \in 1..deepest |-> Keep(merged, Level(d))]
<1>1. compactSandboxMounts(mounts) = FlattenSeq(segs)
  BY DEF compactSandboxMounts
<1>2. Merges(merged, mounts)
  BY MergedFacts
<1>3. merged \in Seq(RequestType)
  BY <1>2 DEF Merges
<1> HIDE DEF merged
<1>4. \A m \in RequestType : Depth(m.target) \in Nat \ {0}
  <2> SUFFICES ASSUME NEW m \in RequestType PROVE Depth(m.target) \in Nat \ {0}
    OBVIOUS
  <2>1. m.target \in Seq(STRING)
    BY DEF RequestType, Path
  <2>2. m.target # <<>> => Len(m.target) # 0
    BY <2>1
  <2> QED BY <2>1, <2>2 DEF Depth
<1>5. \A i \in DOMAIN merged : merged[i] \in RequestType /\ Depth(merged[i].target) \in Nat \ {0}
  BY <1>3, <1>4
<1>6. deepest \in Nat /\ \A i \in DOMAIN merged : Depth(merged[i].target) <= deepest
  <2> DEFINE n == Len(merged)
             f == [i \in 1..n |-> Depth(merged[i].target)]
  <2>1. n \in Nat /\ DOMAIN merged = 1..n
    BY <1>3
  <2>2. f \in [1..n -> Nat]
    BY <1>5, <2>1
  <2>3. PICK b \in Nat : \A y \in 1..n : f[y] <= b
    <3> HIDE DEF f, n
    <3> QED BY <2>1, <2>2, Bounded
  <2>4. depths \in SUBSET (0..b) /\ depths # {}
    BY <1>5, <2>1, <2>3
  <2>5. deepest \in depths /\ \A y \in depths : y <= deepest
    <3> HIDE DEF depths
    <3> QED BY <2>4, MaxFacts
  <2>6. deepest \in Nat
    <3> HIDE DEF deepest
    <3> QED BY <2>4, <2>5
  <2> HIDE DEF deepest
  <2> QED BY <2>5, <2>6
<1> HIDE DEF deepest
<1>7. ASSUME NEW d \in 1..deepest
      PROVE  /\ segs[d] \in Seq(RequestType)
             /\ ToSet(segs[d]) = Level(d)
             /\ InOrder(segs[d], merged)
  <2>1. segs[d] = Keep(merged, Level(d))
    OBVIOUS
  <2>2. ToSet(merged) \cap Level(d) = Level(d)
    OBVIOUS
  <2> DEFINE L == Level(d)
  <2>3. ToSet(merged) \cap L = L
    BY <2>2
  <2> HIDE DEF L
  <2>4. /\ Keep(merged, L) \in Seq(RequestType)
        /\ ToSet(Keep(merged, L)) = ToSet(merged) \cap L
        /\ InOrder(Keep(merged, L), merged)
    BY <1>3, KeepFacts
  <2> QED BY <2>1, <2>3, <2>4 DEF L
<1>8. segs \in Seq(Seq(RequestType)) /\ Len(segs) = deepest
  <2> HIDE DEF Level
  <2> QED BY <1>6, <1>7
<1> HIDE DEF segs
<1>9. PICK F : FlattenRun(F, RequestType, segs)
  BY <1>8, FlattenRecursion
<1>10. /\ F \in [0..deepest -> Seq(RequestType)]
       /\ F[0] = <<>>
       /\ \A d \in 1..deepest : F[d] = F[d - 1] \o segs[d]
       /\ FlattenSeq(segs) = F[deepest]
  BY <1>8, <1>9 DEF FlattenRun
<1> DEFINE Deep(m) == Depth(m.target)
           Good(d) ==
             /\ \A m : m \in ToSet(F[d]) <=> m \in ToSet(merged) /\ Deep(m) <= d
             /\ \A k, l \in DOMAIN F[d] : k < l =>
                  /\ Deep(F[d][k]) <= Deep(F[d][l])
                  /\ F[d][k].target # F[d][l].target
           P == {d \in 0..deepest : Good(d)}
<1>11. \A m \in ToSet(merged) : m \in RequestType /\ Deep(m) \in Nat \ {0} /\ Deep(m) <= deepest
  BY <1>5, <1>6 DEF ToSet
<1>12. \A k, l \in DOMAIN merged : k < l => merged[k].target # merged[l].target
  <2> SUFFICES ASSUME NEW k \in DOMAIN merged, NEW l \in DOMAIN merged, k < l
               PROVE  merged[k].target # merged[l].target
    OBVIOUS
  <2>1. k # l
    BY <1>3
  <2> QED BY <1>2, <2>1 DEF Merges
<1>13. 0 \in P
  <2>1. ToSet(F[0]) = {} /\ DOMAIN F[0] = {}
    BY <1>10 DEF ToSet
  <2>2. \A m \in ToSet(merged) : ~(Deep(m) <= 0)
    <3> HIDE DEF Deep
    <3> QED BY <1>11
  <2>3. 0 \in 0..deepest
    BY <1>6
  <2> HIDE DEF Deep
  <2> QED BY <2>1, <2>2, <2>3
<1>14. ASSUME NEW d \in 1..deepest, d - 1 \in P
       PROVE  d \in P
  <2> DEFINE f == F[d - 1]
             g == segs[d]
             h == F[d]
  <2>1. d \in Nat /\ d \in 0..deepest /\ d - 1 \in 0..deepest
    BY <1>6
  <2>2. f \in Seq(RequestType) /\ g \in Seq(RequestType) /\ h = f \o g
    BY <1>7, <1>10, <2>1
  <2>3. /\ \A m : m \in ToSet(f) <=> m \in ToSet(merged) /\ Deep(m) <= d - 1
        /\ \A k, l \in DOMAIN f : k < l =>
             Deep(f[k]) <= Deep(f[l]) /\ f[k].target # f[l].target
    BY <1>14
  <2>4. \A m : m \in ToSet(g) <=> m \in ToSet(merged) /\ Deep(m) = d
    BY <1>7
  <2>5. InOrder(g, merged)
    BY <1>7
  <2> HIDE DEF f, g, h, Deep
  <2>6. /\ Len(h) = Len(f) + Len(g) /\ Len(f) \in Nat /\ Len(g) \in Nat
        /\ \A k \in 1..Len(f) : h[k] = f[k]
        /\ \A k \in 1..Len(g) : h[Len(f) + k] = g[k]
        /\ DOMAIN f = 1..Len(f) /\ DOMAIN g = 1..Len(g) /\ DOMAIN h = 1..Len(h)
    BY <2>2
  <2>7. \A k \in DOMAIN h :
          \/ k \in DOMAIN f /\ h[k] = f[k]
          \/ k > Len(f) /\ k - Len(f) \in DOMAIN g /\ h[k] = g[k - Len(f)]
    <3> SUFFICES ASSUME NEW k \in DOMAIN h, ~(k \in DOMAIN f)
                 PROVE  k > Len(f) /\ k - Len(f) \in DOMAIN g /\ h[k] = g[k - Len(f)]
      BY <2>6
    <3>1. k \in Nat /\ k > Len(f) /\ k - Len(f) \in 1..Len(g) /\ Len(f) + (k - Len(f)) = k
      BY <2>6
    <3> QED BY <2>6, <3>1
  <2>8. ToSet(h) = ToSet(f) \cup ToSet(g)
    <3>1. ToSet(h) \subseteq ToSet(f) \cup ToSet(g)
      BY <2>7 DEF ToSet
    <3>2. ToSet(f) \subseteq ToSet(h)
      <4> SUFFICES ASSUME NEW k \in DOMAIN f PROVE \E l \in DOMAIN h : h[l] = f[k]
        BY DEF ToSet
      <4>1. k \in DOMAIN h
        BY <2>6
      <4> QED BY <2>6, <4>1
    <3>3. ToSet(g) \subseteq ToSet(h)
      <4> SUFFICES ASSUME NEW k \in DOMAIN g PROVE \E l \in DOMAIN h : h[l] = g[k]
        BY DEF ToSet
      <4>1. Len(f) + k \in DOMAIN h
        BY <2>6
      <4> QED BY <2>6, <4>1
    <3> QED BY <3>1, <3>2, <3>3
  <2>9. \A m : m \in ToSet(h) <=> m \in ToSet(merged) /\ Deep(m) <= d
    <3> SUFFICES ASSUME NEW m \in ToSet(merged)
                 PROVE  Deep(m) <= d <=> Deep(m) <= d - 1 \/ Deep(m) = d
      BY <2>3, <2>4, <2>8
    <3>1. Deep(m) \in Nat
      BY <1>11
    <3> QED BY <2>1, <3>1
  <2>10. ASSUME NEW k \in DOMAIN h, NEW l \in DOMAIN h, k < l
         PROVE  Deep(h[k]) <= Deep(h[l]) /\ h[k].target # h[l].target
    <3>1. k \in Nat /\ l \in Nat
      BY <2>6
    <3>2. CASE k \in DOMAIN f /\ l \in DOMAIN f
      BY <2>3, <2>6, <2>10, <3>2
    <3>3. CASE k \in DOMAIN f /\ l \notin DOMAIN f
      <4>1. h[k] = f[k] /\ h[k] \in ToSet(f)
        BY <2>6, <3>3 DEF ToSet
      <4>2. h[l] \in ToSet(g)
        BY <2>7, <3>3 DEF ToSet
      <4>3. Deep(h[k]) \in Nat /\ Deep(h[k]) <= d - 1 /\ Deep(h[l]) = d
        BY <1>11, <2>3, <2>4, <4>1, <4>2
      <4>4. Deep(h[k]) <= Deep(h[l]) /\ Deep(h[k]) # Deep(h[l])
        BY <2>1, <4>3
      <4> QED BY <4>4 DEF Deep
    <3>4. CASE k \notin DOMAIN f
      <4>1. k > Len(f) /\ k - Len(f) \in DOMAIN g /\ h[k] = g[k - Len(f)]
        BY <2>7, <3>4
      <4>2. l \notin DOMAIN f
        BY <2>6, <2>10, <3>1, <4>1
      <4>3. l - Len(f) \in DOMAIN g /\ h[l] = g[l - Len(f)]
        BY <2>7, <4>2
      <4>4. k - Len(f) < l - Len(f)
        BY <2>6, <2>10, <3>1
      <4>5. PICK i \in DOMAIN merged, j \in DOMAIN merged :
              i < j /\ h[k] = merged[i] /\ h[l] = merged[j]
        BY <2>5, <4>1, <4>3, <4>4 DEF InOrder
      <4>6. h[k].target # h[l].target
        BY <1>12, <4>5
      <4>7. h[k] \in ToSet(g) /\ h[l] \in ToSet(g)
        BY <4>1, <4>3 DEF ToSet
      <4>8. Deep(h[k]) = d /\ Deep(h[l]) = d
        BY <2>4, <4>7
      <4>9. Deep(h[k]) <= Deep(h[l])
        BY <2>1, <4>8
      <4> QED BY <4>6, <4>9
    <3> QED BY <3>2, <3>3, <3>4
  <2>11. Good(d)
    BY <2>9, <2>10 DEF h
  <2> QED BY <2>1, <2>11
<1>15. deepest \in P
  <2> HIDE DEF P
  <2>1. P \in SUBSET (0..deepest)
    BY DEF P
  <2>2. P = 0..deepest
    BY <1>6, <1>13, <1>14, <2>1, RangeInduction
  <2> QED BY <1>6, <2>2
<1> DEFINE plan == F[deepest]
<1>16. /\ plan \in Seq(RequestType)
       /\ \A m : m \in ToSet(plan) <=> m \in ToSet(merged)
       /\ \A k, l \in DOMAIN plan : k < l =>
            Depth(plan[k].target) <= Depth(plan[l].target) /\ plan[k].target # plan[l].target
  <2>1. plan \in Seq(RequestType)
    BY <1>6, <1>10
  <2>2. Good(deepest)
    BY <1>15
  <2>3. \A m \in ToSet(merged) : Deep(m) <= deepest
    BY <1>11
  <2> QED BY <2>1, <2>2, <2>3
<1> HIDE DEF plan, Deep
<1>17. Sorted(plan)
  BY <1>16 DEF Sorted
<1>18. Merges(plan, mounts)
  <2>1. ASSUME NEW k \in DOMAIN plan, NEW l \in DOMAIN plan, k # l
        PROVE  plan[k].target # plan[l].target
    <3>1. k \in Nat /\ l \in Nat
      BY <1>16
    <3> QED BY <1>16, <2>1, <3>1
  <2>2. ASSUME NEW i \in DOMAIN mounts
        PROVE  \E k \in DOMAIN plan : plan[k].target = mounts[i].target
    <3>1. PICK x \in DOMAIN merged : merged[x].target = mounts[i].target
      BY <1>2 DEF Merges
    <3>2. merged[x] \in ToSet(plan)
      BY <1>16 DEF ToSet
    <3> QED BY <3>1, <3>2 DEF ToSet
  <2>3. \A k \in DOMAIN plan : \E x \in DOMAIN merged : plan[k] = merged[x]
    <3> SUFFICES ASSUME NEW k \in DOMAIN plan PROVE \E x \in DOMAIN merged : plan[k] = merged[x]
      OBVIOUS
    <3>1. plan[k] \in ToSet(merged)
      BY <1>16 DEF ToSet
    <3> QED BY <3>1 DEF ToSet
  <2>4. \A x \in DOMAIN merged :
          /\ \E i \in DOMAIN mounts : mounts[i].target = merged[x].target
          /\ merged[x].readOnly <=> \A j \in DOMAIN mounts :
               mounts[j].target = merged[x].target => mounts[j].readOnly
          /\ merged[x].file <=> \E j \in DOMAIN mounts :
               mounts[j].target = merged[x].target /\ mounts[j].file
    BY <1>2 DEF Merges
  <2>5. ASSUME NEW k \in DOMAIN plan
        PROVE  /\ \E i \in DOMAIN mounts : mounts[i].target = plan[k].target
               /\ plan[k].readOnly <=> \A j \in DOMAIN mounts :
                    mounts[j].target = plan[k].target => mounts[j].readOnly
               /\ plan[k].file <=> \E j \in DOMAIN mounts :
                    mounts[j].target = plan[k].target /\ mounts[j].file
    <3>1. PICK x \in DOMAIN merged : plan[k] = merged[x]
      BY <2>3
    <3> QED BY <2>4, <3>1
  <2> QED BY <1>16, <2>1, <2>2, <2>5 DEF Merges
<1>19. compactSandboxMounts(mounts) = plan
  BY <1>1, <1>10 DEF plan
<1> QED BY <1>17, <1>18, <1>19

----------------------------------------------------------------------------
(* Mount tables *)

MountType == [at : Path, kind : {"root", "host", "proc"}, readOnly : BOOLEAN]

\* A path is within the root and within itself, and is no shorter than what it
\* is in.
LEMMA WithinFacts ==
  ASSUME NEW p \in Path
  PROVE  /\ Within(p, <<>>) /\ Within(p, p)
         /\ \A q \in Path : Within(<<>>, q) => q = <<>>
         /\ \A q \in Path : Within(p, q) => Len(q) <= Len(p)
         /\ \A q \in Path : Within(p, q) /\ Len(p) <= Len(q) => p = q
<1> USE DEF Path
<1>1. Within(p, <<>>)
  BY DEF Within, IsPrefix
<1>2. Within(p, p)
  BY DEF Within, IsPrefix
<1>3. ASSUME NEW q \in Path, Within(p, q) PROVE Len(q) <= Len(p)
  BY <1>3 DEF Within, IsPrefix
<1>4. ASSUME NEW q \in Path, Within(<<>>, q) PROVE q = <<>>
  BY <1>4 DEF Within, IsPrefix
<1>5. ASSUME NEW q \in Path, Within(p, q), Len(p) <= Len(q) PROVE p = q
  <2>1. Len(q) <= Len(p) /\ SubSeq(q, 1, Len(q)) = SubSeq(p, 1, Len(q))
    BY <1>5 DEF Within, IsPrefix
  <2>2. Len(p) = Len(q)
    BY <1>5, <2>1
  <2>3. SubSeq(q, 1, Len(q)) = q /\ SubSeq(p, 1, Len(p)) = p
    BY SubSeqFull
  <2> QED BY <2>1, <2>2, <2>3
<1> QED BY <1>1, <1>2, <1>3, <1>4, <1>5

\* A lookup ends in the last mount that covers the path.
LEMMA CoveringFacts ==
  ASSUME NEW t \in Seq(MountType), NEW p \in Path
  PROVE  /\ Covering(t, p) \in 0..Len(t)
         /\ Covering(t, p) # 0 => Within(p, t[Covering(t, p)].at)
         /\ \A i \in 1..Len(t) : Within(p, t[i].at) => i <= Covering(t, p) /\ Covering(t, p) # 0
<1> DEFINE I == {i \in 1..Len(t) : Within(p, t[i].at)}
<1>1. Covering(t, p) = IF I # {} THEN Max(I) ELSE 0
  BY DEF Covering, SelectLastInSeq
<1>2. Len(t) \in Nat /\ I \in SUBSET (0..Len(t))
  OBVIOUS
<1>3. CASE I = {}
  <2>1. Covering(t, p) = 0
    BY <1>1, <1>3
  <2> QED BY <1>2, <1>3, <2>1
<1>4. CASE I # {}
  <2>1. Covering(t, p) = Max(I)
    BY <1>1, <1>4
  <2>2. Max(I) \in I /\ \A y \in I : y <= Max(I)
    <3> HIDE DEF I
    <3> QED BY <1>2, <1>4, MaxFacts
  <2>3. Covering(t, p) \in 1..Len(t) /\ Within(p, t[Covering(t, p)].at)
    BY <2>1, <2>2
  <2>4. ASSUME NEW i \in 1..Len(t), Within(p, t[i].at) PROVE i <= Covering(t, p)
    BY <2>1, <2>2, <2>4
  <2> QED BY <2>3, <2>4
<1> QED BY <1>3, <1>4

\* A sequence of nothing is empty.
LEMMA NothingIn ==
  ASSUME NEW T, NEW s \in Seq(T), ToSet(s) = {}
  PROVE  s = <<>>
<1> SUFFICES ASSUME s # <<>> PROVE FALSE
  OBVIOUS
<1>1. Len(s) \in Nat /\ Len(s) # 0 /\ DOMAIN s = 1..Len(s)
  OBVIOUS
<1>2. 1 \in DOMAIN s
  BY <1>1
<1>3. s[1] \in ToSet(s)
  BY <1>2 DEF ToSet
<1> QED BY <1>3

\* An element of a sequence has a place.
LEMMA PlaceOf ==
  ASSUME NEW T, NEW s \in Seq(T)
  PROVE  /\ \A x \in ToSet(s) : x \in T /\ \E k \in 1..Len(s) : x = s[k]
         /\ \A k \in 1..Len(s) : s[k] \in ToSet(s)
<1>1. DOMAIN s = 1..Len(s)
  OBVIOUS
<1>2. ASSUME NEW x \in ToSet(s) PROVE x \in T /\ \E k \in 1..Len(s) : x = s[k]
  <2>1. PICK k \in DOMAIN s : x = s[k]
    BY <1>2 DEF ToSet
  <2> QED BY <1>1, <2>1
<1>3. ASSUME NEW k \in 1..Len(s) PROVE s[k] \in ToSet(s)
  BY <1>1 DEF ToSet
<1> QED BY <1>2, <1>3

\* Unmounting what was mounted last leaves the table before.
LEMMA UnmountLast ==
  ASSUME NEW t \in Seq(MountType), t # <<>>
  PROVE  Unmounted(t, t[Len(t)].at) = SubSeq(t, 1, Len(t) - 1)
<1> DEFINE n == Len(t)
           p == t[n].at
           i == Covering(t, p)
           rest == SubSeq(t, n + 1, n)
           S == {m \in ToSet(t) : ~Within(m.at, p)}
<1>1. n \in Nat /\ n \in 1..n /\ t[n] \in MountType
  OBVIOUS
<1>2. p \in Path
  BY <1>1 DEF MountType
<1>3. i = n
  <2> HIDE DEF p
  <2>1. Within(p, t[n].at)
    BY <1>2, WithinFacts DEF p
  <2> QED BY <1>1, <1>2, <2>1, CoveringFacts
<1>4. rest = <<>> /\ rest \in Seq(MountType)
  BY <1>1
<1>5. Keep(rest, S) = <<>>
  <2> HIDE DEF rest, S
  <2>1. ToSet(rest) = {}
    BY <1>4 DEF ToSet
  <2>2. Keep(rest, S) \in Seq(MountType) /\ ToSet(Keep(rest, S)) = ToSet(rest) \cap S
    BY <1>4, KeepFacts
  <2>3. ToSet(Keep(rest, S)) = {}
    BY <2>1, <2>2
  <2> QED BY <2>2, <2>3, NothingIn
<1>6. Unmounted(t, p) = SubSeq(t, 1, n - 1) \o Keep(rest, S)
  <2>1. i # 0 /\ t[i].at = p
    BY <1>1, <1>3
  <2>2. Unmounted(t, p) = SubSeq(t, 1, i - 1) \o Keep(SubSeq(t, i + 1, n), S)
    BY <2>1 DEF Unmounted
  <2> HIDE DEF i, S, p
  <2> QED BY <1>3, <2>2
<1>7. SubSeq(t, 1, n - 1) \in Seq(MountType)
  BY <1>1
<1> HIDE DEF rest, S, p
<1>8. SubSeq(t, 1, n - 1) \o Keep(rest, S) = SubSeq(t, 1, n - 1)
  BY <1>5, <1>7, ConcatEmptySeq
<1> QED BY <1>6, <1>8 DEF p

\* The only mount at the root is the first.
Rooted(t) ==
  /\ t \in Seq(MountType)
  /\ t # <<>> => t[1].at = <<>>
  /\ \A i \in 1..Len(t) : i # 1 => t[i].at # <<>>

\* So it stays, whatever is unmounted; and without the root nothing is left.
LEMMA UnmountRooted ==
  ASSUME NEW t, Rooted(t), NEW p \in Path
  PROVE  /\ Rooted(Unmounted(t, p))
         /\ p = <<>> => Unmounted(t, p) = <<>>
<1> DEFINE n == Len(t)
           i == Covering(t, p)
           rest == SubSeq(t, i + 1, n)
           S == {m \in ToSet(t) : ~Within(m.at, p)}
           kept == Keep(rest, S)
           front == SubSeq(t, 1, i - 1)
<1>1. t \in Seq(MountType) /\ n \in Nat /\ DOMAIN t = 1..n
  BY DEF Rooted
<1>2. i \in 0..n /\ (i # 0 => Within(p, t[i].at))
      /\ \A k \in 1..n : Within(p, t[k].at) => k <= i /\ i # 0
  BY <1>1, CoveringFacts
<1>3. CASE i = 0 \/ t[i].at # p
  <2>1. Unmounted(t, p) = t
    BY <1>3 DEF Unmounted
  <2>2. ASSUME p = <<>> PROVE t = <<>>
    <3> SUFFICES ASSUME t # <<>> PROVE FALSE
      OBVIOUS
    <3>1. 1 \in 1..n /\ t[1].at = <<>>
      BY <1>1 DEF Rooted
    <3>2. Within(p, t[1].at)
      BY <3>1, WithinFacts
    <3>3. i # 0
      BY <1>2, <3>1, <3>2
    <3>4. t[i] \in MountType /\ Within(<<>>, t[i].at)
      BY <1>1, <1>2, <2>2, <3>3
    <3>5. t[i].at = <<>>
      <4>1. t[i].at \in Path
        BY <3>4 DEF MountType
      <4> QED BY <3>4, <4>1, WithinFacts
    <3> QED BY <1>3, <2>2, <3>3, <3>5
  <2> QED BY <2>1, <2>2
<1>4. CASE i # 0 /\ t[i].at = p
  <2>1. Unmounted(t, p) = front \o kept
    BY <1>4 DEF Unmounted
  <2>2. i \in 1..n
    BY <1>1, <1>2, <1>4
  <2>3. /\ front \in Seq(MountType) /\ Len(front) = i - 1
        /\ \A k \in 1..(i - 1) : front[k] = t[k]
    BY <1>1, <2>2
  <2>4. /\ rest \in Seq(MountType)
        /\ \A k \in 1..Len(rest) : k + i \in 1..n /\ rest[k] = t[k + i]
    <3>1. rest \in Seq(MountType) /\ Len(rest) = n - i
      BY <1>1, <2>2
    <3>2. \A k \in 1..(n - i) : k + i \in 1..n /\ rest[k] = t[k + i]
      BY <1>1, <2>2
    <3> HIDE DEF rest
    <3> QED BY <3>1, <3>2
  <2>5. kept \in Seq(MountType) /\ ToSet(kept) = ToSet(rest) \cap S
    <3> HIDE DEF rest, S
    <3> QED BY <2>4, KeepFacts
  <2>6. \A m \in ToSet(rest) : \E k \in 1..n : k # 1 /\ m = t[k]
    <3> HIDE DEF rest
    <3> SUFFICES ASSUME NEW m \in ToSet(rest)
                 PROVE  \E j \in 1..n : j # 1 /\ m = t[j]
      OBVIOUS
    <3> PICK k \in 1..Len(rest) : m = rest[k]
      BY <2>4, PlaceOf
    <3>1. k + i \in 1..n /\ rest[k] = t[k + i] /\ k + i # 1
      BY <2>2, <2>4
    <3> QED BY <3>1
  <2>7. CASE i = 1
    <3>1. p = <<>>
      BY <1>1, <1>4, <2>2, <2>7 DEF Rooted
    <3>2. S = {}
      <4> SUFFICES ASSUME NEW m \in ToSet(t) PROVE Within(m.at, <<>>)
        BY <3>1
      <4>1. m \in MountType
        BY <1>1, PlaceOf
      <4>2. m.at \in Path
        BY <4>1 DEF MountType
      <4> QED BY <4>2, WithinFacts
    <3>3. kept = <<>>
      <4>1. ToSet(kept) = {}
        BY <2>5, <3>2
      <4> HIDE DEF kept
      <4> QED BY <2>5, <4>1, NothingIn
    <3>4. front = <<>>
      BY <2>3, <2>7
    <3>5. Unmounted(t, p) = <<>>
      BY <2>1, <3>3, <3>4
    <3>6. Rooted(<<>>)
      BY DEF Rooted
    <3> QED BY <3>5, <3>6
  <2>8. CASE i # 1
    <3> DEFINE u == front \o kept
    <3>1. p # <<>>
      BY <1>4, <2>2, <2>8 DEF Rooted
    <3> HIDE DEF front, kept
    <3>2. u \in Seq(MountType) /\ Len(u) = (i - 1) + Len(kept) /\ Len(kept) \in Nat
      <4>1. Len(kept) \in Nat
        BY <2>5
      <4>2. u \in Seq(MountType) /\ Len(u) = Len(front) + Len(kept)
        BY <2>3, <2>5
      <4> QED BY <2>3, <4>1, <4>2
    <3>3. /\ \A k \in 1..(i - 1) : u[k] = t[k]
          /\ \A k \in 1..Len(kept) : u[(i - 1) + k] = kept[k]
      BY <2>3, <2>5
    <3> HIDE DEF u
    <3>4. u[1].at = <<>>
      <4>1. 1 \in 1..(i - 1) /\ 1 \in 1..n
        BY <1>1, <2>2, <2>8
      <4>2. t # <<>>
        BY <1>1, <4>1
      <4> QED BY <3>3, <4>1, <4>2 DEF Rooted
    <3>5. ASSUME NEW k \in 1..Len(u), k # 1
          PROVE  u[k].at # <<>>
      <4>1. CASE k \in 1..(i - 1)
        <5>1. k \in 1..n
          BY <1>1, <2>2, <4>1
        <5> QED BY <3>3, <3>5, <4>1, <5>1 DEF Rooted
      <4>2. CASE k \notin 1..(i - 1)
        <5>1. k - (i - 1) \in 1..Len(kept) /\ (i - 1) + (k - (i - 1)) = k
          BY <2>2, <3>2, <4>2
        <5>2. u[k] = kept[k - (i - 1)]
          BY <3>3, <5>1
        <5>3. u[k] \in ToSet(rest)
          <6>1. u[k] \in ToSet(kept)
            BY <2>5, <5>1, <5>2, PlaceOf
          <6> QED BY <2>5, <6>1
        <5>4. PICK j \in 1..n : j # 1 /\ u[k] = t[j]
          BY <2>6, <5>3
        <5> QED BY <5>4 DEF Rooted
      <4> QED BY <4>1, <4>2
    <3>6. Rooted(u)
      BY <3>2, <3>4, <3>5 DEF Rooted
    <3> QED BY <2>1, <3>1, <3>6 DEF u
  <2> QED BY <2>2, <2>7, <2>8
<1> QED BY <1>3, <1>4

\* The beginning of a sequence.
LEMMA PrefixFacts ==
  ASSUME NEW E, NEW s \in Seq(E), NEW n \in 0..Len(s)
  PROVE  /\ SubSeq(s, 1, n) \in Seq(E) /\ Len(SubSeq(s, 1, n)) = n
         /\ \A i \in 1..n : SubSeq(s, 1, n)[i] = s[i]
OBVIOUS

\* An unmount leaves a mount table.
LEMMA UnmountedType ==
  ASSUME NEW t \in Seq(MountType), NEW p \in Path
  PROVE  Unmounted(t, p) \in Seq(MountType)
<1> DEFINE i == Covering(t, p)
           rest == SubSeq(t, i + 1, Len(t))
           S == {m \in ToSet(t) : ~Within(m.at, p)}
           front == SubSeq(t, 1, i - 1)
<1>1. i \in 0..Len(t)
  BY CoveringFacts
<1>2. CASE i = 0 \/ t[i].at # p
  BY <1>2 DEF Unmounted
<1>3. CASE i # 0 /\ t[i].at = p
  <2>1. Unmounted(t, p) = front \o Keep(rest, S)
    BY <1>3 DEF Unmounted
  <2>2. i \in 1..Len(t)
    BY <1>1, <1>3
  <2> HIDE DEF i, S
  <2>3. front \in Seq(MountType) /\ rest \in Seq(MountType)
    BY <2>2
  <2> HIDE DEF front, rest
  <2>4. Keep(rest, S) \in Seq(MountType)
    BY <2>3, KeepFacts
  <2> QED BY <2>1, <2>3, <2>4, ConcatProperties
<1> QED BY <1>2, <1>3

\* What is left after k unmounts.
UnmountRun(F, t, ps) ==
  /\ F \in [0..Len(ps) -> Seq(MountType)]
  /\ F[0] = t
  /\ \A k \in 1..Len(ps) : F[k] = Unmounted(F[k - 1], ps[k])
  /\ UnmountAll(t, ps) = F[Len(ps)]

\* UnmountAll is computed by a run over the paths.
LEMMA UnmountRecursion ==
  ASSUME NEW t \in Seq(MountType), NEW ps \in Seq(Path)
  PROVE  \E F : UnmountRun(F, t, ps)
<1> DEFINE n == Len(ps)
           V == Seq(MountType)
           G == [k \in 1..n |-> [v \in V |-> Unmounted(v, ps[k])]]
           Body(F) == [k \in 0..n |-> IF k = 0 THEN t ELSE Unmounted(F[k - 1], ps[k])]
           K == CHOOSE F : F = Body(F)
<1>0. n \in Nat /\ t \in V /\ \A k \in 1..n : ps[k] \in Path
  OBVIOUS
<1>1. \A v \in V : \A k \in 1..n : Unmounted(v, ps[k]) \in V
  BY <1>0, UnmountedType
<1>2. G \in [1..n -> [V -> V]]
  <2> HIDE DEF V, n
  <2> QED BY <1>1
<1>20. PICK F : RecursionRun(F, V, t, n, G)
  <2> HIDE DEF G, V, n
  <2> QED BY <1>0, <1>2, Recursion
<1>3. F \in [0..n -> V] /\ F[0] = t /\ \A k \in 1..n : F[k] = G[k][F[k - 1]]
  <2> HIDE DEF G, V, n
  <2> QED BY <1>20 DEF RecursionRun
<1>4. \A k \in 1..n : F[k] = Unmounted(F[k - 1], ps[k])
  <2> SUFFICES ASSUME NEW k \in 1..n PROVE F[k] = Unmounted(F[k - 1], ps[k])
    OBVIOUS
  <2>1. k - 1 \in 0..n /\ F[k - 1] \in V
    <3>1. k - 1 \in 0..n
      BY <1>0
    <3> HIDE DEF V, n
    <3> QED BY <1>3, <3>1
  <2>3. G[k][F[k - 1]] = Unmounted(F[k - 1], ps[k])
    <3> HIDE DEF V, n
    <3> QED BY <2>1
  <2> QED BY <1>3, <2>3
<1>5. F = Body(F)
  <2>1. \A k \in 0..n : F[k] = Body(F)[k]
    <3> SUFFICES ASSUME NEW k \in 0..n PROVE F[k] = Body(F)[k]
      OBVIOUS
    <3>1. CASE k = 0
      BY <1>3, <3>1
    <3>2. CASE k # 0
      <4>1. k \in 1..n
        BY <1>0, <3>2
      <4> QED BY <1>4, <3>2, <4>1
    <3> QED BY <3>1, <3>2
  <2>2. Body(F) = [k \in 0..n |-> Body(F)[k]]
    OBVIOUS
  <2>3. F = [k \in 0..n |-> F[k]]
    <3> HIDE DEF V, n
    <3> QED BY <1>3
  <2> HIDE DEF Body
  <2> QED BY <2>1, <2>2, <2>3
<1>6. K = Body(K)
  <2> HIDE DEF Body
  <2> QED BY <1>5
<1>7. UnmountAll(t, ps) = K[n]
  BY DEF UnmountAll
<1> HIDE DEF K
<1>8. K[0] = t /\ \A k \in 1..n : K[k] = Unmounted(K[k - 1], ps[k])
  <2>1. K[0] = t
    BY <1>0, <1>6
  <2>2. ASSUME NEW k \in 1..n PROVE K[k] = Unmounted(K[k - 1], ps[k])
    <3>1. k \in 0..n /\ k # 0
      OBVIOUS
    <3> QED BY <1>6, <3>1
  <2> QED BY <2>1, <2>2
<1>9. K \in [0..n -> V]
  <2> DEFINE P == {k \in 0..n : K[k] \in V}
  <2>1. 0 \in P
    <3>1. 0 \in 0..n
      BY <1>0
    <3> HIDE DEF V
    <3> QED BY <1>0, <1>8, <3>1
  <2>2. ASSUME NEW k \in 1..n, k - 1 \in P PROVE k \in P
    <3> HIDE DEF V
    <3>1. Unmounted(K[k - 1], ps[k]) \in V
      BY <1>1, <2>2
    <3>2. k \in 0..n
      OBVIOUS
    <3> QED BY <1>8, <3>1, <3>2
  <2>3. P = 0..n
    <3> HIDE DEF P, n
    <3>1. P \in SUBSET (0..n)
      BY DEF P
    <3> QED BY <1>0, <2>1, <2>2, <3>1, RangeInduction
  <2>4. K = [k \in 0..n |-> K[k]]
    BY <1>6
  <2> QED BY <2>3, <2>4
<1>10. UnmountRun(K, t, ps)
  BY <1>7, <1>8, <1>9 DEF UnmountRun
<1> QED BY <1>10

\* Unmounts leave a mount table.
LEMMA UnmountAllType ==
  ASSUME NEW t \in Seq(MountType), NEW ps \in Seq(Path)
  PROVE  UnmountAll(t, ps) \in Seq(MountType)
<1>1. PICK F : UnmountRun(F, t, ps)
  BY UnmountRecursion
<1>2. Len(ps) \in 0..Len(ps)
  OBVIOUS
<1> QED BY <1>1, <1>2 DEF UnmountRun

\* Unmounting the root at the end leaves nothing, whatever went before.
LEMMA UnmountAllRoot ==
  ASSUME NEW t, Rooted(t), NEW ps \in Seq(Path), ps # <<>>, ps[Len(ps)] = <<>>
  PROVE  UnmountAll(t, ps) = <<>>
<1> DEFINE n == Len(ps)
<1>0. t \in Seq(MountType)
  BY DEF Rooted
<1>1. PICK F : UnmountRun(F, t, ps)
  BY <1>0, UnmountRecursion
<1>2. /\ n \in Nat /\ n \in 1..n /\ n - 1 \in 0..n
      /\ \A k \in 1..n : ps[k] \in Path
  OBVIOUS
<1>3. /\ F[0] = t
      /\ \A k \in 1..n : F[k] = Unmounted(F[k - 1], ps[k])
      /\ UnmountAll(t, ps) = F[n]
  BY <1>1 DEF UnmountRun
<1> DEFINE P == {k \in 0..n : Rooted(F[k])}
<1>4. 0 \in P
  BY <1>2, <1>3
<1>5. ASSUME NEW k \in 1..n, k - 1 \in P PROVE k \in P
  <2>1. Rooted(F[k - 1]) /\ ps[k] \in Path /\ k \in 0..n
    BY <1>2, <1>5
  <2>2. Rooted(Unmounted(F[k - 1], ps[k]))
    BY <2>1, UnmountRooted
  <2> QED BY <1>3, <2>1, <2>2
<1>6. P = 0..n
  <2> HIDE DEF P, n
  <2>1. P \in SUBSET (0..n)
    BY DEF P
  <2> QED BY <1>2, <1>4, <1>5, <2>1, RangeInduction
<1>7. Rooted(F[n - 1])
  BY <1>2, <1>6
<1>8. Unmounted(F[n - 1], <<>>) = <<>>
  <2>1. <<>> \in Path
    BY <1>2
  <2> QED BY <1>7, <2>1, UnmountRooted
<1> QED BY <1>2, <1>3, <1>8

\* Unmounting the last ones, the last first, leaves the ones before.
LEMMA UnmountAllBack ==
  ASSUME NEW t \in Seq(MountType), NEW ps \in Seq(Path), Len(ps) <= Len(t),
         \A k \in 1..Len(ps) : ps[k] = t[Len(t) + 1 - k].at
  PROVE  UnmountAll(t, ps) = SubSeq(t, 1, Len(t) - Len(ps))
<1> DEFINE n == Len(ps)
           m == Len(t)
<1>1. PICK F : UnmountRun(F, t, ps)
  BY UnmountRecursion
<1>2. n \in Nat /\ m \in Nat /\ n <= m
  OBVIOUS
<1>3. /\ F[0] = t
      /\ \A k \in 1..n : F[k] = Unmounted(F[k - 1], ps[k])
      /\ UnmountAll(t, ps) = F[n]
  BY <1>1 DEF UnmountRun
<1> DEFINE P == {k \in 0..n : F[k] = SubSeq(t, 1, m - k)}
<1>4. 0 \in P
  BY <1>2, <1>3, SubSeqFull
<1>5. ASSUME NEW k \in 1..n, k - 1 \in P PROVE k \in P
  <2> DEFINE u == SubSeq(t, 1, m - (k - 1))
  <2>1. k \in 0..n /\ k \in Nat /\ F[k - 1] = u
    BY <1>2, <1>5
  <2>2. m - (k - 1) \in 1..m /\ m + 1 - k = m - (k - 1)
    BY <1>2
  <2>3. /\ u \in Seq(MountType) /\ Len(u) = m - (k - 1)
        /\ \A i \in 1..(m - (k - 1)) : u[i] = t[i]
    BY <1>2, <2>2
  <2>4. SubSeq(u, 1, Len(u) - 1) = SubSeq(t, 1, m - k)
    <3>1. Len(u) - 1 = m - k /\ m - k \in 0..m
      BY <1>2, <2>1, <2>3
    <3> HIDE DEF u
    <3>6. m - k \in 0..Len(u)
      BY <1>2, <2>1, <2>3
    <3>2. /\ SubSeq(u, 1, m - k) \in Seq(MountType) /\ Len(SubSeq(u, 1, m - k)) = m - k
          /\ \A i \in 1..(m - k) : SubSeq(u, 1, m - k)[i] = u[i]
      BY <2>3, <3>6, PrefixFacts
    <3>3. /\ SubSeq(t, 1, m - k) \in Seq(MountType) /\ Len(SubSeq(t, 1, m - k)) = m - k
          /\ \A i \in 1..(m - k) : SubSeq(t, 1, m - k)[i] = t[i]
      BY <3>1, PrefixFacts
    <3>4. \A i \in 1..(m - k) : i \in 1..(m - (k - 1))
      BY <1>2, <2>1
    <3>5. \A i \in 1..(m - k) : SubSeq(u, 1, m - k)[i] = SubSeq(t, 1, m - k)[i]
      BY <2>3, <3>2, <3>3, <3>4
    <3> QED BY <3>1, <3>2, <3>3, <3>5, SeqEqual
  <2> HIDE DEF u
  <2>5. u # <<>> /\ u[Len(u)] = t[m - (k - 1)]
    BY <2>2, <2>3
  <2>6. ps[k] = u[Len(u)].at
    BY <2>2, <2>5
  <2>7. Unmounted(u, u[Len(u)].at) = SubSeq(u, 1, Len(u) - 1)
    BY <2>3, <2>5, UnmountLast
  <2> QED BY <1>3, <2>1, <2>4, <2>6, <2>7
<1>6. n \in P
  <2> HIDE DEF P
  <2>1. P \in SUBSET (0..n)
    BY DEF P
  <2>2. P = 0..n
    BY <1>2, <1>4, <1>5, <2>1, RangeInduction
  <2> QED BY <1>2, <2>2
<1> QED BY <1>3, <1>6

----------------------------------------------------------------------------
(* The requests of a configuration *)

\* A request is for a file when its target is one.
Requests == {r \in RequestType : r.file => r.target \in Files}

\* A request for a path, with or without proc.
LEMMA RequestIn ==
  ASSUME NEW p \in Path, NEW ro \in BOOLEAN
  PROVE  /\ Request(p, ro) \in Requests
         /\ [Request(p, ro) EXCEPT !.proc = TRUE] \in Requests
<1>1. (p \in Files) \in BOOLEAN
  OBVIOUS
<1>2. Request(p, ro) \in RequestType /\ Request(p, ro).target = p
      /\ (Request(p, ro).file <=> p \in Files)
  BY <1>1 DEF Request, RequestType
<1> DEFINE q == [Request(p, ro) EXCEPT !.proc = TRUE]
<1>3. q \in RequestType /\ q.target = p /\ (q.file <=> p \in Files)
  BY <1>1 DEF Request, RequestType
<1> HIDE DEF q
<1>4. Request(p, ro) \in Requests
  BY <1>2 DEF Requests
<1>5. q \in Requests
  BY <1>3 DEF Requests
<1> QED BY <1>4, <1>5 DEF q

\* Requests for several paths.
LEMMA RequestsIn ==
  ASSUME NEW ps \in Seq(Path), NEW ro \in BOOLEAN
  PROVE  [i \in DOMAIN ps |-> Request(ps[i], ro)] \in Seq(Requests)
<1>1. DOMAIN ps = 1..Len(ps) /\ Len(ps) \in Nat
  OBVIOUS
<1>2. ASSUME NEW i \in DOMAIN ps PROVE Request(ps[i], ro) \in Requests
  <2>1. ps[i] \in Path
    OBVIOUS
  <2> QED BY <2>1, RequestIn
<1> QED BY <1>1, <1>2

\* The directory of a path is a path.
LEMMA DirOfType ==
  ASSUME NEW p \in Path
  PROVE  DirOf(p) \in Path
<1>1. CASE p \in Files
  <2>1. p # <<>> /\ p \in Seq(STRING)
    BY <1>1, PathsAssumption DEF Path
  <2>2. Len(p) - 1 \in Nat /\ Len(p) - 1 <= Len(p)
    BY <2>1
  <2>3. SubSeq(p, 1, Len(p) - 1) \in Seq(STRING)
    BY <2>1, <2>2
  <2> QED BY <1>1, <2>3 DEF DirOf, Front, Path
<1>2. CASE p \notin Files
  BY <1>2 DEF DirOf
<1> QED BY <1>1, <1>2

\* The mounts that a configuration asks for are requests.
LEMMA RequestsOf ==
  ASSUME NEW c \in ConfigType
  PROVE  sandboxMounts(c) \in Seq(Requests)
<1> DEFINE ReadOnly(paths) == [i \in DOMAIN paths |-> Request(paths[i], TRUE)]
           Writable(paths) == [i \in DOMAIN paths |-> Request(paths[i], FALSE)]
           CoreDir(dir) == <<Request(dir, Within(dir, Store))>>
           core == DirOf(c.executable)
           resolved == DirOf(c.resolved)
           inner == [i \in DOMAIN c.writableDirs |-> DirOf(c.writableDirs[i])]
<1>1. /\ c.executable \in Path /\ c.resolved \in Path /\ c.readOnlyPaths \in Seq(Path)
      /\ c.workingDir \in Path /\ c.safePaths \in Seq(Path) /\ c.writableDirs \in Seq(Path)
  BY DEF ConfigType
<1>2. core \in Path /\ resolved \in Path
  BY <1>1, DirOfType
<1>3. inner \in Seq(Path)
  <2> DEFINE w == c.writableDirs
  <2>1. DOMAIN w = 1..Len(w) /\ Len(w) \in Nat /\ \A i \in DOMAIN w : w[i] \in Path
    BY <1>1
  <2> HIDE DEF w
  <2>2. \A i \in DOMAIN w : DirOf(w[i]) \in Path
    BY <2>1, DirOfType
  <2>3. [i \in DOMAIN w |-> DirOf(w[i])] \in Seq(Path)
    BY <2>1, <2>2
  <2> QED BY <2>3 DEF w
<1>4. \A ps \in Seq(Path) : ReadOnly(ps) \in Seq(Requests) /\ Writable(ps) \in Seq(Requests)
  BY RequestsIn
<1>5. \A p \in Path : CoreDir(p) \in Seq(Requests)
  <2> SUFFICES ASSUME NEW p \in Path PROVE CoreDir(p) \in Seq(Requests)
    OBVIOUS
  <2>1. Within(p, Store) \in BOOLEAN
    BY DEF Within, IsPrefix
  <2>2. Request(p, Within(p, Store)) \in Requests
    BY <2>1, RequestIn
  <2> QED BY <2>2
<1>6. \A p \in Path : <<p>> \in Seq(Path)
  OBVIOUS
<1> DEFINE s1 == ReadOnly(SystemDirs)
           s2 == Writable(<<Lock>>)
           s3 == CoreDir(core)
           s4 == IF resolved = core THEN <<>> ELSE CoreDir(resolved)
           s5 == ReadOnly(c.readOnlyPaths)
           s6 == IF c.workingDir = core THEN <<>> ELSE ReadOnly(<<c.workingDir>>)
           s7 == Writable(c.safePaths)
           s8 == Writable(inner)
           s9 == <<[Request(Proc, FALSE) EXCEPT !.proc = TRUE]>>
           s10 == Writable(Devices)
           rest == s1 \o s2 \o s3 \o s4 \o s5 \o s6 \o s7 \o s8 \o s9 \o s10
<1>7. sandboxMounts(c) = IF <<>> \in ToSet(c.safePaths) THEN <<Request(<<>>, FALSE)>> ELSE rest
  BY DEF sandboxMounts
<1> HIDE DEF ReadOnly, Writable, CoreDir, inner, core, resolved
<1>8. <<>> \in Seq(Requests)
  OBVIOUS
<1>9. s1 \in Seq(Requests) /\ s2 \in Seq(Requests) /\ s3 \in Seq(Requests)
  BY <1>2, <1>4, <1>5, <1>6, PathsAssumption
<1>10. s4 \in Seq(Requests) /\ s5 \in Seq(Requests)
  BY <1>1, <1>2, <1>4, <1>5, <1>8
<1>11. s6 \in Seq(Requests) /\ s7 \in Seq(Requests) /\ s8 \in Seq(Requests)
  BY <1>1, <1>3, <1>4, <1>6, <1>8
<1>12. s9 \in Seq(Requests) /\ s10 \in Seq(Requests)
  <2>1. [Request(Proc, FALSE) EXCEPT !.proc = TRUE] \in Requests
    BY RequestIn, PathsAssumption
  <2> DEFINE r == [Request(Proc, FALSE) EXCEPT !.proc = TRUE]
  <2>2. s9 \in Seq(Requests)
    <3> HIDE DEF r
    <3> QED BY <2>1 DEF r
  <2> QED BY <2>2, <1>4, PathsAssumption
<1> HIDE DEF s1, s2, s3, s4, s5, s6, s7, s8, s9, s10
<1>13. rest \in Seq(Requests)
  <2>1. s1 \o s2 \in Seq(Requests)
    BY <1>9, ConcatProperties
  <2>2. s1 \o s2 \o s3 \in Seq(Requests)
    BY <1>9, <2>1, ConcatProperties
  <2>3. s1 \o s2 \o s3 \o s4 \in Seq(Requests)
    BY <1>10, <2>2, ConcatProperties
  <2>4. s1 \o s2 \o s3 \o s4 \o s5 \in Seq(Requests)
    BY <1>10, <2>3, ConcatProperties
  <2>5. s1 \o s2 \o s3 \o s4 \o s5 \o s6 \in Seq(Requests)
    BY <1>11, <2>4, ConcatProperties
  <2>6. s1 \o s2 \o s3 \o s4 \o s5 \o s6 \o s7 \in Seq(Requests)
    BY <1>11, <2>5, ConcatProperties
  <2>7. s1 \o s2 \o s3 \o s4 \o s5 \o s6 \o s7 \o s8 \in Seq(Requests)
    BY <1>11, <2>6, ConcatProperties
  <2>8. s1 \o s2 \o s3 \o s4 \o s5 \o s6 \o s7 \o s8 \o s9 \in Seq(Requests)
    BY <1>12, <2>7, ConcatProperties
  <2> QED BY <1>12, <2>8, ConcatProperties
<1>14. <<Request(<<>>, FALSE)>> \in Seq(Requests)
  <2> DEFINE r == Request(<<>>, FALSE)
  <2>1. <<>> \in Path
    BY DEF Path
  <2>2. r \in Requests
    BY <2>1, RequestIn
  <2> HIDE DEF r
  <2>3. <<r>> \in Seq(Requests)
    BY <2>2
  <2> QED BY <2>3 DEF r
<1> HIDE DEF rest
<1> QED BY <1>7, <1>13, <1>14

\* What the service may tell a helper.
Configs == {s.conf : s \in Sessions} \cup {ProbeConfig}

Plan(c) == compactSandboxMounts(sandboxMounts(c))

\* The plan: it has one mount for each target, the deeper ones later; and
\* either all of them are in the root or there is only the root itself.
LEMMA PlanFacts ==
  ASSUME NEW c \in Configs
  PROVE  /\ Merges(Plan(c), sandboxMounts(c))
         /\ Sorted(Plan(c))
         /\ \/ \A k \in DOMAIN Plan(c) : Plan(c)[k].target # <<>>
            \/ \A k \in DOMAIN Plan(c) : Plan(c)[k].target = <<>> /\ ~Plan(c)[k].file
<1> DEFINE asked == sandboxMounts(c)
           p == Plan(c)
<1>1. c \in ConfigType
  BY SessionsAssumption DEF Configs
<1>2. asked \in Seq(Requests)
  BY <1>1, RequestsOf
<1>3. \A i \in DOMAIN asked : asked[i] \in Requests
  BY <1>2
<1>4. asked \in Seq(RequestType)
  <2>1. \A r \in Requests : r \in RequestType
    BY DEF Requests
  <2> HIDE DEF asked
  <2>2. DOMAIN asked = 1..Len(asked) /\ Len(asked) \in Nat /\ asked = [i \in DOMAIN asked |-> asked[i]]
    BY <1>2
  <2>3. \A i \in 1..Len(asked) : asked[i] \in RequestType
    BY <1>3, <2>1, <2>2
  <2> QED BY <2>2, <2>3
<1> HIDE DEF asked
<1>5. Merges(p, asked) /\ Sorted(p)
  BY <1>4, CompactFacts DEF Plan, asked
<1> HIDE DEF p
<1>6. \A k \in DOMAIN p : \E i \in DOMAIN asked : asked[i].target = p[k].target
  BY <1>5 DEF Merges
<1>7. CASE <<>> \in ToSet(c.safePaths)
  <2>1. asked = <<Request(<<>>, FALSE)>>
    BY <1>7 DEF asked, sandboxMounts
  <2>2. \A i \in DOMAIN asked : asked[i].target = <<>>
    BY <2>1 DEF Request
  <2>3. \A i \in DOMAIN asked : ~asked[i].file
    BY <1>3, <2>2, PathsAssumption DEF Requests
  <2>4. \A k \in DOMAIN p : p[k].file => \E j \in DOMAIN asked : asked[j].file
    BY <1>5 DEF Merges
  <2>5. \A k \in DOMAIN p : p[k].target = <<>> /\ ~p[k].file
    BY <1>6, <2>2, <2>3, <2>4
  <2> QED BY <1>5, <2>5 DEF p, asked
<1>8. CASE <<>> \notin ToSet(c.safePaths)
  <2>1. \A i \in DOMAIN asked : asked[i].target # <<>>
    BY <1>8, SessionsAssumption DEF Configs, asked
  <2>2. \A k \in DOMAIN p : p[k].target # <<>>
    BY <1>6, <2>1
  <2> QED BY <1>5, <2>2 DEF p, asked
<1> QED BY <1>7, <1>8

\* A sequence read backwards.
LEMMA ReverseFacts ==
  ASSUME NEW E, NEW s \in Seq(E)
  PROVE  /\ Reverse(s) \in Seq(E) /\ Len(Reverse(s)) = Len(s)
         /\ \A k \in 1..Len(s) : Reverse(s)[k] = s[Len(s) + 1 - k]
         /\ ToSet(Reverse(s)) = ToSet(s)
<1>1. Len(s) \in Nat /\ DOMAIN s = 1..Len(s) /\ \A k \in 1..Len(s) : Len(s) + 1 - k \in 1..Len(s)
  OBVIOUS
<1>2. Reverse(s) = [k \in 1..Len(s) |-> s[(Len(s) - k) + 1]]
  BY DEF Reverse
<1>3. \A k \in 1..Len(s) : (Len(s) - k) + 1 = Len(s) + 1 - k
  BY <1>1
<1>4. /\ Reverse(s) \in Seq(E) /\ Len(Reverse(s)) = Len(s) /\ DOMAIN Reverse(s) = 1..Len(s)
      /\ \A k \in 1..Len(s) : Reverse(s)[k] = s[Len(s) + 1 - k]
  BY <1>1, <1>2, <1>3
<1>5. ToSet(Reverse(s)) \subseteq ToSet(s)
  BY <1>1, <1>4 DEF ToSet
<1>6. ToSet(s) \subseteq ToSet(Reverse(s))
  <2> SUFFICES ASSUME NEW x \in ToSet(s) PROVE x \in ToSet(Reverse(s))
    OBVIOUS
  <2> PICK k \in 1..Len(s) : x = s[k]
    BY PlaceOf
  <2>1. Len(s) + 1 - k \in 1..Len(s) /\ Len(s) + 1 - (Len(s) + 1 - k) = k
    BY <1>1
  <2>2. Reverse(s)[Len(s) + 1 - k] = s[k]
    BY <1>4, <2>1
  <2> QED BY <1>4, <2>1, <2>2, PlaceOf
<1> QED BY <1>4, <1>5, <1>6

----------------------------------------------------------------------------
(* The inductive invariant of Accounted. *)

HookType ==
  [open : BOOLEAN, loop : {"none", "serve"}, delivered : BOOLEAN,
   first : {"none", "ready", "bad"}, notes : 0..NotifyCap,
   next : {"none", "ready", "bad"}]

CommandType ==
  [kind : {"none", "core", "helper", "sandbox"}, root : Dirs \cup {None},
   fallback : BOOLEAN, for : {"core", "probe"}]

\* The places of a helper that has a root, and of any live process.
Building == {"bind", "private", "layout", "mount", "chroot"}
Alive == Building \cup {"decode", "exec", "running"}

\* A process is a record of these fields.
IsChild ==
  child = [pc |-> child.pc, conf |-> child.conf, root |-> child.root,
           mounts |-> child.mounts, table |-> child.table,
           mounted |-> child.mounted]

Scalars ==
  /\ service \in 1..MaxServices /\ launches \in 0..MaxLaunches
  /\ faults \in 0..MaxFaults
  /\ pc \in {"idle", "hook", "endpoint", "session", "command", "start", "await",
             "probe exit", "start failed", "wait", "running", "unwind"}
  /\ probe \in {"unknown", "ok", "failed"}
  /\ launch \in Sessions \cup {None}

ChildTypes ==
  /\ IsChild
  /\ child.pc \in Alive \cup {"none", "failed", "exited", "dead"}
  /\ child.root \in Dirs \cup {None}

\* What a helper keeps of its mounts.
HelperTypes ==
  /\ child.mounts \in Seq(RequestType)
  /\ child.table \in Seq(MountType)
  /\ child.mounted \in Seq(Path)

Types ==
  /\ Scalars
  /\ hooks \in [1..MaxLaunches -> HookType]
  /\ command \in CommandType
  /\ ChildTypes
  /\ dirs \subseteq Dirs /\ stuck \subseteq Dirs
  /\ HelperTypes
  /\ IsFiniteSet(dirs)

\* Which of the directories there are is whose.
Ownership ==
  /\ \A d \in dirs : d.owner <= service
  /\ command.root # None =>
       command.root.kind \in {"root", "probe"} /\ command.root.owner = service
  /\ command.kind = "core" => command.root = None
  /\ pc # "idle" => launches >= 1
  /\ held \in {<<>>, <<Dir("notify")>>, <<Dir("notify"), Dir("controller")>>}

\* What the launch has at each place.
Progress ==
  /\ pc # "idle" => launch \in Sessions
  /\ pc \in {"idle", "hook"} => held = <<>>
  /\ pc = "endpoint" => held = <<Dir("notify")>>
  /\ pc \in {"idle", "hook", "endpoint", "session", "command"} =>
       command.root = None
  /\ pc = "start" /\ command.root # None => command.root \in dirs
  /\ child.pc \in Building => child.root # None
  /\ child.pc \in Alive =>
       /\ pc \in {"await", "probe exit", "wait", "running"}
       /\ child.root = command.root /\ child.conf \in Configs
       /\ command.root # None => command.root \in dirs

Roots == IF command.root = None THEN {} ELSE {command.root}

\* Accounted, in terms of the above.
Kept ==
  /\ \A d \in dirs : d.owner = service => d \in ToSet(held) \cup Roots \cup stuck
  /\ ToSet(held) \subseteq dirs
  /\ held # <<>> =>
       \A d \in dirs : d.kind = "notify" /\ d.owner # service => d \in stuck
  /\ command.root # None =>
       \A d \in dirs : d.kind \in {"root", "probe"} /\ d.owner # service => d \in stuck

SessionInv == Types /\ Ownership /\ Progress /\ Kept

\* What the list of directories may be.
LEMMA HeldFacts ==
  ASSUME NEW n, NEW c
  PROVE  /\ ToSet(<<>>) = {} /\ ToSet(<<n>>) = {n} /\ ToSet(<<n, c>>) = {n, c}
         /\ Append(<<n>>, c) = <<n, c>>
         /\ Last(<<n>>) = n /\ Last(<<n, c>>) = c
         /\ Front(<<n>>) = <<>> /\ Front(<<n, c>>) = <<n>>
         /\ <<n>> # <<>> /\ <<n, c>> # <<>> /\ <<n, c>> # <<n>>
<1>1. ToSet(<<>>) = {} /\ ToSet(<<n>>) = {n}
  BY DEF ToSet
<1>2. ToSet(<<n, c>>) = {n, c}
  BY DEF ToSet
<1>3. Append(<<n>>, c) = <<n, c>>
  <2> DEFINE a == Append(<<n>>, c)
  <2>1. <<n>> \in Seq({n, c}) /\ <<n, c>> \in Seq({n, c})
    OBVIOUS
  <2>2. a \in Seq({n, c}) /\ Len(a) = 2 /\ a[1] = n /\ a[2] = c
    BY <2>1
  <2>3. \A i \in 1..2 : a[i] = <<n, c>>[i]
    BY <2>2
  <2>4. a = <<n, c>>
    <3> HIDE DEF a
    <3> QED BY <2>1, <2>2, <2>3, SeqEqual
  <2> QED BY <2>4
<1>4. Last(<<n>>) = n /\ Last(<<n, c>>) = c
  BY DEF Last
<1>5. Front(<<n>>) = <<>>
  BY DEF Front
<1>6. Front(<<n, c>>) = <<n>>
  <2> DEFINE f == Front(<<n, c>>)
  <2>1. <<n>> \in Seq({n, c})
    OBVIOUS
  <2>2. f = [i \in 1..1 |-> <<n, c>>[i]]
    BY DEF Front
  <2>3. f \in Seq({n, c}) /\ Len(f) = 1 /\ f[1] = n
    BY <2>2
  <2> QED BY <2>1, <2>3, SeqEqual
<1>7. <<n>> # <<>> /\ <<n, c>> # <<>> /\ <<n, c>> # <<n>>
  OBVIOUS
<1> QED BY <1>1, <1>2, <1>3, <1>4, <1>5, <1>6, <1>7

\* The count of failed calls stays within its bound.
LEMMA FaultBound ==
  ASSUME faults \in 0..MaxFaults, faults' = faults \/ \E k \in Nat : Fault(k)
  PROVE  faults' \in 0..MaxFaults
  BY SessionBounds DEF Fault

\* A hook of which one field changes is still a hook.
LEMMA HookFields ==
  ASSUME NEW h \in HookType
  PROVE  /\ \A v \in BOOLEAN : [h EXCEPT !.open = v] \in HookType
         /\ \A v \in {"none", "serve"} : [h EXCEPT !.loop = v] \in HookType
         /\ \A v \in BOOLEAN : [h EXCEPT !.delivered = v] \in HookType
         /\ \A v \in {"none", "ready", "bad"} : [h EXCEPT !.first = v] \in HookType
         /\ \A v \in 0..NotifyCap : [h EXCEPT !.notes = v] \in HookType
         /\ \A v \in {"none", "ready", "bad"} : [h EXCEPT !.next = v] \in HookType
  BY DEF HookType

\* What the steps of a hook make of it.
LEMMA HookFacts ==
  /\ NoHook \in HookType /\ OpenHook \in HookType
  /\ \A h \in HookType : \A v \in {"none", "ready", "bad"} :
       [h EXCEPT !.next = v] \in HookType
  /\ \A h \in HookType : [h EXCEPT !.first = "none"] \in HookType
  /\ \A h \in HookType : Closed(h) \in HookType
  /\ \A h \in HookType : h.notes > 0 => [h EXCEPT !.notes = @ - 1] \in HookType
  /\ \A h \in HookType : \A v \in {"ready", "bad"} : Delivered(h, v) \in HookType
<1>1. NoHook \in HookType
  BY SessionBounds DEF NoHook, HookType
<1>2. OpenHook \in HookType
  <2>1. [NoHook EXCEPT !.open = TRUE] \in HookType
    BY <1>1, HookFields
  <2> QED BY <2>1, HookFields DEF OpenHook
<1>3. ASSUME NEW h \in HookType, h.notes > 0
      PROVE  [h EXCEPT !.notes = @ - 1] \in HookType
  <2>1. h.notes - 1 \in 0..NotifyCap
    BY <1>3, SessionBounds DEF HookType
  <2> QED BY <2>1, HookFields
<1>4. ASSUME NEW h \in HookType, NEW v \in {"ready", "bad"}
      PROVE  Delivered(h, v) \in HookType
  <2> DEFINE d == [h EXCEPT !.delivered = TRUE]
             first == IF h.delivered THEN d.first ELSE v
             f == [d EXCEPT !.first = first]
             notes == IF h.delivered /\ v = "ready" /\ f.notes < NotifyCap
                      THEN f.notes + 1 ELSE f.notes
  <2>1. d \in HookType
    BY HookFields
  <2>2. first \in {"none", "ready", "bad"}
    BY <2>1 DEF HookType
  <2>3. f \in HookType
    <3> HIDE DEF d, first
    <3> QED BY <2>1, <2>2, HookFields
  <2>4. notes \in 0..NotifyCap
    <3> HIDE DEF f
    <3> QED BY <2>3, SessionBounds DEF HookType
  <2>5. Delivered(h, v) = [f EXCEPT !.notes = notes]
    BY DEF Delivered
  <2> HIDE DEF f, notes
  <2> QED BY <2>3, <2>4, <2>5, HookFields
<1>5. ASSUME NEW h \in HookType
      PROVE  Closed(h) \in HookType
  <2> DEFINE l == [NoHook EXCEPT !.loop = h.loop]
  <2>1. h.loop \in {"none", "serve"} /\ h.first \in {"none", "ready", "bad"}
    BY DEF HookType
  <2>2. l \in HookType
    BY <1>1, <2>1, HookFields
  <2>3. Closed(h) = [l EXCEPT !.first = h.first]
    BY DEF Closed
  <2> HIDE DEF l
  <2> QED BY <2>1, <2>2, <2>3, HookFields
<1> QED BY <1>1, <1>2, <1>3, <1>4, <1>5, HookFields

\* One directory, or none.
LEMMA AtMostOne ==
  ASSUME NEW x, NEW S \in SUBSET {x}
  PROVE  IsFiniteSet(S) /\ Cardinality(S) \in Nat
<1>1. IsFiniteSet({x})
  BY FS_Singleton
<1> QED BY <1>1, FS_Subset, FS_CardinalityType

\* One failure and at most one more.
LEMMA OneMore ==
  ASSUME NEW x, NEW S \in SUBSET {x}
  PROVE  1 + Cardinality(S) \in Nat
<1>1. Cardinality(S) \in Nat
  BY AtMostOne
<1> QED BY <1>1

\* A launch that is under way has a number.
LEMMA LaunchNumber ==
  ASSUME SessionInv, pc # "idle"
  PROVE  launches \in 1..MaxLaunches
<1>1. \A k \in 0..MaxLaunches : k >= 1 => k \in 1..MaxLaunches
  BY SessionBounds
<1> QED BY <1>1 DEF SessionInv, Types, Scalars, Ownership

\* No directory is of a later service.
LEMMA Owners ==
  ASSUME SessionInv, NEW d \in dirs
  PROVE  d.owner \in Nat /\ service \in Nat /\ d.owner <= service
<1>1. d \in Dirs /\ service \in 1..MaxServices /\ d.owner <= service
  BY DEF SessionInv, Types, Scalars, Ownership
<1>2. d.owner \in 1..MaxServices
  BY <1>1 DEF Dirs
<1> QED BY <1>1, <1>2, SessionBounds


\* One more directory is still finitely many.
LEMMA FiniteDirs ==
  ASSUME IsFiniteSet(dirs), NEW x, dirs' \subseteq dirs \cup {x}
  PROVE  IsFiniteSet(dirs')
<1>1. IsFiniteSet(dirs \cup {x})
  BY FS_AddElement
<1> QED BY <1>1, FS_Subset

\* The fields of the processes there may be.
LEMMA ChildFields ==
  /\ NoChild.pc = "none" /\ NoChild.root = None /\ NoChild.mounts = <<>>
  /\ NoChild.table = <<>> /\ NoChild.mounted = <<>>
  /\ Killed.pc = "dead" /\ Killed.root = child.root /\ Killed.mounts = <<>>
  /\ Killed.table = <<>> /\ Killed.mounted = <<>>
  BY DEF NoChild, Killed

\* A helper without mounts has the types of one.
LEMMA NoMounts ==
  /\ child'.mounts = <<>> /\ child'.table = <<>> /\ child'.mounted = <<>> => HelperTypes'
  /\ child' \in {NoChild, Killed} => HelperTypes'
<1>1. ASSUME child'.mounts = <<>>, child'.table = <<>>, child'.mounted = <<>>
      PROVE  HelperTypes'
  BY <1>1 DEF HelperTypes
<1>2. ASSUME child' \in {NoChild, Killed}
      PROVE  HelperTypes'
  <2>1. child'.mounts = <<>> /\ child'.table = <<>> /\ child'.mounted = <<>>
    BY <1>2, ChildFields
  <2> QED BY <1>1, <2>1
<1> QED BY <1>1, <1>2

----------------------------------------------------------------------------
(* The steps of the launch that make or remove no root. *)

\* A notification of the core preserves the invariant.
LEMMA NotifyKeeps ==
  ASSUME SessionInv, Notify
  PROVE  SessionInv'
<1> USE NoneAssumption, SessionBounds DEF SessionInv, Types, Notify
<1>1. Scalars'
  <2>1. faults \in 0..MaxFaults
    BY DEF Scalars
  <2>2. faults' = faults \/ Fault(1)
    OBVIOUS
  <2>3. faults' \in 0..MaxFaults
    BY <2>1, <2>2, FaultBound
  <2> QED BY <2>3 DEF Scalars
<1>2. (hooks \in [1..MaxLaunches -> HookType])'
  <2>1. launches \in 1..MaxLaunches /\ hooks[launches] \in HookType
    BY LaunchNumber DEF Progress, Alive
  <2>2. CASE hooks' = [hooks EXCEPT ![launches] = [hooks[launches] EXCEPT !.next = "ready"]]
    <3> DEFINE h == [hooks[launches] EXCEPT !.next = "ready"]
    <3>1. h \in HookType
      BY <2>1, HookFacts
    <3>2. hooks' = [hooks EXCEPT ![launches] = h]
      BY <2>2
    <3> HIDE DEF h
    <3> QED BY <3>1, <3>2
  <2>3. CASE hooks' = [hooks EXCEPT ![launches] = [hooks[launches] EXCEPT !.next = "bad"]]
    <3> DEFINE h == [hooks[launches] EXCEPT !.next = "bad"]
    <3>1. h \in HookType
      BY <2>1, HookFacts
    <3>2. hooks' = [hooks EXCEPT ![launches] = h]
      BY <2>3
    <3> HIDE DEF h
    <3> QED BY <3>1, <3>2
  <2> QED BY <2>2, <2>3
<1>3. (command \in CommandType)'
  BY DEF Scalars, Ownership, CommandType, NoCommand, Dir, Dirs
<1>4. ChildTypes'
  BY DEF ChildTypes, IsChild, Alive, Building, NoChild, CommandType
<1>5. (dirs \subseteq Dirs /\ stuck \subseteq Dirs)'
  BY DEF Scalars, Ownership, Progress, Dirs, Dir, CommandType
<1>6. Ownership'
  BY DEF Scalars, Ownership, Progress, Dirs, Dir, CommandType, NoCommand
<1>7. Progress'
  BY DEF Scalars, Ownership, Progress, Dir, ChildTypes, IsChild, Alive, Building, CommandType, NoCommand, NoChild
<1>8. Kept'
  BY HeldFacts DEF Scalars, Ownership, Progress, Kept, Roots, Dir, Dirs, CommandType, NoCommand
<1>9. HelperTypes'
  BY DEF HelperTypes, NoChild, ChildTypes, IsChild
<1>10. IsFiniteSet(dirs)'
  BY DEF Ownership
<1> QED BY <1>1, <1>2, <1>3, <1>4, <1>5, <1>6, <1>7, <1>8, <1>9, <1>10

\* Serving a notification preserves the invariant.
LEMMA ServeKeeps ==
  ASSUME SessionInv, NEW n \in 1..MaxLaunches, Serve(n)
  PROVE  SessionInv'
<1> USE NoneAssumption, SessionBounds DEF SessionInv, Types, Serve, sandboxVars
<1>1. Scalars'
  BY DEF Scalars
<1>2. (hooks \in [1..MaxLaunches -> HookType])'
  <2>1. hooks[n] \in HookType
    OBVIOUS
  <2>2. CASE hooks[n].next # "none" /\ hooks' = [hooks EXCEPT ![n] =
               Delivered([hooks[n] EXCEPT !.next = "none"], hooks[n].next)]
    <3> DEFINE h == [hooks[n] EXCEPT !.next = "none"]
               d == Delivered(h, hooks[n].next)
    <3>1. h \in HookType
      BY <2>1, HookFacts
    <3>2. hooks[n].next \in {"ready", "bad"}
      BY <2>1, <2>2 DEF HookType
    <3>3. d \in HookType
      <4> HIDE DEF h
      <4> QED BY <3>1, <3>2, HookFacts
    <3>4. hooks' = [hooks EXCEPT ![n] = d]
      BY <2>2
    <3> HIDE DEF d
    <3> QED BY <3>3, <3>4
  <2>3. CASE hooks' = [hooks EXCEPT ![n] = NoHook]
    BY <2>3, HookFacts
  <2> QED BY <2>2, <2>3
<1>3. (command \in CommandType)'
  BY DEF Scalars, Ownership, CommandType, NoCommand, Dir, Dirs
<1>4. ChildTypes'
  BY DEF ChildTypes, IsChild, Alive, Building, NoChild, CommandType
<1>5. (dirs \subseteq Dirs /\ stuck \subseteq Dirs)'
  BY DEF Scalars, Ownership, Progress, Dirs, Dir, CommandType
<1>6. Ownership'
  BY DEF Scalars, Ownership, Progress, Dirs, Dir, CommandType, NoCommand
<1>7. Progress'
  BY DEF Scalars, Ownership, Progress, Dir, ChildTypes, IsChild, Alive, Building, CommandType, NoCommand, NoChild
<1>8. Kept'
  BY HeldFacts DEF Scalars, Ownership, Progress, Kept, Roots, Dir, Dirs, CommandType, NoCommand
<1>9. HelperTypes'
  BY DEF HelperTypes, NoChild, ChildTypes, IsChild
<1>10. IsFiniteSet(dirs)'
  BY DEF Ownership
<1> QED BY <1>1, <1>2, <1>3, <1>4, <1>5, <1>6, <1>7, <1>8, <1>9, <1>10

\* The end of the goroutine preserves the invariant.
LEMMA AcceptFailsKeeps ==
  ASSUME SessionInv, NEW n \in 1..MaxLaunches, AcceptFails(n)
  PROVE  SessionInv'
<1> USE NoneAssumption, SessionBounds DEF SessionInv, Types, AcceptFails
<1>1. Scalars'
  <2>1. faults \in 0..MaxFaults
    BY DEF Scalars
  <2>2. faults' \in 0..MaxFaults
    BY <2>1, FaultBound
  <2> QED BY <2>2 DEF Scalars
<1>2. (hooks \in [1..MaxLaunches -> HookType])'
  <2> DEFINE d == Delivered(hooks[n], "bad")
             e == [d EXCEPT !.next = "none"]
             h == [e EXCEPT !.loop = "none"]
  <2>1. d \in HookType
    BY HookFacts
  <2>2. hooks' = [hooks EXCEPT ![n] = h]
    OBVIOUS
  <2> HIDE DEF d
  <2>3. e \in HookType
    BY <2>1, HookFields
  <2> HIDE DEF e
  <2>4. h \in HookType
    BY <2>3, HookFields
  <2> HIDE DEF h
  <2> QED BY <2>2, <2>4
<1>3. (command \in CommandType)'
  OBVIOUS
<1>4. ChildTypes'
  BY DEF ChildTypes, IsChild
<1>5. (dirs \subseteq Dirs /\ stuck \subseteq Dirs /\ IsFiniteSet(dirs))'
  OBVIOUS
<1>6. Ownership' /\ Progress' /\ Kept'
  BY DEF Ownership, Progress, Kept, Roots, Dir
<1>7. HelperTypes'
  BY DEF HelperTypes
<1> QED BY <1>1, <1>2, <1>3, <1>4, <1>5, <1>6, <1>7

\* Taking a notification from the queue preserves the invariant.
LEMMA TakeNoteKeeps ==
  ASSUME SessionInv, TakeNote
  PROVE  SessionInv'
<1> USE NoneAssumption, SessionBounds DEF SessionInv, Types, TakeNote, sandboxVars
<1>1. Scalars'
  BY DEF Scalars
<1>2. (hooks \in [1..MaxLaunches -> HookType])'
  <2>1. hooks[launches] \in HookType
    BY LaunchNumber
  <2> DEFINE h == [hooks[launches] EXCEPT !.notes = @ - 1]
  <2>2. h \in HookType
    BY <2>1, HookFacts
  <2>3. hooks' = [hooks EXCEPT ![launches] = h]
    OBVIOUS
  <2> HIDE DEF h
  <2> QED BY <2>2, <2>3
<1>3. (command \in CommandType)'
  BY DEF Scalars, Ownership, CommandType, NoCommand, Dir, Dirs
<1>4. ChildTypes'
  BY DEF ChildTypes, IsChild, Alive, Building, NoChild, CommandType
<1>5. (dirs \subseteq Dirs /\ stuck \subseteq Dirs)'
  BY DEF Scalars, Ownership, Progress, Dirs, Dir, CommandType
<1>6. Ownership'
  BY DEF Scalars, Ownership, Progress, Dirs, Dir, CommandType, NoCommand
<1>7. Progress'
  BY DEF Scalars, Ownership, Progress, Dir, ChildTypes, IsChild, Alive, Building, CommandType, NoCommand, NoChild
<1>8. Kept'
  BY HeldFacts DEF Scalars, Ownership, Progress, Kept, Roots, Dir, Dirs, CommandType, NoCommand
<1>9. HelperTypes'
  BY DEF HelperTypes, NoChild, ChildTypes, IsChild
<1>10. IsFiniteSet(dirs)'
  BY DEF Ownership
<1> QED BY <1>1, <1>2, <1>3, <1>4, <1>5, <1>6, <1>7, <1>8, <1>9, <1>10

\* A launch request preserves the invariant.
LEMMA LaunchKeeps ==
  ASSUME SessionInv, NEW s \in Sessions, Launch(s)
  PROVE  SessionInv'
<1> USE NoneAssumption, SessionBounds DEF SessionInv, Types, Launch, sandboxVars
<1>1. Scalars'
  BY DEF Scalars
<1>2. (hooks \in [1..MaxLaunches -> HookType])'
  BY DEF Scalars, Ownership
<1>3. (command \in CommandType)'
  BY DEF Scalars, Ownership, CommandType, NoCommand, Dir, Dirs
<1>4. ChildTypes'
  BY DEF ChildTypes, IsChild, Alive, Building, NoChild, CommandType
<1>5. (dirs \subseteq Dirs /\ stuck \subseteq Dirs)'
  BY DEF Scalars, Ownership, Progress, Dirs, Dir, CommandType
<1>6. Ownership'
  BY DEF Scalars, Ownership, Progress, Dirs, Dir, CommandType, NoCommand
<1>7. Progress'
  BY DEF Scalars, Ownership, Progress, Dir, ChildTypes, IsChild, Alive, Building, CommandType, NoCommand, NoChild
<1>8. Kept'
  BY HeldFacts DEF Scalars, Ownership, Progress, Kept, Roots, Dir, Dirs, CommandType, NoCommand
<1>9. HelperTypes'
  BY DEF HelperTypes, NoChild, ChildTypes, IsChild
<1>10. IsFiniteSet(dirs)'
  BY DEF Ownership
<1> QED BY <1>1, <1>2, <1>3, <1>4, <1>5, <1>6, <1>7, <1>8, <1>9, <1>10

\* Creating the hook directory preserves the invariant.
LEMMA CreateHookKeeps ==
  ASSUME SessionInv, CreateHook
  PROVE  SessionInv'
<1> USE NoneAssumption, SessionBounds DEF SessionInv, Types
<1>0. /\ pc = "hook"
      /\ UNCHANGED <<child, damage, service, probe, command, launches, notices>>
  BY DEF CreateHook
<1>00. PICK kept \in SUBSET StaleNotify, made \in SUBSET {Dir("notify")} :
         /\ dirs' = (dirs \ (StaleNotify \ kept)) \cup made
         /\ faults' \in 0..MaxFaults
         /\ \/ /\ pc' = "endpoint" /\ made = {Dir("notify")}
               /\ held' = <<Dir("notify")>>
               /\ hooks' = [hooks EXCEPT ![launches] = OpenHook]
               /\ stuck' = (stuck \ StaleNotify) \cup kept
               /\ launch' = launch
            \/ /\ pc' = "idle" /\ launch' = None /\ UNCHANGED <<held, hooks>>
               /\ stuck' = (stuck \ StaleNotify) \cup kept \cup made
  <2>0. \A k \in Nat : Fault(k) => faults' \in 0..MaxFaults
    BY FaultBound DEF Scalars
  <2>1. PICK kept \in SUBSET StaleNotify :
       \/ /\ pc' = "endpoint"
          /\ SweepsNotify(kept, {Dir("notify")}, 0)
          /\ held' = <<Dir("notify")>>
          /\ hooks' = [hooks EXCEPT ![launches] = OpenHook]
          /\ stuck' = (stuck \ StaleNotify) \cup kept
          /\ launch' = launch
       \/ /\ pc' = "idle" /\ launch' = None
          /\ \E left \in SUBSET {Dir("notify")} :
               /\ SweepsNotify(kept, left, 1 + Cardinality(left))
               /\ stuck' = (stuck \ StaleNotify) \cup kept \cup left
          /\ UNCHANGED <<held, hooks>>
    BY DEF CreateHook
  <2>2. \A made : \A k \in Nat : SweepsNotify(kept, made, k) =>
          /\ dirs' = (dirs \ (StaleNotify \ kept)) \cup made
          /\ faults' \in 0..MaxFaults
    BY <2>0 DEF SweepsNotify
  <2>3. CASE pc' = "endpoint"
    BY <2>1, <2>2, <2>3
  <2>4. CASE pc' # "endpoint"
    <3>1. PICK left \in SUBSET {Dir("notify")} :
            /\ SweepsNotify(kept, left, 1 + Cardinality(left))
            /\ stuck' = (stuck \ StaleNotify) \cup kept \cup left
      BY <2>1, <2>4
    <3>2. 1 + Cardinality(left) \in Nat
      BY OneMore
    <3> HIDE DEF SessionInv, Types
    <3> QED BY <2>1, <2>2, <2>4, <3>1, <3>2
  <2> QED BY <2>3, <2>4
<1> DEFINE new == Dir("notify")
<1>0a. new \in Dirs /\ new.kind = "notify" /\ new.owner = service /\ service \in Nat
  <2>1. launches \in 1..MaxLaunches /\ service \in 1..MaxServices
    BY <1>0, LaunchNumber DEF Scalars
  <2> QED BY <2>1 DEF Dir, Dirs
<1>0b. StaleNotify \subseteq dirs /\ \A d \in StaleNotify : d.owner # service
  BY DEF StaleNotify
<1>0c. held = <<>> /\ ToSet(held) = {} /\ command.root = None /\ child.pc \notin Alive
  BY <1>0, HeldFacts DEF Progress
<1> HIDE DEF new
<1>0d. made \subseteq {new} /\ dirs' \subseteq dirs \cup {new}
  BY <1>00, <1>0b DEF new
<1>1. Scalars'
  BY <1>0, <1>00 DEF Scalars
<1>2. (hooks \in [1..MaxLaunches -> HookType])'
  BY <1>00, HookFacts
<1>3. (command \in CommandType)' /\ ChildTypes' /\ HelperTypes'
  BY <1>0 DEF ChildTypes, IsChild, HelperTypes
<1>5. (dirs \subseteq Dirs /\ stuck \subseteq Dirs)'
  BY <1>00, <1>0a, <1>0b, <1>0d
<1>6. Ownership'
  <2>1. held' \in {<<>>, <<Dir("notify")>>}
    BY <1>00, <1>0c
  <2>2. \A d \in dirs' : d.owner <= service
    BY <1>0a, <1>0d DEF Ownership
  <2>3. launches' >= 1
    BY <1>0 DEF Ownership
  <2> QED BY <1>0, <2>1, <2>2, <2>3 DEF Ownership, Dir
<1>7. Progress'
  <2>1. launch \in Sessions
    BY <1>0 DEF Progress
  <2>2. (Dir("notify"))' = Dir("notify")
    BY <1>0 DEF Dir
  <2>3. child'.pc \notin Alive /\ child'.pc \notin Building
    BY <1>0, <1>0c DEF Alive
  <2>4. CASE pc' = "endpoint"
    BY <1>0, <1>00, <1>0c, <2>1, <2>2, <2>3, <2>4 DEF Progress
  <2>5. CASE pc' = "idle"
    BY <1>0, <1>00, <1>0c, <2>3, <2>5 DEF Progress
  <2> QED BY <1>00, <2>4, <2>5
<1>8. Kept'
  <2>0. UNCHANGED <<service, command>> /\ Roots = {}
    BY <1>0, <1>0c DEF Roots
  <2>1. \A d \in dirs' : d.owner = service => d = new \/ d \in stuck \ StaleNotify
    BY <1>0b, <1>0c, <1>0d, <2>0 DEF Kept
  <2>2. \A d \in dirs' : d.kind = "notify" /\ d.owner # service => d \in kept
    BY <1>00, <1>0a, <1>0d DEF StaleNotify
  <2>3. CASE /\ made = {Dir("notify")} /\ held' = <<Dir("notify")>>
             /\ stuck' = (stuck \ StaleNotify) \cup kept
    <3>1. ToSet(held') = {new} /\ new \in dirs'
      BY <1>00, <2>3, HeldFacts DEF new
    <3>2. kept \subseteq stuck' /\ stuck \ StaleNotify \subseteq stuck'
      BY <2>3
    <3> QED BY <1>0c, <2>0, <2>1, <2>2, <3>1, <3>2 DEF Kept, Roots
  <2>4. CASE /\ held' = held
             /\ stuck' = (stuck \ StaleNotify) \cup kept \cup made
    <3>1. new \in dirs' => new \in stuck'
      <4>1. CASE new \in made
        BY <2>4, <4>1
      <4>2. CASE new \notin made /\ new \in dirs'
        <5>1. new \in dirs
          BY <1>00, <1>0b, <4>2
        <5>2. new \in stuck
          BY <1>0a, <1>0c, <2>0, <5>1 DEF Kept
        <5>3. new \notin StaleNotify
          BY <1>0a, <1>0b
        <5> QED BY <2>4, <5>2, <5>3
      <4> QED BY <4>1, <4>2
    <3> QED BY <1>0c, <2>0, <2>1, <2>4, <3>1 DEF Kept, Roots
  <2> QED BY <1>00, <2>3, <2>4
<1>10. IsFiniteSet(dirs)'
  BY <1>0d, FiniteDirs
<1> QED BY <1>1, <1>2, <1>3, <1>5, <1>6, <1>7, <1>8, <1>10

\* Creating the endpoint of the hook preserves the invariant.
LEMMA CreateEndpointKeeps ==
  ASSUME SessionInv, CreateEndpoint
  PROVE  SessionInv'
<1> USE NoneAssumption, SessionBounds DEF SessionInv, Types
<1>0. /\ pc = "endpoint"
      /\ UNCHANGED <<child, damage, service, launch, probe, command, hooks,
                    launches, notices>>
  BY DEF CreateEndpoint
<1> DEFINE new == Dir("controller")
<1>0a. /\ new \in Dirs /\ new.kind = "controller" /\ new.owner = service
       /\ service \in Nat
  <2>1. launches \in 1..MaxLaunches /\ service \in 1..MaxServices
    BY <1>0, LaunchNumber DEF Scalars
  <2> QED BY <2>1 DEF Dir, Dirs
<1>0b. /\ held = <<Dir("notify")>> /\ ToSet(held) = {Dir("notify")}
       /\ command.root = None /\ child.pc \notin Alive /\ launch \in Sessions
  BY <1>0, HeldFacts DEF Progress
<1>00. PICK made \in SUBSET {new} :
         /\ dirs' = dirs \cup made /\ faults' \in 0..MaxFaults
         /\ \/ /\ pc' = "session" /\ made = {new} /\ stuck' = stuck
               /\ held' = Append(held, new)
            \/ pc' = "unwind" /\ held' = held /\ stuck' = stuck \cup made
  <2>0. faults \in 0..MaxFaults /\ \A k \in Nat : Fault(k) => faults' \in 0..MaxFaults
    BY FaultBound DEF Scalars
  <2>1. CASE /\ pc' = "session" /\ faults' = faults
             /\ dirs' = dirs \cup {new} /\ held' = Append(held, new) /\ stuck' = stuck
    BY <2>0, <2>1
  <2>2. CASE /\ pc' = "unwind" /\ held' = held
             /\ \E left \in SUBSET {new} :
                  /\ Fault(1 + Cardinality(left))
                  /\ dirs' = dirs \cup left /\ stuck' = stuck \cup left
    <3>1. PICK left \in SUBSET {new} :
            /\ Fault(1 + Cardinality(left))
            /\ dirs' = dirs \cup left /\ stuck' = stuck \cup left
      BY <2>2
    <3>2. 1 + Cardinality(left) \in Nat
      BY OneMore
    <3> QED BY <2>0, <2>2, <3>1, <3>2
  <2> QED BY <2>1, <2>2 DEF CreateEndpoint
<1> HIDE DEF new
<1>0d. dirs' \subseteq dirs \cup {new} /\ dirs \subseteq dirs'
  BY <1>00
<1>1. Scalars'
  BY <1>0, <1>00 DEF Scalars
<1>2. (hooks \in [1..MaxLaunches -> HookType])'
  BY <1>0
<1>3. (command \in CommandType)' /\ ChildTypes' /\ HelperTypes'
  BY <1>0 DEF ChildTypes, IsChild, HelperTypes
<1>5. (dirs \subseteq Dirs /\ stuck \subseteq Dirs)'
  BY <1>00, <1>0a, <1>0d
<1>6. Ownership'
  <2>1. held' \in {<<Dir("notify")>>, <<Dir("notify"), Dir("controller")>>}
    BY <1>00, <1>0b, HeldFacts DEF new
  <2>2. \A d \in dirs' : d.owner <= service
    BY <1>0a, <1>0d DEF Ownership
  <2>3. launches' >= 1
    BY <1>0 DEF Ownership
  <2> QED BY <1>0, <2>1, <2>2, <2>3 DEF Ownership, Dir
<1>7. Progress'
  <2>3. child'.pc \notin Alive /\ child'.pc \notin Building
    BY <1>0, <1>0b DEF Alive
  <2>4. pc' \in {"session", "unwind"}
    BY <1>00
  <2> QED BY <1>0, <1>0b, <2>3, <2>4 DEF Progress
<1>8. Kept'
  <2>0. UNCHANGED <<service, command>> /\ Roots = {} /\ held # <<>>
    BY <1>0, <1>0b, HeldFacts DEF Roots
  <2>1. \A d \in dirs' : d.kind = "notify" /\ d.owner # service => d \in stuck
    BY <1>0a, <1>0d, <2>0 DEF Kept
  <2>2. CASE made = {new} /\ stuck' = stuck /\ held' = Append(held, new)
    <3>1. ToSet(held') = ToSet(held) \cup {new}
      <4> DEFINE n == Dir("notify")
      <4>1. held = <<n>> /\ held' = Append(held, new)
        BY <1>0b, <2>2
      <4> HIDE DEF n
      <4>2. ToSet(<<n>>) = {n} /\ Append(<<n>>, new) = <<n, new>>
        BY HeldFacts
      <4>3. ToSet(<<n, new>>) = {n, new}
        BY HeldFacts
      <4> QED BY <4>1, <4>2, <4>3
    <3> QED BY <1>00, <1>0b, <1>0d, <2>0, <2>1, <2>2, <3>1 DEF Kept, Roots
  <2>3. CASE held' = held /\ stuck' = stuck \cup made
    BY <1>00, <1>0b, <1>0d, <2>0, <2>1, <2>3 DEF Kept, Roots
  <2> QED BY <1>00, <2>2, <2>3
<1>10. IsFiniteSet(dirs)'
  BY <1>0d, FiniteDirs
<1> QED BY <1>1, <1>2, <1>3, <1>5, <1>6, <1>7, <1>8, <1>10

\* Resolving affinity and working directory preserves the invariant.
LEMMA ResolveSessionKeeps ==
  ASSUME SessionInv, ResolveSession
  PROVE  SessionInv'
<1> USE NoneAssumption, SessionBounds DEF SessionInv, Types, ResolveSession
<1>1. Scalars'
  <2>1. faults \in 0..MaxFaults
    BY DEF Scalars
  <2>2. faults' = faults \/ Fault(1)
    OBVIOUS
  <2>3. faults' \in 0..MaxFaults
    BY <2>1, <2>2, FaultBound
  <2> QED BY <2>3 DEF Scalars
<1>2. (hooks \in [1..MaxLaunches -> HookType])'
  BY DEF Scalars, Ownership
<1>3. (command \in CommandType)'
  BY DEF Scalars, Ownership, CommandType, NoCommand, Dir, Dirs
<1>4. ChildTypes'
  BY DEF ChildTypes, IsChild, Alive, Building, NoChild, CommandType
<1>5. (dirs \subseteq Dirs /\ stuck \subseteq Dirs)'
  BY DEF Scalars, Ownership, Progress, Dirs, Dir, CommandType
<1>6. Ownership'
  BY DEF Scalars, Ownership, Progress, Dirs, Dir, CommandType, NoCommand
<1>7. Progress'
  BY DEF Scalars, Ownership, Progress, Dir, ChildTypes, IsChild, Alive, Building, CommandType, NoCommand, NoChild
<1>8. Kept'
  BY HeldFacts DEF Scalars, Ownership, Progress, Kept, Roots, Dir, Dirs, CommandType, NoCommand
<1>9. HelperTypes'
  BY DEF HelperTypes, NoChild, ChildTypes, IsChild
<1>10. IsFiniteSet(dirs)'
  BY DEF Ownership
<1> QED BY <1>1, <1>2, <1>3, <1>4, <1>5, <1>6, <1>7, <1>8, <1>9, <1>10

\* Starting the command preserves the invariant.
LEMMA StartKeeps ==
  ASSUME SessionInv, Start
  PROVE  SessionInv'
<1> USE NoneAssumption, SessionBounds DEF SessionInv, Types, Start
<1>1. Scalars'
  <2>1. faults \in 0..MaxFaults
    BY DEF Scalars
  <2>2. faults' = faults \/ Fault(1)
    OBVIOUS
  <2>3. faults' \in 0..MaxFaults
    BY <2>1, <2>2, FaultBound
  <2> QED BY <2>3 DEF Scalars
<1>2. (hooks \in [1..MaxLaunches -> HookType])'
  BY DEF Scalars, Ownership
<1>3. (command \in CommandType)'
  BY DEF Scalars, Ownership, CommandType, NoCommand, Dir, Dirs
<1>4. ChildTypes'
  BY DEF ChildTypes, IsChild, Alive, Building, NoChild, CommandType
<1>5. (dirs \subseteq Dirs /\ stuck \subseteq Dirs)'
  BY DEF Scalars, Ownership, Progress, Dirs, Dir, CommandType
<1>6. Ownership'
  BY DEF Scalars, Ownership, Progress, Dirs, Dir, CommandType, NoCommand
<1>7. Progress'
  <2>1. CASE child' = child
    BY <2>1 DEF Progress, Alive, Building
  <2>2. CASE /\ pc' = "await"
             /\ child' = [NoChild EXCEPT
                  !.pc = IF command.kind = "core" THEN "running" ELSE "decode",
                  !.conf = IF command.for = "probe" THEN ProbeConfig ELSE launch.conf,
                  !.root = command.root]
    <3>1. /\ child'.pc \in {"running", "decode"} /\ child'.root = command.root
          /\ child'.conf \in {ProbeConfig, launch.conf}
      BY <2>2 DEF NoChild
    <3>2. child'.conf \in Configs
      BY <3>1 DEF Configs, Progress
    <3> QED BY <2>2, <3>1, <3>2 DEF Progress, Alive, Building
  <2> QED BY <2>1, <2>2
<1>8. Kept'
  BY HeldFacts DEF Scalars, Ownership, Progress, Kept, Roots, Dir, Dirs, CommandType, NoCommand
<1>9. HelperTypes'
  <2>1. CASE child' = child
    BY <2>1 DEF HelperTypes
  <2>2. CASE child' = [NoChild EXCEPT
                  !.pc = IF command.kind = "core" THEN "running" ELSE "decode",
                  !.conf = IF command.for = "probe" THEN ProbeConfig ELSE launch.conf,
                  !.root = command.root]
    <3>1. child'.mounts = <<>> /\ child'.table = <<>> /\ child'.mounted = <<>>
      BY <2>2 DEF NoChild
    <3> QED BY <3>1, NoMounts
  <2> QED BY <2>1, <2>2
<1>10. IsFiniteSet(dirs)'
  BY DEF Ownership
<1> QED BY <1>1, <1>2, <1>3, <1>4, <1>5, <1>6, <1>7, <1>8, <1>9, <1>10

\* Waiting for the helper to execute the core preserves the invariant.
LEMMA AwaitKeeps ==
  ASSUME SessionInv, Await
  PROVE  SessionInv'
<1> USE NoneAssumption, SessionBounds DEF SessionInv, Types, Await, Killed, Silent
<1>1. Scalars'
  <2>1. faults \in 0..MaxFaults
    BY DEF Scalars
  <2>2. faults' = faults \/ Fault(1)
    OBVIOUS
  <2>3. faults' \in 0..MaxFaults
    BY <2>1, <2>2, FaultBound
  <2> QED BY <2>3 DEF Scalars
<1>2. (hooks \in [1..MaxLaunches -> HookType])'
  BY DEF Scalars, Ownership
<1>3. (command \in CommandType)'
  BY DEF Scalars, Ownership, CommandType, NoCommand, Dir, Dirs
<1>4. ChildTypes'
  BY DEF ChildTypes, IsChild, Alive, Building, NoChild, CommandType
<1>5. (dirs \subseteq Dirs /\ stuck \subseteq Dirs)'
  BY DEF Scalars, Ownership, Progress, Dirs, Dir, CommandType
<1>6. Ownership'
  BY DEF Scalars, Ownership, Progress, Dirs, Dir, CommandType, NoCommand
<1>7. Progress'
  BY DEF Scalars, Ownership, Progress, Dir, ChildTypes, IsChild, Alive, Building, CommandType, NoCommand, NoChild
<1>8. Kept'
  BY HeldFacts DEF Scalars, Ownership, Progress, Kept, Roots, Dir, Dirs, CommandType, NoCommand
<1>9. HelperTypes'
  <2>1. CASE child' = child
    BY <2>1 DEF HelperTypes
  <2>2. CASE child' = Killed
    BY <2>2, NoMounts
  <2> QED BY <2>1, <2>2
<1>10. IsFiniteSet(dirs)'
  BY DEF Ownership
<1> QED BY <1>1, <1>2, <1>3, <1>4, <1>5, <1>6, <1>7, <1>8, <1>9, <1>10

\* The end of the wait for the startup preserves the invariant.
LEMMA WaitForStartupKeeps ==
  ASSUME SessionInv, WaitForStartup
  PROVE  SessionInv'
<1> USE NoneAssumption, SessionBounds DEF SessionInv, Types, WaitForStartup, Killed
<1>1. Scalars'
  BY DEF Scalars
<1>2. (hooks \in [1..MaxLaunches -> HookType])'
  <2>1. hooks[launches] \in HookType
    BY LaunchNumber
  <2>2. CASE hooks' = [hooks EXCEPT ![launches] = [hooks[launches] EXCEPT !.first = "none"]]
    <3> DEFINE h == [hooks[launches] EXCEPT !.first = "none"]
    <3>1. h \in HookType
      BY <2>1, HookFacts
    <3>2. hooks' = [hooks EXCEPT ![launches] = h]
      BY <2>2
    <3> HIDE DEF h
    <3> QED BY <3>1, <3>2
  <2> QED BY <2>2
<1>3. (command \in CommandType)'
  BY DEF Scalars, Ownership, CommandType, NoCommand, Dir, Dirs
<1>4. ChildTypes'
  BY DEF ChildTypes, IsChild, Alive, Building, NoChild, CommandType
<1>5. (dirs \subseteq Dirs /\ stuck \subseteq Dirs)'
  BY DEF Scalars, Ownership, Progress, Dirs, Dir, CommandType
<1>6. Ownership'
  BY DEF Scalars, Ownership, Progress, Dirs, Dir, CommandType, NoCommand
<1>7. Progress'
  BY DEF Scalars, Ownership, Progress, Dir, ChildTypes, IsChild, Alive, Building, CommandType, NoCommand, NoChild
<1>8. Kept'
  BY HeldFacts DEF Scalars, Ownership, Progress, Kept, Roots, Dir, Dirs, CommandType, NoCommand
<1>9. HelperTypes'
  BY DEF HelperTypes, NoChild, ChildTypes, IsChild
<1>10. IsFiniteSet(dirs)'
  BY DEF Ownership
<1> QED BY <1>1, <1>2, <1>3, <1>4, <1>5, <1>6, <1>7, <1>8, <1>9, <1>10

\* A stop, or the exit of the core, with its cleanup preserves the invariant.
LEMMA StopKeeps ==
  ASSUME SessionInv, Stop
  PROVE  SessionInv'
<1> USE NoneAssumption, SessionBounds DEF SessionInv, Types, Stop, Killed
<1>1. Scalars'
  BY DEF Scalars
<1>2. (hooks \in [1..MaxLaunches -> HookType])'
  BY DEF Scalars, Ownership
<1>3. (command \in CommandType)'
  BY DEF Scalars, Ownership, CommandType, NoCommand, Dir, Dirs
<1>4. ChildTypes'
  BY DEF ChildTypes, IsChild, Alive, Building, NoChild, CommandType
<1>5. (dirs \subseteq Dirs /\ stuck \subseteq Dirs)'
  BY DEF Scalars, Ownership, Progress, Dirs, Dir, CommandType
<1>6. Ownership'
  BY DEF Scalars, Ownership, Progress, Dirs, Dir, CommandType, NoCommand
<1>7. Progress'
  BY DEF Scalars, Ownership, Progress, Dir, ChildTypes, IsChild, Alive, Building, CommandType, NoCommand, NoChild
<1>8. Kept'
  BY HeldFacts DEF Scalars, Ownership, Progress, Kept, Roots, Dir, Dirs, CommandType, NoCommand
<1>9. HelperTypes'
  BY DEF HelperTypes, NoChild, ChildTypes, IsChild
<1>10. IsFiniteSet(dirs)'
  BY DEF Ownership
<1> QED BY <1>1, <1>2, <1>3, <1>4, <1>5, <1>6, <1>7, <1>8, <1>9, <1>10

\* The exit of the process preserves the invariant.
LEMMA ChildExitsKeeps ==
  ASSUME SessionInv, ChildExits
  PROVE  SessionInv'
<1> USE NoneAssumption, SessionBounds DEF SessionInv, Types, ChildExits, Killed, sessionVars
<1>1. Scalars'
  BY DEF Scalars
<1>2. (hooks \in [1..MaxLaunches -> HookType])'
  BY DEF Scalars, Ownership
<1>3. (command \in CommandType)'
  BY DEF Scalars, Ownership, CommandType, NoCommand, Dir, Dirs
<1>4. ChildTypes'
  BY DEF ChildTypes, IsChild, Alive, Building, NoChild, CommandType
<1>5. (dirs \subseteq Dirs /\ stuck \subseteq Dirs)'
  BY DEF Scalars, Ownership, Progress, Dirs, Dir, CommandType
<1>6. Ownership'
  BY DEF Scalars, Ownership, Progress, Dirs, Dir, CommandType, NoCommand
<1>7. Progress'
  BY DEF Scalars, Ownership, Progress, Dir, ChildTypes, IsChild, Alive, Building, CommandType, NoCommand, NoChild
<1>8. Kept'
  BY HeldFacts DEF Scalars, Ownership, Progress, Kept, Roots, Dir, Dirs, CommandType, NoCommand
<1>9. HelperTypes'
  BY DEF HelperTypes, NoChild, ChildTypes, IsChild
<1>10. IsFiniteSet(dirs)'
  BY DEF Ownership
<1> QED BY <1>1, <1>2, <1>3, <1>4, <1>5, <1>6, <1>7, <1>8, <1>9, <1>10

\* Killing the process preserves the invariant.
LEMMA ChildKilledKeeps ==
  ASSUME SessionInv, ChildKilled
  PROVE  SessionInv'
<1> USE NoneAssumption, SessionBounds DEF SessionInv, Types, ChildKilled, Killed, sessionVars
<1>1. Scalars'
  <2>1. faults \in 0..MaxFaults
    BY DEF Scalars
  <2>2. faults' = faults \/ Fault(1)
    OBVIOUS
  <2>3. faults' \in 0..MaxFaults
    BY <2>1, <2>2, FaultBound
  <2> QED BY <2>3 DEF Scalars
<1>2. (hooks \in [1..MaxLaunches -> HookType])'
  BY DEF Scalars, Ownership
<1>3. (command \in CommandType)'
  BY DEF Scalars, Ownership, CommandType, NoCommand, Dir, Dirs
<1>4. ChildTypes'
  BY DEF ChildTypes, IsChild, Alive, Building, NoChild, CommandType
<1>5. (dirs \subseteq Dirs /\ stuck \subseteq Dirs)'
  BY DEF Scalars, Ownership, Progress, Dirs, Dir, CommandType
<1>6. Ownership'
  BY DEF Scalars, Ownership, Progress, Dirs, Dir, CommandType, NoCommand
<1>7. Progress'
  BY DEF Scalars, Ownership, Progress, Dir, ChildTypes, IsChild, Alive, Building, CommandType, NoCommand, NoChild
<1>8. Kept'
  BY HeldFacts DEF Scalars, Ownership, Progress, Kept, Roots, Dir, Dirs, CommandType, NoCommand
<1>9. HelperTypes'
  BY DEF HelperTypes, NoChild, ChildTypes, IsChild
<1>10. IsFiniteSet(dirs)'
  BY DEF Ownership
<1> QED BY <1>1, <1>2, <1>3, <1>4, <1>5, <1>6, <1>7, <1>8, <1>9, <1>10

\* The death of the service preserves the invariant: what it held becomes
\* stale.
LEMMA ServiceDiesKeeps ==
  ASSUME SessionInv, ServiceDies
  PROVE  SessionInv'
<1> USE NoneAssumption, SessionBounds DEF SessionInv, Types, ServiceDies
<1>1. Scalars'
  <2>1. \A k \in 1..MaxServices : k < MaxServices => k + 1 \in 1..MaxServices
    OBVIOUS
  <2> QED BY <2>1 DEF Scalars
<1>2. (hooks \in [1..MaxLaunches -> HookType])'
  BY HookFacts DEF Scalars, Ownership
<1>3. (command \in CommandType)'
  BY DEF Scalars, Ownership, CommandType, NoCommand, Dir, Dirs
<1>4. ChildTypes'
  BY DEF ChildTypes, IsChild, Alive, Building, NoChild, CommandType
<1>5. (dirs \subseteq Dirs /\ stuck \subseteq Dirs)'
  BY DEF Scalars, Ownership, Progress, Dirs, Dir, CommandType
<1>6. Ownership'
  <2>1. \A d \in dirs : d.owner <= service'
    <3> SUFFICES ASSUME NEW d \in dirs PROVE d.owner <= service + 1
      OBVIOUS
    <3>1. d.owner \in Nat /\ service \in Nat /\ d.owner <= service
      BY Owners
    <3> QED BY <3>1
  <2> QED BY <2>1 DEF Ownership, NoCommand
<1>7. Progress'
  BY DEF Scalars, Ownership, Progress, Dir, ChildTypes, IsChild, Alive, Building, CommandType, NoCommand, NoChild
<1>8. Kept'
  <2>1. \A d \in dirs : d.owner # service'
    <3> SUFFICES ASSUME NEW d \in dirs PROVE d.owner # service + 1
      OBVIOUS
    <3>1. d.owner \in Nat /\ service \in Nat /\ d.owner <= service
      BY Owners
    <3> QED BY <3>1
  <2> QED BY <2>1, HeldFacts DEF Kept, NoCommand
<1>9. HelperTypes'
  BY DEF HelperTypes, NoChild, ChildTypes, IsChild
<1>10. IsFiniteSet(dirs)'
  BY DEF Ownership
<1> QED BY <1>1, <1>2, <1>3, <1>4, <1>5, <1>6, <1>7, <1>8, <1>9, <1>10

----------------------------------------------------------------------------
(* The cleanup of a root. *)

\* The directories that a launch holds are no roots.
LEMMA HeldKinds ==
  ASSUME SessionInv, NEW d \in ToSet(held)
  PROVE  d.kind \in {"notify", "controller"} /\ d # command.root
<1>1. held \in {<<>>, <<Dir("notify")>>, <<Dir("notify"), Dir("controller")>>}
  BY DEF SessionInv, Ownership
<1>2. d \in {Dir("notify"), Dir("controller")}
  <2> DEFINE n == Dir("notify")
             c == Dir("controller")
  <2>1. held = <<>> \/ held = <<n>> \/ held = <<n, c>>
    BY <1>1
  <2> HIDE DEF n, c
  <2>2. ToSet(<<>>) = {} /\ ToSet(<<n>>) = {n} /\ ToSet(<<n, c>>) = {n, c}
    BY HeldFacts
  <2>3. d \in {n, c}
    BY <2>1, <2>2
  <2> QED BY <2>3 DEF n, c
<1>3. d.kind \in {"notify", "controller"}
  BY <1>2 DEF Dir
<1>4. command.root # None => command.root.kind \in {"root", "probe"}
  BY DEF SessionInv, Ownership
<1>5. d # None
  BY NoneAssumption DEF SessionInv, Types, Kept
<1> QED BY <1>3, <1>4, <1>5

\* What removing the root of a command leaves: the root is gone or is stuck.
LEMMA CleanRootFacts ==
  ASSUME SessionInv, CleanRoot
  PROVE  /\ faults' \in 0..MaxFaults
         /\ dirs' \subseteq dirs
         /\ stuck' \subseteq Dirs /\ stuck \subseteq stuck'
         /\ \A d \in dirs' : d # command.root \/ d \in stuck'
         /\ ToSet(held) \subseteq dirs'
         /\ IsFiniteSet(dirs')
<1>1. /\ faults \in 0..MaxFaults /\ dirs \subseteq Dirs /\ stuck \subseteq Dirs
      /\ ToSet(held) \subseteq dirs /\ IsFiniteSet(dirs)
  BY DEF SessionInv, Types, Scalars, Ownership, Kept
<1>2. \A d \in ToSet(held) : d # command.root
  BY HeldKinds
<1>3. faults' = faults \/ Fault(1)
  BY DEF CleanRoot
<1>4. faults' \in 0..MaxFaults
  BY <1>1, <1>3, FaultBound
<1>5. CASE dirs' = dirs \ {command.root} /\ stuck' = stuck
  <2>1. dirs' \subseteq dirs /\ dirs' \subseteq dirs \cup {None}
    BY <1>5
  <2>2. IsFiniteSet(dirs')
    BY <1>1, <2>1, FiniteDirs
  <2> QED BY <1>1, <1>2, <1>4, <1>5, <2>1, <2>2
<1>6. CASE /\ command.root \in dirs
           /\ stuck' = stuck \cup {command.root} /\ dirs' = dirs
  BY <1>1, <1>4, <1>6
<1> QED BY <1>5, <1>6 DEF CleanRoot

\* The end of the probe preserves the invariant.
LEMMA ProbeEndsKeeps ==
  ASSUME SessionInv, ProbeEnds
  PROVE  SessionInv'
<1> USE NoneAssumption, SessionBounds DEF SessionInv, Types
<1>0. /\ CleanRoot
      /\ probe' \in {"ok", "failed"}
      /\ pc \in {"start failed", "probe exit"}
      /\ pc' = "command" /\ command' = NoCommand /\ child' = NoChild
      /\ UNCHANGED <<damage, service, launch, held, hooks, launches, notices>>
  BY DEF ProbeEnds
<1>00. /\ faults' \in 0..MaxFaults
       /\ dirs' \subseteq dirs
       /\ stuck' \subseteq Dirs /\ stuck \subseteq stuck'
       /\ \A d \in dirs' : d # command.root \/ d \in stuck'
       /\ ToSet(held) \subseteq dirs'
       /\ IsFiniteSet(dirs')
  BY <1>0, CleanRootFacts
<1>1. Scalars'
  BY <1>0, <1>00 DEF Scalars
<1>2. (hooks \in [1..MaxLaunches -> HookType])'
  BY <1>0
<1>3. (command \in CommandType)'
  BY <1>0 DEF CommandType, NoCommand
<1>4. ChildTypes'
  BY <1>0 DEF ChildTypes, IsChild, NoChild
<1>5. (dirs \subseteq Dirs /\ stuck \subseteq Dirs)'
  BY <1>00
<1>6. Ownership'
  BY <1>0, <1>00 DEF Ownership, NoCommand, Dir
<1>7. Progress'
  BY <1>0 DEF Progress, NoCommand, NoChild, Alive, Building
<1>8. Kept'
  BY <1>0, <1>00 DEF Kept, Roots, NoCommand
<1>9. HelperTypes'
  BY <1>0, NoMounts
<1>10. IsFiniteSet(dirs)'
  BY <1>00
<1> QED BY <1>1, <1>2, <1>3, <1>4, <1>5, <1>6, <1>7, <1>8, <1>9, <1>10

\* The command loses its root.
LEMMA Rootless ==
  ASSUME command \in CommandType
  PROVE  /\ [command EXCEPT !.root = None] \in CommandType
         /\ [command EXCEPT !.root = None].root = None
  BY DEF CommandType

\* CommandDirect makes a command without a root, or none.
LEMMA CommandDirectFacts ==
  ASSUME SessionInv, NEW k \in Nat, CommandDirect(k)
  PROVE  /\ faults' \in 0..MaxFaults
         /\ command' \in CommandType /\ command'.root = None
         /\ pc' \in {"start", "unwind"}
<1>1. faults \in 0..MaxFaults
  BY DEF SessionInv, Types, Scalars
<1>2. k + 1 \in Nat
  OBVIOUS
<1>3. Fault(k) \/ Fault(k + 1)
  BY DEF CommandDirect
<1>4. faults' \in 0..MaxFaults
  BY <1>1, <1>2, <1>3, FaultBound
<1>5. pc' \in {"start", "unwind"} /\ \/ command' = NoCommand
                                     \/ command' = [NoCommand EXCEPT !.kind = "helper"]
                                     \/ command' = [NoCommand EXCEPT !.kind = "core"]
  BY DEF CommandDirect
<1>6. command' \in CommandType /\ command'.root = None
  <2>1. NoCommand \in CommandType /\ NoCommand.root = None
    BY DEF NoCommand, CommandType
  <2>2. \A v \in {"helper", "core"} : /\ [NoCommand EXCEPT !.kind = v] \in CommandType
                                      /\ [NoCommand EXCEPT !.kind = v].root = None
    BY <2>1 DEF CommandType
  <2>3. CASE command' = NoCommand
    BY <2>1, <2>3
  <2>4. CASE command' # NoCommand
    BY <1>5, <2>2, <2>4
  <2> QED BY <2>3, <2>4
<1> QED BY <1>4, <1>5, <1>6

\* A start that failed preserves the invariant.
LEMMA StartFailedKeeps ==
  ASSUME SessionInv, StartFailed
  PROVE  SessionInv'
<1> USE NoneAssumption, SessionBounds DEF SessionInv, Types
<1>0. /\ pc = "start failed" /\ child' = NoChild
      /\ UNCHANGED <<damage, service, launch, probe, held, hooks, launches, notices>>
  BY DEF StartFailed
<1>00. /\ faults' \in 0..MaxFaults
       /\ dirs' \subseteq dirs
       /\ stuck' \subseteq Dirs /\ stuck \subseteq stuck'
       /\ \A d \in dirs' : d # command.root \/ d \in stuck'
       /\ ToSet(held) \subseteq dirs'
       /\ IsFiniteSet(dirs')
       /\ command' \in CommandType /\ command'.root = None
       /\ pc' \in {"start failed", "start", "unwind"}
  <2>1. CASE CleanRoot /\ command' = [command EXCEPT !.root = None] /\ UNCHANGED pc
    BY <1>0, <2>1, CleanRootFacts, Rootless
  <2>2. CASE command.root = None /\ UNCHANGED <<dirs, stuck>>
             /\ (CommandDirect(0) \/ (pc' = "unwind" /\ UNCHANGED <<command, faults>>))
    <3>1. faults' \in 0..MaxFaults /\ command' \in CommandType /\ command'.root = None
          /\ pc' \in {"start", "unwind"}
      BY <2>2, CommandDirectFacts DEF Scalars
    <3>2. dirs \subseteq Dirs /\ None \notin dirs
      OBVIOUS
    <3>3. dirs' = dirs /\ stuck' = stuck /\ command.root = None
      BY <2>2
    <3>4. ToSet(held) \subseteq dirs
      BY DEF Ownership, Kept
    <3> QED BY <3>1, <3>2, <3>3, <3>4
  <2> QED BY <2>1, <2>2 DEF StartFailed
<1>1. Scalars'
  BY <1>0, <1>00 DEF Scalars
<1>2. (hooks \in [1..MaxLaunches -> HookType])'
  BY <1>0
<1>3. (command \in CommandType)'
  BY <1>00
<1>4. ChildTypes'
  BY <1>0 DEF ChildTypes, IsChild, NoChild
<1>5. (dirs \subseteq Dirs /\ stuck \subseteq Dirs)'
  BY <1>00
<1>6. Ownership'
  BY <1>0, <1>00 DEF Ownership, Dir
<1>7. Progress'
  BY <1>0, <1>00 DEF Progress, NoChild, Alive, Building
<1>8. Kept'
  BY <1>0, <1>00 DEF Kept, Roots
<1>9. HelperTypes'
  BY <1>0, NoMounts
<1>10. IsFiniteSet(dirs)'
  BY <1>00
<1> QED BY <1>1, <1>2, <1>3, <1>4, <1>5, <1>6, <1>7, <1>8, <1>9, <1>10

\* The listener of the launch's hook is closed with its directory.
LEMMA UnwindKeeps ==
  ASSUME SessionInv, Unwind
  PROVE  SessionInv'
<1> USE NoneAssumption, SessionBounds DEF SessionInv, Types
<1>0. /\ pc = "unwind" /\ launch \in Sessions /\ launches \in 1..MaxLaunches
      /\ UNCHANGED <<damage, service, probe, launches>>
      /\ notices' \in {notices, 0}
  BY LaunchNumber DEF Unwind, Progress
<1>00. child.pc \notin Alive
  BY <1>0 DEF Progress
<1>1. CASE /\ CleanRoot /\ command' = [command EXCEPT !.root = None]
           /\ UNCHANGED <<pc, child, launch, held, hooks>>
  <2>0. /\ faults' \in 0..MaxFaults
        /\ dirs' \subseteq dirs
        /\ stuck' \subseteq Dirs /\ stuck \subseteq stuck'
        /\ \A d \in dirs' : d # command.root \/ d \in stuck'
        /\ ToSet(held) \subseteq dirs'
        /\ IsFiniteSet(dirs')
        /\ command' \in CommandType /\ command'.root = None
    BY <1>1, CleanRootFacts, Rootless
  <2>1. Scalars'
    BY <1>0, <1>1, <2>0 DEF Scalars
  <2>2. (hooks \in [1..MaxLaunches -> HookType] /\ ChildTypes)'
    BY <1>1 DEF ChildTypes, IsChild
  <2>6. Ownership'
    BY <1>0, <1>1, <2>0 DEF Ownership, Dir
  <2>7. Progress'
    BY <1>0, <1>00, <1>1, <2>0 DEF Progress, Alive
  <2>8. Kept'
    BY <1>0, <1>1, <2>0 DEF Kept, Roots
  <2>9. HelperTypes'
    BY <1>1 DEF HelperTypes
  <2> QED BY <2>0, <2>1, <2>2, <2>6, <2>7, <2>8, <2>9
<1>2. CASE /\ command.root = None /\ held # <<>>
           /\ held' = Front(held)
           /\ \/ dirs' = dirs \ {Last(held)} /\ UNCHANGED <<stuck, faults>>
              \/ Fault(1) /\ stuck' = stuck \cup {Last(held)} /\ UNCHANGED dirs
           /\ hooks' = IF Last(held).kind = "notify"
                       THEN [hooks EXCEPT ![launches] = Closed(@)] ELSE hooks
           /\ UNCHANGED <<pc, child, launch, command>>
  <2>0. \/ held = <<Dir("notify")>> /\ held' = <<>> /\ Last(held) = Dir("notify")
        \/ /\ held = <<Dir("notify"), Dir("controller")>> /\ held' = <<Dir("notify")>>
           /\ Last(held) = Dir("controller")
    <3>1. held \in {<<Dir("notify")>>, <<Dir("notify"), Dir("controller")>>}
      BY <1>2 DEF Ownership
    <3>2. CASE held = <<Dir("notify")>>
      BY <1>2, <3>2, HeldFacts
    <3>3. CASE held = <<Dir("notify"), Dir("controller")>>
      BY <1>2, <3>3, HeldFacts
    <3> QED BY <3>1, <3>2, <3>3
  <2>0a. Last(held) \in ToSet(held)
    BY <2>0, HeldFacts
  <2>0b. /\ faults' \in 0..MaxFaults
         /\ dirs' \subseteq dirs /\ stuck \subseteq stuck' /\ stuck' \subseteq Dirs
         /\ \A d \in dirs' : d # Last(held) \/ d \in stuck'
         /\ \A d \in dirs : d # Last(held) => d \in dirs'
    <3>1. Last(held) \in Dirs
      BY <2>0a DEF Kept
    <3>2. faults' \in 0..MaxFaults
      BY <1>2, FaultBound DEF Scalars
    <3> QED BY <1>2, <3>1, <3>2
  <2>1. Scalars'
    BY <1>0, <1>2, <2>0b DEF Scalars
  <2>2. (hooks \in [1..MaxLaunches -> HookType])'
    <3> DEFINE h == Closed(hooks[launches])
    <3>1. hooks[launches] \in HookType
      BY <1>0
    <3>2. h \in HookType
      BY <3>1, HookFacts
    <3>3. hooks' = hooks \/ hooks' = [hooks EXCEPT ![launches] = h]
      BY <1>2
    <3> HIDE DEF h
    <3> QED BY <3>2, <3>3
  <2>3. ChildTypes'
    BY <1>2 DEF ChildTypes, IsChild
  <2>4. dirs' \subseteq dirs
    BY <2>0b
  <2>6. Ownership'
    <3>1. held' \in {<<>>, <<Dir("notify")>>}
      BY <2>0
    <3> QED BY <1>0, <1>2, <2>4, <3>1 DEF Ownership, Dir
  <2>7. Progress'
    BY <1>0, <1>00, <1>2 DEF Progress, Alive
  <2>8. Kept'
    <3>1. ToSet(held) = ToSet(held') \cup {Last(held)} /\ Last(held) \notin ToSet(held')
      <4>1. Dir("notify") # Dir("controller")
        BY DEF Dir
      <4>2. CASE held = <<Dir("notify")>> /\ held' = <<>> /\ Last(held) = Dir("notify")
        <5>1. ToSet(held) = {Dir("notify")} /\ ToSet(held') = {}
          BY <4>2, HeldFacts
        <5> QED BY <4>2, <5>1
      <4>3. CASE /\ held = <<Dir("notify"), Dir("controller")>> /\ held' = <<Dir("notify")>>
                 /\ Last(held) = Dir("controller")
        <5>1. ToSet(held) = {Dir("notify"), Dir("controller")} /\ ToSet(held') = {Dir("notify")}
          BY <4>3, HeldFacts
        <5> QED BY <4>1, <4>3, <5>1
      <4> QED BY <2>0, <4>2, <4>3
    <3>2. held' # <<>> => held # <<>>
      BY <1>2
    <3>3. \A d \in dirs' : d.owner = service => d \in ToSet(held') \cup Roots \cup stuck'
      BY <2>0b, <3>1 DEF Kept
    <3>4. ToSet(held') \subseteq dirs'
      BY <2>0b, <3>1 DEF Kept
    <3> QED BY <1>0, <1>2, <2>0b, <3>2, <3>3, <3>4 DEF Kept, Roots
  <2>9. HelperTypes'
    BY <1>2 DEF HelperTypes
  <2>10. IsFiniteSet(dirs')
    BY <2>4, FiniteDirs
  <2> QED BY <1>2, <2>0b, <2>1, <2>2, <2>3, <2>4, <2>6, <2>7, <2>8, <2>9, <2>10
<1>3. CASE /\ command.root = None /\ held = <<>>
           /\ pc' = "idle" /\ child' = NoChild /\ command' = NoCommand
           /\ launch' = None
           /\ UNCHANGED <<dirs, held, hooks, stuck, faults>>
  <2>1. Scalars'
    BY <1>0, <1>3 DEF Scalars
  <2>2. (command \in CommandType)'
    BY <1>3 DEF CommandType, NoCommand
  <2>3. ChildTypes'
    BY <1>3 DEF ChildTypes, IsChild, NoChild
  <2>6. Ownership'
    BY <1>0, <1>3 DEF Ownership, NoCommand, Dir
  <2>7. Progress'
    BY <1>3 DEF Progress, NoCommand, NoChild, Alive, Building
  <2>8. Kept'
    BY <1>0, <1>3 DEF Kept, Roots, NoCommand
  <2>9. HelperTypes'
    BY <1>3, NoMounts
  <2> QED BY <1>3, <2>1, <2>2, <2>3, <2>6, <2>7, <2>8, <2>9
<1> QED BY <1>1, <1>2, <1>3 DEF Unwind

----------------------------------------------------------------------------
(* The launchers. *)

\* Sweeping away roots of services before removes nothing of this one's.
LEMMA SweptFacts ==
  ASSUME SessionInv, NEW swept \in SUBSET StaleRoots
  PROVE  /\ \A d \in swept : d.kind \in {"root", "probe"} /\ d.owner # service
         /\ ToSet(held) \subseteq dirs \ swept
         /\ IsFiniteSet(dirs \ swept)
<1>1. \A d \in swept : d.kind \in {"root", "probe"} /\ d.owner # service
  BY DEF StaleRoots
<1>2. \A d \in ToSet(held) : d.kind \in {"notify", "controller"}
  BY HeldKinds
<1>3. ToSet(held) \subseteq dirs /\ IsFiniteSet(dirs)
  BY DEF SessionInv, Types, Ownership, Kept
<1>4. ToSet(held) \subseteq dirs \ swept
  BY <1>1, <1>2, <1>3
<1>5. IsFiniteSet(dirs \ swept)
  BY <1>3, FS_Difference
<1> QED BY <1>1, <1>3, <1>4, <1>5

\* The root that a command may have is a directory of this service.
LEMMA RootFacts ==
  ASSUME SessionInv, pc = "command", NEW purpose
  PROVE  /\ Root(purpose).kind \in {"root", "probe"}
         /\ Root(purpose).owner = service /\ service \in Nat
         /\ launches \in 1..MaxLaunches /\ Root(purpose) \in Dirs
<1>1. launches \in 1..MaxLaunches /\ service \in 1..MaxServices
  BY LaunchNumber DEF SessionInv, Types, Scalars
<1>2. Root(purpose) = [kind |-> IF purpose = "probe" THEN "probe" ELSE "root",
                       owner |-> service, launch |-> launches]
  BY DEF Root, Dir
<1> QED BY <1>1, <1>2, SessionBounds DEF Dirs

\* A command without a root, or none; a root that was made may be left.
LEMMA NoRootKeeps ==
  ASSUME SessionInv, pc = "command",
         NEW swept \in SUBSET StaleRoots, NEW purpose, NEW left \in SUBSET {Root(purpose)},
         dirs' = (dirs \ swept) \cup left, stuck' = (stuck \ swept) \cup left,
         faults' \in 0..MaxFaults, command' \in CommandType, command'.root = None,
         pc' \in {"command", "start", "unwind"},
         probe' \in {"unknown", "ok", "failed"},
         UNCHANGED <<child, damage, service, launch, held, hooks, launches, notices>>
  PROVE  SessionInv'
<1> USE NoneAssumption, SessionBounds DEF SessionInv, Types
<1>0. /\ \A d \in swept : d.kind \in {"root", "probe"} /\ d.owner # service
      /\ ToSet(held) \subseteq dirs \ swept
      /\ IsFiniteSet(dirs \ swept)
  BY SweptFacts
<1> DEFINE root == Root(purpose)
<1>0a. /\ root.kind \in {"root", "probe"} /\ root.owner = service /\ service \in Nat
       /\ root \in Dirs
  BY RootFacts
<1>0b. left \subseteq {root}
  OBVIOUS
<1> HIDE DEF root
<1>00. child.pc \notin Alive
  BY DEF Progress
<1>1. Scalars'
  BY DEF Scalars
<1>4. ChildTypes'
  BY DEF ChildTypes, IsChild
<1>5. (dirs \subseteq Dirs /\ stuck \subseteq Dirs)'
  BY <1>0a, <1>0b
<1>6. Ownership'
  <2>1. \A d \in dirs' : d.owner <= service
    BY <1>0a, <1>0b DEF Ownership
  <2> QED BY <2>1 DEF Ownership, Dir
<1>7. Progress'
  BY <1>00 DEF Progress, Alive
<1>8. Kept'
  <2>1. command.root = None /\ Roots = {}
    BY DEF Progress, Roots
  <2>2. \A d \in dirs' : d.owner = service => d \in ToSet(held) \cup stuck'
    BY <1>0, <2>1 DEF Kept
  <2>3. ToSet(held) \subseteq dirs'
    BY <1>0
  <2>4. held # <<>> =>
          \A d \in dirs' : d.kind = "notify" /\ d.owner # service => d \in stuck'
    BY <1>0, <1>0a, <1>0b DEF Kept
  <2> QED BY <2>2, <2>3, <2>4 DEF Kept, Roots
<1>9. HelperTypes'
  BY DEF HelperTypes
<1>10. IsFiniteSet(dirs)'
  <2>1. IsFiniteSet((dirs \ swept) \cup {root})
    BY <1>0, FS_AddElement
  <2> QED BY <1>0b, <2>1, FS_Subset
<1> QED BY <1>1, <1>4, <1>5, <1>6, <1>7, <1>8, <1>9, <1>10

\* A command with a root of its own.
LEMMA CommandSandboxKeeps ==
  ASSUME SessionInv, pc = "command", NEW purpose \in {"core", "probe"},
         CommandSandbox(purpose), probe' = probe,
         UNCHANGED <<child, damage, service, launch, held, hooks, launches, notices>>
  PROVE  SessionInv'
<1> USE NoneAssumption, SessionBounds DEF SessionInv, Types
<1> DEFINE root == Root(purpose)
<1>0. PICK kept \in SUBSET StaleRoots :
      /\ dirs' = (dirs \ (StaleRoots \ kept)) \cup {root}
      /\ stuck' = (stuck \ StaleRoots) \cup kept
      /\ Fault(Cardinality(kept))
      /\ command' = [kind |-> "sandbox", root |-> root,
                     fallback |-> launch.mode = "auto", for |-> purpose]
      /\ pc' = "start"
  BY DEF CommandSandbox
<1> DEFINE swept == StaleRoots \ kept
<1>1. /\ dirs' = (dirs \ swept) \cup {root}
      /\ stuck' = (stuck \ StaleRoots) \cup kept
      /\ Fault(Cardinality(kept))
      /\ command' = [kind |-> "sandbox", root |-> root,
                     fallback |-> launch.mode = "auto", for |-> purpose]
      /\ pc' = "start"
  BY <1>0
<1>2. /\ root.kind \in {"root", "probe"} /\ root.owner = service
      /\ launches \in 1..MaxLaunches /\ root \in Dirs
  BY RootFacts
<1>3. /\ \A d \in swept : d.kind \in {"root", "probe"} /\ d.owner # service
      /\ ToSet(held) \subseteq dirs \ swept
      /\ IsFiniteSet(dirs \ swept)
  <2>1. swept \in SUBSET StaleRoots
    OBVIOUS
  <2> HIDE DEF swept
  <2> QED BY <2>1, SweptFacts
<1> HIDE DEF root
<1>4. command.root = None /\ Roots = {} /\ child.pc \notin Alive /\ launch \in Sessions
  BY DEF Progress, Roots
<1>5. StaleRoots \subseteq dirs /\ kept \subseteq dirs
  BY DEF StaleRoots
<1>6. faults' \in 0..MaxFaults
  <2>1. IsFiniteSet(kept)
    BY <1>5, FS_Subset
  <2>2. Cardinality(kept) \in Nat
    BY <2>1, FS_CardinalityType
  <2>3. faults \in 0..MaxFaults
    BY DEF Scalars
  <2> QED BY <1>1, <2>2, <2>3, FaultBound
<1>7. Scalars'
  BY <1>1, <1>6 DEF Scalars
<1>8. (command \in CommandType)' /\ command'.root = root /\ command'.kind # "core"
  <2>1. (launch.mode = "auto") \in BOOLEAN
    OBVIOUS
  <2> DEFINE fb == launch.mode = "auto"
  <2>2. command' = [kind |-> "sandbox", root |-> root, fallback |-> fb, for |-> purpose]
    BY <1>1
  <2>3. fb \in BOOLEAN
    BY <2>1
  <2> HIDE DEF fb
  <2> QED BY <1>2, <2>2, <2>3 DEF CommandType
<1>9. ChildTypes' /\ HelperTypes'
  BY DEF ChildTypes, IsChild, HelperTypes
<1>10. (dirs \subseteq Dirs /\ stuck \subseteq Dirs)'
  BY <1>1, <1>2, <1>5
<1>11. Ownership'
  <2>1. service \in Nat /\ root.owner <= service
    BY <1>2 DEF Scalars
  <2>2. \A d \in dirs' : d.owner <= service
    BY <1>1, <2>1 DEF Ownership
  <2>5. launches' >= 1
    BY <1>2
  <2>6. held' \in {<<>>, <<Dir("notify")'>>, <<Dir("notify")', Dir("controller")'>>}
    BY DEF Ownership, Dir
  <2>7. command'.root # None => command'.root.kind \in {"root", "probe"} /\ command'.root.owner = service
    BY <1>2, <1>8
  <2> QED BY <1>8, <2>2, <2>5, <2>6, <2>7 DEF Ownership
<1>12. Progress'
  <2>1. command'.root \in dirs'
    BY <1>1, <1>8
  <2>2. child'.pc \notin Alive /\ child' = child
    BY <1>4
  <2> QED BY <1>1, <1>4, <2>1, <2>2 DEF Progress, Alive
<1>13. Kept'
  <2>1. command'.root # None /\ Roots' = {root}
    BY <1>2, <1>8 DEF Roots
  <2>2. ASSUME NEW d \in dirs', d.owner = service
        PROVE  d \in ToSet(held) \cup {root} \cup stuck'
    <3>1. CASE d = root
      BY <3>1
    <3>2. CASE d # root
      <4>1. d \in dirs
        BY <1>1, <2>2, <3>2
      <4>2. d \in ToSet(held) \cup stuck
        BY <1>4, <2>2, <4>1 DEF Kept
      <4>3. d \notin StaleRoots
        BY <2>2 DEF StaleRoots
      <4> QED BY <1>1, <4>2, <4>3
    <3> QED BY <3>1, <3>2
  <2>3. ASSUME NEW d \in dirs', d.kind \in {"root", "probe"}, d.owner # service
        PROVE  d \in stuck'
    <3>1. d \in dirs \ swept
      BY <1>1, <1>2, <2>3
    <3>2. d \in StaleRoots
      BY <2>3, <3>1 DEF StaleRoots
    <3> QED BY <1>1, <3>1, <3>2
  <2>4. ToSet(held) \subseteq dirs'
    BY <1>1, <1>3
  <2>5. held # <<>> =>
          \A d \in dirs' : d.kind = "notify" /\ d.owner # service => d \in stuck'
    BY <1>1, <1>2 DEF Kept, StaleRoots
  <2> QED BY <2>1, <2>2, <2>3, <2>4, <2>5 DEF Kept
<1>14. IsFiniteSet(dirs')
  BY <1>1, <1>3, FS_AddElement
<1> QED BY <1>7, <1>8, <1>9, <1>10, <1>11, <1>12, <1>13, <1>14

\* Building the command, with or without a root, preserves the invariant.
LEMMA CommandKeeps ==
  ASSUME SessionInv, Command
  PROVE  SessionInv'
<1>0. /\ pc = "command"
      /\ UNCHANGED <<child, damage, service, launch, held, hooks, launches, notices>>
  BY DEF Command
<1>1. /\ faults \in 0..MaxFaults /\ command \in CommandType
      /\ probe \in {"unknown", "ok", "failed"}
  BY DEF SessionInv, Types, Scalars
<1>2. command.root = None
  BY <1>0 DEF SessionInv, Progress
<1>3. CASE CommandDirect(0) /\ UNCHANGED <<dirs, stuck, probe>>
  <2>1. faults' \in 0..MaxFaults /\ command' \in CommandType /\ command'.root = None
        /\ pc' \in {"start", "unwind"}
    BY <1>3, CommandDirectFacts
  <2>2. {} \in SUBSET StaleRoots /\ {} \in SUBSET {Root("core")}
    OBVIOUS
  <2>3. dirs' = (dirs \ {}) \cup {} /\ stuck' = (stuck \ {}) \cup {}
    BY <1>3
  <2> QED BY <1>0, <1>1, <1>3, <2>1, <2>2, <2>3, NoRootKeeps
<1>4. CASE CommandSandbox("core") /\ UNCHANGED probe
  BY <1>0, <1>4, CommandSandboxKeeps
<1>5. CASE CommandSandbox("probe") /\ UNCHANGED probe
  BY <1>0, <1>5, CommandSandboxKeeps
<1>6. CASE /\ \E left \in SUBSET {Root("probe")} :
                CommandFails(left) /\ Fault(1 + Cardinality(left))
           /\ probe' = "failed" /\ UNCHANGED <<command, pc>>
  <2>0. PICK left \in SUBSET {Root("probe")} :
          CommandFails(left) /\ Fault(1 + Cardinality(left))
    BY <1>6
  <2>1. PICK swept \in SUBSET StaleRoots :
          dirs' = (dirs \ swept) \cup left /\ stuck' = (stuck \ swept) \cup left
    BY <2>0 DEF CommandFails
  <2>2. faults' \in 0..MaxFaults
    <3>1. 1 + Cardinality(left) \in Nat
      BY OneMore
    <3> QED BY <1>1, <2>0, <3>1, FaultBound
  <2> QED BY <1>0, <1>1, <1>2, <1>6, <2>1, <2>2, NoRootKeeps
<1>7. CASE /\ \E left \in SUBSET {Root("core")} :
                CommandFails(left) /\ Fault(1 + Cardinality(left))
           /\ pc' = "unwind" /\ UNCHANGED <<probe, command>>
  <2>0. PICK left \in SUBSET {Root("core")} :
          CommandFails(left) /\ Fault(1 + Cardinality(left))
    BY <1>7
  <2>1. PICK swept \in SUBSET StaleRoots :
          dirs' = (dirs \ swept) \cup left /\ stuck' = (stuck \ swept) \cup left
    BY <2>0 DEF CommandFails
  <2>2. faults' \in 0..MaxFaults
    <3>1. 1 + Cardinality(left) \in Nat
      BY OneMore
    <3> QED BY <1>1, <2>0, <3>1, FaultBound
  <2> QED BY <1>0, <1>1, <1>2, <1>7, <2>1, <2>2, NoRootKeeps
<1>8. CASE /\ \E left \in SUBSET {Root("core")} :
                CommandFails(left) /\ CommandDirect(1 + Cardinality(left))
           /\ UNCHANGED probe
  <2>0. PICK left \in SUBSET {Root("core")} :
          CommandFails(left) /\ CommandDirect(1 + Cardinality(left))
    BY <1>8
  <2>1. PICK swept \in SUBSET StaleRoots :
          dirs' = (dirs \ swept) \cup left /\ stuck' = (stuck \ swept) \cup left
    BY <2>0 DEF CommandFails
  <2>2. faults' \in 0..MaxFaults /\ command' \in CommandType /\ command'.root = None
        /\ pc' \in {"start", "unwind"}
    <3>1. 1 + Cardinality(left) \in Nat
      BY OneMore
    <3> QED BY <2>0, <3>1, CommandDirectFacts
  <2> QED BY <1>0, <1>1, <1>8, <2>1, <2>2, NoRootKeeps
<1> QED BY <1>3, <1>4, <1>5, <1>6, <1>7, <1>8 DEF Command

----------------------------------------------------------------------------
(* The helper. *)

\* What any step of the helper does, as far as the service is concerned.
HelperEffect ==
  /\ IsChild' /\ HelperTypes'
  /\ child'.root = child.root
  /\ child'.pc \in Alive \cup {"failed"}
  /\ child'.pc \in Building => child.root # None
  /\ child'.pc \in Alive => child'.conf = child.conf /\ dirs' = dirs
  /\ faults' \in 0..MaxFaults
  /\ dirs' \subseteq dirs /\ dirs \ {child.root} \subseteq dirs'

\* A step of the helper with such an effect preserves the invariant.
LEMMA EffectKeeps ==
  ASSUME SessionInv, child.pc \in Alive, HelperEffect, UNCHANGED sessionVars
  PROVE  SessionInv'
<1> USE NoneAssumption, SessionBounds DEF SessionInv, Types
<1>1. Scalars'
  BY DEF Scalars, HelperEffect, sessionVars
<1>2. (hooks \in [1..MaxLaunches -> HookType] /\ command \in CommandType)'
  BY DEF sessionVars
<1>3. ChildTypes'
  BY DEF HelperEffect, ChildTypes
<1>4. (dirs \subseteq Dirs /\ stuck \subseteq Dirs)' /\ HelperTypes'
  BY DEF HelperEffect, sessionVars
<1>5. IsFiniteSet(dirs')
  BY FS_Subset DEF HelperEffect
<1>6. child.root = command.root
  BY DEF Progress
<1>7. Ownership'
  <2>2. \A d \in dirs' : d.owner <= service'
    BY DEF HelperEffect, Ownership, sessionVars
  <2>3. UNCHANGED <<pc, command, held, service, launches>>
    BY DEF sessionVars
  <2> QED BY <2>2, <2>3 DEF Ownership, Dir
<1>8. Progress'
  <2>1. UNCHANGED <<pc, launch, command, held, service, launches>>
    BY DEF sessionVars
  <2>2. pc \in {"await", "probe exit", "wait", "running"} /\ child.conf \in Configs
        /\ (command.root # None => command.root \in dirs)
    BY DEF Progress
  <2>3. child'.pc \in Building => child'.root # None
    BY DEF HelperEffect
  <2>4. child'.pc \in Alive =>
          /\ child'.root = command.root /\ child'.conf \in Configs
          /\ command.root # None => command.root \in dirs'
    BY <1>6, <2>2 DEF HelperEffect
  <2> QED BY <2>1, <2>2, <2>3, <2>4 DEF Progress, Dir
<1>9. Kept'
  <2>1. UNCHANGED <<command, held, service, stuck>>
    BY DEF sessionVars
  <2>2. dirs' \subseteq dirs
    BY DEF HelperEffect
  <2>3. ToSet(held) \subseteq dirs'
    <3> SUFFICES ASSUME NEW d \in ToSet(held) PROVE d \in dirs'
      OBVIOUS
    <3>1. d \in dirs /\ d # child.root
      BY <1>6, HeldKinds DEF Kept
    <3> QED BY <3>1 DEF HelperEffect
  <2> QED BY <2>1, <2>2, <2>3 DEF Kept, Roots
<1> QED BY <1>1, <1>2, <1>3, <1>4, <1>5, <1>7, <1>8, <1>9

\* A helper that failed has no mounts.
LEMMA FailedFields ==
  /\ Failed(child).pc = "failed" /\ Failed(child).root = child.root
  /\ Failed(child).mounts = <<>> /\ Failed(child).table = <<>>
  /\ Failed(child).mounted = <<>>
  /\ child' = Failed(child) => IsChild' /\ HelperTypes'
<1>1. /\ Failed(child).pc = "failed" /\ Failed(child).root = child.root
      /\ Failed(child).mounts = <<>> /\ Failed(child).table = <<>>
      /\ Failed(child).mounted = <<>>
  BY DEF Failed, NoChild
<1>2. child' = Failed(child) => IsChild'
  BY DEF Failed, NoChild, IsChild
<1> QED BY <1>1, <1>2, NoMounts

\* The end of a helper: it has at most removed its root.
LEMMA FailedEffect ==
  ASSUME SessionInv, NEW k \in Nat, Fault(k), child' = Failed(child),
         dirs' \in {dirs, dirs \ {child.root}}
  PROVE  HelperEffect
<1>1. faults' \in 0..MaxFaults
  <2>1. faults \in 0..MaxFaults
    BY DEF SessionInv, Types, Scalars
  <2> QED BY <2>1, FaultBound
<1>2. IsChild' /\ HelperTypes' /\ child'.pc = "failed" /\ child'.root = child.root
  BY FailedFields
<1> QED BY <1>1, <1>2 DEF HelperEffect, Alive, Building

\* A failure with its cleanup has such an effect.
LEMMA CleanupEffect ==
  ASSUME SessionInv, NEW table, NEW paths, NEW S, IsFiniteSet(S), NEW k \in Nat,
         FailsAfterCleanup(table, paths, S, k)
  PROVE  HelperEffect
<1>1. Cardinality(S) \in Nat
  BY FS_CardinalityType
<1>2. child' = Failed(child) /\ dirs' \in {dirs, dirs \ {child.root}}
  BY DEF FailsAfterCleanup
<1>3. PICK m \in {0, 1} : Fault(k + Cardinality(S) + m)
  BY DEF FailsAfterCleanup
<1>4. k + Cardinality(S) + m \in Nat
  BY <1>1
<1> QED BY <1>2, <1>3, <1>4, FailedEffect

\* A sequence has finitely many elements.
LEMMA FiniteRange ==
  ASSUME NEW E, NEW s \in Seq(E)
  PROVE  IsFiniteSet(ToSet(s))
<1>1. IsFiniteSet(1..Len(s))
  BY FS_Interval
<1>2. ToSet(s) = {s[i] : i \in 1..Len(s)}
  BY DEF ToSet
<1> DEFINE f == [i \in 1..Len(s) |-> s[i]]
<1>3. f \in Surjection(1..Len(s), ToSet(s))
  BY <1>2 DEF Surjection
<1> HIDE DEF f
<1> QED BY <1>1, <1>3, FS_Surjection

\* So has a failure that unmounts what the helper has mounted.
LEMMA CleansListEffect ==
  ASSUME SessionInv, NEW table, NEW k \in Nat, CleansList(table, k)
  PROVE  HelperEffect
<1>1. PICK S \in SUBSET (ToSet(child.mounted) \cup {<<>>}) :
        FailsAfterCleanup(table, Append(Reverse(child.mounted), <<>>), S, k)
  BY DEF CleansList
<1>2. IsFiniteSet(ToSet(child.mounted) \cup {<<>>})
  <2>1. child.mounted \in Seq(Path)
    BY DEF SessionInv, Types, HelperTypes
  <2>2. IsFiniteSet(ToSet(child.mounted))
    BY <2>1, FiniteRange
  <2> QED BY <2>2, FS_AddElement
<1>3. IsFiniteSet(S)
  BY <1>2, FS_Subset
<1> QED BY <1>1, <1>3, CleanupEffect

\* The mount points of a table are paths.
LEMMA PointsType ==
  ASSUME NEW t \in Seq(MountType)
  PROVE  /\ [i \in DOMAIN t |-> t[i].at] \in Seq(Path)
         /\ Len([i \in DOMAIN t |-> t[i].at]) = Len(t)
<1>1. DOMAIN t = 1..Len(t) /\ Len(t) \in Nat /\ \A i \in DOMAIN t : t[i] \in MountType
  OBVIOUS
<1>2. \A i \in DOMAIN t : t[i].at \in Path
  BY <1>1 DEF MountType
<1> QED BY <1>1, <1>2

\* So has a failure that unmounts all below the root.
LEMMA CleansRootEffect ==
  ASSUME SessionInv, CleansRoot
  PROVE  HelperEffect
<1> DEFINE points == Reverse([i \in DOMAIN child.table |-> child.table[i].at])
<1>1. CASE (Fault(1) \/ Fault(2)) /\ child' = Failed(child) /\ UNCHANGED <<dirs, damage>>
  BY <1>1, FailedEffect
<1>2. CASE \E S \in SUBSET ToSet(points) : FailsAfterCleanup(child.table, points, S, 1)
  <2>1. PICK S \in SUBSET ToSet(points) : FailsAfterCleanup(child.table, points, S, 1)
    BY <1>2
  <2>2. points \in Seq(Path)
    <3>1. child.table \in Seq(MountType)
      BY DEF SessionInv, Types, HelperTypes
    <3>2. [i \in DOMAIN child.table |-> child.table[i].at] \in Seq(Path)
      BY <3>1, PointsType
    <3> QED BY <3>2, ReverseFacts
  <2> HIDE DEF points
  <2>3. IsFiniteSet(S)
    BY <2>2, FiniteRange, FS_Subset
  <2> QED BY <2>1, <2>3, CleanupEffect
<1>3. CASE FailsAfterCleanup(child.table, <<>>, {}, 2)
  <2>1. IsFiniteSet({})
    BY FS_EmptySet
  <2> QED BY <1>3, <2>1, CleanupEffect
<1> QED BY <1>1, <1>2, <1>3 DEF CleansRoot

\* A step in which the helper goes on.
LEMMA GoesOnEffect ==
  ASSUME SessionInv, child.pc \in Alive,
         IsChild', HelperTypes',
         child'.root = child.root, child'.conf = child.conf,
         child'.pc \in Alive, child'.pc \in Building => child.root # None,
         faults' = faults \/ Fault(1), dirs' = dirs
  PROVE  HelperEffect
<1>1. faults' \in 0..MaxFaults
  <2>1. faults \in 0..MaxFaults
    BY DEF SessionInv, Types, Scalars
  <2> QED BY <2>1, FaultBound
<1>2. child.root # None => child.root \in dirs
  BY DEF SessionInv, Progress
<1> QED BY <1>1, <1>2 DEF HelperEffect

\* So has a failure without a cleanup.
LEMMA FailsPlainlyEffect ==
  ASSUME SessionInv, FailsPlainly
  PROVE  HelperEffect
  BY FailedEffect DEF FailsPlainly

\* The plan of a configuration is a sequence of requests.
LEMMA PlanType ==
  ASSUME NEW c \in Configs
  PROVE  Plan(c) \in Seq(RequestType)
  BY PlanFacts DEF Merges

\* Decoding the configuration has such an effect.
LEMMA DecodeEffect ==
  ASSUME SessionInv, Decode
  PROVE  HelperEffect
<1>0. child.pc = "decode" /\ child.pc \in Alive
  BY DEF Decode, Alive
<1>1. IsChild /\ HelperTypes /\ child.conf \in Configs
  BY <1>0 DEF SessionInv, Types, ChildTypes, Progress
<1>2. CASE /\ child.root = None /\ child' = [child EXCEPT !.pc = "exec"]
           /\ UNCHANGED <<dirs, damage, faults>>
  <2>1. /\ child'.pc = "exec" /\ child'.root = child.root /\ child'.conf = child.conf
        /\ child'.mounts = child.mounts /\ child'.table = child.table
        /\ child'.mounted = child.mounted /\ IsChild'
    BY <1>1, <1>2 DEF IsChild
  <2>2. HelperTypes'
    BY <1>1, <2>1 DEF HelperTypes
  <2>3. child'.pc \in Alive /\ child'.pc \notin Building
    BY <2>1 DEF Alive, Building
  <2> QED BY <1>0, <1>2, <2>1, <2>2, <2>3, GoesOnEffect
<1>3. CASE /\ child.root # None
           /\ child' = [child EXCEPT !.pc = "bind", !.mounts = Plan(child.conf)]
           /\ UNCHANGED <<dirs, damage, faults>>
  <2> DEFINE p == Plan(child.conf)
  <2>0. p \in Seq(RequestType) /\ child' = [child EXCEPT !.pc = "bind", !.mounts = p]
    BY <1>1, <1>3, PlanType
  <2> HIDE DEF p
  <2>1. /\ child'.pc = "bind" /\ child'.root = child.root /\ child'.conf = child.conf
        /\ child'.mounts = p /\ child'.table = child.table
        /\ child'.mounted = child.mounted /\ IsChild'
    BY <1>1, <2>0 DEF IsChild
  <2>2. HelperTypes'
    BY <1>1, <2>0, <2>1 DEF HelperTypes
  <2>3. child'.pc \in Alive
    BY <2>1 DEF Alive, Building
  <2> QED BY <1>0, <1>3, <2>1, <2>2, <2>3, GoesOnEffect
<1> QED BY <1>2, <1>3, FailsPlainlyEffect DEF Decode, Plan

\* Binding the root to itself has such an effect.
LEMMA BindRootEffect ==
  ASSUME SessionInv, BindRoot
  PROVE  HelperEffect
<1>0. child.pc = "bind" /\ child.pc \in Alive /\ child.pc \in Building
  BY DEF BindRoot, Alive, Building
<1>1. IsChild /\ HelperTypes /\ child.root # None
  BY <1>0 DEF SessionInv, Types, ChildTypes, Progress
<1>2. CASE /\ child' = [child EXCEPT !.pc = "private",
                                     !.table = <<Mount(<<>>, "root", FALSE)>>]
           /\ UNCHANGED <<dirs, damage, faults>>
  <2> DEFINE t == <<Mount(<<>>, "root", FALSE)>>
  <2>0. t \in Seq(MountType) /\ child' = [child EXCEPT !.pc = "private", !.table = t]
    <3>1. Mount(<<>>, "root", FALSE) \in MountType
      BY DEF Mount, MountType, Path
    <3>2. \A x \in MountType : <<x>> \in Seq(MountType)
      OBVIOUS
    <3>3. t \in Seq(MountType)
      BY <3>1, <3>2
    <3> QED BY <1>2, <3>3
  <2> HIDE DEF t
  <2>1. /\ child'.pc = "private" /\ child'.root = child.root /\ child'.conf = child.conf
        /\ child'.mounts = child.mounts /\ child'.table = t
        /\ child'.mounted = child.mounted /\ IsChild'
    BY <1>1, <2>0 DEF IsChild
  <2>2. HelperTypes'
    BY <1>1, <2>0, <2>1 DEF HelperTypes
  <2>3. child'.pc \in Alive
    BY <2>1 DEF Alive, Building
  <2> QED BY <1>0, <1>1, <1>2, <2>1, <2>2, <2>3, GoesOnEffect
<1> QED BY <1>2, FailsPlainlyEffect DEF BindRoot

\* The helper only gets to another place.
LEMMA PlaceEffect ==
  ASSUME SessionInv, child.pc \in Alive, NEW v \in Alive,
         child' = [child EXCEPT !.pc = v], v \in Building => child.root # None,
         UNCHANGED <<dirs, damage, faults>>
  PROVE  HelperEffect
<1>1. IsChild /\ HelperTypes
  BY DEF SessionInv, Types, ChildTypes
<1>2. /\ child'.pc = v /\ child'.root = child.root /\ child'.conf = child.conf
      /\ child'.mounts = child.mounts /\ child'.table = child.table
      /\ child'.mounted = child.mounted /\ IsChild'
  BY <1>1 DEF IsChild
<1>3. HelperTypes'
  BY <1>1, <1>2 DEF HelperTypes
<1> QED BY <1>2, <1>3, GoesOnEffect

\* Making the root private has such an effect.
LEMMA PrivateRootEffect ==
  ASSUME SessionInv, PrivateRoot
  PROVE  HelperEffect
<1>0. child.pc = "private" /\ child.pc \in Alive /\ child.pc \in Building /\ "layout" \in Alive
  BY DEF PrivateRoot, Alive, Building
<1>1. child.root # None
  BY <1>0 DEF SessionInv, Progress
<1>2. CASE child' = [child EXCEPT !.pc = "layout"] /\ UNCHANGED <<dirs, damage, faults>>
  BY <1>0, <1>1, <1>2, PlaceEffect
<1> QED BY <1>2, FailsPlainlyEffect DEF PrivateRoot

\* Creating the static layout has such an effect.
LEMMA StaticLayoutEffect ==
  ASSUME SessionInv, StaticLayout
  PROVE  HelperEffect
<1>0. child.pc = "layout" /\ child.pc \in Alive /\ child.pc \in Building /\ "mount" \in Alive
  BY DEF StaticLayout, Alive, Building
<1>1. child.root # None
  BY <1>0 DEF SessionInv, Progress
<1>2. CASE child' = [child EXCEPT !.pc = "mount"] /\ UNCHANGED <<dirs, damage, faults>>
  BY <1>0, <1>1, <1>2, PlaceEffect
<1> QED BY <1>2, CleansRootEffect DEF StaticLayout

\* Going on after the last mount has such an effect.
LEMMA AllMountedEffect ==
  ASSUME SessionInv, AllMounted
  PROVE  HelperEffect
<1>0. child.pc = "mount" /\ child.pc \in Alive /\ child.pc \in Building /\ "chroot" \in Alive
  BY DEF AllMounted, Alive, Building
<1>1. child.root # None
  BY <1>0 DEF SessionInv, Progress
<1> QED BY <1>0, <1>1, PlaceEffect DEF AllMounted

\* Changing the root has such an effect.
LEMMA ChrootEffect ==
  ASSUME SessionInv, Chroot
  PROVE  HelperEffect
<1>0. child.pc = "chroot" /\ child.pc \in Alive /\ "exec" \in Alive /\ "exec" \notin Building
  BY DEF Chroot, Alive, Building
<1>2. CASE child' = [child EXCEPT !.pc = "exec"] /\ UNCHANGED <<dirs, damage, faults>>
  BY <1>0, <1>2, PlaceEffect
<1> QED BY <1>2, CleansRootEffect DEF Chroot

\* Executing the core has such an effect.
LEMMA ExecEffect ==
  ASSUME SessionInv, Exec
  PROVE  HelperEffect
<1>0. child.pc = "exec" /\ child.pc \in Alive /\ "running" \in Alive /\ "running" \notin Building
  BY DEF Exec, Alive, Building
<1>2. CASE child' = [child EXCEPT !.pc = "running"] /\ UNCHANGED <<dirs, damage, faults>>
  BY <1>0, <1>2, PlaceEffect
<1> QED BY <1>2, FailsPlainlyEffect DEF Exec

\* A mount of the plan is one of the table.
LEMMA MountedType ==
  ASSUME NEW r \in RequestType
  PROVE  /\ Mounted(r) \in MountType
         /\ Mounted(r).at = r.target /\ Mounted(r).readOnly = r.readOnly
         /\ Mounted(r).kind # "root"
<1>1. r.target \in Path /\ r.readOnly \in BOOLEAN
  BY DEF RequestType
<1> QED BY <1>1 DEF Mounted, Mount, MountType

\* Mounting the next request has such an effect.
LEMMA MountNextEffect ==
  ASSUME SessionInv, MountNext
  PROVE  HelperEffect
<1> DEFINE mount == Head(child.mounts)
           left == Append(child.table, [Mounted(mount) EXCEPT !.readOnly = FALSE])
<1>0. child.pc = "mount" /\ child.pc \in Alive /\ child.pc \in Building /\ child.mounts # <<>>
  BY DEF MountNext, Alive, Building
<1>1. IsChild /\ HelperTypes /\ child.root # None
  BY <1>0 DEF SessionInv, Types, ChildTypes, Progress
<1>2. mount \in RequestType /\ Tail(child.mounts) \in Seq(RequestType)
  BY <1>0, <1>1 DEF HelperTypes
<1>3. CASE /\ child' = [child EXCEPT !.mounts = Tail(child.mounts),
                          !.table = Append(child.table, Mounted(mount)),
                          !.mounted = Append(child.mounted, mount.target)]
           /\ faults' = faults \/ Fault(1)
           /\ UNCHANGED <<dirs, damage>>
  <2> DEFINE ms == Tail(child.mounts)
             t == Append(child.table, Mounted(mount))
             l == Append(child.mounted, mount.target)
  <2>0. /\ ms \in Seq(RequestType) /\ t \in Seq(MountType) /\ l \in Seq(Path)
        /\ child' = [child EXCEPT !.mounts = ms, !.table = t, !.mounted = l]
    <3>1. Mounted(mount) \in MountType /\ mount.target \in Path
      BY <1>2, MountedType DEF RequestType
    <3>2. child.table \in Seq(MountType) /\ child.mounted \in Seq(Path)
      BY <1>1 DEF HelperTypes
    <3> QED BY <1>2, <1>3, <3>1, <3>2, AppendProperties
  <2> HIDE DEF ms, t, l
  <2>1. /\ child'.pc = child.pc /\ child'.root = child.root /\ child'.conf = child.conf
        /\ child'.mounts = ms /\ child'.table = t
        /\ child'.mounted = l /\ IsChild'
    BY <1>1, <2>0 DEF IsChild
  <2>2. HelperTypes'
    BY <2>0, <2>1 DEF HelperTypes
  <2> QED BY <1>0, <1>1, <1>3, <2>1, <2>2, GoesOnEffect
<1>4. CASE CleansList(child.table, 0) \/ CleansList(child.table, 1)
  BY <1>4, CleansListEffect
<1>5. CASE \E k \in {2} \cup (IF mount.readOnly THEN {3} ELSE {}) : CleansList(left, k)
  <2>1. PICK k \in {2, 3} : CleansList(left, k)
    BY <1>5
  <2> HIDE DEF left
  <2> QED BY <2>1, CleansListEffect
<1> QED BY <1>3, <1>4, <1>5 DEF MountNext

\* Every step of the helper preserves the invariant.
LEMMA HelperKeeps ==
  ASSUME SessionInv, Helper, UNCHANGED sessionVars
  PROVE  SessionInv'
<1>1. child.pc \in Alive
  BY DEF Helper, Decode, BindRoot, PrivateRoot, StaticLayout, MountNext, AllMounted,
         Chroot, Exec, Alive, Building
<1>2. HelperEffect
  BY DecodeEffect, BindRootEffect, PrivateRootEffect, StaticLayoutEffect, MountNextEffect,
     AllMountedEffect, ChrootEffect, ExecEffect DEF Helper
<1> QED BY <1>1, <1>2, EffectKeeps

----------------------------------------------------------------------------

\* The invariant holds at the beginning.
LEMMA SessionInit ==
  ASSUME Init
  PROVE  SessionInv
<1> USE NoneAssumption, SessionBounds DEF Init
<1>1. Scalars
  BY DEF Scalars
<1>2. hooks \in [1..MaxLaunches -> HookType] /\ command \in CommandType
  BY HookFacts DEF NoCommand, CommandType
<1>3. ChildTypes
  BY DEF ChildTypes, IsChild, NoChild
<1>4. HelperTypes
  BY ChildFields DEF HelperTypes
<1>5. dirs \subseteq Dirs /\ stuck \subseteq Dirs /\ IsFiniteSet(dirs)
  BY FS_EmptySet
<1>6. Ownership
  BY DEF Ownership, NoCommand
<1>7. Progress
  BY DEF Progress, NoCommand, NoChild, Alive, Building
<1>8. Kept
  BY HeldFacts DEF Kept, NoCommand
<1> QED BY <1>1, <1>2, <1>3, <1>4, <1>5, <1>6, <1>7, <1>8 DEF SessionInv, Types

\* Every step preserves the invariant.
LEMMA SessionStep ==
  ASSUME SessionInv, [Next]_vars
  PROVE  SessionInv'
<1>1. ASSUME NEW s \in Sessions, Launch(s) PROVE SessionInv'
  BY <1>1, LaunchKeeps
<1>2. CASE LaunchStep
  BY <1>2, CreateHookKeeps, CreateEndpointKeeps, ResolveSessionKeeps, CommandKeeps,
     StartKeeps, AwaitKeeps, ProbeEndsKeeps, StartFailedKeeps, WaitForStartupKeeps,
     UnwindKeeps DEF LaunchStep
<1>3. CASE Stop \/ TakeNote \/ Notify
  BY <1>3, StopKeeps, TakeNoteKeeps, NotifyKeeps
<1>4. ASSUME NEW n \in 1..MaxLaunches, Serve(n) \/ AcceptFails(n) PROVE SessionInv'
  BY <1>4, ServeKeeps, AcceptFailsKeeps
<1>5. CASE Helper /\ UNCHANGED sessionVars
  BY <1>5, HelperKeeps
<1>6. CASE ChildExits \/ ChildKilled \/ ServiceDies
  BY <1>6, ChildExitsKeeps, ChildKilledKeeps, ServiceDiesKeeps
<1>7. CASE UNCHANGED vars
  <2>1. /\ UNCHANGED <<child, dirs, damage, faults>>
        /\ UNCHANGED <<service, pc, launch, probe, command, held, hooks, stuck, launches, notices>>
    BY <1>7 DEF vars, sandboxVars, sessionVars
  <2>2. Types'
    BY <2>1 DEF SessionInv, Types, Scalars, ChildTypes, IsChild, HelperTypes
  <2>3. Ownership' /\ Progress' /\ Kept'
    BY <2>1 DEF SessionInv, Ownership, Progress, Kept, Roots, Dir
  <2> QED BY <2>2, <2>3 DEF SessionInv
<1> QED BY <1>1, <1>2, <1>3, <1>4, <1>5, <1>6, <1>7 DEF Next

\* SessionInv is an invariant.
LEMMA SessionInvariant == Spec => []SessionInv
<1> QED BY SessionInit, SessionStep, PTL DEF Spec

\* Every directory in the temporary directory is accounted for: those of the
\* running service are held by its launch or could not be unmounted or
\* removed, nothing a running core or an open hook needs was swept away, an idle
\* manager holds nothing, and a launch with a hook or a root of its own has
\* removed what the services before had left, as far as that was possible
\* (prepareLaunchSession, cleanupNow, cleanupStaleStartupNotifyDirs,
\* cleanupStaleLinuxSandboxRoots).
THEOREM AccountedHolds == Spec => []Accounted
<1>1. ASSUME SessionInv PROVE Accounted
  <2> USE DEF SessionInv, Types
  <2>1. TypeOK
    <3>1. \A n \in 1..MaxLaunches :
            hooks[n].notes \in 0..NotifyCap /\ hooks[n].next \in {"none", "ready", "bad"}
      BY <1>1 DEF HookType
    <3>2. command.root \in Dirs \cup {None} /\ child.root \in Dirs \cup {None}
      BY <1>1 DEF CommandType, ChildTypes
    <3> QED BY <1>1, <3>1, <3>2 DEF TypeOK, Scalars, Ownership, Kept
  <2> DEFINE root == IF command.root = None THEN {} ELSE {command.root}
  <2>2. {d \in dirs : d.owner = service} \subseteq ToSet(held) \cup root \cup stuck
    BY <1>1 DEF Kept, Roots
  <2>3. pc = "idle" => held = <<>> /\ root = {}
    BY <1>1 DEF Progress
  <2>4. child.pc = "running" /\ child.root # None => child.root \in dirs
    BY <1>1 DEF Progress, Alive
  <2>5. held # <<>> => StaleNotify \subseteq stuck
    BY <1>1 DEF Kept, StaleNotify
  <2>6. root # {} => StaleRoots \subseteq stuck
    BY <1>1 DEF Kept, StaleRoots
  <2>7. ToSet(held) \subseteq dirs
    BY <1>1 DEF Kept
  <2> QED BY <2>1, <2>2, <2>3, <2>4, <2>5, <2>6, <2>7 DEF Accounted
<1> QED BY <1>1, SessionInvariant, PTL

----------------------------------------------------------------------------
(* The inductive invariant of PlanHolds and HostIntact. *)

\* The helper has made a first part of the plan, in its order, on the root.
Laid ==
  LET plan == Plan(child.conf)
      m == Len(child.mounted)
  IN /\ Len(plan) = m + Len(child.mounts)
     /\ Len(child.table) = m + 1
     /\ child.table[1] = Mount(<<>>, "root", FALSE)
     /\ \A i \in 1..m : /\ child.mounted[i] = plan[i].target
                       /\ child.table[i + 1] = Mounted(plan[i])
     /\ \A i \in 1..Len(child.mounts) : child.mounts[i] = plan[m + i]

Built ==
  /\ child.pc \in {"decode", "bind"} => child.mounted = <<>>
  /\ child.pc = "bind" => child.mounts = Plan(child.conf)
  /\ child.pc \in Building \ {"bind"} => Laid
  /\ child.pc \in {"exec", "running"} /\ child.root # None => Laid
  /\ child.pc \in {"chroot", "exec", "running"} /\ child.root # None =>
       child.mounts = <<>>

\* A process that ended, or did nothing, leaves Built as it was.
LEMMA BuiltQuiet ==
  ASSUME Built, child' = child \/ child'.pc \notin Alive
  PROVE  Built'
<1>1. CASE child' = child
  BY <1>1 DEF Built, Laid
<1>2. CASE child'.pc \notin Alive
  BY <1>2 DEF Built, Alive, Building
<1> QED BY <1>1, <1>2

\* Nothing is built at the beginning.
LEMMA BuiltInit ==
  ASSUME Init
  PROVE  Built
  BY DEF Init, NoChild, Built, Building

\* A helper that was just started has built nothing.
LEMMA BuiltStart ==
  ASSUME SessionInv, Built, Start
  PROVE  Built'
<1>1. CASE child' = child
  BY <1>1, BuiltQuiet
<1>2. CASE child' = [NoChild EXCEPT
             !.pc = IF command.kind = "core" THEN "running" ELSE "decode",
             !.conf = IF command.for = "probe" THEN ProbeConfig ELSE launch.conf,
             !.root = command.root]
  <2>1. /\ child'.pc = IF command.kind = "core" THEN "running" ELSE "decode"
        /\ child'.root = command.root /\ child'.mounted = <<>>
    BY <1>2 DEF NoChild
  <2>2. command.kind = "core" => command.root = None
    BY DEF SessionInv, Ownership
  <2> QED BY <2>1, <2>2 DEF Built, Building
<1> QED BY <1>1, <1>2 DEF Start

\* The helper gets to another place with the mounts it has.
LEMMA LaidElsewhere ==
  ASSUME SessionInv, Laid, NEW v, child' = [child EXCEPT !.pc = v]
  PROVE  Laid' /\ child'.pc = v /\ child'.mounts = child.mounts
<1>1. IsChild
  BY DEF SessionInv, Types, ChildTypes
<1>2. /\ child'.pc = v /\ child'.root = child.root /\ child'.conf = child.conf
      /\ child'.mounts = child.mounts /\ child'.table = child.table
      /\ child'.mounted = child.mounted
  BY <1>1 DEF IsChild
<1> QED BY <1>2 DEF Laid

\* A cleanup ends the helper.
LEMMA CleansEnd ==
  ASSUME \/ FailsPlainly \/ CleansRoot \/ \E t, k : CleansList(t, k)
         \/ child' = Failed(child)
  PROVE  child'.pc \notin Alive
<1>1. child' = Failed(child)
  BY DEF FailsPlainly, CleansRoot, CleansList, FailsAfterCleanup
<1> QED BY <1>1, FailedFields DEF Alive, Building

\* The next mount goes on the table where the plan has it.
LEMMA LaidNext ==
  ASSUME SessionInv, Laid, child.mounts # <<>>, child.conf \in Configs,
         child' = [child EXCEPT !.mounts = Tail(child.mounts),
                     !.table = Append(child.table, Mounted(Head(child.mounts))),
                     !.mounted = Append(child.mounted, Head(child.mounts).target)]
  PROVE  Laid'
<1> DEFINE plan == Plan(child.conf)
           m == Len(child.mounted)
           n == Len(child.mounts)
           mount == Head(child.mounts)
           ms == Tail(child.mounts)
           t == Append(child.table, Mounted(mount))
           l == Append(child.mounted, mount.target)
<1>1. /\ IsChild /\ child.mounts \in Seq(RequestType)
      /\ child.table \in Seq(MountType) /\ child.mounted \in Seq(Path)
  BY DEF SessionInv, Types, ChildTypes, HelperTypes
<1>2. plan \in Seq(RequestType) /\ m \in Nat /\ n \in Nat /\ n >= 1
  BY <1>1, PlanType
<1>3. /\ Len(plan) = m + n /\ Len(child.table) = m + 1
      /\ child.table[1] = Mount(<<>>, "root", FALSE)
      /\ \A i \in 1..m : child.mounted[i] = plan[i].target /\ child.table[i + 1] = Mounted(plan[i])
      /\ \A i \in 1..n : child.mounts[i] = plan[m + i]
  BY DEF Laid
<1>4. mount = child.mounts[1] /\ mount \in RequestType
  BY <1>1
<1>5. mount = plan[m + 1]
  BY <1>2, <1>3, <1>4
<1>6. ms \in Seq(RequestType) /\ Len(ms) = n - 1 /\ \A i \in 1..(n - 1) : ms[i] = child.mounts[i + 1]
  BY <1>1, <1>2
<1>7. Mounted(mount) \in MountType /\ mount.target \in Path
  BY <1>4, MountedType DEF RequestType
<1>8. /\ t \in Seq(MountType) /\ Len(t) = m + 2 /\ t[m + 2] = Mounted(mount)
      /\ \A i \in 1..(m + 1) : t[i] = child.table[i]
  <2> DEFINE x == Mounted(mount)
             u == child.table
  <2>1. x \in MountType /\ u \in Seq(MountType) /\ Len(u) = m + 1
    BY <1>1, <1>3, <1>7
  <2> HIDE DEF x, u, m
  <2>2. /\ Append(u, x) \in Seq(MountType) /\ Len(Append(u, x)) = Len(u) + 1
        /\ Append(u, x)[Len(u) + 1] = x /\ \A i \in 1..Len(u) : Append(u, x)[i] = u[i]
    BY <2>1, AppendProperties
  <2>3. Len(u) + 1 = m + 2
    BY <1>2, <2>1
  <2> QED BY <2>1, <2>2, <2>3 DEF x, u
<1>9. /\ l \in Seq(Path) /\ Len(l) = m + 1 /\ l[m + 1] = mount.target
      /\ \A i \in 1..m : l[i] = child.mounted[i]
  BY <1>1, <1>7, AppendProperties
<1>10. child' = [child EXCEPT !.mounts = ms, !.table = t, !.mounted = l]
  OBVIOUS
<1> HIDE DEF ms, t, l
<1>11. /\ child'.conf = child.conf /\ child'.mounts = ms /\ child'.table = t /\ child'.mounted = l
  BY <1>1, <1>10 DEF IsChild
<1> HIDE DEF mount
<1>12. ASSUME NEW i \in 1..(m + 1)
       PROVE  l[i] = plan[i].target /\ t[i + 1] = Mounted(plan[i])
  <2>1. CASE i = m + 1
    <3>1. i + 1 = m + 2
      BY <1>2, <2>1
    <3> QED BY <1>5, <1>8, <1>9, <2>1, <3>1
  <2>2. CASE i # m + 1
    <3>1. i \in 1..m /\ i + 1 \in 1..(m + 1)
      BY <1>2, <2>2
    <3> QED BY <1>3, <1>8, <1>9, <3>1
  <2> QED BY <2>1, <2>2
<1>13. ASSUME NEW i \in 1..(n - 1)
       PROVE  ms[i] = plan[(m + 1) + i]
  <2>1. i + 1 \in 1..n /\ m + (i + 1) = (m + 1) + i
    BY <1>2
  <2>2. child.mounts[i + 1] = plan[m + (i + 1)]
    BY <1>3, <2>1
  <2> QED BY <1>6, <2>1, <2>2
<1>14. t[1] = Mount(<<>>, "root", FALSE)
  <2>1. 1 \in 1..(m + 1)
    BY <1>2
  <2> QED BY <1>3, <1>8, <2>1
<1> HIDE DEF plan, m, n
<1>15. Len(plan) = (m + 1) + (n - 1) /\ m + 2 = (m + 1) + 1
  <2>1. m \in Nat /\ n \in Nat
    BY <1>2
  <2>2. (m + 1) + (n - 1) = m + n /\ m + 2 = (m + 1) + 1
    BY <2>1
  <2>3. Len(plan) = m + n
    BY <1>3
  <2> QED BY <2>2, <2>3
<1>16. /\ Len(plan) = Len(l) + Len(ms) /\ Len(t) = Len(l) + 1
       /\ t[1] = Mount(<<>>, "root", FALSE)
       /\ \A i \in 1..Len(l) : l[i] = plan[i].target /\ t[i + 1] = Mounted(plan[i])
       /\ \A i \in 1..Len(ms) : ms[i] = plan[Len(l) + i]
  BY <1>6, <1>8, <1>9, <1>12, <1>13, <1>14, <1>15
<1> QED BY <1>11, <1>16 DEF Laid, plan

\* Every step of the helper builds the next part of the plan.
LEMMA BuiltHelper ==
  ASSUME SessionInv, Built, Helper
  PROVE  Built'
<1>0. IsChild
  BY DEF SessionInv, Types, ChildTypes
<1>1. CASE child'.pc \notin Alive
  BY <1>1, BuiltQuiet
<1>2. CASE Decode
  <2>1. child.mounted = <<>>
    BY <1>2 DEF Decode, Built
  <2>2. CASE child.root = None /\ child' = [child EXCEPT !.pc = "exec"]
    <3>1. child'.pc = "exec" /\ child'.root = None
      BY <1>0, <2>2 DEF IsChild
    <3> QED BY <3>1 DEF Built, Building
  <2>3. CASE child' = [child EXCEPT !.pc = "bind", !.mounts = Plan(child.conf)]
    <3> DEFINE p == Plan(child.conf)
    <3>1. child' = [child EXCEPT !.pc = "bind", !.mounts = p]
      BY <2>3
    <3> HIDE DEF p
    <3>2. child'.pc = "bind" /\ child'.mounts = p /\ child'.conf = child.conf
          /\ child'.mounted = child.mounted
      BY <1>0, <3>1 DEF IsChild
    <3> QED BY <2>1, <3>2 DEF Built, Building, p
  <2>4. CASE FailsPlainly
    BY <1>1, <2>4, CleansEnd
  <2> QED BY <1>2, <2>2, <2>3, <2>4 DEF Decode, Plan
<1>3. CASE BindRoot
  <2>1. /\ child.pc = "bind" /\ child.mounted = <<>> /\ child.mounts = Plan(child.conf)
        /\ child.conf \in Configs
    BY <1>3 DEF BindRoot, Built, SessionInv, Progress, Alive, Building
  <2>2. CASE child' = [child EXCEPT !.pc = "private",
                                    !.table = <<Mount(<<>>, "root", FALSE)>>]
    <3> DEFINE t == <<Mount(<<>>, "root", FALSE)>>
    <3>1. child' = [child EXCEPT !.pc = "private", !.table = t]
          /\ Len(t) = 1 /\ t[1] = Mount(<<>>, "root", FALSE)
      BY <2>2
    <3> HIDE DEF t
    <3>2. child'.pc = "private" /\ child'.mounts = child.mounts /\ child'.conf = child.conf
          /\ child'.mounted = child.mounted /\ child'.table = t
      BY <1>0, <3>1 DEF IsChild
    <3>3. Plan(child.conf) \in Seq(RequestType)
      BY <2>1, PlanType
    <3> DEFINE p == Plan(child.conf)
    <3>4. Len(p) \in Nat /\ Len(<<>>) = 0 /\ 1..0 = {}
      BY <3>3
    <3>5. \A i \in 1..Len(p) : 0 + i = i
      BY <3>4
    <3> HIDE DEF p
    <3>6. Len(p) = 0 + Len(p) /\ Len(t) = 0 + 1
      BY <3>1, <3>4
    <3>7. child'.mounted = <<>> /\ child'.mounts = p /\ Plan(child'.conf) = p
      BY <2>1, <3>2 DEF p
    <3>8. Laid'
      BY <3>1, <3>2, <3>4, <3>5, <3>6, <3>7 DEF Laid
    <3> QED BY <3>2, <3>8 DEF Built
  <2>3. CASE FailsPlainly
    BY <1>1, <2>3, CleansEnd
  <2> QED BY <1>3, <2>2, <2>3 DEF BindRoot
<1>4. CASE PrivateRoot
  <2>1. CASE child' = [child EXCEPT !.pc = "layout"]
    <3>1. Laid
      BY <1>4 DEF PrivateRoot, Built, Building
    <3>2. Laid' /\ child'.pc = "layout"
      BY <2>1, <3>1, LaidElsewhere
    <3> QED BY <3>2 DEF Built
  <2>2. CASE FailsPlainly
    BY <1>1, <2>2, CleansEnd
  <2> QED BY <1>4, <2>1, <2>2 DEF PrivateRoot
<1>5. CASE StaticLayout
  <2>1. CASE child' = [child EXCEPT !.pc = "mount"]
    <3>1. Laid
      BY <1>5 DEF StaticLayout, Built, Building
    <3>2. Laid' /\ child'.pc = "mount"
      BY <2>1, <3>1, LaidElsewhere
    <3> QED BY <3>2 DEF Built
  <2>2. CASE CleansRoot
    BY <1>1, <2>2, CleansEnd
  <2> QED BY <1>5, <2>1, <2>2 DEF StaticLayout
<1>6. CASE MountNext
  <2>0. child.pc = "mount" /\ child.mounts # <<>>
    BY <1>6 DEF MountNext
  <2>1. Laid /\ child.conf \in Configs
    BY <2>0 DEF Built, SessionInv, Progress, Alive, Building
  <2>2. CASE child' = [child EXCEPT !.mounts = Tail(child.mounts),
                         !.table = Append(child.table, Mounted(Head(child.mounts))),
                         !.mounted = Append(child.mounted, Head(child.mounts).target)]
    <3>1. Laid'
      BY <2>0, <2>1, <2>2, LaidNext
    <3>2. child'.pc = "mount"
      BY <1>0, <2>0, <2>2 DEF IsChild
    <3> QED BY <3>1, <3>2 DEF Built
  <2>3. CASE \E t, k : CleansList(t, k)
    BY <1>1, <2>3, CleansEnd
  <2> QED BY <1>6, <2>2, <2>3 DEF MountNext
<1>7. CASE AllMounted
  <2>1. child' = [child EXCEPT !.pc = "chroot"] /\ child.mounts = <<>> /\ Laid
    BY <1>7 DEF AllMounted, Built, Building
  <2>2. Laid' /\ child'.pc = "chroot" /\ child'.mounts = <<>>
    BY <2>1, LaidElsewhere
  <2> QED BY <2>2 DEF Built
<1>8. CASE Chroot
  <2>1. CASE child' = [child EXCEPT !.pc = "exec"]
    <3>1. Laid /\ child.mounts = <<>>
      <4>1. child.pc = "chroot" /\ child.root # None
        BY <1>8 DEF Chroot, SessionInv, Progress, Building
      <4> QED BY <4>1 DEF Built, Building
    <3>2. Laid' /\ child'.pc = "exec" /\ child'.mounts = <<>>
      BY <2>1, <3>1, LaidElsewhere
    <3> QED BY <3>2 DEF Built
  <2>2. CASE CleansRoot
    BY <1>1, <2>2, CleansEnd
  <2> QED BY <1>8, <2>1, <2>2 DEF Chroot
<1>9. CASE Exec
  <2>1. CASE child' = [child EXCEPT !.pc = "running"]
    <3>1. child'.root = child.root /\ child'.pc = "running"
      BY <1>0, <2>1 DEF IsChild
    <3>2. CASE child.root = None
      BY <3>1, <3>2 DEF Built, Building
    <3>3. CASE child.root # None
      <4>1. Laid /\ child.mounts = <<>>
        BY <1>9, <3>3 DEF Exec, Built
      <4>2. Laid' /\ child'.mounts = <<>>
        BY <2>1, <4>1, LaidElsewhere
      <4> QED BY <3>1, <4>2 DEF Built
    <3> QED BY <3>2, <3>3
  <2>2. CASE FailsPlainly
    BY <1>1, <2>2, CleansEnd
  <2> QED BY <1>9, <2>1, <2>2 DEF Exec
<1> QED BY <1>2, <1>3, <1>4, <1>5, <1>6, <1>7, <1>8, <1>9 DEF Helper

\* Every step preserves Built.
LEMMA BuiltStep ==
  ASSUME SessionInv, Built, [Next]_vars
  PROVE  Built'
<1>1. CASE Helper
  BY <1>1, BuiltHelper
<1>2. CASE Start
  BY <1>2, BuiltStart
<1>3. CASE \/ \E s \in Sessions : Launch(s)
           \/ CreateHook \/ CreateEndpoint \/ ResolveSession \/ Command
           \/ TakeNote \/ Notify
           \/ \E n \in 1..MaxLaunches : Serve(n) \/ AcceptFails(n)
           \/ UNCHANGED vars
  <2>1. child' = child
    BY <1>3 DEF Launch, CreateHook, CreateEndpoint, ResolveSession, Command, TakeNote,
                Notify, Serve, AcceptFails, sandboxVars, vars
  <2> QED BY <2>1, BuiltQuiet
<1>4. CASE Await \/ WaitForStartup \/ Stop \/ ChildKilled \/ ProbeEnds \/ StartFailed \/ Unwind
           \/ ServiceDies
  <2>1. child' = child \/ child' = Killed \/ child' = NoChild
    BY <1>4 DEF Await, WaitForStartup, Stop, ChildKilled, ProbeEnds, StartFailed, Unwind,
                ServiceDies
  <2>2. child' = child \/ child'.pc \notin Alive
    BY <2>1, ChildFields DEF Alive, Building
  <2> QED BY <2>2, BuiltQuiet
<1>5. CASE ChildExits
  <2>1. child'.pc = "exited"
    BY <1>5 DEF ChildExits, Killed, NoChild
  <2> QED BY <2>1, BuiltQuiet DEF Alive, Building
<1> QED BY <1>1, <1>2, <1>3, <1>4, <1>5 DEF Next, LaunchStep

\* Built is an invariant.
LEMMA BuiltInvariant == Spec => []Built
<1> QED BY BuiltInit, BuiltStep, SessionInvariant, PTL DEF Spec

----------------------------------------------------------------------------
(* PlanHolds *)

\* A lookup of a target ends in its own mount: a later one that covered it
\* would be at least as deep, so it would be for the same target.
LEMMA LaidLookup ==
  ASSUME SessionInv, Laid, child.mounts = <<>>, child.conf \in Configs,
         NEW k \in DOMAIN Plan(child.conf)
  PROVE  child.table[Covering(child.table, Plan(child.conf)[k].target)]
           = Mounted(Plan(child.conf)[k])
<1> DEFINE p == Plan(child.conf)
           t == child.table
           q == p[k].target
           j == Covering(t, q)
           n == Len(p)
<1>1. t \in Seq(MountType)
  BY DEF SessionInv, Types, HelperTypes
<1>2. p \in Seq(RequestType) /\ Merges(p, sandboxMounts(child.conf)) /\ Sorted(p)
  BY PlanFacts, PlanType
<1>3. /\ n \in Nat /\ DOMAIN p = 1..n /\ k \in 1..n /\ k \in Nat
      /\ \A i \in 1..n : p[i] \in RequestType
  BY <1>2
<1>4. \A i \in 1..n : p[i].target \in Path
  BY <1>3 DEF RequestType
<1>5. /\ Len(t) = n + 1 /\ t[1] = Mount(<<>>, "root", FALSE)
      /\ \A i \in 1..n : t[i + 1] = Mounted(p[i])
  <2>1. Len(child.mounts) = 0
    OBVIOUS
  <2>2. child.mounted \in Seq(Path) /\ Len(child.mounted) \in Nat
    BY DEF SessionInv, Types, HelperTypes
  <2>3. Len(p) = Len(child.mounted)
    <3>1. Len(p) = Len(child.mounted) + Len(child.mounts)
      BY DEF Laid
    <3> QED BY <2>1, <2>2, <3>1
  <2> QED BY <2>3 DEF Laid
<1>6. \A i \in 1..n : t[i + 1].at = p[i].target
  BY <1>3, <1>5, MountedType
<1>7. /\ q \in Path /\ j \in 0..Len(t) /\ (j # 0 => Within(q, t[j].at))
      /\ \A i \in 1..Len(t) : Within(q, t[i].at) => i <= j /\ j # 0
  <2>1. q \in Path
    BY <1>3, <1>4
  <2> HIDE DEF q, t
  <2> QED BY <1>1, <2>1, CoveringFacts
<1>8. k + 1 <= j /\ j # 0
  <2>1. k + 1 \in 1..Len(t)
    BY <1>3, <1>5
  <2>2. t[k + 1].at = q
    BY <1>3, <1>6
  <2>3. Within(q, t[k + 1].at)
    BY <1>7, <2>2, WithinFacts
  <2> QED BY <1>7, <2>1, <2>3
<1> DEFINE i == j - 1
<1>9. i \in 1..n /\ k <= i /\ j = i + 1
  <2> HIDE DEF j, n, t
  <2> QED BY <1>3, <1>5, <1>7, <1>8
<1>10. t[j] = Mounted(p[i]) /\ t[j].at = p[i].target /\ Within(q, p[i].target)
  <2> HIDE DEF i, j, p, q
  <2> QED BY <1>5, <1>6, <1>7, <1>8, <1>9
<1>11. p[i].target = q
  <2>1. CASE k = i
    BY <2>1
  <2>2. CASE k # i
    <3>1. k < i
      <4> HIDE DEF i
      <4> QED BY <1>3, <1>9, <2>2
    <3> DEFINE b == p[i].target
    <3>2. b \in Path /\ q \in Path /\ Within(q, b) /\ Depth(q) <= Depth(b)
      <4>1. b \in Path /\ q \in Path
        BY <1>4, <1>7, <1>9
      <4>2. Depth(p[k].target) <= Depth(p[i].target)
        <5> HIDE DEF i, p
        <5> QED BY <1>2, <1>3, <1>9, <3>1 DEF Sorted
      <4> QED BY <1>10, <4>1, <4>2
    <3>3. \/ b # <<>> /\ q # <<>>
          \/ b = <<>> /\ q = <<>>
      <4>1. \/ \A l \in DOMAIN p : p[l].target # <<>>
            \/ \A l \in DOMAIN p : p[l].target = <<>>
        BY PlanFacts
      <4> HIDE DEF i, p
      <4> QED BY <1>3, <1>9, <4>1
    <3> HIDE DEF b, q
    <3>4. CASE b # <<>> /\ q # <<>>
      <4>1. Len(q) <= Len(b)
        BY <3>2, <3>4 DEF Depth
      <4>2. b = q
        BY <3>2, <4>1, WithinFacts
      <4> QED BY <4>2 DEF b
    <3>5. CASE b = <<>> /\ q = <<>>
      BY <3>5 DEF b
    <3> QED BY <3>3, <3>4, <3>5
  <2> QED BY <2>1, <2>2
<1>12. i = k
  <2> HIDE DEF i, p
  <2>1. \A x, y \in DOMAIN p : x # y => p[x].target # p[y].target
    BY <1>2 DEF Merges
  <2> QED BY <1>3, <1>9, <1>11, <2>1 DEF q
<1> QED BY <1>10, <1>12

\* In a sandbox that runs, a lookup of every path that the configuration named
\* ends in the mount made for it, read-only exactly when nothing asked for it
\* to be writable (compactSandboxMounts and prepareRoot).
THEOREM PlanHoldsAlways == Spec => []PlanHolds
<1>1. ASSUME SessionInv, Built PROVE PlanHolds
  <2> DEFINE asked == sandboxMounts(child.conf)
             p == Plan(child.conf)
             t == child.table
  <2> SUFFICES ASSUME child.pc = "running", child.root # None, NEW i \in DOMAIN asked
               PROVE  /\ t[Covering(t, asked[i].target)].at = asked[i].target
                      /\ t[Covering(t, asked[i].target)].readOnly <=>
                           \A j \in DOMAIN asked :
                             asked[j].target = asked[i].target => asked[j].readOnly
    BY DEF PlanHolds
  <2>1. Laid /\ child.mounts = <<>> /\ child.conf \in Configs
    BY <1>1 DEF Built, SessionInv, Progress, Alive
  <2>2. Merges(p, asked)
    BY <2>1, PlanFacts
  <2>3. p \in Seq(RequestType)
    BY <2>2 DEF Merges
  <2>4. PICK k \in DOMAIN p : p[k].target = asked[i].target
    <3> HIDE DEF p, asked
    <3> QED BY <2>2 DEF Merges
  <2>5. t[Covering(t, p[k].target)] = Mounted(p[k])
    BY <1>1, <2>1, LaidLookup
  <2>6. p[k] \in RequestType
    BY <2>3
  <2>7. /\ t[Covering(t, asked[i].target)].at = p[k].target
        /\ t[Covering(t, asked[i].target)].readOnly = p[k].readOnly
    <3>1. Mounted(p[k]).at = p[k].target /\ Mounted(p[k]).readOnly = p[k].readOnly
      BY <2>6, MountedType
    <3> HIDE DEF p, asked, t
    <3> QED BY <2>4, <2>5, <3>1
  <2>8. p[k].readOnly <=> \A j \in DOMAIN asked :
          asked[j].target = p[k].target => asked[j].readOnly
    <3> HIDE DEF p, asked
    <3> QED BY <2>2 DEF Merges
  <2> HIDE DEF p, asked, t
  <2> QED BY <2>4, <2>7, <2>8
<1> QED BY <1>1, SessionInvariant, BuiltInvariant, PTL

----------------------------------------------------------------------------
(* HostIntact *)

\* While mounts are left to make, the only mount at the root is the root's own.
LEMMA LaidRooted ==
  ASSUME SessionInv, Laid, child.mounts # <<>>, child.conf \in Configs
  PROVE  Rooted(child.table)
<1> DEFINE p == Plan(child.conf)
           t == child.table
           m == Len(child.mounted)
           n == Len(child.mounts)
<1>1. /\ t \in Seq(MountType) /\ m \in Nat /\ n \in Nat /\ n >= 1
  BY DEF SessionInv, Types, HelperTypes
<1>2. p \in Seq(RequestType) /\ \A x, y \in DOMAIN p : x # y => p[x].target # p[y].target
  BY PlanFacts DEF Merges
<1>3. /\ Len(p) = m + n /\ Len(t) = m + 1 /\ t[1] = Mount(<<>>, "root", FALSE)
      /\ \A i \in 1..m : t[i + 1] = Mounted(p[i])
  BY DEF Laid
<1>4. /\ DOMAIN p = 1..(m + n)
      /\ \A i \in DOMAIN p : p[i] \in RequestType
  <2>1. DOMAIN p = 1..Len(p) /\ \A i \in DOMAIN p : p[i] \in RequestType
    BY <1>2
  <2> QED BY <1>3, <2>1
<1>5. t[1].at = <<>>
  BY <1>3 DEF Mount
<1>6. \/ \A l \in DOMAIN p : p[l].target # <<>>
      \/ \A l \in DOMAIN p : p[l].target = <<>>
  BY PlanFacts
<1> HIDE DEF p, t, m, n
<1>7. ASSUME NEW i \in 1..Len(t), i # 1 PROVE t[i].at # <<>>
  <2>1. i - 1 \in 1..m /\ (i - 1) + 1 = i /\ i - 1 \in 1..(m + n)
    BY <1>1, <1>3, <1>7
  <2>2. t[i] = Mounted(p[i - 1])
    BY <1>3, <2>1
  <2>3. t[i].at = p[i - 1].target
    BY <1>4, <2>1, <2>2, MountedType
  <2>4. CASE \A l \in DOMAIN p : p[l].target # <<>>
    BY <1>4, <2>1, <2>3, <2>4
  <2>5. CASE \A l \in DOMAIN p : p[l].target = <<>>
    <3>1. i - 1 \in DOMAIN p /\ m + n \in DOMAIN p /\ i - 1 # m + n
      BY <1>1, <1>4, <2>1
    <3> QED BY <1>2, <2>5, <3>1
  <2> QED BY <1>6, <2>4, <2>5
<1>8. Rooted(t)
  BY <1>1, <1>5, <1>7 DEF Rooted
<1> QED BY <1>8 DEF t

\* A table without mounts of the host exposes nothing.
LEMMA NotExposed ==
  /\ ~Exposed(<<>>)
  /\ \A t \in Seq(MountType) : Len(t) = 1 /\ t[1].kind = "root" => ~Exposed(t)
<1>1. ~Exposed(<<>>)
  BY DEF Exposed, ToSet
<1>2. ASSUME NEW t \in Seq(MountType), Len(t) = 1, t[1].kind = "root"
      PROVE  ~Exposed(t)
  <2> SUFFICES ASSUME NEW m \in ToSet(t) PROVE m.kind = "root"
    BY DEF Exposed
  <2>1. PICK i \in 1..Len(t) : m = t[i]
    BY PlaceOf
  <2>2. i = 1
    BY <1>2, <2>1
  <2> QED BY <1>2, <2>1, <2>2
<1> QED BY <1>1, <1>2

\* The number of failures is a natural number.
LEMMA FaultsNat ==
  ASSUME SessionInv
  PROVE  faults \in Nat
<1>1. faults \in 0..MaxFaults
  BY DEF SessionInv, Types, Scalars
<1> QED BY <1>1, SessionBounds

\* A cleanup that leaves nothing of the host keeps HostIntact.
LEMMA CleanupIntact ==
  ASSUME SessionInv, HostIntact, NEW table, NEW paths, NEW S, IsFiniteSet(S), NEW k \in Nat,
         FailsAfterCleanup(table, paths, S, k),
         k + Cardinality(S) < 2 =>
           ~Exposed(UnmountAll(table, Keep(paths, ToSet(paths) \ S)))
  PROVE  HostIntact'
<1> DEFINE left == UnmountAll(table, Keep(paths, ToSet(paths) \ S))
           c == k + Cardinality(S)
<1>1. Cardinality(S) \in Nat /\ c \in Nat /\ faults \in Nat
  <2>1. Cardinality(S) \in Nat
    BY FS_CardinalityType
  <2>2. faults \in Nat
    BY FaultsNat
  <2> QED BY <2>1, <2>2
<1>2. damage' = (damage \/ Exposed(left))
  BY DEF FailsAfterCleanup
<1>2a. PICK m \in {0, 1} : Fault(k + Cardinality(S) + m)
  BY DEF FailsAfterCleanup
<1>2b. Fault(c + m)
  BY <1>2a
<1> HIDE DEF left, c
<1>3. faults' = faults + c \/ faults' = faults + c + 1
  BY <1>1, <1>2b DEF Fault
<1>4. faults' < 2 => c < 2 /\ faults < 2
  BY <1>1, <1>3
<1>5. faults' < 2 => ~damage'
  BY <1>2, <1>4 DEF HostIntact, left, c
<1> QED BY <1>5 DEF HostIntact

\* A set with one element.
LEMMA Only ==
  ASSUME NEW S, IsFiniteSet(S), NEW x \in S, Cardinality(S) < 2
  PROVE  S = {x}
<1>1. Cardinality(S) \in Nat
  BY FS_CardinalityType
<1>2. IsFiniteSet(S \ {x}) /\ Cardinality(S \ {x}) = Cardinality(S) - 1
  BY FS_RemoveElement
<1>3. Cardinality(S \ {x}) \in Nat
  BY <1>2, FS_CardinalityType
<1>4. Cardinality(S \ {x}) = 0
  BY <1>1, <1>2, <1>3
<1>5. S \ {x} = {}
  BY <1>2, <1>4, FS_EmptySet
<1> QED BY <1>5

\* The cleanup of prepareRoot: its last unmount, of the root, takes along what
\* is still there; and when that one fails, all the others were made.
LEMMA CleansListIntact ==
  ASSUME SessionInv, HostIntact, Laid, child.mounts # <<>>, child.conf \in Configs,
         NEW k \in Nat, CleansList(child.table, k)
  PROVE  HostIntact'
<1> DEFINE t == child.table
           ms == child.mounted
           n == Len(ms)
           ps == Append(Reverse(ms), <<>>)
<1>1. t \in Seq(MountType) /\ ms \in Seq(Path) /\ n \in Nat
  BY DEF SessionInv, Types, HelperTypes
<1>2. Rooted(t)
  BY LaidRooted
<1>3. /\ Len(t) = n + 1 /\ t[1].kind = "root"
      /\ \A i \in 1..n : ms[i] = t[i + 1].at
  <2>1. /\ Len(t) = n + 1 /\ t[1] = Mount(<<>>, "root", FALSE)
        /\ \A i \in 1..n : ms[i] = Plan(child.conf)[i].target /\ t[i + 1] = Mounted(Plan(child.conf)[i])
        /\ Len(Plan(child.conf)) = n + Len(child.mounts)
    BY DEF Laid
  <2>2. \A i \in 1..n : Plan(child.conf)[i] \in RequestType
    <3>1. Plan(child.conf) \in Seq(RequestType) /\ Len(child.mounts) \in Nat
      BY PlanType DEF SessionInv, Types, HelperTypes
    <3> DEFINE p == Plan(child.conf)
               l == Len(child.mounts)
    <3> HIDE DEF p, n, l
    <3>2. \A i \in 1..n : i \in 1..(n + l)
      BY <1>1, <3>1 DEF l
    <3>3. \A i \in 1..Len(p) : p[i] \in RequestType
      BY <3>1 DEF p
    <3> QED BY <2>1, <3>2, <3>3 DEF p, l
  <2>3. \A i \in 1..n : t[i + 1].at = Plan(child.conf)[i].target
    BY <2>1, <2>2, MountedType
  <2>4. t[1].kind = "root"
    BY <2>1 DEF Mount
  <2> QED BY <2>1, <2>3, <2>4
<1>4. /\ ps \in Seq(Path) /\ Len(ps) = n + 1 /\ ps[n + 1] = <<>> /\ ps # <<>>
      /\ \A i \in 1..n : ps[i] = ms[n + 1 - i]
  <2> DEFINE r == Reverse(ms)
  <2>1. r \in Seq(Path) /\ Len(r) = n /\ \A i \in 1..n : r[i] = ms[n + 1 - i]
    BY <1>1, ReverseFacts
  <2>2. <<>> \in Path
    BY DEF Path
  <2> HIDE DEF r, n
  <2>3. /\ Append(r, <<>>) \in Seq(Path) /\ Len(Append(r, <<>>)) = n + 1
        /\ Append(r, <<>>)[n + 1] = <<>> /\ \A i \in 1..n : Append(r, <<>>)[i] = r[i]
    BY <1>1, <2>1, <2>2, AppendProperties
  <2>4. Append(r, <<>>) # <<>>
    BY <2>1, <2>2, AppendProperties
  <2> QED BY <2>1, <2>3, <2>4 DEF r
<1>5. PICK S \in SUBSET (ToSet(ms) \cup {<<>>}) : FailsAfterCleanup(t, ps, S, k)
  BY DEF CleansList
<1>6. IsFiniteSet(S) /\ Cardinality(S) \in Nat
  <2>1. IsFiniteSet(ToSet(ms) \cup {<<>>})
    BY <1>1, FiniteRange, FS_AddElement
  <2>2. IsFiniteSet(S)
    BY <2>1, FS_Subset
  <2> QED BY <2>2, FS_CardinalityType
<1> HIDE DEF ps, t, n
<1> DEFINE W == ToSet(ps) \ S
           kept == Keep(ps, W)
<1>7. CASE <<>> \notin S
  <2>1. ps[Len(ps)] \in W /\ ps[Len(ps)] = <<>>
    <3>1. Len(ps) \in 1..Len(ps) /\ ps[Len(ps)] = <<>>
      BY <1>1, <1>4
    <3>2. ps[Len(ps)] \in ToSet(ps)
      BY <1>4, <3>1, PlaceOf
    <3> QED BY <1>7, <3>1, <3>2
  <2> HIDE DEF W
  <2>2. PICK r \in Seq(Path) : kept = Append(r, ps[Len(ps)])
    BY <1>4, <2>1, KeepLast
  <2>3. <<>> \in Path
    BY DEF Path
  <2>4. kept \in Seq(Path) /\ kept # <<>> /\ kept[Len(kept)] = <<>>
    BY <2>1, <2>2, <2>3, AppendProperties
  <2>5. UnmountAll(t, kept) = <<>>
    <3> HIDE DEF kept
    <3> QED BY <1>2, <2>4, UnmountAllRoot
  <2>6. ~Exposed(UnmountAll(t, Keep(ps, ToSet(ps) \ S)))
    BY <2>5, NotExposed DEF W
  <2> QED BY <1>5, <1>6, <2>6, CleanupIntact
<1>8. CASE <<>> \in S /\ k + Cardinality(S) < 2
  <2>1. S = {<<>>}
    <3>1. Cardinality(S) < 2
      BY <1>6, <1>8
    <3> QED BY <1>6, <1>8, <3>1, Only
  <2>2. ASSUME NEW i \in 1..Len(ps) PROVE ps[i] \in W <=> i <= n
    <3>1. i \in 1..(n + 1) /\ ps[i] \in ToSet(ps)
      BY <1>4, PlaceOf
    <3>2. CASE i = n + 1
      BY <1>1, <1>4, <2>1, <3>2
    <3>3. CASE i # n + 1
      <4>1. i \in 1..n /\ n + 1 - i \in 1..n /\ (n + 1 - i) + 1 \in 1..(n + 1) /\ (n + 1 - i) + 1 # 1
        BY <1>1, <3>1, <3>3
      <4>2. ps[i] = t[(n + 1 - i) + 1].at
        BY <1>3, <1>4, <4>1
      <4>3. ps[i] # <<>>
        BY <1>2, <1>3, <4>1, <4>2 DEF Rooted
      <4> QED BY <2>1, <3>1, <4>1, <4>3
    <3> QED BY <3>2, <3>3
  <2> HIDE DEF W
  <2>3. kept = SubSeq(ps, 1, n)
    <3>1. n \in 0..Len(ps)
      BY <1>1, <1>4
    <3> QED BY <1>4, <2>2, <3>1, KeepFront
  <2> DEFINE q == SubSeq(ps, 1, n)
  <2>4. q \in Seq(Path) /\ Len(q) = n /\ \A i \in 1..n : q[i] = ps[i]
    <3>1. n \in 0..Len(ps)
      BY <1>1, <1>4
    <3> QED BY <1>4, <3>1, PrefixFacts
  <2> HIDE DEF q, kept
  <2>5. ASSUME NEW i \in 1..Len(q) PROVE q[i] = t[Len(t) + 1 - i].at
    <3>1. i \in 1..n /\ n + 1 - i \in 1..n /\ (n + 1 - i) + 1 = (n + 1) + 1 - i
      BY <1>1, <2>4
    <3>2. q[i] = t[(n + 1 - i) + 1].at
      BY <1>3, <1>4, <2>4, <3>1
    <3> QED BY <1>3, <3>1, <3>2
  <2>6. UnmountAll(t, q) = SubSeq(t, 1, Len(t) - Len(q))
    <3>1. Len(q) <= Len(t)
      BY <1>1, <1>3, <2>4
    <3> QED BY <1>1, <2>4, <2>5, <3>1, UnmountAllBack
  <2>7. Len(t) - Len(q) = 1 /\ 1 \in 0..Len(t)
    BY <1>1, <1>3, <2>4
  <2> DEFINE u == SubSeq(t, 1, 1)
  <2>8. u \in Seq(MountType) /\ Len(u) = 1 /\ u[1] = t[1]
    <3>1. u \in Seq(MountType) /\ Len(u) = 1 /\ \A i \in 1..1 : u[i] = t[i]
      BY <1>1, <2>7, PrefixFacts
    <3> HIDE DEF u
    <3> QED BY <3>1
  <2> HIDE DEF u
  <2>9. ~Exposed(u)
    BY <1>3, <2>8, NotExposed
  <2>10. ~Exposed(UnmountAll(t, Keep(ps, ToSet(ps) \ S)))
    BY <2>3, <2>6, <2>7, <2>9 DEF u, q, kept, W
  <2> QED BY <1>5, <1>6, <2>10, CleanupIntact
<1>9. CASE ~(k + Cardinality(S) < 2)
  BY <1>5, <1>6, <1>9, CleanupIntact
<1> QED BY <1>7, <1>8, <1>9

\* The unmount of everything that mountinfo shows, the deepest first.
LEMMA CleansRootIntact ==
  ASSUME SessionInv, HostIntact, CleansRoot
  PROVE  HostIntact'
<1> DEFINE t == child.table
           f == [i \in DOMAIN t |-> t[i].at]
           ps == Reverse(f)
<1>1. t \in Seq(MountType) /\ Len(t) \in Nat /\ faults \in Nat
  BY FaultsNat DEF SessionInv, Types, HelperTypes
<1>2. f \in Seq(Path) /\ Len(f) = Len(t) /\ \A i \in 1..Len(t) : f[i] = t[i].at
  <2>1. f \in Seq(Path) /\ Len(f) = Len(t)
    BY <1>1, PointsType
  <2>2. DOMAIN t = 1..Len(t)
    BY <1>1
  <2> QED BY <2>1, <2>2
<1> HIDE DEF t, f
<1>3. /\ ps \in Seq(Path) /\ Len(ps) = Len(t)
      /\ \A i \in 1..Len(t) : ps[i] = f[Len(t) + 1 - i]
  BY <1>2, ReverseFacts
<1>4. CASE (Fault(1) \/ Fault(2)) /\ child' = Failed(child) /\ UNCHANGED <<dirs, damage>>
  BY <1>1, <1>4 DEF HostIntact, Fault
<1>5. CASE \E S \in SUBSET ToSet(ps) : FailsAfterCleanup(t, ps, S, 1)
  <2>1. PICK S \in SUBSET ToSet(ps) : FailsAfterCleanup(t, ps, S, 1)
    BY <1>5
  <2> HIDE DEF ps
  <2>2. IsFiniteSet(S) /\ Cardinality(S) \in Nat
    <3>1. IsFiniteSet(S)
      BY <1>3, FiniteRange, FS_Subset
    <3> QED BY <3>1, FS_CardinalityType
  <2>3. ASSUME 1 + Cardinality(S) < 2
        PROVE  ~Exposed(UnmountAll(t, Keep(ps, ToSet(ps) \ S)))
    <3>1. S = {}
      <4>1. Cardinality(S) = 0
        BY <2>2, <2>3
      <4> QED BY <2>2, <4>1, FS_EmptySet
    <3> DEFINE W == ToSet(ps) \ S
    <3>2. \A i \in 1..Len(ps) : ps[i] \in W
      BY <1>3, <3>1, PlaceOf
    <3> HIDE DEF W
    <3>3. Keep(ps, W) = SubSeq(ps, 1, Len(ps))
      <4>1. \A i \in 1..Len(ps) : ps[i] \in W <=> i <= Len(ps)
        BY <1>1, <1>3, <3>2
      <4>2. Len(ps) \in 0..Len(ps)
        BY <1>1, <1>3
      <4> QED BY <1>3, <4>1, <4>2, KeepFront
    <3>4. Keep(ps, W) = ps
      BY <1>3, <3>3, SubSeqFull
    <3>5. ASSUME NEW i \in 1..Len(ps) PROVE ps[i] = t[Len(t) + 1 - i].at
      <4>1. i \in 1..Len(t) /\ Len(t) + 1 - i \in 1..Len(t)
        BY <1>1, <1>3
      <4> QED BY <1>2, <1>3, <4>1
    <3>6. UnmountAll(t, ps) = SubSeq(t, 1, Len(t) - Len(ps))
      <4>1. Len(ps) <= Len(t)
        BY <1>1, <1>3
      <4> QED BY <1>1, <1>3, <3>5, <4>1, UnmountAllBack
    <3>7. SubSeq(t, 1, 0) = <<>> /\ Len(t) - Len(ps) = 0
      BY <1>1, <1>3
    <3> QED BY <3>4, <3>6, <3>7, NotExposed DEF W
  <2> QED BY <2>1, <2>2, <2>3, CleanupIntact
<1>6. CASE FailsAfterCleanup(t, <<>>, {}, 2)
  <2>1. IsFiniteSet({}) /\ Cardinality({}) = 0
    BY FS_EmptySet
  <2>2. ~(2 + Cardinality({}) < 2)
    BY <2>1
  <2> QED BY <1>6, <2>1, <2>2, CleanupIntact
<1> QED BY <1>4, <1>5, <1>6 DEF CleansRoot, t, f

\* A step that removes no directory of a helper.
LEMMA QuietIntact ==
  ASSUME SessionInv, HostIntact, damage' = damage,
         faults' = faults \/ \E k \in Nat : Fault(k)
  PROVE  HostIntact'
<1>1. faults \in Nat
  BY FaultsNat
<1>2. faults' < 2 => faults < 2
  BY <1>1 DEF Fault
<1> QED BY <1>2 DEF HostIntact

\* Every step of the helper preserves HostIntact.
LEMMA HelperIntact ==
  ASSUME SessionInv, Built, HostIntact, Helper
  PROVE  HostIntact'
<1>1. CASE Decode \/ BindRoot \/ PrivateRoot \/ AllMounted \/ Exec
  <2>1. damage' = damage /\ (faults' = faults \/ Fault(1))
    BY <1>1 DEF Decode, BindRoot, PrivateRoot, AllMounted, Exec, FailsPlainly
  <2> QED BY <2>1, QuietIntact
<1>2. CASE StaticLayout \/ Chroot
  <2>1. CASE UNCHANGED <<damage, faults>>
    BY <2>1, QuietIntact
  <2>2. CASE CleansRoot
    BY <2>2, CleansRootIntact
  <2> QED BY <1>2, <2>1, <2>2 DEF StaticLayout, Chroot
<1>3. CASE MountNext
  <2> DEFINE mount == Head(child.mounts)
             left == Append(child.table, [Mounted(mount) EXCEPT !.readOnly = FALSE])
  <2>0. child.pc = "mount" /\ child.mounts # <<>>
    BY <1>3 DEF MountNext
  <2>1. Laid /\ child.conf \in Configs
    BY <2>0 DEF Built, SessionInv, Progress, Alive, Building
  <2>2. CASE damage' = damage /\ (faults' = faults \/ Fault(1))
    BY <2>2, QuietIntact
  <2>3. CASE CleansList(child.table, 0) \/ CleansList(child.table, 1)
    BY <2>0, <2>1, <2>3, CleansListIntact
  <2>4. CASE \E k \in {2} \cup (IF mount.readOnly THEN {3} ELSE {}) : CleansList(left, k)
    <3>1. PICK k \in {2, 3} : CleansList(left, k)
      BY <2>4
    <3> HIDE DEF left
    <3>2. PICK S \in SUBSET (ToSet(child.mounted) \cup {<<>>}) :
            FailsAfterCleanup(left, Append(Reverse(child.mounted), <<>>), S, k)
      BY <3>1 DEF CleansList
    <3>3. IsFiniteSet(S) /\ Cardinality(S) \in Nat
      <4>1. child.mounted \in Seq(Path)
        BY DEF SessionInv, Types, HelperTypes
      <4>2. IsFiniteSet(ToSet(child.mounted) \cup {<<>>})
        BY <4>1, FiniteRange, FS_AddElement
      <4>3. IsFiniteSet(S)
        BY <4>2, FS_Subset
      <4> QED BY <4>3, FS_CardinalityType
    <3>4. k \in Nat /\ ~(k + Cardinality(S) < 2)
      BY <3>3
    <3> QED BY <3>2, <3>3, <3>4, CleanupIntact
  <2> QED BY <1>3, <2>2, <2>3, <2>4 DEF MountNext
<1> QED BY <1>1, <1>2, <1>3 DEF Helper

\* Every step preserves HostIntact.
LEMMA IntactStep ==
  ASSUME SessionInv, Built, HostIntact, [Next]_vars
  PROVE  HostIntact'
<1>1. CASE Helper
  BY <1>1, HelperIntact
<1>2. CASE \/ \E s \in Sessions : Launch(s)
           \/ ResolveSession \/ Start \/ Await
           \/ WaitForStartup \/ Stop \/ TakeNote \/ Notify
           \/ \E n \in 1..MaxLaunches : Serve(n) \/ AcceptFails(n)
           \/ ChildExits \/ ChildKilled \/ ServiceDies \/ UNCHANGED vars
  <2>1. damage' = damage /\ (faults' = faults \/ Fault(1))
    BY <1>2 DEF Launch, ResolveSession, Start, Await, WaitForStartup, Stop, TakeNote,
       Notify, Serve, AcceptFails, ChildExits, ChildKilled, ServiceDies, sandboxVars, vars
  <2> QED BY <2>1, QuietIntact
<1>3. CASE ProbeEnds \/ StartFailed \/ Unwind
  <2>1. damage' = damage /\ (faults' = faults \/ Fault(1) \/ Fault(0) \/ Fault(0 + 1))
    BY <1>3 DEF ProbeEnds, StartFailed, Unwind, CleanRoot, CommandDirect
  <2> QED BY <2>1, QuietIntact
<1>4. CASE Command
  <2>1. damage' = damage
    BY <1>4 DEF Command
  <2>2. \/ CommandDirect(0)
        \/ \E purpose : CommandSandbox(purpose)
        \/ \E purpose : \E left \in SUBSET {Root(purpose)} : Fault(1 + Cardinality(left))
        \/ \E left \in SUBSET {Root("core")} : CommandDirect(1 + Cardinality(left))
    BY <1>4 DEF Command
  <2>3. ASSUME NEW k \in Nat, CommandDirect(k) PROVE \E l \in Nat : Fault(l)
    <3>1. Fault(k) \/ Fault(k + 1)
      BY <2>3 DEF CommandDirect
    <3> QED BY <3>1
  <2>4. ASSUME NEW purpose, CommandSandbox(purpose)
        PROVE  \E l \in Nat : Fault(l)
    <3>1. PICK kept \in SUBSET StaleRoots : Fault(Cardinality(kept))
      BY <2>4 DEF CommandSandbox
    <3>2. kept \subseteq dirs /\ IsFiniteSet(dirs)
      BY DEF StaleRoots, SessionInv, Types
    <3>3. Cardinality(kept) \in Nat
      BY <3>2, FS_Subset, FS_CardinalityType
    <3> QED BY <3>1, <3>3
  <2>5. ASSUME NEW d, NEW left \in SUBSET {d}
        PROVE  1 + Cardinality(left) \in Nat
    <3>1. Cardinality(left) \in Nat
      BY AtMostOne
    <3> QED BY <3>1
  <2>6. ASSUME NEW d, NEW left \in SUBSET {d},
               Fault(1 + Cardinality(left)) \/ CommandDirect(1 + Cardinality(left))
        PROVE  \E l \in Nat : Fault(l)
    <3>1. 1 + Cardinality(left) \in Nat
      BY <2>5
    <3> QED BY <2>3, <2>6, <3>1
  <2>7. \E l \in Nat : Fault(l)
    <3>1. 0 \in Nat
      OBVIOUS
    <3> QED BY <2>2, <2>3, <2>4, <2>6, <3>1
  <2> QED BY <2>1, <2>7, QuietIntact
<1>5. CASE CreateHook
  <2>1. damage' = damage
    BY <1>5 DEF CreateHook
  <2>2. PICK kept \in SUBSET StaleNotify, left \in SUBSET {Dir("notify")} :
          \/ SweepsNotify(kept, {Dir("notify")}, 0)
          \/ SweepsNotify(kept, left, 1 + Cardinality(left))
    BY <1>5 DEF CreateHook
  <2>3. Cardinality(left) \in Nat
    BY AtMostOne
  <2>4. ASSUME NEW made, NEW k \in Nat, SweepsNotify(kept, made, k)
        PROVE  \E l \in Nat : Fault(l)
    <3>1. Fault(k + (IF kept = {} THEN 0 ELSE 1))
      BY <2>4 DEF SweepsNotify
    <3>2. Fault(k + 0) \/ Fault(k + 1)
      BY <3>1
    <3> QED BY <3>2
  <2>5. 1 + Cardinality(left) \in Nat /\ 0 \in Nat
    BY <2>3
  <2>6. \E l \in Nat : Fault(l)
    BY <2>2, <2>4, <2>5
  <2> QED BY <2>1, <2>6, QuietIntact
<1>6. CASE CreateEndpoint
  <2>1. damage' = damage
    BY <1>6 DEF CreateEndpoint
  <2>2. CASE faults' = faults
    BY <2>1, <2>2, QuietIntact
  <2>3. CASE \E left \in SUBSET {Dir("controller")} : Fault(1 + Cardinality(left))
    <3>1. PICK left \in SUBSET {Dir("controller")} : Fault(1 + Cardinality(left))
      BY <2>3
    <3>2. Cardinality(left) \in Nat
      BY AtMostOne
    <3>3. 1 + Cardinality(left) \in Nat
      BY <3>2
    <3>4. \E l \in Nat : Fault(l)
      BY <3>1, <3>3
    <3> QED BY <2>1, <3>4, QuietIntact
  <2> QED BY <1>6, <2>2, <2>3 DEF CreateEndpoint
<1> QED BY <1>1, <1>2, <1>3, <1>4, <1>5, <1>6 DEF Next, LaunchStep

\* Removing the root directory of a sandbox never reaches through a writable
\* mapping into the host unless two system calls failed: whatever part of the
\* plan was mounted, and in whatever order the helper gave up (cleanup of
\* prepareRoot, cleanupLinuxSandboxRoot).
THEOREM HostIntactAlways == Spec => []HostIntact
<1>1. Init => HostIntact
  BY DEF Init, HostIntact
<1> QED BY <1>1, IntactStep, SessionInvariant, BuiltInvariant, PTL DEF Spec
============================================================================

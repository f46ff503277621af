--------------------------- MODULE LanternProofs ---------------------------
(***************************************************************************)
(* Theorems about Lantern, for every set of interfaces, on both platforms, *)
(* whatever reads and writes fail and whatever other programs do, between  *)
(* the passes of the code included.                                        *)
(***************************************************************************)
EXTENDS Lantern, SequenceTheorems, TLAPS

Bit == {0, 1}
Entry == [before : Bit, value : Bit]

\* The settings of the platform; macOS has none per interface.
LEMMA Keys ==
    /\ All6 \in Key /\ PerInterface6 \subseteq Key /\ All6 \notin PerInterface6
    /\ Key \subseteq AnyKey
    /\ ~linux => PerInterface6 = {}
    /\ \A i \in Interface :
          /\ V4(i) \in Key /\ V6(i) \in Key /\ V6(i) \in PerInterface6 \cup {All6}
          /\ V4(i) \notin PerInterface6 \cup {All6}
    /\ \A k \in PerInterface6 \cup {All6} : k[1] = "v6"
<1>1. \A i \in Interface : V4(i)[1] = "v4" /\ V6(i)[1] = "v6" /\ V4(i) \in AnyKey /\ V6(i) \in AnyKey
  BY DEF V4, V6, AnyKey
<1>2. All6[1] = "v6" /\ All6 \in AnyKey
  BY DEF All6, AnyKey
<1>3. ~linux => \A i \in Interface : V6(i) = All6
  BY DEF V6, All6
<1> QED BY <1>1, <1>2, <1>3 DEF Key, PerInterface6

----------------------------------------------------------------------------
(* What restoring and preparing do to the settings and to the snapshots; X are *)
(* the settings whose way back is lost.                                        *)

\* What a setting goes back to: the value another program gave it last, or the first one.
Base(k) == IF k \in touched THEN foreign[k] ELSE orig[k]

\* A snapshot that preparing makes: forwarding is only ever turned on, and whoever
\* covers the value for all interfaces covers those of the interfaces.
Good(f, X) ==
    /\ f \in [DOMAIN f -> Entry] /\ DOMAIN f \subseteq Key
    /\ \A k \in DOMAIN f \ X : f[k].before = 1 => f[k].value = 1
    /\ All6 \in DOMAIN f => PerInterface6 \subseteq DOMAIN f

Raised(k, f) == k \in DOMAIN f /\ f[k].before = 0 /\ f[k].value = 1

\* With the settings s and the snapshots L, restoring L brings every setting back: one
\* that is on and should not be was turned on by one of L, and one that was on when
\* the service started has been on in all of them.
Sound(s, L, X) ==
    \A k \in Key \ X :
        /\ Base(k) = 0 /\ s[k] = 1 => \E f \in L : Raised(k, f)
        /\ k \notin touched /\ orig[k] = 1 =>
              s[k] = 1 /\ \A f \in L : k \in DOMAIN f => f[k].before = 1

\* Losing more demands less.
LEMMA MoreLost ==
    ASSUME NEW X, NEW Y, X \subseteq Y
    PROVE  /\ \A f : Good(f, X) => Good(f, Y)
           /\ \A s, L : Sound(s, L, X) => Sound(s, L, Y)
BY DEF Good, Sound

\* The writes of a restore of f in which those of the settings F fail, P of which change.
Restoring(seen, s, f, o, F, P) ==
    /\ F \in SUBSET DOMAIN f /\ P \subseteq F /\ (linux => P = {})
    /\ o.s = Written(s, (DOMAIN f \ F) \cup P, Target(seen, f))
    /\ o.f = Kept(f, F, o.ok) /\ (o.ok => F = {})
    /\ o.lost = {k \in DOMAIN f : o.s[k] # s[k] /\ (s[k] # seen[k] \/ o.s[k] # Target(seen, f)[k])}

LEMMA RestoreOutcome ==
    ASSUME NEW seen, NEW s, NEW f, NEW o \in RestoreOutcomes(seen, s, f)
    PROVE  (\E F, P : Restoring(seen, s, f, o, F, P)) /\ o.ok \in BOOLEAN
<1>1. PICK r \in (SUBSET DOMAIN f) \X (SUBSET DOMAIN f) \X BOOLEAN :
         /\ r[2] \subseteq r[1] /\ (linux => r[2] = {})
         /\ o = LET t == Target(seen, f)
                    new == Written(s, (DOMAIN f \ r[1]) \cup r[2], t)
                    ok == r[1] = {} /\ ~r[3]
                IN [s |-> new, f |-> Kept(f, r[1], ok), ok |-> ok,
                    lost |-> {k \in DOMAIN f : new[k] # s[k] /\ (s[k] # seen[k] \/ new[k] # t[k])}]
  BY DEF RestoreOutcomes
<1>2. /\ o.s = Written(s, (DOMAIN f \ r[1]) \cup r[2], Target(seen, f))
      /\ o.ok = (r[1] = {} /\ ~r[3]) /\ o.f = Kept(f, r[1], o.ok)
      /\ o.lost = {k \in DOMAIN f : o.s[k] # s[k] /\ (s[k] # seen[k] \/ o.s[k] # Target(seen, f)[k])}
  BY <1>1
<1>3. Restoring(seen, s, f, o, r[1], r[2])
  BY <1>1, <1>2 DEF Restoring
<1> QED BY <1>2, <1>3

\* What is kept of a snapshot after the writes of the settings F failed.
LEMMA KeptGood ==
    ASSUME NEW X, NEW f, Good(f, X), NEW F \in SUBSET DOMAIN f, NEW ok \in BOOLEAN
    PROVE  /\ Good(Kept(f, F, ok), X)
           /\ \A k \in DOMAIN Kept(f, F, ok) : k \in DOMAIN f /\ Kept(f, F, ok)[k] = f[k]
           /\ ~ok => F \subseteq DOMAIN Kept(f, F, ok)
           /\ ok => DOMAIN Kept(f, F, ok) = {}
<1>1. CASE ok
  BY <1>1 DEF Kept, NoSettings, Good
<1>2. CASE ~ok /\ linux
  BY <1>2 DEF Kept
<1>3. CASE ~ok /\ ~linux
  <2>1. Kept(f, F, ok) = [k \in F |-> f[k]]
    BY <1>3 DEF Kept
  <2> QED BY <1>3, <2>1, Keys DEF Good
<1> QED BY <1>1, <1>2, <1>3

\* A restore gives a setting its old value, if it has the one that was written, or leaves
\* it, unless its way back is lost.
Values(seen, s, f, o, X) ==
    /\ o.s \in Sysctl /\ Good(o.f, X) /\ (o.ok => DOMAIN o.f = {}) /\ o.lost \subseteq Key
    /\ \A k \in DOMAIN o.f : k \in DOMAIN f /\ o.f[k] = f[k]
    /\ \A k \in Key \ o.lost :
          \/ o.s[k] = s[k] /\ (k \in DOMAIN f => k \in DOMAIN o.f \/ s[k] # f[k].value \/ f[k].before = s[k])
          \/ k \in DOMAIN f /\ s[k] = f[k].value /\ o.s[k] = f[k].before
    /\ \A k \in Key :
          \/ o.s[k] = s[k]
          \/ k \in DOMAIN f /\ o.s[k] \in {seen[k], f[k].before}
          \/ k \in PerInterface6 /\ All6 \in DOMAIN f /\ o.s[k] \in {seen[All6], f[All6].before}

LEMMA RestoreValues ==
    ASSUME NEW X, NEW seen \in Sysctl, NEW s \in Sysctl, NEW f, Good(f, X),
           NEW o \in RestoreOutcomes(seen, s, f)
    PROVE  Values(seen, s, f, o, X)
<1>1. PICK F, P : Restoring(seen, s, f, o, F, P)
  BY RestoreOutcome
<1> DEFINE S == (DOMAIN f \ F) \cup P
           t == Target(seen, f)
<1>2. /\ F \in SUBSET DOMAIN f /\ P \subseteq F /\ (linux => P = {})
      /\ o.s = Written(s, S, t)
      /\ o.f = Kept(f, F, o.ok) /\ (o.ok => F = {}) /\ o.ok \in BOOLEAN
      /\ o.lost = {k \in DOMAIN f : o.s[k] # s[k] /\ (s[k] # seen[k] \/ o.s[k] # t[k])}
  BY <1>1, RestoreOutcome DEF Restoring
<1>3. /\ Good(o.f, X) /\ (o.ok => DOMAIN o.f = {}) /\ (F # {} => F \subseteq DOMAIN o.f)
      /\ \A k \in DOMAIN o.f : k \in DOMAIN f /\ o.f[k] = f[k]
  <2> DEFINE m == Kept(f, F, o.ok)
  <2>1. /\ Good(m, X) /\ (\A k \in DOMAIN m : k \in DOMAIN f /\ m[k] = f[k])
        /\ (~o.ok => F \subseteq DOMAIN m) /\ (o.ok => DOMAIN m = {})
    BY <1>2, KeptGood
  <2> HIDE DEF m
  <2>2. o.f = m
    BY <1>2 DEF m
  <2> QED BY <1>2, <2>1, <2>2
<1>4. \A k \in DOMAIN f : k \in Key /\ f[k].before \in Bit /\ t[k] = IF seen[k] = f[k].value THEN f[k].before ELSE seen[k]
  BY DEF Good, Entry, Target
<1>5. \A k \in Key : o.s[k] = IF k \in S THEN t[k]
                              ELSE IF k \in PerInterface6 /\ All6 \in S THEN t[All6] ELSE s[k]
  BY <1>2 DEF Written
<1>6. S \subseteq DOMAIN f /\ \A k \in Key : s[k] \in Bit /\ seen[k] \in Bit
  BY <1>2 DEF Sysctl, Bit
<1>7. o.s \in Sysctl
  <2>1. o.s = [k \in Key |-> o.s[k]]
    BY <1>2 DEF Written
  <2>2. \A k \in Key : o.s[k] \in Bit
    BY <1>4, <1>5, <1>6
  <2> QED BY <2>1, <2>2 DEF Sysctl, Bit
<1>8. \A k \in Key :
         \/ o.s[k] = s[k]
         \/ k \in DOMAIN f /\ o.s[k] \in {seen[k], f[k].before}
         \/ k \in PerInterface6 /\ All6 \in DOMAIN f /\ o.s[k] \in {seen[All6], f[All6].before}
  BY <1>4, <1>5, <1>6
<1>9. ASSUME NEW k \in Key, k \notin o.lost
      PROVE  \/ o.s[k] = s[k] /\ (k \in DOMAIN f => k \in DOMAIN o.f \/ s[k] # f[k].value \/ f[k].before = s[k])
             \/ k \in DOMAIN f /\ s[k] = f[k].value /\ o.s[k] = f[k].before
  <2>1. k \in DOMAIN f => o.s[k] = s[k] \/ (s[k] = seen[k] /\ o.s[k] = t[k])
    BY <1>2, <1>9
  <2>2. k \in DOMAIN f => t[k] = IF seen[k] = f[k].value THEN f[k].before ELSE seen[k]
    BY <1>4
  <2>3. k \notin DOMAIN f => o.s[k] = s[k]
    <3>1. k \notin DOMAIN f => ~(k \in PerInterface6 /\ All6 \in S) /\ k \notin S
      BY <1>6 DEF Good
    <3> QED BY <1>5, <3>1
  <2>4. k \in S => o.s[k] = t[k]
    BY <1>5
  <2>5. k \in DOMAIN f /\ k \notin S => k \in DOMAIN o.f
    BY <1>2, <1>3
  <2> HIDE DEF S, t
  <2> QED BY <2>1, <2>2, <2>3, <2>4, <2>5
<1>10. o.lost \subseteq Key
  BY <1>2, <1>4
<1> QED BY <1>3, <1>7, <1>8, <1>9, <1>10 DEF Values

\* Restoring one of the snapshots keeps the settings on their way back.
LEMMA RestoreSound ==
    ASSUME NEW X, NEW seen \in Sysctl, NEW s \in Sysctl, NEW L, NEW f, Good(f, X),
           NEW o \in RestoreOutcomes(seen, s, f), Sound(s, L \cup {f}, X)
    PROVE  /\ Sound(o.s, L \cup {o.f}, X \cup o.lost)
           /\ o.ok => Sound(o.s, L, X \cup o.lost)
<1>0. /\ \A k \in DOMAIN o.f : k \in DOMAIN f /\ o.f[k] = f[k]
      /\ (o.ok => DOMAIN o.f = {})
      /\ \A k \in Key \ o.lost :
                 \/ o.s[k] = s[k] /\ (k \in DOMAIN f => k \in DOMAIN o.f \/ s[k] # f[k].value \/ f[k].before = s[k])
                 \/ k \in DOMAIN f /\ s[k] = f[k].value /\ o.s[k] = f[k].before
  <2>1. Values(seen, s, f, o, X)
    BY RestoreValues
  <2> QED BY <2>1 DEF Values
<1>1. ASSUME NEW k \in Key, k \notin X, k \notin o.lost, Base(k) = 0, o.s[k] = 1
      PROVE  \E g \in L \cup {o.f} : Raised(k, g)
  <2>1. s[k] = 1
    BY <1>0, <1>1 DEF Good, Entry, Sysctl
  <2>2. PICK g \in L \cup {f} : Raised(k, g)
    BY <1>1, <2>1 DEF Sound
  <2>3. CASE g \in L
    BY <2>2, <2>3
  <2>4. CASE g = f
    <3>1. k \in DOMAIN o.f
      BY <1>0, <1>1, <2>1, <2>2, <2>4 DEF Raised
    <3>2. Raised(k, o.f)
      BY <1>0, <2>2, <2>4, <3>1 DEF Raised
    <3> QED BY <3>2
  <2> QED BY <2>3, <2>4
<1>2. ASSUME NEW k \in Key, k \notin X, k \notin o.lost, k \notin touched, orig[k] = 1
      PROVE  o.s[k] = 1 /\ \A g \in L \cup {o.f} : k \in DOMAIN g => g[k].before = 1
  <2>1. s[k] = 1 /\ \A g \in L \cup {f} : k \in DOMAIN g => g[k].before = 1
    BY <1>2 DEF Sound
  <2> QED BY <1>0, <1>2, <2>1
<1>3. Sound(o.s, L \cup {o.f}, X \cup o.lost)
  BY <1>1, <1>2 DEF Sound
<1>4. o.ok => \A k : ~Raised(k, o.f)
  BY <1>0 DEF Raised
<1>5. o.ok => Sound(o.s, L, X \cup o.lost)
  BY <1>3, <1>4 DEF Sound
<1> QED BY <1>3, <1>5

\* A good snapshot is a snapshot.
LEMMA GoodSnapshot == ASSUME NEW X, NEW f, Good(f, X) PROVE f \in Snapshots /\ f # None /\ IsSnapshot(f)
<1>1. f \in [DOMAIN f -> [before : {0, 1}, value : {0, 1}]] /\ DOMAIN f \in SUBSET AnyKey
  BY Keys DEF Good, Entry, Bit
<1>2. f \in Snapshots
  BY <1>1 DEF Snapshots
<1>3. IsSnapshot(f)
  BY <1>1 DEF IsSnapshot, Good
<1> QED BY <1>2, <1>3, NoneAssumption

\* Restoring f leaves on what is on, was on when it was looked at and when f was made.
LEMMA RestoreLeavesOn ==
    ASSUME NEW X, NEW seen \in Sysctl, NEW s \in Sysctl, NEW f, Good(f, X),
           NEW o \in RestoreOutcomes(seen, s, f), NEW W \in SUBSET Key,
           W \cap PerInterface6 # {} => All6 \in W,
           \A k \in W : s[k] = 1 /\ seen[k] = 1 /\ (k \in DOMAIN f => f[k].before = 1)
    PROVE  \A k \in W : o.s[k] = 1
<1>1. \A k \in Key :
                 \/ o.s[k] = s[k]
                 \/ k \in DOMAIN f /\ o.s[k] \in {seen[k], f[k].before}
                 \/ k \in PerInterface6 /\ All6 \in DOMAIN f /\ o.s[k] \in {seen[All6], f[All6].before}
  <2>1. Values(seen, s, f, o, X)
    BY RestoreValues
  <2> QED BY <2>1 DEF Values
<1> QED BY <1>1

\* The snapshot of prepareForwarding, and the values it wants.
LEMMA CoveredFacts ==
    ASSUME op.seen \in Sysctl, NEW i \in Interface, NEW six \in BOOLEAN
    PROVE  /\ Covered(i, six) \subseteq Key
           /\ All6 \in Covered(i, six) => PerInterface6 \subseteq Covered(i, six)
           /\ \A b : Goal(i, All6, b) = 1
           /\ \A k \in Key : op.seen[k] \in Bit
           /\ \A k \in Key, b \in Bit : Goal(i, k, b) \in Bit /\ (b = 1 => Goal(i, k, b) = 1)
           /\ \A k \in Covered(i, six) : Goals(i, six)[k] = Goal(i, k, op.seen[k])
<1>1. \A k \in Key : op.seen[k] \in Bit
  BY DEF Sysctl, Bit
<1>2. Covered(i, six) \subseteq Key
  BY Keys DEF Covered, Wanted
<1>3. \A b : Goal(i, All6, b) = 1
  BY DEF Goal
<1>4. \A k \in Key, b \in Bit : Goal(i, k, b) \in Bit /\ (b = 1 => Goal(i, k, b) = 1)
  BY DEF Goal, Bit
<1>5. ASSUME All6 \in Covered(i, six) PROVE PerInterface6 \subseteq Covered(i, six)
  <2>1. CASE ~linux
    BY <2>1, Keys
  <2>2. CASE linux
    <3>1. six
      BY <1>5, Keys DEF Covered, Wanted
    <3> QED BY <2>2, <3>1, Keys DEF Covered, Wanted
  <2> QED BY <2>1, <2>2
<1>6. \A k \in Covered(i, six) : Goals(i, six)[k] = Goal(i, k, op.seen[k])
  BY DEF Goals
<1> QED BY <1>1, <1>2, <1>3, <1>4, <1>5, <1>6

\* Settings of which some are already written, and a snapshot of them: nothing that is
\* on is turned off, and what was turned on is in the snapshot.
Between(now, m, X) ==
    /\ now \in Sysctl /\ Good(m, X)
    /\ \A k \in Key \ X : k \in DOMAIN m => m[k].before = sysctl[k]
    /\ \A k \in Key \ X : now[k] = sysctl[k] \/ (now[k] = 1 /\ k \in DOMAIN m /\ m[k].value = 1)

LEMMA BetweenSound ==
    ASSUME sysctl \in Sysctl, NEW X, NEW now, NEW m, Between(now, m, X), NEW L, Sound(sysctl, L, X)
    PROVE  Sound(now, L \cup {m}, X)
<1>0. \A k \in Key : sysctl[k] \in {0, 1}
  BY DEF Sysctl
<1>1. ASSUME NEW k \in Key, k \notin X, Base(k) = 0, now[k] = 1 PROVE \E g \in L \cup {m} : Raised(k, g)
  <2>1. CASE sysctl[k] = 1
    BY <1>1, <2>1 DEF Sound
  <2>2. CASE sysctl[k] = 0
    <3>1. Raised(k, m)
      BY <1>1, <2>2 DEF Between, Raised
    <3> QED BY <3>1
  <2> QED BY <1>0, <2>1, <2>2
<1>2. ASSUME NEW k \in Key, k \notin X, k \notin touched, orig[k] = 1
      PROVE  now[k] = 1 /\ \A g \in L \cup {m} : k \in DOMAIN g => g[k].before = 1
  BY <1>2 DEF Sound, Between
<1> QED BY <1>1, <1>2 DEF Sound

\* prepareForwarding at any of its writes is such a moment: S1 is written and S2 in the
\* snapshot.
Writing(i, six, S1, S2) ==
    /\ S1 \subseteq S2 /\ S2 \subseteq Covered(i, six) /\ (linux => S2 = Covered(i, six))

LEMMA WritingFacts ==
    ASSUME sysctl \in Sysctl, op.seen \in Sysctl, NEW i \in Interface, NEW six \in BOOLEAN,
           NEW S1, NEW S2, Writing(i, six, S1, S2),
           NEW now, now = Written(sysctl, S1, Goals(i, six))
    PROVE  /\ now \in Sysctl
           /\ \A k \in S1 : now[k] = Goal(i, k, op.seen[k])
           /\ \A k \in Key : k \notin S1 => now[k] = sysctl[k] \/ (linux /\ now[k] = 1 /\ k \in S2)
           /\ \A k \in Key : sysctl[k] = 1 /\ op.seen[k] = 1 => now[k] = 1
<1> DEFINE D == Covered(i, six)
<1>1. /\ D \subseteq Key /\ (All6 \in D => PerInterface6 \subseteq D)
      /\ \A k \in Key : op.seen[k] \in Bit
      /\ \A k \in Key, b \in Bit : Goal(i, k, b) \in Bit /\ (b = 1 => Goal(i, k, b) = 1)
      /\ \A k \in D : Goals(i, six)[k] = Goal(i, k, op.seen[k])
      /\ S1 \subseteq D /\ S1 \subseteq S2
  BY CoveredFacts DEF Writing
<1>2. Goal(i, All6, op.seen[All6]) = 1
  BY DEF Goal
<1>3. \A k \in Key : now[k] = IF k \in S1 THEN Goal(i, k, op.seen[k])
                              ELSE IF k \in PerInterface6 /\ All6 \in S1 THEN 1 ELSE sysctl[k]
  BY <1>1, <1>2 DEF Written
<1>4. now = [k \in Key |-> now[k]]
  BY DEF Written
<1>5. \A k \in Key : sysctl[k] \in Bit
  BY DEF Sysctl, Bit
<1>6. \A k \in Key : now[k] \in Bit /\ (sysctl[k] = 1 /\ op.seen[k] = 1 => now[k] = 1)
  BY <1>1, <1>3, <1>5 DEF Bit
<1>7. now \in Sysctl
  BY <1>4, <1>6 DEF Sysctl, Bit
<1>8. \A k \in S1 : now[k] = Goal(i, k, op.seen[k])
  BY <1>1, <1>3
<1>9. \A k \in PerInterface6 : All6 \in S1 => linux /\ k \in S2
  BY <1>1, Keys DEF Writing
<1>10. \A k \in Key : k \notin S1 => now[k] = sysctl[k] \/ (linux /\ now[k] = 1 /\ k \in S2)
  BY <1>3, <1>9
<1> QED BY <1>6, <1>7, <1>8, <1>10

LEMMA WritingBetween ==
    ASSUME sysctl \in Sysctl, op.seen \in Sysctl, NEW i \in Interface, NEW six \in BOOLEAN,
           NEW S1, NEW S2, Writing(i, six, S1, S2),
           NEW now, now = Written(sysctl, S1, Goals(i, six)),
           NEW val, (val = Goals(i, six) /\ (~linux \/ S1 = S2)) \/ val = now,
           NEW X, Stale(S2) \subseteq X
    PROVE  /\ Between(now, MakeSnapshot(S2, val), X)
           /\ DOMAIN MakeSnapshot(S2, val) = S2
           /\ \A k \in S2 : MakeSnapshot(S2, val)[k].before = op.seen[k]
<1> DEFINE D == Covered(i, six)
           m == MakeSnapshot(S2, val)
<1>1. /\ D \subseteq Key /\ (All6 \in D => PerInterface6 \subseteq D)
      /\ \A k \in Key : op.seen[k] \in Bit
      /\ \A k \in Key, b \in Bit : Goal(i, k, b) \in Bit /\ (b = 1 => Goal(i, k, b) = 1)
      /\ \A k \in D : Goals(i, six)[k] = Goal(i, k, op.seen[k])
      /\ S2 \subseteq D /\ S1 \subseteq S2 /\ (linux => S2 = D)
  BY CoveredFacts DEF Writing
<1>2. /\ now \in Sysctl
      /\ \A k \in S1 : now[k] = Goal(i, k, op.seen[k])
      /\ \A k \in Key : k \notin S1 => now[k] = sysctl[k] \/ (linux /\ now[k] = 1 /\ k \in S2)
      /\ \A k \in Key : sysctl[k] = 1 /\ op.seen[k] = 1 => now[k] = 1
  BY WritingFacts
<1>3. DOMAIN m = S2 /\ \A k \in S2 : m[k] = [before |-> op.seen[k], value |-> val[k]]
  BY DEF MakeSnapshot
<1>4. \A k \in S2 : k \in Key /\ now[k] \in Bit /\ sysctl[k] \in Bit /\ op.seen[k] \in Bit
  BY <1>1, <1>2 DEF Sysctl, Bit
<1>5. \A k \in S2 : k \notin X => op.seen[k] = sysctl[k]
  BY DEF Stale
<1>6. \A k \in S2 : val[k] \in Bit
  <2>1. CASE val = now
    BY <1>4, <2>1
  <2>2. CASE val = Goals(i, six)
    BY <1>1, <1>4, <2>2
  <2> QED BY <2>1, <2>2
<1>7. \A k \in S2 : k \notin X => (op.seen[k] = 1 => val[k] = 1) /\ (now[k] = 1 => val[k] = 1 \/ now[k] = sysctl[k])
  <2>1. CASE val = now
    BY <1>2, <1>4, <1>5, <2>1
  <2>2. CASE val = Goals(i, six) /\ (~linux \/ S1 = S2)
    <3>1. \A k \in S2 : val[k] = Goal(i, k, op.seen[k]) /\ (op.seen[k] = 1 => val[k] = 1)
      BY <1>1, <1>4, <2>2
    <3>2. \A k \in S2 : now[k] = val[k] \/ now[k] = sysctl[k]
      BY <1>1, <1>2, <1>4, <2>2, <3>1
    <3> QED BY <3>1, <3>2
  <2> QED BY <2>1, <2>2
<1>8. m \in [S2 -> Entry]
  BY <1>3, <1>4, <1>6 DEF MakeSnapshot, Entry
<1> HIDE DEF m
<1>9. All6 \in S2 => PerInterface6 \subseteq S2
  BY <1>1, Keys
<1>10. Good(m, X)
  BY <1>1, <1>3, <1>7, <1>8, <1>9 DEF Good
<1>11. \A k \in Key \ X : now[k] = sysctl[k] \/ (now[k] = 1 /\ k \in DOMAIN m /\ m[k].value = 1)
  <2>1. ASSUME NEW k \in Key, k \notin X, k \notin S2 PROVE now[k] = sysctl[k]
    BY <1>1, <1>2, <2>1
  <2>2. ASSUME NEW k \in S2, k \notin X PROVE now[k] = sysctl[k] \/ (now[k] = 1 /\ val[k] = 1)
    <3>1. CASE now[k] = 1
      BY <1>7, <2>2, <3>1
    <3>2. CASE now[k] # 1
      <4>1. now[k] = 0 /\ sysctl[k] = op.seen[k]
        BY <1>4, <1>5, <2>2, <3>2 DEF Bit
      <4>2. sysctl[k] # 1
        BY <1>2, <1>4, <2>2, <3>2, <4>1
      <4> QED BY <1>4, <4>1, <4>2 DEF Bit
    <3> QED BY <3>1, <3>2
  <2> QED BY <1>3, <2>1, <2>2
<1>12. \A k \in Key \ X : k \in DOMAIN m => m[k].before = sysctl[k]
  BY <1>3, <1>5
<1> QED BY <1>2, <1>3, <1>10, <1>11, <1>12 DEF Between, m

\* The re-read of Linux, which puts val for the values of f, keeps the settings on their
\* way back.
Revalued(f, g, val, Y) ==
    /\ g = [k \in DOMAIN f |-> [before |-> f[k].before, value |-> val[k]]]
    /\ \A k \in DOMAIN f : val[k] \in Bit
    /\ \A k \in DOMAIN f \ Y : \/ val[k] = f[k].value
                              \/ /\ f[k].before = 1 => val[k] = 1
                                 /\ sysctl[k] \in {val[k], f[k].before}
SameBefore(f, g) == DOMAIN g = DOMAIN f /\ \A k \in DOMAIN g : g[k].before = f[k].before

LEMMA RereadSound ==
    ASSUME NEW X, NEW Y, NEW f, Good(f, X), NEW L, Sound(sysctl, L \cup {f}, X),
           NEW val, NEW g, Revalued(f, g, val, Y)
    PROVE  Good(g, X \cup Y) /\ Sound(sysctl, L \cup {g}, X \cup Y) /\ SameBefore(f, g)
<1>0. /\ g = [k \in DOMAIN f |-> [before |-> f[k].before, value |-> val[k]]]
      /\ \A k \in DOMAIN f : val[k] \in Bit
      /\ \A k \in DOMAIN f \ Y : \/ val[k] = f[k].value
                                \/ /\ f[k].before = 1 => val[k] = 1
                                   /\ sysctl[k] \in {val[k], f[k].before}
  BY DEF Revalued
<1>1. /\ DOMAIN g = DOMAIN f
      /\ \A k \in DOMAIN f : g[k] = [before |-> f[k].before, value |-> val[k]]
  BY <1>0
<1>2. \A k \in DOMAIN f : f[k].before \in Bit /\ k \in Key
  BY DEF Good, Entry
<1>3. g \in [DOMAIN g -> Entry]
  BY <1>0, <1>1, <1>2 DEF Entry
<1>4. \A k \in DOMAIN f : g[k].before = f[k].before /\ g[k].value = val[k]
  BY <1>1
<1>5. ASSUME NEW k \in DOMAIN f, k \notin X, k \notin Y, f[k].before = 1 PROVE val[k] = 1
  BY <1>0, <1>5 DEF Good
<1>6. Good(g, X \cup Y)
  BY <1>1, <1>2, <1>3, <1>4, <1>5 DEF Good
<1>7. ASSUME NEW k \in Key, k \notin X, k \notin Y, Base(k) = 0, sysctl[k] = 1
      PROVE  \E h \in L \cup {g} : Raised(k, h)
  <2>1. PICK h \in L \cup {f} : Raised(k, h)
    BY <1>7 DEF Sound
  <2>2. CASE h \in L
    BY <2>1, <2>2
  <2>3. CASE h = f
    <3>1. k \in DOMAIN f /\ f[k].before = 0 /\ f[k].value = 1
      BY <2>1, <2>3 DEF Raised
    <3>2. val[k] = 1
      BY <1>0, <1>7, <3>1
    <3> QED BY <1>1, <1>4, <3>1, <3>2 DEF Raised
  <2> QED BY <2>2, <2>3
<1>8. ASSUME NEW k \in Key, k \notin X, k \notin touched, orig[k] = 1
      PROVE  sysctl[k] = 1 /\ \A h \in L \cup {g} : k \in DOMAIN h => h[k].before = 1
  <2>1. sysctl[k] = 1 /\ \A h \in L \cup {f} : k \in DOMAIN h => h[k].before = 1
    BY <1>8 DEF Sound
  <2> QED BY <1>1, <1>4, <2>1
<1>9. Sound(sysctl, L \cup {g}, X \cup Y)
  BY <1>7, <1>8 DEF Sound
<1> QED BY <1>1, <1>4, <1>6, <1>9 DEF SameBefore

----------------------------------------------------------------------------
(* The inductive invariant. *)

\* Every snapshot there is: of the start, of the updates, of prepareForwarding.
Held(u, f, g) == {u[n] : n \in 1..Len(u)} \cup {x \in {f, g} : x # None}
Layers == Held(updates, forwarding, op.f)

World == /\ linux \in Platforms /\ sysctl \in Sysctl /\ orig \in Sysctl
         /\ foreign \in Sysctl /\ touched \in SUBSET Key
OpSet == [do : Step, then : {"", "start", "end", "configure"}, opts : Options \cup {None}, err : BOOLEAN,
          f : Snapshots \cup {None}, seen : Sysctl \cup {None}]
Fields == /\ lost \in SUBSET Key /\ controller \in {"none", "running", "done"}
          /\ gateway \in Options \cup {None} /\ updates \in Seq(Snapshots)
          /\ closed \in BOOLEAN /\ probing \in BOOLEAN /\ op \in OpSet /\ requests \in Nat /\ faults \in Nat
AllGood == \A f \in Layers : Good(f, lost)

\* Who holds manager.mu, where it is, and what it can rely on there.
Preparing == op.do \in {"prepare", "reread", "undo"}
OpInv ==
    /\ updates # <<>> => forwarding # None
    /\ op.do \in {"reread", "undo"} => op.f # None
    /\ op.f # None => op.do \in {"reread", "undo", "configure"}
    /\ op.do \in {"restore", "launch"} => ~Running
    /\ op.do = "launch" => op.then = "start" /\ (op.opts # None => forwarding # None)
    /\ Preparing \/ op.do = "configure" => op.opts \in Options
    /\ Preparing /\ op.then = "start" => ~Running /\ forwarding = None
    /\ (Preparing /\ op.then # "start") \/ op.do = "configure" => forwarding # None
    /\ Running /\ gateway # None => forwarding # None
    /\ op.then = "start" => ~closed /\ ~probing

\* Restoring what the manager and the handler hold brings every setting back.
BackInv == Sound(sysctl, Layers, lost)

\* Who changes the value for all interfaces changes those of the interfaces.
TouchInv == All6 \in touched => PerInterface6 \subseteq touched

\* Between two passes only other programs change the settings.
SeenInv == op.seen # None => \A k \in Key \ touched : op.seen[k] = sysctl[k]

\* Forwarding is on for the gateway that runs and for the one that is about to, and
\* undoing the reconfiguration leaves it on.
Forwards(o) == \A k \in Needs(o) \ touched : sysctl[k] = 1
OnInv ==
    /\ Running /\ gateway # None => Forwards(gateway)
    /\ op.do = "launch" /\ op.opts # None => Forwards(op.opts)
    /\ op.do = "configure" => Forwards(op.opts)
    /\ op.f # None /\ Running /\ gateway # None =>
          \A k \in Needs(gateway) \ touched : k \in DOMAIN op.f => op.f[k].before = 1

LanternInv == World /\ Fields /\ AllGood /\ OpInv /\ BackInv /\ TouchInv /\ SeenInv /\ OnInv

LEMMA InvType == World /\ Fields /\ AllGood => TypeOK
<1> SUFFICES ASSUME World, Fields, AllGood PROVE TypeOK
  OBVIOUS
<1>1. \A f \in Layers : IsSnapshot(f)
  BY GoodSnapshot DEF AllGood
<1>2. forwarding = None \/ IsSnapshot(forwarding)
  BY <1>1 DEF Layers, Held
<1>3. \A n \in DOMAIN updates : IsSnapshot(updates[n])
  BY <1>1 DEF Layers, Held, Fields
<1>4. IsOp(op)
  BY <1>1 DEF Layers, Held, IsOp, Fields, OpSet
<1> QED BY <1>2, <1>3, <1>4 DEF World, Fields, TypeOK

\* On the same platform the settings are the same, ...
LEMMA SamePlatform ==
    ASSUME linux' = linux
    PROVE  Key' = Key /\ PerInterface6' = PerInterface6 /\ Sysctl' = Sysctl /\ OpSet' = OpSet
BY DEF Key, PerInterface6, V4, V6, All6, Sysctl, OpSet

\* ... the invariant for the next state can be stated with the settings of this one, ...
LEMMA NextGood == ASSUME linux' = linux, \A f \in Layers' : Good(f, lost') PROVE AllGood'
BY SamePlatform DEF AllGood, Good, Entry, Bit, All6

LEMMA NextBack ==
    ASSUME UNCHANGED <<linux, orig, touched, foreign>>, Sound(sysctl', Layers', lost')
    PROVE  BackInv'
BY SamePlatform DEF BackInv, Sound, Base, Raised

\* ... and so can what the gateways need.
LEMMA NextOn ==
    ASSUME linux' = linux,
           Running' /\ gateway' # None => \A k \in Needs(gateway') \ touched' : sysctl'[k] = 1,
           op'.do = "launch" /\ op'.opts # None => \A k \in Needs(op'.opts) \ touched' : sysctl'[k] = 1,
           op'.do = "configure" => \A k \in Needs(op'.opts) \ touched' : sysctl'[k] = 1,
           op'.f # None /\ Running' /\ gateway' # None =>
              \A k \in Needs(gateway') \ touched' : k \in DOMAIN op'.f => op'.f[k].before = 1
    PROVE  OnInv'
BY DEF OnInv, Forwards, Needs, V4, V6, All6

\* What a gateway needs, if no other program changed it, can be handed to RestoreLeavesOn.
LEMMA NeedsFacts ==
    ASSUME World, TouchInv, NEW o \in Options
    PROVE  LET X == Needs(o) \ touched
           IN  X \in SUBSET Key /\ (X \cap PerInterface6 # {} => All6 \in X)
<1>1. o.iface \in Interface
  BY DEF Options
<1> QED BY <1>1, Keys DEF Needs, TouchInv

(* Sequences of snapshots. *)

LEMMA HeldAppend ==
    ASSUME NEW u \in Seq(Snapshots), NEW x \in Snapshots, NEW f
    PROVE  /\ Append(u, x) \in Seq(Snapshots) /\ Append(u, x) # <<>>
           /\ Held(Append(u, x), f, None) = Held(u, f, x)
<1>1. /\ Append(u, x) \in Seq(Snapshots) /\ Len(Append(u, x)) = Len(u) + 1 /\ Len(u) \in Nat
      /\ \A n \in 1..Len(u) : Append(u, x)[n] = u[n]
      /\ Append(u, x)[Len(u) + 1] = x
  OBVIOUS
<1>2. 1..(Len(u) + 1) = 1..Len(u) \cup {Len(u) + 1}
  BY <1>1
<1>3. {Append(u, x)[n] : n \in 1..(Len(u) + 1)} = {u[n] : n \in 1..Len(u)} \cup {x}
  BY <1>1, <1>2
<1>4. x # None
  BY NoneAssumption
<1>5. Append(u, x) # <<>>
  BY <1>1
<1> QED BY <1>1, <1>3, <1>4, <1>5 DEF Held

LEMMA HeldLast ==
    ASSUME NEW u \in Seq(Snapshots), u # <<>>, NEW f
    PROVE  LET n == Len(u)
               rest == SubSeq(u, 1, n - 1)
           IN  /\ u[n] \in Snapshots /\ rest \in Seq(Snapshots)
               /\ Held(u, f, None) = Held(rest, f, None) \cup {u[n]}
               /\ \A x \in Snapshots :
                     /\ [u EXCEPT ![n] = x] \in Seq(Snapshots)
                     /\ Held([u EXCEPT ![n] = x], f, None) = Held(rest, f, None) \cup {x}
<1> DEFINE n == Len(u)
           rest == SubSeq(u, 1, n - 1)
<1>1. n \in Nat /\ n >= 1 /\ u[n] \in Snapshots
  OBVIOUS
<1>2. rest \in Seq(Snapshots) /\ Len(rest) = n - 1 /\ \A j \in 1..(n - 1) : rest[j] = u[j]
  <2>1. 1 \in Int /\ n - 1 \in Int /\ \A j \in 1..(n - 1) : u[j] \in Snapshots
    BY <1>1
  <2> DEFINE e == n - 1
  <2>2. e \in Int /\ \A j \in 1..e : u[j] \in Snapshots
    BY <2>1
  <2> HIDE DEF e
  <2>3. /\ SubSeq(u, 1, e) \in Seq(Snapshots) /\ Len(SubSeq(u, 1, e)) = IF 1 <= e THEN e - 1 + 1 ELSE 0
        /\ \A j \in 1..(e - 1 + 1) : SubSeq(u, 1, e)[j] = u[1 + j - 1]
    BY <2>2, SubSeqProperties, SMT
  <2>4. e - 1 + 1 = e /\ e >= 0 /\ (\A j \in 1..e : 1 + j - 1 = j) /\ e = n - 1
    BY <1>1 DEF e
  <2>5. SubSeq(u, 1, e) = rest
    BY DEF e
  <2> HIDE DEF n, rest
  <2> QED BY <2>2, <2>3, <2>4, <2>5
<1>3. 1..n = 1..(n - 1) \cup {n} /\ n \notin 1..(n - 1)
  BY <1>1
<1>4. ASSUME NEW x \in Snapshots
      PROVE  /\ [u EXCEPT ![n] = x] \in Seq(Snapshots)
             /\ Held([u EXCEPT ![n] = x], f, None) = Held(rest, f, None) \cup {x}
  <2> DEFINE v == [u EXCEPT ![n] = x]
  <2>1. v \in Seq(Snapshots) /\ Len(v) = n /\ v[n] = x /\ \A j \in 1..(n - 1) : v[j] = u[j]
    BY <1>1, <1>3
  <2> HIDE DEF v
  <2>2. {v[j] : j \in 1..Len(v)} = {rest[j] : j \in 1..Len(rest)} \cup {x}
    BY <1>2, <1>3, <2>1
  <2>3. Held(v, f, None) = Held(rest, f, None) \cup {x}
    BY <2>2 DEF Held
  <2> QED BY <2>1, <2>3 DEF v
<1>5. {u[j] : j \in 1..Len(u)} = {rest[j] : j \in 1..Len(rest)} \cup {u[n]}
  BY <1>2, <1>3
<1>6. Held(u, f, None) = Held(rest, f, None) \cup {u[n]}
  BY <1>5 DEF Held
<1> QED BY <1>1, <1>2, <1>4, <1>6

LEMMA HeldNone == Held(<<>>, None, None) = {}
BY DEF Held

LEMMA HeldMore == ASSUME NEW u, NEW f, NEW x, x # None PROVE Held(u, f, x) = Held(u, f, None) \cup {x}
BY DEF Held

LEMMA HeldStart == ASSUME NEW x, x # None PROVE Held(<<>>, x, None) = {x} /\ Held(<<>>, None, x) = {x}
BY DEF Held

----------------------------------------------------------------------------
(* Every step keeps the invariant. *)

LEMMA IdleFacts ==
    /\ Idle \in OpSet /\ Idle.f = None /\ Idle.do = "idle" /\ Idle.then = "" /\ Idle.seen = None
    /\ Idle.opts = None
BY DEF Idle, OpSet, Step

\* A step that leaves the settings and the snapshots alone.
LEMMA SameSettings ==
    ASSUME LanternInv, UNCHANGED <<osVars, lost>>, Layers' = Layers, op'.seen \in {op.seen, sysctl, None}
    PROVE  World' /\ AllGood' /\ BackInv' /\ TouchInv' /\ SeenInv'
<1> USE DEF osVars
<1>1. World'
  BY SamePlatform DEF LanternInv, World
<1>2. AllGood'
  BY NextGood DEF LanternInv, AllGood
<1>3. BackInv'
  BY NextBack DEF LanternInv, BackInv
<1>4. TouchInv'
  BY SamePlatform DEF LanternInv, TouchInv, All6
<1>5. SeenInv'
  BY SamePlatform DEF LanternInv, SeenInv
<1> QED BY <1>1, <1>2, <1>3, <1>4, <1>5

\* A step that changes the settings, and with them the snapshots.
LEMMA NewSettings ==
    ASSUME LanternInv, UNCHANGED kernelVars, sysctl' \in Sysctl,
           \A f \in Layers' : Good(f, lost'), Sound(sysctl', Layers', lost'),
           op'.seen = None \/ UNCHANGED <<sysctl, op.seen>>
    PROVE  World' /\ AllGood' /\ BackInv' /\ TouchInv' /\ SeenInv'
<1> USE DEF kernelVars
<1>1. World'
  BY SamePlatform DEF LanternInv, World
<1>2. AllGood'
  BY NextGood
<1>3. BackInv'
  BY NextBack
<1>4. TouchInv'
  BY SamePlatform DEF LanternInv, TouchInv, All6
<1>5. SeenInv'
  BY SamePlatform DEF LanternInv, SeenInv
<1> QED BY <1>1, <1>2, <1>3, <1>4, <1>5

\* A step of which OnInv knows nothing: the manager is not at a launch or a
\* reconfiguration, and no gateway starts.
LEMMA OnIdle ==
    ASSUME LanternInv, UNCHANGED <<linux, sysctl, touched>>, op'.do \notin {"launch", "configure"}, op'.f = None,
           Running' => Running /\ gateway' = gateway
    PROVE  OnInv'
<1>1. Running' /\ gateway' # None => \A k \in Needs(gateway') \ touched' : sysctl'[k] = 1
  BY DEF LanternInv, OnInv, Forwards
<1> QED BY <1>1, NextOn

\* Counting requests and faults.
LEMMA Counters ==
    ASSUME LanternInv
    PROVE  /\ Locks => op = Idle /\ requests' \in Nat
           /\ \A ok \in BOOLEAN : Pass(ok) => faults' \in Nat
           /\ Fault => faults' \in Nat
           /\ requests \in Nat /\ faults \in Nat /\ requests + 1 \in Nat
<1>1. requests \in Nat /\ faults \in Nat
  BY DEF LanternInv, Fields
<1>2. requests + 1 \in Nat /\ faults + 1 \in Nat
  BY <1>1
<1> QED BY <1>1, <1>2 DEF Locks, Pass, Fault

LEMMA BeginSteps ==
    LanternInv /\ ((\E o \in Options \cup {None} : Start(o)) \/ Stop \/ Shutdown \/ Probe \/ ProbeEnds)
        => LanternInv'
<1> SUFFICES ASSUME LanternInv, (\E o \in Options \cup {None} : Start(o)) \/ Stop \/ Shutdown \/ Probe \/ ProbeEnds
             PROVE  LanternInv'
  OBVIOUS
<1> USE DEF mgrVars, flagVars
<1>0. /\ op = Idle /\ UNCHANGED <<osVars, lost, controller, gateway, forwarding, updates>>
      /\ op'.f = None /\ op'.seen = None /\ op'.do \in {"idle", "stop"}
      /\ op' \in OpSet /\ requests' \in Nat /\ faults' \in Nat /\ closed' \in BOOLEAN /\ probing' \in BOOLEAN
      /\ (op'.then = "start" => ~closed' /\ ~probing')
  <2>1. op = Idle
    BY DEF Start, Stop, Shutdown, Probe, ProbeEnds, Locks
  <2>2. closed \in BOOLEAN /\ probing \in BOOLEAN
    BY DEF LanternInv, Fields
  <2>3. requests' \in Nat /\ faults' \in Nat
    BY Counters DEF Start, Stop, Shutdown, Probe, ProbeEnds
  <2>4. UNCHANGED <<osVars, lost, controller, gateway, forwarding, updates>>
    BY DEF Start, Stop, Shutdown, Probe, ProbeEnds
  <2>5. ASSUME NEW o \in Options \cup {None}, Start(o)
        PROVE  /\ op'.f = None /\ op'.seen = None /\ op'.do = "stop" /\ op' \in OpSet
               /\ closed' = FALSE /\ probing' = FALSE
    <3>1. op' = [Idle EXCEPT !.do = "stop", !.then = "start", !.opts = o]
      BY <2>5 DEF Start
    <3>2. op' \in OpSet /\ op'.f = None /\ op'.seen = None /\ op'.do = "stop"
      BY <3>1, IdleFacts DEF OpSet, Step
    <3> QED BY <2>2, <2>5, <3>2 DEF Start
  <2>6. CASE Stop \/ Shutdown
    <3>1. op' = [Idle EXCEPT !.do = "stop", !.then = "end"]
      BY <2>6 DEF Stop, Shutdown
    <3>2. op' \in OpSet /\ op'.f = None /\ op'.seen = None /\ op'.do = "stop" /\ op'.then = "end"
      BY <3>1, IdleFacts DEF OpSet, Step
    <3>3. closed' \in BOOLEAN /\ probing' \in BOOLEAN
      BY <2>2, <2>6 DEF Stop, Shutdown
    <3> QED BY <2>1, <2>3, <2>4, <3>2, <3>3
  <2>7. CASE Probe \/ ProbeEnds
    <3>1. op' = op /\ closed' \in BOOLEAN /\ probing' \in BOOLEAN
      BY <2>2, <2>7 DEF Probe, ProbeEnds
    <3> QED BY <2>1, <2>3, <2>4, <3>1, IdleFacts
  <2> QED BY <2>1, <2>3, <2>4, <2>5, <2>6, <2>7
<1>1. Layers' = Layers
  BY <1>0, IdleFacts DEF Layers
<1>2. World' /\ AllGood' /\ BackInv' /\ TouchInv' /\ SeenInv'
  BY <1>0, <1>1, SameSettings
<1>3. Fields'
  BY <1>0, SamePlatform DEF LanternInv, Fields, osVars
<1>4. OpInv'
  BY <1>0 DEF LanternInv, OpInv, Running, Preparing
<1>5. OnInv'
  BY <1>0, OnIdle DEF osVars, Running
<1> QED BY <1>2, <1>3, <1>4, <1>5 DEF LanternInv

LEMMA ConfigureStep == ASSUME NEW c \in Options, LanternInv, Configure(c) PROVE LanternInv'
<1> USE DEF mgrVars, flagVars
<1>0. /\ op = Idle /\ Running /\ gateway # None /\ ~closed /\ ~probing
      /\ UNCHANGED <<osVars, lost, controller, gateway, forwarding, updates, closed, probing>>
      /\ requests' \in Nat /\ faults' \in Nat
  BY Counters DEF Configure, Locks
<1>1. /\ op' \in OpSet /\ op'.f = None /\ op'.seen = None /\ op'.opts = c
      /\ (op'.do = "configure" /\ op'.then = "") \/ (op'.do = "prepare" /\ op'.then = "configure")
      /\ op'.do = "configure" => ForwardingReady(c)
  <2>1. CASE ForwardingReady(c)
    <3>1. op' = [Idle EXCEPT !.do = "configure", !.opts = c]
      BY <2>1 DEF Configure
    <3>2. op' \in OpSet
      BY <3>1, IdleFacts DEF OpSet, Step
    <3>3. op'.do = "configure" /\ op'.opts = c /\ op'.then = "" /\ op'.f = None /\ op'.seen = None
      BY <3>1 DEF Idle
    <3> QED BY <2>1, <3>2, <3>3
  <2>2. CASE ~ForwardingReady(c)
    <3>1. op' = [Idle EXCEPT !.do = "prepare", !.then = "configure", !.opts = c]
      BY <2>2 DEF Configure
    <3> QED BY <3>1, IdleFacts DEF OpSet, Step
  <2> QED BY <2>1, <2>2
<1>2. Layers' = Layers
  BY <1>0, <1>1, IdleFacts DEF Layers
<1>3. World' /\ AllGood' /\ BackInv' /\ TouchInv' /\ SeenInv'
  BY <1>0, <1>1, <1>2, SameSettings
<1>4. Fields'
  BY <1>0, <1>1, SamePlatform DEF LanternInv, Fields, osVars
<1>5. OpInv'
  BY <1>0, <1>1 DEF LanternInv, OpInv, Running, Preparing
<1>6. OnInv'
  <2>1. op'.do = "configure" => \A k \in Needs(c) : sysctl'[k] = 1
    BY <1>0, <1>1 DEF ForwardingReady, Needs, osVars
  <2>2. \A k \in Needs(gateway') \ touched' : sysctl'[k] = 1
    BY <1>0 DEF LanternInv, OnInv, Forwards, osVars
  <2> QED BY <1>0, <1>1, <2>1, <2>2, NextOn DEF osVars
<1> QED BY <1>3, <1>4, <1>5, <1>6 DEF LanternInv

LEMMA LookStep == LanternInv /\ Look => LanternInv'
<1> SUFFICES ASSUME LanternInv, Look PROVE LanternInv'
  OBVIOUS
<1> USE DEF mgrVars, flagVars
<1>0. /\ UNCHANGED <<osVars, lost, controller, gateway, forwarding, updates, closed, probing, requests, faults>>
      /\ op.do \in {"restore", "prepare", "undo"}
  BY DEF Look
<1>1. /\ op' \in OpSet /\ op'.seen = sysctl
      /\ op'.do = op.do /\ op'.then = op.then /\ op'.opts = op.opts /\ op'.f = op.f
  <2>1. op \in OpSet /\ sysctl \in Sysctl
    BY DEF LanternInv, Fields, World
  <2>2. op' = [op EXCEPT !.seen = sysctl]
    BY DEF Look
  <2> QED BY <2>1, <2>2 DEF OpSet
<1>2. Layers' = Layers
  BY <1>0, <1>1 DEF Layers
<1>3. World' /\ AllGood' /\ BackInv' /\ TouchInv' /\ SeenInv'
  BY <1>0, <1>1, <1>2, SameSettings
<1>4. Fields'
  BY <1>0, <1>1, SamePlatform DEF LanternInv, Fields, osVars
<1>5. OpInv'
  BY <1>0, <1>1 DEF LanternInv, OpInv, Running, Preparing
<1>6. OnInv'
  BY <1>0, <1>1, NextOn DEF LanternInv, OnInv, Forwards, Running, osVars
<1> QED BY <1>3, <1>4, <1>5, <1>6 DEF LanternInv

LEMMA StopSteps ==
    LanternInv /\ (StopController \/ StopReturns \/ Unprepared \/ Launch \/ ControllerEnds) => LanternInv'
<1> SUFFICES ASSUME LanternInv, StopController \/ StopReturns \/ Unprepared \/ Launch \/ ControllerEnds
             PROVE  LanternInv'
  OBVIOUS
<1> USE DEF mgrVars, flagVars
<1>0. /\ op \in OpSet /\ controller \in {"none", "running", "done"} /\ gateway \in Options \cup {None}
      /\ op.opts \in Options \cup {None}
  BY DEF LanternInv, Fields, OpSet
<1>1. UNCHANGED <<osVars, lost, forwarding, updates, closed, probing, requests, faults>>
  BY DEF StopController, StopReturns, Unprepared, Launch, ControllerEnds
<1>2. /\ op' \in OpSet /\ op'.f = op.f /\ op'.seen \in {op.seen, None}
      /\ controller' \in {"none", "running", "done"} /\ gateway' \in Options \cup {None}
      /\ OpInv' /\ OnInv'
  <2>1. CASE StopController
    <3>0. /\ op.do = "stop" /\ gateway' = gateway /\ controller' \in {"none", "running", "done"}
          /\ Running' => Running
          /\ op' = Idle \/ (\E e \in BOOLEAN : op' = [op EXCEPT !.do = "restore", !.err = e])
               \/ op' = [op EXCEPT !.do = "restore"]
          /\ op' = Idle \/ ~Running'
      BY <1>0, <2>1 DEF StopController, Running
    <3>1. /\ op' \in OpSet /\ op'.f \in {op.f, None} /\ op'.seen \in {op.seen, None}
          /\ op'.do \in {"idle", "restore"} /\ op'.then \in {op.then, ""}
      BY <1>0, <3>0, IdleFacts DEF OpSet, Step
    <3>2. op.f = None
      BY <3>0 DEF LanternInv, OpInv
    <3>3. op'.do = "restore" => ~Running'
      BY <3>0, IdleFacts
    <3>4. OpInv'
      BY <1>1, <3>0, <3>1, <3>2, <3>3 DEF LanternInv, OpInv, Preparing
    <3>5. OnInv'
      BY <1>1, <3>0, <3>1, <3>2, OnIdle DEF osVars
    <3> QED BY <1>0, <3>0, <3>1, <3>2, <3>4, <3>5
  <2>2. CASE StopReturns
    <3>0. /\ op.do = "restore" /\ UNCHANGED <<controller, gateway>> /\ forwarding = None
          /\ \/ op' = Idle
             \/ /\ op' = [op EXCEPT !.do = IF op.opts # None THEN "prepare" ELSE "launch"]
                /\ op.then = "start"
      BY <2>2 DEF StopReturns
    <3>1. op.f = None /\ ~Running /\ ~Running'
      BY <3>0 DEF LanternInv, OpInv, Running
    <3>2. \/ op' = Idle
          \/ /\ op' \in OpSet /\ op'.f = None /\ op'.seen = op.seen /\ op'.then = "start" /\ op'.opts = op.opts
             /\ (op'.do = "prepare" /\ op.opts \in Options) \/ (op'.do = "launch" /\ op'.opts = None)
      <4> SUFFICES ASSUME op' # Idle
                   PROVE  /\ op' \in OpSet /\ op'.f = None /\ op'.seen = op.seen /\ op'.then = "start" /\ op'.opts = op.opts
                          /\ (op'.do = "prepare" /\ op.opts \in Options) \/ (op'.do = "launch" /\ op'.opts = None)
        OBVIOUS
      <4> DEFINE next == IF op.opts # None THEN "prepare" ELSE "launch"
      <4>1. next \in Step /\ op' = [op EXCEPT !.do = next] /\ op.then = "start"
        BY <3>0 DEF Step
      <4>2. (next = "prepare" /\ op.opts \in Options) \/ (next = "launch" /\ op.opts = None)
        BY <1>0
      <4> HIDE DEF next
      <4>3. /\ op' \in OpSet /\ op'.f = op.f /\ op'.seen = op.seen /\ op'.then = op.then
            /\ op'.opts = op.opts /\ op'.do = next
        BY <1>0, <4>1 DEF OpSet
      <4> QED BY <3>1, <4>1, <4>2, <4>3
    <3>3. OpInv'
      BY <1>1, <3>0, <3>1, <3>2, IdleFacts DEF LanternInv, OpInv, Preparing
    <3>4. OnInv'
      BY <1>1, <3>1, <3>2, IdleFacts, NextOn DEF osVars
    <3> QED BY <1>0, <3>0, <3>1, <3>2, <3>3, <3>4, IdleFacts
  <2>3. CASE Unprepared
    <3>0. op.do = "prepare" /\ op' = Idle /\ UNCHANGED <<controller, gateway>> /\ (Running' => Running)
      BY <2>3 DEF Unprepared, Running
    <3>1. op.f = None
      BY <3>0 DEF LanternInv, OpInv
    <3>2. OpInv'
      BY <1>1, <3>0, IdleFacts DEF LanternInv, OpInv, Preparing, Running
    <3>3. OnInv'
      BY <1>1, <3>0, IdleFacts, OnIdle DEF osVars
    <3> QED BY <1>0, <3>0, <3>1, <3>2, <3>3, IdleFacts
  <2>4. CASE Launch
    <3>0. /\ op.do = "launch" /\ (op' = Idle \/ op' = [Idle EXCEPT !.do = "stop", !.then = "end"])
          /\ \/ UNCHANGED <<controller, gateway>>
             \/ controller' = "running" /\ gateway' = op.opts
      BY <2>4 DEF Launch
    <3>1. op.f = None /\ ~Running
      BY <2>4 DEF LanternInv, OpInv, Launch
    <3>2. /\ op' \in OpSet /\ op'.f = None /\ op'.seen = None /\ op'.do \in {"idle", "stop"}
          /\ op'.then # "start"
      BY <3>0, IdleFacts DEF OpSet, Step
    <3>3. Running' => gateway' = op.opts
      BY <3>0, <3>1 DEF Running
    <3>4. op.do = "launch" /\ (op.opts # None => forwarding # None)
      BY <2>4 DEF LanternInv, OpInv, Launch
    <3>5. OpInv'
      BY <1>1, <3>2, <3>3, <3>4 DEF LanternInv, OpInv, Preparing
    <3>6. Running' /\ gateway' # None => \A k \in Needs(gateway') \ touched' : sysctl'[k] = 1
      BY <1>1, <3>3, <3>4 DEF LanternInv, OnInv, Forwards, osVars
    <3>7. OnInv'
      BY <1>1, <3>2, <3>6, NextOn DEF osVars
    <3> QED BY <1>0, <3>0, <3>1, <3>2, <3>5, <3>7
  <2>5. CASE ControllerEnds
    <3>1. ~Running' /\ UNCHANGED <<gateway, op>> /\ controller' = "done"
      BY <2>5 DEF ControllerEnds, Running
    <3>2. OpInv'
      BY <1>1, <3>1 DEF LanternInv, OpInv, Preparing
    <3>3. OnInv'
      BY <1>1, <3>1, NextOn DEF osVars, LanternInv, OnInv, Forwards
    <3> QED BY <1>0, <3>1, <3>2, <3>3
  <2> QED BY <2>1, <2>2, <2>3, <2>4, <2>5
<1>3. Layers' = Layers
  BY <1>1, <1>2 DEF Layers
<1>4. World' /\ AllGood' /\ BackInv' /\ TouchInv' /\ SeenInv'
  BY <1>1, <1>2, <1>3, SameSettings
<1>5. Fields'
  BY <1>1, <1>2, SamePlatform DEF LanternInv, Fields, osVars
<1> QED BY <1>2, <1>4, <1>5 DEF LanternInv

LEMMA RestoreUpdateStep == LanternInv /\ RestoreUpdate => LanternInv'
<1> SUFFICES ASSUME LanternInv, RestoreUpdate PROVE LanternInv'
  OBVIOUS
<1> USE DEF flagVars, kernelVars
<1> DEFINE n == Len(updates)
           rest == SubSeq(updates, 1, n - 1)
           L == Held(rest, forwarding, None)
<1>0. /\ op.do = "restore" /\ op.seen # None /\ forwarding # None /\ updates # <<>> /\ op.f = None /\ ~Running
      /\ UNCHANGED <<kernelVars, controller, gateway, forwarding, closed, probing, requests>>
  BY DEF RestoreUpdate, LanternInv, OpInv
<1>1. updates \in Seq(Snapshots) /\ op \in OpSet /\ lost \in SUBSET Key /\ op.seen \in Sysctl
  BY <1>0 DEF LanternInv, Fields, OpSet
<1>2. PICK o \in RestoreOutcomes(op.seen, sysctl, updates[n]) :
         /\ sysctl' = o.s /\ lost' = lost \cup o.lost /\ Pass(o.ok)
         /\ updates' = IF o.ok THEN rest ELSE [updates EXCEPT ![n] = o.f]
         /\ op' = IF o.ok THEN [op EXCEPT !.seen = None] ELSE Idle
  BY DEF RestoreUpdate
<1>3. /\ updates[n] \in Snapshots /\ rest \in Seq(Snapshots)
      /\ Layers = L \cup {updates[n]}
      /\ \A x \in Snapshots :
            /\ [updates EXCEPT ![n] = x] \in Seq(Snapshots)
            /\ Held([updates EXCEPT ![n] = x], forwarding, None) = L \cup {x}
  BY <1>0, <1>1, HeldLast DEF Layers
<1> HIDE DEF n, rest, L
<1>4. /\ Good(updates[n], lost) /\ (\A f \in L : Good(f, lost)) /\ sysctl \in Sysctl
      /\ Sound(sysctl, L \cup {updates[n]}, lost)
  BY <1>3 DEF LanternInv, AllGood, World, BackInv
<1>5. Values(op.seen, sysctl, updates[n], o, lost) /\ o.ok \in BOOLEAN
  BY <1>1, <1>4, RestoreValues, RestoreOutcome
<1>6. o.s \in Sysctl /\ Good(o.f, lost) /\ o.lost \subseteq Key
  BY <1>5 DEF Values
<1>7. o.f \in Snapshots /\ (\A f \in L \cup {o.f} : Good(f, lost'))
  BY <1>2, <1>4, <1>6, GoodSnapshot, MoreLost
<1>8. /\ op' \in OpSet /\ op'.f = None /\ op'.seen = None /\ op'.do \in {"idle", "restore"}
      /\ op'.then \in {op.then, ""}
  <2>1. CASE o.ok
    <3>1. op' = [op EXCEPT !.seen = None]
      BY <1>2, <2>1
    <3> QED BY <1>0, <1>1, <3>1 DEF OpSet
  <2>2. CASE ~o.ok
    BY <1>2, <2>2, IdleFacts
  <2> QED BY <2>1, <2>2
<1>9. Layers' = (IF o.ok THEN L ELSE L \cup {o.f}) /\ updates' \in Seq(Snapshots)
  <2>1. Layers' = Held(updates', forwarding', op'.f)
    BY DEF Layers
  <2>2. CASE o.ok
    BY <1>0, <1>2, <1>3, <1>8, <2>1, <2>2 DEF L
  <2>3. CASE ~o.ok
    BY <1>0, <1>2, <1>3, <1>7, <1>8, <2>1, <2>3
  <2> QED BY <1>5, <2>2, <2>3
<1>10. Sound(o.s, L \cup {o.f}, lost \cup o.lost) /\ (o.ok => Sound(o.s, L, lost \cup o.lost))
  BY <1>1, <1>4, RestoreSound
<1>11. Sound(sysctl', Layers', lost')
  BY <1>2, <1>9, <1>10
<1>12. World' /\ AllGood' /\ BackInv' /\ TouchInv' /\ SeenInv'
  <2>1. \A f \in Layers' : Good(f, lost')
    BY <1>7, <1>9
  <2> QED BY <1>0, <1>2, <1>6, <1>8, <1>11, <2>1, NewSettings
<1>13. Fields'
  <2>1. faults' \in Nat
    BY <1>2, <1>5, Counters
  <2>2. lost' \in SUBSET Key
    BY <1>1, <1>2, <1>6
  <2> QED BY <1>0, <1>8, <1>9, <2>1, <2>2, SamePlatform DEF LanternInv, Fields
<1>14. OpInv'
  BY <1>0, <1>8 DEF LanternInv, OpInv, Running, Preparing
<1>15. OnInv'
  BY <1>0, <1>8, NextOn DEF Running
<1> QED BY <1>12, <1>13, <1>14, <1>15 DEF LanternInv

LEMMA RestoreForwardingStep == LanternInv /\ RestoreForwarding => LanternInv'
<1> SUFFICES ASSUME LanternInv, RestoreForwarding PROVE LanternInv'
  OBVIOUS
<1> USE DEF flagVars, kernelVars
<1>0. /\ op.do = "restore" /\ op.seen # None /\ forwarding # None /\ updates = <<>> /\ op.f = None /\ ~Running
      /\ UNCHANGED <<kernelVars, controller, gateway, updates, closed, probing, requests>>
  BY DEF RestoreForwarding, LanternInv, OpInv
<1>1. op \in OpSet /\ lost \in SUBSET Key /\ op.seen \in Sysctl
  BY <1>0 DEF LanternInv, Fields, OpSet
<1>2. PICK o \in RestoreOutcomes(op.seen, sysctl, forwarding) :
         /\ sysctl' = o.s /\ lost' = lost \cup o.lost /\ Pass(o.ok)
         /\ forwarding' = IF o.ok THEN None ELSE o.f
         /\ op' = IF o.ok THEN [op EXCEPT !.seen = None] ELSE Idle
  BY DEF RestoreForwarding
<1>3. Layers = {} \cup {forwarding}
  BY <1>0, HeldStart DEF Layers
<1>4. /\ Good(forwarding, lost) /\ sysctl \in Sysctl /\ Sound(sysctl, {} \cup {forwarding}, lost)
  BY <1>3 DEF LanternInv, AllGood, World, BackInv
<1>5. Values(op.seen, sysctl, forwarding, o, lost) /\ o.ok \in BOOLEAN
  BY <1>1, <1>4, RestoreValues, RestoreOutcome
<1>6. o.s \in Sysctl /\ Good(o.f, lost) /\ o.lost \subseteq Key
  BY <1>5 DEF Values
<1>7. o.f # None /\ Good(o.f, lost')
  BY <1>2, <1>6, GoodSnapshot, MoreLost
<1>8. /\ op' \in OpSet /\ op'.f = None /\ op'.seen = None /\ op'.do \in {"idle", "restore"}
      /\ op'.then \in {op.then, ""}
  <2>1. CASE o.ok
    <3>1. op' = [op EXCEPT !.seen = None]
      BY <1>2, <2>1
    <3> QED BY <1>0, <1>1, <3>1 DEF OpSet
  <2>2. CASE ~o.ok
    BY <1>2, <2>2, IdleFacts
  <2> QED BY <2>1, <2>2
<1>9. Layers' = IF o.ok THEN {} ELSE {o.f}
  <2>1. Layers' = Held(<<>>, forwarding', None)
    BY <1>0, <1>8 DEF Layers
  <2> QED BY <1>2, <1>5, <1>7, <2>1, HeldStart, HeldNone
<1>10. Sound(o.s, {} \cup {o.f}, lost \cup o.lost) /\ (o.ok => Sound(o.s, {}, lost \cup o.lost))
  BY <1>1, <1>4, RestoreSound
<1>11. Sound(sysctl', Layers', lost')
  <2>1. {} \cup {o.f} = {o.f}
    OBVIOUS
  <2> QED BY <1>2, <1>9, <1>10, <2>1
<1>12. World' /\ AllGood' /\ BackInv' /\ TouchInv' /\ SeenInv'
  <2>1. \A f \in Layers' : Good(f, lost')
    BY <1>7, <1>9
  <2> QED BY <1>0, <1>2, <1>6, <1>8, <1>11, <2>1, NewSettings
<1>13. Fields'
  <2>1. faults' \in Nat
    BY <1>2, <1>5, Counters
  <2>2. lost' \in SUBSET Key
    BY <1>1, <1>2, <1>6
  <2> QED BY <1>0, <1>8, <2>1, <2>2, SamePlatform DEF LanternInv, Fields
<1>14. OpInv'
  BY <1>0, <1>8 DEF LanternInv, OpInv, Running, Preparing
<1>15. OnInv'
  BY <1>0, <1>8, NextOn DEF Running
<1> QED BY <1>12, <1>13, <1>14, <1>15 DEF LanternInv

\* The writes of prepareForwarding, all of them or up to one that fails: the settings
\* stay on their way back, and what is on stays on.
Prepared(S1, f) ==
    /\ sysctl' \in Sysctl /\ lost' \in SUBSET Key /\ f \in Snapshots /\ f # None
    /\ \A g \in Layers \cup {f} : Good(g, lost')
    /\ Sound(sysctl', Layers \cup {f}, lost')
    /\ S1 = Covered(op.opts.iface, op.opts.six) => \A k \in Needs(op.opts) \ touched : sysctl'[k] = 1
    /\ Running /\ gateway # None =>
          \A k \in Needs(gateway) \ touched : sysctl'[k] = 1 /\ (k \in DOMAIN f => f[k].before = 1)
    /\ op.opts \in Options /\ op \in OpSet

LEMMA PrepareFacts ==
    ASSUME LanternInv, op.do = "prepare", op.seen # None, NEW S1, NEW S2,
           Writing(op.opts.iface, op.opts.six, S1, S2),
           sysctl' = Written(sysctl, S1, Goals(op.opts.iface, op.opts.six)), lost' = lost \cup Stale(S2),
           NEW val, (val = Goals(op.opts.iface, op.opts.six) /\ (~linux \/ S1 = S2)) \/ val = sysctl',
           NEW f, f = MakeSnapshot(S2, val), UNCHANGED linux
    PROVE  Prepared(S1, f)
<1> DEFINE i == op.opts.iface
           six == op.opts.six
           now == sysctl'
<1>1. /\ op \in OpSet /\ lost \in SUBSET Key /\ op.seen \in Sysctl /\ op.opts \in Options
      /\ sysctl \in Sysctl /\ i \in Interface /\ six \in BOOLEAN /\ World /\ TouchInv
      /\ \A k \in Key \ touched : op.seen[k] = sysctl[k]
  <2>1. op \in OpSet /\ lost \in SUBSET Key /\ op.opts \in Options /\ sysctl \in Sysctl /\ World /\ TouchInv
    BY DEF LanternInv, Fields, World, OpInv, Preparing
  <2>2. op.seen \in Sysctl
    BY <2>1 DEF OpSet
  <2>3. \A k \in Key \ touched : op.seen[k] = sysctl[k]
    BY DEF LanternInv, SeenInv
  <2> QED BY <2>1, <2>2, <2>3 DEF Options
<1>2. /\ now \in Sysctl
      /\ \A k \in S1 : now[k] = Goal(i, k, op.seen[k])
      /\ \A k \in Key : k \notin S1 => now[k] = sysctl[k] \/ (linux /\ now[k] = 1 /\ k \in S2)
      /\ \A k \in Key : sysctl[k] = 1 /\ op.seen[k] = 1 => now[k] = 1
  BY <1>1, WritingFacts
<1>3. /\ Between(now, f, lost') /\ DOMAIN f = S2
      /\ \A k \in S2 : f[k].before = op.seen[k]
  BY <1>1, WritingBetween
<1>4. Covered(i, six) \subseteq Key /\ S2 \subseteq Key
  BY <1>1, CoveredFacts DEF Writing
<1>5. lost' \in SUBSET Key
  BY <1>1, <1>4 DEF Stale
<1>6. Good(f, lost')
  BY <1>3 DEF Between
<1>7. f \in Snapshots /\ f # None
  BY <1>6, GoodSnapshot
<1>8. /\ \A g \in Layers : Good(g, lost')
      /\ Sound(sysctl, Layers, lost')
  <2>1. (\A g \in Layers : Good(g, lost)) /\ Sound(sysctl, Layers, lost)
    BY DEF LanternInv, AllGood, BackInv
  <2> QED BY <2>1, MoreLost
<1>9. Sound(now, Layers \cup {f}, lost')
  BY <1>1, <1>3, <1>8, BetweenSound
<1>10. ASSUME S1 = Covered(i, six), NEW k \in Needs(op.opts), k \notin touched PROVE now[k] = 1
  <2>1. k \in Key /\ Goal(i, k, op.seen[k]) = 1 /\ (k \in S1 \/ op.seen[k] = 1)
    BY <1>1, <1>10, Keys DEF Needs, Goal, Covered, Wanted
  <2>2. op.seen[k] = sysctl[k]
    BY <1>1, <1>10, <2>1
  <2> QED BY <1>2, <2>1, <2>2
<1>11. ASSUME Running, gateway # None, NEW k \in Needs(gateway), k \notin touched
       PROVE  now[k] = 1 /\ (k \in DOMAIN f => f[k].before = 1)
  <2>1. gateway \in Options
    BY <1>11 DEF LanternInv, Fields
  <2>2. k \in Key
    BY <1>1, <1>11, <2>1, NeedsFacts
  <2>3. sysctl[k] = 1 /\ op.seen[k] = sysctl[k]
    BY <1>1, <1>11, <2>2 DEF LanternInv, OnInv, Forwards
  <2> QED BY <1>2, <1>3, <2>2, <2>3
<1> QED BY <1>1, <1>2, <1>5, <1>6, <1>7, <1>8, <1>9, <1>10, <1>11 DEF Prepared

LEMMA PrepareStep == LanternInv /\ Prepare => LanternInv'
<1> SUFFICES ASSUME LanternInv, Prepare PROVE LanternInv'
  OBVIOUS
<1> USE DEF flagVars, kernelVars
<1> DEFINE D == Covered(op.opts.iface, op.opts.six)
           goal == Goals(op.opts.iface, op.opts.six)
           f == MakeSnapshot(D, goal)
<1>0. /\ op.do = "prepare" /\ op.seen # None
      /\ sysctl' = Written(sysctl, D, goal) /\ lost' = lost \cup Stale(D)
      /\ UNCHANGED <<kernelVars, controller, gateway, updates, closed, probing, requests, faults>>
      /\ op.f = None
  BY DEF Prepare, LanternInv, OpInv
<1>1. IF op.then = "start"
      THEN forwarding' = f /\ op' = [op EXCEPT !.do = "launch", !.seen = None]
      ELSE op' = [op EXCEPT !.do = "configure", !.seen = None, !.f = f] /\ UNCHANGED forwarding
  BY DEF Prepare
<1>2. Writing(op.opts.iface, op.opts.six, D, D)
  BY DEF Writing
<1>3. /\ sysctl' \in Sysctl /\ lost' \in SUBSET Key /\ f \in Snapshots /\ f # None
      /\ \A g \in Layers \cup {f} : Good(g, lost')
      /\ Sound(sysctl', Layers \cup {f}, lost')
      /\ \A k \in Needs(op.opts) \ touched : sysctl'[k] = 1
      /\ Running /\ gateway # None =>
            \A k \in Needs(gateway) \ touched : sysctl'[k] = 1 /\ (k \in DOMAIN f => f[k].before = 1)
      /\ op.opts \in Options /\ op \in OpSet
  <2>1. Prepared(D, f)
    BY <1>0, <1>2, PrepareFacts
  <2> QED BY <2>1 DEF Prepared
<1> HIDE DEF f, D, goal
<1>4. /\ op' \in OpSet /\ op'.seen = None /\ op'.then = op.then /\ op'.opts = op.opts
      /\ op'.do = IF op.then = "start" THEN "launch" ELSE "configure"
      /\ op'.f = IF op.then = "start" THEN None ELSE f
      /\ forwarding' = IF op.then = "start" THEN f ELSE forwarding
  <2>1. CASE op.then = "start"
    <3>1. op' = [op EXCEPT !.do = "launch", !.seen = None] /\ forwarding' = f
      BY <1>1, <2>1
    <3> QED BY <1>0, <1>3, <2>1, <3>1 DEF OpSet, Step
  <2>2. CASE op.then # "start"
    <3>1. op' = [op EXCEPT !.do = "configure", !.seen = None, !.f = f] /\ forwarding' = forwarding
      BY <1>1, <2>2
    <3> QED BY <1>3, <2>2, <3>1 DEF OpSet, Step
  <2> QED BY <2>1, <2>2
<1>5. /\ op.then = "start" => ~Running /\ forwarding = None /\ updates = <<>>
      /\ op.then # "start" => forwarding # None
  BY <1>0 DEF LanternInv, OpInv, Preparing
<1>6. Layers' = Layers \cup {f}
  <2>1. Layers' = Held(updates', forwarding', op'.f) /\ Layers = Held(updates, forwarding, None)
    BY <1>0 DEF Layers
  <2>2. CASE op.then = "start"
    BY <1>0, <1>3, <1>4, <1>5, <2>1, <2>2, HeldStart, HeldNone
  <2>3. CASE op.then # "start"
    BY <1>0, <1>3, <1>4, <2>1, <2>3, HeldMore
  <2> QED BY <2>2, <2>3
<1>7. World' /\ AllGood' /\ BackInv' /\ TouchInv' /\ SeenInv'
  BY <1>0, <1>3, <1>4, <1>6, NewSettings
<1>8. Fields'
  BY <1>0, <1>3, <1>4, SamePlatform DEF LanternInv, Fields
<1>9. OpInv'
  BY <1>0, <1>3, <1>4, <1>5 DEF LanternInv, OpInv, Running, Preparing
<1>10. OnInv'
  BY <1>0, <1>3, <1>4, <1>5, NextOn DEF Running
<1> QED BY <1>7, <1>8, <1>9, <1>10 DEF LanternInv

LEMMA PrepareFailsStep == LanternInv /\ PrepareFails => LanternInv'
<1> SUFFICES ASSUME LanternInv, PrepareFails PROVE LanternInv'
  OBVIOUS
<1> USE DEF flagVars, kernelVars, mgrVars
<1> DEFINE D == Covered(op.opts.iface, op.opts.six)
           goal == Goals(op.opts.iface, op.opts.six)
<1>0. /\ op.do = "prepare" /\ op.seen # None /\ op.f = None
      /\ UNCHANGED <<kernelVars, controller, gateway, forwarding, updates, closed, probing, requests>>
      /\ faults' \in Nat
  BY Counters DEF PrepareFails, LanternInv, OpInv
<1>1. PICK S, T \in Prefixes(D) :
         /\ S \subseteq T /\ (IF linux THEN T = D ELSE Cardinality(T \ S) <= 1)
         /\ sysctl' = Written(sysctl, S, goal) /\ lost' = lost \cup Stale(T)
         /\ op' = [op EXCEPT !.do = IF linux THEN "reread" ELSE "undo", !.seen = None,
                             !.f = MakeSnapshot(T, IF linux THEN Written(sysctl, S, goal) ELSE goal)]
  BY DEF PrepareFails
<1> DEFINE val == IF linux THEN sysctl' ELSE goal
           f == MakeSnapshot(T, val)
<1>2. Writing(op.opts.iface, op.opts.six, S, T)
  BY <1>1 DEF Writing, Prefixes
<1>3. /\ (val = Goals(op.opts.iface, op.opts.six) /\ (~linux \/ S = T)) \/ val = sysctl'
      /\ sysctl' = Written(sysctl, S, Goals(op.opts.iface, op.opts.six)) /\ lost' = lost \cup Stale(T)
      /\ f = MakeSnapshot(T, val) /\ UNCHANGED linux
  BY <1>0, <1>1
<1>4. op' = [op EXCEPT !.do = IF linux THEN "reread" ELSE "undo", !.seen = None, !.f = f]
  BY <1>1
<1> HIDE DEF f, val, D, goal
<1>5. /\ sysctl' \in Sysctl /\ lost' \in SUBSET Key /\ f \in Snapshots /\ f # None
      /\ \A g \in Layers \cup {f} : Good(g, lost')
      /\ Sound(sysctl', Layers \cup {f}, lost')
      /\ Running /\ gateway # None =>
            \A k \in Needs(gateway) \ touched : sysctl'[k] = 1 /\ (k \in DOMAIN f => f[k].before = 1)
      /\ op.opts \in Options /\ op \in OpSet
  <2>1. Prepared(S, f)
    BY <1>0, <1>2, <1>3, PrepareFacts
  <2> QED BY <2>1 DEF Prepared
<1>6. /\ op' \in OpSet /\ op'.seen = None /\ op'.then = op.then /\ op'.opts = op.opts
      /\ op'.do \in {"reread", "undo"} /\ op'.f = f
  <2> DEFINE next == IF linux THEN "reread" ELSE "undo"
  <2>1. next \in {"reread", "undo"}
    OBVIOUS
  <2> HIDE DEF next
  <2>2. op' = [op EXCEPT !.do = next, !.seen = None, !.f = f]
    BY <1>4 DEF next
  <2>3. op' \in OpSet
    BY <1>5, <2>1, <2>2 DEF OpSet, Step
  <2> QED BY <1>5, <2>1, <2>2, <2>3 DEF OpSet
<1>7. Layers' = Layers \cup {f}
  <2>1. Layers' = Held(updates', forwarding', op'.f) /\ Layers = Held(updates, forwarding, None)
    BY <1>0 DEF Layers
  <2> QED BY <1>0, <1>5, <1>6, <2>1, HeldMore
<1>8. World' /\ AllGood' /\ BackInv' /\ TouchInv' /\ SeenInv'
  BY <1>0, <1>5, <1>6, <1>7, NewSettings
<1>9. Fields'
  BY <1>0, <1>5, <1>6, SamePlatform DEF LanternInv, Fields
<1>10. OpInv'
  BY <1>0, <1>5, <1>6 DEF LanternInv, OpInv, Running, Preparing
<1>11. OnInv'
  BY <1>0, <1>5, <1>6, NextOn DEF Running
<1> QED BY <1>8, <1>9, <1>10, <1>11 DEF LanternInv


LEMMA RereadStep == LanternInv /\ Reread => LanternInv'
<1> SUFFICES ASSUME LanternInv, Reread PROVE LanternInv'
  OBVIOUS
<1> USE DEF flagVars, kernelVars, mgrVars, osVars
<1> DEFINE L == Held(updates, forwarding, None)
<1>0. /\ op.do = "reread" /\ op.f # None
      /\ UNCHANGED <<osVars, controller, gateway, forwarding, updates, closed, probing, requests>>
  BY DEF Reread, LanternInv, OpInv
<1>1. op \in OpSet /\ lost \in SUBSET Key /\ sysctl \in Sysctl /\ op.opts \in Options
  BY <1>0 DEF LanternInv, Fields, World, OpInv, Preparing
<1>2. PICK U \in SUBSET DOMAIN op.f :
         LET before(k) == op.f[k].before
             value(k) == IF k \in U THEN Goal(op.opts.iface, k, before(k)) ELSE sysctl[k]
         IN /\ Pass(U = {})
            /\ op' = [op EXCEPT !.do = "undo",
                         !.f = [k \in DOMAIN op.f |-> [before |-> before(k), value |-> value(k)]]]
            /\ lost' = lost \cup {k \in DOMAIN op.f : IF k \in U THEN sysctl[k] \notin {value(k), before(k)}
                                                      ELSE sysctl[k] # op.f[k].value}
  BY DEF Reread
<1> DEFINE val == [k \in DOMAIN op.f |-> IF k \in U THEN Goal(op.opts.iface, k, op.f[k].before) ELSE sysctl[k]]
           Y == {k \in DOMAIN op.f : IF k \in U THEN sysctl[k] \notin {val[k], op.f[k].before}
                                     ELSE sysctl[k] # op.f[k].value}
           g == [k \in DOMAIN op.f |-> [before |-> op.f[k].before, value |-> val[k]]]
<1>3. op' = [op EXCEPT !.do = "undo", !.f = g] /\ lost' = lost \cup Y /\ Pass(U = {})
  BY <1>2
<1>4. Layers = L \cup {op.f}
  BY <1>0, HeldMore DEF Layers
<1>5. Good(op.f, lost) /\ (\A h \in L : Good(h, lost)) /\ Sound(sysctl, L \cup {op.f}, lost)
  BY <1>4 DEF LanternInv, AllGood, BackInv
<1>6. \A k \in DOMAIN op.f : k \in Key /\ sysctl[k] \in Bit /\ op.f[k].before \in Bit /\ op.f[k].value \in Bit
  BY <1>1, <1>5 DEF Good, Entry, Sysctl, Bit
<1>7. \A k \in DOMAIN op.f : val[k] \in Bit
  BY <1>6 DEF Goal, Bit
<1>8. \A k \in DOMAIN op.f \ Y : \/ val[k] = op.f[k].value
                                 \/ /\ op.f[k].before = 1 => val[k] = 1
                                    /\ sysctl[k] \in {val[k], op.f[k].before}
  BY <1>6 DEF Goal, Bit
<1> HIDE DEF val, Y, L
<1>9. Good(g, lost \cup Y) /\ Sound(sysctl, L \cup {g}, lost \cup Y) /\ SameBefore(op.f, g)
  <2>1. Revalued(op.f, g, val, Y)
    BY <1>7, <1>8 DEF Revalued
  <2> HIDE DEF g
  <2> QED BY <1>5, <2>1, RereadSound
<1> HIDE DEF g
<1>10. lost' \in SUBSET Key
  BY <1>1, <1>3, <1>6 DEF Y
<1>11. g \in Snapshots /\ g # None
  BY <1>9, GoodSnapshot
<1>12. /\ op' \in OpSet /\ op'.do = "undo" /\ op'.f = g
       /\ op'.seen = op.seen /\ op'.then = op.then /\ op'.opts = op.opts
  BY <1>1, <1>3, <1>11 DEF OpSet, Step
<1>13. Layers' = L \cup {g}
  <2>1. Layers' = Held(updates, forwarding, g)
    BY <1>0, <1>12 DEF Layers
  <2> QED BY <1>11, <2>1, HeldMore DEF L
<1>14. World' /\ AllGood' /\ BackInv' /\ TouchInv' /\ SeenInv'
  <2>1. \A h \in Layers' : Good(h, lost')
    BY <1>3, <1>5, <1>9, <1>13, MoreLost
  <2>2. Sound(sysctl', Layers', lost') /\ sysctl' \in Sysctl
    BY <1>0, <1>1, <1>3, <1>9, <1>13
  <2> QED BY <1>0, <1>12, <2>1, <2>2, NewSettings
<1>15. Fields'
  <2>1. faults' \in Nat
    BY <1>3, Counters
  <2> QED BY <1>0, <1>10, <1>12, <2>1, SamePlatform DEF LanternInv, Fields
<1>16. OpInv'
  BY <1>0, <1>11, <1>12 DEF LanternInv, OpInv, Running, Preparing
<1>17. OnInv'
  BY <1>0, <1>9, <1>12, NextOn DEF LanternInv, OnInv, Forwards, Running, SameBefore
<1> QED BY <1>14, <1>15, <1>16, <1>17 DEF LanternInv

LEMMA UndoStep == LanternInv /\ Undo => LanternInv'
<1> SUFFICES ASSUME LanternInv, Undo PROVE LanternInv'
  OBVIOUS
<1> USE DEF flagVars, kernelVars
<1> DEFINE L == Held(updates, forwarding, None)

<1>0. /\ op.do = "undo" /\ op.seen # None /\ op.f # None /\ op' = Idle
      /\ UNCHANGED <<kernelVars, controller, gateway, closed, probing, requests>>
  BY DEF Undo, LanternInv, OpInv
<1>1. /\ op \in OpSet /\ lost \in SUBSET Key /\ sysctl \in Sysctl /\ op.seen \in Sysctl
      /\ updates \in Seq(Snapshots)
  <2>1. op \in OpSet /\ lost \in SUBSET Key /\ sysctl \in Sysctl /\ updates \in Seq(Snapshots)
    BY DEF LanternInv, Fields, World
  <2> QED BY <1>0, <2>1 DEF OpSet
<1>2. PICK o \in RestoreOutcomes(op.seen, sysctl, op.f) :
         /\ sysctl' = o.s /\ lost' = lost \cup o.lost /\ Pass(o.ok)
         /\ forwarding' = IF op.then = "start" THEN o.f ELSE forwarding
         /\ updates' = IF op.then = "start" \/ (op.then = "" /\ o.ok) THEN updates
                       ELSE Append(updates, o.f)
  BY DEF Undo
<1>3. Layers = L \cup {op.f}
  BY <1>0, HeldMore DEF Layers
<1>4. Good(op.f, lost) /\ (\A h \in L : Good(h, lost)) /\ Sound(sysctl, L \cup {op.f}, lost)
  BY <1>3 DEF LanternInv, AllGood, BackInv
<1> HIDE DEF L
<1>5. Values(op.seen, sysctl, op.f, o, lost) /\ o.ok \in BOOLEAN
  BY <1>1, <1>4, RestoreValues, RestoreOutcome
<1>6. o.s \in Sysctl /\ Good(o.f, lost) /\ o.lost \subseteq Key
  BY <1>5 DEF Values
<1>7. o.f \in Snapshots /\ o.f # None /\ (\A h \in L \cup {o.f} : Good(h, lost'))
  BY <1>2, <1>4, <1>6, GoodSnapshot, MoreLost
<1>8. Sound(o.s, L \cup {o.f}, lost \cup o.lost) /\ (o.ok => Sound(o.s, L, lost \cup o.lost))
  BY <1>1, <1>4, RestoreSound
<1>9. /\ op.then = "start" => ~Running /\ forwarding = None /\ updates = <<>>
      /\ op.then # "start" => forwarding # None
  BY <1>0 DEF LanternInv, OpInv, Preparing
<1>10. /\ updates' \in Seq(Snapshots) /\ (updates' # <<>> => forwarding' # None)
       /\ forwarding # None => forwarding' # None
       /\ Layers' = L \cup {o.f} \/ (o.ok /\ Layers' = L)
  <2>1. Layers' = Held(updates', forwarding', None)
    BY <1>0, IdleFacts DEF Layers
  <2>2. CASE op.then = "start"
    <3>1. forwarding' = o.f /\ updates' = <<>> /\ L = {}
      BY <1>2, <1>9, <2>2, HeldNone DEF L
    <3> QED BY <1>1, <1>7, <1>9, <2>1, <2>2, <3>1, HeldStart
  <2>3. CASE op.then = "" /\ o.ok
    BY <1>1, <1>2, <1>9, <2>1, <2>3 DEF L
  <2>4. CASE ~(op.then = "start" \/ (op.then = "" /\ o.ok))
    <3>1. updates' = Append(updates, o.f) /\ forwarding' = forwarding
      BY <1>2, <2>4
    <3>2. /\ Append(updates, o.f) \in Seq(Snapshots)
          /\ Held(Append(updates, o.f), forwarding, None) = Held(updates, forwarding, o.f)
      BY <1>1, <1>7, HeldAppend
    <3>3. Held(updates, forwarding, o.f) = L \cup {o.f}
      BY <1>7, HeldMore DEF L
    <3> QED BY <1>9, <2>1, <2>4, <3>1, <3>2, <3>3
  <2> QED BY <2>2, <2>3, <2>4
<1>11. World' /\ AllGood' /\ BackInv' /\ TouchInv' /\ SeenInv'
  <2>1. \A h \in Layers' : Good(h, lost')
    BY <1>7, <1>10
  <2>2. Sound(sysctl', Layers', lost')
    BY <1>2, <1>8, <1>10
  <2>3. op'.seen = None /\ sysctl' \in Sysctl
    BY <1>0, <1>2, <1>6, IdleFacts
  <2> QED BY <1>0, <2>1, <2>2, <2>3, NewSettings
<1>12. Fields'
  <2>1. faults' \in Nat
    BY <1>2, <1>5, Counters
  <2>2. lost' \in SUBSET Key
    BY <1>1, <1>2, <1>6
  <2> QED BY <1>0, <1>10, <2>1, <2>2, IdleFacts, SamePlatform DEF LanternInv, Fields
<1>13. OpInv'
  BY <1>0, <1>10, IdleFacts DEF LanternInv, OpInv, Running, Preparing
<1>14. OnInv'
  <2>1. ASSUME Running, gateway # None PROVE \A k \in Needs(gateway) \ touched : o.s[k] = 1
    <3> DEFINE W == Needs(gateway) \ touched
    <3>1. gateway \in Options /\ World /\ TouchInv
      BY <2>1 DEF LanternInv, Fields
    <3>2. W \in SUBSET Key /\ (W \cap PerInterface6 # {} => All6 \in W)
      BY <3>1, NeedsFacts
    <3>3. \A k \in W : sysctl[k] = 1 /\ (k \in DOMAIN op.f => op.f[k].before = 1)
      BY <1>0, <2>1 DEF LanternInv, OnInv, Forwards
    <3>4. \A k \in W : op.seen[k] = sysctl[k]
      BY <1>0, <3>2 DEF LanternInv, SeenInv
    <3> HIDE DEF W
    <3>5. \A k \in W : o.s[k] = 1
      BY <1>1, <1>4, <3>2, <3>3, <3>4, RestoreLeavesOn
    <3> QED BY <3>5 DEF W
  <2> QED BY <1>0, <1>2, <2>1, IdleFacts, NextOn DEF Running
<1> QED BY <1>11, <1>12, <1>13, <1>14 DEF LanternInv

LEMMA ReconfiguredStep == LanternInv /\ Reconfigured => LanternInv'
<1> SUFFICES ASSUME LanternInv, Reconfigured PROVE LanternInv'
  OBVIOUS
<1> USE DEF flagVars, osVars
<1>0. /\ op.do = "configure" /\ op.opts \in Options /\ forwarding # None
      /\ UNCHANGED <<osVars, lost, controller, forwarding, closed, probing, requests, faults>>
  BY DEF Reconfigured, LanternInv, OpInv
<1>1. /\ op \in OpSet /\ updates \in Seq(Snapshots) /\ gateway \in Options \cup {None}
      /\ op.f \in Snapshots \cup {None}
  BY DEF LanternInv, Fields, OpSet
<1>2. \/ /\ gateway' = op.opts /\ op' = Idle
         /\ updates' = IF op.f = None THEN updates ELSE Append(updates, op.f)
      \/ /\ op' = IF op.f = None THEN Idle ELSE [op EXCEPT !.do = "undo", !.then = ""]
         /\ UNCHANGED <<updates, gateway>>
  BY DEF Reconfigured
<1>3. CASE gateway' = op.opts /\ op' = Idle /\ updates' = IF op.f = None THEN updates ELSE Append(updates, op.f)
  <2>1. updates' \in Seq(Snapshots) /\ Layers' = Layers
    <3>1. Layers' = Held(updates', forwarding, None) /\ Layers = Held(updates, forwarding, op.f)
      BY <1>0, <1>3, IdleFacts DEF Layers
    <3>2. CASE op.f = None
      BY <1>1, <1>3, <3>1, <3>2
    <3>3. CASE op.f # None
      <4>1. updates' = Append(updates, op.f) /\ op.f \in Snapshots
        BY <1>1, <1>3, <3>3
      <4> QED BY <1>1, <3>1, <4>1, HeldAppend
    <3> QED BY <3>2, <3>3
  <2>2. World' /\ AllGood' /\ BackInv' /\ TouchInv' /\ SeenInv'
    BY <1>0, <1>3, <2>1, IdleFacts, SameSettings
  <2>3. Fields'
    BY <1>0, <1>3, <2>1, IdleFacts, SamePlatform DEF LanternInv, Fields
  <2>4. OpInv'
    BY <1>0, <1>3, IdleFacts DEF LanternInv, OpInv, Running, Preparing
  <2>5. \A k \in Needs(gateway') \ touched' : sysctl'[k] = 1
    BY <1>0, <1>3 DEF LanternInv, OnInv, Forwards
  <2>6. OnInv'
    BY <1>0, <1>3, <2>5, IdleFacts, NextOn
  <2> QED BY <2>2, <2>3, <2>4, <2>6 DEF LanternInv
<1>4. CASE UNCHANGED <<updates, gateway>> /\ op' = IF op.f = None THEN Idle ELSE [op EXCEPT !.do = "undo", !.then = ""]
  <2>1. /\ op' \in OpSet /\ op'.f = op.f /\ op'.seen \in {op.seen, None}
        /\ op'.then = "" /\ ((op'.do = "idle" /\ op.f = None) \/ (op'.do = "undo" /\ op.f # None /\ op'.opts = op.opts))
    <3>1. CASE op.f = None
      BY <1>4, <3>1, IdleFacts
    <3>2. CASE op.f # None
      <4>1. op' = [op EXCEPT !.do = "undo", !.then = ""]
        BY <1>4, <3>2
      <4> QED BY <1>1, <3>2, <4>1 DEF OpSet, Step
    <3> QED BY <3>1, <3>2
  <2>2. Layers' = Layers
    BY <1>0, <1>4, <2>1 DEF Layers
  <2>3. World' /\ AllGood' /\ BackInv' /\ TouchInv' /\ SeenInv'
    BY <1>0, <2>1, <2>2, SameSettings
  <2>4. Fields'
    BY <1>0, <1>4, <2>1, SamePlatform DEF LanternInv, Fields
  <2>5. OpInv'
    BY <1>0, <1>4, <2>1 DEF LanternInv, OpInv, Running, Preparing
  <2>6. OnInv'
    BY <1>0, <1>4, <2>1, NextOn DEF LanternInv, OnInv, Forwards, Running
  <2> QED BY <2>3, <2>4, <2>5, <2>6 DEF LanternInv
<1> QED BY <1>2, <1>3, <1>4

LEMMA ForeignStep == ASSUME NEW k \in Key, LanternInv, Foreign(k) PROVE LanternInv'
<1> USE DEF flagVars, mgrVars
<1> DEFINE now == Written(sysctl, {k}, [l \in {k} |-> 1 - sysctl[k]])
           hit == {k} \cup (IF linux /\ k = All6 THEN PerInterface6 ELSE {})
<1>0. /\ sysctl' = now /\ touched' = touched \cup hit
      /\ foreign' = [l \in Key |-> IF l \in hit THEN now[l] ELSE foreign[l]]
      /\ UNCHANGED <<linux, orig, lost, controller, gateway, forwarding, updates, closed, probing, op>>
  BY DEF Foreign
<1>1. requests' \in Nat /\ faults' \in Nat
  <2>1. requests' = requests + 1 /\ Fault
    BY DEF Foreign
  <2> QED BY <2>1, Counters
<1>2. hit \subseteq Key /\ (k = All6 => PerInterface6 \subseteq hit)
  BY Keys
<1>3. sysctl \in Sysctl /\ World
  BY DEF LanternInv, World
<1>4. \A l \in Key : now[l] \in Bit /\ (l \notin hit => now[l] = sysctl[l])
  <2>1. sysctl[k] \in Bit /\ 1 - sysctl[k] \in Bit
    BY <1>3 DEF Sysctl, Bit
  <2>2. \A l \in Key : now[l] = IF l \in {k} THEN 1 - sysctl[k]
                                ELSE IF l \in PerInterface6 /\ All6 \in {k} THEN 1 - sysctl[k] ELSE sysctl[l]
    BY DEF Written
  <2>3. \A l \in Key : sysctl[l] \in Bit
    BY <1>3 DEF Sysctl, Bit
  <2> HIDE DEF now, hit
  <2> QED BY <1>2, <2>1, <2>2, <2>3 DEF hit
<1>5. now = [l \in Key |-> now[l]]
  BY DEF Written
<1> HIDE DEF now, hit
<1>6. now \in Sysctl
  BY <1>4, <1>5 DEF Sysctl, Bit
<1>7. foreign' \in Sysctl /\ \A l \in Key : foreign'[l] = IF l \in hit THEN now[l] ELSE foreign[l]
  BY <1>0, <1>3, <1>4 DEF World, Sysctl, Bit
<1>8. World'
  BY <1>0, <1>2, <1>3, <1>6, <1>7, SamePlatform DEF World
<1>9. Layers' = Layers
  BY <1>0 DEF Layers
<1>10. AllGood'
  BY <1>0, <1>9, NextGood DEF LanternInv, AllGood
<1>11. TouchInv'
  BY <1>0, <1>2, SamePlatform DEF LanternInv, TouchInv, All6, hit
<1>12. BackInv'
  <2>1. Sound(sysctl, Layers, lost)
    BY DEF LanternInv, BackInv
  <2>2. ASSUME NEW l \in Key, l \in hit PROVE l \in touched' /\ foreign'[l] = sysctl'[l]
    BY <1>0, <1>7, <2>2
  <2>3. ASSUME NEW l \in Key, l \notin hit
        PROVE  (l \in touched' <=> l \in touched) /\ foreign'[l] = foreign[l] /\ sysctl'[l] = sysctl[l]
    BY <1>0, <1>4, <1>7, <2>3
  <2> QED BY <1>0, <1>9, <2>1, <2>2, <2>3, SamePlatform DEF BackInv, Sound, Base, Raised
<1>13. Fields'
  BY <1>0, <1>1, SamePlatform DEF LanternInv, Fields
<1>14. OpInv'
  BY <1>0 DEF LanternInv, OpInv, Running, Preparing
<1>15. OnInv'
  <2>1. \A o \in Options : Forwards(o) => \A l \in Needs(o) \ touched' : sysctl'[l] = 1
    <3>1. \A o \in Options : Needs(o) \subseteq Key
      BY Keys DEF Needs, Options
    <3> QED BY <1>0, <1>4, <3>1 DEF Forwards
  <2>2. gateway \in Options \cup {None} /\ op.opts \in Options \cup {None}
    BY DEF LanternInv, Fields, OpSet
  <2>3. /\ Running' => Running
        /\ Running /\ gateway # None => Forwards(gateway)
        /\ op.do = "launch" /\ op.opts # None => Forwards(op.opts)
        /\ op.do = "configure" => Forwards(op.opts) /\ op.opts \in Options
        /\ op.f # None /\ Running /\ gateway # None =>
              \A l \in Needs(gateway) \ touched : l \in DOMAIN op.f => op.f[l].before = 1
    BY <1>0 DEF LanternInv, OnInv, OpInv, Running, Preparing
  <2> QED BY <1>0, <2>1, <2>2, <2>3, NextOn
<1>16. SeenInv'
  <2>1. \A l \in Key : l \notin touched' => l \notin touched /\ sysctl'[l] = sysctl[l]
    BY <1>0, <1>4
  <2> QED BY <1>0, <2>1, SamePlatform DEF LanternInv, SeenInv
<1> QED BY <1>8, <1>10, <1>11, <1>12, <1>13, <1>14, <1>15, <1>16 DEF LanternInv

LEMMA InitLantern == Init => LanternInv
<1> SUFFICES ASSUME Init PROVE LanternInv
  OBVIOUS
<1> USE DEF Init
<1>1. Layers = {}
  BY HeldNone, IdleFacts DEF Layers
<1>2. World /\ AllGood
  BY <1>1 DEF World, AllGood
<1>3. Fields
  <2>1. updates \in Seq(Snapshots)
    <3>1. updates = <<>>
      OBVIOUS
    <3> QED BY <3>1, EmptySeq
  <2>2. /\ lost \in SUBSET Key /\ controller \in {"none", "running", "done"}
        /\ gateway \in Options \cup {None}
        /\ closed \in BOOLEAN /\ probing \in BOOLEAN
    OBVIOUS
  <2>3. op \in OpSet
    BY IdleFacts
  <2>4. requests \in Nat /\ faults \in Nat
    OBVIOUS
  <2> QED BY <2>1, <2>2, <2>3, <2>4 DEF Fields
<1>4. OpInv /\ TouchInv /\ SeenInv /\ OnInv
  BY IdleFacts DEF OpInv, TouchInv, SeenInv, OnInv, Running, Preparing
<1>5. BackInv
  <2>1. \A k \in Key : Base(k) = sysctl[k] /\ orig[k] = sysctl[k]
    BY DEF Base
  <2> QED BY <1>1, <2>1 DEF BackInv, Sound
<1> QED BY <1>2, <1>3, <1>4, <1>5 DEF LanternInv

LEMMA LanternStep == LanternInv /\ [Next]_vars => LanternInv'
<1> SUFFICES ASSUME LanternInv, [Next]_vars PROVE LanternInv'
  OBVIOUS
<1>1. CASE UNCHANGED vars
  <2>1. /\ UNCHANGED <<linux, sysctl, orig, touched, foreign, lost, controller, gateway, forwarding, updates>>
        /\ UNCHANGED <<closed, probing, op, requests, faults>>
    BY <1>1 DEF vars, osVars, mgrVars, flagVars
  <2>2. Layers' = Layers
    BY <2>1 DEF Layers
  <2>3. World' /\ AllGood' /\ BackInv' /\ TouchInv' /\ SeenInv'
    BY <2>1, <2>2, SameSettings DEF osVars
  <2>4. Fields' /\ OpInv'
    BY <2>1, SamePlatform DEF LanternInv, Fields, OpInv, Running, Preparing
  <2>5. OnInv'
    BY <2>1, NextOn DEF LanternInv, OnInv, Forwards, Running
  <2> QED BY <2>3, <2>4, <2>5 DEF LanternInv
<1> QED BY <1>1, BeginSteps, ConfigureStep, LookStep, StopSteps, RestoreUpdateStep, RestoreForwardingStep,
        PrepareStep, PrepareFailsStep, RereadStep, UndoStep, ReconfiguredStep, ForeignStep DEF Next

\* For every set of interfaces, on Linux and on macOS, whatever reads and writes fail, however
\* often a stop is tried again and whatever other programs change before, between and after the
\* passes of forwarding_*.go: when neither the manager nor a handler holds a snapshot any more
\* (stopLocked of lantern.go got to its end), every setting whose way back was not lost in one
\* of the named cases is back, and until then every snapshot can be reached.
THEOREM RestoredAlways == Spec => []Restored
<1>1. LanternInv => Restored
  <2> SUFFICES ASSUME LanternInv PROVE Restored
    OBVIOUS
  <2>1. TypeOK /\ UpdatesReachable
    BY InvType DEF LanternInv, OpInv, UpdatesReachable
  <2>2. ASSUME Released, NEW k \in Key, k \notin lost
        PROVE  /\ Base(k) = 0 => sysctl[k] # 1
               /\ k \notin touched /\ orig[k] = 1 => sysctl[k] = 1
    <3>1. Layers = {}
      <4>1. updates = <<>> /\ op.f = None /\ forwarding = None
        BY <2>2 DEF LanternInv, OpInv, Released
      <4> QED BY <4>1, HeldNone DEF Layers
    <3> QED BY <2>2, <3>1 DEF LanternInv, BackInv, Sound
  <2>3. \A k \in Key : sysctl[k] \in {0, 1} /\ orig[k] \in {0, 1}
    BY DEF LanternInv, World, Sysctl
  <2>4. RestoredAll /\ ForeignKept
    <3>1. touched \subseteq Key
      BY DEF LanternInv, World
    <3> QED BY <2>2, <2>3, <3>1 DEF RestoredAll, ForeignKept, Base
  <2> QED BY <2>1, <2>4 DEF Restored
<1> QED BY <1>1, InitLantern, LanternStep, PTL DEF Spec

\* While a gateway runs, forwarding is on for it unless another program turned it off:
\* starts, reconfigurations that fail half-way and their undoing included.
THEOREM ForwardsAlways == Spec => []GatewayForwards
<1>1. LanternInv => GatewayForwards
  BY DEF LanternInv, OnInv, Forwards, GatewayForwards
<1> QED BY <1>1, InitLantern, LanternStep, PTL DEF Spec

\* start of lantern.go decides on closed and probing once, at its beginning; still no
\* gateway starts after Shutdown or under a probe.
THEOREM NeverLate == Spec => NoLateStart
<1>1. LanternInv /\ [Next]_vars => [(closed \/ probing) /\ ~Running => controller' # "running"]_vars
  <2> SUFFICES ASSUME LanternInv, Next, closed \/ probing, ~Running, controller' = "running" PROVE FALSE
    BY DEF Running
  <2>1. ~Launch
    BY DEF Launch, LanternInv, OpInv
  <2>2. controller' = controller \/ controller' = "done"
    BY <2>1 DEF Next, Start, Configure, Stop, Shutdown, Probe, ProbeEnds, StopController, Look,
       RestoreUpdate, RestoreForwarding, StopReturns, Unprepared, Prepare, PrepareFails, Reread, Undo,
       Reconfigured, ControllerEnds, Foreign, mgrVars
  <2> QED BY <2>2 DEF Running
<1> QED BY <1>1, InitLantern, LanternStep, PTL DEF Spec, NoLateStart
=============================================================================

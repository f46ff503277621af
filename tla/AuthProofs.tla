----------------------------- MODULE AuthProofs -----------------------------
(***************************************************************************)
(* Proofs about what route/auth rests on: the nonce store, for every set   *)
(* of nonces and handlers, every drift and every delay, and the key ring,  *)
(* for any number of commands, keys and identities, overlapping commands   *)
(* included.                                                               *)
(***************************************************************************)
EXTENDS NonceStore, KeyRing, TLAPS

(* The nonce store *)

\* The lifetime of an entry is a positive number.
LEMMA DriftType == Drift \in Nat /\ ttl \in Nat /\ ttl > 0 /\ MaxDelay \in Nat
<1>1. Drift \in Nat /\ Drift # 0 /\ MaxDelay \in Nat
  BY NonceAssumption
<1> QED BY <1>1 DEF ttl

\* What eviction leaves of the map: a key keeps its expiry time, or had one
\* that is over.
LEMMA EvictionType ==
    ASSUME NonceTypeOK, NEW n, NEW now \in Nat, Expired(n, now)
    PROVE  /\ AfterEviction(n) \in [Nonce -> Nat]
           /\ \A k \in Nonce : \/ AfterEviction(n)[k] = seen[k]
                               \/ AfterEviction(n)[k] = Absent /\ seen[k] <= now
<1>1. AfterEviction(n) \in [Nonce -> Nat]
  BY DEF AfterEviction, NonceTypeOK, Absent
<1>2. ASSUME NEW k \in Nonce
      PROVE  \/ AfterEviction(n)[k] = seen[k]
             \/ AfterEviction(n)[k] = Absent /\ seen[k] <= now
  BY DEF AfterEviction, Expired
<1> QED BY <1>1, <1>2

\* The queue that eviction leaves.
LEMMA KeptQueue ==
    ASSUME NonceTypeOK, NEW n \in 0..Len(order)
    PROVE  LET kept == SubSeq(order, n + 1, Len(order))
           IN  /\ kept \in Seq(Entry) /\ Len(kept) = Len(order) - n
               /\ \A i \in 1..Len(kept) : kept[i] = order[i + n]
BY DEF NonceTypeOK

\* One Remember step, by the values it works with.
LEMMA RememberCases ==
    ASSUME NonceTypeOK, NEW h \in Handler, Remember(h)
    PROVE  \E n \in 0..Len(order), k \in Nonce, now \in Nat :
             /\ busy[h] = k /\ time[h] = now /\ Expired(n, now)
             /\ RememberAfter(h, n)
<1>1. PICK n \in 0..Len(order) : RememberAfter(h, n)
  BY DEF Remember
<1>2. busy[h] \in Nonce /\ time[h] \in Nat
  BY <1>1 DEF RememberAfter, NonceTypeOK
<1>3. Expired(n, time[h])
  BY <1>1 DEF RememberAfter
<1> QED BY <1>1, <1>2, <1>3

\* Every step of the nonce store keeps the types.
LEMMA TypeStep == NonceTypeOK /\ [NonceNext]_nonceVars => NonceTypeOK'
<1> SUFFICES ASSUME NonceTypeOK, [NonceNext]_nonceVars PROVE NonceTypeOK'
  OBVIOUS
<1> USE DriftType
<1>1. CASE Tick
  BY <1>1 DEF Tick, NonceTypeOK
<1>2. ASSUME NEW h \in Handler, NEW k \in Nonce, Arrive(h, k) PROVE NonceTypeOK'
  BY <1>2 DEF Arrive, NonceTypeOK
<1>3. ASSUME NEW h \in Handler, Refuse(h) PROVE NonceTypeOK'
  BY <1>3 DEF Refuse, Release, NonceTypeOK
<1>4. ASSUME NEW h \in Handler, Remember(h) PROVE NonceTypeOK'
  <2>1. PICK n \in 0..Len(order), k \in Nonce, now \in Nat :
          /\ busy[h] = k /\ time[h] = now /\ Expired(n, now)
          /\ RememberAfter(h, n)
    BY <1>4, RememberCases
  <2>2. AfterEviction(n) \in [Nonce -> Nat] /\ now \in Nat /\ Expiry(now) \in Nat
    BY <2>1, EvictionType DEF Expiry, ttl
  <2>3. SubSeq(order, n + 1, Len(order)) \in Seq(Entry)
    BY KeptQueue
  <2>4. [key |-> k, expiresAt |-> Expiry(now)] \in Entry
    BY <2>2 DEF Entry
  <2>7. clock' = clock /\ high' \in Nat /\ Release(h)
    BY <2>1, <2>2 DEF RememberAfter, NonceTypeOK
  <2>8. busy' \in [Handler -> Nonce \cup {NoKey}] /\ time' \in [Handler -> Nat]
    BY <2>7 DEF NonceTypeOK, Release
  <2>5. CASE /\ seen' = [AfterEviction(n) EXCEPT ![k] = Expiry(now)]
             /\ order' = Enlist(SubSeq(order, n + 1, Len(order)), k, now)
             /\ accepted' = [accepted EXCEPT ![k] = accepted[k] + 1]
             /\ last' = [last EXCEPT ![k] = now]
    <3>1. seen' \in [Nonce -> Nat]
      BY <2>2, <2>5
    <3>2. accepted' \in [Nonce -> Nat]
      BY <2>5 DEF NonceTypeOK
    <3>3. last' \in [Nonce -> Nat]
      BY <2>5 DEF NonceTypeOK
    <3>4. order' \in Seq(Entry)
      BY <2>3, <2>4, <2>5 DEF Enlist
    <3> QED BY <2>7, <2>8, <3>1, <3>2, <3>3, <3>4 DEF NonceTypeOK
  <2>6. CASE /\ seen' = AfterEviction(n) /\ order' = SubSeq(order, n + 1, Len(order))
             /\ UNCHANGED <<accepted, last>>
    BY <2>2, <2>3, <2>6, <2>7, <2>8 DEF NonceTypeOK
  <2> QED BY <2>1, <2>5, <2>6 DEF RememberAfter
<1>5. CASE UNCHANGED nonceVars
  BY <1>5 DEF nonceVars, NonceTypeOK
<1> QED BY <1>1, <1>2, <1>3, <1>4, <1>5 DEF NonceNext

\* The store and the history variables keep their types (nonceStore).
THEOREM NonceTypeCorrect == NonceSpec => []NonceTypeOK
<1>1. NonceInit => NonceTypeOK
  BY DEF NonceInit, NonceTypeOK, Absent
<1> QED BY <1>1, TypeStep, PTL DEF NonceSpec

----------------------------------------------------------------------------
\* The inductive reason for ReuseGap: a key that was accepted is held until the
\* end of its lifetime, or the store has been given a time beyond that.
Held == \A k \in Nonce : accepted[k] > 0 => \/ seen[k] >= last[k] + ttl
                                           \/ high >= last[k] + ttl

\* Every step keeps Held.
LEMMA HeldStep ==
    ASSUME NonceTypeOK, Held, [NonceNext]_nonceVars
    PROVE  /\ Held'
           /\ \A k \in Nonce : accepted'[k] > accepted[k] /\ accepted[k] > 0 => high' >= last[k] + ttl
<1> USE DriftType
<1>1. CASE UNCHANGED <<seen, high, accepted, last>>
  BY <1>1 DEF Held, NonceTypeOK
<1>2. ASSUME NEW h \in Handler, Remember(h)
      PROVE  /\ Held'
             /\ \A k \in Nonce : accepted'[k] > accepted[k] /\ accepted[k] > 0 => high' >= last[k] + ttl
  <2>1. PICK n \in 0..Len(order), k \in Nonce, now \in Nat :
          /\ busy[h] = k /\ time[h] = now /\ Expired(n, now)
          /\ RememberAfter(h, n)
    BY <1>2, RememberCases
  <2>2. high' \in Nat /\ high' >= high /\ high' >= now
    BY <2>1 DEF RememberAfter, NonceTypeOK
  <2>3. /\ AfterEviction(n) \in [Nonce -> Nat]
        /\ \A j \in Nonce : \/ AfterEviction(n)[j] = seen[j]
                            \/ AfterEviction(n)[j] = Absent /\ seen[j] <= now
    BY <2>1, EvictionType
  <2>4. \A j \in Nonce : accepted[j] > 0 =>
           AfterEviction(n)[j] >= last[j] + ttl \/ high' >= last[j] + ttl
    <3> SUFFICES ASSUME NEW j \in Nonce, accepted[j] > 0
                 PROVE  AfterEviction(n)[j] >= last[j] + ttl \/ high' >= last[j] + ttl
      OBVIOUS
    <3>1. last[j] \in Nat /\ seen[j] \in Nat /\ high \in Nat
      BY DEF NonceTypeOK
    <3>2. seen[j] >= last[j] + ttl \/ high >= last[j] + ttl
      BY DEF Held
    <3>3. AfterEviction(n)[j] = seen[j] \/ seen[j] <= now
      BY <2>3
    <3> QED BY <2>2, <3>1, <3>2, <3>3
  <2>5. CASE UNCHANGED <<accepted, last>> /\ seen' = AfterEviction(n)
    BY <2>4, <2>5 DEF Held, NonceTypeOK
  <2>6. CASE /\ AfterEviction(n)[k] <= now
             /\ seen' = [AfterEviction(n) EXCEPT ![k] = Expiry(now)]
             /\ accepted' = [accepted EXCEPT ![k] = accepted[k] + 1]
             /\ last' = [last EXCEPT ![k] = now]
    <3>1. accepted[k] > 0 => high' >= last[k] + ttl
      BY <2>2, <2>3, <2>4, <2>6 DEF NonceTypeOK, ttl
    <3>2. Held'
      BY <2>2, <2>3, <2>4, <2>6 DEF Held, NonceTypeOK, Expiry, ttl
    <3>3. \A j \in Nonce : accepted'[j] > accepted[j] => j = k
      BY <2>6 DEF NonceTypeOK
    <3> QED BY <3>1, <3>2, <3>3
  <2> QED BY <2>1, <2>5, <2>6 DEF RememberAfter
<1> QED BY <1>1, <1>2 DEF NonceNext, nonceVars, Tick, Arrive, Refuse, Release

\* A nonce key is accepted again only after the store was given a time beyond
\* the lifetime of the first acceptance (Remember, evictExpiredLocked), however
\* many requests are verified concurrently and however late they finish.
THEOREM NonceReuse == NonceSpec => ReuseGap
<1>1. NonceInit => Held
  BY DEF NonceInit, Held
<1>2. NonceTypeOK /\ Held /\ [NonceNext]_nonceVars => Held'
  BY HeldStep
<1>3. NonceTypeOK /\ Held /\ [NonceNext]_nonceVars =>
        [\A k \in Nonce : accepted'[k] > accepted[k] /\ accepted[k] > 0
                            => high' >= last[k] + 2 * Drift]_nonceVars
  BY HeldStep DEF ttl
<1> QED BY <1>1, <1>2, <1>3, NonceTypeCorrect, PTL DEF NonceSpec, ReuseGap

----------------------------------------------------------------------------
\* Clock readings that passed the timestamp check: those of requests in
\* verification, and those with which a key was accepted.
InWindow(k, t) == Timestamp[k] - Drift <= t /\ t <= Timestamp[k] + Drift
Windows ==
    /\ \A h \in Handler : busy[h] # NoKey => InWindow(busy[h], time[h])
    /\ \A k \in Nonce : accepted[k] > 0 => InWindow(k, last[k])

\* Every step keeps Windows.
LEMMA WindowsStep ==
    ASSUME NonceTypeOK, Windows, [NonceNext]_nonceVars
    PROVE  Windows'
<1>0. NoKey \notin Nonce /\ Timestamp \in [Nonce -> Nat] /\ Drift \in Nat
  BY NonceAssumption DEF NoKey
<1> USE <1>0
<1>1. CASE UNCHANGED <<busy, time, accepted, last>>
  BY <1>1 DEF Windows, InWindow
<1>2. ASSUME NEW h \in Handler, NEW k \in Nonce, Arrive(h, k) PROVE Windows'
  <2>1. InWindow(k, clock)
    BY <1>2 DEF Arrive, InWindow, NonceTypeOK
  <2> QED BY <1>2, <2>1 DEF Arrive, Windows, InWindow, NonceTypeOK
<1>3. ASSUME NEW h \in Handler, Refuse(h) PROVE Windows'
  BY <1>3 DEF Refuse, Release, Windows, InWindow, NonceTypeOK
<1>4. ASSUME NEW h \in Handler, Remember(h) PROVE Windows'
  <2>1. PICK n \in 0..Len(order), k \in Nonce, now \in Nat :
          /\ busy[h] = k /\ time[h] = now /\ Expired(n, now)
          /\ RememberAfter(h, n)
    BY <1>4, RememberCases
  <2>2. Release(h) /\ InWindow(k, now)
    BY <2>1 DEF RememberAfter, Windows
  <2>3. \A g \in Handler : busy'[g] # NoKey => InWindow(busy'[g], time'[g])
    BY <2>2 DEF Release, Windows, NonceTypeOK
  <2>4. CASE UNCHANGED <<accepted, last>>
    BY <2>3, <2>4 DEF Windows, InWindow
  <2>5. CASE /\ accepted' = [accepted EXCEPT ![k] = accepted[k] + 1]
             /\ last' = [last EXCEPT ![k] = now]
    <3>1. \A j \in Nonce : accepted'[j] > 0 => InWindow(j, last'[j])
      BY <2>2, <2>5 DEF Windows, NonceTypeOK
    <3> QED BY <2>3, <3>1 DEF Windows, InWindow
  <2> QED BY <2>1, <2>4, <2>5 DEF RememberAfter
<1> QED BY <1>1, <1>2, <1>3, <1>4 DEF NonceNext, nonceVars, Tick

\* A request whose clock reading is the latest the store was given is accepted
\* once in the window of its timestamp, its two ends apart: the drift that
\* authenticateV2 allows and the lifetime that Remember gives fit together.
THEOREM NonceOncePerWindow == NonceSpec => OncePerWindow
<1>1. NonceInit => Held /\ Windows
  BY DEF NonceInit, Held, Windows
<1>2. NonceTypeOK /\ Held /\ Windows /\ [NonceNext]_nonceVars => Held' /\ Windows'
  BY HeldStep, WindowsStep
<1>3. NonceTypeOK /\ NonceTypeOK' /\ Held /\ Windows /\ Windows' /\ [NonceNext]_nonceVars =>
        [\A k \in Nonce : accepted'[k] > accepted[k] /\ accepted[k] > 0 /\ last'[k] = high'
            => last[k] = Timestamp[k] - Drift /\ last'[k] = Timestamp[k] + Drift]_nonceVars
  <2> SUFFICES ASSUME NonceTypeOK, NonceTypeOK', Held, Windows, Windows', [NonceNext]_nonceVars, NEW k \in Nonce,
                      accepted'[k] > accepted[k], accepted[k] > 0, last'[k] = high'
               PROVE  last[k] = Timestamp[k] - Drift /\ last'[k] = Timestamp[k] + Drift
    OBVIOUS
  <2>1. high' >= last[k] + ttl
    BY HeldStep
  <2>2. accepted[k] \in Nat /\ accepted'[k] \in Nat /\ last[k] \in Nat /\ last'[k] \in Nat
    BY DEF NonceTypeOK
  <2>3. InWindow(k, last[k]) /\ InWindow(k, last'[k])
    BY <2>2 DEF Windows, InWindow
  <2>4. Timestamp[k] \in Nat /\ Drift \in Nat
    BY NonceAssumption
  <2> QED BY <2>1, <2>2, <2>3, <2>4 DEF InWindow, ttl
<1> QED BY <1>1, <1>2, <1>3, NonceTypeCorrect, PTL DEF NonceSpec, OncePerWindow

----------------------------------------------------------------------------
\* What one Remember step leaves of order: the entries behind the evicted ones,
\* and for an accepted request one entry more.
LEMMA RememberOrder ==
    ASSUME NonceTypeOK, NEW h \in Handler, NEW n \in 0..Len(order), NEW k \in Nonce, NEW now \in Nat,
           busy[h] = k, time[h] = now, RememberAfter(h, n)
    PROVE  /\ Len(order) \in Nat /\ Len(order') \in Nat /\ Len(order') >= Len(order) - n
           /\ \A i \in 1..Len(order) - n : order'[i] = order[i + n]
           /\ \/ /\ Len(order') = Len(order) - n /\ seen' = AfterEviction(n)
              \/ /\ Len(order') = Len(order) - n + 1
                 /\ order'[Len(order')] = [key |-> k, expiresAt |-> now + ttl]
                 /\ seen' = [AfterEviction(n) EXCEPT ![k] = now + ttl]
<1> DEFINE kept == SubSeq(order, n + 1, Len(order))
           new == [key |-> k, expiresAt |-> now + ttl]
<1>1. kept \in Seq(Entry) /\ Len(kept) = Len(order) - n /\ Len(order) \in Nat
      /\ \A i \in 1..Len(kept) : kept[i] = order[i + n]
  <2>1. Len(order) \in Nat
    BY DEF NonceTypeOK
  <2> QED BY <2>1, KeptQueue
<1>2. \/ order' = kept /\ seen' = AfterEviction(n)
      \/ order' = Append(kept, new) /\ seen' = [AfterEviction(n) EXCEPT ![k] = now + ttl]
  BY DEF RememberAfter, Enlist, Expiry
<1> HIDE DEF kept
<1>3. CASE order' = kept /\ seen' = AfterEviction(n)
  BY <1>1, <1>3
<1>4. CASE order' = Append(kept, new) /\ seen' = [AfterEviction(n) EXCEPT ![k] = now + ttl]
  <2>1. Append(kept, new) \in Seq(Entry \cup {new}) /\ Len(Append(kept, new)) = Len(kept) + 1
        /\ Append(kept, new)[Len(kept) + 1] = new
        /\ \A i \in 1..Len(kept) : Append(kept, new)[i] = kept[i]
    BY <1>1
  <2> QED BY <1>1, <1>4, <2>1
<1> QED BY <1>2, <1>3, <1>4

\* Eviction and Remember leave no key in the map without its entry.
LEMMA EvictableStep ==
    ASSUME NonceTypeOK, Evictable, [NonceNext]_nonceVars
    PROVE  Evictable'
<1>1. CASE UNCHANGED <<seen, order>>
  BY <1>1 DEF Evictable
<1>2. ASSUME NEW h \in Handler, Remember(h) PROVE Evictable'
  <2>1. PICK n \in 0..Len(order), k \in Nonce, now \in Nat :
          /\ busy[h] = k /\ time[h] = now /\ Expired(n, now)
          /\ RememberAfter(h, n)
    BY <1>2, RememberCases
  <2> DEFINE m == Len(order) - n
  <2>2. /\ Len(order) \in Nat /\ Len(order') \in Nat /\ Len(order') >= m
        /\ \A i \in 1..m : order'[i] = order[i + n]
        /\ \/ /\ Len(order') = m /\ seen' = AfterEviction(n)
           \/ /\ Len(order') = m + 1
              /\ order'[Len(order')] = [key |-> k, expiresAt |-> now + ttl]
              /\ seen' = [AfterEviction(n) EXCEPT ![k] = now + ttl]
    BY <2>1, RememberOrder
  <2>3. AfterEviction(n) \in [Nonce -> Nat]
    BY <2>1, EvictionType
  <2>4. ASSUME NEW j \in Nonce, AfterEviction(n)[j] # Absent
        PROVE  \E i \in 1..m : order'[i].key = j /\ order'[i].expiresAt = AfterEviction(n)[j]
    <3>1. AfterEviction(n)[j] = seen[j]
          /\ ~ \E i \in 1..n : order[i].key = j /\ order[i].expiresAt = seen[j]
      BY <2>4 DEF AfterEviction
    <3>2. PICK i \in 1..Len(order) : order[i].key = j /\ order[i].expiresAt = seen[j]
      BY <2>4, <3>1 DEF Evictable
    <3>3. ~(i \in 1..n)
      BY <3>1, <3>2
    <3>4. i \in Nat /\ n \in Nat /\ i <= Len(order) /\ i >= 1
      BY <2>1, <2>2
    <3>5. i - n \in 1..m /\ (i - n) + n = i
      BY <2>2, <3>3, <3>4
    <3> QED BY <2>2, <3>1, <3>2, <3>5
  <2>5. ASSUME NEW j \in Nonce, seen'[j] # Absent
        PROVE  \E i \in 1..Len(order') : order'[i].key = j /\ order'[i].expiresAt = seen'[j]
    <3>1. CASE seen'[j] = AfterEviction(n)[j]
      BY <2>2, <2>4, <2>5, <3>1
    <3>2. CASE seen'[j] # AfterEviction(n)[j]
      <4>1. /\ Len(order') = m + 1 /\ order'[Len(order')] = [key |-> k, expiresAt |-> now + ttl]
            /\ j = k /\ seen'[j] = now + ttl
        BY <2>2, <2>3, <3>2
      <4>2. Len(order') \in 1..Len(order')
        BY <2>2, <4>1
      <4> QED BY <4>1, <4>2
    <3> QED BY <3>1, <3>2
  <2> QED BY <2>5 DEF Evictable
<1> QED BY <1>1, <1>2 DEF NonceNext, nonceVars, Tick, Arrive, Refuse, Release

\* Why order is nearly sorted: a request in verification is at most MaxDelay
\* old, and no entry outlives what a request of now would be given.
Fresh ==
    /\ \A h \in Handler : busy[h] # NoKey => time[h] <= clock /\ clock - time[h] <= MaxDelay
    /\ \A i \in 1..Len(order) : order[i].expiresAt <= clock + ttl

\* Every step keeps the age of requests and entries, and the order of entries.
LEMMA SortedStep ==
    ASSUME NonceTypeOK, Fresh, NearlySorted, [NonceNext]_nonceVars
    PROVE  Fresh' /\ NearlySorted'
<1>0. /\ clock \in Nat /\ Len(order) \in Nat /\ \A g \in Handler : time[g] \in Nat
      /\ \A i \in 1..Len(order) : order[i] \in Entry /\ order[i].expiresAt \in Nat
      /\ NoKey \notin Nonce
  <2>1. \A i \in 1..Len(order) : order[i] \in Entry
    BY DEF NonceTypeOK
  <2>2. \A e \in Entry : e.expiresAt \in Nat
    BY DEF Entry
  <2>3. NoKey \notin Nonce
    BY NonceAssumption DEF NoKey
  <2> QED BY <2>1, <2>2, <2>3 DEF NonceTypeOK
<1> USE <1>0, DriftType
<1>1. CASE Tick
  BY <1>1 DEF Tick, Fresh, NearlySorted
<1>2. ASSUME NEW h \in Handler, NEW k \in Nonce, Arrive(h, k) PROVE Fresh' /\ NearlySorted'
  BY <1>2 DEF Arrive, Fresh, NearlySorted, NonceTypeOK
<1>3. ASSUME NEW h \in Handler, Refuse(h) PROVE Fresh' /\ NearlySorted'
  BY <1>3 DEF Refuse, Release, Fresh, NearlySorted, NonceTypeOK
<1>4. ASSUME NEW h \in Handler, Remember(h) PROVE Fresh' /\ NearlySorted'
  <2>1. PICK n \in 0..Len(order), k \in Nonce, now \in Nat :
          /\ busy[h] = k /\ time[h] = now /\ Expired(n, now)
          /\ RememberAfter(h, n)
    BY <1>4, RememberCases
  <2> DEFINE m == Len(order) - n
  <2>2. /\ Len(order') \in Nat /\ Len(order') >= m
        /\ \A i \in 1..m : order'[i] = order[i + n]
        /\ \/ Len(order') = m
           \/ /\ Len(order') = m + 1
              /\ order'[Len(order')] = [key |-> k, expiresAt |-> now + ttl]
    BY <2>1, RememberOrder
  <2>3. clock' = clock /\ now <= clock /\ clock - now <= MaxDelay /\ Release(h)
    BY <2>1 DEF RememberAfter, Fresh
  <2>4. \A g \in Handler : busy'[g] # NoKey => time'[g] <= clock' /\ clock' - time'[g] <= MaxDelay
    BY <2>3 DEF Release, Fresh, NonceTypeOK
  <2>5. \A i \in 1..m : i + n \in 1..Len(order) /\ order'[i].expiresAt = order[i + n].expiresAt
    BY <2>2
  <2>6. \A i \in 1..Len(order') :
           \/ i \in 1..m
           \/ i = m + 1 /\ m + 1 = Len(order') /\ order'[i].expiresAt = now + ttl
    BY <2>2
  <2>7. \A i \in 1..m : order'[i].expiresAt \in Nat /\ order'[i].expiresAt <= clock + ttl
    BY <2>5 DEF Fresh
  <2>8. \A i \in 1..Len(order') : order'[i].expiresAt <= clock' + ttl
    BY <2>3, <2>6, <2>7
  <2>9. ASSUME NEW i \in 1..Len(order'), NEW j \in 1..Len(order'), i < j
        PROVE  order'[i].expiresAt <= order'[j].expiresAt + MaxDelay
    <3>1. i \in 1..m
      BY <2>6, <2>9
    <3>2. CASE j \in 1..m
      <4>1. i + n < j + n
        BY <2>9
      <4> QED BY <2>5, <3>1, <3>2, <4>1 DEF NearlySorted
    <3>3. CASE order'[j].expiresAt = now + ttl
      BY <2>3, <2>7, <3>1, <3>3
    <3> QED BY <2>6, <3>2, <3>3
  <2> QED BY <2>4, <2>8, <2>9 DEF Fresh, NearlySorted
<1>5. CASE UNCHANGED nonceVars
  BY <1>5 DEF nonceVars, Fresh, NearlySorted
<1> QED BY <1>1, <1>2, <1>3, <1>4, <1>5 DEF NonceNext

\* Every key the store holds has the entry that will take it out, and entries
\* are out of order by the delay of one request at most: evictExpiredLocked,
\* which stops at the first entry that has not expired, leaves nothing behind
\* for ever.
THEOREM NonceEvicts == NonceSpec => []Evicts
<1>1. NonceInit => Evictable /\ Fresh /\ NearlySorted
  BY DEF NonceInit, Evictable, Fresh, NearlySorted, Absent
<1>2. NonceTypeOK /\ Evictable /\ Fresh /\ NearlySorted /\ [NonceNext]_nonceVars
        => Evictable' /\ Fresh' /\ NearlySorted'
  BY EvictableStep, SortedStep
<1> QED BY <1>1, <1>2, NonceTypeCorrect, PTL DEF NonceSpec, Evicts

----------------------------------------------------------------------------
(* The key ring *)

\* A memory that may be in a process.
Fine(m) == m \in Memory /\ Coherent(m) /\ Given(m, known)

\* The zero value of KeyManager.
LEMMA EmptyFine == ASSUME TypeOK PROVE Fine(Empty)
  BY DEF Fine, Empty, Memory, Coherent, Given

\* refreshPublicKeysLocked registers the current and the previous key.
LEMMA WithKeysFine ==
    ASSUME TypeOK, NEW m, Fine(m), NEW k \in Key, NEW o \in Key \cup {None}, k # o,
           k \in known.keys, o \in known.keys \cup {None}
    PROVE  Fine(WithKeys(m, k, o)) /\ WithKeys(m, k, o).current = k
  <1>0. None \notin Key
    BY KeyRingAssumption
  <1> QED
    BY <1>0 DEF Fine, WithKeys, PublicKeys, Memory, Coherent, Given

\* So it does when a save has failed and the old keys come back.
LEMMA UndoFine ==
    ASSUME TypeOK, NEW m, Fine(m), NEW u, Fine(u)
    PROVE  Fine(WithKeys(m, u.current, u.previous))
  BY DEF Fine, WithKeys, PublicKeys, Memory, Coherent, Given

\* Binding an identity leaves the keys alone.
LEMMA WithPrincipalFine ==
    ASSUME TypeOK, NEW m, Fine(m), NEW u \in Who, u \in known.who
    PROVE  Fine(WithPrincipal(m, u)) /\ WithPrincipal(m, u).current = m.current
  BY DEF Fine, WithPrincipal, Memory, Coherent, Given

\* loadPublicKeys gives what is in the files, or leaves the memory alone.
LEMMA LoadKeysFine ==
    ASSUME KeyInv, NEW m, Fine(m)
    PROVE  Fine(LoadPublicKeys(m))
  <1>0. None \notin Key /\ TypeOK
    BY KeyRingAssumption DEF KeyInv
  <1>1. CASE ring \in Ring
    <2>1. ring.current \in Key /\ ring.previous \in Key \cup {None}
      BY <1>1 DEF Ring
    <2>2. ring.current \in known.keys /\ ring.previous \in known.keys \cup {None}
      BY <1>0, <1>1, <2>1 DEF KeyInv, Files
    <2>3. CASE ring.previous = ring.current
      BY <1>0, <1>1, <2>1, <2>2, <2>3, WithKeysFine DEF LoadPublicKeys
    <2>4. CASE ring.previous # ring.current
      BY <1>0, <1>1, <2>1, <2>2, <2>4, WithKeysFine DEF LoadPublicKeys
    <2> QED
      BY <2>3, <2>4
  <1>2. CASE ring \notin Ring /\ ring = NoFile /\ pem # NoFile
    <2>1. pem \in Key /\ pem \in known.keys
      BY <1>2 DEF KeyInv, TypeOK, Files
    <2> QED
      BY <1>0, <1>2, <2>1, WithKeysFine DEF LoadPublicKeys
  <1>3. CASE ring \notin Ring /\ ~(ring = NoFile /\ pem # NoFile)
    BY <1>3 DEF LoadPublicKeys
  <1> QED
    BY <1>1, <1>2, <1>3

\* loadAuthorizedPrincipal likewise.
LEMMA LoadPrincipalFine ==
    ASSUME KeyInv, NEW m, Fine(m)
    PROVE  Fine(LoadPrincipal(m))
  BY WithPrincipalFine DEF LoadPrincipal, KeyInv, Files

\* SetPublicKey keeps the replaced key as the previous one.
LEMMA RotatedFine ==
    ASSUME KeyInv, NEW m, Fine(m), NEW k \in Key, k \in known.keys, m.current # k
    PROVE  Fine(Rotated(m, k)) /\ Rotated(m, k).current = k
  <1>1. m.current \in Key \cup {None}
    BY DEF Fine, Memory
  <1>2. m.current \in known.keys \cup {None}
    BY <1>1 DEF Fine, Coherent, Given
  <1> QED
    BY <1>1, <1>2, WithKeysFine DEF Rotated, KeyInv

\* What the invariant says of one process.
LEMMA ProcFine ==
    ASSUME KeyInv
    PROVE  /\ \A p \in Proc : Fine(mem[p])
           /\ \A c \in Command : Fine(undo[c]) /\ c \in Proc /\ c # Svc
           /\ Svc \in Proc
  BY KeyRingAssumption DEF KeyInv, Memories, Fine, TypeOK, Proc

----------------------------------------------------------------------------
\* A step that changes the memory of one process for the better, and perhaps
\* its undo, keeps Memories.
LEMMA MemoriesKept ==
    ASSUME KeyInv, known' = known,
           \A p \in Proc : mem'[p] = mem[p] \/ Fine(mem'[p]),
           \A c \in Command : undo'[c] = undo[c] \/ Fine(undo'[c])
    PROVE  Memories'
  BY DEF KeyInv, Memories, Fine

\* The memory of a process that has ended.
LEMMA WithoutFine ==
    ASSUME KeyInv, NEW q \in Proc
    PROVE  /\ Without(q) \in [Proc -> Memory]
           /\ \A p \in Proc : Without(q)[p] = mem[p] \/ Fine(Without(q)[p])
           /\ \A p \in Proc : p # q => Without(q)[p] = mem[p]
  BY EmptyFine DEF Without, KeyInv, TypeOK, Fine

\* What is left when a command ends.
LEMMA AbortStep ==
    ASSUME KeyInv, NEW c \in Command, Aborts(c)
    PROVE  /\ undo' \in [Command -> Memory] /\ changed' \in [Command -> BOOLEAN]
           /\ pc' \in [Command -> {"new"} \cup Active \cup Ended]
           /\ \A d \in Command : undo'[d] = undo[d] \/ Fine(undo'[d])
           /\ \A d \in Command : pc'[d] \in Active => d # c /\ pc'[d] = pc[d]
           /\ arg' = arg /\ known' = known /\ rotations' = rotations /\ overlapped' = overlapped
           /\ torn' \in BOOLEAN /\ interrupted' \in BOOLEAN
  <1>1. pc' = [pc EXCEPT ![c] = "failed"] /\ "failed" \notin Active /\ "failed" \in Ended
    BY DEF Aborts, Active, Ended
  <1>2. Fine(Empty)
    BY EmptyFine DEF KeyInv
  <1>3. undo' = [undo EXCEPT ![c] = Empty] /\ Empty \in Memory
    BY <1>2 DEF Aborts, Fine
  <1> QED
    BY <1>1, <1>2, <1>3 DEF Aborts, KeyInv, TypeOK

\* The steps in which a command ends.
LEMMA EndingStep ==
    ASSUME KeyInv, NEW c \in Command,
           SaveFails(c) \/ BindFails(c) \/ QueryFails(c) \/ RestartFails(c) \/ Killed(c)
    PROVE  KeyInv'
  <1>1. Aborts(c) /\ UNCHANGED fileVars
    BY DEF SaveFails, BindFails, QueryFails, RestartFails, Killed
  <1>2. /\ mem' \in [Proc -> Memory] /\ svc' \in {"down", "boot", "bind", "up"}
        /\ \A p \in Proc : mem'[p] = mem[p] \/ Fine(mem'[p])
        /\ \A d \in Command : d # c => mem'[d] = mem[d]
    <2>0. TypeOK /\ c \in Proc /\ Svc \in Proc /\ Fine(Empty) /\ mem \in [Proc -> Memory]
      BY ProcFine, EmptyFine DEF KeyInv, TypeOK
    <2>1. CASE SaveFails(c)
      <3>1. Fine(WithKeys(mem[c], undo[c].current, undo[c].previous))
        BY <2>0, ProcFine, UndoFine
      <3>2. WithKeys(mem[c], undo[c].current, undo[c].previous) \in Memory
        BY <3>1 DEF Fine
      <3> QED
        BY <2>0, <2>1, <3>1, <3>2, ProcFine DEF SaveFails, TypeOK
    <2>2. CASE BindFails(c) \/ QueryFails(c) \/ Killed(c)
      BY <2>0, <2>2, WithoutFine, ProcFine DEF BindFails, QueryFails, Killed, TypeOK
    <2>3. CASE RestartFails(c)
      <3>1. CASE svc' = svc /\ mem' = Without(c)
        BY <2>0, <3>1, WithoutFine, ProcFine DEF TypeOK
      <3>2. CASE svc' = "down" /\ mem' = [Without(c) EXCEPT ![Svc] = Empty]
        <4>1. Empty \in Memory
          BY <2>0 DEF Fine
        <4> QED
          BY <2>0, <3>2, <4>1, WithoutFine, ProcFine
      <3> QED
        BY <2>3, <3>1, <3>2 DEF RestartFails
    <2> QED
      BY <2>1, <2>2, <2>3
  <1>3. TypeOK'
    BY <1>1, <1>2, AbortStep DEF KeyInv, TypeOK, fileVars
  <1>4. Memories'
    BY <1>1, <1>2, AbortStep, MemoriesKept
  <1>5. Files'
    <2>1. {"save", "saving"} \subseteq Active
      BY DEF Active
    <2> QED
      BY <1>1, <1>2, <2>1, AbortStep DEF KeyInv, Files, fileVars
  <1> QED
    BY <1>3, <1>4, <1>5 DEF KeyInv

\* The other steps of a command.
LEMMA RunningStep ==
    ASSUME KeyInv, NEW c \in Command,
           \/ Begin(c) \/ LoadKeys(c) \/ LoadBinding(c) \/ SetPublicKey(c) \/ SaveOpens(c)
           \/ SaveWrites(c) \/ SetAuthorizedPrincipal(c) \/ BindOpens(c) \/ BindWrites(c)
           \/ Query(c) \/ Restart(c)
    PROVE  KeyInv'
  <1>0. /\ TypeOK /\ Memories /\ Files /\ c \in Proc /\ Svc \in Proc /\ c # Svc
        /\ Fine(mem[c]) /\ Fine(undo[c]) /\ Fine(Empty)
        /\ arg[c].key \in Key /\ arg[c].who \in Who
    BY ProcFine, EmptyFine DEF KeyInv, TypeOK
  <1>00. pc[c] \in Active => arg[c].key \in known.keys /\ arg[c].who \in known.who
    BY <1>0 DEF Files
  <1> USE <1>0 DEF At
  <1>1. CASE Begin(c)
    <2>1. TypeOK'
      BY <1>1 DEF Begin, TypeOK, fileVars, Active
    <2>2. Memories'
      BY <1>1 DEF Begin, Memories, Coherent, Given
    <2>3. Files'
      BY <1>1 DEF Begin, Files, fileVars, TypeOK
    <2> QED
      BY <2>1, <2>2, <2>3 DEF KeyInv
  <1>2. CASE LoadKeys(c)
    <2>1. Fine(LoadPublicKeys(mem[c])) /\ LoadPublicKeys(mem[c]) \in Memory
      BY LoadKeysFine DEF Fine
    <2>2. TypeOK'
      BY <1>2, <2>1 DEF LoadKeys, TypeOK, fileVars, histVars, Active
    <2>3. Memories'
      BY <1>2, <2>1, MemoriesKept DEF LoadKeys, TypeOK, histVars
    <2>4. Files'
      BY <1>2 DEF LoadKeys, Files, fileVars, histVars, TypeOK, Active
    <2> QED
      BY <2>2, <2>3, <2>4 DEF KeyInv
  <1>3. CASE LoadBinding(c)
    <2>1. Fine(LoadPrincipal(mem[c])) /\ LoadPrincipal(mem[c]) \in Memory
      BY LoadPrincipalFine DEF Fine
    <2>2. TypeOK'
      BY <1>3, <2>1 DEF LoadBinding, TypeOK, fileVars, histVars, Active
    <2>3. Memories'
      BY <1>3, <2>1, MemoriesKept DEF LoadBinding, TypeOK, histVars
    <2>4. Files'
      BY <1>3 DEF LoadBinding, Files, fileVars, histVars, TypeOK, Active
    <2> QED
      BY <2>2, <2>3, <2>4 DEF KeyInv
  <1>4. CASE SetPublicKey(c)
    <2>1. CASE mem[c].current = arg[c].key
      <3>1. /\ pc[c] = "set" /\ pc' = [pc EXCEPT ![c] = "bind"] /\ UNCHANGED <<mem, undo>>
            /\ UNCHANGED <<fileVars, arg, changed, svc, histVars>>
        BY <1>4, <2>1 DEF SetPublicKey
      <3>2. TypeOK' /\ Memories'
        BY <3>1 DEF TypeOK, Memories, fileVars, histVars, Active
      <3>3. Files'
        BY <3>1 DEF Files, fileVars, histVars, TypeOK, Active
      <3> QED
        BY <3>2, <3>3 DEF KeyInv
    <2>2. CASE mem[c].current # arg[c].key
      <3>1. /\ pc[c] = "set" /\ pc' = [pc EXCEPT ![c] = "save"]
            /\ undo' = [undo EXCEPT ![c] = mem[c]]
            /\ mem' = [mem EXCEPT ![c] = Rotated(mem[c], arg[c].key)]
            /\ UNCHANGED <<fileVars, arg, changed, svc, histVars>>
        BY <1>4, <2>2 DEF SetPublicKey
      <3>2. /\ Fine(Rotated(mem[c], arg[c].key)) /\ Rotated(mem[c], arg[c].key).current = arg[c].key
            /\ Rotated(mem[c], arg[c].key) \in Memory /\ mem[c] \in Memory
        BY <1>00, <2>2, <3>1, RotatedFine DEF Fine, Active
      <3>3. TypeOK'
        BY <3>1, <3>2 DEF TypeOK, fileVars, histVars, Active
      <3>4. Memories'
        BY <3>1, <3>2, MemoriesKept DEF TypeOK, histVars
      <3>5. Files'
        BY <3>1, <3>2 DEF Files, fileVars, histVars, TypeOK, Active
      <3> QED
        BY <3>3, <3>4, <3>5 DEF KeyInv
    <2> QED
      BY <2>1, <2>2
  <1>5. CASE SaveOpens(c)
    <2>1. TypeOK' /\ Memories'
      BY <1>5 DEF SaveOpens, TypeOK, Memories, histVars, Active
    <2>2. Torn \notin Ring
      BY KeyRingAssumption DEF Ring
    <2>3. Files'
      BY <1>5, <2>2 DEF SaveOpens, Files, histVars, TypeOK, Active
    <2> QED
      BY <2>1, <2>3 DEF KeyInv
  <1>6. CASE SaveWrites(c)
    <2> DEFINE new == [current |-> mem[c].current, previous |-> mem[c].previous]
    <2>1. mem[c].current = arg[c].key /\ arg[c].key \in known.keys
      BY <1>00, <1>6 DEF SaveWrites, Files, Active
    <2>2. new \in Ring /\ {new.current, new.previous} \ {None} \subseteq known.keys
      BY <2>1 DEF Fine, Memory, Coherent, Given, Ring
    <2>3. Torn \notin Ring
      BY KeyRingAssumption DEF Ring
    <2>4. ring' = new \/ ring' = Torn
      BY <1>6 DEF SaveWrites, Overwritten
    <2> HIDE DEF new
    <2>5. TypeOK'
      BY <1>6, <2>2, <2>4 DEF SaveWrites, TypeOK, Active, Fine
    <2>6. Memories'
      BY <1>6, MemoriesKept DEF SaveWrites, TypeOK
    <2>7. Files'
      BY <1>6, <2>2, <2>3, <2>4 DEF SaveWrites, Files, TypeOK, Active
    <2> QED
      BY <2>5, <2>6, <2>7 DEF KeyInv
  <1>7. CASE SetAuthorizedPrincipal(c)
    <2>1. /\ pc[c] = "bind" /\ (pc' = [pc EXCEPT ![c] = "query"] \/ pc' = [pc EXCEPT ![c] = "bound"])
          /\ UNCHANGED <<fileVars, mem, undo, arg, changed, svc, histVars>>
      BY <1>7 DEF SetAuthorizedPrincipal
    <2>2. TypeOK' /\ Memories'
      BY <2>1 DEF TypeOK, Memories, fileVars, histVars, Active
    <2>3. Files'
      BY <2>1 DEF Files, fileVars, histVars, TypeOK, Active
    <2> QED
      BY <2>2, <2>3 DEF KeyInv
  <1>8. CASE BindOpens(c)
    <2>1. TypeOK' /\ Memories'
      BY <1>8 DEF BindOpens, TypeOK, Memories, histVars, Active
    <2>2. Torn \notin Who
      BY KeyRingAssumption
    <2>3. Files'
      BY <1>8, <2>2 DEF BindOpens, Files, histVars, TypeOK, Active
    <2> QED
      BY <2>1, <2>3 DEF KeyInv
  <1>9. CASE BindWrites(c)
    <2>1. arg[c].who \in known.who
      BY <1>00, <1>9 DEF BindWrites, Active
    <2>2. Fine(WithPrincipal(mem[c], arg[c].who)) /\ WithPrincipal(mem[c], arg[c].who) \in Memory
      BY <2>1, WithPrincipalFine DEF Fine
    <2>3. bind' = arg[c].who \/ bind' = Torn
      BY <1>9 DEF BindWrites, Overwritten
    <2>4. Torn \notin Who
      BY KeyRingAssumption
    <2>5. TypeOK'
      BY <1>9, <2>2, <2>3 DEF BindWrites, TypeOK, histVars, Active
    <2>6. Memories'
      BY <1>9, <2>2, MemoriesKept DEF BindWrites, TypeOK, histVars
    <2>7. Files'
      BY <1>9, <2>1, <2>3, <2>4 DEF BindWrites, Files, histVars, TypeOK, Active
    <2> QED
      BY <2>5, <2>6, <2>7 DEF KeyInv
  <1>10. CASE Query(c) \/ Restart(c)
    <2>1. /\ UNCHANGED <<fileVars, undo, arg, histVars>> /\ svc' \in {svc, "boot"}
          /\ \E x \in {"done", "unneeded", "restart"} : pc' = [pc EXCEPT ![c] = x]
          /\ pc[c] \in Active /\ changed' \in [Command -> BOOLEAN]
      BY <1>10 DEF Query, Restart, TypeOK, Active
    <2>2. /\ mem' \in [Proc -> Memory] /\ \A p \in Proc : mem'[p] = mem[p] \/ Fine(mem'[p])
          /\ \A d \in Command : d # c => mem'[d] = mem[d]
      <3>1. CASE mem' = mem
        BY <3>1 DEF TypeOK
      <3>2. CASE mem' = Without(c)
        BY <3>2, WithoutFine, ProcFine
      <3>3. CASE mem' = [Without(c) EXCEPT ![Svc] = Empty]
        <4>1. Empty \in Memory
          BY DEF Fine
        <4> QED
          BY <3>3, <4>1, WithoutFine, ProcFine
      <3> QED
        BY <1>10, <3>1, <3>2, <3>3 DEF Query, Restart
    <2>3. TypeOK'
      <3>1. pc' \in [Command -> {"new"} \cup Active \cup Ended]
        BY <2>1 DEF TypeOK, Active, Ended
      <3>2. svc' \in {"down", "boot", "bind", "up"}
        BY <2>1 DEF TypeOK
      <3> QED
        BY <2>1, <2>2, <3>1, <3>2 DEF TypeOK, fileVars, histVars
    <2>4. Memories'
      BY <2>1, <2>2, MemoriesKept DEF histVars
    <2>5. Files'
      BY <2>1, <2>2 DEF Files, fileVars, histVars, TypeOK, Active
    <2> QED
      BY <2>3, <2>4, <2>5 DEF KeyInv
  <1> QED
    BY <1>1, <1>2, <1>3, <1>4, <1>5, <1>6, <1>7, <1>8, <1>9, <1>10

\* The steps of the service.
LEMMA ServiceStep ==
    ASSUME KeyInv, ServiceStarts \/ Boot \/ ServiceStops
    PROVE  KeyInv'
  <1>0. /\ TypeOK /\ Memories /\ Files /\ Svc \in Proc /\ Svc \notin Command
        /\ Fine(mem[Svc]) /\ Fine(Empty) /\ mem \in [Proc -> Memory]
    BY ProcFine, EmptyFine, KeyRingAssumption DEF KeyInv, TypeOK
  <1>1. PICK m : Fine(m) /\ mem' = [mem EXCEPT ![Svc] = m]
    <2>1. CASE ServiceStarts
      <3>1. mem' = [mem EXCEPT ![Svc] = mem[Svc]]
        BY <1>0, <2>1 DEF ServiceStarts
      <3> QED
        BY <1>0, <3>1
    <2>2. CASE BootKeys
      BY <1>0, <2>2, LoadKeysFine DEF BootKeys
    <2>3. CASE BootBinding
      BY <1>0, <2>3, LoadPrincipalFine DEF BootBinding
    <2>4. CASE ServiceStops
      BY <1>0, <2>4 DEF ServiceStops, Without
    <2> QED
      BY <2>1, <2>2, <2>3, <2>4 DEF Boot
  <1>2. /\ UNCHANGED <<fileVars, cmdVars, known, overlapped>>
        /\ svc' \in {"down", "boot", "bind", "up"} /\ rotations' \in Nat
        /\ torn' \in BOOLEAN /\ interrupted' \in BOOLEAN
    <2>1. CASE BootKeys
      BY <1>0, <2>1 DEF BootKeys, TypeOK
    <2>2. CASE ServiceStarts \/ BootBinding \/ ServiceStops
      <3>1. UNCHANGED <<fileVars, cmdVars, histVars>> /\ svc' \in {"down", "boot", "bind", "up"}
        BY <2>2 DEF ServiceStarts, BootBinding, ServiceStops
      <3> QED
        BY <1>0, <3>1 DEF histVars, TypeOK
    <2> QED
      BY <2>1, <2>2 DEF Boot
  <1>3. m \in Memory
    BY <1>1 DEF Fine
  <1>4. TypeOK'
    BY <1>0, <1>1, <1>2, <1>3 DEF TypeOK, fileVars, cmdVars
  <1>5. Memories'
    BY <1>0, <1>1, <1>2, MemoriesKept DEF cmdVars
  <1>6. Files'
    BY <1>0, <1>1, <1>2, ProcFine DEF Files, fileVars, cmdVars
  <1> QED
    BY <1>4, <1>5, <1>6 DEF KeyInv

\* The inductive invariant of the key ring: memories are coherent and everything
\* in them and in the files was given by a command (KeyManager, service init).
THEOREM KeyInvAlways == Spec => []KeyInv
  <1>1. Init => KeyInv
    <2> SUFFICES ASSUME Init PROVE KeyInv
      OBVIOUS
    <2>1. Empty \in Memory /\ Coherent(Empty)
      BY DEF Empty, Memory, Coherent
    <2>2. TypeOK
      BY <2>1 DEF Init, TypeOK
    <2>3. Memories
      BY <2>1, <2>2, EmptyFine DEF Init, Memories, Fine
    <2>4. NoFile \notin Ring /\ NoFile \notin Who
      BY KeyRingAssumption DEF Ring
    <2>5. Files
      BY <2>4 DEF Init, Files, Active
    <2> QED
      BY <2>2, <2>3, <2>5 DEF KeyInv
  <1>2. KeyInv /\ [Next]_vars => KeyInv'
    <2> SUFFICES ASSUME KeyInv, [Next]_vars PROVE KeyInv'
      OBVIOUS
    <2>1. ASSUME NEW c \in Command, Step(c) PROVE KeyInv'
      BY <2>1, EndingStep, RunningStep DEF Step
    <2>2. CASE ServiceStarts \/ Boot \/ ServiceStops
      BY <2>2, ServiceStep
    <2>3. CASE UNCHANGED vars
      BY <2>3 DEF vars, fileVars, cmdVars, histVars, KeyInv, TypeOK, Memories, Files
    <2> QED
      BY <2>1, <2>2, <2>3 DEF Next
  <1> QED
    BY <1>1, <1>2, PTL DEF Spec

\* Every variable of the key ring keeps its type; what is written to the file is
\* always a ring with a current key (savePublicKeysLocked).
THEOREM KeyTypeCorrect == Spec => []TypeOK
  <1>1. KeyInv => TypeOK
    BY DEF KeyInv
  <1> QED
    BY <1>1, KeyInvAlways, PTL

\* The keys that verify signatures are the current and the previous key in every
\* process, failed saves and overlapping commands included (SetPublicKey,
\* loadPublicKeys).
THEOREM KeysCoherentAlways == Spec => []KeysCoherent
  <1>1. KeyInv => KeysCoherent
    BY DEF KeyInv, Memories, KeysCoherent
  <1> QED
    BY <1>1, KeyInvAlways, PTL

\* A request is served only with a key and to an identity that was given, with
\* whatever files the service was started (AuthMiddleware, VerifySignature).
THEOREM BoundAlways == Spec => []Bound
  <1>1. KeyInv => Bound
    <2> SUFFICES ASSUME KeyInv, NEW k \in Key, NEW u \in Who, Accepts(k, u)
                 PROVE  k \in known.keys /\ u \in known.who
      BY DEF Bound
    <2>1. Given(mem[Svc], known)
      BY ProcFine DEF Fine
    <2>2. None \notin Who /\ mem[Svc].principal = u
      BY KeyRingAssumption DEF Accepts, HasAuthorizedPrincipal, VerifyRequestPrincipal
    <2> QED
      BY <2>1, <2>2 DEF Given, Accepts, VerifySignature
  <1> QED
    BY <1>1, KeyInvAlways, PTL

----------------------------------------------------------------------------
\* What is stored, by the content of the files (loadPublicKeys,
\* loadAuthorizedPrincipal).
StoredFacts ==
    /\ ring \in Ring => /\ Cur = ring.current
                        /\ Stored.publicKeys = {ring.current, ring.previous} \ {None}
    /\ ring = Torn => Cur = None
    /\ Cur # None => Cur \in Stored.publicKeys
    /\ Pri = IF bind \in Who THEN bind ELSE None
    /\ Stored.principal = None

\* A process that starts with an empty KeyManager loads exactly that.
LEMMA StoredIs == TypeOK => StoredFacts
  <1> SUFFICES ASSUME TypeOK PROVE StoredFacts
    OBVIOUS
  <1> USE DEF StoredFacts
  <1>0. Torn \notin Ring /\ Torn # NoFile /\ None \notin Key
    BY KeyRingAssumption DEF Ring
  <1>1. Pri = IF bind \in Who THEN bind ELSE None
    BY DEF Pri, LoadPrincipal, WithPrincipal, Empty
  <1>2. CASE ring \in Ring
    <2>1. Stored = WithKeys(Empty, ring.current, IF ring.previous = ring.current THEN None ELSE ring.previous)
      BY <1>2 DEF Stored, LoadPublicKeys
    <2>2. ring.current \in Key
      BY <1>2 DEF Ring
    <2> QED
      BY <1>0, <1>1, <1>2, <2>1, <2>2 DEF WithKeys, PublicKeys, Cur, Empty
  <1>3. CASE ring \notin Ring
    BY <1>0, <1>1, <1>3 DEF Stored, LoadPublicKeys, WithKeys, PublicKeys, Cur, Empty
  <1> QED
    BY <1>2, <1>3

\* The same of the state after a step.
LEMMA StoredNext == TypeOK' => StoredFacts'
  BY StoredIs, PTL

\* Steps that write no file leave what is stored.
LEMMA SameStored ==
    ASSUME UNCHANGED fileVars
    PROVE  Stored' = Stored /\ Cur' = Cur /\ Pri' = Pri
  BY DEF Stored, Cur, Pri, LoadPublicKeys, LoadPrincipal, WithKeys, WithPrincipal, PublicKeys, Empty, fileVars

\* Processes start with an empty KeyManager.
LEMMA BlankStep ==
    ASSUME KeyInv, Blank, [Next]_vars
    PROVE  Blank'
  <1>0. /\ mem \in [Proc -> Memory] /\ pc \in [Command -> {"new"} \cup Active \cup Ended]
        /\ Svc \in Proc /\ Svc \notin Command /\ \A c \in Command : c \in Proc
    BY KeyRingAssumption DEF KeyInv, TypeOK, Proc
  <1>1. ASSUME NEW c \in Command, Step(c) PROVE Blank'
    <2>1. /\ \A d \in Command : d # c => pc'[d] = pc[d] /\ mem'[d] = mem[d]
          /\ pc'[c] \in {"new", "load"} => mem'[c] = Empty
      BY <1>0, <1>1 DEF Step, At, Aborts, Without, Begin, LoadKeys, LoadBinding, SetPublicKey, SaveOpens,
             SaveWrites, SaveFails, SetAuthorizedPrincipal, BindOpens, BindWrites, BindFails, Query, QueryFails,
             Restart, RestartFails, Killed, Blank
    <2>2. \/ svc' = svc /\ mem'[Svc] = mem[Svc]
          \/ svc' \in {"boot", "down"} /\ mem'[Svc] = Empty
      BY <1>0, <1>1 DEF Step, At, Aborts, Without, Begin, LoadKeys, LoadBinding, SetPublicKey, SaveOpens,
             SaveWrites, SaveFails, SetAuthorizedPrincipal, BindOpens, BindWrites, BindFails, Query, QueryFails,
             Restart, RestartFails, Killed
    <2>3. Empty.principal = None
      BY DEF Empty
    <2> QED
      BY <2>1, <2>2, <2>3 DEF Blank
  <1>2. CASE BootKeys
    <2>1. mem[Svc] = Empty /\ mem'[Svc] = Stored
      BY <1>0, <1>2 DEF BootKeys, Blank, Stored
    <2>2. Stored.principal = None
      BY StoredIs DEF KeyInv, StoredFacts
    <2> QED
      BY <1>0, <1>2, <2>1, <2>2 DEF BootKeys, Blank, cmdVars
  <1>3. CASE ServiceStarts \/ BootBinding \/ ServiceStops \/ UNCHANGED vars
    BY <1>0, <1>3 DEF ServiceStarts, BootBinding, ServiceStops, Without, vars, cmdVars, Blank
  <1> QED
    BY <1>1, <1>2, <1>3 DEF Next, Boot

----------------------------------------------------------------------------
\* While commands do not overlap, a command that steps is the only active one.
LEMMA OnlyOne ==
    ASSUME KeyInv, SoloInv, NEW c \in Command, Step(c), ~overlapped'
    PROVE  /\ ~overlapped /\ Alone /\ Alone' /\ Traceable /\ Synchronous /\ Progress(c)
           /\ \A d \in Command : d # c => pc'[d] = pc[d] /\ pc[d] \notin Active
  <1>0. pc \in [Command -> {"new"} \cup Active \cup Ended] /\ overlapped \in BOOLEAN
    BY DEF KeyInv, TypeOK
  <1>1. ~overlapped /\ (Begin(c) => \A d \in Command : pc[d] \notin Active)
    BY <1>0 DEF Step, At, Aborts, Begin, LoadKeys, LoadBinding, SetPublicKey, SaveOpens, SaveWrites, SaveFails,
           SetAuthorizedPrincipal, BindOpens, BindWrites, BindFails, Query, QueryFails, Restart, RestartFails,
           Killed, histVars
  <1>2. pc[c] \in Active \/ Begin(c)
    BY DEF Step, At, LoadKeys, LoadBinding, SetPublicKey, SaveOpens, SaveWrites, SaveFails,
           SetAuthorizedPrincipal, BindOpens, BindWrites, BindFails, Query, QueryFails, Restart, RestartFails,
           Killed, Active
  <1>3. \A d \in Command : d # c => pc'[d] = pc[d]
    BY <1>0 DEF Step, At, Aborts, Begin, LoadKeys, LoadBinding, SetPublicKey, SaveOpens, SaveWrites, SaveFails,
           SetAuthorizedPrincipal, BindOpens, BindWrites, BindFails, Query, QueryFails, Restart, RestartFails,
           Killed
  <1>4. Alone /\ Traceable /\ Synchronous /\ Progress(c)
    BY <1>1 DEF SoloInv
  <1>5. \A d \in Command : d # c => pc[d] \notin Active
    BY <1>1, <1>2, <1>4 DEF Alone
  <1> QED
    BY <1>1, <1>3, <1>4, <1>5 DEF Alone

\* Nothing is claimed of a command that is not active.
LEMMA Idle == ASSUME NEW c \in Command, pc'[c] \notin Active PROVE Progress(c)'
  BY DEF Progress, Active

\* A step of a command that is not writing a file leaves the service as well
\* informed as it was.
LEMMA QuietStep ==
    ASSUME NEW c \in Command, Traceable, Synchronous,
           \A d \in Command : d # c => pc'[d] = pc[d] /\ pc[d] \notin Active,
           pc[c] \notin {"saving", "binding"},
           pc[c] \in Active => pc'[c] \in Active /\ changed'[c] = changed[c],
           UNCHANGED <<fileVars, svc, mem[Svc], torn, rotations, interrupted>>
    PROVE  Traceable' /\ Synchronous'
  <1>1. Stored' = Stored /\ Cur' = Cur /\ Pri' = Pri /\ ring' = ring
    BY SameStored DEF fileVars
  <1>2. \A d \in Command : pc[d] # "saving"
    BY DEF Active
  <1>3. Traceable'
    BY <1>1, <1>2 DEF Traceable
  <1>4. Synchronous'
    BY <1>1 DEF Synchronous
  <1> QED
    BY <1>3, <1>4

\* A command that ends early is marked as interrupted if it has changed a file,
\* and the key ring as torn if that was being written.
LEMMA AbortSolo ==
    ASSUME KeyInv, NEW c \in Command, Traceable, Synchronous, Aborts(c), UNCHANGED fileVars,
           \A d \in Command : d # c => pc'[d] = pc[d] /\ pc[d] \notin Active,
           \/ svc' = "down"
           \/ svc' = svc /\ mem'[Svc] = mem[Svc]
    PROVE  Traceable' /\ Synchronous'
  <1>1. CASE svc' = "down"
    BY <1>1 DEF Traceable, Synchronous
  <1>2. CASE svc' = svc /\ mem'[Svc] = mem[Svc]
    <2>1. Stored' = Stored /\ Cur' = Cur /\ Pri' = Pri /\ ring' = ring
      BY SameStored DEF fileVars
    <2>2. /\ ~torn' => ~torn /\ pc[c] # "saving"
          /\ ~interrupted' => ~interrupted /\ ~changed[c] /\ pc[c] \notin {"saving", "binding"}
          /\ rotations' = rotations
      BY DEF Aborts, KeyInv, TypeOK
    <2>3. \A d \in Command : d # c => pc[d] # "saving"
      BY DEF Active
    <2>4. Traceable'
      BY <1>2, <2>1, <2>2, <2>3 DEF Traceable
    <2>5. Synchronous'
      BY <1>2, <2>1, <2>2 DEF Synchronous
    <2> QED
      BY <2>4, <2>5
  <1> QED
    BY <1>1, <1>2

\* The steps of a command that runs alone.
LEMMA SoloCommand ==
    ASSUME KeyInv, KeyInv', SoloInv, NEW c \in Command, Step(c), ~overlapped'
    PROVE  Progress(c)' /\ Traceable' /\ Synchronous'
  <1>0. /\ ~overlapped /\ Traceable /\ Synchronous /\ Progress(c) /\ Blank
        /\ \A d \in Command : d # c => pc'[d] = pc[d] /\ pc[d] \notin Active
        /\ mem \in [Proc -> Memory] /\ pc \in [Command -> {"new"} \cup Active \cup Ended]
        /\ changed \in [Command -> BOOLEAN] /\ arg \in [Command -> [key : Key, who : Who]]
        /\ Svc \in Proc /\ Svc # c /\ c \in Proc
    BY OnlyOne, KeyRingAssumption DEF KeyInv, TypeOK, Proc, SoloInv
  <1>00. None \notin Key /\ None \notin Who /\ Torn \notin Ring /\ Torn \notin Who /\ arg[c].who \in Who
    BY <1>0, KeyRingAssumption DEF Ring
  <1>01. /\ ring = Torn => Cur = None
         /\ Cur # None => Cur \in Stored.publicKeys
         /\ Pri = IF bind \in Who THEN bind ELSE None
         /\ Stored.principal = None
    BY StoredIs DEF KeyInv, StoredFacts
  <1>02. /\ ring' \in Ring => /\ Cur' = ring'.current
                              /\ Stored'.publicKeys = {ring'.current, ring'.previous} \ {None}
         /\ Pri' = IF bind' \in Who THEN bind' ELSE None
    BY StoredNext DEF KeyInv, StoredFacts
  <1> USE <1>0 DEF At
  <1>1. CASE Begin(c)
    <2>1. /\ pc[c] = "new" /\ pc'[c] = "load" /\ UNCHANGED <<fileVars, svc, mem, torn, rotations, interrupted>>
      BY <1>1 DEF Begin
    <2>2. Traceable' /\ Synchronous'
      <3>1. "new" \notin Active
        BY DEF Active
      <3> QED
        BY <2>1, <3>1, QuietStep
    <2> QED
      BY <2>1, <2>2 DEF Progress
  <1>2. CASE LoadKeys(c)
    <2>1. /\ pc[c] = "load" /\ pc'[c] = "principal" /\ mem'[c] = Stored /\ mem'[Svc] = mem[Svc]
          /\ UNCHANGED <<fileVars, svc, changed, torn, rotations, interrupted>>
      BY <1>2 DEF LoadKeys, histVars, Blank, Stored
    <2>2. Traceable' /\ Synchronous'
      BY <2>1, QuietStep DEF Active
    <2>3. Cur' = Cur
      BY <2>1, SameStored
    <2> QED
      BY <1>01, <2>1, <2>2, <2>3 DEF Progress, Cur
  <1>3. CASE LoadBinding(c)
    <2>1. /\ pc[c] = "principal" /\ pc'[c] = "set" /\ mem'[c] = LoadPrincipal(mem[c]) /\ mem'[Svc] = mem[Svc]
          /\ UNCHANGED <<fileVars, svc, changed, torn, rotations, interrupted>>
      BY <1>3 DEF LoadBinding, histVars
    <2>2. Traceable' /\ Synchronous'
      BY <2>1, QuietStep DEF Active
    <2>3. Cur' = Cur /\ Pri' = Pri
      BY <2>1, SameStored
    <2>4. mem[c].current = Cur /\ mem[c].principal = None
      BY <2>1 DEF Progress
    <2>5. mem'[c].current = Cur /\ mem'[c].principal = Pri
      BY <1>01, <2>1, <2>4 DEF LoadPrincipal, WithPrincipal
    <2> QED
      BY <2>1, <2>2, <2>3, <2>5 DEF Progress
  <1>4. CASE SetPublicKey(c)
    <2>1. /\ pc[c] = "set" /\ mem'[Svc] = mem[Svc] /\ pc'[c] \in Active
          /\ UNCHANGED <<fileVars, svc, changed, arg, torn, rotations, interrupted>>
          /\ \/ mem[c].current = arg[c].key /\ pc'[c] = "bind" /\ mem' = mem
             \/ pc'[c] = "save" /\ mem'[c] = Rotated(mem[c], arg[c].key)
      BY <1>4 DEF SetPublicKey, histVars, Active
    <2>2. Traceable' /\ Synchronous'
      BY <2>1, QuietStep DEF Active
    <2>3. Cur' = Cur /\ Pri' = Pri
      BY <2>1, SameStored
    <2>4. mem[c].current = Cur /\ mem[c].principal = Pri
      BY <2>1 DEF Progress
    <2> QED
      BY <2>1, <2>2, <2>3, <2>4 DEF Progress, Rotated, WithKeys
  <1>5. CASE SaveOpens(c)
    <2>1. /\ pc[c] = "save" /\ pc'[c] = "saving" /\ ring' = Torn
          /\ UNCHANGED <<bind, pem, mem, arg, changed, svc, torn, rotations, interrupted>>
      BY <1>5 DEF SaveOpens, histVars
    <2>2. mem[c].previous = Cur /\ mem[c].principal = Pri /\ Pri' = Pri
      BY <2>1 DEF Progress, Pri, LoadPrincipal, WithPrincipal, Empty
    <2>3. \A d \in Command : pc[d] # "saving"
      BY <2>1 DEF Active
    <2>4. Traceable'
      BY <2>1, <2>2, <2>3 DEF Traceable
    <2>5. Synchronous'
      BY <2>1, <2>2 DEF Synchronous, Active
    <2> QED
      BY <2>1, <2>2, <2>4, <2>5 DEF Progress
  <1>6. CASE SaveWrites(c)
    <2> DEFINE new == [current |-> mem[c].current, previous |-> mem[c].previous]
    <2>1. /\ pc[c] = "saving" /\ pc'[c] = "bind" /\ ring' \in Overwritten(ring, new)
          /\ changed'[c] /\ rotations' = rotations + 1
          /\ UNCHANGED <<bind, pem, mem, arg, svc, torn, interrupted>>
      BY <1>6 DEF SaveWrites
    <2>2. ring = Torn /\ mem[c].principal = Pri /\ Pri' = Pri
      BY <2>1 DEF Progress, Pri, LoadPrincipal, WithPrincipal, Empty
    <2>3. ring' = new
      BY <2>1, <2>2 DEF Overwritten
    <2>4. mem[c].current = arg[c].key /\ arg[c].key \in Key /\ mem[c].previous \in Key \cup {None}
      BY <2>1 DEF KeyInv, Files, Memory
    <2>5. new \in Ring
      BY <2>4 DEF Ring
    <2>6. Cur' = arg[c].key /\ Stored'.publicKeys = {mem[c].current, mem[c].previous} \ {None}
      BY <1>02, <2>3, <2>4, <2>5
    <2>7. Traceable'
      <3> SUFFICES ASSUME svc' \in {"bind", "up"}, mem'[Svc].current # None, ~torn', rotations' <= 1
                   PROVE  ring' # Torn /\ mem'[Svc].current \in Stored'.publicKeys /\ rotations' # 0
        BY DEF Traceable
      <3>1. rotations = 0 /\ rotations' = 1
        BY <2>1 DEF KeyInv, TypeOK
      <3>2. PICK d \in Command : pc[d] = "saving" /\ mem[d].previous = mem[Svc].current
        BY <2>1, <2>2, <3>1 DEF Traceable
      <3>3. d = c
        BY <3>2 DEF Active
      <3>4. ring' # Torn
        BY <1>00, <2>3, <2>5
      <3> QED
        BY <2>1, <2>6, <3>1, <3>2, <3>3, <3>4
    <2>8. Synchronous'
      BY <2>1 DEF Synchronous, Active
    <2> QED
      BY <2>1, <2>2, <2>6, <2>7, <2>8 DEF Progress
  <1>7. CASE SetAuthorizedPrincipal(c)
    <2>1. /\ pc[c] = "bind" /\ pc'[c] \in Active
          /\ UNCHANGED <<fileVars, mem, svc, changed, arg, torn, rotations, interrupted>>
          /\ \/ mem[c].principal = arg[c].who /\ pc'[c] = "query"
             \/ pc'[c] = "bound"
      BY <1>7 DEF SetAuthorizedPrincipal, histVars, Active
    <2>2. Traceable' /\ Synchronous'
      BY <2>1, QuietStep DEF Active
    <2>3. Cur' = Cur /\ Pri' = Pri /\ bind' = bind
      BY <2>1, SameStored DEF fileVars
    <2>4. Cur = arg[c].key /\ mem[c].principal = Pri
      BY <2>1 DEF Progress
    <2>5. pc'[c] = "query" => bind = arg[c].who
      BY <1>00, <1>01, <2>1, <2>4
    <2> QED
      BY <2>1, <2>2, <2>3, <2>4, <2>5 DEF Progress
  <1>8. CASE BindOpens(c)
    <2>1. /\ pc[c] = "bound" /\ pc'[c] = "binding" /\ bind' = Torn
          /\ UNCHANGED <<ring, pem, mem, arg, changed, svc, torn, rotations, interrupted>>
      BY <1>8 DEF BindOpens, histVars
    <2>2. Cur = arg[c].key /\ Cur' = Cur /\ Stored' = Stored
      BY <2>1 DEF Progress, Cur, Stored, LoadPublicKeys, WithKeys, PublicKeys, Empty
    <2>3. \A d \in Command : pc[d] # "saving"
      BY <2>1 DEF Active
    <2>4. Traceable'
      BY <2>1, <2>2, <2>3 DEF Traceable
    <2>5. Synchronous'
      BY <2>1, <2>2, <2>3 DEF Synchronous, Active
    <2> QED
      BY <2>1, <2>2, <2>4, <2>5 DEF Progress
  <1>9. CASE BindWrites(c)
    <2>1. /\ pc[c] = "binding" /\ pc'[c] = "query" /\ bind' \in Overwritten(bind, arg[c].who)
          /\ changed'[c] /\ mem'[Svc] = mem[Svc]
          /\ UNCHANGED <<ring, pem, arg, svc, torn, rotations, interrupted>>
      BY <1>9 DEF BindWrites, histVars
    <2>2. /\ Cur = arg[c].key /\ Cur' = Cur /\ Stored' = Stored /\ bind = Torn
      BY <2>1 DEF Progress, Cur, Stored, LoadPublicKeys, WithKeys, PublicKeys, Empty
    <2>3. bind' = arg[c].who
      BY <2>1, <2>2 DEF Overwritten
    <2>4. \A d \in Command : pc[d] # "saving"
      BY <2>1 DEF Active
    <2>5. Traceable'
      BY <2>1, <2>2, <2>4 DEF Traceable
    <2>6. Synchronous'
      BY <2>1 DEF Synchronous, Active
    <2> QED
      BY <2>1, <2>2, <2>3, <2>5, <2>6 DEF Progress
  <1>10. CASE Query(c)
    <2>1. /\ pc[c] = "query" /\ mem'[Svc] = mem[Svc]
          /\ UNCHANGED <<fileVars, arg, svc, torn, rotations, interrupted>>
          /\ \/ svc = "down" /\ pc'[c] = "done"
             \/ svc # "down" /\ ~changed[c] /\ pc'[c] = "unneeded"
             \/ svc # "down" /\ changed[c] /\ pc'[c] = "restart" /\ changed'[c]
      BY <1>10 DEF Query, Without, histVars
    <2>2. Cur' = Cur /\ Pri' = Pri /\ Stored' = Stored /\ ring' = ring /\ bind' = bind
      BY <2>1, SameStored DEF fileVars
    <2>3. Cur = arg[c].key /\ bind = arg[c].who
      BY <2>1 DEF Progress
    <2>4. Progress(c)'
      BY <2>1, <2>2, <2>3 DEF Progress
    <2>5. \A d \in Command : pc[d] # "saving"
      BY <2>1 DEF Active
    <2>6. Traceable'
      BY <2>1, <2>2, <2>5 DEF Traceable
    <2>7. Synchronous'
      BY <2>1, <2>2 DEF Synchronous, Active
    <2> QED
      BY <2>4, <2>6, <2>7
  <1>11. CASE Restart(c)
    <2>1. pc'[c] = "done" /\ svc' = "boot"
      BY <1>11 DEF Restart
    <2> QED
      BY <2>1 DEF Progress, Traceable, Synchronous
  <1>12. CASE SaveFails(c) \/ BindFails(c) \/ QueryFails(c) \/ RestartFails(c) \/ Killed(c)
    <2>1. Aborts(c) /\ UNCHANGED fileVars
      BY <1>12 DEF SaveFails, BindFails, QueryFails, RestartFails, Killed
    <2>2. \/ svc' = "down"
          \/ svc' = svc /\ mem'[Svc] = mem[Svc]
      BY <1>12 DEF SaveFails, BindFails, QueryFails, RestartFails, Killed, Without
    <2>3. pc'[c] = "failed"
      BY <2>1 DEF Aborts
    <2> QED
      BY <2>1, <2>2, <2>3, AbortSolo DEF Progress
  <1> QED
    BY <1>1, <1>2, <1>3, <1>4, <1>5, <1>6, <1>7, <1>8, <1>9, <1>10, <1>11, <1>12 DEF Step

\* The steps of the service while commands do not overlap.
LEMMA SoloService ==
    ASSUME KeyInv, SoloInv, ~overlapped', ServiceStarts \/ Boot \/ ServiceStops
    PROVE  Alone' /\ Traceable' /\ Synchronous' /\ \A c \in Command : Progress(c)'
  <1>0. UNCHANGED <<fileVars, cmdVars, overlapped>> /\ Svc \notin Command /\ mem \in [Proc -> Memory]
        /\ Svc \in Proc /\ Command \subseteq Proc
    BY KeyRingAssumption DEF ServiceStarts, Boot, BootKeys, BootBinding, ServiceStops, histVars, KeyInv, TypeOK, Proc
  <1>1. Alone /\ Traceable /\ Synchronous /\ Blank /\ \A c \in Command : Progress(c)
    BY <1>0 DEF SoloInv
  <1>2. \A c \in Command : mem'[c] = mem[c]
    BY <1>0 DEF ServiceStarts, Boot, BootKeys, BootBinding, ServiceStops, Without
  <1>3. Stored' = Stored /\ Cur' = Cur /\ Pri' = Pri /\ ring' = ring /\ bind' = bind
    BY <1>0, SameStored DEF fileVars
  <1>4. Alone' /\ \A c \in Command : Progress(c)'
    BY <1>0, <1>1, <1>2, <1>3 DEF Alone, Progress, cmdVars
  <1>5. CASE ServiceStarts \/ ServiceStops
    BY <1>4, <1>5 DEF ServiceStarts, ServiceStops, Traceable, Synchronous
  <1>6. CASE BootKeys
    <2>1. mem'[Svc] = Stored /\ svc' = "bind" /\ rotations' = 0
      BY <1>0, <1>1, <1>6 DEF BootKeys, Blank, Stored
    <2>2. (ring = Torn => Cur = None) /\ (Cur # None => Cur \in Stored.publicKeys)
      BY StoredIs DEF KeyInv, StoredFacts
    <2>3. Traceable'
      BY <1>3, <2>1, <2>2 DEF Traceable, Cur
    <2>4. Synchronous'
      BY <1>3, <2>1 DEF Synchronous, Cur
    <2> QED
      BY <1>4, <2>3, <2>4
  <1>7. CASE BootBinding
    <2>1. /\ svc = "bind" /\ svc' = "up" /\ mem'[Svc] = LoadPrincipal(mem[Svc])
          /\ UNCHANGED <<torn, rotations, interrupted, pc, changed>>
      BY <1>0, <1>7 DEF BootBinding, cmdVars, histVars
    <2>2. mem'[Svc].current = mem[Svc].current /\ mem'[Svc].principal = Pri
      BY <1>1, <2>1, StoredIs DEF LoadPrincipal, WithPrincipal, Blank, KeyInv, StoredFacts
    <2>3. Traceable'
      BY <1>1, <1>2, <1>3, <2>1, <2>2 DEF Traceable
    <2>4. Synchronous'
      BY <1>1, <1>3, <2>1, <2>2 DEF Synchronous
    <2> QED
      BY <1>4, <2>3, <2>4
  <1> QED
    BY <1>5, <1>6, <1>7 DEF Boot

\* The invariant of commands that do not overlap.
THEOREM SoloInvAlways == Spec => []SoloInv
  <1>1. Init => SoloInv
    <2> SUFFICES ASSUME Init PROVE SoloInv
      OBVIOUS
    <2>1. \A c \in Command : pc[c] = "new" /\ mem[c] = Empty
      BY DEF Init, Proc
    <2>2. svc = "down" /\ mem[Svc] = Empty
      BY DEF Init, Proc
    <2> QED
      BY <2>1, <2>2 DEF SoloInv, Blank, Alone, Traceable, Synchronous, Progress, Active
  <1>2. KeyInv /\ KeyInv' /\ SoloInv /\ [Next]_vars => SoloInv'
    <2> SUFFICES ASSUME KeyInv, KeyInv', SoloInv, [Next]_vars PROVE SoloInv'
      OBVIOUS
    <2>1. Blank'
      BY BlankStep DEF SoloInv
    <2>2. ASSUME NEW c \in Command, Step(c), ~overlapped'
          PROVE  Alone' /\ Traceable' /\ Synchronous' /\ \A d \in Command : Progress(d)'
      <3>1. Alone' /\ \A d \in Command : d # c => pc'[d] \notin Active
        BY <2>2, OnlyOne
      <3>2. \A d \in Command : d # c => Progress(d)'
        BY <3>1, Idle
      <3> QED
        BY <2>2, <3>1, <3>2, SoloCommand
    <2>3. ASSUME UNCHANGED vars, ~overlapped'
          PROVE  Alone' /\ Traceable' /\ Synchronous' /\ \A d \in Command : Progress(d)'
      <3>1. UNCHANGED <<fileVars, mem, pc, arg, changed, svc, torn, rotations, interrupted, overlapped>>
        BY <2>3 DEF vars, cmdVars, histVars
      <3>2. Stored' = Stored /\ Cur' = Cur /\ Pri' = Pri /\ ring' = ring /\ bind' = bind
        BY <3>1, SameStored DEF fileVars
      <3>3. Alone /\ Traceable /\ Synchronous /\ \A d \in Command : Progress(d)
        BY <2>3, <3>1 DEF SoloInv
      <3> QED
        BY <3>1, <3>2, <3>3 DEF Alone, Traceable, Synchronous, Progress
    <2>4. ~overlapped' => Alone' /\ Traceable' /\ Synchronous' /\ \A d \in Command : Progress(d)'
      BY <2>2, <2>3, SoloService DEF Next
    <2> QED
      BY <2>1, <2>4 DEF SoloInv
  <1> QED
    BY <1>1, <1>2, KeyInvAlways, PTL DEF Spec

\* A command that reaches the service manager has left the files with its own
\* key and identity, whatever truncated, missing or half-changed files it found
\* (service init, savePublicKeysLocked, setAuthorizedPrincipal).
THEOREM HealedAlways == Spec => []Healed
  <1>1. SoloInv => Healed
    BY DEF SoloInv, Progress, Healed, Stores, Cur
  <1> QED
    BY <1>1, SoloInvAlways, PTL

\* One rotation keeps the key that the running service knows as current among
\* the stored keys: the restart that follows does not lock its client out
\* (SetPublicKey, savePublicKeysLocked).
THEOREM SeamlessAlways == Spec => []Seamless
  <1>1. SoloInv => Seamless
    BY DEF SoloInv, Traceable, Seamless, IsInitialized
  <1> QED
    BY <1>1, SoloInvAlways, PTL

\* The service serves only what some command has given, and after a command
\* that was not interrupted exactly its key to its identity (service init's
\* restart, AuthMiddleware).
THEOREM EnforcedAlways == Spec => []Enforced
  <1>1. KeyInv /\ SoloInv => Effective
    <2> SUFFICES ASSUME KeyInv, SoloInv, NEW c \in Command, Stores(c), svc = "up", ~interrupted, ~overlapped,
                        \A d \in Command : pc[d] \notin Active, NEW u \in Who
                 PROVE  Accepts(arg[c].key, u) <=> u = arg[c].who
      BY DEF Effective
    <2>1. mem[Svc].current = Cur /\ mem[Svc].principal = Pri
      BY DEF SoloInv, Synchronous
    <2>2. Cur = arg[c].key /\ bind = arg[c].who /\ arg[c].key \in Key /\ arg[c].who \in Who
      BY DEF Stores, Cur, KeyInv, TypeOK
    <2>3. Pri = arg[c].who
      BY <2>2, StoredIs DEF KeyInv, StoredFacts
    <2>4. None \notin Key /\ None \notin Who /\ Svc \in Proc
      BY KeyRingAssumption DEF Proc
    <2>5. arg[c].key \in mem[Svc].publicKeys
      BY <2>1, <2>2, <2>4 DEF KeyInv, Memories, Coherent
    <2> QED
      BY <2>1, <2>2, <2>3, <2>4, <2>5 DEF Accepts, IsInitialized, HasAuthorizedPrincipal, VerifyRequestPrincipal,
                                          VerifySignature
  <1>2. SoloInv /\ KeyInv /\ Bound => Enforced
    BY <1>1 DEF Enforced
  <1> QED
    BY <1>2, SoloInvAlways, KeyInvAlways, BoundAlways, PTL
=============================================================================

----------------------------- MODULE NonceStore -----------------------------
(***************************************************************************)
(* The nonce store and the request check of route/auth/middleware.go.      *)
(*                                                                         *)
(* authenticateV2 reads the clock once, checks the request's timestamp     *)
(* against it, then reads the body and verifies digest and signature, and  *)
(* only then asks the store to remember the nonce, with the time it read   *)
(* at the beginning.  Requests are handled concurrently, so the store sees *)
(* times out of order.  A key stands for keyID:timestamp:nonce and thus    *)
(* fixes the timestamp.  Times are integers.                               *)
(***************************************************************************)
EXTENDS Integers, Sequences

CONSTANTS
    Nonce,      \* nonce keys of correctly signed requests
    Timestamp,  \* the timestamp that is part of every key
    Handler,    \* requests in flight at the same time
    Drift,      \* maxTimestampDriftV2
    MaxDelay,   \* bound: time one request spends between its clock reading and Remember
    MaxTime     \* bound: end of time

ASSUME NonceAssumption ==
    /\ Drift \in Nat \ {0} /\ MaxDelay \in Nat /\ MaxTime \in Nat
    /\ Timestamp \in [Nonce -> Nat]
    /\ "no key" \notin Nonce

ttl == 2 * Drift
Absent == 0          \* no entry; every expiry time is positive

VARIABLES
    clock,
    busy,       \* the key of the request a handler is verifying, NoKey if none
    time,       \* the clock reading (now) of that request
    seen,       \* nonceStore.seen: expiry time of a key, Absent if it has none
    order,      \* nonceStore.order
    high,       \* history: the latest time the store was given
    accepted,   \* history: how often a key was accepted
    last        \* history: the time given with its last acceptance

nonceVars == <<clock, busy, time, seen, order, high, accepted, last>>

NoKey == "no key"
Entry == [key : Nonce, expiresAt : Nat]
NonceTypeOK ==
    /\ clock \in Nat /\ busy \in [Handler -> Nonce \cup {NoKey}] /\ time \in [Handler -> Nat]
    /\ seen \in [Nonce -> Nat] /\ order \in Seq(Entry)
    /\ high \in Nat /\ accepted \in [Nonce -> Nat] /\ last \in [Nonce -> Nat]

NonceInit ==
    /\ clock = 0 /\ busy = [h \in Handler |-> NoKey] /\ time = [h \in Handler |-> 0]
    /\ seen = [k \in Nonce |-> Absent] /\ order = <<>>
    /\ high = 0 /\ accepted = [k \in Nonce |-> 0] /\ last = [k \in Nonce |-> 0]

\* A request is not in verification for longer than MaxDelay.
Tick ==
    /\ clock < MaxTime /\ clock' = clock + 1
    /\ \A h \in Handler : busy[h] # NoKey => clock - time[h] < MaxDelay
    /\ UNCHANGED <<busy, time, seen, order, high, accepted, last>>

\* Mutant: only late timestamps are refused.
ArriveEarly(h, k) ==
    /\ busy[h] = NoKey /\ clock - Timestamp[k] <= Drift
    /\ busy' = [busy EXCEPT ![h] = k] /\ time' = [time EXCEPT ![h] = clock]
    /\ UNCHANGED <<clock, seen, order, high, accepted, last>>

\* authenticateV2 up to the timestamp check, for a request the check lets pass.
Arrive(h, k) ==
    /\ busy[h] = NoKey
    /\ clock - Timestamp[k] <= Drift /\ Timestamp[k] - clock <= Drift
    /\ busy' = [busy EXCEPT ![h] = k] /\ time' = [time EXCEPT ![h] = clock]
    /\ UNCHANGED <<clock, seen, order, high, accepted, last>>

\* The request is answered.
Release(h) == busy' = [busy EXCEPT ![h] = NoKey] /\ time' = [time EXCEPT ![h] = 0]

\* The body cannot be read, or digest or signature do not match.
Refuse(h) ==
    /\ busy[h] # NoKey /\ Release(h)
    /\ UNCHANGED <<clock, seen, order, high, accepted, last>>

\* evictExpiredLocked drops the longest prefix of expired entries; an entry
\* takes its key out of seen unless the key was remembered again since.
Expired(n, now) ==
    /\ n \in 0..Len(order)
    /\ \A i \in 1..n : order[i].expiresAt <= now
    /\ n < Len(order) => order[n + 1].expiresAt > now

\* Mutant: any entry of a key takes the key out of seen.
AfterEvictionAny(n) ==
    [k \in Nonce |-> IF \E i \in 1..n : order[i].key = k THEN Absent ELSE seen[k]]

AfterEviction(n) ==
    [k \in Nonce |-> IF \E i \in 1..n : order[i].key = k /\ order[i].expiresAt = seen[k]
                     THEN Absent ELSE seen[k]]

Expiry(now) == now + ttl

\* Mutant: no entry is made.
EnlistNothing(kept, k, now) == kept

Enlist(kept, k, now) == Append(kept, [key |-> k, expiresAt |-> Expiry(now)])

\* Remember: evict n expired entries; a key that is absent or expired by then is
\* accepted, any other request is answered with a conflict.
RememberAfter(h, n) ==
    LET k == busy[h]
        now == time[h]
        kept == SubSeq(order, n + 1, Len(order))
    IN  /\ busy[h] # NoKey /\ Expired(n, now)
        /\ \/ /\ AfterEviction(n)[k] <= now
              /\ seen' = [AfterEviction(n) EXCEPT ![k] = Expiry(now)]
              /\ order' = Enlist(kept, k, now)
              /\ accepted' = [accepted EXCEPT ![k] = accepted[k] + 1]
              /\ last' = [last EXCEPT ![k] = now]
           \/ /\ AfterEviction(n)[k] > now
              /\ seen' = AfterEviction(n) /\ order' = kept
              /\ UNCHANGED <<accepted, last>>
        /\ Release(h)
        /\ high' = IF now > high THEN now ELSE high
        /\ UNCHANGED clock

Remember(h) == \E n \in 0..Len(order) : RememberAfter(h, n)

NonceNext == \/ Tick
             \/ \E h \in Handler : Refuse(h) \/ Remember(h) \/ \E k \in Nonce : Arrive(h, k)

NonceSpec == NonceInit /\ [][NonceNext]_nonceVars

----------------------------------------------------------------------------
\* A nonce key is accepted a second time only after the store was given a time
\* at which the first acceptance, remembered for twice the drift, was over:
\* eviction, which skips and reorders nothing, never forgets a key early, also
\* when delayed requests bring older times than the ones already seen.
ReuseGap ==
    [][\A k \in Nonce : accepted'[k] > accepted[k] /\ accepted[k] > 0
                          => high' >= last[k] + 2 * Drift]_nonceVars

\* Every key the store holds has an entry in order that will take it out: no
\* key stays in the map for ever.
Evictable ==
    \A k \in Nonce : seen[k] # Absent =>
        \E i \in 1..Len(order) : order[i].key = k /\ order[i].expiresAt = seen[k]

\* order is sorted up to the delay of a request, so an expired entry waits
\* behind an unexpired one for at most MaxDelay.
NearlySorted ==
    \A i, j \in 1..Len(order) :
        i < j => order[i].expiresAt <= order[j].expiresAt + MaxDelay

\* Every key leaves the store, and at most MaxDelay after it has expired.
Evicts == Evictable /\ NearlySorted

\* A request that brings the latest time the store was given is accepted once in
\* the whole window of its timestamp: it is accepted again only when the two
\* clock readings are the two ends of the window, 2 * Drift apart.  (A delayed
\* request may find its nonce evicted at a later time than its own.)
OncePerWindow ==
    [][\A k \in Nonce : accepted'[k] > accepted[k] /\ accepted[k] > 0 /\ last'[k] = high'
            => last[k] = Timestamp[k] - Drift /\ last'[k] = Timestamp[k] + Drift]_nonceVars
=============================================================================

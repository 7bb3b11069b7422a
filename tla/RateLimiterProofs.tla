--------------------------- MODULE RateLimiterProofs ---------------------------
(***************************************************************************)
(* Proofs about RateLimiter for any number of addresses and calls of Allow, *)
(* any shards, any rate, cost and burst, and any clock that is set back by  *)
(* MaxSkew in all.                                                          *)
(*                                                                         *)
(* Three invariants carry the theorems.  Paired: a bucket belongs to one    *)
(* address, in the maps and in the hands of the calls.  Clocked: no time    *)
(* stamp is ahead of the time that has really passed, clock + skew, which   *)
(* never runs back, and the cutoff of a sweep is the idle timeout behind    *)
(* it.  Stale: what an old cutoff finds idle has not been refilled since.   *)
(***************************************************************************)
EXTENDS RateLimiter, TLAPS

-----------------------------------------------------------------------------
(* The invariants.                                                          *)

Asking(r) == pc[r] \in {"create", "consume"}

\* Only a call in progress has a client, only one that found a bucket holds one,
\* and a bucket that is in a map is used for the address it is there for.
Paired ==
    /\ \A ip, jp \in IPs : Tracked(ip) /\ buckets[ip] = buckets[jp] => ip = jp
    /\ \A r \in Requests : IF Asking(r) THEN client[r] \in IPs ELSE client[r] = None
    /\ \A r \in Requests : IF pc[r] = "consume" THEN held[r] \in Buckets
                                                ELSE held[r] = None
    /\ \A r \in Requests : \A ip \in IPs :
          pc[r] = "consume" /\ held[r] = buckets[ip] => ip = client[r]

\* A time that never runs back.
Elapsed == clock + skew

Sweeping == sweep \in {"next", "scan", "gap", "delete"}

Clocked ==
    /\ skew <= MaxSkew
    /\ \A b \in Buckets : /\ heap[b].lastRefill <= Elapsed
                          /\ heap[b].lastRefill <= heap[b].lastSeen + skew
    /\ Sweeping => cutoff <= Elapsed - IdleTimeout

\* With a clock that may be set back by more than the idle timeout this can fail:
\* a bucket that was just used looks older than the cutoff.
Stale ==
    Sweeping /\ MaxSkew < IdleTimeout =>
       \A b \in Buckets : heap[b].lastSeen < cutoff =>
                             heap[b].lastRefill <= Elapsed - IdleTimeout

IInv == TypeOK /\ Paired /\ Clocked /\ Stale

-----------------------------------------------------------------------------
(* Arithmetic of buckets.                                                   *)

\* What a bucket holds if it is refilled at time t.
LevelAt(b, t) ==
    IF t > b.lastRefill THEN Capped(b.tokens + (t - b.lastRefill) * Rate)
                        ELSE b.tokens

\* The constants as numbers.
LEMMA Constants ==
  /\ Full \in Nat /\ Full > 0 /\ Slack \in Nat
  /\ Rate \in Nat /\ Rate > 0 /\ Cost \in Nat /\ Cost > 0
  /\ IdleTimeout \in Nat /\ IdleTimeout > 0 /\ MaxSkew \in Nat
  /\ None \notin Buckets /\ None \notin IPs
<1>1. \A x, y \in Nat : x * y \in Nat
  OBVIOUS
<1>2. \A x, y \in Nat \ {0} : x * y > 0
  OBVIOUS
<1> QED  BY LimiterAssumption, <1>1, <1>2 DEF Full, Slack

\* What flows in grows with the time.
LEMMA Flow ==
  /\ \A x \in Nat : x * Rate \in Nat
  /\ \A x \in Int : (x + 1) * Rate = x * Rate + Rate
  /\ \A x, y \in Nat : x <= y => x * Rate <= y * Rate
  /\ \A x, y \in Nat : (x - y) * Rate = x * Rate - y * Rate
<1>1. \A x, y, c \in Nat : x <= y => x * c <= y * c
  <2> SUFFICES ASSUME NEW x \in Nat, NEW y \in Nat, NEW c \in Nat, x <= y
               PROVE  x * c <= y * c
    OBVIOUS
  <2>1. (y - x) * c >= 0
    OBVIOUS
  <2> QED  BY <2>1
<1> QED  BY <1>1, Constants

\* A bucket holds between nothing and Full.
LEMMA LevelType ==
  ASSUME NEW b \in BucketRecords, NEW t \in Nat
  PROVE  LevelAt(b, t) \in 0..Full
<1>1. CASE t > b.lastRefill
  <2> DEFINE d == t - b.lastRefill
  <2>1. d \in Nat
    BY <1>1 DEF BucketRecords
  <2>2. d * Rate \in Nat
    <3> HIDE DEF d
    <3> QED  BY <2>1, Flow
  <2> QED  BY <1>1, <2>2, Constants DEF BucketRecords, LevelAt, Capped
<1>2. CASE ~(t > b.lastRefill)
  BY <1>2 DEF BucketRecords, LevelAt
<1> QED  BY <1>1, <1>2

\* A tick of the clock fills a bucket, unless its last refill is still ahead.
LEMMA LevelTick ==
  ASSUME NEW b \in BucketRecords, NEW t \in Nat
  PROVE  \/ LevelAt(b, t + 1) = Capped(LevelAt(b, t) + Rate)
         \/ b.lastRefill > t /\ LevelAt(b, t + 1) = LevelAt(b, t)
<1>1. CASE b.lastRefill > t
  BY <1>1 DEF BucketRecords, LevelAt
<1>2. CASE t >= b.lastRefill
  <2> DEFINE d == t - b.lastRefill
  <2>0. d \in Nat
    BY <1>2 DEF BucketRecords
  <2>1. d * Rate \in Nat /\ (d + 1) * Rate = d * Rate + Rate
    <3> HIDE DEF d
    <3> QED  BY <2>0, Flow
  <2>2. LevelAt(b, t + 1) = Capped(b.tokens + (d + 1) * Rate)
    BY <1>2 DEF BucketRecords, LevelAt
  <2>3. LevelAt(b, t) = Capped(b.tokens + d * Rate)
    <3>1. CASE d = 0
      BY <3>1, <1>2, Constants DEF BucketRecords, LevelAt, Capped
    <3>2. CASE d # 0
      BY <3>2, <1>2 DEF BucketRecords, LevelAt
    <3> QED  BY <3>1, <3>2
  <2> HIDE DEF d
  <2> QED  BY <2>0, <2>1, <2>2, <2>3, Constants DEF BucketRecords, Capped
<1> QED  BY <1>1, <1>2 DEF BucketRecords

\* Setting the clock back by one takes at most Rate from a bucket.
LEMMA LevelSetBack ==
  ASSUME NEW b \in BucketRecords, NEW t \in Nat
  PROVE  /\ LevelAt(b, t) <= LevelAt(b, t + 1)
         /\ LevelAt(b, t + 1) <= LevelAt(b, t) + Rate
BY LevelTick, LevelType, Constants DEF Capped

\* consume's refill makes the level explicit.
LEMMA RefillType ==
  ASSUME TypeOK, NEW b \in BucketRecords
  PROVE  /\ Refilled(b) \in BucketRecords
         /\ Refilled(b).tokens = LevelAt(b, clock)
         /\ Refilled(b).lastSeen = b.lastSeen
         /\ Refilled(b).lastRefill = IF clock > b.lastRefill THEN clock ELSE b.lastRefill
<1>1. LevelAt(b, clock) \in 0..Full
  BY LevelType DEF TypeOK
<1> QED  BY <1>1 DEF TypeOK, BucketRecords, Refilled, LevelAt

\* A bucket that was last refilled the idle timeout ago is full again, but for
\* what the clock hides.
LEMMA LevelOfSilent ==
  ASSUME IdleTimeout * Rate >= Full,
         NEW b \in BucketRecords, NEW t \in Nat,
         MaxSkew < IdleTimeout => b.lastRefill <= t + MaxSkew - IdleTimeout
  PROVE  LevelAt(b, t) >= Full - Slack
<1>1. Slack = MaxSkew * Rate
  BY Constants DEF Slack
<1>2. CASE IdleTimeout <= MaxSkew
  <2>1. IdleTimeout * Rate <= MaxSkew * Rate
    BY <1>2, Flow, Constants
  <2> QED  BY <1>1, <2>1, Constants, LevelType
<1>3. CASE MaxSkew < IdleTimeout
  <2>1. t > b.lastRefill /\ IdleTimeout - MaxSkew <= t - b.lastRefill
    BY <1>3, Constants DEF BucketRecords
  <2>2. (IdleTimeout - MaxSkew) * Rate <= (t - b.lastRefill) * Rate
    BY <1>3, <2>1, Flow, Constants DEF BucketRecords
  <2>3. (IdleTimeout - MaxSkew) * Rate = IdleTimeout * Rate - MaxSkew * Rate
    BY Flow, Constants
  <2>4. (t - b.lastRefill) * Rate >= Full - Slack
    BY <1>1, <2>2, <2>3, Flow, Constants, <2>1 DEF BucketRecords
  <2>5. (t - b.lastRefill) * Rate \in Nat
    BY <2>1, Flow DEF BucketRecords
  <2> HIDE DEF Slack
  <2> QED  BY <2>1, <2>4, <2>5, Constants DEF BucketRecords, LevelAt, Capped
<1> QED  BY <1>2, <1>3, Constants

-----------------------------------------------------------------------------
(* The invariants are inductive.                                            *)

\* What the runtime frees becomes garbage.
LEMMA CollectedType ==
  ASSUME NEW h \in [Buckets -> BucketRecords]
  PROVE  Collected(h) \in [Buckets -> BucketRecords]
BY Constants DEF Collected, Garbage, Bucket, BucketRecords

\* What consume leaves in a bucket is a bucket.
LEMMA ConsumedType ==
  ASSUME TypeOK, NEW b \in BucketRecords
  PROVE  LET a == Refilled(b) IN
         [a EXCEPT !.lastSeen = clock,
                   !.tokens = IF a.tokens >= Cost THEN @ - Cost ELSE @]
            \in BucketRecords
<1>1. Refilled(b) \in BucketRecords
  BY RefillType
<1>2. Refilled(b).tokens >= Cost => Refilled(b).tokens - Cost \in 0..Full
  BY <1>1, Constants DEF BucketRecords
<1> QED  BY <1>1, <1>2 DEF TypeOK, BucketRecords

\* Every action keeps the types of the variables.  That a call that creates a
\* bucket knows its address comes from Paired.
LEMMA TypeStep == TypeOK /\ Paired /\ [Next]_vars => TypeOK'
<1> SUFFICES ASSUME TypeOK, Paired, [Next]_vars
             PROVE  TypeOK'
  OBVIOUS
<1> USE DEF TypeOK, mapVars, callVars, gcVars
<1>u. CASE UNCHANGED vars
  BY <1>u DEF vars
<1>1. ASSUME NEW r \in Requests, NEW ip \in IPs, Lookup(r, ip) PROVE TypeOK'
  BY <1>1 DEF Lookup
<1>2. ASSUME NEW r \in Requests, GetOrCreate(r) PROVE TypeOK'
  <2>1. Bucket(Full, clock, clock) \in BucketRecords
    BY Constants DEF Bucket, BucketRecords
  <2>2. /\ pc' = [pc EXCEPT ![r] = "consume"]
        /\ UNCHANGED <<clock, skew, client, gcVars>>
    BY <1>2 DEF GetOrCreate
  <2>3. /\ buckets' \in [IPs -> Buckets \cup {None}]
        /\ heap' \in [Buckets -> BucketRecords]
        /\ held' \in [Requests -> Buckets \cup {None}]
    <3>1. CASE Tracked(client[r])
      <4>1. buckets[client[r]] \in Buckets \cup {None}
        BY <1>2 DEF GetOrCreate, Paired, Asking
      <4> QED  BY <1>2, <3>1, <4>1 DEF GetOrCreate, Tracked
    <3>2. CASE ~Tracked(client[r])
      BY <1>2, <2>1, <3>2 DEF GetOrCreate
    <3> QED  BY <3>1, <3>2
  <2> QED  BY <2>2, <2>3
<1>3. ASSUME NEW r \in Requests, Consume(r) PROVE TypeOK'
  <2>1. heap' \in [Buckets -> BucketRecords]
    <3>1. CASE held[r] \in Buckets
      BY <1>3, <3>1, ConsumedType, CollectedType DEF Consume
    <3>2. CASE held[r] \notin Buckets
      BY <1>3, <3>2, CollectedType DEF Consume
    <3> QED  BY <3>1, <3>2
  <2> QED  BY <1>3, <2>1 DEF Consume
<1>4. CASE StartSweep
  BY <1>4, Constants DEF StartSweep
<1>5. CASE LockShared
  BY <1>5 DEF LockShared, InShard
<1>6. ASSUME NEW ip \in IPs, Scan(ip) PROVE TypeOK'
  BY <1>6 DEF Scan
<1>7. CASE UnlockShared
  BY <1>7 DEF UnlockShared
<1>8. CASE LockExclusive
  BY <1>8 DEF LockExclusive
<1>9. ASSUME NEW ip \in IPs, Evict(ip) PROVE TypeOK'
  BY <1>9, CollectedType DEF Evict
<1>10. CASE UnlockExclusive
  BY <1>10 DEF UnlockExclusive
<1>11. CASE EndSweep
  BY <1>11 DEF EndSweep
<1>12. CASE StopGC
  BY <1>12 DEF StopGC
<1>13. CASE Tick
  BY <1>13 DEF Tick
<1>14. CASE SetBack
  BY <1>14 DEF SetBack
<1> QED
  BY <1>u, <1>1, <1>2, <1>3, <1>4, <1>5, <1>6, <1>7, <1>8, <1>9, <1>10, <1>11,
     <1>12, <1>13, <1>14 DEF Next, Sweep, Allow

\* A bucket stays with one address, in the maps and in the calls: one that is
\* taken from the heap is new to everybody.
LEMMA PairedStep == TypeOK /\ Paired /\ [Next]_vars => Paired'
<1> SUFFICES ASSUME TypeOK, Paired, [Next]_vars
             PROVE  Paired'
  OBVIOUS
<1> USE Constants DEF TypeOK, Paired, Asking, Tracked, mapVars, callVars, gcVars
<1>u. CASE UNCHANGED vars
  BY <1>u DEF vars
<1>1. ASSUME NEW r \in Requests, NEW ip \in IPs, Lookup(r, ip) PROVE Paired'
  BY <1>1 DEF Lookup
<1>2. ASSUME NEW r \in Requests, GetOrCreate(r) PROVE Paired'
  <2>1. client[r] \in IPs /\ pc[r] = "create"
    BY <1>2 DEF GetOrCreate
  <2>2. CASE Tracked(client[r])
    BY <1>2, <2>1, <2>2 DEF GetOrCreate
  <2>3. CASE ~Tracked(client[r])
    <3>1. PICK b \in Buckets \ Reachable :
             /\ buckets' = [buckets EXCEPT ![client[r]] = b]
             /\ held' = [held EXCEPT ![r] = b]
      BY <1>2, <2>3 DEF GetOrCreate
    <3>2. /\ \A ip \in IPs : buckets[ip] # b
          /\ \A q \in Requests : held[q] # b
      BY DEF Reachable
    <3>3. pc' = [pc EXCEPT ![r] = "consume"] /\ client' = client
      BY <1>2 DEF GetOrCreate
    <3> QED  BY <2>1, <3>1, <3>2, <3>3
  <2> QED  BY <2>2, <2>3
<1>3. ASSUME NEW r \in Requests, Consume(r) PROVE Paired'
  BY <1>3 DEF Consume
<1>4. CASE StartSweep
  BY <1>4 DEF StartSweep
<1>5. CASE LockShared
  BY <1>5 DEF LockShared
<1>6. ASSUME NEW ip \in IPs, Scan(ip) PROVE Paired'
  BY <1>6 DEF Scan
<1>7. CASE UnlockShared
  BY <1>7 DEF UnlockShared
<1>8. CASE LockExclusive
  BY <1>8 DEF LockExclusive
<1>9. ASSUME NEW ip \in IPs, Evict(ip) PROVE Paired'
  BY <1>9 DEF Evict
<1>10. CASE UnlockExclusive
  BY <1>10 DEF UnlockExclusive
<1>11. CASE EndSweep
  BY <1>11 DEF EndSweep
<1>12. CASE StopGC
  BY <1>12 DEF StopGC
<1>13. CASE Tick
  BY <1>13 DEF Tick
<1>14. CASE SetBack
  BY <1>14 DEF SetBack
<1> QED
  BY <1>u, <1>1, <1>2, <1>3, <1>4, <1>5, <1>6, <1>7, <1>8, <1>9, <1>10, <1>11,
     <1>12, <1>13, <1>14 DEF Next, Sweep, Allow

\* What the steps do to the clock and to the time stamps of one bucket: time that
\* has passed stays passed, and a bucket is left alone, freed, made or consumed.
LEMMA HeapStep ==
  ASSUME TypeOK, Paired, [Next]_vars
  PROVE  /\ skew <= skew' /\ Elapsed <= Elapsed'
         /\ skew <= MaxSkew => skew' <= MaxSkew
         /\ \A b \in Buckets :
              \/ heap'[b] = heap[b]
              \/ heap'[b] = Garbage
              \/ /\ UNCHANGED <<clock, skew, cutoff, sweep>>
                 /\ heap'[b].lastSeen = clock
                 /\ \/ heap'[b].lastRefill = clock
                    \/ heap'[b].lastRefill = heap[b].lastRefill
<1> USE Constants DEF TypeOK, Elapsed, mapVars, callVars, gcVars
<1>u. CASE UNCHANGED vars
  BY <1>u DEF vars
<1>1. ASSUME NEW r \in Requests, NEW ip \in IPs, Lookup(r, ip) PROVE UNCHANGED <<clock, skew, heap>>
  BY <1>1 DEF Lookup
<1>2. CASE \E r \in Requests : GetOrCreate(r)
  BY <1>2 DEF GetOrCreate, Bucket
<1>3. CASE \E r \in Requests : Consume(r)
  <2>1. PICK r \in Requests : Consume(r)
    BY <1>3
  <2> DEFINE a == Refilled(heap[held[r]])
             c == [a EXCEPT !.lastSeen = clock,
                            !.tokens = IF a.tokens >= Cost THEN @ - Cost ELSE @]
  <2>2. held[r] \in Buckets
    BY <2>1 DEF Consume, Paired
  <2>3. /\ a \in BucketRecords
        /\ a.lastRefill = clock \/ a.lastRefill = heap[held[r]].lastRefill
    BY <2>2, RefillType
  <2>4. c.lastSeen = clock /\ c.lastRefill = a.lastRefill
    BY <2>3 DEF BucketRecords
  <2>5. heap' = Collected([heap EXCEPT ![held[r]] = c])
    BY <2>1 DEF Consume
  <2>6. UNCHANGED <<clock, skew, cutoff, sweep>>
    BY <2>1 DEF Consume
  <2> HIDE DEF a, c
  <2>7. \A b \in Buckets : heap'[b] \in {heap[b], Garbage} \/ (b = held[r] /\ heap'[b] = c)
    BY <2>2, <2>5 DEF Collected
  <2> QED  BY <2>3, <2>4, <2>6, <2>7
<1>4. ASSUME NEW ip \in IPs, Evict(ip) PROVE UNCHANGED <<clock, skew>> /\ heap' = Collected(heap)
  BY <1>4 DEF Evict
<1>5. CASE Sweep \/ StopGC
  <2>1. CASE StopGC \/ \E ip \in IPs : Scan(ip)
    BY <2>1 DEF StopGC, Scan
  <2>2. CASE StartSweep \/ LockShared \/ UnlockShared \/ LockExclusive
             \/ UnlockExclusive \/ EndSweep
    BY <2>2 DEF StartSweep, LockShared, UnlockShared, LockExclusive,
                UnlockExclusive, EndSweep
  <2>3. CASE \E ip \in IPs : Evict(ip)
    BY <1>4, <2>3 DEF Collected
  <2> QED  BY <1>5, <2>1, <2>2, <2>3 DEF Sweep
<1>6. CASE Tick \/ SetBack
  BY <1>6 DEF Tick, SetBack
<1> QED
  BY <1>u, <1>1, <1>2, <1>3, <1>5, <1>6 DEF Next, Allow

\* The cutoff is set when a sweep starts and stays.
LEMMA CutoffStep ==
  ASSUME TypeOK, [Next]_vars, Sweeping'
  PROVE  \/ Sweeping /\ cutoff' = cutoff
         \/ cutoff' = clock - IdleTimeout /\ UNCHANGED <<clock, skew, heap>>
<1> USE DEF Sweeping, mapVars, callVars, gcVars
<1>u. CASE UNCHANGED vars
  BY <1>u DEF vars
<1>1. CASE \E r \in Requests : Allow(r) \/ \E ip \in IPs : Lookup(r, ip)
  BY <1>1 DEF Allow, Lookup, GetOrCreate, Consume
<1>2. CASE Tick \/ SetBack \/ StopGC
  BY <1>2 DEF Tick, SetBack, StopGC
<1>3. CASE Sweep
  BY <1>3 DEF Sweep, StartSweep, LockShared, UnlockShared, LockExclusive,
              UnlockExclusive, EndSweep, Scan, Evict
<1> QED  BY <1>u, <1>1, <1>2, <1>3 DEF Next

\* No time stamp gets ahead of the time that has passed.
LEMMA ClockedStep == TypeOK /\ Paired /\ Clocked /\ [Next]_vars => Clocked'
<1> SUFFICES ASSUME TypeOK, Paired, Clocked, [Next]_vars
             PROVE  Clocked'
  OBVIOUS
<1>0. TypeOK'
  BY TypeStep
<1>1. skew <= skew' /\ Elapsed <= Elapsed' /\ skew' <= MaxSkew
  BY HeapStep DEF Clocked
<1>n. clock \in Nat /\ skew \in Nat /\ clock' \in Nat /\ skew' \in Nat
  BY <1>0 DEF TypeOK
<1>2. ASSUME NEW b \in Buckets
      PROVE  /\ heap'[b].lastRefill <= Elapsed'
             /\ heap'[b].lastRefill <= heap'[b].lastSeen + skew'
  <2>0. heap[b].lastRefill \in Nat /\ heap[b].lastSeen \in Nat
    BY DEF TypeOK, BucketRecords
  <2>e. skew <= skew' /\ clock + skew <= clock' + skew'
    BY <1>1 DEF Elapsed
  <2> USE <1>n, <2>0 DEF Elapsed
  <2>1. CASE heap'[b] = heap[b]
    <3>1. heap[b].lastRefill <= Elapsed /\ heap[b].lastRefill <= heap[b].lastSeen + skew
      BY DEF Clocked
    <3>2. heap[b].lastRefill <= clock' + skew'
      BY <2>e, <3>1
    <3>3. heap[b].lastRefill <= heap[b].lastSeen + skew'
      BY <2>e, <3>1
    <3> QED  BY <2>1, <3>2, <3>3
  <2>2. CASE heap'[b] = Garbage
    <3>1. heap'[b].lastRefill = 0 /\ heap'[b].lastSeen = 0
      BY <2>2 DEF Garbage, Bucket
    <3> QED  BY <3>1
  <2>3. CASE /\ UNCHANGED <<clock, skew, cutoff, sweep>>
             /\ heap'[b].lastSeen = clock
             /\ \/ heap'[b].lastRefill = clock
                \/ heap'[b].lastRefill = heap[b].lastRefill
    BY <1>0, <1>1, <2>3 DEF Clocked
  <2> QED  BY <2>1, <2>2, <2>3, HeapStep
<1>3. Sweeping' => cutoff' <= Elapsed' - IdleTimeout
  <2> SUFFICES ASSUME Sweeping'
               PROVE  cutoff' <= Elapsed' - IdleTimeout
    OBVIOUS
  <2>0. cutoff \in Int
    BY DEF TypeOK
  <2>1. CASE Sweeping /\ cutoff' = cutoff
    BY <1>1, <1>n, <2>0, <2>1, Constants DEF Clocked, Elapsed
  <2>2. CASE cutoff' = clock - IdleTimeout /\ UNCHANGED <<clock, skew, heap>>
    BY <1>1, <1>n, <2>2, Constants DEF Elapsed
  <2> QED  BY <2>1, <2>2, CutoffStep
<1> QED  BY <1>1, <1>2, <1>3 DEF Clocked

\* A bucket that is used while a sweep is on is seen after the sweep's cutoff, if
\* the clock is never set back by the idle timeout.
LEMMA StaleStep == IInv /\ [Next]_vars => Stale'
<1> SUFFICES ASSUME IInv, [Next]_vars, Sweeping', MaxSkew < IdleTimeout,
                    NEW b \in Buckets, heap'[b].lastSeen < cutoff'
             PROVE  heap'[b].lastRefill <= Elapsed' - IdleTimeout
  BY DEF Stale
<1>0. TypeOK' /\ Clocked' /\ Elapsed <= Elapsed'
  BY TypeStep, ClockedStep, HeapStep DEF IInv
<1>n. /\ clock \in Nat /\ skew \in Nat /\ Elapsed \in Nat
      /\ heap[b].lastRefill \in Nat /\ heap[b].lastSeen \in Nat
      /\ skew <= MaxSkew /\ heap[b].lastRefill <= heap[b].lastSeen + skew
  BY DEF IInv, TypeOK, BucketRecords, Clocked, Elapsed
<1>q. PICK c \in Nat, s \in Nat, line \in Int : c = clock' /\ s = skew' /\ line = cutoff'
  BY <1>0 DEF TypeOK
<1>s. c + s \in Nat
  OBVIOUS
<1>p. PICK now \in Nat : now = Elapsed' /\ line <= now - IdleTimeout /\ Elapsed <= now
  BY <1>0, <1>q, <1>s DEF Clocked, Elapsed
<1>l. line <= now - IdleTimeout /\ Elapsed <= now
  BY <1>p
<1>1. CASE heap'[b] = Garbage
  <2>1. heap'[b].lastRefill = 0 /\ heap'[b].lastSeen = 0
    BY <1>1 DEF Garbage, Bucket
  <2>2. 0 < line
    BY <1>q, <2>1
  <2>3. 0 <= now - IdleTimeout
    BY <1>l, <2>2, Constants
  <2> QED  BY <1>p, <2>1, <2>3
<1>2. CASE cutoff' = clock - IdleTimeout /\ UNCHANGED <<clock, skew, heap>>
  BY <1>n, <1>q, <1>p, <1>2, Constants DEF Elapsed
<1>3. CASE Sweeping /\ cutoff' = cutoff
  <2>1. CASE heap'[b] = heap[b]
    <3>1. heap[b].lastRefill <= Elapsed - IdleTimeout
      BY <1>3, <2>1 DEF Stale, IInv
    <3> QED  BY <1>n, <1>p, <2>1, <3>1, Constants
  <2>2. CASE UNCHANGED <<clock, skew, cutoff, sweep>> /\ heap'[b].lastSeen = clock
    <3>1. now = clock + skew
      BY <1>p, <2>2 DEF Elapsed
    <3> QED  BY <1>n, <1>q, <1>p, <2>2, <3>1, Constants
  <2> QED  BY <1>1, <2>1, <2>2, HeapStep DEF IInv
<1> QED  BY <1>2, <1>3, CutoffStep DEF IInv

LEMMA LimiterInvariant == Spec => []IInv
<1>1. Init => IInv
  BY Constants DEF Init, IInv, TypeOK, Garbage, Bucket, BucketRecords, Paired,
                   Asking, Tracked, Clocked, Elapsed, Sweeping, Stale
<1>2. IInv /\ [Next]_vars => IInv'
  BY TypeStep, PairedStep, ClockedStep, StaleStep DEF IInv
<1> QED  BY <1>1, <1>2, PTL DEF Spec

-----------------------------------------------------------------------------
(* The theorems.                                                            *)

\* The state of the limiter has its type, whatever the clock does; in particular
\* a bucket never holds more than the burst and never less than nothing.
THEOREM LimiterTypeCorrect == Spec => []TypeOK
<1>1. IInv => TypeOK
  BY DEF IInv
<1> QED  BY <1>1, LimiterInvariant, PTL

\* The requests of one address share one bucket, however many race to create it.
THEOREM RacersShareBucket == Spec => OneBucketPerAddress
<1>1. IInv /\ [Next]_vars =>
         [\A r \in Requests :
             Detached(r)' => \/ Detached(r)
                             \/ pc[r] = "consume" /\ ~Tracked(client[r])']_vars
  <2> SUFFICES ASSUME IInv, Next, NEW r \in Requests, Detached(r)'
               PROVE  \/ Detached(r)
                      \/ pc[r] = "consume" /\ ~Tracked(client[r])'
    OBVIOUS
  <2> USE DEF Detached, Tracked, mapVars, callVars, gcVars
  <2>i. TypeOK /\ Paired
    BY DEF IInv
  <2>1. CASE \E ip \in IPs : Lookup(r, ip)
    BY <2>i, <2>1 DEF Lookup, TypeOK
  <2>2. CASE GetOrCreate(r)
    BY <2>i, <2>2, Constants DEF GetOrCreate, TypeOK, Paired, Asking
  <2>3. CASE Consume(r)
    BY <2>i, <2>3 DEF Consume, TypeOK
  <2>4. ASSUME NEW q \in Requests, q # r,
               Allow(q) \/ \E ip \in IPs : Lookup(q, ip)
        PROVE  \/ Detached(r)
               \/ pc[r] = "consume" /\ ~Tracked(client[r])'
    <3>1. pc'[r] = pc[r] /\ held'[r] = held[r] /\ client'[r] = client[r]
      BY <2>i, <2>4 DEF Allow, Lookup, GetOrCreate, Consume, TypeOK
    <3>2. pc[r] = "consume" /\ client[r] \in IPs /\ held[r] \in Buckets
      BY <2>i, <3>1 DEF Paired, Asking
    <3>3. CASE UNCHANGED buckets
      BY <3>1, <3>2, <3>3
    <3>4. CASE ~UNCHANGED buckets
      <4>1. GetOrCreate(q) /\ client[q] \in IPs
        BY <2>i, <2>4, <3>4 DEF Allow, Lookup, Consume, GetOrCreate, Paired, Asking
      <4>2. PICK b \in Buckets \ Reachable : buckets' = [buckets EXCEPT ![client[q]] = b]
        BY <3>4, <4>1 DEF GetOrCreate
      <4>3. held[r] # b
        BY DEF Reachable
      <4>4. CASE client[q] = client[r]
        BY <2>i, <3>2, <3>4, <4>1, <4>4, Constants DEF GetOrCreate
      <4>5. CASE client[q] # client[r]
        BY <2>i, <3>1, <3>2, <4>1, <4>2, <4>5 DEF TypeOK
      <4> QED  BY <4>4, <4>5
    <3> QED  BY <3>3, <3>4
  <2>5. CASE \E ip \in IPs : Evict(ip)
    <3>1. UNCHANGED <<pc, held, client>>
      BY <2>5 DEF Evict
    <3>2. PICK ip \in IPs : buckets' = buckets \/ buckets' = [buckets EXCEPT ![ip] = None]
      BY <2>5 DEF Evict
    <3>3. pc[r] = "consume" /\ client[r] \in IPs
      BY <2>i, <3>1 DEF Paired, Asking
    <3> QED  BY <2>i, <3>1, <3>2, <3>3 DEF TypeOK
  <2>6. CASE \/ StartSweep \/ LockShared \/ UnlockShared \/ LockExclusive
             \/ UnlockExclusive \/ EndSweep \/ StopGC \/ Tick \/ SetBack
             \/ \E ip \in IPs : Scan(ip)
    BY <2>6 DEF StartSweep, LockShared, UnlockShared, LockExclusive, UnlockExclusive,
                EndSweep, StopGC, Tick, SetBack, Scan
  <2> QED  BY <2>1, <2>2, <2>3, <2>4, <2>5, <2>6 DEF Next, Sweep, Allow
<1> QED  BY <1>1, LimiterInvariant, PTL DEF Spec, OneBucketPerAddress

\* Whoever was heard of within the idle timeout keeps its bucket.
THEOREM OnlySilentIsEvicted == Spec => EvictsOnlySilent
<1>1. IInv /\ [Next]_vars =>
         [\A ip \in IPs : Tracked(ip) /\ ~Tracked(ip)' =>
             heap[buckets[ip]].lastSeen < clock + skew - IdleTimeout]_vars
  <2> SUFFICES ASSUME IInv, Next, NEW ip \in IPs, Tracked(ip), ~Tracked(ip)'
               PROVE  heap[buckets[ip]].lastSeen < clock + skew - IdleTimeout
    OBVIOUS
  <2> USE DEF Tracked, mapVars, callVars, gcVars
  <2>i. TypeOK /\ Paired /\ Clocked
    BY DEF IInv
  <2>1. CASE \E r \in Requests : Allow(r) \/ \E jp \in IPs : Lookup(r, jp)
    BY <2>i, <2>1, Constants DEF Allow, Lookup, GetOrCreate, Consume, TypeOK
  <2>2. CASE \/ StartSweep \/ LockShared \/ UnlockShared \/ LockExclusive
             \/ UnlockExclusive \/ EndSweep \/ StopGC \/ Tick \/ SetBack
             \/ \E jp \in IPs : Scan(jp)
    BY <2>2 DEF StartSweep, LockShared, UnlockShared, LockExclusive, UnlockExclusive,
                EndSweep, StopGC, Tick, SetBack, Scan
  <2>3. CASE \E jp \in IPs : Evict(jp)
    <3>1. Idle(ip) /\ Sweeping
      BY <2>i, <2>3 DEF Evict, Sweeping, TypeOK
    <3>2. cutoff <= clock + skew - IdleTimeout
      BY <2>i, <3>1, Constants DEF Clocked, Elapsed, TypeOK
    <3>3. heap[buckets[ip]].lastSeen \in Nat
      BY <2>i DEF TypeOK, BucketRecords
    <3> QED  BY <2>i, <3>1, <3>2, <3>3, Constants DEF Idle, TypeOK
  <2> QED  BY <2>1, <2>2, <2>3 DEF Next, Sweep
<1> QED  BY <1>1, LimiterInvariant, PTL DEF Spec, EvictsOnlySilent

-----------------------------------------------------------------------------
(* The refinement.                                                          *)

\* A bucket is full again within the idle timeout.  TokenBuckets needs it: a
\* bucket that is deleted before it is full comes back full.
RefillsWhileIdle == IdleTimeout * Rate >= Full

\* The mapping in terms of LevelAt.
LEMMA LevelIs ==
  ASSUME NEW ip \in IPs
  PROVE  Level(ip) = IF Tracked(ip) THEN LevelAt(heap[buckets[ip]], clock) ELSE Full
BY DEF Level, LevelAt

LEMMA LevelRange == TypeOK => \A ip \in IPs : Level(ip) \in 0..Full
BY LevelIs, LevelType, Constants DEF TypeOK, Tracked

\* The level of an address follows its bucket and the clock.
LEMMA LevelStays ==
  ASSUME NEW ip \in IPs, clock' = clock, buckets'[ip] = buckets[ip],
         Tracked(ip) => heap'[buckets[ip]] = heap[buckets[ip]]
  PROVE  Level(ip)' = Level(ip)
BY DEF Level, Tracked

\* What is in a map is not collected.
LEMMA CollectedKeeps ==
  ASSUME NEW h, NEW ip \in IPs, buckets'[ip] \in Buckets
  PROVE  Collected(h)[buckets'[ip]] = h[buckets'[ip]]
BY DEF Collected, Reachable

\* A step that the promise does not see.
LEMMA Unseen ==
  ASSUME \A ip \in IPs : Level(ip)' = Level(ip),
         \A r \in Requests : (pc'[r] \in {"create", "consume"} /\ Asking(r)) \/ pc'[r] = pc[r],
         client' = client,
         \A r \in Requests : Detached(r)' <=> Detached(r)
  PROVE  UNCHANGED Promise!vars
BY DEF Promise!vars, Asking

\* A tick fills the buckets.
LEMMA TickFills == IInv /\ Tick => Promise!Elapse
<1> SUFFICES ASSUME IInv, Tick
             PROVE  Promise!Elapse
  OBVIOUS
<1>0. TypeOK /\ Clocked /\ clock' = clock + 1 /\ UNCHANGED <<skew, mapVars, callVars>>
  BY DEF IInv, Tick
<1>t. clock \in Nat /\ skew \in Nat
  BY <1>0 DEF TypeOK
<1>1. ASSUME NEW ip \in IPs
      PROVE  /\ Level(ip)' \in 0..Full
             /\ \/ Level(ip)' = Capped(Level(ip) + Rate)
                \/ Slack > 0 /\ Level(ip)' = Level(ip)
  <2>1. Level(ip)' = IF Tracked(ip) THEN LevelAt(heap[buckets[ip]], clock + 1) ELSE Full
    BY <1>0 DEF Level, LevelAt, Tracked, mapVars
  <2>2. CASE ~Tracked(ip)
    BY <2>1, <2>2, LevelIs, Constants DEF Capped
  <2>3. CASE Tracked(ip)
    <3>1. buckets[ip] \in Buckets /\ heap[buckets[ip]] \in BucketRecords
      BY <1>0, <2>3 DEF TypeOK, Tracked
    <3>2. heap[buckets[ip]].lastRefill > clock => Slack > 0
      <4> SUFFICES ASSUME heap[buckets[ip]].lastRefill > clock
                   PROVE  Slack > 0
        OBVIOUS
      <4>1. heap[buckets[ip]].lastRefill <= clock + skew /\ skew <= MaxSkew
        BY <1>0, <3>1 DEF Clocked, Elapsed
      <4>2. MaxSkew \in Nat \ {0} /\ Rate \in Nat \ {0}
        BY <1>t, <3>1, <4>1, Constants DEF BucketRecords
      <4>3. \A x, y \in Nat \ {0} : x * y > 0
        OBVIOUS
      <4> QED  BY <4>2, <4>3 DEF Slack
    <3>3. Level(ip)' = LevelAt(heap[buckets[ip]], clock + 1)
      BY <2>1, <2>3
    <3>4. Level(ip) = LevelAt(heap[buckets[ip]], clock)
      BY <2>3, LevelIs
    <3> QED  BY <1>t, <3>1, <3>2, <3>3, <3>4, LevelTick, LevelType
  <2> QED  BY <2>2, <2>3
<1>2. UNCHANGED <<pc, client>> /\ \A r \in Requests : Detached(r)' <=> Detached(r)
  BY <1>0 DEF Detached, mapVars, callVars
<1> QED  BY <1>1, <1>2 DEF Promise!Elapse, Promise!Filled, Capped

\* A clock set back takes no more than Slack.
LEMMA SetBackHides == IInv /\ SetBack => Promise!SetBack
<1> SUFFICES ASSUME IInv, SetBack
             PROVE  Promise!SetBack
  OBVIOUS
<1>0. TypeOK /\ Clocked /\ clock > 0 /\ clock' = clock - 1 /\ skew < MaxSkew
      /\ UNCHANGED <<mapVars, callVars>>
  BY DEF IInv, SetBack
<1>t. clock - 1 \in Nat /\ (clock - 1) + 1 = clock /\ MaxSkew \in Nat \ {0}
  BY <1>0, Constants DEF TypeOK
<1>s. Slack >= Rate /\ Slack > 0
  <2>1. \A x, y \in Nat \ {0} : x * y >= x /\ x * y > 0
    <3> SUFFICES ASSUME NEW x \in Nat \ {0}, NEW y \in Nat \ {0}
                 PROVE  x * y >= x /\ x * y > 0
      OBVIOUS
    <3>1. x * (y - 1) >= 0 /\ x * y = x * (y - 1) + x
      OBVIOUS
    <3> QED  BY <3>1
  <2> QED  BY <1>t, <2>1, Constants DEF Slack
<1>1. ASSUME NEW ip \in IPs
      PROVE  /\ Level(ip)' \in 0..Full
             /\ Level(ip)' <= Level(ip) /\ Level(ip)' >= Level(ip) - Slack
  <2>1. Level(ip)' = IF Tracked(ip) THEN LevelAt(heap[buckets[ip]], clock - 1) ELSE Full
    BY <1>0 DEF Level, LevelAt, Tracked, mapVars
  <2>2. CASE ~Tracked(ip)
    BY <2>1, <2>2, LevelIs, Constants
  <2>3. CASE Tracked(ip)
    <3> DEFINE b == heap[buckets[ip]]
               x == LevelAt(b, clock - 1)
               y == LevelAt(b, clock)
    <3>1. b \in BucketRecords
      BY <1>0, <2>3 DEF TypeOK, Tracked
    <3>2. x \in 0..Full /\ y \in 0..Full /\ x <= y /\ y <= x + Rate
      BY <1>0, <1>t, <3>1, LevelType, LevelSetBack DEF TypeOK
    <3>3. Level(ip)' = x /\ Level(ip) = y
      BY <2>1, <2>3, LevelIs
    <3> HIDE DEF b, x, y
    <3> QED  BY <1>s, <3>2, <3>3, Constants
  <2> QED  BY <2>2, <2>3
<1>2. UNCHANGED <<pc, client>> /\ \A r \in Requests : Detached(r)' <=> Detached(r)
  BY <1>0 DEF Detached, mapVars, callVars
<1> QED  BY <1>s, <1>1, <1>2 DEF Promise!SetBack

\* A lookup asks.
LEMMA LookupAsks ==
  ASSUME IInv, NEW r \in Requests, NEW ip \in IPs, Lookup(r, ip)
  PROVE  Promise!Ask(r, ip)
<1>0. TypeOK
  BY DEF IInv
<1>1. /\ ~Asking(r) /\ UNCHANGED <<clock, buckets, heap>>
      /\ client' = [client EXCEPT ![r] = ip]
      /\ held' = [held EXCEPT ![r] = buckets[ip]]
      /\ pc' = [pc EXCEPT ![r] = IF Tracked(ip) THEN "consume" ELSE "create"]
  BY DEF Lookup, Asking, mapVars
<1>2. \A jp \in IPs : Level(jp)' = Level(jp)
  BY <1>1 DEF Level, Tracked
<1>3. \A q \in Requests : Detached(q)' <=> Detached(q)
  BY <1>0, <1>1 DEF Detached, Asking, TypeOK
<1>4. /\ pc[r] \in {"ready", "allowed", "refused"}
      /\ pc'[r] \in {"create", "consume"}
      /\ \A q \in Requests : q # r => pc'[q] = pc[q]
  BY <1>0, <1>1 DEF Asking, TypeOK
<1> QED
  BY <1>1, <1>2, <1>3, <1>4 DEF Promise!Ask, Promise!Asking

\* Creating a bucket, or finding that another call has, is nobody's business: the
\* new bucket is as full as the address was.
LEMMA CreateIsUnseen ==
  ASSUME IInv, NEW r \in Requests, GetOrCreate(r)
  PROVE  UNCHANGED Promise!vars
<1>0. TypeOK /\ Paired
  BY DEF IInv
<1> DEFINE ip == client[r]
<1>1. /\ ip \in IPs /\ pc[r] = "create"
      /\ pc' = [pc EXCEPT ![r] = "consume"] /\ UNCHANGED <<clock, client>>
  BY <1>0 DEF GetOrCreate, Paired, Asking
<1>2. \A q \in Requests : (pc'[q] \in {"create", "consume"} /\ Asking(q)) \/ pc'[q] = pc[q]
  BY <1>0, <1>1 DEF Asking, TypeOK
<1>3. CASE Tracked(ip)
  <2>1. held' = [held EXCEPT ![r] = buckets[ip]] /\ UNCHANGED <<buckets, heap>>
    BY <1>3 DEF GetOrCreate, mapVars
  <2>2. \A jp \in IPs : Level(jp)' = Level(jp)
    BY <1>1, <2>1, LevelStays
  <2>3. \A q \in Requests : Detached(q)' <=> Detached(q)
    BY <1>0, <1>1, <2>1 DEF Detached, TypeOK
  <2> QED  BY <1>1, <1>2, <2>2, <2>3, Unseen
<1>4. CASE ~Tracked(ip)
  <2>1. PICK b \in Buckets \ Reachable :
           /\ buckets' = [buckets EXCEPT ![ip] = b]
           /\ heap' = [heap EXCEPT ![b] = Bucket(Full, clock, clock)]
           /\ held' = [held EXCEPT ![r] = b]
    BY <1>4 DEF GetOrCreate
  <2>2. (\A jp \in IPs : buckets[jp] # b) /\ (\A q \in Requests : held[q] # b)
    BY DEF Reachable
  <2>3. ASSUME NEW jp \in IPs PROVE Level(jp)' = Level(jp)
    <3>1. CASE jp = ip
      <4>1. heap'[buckets'[ip]] = Bucket(Full, clock, clock) /\ Tracked(ip)'
        BY <1>0, <1>1, <2>1, Constants DEF TypeOK, Tracked
      <4>2. clock \in Nat
        BY <1>0 DEF TypeOK
      <4> QED  BY <1>1, <1>4, <3>1, <4>1, <4>2 DEF Level, Bucket
    <3>2. CASE jp # ip
      BY <1>0, <1>1, <2>1, <2>2, <3>2, LevelStays DEF TypeOK
    <3> QED  BY <3>1, <3>2
  <2>4. ASSUME NEW q \in Requests PROVE Detached(q)' <=> Detached(q)
    <3>1. CASE q = r
      BY <1>0, <1>1, <2>1, <3>1 DEF Detached, TypeOK
    <3>2. CASE q # r
      <4>1. pc'[q] = pc[q] /\ held'[q] = held[q] /\ client'[q] = client[q]
        BY <1>0, <1>1, <2>1, <3>2 DEF TypeOK
      <4>2. pc[q] = "consume" => client[q] \in IPs /\ held[q] \in Buckets
        BY <1>0 DEF Paired, Asking
      <4> QED  BY <1>0, <1>1, <1>4, <2>1, <2>2, <4>1, <4>2, Constants
                  DEF Detached, Tracked, TypeOK
    <3> QED  BY <3>1, <3>2
  <2> QED  BY <1>1, <1>2, <2>3, <2>4, Unseen
<1> QED  BY <1>3, <1>4

\* consume answers from the level of the address; a call whose bucket has been
\* deleted is answered from nowhere, and nobody else notices.
LEMMA ConsumeAnswers ==
  ASSUME IInv, NEW r \in Requests, Consume(r)
  PROVE  Promise!Allow(r) \/ Promise!Refuse(r) \/ Promise!AnswerExcused(r)
<1>0. TypeOK /\ Paired
  BY DEF IInv
<1>i. PICK ip \in IPs : ip = client[r]
  BY <1>0 DEF Consume, Paired, Asking
<1> DEFINE h == heap[held[r]]
           a == Refilled(h)
           allowed == a.tokens >= Cost
           told == IF allowed THEN "allowed" ELSE "refused"
           c == [a EXCEPT !.lastSeen = clock,
                          !.tokens = IF allowed THEN @ - Cost ELSE @]
<1>1. /\ pc[r] = "consume" /\ ip = client[r] /\ held[r] \in Buckets
      /\ pc' = [pc EXCEPT ![r] = told]
      /\ held' = [held EXCEPT ![r] = None] /\ client' = [client EXCEPT ![r] = None]
      /\ UNCHANGED <<clock, buckets>>
      /\ heap' = Collected([heap EXCEPT ![held[r]] = c])
  BY <1>0, <1>i DEF Consume, Paired, Asking
<1>2. /\ h \in BucketRecords /\ a \in BucketRecords /\ c \in BucketRecords
      /\ a.tokens = LevelAt(h, clock)
      /\ c.tokens = (IF allowed THEN a.tokens - Cost ELSE a.tokens)
      /\ LevelAt(c, clock) = c.tokens
  <2>1. h \in BucketRecords /\ clock \in Nat
    BY <1>0, <1>1 DEF TypeOK
  <2>2. /\ a \in BucketRecords /\ a.tokens = LevelAt(h, clock)
        /\ a.lastRefill >= clock
    BY <1>0, <2>1, RefillType DEF BucketRecords
  <2>3. c \in BucketRecords
    BY <1>0, <2>1, ConsumedType
  <2> HIDE DEF h, a
  <2>4. c.lastRefill = a.lastRefill /\ c.tokens = (IF allowed THEN a.tokens - Cost ELSE a.tokens)
    BY <2>2 DEF BucketRecords
  <2> HIDE DEF c, allowed
  <2>5. LevelAt(c, clock) = c.tokens
    BY <2>1, <2>2, <2>4 DEF LevelAt, BucketRecords
  <2> QED  BY <2>1, <2>2, <2>3, <2>4, <2>5
<1>t. /\ told \in {"allowed", "refused"}
      /\ allowed => told = "allowed"
      /\ ~allowed => told = "refused"
  OBVIOUS
<1> HIDE DEF h, a, c, allowed, told
<1>3. /\ ~Detached(r)'
      /\ \A q \in Requests : q # r => (Detached(q)' <=> Detached(q)) /\ pc'[q] = pc[q]
      /\ pc'[r] = told
  BY <1>0, <1>1, <1>t DEF Detached, TypeOK
<1>a. /\ allowed => Promise!Tell(r, "allowed")
      /\ ~allowed => Promise!Tell(r, "refused")
  BY <1>1, <1>3, <1>t DEF Promise!Tell
<1>b. Promise!Asking(r)
  BY <1>1 DEF Promise!Asking
<1>4. ASSUME NEW jp \in IPs, buckets[jp] # held[r]
      PROVE  Level(jp)' = Level(jp)
  <2>1. Tracked(jp) => heap'[buckets[jp]] = heap[buckets[jp]]
    <3> SUFFICES ASSUME Tracked(jp) PROVE heap'[buckets[jp]] = heap[buckets[jp]]
      OBVIOUS
    <3>1. buckets'[jp] \in Buckets /\ buckets'[jp] = buckets[jp]
      BY <1>0, <1>1 DEF TypeOK, Tracked
    <3> QED  BY <1>0, <1>1, <1>4, <3>1, CollectedKeeps DEF TypeOK
  <2> QED  BY <1>1, <2>1, LevelStays
<1>5. \A q \in Requests : pc[q] \in {"ready", "create", "consume", "allowed", "refused"}
  BY <1>0 DEF TypeOK
<1>6. CASE Detached(r)
  <2>1. \A jp \in IPs : buckets[jp] # held[r]
    BY <1>0, <1>1, <1>6 DEF Detached, Paired
  <2>2. \A jp \in IPs : Level(jp)' = Level(jp)
    BY <1>4, <2>1
  <2>4. {q \in Requests : Detached(q)'} = {q \in Requests : Detached(q)} \ {r}
    BY <1>3
  <2>5. Promise!AnswerExcused(r)
    BY <1>a, <1>b, <1>t, <1>6, <2>2, <2>4 DEF Promise!AnswerExcused
  <2> QED  BY <2>5
<1>7. CASE ~Detached(r)
  <2>1. buckets[ip] = held[r] /\ Tracked(ip)
    BY <1>1, <1>7, Constants DEF Detached, Tracked
  <2>2. \A jp \in IPs : jp # ip => Level(jp)' = Level(jp)
    BY <1>0, <1>1, <1>4, <2>1 DEF Paired
  <2>3. Level(ip) = a.tokens
    BY <1>1, <1>2, <2>1, LevelIs DEF h
  <2>4. Level(ip)' = c.tokens
    <3>1. heap'[held[r]] = c
      <4> DEFINE new == [heap EXCEPT ![held[r]] = c]
      <4>1. Collected(new)[buckets'[ip]] = new[buckets'[ip]]
        BY <1>1, <2>1, CollectedKeeps
      <4> QED  BY <1>0, <1>1, <2>1, <4>1 DEF TypeOK
    <3>2. Level(ip)' = LevelAt(heap'[held[r]], clock)
      BY <1>1, <2>1 DEF Level, LevelAt, Tracked
    <3> QED  BY <1>2, <3>1, <3>2
  <2>5. {q \in Requests : Detached(q)'} = {q \in Requests : Detached(q)}
    BY <1>3, <1>7
  <2>6. r \notin {q \in Requests : Detached(q)}
    BY <1>7
  <2>8. CASE allowed
    <3>1. Level(ip) >= Cost /\ Level(ip)' = Level(ip) - Cost
      BY <1>2, <2>3, <2>4, <2>8 DEF allowed
    <3>2. [jp \in IPs |-> Level(jp)'] = [[jp \in IPs |-> Level(jp)] EXCEPT ![ip] = @ - Cost]
      BY <1>1, <2>2, <3>1
    <3> QED  BY <1>1, <1>a, <1>b, <1>t, <2>5, <2>6, <2>8, <3>1, <3>2 DEF Promise!Allow
  <2>9. CASE ~allowed
    <3>1. Level(ip) < Cost /\ Level(ip)' = Level(ip)
      BY <1>2, <2>3, <2>4, <2>9, Constants DEF allowed, BucketRecords
    <3>2. [jp \in IPs |-> Level(jp)'] = [jp \in IPs |-> Level(jp)]
      BY <2>2, <3>1
    <3> QED  BY <1>1, <1>a, <1>b, <1>t, <2>5, <2>6, <2>9, <3>1, <3>2 DEF Promise!Refuse
  <2> QED  BY <2>8, <2>9
<1> QED  BY <1>6, <1>7

\* The bucket that is deleted was full, but for what the clock hides.
LEMMA EvictForgets ==
  ASSUME RefillsWhileIdle, IInv, NEW ip \in IPs, Evict(ip)
  PROVE  Promise!Forget(ip) \/ UNCHANGED Promise!vars
<1>0. TypeOK /\ Paired /\ Clocked /\ Stale
  BY DEF IInv
<1>1. /\ sweep = "delete" /\ UNCHANGED <<clock, pc, client, held>>
      /\ buckets' = (IF Idle(ip) THEN [buckets EXCEPT ![ip] = None] ELSE buckets)
      /\ heap' = Collected(heap)
  BY DEF Evict, callVars
<1>2. ASSUME NEW jp \in IPs, buckets'[jp] = buckets[jp]
      PROVE  Level(jp)' = Level(jp)
  <2>1. Tracked(jp) => heap'[buckets[jp]] = heap[buckets[jp]]
    BY <1>0, <1>1, <1>2, CollectedKeeps DEF TypeOK, Tracked
  <2> QED  BY <1>1, <1>2, <2>1, LevelStays
<1>3. CASE ~Idle(ip)
  <2>1. \A r \in Requests : Detached(r)' <=> Detached(r)
    BY <1>1, <1>3 DEF Detached
  <2> QED  BY <1>1, <1>2, <1>3, <2>1, Unseen
<1>4. CASE Idle(ip)
  <2>1. buckets' = [buckets EXCEPT ![ip] = None]
    BY <1>1, <1>4
  <2>2. Level(ip) >= Full - Slack
    <3> DEFINE b == heap[buckets[ip]]
    <3>1. b \in BucketRecords /\ Level(ip) = LevelAt(b, clock)
      BY <1>0, <1>4, LevelIs DEF TypeOK, Idle, Tracked
    <3>2. ASSUME MaxSkew < IdleTimeout
          PROVE  b.lastRefill <= clock + MaxSkew - IdleTimeout
      <4>1. buckets[ip] \in Buckets /\ b.lastSeen < cutoff
        BY <1>0, <1>4 DEF TypeOK, Idle, Tracked
      <4>2. b.lastRefill <= Elapsed - IdleTimeout
        BY <1>0, <1>1, <3>2, <4>1 DEF Stale, Sweeping
      <4>3. clock \in Nat /\ skew \in Nat /\ skew <= MaxSkew /\ b.lastRefill \in Nat
        BY <1>0, <3>1 DEF TypeOK, Clocked, BucketRecords
      <4> QED  BY <4>2, <4>3, Constants DEF Elapsed
    <3> HIDE DEF b
    <3>3. clock \in Nat
      BY <1>0 DEF TypeOK
    <3> QED  BY <3>1, <3>2, <3>3, LevelOfSilent DEF RefillsWhileIdle
  <2>3. Level(ip)' = Full
    BY <1>0, <2>1 DEF Level, Tracked, TypeOK
  <2>4. \A jp \in IPs : jp # ip => Level(jp)' = Level(jp)
    BY <1>0, <1>2, <2>1 DEF TypeOK
  <2>5. [jp \in IPs |-> Level(jp)'] = [[jp \in IPs |-> Level(jp)] EXCEPT ![ip] = Full]
    BY <2>3, <2>4
  <2> DEFINE S == {r \in Requests : pc[r] = "consume" /\ client[r] = ip /\ held[r] = buckets[ip]}
  <2>6. {r \in Requests : Detached(r)'} = {r \in Requests : Detached(r)} \cup S
    <3>1. ASSUME NEW r \in Requests PROVE Detached(r)' <=> Detached(r) \/ r \in S
      <4>1. CASE pc[r] = "consume"
        <5>1. client[r] \in IPs /\ held[r] \in Buckets
          BY <1>0, <4>1 DEF Paired, Asking
        <5> QED  BY <1>0, <1>1, <2>1, <4>1, <5>1, Constants DEF Detached, TypeOK
      <4>2. CASE pc[r] # "consume"
        BY <1>1, <4>2 DEF Detached
      <4> QED  BY <4>1, <4>2
    <3> QED  BY <3>1
  <2>7. S \in SUBSET {r \in Requests :
             [q \in Requests |-> IF pc[q] \in {"create", "consume"} THEN "asked"
                                                                   ELSE pc[q]][r] = "asked"
             /\ client[r] = ip}
    OBVIOUS
  <2> HIDE DEF S
  <2>8. Promise!Forget(ip)
    BY <1>1, <2>2, <2>5, <2>6, <2>7 DEF Promise!Forget, Promise!Asking
  <2> QED  BY <2>8
<1> QED  BY <1>3, <1>4

\* Every step is one of the promise, or not seen by it.
LEMMA PromiseStep ==
  RefillsWhileIdle /\ IInv /\ [Next]_vars => [Promise!Next]_(Promise!vars)
<1> SUFFICES ASSUME RefillsWhileIdle, IInv, [Next]_vars
             PROVE  Promise!Next \/ UNCHANGED Promise!vars
  OBVIOUS
<1>1. CASE Tick
  BY <1>1, TickFills DEF Promise!Next
<1>2. CASE SetBack
  BY <1>2, SetBackHides DEF Promise!Next
<1>3. CASE \E r \in Requests : \E ip \in IPs : Lookup(r, ip)
  BY <1>3, LookupAsks DEF Promise!Next
<1>4. CASE \E r \in Requests : GetOrCreate(r)
  BY <1>4, CreateIsUnseen
<1>5. CASE \E r \in Requests : Consume(r)
  BY <1>5, ConsumeAnswers DEF Promise!Next
<1>6. CASE \E ip \in IPs : Evict(ip)
  BY <1>6, EvictForgets DEF Promise!Next
<1>7. CASE UNCHANGED <<clock, buckets, heap, pc, client, held>>
  <2>1. \A ip \in IPs : Level(ip)' = Level(ip)
    BY <1>7, LevelStays
  <2>2. \A r \in Requests : Detached(r)' <=> Detached(r)
    BY <1>7 DEF Detached
  <2> QED  BY <1>7, <2>1, <2>2, Unseen
<1>8. CASE \/ StartSweep \/ LockShared \/ UnlockShared \/ LockExclusive
           \/ UnlockExclusive \/ EndSweep \/ StopGC \/ UNCHANGED vars
           \/ \E ip \in IPs : Scan(ip)
  <2>1. UNCHANGED <<clock, buckets, heap, pc, client, held>>
    BY <1>8 DEF StartSweep, LockShared, UnlockShared, LockExclusive, UnlockExclusive,
                EndSweep, StopGC, Scan, vars, mapVars, callVars
  <2> QED  BY <1>7, <2>1
<1> QED
  BY <1>1, <1>2, <1>3, <1>4, <1>5, <1>6, <1>8 DEF Next, Sweep, Allow

\* If a bucket fills within the idle timeout, the limiter gives every address the
\* tokens of one ideal bucket, no more and no fewer, up to the two provisos of
\* TokenBuckets: lazy refills, racing creations and the sweep do not show.
THEOREM LimiterRefinesBuckets ==
  ASSUME RefillsWhileIdle
  PROVE  Spec => RefinesTokenBuckets
<1>1. Init => Promise!Init
  <2> SUFFICES ASSUME Init PROVE Promise!Init
    OBVIOUS
  <2>1. \A ip \in IPs : Level(ip) = Full
    BY DEF Init, Level, Tracked
  <2>2. {r \in Requests : Detached(r)} = {}
    BY DEF Init, Detached
  <2>3. [r \in Requests |-> IF pc[r] \in {"create", "consume"} THEN "asked" ELSE pc[r]]
           = [r \in Requests |-> "ready"]
    BY DEF Init
  <2> QED  BY <2>1, <2>2, <2>3 DEF Init, Promise!Init
<1>2. IInv /\ [Next]_vars => [Promise!Next]_(Promise!vars)
  BY PromiseStep
<1> QED  BY <1>1, <1>2, LimiterInvariant, PTL DEF Spec, RefinesTokenBuckets, Promise!Spec
=============================================================================

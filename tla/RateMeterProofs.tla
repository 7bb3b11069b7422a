---------------------------- MODULE RateMeterProofs ----------------------------
(***************************************************************************)
(* The rate per address, for any number of addresses and calls, any rate,   *)
(* burst and shards, and for every window.                                  *)
(*                                                                         *)
(* WithinRate is not inductive: what the bucket still holds must be counted  *)
(* with what it has paid (Balanced).  That each step keeps the balance comes  *)
(* from what the refinement of TokenBuckets says of the step.                *)
(***************************************************************************)
EXTENDS RateMeter, RateLimiterProofs

\* Whoever is measured is an address.
USE WatchedAssumption

MeterType ==
    /\ opened \in Nat /\ opened <= clock + skew
    /\ granted \in [Watched -> Nat] /\ forgotten \in [Watched -> Nat]

\* What ip was paid and may still be paid has flowed in, or was there at first.
Balance(ip) ==
    Cost * granted[ip] + Level(ip)
       <= Full + Rate * (clock + skew - opened) + Slack * forgotten[ip]

Balanced == \A ip \in Watched : Balance(ip)

\* One more of anything costs one more time.
LEMMA OneMore ==
  /\ \A c, n \in Nat : c * n \in Nat /\ c * (n + 1) = c * n + c
  /\ \A c \in Nat : c * 0 = 0
OBVIOUS

LEMMA LevelRangeNext == TypeOK' => \A ip \in IPs : Level(ip)' \in 0..Full
BY LevelType, Constants DEF TypeOK, Tracked, Level, LevelAt

\* The balance is kept by a step that adds no more than flows in.
LEMMA Kept ==
  ASSUME TypeOK, TypeOK', MeterType, NEW ip \in Watched, Balance(ip),
         NEW p \in {0, 1}, NEW t \in {0, 1}, NEW d \in {0, 1},
         granted'[ip] = granted[ip] + p, forgotten'[ip] = forgotten[ip] + d,
         opened' = opened, clock' + skew' = clock + skew + t,
         Level(ip)' + Cost * p <= Level(ip) + Rate * t + Slack * d
  PROVE  Balance(ip)'
<1>1. PICK e \in Nat : e = clock + skew - opened
  BY DEF TypeOK, MeterType
<1>2. clock' + skew' - opened' = e + t
  <2>1. PICK c \in Nat, k \in Nat : c = clock' /\ k = skew'
    BY DEF TypeOK
  <2>2. clock \in Nat /\ skew \in Nat /\ opened \in Nat
    BY DEF TypeOK, MeterType
  <2>3. c + k = clock + skew + t
    BY <2>1
  <2>4. c + (k - opened) = e + t
    <3>1. \A a, b, o, x, y \in Nat : \A z \in {0, 1} :
             x + y = a + b + z => x + (y - o) = a + (b - o) + z
      OBVIOUS
    <3> QED  BY <1>1, <2>2, <2>3, <3>1
  <2> QED  BY <2>1, <2>4
<1>3. PICK g \in Nat, f \in Nat : g = granted[ip] /\ f = forgotten[ip]
  BY DEF MeterType
<1>4. PICK l \in Nat, m \in Nat : l = Level(ip) /\ m = Level(ip)'
  <2>1. Level(ip) \in 0..Full
    BY LevelRange
  <2>2. Level(ip)' \in 0..Full
    BY LevelRangeNext
  <2> QED  BY <2>1, <2>2, Constants
<1>5. Cost * g + l <= Full + Rate * e + Slack * f
  BY <1>1, <1>3, <1>4 DEF Balance
<1>6. /\ Cost * (g + p) = Cost * g + Cost * p
      /\ Rate * (e + t) = Rate * e + Rate * t
      /\ Slack * (f + d) = Slack * f + Slack * d
  <2>1. \A c, n \in Nat : \A x \in {0, 1} : c * (n + x) = c * n + c * x
    BY OneMore
  <2> QED  BY <2>1, Constants
<1>7. m + Cost * p <= l + Rate * t + Slack * d
  BY <1>4
<1>8. /\ Cost * g \in Nat /\ Cost * p \in Nat /\ Rate * e \in Nat /\ Rate * t \in Nat
      /\ Slack * f \in Nat /\ Slack * d \in Nat
  BY OneMore, Constants
<1>9. \A cg, cp, re, rt, sf, sd, ll, mm, F \in Nat :
         cg + ll <= F + re + sf /\ mm + cp <= ll + rt + sd =>
            (cg + cp) + mm <= F + (re + rt) + (sf + sd)
  OBVIOUS
<1>10. (Cost * g + Cost * p) + m <= Full + (Rate * e + Rate * t) + (Slack * f + Slack * d)
  BY <1>4, <1>5, <1>7, <1>8, <1>9, Constants
<1>11. Cost * (g + p) + m <= Full + Rate * (e + t) + Slack * (f + d)
  BY <1>6, <1>10
<1> QED  BY <1>2, <1>3, <1>4, <1>11 DEF Balance
\* The level of an address in the terms of TokenBuckets.
LEMMA MappedLevel ==
  \A ip \in IPs : [jp \in IPs |-> Level(jp)][ip] = Level(ip)
OBVIOUS

-----------------------------------------------------------------------------
(* What the meter sees of a step.                                           *)

\* The meter counts at most one of each.
LEMMA Counted ==
  ASSUME MeterType, Observe, NEW ip \in Watched
  PROVE  /\ granted' \in [Watched -> Nat] /\ forgotten' \in [Watched -> Nat] /\ opened' = opened
         /\ granted'[ip] = granted[ip] + (IF \E r \in Requests : Paid(r, ip) THEN 1 ELSE 0)
         /\ forgotten'[ip] = forgotten[ip] + (IF Forgets(ip) THEN 1 ELSE 0)
BY DEF MeterType, Observe

\* A step that pays nobody and takes no level up, but for time that passes and for
\* what a deletion may hide.
LEMMA NothingPaid ==
  ASSUME TypeOK, TypeOK', MeterType, Observe, NEW ip \in Watched, Balance(ip),
         \A r \in Requests : ~Paid(r, ip),
         NEW t \in {0, 1}, clock' + skew' = clock + skew + t,
         \/ Level(ip)' <= Level(ip) + Rate * t
         \/ Forgets(ip) /\ t = 0 /\ Level(ip)' <= Level(ip) + Slack
  PROVE  Balance(ip)'
<1> DEFINE d == IF Forgets(ip) THEN 1 ELSE 0
<1>1. /\ d \in {0, 1} /\ granted'[ip] = granted[ip] + 0 /\ forgotten'[ip] = forgotten[ip] + d
      /\ opened' = opened
  BY Counted DEF MeterType
<1>2. Level(ip)' + Cost * 0 <= Level(ip) + Rate * t + Slack * d
  <2>1. PICK l \in Nat, m \in Nat : l = Level(ip) /\ m = Level(ip)'
    BY LevelRange, LevelRangeNext, Constants
  <2>2. Rate * t \in {0, Rate} /\ Slack * d \in {0, Slack} /\ Cost * 0 = 0
        /\ (t = 0 => Rate * t = 0) /\ (Forgets(ip) => Slack * d = Slack)
    BY Constants
  <2> HIDE DEF d
  <2> QED  BY <2>1, <2>2, Constants
<1> HIDE DEF d
<1> QED  BY <1>1, <1>2, Kept

\* Only a call that was consuming, and is told so, has been paid for.
LEMMA OnlyConsumePays ==
  ASSUME TypeOK, NEW r \in Requests, NEW ip \in IPs, Paid(r, ip)
  PROVE  ~UNCHANGED pc
BY DEF Paid

-----------------------------------------------------------------------------
(* The steps.                                                               *)

LEMMA MeterTypeStep ==
  ASSUME TypeOK, Clocked, TypeOK', Clocked', MeterType, [Next]_vars, Observe
  PROVE  MeterType'
<1>1. clock + skew <= clock' + skew'
  <2>1. CASE Tick
    BY <2>1 DEF Tick, TypeOK
  <2>2. CASE SetBack
    BY <2>2 DEF SetBack, TypeOK
  <2>3. CASE UNCHANGED <<clock, skew>>
    BY <2>3 DEF TypeOK
  <2>4. Tick \/ SetBack \/ UNCHANGED <<clock, skew>>
    BY DEF Next, vars, Sweep, Allow, StartSweep, LockShared, UnlockShared, LockExclusive,
           UnlockExclusive, EndSweep, StopGC, Scan, Evict, Lookup, GetOrCreate, Consume
  <2> QED  BY <2>1, <2>2, <2>3, <2>4
<1>2. opened' \in Nat /\ granted' \in [Watched -> Nat] /\ forgotten' \in [Watched -> Nat]
  BY DEF Observe, MeterType
<1>3. opened' <= clock' + skew'
  <2>1. PICK c \in Nat, k \in Nat : c = clock' /\ k = skew'
    BY DEF TypeOK
  <2>2. clock + skew <= c + k /\ opened <= clock + skew /\ opened' = opened
    BY <1>1, <2>1 DEF MeterType, Observe
  <2>3. clock \in Nat /\ skew \in Nat /\ opened \in Nat
    BY DEF TypeOK, MeterType
  <2>4. opened <= c + k
    BY <2>2, <2>3
  <2> QED  BY <2>1, <2>2, <2>4
<1> QED  BY <1>2, <1>3 DEF MeterType

LEMMA BalancedStep ==
  ASSUME RefillsWhileIdle, IInv, IInv', MeterType, Balanced, [Next]_vars, Observe
  PROVE  Balanced'
<1> SUFFICES ASSUME NEW ip \in Watched PROVE Balance(ip)'
  BY DEF Balanced
<1>i. TypeOK /\ TypeOK' /\ Paired /\ Clocked /\ Balance(ip)
  BY DEF IInv, Balanced
<1>t. clock \in Nat /\ skew \in Nat
  BY <1>i DEF TypeOK
<1>l. Level(ip) \in 0..Full /\ Level(ip)' \in 0..Full
  BY <1>i, LevelRange, LevelRangeNext
<1>s. ASSUME clock' = clock, skew' = skew,
             \A r \in Requests : ~Paid(r, ip),
             Level(ip)' <= Level(ip) \/ (Forgets(ip) /\ Level(ip)' <= Level(ip) + Slack)
      PROVE  Balance(ip)'
  <2>1. clock' + skew' = clock + skew + 0 /\ Rate * 0 = 0
    BY <1>t, <1>s, Constants
  <2>2. Level(ip)' <= Level(ip) => Level(ip)' <= Level(ip) + Rate * 0
    <3>1. PICK l \in Nat, m \in Nat : l = Level(ip) /\ m = Level(ip)'
      BY <1>l, Constants
    <3> QED  BY <2>1, <3>1
  <2> QED  BY <1>i, <1>s, <2>1, <2>2, NothingPaid
<1>u. ASSUME UNCHANGED <<clock, skew, buckets, heap>>, \A r \in Requests : ~Paid(r, ip)
      PROVE  Balance(ip)'
  <2>1. Level(ip)' = Level(ip)
    BY <1>u, LevelStays
  <2>2. Level(ip)' <= Level(ip)
    <3>1. PICK l \in Nat : l = Level(ip)
      BY <1>l, Constants
    <3> QED  BY <2>1, <3>1
  <2> QED  BY <1>s, <1>u, <2>2
<1>1. CASE Tick
  <2>1. UNCHANGED pc /\ skew' = skew /\ clock' = clock + 1
    BY <1>1 DEF Tick, callVars
  <2>2. Level(ip)' = Capped(Level(ip) + Rate) \/ Level(ip)' = Level(ip)
    <3>1. Promise!Elapse
      BY <1>1, TickFills
    <3> QED  BY <3>1 DEF Promise!Elapse, Promise!Filled, Capped
  <2>3. Level(ip)' <= Level(ip) + Rate * 1
    <3>1. PICK l \in Nat, m \in Nat : l = Level(ip) /\ m = Level(ip)'
      BY <1>l, Constants
    <3> QED  BY <2>2, <3>1, Constants DEF Capped
  <2>4. clock' + skew' = clock + skew + 1
    BY <1>t, <2>1
  <2> QED  BY <1>i, <2>1, <2>3, <2>4, NothingPaid, OnlyConsumePays
<1>2. CASE SetBack
  <2>1. UNCHANGED pc /\ skew' = skew + 1 /\ clock' = clock - 1
    BY <1>2 DEF SetBack, callVars
  <2>2. Level(ip)' <= Level(ip)
    BY <1>2, SetBackHides DEF Promise!SetBack
  <2>3. Level(ip)' <= Level(ip) + Rate * 0
    <3>1. PICK l \in Nat, m \in Nat : l = Level(ip) /\ m = Level(ip)'
      BY <1>l, Constants
    <3> QED  BY <2>2, <3>1, Constants
  <2>4. clock' + skew' = clock + skew + 0
    BY <1>t, <2>1
  <2> QED  BY <1>i, <2>1, <2>3, <2>4, NothingPaid, OnlyConsumePays
<1>3. CASE \E r \in Requests : \E jp \in IPs : Lookup(r, jp)
  <2>1. UNCHANGED <<clock, skew, buckets, heap>>
    BY <1>3 DEF Lookup, mapVars
  <2>2. \A r \in Requests : ~Paid(r, ip)
    BY <1>3, <1>i DEF Lookup, Paid, TypeOK
  <2> QED  BY <1>u, <2>1, <2>2
<1>4. CASE \E r \in Requests : GetOrCreate(r)
  <2>1. UNCHANGED <<clock, skew>>
    BY <1>4 DEF GetOrCreate
  <2>2. \A r \in Requests : ~Paid(r, ip)
    BY <1>4, <1>i DEF GetOrCreate, Paid, TypeOK
  <2>3. Level(ip)' = Level(ip)
    BY <1>4, CreateIsUnseen, MappedLevel DEF Promise!vars
  <2>4. Level(ip)' <= Level(ip)
    <3>1. PICK l \in Nat : l = Level(ip)
      BY <1>l, Constants
    <3> QED  BY <2>3, <3>1
  <2> QED  BY <1>s, <2>1, <2>2, <2>4
<1>5. ASSUME NEW r \in Requests, Consume(r) PROVE Balance(ip)'
  <2>1. /\ pc[r] = "consume" /\ UNCHANGED <<clock, skew>>
        /\ \A q \in Requests : q # r => pc'[q] = pc[q]
        /\ client[r] \in IPs
    BY <1>i, <1>5 DEF Consume, TypeOK, Paired, Asking
  <2>2. \A q \in Requests : q # r => ~Paid(q, ip)
    BY <2>1 DEF Paid
  <2>3. CASE Promise!Allow(r)
    <3>1. /\ ~Detached(r) /\ pc'[r] = "allowed"
      BY <2>1, <2>3, <1>i DEF Promise!Allow, Promise!Tell, TypeOK
    <3>2. Level(ip)' = IF ip = client[r] THEN Level(ip) - Cost ELSE Level(ip)
      BY <2>1, <2>3, MappedLevel DEF Promise!Allow
    <3>3. CASE ip = client[r]
      <4>1. Paid(r, ip)
        BY <2>1, <3>1, <3>3 DEF Paid, Detached
      <4>2. buckets' = buckets
        BY <1>5 DEF Consume
      <4>3. granted'[ip] = granted[ip] + 1 /\ forgotten'[ip] = forgotten[ip] + 0
            /\ opened' = opened
        BY <4>1, <4>2, Counted DEF Forgets, Tracked, MeterType
      <4>4. Level(ip)' + Cost * 1 <= Level(ip) + Rate * 0 + Slack * 0
        <5>1. PICK l \in Nat, m \in Nat : l = Level(ip) /\ m = Level(ip)'
          BY <1>l, Constants
        <5> QED  BY <3>2, <3>3, <5>1, Constants
      <4>5. clock' + skew' = clock + skew + 0
        BY <1>t, <2>1
      <4> QED  BY <1>i, <4>3, <4>4, <4>5, Kept
    <3>4. CASE ip # client[r]
      <4>1. \A q \in Requests : ~Paid(q, ip)
        BY <2>2, <3>4 DEF Paid
      <4>2. Level(ip)' <= Level(ip)
        <5>1. PICK l \in Nat : l = Level(ip)
          BY <1>l, Constants
        <5> QED  BY <3>2, <3>4, <5>1
      <4> QED  BY <1>s, <2>1, <4>1, <4>2
    <3> QED  BY <3>3, <3>4
  <2>4. CASE Promise!Refuse(r) \/ Promise!AnswerExcused(r)
    <3>1. Level(ip)' = Level(ip)
      BY <2>4, MappedLevel DEF Promise!Refuse, Promise!AnswerExcused
    <3>2. \A q \in Requests : ~Paid(q, ip)
      <4>1. CASE Promise!Refuse(r)
        <5>1. pc'[r] = "refused"
          BY <1>i, <2>1, <4>1 DEF Promise!Refuse, Promise!Tell, TypeOK
        <5> QED  BY <2>2, <5>1 DEF Paid
      <4>2. CASE Promise!AnswerExcused(r)
        <5>1. Detached(r)
          BY <4>2 DEF Promise!AnswerExcused
        <5> QED  BY <2>2, <5>1 DEF Paid, Detached
      <4> QED  BY <2>4, <4>1, <4>2
    <3>3. Level(ip)' <= Level(ip)
      <4>1. PICK l \in Nat : l = Level(ip)
        BY <1>l, Constants
      <4> QED  BY <3>1, <4>1
    <3> QED  BY <1>s, <2>1, <3>2, <3>3
  <2> QED  BY <1>5, <2>3, <2>4, ConsumeAnswers
<1>6. ASSUME NEW jp \in IPs, Evict(jp) PROVE Balance(ip)'
  <2>1. UNCHANGED <<clock, skew, pc>>
        /\ buckets' = (IF Idle(jp) THEN [buckets EXCEPT ![jp] = None] ELSE buckets)
        /\ heap' = Collected(heap)
    BY <1>6 DEF Evict, callVars
  <2>2. CASE buckets'[ip] = buckets[ip]
    <3>1. Tracked(ip) => heap'[buckets[ip]] = heap[buckets[ip]]
      BY <1>i, <2>1, <2>2, CollectedKeeps DEF TypeOK, Tracked
    <3>2. Level(ip)' = Level(ip)
      BY <2>1, <2>2, <3>1, LevelStays
    <3>3. Level(ip)' <= Level(ip)
      <4>1. PICK l \in Nat : l = Level(ip)
        BY <1>l, Constants
      <4> QED  BY <3>2, <4>1
    <3> QED  BY <1>i, <1>s, <2>1, <3>3, OnlyConsumePays
  <2>3. CASE buckets'[ip] # buckets[ip]
    <3>1. ip = jp /\ Forgets(ip)
      BY <1>i, <2>1, <2>3 DEF Forgets, Tracked, Idle, TypeOK
    <3>2. Level(ip)' <= Level(ip) + Slack
      <4>1. Promise!Forget(ip) \/ UNCHANGED Promise!vars
        BY <1>6, <3>1, EvictForgets
      <4>2. (Level(ip) >= Full - Slack /\ Level(ip)' = Full) \/ Level(ip)' = Level(ip)
        BY <4>1, MappedLevel DEF Promise!Forget, Promise!vars
      <4>3. PICK l \in Nat, m \in Nat : l = Level(ip) /\ m = Level(ip)'
        BY <1>l, Constants
      <4> QED  BY <4>2, <4>3, Constants
    <3> QED  BY <1>i, <1>s, <2>1, <3>1, <3>2, OnlyConsumePays
  <2> QED  BY <2>2, <2>3
<1>7. CASE \/ StartSweep \/ LockShared \/ UnlockShared \/ LockExclusive
           \/ UnlockExclusive \/ EndSweep \/ StopGC \/ UNCHANGED vars
           \/ \E jp \in IPs : Scan(jp)
  <2>1. UNCHANGED <<clock, skew, buckets, heap, pc>>
    BY <1>7 DEF StartSweep, LockShared, UnlockShared, LockExclusive, UnlockExclusive,
                EndSweep, StopGC, Scan, vars, mapVars, callVars
  <2> QED  BY <1>i, <1>u, <2>1, OnlyConsumePays
<1> QED  BY <1>1, <1>2, <1>3, <1>4, <1>5, <1>6, <1>7 DEF Next, Sweep, Allow

-----------------------------------------------------------------------------
(* The theorem.                                                             *)

\* The meter does not disturb the limiter.
LEMMA MeterObserves == MeterSpec => Spec
<1>1. MeterInit => Init
  BY DEF MeterInit
<1>2. [MeterNext]_<<vars, meterVars>> => [Next]_vars
  BY DEF MeterNext, OpenWindow
<1> QED  BY <1>1, <1>2, PTL DEF MeterSpec, Spec

\* In every window an address is allowed at most its burst and what has flowed in
\* since, for any rate at which a bucket fills within the idle timeout.
THEOREM RateHolds ==
  ASSUME RefillsWhileIdle
  PROVE  MeterSpec => []WithinRate
<1>1. MeterInit => MeterType /\ Balanced
  <2> SUFFICES ASSUME MeterInit PROVE MeterType /\ Balanced
    OBVIOUS
  <2>1. clock = 0 /\ skew = 0 /\ opened = 0
    BY DEF MeterInit, Init
  <2>2. MeterType
    BY <2>1 DEF MeterInit, MeterType
  <2>3. ASSUME NEW ip \in Watched PROVE Balance(ip)
    <3>1. Level(ip) = Full /\ granted[ip] = 0 /\ forgotten[ip] = 0
      BY DEF MeterInit, Init, Level, Tracked
    <3> QED  BY <2>1, <3>1, OneMore, Constants DEF Balance
  <2> QED  BY <2>2, <2>3 DEF Balanced
<1>2. IInv /\ IInv' /\ MeterType /\ Balanced /\ [MeterNext]_<<vars, meterVars>> =>
         MeterType' /\ Balanced'
  <2> SUFFICES ASSUME IInv, IInv', MeterType, Balanced, [MeterNext]_<<vars, meterVars>>
               PROVE  MeterType' /\ Balanced'
    OBVIOUS
  <2>1. CASE Next /\ Observe
    BY <2>1, MeterTypeStep, BalancedStep DEF IInv
  <2>2. CASE OpenWindow
    <3>1. clock \in Nat /\ skew \in Nat
      BY DEF IInv, TypeOK
    <3>2. UNCHANGED <<clock, skew>> /\ \A ip \in IPs : Level(ip)' = Level(ip)
      BY <2>2, LevelStays DEF OpenWindow, vars
    <3>3. MeterType'
      BY <2>2, <3>1, <3>2 DEF OpenWindow, MeterType
    <3>4. ASSUME NEW ip \in Watched PROVE Balance(ip)'
      <4>1. granted'[ip] = 0 /\ forgotten'[ip] = 0 /\ opened' = clock + skew
        BY <2>2 DEF OpenWindow
      <4>2. clock' + skew' - opened' = 0
        BY <3>1, <3>2, <4>1
      <4>3. Level(ip)' \in 0..Full
        BY <3>2, LevelRange DEF IInv
      <4> QED  BY <4>1, <4>2, <4>3, OneMore, Constants DEF Balance
    <3> QED  BY <3>3, <3>4 DEF Balanced
  <2>3. CASE UNCHANGED <<vars, meterVars>>
    <3>1. \A ip \in IPs : Level(ip)' = Level(ip)
      BY <2>3, LevelStays DEF vars
    <3> QED  BY <2>3, <3>1 DEF vars, meterVars, MeterType, Balanced, Balance
  <2> QED  BY <2>1, <2>2, <2>3 DEF MeterNext
<1>3. IInv /\ MeterType /\ Balanced => WithinRate
  <2> SUFFICES ASSUME IInv, MeterType, NEW ip \in Watched, Balance(ip)
               PROVE  Cost * granted[ip] <= Full + Rate * (clock + skew - opened)
                                                 + Slack * forgotten[ip]
    BY DEF Balanced, WithinRate
  <2>1. PICK l \in Nat : l = Level(ip)
    BY LevelRange, Constants DEF IInv
  <2>2. PICK e \in Nat, g \in Nat, f \in Nat :
           e = clock + skew - opened /\ g = granted[ip] /\ f = forgotten[ip]
    <3>1. clock + skew - opened \in Nat
      <4>1. clock \in Nat /\ skew \in Nat /\ opened \in Nat /\ opened <= clock + skew
        BY DEF IInv, TypeOK, MeterType
      <4> QED  BY <4>1
    <3>2. granted[ip] \in Nat /\ forgotten[ip] \in Nat
      BY DEF MeterType
    <3> QED  BY <3>1, <3>2
  <2>3. Cost * g \in Nat /\ Rate * e \in Nat /\ Slack * f \in Nat
    BY OneMore, Constants
  <2>4. Cost * g + l <= Full + Rate * e + Slack * f
    BY <2>1, <2>2 DEF Balance
  <2>5. Cost * g <= Full + Rate * e + Slack * f
    BY <2>3, <2>4, Constants
  <2> QED  BY <2>2, <2>5
<1> QED  BY <1>1, <1>2, <1>3, MeterObserves, LimiterInvariant, PTL DEF MeterSpec

=============================================================================

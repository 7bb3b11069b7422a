----------------------------- MODULE RateLimiter -----------------------------
(***************************************************************************)
(* The rate limiter (ratelimiter/token_bucket.go): one token bucket per     *)
(* client address in sharded maps, and a background sweep (runGC) that      *)
(* deletes the buckets of silent clients.                                   *)
(*                                                                         *)
(* A request looks its bucket up under the shard's lock and uses the        *)
(* pointer after the unlock, so the sweep can delete the bucket in between. *)
(* The model keeps that gap, the two phases of the sweep with the gap       *)
(* between them, and the one cutoff for all shards.  The map accesses under *)
(* one hold of a lock, and consume under the bucket's mutex, are one step.  *)
(*                                                                         *)
(* Time passes in ticks, tokens are counted in fractions: Rate fractions    *)
(* flow in per tick and a request costs Cost of them.                       *)
(***************************************************************************)
EXTENDS Integers, FiniteSets

CONSTANTS
    IPs,            \* client addresses
    Requests,       \* names of the calls of Allow that can be in progress at once
    Buckets,        \* bucket objects on the heap
    NumShards,      \* numShards
    ShardOf,        \* shardFor: the shard of an address
    Rate, Cost,     \* RateLimit is Rate/Cost tokens per tick
    BurstSize,      \* cfg.BurstSize
    IdleTimeout,    \* bucketIdleTimeout
    MaxClock,       \* bound: the clock stops here
    MaxSkew,        \* bound: how much the wall clock is set back in all
    None            \* the nil pointer

Full == BurstSize * Cost

\* config.validate refuses zero and negative rates and bursts.  MaxClock and
\* MaxSkew only bound the model, and the heap never runs out of buckets.
ASSUME LimiterAssumption ==
    /\ IsFiniteSet(IPs) /\ IsFiniteSet(Requests) /\ IsFiniteSet(Buckets)
    /\ Cardinality(Buckets) >= Cardinality(IPs) + Cardinality(Requests)
    /\ NumShards \in Nat \ {0}
    /\ ShardOf \in [IPs -> 1..NumShards]
    /\ Rate \in Nat \ {0} /\ Cost \in Nat \ {0} /\ BurstSize \in Nat \ {0}
    /\ IdleTimeout \in Nat \ {0} /\ MaxClock \in Nat /\ MaxSkew \in Nat
    /\ None \notin Buckets \cup IPs

VARIABLES
    clock,      \* time.Now().UnixNano(): the wall clock
    skew,       \* how much it has been set back so far
    buckets,    \* buckets[ip]: the bucket in the map of ip's shard, or None
    heap,       \* heap[b]: the fields of bucket b
    pc,         \* pc[r]: where call r of Allow is, or what it returned
    client,     \* client[r]: its argument, None when no call is in progress
    held,       \* held[r]: the local variable b, None before it is set
    sweep,      \* where runGC is
    shard,      \* the shard it is at
    cutoff,     \* its local variable cutoff
    left,       \* addresses the loop in progress has still to visit
    toEvict     \* its local variable toEvict

mapVars == <<buckets, heap>>
callVars == <<pc, client, held>>
gcVars == <<sweep, shard, cutoff, left, toEvict>>
vars == <<clock, skew, buckets, heap, pc, client, held, sweep, shard, cutoff,
          left, toEvict>>

-----------------------------------------------------------------------------
\* The sweep holds the shard's lock: for reading in phase 1, when lookups may
\* still go on, and for writing in phase 2.
ReadLocked(s) == sweep = "scan" /\ shard = s
WriteLocked(s) == sweep = "delete" /\ shard = s

Bucket(tokens, refill, seen) ==
    [tokens |-> tokens, lastRefill |-> refill, lastSeen |-> seen]

Garbage == Bucket(0, 0, 0)

\* The objects somebody can still reach.
Reachable == {buckets[ip] : ip \in IPs} \cup {held[r] : r \in Requests}

\* The language runtime frees what nobody can reach after the step.
Collected(h) == [b \in Buckets |-> IF b \in Reachable' THEN h[b] ELSE Garbage]

Tracked(ip) == buckets[ip] # None

InShard(s) == {ip \in IPs : ShardOf[ip] = s}

Init ==
    /\ clock = 0 /\ skew = 0
    /\ buckets = [ip \in IPs |-> None]
    /\ heap = [b \in Buckets |-> Garbage]
    /\ pc = [r \in Requests |-> "ready"]
    /\ client = [r \in Requests |-> None]
    /\ held = [r \in Requests |-> None]
    /\ sweep = "waiting" /\ shard = 0 /\ cutoff = 0
    /\ left = {} /\ toEvict = {}

-----------------------------------------------------------------------------
(* Allow.                                                                   *)

\* A call arrives and looks its address up under the read lock.
Lookup(r, ip) ==
    /\ pc[r] \notin {"create", "consume"}
    /\ ~WriteLocked(ShardOf[ip])
    /\ client' = [client EXCEPT ![r] = ip]
    /\ held' = [held EXCEPT ![r] = buckets[ip]]
    /\ pc' = [pc EXCEPT ![r] = IF Tracked(ip) THEN "consume" ELSE "create"]
    /\ UNCHANGED <<clock, skew, mapVars, gcVars>>

\* Faulty variant: no second lookup, the map entry is overwritten.
CreateUnchecked(r) ==
    LET ip == client[r] IN
    /\ pc[r] = "create"
    /\ ~ReadLocked(ShardOf[ip]) /\ ~WriteLocked(ShardOf[ip])
    /\ \E b \in Buckets \ Reachable :
          /\ buckets' = [buckets EXCEPT ![ip] = b]
          /\ heap' = [heap EXCEPT ![b] = Bucket(Full, clock, clock)]
          /\ held' = [held EXCEPT ![r] = b]
    /\ pc' = [pc EXCEPT ![r] = "consume"]
    /\ UNCHANGED <<clock, skew, client, gcVars>>

\* getOrCreate, under the write lock: another call may have been faster.
GetOrCreate(r) ==
    LET ip == client[r] IN
    /\ pc[r] = "create"
    /\ ~ReadLocked(ShardOf[ip]) /\ ~WriteLocked(ShardOf[ip])
    /\ \/ /\ Tracked(ip)
          /\ held' = [held EXCEPT ![r] = buckets[ip]]
          /\ UNCHANGED mapVars
       \/ /\ ~Tracked(ip)
          /\ \E b \in Buckets \ Reachable :
                /\ buckets' = [buckets EXCEPT ![ip] = b]
                /\ heap' = [heap EXCEPT ![b] = Bucket(Full, clock, clock)]
                /\ held' = [held EXCEPT ![r] = b]
    /\ pc' = [pc EXCEPT ![r] = "consume"]
    /\ UNCHANGED <<clock, skew, client, gcVars>>

\* Faulty variant: a silent client saves up tokens for ever.
Uncapped(tokens) == tokens

Capped(tokens) == IF tokens > Full THEN Full ELSE tokens

\* Faulty variant: no guard for a clock that was set back.
RefilledUnguarded(b) ==
    [b EXCEPT !.tokens = Capped(@ + (clock - b.lastRefill) * Rate),
              !.lastRefill = clock]

\* The lazy refill of consume.
Refilled(b) ==
    IF clock > b.lastRefill
      THEN [b EXCEPT !.tokens = Capped(@ + (clock - b.lastRefill) * Rate),
                     !.lastRefill = clock]
      ELSE b

\* Faulty variant: a request passes while any fraction of a token is left.
ConsumeFraction(r) ==
    LET b == Refilled(heap[held[r]])
        allowed == b.tokens > 0 IN
    /\ pc[r] = "consume"
    /\ pc' = [pc EXCEPT ![r] = IF allowed THEN "allowed" ELSE "refused"]
    /\ held' = [held EXCEPT ![r] = None]
    /\ client' = [client EXCEPT ![r] = None]
    /\ UNCHANGED <<clock, skew, buckets, gcVars>>
    /\ heap' = Collected([heap EXCEPT ![held[r]] =
                   [b EXCEPT !.lastSeen = clock,
                             !.tokens = IF allowed THEN @ - Cost ELSE @]])

\* consume: refill, mark as seen, take a token if there is one.
Consume(r) ==
    LET b == Refilled(heap[held[r]])
        allowed == b.tokens >= Cost IN
    /\ pc[r] = "consume"
    /\ pc' = [pc EXCEPT ![r] = IF allowed THEN "allowed" ELSE "refused"]
    /\ held' = [held EXCEPT ![r] = None]
    /\ client' = [client EXCEPT ![r] = None]
    /\ UNCHANGED <<clock, skew, buckets, gcVars>>
    /\ heap' = Collected([heap EXCEPT ![held[r]] =
                   [b EXCEPT !.lastSeen = clock,
                             !.tokens = IF allowed THEN @ - Cost ELSE @]])

-----------------------------------------------------------------------------
(* gcLoop and runGC.                                                        *)

\* Idle(ip): the bucket was last seen before the cutoff.
Idle(ip) == Tracked(ip) /\ heap[buckets[ip]].lastSeen < cutoff

\* The ticker fires; the cutoff is computed once for all shards.
StartSweep ==
    /\ sweep = "waiting"
    /\ sweep' = "next" /\ shard' = 1
    /\ cutoff' = clock - IdleTimeout
    /\ UNCHANGED <<clock, skew, mapVars, callVars, left, toEvict>>

\* Phase 1 takes the read lock; the map cannot change until it is released.
LockShared ==
    /\ sweep = "next" /\ shard <= NumShards
    /\ sweep' = "scan"
    /\ left' = {ip \in InShard(shard) : Tracked(ip)}
    /\ UNCHANGED <<clock, skew, mapVars, callVars, shard, cutoff, toEvict>>

\* Requests go on consuming while the sweep loads lastSeen.
Scan(ip) ==
    /\ sweep = "scan" /\ ip \in left
    /\ left' = left \ {ip}
    /\ toEvict' = IF Idle(ip) THEN toEvict \cup {ip} ELSE toEvict
    /\ UNCHANGED <<clock, skew, mapVars, callVars, sweep, shard, cutoff>>

\* Faulty variant: the first shard without candidates ends the sweep.
UnlockSharedReturns ==
    /\ sweep = "scan" /\ left = {}
    /\ IF toEvict = {} THEN sweep' = "waiting" /\ shard' = 0
                       ELSE sweep' = "gap" /\ UNCHANGED shard
    /\ UNCHANGED <<clock, skew, mapVars, callVars, cutoff, left, toEvict>>

\* Releases the read lock; without candidates the shard is done.
UnlockShared ==
    /\ sweep = "scan" /\ left = {}
    /\ IF toEvict = {} THEN sweep' = "next" /\ shard' = shard + 1
                       ELSE sweep' = "gap" /\ UNCHANGED shard
    /\ UNCHANGED <<clock, skew, mapVars, callVars, cutoff, left, toEvict>>

\* Phase 2 takes the write lock.
LockExclusive ==
    /\ sweep = "gap"
    /\ sweep' = "delete" /\ left' = toEvict
    /\ UNCHANGED <<clock, skew, mapVars, callVars, shard, cutoff, toEvict>>

\* Faulty variant: the candidate is deleted without a second look.
EvictUnchecked(ip) ==
    /\ sweep = "delete" /\ ip \in left
    /\ left' = left \ {ip}
    /\ buckets' = [buckets EXCEPT ![ip] = None]
    /\ UNCHANGED <<clock, skew, callVars, sweep, shard, cutoff, toEvict>>
    /\ heap' = Collected(heap)

\* Re-validates each candidate before deleting it.
Evict(ip) ==
    /\ sweep = "delete" /\ ip \in left
    /\ left' = left \ {ip}
    /\ buckets' = IF Idle(ip) THEN [buckets EXCEPT ![ip] = None] ELSE buckets
    /\ UNCHANGED <<clock, skew, callVars, sweep, shard, cutoff, toEvict>>
    /\ heap' = Collected(heap)

\* Releases the write lock and goes on to the next shard.
UnlockExclusive ==
    /\ sweep = "delete" /\ left = {}
    /\ sweep' = "next" /\ shard' = shard + 1 /\ toEvict' = {}
    /\ UNCHANGED <<clock, skew, mapVars, callVars, cutoff, left>>

EndSweep ==
    /\ sweep = "next" /\ shard > NumShards
    /\ sweep' = "waiting" /\ shard' = 0 /\ cutoff' = 0
    /\ UNCHANGED <<clock, skew, mapVars, callVars, left, toEvict>>

\* The root context is cancelled while gcLoop waits for its ticker.
StopGC ==
    /\ sweep = "waiting"
    /\ sweep' = "stopped"
    /\ UNCHANGED <<clock, skew, mapVars, callVars, shard, cutoff, left, toEvict>>

-----------------------------------------------------------------------------
Tick ==
    /\ clock < MaxClock
    /\ clock' = clock + 1
    /\ UNCHANGED <<skew, mapVars, callVars, gcVars>>

\* The operating system sets the wall clock back.
SetBack ==
    /\ clock > 0 /\ skew < MaxSkew
    /\ clock' = clock - 1 /\ skew' = skew + 1
    /\ UNCHANGED <<mapVars, callVars, gcVars>>

Sweep ==
    \/ StartSweep
    \/ LockShared
    \/ UnlockShared
    \/ LockExclusive
    \/ UnlockExclusive
    \/ EndSweep
    \/ \E ip \in IPs : Scan(ip) \/ Evict(ip)

Allow(r) == GetOrCreate(r) \/ Consume(r)

Next ==
    \/ Sweep
    \/ StopGC
    \/ Tick
    \/ SetBack
    \/ \E r \in Requests :
          \/ \E ip \in IPs : Lookup(r, ip)
          \/ Allow(r)

Spec == Init /\ [][Next]_vars

\* The ticker keeps firing and the scheduler runs the sweep; sync.RWMutex lets no
\* writer starve.
FairSpec == Spec /\ WF_vars(Sweep)

-----------------------------------------------------------------------------
(* Properties.                                                              *)

BucketRecords == [tokens : 0..Full, lastRefill : Nat, lastSeen : Nat]

TypeOK ==
    /\ clock \in Nat /\ skew \in Nat
    /\ buckets \in [IPs -> Buckets \cup {None}]
    /\ heap \in [Buckets -> BucketRecords]
    /\ pc \in [Requests -> {"ready", "create", "consume", "allowed", "refused"}]
    /\ client \in [Requests -> IPs \cup {None}]
    /\ held \in [Requests -> Buckets \cup {None}]
    /\ sweep \in {"waiting", "next", "scan", "gap", "delete", "stopped"}
    /\ shard \in Nat /\ cutoff \in Int
    /\ left \subseteq IPs /\ toEvict \subseteq IPs

\* r works on a bucket that is no longer the bucket of its address.
Detached(r) == pc[r] = "consume" /\ held[r] # buckets[client[r]]

\* The requests of one address are all served from one bucket, however they race
\* to create it: a request in progress loses the bucket of its address only when
\* the sweep deletes it, never to another bucket.
OneBucketPerAddress ==
    [][ \A r \in Requests :
          Detached(r)' => \/ Detached(r)
                          \/ pc[r] = "consume" /\ ~Tracked(client[r])' ]_vars

\* The fraction of a bucket that a clock set back MaxSkew in all can hide.
Slack == Rate * MaxSkew

\* What the bucket of ip would hold if it were refilled now; an address without
\* a bucket gets a full one.
Level(ip) ==
    IF Tracked(ip)
      THEN LET b == heap[buckets[ip]] IN
           IF clock > b.lastRefill
             THEN Capped(b.tokens + (clock - b.lastRefill) * Rate)
             ELSE b.tokens
      ELSE Full

\* The sweep never deletes the bucket of an address that was heard of within
\* the idle timeout, although it looks at lastSeen without the bucket's mutex,
\* decides in one phase and deletes in another, and uses an old cutoff.
EvictsOnlySilent ==
    [][ \A ip \in IPs :
          Tracked(ip) /\ ~Tracked(ip)' =>
             heap[buckets[ip]].lastSeen < clock + skew - IdleTimeout ]_vars

\* A silent bucket is deleted (or heard of again): memory follows the clients of
\* the last idle timeout and not all clients ever seen.
Silent(ip) == Tracked(ip) /\ heap[buckets[ip]].lastSeen < clock - IdleTimeout

SilentIsCollected ==
    \A ip \in IPs : Silent(ip) ~> ~Silent(ip) \/ sweep = "stopped"

-----------------------------------------------------------------------------
(* The promise of TokenBuckets, read off the state of the limiter.          *)

Promise == INSTANCE TokenBuckets
             WITH Nobody  <- None,
                  level   <- [ip \in IPs |-> Level(ip)],
                  answer  <- [r \in Requests |->
                                IF pc[r] \in {"create", "consume"} THEN "asked"
                                                                   ELSE pc[r]],
                  excused <- {r \in Requests : Detached(r)}

\* The limiter implements ideal token buckets: refilling lazily, creating buckets
\* on demand and deleting silent ones neither gives tokens away nor withholds
\* them, except from requests that were in progress when their bucket went.
RefinesTokenBuckets == Promise!Spec
=============================================================================

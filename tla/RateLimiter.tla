------------------------------ MODULE RateLimiter ------------------------------
(***************************************************************************)
(* The collector's token buckets, one per client address                   *)
(* (rate-limiter.ts).  They are refilled lazily from Date.now(), which an  *)
(* operator or NTP may set back or forward.  The Map of buckets remembers  *)
(* the order of insertion: each bucket knows the keys that were there when *)
(* it was inserted and still are.                                          *)
(*                                                                         *)
(* Tokens are counted in units, Cost of them to a request, so that what is *)
(* refilled in one tick of the clock is a whole number of units.           *)
(***************************************************************************)
EXTENDS Integers, FiniteSets

CONSTANTS
    Key,           \* client addresses
    Cost,          \* units in a token
    MaxTokens,     \* maxTokens, in units
    RefillRate,    \* refillRate, in units per tick
    MaxBuckets,    \* MAX_BUCKETS
    StaleAfter,    \* the 60 s after which a bucket may be evicted
    CleanupAfter,  \* twice cleanupIntervalMs
    MaxElapsed,    \* bound: ticks of time
    MaxStep,       \* bound: how far the clock may move at once, forward or back
    MaxForgotten   \* bound: how many buckets in use are lost

ASSUME LimiterConstants ==
    /\ Cost \in Nat \ {0} /\ MaxTokens \in Nat /\ MaxTokens >= Cost
    /\ RefillRate \in Nat /\ MaxBuckets \in Nat \ {0}
    /\ StaleAfter \in Nat /\ CleanupAfter \in Nat
    /\ MaxElapsed \in Nat /\ MaxStep \in Nat /\ MaxForgotten \in Nat

\* A bucket that may be evicted is one that would be full again:
\* 100 tokens at 100 per minute, 60 s (server.ts:65, rate-limiter.ts:57).
ASSUME StaleIsFull ==
    /\ StaleAfter * RefillRate >= MaxTokens
    /\ CleanupAfter >= StaleAfter

VARIABLES
    wall,       \* Date.now()
    buckets,    \* the buckets, a function on the keys that have one
    elapsed,    \* how far the clock has moved forward in all
    admitted,   \* history: how many requests of each key were let through
    forgotten   \* history: how often a key lost its bucket when none was stale

limiterVars == <<wall, buckets, elapsed, admitted, forgotten>>

Known == DOMAIN buckets

Bucket == [tokens: 0..MaxTokens, lastRefill: Int, older: SUBSET Key]

LimiterTypeOK ==
    /\ wall \in Int
    /\ Known \subseteq Key /\ buckets \in [Known -> Bucket]
    /\ elapsed \in Nat
    /\ admitted \in [Key -> Nat]
    /\ forgotten \in [Key -> Nat]

AtMost(a, b) == IF a <= b THEN a ELSE b
AtLeast(a, b) == IF a >= b THEN a ELSE b

Bounded(f) == \A k \in Key : f[k] <= MaxForgotten

Older(b, age) == b.lastRefill < wall - age
Stale == {k \in Known : Older(buckets[k], StaleAfter)}

\* The first of some keys, in the order of insertion.
FirstOf(keys) == {k \in keys : buckets[k].older \cap keys = {}}

\* A mutant of Evicted: the stale buckets are not looked for.
EvictedFirst(k) ==
    IF k \in Known \/ Cardinality(Known) < MaxBuckets THEN {} ELSE FirstOf(Known)

\* The bucket that makes room for that of k: the first stale one, or the first.
Evicted(k) ==
    IF k \in Known \/ Cardinality(Known) < MaxBuckets THEN {}
    ELSE IF Stale = {} THEN FirstOf(Known) ELSE FirstOf(Stale)

\* The buckets without those of some keys.
Without(keys) ==
    [k \in Known \ keys |-> [buckets[k] EXCEPT !.older = @ \ keys]]

\* The bucket of k, before it is refilled; a new one is full.
BucketOf(k, others) ==
    IF k \in Known THEN buckets[k]
    ELSE [tokens |-> MaxTokens, lastRefill |-> wall, older |-> others]

\* The tokens of b at the present time.
Refilled(b) == AtMost(MaxTokens, b.tokens + AtLeast(0, wall - b.lastRefill) * RefillRate)

\* consume(k): whether a token was there, and the bucket afterwards.
Consume(k, allowed) ==
    LET kept == Without(Evicted(k))
        b == BucketOf(k, DOMAIN kept)
        left == IF allowed THEN Refilled(b) - Cost ELSE Refilled(b)
    IN  /\ allowed <=> Refilled(b) >= Cost
        /\ buckets' = [j \in DOMAIN kept \cup {k} |->
                         IF j = k THEN [b EXCEPT !.tokens = left, !.lastRefill = wall]
                         ELSE kept[j]]
        /\ admitted' = [admitted EXCEPT ![k] = IF allowed THEN @ + 1 ELSE @]
        /\ forgotten' = [j \in Key |-> IF Stale = {} /\ j \in Evicted(k) THEN forgotten[j] + 1
                                       ELSE forgotten[j]]
        /\ Bounded(forgotten')
        /\ UNCHANGED <<wall, elapsed>>

\* The interval timer of startCleanup().
Cleanup ==
    /\ buckets' = Without({k \in Known : Older(buckets[k], CleanupAfter)})
    /\ UNCHANGED <<wall, elapsed, admitted, forgotten>>

\* destroy(): the timer and all buckets go.
Destroy ==
    /\ buckets' = Without(Known)
    /\ forgotten' = [k \in Key |-> IF k \in Known THEN forgotten[k] + 1 ELSE forgotten[k]]
    /\ Bounded(forgotten')
    /\ UNCHANGED <<wall, elapsed, admitted>>

\* Time passes, or the clock is set forward.
Tick ==
    /\ \E d \in 1..MaxStep : wall' = wall + d /\ elapsed' = elapsed + d
    /\ elapsed' <= MaxElapsed
    /\ UNCHANGED <<buckets, admitted, forgotten>>

\* The clock is set back.
SetBack ==
    /\ \E d \in 1..MaxStep : wall' = wall - d
    /\ wall' >= 0
    /\ UNCHANGED <<elapsed, buckets, admitted, forgotten>>

LimiterInit ==
    /\ wall = 0
    /\ buckets = [k \in {} |-> 0]
    /\ elapsed = 0
    /\ admitted = [k \in Key |-> 0]
    /\ forgotten = [k \in Key |-> 0]

LimiterNext ==
    \/ \E k \in Key, allowed \in BOOLEAN : Consume(k, allowed)
    \/ Cleanup \/ Destroy \/ Tick \/ SetBack

LimiterSpec == LimiterInit /\ [][LimiterNext]_limiterVars

-----------------------------------------------------------------------------
\* What a key could still spend at once.
Allowance(k) == IF k \in Known THEN Refilled(buckets[k]) ELSE MaxTokens

\* Whenever it is looked at, a key was let through at most a full bucket and what
\* was refilled as the clock moved forward (rate-limiter.ts: "100 requests per
\* minute per IP"), however often the clock is set back, and although stale
\* buckets are evicted and cleaned up; only a bucket evicted while in use starts
\* full again.
WithinRate ==
    \A k \in Key :
        admitted[k] * Cost + Allowance(k)
            <= MaxTokens * (1 + forgotten[k]) + RefillRate * elapsed
=============================================================================

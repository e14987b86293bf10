-------------------------- MODULE AdmissionProofs --------------------------
(***************************************************************************)
(* Proofs about modules RateLimiter and Admission, for any clients,        *)
(* limits, rates and connections and any movement of the clock.            *)
(***************************************************************************)
EXTENDS Admission, TLAPS

-----------------------------------------------------------------------------
(* The rate limiter.                                                       *)

LEMMA Multiply ==
    /\ \A a, b \in Int : (a + 1) * b = a * b + b
    /\ \A a, b \in Int : \A r \in Nat : a <= b => a * r <= b * r
    /\ \A a, b, r \in Int : (a + b) * r = a * r + b * r
    /\ \A a, b \in Nat : a * b \in Nat
    /\ \A a, b \in Int : a * b = b * a
OBVIOUS

\* A bucket at another time.
TokensAt(b, time) == AtMost(MaxTokens, b.tokens + AtLeast(0, time - b.lastRefill) * RefillRate)

LEMMA RefillType ==
    ASSUME NEW b \in Bucket, NEW time \in Int
    PROVE  TokensAt(b, time) \in 0..MaxTokens
<1>1. AtLeast(0, time - b.lastRefill) \in Nat
  BY DEF AtLeast, Bucket
<1>2. AtLeast(0, time - b.lastRefill) * RefillRate \in Nat
  BY <1>1, LimiterConstants, Multiply
<1> HIDE DEF AtLeast
<1> QED
  BY <1>2, LimiterConstants DEF TokensAt, AtMost, Bucket

\* A bucket gains what is refilled in the time, and loses nothing when the clock
\* goes back that it would not have again.
LEMMA RefillGrows ==
    ASSUME NEW b \in Bucket, NEW time \in Int, NEW d \in Nat
    PROVE  /\ TokensAt(b, time + d) <= TokensAt(b, time) + RefillRate * d
           /\ TokensAt(b, time - d) <= TokensAt(b, time)
<1> USE LimiterConstants
<1> DEFINE t(x) == AtLeast(0, x - b.lastRefill)
<1>1. /\ t(time) \in Nat /\ t(time + d) \in Nat /\ t(time - d) \in Nat
      /\ t(time + d) <= t(time) + d /\ t(time - d) <= t(time)
  BY DEF AtLeast, Bucket
<1>2. \A x \in {time, time + d, time - d} : TokensAt(b, x) = AtMost(MaxTokens, b.tokens + t(x) * RefillRate)
  BY DEF TokensAt
<1> HIDE DEF t
<1>3. /\ t(time + d) * RefillRate <= (t(time) + d) * RefillRate
      /\ t(time - d) * RefillRate <= t(time) * RefillRate
  BY <1>1, Multiply
<1>4. (t(time) + d) * RefillRate = t(time) * RefillRate + d * RefillRate /\ d * RefillRate = RefillRate * d
  BY <1>1, Multiply
<1>5. /\ t(time) * RefillRate \in Nat /\ t(time + d) * RefillRate \in Nat
      /\ t(time - d) * RefillRate \in Nat /\ RefillRate * d \in Nat
  BY <1>1, Multiply
<1>6. b.tokens \in Nat
  BY DEF Bucket
<1> QED
  BY <1>2, <1>3, <1>4, <1>5, <1>6 DEF AtMost

\* A bucket that is stale has been refilled.
LEMMA StaleIsRefilled ==
    ASSUME NEW b \in Bucket, NEW age \in Nat, wall \in Int, age >= StaleAfter, Older(b, age)
    PROVE  Refilled(b) = MaxTokens
<1> USE LimiterConstants
<1>1. /\ wall - b.lastRefill \in Nat /\ wall - b.lastRefill >= StaleAfter
      /\ AtLeast(0, wall - b.lastRefill) = wall - b.lastRefill
  BY DEF Older, Bucket, AtLeast
<1>2. (wall - b.lastRefill) * RefillRate >= StaleAfter * RefillRate
  BY <1>1, Multiply
<1>3. StaleAfter * RefillRate \in Nat /\ (wall - b.lastRefill) * RefillRate \in Nat
  BY <1>1, Multiply
<1>4. b.tokens \in Nat
  BY DEF Bucket
<1>5. b.tokens + (wall - b.lastRefill) * RefillRate >= MaxTokens
  BY <1>2, <1>3, <1>4, StaleIsFull
<1> QED
  BY <1>1, <1>5, <1>3, <1>4 DEF Refilled, AtMost

-----------------------------------------------------------------------------
\* What is left when some buckets go.
LEMMA WithoutType ==
    ASSUME LimiterTypeOK, NEW keys
    PROVE  /\ DOMAIN Without(keys) = Known \ keys
           /\ Without(keys) \in [Known \ keys -> Bucket]
           /\ \A k \in Known \ keys : /\ Without(keys)[k].tokens = buckets[k].tokens
                                      /\ Without(keys)[k].lastRefill = buckets[k].lastRefill
<1>1. ASSUME NEW k \in Known \ keys
      PROVE  /\ [buckets[k] EXCEPT !.older = @ \ keys] \in Bucket
             /\ [buckets[k] EXCEPT !.older = @ \ keys].tokens = buckets[k].tokens
             /\ [buckets[k] EXCEPT !.older = @ \ keys].lastRefill = buckets[k].lastRefill
  <2>1. buckets[k] \in Bucket
    BY DEF LimiterTypeOK
  <2> QED
    BY <2>1 DEF Bucket
<1> QED
  BY <1>1 DEF Without

\* The bucket that serves a request, and what it holds afterwards.
LEMMA BucketOfType ==
    ASSUME LimiterTypeOK, NEW k \in Key, NEW others \in SUBSET Key
    PROVE  /\ BucketOf(k, others) \in Bucket
           /\ Refilled(BucketOf(k, others)) = Allowance(k)
           /\ Allowance(k) \in 0..MaxTokens
<1> USE LimiterConstants
<1>1. BucketOf(k, others) \in Bucket
  <2>1. wall \in Int /\ (k \in Known => buckets[k] \in Bucket)
    BY DEF LimiterTypeOK
  <2> QED
    BY <2>1 DEF BucketOf, Bucket
<1>2. Refilled(BucketOf(k, others)) \in 0..MaxTokens
  BY <1>1, RefillType DEF Refilled, TokensAt, LimiterTypeOK
<1>3. CASE k \in Known
  <2>1. BucketOf(k, others) = buckets[k]
    BY <1>3 DEF BucketOf
  <2>2. Allowance(k) = Refilled(buckets[k])
    BY <1>3 DEF Allowance
  <2> QED
    BY <1>1, <1>2, <2>1, <2>2
<1>4. CASE k \notin Known
  <2>1. AtLeast(0, wall - wall) * RefillRate = 0
    <3>1. AtLeast(0, wall - wall) = 0
      BY DEF AtLeast, LimiterTypeOK
    <3> QED
      BY <3>1
  <2>2. BucketOf(k, others).tokens = MaxTokens /\ BucketOf(k, others).lastRefill = wall
    BY <1>4 DEF BucketOf
  <2>3. Refilled(BucketOf(k, others)) = MaxTokens
    BY <2>1, <2>2 DEF Refilled, AtMost
  <2>4. Allowance(k) = MaxTokens
    BY <1>4 DEF Allowance
  <2> QED
    BY <1>1, <1>2, <2>3, <2>4
<1> QED
  BY <1>1, <1>2, <1>3, <1>4

\* The buckets and the allowances after consume().
LEMMA Consumed ==
    ASSUME LimiterTypeOK, NEW k \in Key, NEW allowed \in BOOLEAN, Consume(k, allowed)
    PROVE  /\ LimiterTypeOK'
           /\ (Allowance(k))' = IF allowed THEN Allowance(k) - Cost ELSE Allowance(k)
           /\ \A j \in Key \ {k} : /\ j \in Evicted(k) => (Allowance(j))' = MaxTokens
                                   /\ j \notin Evicted(k) => (Allowance(j))' = Allowance(j)
           /\ Evicted(k) \subseteq Known \ {k}
<1> USE LimiterConstants
<1> DEFINE kept == Without(Evicted(k))
           b == BucketOf(k, DOMAIN kept)
           left == IF allowed THEN Refilled(b) - Cost ELSE Refilled(b)
           new == [b EXCEPT !.tokens = left, !.lastRefill = wall]
<1>1. /\ allowed <=> Refilled(b) >= Cost
      /\ buckets' = [j \in DOMAIN kept \cup {k} |-> IF j = k THEN new ELSE kept[j]]
      /\ admitted' = [admitted EXCEPT ![k] = IF allowed THEN @ + 1 ELSE @]
      /\ forgotten' = [j \in Key |-> IF Stale = {} /\ j \in Evicted(k) THEN forgotten[j] + 1
                                     ELSE forgotten[j]]
      /\ UNCHANGED <<wall, elapsed>>
  BY DEF Consume
<1>2. Evicted(k) \subseteq Known \ {k} /\ Known \subseteq Key /\ wall \in Int
  BY DEF Evicted, FirstOf, Stale, LimiterTypeOK
<1>3. /\ DOMAIN kept = Known \ Evicted(k) /\ kept \in [Known \ Evicted(k) -> Bucket]
      /\ \A j \in Known \ Evicted(k) : /\ kept[j].tokens = buckets[j].tokens
                                       /\ kept[j].lastRefill = buckets[j].lastRefill
  BY WithoutType
<1>4. b \in Bucket /\ Refilled(b) = Allowance(k) /\ Allowance(k) \in 0..MaxTokens
  BY <1>2, <1>3, BucketOfType
<1>5. left \in 0..MaxTokens
  BY <1>1, <1>4
<1> HIDE DEF kept, b, left
<1>6. new \in Bucket /\ new.tokens = left /\ new.lastRefill = wall
  BY <1>2, <1>4, <1>5 DEF Bucket
<1> HIDE DEF new
<1>7. /\ Known' = (Known \ Evicted(k)) \cup {k} /\ buckets'[k] = new
      /\ \A j \in (Known \ Evicted(k)) \ {k} : buckets'[j] = kept[j]
  BY <1>1, <1>3 DEF Known
<1>8. LimiterTypeOK'
  <2>1. buckets' \in [Known' -> Bucket] /\ Known' \subseteq Key
    BY <1>1, <1>2, <1>3, <1>6, <1>7
  <2>2. admitted' \in [Key -> Nat] /\ forgotten' \in [Key -> Nat]
    BY <1>1 DEF LimiterTypeOK
  <2> QED
    BY <1>1, <2>1, <2>2 DEF LimiterTypeOK
<1>9. (Allowance(k))' = left
  <2>1. k \in Known' /\ buckets'[k].tokens = left /\ buckets'[k].lastRefill = wall /\ wall' = wall
    BY <1>1, <1>6, <1>7
  <2>2. AtLeast(0, wall - wall) = 0
    BY <1>2 DEF AtLeast
  <2>3. (Allowance(k))' = AtMost(MaxTokens, left + 0 * RefillRate)
    BY <2>1, <2>2 DEF Allowance, Refilled
  <2>4. left + 0 * RefillRate = left
    BY <1>5
  <2> QED
    BY <1>5, <2>3, <2>4 DEF AtMost
<1>10. ASSUME NEW j \in Key \ {k}, j \in Evicted(k) PROVE (Allowance(j))' = MaxTokens
  BY <1>7, <1>10 DEF Allowance
<1>11. ASSUME NEW j \in Key \ {k}, j \notin Evicted(k) PROVE (Allowance(j))' = Allowance(j)
  <2>1. CASE j \in Known
    <3>1. j \in Known' /\ buckets'[j].tokens = buckets[j].tokens
          /\ buckets'[j].lastRefill = buckets[j].lastRefill
      BY <1>3, <1>7, <1>11, <2>1
    <3> QED
      BY <1>1, <2>1, <3>1 DEF Allowance, Refilled
  <2>2. CASE j \notin Known
    BY <1>7, <2>2 DEF Allowance
  <2> QED
    BY <2>1, <2>2
<1> QED
  BY <1>2, <1>4, <1>8, <1>9, <1>10, <1>11 DEF left

\* Stale buckets may go: they would be full.
LEMMA StaleAllowance ==
    ASSUME LimiterTypeOK, NEW k \in Known, NEW age \in Nat, age >= StaleAfter,
           Older(buckets[k], age)
    PROVE  Allowance(k) = MaxTokens
BY StaleIsRefilled DEF LimiterTypeOK, Allowance

LEMMA LimiterInitial == LimiterInit => LimiterTypeOK /\ WithinRate
<1> SUFFICES ASSUME LimiterInit PROVE LimiterTypeOK /\ WithinRate
  OBVIOUS
<1> USE LimiterConstants
<1>1. Known = {}
  BY DEF LimiterInit, Known
<1>2. LimiterTypeOK
  BY <1>1 DEF LimiterInit, LimiterTypeOK
<1>3. ASSUME NEW k \in Key
      PROVE  admitted[k] * Cost + Allowance(k) <= MaxTokens * (1 + forgotten[k]) + RefillRate * elapsed
  <2>1. admitted[k] = 0 /\ forgotten[k] = 0 /\ elapsed = 0 /\ Allowance(k) = MaxTokens
    BY <1>1 DEF LimiterInit, Allowance
  <2>2. 0 * Cost = 0 /\ MaxTokens * (1 + 0) = MaxTokens /\ RefillRate * 0 = 0
    OBVIOUS
  <2> QED
    BY <2>1, <2>2
<1> QED
  BY <1>2, <1>3 DEF WithinRate

\* Buckets that go when they are stale, or forgotten, leave the rate within its
\* bound.
LEMMA Emptied ==
    ASSUME LimiterTypeOK, WithinRate, NEW keys,
           buckets' = Without(keys), UNCHANGED <<wall, elapsed, admitted>>,
           forgotten' \in [Key -> Nat],
           \A k \in Key : forgotten'[k] >= forgotten[k],
           \A k \in Known \cap keys :
              Allowance(k) = MaxTokens \/ forgotten'[k] = forgotten[k] + 1
    PROVE  LimiterTypeOK' /\ WithinRate'
<1> USE LimiterConstants
<1>1. /\ Known' = Known \ keys /\ buckets' \in [Known' -> Bucket]
      /\ \A k \in Known \ keys : /\ buckets'[k].tokens = buckets[k].tokens
                                 /\ buckets'[k].lastRefill = buckets[k].lastRefill
  BY WithoutType DEF Known
<1>2. LimiterTypeOK'
  BY <1>1 DEF LimiterTypeOK
<1>3. ASSUME NEW k \in Key
      PROVE  admitted'[k] * Cost + (Allowance(k))'
                <= MaxTokens * (1 + forgotten'[k]) + RefillRate * elapsed'
  <2>1. admitted[k] * Cost + Allowance(k) <= MaxTokens * (1 + forgotten[k]) + RefillRate * elapsed
    BY DEF WithinRate
  <2>2. Allowance(k) \in 0..MaxTokens
    BY BucketOfType
  <2>3. /\ forgotten[k] \in Nat /\ forgotten'[k] \in Nat /\ forgotten'[k] >= forgotten[k]
        /\ admitted[k] * Cost \in Nat /\ RefillRate * elapsed \in Nat
    BY Multiply DEF LimiterTypeOK
  <2>4. /\ MaxTokens * (1 + forgotten'[k]) >= MaxTokens * (1 + forgotten[k])
        /\ MaxTokens * (1 + forgotten[k]) \in Nat /\ MaxTokens * (1 + forgotten'[k]) \in Nat
        /\ MaxTokens * (1 + (forgotten[k] + 1)) = MaxTokens * (1 + forgotten[k]) + MaxTokens
    <3>1. ASSUME NEW m \in Nat, NEW f \in Nat, NEW g \in Nat, g >= f
          PROVE  /\ m * (1 + g) >= m * (1 + f) /\ m * (1 + f) \in Nat /\ m * (1 + g) \in Nat
                 /\ m * (1 + (f + 1)) = m * (1 + f) + m
      <4>1. (1 + f) * m <= (1 + g) * m
        BY <3>1, Multiply
      <4>2. (1 + f) * m = m * (1 + f) /\ (1 + g) * m = m * (1 + g)
        OBVIOUS
      <4>3. m * (1 + f) \in Nat /\ m * (1 + g) \in Nat
        BY Multiply
      <4>4. m * (1 + (f + 1)) = m * (1 + f) + m
        OBVIOUS
      <4> QED
        BY <4>1, <4>2, <4>3, <4>4
    <3> QED
      BY <2>3, <3>1
  <2>5. CASE k \in Known \ keys
    <3>1. (Allowance(k))' = Allowance(k)
      BY <1>1, <2>5 DEF Allowance, Refilled
    <3> QED
      BY <2>1, <2>2, <2>3, <2>4, <3>1
  <2>6. CASE k \notin Known
    <3>1. (Allowance(k))' = Allowance(k)
      BY <1>1, <2>6 DEF Allowance
    <3> QED
      BY <2>1, <2>2, <2>3, <2>4, <3>1
  <2>7. CASE k \in Known \cap keys
    <3>1. (Allowance(k))' = MaxTokens
      BY <1>1, <2>7 DEF Allowance
    <3>2. CASE Allowance(k) = MaxTokens
      BY <2>1, <2>3, <2>4, <3>1, <3>2
    <3>3. CASE forgotten'[k] = forgotten[k] + 1
      BY <2>1, <2>2, <2>3, <2>4, <3>1, <3>3
    <3> QED
      BY <2>7, <3>2, <3>3
  <2> QED
    BY <2>5, <2>6, <2>7
<1> QED
  BY <1>2, <1>3 DEF WithinRate

\* A clock that moves by d, of which "passed" counts as time.
LEMMA Moved ==
    ASSUME LimiterTypeOK, WithinRate, NEW d \in Nat,
           UNCHANGED <<buckets, admitted, forgotten>>,
           \/ wall' = wall + d /\ elapsed' = elapsed + d
           \/ wall' = wall - d /\ elapsed' = elapsed
    PROVE  LimiterTypeOK' /\ WithinRate'
<1> USE LimiterConstants
<1>1. LimiterTypeOK'
  BY DEF LimiterTypeOK, Known
<1>2. ASSUME NEW k \in Key
      PROVE  admitted'[k] * Cost + (Allowance(k))'
                <= MaxTokens * (1 + forgotten'[k]) + RefillRate * elapsed'
  <2>1. admitted[k] * Cost + Allowance(k) <= MaxTokens * (1 + forgotten[k]) + RefillRate * elapsed
    BY DEF WithinRate
  <2>2. Allowance(k) \in 0..MaxTokens /\ wall \in Int /\ elapsed \in Nat
    BY BucketOfType DEF LimiterTypeOK
  <2>3. /\ (Allowance(k))' \in 0..MaxTokens
        /\ wall' = wall + d => (Allowance(k))' <= Allowance(k) + RefillRate * d
        /\ wall' = wall - d => (Allowance(k))' <= Allowance(k)
    <3>1. CASE k \in Known
      <4>1. buckets[k] \in Bucket /\ wall' \in Int
        BY <1>1, <3>1 DEF LimiterTypeOK
      <4>2. /\ Allowance(k) = TokensAt(buckets[k], wall)
            /\ (Allowance(k))' = TokensAt(buckets[k], wall')
        BY <3>1 DEF Allowance, Refilled, TokensAt, Known
      <4> QED
        BY <2>2, <4>1, <4>2, RefillGrows, RefillType
    <3>2. CASE k \notin Known
      <4>1. Allowance(k) = MaxTokens /\ (Allowance(k))' = MaxTokens
        BY <3>2 DEF Allowance, Known
      <4>2. RefillRate * d \in Nat
        BY Multiply
      <4> QED
        BY <4>1, <4>2
    <3> QED
      BY <3>1, <3>2
  <2>5. RefillRate * (elapsed + d) = RefillRate * elapsed + RefillRate * d
        /\ RefillRate * elapsed \in Nat /\ RefillRate * d \in Nat
    BY <2>2, Multiply
  <2>6. admitted[k] * Cost \in Nat /\ MaxTokens * (1 + forgotten[k]) \in Nat
    BY Multiply DEF LimiterTypeOK
  <2> QED
    BY <2>1, <2>2, <2>3, <2>5, <2>6
<1> QED
  BY <1>1, <1>2 DEF WithinRate

LEMMA LimiterStep == LimiterTypeOK /\ WithinRate /\ [LimiterNext]_limiterVars => LimiterTypeOK' /\ WithinRate'
<1> SUFFICES ASSUME LimiterTypeOK, WithinRate, [LimiterNext]_limiterVars
             PROVE  LimiterTypeOK' /\ WithinRate'
  OBVIOUS
<1> USE LimiterConstants
<1>t. forgotten \in [Key -> Nat] /\ Known \subseteq Key
  BY DEF LimiterTypeOK
<1>1. ASSUME NEW k \in Key, NEW allowed \in BOOLEAN, Consume(k, allowed)
      PROVE  LimiterTypeOK' /\ WithinRate'
  <2>1. LimiterTypeOK' /\ Evicted(k) \subseteq Known \ {k}
    BY <1>1, Consumed
  <2>2. ASSUME NEW j \in Key
        PROVE  admitted'[j] * Cost + (Allowance(j))'
                  <= MaxTokens * (1 + forgotten'[j]) + RefillRate * elapsed'
    <3>1. admitted[j] * Cost + Allowance(j) <= MaxTokens * (1 + forgotten[j]) + RefillRate * elapsed
      BY DEF WithinRate
    <3>2. /\ Allowance(j) \in 0..MaxTokens /\ admitted[j] \in Nat /\ forgotten[j] \in Nat
          /\ elapsed \in Nat
      BY BucketOfType DEF LimiterTypeOK
    <3>3. /\ elapsed' = elapsed
          /\ admitted'[j] = IF j = k /\ allowed THEN admitted[j] + 1 ELSE admitted[j]
          /\ forgotten'[j] = IF Stale = {} /\ j \in Evicted(k) THEN forgotten[j] + 1 ELSE forgotten[j]
      BY <1>1 DEF Consume, LimiterTypeOK
    <3>4. /\ (admitted[j] + 1) * Cost = admitted[j] * Cost + Cost /\ admitted[j] * Cost \in Nat
          /\ MaxTokens * (1 + forgotten[j]) \in Nat /\ RefillRate * elapsed \in Nat
          /\ MaxTokens * (1 + (forgotten[j] + 1)) = MaxTokens * (1 + forgotten[j]) + MaxTokens
      BY <3>2, Multiply
    <3>5. CASE j = k
      <4>1. forgotten'[j] = forgotten[j]
        BY <2>1, <3>3, <3>5
      <4>2. (Allowance(j))' = IF allowed THEN Allowance(j) - Cost ELSE Allowance(j)
        BY <1>1, <3>5, Consumed
      <4> QED
        BY <3>1, <3>2, <3>3, <3>4, <3>5, <4>1, <4>2
    <3>6. CASE j \in Evicted(k) /\ j # k
      <4>1. (Allowance(j))' = MaxTokens
        BY <1>1, <3>6, Consumed
      <4>2. CASE Stale # {}
        <5>0. j \in Stale
          BY <3>6, <4>2 DEF Evicted, FirstOf
        <5>1. Allowance(j) = MaxTokens
          BY <5>0, StaleAllowance DEF Stale
        <5> QED
          BY <3>1, <3>2, <3>3, <3>4, <3>6, <4>1, <4>2, <5>1
      <4>3. CASE Stale = {}
        BY <3>1, <3>2, <3>3, <3>4, <3>6, <4>1, <4>3
      <4> QED
        BY <4>2, <4>3
    <3>7. CASE j \notin Evicted(k) /\ j # k
      <4>1. (Allowance(j))' = Allowance(j)
        BY <1>1, <3>7, Consumed
      <4> QED
        BY <3>1, <3>2, <3>3, <3>4, <3>7, <4>1
    <3> QED
      BY <3>5, <3>6, <3>7
  <2> QED
    BY <2>1, <2>2 DEF WithinRate
<1>2. CASE Cleanup
  <2> DEFINE keys == {k \in Known : Older(buckets[k], CleanupAfter)}
  <2>1. buckets' = Without(keys) /\ UNCHANGED <<wall, elapsed, admitted, forgotten>>
    BY <1>2 DEF Cleanup
  <2>2. \A k \in Known \cap keys : Allowance(k) = MaxTokens
    BY StaleAllowance, StaleIsFull
  <2>3. \A k \in Key : forgotten'[k] >= forgotten[k]
    BY <1>t, <2>1
  <2> HIDE DEF keys
  <2> QED
    BY <1>t, <2>1, <2>2, <2>3, Emptied
<1>3. CASE Destroy
  <2>1. buckets' = Without(Known) /\ UNCHANGED <<wall, elapsed, admitted>>
    BY <1>3 DEF Destroy
  <2>2. /\ forgotten' \in [Key -> Nat] /\ \A k \in Key : forgotten'[k] >= forgotten[k]
        /\ \A k \in Known : forgotten'[k] = forgotten[k] + 1
    BY <1>3, <1>t DEF Destroy
  <2> QED
    BY <2>1, <2>2, Emptied
<1>4. CASE Tick
  <2>1. PICK d \in 1..MaxStep : wall' = wall + d /\ elapsed' = elapsed + d
    BY <1>4 DEF Tick
  <2> QED
    BY <1>4, <2>1, Moved DEF Tick
<1>5. CASE SetBack
  <2>1. PICK d \in 1..MaxStep : wall' = wall - d
    BY <1>5 DEF SetBack
  <2> QED
    BY <1>5, <2>1, Moved DEF SetBack
<1>6. CASE UNCHANGED limiterVars
  BY <1>6 DEF limiterVars, LimiterTypeOK, WithinRate, Allowance, Known, Refilled
<1> QED
  BY <1>1, <1>2, <1>3, <1>4, <1>5, <1>6 DEF LimiterNext

-----------------------------------------------------------------------------
(* The body reader on top of it.                                           *)

Body == [outcome: {"free", "limited", "reading"} \cup Outcomes,
         total: Nat, kept: Nat, timer: BOOLEAN, open: BOOLEAN]

\* A body whose timer is right and whose bytes fit.
Sound(b) == /\ b.timer => b.outcome = "reading"
            /\ b.kept <= b.total /\ b.kept <= MaxBodyBytes

BodiesInv == body \in [Connection -> Body] /\ \A c \in Connection : Sound(body[c])

AdmissionInv == LimiterTypeOK /\ WithinRate /\ BodiesInv

LEMMA NoBodyFits == NoBody \in Body /\ Sound(NoBody)
BY BodyConstants DEF NoBody, Body, Sound

\* What remains to show of a step that changes one body.
LEMMA OneBody ==
    ASSUME BodiesInv, NEW c \in Connection, NEW b \in Body, Sound(b),
           body' = [body EXCEPT ![c] = b]
    PROVE  BodiesInv'
BY DEF BodiesInv

LEMMA BodiesStep == BodiesInv /\ [AdmissionNext]_admissionVars => BodiesInv'
<1> SUFFICES ASSUME BodiesInv, [AdmissionNext]_admissionVars PROVE BodiesInv'
  OBVIOUS
<1> USE BodyConstants
<1>t. ASSUME NEW c \in Connection PROVE body[c] \in Body /\ Sound(body[c])
  BY DEF BodiesInv
<1>1. ASSUME NEW c \in Connection, NEW k \in Key, Arrive(c, k) PROVE BodiesInv'
  <2>1. CASE body' = [body EXCEPT ![c].outcome = "limited"]
    <3>1. body[c] = NoBody
      BY <1>1 DEF Arrive
    <3> DEFINE b == [NoBody EXCEPT !.outcome = "limited"]
    <3>2. b \in Body /\ Sound(b)
      BY NoBodyFits DEF NoBody, Body, Sound
    <3>3. body' = [body EXCEPT ![c] = b]
      <4>1. body' = [body EXCEPT ![c] = [body[c] EXCEPT !.outcome = "limited"]]
        BY <2>1
      <4> QED
        BY <3>1, <4>1
    <3> HIDE DEF b
    <3> QED
      BY <3>2, <3>3, OneBody
  <2>2. CASE \E n \in Lengths : body' = [body EXCEPT ![c] = Begun(n)]
    <3>1. PICK n \in Lengths : body' = [body EXCEPT ![c] = Begun(n)]
      BY <2>2
    <3>2. Begun(n) \in Body /\ Sound(Begun(n))
      <4>1. CASE n > MaxBodyBytes
        <5>1. Begun(n) = [NoBody EXCEPT !.outcome = "tooLarge"]
          BY <4>1 DEF Begun
        <5> QED
          BY <5>1, NoBodyFits DEF NoBody, Body, Sound, Outcomes
      <4>2. CASE ~(n > MaxBodyBytes)
        <5>1. Begun(n) = [NoBody EXCEPT !.outcome = "reading", !.timer = TRUE]
          BY <4>2 DEF Begun
        <5> QED
          BY <5>1, NoBodyFits DEF NoBody, Body, Sound
      <4> QED
        BY <4>1, <4>2
    <3> QED
      BY <3>1, <3>2, OneBody
  <2> QED
    BY <1>1, <2>1, <2>2 DEF Arrive
<1>2. ASSUME NEW c \in Connection, NEW n \in ChunkSizes, Data(c, n) PROVE BodiesInv'
  <2> DEFINE over == body[c].total + n > MaxBodyBytes
             b == [body[c] EXCEPT !.total = body[c].total + n, !.kept = Kept(body[c], n),
                                  !.timer = body[c].timer /\ ~over, !.open = ~over,
                                  !.outcome = IF over THEN Settle(body[c], "tooLarge")
                                              ELSE body[c].outcome]
  <2>1. body' = [body EXCEPT ![c] = b]
    BY <1>2 DEF Data
  <2>2. body[c] \in Body /\ Sound(body[c]) /\ n \in Nat
    BY <1>t
  <2>3. body[c].total + n \in Nat /\ Kept(body[c], n) \in Nat
        /\ Kept(body[c], n) <= body[c].total + n /\ Kept(body[c], n) <= MaxBodyBytes
    BY <2>2 DEF Kept, Body, Sound
  <2>4. over \in BOOLEAN /\ (body[c].timer /\ ~over) \in BOOLEAN
    OBVIOUS
  <2>5. Settle(body[c], "tooLarge") \in {"free", "limited", "reading"} \cup Outcomes
    BY <2>2 DEF Settle, Body, Outcomes
  <2>6. b \in Body /\ Sound(b)
    <3> HIDE DEF over
    <3> QED
      BY <2>2, <2>3, <2>4, <2>5 DEF Body, Sound
  <2> HIDE DEF b
  <2> QED
    BY <2>1, <2>6, OneBody
<1>3. ASSUME NEW c \in Connection, NEW outcome \in Outcomes,
             \/ body' = [body EXCEPT ![c].outcome = Settle(body[c], outcome), ![c].timer = FALSE]
             \/ body' = [body EXCEPT ![c].outcome = Settle(body[c], outcome), ![c].timer = FALSE,
                                     ![c].open = FALSE]
      PROVE  BodiesInv'
  <2>1. body[c] \in Body /\ Sound(body[c])
    BY <1>t
  <2>2. Settle(body[c], outcome) \in {"free", "limited", "reading"} \cup Outcomes
    BY <2>1 DEF Settle, Body
  <2>3. PICK b : /\ body' = [body EXCEPT ![c] = b]
                 /\ \/ b = [body[c] EXCEPT !.outcome = Settle(body[c], outcome), !.timer = FALSE]
                    \/ b = [body[c] EXCEPT !.outcome = Settle(body[c], outcome), !.timer = FALSE,
                                           !.open = FALSE]
    BY <1>3, <1>t DEF BodiesInv
  <2>4. b \in Body /\ Sound(b)
    BY <2>1, <2>2, <2>3 DEF Body, Sound
  <2> QED
    BY <2>3, <2>4, OneBody
<1>4. ASSUME NEW c \in Connection, NextRequest(c) PROVE BodiesInv'
  <2> DEFINE b == [NoBody EXCEPT !.timer = body[c].timer]
  <2>1. body[c].timer = FALSE
    BY <1>4, <1>t DEF NextRequest, Sound, Outcomes, Body
  <2>2. b \in Body /\ Sound(b)
    BY <2>1, NoBodyFits DEF NoBody, Body, Sound
  <2>3. body' = [body EXCEPT ![c] = b]
    BY <1>4 DEF NextRequest
  <2> HIDE DEF b
  <2> QED
    BY <2>2, <2>3, OneBody
<1>5. CASE UNCHANGED body
  BY <1>5 DEF BodiesInv
<1>6. ASSUME NEW c \in Connection, End(c) \/ Fail(c) \/ TimeOut(c) PROVE BodiesInv'
  <2>1. {"read", "failed", "timedOut"} \subseteq Outcomes
    BY DEF Outcomes
  <2> QED
    BY <1>3, <1>6, <2>1 DEF End, Fail, TimeOut
<1> QED
  BY <1>1, <1>2, <1>4, <1>5, <1>6 DEF AdmissionNext, Stream, admissionVars

LEMMA AdmissionInitial == AdmissionInit => AdmissionInv
BY LimiterInitial, NoBodyFits DEF AdmissionInit, AdmissionInv, BodiesInv

LEMMA AdmissionStep == AdmissionInv /\ [AdmissionNext]_admissionVars => AdmissionInv'
<1> SUFFICES ASSUME AdmissionInv, [AdmissionNext]_admissionVars PROVE AdmissionInv'
  OBVIOUS
<1>1. [LimiterNext]_limiterVars
  <2>1. ASSUME NEW c \in Connection, NEW k \in Key, Arrive(c, k)
        PROVE  \E allowed \in BOOLEAN : Consume(k, allowed)
    BY <2>1 DEF Arrive
  <2>2. ASSUME NEW c \in Connection, Stream(c) \/ TimeOut(c) \/ NextRequest(c)
        PROVE  UNCHANGED limiterVars
    BY <2>2 DEF Stream, Data, End, Fail, TimeOut, NextRequest
  <2> QED
    BY <2>1, <2>2 DEF AdmissionNext, LimiterNext, admissionVars
<1> QED
  BY <1>1, LimiterStep, BodiesStep DEF AdmissionInv

\* Every variable has its type (AdmissionTypeOK), and so no bucket ever holds more
\* than maxTokens nor a negative number of tokens, wherever the clock goes.
THEOREM AdmissionTypeCorrect == AdmissionSpec => []AdmissionTypeOK
<1>1. AdmissionInv => AdmissionTypeOK
  BY DEF AdmissionInv, BodiesInv, Body, AdmissionTypeOK
<1> QED
  BY <1>1, AdmissionInitial, AdmissionStep, PTL DEF AdmissionSpec

\* No client is let through more often than the rate allows, for any number of
\* clients and buckets, any limits and any movement of the clock.
THEOREM RateHolds == AdmissionSpec => []WithinRate
<1>1. AdmissionInv => WithinRate
  BY DEF AdmissionInv
<1> QED
  BY <1>1, AdmissionInitial, AdmissionStep, PTL DEF AdmissionSpec

\* A timer never outlives the reading of its body.
THEOREM TimersEnd == AdmissionSpec => []TimerOnlyWhileReading
<1>1. AdmissionInv => TimerOnlyWhileReading
  BY DEF AdmissionInv, BodiesInv, Sound, TimerOnlyWhileReading
<1> QED
  BY <1>1, AdmissionInitial, AdmissionStep, PTL DEF AdmissionSpec

\* No body takes more memory than the limit, whatever was declared and sent.
THEOREM BytesBounded == AdmissionSpec => []KeepsWithinLimit
<1>1. AdmissionInv => KeepsWithinLimit
  BY DEF AdmissionInv, BodiesInv, Sound, KeepsWithinLimit
<1> QED
  BY <1>1, AdmissionInitial, AdmissionStep, PTL DEF AdmissionSpec
=============================================================================

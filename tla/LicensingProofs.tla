-------------------------- MODULE LicensingProofs --------------------------
(***************************************************************************)
(* Proofs about modules LicenseServer and Licensing, for any events,       *)
(* registrations, limits, places and overlapping requests: what the server *)
(* counts, and what a process can unlock.                                  *)
(***************************************************************************)
EXTENDS Licensing, FiniteSetTheorems, SequenceTheorems, TLAPS

\* A map of counters for some keys, with room for MaxMapSize.
CounterMap(map, keys) ==
    /\ DOMAIN map \subseteq keys
    /\ \A k \in DOMAIN map : map[k] \in Counter
    /\ IsFiniteSet(DOMAIN map) /\ Cardinality(DOMAIN map) <= MaxMapSize

\* What was made for w is covered by its counter, and by what the server forgot.
Covered(map, w, max) ==
    /\ CountOf(map, w) <= max
    /\ made[w] <= max * lapsed[w] + CountOf(map, w)

Handled == {Idle} \cup {r \in [for: Event \cup Mailbox, event: BOOLEAN] : r.event => r.for \in Event}

MemoryInv ==
    /\ now \in 0..MaxNow /\ env \in [webhook: BOOLEAN, signing: BOOLEAN]
    /\ processed \in Seq(Event) /\ Len(processed) <= MaxIdempotency
    /\ \A i, j \in DOMAIN processed : processed[i] = processed[j] => i = j
    /\ CounterMap(emails, Mailbox) /\ CounterMap(ips, Address)
    /\ handler \in [Handler -> Handled] /\ acked \subseteq Event
    /\ made \in [Whom -> Nat] /\ lapsed \in [Whom -> Nat]
    /\ attempts \in 0..MaxRegistrations /\ givenUp \in 0..MaxMails

\* An event that is not remembered has been licensed no more often than it was
\* forgotten.
EventsInv ==
    \A e \in Event : made[e] <= lapsed[e] + (IF e \in Remembered(processed) THEN 1 ELSE 0)

QuotasInv ==
    /\ \A m \in Mailbox : Covered(emails, m, MaxPerEmail)
    /\ \A a \in Address : Covered(ips, a, MaxPerIp)

CountingInv == MemoryInv /\ EventsInv /\ QuotasInv

-----------------------------------------------------------------------------
LEMMA TimesZero == \A m \in Nat : m * 0 + 0 = 0
OBVIOUS

LEMMA Multiply ==
    \A m, n \in Nat : m * n \in Nat /\ m * (n + 1) = m * n + m
OBVIOUS

\* One more count for k.
LEMMA BumpedMap ==
    ASSUME NEW map, NEW keys, CounterMap(map, keys), NEW k \in keys, now \in Nat,
           Cardinality(DOMAIN map) >= MaxMapSize => k \in DOMAIN map
    PROVE  /\ CounterMap(Bump(map, k), keys)
           /\ CountOf(map, k) \in Nat
           /\ CountOf(Bump(map, k), k) = CountOf(map, k) + 1
           /\ \A j \in keys \ {k} : CountOf(Bump(map, k), j) = CountOf(map, j)
<1> USE ServerConstants
<1>1. CountOf(map, k) \in Nat
  BY DEF CountOf, CounterMap, Counter
<1>2. DOMAIN Bump(map, k) = DOMAIN map \cup {k}
  BY DEF Bump
<1>3. Bump(map, k)[k] = [count |-> CountOf(map, k) + 1, lastAt |-> now]
  BY DEF Bump
<1>4. \A j \in DOMAIN map \ {k} : Bump(map, k)[j] = map[j]
  BY DEF Bump
<1>5. IsFiniteSet(DOMAIN map \cup {k})
      /\ Cardinality(DOMAIN map \cup {k}) <= MaxMapSize
  <2>1. IsFiniteSet(DOMAIN map) /\ Cardinality(DOMAIN map) <= MaxMapSize
    BY DEF CounterMap
  <2>2. Cardinality(DOMAIN map) \in Nat
    BY <2>1, FS_CardinalityType
  <2>3. CASE k \in DOMAIN map
    <3>1. DOMAIN map \cup {k} = DOMAIN map
      BY <2>3
    <3> QED
      BY <2>1, <3>1
  <2>4. CASE k \notin DOMAIN map
    <3>1. /\ IsFiniteSet(DOMAIN map \cup {k})
          /\ Cardinality(DOMAIN map \cup {k}) = Cardinality(DOMAIN map) + 1
      BY <2>1, <2>4, FS_AddElement
    <3> QED
      BY <2>1, <2>2, <2>4, <3>1
  <2> QED
    BY <2>3, <2>4
<1>6. [count |-> CountOf(map, k) + 1, lastAt |-> now] \in Counter
  BY <1>1 DEF Counter
<1>7. CounterMap(Bump(map, k), keys)
  BY <1>2, <1>3, <1>4, <1>5, <1>6 DEF CounterMap
<1>8. CountOf(Bump(map, k), k) = CountOf(map, k) + 1
  BY <1>2, <1>3 DEF CountOf
<1>9. \A j \in keys \ {k} : CountOf(Bump(map, k), j) = CountOf(map, j)
  BY <1>2, <1>4 DEF CountOf
<1> QED
  BY <1>1, <1>7, <1>8, <1>9

\* Some keys go.
LEMMA ReducedMap ==
    ASSUME NEW map, NEW keys, CounterMap(map, keys), NEW gone
    PROVE  /\ CounterMap(Restrict(map, DOMAIN map \ gone), keys)
           /\ \A k \in keys \ gone : CountOf(Restrict(map, DOMAIN map \ gone), k) = CountOf(map, k)
           /\ \A k \in gone : CountOf(Restrict(map, DOMAIN map \ gone), k) = 0
           /\ \A k \in keys : CountOf(map, k) \in Nat
<1> DEFINE rest == Restrict(map, DOMAIN map \ gone)
<1>1. DOMAIN rest = DOMAIN map \ gone /\ \A k \in DOMAIN rest : rest[k] = map[k]
  BY DEF Restrict
<1>2. IsFiniteSet(DOMAIN map \ gone)
      /\ Cardinality(DOMAIN map \ gone) <= MaxMapSize
  <2>1. IsFiniteSet(DOMAIN map) /\ Cardinality(DOMAIN map) <= MaxMapSize
    BY DEF CounterMap
  <2>2. /\ IsFiniteSet(DOMAIN map \ gone)
        /\ Cardinality(DOMAIN map \ gone) <= Cardinality(DOMAIN map)
    BY <2>1, FS_Subset
  <2>3. Cardinality(DOMAIN map) \in Nat /\ Cardinality(DOMAIN map \ gone) \in Nat
    BY <2>1, <2>2, FS_CardinalityType
  <2> QED
    BY <2>1, <2>2, <2>3, ServerConstants
<1> HIDE DEF rest
<1>3. CounterMap(rest, keys)
  BY <1>1, <1>2 DEF CounterMap
<1>4. \A k \in keys : CountOf(map, k) \in Nat
  BY DEF CountOf, CounterMap, Counter
<1>5. \A k \in keys \ gone : CountOf(rest, k) = CountOf(map, k)
  BY <1>1 DEF CountOf
<1>6. \A k \in gone : CountOf(rest, k) = 0
  BY <1>1 DEF CountOf
<1> QED
  BY <1>3, <1>4, <1>5, <1>6 DEF rest

LEMMA EmptyMap ==
    ASSUME NEW keys
    PROVE  /\ CounterMap(<<>>, keys)
           /\ \A k : CountOf(<<>>, k) = 0
<1>1. DOMAIN <<>> = {}
  OBVIOUS
<1>2. IsFiniteSet({}) /\ Cardinality({}) = 0
  BY FS_EmptySet
<1> QED
  BY <1>1, <1>2, ServerConstants DEF CounterMap, CountOf

LEMMA EmptyMemory == Remembered(<<>>) = {}
BY DEF Remembered

\* The set of processed events with one more: it forgets the oldest at most.
LEMMA Claimed ==
    ASSUME MemoryInv, NEW e \in Event, e \notin Remembered(processed), Claim(e)
    PROVE  /\ processed' \in Seq(Event) /\ Len(processed') <= MaxIdempotency
           /\ \A i, j \in DOMAIN processed' : processed'[i] = processed'[j] => i = j
           /\ lapsed' \in [Whom -> Nat]
           /\ e \in Remembered(processed')
           /\ \A w \in Whom : lapsed'[w] >= lapsed[w]
           /\ \A w \in Event : \/ w \in Remembered(processed')
                               \/ w \notin Remembered(processed)
                               \/ lapsed'[w] = lapsed[w] + 1
           /\ \A w \in Mailbox \cup Address : lapsed'[w] = lapsed[w]
<1> USE ServerConstants
<1> DEFINE full == Len(processed) >= MaxIdempotency
           dropped == IF full THEN {Head(processed)} ELSE {}
           rest == IF full THEN Tail(processed) ELSE processed
<1>t. /\ processed \in Seq(Event) /\ Len(processed) <= MaxIdempotency /\ Len(processed) \in Nat
      /\ lapsed \in [Whom -> Nat]
      /\ \A i, j \in DOMAIN processed : processed[i] = processed[j] => i = j
  BY DEF MemoryInv
<1>1. processed' = Append(rest, e) /\ lapsed' = Forgetting(dropped)
  BY DEF Claim, WithEvent
<1>2. full => processed # <<>> /\ Head(processed) = processed[1] /\ processed[1] \in Event
  BY <1>t
<1>3. /\ rest \in Seq(Event) /\ Len(rest) < MaxIdempotency /\ Len(rest) \in Nat
      /\ \A i \in 1..Len(rest) :
            rest[i] = IF full THEN processed[i + 1] ELSE processed[i]
      /\ full => Len(rest) = Len(processed) - 1
      /\ ~full => Len(rest) = Len(processed)
  BY <1>t, <1>2
<1> HIDE DEF rest, full
<1>4. /\ processed' \in Seq(Event) /\ Len(processed') = Len(rest) + 1
      /\ processed'[Len(rest) + 1] = e
      /\ \A i \in 1..Len(rest) : processed'[i] = rest[i]
  <2>1. rest \in Seq(Event)
    BY <1>3
  <2> DEFINE longer == Append(rest, e)
  <2>2. /\ longer \in Seq(Event) /\ Len(longer) = Len(rest) + 1
        /\ longer[Len(rest) + 1] = e
        /\ \A i \in 1..Len(rest) : longer[i] = rest[i]
    BY <2>1, AppendProperties
  <2> HIDE DEF longer
  <2>3. processed' = longer
    BY <1>1 DEF longer
  <2> QED
    BY <2>2, <2>3, Zenon
<1>5. \A i \in 1..Len(rest) : rest[i] # e
  <2>1. \A i \in DOMAIN processed : processed[i] # e
    BY DEF Remembered
  <2>2. DOMAIN processed = 1..Len(processed)
    BY <1>t
  <2> SUFFICES ASSUME NEW i \in 1..Len(rest)
               PROVE  rest[i] # e
    OBVIOUS
  <2>3. CASE full
    <3>1. rest[i] = processed[i + 1]
      BY <1>3, <2>3
    <3>2. i + 1 \in 1..Len(processed)
      BY <1>3, <1>t, <2>3
    <3> QED
      BY <2>1, <2>2, <3>1, <3>2
  <2>4. CASE ~full
    <3>1. rest[i] = processed[i]
      BY <1>3, <2>4
    <3>2. i \in 1..Len(processed)
      BY <1>3, <2>4
    <3> QED
      BY <2>1, <2>2, <3>1, <3>2
  <2> QED
    BY <2>3, <2>4
<1>6. ASSUME NEW i \in DOMAIN processed', NEW j \in DOMAIN processed',
             processed'[i] = processed'[j]
      PROVE  i = j
  <2>1. i \in 1..(Len(rest) + 1) /\ j \in 1..(Len(rest) + 1)
    BY <1>4
  <2>2. CASE i = Len(rest) + 1 \/ j = Len(rest) + 1
    <3>1. CASE i \in 1..Len(rest)
      BY <1>3, <1>4, <1>5, <1>6, <2>2, <3>1
    <3>2. CASE j \in 1..Len(rest)
      BY <1>3, <1>4, <1>5, <1>6, <2>2, <3>2
    <3> QED
      BY <1>3, <2>1, <2>2, <3>1, <3>2
  <2>3. CASE i \in 1..Len(rest) /\ j \in 1..Len(rest)
    <3>1. rest[i] = rest[j]
      BY <1>4, <1>6, <2>3
    <3>2. CASE full
      <4>1. processed[i + 1] = processed[j + 1] /\ i + 1 \in 1..Len(processed)
            /\ j + 1 \in 1..Len(processed)
        <5>1. Len(rest) = Len(processed) - 1 /\ Len(processed) \in Nat
          BY <1>3, <1>t, <3>2
        <5>2. \A n \in 1..Len(rest) : rest[n] = processed[n + 1]
          BY <1>3, <3>2
        <5>3. rest[i] = processed[i + 1] /\ rest[j] = processed[j + 1]
          BY <2>3, <5>2
        <5>4. i + 1 \in 1..Len(processed) /\ j + 1 \in 1..Len(processed)
          BY <2>3, <5>1
        <5> QED
          BY <3>1, <5>3, <5>4
      <4>2. i + 1 \in DOMAIN processed /\ j + 1 \in DOMAIN processed
        BY <1>t, <4>1
      <4>3. i + 1 = j + 1
        BY <1>t, <4>1, <4>2
      <4> QED
        BY <2>3, <4>3
    <3>3. CASE ~full
      BY <1>3, <1>t, <2>3, <3>1, <3>3
    <3> QED
      BY <3>2, <3>3
  <2> QED
    BY <1>3, <2>1, <2>2, <2>3
<1>7. Event \subseteq Whom /\ Mailbox \subseteq Whom /\ Address \subseteq Whom
  BY DEF Whom
<1>8. /\ \A w \in Whom : lapsed'[w] = lapsed[w] + IF w \in dropped THEN 1 ELSE 0
      /\ lapsed' \in [Whom -> Nat]
  BY <1>1, <1>t DEF Forgetting
<1>9. dropped \subseteq Event
  BY <1>2
<1>10. ASSUME NEW w \in Event, w \in Remembered(processed), w \notin dropped
       PROVE  w \in Remembered(processed')
  <2>1. PICK i \in 1..Len(processed) : processed[i] = w
    BY <1>10, <1>t DEF Remembered
  <2>2. CASE full
    <3>1. i # 1
      BY <1>2, <1>10, <2>1, <2>2
    <3>2. i - 1 \in 1..Len(rest) /\ rest[i - 1] = w
      <4>1. i - 1 \in 1..Len(rest) /\ (i - 1) + 1 = i
        BY <1>3, <1>t, <2>1, <2>2, <3>1
      <4>2. ASSUME NEW n \in 1..Len(rest) PROVE rest[n] = processed[n + 1]
        BY <1>3, <2>2
      <4>3. rest[i - 1] = processed[(i - 1) + 1]
        BY <4>1, <4>2
      <4> QED
        BY <2>1, <4>1, <4>3
    <3>3. i - 1 \in DOMAIN processed' /\ processed'[i - 1] = w
      <4> DEFINE n == i - 1
      <4>1. n \in 1..Len(rest) /\ rest[n] = w
        BY <3>2
      <4> HIDE DEF n
      <4>2. n \in DOMAIN processed' /\ processed'[n] = w
        BY <1>3, <1>4, <4>1
      <4> QED
        BY <4>2 DEF n
    <3> QED
      BY <3>3 DEF Remembered
  <2>3. CASE ~full
    <3>1. i \in 1..Len(rest) /\ rest[i] = w
      BY <1>3, <2>1, <2>3
    <3> QED
      BY <1>4, <1>3, <3>1 DEF Remembered
  <2> QED
    BY <2>2, <2>3
<1>11. e \in Remembered(processed')
  BY <1>3, <1>4 DEF Remembered
<1>12. Len(processed') <= MaxIdempotency
  BY <1>3, <1>4
<1>13. \A w \in Mailbox \cup Address : lapsed'[w] = lapsed[w]
  BY <1>7, <1>8, <1>9, <1>t
<1> HIDE DEF dropped
<1>14. \A w \in Whom : lapsed'[w] >= lapsed[w]
  <2>1. ASSUME NEW w \in Whom PROVE lapsed'[w] >= lapsed[w]
    <3>1. lapsed[w] \in Nat
      BY <1>t
    <3>2. lapsed'[w] = lapsed[w] + 1 \/ lapsed'[w] = lapsed[w] + 0
      BY <1>8
    <3> QED
      BY <3>1, <3>2
  <2> QED
    BY <2>1
<1>15. \A w \in Event : \/ w \in Remembered(processed')
                         \/ w \notin Remembered(processed)
                         \/ lapsed'[w] = lapsed[w] + 1
  <2>1. ASSUME NEW w \in Event, w \in dropped PROVE lapsed'[w] = lapsed[w] + 1
    BY <1>7, <1>8, <2>1
  <2> QED
    BY <1>10, <2>1, Zenon
<1> QED
  BY <1>4, <1>6, <1>8, <1>11, <1>12, <1>13, <1>14, <1>15

-----------------------------------------------------------------------------
LEMMA CountingInitial == LicenseServerInit => CountingInv
<1> SUFFICES ASSUME LicenseServerInit PROVE CountingInv
  OBVIOUS
<1> USE ServerConstants
<1>1. /\ \A w \in Whom : made[w] = 0 /\ lapsed[w] = 0
      /\ made \in [Whom -> Nat] /\ lapsed \in [Whom -> Nat]
      /\ processed = <<>> /\ emails = <<>> /\ ips = <<>>
  BY DEF LicenseServerInit
<1>2. Event \subseteq Whom /\ Mailbox \subseteq Whom /\ Address \subseteq Whom
  BY DEF Whom
<1>3. MemoryInv
  BY <1>1, EmptyMap DEF LicenseServerInit, MemoryInv, Handled
<1>4. EventsInv
  BY <1>1, <1>2, EmptyMemory DEF EventsInv
<1>5. QuotasInv
  <2>1. ASSUME NEW w \in Mailbox \cup Address, NEW max \in Nat PROVE Covered(<<>>, w, max)
    <3>1. max * 0 + 0 = 0
      BY TimesZero
    <3>2. CountOf(<<>>, w) = 0
      BY EmptyMap, Zenon
    <3>3. made[w] = 0 /\ lapsed[w] = 0
      BY <1>1, <1>2
    <3> QED
      BY <3>1, <3>2, <3>3 DEF Covered
  <2> QED
    BY <1>1, <2>1 DEF QuotasInv
<1> QED
  BY <1>3, <1>4, <1>5 DEF CountingInv

\* More may be forgotten; if less is counted of somebody, it was.
LEMMA CoveredStep ==
    ASSUME NEW map, NEW map2, NEW w \in Whom, NEW max \in Nat,
           made \in [Whom -> Nat], lapsed \in [Whom -> Nat],
           made' \in [Whom -> Nat], lapsed' \in [Whom -> Nat],
           CountOf(map, w) \in Nat, CountOf(map2, w) \in Nat, Covered(map, w, max),
           \/ /\ lapsed'[w] = lapsed[w] /\ CountOf(map2, w) >= CountOf(map, w)
              /\ CountOf(map2, w) <= max
              /\ made'[w] - made[w] <= CountOf(map2, w) - CountOf(map, w)
           \/ /\ lapsed'[w] = lapsed[w] + 1 /\ CountOf(map2, w) <= max
              /\ made'[w] = made[w]
    PROVE  CountOf(map2, w) <= max /\ made'[w] <= max * lapsed'[w] + CountOf(map2, w)
<1>1. /\ max * lapsed[w] \in Nat /\ max * (lapsed[w] + 1) = max * lapsed[w] + max
      /\ lapsed[w] \in Nat /\ made[w] \in Nat /\ made'[w] \in Nat
  BY Multiply
<1>2. made[w] <= max * lapsed[w] + CountOf(map, w) /\ CountOf(map, w) <= max
  BY DEF Covered
<1>3. CASE /\ lapsed'[w] = lapsed[w] /\ CountOf(map2, w) >= CountOf(map, w)
           /\ CountOf(map2, w) <= max
           /\ made'[w] - made[w] <= CountOf(map2, w) - CountOf(map, w)
  BY <1>1, <1>2, <1>3
<1>4. CASE /\ lapsed'[w] = lapsed[w] + 1 /\ CountOf(map2, w) <= max
           /\ made'[w] = made[w]
  BY <1>1, <1>2, <1>4
<1> QED
  BY <1>3, <1>4

\* A license more for some, or for nobody.
LEMMA Made ==
    ASSUME MemoryInv, NEW h \in Handler, NEW who \in SUBSET Whom,
           NEW for \in Event \cup Mailbox, NEW tier,
           Sign(h, who, for, tier) \/ UNCHANGED <<handler, issued, made>>
    PROVE  /\ made' \in [Whom -> Nat]
           /\ handler' \in [Handler -> Handled]
           /\ \A w \in Whom : \/ made'[w] = made[w]
                              \/ w \in who /\ made'[w] = made[w] + 1
<1>1. CASE Sign(h, who, for, tier)
  <2>1. [for |-> for, event |-> for \in Event] \in Handled
    <3> DEFINE r == [for |-> for, event |-> for \in Event]
    <3>1. r \in [for: Event \cup Mailbox, event: BOOLEAN]
      OBVIOUS
    <3>2. r.event => r.for \in Event
      OBVIOUS
    <3> QED
      BY <3>1, <3>2 DEF Handled
  <2>2. handler' = [handler EXCEPT ![h] = [for |-> for, event |-> for \in Event]]
    BY <1>1 DEF Sign
  <2>3. made' = [w \in Whom |-> made[w] + IF w \in who THEN 1 ELSE 0]
    BY <1>1 DEF Sign
  <2>4. made \in [Whom -> Nat] /\ handler \in [Handler -> Handled]
    BY DEF MemoryInv
  <2>5. handler' \in [Handler -> Handled]
    BY <2>1, <2>2, <2>4
  <2> QED
    BY <2>3, <2>4, <2>5
<1>2. CASE UNCHANGED <<handler, issued, made>>
  BY <1>2 DEF MemoryInv
<1> QED
  BY <1>1, <1>2

LEMMA CountsType ==
    ASSUME MemoryInv
    PROVE  /\ \A m \in Mailbox : CountOf(emails, m) \in Nat
           /\ \A a \in Address : CountOf(ips, a) \in Nat
           /\ Event \subseteq Whom /\ Mailbox \subseteq Whom /\ Address \subseteq Whom
<1>1. CounterMap(emails, Mailbox) /\ CounterMap(ips, Address)
  BY DEF MemoryInv
<1> QED
  BY <1>1, ReducedMap DEF Whom

LEMMA DeliverCounts ==
    ASSUME CountingInv, NEW h \in Handler, NEW e \in Event, Deliver(h, e)
    PROVE  CountingInv'
<1> USE ServerConstants
<1>1. /\ e \notin Remembered(processed) /\ Claim(e)
      /\ UNCHANGED <<now, env, emails, ips, attempts, givenUp>>
  BY DEF Deliver
<1>t. MemoryInv /\ acked \subseteq Event /\ lapsed \in [Whom -> Nat] /\ made \in [Whom -> Nat]
  BY DEF CountingInv, MemoryInv
<1>2. Sign(h, {e}, e, TierOf[e]) \/ UNCHANGED <<handler, issued, made>>
  BY DEF Deliver
<1>3. {e} \in SUBSET Whom
  BY <1>t, CountsType
<1>4. /\ made' \in [Whom -> Nat] /\ handler' \in [Handler -> Handled]
      /\ \A w \in Whom : made'[w] = made[w] \/ (w = e /\ made'[w] = made[w] + 1)
  <2>1. /\ made' \in [Whom -> Nat] /\ handler' \in [Handler -> Handled]
        /\ \A w \in Whom : made'[w] = made[w] \/ (w \in {e} /\ made'[w] = made[w] + 1)
    BY <1>t, <1>2, <1>3, Made, Zenon
  <2> QED
    BY <2>1
<1>5. acked' \subseteq Event
  BY <1>t DEF Deliver
<1>6. MemoryInv'
  BY <1>1, <1>t, <1>4, <1>5, Claimed DEF MemoryInv, CounterMap
<1>7. EventsInv'
  <2>1. ASSUME NEW w \in Event
        PROVE  made'[w] <= lapsed'[w] + (IF w \in Remembered(processed') THEN 1 ELSE 0)
    <3>1. w \in Whom /\ made[w] \in Nat /\ lapsed[w] \in Nat /\ lapsed'[w] \in Nat
          /\ made'[w] \in Nat
      BY <1>t, <1>1, <1>4, Claimed, CountsType
    <3>2. made[w] <= lapsed[w] + (IF w \in Remembered(processed) THEN 1 ELSE 0)
      BY DEF CountingInv, EventsInv
    <3>3. /\ lapsed'[w] >= lapsed[w] /\ e \in Remembered(processed')
          /\ \/ w \in Remembered(processed') \/ w \notin Remembered(processed)
             \/ lapsed'[w] = lapsed[w] + 1
      BY <1>t, <1>1, <3>1, Claimed
    <3>4. CASE w = e
      BY <1>1, <1>4, <3>1, <3>2, <3>3, <3>4
    <3>5. CASE w # e
      BY <1>4, <3>1, <3>2, <3>3, <3>5
    <3> QED
      BY <3>4, <3>5
  <2> QED
    BY <2>1 DEF EventsInv
<1>8. QuotasInv'
  <2>1. ASSUME NEW map, NEW w \in Mailbox \cup Address, NEW max \in Nat,
               CountOf(map, w) \in Nat, Covered(map, w, max)
        PROVE  CountOf(map, w) <= max /\ made'[w] <= max * lapsed'[w] + CountOf(map, w)
    <3>1. w \in Whom /\ made'[w] = made[w] /\ lapsed'[w] = lapsed[w] /\ lapsed' \in [Whom -> Nat]
      BY <1>t, <1>1, <1>4, Claimed, CountsType
    <3>2. made[w] <= max * lapsed[w] + CountOf(map, w) /\ CountOf(map, w) <= max
      BY <2>1 DEF Covered
    <3> QED
      BY <3>1, <3>2
  <2>2. \A m \in Mailbox : CountOf(emails, m) \in Nat /\ Covered(emails, m, MaxPerEmail)
    BY <1>t, CountsType DEF CountingInv, QuotasInv
  <2>3. \A a \in Address : CountOf(ips, a) \in Nat /\ Covered(ips, a, MaxPerIp)
    BY <1>t, CountsType DEF CountingInv, QuotasInv
  <2>4. emails' = emails /\ ips' = ips
    BY <1>1
  <2> QED
    BY <2>1, <2>2, <2>3, <2>4 DEF QuotasInv, Covered
<1> QED
  BY <1>6, <1>7, <1>8 DEF CountingInv

\* A step that leaves all counts alone.
LEMMA CountsKept ==
    ASSUME EventsInv, QuotasInv, UNCHANGED <<processed, emails, ips, made, lapsed>>
    PROVE  EventsInv' /\ QuotasInv'
BY DEF EventsInv, QuotasInv, Covered, CountOf, Remembered

LEMMA RegisterCounts ==
    ASSUME CountingInv, NEW h \in Handler, NEW m \in Mailbox, NEW a \in Address, Register(h, m, a)
    PROVE  CountingInv'
<1> USE ServerConstants
<1>1. /\ Admits(m, a) /\ emails' = Bump(emails, m) /\ ips' = Bump(ips, a)
      /\ attempts < MaxRegistrations /\ attempts' = attempts + 1
      /\ Sign(h, {m, a}, m, "pro") \/ UNCHANGED <<handler, issued, made>>
      /\ UNCHANGED <<now, env, processed, acked, lapsed, givenUp>>
  BY DEF Register
<1>t. MemoryInv /\ CounterMap(emails, Mailbox) /\ CounterMap(ips, Address) /\ now \in Nat
      /\ lapsed \in [Whom -> Nat] /\ made \in [Whom -> Nat]
  BY DEF CountingInv, MemoryInv
<1>2. {m, a} \in SUBSET Whom
  BY <1>t, CountsType
<1>3. /\ made' \in [Whom -> Nat] /\ handler' \in [Handler -> Handled]
      /\ \A w \in Whom : made'[w] = made[w] \/ (w \in {m, a} /\ made'[w] = made[w] + 1)
  BY <1>t, <1>1, <1>2, Made
<1>4. /\ CounterMap(emails', Mailbox) /\ CountOf(emails, m) \in Nat
      /\ CountOf(emails', m) = CountOf(emails, m) + 1
      /\ \A j \in Mailbox \ {m} : CountOf(emails', j) = CountOf(emails, j)
  BY <1>1, <1>t, BumpedMap DEF Admits
<1>5. /\ CounterMap(ips', Address) /\ CountOf(ips, a) \in Nat
      /\ CountOf(ips', a) = CountOf(ips, a) + 1
      /\ \A j \in Address \ {a} : CountOf(ips', j) = CountOf(ips, j)
  BY <1>1, <1>t, BumpedMap DEF Admits
<1>6. MemoryInv'
  <2>1. attempts' \in 0..MaxRegistrations
    BY <1>1, <1>t DEF MemoryInv
  <2> QED
    BY <1>1, <1>t, <1>3, <1>4, <1>5, <2>1 DEF MemoryInv
<1>7. EventsInv'
  <2>1. \A e \in Event : made'[e] = made[e]
    BY <1>t, <1>3, CountsType
  <2> QED
    BY <1>1, <2>1 DEF CountingInv, EventsInv, Remembered
<1>8. CountOf(ips, a) < MaxPerIp /\ CountOf(emails, m) < MaxPerEmail
  BY <1>1 DEF Admits
<1>9. \A w \in Mailbox : /\ w \in Whom /\ CountOf(emails, w) \in Nat
                         /\ Covered(emails, w, MaxPerEmail)
  BY <1>t, CountsType DEF CountingInv, QuotasInv
<1>10. \A w \in Address : /\ w \in Whom /\ CountOf(ips, w) \in Nat /\ Covered(ips, w, MaxPerIp)
  BY <1>t, CountsType DEF CountingInv, QuotasInv
<1>11. ASSUME NEW w \in Mailbox
       PROVE  /\ CountOf(emails', w) <= MaxPerEmail
              /\ made'[w] <= MaxPerEmail * lapsed'[w] + CountOf(emails', w)
  <2>1. made[w] <= MaxPerEmail * lapsed[w] + CountOf(emails, w) /\ CountOf(emails, w) <= MaxPerEmail
    BY <1>9 DEF Covered
  <2>2. MaxPerEmail * lapsed[w] \in Nat /\ made[w] \in Nat /\ made'[w] \in Nat /\ lapsed'[w] = lapsed[w]
    BY <1>t, <1>1, <1>3, <1>9, Multiply
  <2>3. CASE w = m
    BY <1>3, <1>4, <1>8, <1>9, <2>1, <2>2, <2>3
  <2>4. CASE w # m
    <3>1. made'[w] = made[w] /\ CountOf(emails', w) = CountOf(emails, w)
      BY <1>3, <1>4, <1>9, <2>4
    <3> QED
      BY <2>1, <2>2, <3>1
  <2> QED
    BY <2>3, <2>4
<1>12. ASSUME NEW w \in Address
       PROVE  /\ CountOf(ips', w) <= MaxPerIp
              /\ made'[w] <= MaxPerIp * lapsed'[w] + CountOf(ips', w)
  <2>1. made[w] <= MaxPerIp * lapsed[w] + CountOf(ips, w) /\ CountOf(ips, w) <= MaxPerIp
    BY <1>10 DEF Covered
  <2>2. MaxPerIp * lapsed[w] \in Nat /\ made[w] \in Nat /\ made'[w] \in Nat /\ lapsed'[w] = lapsed[w]
    BY <1>t, <1>1, <1>3, <1>10, Multiply
  <2>3. CASE w = a
    BY <1>3, <1>5, <1>8, <1>10, <2>1, <2>2, <2>3
  <2>4. CASE w # a
    <3>1. made'[w] = made[w] /\ CountOf(ips', w) = CountOf(ips, w)
      BY <1>3, <1>5, <1>10, <2>4
    <3> QED
      BY <2>1, <2>2, <3>1
  <2> QED
    BY <2>3, <2>4
<1>13. QuotasInv'
  BY <1>11, <1>12 DEF QuotasInv, Covered, CountOf
<1> QED
  BY <1>6, <1>7, <1>13 DEF CountingInv

\* Some are forgotten, and their counters start again.
LEMMA Forgets ==
    ASSUME NEW map, NEW map2, NEW who, NEW w \in Whom, NEW max \in Nat,
           made \in [Whom -> Nat], lapsed \in [Whom -> Nat],
           made' = made, lapsed' = Forgetting(who),
           CountOf(map, w) \in Nat, Covered(map, w, max),
           CountOf(map2, w) = IF w \in who THEN 0 ELSE CountOf(map, w)
    PROVE  /\ CountOf(map2, w) <= max /\ made'[w] <= max * lapsed'[w] + CountOf(map2, w)
           /\ lapsed' \in [Whom -> Nat]
<1>1. lapsed'[w] = lapsed[w] + (IF w \in who THEN 1 ELSE 0) /\ lapsed' \in [Whom -> Nat]
  BY DEF Forgetting
<1>2. lapsed[w] \in Nat /\ made[w] \in Nat
  OBVIOUS
<1>3. CASE w \in who
  BY <1>1, <1>2, <1>3, CoveredStep
<1>4. CASE w \notin who
  <2>1. CountOf(map2, w) = CountOf(map, w) /\ CountOf(map, w) <= max
    BY <1>4 DEF Covered
  <2>2. made'[w] - made[w] <= CountOf(map2, w) - CountOf(map, w)
    BY <1>2, <2>1
  <2> QED
    BY <1>1, <1>2, <1>4, <2>1, <2>2, CoveredStep
<1> QED
  BY <1>1, <1>3, <1>4

\* What the server forgets starts with counters at zero.
LEMMA ForgetCounts ==
    ASSUME CountingInv, NEW gone, made' = made, lapsed' = Forgetting(gone),
           \/ processed' = processed /\ Event \cap gone = {}
           \/ processed' = <<>> /\ Remembered(processed) \subseteq gone,
           \A m \in Mailbox :
              CountOf(emails', m) = IF m \in gone THEN 0 ELSE CountOf(emails, m),
           \A a \in Address :
              CountOf(ips', a) = IF a \in gone THEN 0 ELSE CountOf(ips, a)
    PROVE  EventsInv' /\ QuotasInv' /\ lapsed' \in [Whom -> Nat]
<1> USE ServerConstants
<1>t. MemoryInv /\ lapsed \in [Whom -> Nat] /\ made \in [Whom -> Nat]
  BY DEF CountingInv, MemoryInv
<1>1. /\ \A w \in Whom : lapsed'[w] = lapsed[w] + IF w \in gone THEN 1 ELSE 0
      /\ lapsed' \in [Whom -> Nat]
  BY <1>t DEF Forgetting
<1>2. EventsInv'
  <2>1. ASSUME NEW e \in Event
        PROVE  made'[e] <= lapsed'[e] + (IF e \in Remembered(processed') THEN 1 ELSE 0)
    <3>1. e \in Whom /\ made[e] \in Nat /\ lapsed[e] \in Nat /\ made'[e] = made[e]
      BY <1>t, CountsType
    <3>2. made[e] <= lapsed[e] + (IF e \in Remembered(processed) THEN 1 ELSE 0)
      BY DEF CountingInv, EventsInv
    <3>3. CASE e \in gone
      <4>1. lapsed'[e] = lapsed[e] + 1
        BY <1>1, <3>1, <3>3
      <4> QED
        BY <3>1, <3>2, <4>1
    <3>4. CASE e \notin gone
      <4>1. lapsed'[e] = lapsed[e]
        BY <1>1, <3>1, <3>4
      <4>2. e \in Remembered(processed) => e \in Remembered(processed')
        BY <3>4
      <4> QED
        BY <3>1, <3>2, <4>1, <4>2
    <3> QED
      BY <3>3, <3>4
  <2> QED
    BY <2>1 DEF EventsInv
<1>3. ASSUME NEW m \in Mailbox
      PROVE  /\ CountOf(emails', m) <= MaxPerEmail
             /\ made'[m] <= MaxPerEmail * lapsed'[m] + CountOf(emails', m)
  <2>1. m \in Whom /\ CountOf(emails, m) \in Nat /\ Covered(emails, m, MaxPerEmail)
    BY <1>t, CountsType DEF CountingInv, QuotasInv
  <2> QED
    BY <1>t, <2>1, Forgets
<1>4. ASSUME NEW a \in Address
      PROVE  /\ CountOf(ips', a) <= MaxPerIp
             /\ made'[a] <= MaxPerIp * lapsed'[a] + CountOf(ips', a)
  <2>1. a \in Whom /\ CountOf(ips, a) \in Nat /\ Covered(ips, a, MaxPerIp)
    BY <1>t, CountsType DEF CountingInv, QuotasInv
  <2> QED
    BY <1>t, <2>1, Forgets
<1>5. QuotasInv'
  BY <1>3, <1>4 DEF QuotasInv, Covered, CountOf
<1> QED
  BY <1>1, <1>2, <1>5

LEMMA CleanupCounts ==
    ASSUME CountingInv, Cleanup
    PROVE  CountingInv'
<1> DEFINE gone == Outdated(emails) \cup Outdated(ips)
<1>1. /\ emails' = Restrict(emails, DOMAIN emails \ gone)
      /\ ips' = Restrict(ips, DOMAIN ips \ gone)
      /\ lapsed' = Forgetting(gone) /\ made' = made
      /\ UNCHANGED <<now, env, processed, handler, acked, issued, made, attempts, givenUp>>
  BY DEF Cleanup
<1>t. MemoryInv /\ CounterMap(emails, Mailbox) /\ CounterMap(ips, Address)
  BY DEF CountingInv, MemoryInv
<1>2. Event \cap gone = {}
  BY <1>t, ServerConstants DEF Outdated, CounterMap
<1> HIDE DEF gone
<1>3. /\ CounterMap(emails', Mailbox)
      /\ \A m \in Mailbox :
            CountOf(emails', m) = IF m \in gone THEN 0 ELSE CountOf(emails, m)
  BY <1>1, <1>t, ReducedMap
<1>4. /\ CounterMap(ips', Address)
      /\ \A a \in Address :
            CountOf(ips', a) = IF a \in gone THEN 0 ELSE CountOf(ips, a)
  BY <1>1, <1>t, ReducedMap
<1>5. EventsInv' /\ QuotasInv' /\ lapsed' \in [Whom -> Nat]
  BY <1>1, <1>2, <1>3, <1>4, ForgetCounts
<1>6. MemoryInv'
  BY <1>1, <1>t, <1>3, <1>4, <1>5 DEF MemoryInv
<1> QED
  BY <1>5, <1>6 DEF CountingInv

LEMMA RestartCounts ==
    ASSUME CountingInv, ServerRestarts
    PROVE  CountingInv'
<1> DEFINE known == Remembered(processed) \cup DOMAIN emails \cup DOMAIN ips
<1>1. /\ lapsed' = Forgetting(known) /\ made' = made
      /\ env' \in [webhook: BOOLEAN, signing: BOOLEAN]
      /\ processed' = <<>> /\ emails' = <<>> /\ ips' = <<>>
      /\ handler' = [h \in Handler |-> Idle]
      /\ UNCHANGED <<now, acked, issued, made, attempts, givenUp>>
  BY DEF ServerRestarts
<1>t. MemoryInv
  BY DEF CountingInv
<1>2. Remembered(processed) \subseteq known /\ DOMAIN emails \subseteq known
      /\ DOMAIN ips \subseteq known
  OBVIOUS
<1> HIDE DEF known
<1>3. \A m \in Mailbox : CountOf(emails', m) = IF m \in known THEN 0 ELSE CountOf(emails, m)
  BY <1>1, <1>2, EmptyMap DEF CountOf
<1>4. \A a \in Address : CountOf(ips', a) = IF a \in known THEN 0 ELSE CountOf(ips, a)
  BY <1>1, <1>2, EmptyMap DEF CountOf
<1>5. EventsInv' /\ QuotasInv' /\ lapsed' \in [Whom -> Nat]
  BY <1>1, <1>2, <1>3, <1>4, ForgetCounts
<1>6. MemoryInv'
  BY <1>1, <1>t, <1>5, EmptyMap, ServerConstants DEF MemoryInv, Handled
<1> QED
  BY <1>5, <1>6 DEF CountingInv

LEMMA CountingStep ==
    ASSUME CountingInv, LicenseServerStep \/ (\E tier, asked : IssueByHand(tier, asked))
    PROVE  CountingInv'
<1>t. MemoryInv /\ EventsInv /\ QuotasInv
  BY DEF CountingInv
<1>1. ASSUME NEW e \in Event, WebhookOff(e) \/ Duplicate(e)
      PROVE  CountingInv'
  <2>1. UNCHANGED <<now, env, memory, handler, history>> /\ acked' \in {acked, acked \cup {e}}
    BY <1>1 DEF WebhookOff, Duplicate, serverVars
  <2>2. UNCHANGED <<processed, emails, ips, made, lapsed, attempts, givenUp>>
    BY <2>1 DEF memory, history
  <2>3. MemoryInv'
    BY <1>t, <2>1, <2>2 DEF MemoryInv, CounterMap
  <2> QED
    BY <1>t, <2>2, <2>3, CountsKept DEF CountingInv
<1>2. ASSUME NEW h \in Handler, Mailed(h)
      PROVE  CountingInv'
  <2>1. handler[h] # Idle /\ UNCHANGED <<now, env, memory, history>>
        /\ handler' = [handler EXCEPT ![h] = Idle]
        /\ acked' = IF handler[h].event THEN acked \cup {handler[h].for} ELSE acked
    BY <1>2 DEF Mailed
  <2>2. UNCHANGED <<processed, emails, ips, made, lapsed, attempts, givenUp>>
    BY <2>1 DEF memory, history
  <2>3. MemoryInv'
    <3>1. handler' \in [Handler -> Handled]
      BY <1>t, <2>1 DEF MemoryInv, Handled
    <3>2. acked' \subseteq Event
      BY <1>t, <2>1 DEF MemoryInv, Handled
    <3> QED
      BY <1>t, <2>1, <2>2, <3>1, <3>2 DEF MemoryInv, CounterMap
  <2> QED
    BY <1>t, <2>2, <2>3, CountsKept DEF CountingInv
<1>3. ASSUME NEW h \in Handler, StripeGivesUp(h)
      PROVE  CountingInv'
  <2>1. handler[h] # Idle /\ UNCHANGED <<now, env, memory, acked, issued, made, lapsed, attempts>>
        /\ handler' = [handler EXCEPT ![h].event = FALSE]
        /\ givenUp < MaxMails /\ givenUp' = givenUp + 1
    BY <1>3 DEF StripeGivesUp
  <2>2. UNCHANGED <<processed, emails, ips>>
    BY <2>1 DEF memory
  <2>3. MemoryInv'
    <3>1. handler[h] \in [for: Event \cup Mailbox, event: BOOLEAN]
      BY <1>t, <2>1 DEF MemoryInv, Handled
    <3>2. [handler[h] EXCEPT !.event = FALSE] \in Handled
      BY <3>1 DEF Handled
    <3>4. handler' \in [Handler -> Handled]
      BY <1>t, <2>1, <3>2 DEF MemoryInv
    <3>3. givenUp' \in 0..MaxMails
      BY <1>t, <2>1, ServerConstants DEF MemoryInv
    <3> QED
      BY <1>t, <2>1, <2>2, <3>3, <3>4 DEF MemoryInv, CounterMap
  <2> QED
    BY <1>t, <2>1, <2>2, <2>3, CountsKept DEF CountingInv
<1>4. ASSUME Tick \/ \E tier, asked : IssueByHand(tier, asked)
      PROVE  CountingInv'
  <2>1. UNCHANGED <<env, memory, handler, acked, made, lapsed, attempts, givenUp>>
        /\ now' \in 0..MaxNow
    BY <1>4, <1>t, ServerConstants DEF Tick, IssueByHand, history, MemoryInv
  <2>2. UNCHANGED <<processed, emails, ips>>
    BY <2>1 DEF memory
  <2>3. MemoryInv'
    BY <1>t, <2>1, <2>2 DEF MemoryInv, CounterMap
  <2> QED
    BY <1>t, <2>1, <2>2, <2>3, CountsKept DEF CountingInv
<1> QED
  BY <1>1, <1>2, <1>3, <1>4, DeliverCounts, RegisterCounts, CleanupCounts, RestartCounts
     DEF LicenseServerStep, Stripe

-----------------------------------------------------------------------------
\* A step of the whole specification is one of the server, one that issues a
\* license by hand, or one of a process.
LEMMA CountsAlways == LicensingSpec => []CountingInv
<1>1. LicensingInit => CountingInv
  BY CountingInitial DEF LicensingInit
<1>2. CountingInv /\ [LicensingNext]_licensingVars => CountingInv'
  <2> SUFFICES ASSUME CountingInv, [LicensingNext]_licensingVars PROVE CountingInv'
    OBVIOUS
  <2>1. CASE LicenseServerStep
    BY <2>1, CountingStep
  <2>2. CASE Issue
    BY <2>2, CountingStep DEF Issue
  <2>3. CASE UNCHANGED serverVars
    <3>1. UNCHANGED <<now, env, processed, emails, ips, handler, acked, made, lapsed, attempts, givenUp>>
      BY <2>3 DEF serverVars, memory, history
    <3>2. MemoryInv'
      BY <3>1 DEF CountingInv, MemoryInv, CounterMap
    <3> QED
      BY <3>1, <3>2, CountsKept DEF CountingInv
  <2> QED
    BY <2>1, <2>2, <2>3 DEF LicensingNext, StartProcess, licensingVars
<1> QED
  BY <1>1, <1>2, PTL DEF LicensingSpec

\* However often an event is delivered, and although deliveries overlap and the
\* server restarts, it is licensed once for each time the server forgot it
\* (processEvent() of stripe-webhook.ts).
THEOREM EventsAreLicensedOnce == LicensingSpec => []OneLicensePerEvent
<1>1. CountingInv => OneLicensePerEvent
  <2> SUFFICES ASSUME CountingInv, NEW e \in Event PROVE made[e] <= 1 + lapsed[e]
    BY DEF OneLicensePerEvent
  <2>1. MemoryInv /\ made[e] <= lapsed[e] + (IF e \in Remembered(processed) THEN 1 ELSE 0)
    BY DEF CountingInv, EventsInv
  <2>2. made[e] \in Nat /\ lapsed[e] \in Nat
    BY <2>1, CountsType DEF MemoryInv
  <2> QED
    BY <2>1, <2>2
<1> QED
  BY <1>1, CountsAlways, PTL

\* Free registrations that overlap do not get past the counters of a mailbox or
\* an address together (handleFreeRegistration() of index.ts).
THEOREM QuotasAreKept == LicensingSpec => []QuotasHold
<1>1. CountingInv => QuotasHold
  <2> SUFFICES ASSUME CountingInv PROVE QuotasHold
    OBVIOUS
  <2>t. MemoryInv /\ made \in [Whom -> Nat] /\ lapsed \in [Whom -> Nat]
    BY DEF CountingInv, MemoryInv
  <2>1. ASSUME NEW map, NEW w \in Whom, NEW max \in Nat,
               CountOf(map, w) \in Nat, Covered(map, w, max)
        PROVE  made[w] <= max * (1 + lapsed[w])
    <3>1. made[w] <= max * lapsed[w] + CountOf(map, w) /\ CountOf(map, w) <= max
      BY <2>1 DEF Covered
    <3>2. /\ max * lapsed[w] \in Nat /\ max * (lapsed[w] + 1) = max * lapsed[w] + max
          /\ made[w] \in Nat /\ lapsed[w] \in Nat
      BY <2>t, Multiply
    <3>3. 1 + lapsed[w] = lapsed[w] + 1
      BY <3>2
    <3> QED
      BY <2>1, <3>1, <3>2, <3>3
  <2>2. \A m \in Mailbox : /\ m \in Whom /\ CountOf(emails, m) \in Nat
                           /\ Covered(emails, m, MaxPerEmail)
    BY <2>t, CountsType DEF CountingInv, QuotasInv
  <2>3. \A a \in Address : /\ a \in Whom /\ CountOf(ips, a) \in Nat
                           /\ Covered(ips, a, MaxPerIp)
    BY <2>t, CountsType DEF CountingInv, QuotasInv
  <2> QED
    BY <2>1, <2>2, <2>3, ServerConstants DEF QuotasHold
<1> QED
  BY <1>1, CountsAlways, PTL

\* The two maps of counters never grow past their limit (handleFreeRegistration()
\* refuses a mailbox or an address it has no room for).
THEOREM MapsStayBounded == LicensingSpec => []MapsBounded
<1>1. CountingInv => MapsBounded
  BY DEF CountingInv, MemoryInv, CounterMap, MapsBounded
<1> QED
  BY <1>1, CountsAlways, PTL

-----------------------------------------------------------------------------
(***************************************************************************)
(* What a process unlocks.  No signature but the server's own verifies, so *)
(* a file that does carries the payload of a license that was issued.      *)
(***************************************************************************)
Payload == [version: {1}, tier: {"pro", "enterprise"}, features: SUBSET Enterprise,
            maxServices: Limit, maxEventsPerDay: Limit, expiresAt: Nat]

Genuine(file) == file.form = "license" /\ file.payload \in Payload /\ file.signed = file.payload

\* If the signature of a file holds, its payload was issued.
Bound(file) ==
    \/ file.form # "license"
    \/ Verifies(file) => \E original \in issued : original.payload = file.payload

IssuedInv == now \in Nat /\ \A file \in issued : Genuine(file)

\* WithinTier and UnlockedIsIssued, of any result.
Within(result) ==
    result.outcome = "ok" =>
        LET limits == TIER_LIMITS[result.tier]
            Below(x, ceiling) == ceiling = -1 \/ (x >= 0 /\ x <= ceiling)
        IN  /\ result.features \subseteq TIER_FEATURES[result.tier]
            /\ Below(result.limits.maxServices, limits.maxServices)
            /\ Below(result.limits.maxEventsPerDay, limits.maxEventsPerDay)

Earned(result, when) ==
    result.outcome = "ok" /\ result.tier # "community" =>
        \E file \in issued : /\ file.payload.tier = result.tier
                             /\ file.payload.expiresAt >= when

UnlockingInv == IssuedInv /\ WithinTier /\ UnlockedIsIssued

LEMMA GeneratedIsGenuine ==
    ASSUME NEW tier \in {"pro", "enterprise"}, NEW asked, NEW t \in Nat,
           {asked.maxServices, asked.maxEventsPerDay} \subseteq Limit
    PROVE  Genuine(GenerateLicense(tier, asked, t))
<1> DEFINE granted == IF asked = NoOverrides THEN TIER_FEATURES[tier]
                      ELSE asked.features \cap TIER_FEATURES[tier]
<1>1. granted \in SUBSET Enterprise
  BY DEF TIER_FEATURES, Enterprise, Pro
<1>2. t + Term \in Nat
  BY LicenseConstants
<1> HIDE DEF granted
<1> QED
  BY <1>1, <1>2 DEF Genuine, GenerateLicense, Payload, granted

\* Limits are cut to those of the tier, and none is unlimited that should not be.
LEMMA Clamped ==
    ASSUME NEW x \in Limit, NEW c \in {-1, 1, 100}
    PROVE  c = -1 \/ (ClampLimit(x, c) >= 0 /\ ClampLimit(x, c) <= c)
BY DEF Limit, ClampLimit

LEMMA FallbackIsWithin ==
    ASSUME NEW error
    PROVE  Within(Fallback(error)) /\ \A when : Earned(Fallback(error), when)
BY DEF Within, Earned, Fallback, TIER_FEATURES, TIER_LIMITS

LEMMA Validated ==
    ASSUME IssuedInv, NEW file, Bound(file)
    PROVE  Within(ValidateLicense(file, now)) /\ Earned(ValidateLicense(file, now), now)
<1> DEFINE result == ValidateLicense(file, now)
           p == file.payload
<1>1. CASE file.form = "null"
  BY <1>1 DEF ValidateLicense, Fallback, Within, Earned
<1>2. CASE file.form # "null" /\ file.form # "license"
  BY <1>2, FallbackIsWithin DEF ValidateLicense
<1>3. CASE file.form = "license" /\ (p.version # 1 \/ p.tier \notin Tier \/ ~Verifies(file) \/ Expired(p, now))
  BY <1>3, FallbackIsWithin DEF ValidateLicense
<1>4. CASE file.form = "license" /\ p.tier \in Tier /\ p.version = 1 /\ Verifies(file) /\ ~Expired(p, now)
  <2>1. PICK original \in issued : original.payload = p
    BY <1>4 DEF Bound
  <2>2. p \in Payload /\ now \in Nat
    BY <2>1 DEF IssuedInv, Genuine
  <2>3. p.tier \in {"pro", "enterprise"} /\ p.expiresAt \in Nat
        /\ p.maxServices \in Limit /\ p.maxEventsPerDay \in Limit
    BY <2>2 DEF Payload
  <2>4. result = [outcome |-> "ok", tier |-> p.tier, features |-> Granted(p), error |-> FALSE,
                  limits |-> [maxServices |-> ClampLimit(p.maxServices, TIER_LIMITS[p.tier].maxServices),
                              maxEventsPerDay |-> ClampLimit(p.maxEventsPerDay,
                                                             TIER_LIMITS[p.tier].maxEventsPerDay)]]
    BY <1>4 DEF ValidateLicense
  <2> HIDE DEF result
  <2>5. Granted(p) \subseteq TIER_FEATURES[p.tier]
    BY DEF Granted
  <2>6. TIER_LIMITS[p.tier].maxServices \in {-1, 1, 100}
        /\ TIER_LIMITS[p.tier].maxEventsPerDay \in {-1, 1, 100}
    BY <2>3 DEF TIER_LIMITS
  <2>7. Within(result)
    BY <2>3, <2>4, <2>5, <2>6, Clamped DEF Within
  <2>8. p.expiresAt >= now
    BY <1>4, <2>2, <2>3 DEF Expired
  <2>9. Earned(result, now)
    BY <2>1, <2>4, <2>8 DEF Earned
  <2> QED
    BY <2>7, <2>9 DEF result
<1> QED
  BY <1>1, <1>2, <1>3, <1>4

\* What is loaded is one of the files, or the fallback.
LEMMA Loaded ==
    ASSUME IssuedInv, NEW at, \A p \in Place : Bound(at[p])
    PROVE  Within(LoadLicense(at, now)) /\ Earned(LoadLicense(at, now), now)
<1> DEFINE found == {i \in DOMAIN StandardPaths :
                        StandardPaths[i] \in Place /\ Usable(at[StandardPaths[i]])}
           first == CHOOSE i \in found : \A j \in found : i <= j
<1>1. ASSUME found # {} PROVE StandardPaths[first] \in Place
  <2>1. DOMAIN StandardPaths = {1, 2, 3}
    BY DEF StandardPaths
  <2>2. \E i \in found : \A j \in found : i <= j
    <3>1. CASE 1 \in found
      BY <2>1, <3>1
    <3>2. CASE 1 \notin found /\ 2 \in found
      BY <2>1, <3>2
    <3>3. CASE 1 \notin found /\ 2 \notin found
      BY <1>1, <2>1, <3>3
    <3> QED
      BY <3>1, <3>2, <3>3
  <2>3. first \in found
    BY <2>2
  <2> QED
    BY <2>3
<1>2. \/ \E p \in Place : LoadLicense(at, now) = ValidateLicense(at[p], now)
      \/ \E error : LoadLicense(at, now) = Fallback(error)
  BY <1>1 DEF LoadLicense
<1> QED
  BY <1>2, Validated, FallbackIsWithin

\* Whatever lies in a place is bound to a license that was issued.
LEMMA ContentIsBound ==
    ASSUME IssuedInv, NEW p \in Place, NEW file \in Content(p) \cup issued \cup {Nothing}
    PROVE  Bound(file)
<1>1. CASE file \in issued
  BY <1>1 DEF Bound
<1>2. CASE file \in {Nothing, Broken("text"), Broken("null"), Unreadable, Missing}
  BY <1>2 DEF Bound, Nothing, Broken, Unreadable, Missing
<1>3. ASSUME NEW original \in issued, file \in Forged(original)
      PROVE  Bound(file)
  <2>1. \A x : [original EXCEPT !.payload = x].signed = original.signed
    OBVIOUS
  <2>3. file.signed = original.signed
    <3>1. CASE \E t : file = [original EXCEPT !.payload.tier = t]
      BY <2>1, <3>1, Zenon
    <3>2. CASE file = [original EXCEPT !.payload.expiresAt = @ + 1]
      BY <2>1, <3>2, Zenon
    <3>3. CASE file = [original EXCEPT !.payload.features = Enterprise]
      BY <2>1, <3>3, Zenon
    <3>4. CASE file = [original EXCEPT !.key = "other"]
      BY <3>4
    <3> QED
      BY <1>3, <3>1, <3>2, <3>3, <3>4, Zenon DEF Forged
  <2>2. original.signed = original.payload
    BY DEF IssuedInv, Genuine
  <2> QED
    BY <2>2, <2>3 DEF Bound, Verifies
<1> QED
  BY <1>1, <1>2, <1>3 DEF Content

LEMMA UnlockingInitial == LicensingInit => UnlockingInv
BY DEF LicensingInit, LicenseServerInit, UnlockingInv, IssuedInv, WithinTier, UnlockedIsIssued, Unlocked, Down

\* A step that issues at most genuine licenses and leaves the process alone.
LEMMA UnlockingKept ==
    ASSUME UnlockingInv, UNCHANGED <<process, since>>, now' \in Nat, issued \subseteq issued',
           \A file \in issued' \ issued : Genuine(file)
    PROVE  UnlockingInv'
<1>1. IssuedInv'
  BY DEF UnlockingInv, IssuedInv, Genuine, Payload
<1>2. WithinTier'
  BY DEF UnlockingInv, WithinTier, Down
<1>3. UnlockedIsIssued'
  BY DEF UnlockingInv, UnlockedIsIssued, Unlocked, Down
<1> QED
  BY <1>1, <1>2, <1>3 DEF UnlockingInv

LEMMA SignIsGenuine ==
    ASSUME IssuedInv, NEW h, NEW who, NEW for, NEW tier \in {"pro", "enterprise"},
           Sign(h, who, for, tier) \/ issued' = issued
    PROVE  issued \subseteq issued' /\ \A file \in issued' \ issued : Genuine(file)
<1>1. {NoOverrides.maxServices, NoOverrides.maxEventsPerDay} \subseteq Limit
  BY DEF NoOverrides, Limit
<1>2. now \in Nat
  BY DEF IssuedInv
<1>3. Genuine(GenerateLicense(tier, NoOverrides, now))
  BY <1>1, <1>2, GeneratedIsGenuine
<1> QED
  BY <1>3 DEF Sign

LEMMA UnlockingStep ==
    ASSUME UnlockingInv, [LicensingNext]_licensingVars
    PROVE  UnlockingInv'
<1>t. IssuedInv /\ now \in Nat
  BY DEF UnlockingInv, IssuedInv
<1>1. ASSUME LicenseServerStep, UNCHANGED <<process, since>>
      PROVE  UnlockingInv'
  <2>1. ASSUME NEW e \in Event, NEW h \in Handler, Deliver(h, e)
        PROVE  UnlockingInv'
    <3>1. now' = now
      BY <2>1 DEF Deliver
    <3>2. CASE issued' = issued
      BY <1>1, <1>t, <3>1, <3>2, UnlockingKept
    <3>3. CASE Licensable(e) /\ Sign(h, {e}, e, TierOf[e])
      <4>1. TierOf[e] \in {"pro", "enterprise"}
        BY <3>3 DEF Licensable
      <4> QED
        BY <1>1, <1>t, <3>1, <3>3, <4>1, SignIsGenuine, UnlockingKept
    <3> QED
      BY <2>1, <3>2, <3>3 DEF Deliver
  <2>2. ASSUME NEW h \in Handler, NEW m \in Mailbox, NEW a \in Address, Register(h, m, a)
        PROVE  UnlockingInv'
    <3>1. now' = now /\ (Sign(h, {m, a}, m, "pro") \/ issued' = issued)
      BY <2>2 DEF Register
    <3> QED
      BY <1>1, <1>t, <3>1, SignIsGenuine, UnlockingKept
  <2>3. ASSUME issued' = issued, now' \in {now, now + 1}
        PROVE  UnlockingInv'
    BY <1>1, <1>t, <2>3, UnlockingKept
  <2>4. ASSUME NEW e \in Event, WebhookOff(e) \/ Duplicate(e)
        PROVE  issued' = issued /\ now' = now
    BY <2>4 DEF WebhookOff, Duplicate, serverVars, history
  <2>5. ASSUME NEW h \in Handler, Mailed(h) \/ StripeGivesUp(h)
        PROVE  issued' = issued /\ now' = now
    BY <2>5 DEF Mailed, StripeGivesUp, history
  <2>6. ASSUME Cleanup \/ ServerRestarts \/ Tick
        PROVE  issued' = issued /\ now' \in {now, now + 1}
    BY <2>6 DEF Cleanup, ServerRestarts, Tick, history
  <2> QED
    BY <1>1, <2>1, <2>2, <2>3, <2>4, <2>5, <2>6 DEF LicenseServerStep, Stripe
<1>2. ASSUME Issue
      PROVE  UnlockingInv'
  <2>1. PICK tier \in {"pro", "enterprise"}, asked \in Asked : IssueByHand(tier, asked)
    BY <1>2 DEF Issue
  <2>2. Genuine(GenerateLicense(tier, asked, now))
    BY <1>t, LicensingConstants, GeneratedIsGenuine
  <2>3. issued' = issued \cup {GenerateLicense(tier, asked, now)} /\ now' = now
    BY <2>1 DEF IssueByHand
  <2> QED
    BY <1>2, <1>t, <2>2, <2>3, UnlockingKept DEF Issue
<1>3. ASSUME StartProcess
      PROVE  UnlockingInv'
  <2>1. since' = now /\ UNCHANGED <<now, issued>>
    BY <1>3 DEF StartProcess, serverVars, history
  <2>2. PICK p \in Place, q \in Place : \E file \in Content(p), other \in issued \cup {Nothing} :
            process' = LoadLicense([Empty EXCEPT ![p] = file, ![q] = other], now)
    BY <1>3 DEF StartProcess
  <2>3. PICK file \in Content(p), other \in issued \cup {Nothing} :
            process' = LoadLicense([Empty EXCEPT ![p] = file, ![q] = other], now)
    BY <2>2
  <2> DEFINE at == [Empty EXCEPT ![p] = file, ![q] = other]
  <2>4. \A x \in Place : at[x] \in {Nothing, file, other}
    BY DEF Empty
  <2> HIDE DEF at
  <2>5. \A x \in Place : Bound(at[x])
    <3>1. Bound(file) /\ Bound(other) /\ Bound(Nothing)
      BY <1>t, ContentIsBound
    <3> QED
      BY <2>4, <3>1
  <2>6. Within(process') /\ Earned(process', now)
    BY <1>t, <2>3, <2>5, Loaded DEF at
  <2>7. WithinTier'
    BY <2>6 DEF Within, WithinTier
  <2>8. UnlockedIsIssued'
    BY <2>1, <2>6 DEF Earned, UnlockedIsIssued, Unlocked
  <2>9. IssuedInv'
    BY <1>t, <2>1 DEF IssuedInv, Genuine, Payload
  <2> QED
    BY <2>7, <2>8, <2>9 DEF UnlockingInv
<1>4. ASSUME UNCHANGED licensingVars
      PROVE  UnlockingInv'
  BY <1>4, <1>t, UnlockingKept DEF licensingVars, serverVars, history
<1> QED
  BY <1>1, <1>2, <1>3, <1>4 DEF LicensingNext

LEMMA UnlocksAlways == LicensingSpec => []UnlockingInv
BY UnlockingInitial, UnlockingStep, PTL DEF LicensingSpec

\* A process above the community tier was started with a license of that tier
\* which the server had signed and which was good then (generateLicense(),
\* validateLicense() and loadLicense()).
THEOREM OnlyIssuedLicensesUnlock == LicensingSpec => []UnlockedIsIssued
<1>1. UnlockingInv => UnlockedIsIssued
  BY DEF UnlockingInv
<1> QED
  BY <1>1, UnlocksAlways, PTL

\* No process goes past its tier, whatever the license it was started with asks
\* for: generateLicense() and validateLicense() both clamp.
THEOREM NobodyExceedsTheirTier == LicensingSpec => []WithinTier
<1>1. UnlockingInv => WithinTier
  BY DEF UnlockingInv
<1> QED
  BY <1>1, UnlocksAlways, PTL

-----------------------------------------------------------------------------
\* The type invariant, of the server and of a process.
THEOREM LicensingTypeCorrect == LicensingSpec => []LicensingTypeOK
<1> DEFINE Hands == byHand \in 0..MaxByHand /\ since \in 0..MaxNow
<1>1. LicensingInit => Hands
  BY LicensingConstants, ServerConstants DEF LicensingInit
<1>2. CountingInv /\ Hands /\ [LicensingNext]_licensingVars => Hands'
  <2> SUFFICES ASSUME CountingInv, Hands, [LicensingNext]_licensingVars PROVE Hands'
    OBVIOUS
  <2>1. now \in 0..MaxNow
    BY DEF CountingInv, MemoryInv
  <2> QED
    BY <2>1, LicensingConstants DEF LicensingNext, Issue, StartProcess, licensingVars
<1>3. CountingInv => LicenseServerTypeOK
  <2> SUFFICES ASSUME CountingInv PROVE LicenseServerTypeOK
    OBVIOUS
  <2>1. MemoryInv /\ CounterMap(emails, Mailbox) /\ CounterMap(ips, Address)
    BY DEF CountingInv, MemoryInv
  <2>2. DOMAIN emails \subseteq Mailbox /\ DOMAIN ips \subseteq Address
        /\ Range(emails) \cup Range(ips) \subseteq Counter
    BY <2>1 DEF CounterMap, Range
  <2>3. \A h \in Handler : handler[h] = Idle \/ handler[h].for \in Event \cup Mailbox
    BY <2>1 DEF MemoryInv, Handled
  <2> QED
    BY <2>1, <2>2, <2>3 DEF MemoryInv, LicenseServerTypeOK
<1>4. UnlockingInv =>
         (process.outcome = "ok" => process.tier \in Tier /\ process.features \subseteq Enterprise)
  <2> SUFFICES ASSUME UnlockingInv, process.outcome = "ok"
               PROVE  process.tier \in Tier /\ process.features \subseteq Enterprise
    OBVIOUS
  <2>1. process # Down
    BY DEF Down
  <2>2. process.tier \in Tier
    <3>1. CASE process.tier = "community"
      BY <3>1 DEF Tier, TIER_FEATURES
    <3>2. CASE process.tier # "community"
      <4>1. PICK file \in issued : file.payload.tier = process.tier
        BY <2>1, <3>2 DEF UnlockingInv, UnlockedIsIssued, Unlocked
      <4>2. file.payload.tier \in {"pro", "enterprise"}
        BY DEF UnlockingInv, IssuedInv, Genuine, Payload
      <4> QED
        BY <4>1, <4>2 DEF Tier, TIER_FEATURES
    <3> QED
      BY <3>1, <3>2
  <2>3. process.features \subseteq TIER_FEATURES[process.tier]
    BY <2>1 DEF UnlockingInv, WithinTier
  <2> QED
    BY <2>2, <2>3 DEF Tier, TIER_FEATURES, Enterprise, Pro
<1>5. CountingInv /\ UnlockingInv /\ Hands => LicensingTypeOK
  BY <1>3, <1>4 DEF LicensingTypeOK
<1> HIDE DEF Hands
<1> QED
  BY <1>1, <1>2, <1>5, CountsAlways, UnlocksAlways, PTL DEF LicensingSpec
=============================================================================

---------------------------- MODULE ProbeProofs ----------------------------
(***************************************************************************)
(* Theorems about the probe, for any requests, routes, limits, sampling    *)
(* configurations and switches: what is sampled, and what a recording      *)
(* holds.                                                                  *)
(***************************************************************************)
EXTENDS Probe, FiniteSetTheorems, SequenceTheorems, WellFoundedInduction, TLAPS

\* A set of natural numbers that is not empty has a least element.
Smaller == {ss \in Nat \X Nat : ss[1] < ss[2]}

LEMMA LeastOf ==
    ASSUME NEW T, T \subseteq Nat, T # {}
    PROVE  \E x \in T : \A y \in T : x <= y
<1>1. IsWellFoundedOn(Smaller, Nat)
  BY NatLessThanWellFounded, Zenon DEF OpToRel, Smaller
<1>2. PICK x \in T : \A y \in T : ~ (<<y, x>> \in Smaller)
  BY <1>1, WFMin, Zenon
<1>3. ASSUME NEW y \in T PROVE x <= y
  <2>1. ~ (<<y, x>> \in Smaller)
    BY <1>2
  <2>2. x \in Nat /\ y \in Nat
    OBVIOUS
  <2> QED
    BY <2>1, <2>2 DEF Smaller
<1> QED
  BY <1>3

-----------------------------------------------------------------------------
(***************************************************************************)
(* The sampling engine.                                                    *)
(***************************************************************************)
Configuration == [rate: Rates, newPaths: BOOLEAN, errors: BOOLEAN,
                  upstream: BOOLEAN, latency: BOOLEAN, adaptive: BOOLEAN]

\* Fresh drops the first m times of a ring: those before the first in the window.
LEMMA FreshSuffix ==
    ASSUME NEW ring \in Seq(Nat)
    PROVE  \E m \in 0..Len(ring) :
              /\ Fresh(ring) \in Seq(Nat)
              /\ Len(Fresh(ring)) = Len(ring) - m
              /\ \A i \in 1..(Len(ring) - m) : Fresh(ring)[i] = ring[i + m]
              /\ m < Len(ring) => ring[1 + m] + Window > now
              /\ \A i \in 1..Len(ring) : ring[i] + Window > now => i > m
<1> DEFINE kept == {i \in DOMAIN ring : ring[i] + Window > now}
           first == IF kept = {} THEN Len(ring) + 1 ELSE Min(kept)
<1>1. Len(ring) \in Nat /\ DOMAIN ring = 1..Len(ring)
  OBVIOUS
<1>2. /\ first \in 1..(Len(ring) + 1)
      /\ first <= Len(ring) => ring[first] + Window > now
      /\ \A i \in 1..Len(ring) : ring[i] + Window > now => i >= first
  <2>1. CASE kept = {}
    <3>1. first = Len(ring) + 1
      BY <2>1
    <3>2. \A i \in 1..Len(ring) : ~(ring[i] + Window > now)
      BY <1>1, <2>1
    <3> QED
      BY <1>1, <3>1, <3>2
  <2>2. CASE kept # {}
    <3>1. kept \subseteq Nat
      BY <1>1
    <3>2. \E x \in kept : \A y \in kept : x <= y
      BY <2>2, <3>1, LeastOf
    <3>3. Min(kept) \in kept /\ \A y \in kept : Min(kept) <= y
      BY <3>2 DEF Min
    <3>4. first \in kept /\ \A y \in kept : first <= y
      BY <2>2, <3>3
    <3> HIDE DEF first
    <3> QED
      BY <1>1, <3>4
  <2> QED
    BY <2>1, <2>2
<1>3. Fresh(ring) = SubSeq(ring, first, Len(ring))
  BY DEF Fresh
<1> HIDE DEF first, kept
<1>4. \A i \in first..Len(ring) : ring[i] \in Nat
  BY <1>1, <1>2
<1> DEFINE n == Len(ring)
           fresh == Fresh(ring)
           m == first - 1
<1>5. /\ fresh \in Seq(Nat)
      /\ Len(fresh) = IF first <= n THEN n - first + 1 ELSE 0
      /\ \A i \in 1..(n - first + 1) : fresh[i] = ring[first + i - 1]
  BY <1>1, <1>2, <1>3, <1>4, SubSeqProperties
<1>6. /\ n \in Nat /\ first \in 1..(n + 1)
      /\ first <= n => ring[first] + Window > now
      /\ \A i \in 1..n : ring[i] + Window > now => i >= first
  BY <1>1, <1>2
<1> HIDE DEF n, fresh
<1>7. m \in 0..n /\ first = m + 1
  BY <1>6
<1> HIDE DEF m
<1>8. Len(fresh) = n - m
  BY <1>5, <1>6, <1>7
<1>9. \A i \in 1..(n - m) : fresh[i] = ring[i + m]
  <2> SUFFICES ASSUME NEW i \in 1..(n - m) PROVE fresh[i] = ring[i + m]
    OBVIOUS
  <2>1. i \in 1..(n - first + 1) /\ first + i - 1 = i + m
    BY <1>6, <1>7
  <2> QED
    BY <1>5, <2>1
<1>10. m < n => ring[1 + m] + Window > now
  <2> SUFFICES ASSUME m < n PROVE ring[1 + m] + Window > now
    OBVIOUS
  <2>1. first <= n /\ 1 + m = first
    BY <1>6, <1>7
  <2> QED
    BY <1>6, <2>1
<1>11. \A i \in 1..n : ring[i] + Window > now => i > m
  BY <1>6, <1>7
<1> QED
  BY <1>5, <1>7, <1>8, <1>9, <1>10, <1>11 DEF n, fresh

LEMMA FreshType ==
    ASSUME NEW ring \in Seq(Nat)
    PROVE  Fresh(ring) \in Seq(Nat)
BY FreshSuffix

LEMMA RemovedType ==
    ASSUME NEW S, NEW seq \in Seq(S), NEW i \in DOMAIN seq
    PROVE  RemoveAt(seq, i) \in Seq(S) /\ Len(RemoveAt(seq, i)) = Len(seq) - 1
<1>1. i \in 1..Len(seq) /\ Len(seq) \in Nat
  OBVIOUS
<1>2. SubSeq(seq, 1, i - 1) \in Seq(S) /\ Len(SubSeq(seq, 1, i - 1)) = i - 1
  <2>1. \A j \in 1..(i - 1) : seq[j] \in S
    BY <1>1
  <2> QED
    BY <1>1, <2>1, SubSeqProperties
<1>3. SubSeq(seq, i + 1, Len(seq)) \in Seq(S) /\ Len(SubSeq(seq, i + 1, Len(seq))) = Len(seq) - i
  <2>1. \A j \in (i + 1)..Len(seq) : seq[j] \in S
    BY <1>1
  <2> QED
    BY <1>1, <2>1, SubSeqProperties
<1> DEFINE front == SubSeq(seq, 1, i - 1)
           back == SubSeq(seq, i + 1, Len(seq))
<1>4. RemoveAt(seq, i) = front \o back
  BY DEF RemoveAt
<1>5. front \in Seq(S) /\ back \in Seq(S) /\ Len(front) + Len(back) = Len(seq) - 1
  <2>1. Len(front) = i - 1 /\ Len(back) = Len(seq) - i
    BY <1>2, <1>3
  <2>2. i \in Nat /\ Len(seq) \in Nat
    BY <1>1
  <2> HIDE DEF front, back
  <2>3. Len(front) + Len(back) = Len(seq) - 1
    BY <2>1, <2>2
  <2> QED
    BY <1>2, <1>3, <2>3 DEF front, back
<1> HIDE DEF front, back
<1>6. front \o back \in Seq(S) /\ Len(front \o back) = Len(front) + Len(back)
  BY <1>5, ConcatProperties
<1> QED
  BY <1>4, <1>5, <1>6

LEMMA CountedType ==
    ASSUME SamplingTypeOK, NEW failed \in BOOLEAN
    PROVE  Counted(failed) \in [requests: Seq(Nat), errors: Seq(Nat)]
<1> DEFINE r == [requests |-> Append(rings.requests, now),
                 errors |-> IF failed THEN Append(rings.errors, now) ELSE rings.errors]
<1>1. rings.requests \in Seq(Nat) /\ rings.errors \in Seq(Nat) /\ now \in Nat
  BY DEF SamplingTypeOK
<1>2. r.requests \in Seq(Nat) /\ r.errors \in Seq(Nat) /\ r \in [requests: Seq(Nat), errors: Seq(Nat)]
  BY <1>1
<1>3. Pruned(r) \in [requests: Seq(Nat), errors: Seq(Nat)]
  BY <1>2, FreshType DEF Pruned
<1> QED
  BY <1>2, <1>3 DEF Counted

\* The paths that are known stay known, and no more than the table has room for.
PathsInv ==
    IsFiniteSet(seenPaths) /\ Cardinality(seenPaths) <= MaxTrackedPaths

LEMMA PathAdded ==
    ASSUME PathsInv, NEW route
    PROVE  LET paths == WithPath(route) IN
           /\ IsFiniteSet(paths) /\ Cardinality(paths) <= MaxTrackedPaths
           /\ seenPaths \subseteq paths /\ paths \subseteq seenPaths \cup {route}
           /\ Cardinality(seenPaths) = MaxTrackedPaths => paths = seenPaths
           /\ route \in paths \/ Cardinality(paths) = MaxTrackedPaths
<1>1. IsFiniteSet(seenPaths) /\ Cardinality(seenPaths) \in Nat
      /\ Cardinality(seenPaths) <= MaxTrackedPaths /\ MaxTrackedPaths \in Nat
  BY FS_CardinalityType, SamplingConstants DEF PathsInv
<1>2. CASE Cardinality(seenPaths) < MaxTrackedPaths
  <2>1. WithPath(route) = seenPaths \cup {route}
    BY <1>2 DEF WithPath
  <2>2. /\ IsFiniteSet(seenPaths \cup {route})
        /\ Cardinality(seenPaths \cup {route}) =
              IF route \in seenPaths THEN Cardinality(seenPaths) ELSE Cardinality(seenPaths) + 1
    BY <1>1, FS_AddElement
  <2> QED
    BY <1>1, <1>2, <2>1, <2>2
<1>3. CASE ~(Cardinality(seenPaths) < MaxTrackedPaths)
  BY <1>1, <1>3 DEF WithPath
<1> QED
  BY <1>2, <1>3

\* The steps of the sampling engine by itself keep the paths, and all types.
LEMMA SamplerKeeps ==
    ASSUME SamplingTypeOK, SamplingStep
    PROVE  SamplingTypeOK' /\ seenPaths' = seenPaths
<1>1. CASE GetStats
  BY <1>1, FreshType DEF GetStats, SamplingTypeOK, Pruned
<1>2. CASE UpdateConfig
  BY <1>2, SamplingConstants DEF UpdateConfig, SamplingTypeOK
<1>3. CASE ForceRecord
  <2>1. config.rate \in Rates /\ forces \in Seq(Rates) /\ Len(forces) < MaxForces
    BY <1>3 DEF ForceRecord, SamplingTypeOK
  <2>2. forces' \in Seq(Rates) /\ Len(forces') = Len(forces) + 1
    BY <1>3, <2>1, AppendProperties DEF ForceRecord
  <2>3. config' \in Configuration
    BY <1>3, SamplingConstants DEF ForceRecord, SamplingTypeOK, Configuration
  <2>4. Len(forces') <= MaxForces
    BY <2>1, <2>2, SamplingConstants
  <2> QED
    BY <1>3, <2>2, <2>3, <2>4 DEF ForceRecord, SamplingTypeOK, Configuration
<1>4. CASE ForceEnds
  <2>1. PICK i \in DOMAIN forces : /\ config' = [config EXCEPT !.rate = forces[i]]
                                   /\ forces' = RemoveAt(forces, i)
    BY <1>4 DEF ForceEnds
  <2>2. forces \in Seq(Rates) /\ Len(forces) <= MaxForces
    BY DEF SamplingTypeOK
  <2>3. forces' \in Seq(Rates) /\ Len(forces') = Len(forces) - 1
    BY <2>1, <2>2, RemovedType
  <2>4. config' \in Configuration
    <3>1. forces[i] \in Rates
      BY <2>1, <2>2
    <3>2. config \in Configuration
      BY DEF SamplingTypeOK, Configuration
    <3> QED
      BY <2>1, <3>1, <3>2 DEF Configuration
  <2>5. Len(forces') <= MaxForces
    BY <2>2, <2>3, SamplingConstants
  <2> QED
    BY <1>4, <2>3, <2>4, <2>5 DEF ForceEnds, SamplingTypeOK, Configuration
<1>5. CASE Tick
  BY <1>5 DEF Tick, SamplingTypeOK
<1> QED
  BY <1>1, <1>2, <1>3, <1>4, <1>5 DEF SamplingStep

-----------------------------------------------------------------------------
(***************************************************************************)
(* The log of one request.                                                 *)
(***************************************************************************)
\* One list of events is another with more events behind it.
Grown(old, new) ==
    Len(old) <= Len(new) /\ \A j \in 1..Len(old) : new[j] = old[j]

\* How long a log gets, and what a log that overflowed ends with.
LogInv(log) ==
    /\ log \in Logs(EventType)
    /\ Len(log.events) <= MaxEvents + (IF log.overflowed THEN 2 ELSE 1)
    /\ log.overflowed => Full(log) /\ Last(log.events) = Marker

LEMMA PushedLog ==
    ASSUME NEW log \in Logs(EventType), NEW es \in Seq(EventType)
    PROVE  LET after == Pushed(log, es) IN
           /\ after \in Logs(EventType) /\ after.overflowed = log.overflowed
           /\ Len(after.events) = Len(log.events) + Len(es)
           /\ Grown(log.events, after.events)
           /\ Len(es) > 0 => Last(after.events) = es[Len(es)]
<1> DEFINE old == log.events
           new == old \o es
<1>1. old \in Seq(EventType) /\ log.overflowed \in BOOLEAN
      /\ Pushed(log, es) = [log EXCEPT !.events = new]
  BY DEF Logs, Pushed
<1>2. /\ new \in Seq(EventType) /\ Len(new) = Len(old) + Len(es)
      /\ \A i \in 1..Len(new) : new[i] = IF i <= Len(old) THEN old[i] ELSE es[i - Len(old)]
  BY <1>1, ConcatProperties
<1>3. Len(old) \in Nat /\ Len(es) \in Nat
  BY <1>1, LenProperties
<1> HIDE DEF old, new
<1>4. Grown(old, new)
  BY <1>2, <1>3 DEF Grown
<1>5. ASSUME Len(es) > 0 PROVE Last(new) = es[Len(es)]
  <2>1. Len(new) \in 1..Len(new) /\ ~ (Len(new) <= Len(old)) /\ Len(new) - Len(old) = Len(es)
    BY <1>2, <1>3, <1>5
  <2> QED
    BY <1>2, <2>1 DEF Last
<1>6. /\ Pushed(log, es) \in Logs(EventType) /\ Pushed(log, es).events = new
      /\ Pushed(log, es).overflowed = log.overflowed
  BY <1>1, <1>2 DEF Logs
<1>7. Len(es) > 0 => Last(new) = es[Len(es)]
  BY <1>5
<1> QED
  BY <1>2, <1>4, <1>6, <1>7 DEF old

\* Recording an event keeps all the log has, and adds the event, the marker, or
\* nothing at all once the marker is there.
LEMMA RecordLog ==
    ASSUME NEW log, LogInv(log), NEW nested \in {<<>>, <<"timestamp">>},
           NEW e \in EventType
    PROVE  LET after == Record(log, nested, e) IN
           /\ LogInv(after) /\ Grown(log.events, after.events)
           /\ Last(after.events) \in {e, Marker} /\ Len(after.events) > 0
           /\ \/ Len(log.events) < Len(after.events)
              \/ Last(after.events) = Marker
<1>1. log \in Logs(EventType) /\ log.events \in Seq(EventType) /\ Len(log.events) \in Nat
      /\ log.overflowed \in BOOLEAN /\ MaxEvents \in Nat /\ MaxEvents > 0
  BY EventLogConstants DEF LogInv, Logs
<1>2. CASE ~Full(log)
  <2> DEFINE es == nested \o <<e>>
  <2>1. es \in Seq(EventType) /\ Len(es) \in {1, 2} /\ es[Len(es)] = e
    <3>1. CASE nested = <<>>
      BY <3>1
    <3>2. CASE nested = <<"timestamp">>
      BY <3>2 DEF EventType
    <3> QED
      BY <3>1, <3>2
  <2> HIDE DEF es
  <2>2. ~log.overflowed
    BY <1>2 DEF LogInv
  <2>3. Record(log, nested, e) = Pushed(log, es)
    BY <1>2 DEF Record, es
  <2>4. Len(log.events) < MaxEvents
    BY <1>1, <1>2 DEF Full
  <2> DEFINE after == Pushed(log, es)
  <2>5. /\ after \in Logs(EventType) /\ after.overflowed = log.overflowed
        /\ Len(after.events) = Len(log.events) + Len(es)
        /\ Grown(log.events, after.events)
        /\ Len(es) > 0 => Last(after.events) = es[Len(es)]
    BY <1>1, <2>1, PushedLog, Zenon
  <2> HIDE DEF after
  <2>6. Len(after.events) <= MaxEvents + 1 /\ Len(after.events) > Len(log.events)
        /\ Len(after.events) > 0
    <3>1. Len(after.events) = Len(log.events) + Len(es) /\ Len(es) \in {1, 2}
          /\ Len(log.events) \in Nat /\ MaxEvents \in Nat
      BY <1>1, <2>1, <2>5
    <3> DEFINE new == Len(after.events)
               old == Len(log.events)
               added == Len(es)
    <3>2. new = old + added /\ added \in {1, 2} /\ old \in Nat /\ MaxEvents \in Nat
          /\ old < MaxEvents
      BY <2>4, <3>1
    <3> HIDE DEF new, old, added
    <3>3. new <= MaxEvents + 1 /\ new > old /\ new > 0
      BY <3>2
    <3> QED
      BY <3>3 DEF new, old
  <2>7. LogInv(after)
    BY <2>2, <2>5, <2>6 DEF LogInv
  <2> QED
    BY <2>1, <2>3, <2>5, <2>6, <2>7 DEF after
<1>3. CASE Full(log) /\ log.overflowed
  <2>1. Record(log, nested, e) = log
    BY <1>3 DEF Record, Overflow
  <2>2. Len(log.events) > 0
    BY <1>1, <1>3 DEF Full
  <2> QED
    BY <1>1, <1>3, <2>1, <2>2 DEF LogInv, Grown
<1>4. CASE Full(log) /\ ~log.overflowed
  <2> DEFINE one == <<Marker>>
             marked == Pushed(log, one)
             after == [marked EXCEPT !.overflowed = TRUE]
  <2>1. Record(log, nested, e) = after
    BY <1>4 DEF Record, Overflow
  <2>2. <<Marker>> \in Seq(EventType) /\ Len(<<Marker>>) = 1 /\ <<Marker>>[1] = Marker
    BY DEF EventType
  <2> HIDE DEF one
  <2>21. one \in Seq(EventType) /\ Len(one) = 1 /\ one[1] = Marker
    BY <2>2 DEF one
  <2>22. /\ marked \in Logs(EventType)
         /\ Len(marked.events) = Len(log.events) + Len(one)
         /\ Grown(log.events, marked.events)
         /\ Len(one) > 0 => Last(marked.events) = one[Len(one)]
    BY <1>1, <2>21, PushedLog, Zenon
  <2>3. /\ marked \in Logs(EventType)
        /\ Len(marked.events) = Len(log.events) + 1
        /\ Grown(log.events, marked.events)
        /\ Last(marked.events) = Marker
    BY <2>21, <2>22
  <2> HIDE DEF marked
  <2>4. after \in Logs(EventType) /\ after.events = marked.events /\ after.overflowed
    BY <2>3 DEF Logs
  <2> HIDE DEF after
  <2>5. Len(after.events) = Len(log.events) + 1 /\ Last(after.events) = Marker
        /\ Grown(log.events, after.events)
    BY <2>3, <2>4
  <2>6. Len(log.events) >= MaxEvents /\ Len(log.events) <= MaxEvents + 1
    BY <1>4 DEF LogInv, Full
  <2>7. LogInv(after)
    BY <1>1, <2>4, <2>5, <2>6 DEF LogInv, Full
  <2> QED
    BY <1>1, <2>1, <2>5, <2>7
<1> QED
  BY <1>2, <1>3, <1>4

LEMMA FreshLog ==
    LogInv(EmptyLog) /\ LogInv(Record(EmptyLog, <<>>, "in"))
    /\ Record(EmptyLog, <<>>, "in").events = <<"in">>
<1>1. MaxEvents \in Nat /\ MaxEvents > 0
  BY EventLogConstants
<1>2. <<>> \in Seq(EventType) /\ Len(<<>>) = 0
  OBVIOUS
<1>3. EmptyLog \in Logs(EventType) /\ EmptyLog.events = <<>> /\ ~EmptyLog.overflowed
  BY DEF EmptyLog, Logs
<1>4. LogInv(EmptyLog) /\ ~Full(EmptyLog)
  BY <1>1, <1>2, <1>3 DEF LogInv, Full
<1>5. LogInv(Record(EmptyLog, <<>>, "in"))
  <2>1. "in" \in EventType /\ <<>> \in {<<>>, <<"timestamp">>}
    BY DEF EventType
  <2> QED
    BY <1>4, <2>1, RecordLog, Zenon
<1>6. Record(EmptyLog, <<>>, "in") = Pushed(EmptyLog, <<>> \o <<"in">>)
  BY <1>4 DEF Record
<1>7. Record(EmptyLog, <<>>, "in").events = <<"in">>
  <2>1. Pushed(EmptyLog, <<>> \o <<"in">>).events = <<>> \o (<<>> \o <<"in">>)
    BY DEF Pushed, EmptyLog
  <2>2. <<>> \o (<<>> \o <<"in">>) = <<"in">>
    BY ConcatEmptySeq
  <2> QED
    BY <1>6, <2>1, <2>2
<1> QED
  BY <1>4, <1>5, <1>7

LEMMA GrownFurther ==
    ASSUME NEW a \in Seq(EventType), NEW b \in Seq(EventType), NEW c \in Seq(EventType),
           Grown(a, b), Grown(b, c)
    PROVE  Grown(a, c)
<1>1. Len(a) \in Nat /\ Len(b) \in Nat /\ Len(c) \in Nat
  BY LenProperties
<1> QED
  BY <1>1 DEF Grown

LEMMA GrownIsPrefix ==
    ASSUME NEW a \in Seq(EventType), NEW b \in Seq(EventType), Grown(a, b),
           Len(a) < Len(b)
    PROVE  IsStrictPrefix(a, b)
<1>1. Len(a) \in Nat /\ Len(b) \in Nat /\ Len(a) <= Len(b)
      /\ \A j \in 1..Len(a) : b[j] = a[j]
  BY LenProperties DEF Grown
<1>2. \A j \in 1..Len(a) : a[j] \in EventType /\ b[j] \in EventType
  BY <1>1
<1>3. /\ SubSeq(a, 1, Len(a)) \in Seq(EventType) /\ SubSeq(b, 1, Len(a)) \in Seq(EventType)
      /\ Len(SubSeq(a, 1, Len(a))) = Len(a) /\ Len(SubSeq(b, 1, Len(a))) = Len(a)
      /\ \A j \in 1..Len(a) : SubSeq(a, 1, Len(a))[j] = a[j] /\ SubSeq(b, 1, Len(a))[j] = b[j]
  BY <1>1, <1>2, SubSeqProperties
<1>4. SubSeq(a, 1, Len(a)) = SubSeq(b, 1, Len(a))
  BY <1>1, <1>3, SeqEqual
<1>5. a # b
  BY <1>1
<1> QED
  BY <1>1, <1>4, <1>5 DEF IsStrictPrefix, IsPrefix

-----------------------------------------------------------------------------
(***************************************************************************)
(* The invariants.                                                         *)
(***************************************************************************)
Req == [phase: {"none", "passed", "open"}, route: Route, head: Reason,
        log: Logs(EventType), notes: Nat, ends: Nat, owed: BOOLEAN]

\* A route that was claimed as new is known, unless the table was full.
ClaimInv ==
    \A r \in Request :
        req[r].head = "new_path" =>
            req[r].route \in seenPaths \/ Cardinality(seenPaths) = MaxTrackedPaths

SamplingInv == SamplingTypeOK /\ PathsInv

\* What a recording that was handed over has to do with the log it came from.
Copied(es, log) ==
    /\ Grown(es, log.events)
    /\ Len(es) > 0 /\ Last(es) \in {"out", Marker}

\* A later recording, and the one before it.
After(es, before) ==
    Last(es) = Marker \/ (Grown(before, es) /\ Len(before) < Len(es))

\* A request q and the recordings recs that were handed over for it.
FrameInv(q, recs) ==
    /\ LogInv(q.log)
    /\ q.phase # "open" => recs = <<>> /\ ~q.owed
    /\ q.phase = "open" => Len(q.log.events) > 0 /\ q.log.events[1] = "in"
    /\ \A i \in 1..Len(recs) : Copied(recs[i], q.log)
    /\ \A i \in 2..Len(recs) : After(recs[i], recs[i - 1])
    /\ q.owed => recs # <<>>

FramesInv == \A r \in Request : FrameInv(req[r], recordings[r])

ProbeInv == ProbeTypeOK /\ PathsInv /\ ClaimInv /\ FramesInv

\* More events in the log leave what was copied from it a beginning of it.
LEMMA CopiedStays ==
    ASSUME NEW es \in Seq(EventType), NEW log \in Logs(EventType),
           NEW after \in Logs(EventType),
           Copied(es, log), Grown(log.events, after.events)
    PROVE  Copied(es, after)
<1>1. log.events \in Seq(EventType) /\ after.events \in Seq(EventType)
  BY DEF Logs
<1>2. Grown(es, after.events)
  BY <1>1, GrownFurther DEF Copied
<1> QED
  BY <1>2 DEF Copied

\* An event that joins the log of an open request.
LEMMA FrameNoted ==
    ASSUME NEW q \in Req, NEW recs \in Seq(Seq(EventType)), FrameInv(q, recs),
           NEW after \in Req, q.phase = "open", after.phase = "open",
           LogInv(after.log), Grown(q.log.events, after.log.events),
           after.owed = q.owed
    PROVE  FrameInv(after, recs)
<1>1. q.log \in Logs(EventType) /\ after.log \in Logs(EventType)
  BY DEF FrameInv, LogInv
<1>2. q.log.events \in Seq(EventType) /\ after.log.events \in Seq(EventType)
      /\ Len(q.log.events) \in Nat /\ Len(after.log.events) \in Nat
  BY <1>1 DEF Logs
<1>3. Len(after.log.events) > 0 /\ after.log.events[1] = "in"
  <2>1. Len(q.log.events) > 0 /\ q.log.events[1] = "in"
    BY DEF FrameInv
  <2>2. 1 \in 1..Len(q.log.events)
    BY <1>2, <2>1
  <2> QED
    BY <1>2, <2>1, <2>2 DEF Grown
<1>4. \A i \in 1..Len(recs) : Copied(recs[i], after.log)
  <2>1. ASSUME NEW i \in 1..Len(recs) PROVE Copied(recs[i], after.log)
    <3>1. recs[i] \in Seq(EventType) /\ Copied(recs[i], q.log)
      BY <2>1 DEF FrameInv
    <3> QED
      BY <1>1, <3>1, CopiedStays
  <2> QED
    BY <2>1
<1> QED
  BY <1>3, <1>4 DEF FrameInv

\* A response that joins the log, and the recording that may be handed over.
LEMMA FrameEnded ==
    ASSUME NEW q \in Req, NEW recs \in Seq(Seq(EventType)), FrameInv(q, recs),
           NEW after \in Req, q.phase = "open", after.phase = "open",
           LogInv(after.log), Grown(q.log.events, after.log.events),
           Last(after.log.events) \in {"out", Marker}, Len(after.log.events) > 0,
           Len(q.log.events) < Len(after.log.events) \/ Last(after.log.events) = Marker
    PROVE  FrameInv(after, Append(recs, after.log.events))
<1> DEFINE es == after.log.events
           now2 == Append(recs, es)
           n == Len(recs)
<1>1. q.log \in Logs(EventType) /\ after.log \in Logs(EventType)
  BY DEF FrameInv, LogInv
<1>2. es \in Seq(EventType) /\ q.log.events \in Seq(EventType) /\ n \in Nat
      /\ Len(es) \in Nat /\ Len(q.log.events) \in Nat
  BY <1>1 DEF Logs
<1>3. now2 \in Seq(Seq(EventType)) /\ Len(now2) = n + 1 /\ now2 # <<>>
      /\ (\A i \in 1..n : now2[i] = recs[i]) /\ now2[n + 1] = es
  BY <1>2, AppendProperties
<1>4. Len(es) > 0 /\ es[1] = "in"
  <2>1. Len(q.log.events) > 0 /\ q.log.events[1] = "in"
    BY DEF FrameInv
  <2>2. 1 \in 1..Len(q.log.events)
    BY <1>2, <2>1
  <2> QED
    BY <1>2, <2>1, <2>2 DEF Grown
<1>5. \A i \in 1..n : recs[i] \in Seq(EventType) /\ Copied(recs[i], q.log)
  BY DEF FrameInv
<1>6. Copied(es, after.log)
  BY <1>2, <1>4 DEF Copied, Grown
<1>7. \A i \in 1..n : Copied(recs[i], after.log)
  BY <1>1, <1>5, CopiedStays
<1>8. \A i \in 2..n : After(recs[i], recs[i - 1])
  BY DEF FrameInv
<1> HIDE DEF es, now2, n
<1>9. \A i \in 1..(n + 1) : Copied(now2[i], after.log)
  <2>1. ASSUME NEW i \in 1..(n + 1) PROVE Copied(now2[i], after.log)
    <3>1. CASE i \in 1..n
      BY <1>3, <1>7, <3>1
    <3>2. CASE i = n + 1
      BY <1>3, <1>6, <3>2
    <3> QED
      BY <1>2, <2>1, <3>1, <3>2
  <2> QED
    BY <2>1
<1>10. \A i \in 2..(n + 1) : After(now2[i], now2[i - 1])
  <2>1. ASSUME NEW i \in 2..(n + 1) PROVE After(now2[i], now2[i - 1])
    <3>1. CASE i \in 2..n
      <4>1. i \in 1..n /\ i - 1 \in 1..n
        BY <1>2, <3>1
      <4> QED
        BY <1>3, <1>8, <3>1, <4>1
    <3>2. CASE i = n + 1
      <4>1. n \in 1..n /\ i - 1 = n
        BY <1>2, <2>1, <3>2
      <4>2. now2[i] = es /\ now2[i - 1] = recs[n]
        BY <1>3, <3>2, <4>1
      <4>3. recs[n] \in Seq(EventType) /\ Copied(recs[n], q.log)
        BY <1>5, <4>1
      <4>4. Last(es) = Marker \/ Len(q.log.events) < Len(es)
        BY DEF es
      <4>5. Grown(recs[n], es)
        BY <1>2, <4>3, GrownFurther DEF Copied, es
      <4>6. Len(recs[n]) <= Len(q.log.events) /\ Len(recs[n]) \in Nat
        BY <4>3 DEF Copied, Grown
      <4>7. CASE Last(es) = Marker
        BY <4>2, <4>7 DEF After
      <4>8. CASE Len(q.log.events) < Len(es)
        BY <1>2, <4>2, <4>5, <4>6, <4>8 DEF After
      <4> QED
        BY <4>4, <4>7, <4>8
    <3> QED
      BY <1>2, <2>1, <3>1, <3>2
  <2> QED
    BY <2>1
<1>11. after.log.events = es /\ Append(recs, es) = now2
  BY DEF es, now2
<1> QED
  BY <1>3, <1>4, <1>9, <1>10, <1>11 DEF FrameInv

-----------------------------------------------------------------------------
(***************************************************************************)
(* The invariants hold at the start and are kept by every step.            *)
(***************************************************************************)
LEMMA ProbeStarts == ProbeInit => ProbeInv
<1> SUFFICES ASSUME ProbeInit PROVE ProbeInv
  OBVIOUS
<1>1. SamplingTypeOK
  BY SamplingConstants, EmptySeq DEF ProbeInit, SamplingInit, SamplingTypeOK
<1>2. PathsInv
  BY FS_EmptySet, SamplingConstants DEF ProbeInit, SamplingInit, PathsInv
<1>3. Unseen \in Req
  <2>1. (CHOOSE r \in Route : TRUE) \in Route
    BY ProbeConstants
  <2>2. EmptyLog \in Logs(EventType)
    BY FreshLog DEF LogInv
  <2> QED
    BY <2>1, <2>2 DEF Unseen, Req, Reason
<1>4. req \in [Request -> Req] /\ \A r \in Request : recordings[r] = <<>> /\ req[r] = Unseen
  BY <1>3 DEF ProbeInit
<1>5. recordings \in [Request -> Seq(Seq(EventType))]
  BY EmptySeq DEF ProbeInit
<1>6. ProbeTypeOK
  <2>1. \A r \in Request : Len(recordings[r]) <= req[r].ends
    BY <1>4 DEF Unseen
  <2> QED
    BY <1>1, <1>4, <1>5, <2>1 DEF ProbeTypeOK, ProbeInit, Req
<1>7. ClaimInv
  BY <1>4 DEF ClaimInv, Unseen
<1>8. FramesInv
  <2>1. ASSUME NEW r \in Request PROVE FrameInv(req[r], recordings[r])
    <3>1. req[r] = Unseen /\ recordings[r] = <<>>
      BY <1>4
    <3>2. FrameInv(Unseen, <<>>)
      BY FreshLog DEF FrameInv, Unseen
    <3> QED
      BY <3>1, <3>2
  <2> QED
    BY <2>1 DEF FramesInv
<1> QED
  BY <1>2, <1>6, <1>7, <1>8 DEF ProbeInv

\* The lifecycle of the probe, and the sampling engine by itself.
LEMMA LifecycleKeeps ==
    ASSUME ProbeInv, Start \/ Shutdown \/ SetEnabled \/ Sampler
    PROVE  ProbeInv'
<1>1. SamplingTypeOK' /\ seenPaths' = seenPaths /\ req' = req /\ recordings' = recordings
  <2>1. SamplingTypeOK
    BY DEF ProbeInv, ProbeTypeOK
  <2>2. CASE Sampler
    BY <2>1, <2>2, SamplerKeeps DEF Sampler
  <2>3. CASE Start \/ Shutdown \/ SetEnabled
    BY <2>1, <2>3 DEF Start, Shutdown, SetEnabled, samplingVars, SamplingTypeOK
  <2> QED
    BY <2>2, <2>3
<1>2. /\ <<started, shipping, enabled>>' \in BOOLEAN \X BOOLEAN \X BOOLEAN
      /\ installed' \subseteq Always \cup Features \cup Drivers
  <2>0. /\ <<started, shipping, enabled>> \in BOOLEAN \X BOOLEAN \X BOOLEAN
        /\ installed \subseteq Always \cup Features \cup Drivers
    BY DEF ProbeInv, ProbeTypeOK
  <2>1. CASE Start
    BY <2>0, <2>1 DEF Start, Databases
  <2>2. CASE Shutdown
    BY <2>0, <2>2 DEF Shutdown
  <2>3. CASE SetEnabled
    BY <2>0, <2>3 DEF SetEnabled
  <2>4. CASE Sampler
    BY <2>0, <2>4 DEF Sampler, lifecycleVars
  <2> QED
    BY <2>1, <2>2, <2>3, <2>4
<1>3. ProbeTypeOK'
  BY <1>1, <1>2 DEF ProbeInv, ProbeTypeOK
<1>4. PathsInv' /\ ClaimInv' /\ FramesInv'
  BY <1>1 DEF ProbeInv, PathsInv, ClaimInv, FramesInv
<1> QED
  BY <1>2, <1>3, <1>4 DEF ProbeInv

\* What a step of request r leaves to show: that what it makes of r is in order
\* and that the paths stay in order.
LEMMA RequestKeeps ==
    ASSUME ProbeInv, NEW r \in Request, NEW q, NEW recs,
           q \in Req, recs \in Seq(Seq(EventType)), Len(recs) <= q.ends,
           FrameInv(q, recs),
           q.head = "new_path" =>
               q.route \in seenPaths' \/ Cardinality(seenPaths') = MaxTrackedPaths,
           req' = [req EXCEPT ![r] = q],
           recordings' = [recordings EXCEPT ![r] = recs],
           SamplingTypeOK', PathsInv', seenPaths \subseteq seenPaths',
           Cardinality(seenPaths) = MaxTrackedPaths => seenPaths' = seenPaths,
           UNCHANGED lifecycleVars
    PROVE  ProbeInv'
<1>1. req \in [Request -> Req] /\ recordings \in [Request -> Seq(Seq(EventType))]
      /\ \A s \in Request : Len(recordings[s]) <= req[s].ends
  BY DEF ProbeInv, ProbeTypeOK, Req
<1>2. /\ req' \in [Request -> Req] /\ recordings' \in [Request -> Seq(Seq(EventType))]
      /\ req'[r] = q /\ recordings'[r] = recs
      /\ \A s \in Request \ {r} : req'[s] = req[s] /\ recordings'[s] = recordings[s]
  BY <1>1
<1>3. ProbeTypeOK'
  <2>1. ASSUME NEW s \in Request PROVE Len(recordings'[s]) <= req'[s].ends
    <3>1. CASE s = r
      BY <1>2, <3>1
    <3>2. CASE s # r
      BY <1>1, <1>2, <3>2
    <3> QED
      BY <3>1, <3>2
  <2>2. /\ <<started, shipping, enabled>>' \in BOOLEAN \X BOOLEAN \X BOOLEAN
        /\ installed' \subseteq Always \cup Features \cup Drivers
    BY DEF ProbeInv, ProbeTypeOK, lifecycleVars
  <2> QED
    BY <1>2, <2>1, <2>2 DEF ProbeTypeOK, Req
<1>4. ClaimInv'
  <2>1. ASSUME NEW s \in Request, req'[s].head = "new_path"
        PROVE  req'[s].route \in seenPaths' \/ Cardinality(seenPaths') = MaxTrackedPaths
    <3>1. CASE s = r
      BY <1>2, <2>1, <3>1
    <3>2. CASE s # r
      BY <1>2, <2>1, <3>2 DEF ProbeInv, ClaimInv
    <3> QED
      BY <3>1, <3>2
  <2> QED
    BY <2>1 DEF ClaimInv
<1>5. FramesInv'
  <2>1. ASSUME NEW s \in Request PROVE FrameInv(req'[s], recordings'[s])
    <3>1. CASE s = r
      BY <1>2, <3>1
    <3>2. CASE s # r
      BY <1>2, <3>2 DEF ProbeInv, FramesInv
    <3> QED
      BY <3>1, <3>2
  <2> QED
    BY <2>1 DEF FramesInv
<1> QED
  BY <1>3, <1>4, <1>5 DEF ProbeInv

LEMMA PassKeeps ==
    ASSUME ProbeInv, NEW r \in Request, Pass(r)
    PROVE  ProbeInv'
<1> DEFINE q == [req[r] EXCEPT !.phase = "passed"]
<1>1. req[r] \in Req /\ req[r].phase = "none" /\ FrameInv(req[r], recordings[r])
      /\ recordings[r] \in Seq(Seq(EventType)) /\ Len(recordings[r]) <= req[r].ends
  BY DEF Pass, ProbeInv, ProbeTypeOK, FramesInv, Req
<1>2. q \in Req /\ q.phase = "passed" /\ q.log = req[r].log /\ q.owed = req[r].owed
      /\ q.ends = req[r].ends /\ q.head = req[r].head /\ q.route = req[r].route
  BY <1>1 DEF Req
<1>3. req' = [req EXCEPT ![r] = q]
  BY DEF Pass
<1>4. recordings' = [recordings EXCEPT ![r] = recordings[r]]
  BY DEF Pass, ProbeInv, ProbeTypeOK
<1>5. SamplingTypeOK' /\ PathsInv' /\ seenPaths' = seenPaths /\ UNCHANGED lifecycleVars
  BY DEF Pass, samplingVars, ProbeInv, ProbeTypeOK, SamplingTypeOK, PathsInv
<1>6. FrameInv(q, recordings[r])
  BY <1>1, <1>2 DEF FrameInv
<1>7. q.head = "new_path" =>
          q.route \in seenPaths' \/ Cardinality(seenPaths') = MaxTrackedPaths
  BY <1>2, <1>5 DEF ProbeInv, ClaimInv
<1> HIDE DEF q
<1>8. Len(recordings[r]) <= q.ends
  BY <1>1, <1>2
<1> QED
  BY <1>1, <1>2, <1>3, <1>4, <1>5, <1>6, <1>7, <1>8, RequestKeeps

LEMMA NestedType == Nested \in {<<>>, <<"timestamp">>}
  BY DEF Nested

\* A record of the closure of a request, field by field.
LEMMA OpenedType ==
    ASSUME NEW q \in Req, NEW route \in Route, NEW head \in Reason
    PROVE  LET o == Opened(q, route, head) IN
           /\ o \in Req /\ o.phase = "open" /\ o.route = route /\ o.head = head
           /\ o.log = Record(EmptyLog, <<>>, "in") /\ o.owed = q.owed /\ o.ends = q.ends
<1> DEFINE log == Record(EmptyLog, <<>>, "in")
<1>1. log \in Logs(EventType)
  BY FreshLog DEF LogInv
<1> HIDE DEF log
<1>2. Opened(q, route, head) = [q EXCEPT !.phase = "open", !.route = route, !.head = head,
                                         !.log = log]
  BY DEF Opened, log
<1> QED
  BY <1>1, <1>2 DEF Req, log

LEMMA NotedType ==
    ASSUME NEW q \in Req, NEW nested, Record(q.log, nested, "note") \in Logs(EventType)
    PROVE  LET o == Noted(q, nested) IN
           /\ o \in Req /\ o.phase = q.phase /\ o.route = q.route /\ o.head = q.head
           /\ o.log = Record(q.log, nested, "note") /\ o.owed = q.owed /\ o.ends = q.ends
<1> DEFINE log == Record(q.log, nested, "note")
<1> HIDE DEF log
<1>1. Noted(q, nested) = [q EXCEPT !.log = log, !.notes = q.notes + 1]
  BY DEF Noted, log, Req
<1>2. q.notes + 1 \in Nat /\ log \in Logs(EventType)
  BY DEF Req, log
<1> QED
  BY <1>1, <1>2 DEF Req, log

LEMMA EndedType ==
    ASSUME NEW q \in Req, NEW log \in Logs(EventType), NEW failed \in BOOLEAN,
           config.errors \in BOOLEAN
    PROVE  LET o == Ended(q, log, failed) IN
           /\ o \in Req /\ o.phase = q.phase /\ o.route = q.route /\ o.head = q.head
           /\ o.log = log /\ o.ends = q.ends + 1
           /\ o.owed = (q.owed \/ (failed /\ config.errors))
<1> DEFINE debt == q.owed \/ (failed /\ config.errors)
<1>1. debt \in BOOLEAN
  BY DEF Req
<1> HIDE DEF debt
<1>2. Ended(q, log, failed) = [q EXCEPT !.log = log, !.ends = q.ends + 1, !.owed = debt]
  BY DEF Ended, debt, Req
<1>3. q.ends + 1 \in Nat
  BY DEF Req
<1> QED
  BY <1>1, <1>2, <1>3 DEF Req, debt

LEMMA OpenKeeps ==
    ASSUME ProbeInv, NEW r \in Request, Open(r)
    PROVE  ProbeInv'
<1>1. PICK route \in Route, up \in BOOLEAN, lucky \in BOOLEAN :
          /\ HeadDecision(route, up, lucky)
          /\ req' = [req EXCEPT ![r] = Opened(req[r], route, HeadReason(route, up, lucky))]
  <2>1. req \in [Request -> Req]
    BY DEF ProbeInv, ProbeTypeOK, Req
  <2> QED
    BY <2>1 DEF Open
<1> DEFINE head == HeadReason(route, up, lucky)
           q == Opened(req[r], route, head)
<1>2. head \in Reason
  BY DEF HeadReason, Reason
<1>3. req[r] \in Req /\ req[r].phase = "none" /\ FrameInv(req[r], recordings[r])
      /\ recordings[r] \in Seq(Seq(EventType)) /\ Len(recordings[r]) <= req[r].ends
  BY DEF Open, ProbeInv, ProbeTypeOK, FramesInv, Req
<1>4. recordings[r] = <<>> /\ ~req[r].owed
  BY <1>3 DEF FrameInv
<1>5. q \in Req /\ q.phase = "open" /\ q.route = route /\ q.head = head
      /\ q.log = Record(EmptyLog, <<>>, "in") /\ q.owed = req[r].owed /\ q.ends = req[r].ends
  BY <1>2, <1>3, OpenedType
<1>6. /\ SamplingTypeOK' /\ PathsInv' /\ seenPaths \subseteq seenPaths'
      /\ Cardinality(seenPaths) = MaxTrackedPaths => seenPaths' = seenPaths
      /\ head = "new_path" => route \in seenPaths' \/ Cardinality(seenPaths') = MaxTrackedPaths
  <2>1. SamplingTypeOK /\ PathsInv
    BY DEF ProbeInv, ProbeTypeOK
  <2>2. seenPaths' = IF head = "new_path" THEN WithPath(route) ELSE seenPaths
    BY <1>1 DEF HeadDecision, Claimed
  <2>3. CASE head = "new_path"
    <3>1. seenPaths' = WithPath(route)
      BY <2>2, <2>3
    <3>2. /\ IsFiniteSet(seenPaths') /\ Cardinality(seenPaths') <= MaxTrackedPaths
          /\ seenPaths \subseteq seenPaths' /\ seenPaths' \subseteq seenPaths \cup {route}
          /\ Cardinality(seenPaths) = MaxTrackedPaths => seenPaths' = seenPaths
          /\ route \in seenPaths' \/ Cardinality(seenPaths') = MaxTrackedPaths
      BY <2>1, <3>1, PathAdded
    <3>3. seenPaths' \in SUBSET Route
      BY <2>1, <3>2 DEF SamplingTypeOK
    <3> QED
      BY <1>1, <2>1, <3>2, <3>3 DEF HeadDecision, SamplingTypeOK, PathsInv
  <2>4. CASE head # "new_path"
    <3>1. seenPaths' = seenPaths
      BY <2>2, <2>4
    <3> QED
      BY <1>1, <2>1, <2>4, <3>1 DEF HeadDecision, SamplingTypeOK, PathsInv
  <2> QED
    BY <2>3, <2>4
<1>7. FrameInv(q, recordings[r])
  <2>1. LogInv(q.log) /\ q.log.events = <<"in">>
    BY <1>5, FreshLog
  <2>2. Len(q.log.events) > 0 /\ q.log.events[1] = "in"
    BY <2>1
  <2> QED
    BY <1>4, <1>5, <2>1, <2>2 DEF FrameInv
<1>8. req' = [req EXCEPT ![r] = q]
  BY <1>1
<1>9. recordings' = [recordings EXCEPT ![r] = recordings[r]] /\ UNCHANGED lifecycleVars
  BY DEF Open, ProbeInv, ProbeTypeOK
<1> HIDE DEF q, head
<1>10. Len(recordings[r]) <= q.ends
       /\ (q.head = "new_path" =>
               q.route \in seenPaths' \/ Cardinality(seenPaths') = MaxTrackedPaths)
  BY <1>3, <1>5, <1>6
<1> QED
  BY <1>3, <1>5, <1>6, <1>7, <1>8, <1>9, <1>10, RequestKeeps

LEMMA NoteKeeps ==
    ASSUME ProbeInv, NEW r \in Request, Note(r)
    PROVE  ProbeInv'
<1>0. PICK nested \in {<<>>, Nested} : req' = [req EXCEPT ![r] = Noted(req[r], nested)]
  <2>1. req \in [Request -> Req]
    BY DEF ProbeInv, ProbeTypeOK, Req
  <2> QED
    BY <2>1 DEF Note
<1> DEFINE q == Noted(req[r], nested)
<1>1. req[r] \in Req /\ req[r].phase = "open" /\ FrameInv(req[r], recordings[r])
      /\ recordings[r] \in Seq(Seq(EventType)) /\ Len(recordings[r]) <= req[r].ends
      /\ req \in [Request -> Req]
  BY DEF Note, ProbeInv, ProbeTypeOK, FramesInv, Req
<1>2. LogInv(req[r].log)
  BY <1>1 DEF FrameInv
<1>3. /\ LogInv(Record(req[r].log, nested, "note"))
      /\ Grown(req[r].log.events, Record(req[r].log, nested, "note").events)
  <2>1. "note" \in EventType
    BY DEF EventType
  <2> QED
    BY <1>2, <2>1, NestedType, RecordLog
<1>4. q \in Req /\ q.phase = "open" /\ q.route = req[r].route /\ q.head = req[r].head
      /\ q.log = Record(req[r].log, nested, "note") /\ q.owed = req[r].owed
      /\ q.ends = req[r].ends
  BY <1>1, <1>3, NotedType DEF LogInv
<1>5. SamplingTypeOK' /\ PathsInv' /\ seenPaths' = seenPaths /\ UNCHANGED lifecycleVars
  BY DEF Note, samplingVars, ProbeInv, ProbeTypeOK, SamplingTypeOK, PathsInv
<1>6. req' = [req EXCEPT ![r] = q]
  BY <1>0
<1>7. recordings' = [recordings EXCEPT ![r] = recordings[r]]
  BY DEF Note, ProbeInv, ProbeTypeOK
<1> HIDE DEF q
<1>8. FrameInv(q, recordings[r])
  BY <1>1, <1>3, <1>4, FrameNoted
<1>9. Len(recordings[r]) <= q.ends
      /\ (q.head = "new_path" =>
              q.route \in seenPaths' \/ Cardinality(seenPaths') = MaxTrackedPaths)
  BY <1>1, <1>4, <1>5 DEF ProbeInv, ClaimInv
<1> QED
  BY <1>1, <1>4, <1>5, <1>6, <1>7, <1>8, <1>9, RequestKeeps

LEMMA EndKeeps ==
    ASSUME ProbeInv, NEW r \in Request, End(r)
    PROVE  ProbeInv'
<1> DEFINE log == Record(req[r].log, Nested, "out")
<1>1. req[r] \in Req /\ req[r].phase = "open" /\ FrameInv(req[r], recordings[r])
      /\ recordings[r] \in Seq(Seq(EventType)) /\ Len(recordings[r]) <= req[r].ends
      /\ req \in [Request -> Req] /\ recordings \in [Request -> Seq(Seq(EventType))]
  BY DEF End, ProbeInv, ProbeTypeOK, FramesInv, Req
<1>2. PICK failed \in BOOLEAN, slow \in BOOLEAN :
          /\ TailDecision(req[r].route, req[r].head, failed, slow)
          /\ recordings' = IF Keeps(TailReason(req[r].head, failed, slow))
               THEN [recordings EXCEPT ![r] = Append(recordings[r], log.events)]
               ELSE recordings
          /\ req' = [req EXCEPT ![r] = Ended(req[r], log, failed)]
  BY <1>1 DEF End, Finalized
<1>3. LogInv(req[r].log)
  BY <1>1 DEF FrameInv
<1>4. /\ LogInv(log) /\ Grown(req[r].log.events, log.events)
      /\ Last(log.events) \in {"out", Marker} /\ Len(log.events) > 0
      /\ Len(req[r].log.events) < Len(log.events) \/ Last(log.events) = Marker
  <2>1. "out" \in EventType
    BY DEF EventType
  <2> QED
    BY <1>3, <2>1, NestedType, RecordLog
<1>5. config.errors \in BOOLEAN
  BY DEF ProbeInv, ProbeTypeOK, SamplingTypeOK
<1> DEFINE q == Ended(req[r], log, failed)
           kept == Keeps(TailReason(req[r].head, failed, slow))
           recs == IF kept THEN Append(recordings[r], log.events) ELSE recordings[r]
<1>6. log \in Logs(EventType) /\ log.events \in Seq(EventType)
  BY <1>4 DEF LogInv, Logs
<1> HIDE DEF log
<1>7. q \in Req /\ q.phase = "open" /\ q.route = req[r].route /\ q.head = req[r].head
      /\ q.log = log /\ q.ends = req[r].ends + 1
      /\ q.owed = (req[r].owed \/ (failed /\ config.errors))
  BY <1>1, <1>5, <1>6, EndedType
<1>8. ~kept => ~(failed /\ config.errors)
  BY DEF Keeps, TailReason
<1>9. /\ SamplingTypeOK' /\ PathsInv' /\ seenPaths \subseteq seenPaths'
      /\ Cardinality(seenPaths) = MaxTrackedPaths => seenPaths' = seenPaths
  <2>1. SamplingTypeOK /\ PathsInv /\ req[r].route \in Route
    BY <1>1 DEF ProbeInv, ProbeTypeOK, Req
  <2>2. /\ IsFiniteSet(seenPaths') /\ Cardinality(seenPaths') <= MaxTrackedPaths
        /\ seenPaths \subseteq seenPaths' /\ seenPaths' \subseteq seenPaths \cup {req[r].route}
        /\ Cardinality(seenPaths) = MaxTrackedPaths => seenPaths' = seenPaths
    BY <1>2, <2>1, PathAdded DEF TailDecision
  <2>3. Counted(failed) \in [requests: Seq(Nat), errors: Seq(Nat)]
    BY <2>1, CountedType
  <2>4. Pruned(Counted(failed)) \in [requests: Seq(Nat), errors: Seq(Nat)]
    BY <2>3, FreshType DEF Pruned
  <2>5. rings' \in [requests: Seq(Nat), errors: Seq(Nat)]
    BY <1>2, <2>3, <2>4 DEF TailDecision
  <2>6. until' \in Nat
    BY <1>2, <2>1, SamplingConstants DEF TailDecision, SamplingTypeOK
  <2>7. seenPaths' \in SUBSET Route
    BY <2>1, <2>2 DEF SamplingTypeOK
  <2> QED
    BY <1>2, <2>1, <2>2, <2>5, <2>6, <2>7 DEF TailDecision, SamplingTypeOK, PathsInv
<1>10. req' = [req EXCEPT ![r] = q] /\ UNCHANGED lifecycleVars
  BY <1>2 DEF End
<1> HIDE DEF q
<1>11. q.head = "new_path" =>
           q.route \in seenPaths' \/ Cardinality(seenPaths') = MaxTrackedPaths
  BY <1>7, <1>9 DEF ProbeInv, ClaimInv
<1>12. CASE kept
  <2> DEFINE more == Append(recordings[r], log.events)
  <2>1. recordings' = [recordings EXCEPT ![r] = more]
    BY <1>2, <1>12
  <2>2. more \in Seq(Seq(EventType)) /\ Len(more) = Len(recordings[r]) + 1
    BY <1>1, <1>6, AppendProperties
  <2>3. FrameInv(q, more)
    BY <1>1, <1>4, <1>7, FrameEnded
  <2>4. Len(more) <= q.ends
    <3>1. req[r].ends \in Nat /\ Len(recordings[r]) \in Nat
      BY <1>1 DEF Req
    <3> QED
      BY <1>1, <1>7, <2>2, <3>1
  <2> HIDE DEF more
  <2> QED
    BY <1>7, <1>9, <1>10, <1>11, <2>1, <2>2, <2>3, <2>4, RequestKeeps
<1>13. CASE ~kept
  <2>1. recordings' = [recordings EXCEPT ![r] = recordings[r]]
    BY <1>1, <1>2, <1>13
  <2>2. q.owed = req[r].owed
    BY <1>1, <1>7, <1>8, <1>13 DEF Req
  <2>3. FrameInv(q, recordings[r])
    BY <1>1, <1>4, <1>7, <2>2, FrameNoted
  <2>4. Len(recordings[r]) <= q.ends
    <3>1. req[r].ends \in Nat /\ Len(recordings[r]) \in Nat
      BY <1>1 DEF Req
    <3> QED
      BY <1>1, <1>7, <3>1
  <2> QED
    BY <1>1, <1>7, <1>9, <1>10, <1>11, <2>1, <2>3, <2>4, RequestKeeps
<1> QED
  BY <1>12, <1>13

LEMMA ProbeStepKeeps == ProbeInv /\ [ProbeNext]_probeVars => ProbeInv'
<1> SUFFICES ASSUME ProbeInv, [ProbeNext]_probeVars PROVE ProbeInv'
  OBVIOUS
<1>1. CASE Start \/ Shutdown \/ SetEnabled \/ Sampler
  BY <1>1, LifecycleKeeps
<1>2. CASE \E r \in Request : Pass(r) \/ Open(r) \/ Note(r) \/ End(r)
  BY <1>2, PassKeeps, OpenKeeps, NoteKeeps, EndKeeps
<1>3. CASE UNCHANGED probeVars
  <2>1. /\ samplingVars' = samplingVars /\ lifecycleVars' = lifecycleVars
        /\ req' = req /\ recordings' = recordings
    BY <1>3 DEF probeVars
  <2>2. now' = now /\ config' = config /\ seenPaths' = seenPaths /\ rings' = rings
        /\ until' = until /\ forces' = forces /\ started' = started
        /\ installed' = installed /\ shipping' = shipping /\ enabled' = enabled
    BY <2>1 DEF samplingVars, lifecycleVars
  <2> QED
    BY <2>1, <2>2 DEF ProbeInv, ProbeTypeOK, SamplingTypeOK, PathsInv, ClaimInv, FramesInv
<1> QED
  BY <1>1, <1>2, <1>3 DEF ProbeNext

LEMMA ProbeAlways == ProbeSpec => []ProbeInv
  BY ProbeStarts, ProbeStepKeeps, PTL DEF ProbeSpec

-----------------------------------------------------------------------------
(***************************************************************************)
(* Theorems.                                                               *)
(***************************************************************************)
\* Every step leaves every variable of the sampling engine, the lifecycle and
\* the middleware in its type, and hands over no more recordings of a request
\* than it was answered.
THEOREM ProbeTypeCorrect == ProbeSpec => []ProbeTypeOK
<1>1. ProbeInv => ProbeTypeOK
  BY DEF ProbeInv
<1> QED
  BY <1>1, ProbeAlways, PTL

\* A request that was answered with a server error while errors were to be
\* recorded has a recording, whatever the head decided (finalize(), TailReason).
THEOREM ErrorsAreRecorded == ProbeSpec => []ErrorsNeverMissed
<1>1. ProbeInv => ErrorsNeverMissed
  BY DEF ProbeInv, FramesInv, FrameInv, ErrorsNeverMissed
<1> QED
  BY <1>1, ProbeAlways, PTL

\* A recording begins with its request, ends with its response or the marker,
\* and a later one extends the one before it (recording-context.ts, finalize()).
THEOREM RecordingsAreFramed == ProbeSpec => []Framed
<1>1. ASSUME ProbeInv, NEW r \in Request, NEW i \in DOMAIN recordings[r]
      PROVE  LET es == recordings[r][i]
             IN  /\ es[1] = "in"
                 /\ Last(es) \in {"out", Marker}
                 /\ i > 1 => IsStrictPrefix(recordings[r][i - 1], es) \/ Marker \in ToSet(es)
  <2>1. /\ recordings[r] \in Seq(Seq(EventType)) /\ FrameInv(req[r], recordings[r])
        /\ req[r] \in Req
    BY <1>1 DEF ProbeInv, ProbeTypeOK, FramesInv, Req
  <2> DEFINE recs == recordings[r]
             es == recs[i]
  <2>2. i \in 1..Len(recs) /\ Len(recs) \in Nat /\ es \in Seq(EventType) /\ Len(es) \in Nat
    BY <2>1
  <2>3. Copied(es, req[r].log)
    BY <2>1, <2>2 DEF FrameInv
  <2>4. req[r].phase = "open"
    BY <2>1, <2>2 DEF FrameInv
  <2>5. 1 \in 1..Len(es) /\ Len(es) \in 1..Len(es)
    BY <2>2, <2>3 DEF Copied
  <2>6. es[1] = "in" /\ Last(es) \in {"out", Marker}
    BY <2>1, <2>3, <2>4, <2>5 DEF Copied, Grown, FrameInv
  <2>7. ASSUME i > 1 PROVE IsStrictPrefix(recs[i - 1], es) \/ Marker \in ToSet(es)
    <3>1. i \in 2..Len(recs) /\ i - 1 \in 1..Len(recs)
      BY <2>2, <2>7
    <3>2. After(es, recs[i - 1])
      BY <2>1, <3>1 DEF FrameInv
    <3>3. CASE Last(es) = Marker
      BY <2>2, <2>5, <3>3 DEF Last, ToSet
    <3>4. CASE Grown(recs[i - 1], es) /\ Len(recs[i - 1]) < Len(es)
      <4>1. recs[i - 1] \in Seq(EventType)
        BY <2>1, <3>1
      <4> QED
        BY <2>2, <3>4, <4>1, GrownIsPrefix
    <3> QED
      BY <3>2, <3>3, <3>4 DEF After
  <2> QED
    BY <2>6, <2>7
<1>2. ProbeInv => Framed
  BY <1>1 DEF Framed
<1> QED
  BY <1>2, ProbeAlways, PTL

\* A log never exceeds MAX_EVENTS by more than a nested timestamp and the marker
\* (record()).
THEOREM LogsAreBounded == ProbeSpec => []LogBounded
<1>1. ASSUME ProbeInv, NEW r \in Request PROVE Len(req[r].log.events) <= MaxEvents + 2
  <2>1. LogInv(req[r].log)
    BY <1>1 DEF ProbeInv, FramesInv, FrameInv
  <2>2. Len(req[r].log.events) \in Nat /\ MaxEvents \in Nat
    BY <2>1, EventLogConstants DEF LogInv, Logs
  <2> QED
    BY <2>1, <2>2 DEF LogInv
<1>2. ProbeInv => LogBounded
  BY <1>1 DEF LogBounded
<1> QED
  BY <1>2, ProbeAlways, PTL

\* No two requests were both the first of one route while there was room to
\* remember routes (headDecision()).
OnceInv == ProbeInv /\ NewPathOnce

LEMMA NewPathStarts == ProbeInit => NewPathOnce
  BY DEF ProbeInit, NewPathOnce, Unseen

LEMMA NewPathKeeps == ProbeInv /\ NewPathOnce /\ ProbeInv' /\ [ProbeNext]_probeVars => NewPathOnce'
<1> SUFFICES ASSUME ProbeInv, NewPathOnce, ProbeInv', [ProbeNext]_probeVars PROVE NewPathOnce'
  OBVIOUS
<1>0. req \in [Request -> Req] /\ SamplingTypeOK /\ PathsInv
  BY DEF ProbeInv, ProbeTypeOK, Req
<1>1. ASSUME Cardinality(seenPaths) = MaxTrackedPaths => seenPaths' = seenPaths,
             \A r \in Request : req'[r].head = req[r].head /\ req'[r].route = req[r].route
      PROVE  NewPathOnce'
  BY <1>1 DEF NewPathOnce
<1>2. CASE Start \/ Shutdown \/ SetEnabled \/ Sampler
  <2>1. req' = req /\ seenPaths' = seenPaths
    <3>1. CASE Sampler
      BY <1>0, <3>1, SamplerKeeps DEF Sampler
    <3>2. CASE Start \/ Shutdown \/ SetEnabled
      BY <3>2 DEF Start, Shutdown, SetEnabled, samplingVars
    <3> QED
      BY <1>2, <3>1, <3>2
  <2> QED
    BY <1>1, <2>1
<1>3. ASSUME NEW r \in Request, Pass(r) PROVE NewPathOnce'
  <2>1. seenPaths' = seenPaths
    BY <1>3 DEF Pass, samplingVars
  <2>2. ASSUME NEW s \in Request PROVE req'[s].head = req[s].head /\ req'[s].route = req[s].route
    BY <1>0, <1>3 DEF Pass, Req
  <2> QED
    BY <1>1, <2>1, <2>2
<1>4. ASSUME NEW r \in Request, Note(r) PROVE NewPathOnce'
  <2>1. seenPaths' = seenPaths
    BY <1>4 DEF Note, samplingVars
  <2>2. PICK nested : req' = [req EXCEPT ![r] = Noted(req[r], nested)]
    BY <1>0, <1>4 DEF Note
  <2>3. Noted(req[r], nested).head = req[r].head /\ Noted(req[r], nested).route = req[r].route
    BY <1>0, <1>4 DEF Noted, Req
  <2>4. ASSUME NEW s \in Request PROVE req'[s].head = req[s].head /\ req'[s].route = req[s].route
    <3>1. CASE s = r
      BY <1>0, <2>2, <2>3, <3>1
    <3>2. CASE s # r
      BY <1>0, <2>2, <3>2
    <3> QED
      BY <3>1, <3>2
  <2> QED
    BY <1>1, <2>1, <2>4
<1>5. ASSUME NEW r \in Request, End(r) PROVE NewPathOnce'
  <2>0. PICK failed \in BOOLEAN, slow \in BOOLEAN :
            /\ TailDecision(req[r].route, req[r].head, failed, slow)
            /\ req' = [req EXCEPT ![r] = Ended(req[r], Record(req[r].log, Nested, "out"), failed)]
    BY <1>0, <1>5 DEF End
  <2> DEFINE log == Record(req[r].log, Nested, "out")
  <2> HIDE DEF log
  <2>1. /\ TailDecision(req[r].route, req[r].head, failed, slow)
        /\ req' = [req EXCEPT ![r] = Ended(req[r], log, failed)]
    BY <2>0 DEF log
  <2>2. Cardinality(seenPaths) = MaxTrackedPaths => seenPaths' = seenPaths
    BY <1>0, <2>1, PathAdded DEF TailDecision
  <2>3. Ended(req[r], log, failed).head = req[r].head
        /\ Ended(req[r], log, failed).route = req[r].route
    BY <1>0, <1>5 DEF Ended, Req
  <2>4. ASSUME NEW s \in Request PROVE req'[s].head = req[s].head /\ req'[s].route = req[s].route
    <3>1. CASE s = r
      BY <1>0, <2>1, <2>3, <3>1
    <3>2. CASE s # r
      BY <1>0, <2>1, <3>2
    <3> QED
      BY <3>1, <3>2
  <2> QED
    BY <1>1, <2>2, <2>4
<1>6. ASSUME NEW r \in Request, Open(r) PROVE NewPathOnce'
  <2>1. PICK route \in Route, up \in BOOLEAN, lucky \in BOOLEAN :
            /\ HeadDecision(route, up, lucky)
            /\ req' = [req EXCEPT ![r] = Opened(req[r], route, HeadReason(route, up, lucky))]
    BY <1>0, <1>6 DEF Open
  <2> DEFINE head == HeadReason(route, up, lucky)
  <2>2. req'[r].head = head /\ req'[r].route = route
    <3>1. Opened(req[r], route, head).head = head /\ Opened(req[r], route, head).route = route
      BY <1>0, <1>6 DEF Opened, Req
    <3> QED
      BY <1>0, <2>1, <3>1
  <2>3. \A s \in Request \ {r} : req'[s] = req[s]
    BY <1>0, <2>1
  <2>4. seenPaths' = IF head = "new_path" THEN WithPath(route) ELSE seenPaths
    BY <2>1 DEF HeadDecision, Claimed
  <2>5. Cardinality(seenPaths) = MaxTrackedPaths => seenPaths' = seenPaths
    BY <1>0, <2>4, PathAdded
  <2>6. head = "new_path" => route \notin seenPaths
    BY DEF HeadReason
  <2> HIDE DEF head
  <2>7. ASSUME NEW s \in Request \ {r}, req'[s].head = "new_path", head = "new_path",
               req'[s].route = route
        PROVE  Cardinality(seenPaths') = MaxTrackedPaths
    <3>1. req[s].head = "new_path" /\ req[s].route \notin seenPaths
      BY <2>3, <2>6, <2>7
    <3>2. Cardinality(seenPaths) = MaxTrackedPaths
      BY <3>1 DEF ProbeInv, ClaimInv
    <3> QED
      BY <2>5, <3>2
  <2>8. ASSUME NEW s \in Request, NEW t \in Request, s # t, req'[s].route = req'[t].route,
               req'[s].head = "new_path", req'[t].head = "new_path"
        PROVE  Cardinality(seenPaths') = MaxTrackedPaths
    <3>1. CASE s = r
      BY <2>2, <2>7, <2>8, <3>1
    <3>2. CASE t = r
      BY <2>2, <2>7, <2>8, <3>2
    <3>3. CASE s # r /\ t # r
      <4>1. req'[s] = req[s] /\ req'[t] = req[t]
        BY <2>3, <3>3
      <4>2. Cardinality(seenPaths) = MaxTrackedPaths
        BY <2>8, <4>1 DEF NewPathOnce
      <4> QED
        BY <2>5, <4>2
    <3> QED
      BY <3>1, <3>2, <3>3
  <2> QED
    BY <2>8 DEF NewPathOnce
<1>7. CASE UNCHANGED probeVars
  <2>1. req' = req /\ seenPaths' = seenPaths
    BY <1>7 DEF probeVars, samplingVars
  <2> QED
    BY <1>1, <2>1
<1> QED
  BY <1>2, <1>3, <1>4, <1>5, <1>6, <1>7 DEF ProbeNext

\* Two overlapping requests never both claim a route as new while the table of
\* paths has room (headDecision() claims it before it returns).
THEOREM NewPathsAreClaimedOnce == ProbeSpec => []NewPathOnce
<1>1. OnceInv /\ [ProbeNext]_probeVars => OnceInv'
  BY ProbeStepKeeps, NewPathKeeps DEF OnceInv
<1>2. ProbeInit => OnceInv
  BY ProbeStarts, NewPathStarts DEF OnceInv
<1>3. OnceInv => NewPathOnce
  BY DEF OnceInv
<1> QED
  BY <1>1, <1>2, <1>3, PTL DEF ProbeSpec

-----------------------------------------------------------------------------
(***************************************************************************)
(* The rings.  An error enters the window behind, and together with, its   *)
(* request, so that the errors follow each other as their requests do.  A  *)
(* prune drops the front of a ring, up to the first time in the window:    *)
(* the request of the first error that stays is in the window, so it and   *)
(* the requests behind it stay, wherever the clock was set meanwhile.      *)
(***************************************************************************)
Rings == [requests: Seq(Nat), errors: Seq(Nat)]

\* g gives each error of es its request in qs, in their order.
Matching(g, qs, es) ==
    /\ g \in [1..Len(es) -> 1..Len(qs)]
    /\ \A i, j \in 1..Len(es) : i < j => g[i] < g[j]
    /\ \A i \in 1..Len(es) : qs[g[i]] = es[i]

Paired(qs, es) == \E g : Matching(g, qs, es)

RingsInv(r) == Paired(r.requests, r.errors)

\* The request of an error that stays is in the window, so it stays.
LEMMA FreshPaired ==
    ASSUME NEW qs \in Seq(Nat), NEW es \in Seq(Nat), Paired(qs, es)
    PROVE  Paired(Fresh(qs), Fresh(es))
<1>1. Len(qs) \in Nat /\ Len(es) \in Nat
  OBVIOUS
<1>2. PICK g : Matching(g, qs, es)
  BY DEF Paired
<1>3. /\ g \in [1..Len(es) -> 1..Len(qs)]
      /\ \A i, j \in 1..Len(es) : i < j => g[i] < g[j]
      /\ \A i \in 1..Len(es) : qs[g[i]] = es[i]
  BY <1>2 DEF Matching
<1> DEFINE moreQs == Fresh(qs)
           moreEs == Fresh(es)
<1>5. PICK m \in 0..Len(qs) :
        /\ Len(moreQs) = Len(qs) - m
        /\ \A i \in 1..(Len(qs) - m) : moreQs[i] = qs[i + m]
        /\ \A i \in 1..Len(qs) : qs[i] + Window > now => i > m
  BY FreshSuffix
<1>6. PICK n \in 0..Len(es) :
        /\ Len(moreEs) = Len(es) - n
        /\ \A i \in 1..(Len(es) - n) : moreEs[i] = es[i + n]
        /\ n < Len(es) => es[1 + n] + Window > now
  BY FreshSuffix
<1> HIDE DEF moreQs, moreEs
<1>7. ASSUME NEW i \in 1..Len(moreEs)
      PROVE  i + n \in 1..Len(es) /\ moreEs[i] = es[i + n]
  BY <1>1, <1>6
<1>8. ASSUME NEW k \in 1..Len(es), k > n PROVE g[k] \in 1..Len(qs) /\ g[k] > m
  <2>1. 1 + n \in 1..Len(es) /\ n < Len(es)
    BY <1>1, <1>8
  <2>2. g[1 + n] \in 1..Len(qs) /\ qs[g[1 + n]] + Window > now
    BY <1>3, <1>6, <2>1
  <2>3. g[1 + n] > m
    BY <1>5, <2>2
  <2>4. g[k] \in 1..Len(qs)
    BY <1>3
  <2>5. CASE k = 1 + n
    BY <2>3, <2>4, <2>5
  <2>6. CASE 1 + n < k
    <3>1. g[1 + n] < g[k]
      BY <1>3, <2>1, <2>6
    <3> QED
      BY <1>1, <2>2, <2>3, <2>4, <3>1
  <2> QED
    BY <1>1, <1>8, <2>5, <2>6
<1> DEFINE h == [i \in 1..Len(moreEs) |-> g[i + n] - m]
<1>9. ASSUME NEW i \in 1..Len(moreEs)
      PROVE  h[i] \in 1..Len(moreQs) /\ h[i] + m = g[i + n]
  <2>1. i + n \in 1..Len(es) /\ i + n > n
    BY <1>1, <1>7
  <2>2. g[i + n] \in 1..Len(qs) /\ g[i + n] > m
    BY <1>8, <2>1
  <2>3. h[i] = g[i + n] - m
    OBVIOUS
  <2> DEFINE k == g[i + n]
  <2> HIDE DEF h, k
  <2>4. k \in 1..Len(qs) /\ k > m /\ h[i] = k - m
    BY <2>2, <2>3 DEF k
  <2>5. h[i] \in 1..Len(moreQs) /\ h[i] + m = k
    BY <1>1, <1>5, <2>4
  <2> QED
    BY <2>5 DEF k
<1>10. h \in [1..Len(moreEs) -> 1..Len(moreQs)]
  BY <1>9
<1> HIDE DEF h
<1>11. ASSUME NEW i \in 1..Len(moreEs), NEW j \in 1..Len(moreEs), i < j
       PROVE  h[i] < h[j]
  <2>1. i + n < j + n /\ i + n \in 1..Len(es) /\ j + n \in 1..Len(es)
    BY <1>6, <1>7, <1>11
  <2>2. g[i + n] < g[j + n]
    BY <1>3, <2>1
  <2>3. h[i] + m < h[j] + m
    BY <1>9, <2>2
  <2>4. Len(moreQs) \in Nat /\ h[i] \in 1..Len(moreQs) /\ h[j] \in 1..Len(moreQs)
    BY <1>1, <1>5, <1>9
  <2> QED
    BY <2>3, <2>4
<1>12. ASSUME NEW i \in 1..Len(moreEs) PROVE moreQs[h[i]] = moreEs[i]
  <2>1. moreQs[h[i]] = qs[h[i] + m]
    BY <1>5, <1>9
  <2>2. moreQs[h[i]] = qs[g[i + n]]
    BY <1>9, <2>1
  <2> QED
    BY <1>3, <1>7, <2>2
<1>13. Matching(h, moreQs, moreEs)
  BY <1>10, <1>11, <1>12 DEF Matching
<1> QED
  BY <1>13 DEF Paired, moreQs, moreEs

\* An outcome enters the window: a request, and maybe an error with it.
LEMMA OutcomePaired ==
    ASSUME NEW qs \in Seq(Nat), NEW es \in Seq(Nat), Paired(qs, es), now \in Nat
    PROVE  /\ Paired(Append(qs, now), es)
           /\ Paired(Append(qs, now), Append(es, now))
<1>1. Len(qs) \in Nat /\ Len(es) \in Nat
  OBVIOUS
<1>2. PICK g : Matching(g, qs, es)
  BY DEF Paired
<1>3. /\ g \in [1..Len(es) -> 1..Len(qs)]
      /\ \A i, j \in 1..Len(es) : i < j => g[i] < g[j]
      /\ \A i \in 1..Len(es) : qs[g[i]] = es[i]
  BY <1>2 DEF Matching
<1> DEFINE moreQs == Append(qs, now)
           moreEs == Append(es, now)
<1>5. /\ Len(moreQs) = Len(qs) + 1
      /\ \A i \in 1..Len(qs) : moreQs[i] = qs[i]
      /\ moreQs[Len(qs) + 1] = now
  BY <1>1, AppendProperties
<1>6. /\ Len(moreEs) = Len(es) + 1
      /\ \A i \in 1..Len(es) : moreEs[i] = es[i]
      /\ moreEs[Len(es) + 1] = now
  BY <1>1, AppendProperties
<1> HIDE DEF moreQs, moreEs
<1>7. \A i \in 1..Len(es) : g[i] \in 1..Len(qs) /\ g[i] \in 1..Len(moreQs)
  <2>1. \A i \in 1..Len(es) : g[i] \in 1..Len(qs)
    BY <1>3
  <2>2. 1..Len(qs) \subseteq 1..Len(moreQs)
    BY <1>1, <1>5
  <2> QED
    BY <2>1, <2>2
<1>8. Paired(moreQs, es)
  <2>1. g \in [1..Len(es) -> 1..Len(moreQs)]
    BY <1>3, <1>7
  <2>2. \A i \in 1..Len(es) : moreQs[g[i]] = es[i]
    BY <1>3, <1>5, <1>7
  <2>3. Matching(g, moreQs, es)
    BY <1>3, <2>1, <2>2 DEF Matching
  <2> QED
    BY <2>3 DEF Paired
<1>9. Paired(moreQs, moreEs)
  <2> DEFINE h == [i \in 1..Len(moreEs) |-> IF i <= Len(es) THEN g[i] ELSE Len(qs) + 1]
  <2>1. ASSUME NEW i \in 1..Len(moreEs)
        PROVE  \/ i \in 1..Len(es) /\ h[i] = g[i] /\ moreEs[i] = es[i]
               \/ i = Len(es) + 1 /\ h[i] = Len(qs) + 1 /\ moreEs[i] = now
    <3>1. CASE i \in 1..Len(es)
      BY <1>1, <1>6, <3>1
    <3>2. CASE i = Len(es) + 1
      <4>1. ~(i <= Len(es))
        BY <1>1, <3>2
      <4> QED
        BY <1>6, <3>2, <4>1
    <3> QED
      BY <1>1, <1>6, <3>1, <3>2
  <2>2. h \in [1..Len(moreEs) -> 1..Len(moreQs)]
    <3>1. Len(moreQs) \in Nat /\ Len(moreQs) > 0 /\ Len(qs) + 1 = Len(moreQs)
      BY <1>1, <1>5
    <3>2. ASSUME NEW i \in 1..Len(moreEs) PROVE h[i] \in 1..Len(moreQs)
      BY <1>7, <2>1, <3>1
    <3> QED
      BY <3>2
  <2> HIDE DEF h
  <2>3. ASSUME NEW i \in 1..Len(moreEs), NEW j \in 1..Len(moreEs), i < j
        PROVE  h[i] < h[j]
    <3>1. i \in 1..Len(es) /\ h[i] = g[i] /\ g[i] \in 1..Len(qs)
      <4>1. i # Len(es) + 1
        BY <1>1, <1>6, <2>3
      <4> QED
        BY <1>7, <2>1, <4>1
    <3>2. CASE j \in 1..Len(es) /\ h[j] = g[j]
      BY <1>3, <2>3, <3>1, <3>2
    <3>3. CASE h[j] = Len(qs) + 1
      BY <1>1, <3>1, <3>3
    <3> QED
      BY <2>1, <3>2, <3>3
  <2>4. ASSUME NEW i \in 1..Len(moreEs) PROVE moreQs[h[i]] = moreEs[i]
    <3>1. CASE i \in 1..Len(es) /\ h[i] = g[i] /\ moreEs[i] = es[i]
      <4>1. moreQs[g[i]] = qs[g[i]]
        BY <1>5, <1>7, <3>1
      <4> QED
        BY <1>3, <3>1, <4>1
    <3>2. CASE h[i] = Len(qs) + 1 /\ moreEs[i] = now
      BY <1>5, <3>2
    <3> QED
      BY <2>1, <3>1, <3>2
  <2>5. Matching(h, moreQs, moreEs)
    BY <2>2, <2>3, <2>4 DEF Matching
  <2> QED
    BY <2>5 DEF Paired
<1> QED
  BY <1>8, <1>9 DEF moreQs, moreEs

LEMMA PrunedRings ==
    ASSUME NEW r \in Rings, RingsInv(r)
    PROVE  Pruned(r) \in Rings /\ RingsInv(Pruned(r))
<1>1. r.requests \in Seq(Nat) /\ r.errors \in Seq(Nat)
  BY DEF Rings
<1>2. Fresh(r.requests) \in Seq(Nat) /\ Fresh(r.errors) \in Seq(Nat)
  BY <1>1, FreshType
<1>3. Paired(Fresh(r.requests), Fresh(r.errors))
  BY <1>1, FreshPaired DEF RingsInv
<1> QED
  BY <1>2, <1>3 DEF Pruned, Rings, RingsInv

LEMMA CountedRings ==
    ASSUME rings \in Rings, RingsInv(rings), now \in Nat, NEW failed \in BOOLEAN
    PROVE  Counted(failed) \in Rings /\ RingsInv(Counted(failed))
<1> DEFINE r == [requests |-> Append(rings.requests, now),
                 errors |-> IF failed THEN Append(rings.errors, now) ELSE rings.errors]
<1>1. rings.requests \in Seq(Nat) /\ rings.errors \in Seq(Nat)
  BY DEF Rings
<1>2. r \in Rings
  BY <1>1 DEF Rings
<1>3. RingsInv(r)
  BY <1>1, OutcomePaired DEF RingsInv
<1>4. Counted(failed) = IF Len(r.requests) % PruneEvery = 0 THEN Pruned(r) ELSE r
  BY DEF Counted
<1> HIDE DEF r
<1> QED
  BY <1>2, <1>3, <1>4, PrunedRings

LEMMA RingsKept == ProbeInv /\ RingsInv(rings) /\ [ProbeNext]_probeVars => RingsInv(rings)'
<1> SUFFICES ASSUME ProbeInv, RingsInv(rings), [ProbeNext]_probeVars
             PROVE  RingsInv(rings)'
  OBVIOUS
<1>1. rings \in Rings /\ now \in Nat
  BY DEF ProbeInv, ProbeTypeOK, SamplingTypeOK, Rings
<1>2. CASE UNCHANGED rings
  BY <1>2 DEF RingsInv, Paired
<1>3. CASE GetStats
  <2>1. rings' = Pruned(rings) /\ now' = now /\ RingsInv(Pruned(rings))
    BY <1>1, <1>3, PrunedRings DEF GetStats
  <2> QED
    BY <2>1 DEF RingsInv, Paired
<1>4. CASE Tick
  BY <1>4 DEF Tick, RingsInv, Paired
<1>5. ASSUME NEW r \in Request, End(r) PROVE RingsInv(rings)'
  <2>1. PICK failed \in BOOLEAN, slow \in BOOLEAN :
           TailDecision(req[r].route, req[r].head, failed, slow)
    BY <1>5 DEF End
  <2>2. (rings' = Pruned(Counted(failed)) \/ rings' = Counted(failed)) /\ now' = now
    BY <2>1 DEF TailDecision
  <2>3. Counted(failed) \in Rings /\ RingsInv(Counted(failed))
    BY <1>1, CountedRings
  <2>4. RingsInv(Pruned(Counted(failed)))
    BY <1>1, <2>3, PrunedRings
  <2> QED
    BY <2>2, <2>3, <2>4 DEF RingsInv, Paired
<1>6. CASE Start \/ Shutdown \/ SetEnabled \/ UNCHANGED probeVars
  BY <1>2, <1>6 DEF Start, Shutdown, SetEnabled, probeVars, samplingVars
<1>7. CASE Sampler
  BY <1>2, <1>3, <1>4, <1>7
    DEF Sampler, SamplingStep, UpdateConfig, ForceRecord, ForceEnds
<1>8. ASSUME NEW r \in Request, Pass(r) \/ Open(r) \/ Note(r) PROVE RingsInv(rings)'
  BY <1>2, <1>8 DEF Pass, Open, Note, HeadDecision, samplingVars
<1> QED
  BY <1>5, <1>6, <1>7, <1>8 DEF ProbeNext

LEMMA MatchingInjective ==
    ASSUME NEW qs \in Seq(Nat), NEW es \in Seq(Nat), NEW g, Matching(g, qs, es)
    PROVE  \A i, j \in 1..Len(es) : g[i] = g[j] => i = j
<1> SUFFICES ASSUME NEW i \in 1..Len(es), NEW j \in 1..Len(es), g[i] = g[j], i # j
             PROVE  FALSE
  OBVIOUS
<1>1. g[i] \in 1..Len(qs) /\ g[j] \in 1..Len(qs) /\ (i < j => g[i] < g[j])
      /\ (j < i => g[j] < g[i])
  BY DEF Matching
<1> QED
  BY <1>1

LEMMA RingsCount == ProbeInv /\ RingsInv(rings) => ErrorsAreRequests
<1> SUFFICES ASSUME ProbeInv, RingsInv(rings), NEW t
             PROVE  Cardinality(At(rings.errors, t)) <= Cardinality(At(rings.requests, t))
  BY DEF ErrorsAreRequests
<1> DEFINE qs == rings.requests
           es == rings.errors
<1>1. DOMAIN qs = 1..Len(qs) /\ DOMAIN es = 1..Len(es) /\ Len(qs) \in Nat /\ Len(es) \in Nat
      /\ qs \in Seq(Nat) /\ es \in Seq(Nat)
  BY DEF ProbeInv, ProbeTypeOK, SamplingTypeOK
<1>2. PICK g : Matching(g, qs, es)
  BY DEF RingsInv, Paired
<1> DEFINE h == [i \in At(es, t) |-> g[i]]
<1>3. \A i \in At(es, t) : g[i] \in At(qs, t)
  BY <1>1, <1>2 DEF Matching, At
<1>4. \A i, j \in At(es, t) : g[i] = g[j] => i = j
  <2>1. \A i, j \in 1..Len(es) : g[i] = g[j] => i = j
    BY <1>1, <1>2, MatchingInjective
  <2> QED
    BY <1>1, <2>1 DEF At
<1>5. h \in Injection(At(es, t), At(qs, t))
  BY <1>3, <1>4 DEF Injection, IsInjective
<1>6. IsFiniteSet(At(qs, t))
  <2>1. IsFiniteSet(1..Len(qs)) /\ At(qs, t) \subseteq 1..Len(qs)
    BY <1>1, FS_Interval DEF At
  <2> QED
    BY <2>1, FS_Subset
<1> HIDE DEF h, qs, es
<1>7. Cardinality(At(es, t)) <= Cardinality(At(qs, t))
  BY <1>5, <1>6, FS_Injection
<1> QED
  BY <1>7 DEF qs, es

\* The window never counts an error of which it lost the request, over any mix
\* of requests, prunes, statistics and time that passes.
THEOREM NoErrorWithoutRequest == ProbeSpec => []ErrorsAreRequests
<1>1. ProbeInit => RingsInv(rings)
  <2> SUFFICES ASSUME ProbeInit PROVE RingsInv(rings)
    OBVIOUS
  <2>1. Len(rings.errors) = 0
    BY DEF ProbeInit, SamplingInit
  <2>2. 1..Len(rings.errors) = {}
    BY <2>1
  <2> DEFINE g == [i \in 1..Len(rings.errors) |-> 0]
  <2>3. Matching(g, rings.requests, rings.errors)
    BY <2>2 DEF Matching
  <2> QED
    BY <2>2, <2>3 DEF RingsInv, Paired
<1> QED
  BY <1>1, ProbeStarts, ProbeStepKeeps, RingsKept, RingsCount, PTL DEF ProbeSpec

=============================================================================

------------------------ MODULE ServiceClocksProofs ------------------------
(***************************************************************************)
(* Theorems about ServiceClocks, for any number of services and any drift  *)
(* limits.  The lemmas say what now() and receive() do to a clock; a step  *)
(* of a node advances its clock by at most one of each.                    *)
(***************************************************************************)
EXTENDS ServiceClocks, TLAPS

LEMMA AdvancedLemma ==
  ASSUME NEW c \in Stamp, NEW p \in Nat
  PROVE  /\ Advanced(c, p) \in Stamp
         /\ Before(c, Advanced(c, p))
         /\ Advanced(c, p).wall = Greater(c.wall, p)
         /\ Advanced(c, p).logical <= c.logical + 1
<1>1. CASE p > c.wall
  BY <1>1 DEF Advanced, Before, Stamp, Greater
<1>2. CASE ~(p > c.wall)
  <2>1. Advanced(c, p) = [wall |-> c.wall, logical |-> c.logical + 1]
    BY <1>2 DEF Advanced, Stamp
  <2> QED
    BY <1>2, <2>1 DEF Before, Stamp, Greater
<1> QED
  BY <1>1, <1>2

LEMMA ClampedLemma ==
  ASSUME NEW wall \in Nat, NEW p \in Nat
  PROVE  Clamped(wall, p) \in Nat /\ Clamped(wall, p) <= p + MaxDrift
BY ClockConstants DEF Clamped

\* receive() with a counter that stays in its range.
LEMMA MergedLemma ==
  ASSUME NEW c \in Stamp, NEW remote \in Stamp, NEW p \in Nat, NEW room \in Nat,
         c.logical <= room, remote.logical <= room, room + 1 < MaxLogical
  PROVE  /\ Merged(c, remote, p) \in Stamp
         /\ Before(c, Merged(c, remote, p))
         /\ Clamped(remote.wall, p) = remote.wall => Before(remote, Merged(c, remote, p))
         /\ Merged(c, remote, p).wall <= Greater(c.wall, p + MaxDrift)
         /\ Merged(c, remote, p).logical <= room + 1
<1> DEFINE wall == Clamped(remote.wall, p)
           logical == IF wall = c.wall THEN Greater(c.logical, remote.logical) + 1
                      ELSE IF wall > c.wall THEN remote.logical + 1
                      ELSE c.logical + 1
<1>1. wall \in Nat /\ wall <= p + MaxDrift /\ c.wall \in Nat /\ c.logical \in Nat
      /\ remote.logical \in Nat /\ remote.wall \in Nat /\ MaxDrift \in Nat
  BY ClampedLemma, ClockConstants DEF Stamp
<1>2. logical \in Nat /\ logical <= room + 1 /\ ~(logical >= MaxLogical)
  BY <1>1, ClockConstants DEF Greater
<1>3. Merged(c, remote, p) = IF p > c.wall /\ p > wall THEN [wall |-> p, logical |-> 0]
                             ELSE [wall |-> Greater(wall, c.wall), logical |-> logical]
  BY <1>2 DEF Merged
<1>4. CASE p > c.wall /\ p > wall
  <2>1. Merged(c, remote, p) = [wall |-> p, logical |-> 0]
    BY <1>3, <1>4
  <2> QED
    BY <1>1, <1>4, <2>1 DEF Before, Greater, Stamp
<1>5. CASE ~(p > c.wall /\ p > wall)
  <2>1. Merged(c, remote, p) = [wall |-> Greater(wall, c.wall), logical |-> logical]
    BY <1>3, <1>5
  <2>2. Greater(wall, c.wall) \in Nat /\ Greater(wall, c.wall) <= Greater(c.wall, p + MaxDrift)
    BY <1>1 DEF Greater
  <2>3. /\ c.wall < Greater(wall, c.wall) \/ (c.wall = Greater(wall, c.wall) /\ c.logical < logical)
        /\ wall < Greater(wall, c.wall) \/ (wall = Greater(wall, c.wall) /\ remote.logical < logical)
    BY <1>1 DEF Greater
  <2> QED
    BY <1>1, <1>2, <2>1, <2>2, <2>3 DEF Before, Stamp
<1> QED
  BY <1>4, <1>5

LEMMA BeforeTransitive ==
  ASSUME NEW a \in Stamp, NEW b \in Stamp, NEW c \in Stamp, Before(a, b), Before(b, c)
  PROVE  Before(a, c)
BY DEF Before, Stamp

\* ulid() draws a random part of its width, at the time it has read; within a
\* millisecond the next id is the greater one, unless it wraps.
LEMMA DrawnLemma ==
  ASSUME NEW last \in Id, NEW p \in Nat, NEW new \in Drawn(last, p)
  PROVE  /\ new \in Id /\ new.time = p
         /\ p = last.time => /\ last.wrapped => new.wrapped
                             /\ ~new.wrapped => new.rand > last.rand
<1>1. /\ last.time \in Int /\ last.rand \in 0..(Randoms - 1) /\ last.wrapped \in BOOLEAN
      /\ Randoms \in Nat \ {0, 1}
  BY ClockConstants DEF Id
<1>2. CASE p = last.time
  <2> DEFINE rand == (last.rand + 1) % Randoms
             over == last.wrapped \/ last.rand + 1 = Randoms
  <2>1. new = [last EXCEPT !.rand = rand, !.wrapped = over]
    BY <1>2 DEF Drawn
  <2>2. rand = IF last.rand + 1 = Randoms THEN 0 ELSE last.rand + 1
    <3>1. CASE last.rand + 1 < Randoms
      BY <1>1, <3>1
    <3>2. CASE last.rand + 1 = Randoms
      BY <1>1, <3>2
    <3> QED
      BY <1>1, <3>1, <3>2
  <2>3. rand \in 0..(Randoms - 1) /\ over \in BOOLEAN
    BY <1>1, <2>2
  <2>4. last.rand + 1 # Randoms => rand > last.rand
    BY <1>1, <2>2
  <2> HIDE DEF rand
  <2>5. new \in Id /\ new.time = last.time /\ new.rand = rand /\ new.wrapped = over
    BY <1>1, <2>1, <2>3 DEF Id
  <2> QED
    BY <1>2, <2>4, <2>5
<1>3. CASE p # last.time
  <2>1. PICK r \in 0..(Randoms - 1) : new = [time |-> p, rand |-> r, wrapped |-> FALSE]
    BY <1>3 DEF Drawn
  <2>2. new.time = p /\ new \in Id
    BY <1>1, <2>1 DEF Id
  <2> QED
    BY <1>3, <2>2
<1> QED
  BY <1>2, <1>3

-----------------------------------------------------------------------------
\* What bounds the clocks: a counter grows by two for each recorded event at
\* most, and a wall time is one that the machine has shown, or a clamped one.
ClocksBounded ==
    /\ \A n \in Node : count[n] <= MaxStamps[n]
    /\ \A n \in Node : clock[n].logical <= HeaderLogical + 2 * count[n]
    /\ \A n \in Node : physical[n] <= highest[n]

\* What ulid() has drawn last is the id of the latest event, and of the ids of that
\* event and the timestamp nested in it none is greater, in the same millisecond.
IdsMade ==
    \A n \in Node : \A e \in latest[n] :
        /\ Before(e.stamp, clock[n]) \/ e.stamp = clock[n]
        /\ Steady(latest[n]) => e.id.time = id[n].time
        /\ e.id.time = id[n].time /\ ~id[n].wrapped => e.id.rand <= id[n].rand

ClocksInv == ClocksTypeOK /\ ClocksBounded /\ NeverFarAhead /\ IdsMade

\* What record() does: c is the node's clock, or what receive() made of it.  The
\* clock and the ids of the node move on to those of its new events.
Recording(n, c, p) ==
    /\ count' = [count EXCEPT ![n] = count'[n]] /\ count'[n] \in Nat
    /\ count[n] < count'[n] /\ count'[n] <= MaxStamps[n]
    /\ clock' = [clock EXCEPT ![n] = clock'[n]] /\ clock'[n] \in Stamp
    /\ clock'[n].logical <= HeaderLogical + 2 * count'[n] /\ clock'[n].logical < MaxLogical
    /\ physical' = [physical EXCEPT ![n] = physical'[n]] /\ physical'[n] \in Nat
    /\ highest' = [highest EXCEPT ![n] = Greater(highest[n], physical'[n])]
    /\ clock'[n].wall <= Greater(c.wall, physical'[n])
    /\ id' = [id EXCEPT ![n] = id'[n]] /\ id'[n] \in Id
    /\ latest' = [latest EXCEPT ![n] = latest'[n]]
    /\ latest'[n] \subseteq [stamp: Stamp, id: Id]
    /\ \A e \in latest'[n] :
          /\ Before(c, e.stamp) /\ Before(clock[n], e.stamp)
          /\ Before(e.stamp, clock'[n]) \/ e.stamp = clock'[n]
          /\ Steady(latest'[n]) => e.id.time = id'[n].time
          /\ e.id.time = id'[n].time /\ ~id'[n].wrapped =>
                /\ e.id.rand <= id'[n].rand
                /\ Steady(latest'[n]) /\ e.id.time = id[n].time =>
                      ~id[n].wrapped /\ id[n].rand < e.id.rand

LEMMA EventLemma ==
  ASSUME ClocksInv, NEW n \in Node, NEW c \in Stamp, NEW p \in Nat,
         c.logical <= HeaderLogical + 2 * count[n] + 1,
         c = clock[n] \/ Before(clock[n], c),
         Event(n, c, p)
  PROVE  Recording(n, c, p)
<1>1. /\ count[n] \in Nat /\ clock[n] \in Stamp /\ id[n] \in Id /\ MaxStamps[n] \in Nat
      /\ highest[n] \in Nat
      /\ id \in [Node -> Id] /\ clock \in [Node -> Stamp] /\ count \in [Node -> Nat]
      /\ physical \in [Node -> Nat] /\ highest \in [Node -> Nat]
      /\ latest \in [Node -> SUBSET [stamp: Stamp, id: Id]]
      /\ HeaderLogical \in Nat
  BY ClockConstants DEF ClocksInv, ClocksTypeOK
<1> DEFINE stamp == Advanced(c, p)
<1>2. /\ stamp \in Stamp /\ Before(c, stamp) /\ Before(clock[n], stamp)
      /\ stamp.wall = Greater(c.wall, p)
      /\ stamp.logical <= HeaderLogical + 2 * (count[n] + 1)
  <2>1. /\ stamp \in Stamp /\ Before(c, stamp) /\ stamp.wall = Greater(c.wall, p)
        /\ stamp.logical <= c.logical + 1
    BY AdvancedLemma
  <2>2. Before(clock[n], stamp)
    BY <1>1, <2>1, BeforeTransitive
  <2> QED
    BY <1>1, <2>1, <2>2 DEF Stamp
<1>w. c.wall \in Nat /\ stamp.wall \in Nat /\ stamp.logical \in Nat
  BY <1>2 DEF Stamp
<1> HIDE DEF stamp
<1>3. CASE Bare(n, c, p)
  <2>1. PICK v \in Later(p) : \E new \in Drawn(id[n], v) :
           /\ Shows(n, v)
           /\ id' = [id EXCEPT ![n] = new]
           /\ latest' = [latest EXCEPT ![n] = {[stamp |-> stamp, id |-> new]}]
    BY <1>3 DEF Bare, stamp
  <2>2. PICK new \in Drawn(id[n], v) :
           /\ Shows(n, v)
           /\ id' = [id EXCEPT ![n] = new]
           /\ latest' = [latest EXCEPT ![n] = {[stamp |-> stamp, id |-> new]}]
    BY <2>1
  <2>3. /\ count' = [count EXCEPT ![n] = @ + 1] /\ clock' = [clock EXCEPT ![n] = stamp]
        /\ count[n] < MaxStamps[n] /\ stamp.logical < MaxLogical
    BY <1>3 DEF Bare, stamp, Fits
  <2>4. v \in Nat /\ v >= p
    BY DEF Later
  <2>5. /\ new \in Id /\ new.time = v
        /\ v = id[n].time => /\ id[n].wrapped => new.wrapped
                             /\ ~new.wrapped => new.rand > id[n].rand
    BY <1>1, <2>4, DrawnLemma
  <2>6. /\ count'[n] = count[n] + 1 /\ clock'[n] = stamp /\ id'[n] = new
        /\ latest'[n] = {[stamp |-> stamp, id |-> new]} /\ physical'[n] = v
    BY <1>1, <2>2, <2>3 DEF Shows
  <2>7. /\ clock' = [clock EXCEPT ![n] = clock'[n]] /\ id' = [id EXCEPT ![n] = id'[n]]
        /\ latest' = [latest EXCEPT ![n] = latest'[n]]
        /\ count' = [count EXCEPT ![n] = count'[n]]
        /\ physical' = [physical EXCEPT ![n] = physical'[n]]
        /\ highest' = [highest EXCEPT ![n] = Greater(highest[n], physical'[n])]
    BY <1>1, <2>2, <2>3, <2>6 DEF Shows
  <2>8. clock'[n].wall <= Greater(c.wall, physical'[n])
    BY <1>2, <1>w, <2>4, <2>6 DEF Greater
  <2>9. ASSUME NEW e \in latest'[n] PROVE e.stamp = stamp /\ e.id = new
    BY <2>6
  <2>10. new.rand \in Nat /\ latest'[n] \subseteq [stamp: Stamp, id: Id]
    BY <1>2, <2>5, <2>6, ClockConstants DEF Id
  <2>11. /\ count'[n] \in Nat /\ count[n] < count'[n] /\ count'[n] <= MaxStamps[n]
         /\ clock'[n].logical <= HeaderLogical + 2 * count'[n] /\ clock'[n].logical < MaxLogical
    BY <1>1, <1>2, <2>3, <2>6
  <2>12. ASSUME NEW e \in latest'[n]
         PROVE  /\ Before(c, e.stamp) /\ Before(clock[n], e.stamp)
                /\ Before(e.stamp, clock'[n]) \/ e.stamp = clock'[n]
                /\ Steady(latest'[n]) => e.id.time = id'[n].time
                /\ e.id.time = id'[n].time /\ ~id'[n].wrapped =>
                      /\ e.id.rand <= id'[n].rand
                      /\ Steady(latest'[n]) /\ e.id.time = id[n].time =>
                            ~id[n].wrapped /\ id[n].rand < e.id.rand
    BY <1>2, <2>5, <2>6, <2>9, <2>10
  <2> QED
    BY <1>2, <2>4, <2>5, <2>6, <2>7, <2>8, <2>10, <2>11, <2>12 DEF Recording
<1>4. CASE Nesting(n, c, p)
  <2>1. PICK v \in Later(p) : \E w \in Later(v) :
              LET nested == Advanced(stamp, w)
              IN  /\ Shows(n, w) /\ Fits(nested)
                  /\ clock' = [clock EXCEPT ![n] = nested]
                  /\ \E first \in Drawn(id[n], w) : \E new \in Drawn(first, v) :
                        /\ id' = [id EXCEPT ![n] = new]
                        /\ latest' = [latest EXCEPT ![n] = {[stamp |-> nested, id |-> first],
                                                            [stamp |-> stamp, id |-> new]}]
    BY <1>4 DEF Nesting, stamp
  <2>2. PICK w \in Later(v) :
              LET nested == Advanced(stamp, w)
              IN  /\ Shows(n, w) /\ Fits(nested)
                  /\ clock' = [clock EXCEPT ![n] = nested]
                  /\ \E first \in Drawn(id[n], w) : \E new \in Drawn(first, v) :
                        /\ id' = [id EXCEPT ![n] = new]
                        /\ latest' = [latest EXCEPT ![n] = {[stamp |-> nested, id |-> first],
                                                            [stamp |-> stamp, id |-> new]}]
    BY <2>1
  <2> DEFINE nested == Advanced(stamp, w)
  <2>3. PICK first \in Drawn(id[n], w) : \E new \in Drawn(first, v) :
           /\ id' = [id EXCEPT ![n] = new]
           /\ latest' = [latest EXCEPT ![n] = {[stamp |-> nested, id |-> first],
                                               [stamp |-> stamp, id |-> new]}]
    BY <2>2
  <2>4. PICK new \in Drawn(first, v) :
           /\ id' = [id EXCEPT ![n] = new]
           /\ latest' = [latest EXCEPT ![n] = {[stamp |-> nested, id |-> first],
                                               [stamp |-> stamp, id |-> new]}]
    BY <2>3
  <2>5. /\ Shows(n, w) /\ nested.logical < MaxLogical
        /\ clock' = [clock EXCEPT ![n] = nested]
        /\ count' = [count EXCEPT ![n] = @ + 2] /\ count[n] + 1 < MaxStamps[n]
    BY <1>4, <2>2 DEF Nesting, Fits
  <2>6. v \in Nat /\ w \in Nat /\ v >= p /\ w >= v
    BY DEF Later
  <2>7. /\ nested \in Stamp /\ Before(stamp, nested) /\ nested.wall = Greater(stamp.wall, w)
        /\ nested.logical <= stamp.logical + 1
    BY <1>2, <2>6, AdvancedLemma
  <2> HIDE DEF nested
  <2>8. Before(c, nested) /\ Before(clock[n], nested)
    BY <1>1, <1>2, <2>7, BeforeTransitive
  <2>9. /\ first \in Id /\ first.time = w
        /\ w = id[n].time => /\ id[n].wrapped => first.wrapped
                             /\ ~first.wrapped => first.rand > id[n].rand
    BY <1>1, <2>6, DrawnLemma
  <2>10. /\ new \in Id /\ new.time = v
         /\ v = w => /\ first.wrapped => new.wrapped
                     /\ ~new.wrapped => new.rand > first.rand
    BY <2>6, <2>9, DrawnLemma
  <2>11. /\ count'[n] = count[n] + 2 /\ clock'[n] = nested /\ id'[n] = new
         /\ latest'[n] = {[stamp |-> nested, id |-> first], [stamp |-> stamp, id |-> new]}
         /\ physical'[n] = w
    BY <1>1, <2>4, <2>5 DEF Shows
  <2>12. /\ clock' = [clock EXCEPT ![n] = clock'[n]] /\ id' = [id EXCEPT ![n] = id'[n]]
         /\ latest' = [latest EXCEPT ![n] = latest'[n]]
         /\ count' = [count EXCEPT ![n] = count'[n]]
         /\ physical' = [physical EXCEPT ![n] = physical'[n]]
         /\ highest' = [highest EXCEPT ![n] = Greater(highest[n], physical'[n])]
    BY <1>1, <2>4, <2>5, <2>11 DEF Shows
  <2>13. clock'[n].wall <= Greater(c.wall, physical'[n])
    BY <1>2, <1>w, <2>6, <2>7, <2>11 DEF Greater
  <2>14. /\ new.rand \in Nat /\ first.rand \in Nat /\ id[n].rand \in Nat
         /\ latest'[n] \subseteq [stamp: Stamp, id: Id]
    BY <1>1, <1>2, <2>7, <2>9, <2>10, <2>11, ClockConstants DEF Id
  <2>15. /\ count'[n] \in Nat /\ count[n] < count'[n] /\ count'[n] <= MaxStamps[n]
         /\ clock'[n].logical <= HeaderLogical + 2 * count'[n] /\ clock'[n].logical < MaxLogical
    <3>1. nested.logical \in Nat /\ stamp.logical \in Nat
      BY <1>2, <2>7 DEF Stamp
    <3> QED
      BY <1>1, <1>2, <2>5, <2>7, <2>11, <3>1
  <2>16. ASSUME NEW e \in latest'[n]
         PROVE  \/ e.stamp = nested /\ e.id = first
                \/ e.stamp = stamp /\ e.id = new
    BY <2>11
  <2>17. Steady(latest'[n]) => v = w
    <3>1. [stamp |-> nested, id |-> first] \in latest'[n]
          /\ [stamp |-> stamp, id |-> new] \in latest'[n]
      BY <2>11
    <3> QED
      BY <2>9, <2>10, <3>1 DEF Steady
  <2>18. ASSUME NEW e \in latest'[n]
         PROVE  /\ Before(c, e.stamp) /\ Before(clock[n], e.stamp)
                /\ Before(e.stamp, clock'[n]) \/ e.stamp = clock'[n]
                /\ Steady(latest'[n]) => e.id.time = id'[n].time
                /\ e.id.time = id'[n].time /\ ~id'[n].wrapped =>
                      /\ e.id.rand <= id'[n].rand
                      /\ Steady(latest'[n]) /\ e.id.time = id[n].time =>
                            ~id[n].wrapped /\ id[n].rand < e.id.rand
    <3>1. Before(c, e.stamp) /\ Before(clock[n], e.stamp)
          /\ (Before(e.stamp, clock'[n]) \/ e.stamp = clock'[n])
      BY <1>2, <2>7, <2>8, <2>11, <2>16
    <3>2. CASE e.id = first
      BY <2>9, <2>10, <2>11, <2>14, <2>17, <3>1, <3>2
    <3>3. CASE e.id = new
      BY <2>9, <2>10, <2>11, <2>14, <2>17, <3>1, <3>3
    <3> QED
      BY <2>16, <3>2, <3>3
  <2> QED
    BY <2>6, <2>7, <2>10, <2>11, <2>12, <2>13, <2>14, <2>15, <2>18 DEF Recording
<1> QED
  BY <1>3, <1>4 DEF Event

\* The clock of a node that an arrival reads, before the request is recorded.
LEMMA ArrivalLemma ==
  ASSUME ClocksInv, NEW n \in Node, NEW q \in requests, count[n] < MaxStamps[n]
  PROVE  LET c == IF Heeded(n, q) THEN Merged(clock[n], q, physical[n]) ELSE clock[n]
         IN  /\ c \in Stamp
             /\ c = clock[n] \/ Before(clock[n], c)
             /\ c.logical <= HeaderLogical + 2 * count[n] + 1
             /\ c.wall <= highest[n] + MaxDrift
             /\ Heeded(n, q) /\ Clamped(q.wall, physical[n]) = q.wall => Before(q, c)
<1>1. /\ q \in Stamp /\ clock[n] \in Stamp /\ physical[n] \in Nat /\ highest[n] \in Nat
      /\ count[n] \in Nat /\ count[n] <= MaxStamps[n] /\ physical[n] <= highest[n]
      /\ clock[n].logical <= HeaderLogical + 2 * count[n]
      /\ clock[n].wall <= highest[n] + MaxDrift
  BY DEF ClocksInv, ClocksTypeOK, ClocksBounded, NeverFarAhead
<1>2. CASE Heeded(n, q)
  <2>1. q.logical <= HeaderLogical /\ q.logical \in Nat
    BY <1>1, <1>2 DEF Heeded, Stamp
  <2>2. PICK room \in Nat : room = HeaderLogical + 2 * count[n]
    BY <1>1, ClockConstants
  <2>3. clock[n].logical <= room /\ q.logical <= room /\ room + 1 < MaxLogical
    BY <1>1, <2>1, <2>2, ClockConstants, CounterSuffices DEF Stamp
  <2>4. /\ Merged(clock[n], q, physical[n]) \in Stamp
        /\ Before(clock[n], Merged(clock[n], q, physical[n]))
        /\ Clamped(q.wall, physical[n]) = q.wall => Before(q, Merged(clock[n], q, physical[n]))
        /\ Merged(clock[n], q, physical[n]).wall <= Greater(clock[n].wall, physical[n] + MaxDrift)
        /\ Merged(clock[n], q, physical[n]).logical <= room + 1
    BY <1>1, <2>3, MergedLemma
  <2>5. Greater(clock[n].wall, physical[n] + MaxDrift) <= highest[n] + MaxDrift
    BY <1>1, ClockConstants DEF Greater, Stamp
  <2>6. Merged(clock[n], q, physical[n]).wall <= highest[n] + MaxDrift
    BY <1>1, <2>4, <2>5, ClockConstants DEF Greater, Stamp
  <2> QED
    BY <1>2, <2>2, <2>4, <2>6
<1>3. CASE ~Heeded(n, q)
  BY <1>1, <1>3, ClockConstants DEF Stamp
<1> QED
  BY <1>2, <1>3

-----------------------------------------------------------------------------
LEMMA ClocksInitial == ClocksInit => ClocksInv
BY ClockConstants
DEF ClocksInit, ClocksInv, ClocksTypeOK, ClocksBounded, NeverFarAhead, IdsMade, Stamp, Id

\* What every step ensures of the events it records.
Orderly ==
    \A n \in Node : count'[n] > count[n] =>
        /\ \A e \in latest'[n] : Before(clock[n], e.stamp)
        /\ Steady(latest[n]) /\ Steady(latest'[n]) /\ ~id'[n].wrapped =>
              \A e \in latest[n], f \in latest'[n] :
                 /\ Before(e.stamp, f.stamp)
                 /\ e.id.time <= f.id.time => IdBefore(e.id, f.id)

\* An event of a node keeps the invariant, if the clock it starts from is not
\* too far ahead.
LEMMA EventKeepsInv ==
  ASSUME ClocksInv, NEW n \in Node, NEW c \in Stamp, NEW p \in Nat,
         Recording(n, c, p),
         c.wall <= highest[n] + MaxDrift,
         requests' \subseteq Stamp
  PROVE  ClocksInv' /\ Orderly
<1>1. /\ clock \in [Node -> Stamp] /\ count \in [Node -> Nat] /\ highest \in [Node -> Nat]
      /\ physical \in [Node -> Nat] /\ id \in [Node -> Id]
      /\ latest \in [Node -> SUBSET [stamp: Stamp, id: Id]]
      /\ MaxStamps \in [Node -> Nat] /\ MaxDrift \in Nat
      /\ \A m \in Node : /\ count[m] <= MaxStamps[m]
                         /\ clock[m].logical <= HeaderLogical + 2 * count[m]
                         /\ clock[m].logical < MaxLogical
                         /\ clock[m].wall <= highest[m] + MaxDrift
                         /\ physical[m] <= highest[m]
  BY ClockConstants DEF ClocksInv, ClocksTypeOK, ClocksBounded, NeverFarAhead
<1>2. /\ count' = [count EXCEPT ![n] = count'[n]] /\ count'[n] \in Nat
      /\ count[n] < count'[n] /\ count'[n] <= MaxStamps[n]
      /\ clock' = [clock EXCEPT ![n] = clock'[n]] /\ clock'[n] \in Stamp
      /\ clock'[n].logical <= HeaderLogical + 2 * count'[n] /\ clock'[n].logical < MaxLogical
      /\ physical' = [physical EXCEPT ![n] = physical'[n]] /\ physical'[n] \in Nat
      /\ highest' = [highest EXCEPT ![n] = Greater(highest[n], physical'[n])]
      /\ clock'[n].wall <= Greater(c.wall, physical'[n])
      /\ id' = [id EXCEPT ![n] = id'[n]] /\ id'[n] \in Id
      /\ latest' = [latest EXCEPT ![n] = latest'[n]]
      /\ latest'[n] \subseteq [stamp: Stamp, id: Id]
  BY DEF Recording
<1>3. \A m \in Node : m # n => /\ count'[m] = count[m] /\ clock'[m] = clock[m]
                              /\ physical'[m] = physical[m] /\ highest'[m] = highest[m]
                              /\ id'[m] = id[m] /\ latest'[m] = latest[m]
  BY <1>1, <1>2
<1>4. highest'[n] \in Nat /\ physical'[n] <= highest'[n] /\ highest[n] <= highest'[n]
  BY <1>1, <1>2 DEF Greater
<1>5. ClocksTypeOK'
  <2>1. /\ clock' \in [Node -> Stamp] /\ count' \in [Node -> Nat]
        /\ physical' \in [Node -> Nat] /\ highest' \in [Node -> Nat]
    BY <1>1, <1>2, <1>4
  <2>2. id' \in [Node -> Id] /\ latest' \in [Node -> SUBSET [stamp: Stamp, id: Id]]
    BY <1>1, <1>2
  <2>3. \A m \in Node : clock'[m].logical < MaxLogical
    BY <1>1, <1>2, <1>3
  <2> QED
    BY <2>1, <2>2, <2>3 DEF ClocksTypeOK
<1>6. ClocksBounded'
  BY <1>1, <1>2, <1>3, <1>4 DEF ClocksBounded
<1>7. NeverFarAhead'
  <2>1. clock'[n].wall <= highest'[n] + MaxDrift
    <3>1. c.wall \in Nat /\ clock'[n].wall \in Nat /\ highest[n] \in Nat
      BY <1>1, <1>2 DEF Stamp
    <3> QED
      BY <1>1, <1>2, <1>4, <3>1 DEF Greater
  <2> QED
    BY <1>1, <1>3, <2>1 DEF NeverFarAhead
<1>8. IdsMade'
  <2>1. SUFFICES ASSUME NEW m \in Node, NEW e \in latest'[m]
                 PROVE  /\ Before(e.stamp, clock'[m]) \/ e.stamp = clock'[m]
                        /\ Steady(latest'[m]) => e.id.time = id'[m].time
                        /\ e.id.time = id'[m].time /\ ~id'[m].wrapped =>
                              e.id.rand <= id'[m].rand
    BY DEF IdsMade, Steady
  <2>2. CASE m = n
    BY <2>2 DEF Recording
  <2>3. CASE m # n
    BY <1>3, <2>3 DEF ClocksInv, IdsMade
  <2> QED
    BY <2>2, <2>3
<1>9. Orderly
  <2>1. SUFFICES ASSUME NEW m \in Node, count'[m] > count[m]
        PROVE  /\ \A e \in latest'[m] : Before(clock[m], e.stamp)
               /\ Steady(latest[m]) /\ Steady(latest'[m]) /\ ~id'[m].wrapped =>
                     \A e \in latest[m], f \in latest'[m] :
                        /\ Before(e.stamp, f.stamp)
                        /\ e.id.time <= f.id.time => IdBefore(e.id, f.id)
    BY DEF Orderly
  <2>2. m = n
    BY <1>1, <1>3, <2>1
  <2>3. \A f \in latest'[n] : Before(clock[n], f.stamp)
    BY DEF Recording
  <2>4. ASSUME Steady(latest[n]), Steady(latest'[n]), ~id'[n].wrapped,
               NEW e \in latest[n], NEW f \in latest'[n]
        PROVE  Before(e.stamp, f.stamp) /\ (e.id.time <= f.id.time => IdBefore(e.id, f.id))
    <3>1. /\ e.stamp \in Stamp /\ f.stamp \in Stamp /\ clock[n] \in Stamp
          /\ e.id \in Id /\ f.id \in Id /\ id[n] \in Id
      BY <1>1, <1>2
    <3>2. /\ Before(e.stamp, clock[n]) \/ e.stamp = clock[n]
          /\ e.id.time = id[n].time /\ (~id[n].wrapped => e.id.rand <= id[n].rand)
      BY <2>4 DEF ClocksInv, IdsMade
    <3>3. Before(e.stamp, f.stamp)
      BY <2>3, <3>1, <3>2, BeforeTransitive
    <3>4. f.id.time = id'[n].time
          /\ (f.id.time = id[n].time => ~id[n].wrapped /\ id[n].rand < f.id.rand)
      BY <2>4 DEF Recording
    <3>5. /\ e.id.time \in Int /\ f.id.time \in Int /\ e.id.rand \in Int /\ f.id.rand \in Int
          /\ id[n].rand \in Int
      BY <3>1, ClockConstants DEF Id
    <3>6. e.id.time <= f.id.time => IdBefore(e.id, f.id)
      BY <3>2, <3>4, <3>5 DEF IdBefore
    <3> QED
      BY <3>3, <3>6
  <2> QED
    BY <2>2, <2>3, <2>4
<1> QED
  BY <1>5, <1>6, <1>7, <1>8, <1>9 DEF ClocksInv

\* A step that records nothing, and lets no machine show less than it has shown.
LEMMA IdleKeepsInv ==
  ASSUME ClocksInv, UNCHANGED <<clock, id, latest, count, requests>>,
         physical' \in [Node -> Nat], highest' \in [Node -> Nat],
         \A m \in Node : highest[m] <= highest'[m] /\ physical'[m] <= highest'[m]
  PROVE  ClocksInv' /\ Orderly
<1>1. ClocksTypeOK' /\ ClocksBounded'
  BY DEF ClocksInv, ClocksTypeOK, ClocksBounded
<1>2. NeverFarAhead'
  <2>1. SUFFICES ASSUME NEW m \in Node PROVE clock'[m].wall <= highest'[m] + MaxDrift
    BY DEF NeverFarAhead
  <2>2. /\ clock[m].wall <= highest[m] + MaxDrift /\ clock[m].wall \in Nat
        /\ highest[m] \in Nat /\ highest'[m] \in Nat /\ highest[m] <= highest'[m]
    BY DEF ClocksInv, ClocksTypeOK, NeverFarAhead, Stamp
  <2> QED
    BY <2>2, ClockConstants
<1>3. \A m \in Node : count[m] \in Nat /\ count'[m] = count[m]
  BY DEF ClocksInv, ClocksTypeOK
<1>4. IdsMade'
  BY DEF ClocksInv, IdsMade, Steady
<1> QED
  BY <1>1, <1>2, <1>3, <1>4 DEF ClocksInv, Orderly

\* The event of a request that arrives starts from a clock that is past what its
\* sender had stamped.
LEMMA ArriveRecords ==
  ASSUME ClocksInv, NEW n \in Node, NEW q \in requests, Arrive(n, q)
  PROVE  \E c \in Stamp :
            /\ Recording(n, c, physical[n]) /\ c.wall <= highest[n] + MaxDrift
            /\ Heeded(n, q) /\ Clamped(q.wall, physical[n]) = q.wall => Before(q, c)
<1> DEFINE c == IF Heeded(n, q) THEN Merged(clock[n], q, physical[n]) ELSE clock[n]
<1>1. Event(n, c, physical[n])
  BY DEF Arrive
<1>2. count[n] < MaxStamps[n] /\ physical[n] \in Nat
  <2>1. count[n] \in Nat /\ MaxStamps[n] \in Nat /\ physical[n] \in Nat
    BY ClockConstants DEF ClocksInv, ClocksTypeOK
  <2>2. count[n] < MaxStamps[n] \/ count[n] + 1 < MaxStamps[n]
    BY <1>1 DEF Event, Bare, Nesting
  <2> QED
    BY <2>1, <2>2
<1>3. /\ c \in Stamp
      /\ c = clock[n] \/ Before(clock[n], c)
      /\ c.logical <= HeaderLogical + 2 * count[n] + 1
      /\ c.wall <= highest[n] + MaxDrift
      /\ Heeded(n, q) /\ Clamped(q.wall, physical[n]) = q.wall => Before(q, c)
  BY <1>2, ArrivalLemma
<1> HIDE DEF c
<1> QED
  BY <1>1, <1>2, <1>3, EventLemma

LEMMA ClocksStep ==
  ASSUME ClocksInv, [ClocksNext]_clockVars
  PROVE  ClocksInv' /\ Orderly
<1>t. /\ requests \subseteq Stamp /\ HeaderLogical \in Nat /\ MaxDrift \in Nat
      /\ \A n \in Node : /\ clock[n] \in Stamp /\ physical[n] \in Nat /\ count[n] \in Nat
                         /\ clock[n].logical <= HeaderLogical + 2 * count[n]
                         /\ clock[n].wall <= highest[n] + MaxDrift
  BY ClockConstants DEF ClocksInv, ClocksTypeOK, ClocksBounded, NeverFarAhead
<1>1. ASSUME NEW n \in Node, Local(n) \/ Send(n)
      PROVE  ClocksInv' /\ Orderly
  <2>1. Event(n, clock[n], physical[n]) /\ requests' \subseteq Stamp
    BY <1>t, <1>1 DEF Local, Send
  <2>2. clock[n].logical <= HeaderLogical + 2 * count[n] + 1
    BY <1>t DEF Stamp
  <2> QED
    BY <1>t, <2>1, <2>2, EventLemma, EventKeepsInv
<1>2. ASSUME NEW n \in Node, NEW q \in requests, Arrive(n, q)
      PROVE  ClocksInv' /\ Orderly
  <2>1. PICK c \in Stamp : Recording(n, c, physical[n]) /\ c.wall <= highest[n] + MaxDrift
    BY <1>2, ArriveRecords
  <2>2. requests' \subseteq Stamp
    BY <1>t, <1>2 DEF Arrive
  <2> QED
    BY <1>t, <2>1, <2>2, EventKeepsInv
<1>3. ASSUME NEW n \in Node, Tick(n) \/ SetBack(n)
      PROVE  ClocksInv' /\ Orderly
  <2>1. /\ physical' \in [Node -> Nat] /\ highest' \in [Node -> Nat]
        /\ UNCHANGED <<clock, id, latest, count, requests>>
        /\ \A m \in Node : highest[m] <= highest'[m] /\ physical'[m] <= highest'[m]
    <3> USE DEF ClocksInv, ClocksTypeOK, ClocksBounded
    <3>1. CASE Tick(n)
      BY <3>1 DEF Tick, Greater
    <3>2. CASE SetBack(n)
      BY <3>2 DEF SetBack
    <3> QED
      BY <1>3, <3>1, <3>2
  <2> QED
    BY <2>1, IdleKeepsInv
<1>4. CASE UNCHANGED clockVars
  <2>1. /\ physical' \in [Node -> Nat] /\ highest' \in [Node -> Nat]
        /\ UNCHANGED <<clock, id, latest, count, requests>>
        /\ \A m \in Node : highest[m] <= highest'[m] /\ physical'[m] <= highest'[m]
    BY <1>4 DEF clockVars, ClocksInv, ClocksTypeOK, ClocksBounded
  <2> QED
    BY <2>1, IdleKeepsInv
<1> QED
  BY <1>1, <1>2, <1>3, <1>4 DEF ClocksNext

\* The clocks have their types, and no counter overflows.
THEOREM ClocksTypeCorrect == ClocksSpec => []ClocksTypeOK
<1>1. ClocksInv => ClocksTypeOK
  BY DEF ClocksInv
<1> QED
  BY <1>1, ClocksInitial, ClocksStep, PTL DEF ClocksSpec

\* No clock runs more than MAX_DRIFT_MS ahead of what its machine has shown,
\* however many services there are and whatever headers arrive.
THEOREM DriftBounded == ClocksSpec => []NeverFarAhead
<1>1. ClocksInv => NeverFarAhead
  BY DEF ClocksInv
<1> QED
  BY <1>1, ClocksInitial, ClocksStep, PTL DEF ClocksSpec

\* The events of a node are stamped later than all it stamped before, nested
\* timestamps included.
THEOREM StampsAlwaysIncrease == ClocksSpec => StampsIncrease
<1>1. ClocksInv /\ [ClocksNext]_clockVars =>
        [\A n \in Node : count'[n] > count[n] =>
           \A e \in latest'[n] : Before(clock[n], e.stamp)]_clockVars
  BY ClocksStep DEF Orderly
<1> QED
  BY <1>1, ClocksInitial, ClocksStep, PTL DEF ClocksSpec, StampsIncrease

\* A request is stamped after what its sender had stamped, where the clocks are
\* close enough for the header to be taken as it is.
THEOREM RequestsAreOrdered == ClocksSpec => ArrivesAfterHeader
<1>1. ASSUME ClocksInv, NEW n \in Node, NEW q \in requests, Arrive(n, q), Heeded(n, q),
             Clamped(q.wall, physical[n]) = q.wall, NEW e \in latest'[n]
      PROVE  Before(q, e.stamp)
  <2>1. PICK c \in Stamp : Recording(n, c, physical[n]) /\ Before(q, c)
    BY <1>1, ArriveRecords
  <2>2. Before(c, e.stamp) /\ e.stamp \in Stamp
    BY <2>1 DEF Recording
  <2>3. q \in Stamp
    BY <1>1 DEF ClocksInv, ClocksTypeOK
  <2> QED
    BY <2>1, <2>2, <2>3, BeforeTransitive
<1>2. ClocksInv /\ [ClocksNext]_clockVars =>
        [\A n \in Node, q \in requests :
           /\ Heeded(n, q) /\ Clamped(q.wall, physical[n]) = q.wall
           /\ count'[n] > count[n] /\ Arrive(n, q)
           => \A e \in latest'[n] : Before(q, e.stamp)]_clockVars
  BY <1>1
<1> QED
  BY <1>2, ClocksInitial, ClocksStep, PTL DEF ClocksSpec, ArrivesAfterHeader

\* Ids and stamps agree on the order of an event, with the timestamp nested in
\* it, and the one before it, while the clock is not set back, does not tick
\* between a nested timestamp and its event, and the random part does not wrap.
THEOREM IdsAreOrdered == ClocksSpec => IdsFollowStamps
<1>1. ClocksInv /\ [ClocksNext]_clockVars =>
        [\A n \in Node :
           /\ count'[n] > count[n]
           /\ Steady(latest[n]) /\ Steady(latest'[n]) /\ ~id'[n].wrapped
           => \A e \in latest[n], f \in latest'[n] :
                 /\ Before(e.stamp, f.stamp)
                 /\ e.id.time <= f.id.time => IdBefore(e.id, f.id)]_clockVars
  BY ClocksStep DEF Orderly
<1> QED
  BY <1>1, ClocksInitial, ClocksStep, PTL DEF ClocksSpec, IdsFollowStamps

=============================================================================

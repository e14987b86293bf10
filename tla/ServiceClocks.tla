--------------------------- MODULE ServiceClocks ---------------------------
(***************************************************************************)
(* The clocks of services that call each other: the hybrid logical clock   *)
(* of each (core/src/hlc.ts), its ULID generator (core/src/ulid.ts), and   *)
(* the header in which a clock travels with a request (probe/src/          *)
(* interceptors/http-outgoing.ts, http-incoming.ts).  Physical clocks      *)
(* differ, and may be set back; requests are lost, repeated and reordered. *)
(*                                                                         *)
(* An event gets its stamp, then its id.  The id reads Date.now, and in    *)
(* the context of a request that is the probe's own (probe/src/            *)
(* interceptors/globals.ts): it records a timestamp first, whose stamp is  *)
(* later than that of the event it is nested in, and whose id is earlier.  *)
(***************************************************************************)
EXTENDS Integers, FiniteSets

CONSTANTS
    Node,
    MaxLogical,    \* MAX_LOGICAL
    MaxDrift,      \* MAX_DRIFT_MS
    HeaderDrift,   \* the 24 h beyond which a header is ignored
    HeaderLogical, \* the 65535 beyond which it is ignored
    Randoms,       \* the number of random parts of an id, 2^80
    MaxTime,       \* bound: physical time
    MaxStamps      \* bound: events of each node

ASSUME ClockConstants ==
    /\ MaxLogical \in Nat \ {0} /\ MaxDrift \in Nat /\ HeaderDrift \in Nat
    /\ HeaderLogical \in Nat
    /\ Randoms \in Nat \ {0, 1} /\ MaxTime \in Nat
    /\ MaxStamps \in [Node -> Nat]

\* No node records so many events that its counter overflows (MAX_LOGICAL is
\* 2^53 - 2, and a header brings 65535 at most).
ASSUME CounterSuffices ==
    \A n \in Node : HeaderLogical + 2 * MaxStamps[n] < MaxLogical

VARIABLES
    physical,  \* the physical clock of each node
    clock,     \* wallTime and logical
    id,        \* lastTime and lastRandom, and whether it has wrapped around since
    latest,    \* history: the event recorded last, with the timestamp nested in it
    count,     \* how many events each node recorded
    highest,   \* history: the highest time its physical clock has shown
    requests   \* requests sent, as they may still arrive

clockVars == <<physical, clock, id, latest, count, highest, requests>>

Stamp == [wall: Nat, logical: Nat]
Id == [time: Int, rand: 0..(Randoms - 1), wrapped: BOOLEAN]

ClocksTypeOK ==
    /\ physical \in [Node -> Nat] /\ highest \in [Node -> Nat]
    /\ clock \in [Node -> Stamp]
    /\ \A n \in Node : clock[n].logical < MaxLogical
    /\ id \in [Node -> Id]
    /\ latest \in [Node -> SUBSET [stamp: Stamp, id: Id]]
    /\ count \in [Node -> Nat]
    /\ requests \subseteq Stamp

-----------------------------------------------------------------------------
\* compareHLC(), but for the node that breaks ties.
Before(a, b) == a.wall < b.wall \/ (a.wall = b.wall /\ a.logical < b.logical)

\* A mutant of Advanced: the clock follows the physical one.
AdvancedBack(c, p) ==
    IF p # c.wall THEN [wall |-> p, logical |-> 0]
    ELSE [c EXCEPT !.logical = @ + 1]

\* now(), at physical time p.
Advanced(c, p) ==
    IF p > c.wall THEN [wall |-> p, logical |-> 0]
    ELSE [c EXCEPT !.logical = @ + 1]

Clamped(wall, p) ==
    IF wall > p + MaxDrift THEN p + MaxDrift
    ELSE IF wall < p - MaxDrift THEN p - MaxDrift ELSE wall

Greater(a, b) == IF a >= b THEN a ELSE b

\* Mutants of Merged: a remote clock is not clamped; of two clocks at the same
\* time, ours wins.
MergedUnclamped(c, remote, p) ==
    IF Before(c, remote) THEN [remote EXCEPT !.logical = @ + 1]
    ELSE Advanced(c, p)
MergedOurs(c, remote, p) ==
    IF remote.wall > c.wall /\ remote.wall <= p + MaxDrift
    THEN [remote EXCEPT !.logical = @ + 1] ELSE c

\* receive(), at physical time p.
Merged(c, remote, p) ==
    LET wall == Clamped(remote.wall, p)
        logical == IF wall = c.wall THEN Greater(c.logical, remote.logical) + 1
                   ELSE IF wall > c.wall THEN remote.logical + 1
                   ELSE c.logical + 1
    IN  IF (p > c.wall /\ p > wall) \/ logical >= MaxLogical
        THEN [wall |-> p, logical |-> 0]
        ELSE [wall |-> Greater(wall, c.wall), logical |-> logical]

\* now() throws before the counter overflows.
Fits(c) == c.logical < MaxLogical

\* A mutant of Drawn: every id is drawn anew.
DrawnAnew(last, p) == {[time |-> p, rand |-> r, wrapped |-> FALSE] : r \in 0..(Randoms - 1)}

\* ulid(): the random part counts up within a millisecond, and is drawn anew
\* in any other, an earlier one too.
Drawn(last, p) ==
    IF p = last.time
    THEN {[last EXCEPT !.rand = (@ + 1) % Randoms,
                       !.wrapped = @ \/ last.rand + 1 = Randoms]}
    ELSE {[time |-> p, rand |-> r, wrapped |-> FALSE] : r \in 0..(Randoms - 1)}

\* The physical clock, read again: it may have ticked.
Later(p) == {p, p + 1}

Shows(n, p) ==
    /\ p <= MaxTime
    /\ physical' = [physical EXCEPT ![n] = p]
    /\ highest' = [highest EXCEPT ![n] = Greater(@, p)]

\* record() on n, whose clock is c, at physical time p: the event is stamped, and
\* its id drawn.
Bare(n, c, p) ==
    LET stamp == Advanced(c, p)
    IN  /\ count[n] < MaxStamps[n] /\ Fits(stamp)
        /\ \E v \in Later(p) : \E new \in Drawn(id[n], v) :
              /\ Shows(n, v)
              /\ id' = [id EXCEPT ![n] = new]
              /\ latest' = [latest EXCEPT ![n] = {[stamp |-> stamp, id |-> new]}]
        /\ clock' = [clock EXCEPT ![n] = stamp]
        /\ count' = [count EXCEPT ![n] = @ + 1]

\* The same in a context: Date.now reads the time v of the id, then records its
\* timestamp, for whose stamp and id the clock is read once, and the id is drawn
\* after that.
Nesting(n, c, p) ==
    LET stamp == Advanced(c, p)
    IN  /\ count[n] + 1 < MaxStamps[n]
        /\ \E v \in Later(p) : \E w \in Later(v) :
              LET nested == Advanced(stamp, w)
              IN  /\ Shows(n, w) /\ Fits(nested)
                  /\ clock' = [clock EXCEPT ![n] = nested]
                  /\ \E first \in Drawn(id[n], w) : \E new \in Drawn(first, v) :
                        /\ id' = [id EXCEPT ![n] = new]
                        /\ latest' = [latest EXCEPT ![n] = {[stamp |-> nested, id |-> first],
                                                            [stamp |-> stamp, id |-> new]}]
        /\ count' = [count EXCEPT ![n] = @ + 2]

Event(n, c, p) == Bare(n, c, p) \/ Nesting(n, c, p)

\* Any event that is recorded.
Local(n) ==
    /\ Event(n, clock[n], physical[n])
    /\ UNCHANGED requests

\* fetch(): the header is written, then the event recorded.
Send(n) ==
    /\ Event(n, clock[n], physical[n])
    /\ requests' = requests \cup {clock[n]}

\* The header is used unless it is too far off.
Heeded(n, q) ==
    /\ q.logical <= HeaderLogical
    /\ q.wall - physical[n] < HeaderDrift
    /\ physical[n] - q.wall < HeaderDrift

\* The middleware merges the header and records the request.
Arrive(n, q) ==
    /\ Event(n, IF Heeded(n, q) THEN Merged(clock[n], q, physical[n]) ELSE clock[n],
             physical[n])
    /\ UNCHANGED requests

Tick(n) ==
    /\ physical[n] < MaxTime
    /\ physical' = [physical EXCEPT ![n] = @ + 1]
    /\ highest' = [highest EXCEPT ![n] = Greater(@, physical'[n])]
    /\ UNCHANGED <<clock, id, latest, count, requests>>

SetBack(n) ==
    /\ physical[n] > 0
    /\ physical' = [physical EXCEPT ![n] = @ - 1]
    /\ UNCHANGED <<clock, id, latest, count, highest, requests>>

ClocksInit ==
    /\ physical \in [Node -> 0..MaxTime]
    /\ highest = physical
    /\ clock = [n \in Node |-> [wall |-> physical[n], logical |-> 0]]
    /\ id = [n \in Node |-> [time |-> -1, rand |-> 0, wrapped |-> FALSE]]
    /\ latest = [n \in Node |-> {}]
    /\ count = [n \in Node |-> 0]
    /\ requests = {}

ClocksNext ==
    \E n \in Node : \/ Local(n) \/ Send(n) \/ Tick(n) \/ SetBack(n)
                    \/ \E q \in requests : Arrive(n, q)

ClocksSpec == ClocksInit /\ [][ClocksNext]_clockVars

-----------------------------------------------------------------------------
\* The events of a node are stamped later than all it stamped before, whatever
\* arrives and although the physical clock is set back (hlc.ts:
\* "globally-ordered timestamps").
StampsIncrease ==
    [][\A n \in Node : count'[n] > count[n] =>
           \A e \in latest'[n] : Before(clock[n], e.stamp)]_clockVars

\* A request is stamped, where it arrives, after everything its sender had
\* stamped when it wrote the header, if the two clocks are close enough
\* (hlc.ts: "if A -> B then HLC(A) < HLC(B)").
ArrivesAfterHeader ==
    [][\A n \in Node, q \in requests :
           /\ Heeded(n, q) /\ Clamped(q.wall, physical[n]) = q.wall
           /\ count'[n] > count[n] /\ Arrive(n, q)
           => \A e \in latest'[n] : Before(q, e.stamp)]_clockVars

\* However many messages arrive and however they were stamped, no clock runs
\* more than MAX_DRIFT_MS ahead of the time its own machine has shown (hlc.ts:
\* a remote node cannot advance it arbitrarily).
NeverFarAhead == \A n \in Node : clock[n].wall <= highest[n] + MaxDrift

IdBefore(a, b) == a.time < b.time \/ (a.time = b.time /\ a.rand < b.rand)

\* The clock did not tick between an event's id and its nested timestamp's.
Steady(events) == \A e, f \in events : e.id.time = f.id.time

\* Ids and stamps agree that an event, with the timestamp nested in it, comes
\* after the one recorded before it (ulid.ts: "lexicographically sortable by
\* creation time"), while the physical clock is not set back, the random part
\* does not wrap, and no tick falls between a nested timestamp and its event,
\* whose id is then drawn anew in the millisecond that has passed.  An event
\* and its own nested timestamp they put in opposite orders.
IdsFollowStamps ==
    [][\A n \in Node :
           /\ count'[n] > count[n]
           /\ Steady(latest[n]) /\ Steady(latest'[n]) /\ ~id'[n].wrapped
           => \A e \in latest[n], f \in latest'[n] :
                 /\ Before(e.stamp, f.stamp)
                 /\ e.id.time <= f.id.time => IdBefore(e.id, f.id)]_clockVars
=============================================================================

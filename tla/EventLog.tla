------------------------------ MODULE EventLog ------------------------------
(***************************************************************************)
(* The list of events of one recorded request (recording-context.ts).      *)
(* Every event that is pushed takes the next sequence number, so an event's *)
(* sequence is its position and is not kept.                               *)
(*                                                                         *)
(* An event gets its id from ulid(), whose default argument calls          *)
(* Date.now().  Once the probe has patched Date.now, an event recorded     *)
(* inside the request's context therefore records a timestamp event first: *)
(* "nested" is <<>> or that one event.                                     *)
(***************************************************************************)
EXTENDS Naturals, Sequences

CONSTANTS MaxEvents, \* MAX_EVENTS
          Marker     \* the "Event limit reached" event

ASSUME EventLogConstants == MaxEvents \in Nat \ {0}

EmptyLog == [events |-> <<>>, overflowed |-> FALSE, timers |-> 0]

Logs(Event) == [events: Seq(Event), overflowed: BOOLEAN, timers: Nat]

Full(log) == Len(log.events) >= MaxEvents

Pushed(log, es) == [log EXCEPT !.events = @ \o es]

\* What a full log becomes: the marker is recorded once.
Overflow(log) ==
    IF log.overflowed THEN log
    ELSE [Pushed(log, <<Marker>>) EXCEPT !.overflowed = TRUE]

\* record()
Record(log, nested, e) ==
    IF Full(log) THEN Overflow(log) ELSE Pushed(log, nested \o <<e>>)

\* allocateTimerId()
WithTimer(log) == [log EXCEPT !.timers = @ + 1]
=============================================================================

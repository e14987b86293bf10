------------------------------- MODULE Probe -------------------------------
(***************************************************************************)
(* The probe around an application: its lifecycle (probe/src/index.ts) and *)
(* the middleware that opens a recording for every request and decides at  *)
(* its end whether to hand it to the collector client (http-incoming.ts),  *)
(* composed with the sampling engine and the event log of each request.    *)
(*                                                                         *)
(* What an event holds is left out here: it is its type.  Handlers may     *)
(* record more events at any time, answer more than once, or never.        *)
(***************************************************************************)
EXTENDS Sampling, EventLog

CONSTANTS
    Request,
    Features,   \* what the license grants: a subset of Gated
    Drivers,    \* the database drivers that require() finds
    MaxNotes,   \* bound: events all handlers record
    MaxEnds     \* bound: res.end() calls

Always == {"globals", "fetch", "timers", "esm_uuid", "errors"}
Gated == {"fs_interceptor", "dns_interceptor", "database_interceptor"}
KnownDrivers == {"pg", "ioredis", "mongoose"}

ASSUME ProbeConstants ==
    /\ Route # {}
    /\ Features \subseteq Gated /\ Drivers \subseteq KnownDrivers
    /\ MaxNotes \in Nat /\ MaxEnds \in Nat
    /\ Marker \notin {"in", "out", "timestamp", "note"}

VARIABLES
    started,     \* started
    installed,   \* the interceptors in place; most modules have such a flag
    shipping,    \* whether the collector client's interval runs
    enabled,     \* config.enabled
    req,         \* the middleware's closure of each request
    recordings   \* history: the event lists passed to onSessionComplete()

lifecycleVars == <<started, installed, shipping, enabled>>
probeVars == <<samplingVars, lifecycleVars, req, recordings>>

EventType == {"in", "out", "timestamp", "note", Marker}

Unseen == [phase |-> "none", route |-> CHOOSE r \in Route : TRUE, head |-> "dropped",
           log |-> EmptyLog, notes |-> 0, ends |-> 0, owed |-> FALSE]

ProbeTypeOK ==
    /\ SamplingTypeOK
    /\ <<started, shipping, enabled>> \in BOOLEAN \X BOOLEAN \X BOOLEAN
    /\ installed \subseteq Always \cup Features \cup Drivers
    /\ req \in [Request -> [phase: {"none", "passed", "open"}, route: Route, head: Reason,
                            log: Logs(EventType), notes: Nat, ends: Nat,
                            owed: BOOLEAN]]
    /\ recordings \in [Request -> Seq(Seq(EventType))]
    /\ \A r \in Request : Len(recordings[r]) <= req[r].ends

Notes == MapThenSumSet(LAMBDA r : req[r].notes, Request)
Ends == MapThenSumSet(LAMBDA r : req[r].ends, Request)

-----------------------------------------------------------------------------
\* The database interceptors that start() finds a driver for.
Databases == IF "database_interceptor" \in Features THEN Drivers ELSE {}

\* start(), also by middleware().
Start ==
    /\ ~started
    /\ started' = TRUE
    /\ installed' = Always \cup (Features \ {"database_interceptor"}) \cup Databases
    /\ shipping' = TRUE
    /\ UNCHANGED <<samplingVars, enabled, req, recordings>>

\* shutdown() uninstalls every interceptor, but ES modules that import randomUUID
\* keep the patched one; and the middleware stays and goes on recording.
Shutdown ==
    /\ started
    /\ started' = FALSE
    /\ installed' = installed \cap {"esm_uuid"}
    /\ shipping' = FALSE
    /\ UNCHANGED <<samplingVars, enabled, req, recordings>>

SetEnabled ==
    /\ enabled' = ~enabled
    /\ UNCHANGED <<samplingVars, started, installed, shipping, req, recordings>>

\* setSamplingRate(), updateSamplingConfig(), forceRecord(), getSamplingStats().
Sampler == SamplingStep /\ UNCHANGED <<lifecycleVars, req, recordings>>

-----------------------------------------------------------------------------
\* What ulid() records when an event is recorded in a request's context, unless
\* it is one of Date.now() or Math.random() themselves.
Nested == IF "globals" \in installed THEN <<"timestamp">> ELSE <<>>

\* The middleware is disabled: the request passes.
Pass(r) ==
    /\ req[r].phase = "none" /\ ~enabled
    /\ req' = [req EXCEPT ![r].phase = "passed"]
    /\ UNCHANGED <<samplingVars, lifecycleVars, recordings>>

\* The middleware: the request is recorded before its context is entered.
Opened(q, route, head) ==
    [q EXCEPT !.phase = "open", !.route = route, !.head = head,
              !.log = Record(EmptyLog, <<>>, "in")]

Open(r) ==
    /\ req[r].phase = "none" /\ enabled
    /\ \E route \in Route, up, lucky \in BOOLEAN :
          /\ HeadDecision(route, up, lucky)
          /\ req' = [req EXCEPT ![r] = Opened(@, route, HeadReason(route, up, lucky))]
    /\ UNCHANGED <<lifecycleVars, recordings>>

\* An interceptor records an event of the request, maybe after its end.
Noted(q, nested) == [q EXCEPT !.log = Record(@, nested, "note"), !.notes = @ + 1]

Note(r) ==
    /\ req[r].phase = "open" /\ Notes < MaxNotes
    /\ \E nested \in {<<>>, Nested} : req' = [req EXCEPT ![r] = Noted(@, nested)]
    /\ UNCHANGED <<samplingVars, lifecycleVars, recordings>>

\* A mutant of Finalized: the recording is closed before the response is in it.
FinalizedEarly(before, after) == before.events

\* finalize() copies the events.
Finalized(before, after) == after.events

Ended(q, log, failed) ==
    [q EXCEPT !.log = log, !.ends = @ + 1, !.owed = @ \/ (failed /\ config.errors)]

\* res.end() with the status failed (5xx) or not, after a slow request or not.
End(r) ==
    /\ req[r].phase = "open" /\ Ends < MaxEnds
    /\ \E failed, slow \in BOOLEAN :
          LET log == Record(req[r].log, Nested, "out")
              kept == Keeps(TailReason(req[r].head, failed, slow))
          IN  /\ TailDecision(req[r].route, req[r].head, failed, slow)
              /\ recordings' = IF kept
                   THEN [recordings EXCEPT ![r] = Append(@, Finalized(req[r].log, log))]
                   ELSE recordings
              /\ req' = [req EXCEPT ![r] = Ended(@, log, failed)]
    /\ UNCHANGED lifecycleVars

ProbeInit ==
    /\ SamplingInit
    /\ started = FALSE /\ shipping = FALSE /\ enabled = TRUE
    /\ installed = {}
    /\ req = [r \in Request |-> Unseen]
    /\ recordings = [r \in Request |-> <<>>]

ProbeNext ==
    \/ Start \/ Shutdown \/ SetEnabled \/ Sampler
    \/ \E r \in Request : Pass(r) \/ Open(r) \/ Note(r) \/ End(r)

ProbeSpec == ProbeInit /\ [][ProbeNext]_probeVars

-----------------------------------------------------------------------------
\* A request answered with a server error is recorded, whatever was decided at
\* its head and whatever was switched while it ran (sampling.ts: "Errors are
\* ALWAYS recorded (100%)").
ErrorsNeverMissed == \A r \in Request : req[r].owed => recordings[r] # <<>>

\* Requests that overlap never share a "new_path" decision for a route
\* (sampling.ts, its INVARIANT); once the table of paths is full they all do.
NewPathOnce ==
    \A r, s \in Request :
        /\ r # s /\ req[r].route = req[s].route
        /\ req[r].head = "new_path" /\ req[s].head = "new_path"
        => Cardinality(seenPaths) = MaxTrackedPaths

\* A recording begins with its request and ends with its response, unless the
\* limit cut it short and says so; a second res.end() adds, and loses nothing.
Framed ==
    \A r \in Request : \A i \in DOMAIN recordings[r] :
        LET es == recordings[r][i]
        IN  /\ es[1] = "in"
            /\ Last(es) \in {"out", Marker}
            /\ i > 1 => IsStrictPrefix(recordings[r][i - 1], es) \/ Marker \in ToSet(es)

\* However many events a handler records, a log holds at most MAX_EVENTS, the
\* timestamp nested in the last of them, and one marker.
LogBounded ==
    \A r \in Request : Len(req[r].log.events) <= MaxEvents + 2
=============================================================================

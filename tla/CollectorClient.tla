-------------------------- MODULE CollectorClient --------------------------
(***************************************************************************)
(* The probe's transport (transport/collector-client.ts): completed        *)
(* sessions are buffered in memory, posted in batches, spilled to disk     *)
(* while the circuit breaker is open and drained back when it closes.      *)
(*                                                                         *)
(* JavaScript runs one callback at a time, so a step is the code between   *)
(* two awaits; the only await of flush() is the POST.  The two synchronous *)
(* loops (spilling a batch, draining the spill files) are one step per     *)
(* iteration during which nothing but the death of the process can happen, *)
(* because each iteration changes the disk.                                *)
(*                                                                         *)
(* The collector is seen from the client: a POST ends in an answer with a  *)
(* 2xx status, or in an error (refused, timed out after 5 s, any other     *)
(* status) after which the collector may hold any first part of the batch. *)
(***************************************************************************)
EXTENDS SpillBuffer

CONSTANTS
    MaxBufferSize,            \* maxBufferSize
    CircuitBreakerThreshold,  \* circuitBreakerThreshold
    Modes,                    \* how a process may be set up
    MaxRestarts               \* bound: how often the process dies

ASSUME ClientConstants ==
    /\ MaxBufferSize \in Nat \ {0}
    /\ CircuitBreakerThreshold \in Nat \ {0}
    \* "graceful": strict is off, somebody listens to the 'error' event
    \* "strict":   strict is on, somebody listens
    \* "unheard":  nobody listens to the 'error' event
    /\ Modes \subseteq {"graceful", "strict", "unheard"}
    /\ Modes # {}
    /\ MaxRestarts \in Nat

VARIABLES
    mode,       \* how the process is set up
    buffer,     \* buffer
    inFlight,   \* the part of flush()'s batch that is not disposed of
    phase,      \* where flush() is; _flushing is phase # "idle"
    failures,   \* _consecutiveFailures, which no test tells apart above the threshold
    spilling,   \* _spilling
    stop,       \* stop(): not called, waiting for its flush, resolved
    useLocal,   \* useLocalStore
    received,   \* the sessions the collector has stored
    fate,       \* how each session last left the client's hands, if it did
    twice,      \* the sessions drained from a file that stayed
    restarts    \* how often the process died

clientVars == <<mode, buffer, inFlight, phase, failures, spilling, stop, useLocal,
                received, fate, twice, restarts>>

vars == <<clientVars, spillVars>>

(***************************************************************************)
(* fate and twice are history variables: they decide no step.  _totalSent  *)
(* and _totalDropped count the sessions that become "sent" and "dropped",  *)
(* localStore holds those that are "local".  "evicted" is the              *)
(* console.warn of enforceMaxFiles, "raised" the error of strict mode,     *)
(* "crashed" the death of the process with the session in memory.  The     *)
(* last two are seen by nobody: "glued", written behind a torn line, and   *)
(* "unread", in a file evicted although it could not be read.              *)
(***************************************************************************)
Fate == {"fresh", "held", "local", "sent", "dropped", "evicted", "raised", "crashed",
         "glued", "unread"}

TypeOK ==
    /\ SpillTypeOK
    /\ mode \in Modes
    /\ buffer \in Seq(Session)
    /\ inFlight \in Seq(Session)
    /\ phase \in {"idle", "sending", "spilling"}
    /\ phase = "idle" <=> inFlight = <<>>
    /\ failures \in 0..CircuitBreakerThreshold
    /\ spilling \in BOOLEAN
    /\ stop \in {"running", "stopping", "stopped"}
    /\ useLocal \in BOOLEAN
    /\ received \in SUBSET Session
    /\ fate \in [Session -> Fate]
    /\ twice \in SUBSET Session
    /\ restarts \in 0..MaxRestarts

Mark(S, f) == [s \in Session |-> IF s \in S THEN f ELSE fate[s]]

\* No synchronous loop is running: the event loop may start a callback.
Quiet == phase # "spilling" /\ draining = {}

(***************************************************************************)
(* flush(), up to the await                                                *)
(***************************************************************************)

\* A mutant of Launch: the batch is copied out of the buffer, not spliced.
LaunchCopy(q) ==
    /\ inFlight' = q
    /\ buffer' = q
    /\ phase' = "sending"

Launch(q) ==
    /\ inFlight' = q
    /\ buffer' = <<>>
    /\ phase' = "sending"

\* A mutant of FlushOr: the _flushing lock is ignored.
FlushUnlocked(q) ==
    IF q # <<>> THEN Launch(q)
    ELSE buffer' = q /\ UNCHANGED <<inFlight, phase>>

\* flush() called with q in the buffer.
FlushOr(q) ==
    IF phase = "idle" /\ q # <<>> THEN Launch(q)
    ELSE buffer' = q /\ UNCHANGED <<inFlight, phase>>

\* stop() resolves when the flush it awaits ends.
Resolve == stop' = IF stop = "stopping" THEN "stopped" ELSE stop

(***************************************************************************)
(* spillSession(s)                                                         *)
(***************************************************************************)

\* The fates after an append that returned true and unlinked the files in gone,
\* those in unread without having read them.
Appended(s, gone, unread) ==
    [t \in Session |->
        CASE t = s -> IF EndsTorn THEN "glued" ELSE "held"
          [] t # s /\ t \in SessionsIn(gone \cap unread) -> "unread"
          [] t # s /\ t \in SessionsIn(gone \ unread) \ SessionsIn(gone \cap unread) -> "evicted"
          [] OTHER -> fate[t]]

SpillSession(s) ==
    \/ \E kept, unread \in SUBSET Excess :
         /\ AppendOk(s, kept, unread)
         /\ fate' = Appended(s, Excess \ kept, unread)
    \/ \E fault \in AppendFaults :
         /\ AppendFailed(s, fault)
         /\ fate' = [fate EXCEPT ![s] = "dropped"]

(***************************************************************************)
(* enqueue(s), for the session that completes next                         *)
(***************************************************************************)

Completes(s) ==
    /\ Quiet
    /\ fate[s] = "fresh"
    /\ \A t \in Session : t < s => fate[t] # "fresh"

EnqueueLocal(s) ==
    /\ Completes(s)
    /\ useLocal
    /\ fate' = [fate EXCEPT ![s] = "local"]
    /\ UNCHANGED <<mode, buffer, inFlight, phase, failures, spilling, stop, useLocal,
                   received, twice, restarts, spillVars>>

EnqueueSpilled(s) ==
    /\ Completes(s)
    /\ ~useLocal
    /\ spilling
    /\ SpillSession(s)
    /\ UNCHANGED <<mode, buffer, inFlight, phase, failures, spilling, stop, useLocal,
                   received, twice, restarts>>

\* The number of oldest sessions the buffer limit drops.
Overflow(q) == IF Len(q) > 2 * MaxBufferSize THEN Len(q) - MaxBufferSize ELSE 0

EnqueueBuffered(s) ==
    /\ Completes(s)
    /\ ~useLocal
    /\ ~spilling
    /\ LET q == Append(buffer, s)
           dropped == SubSeq(q, 1, Overflow(q))
       IN  /\ FlushOr(SubSeq(q, Overflow(q) + 1, Len(q)))
           /\ fate' = [t \in Session |->
                         IF t \in Range(dropped) THEN "dropped"
                         ELSE IF t = s THEN "held" ELSE fate[t]]
    /\ UNCHANGED <<mode, failures, spilling, stop, useLocal, received, twice, restarts, spillVars>>

Enqueue(s) == EnqueueLocal(s) \/ EnqueueSpilled(s) \/ EnqueueBuffered(s)

\* enableLocalStore()
EnableLocalStore ==
    /\ Quiet
    /\ ~useLocal
    /\ useLocal' = TRUE
    /\ UNCHANGED <<mode, buffer, inFlight, phase, failures, spilling, stop,
                   received, fate, twice, restarts, spillVars>>

\* The interval timer of start().
FlushTimer ==
    /\ Quiet
    /\ stop = "running"
    /\ phase = "idle"
    /\ buffer # <<>>
    /\ FlushOr(buffer)
    /\ UNCHANGED <<mode, failures, spilling, stop, useLocal, received, fate, twice, restarts, spillVars>>

\* stop(): the flush it awaits is a no-op when one is already running.
Stop ==
    /\ Quiet
    /\ stop = "running"
    /\ FlushOr(buffer)
    /\ stop' = IF phase = "idle" /\ buffer # <<>> THEN "stopping" ELSE "stopped"
    /\ UNCHANGED <<mode, failures, spilling, useLocal, received, fate, twice, restarts, spillVars>>

(***************************************************************************)
(* flush(), after the await                                                *)
(***************************************************************************)

Answered == phase = "sending" /\ Quiet

EndFlush ==
    /\ inFlight' = <<>>
    /\ phase' = "idle"
    /\ Resolve

\* A mutant of Recover: the failures are forgotten but the breaker stays open.
RecoverStaysOpen ==
    IF failures > 0 \/ spilling
    THEN /\ failures' = 0
         /\ UNCHANGED spilling
         /\ StartDrain
    ELSE UNCHANGED <<failures, spilling, draining>>

Recover ==
    IF failures > 0 \/ spilling
    THEN /\ failures' = 0
         /\ spilling' = FALSE
         /\ StartDrain
    ELSE UNCHANGED <<failures, spilling, draining>>

\* A mutant of PostOk: response.ok is not looked at, an error status is a success.
PostOkUnchecked ==
    /\ Answered
    /\ UNCHANGED received
    /\ fate' = Mark(Range(inFlight), "sent")
    /\ EndFlush
    /\ Recover
    /\ UNCHANGED <<mode, buffer, useLocal, twice, restarts, disk, current, lineCount>>

PostOk ==
    /\ Answered
    /\ received' = received \cup Range(inFlight)
    /\ fate' = Mark(Range(inFlight), "sent")
    /\ EndFlush
    /\ Recover
    /\ UNCHANGED <<mode, buffer, useLocal, twice, restarts, disk, current, lineCount>>

\* A mutant of PostFailed: the failure is not counted.
PostFailedUncounted(k) ==
    /\ Answered
    /\ received' = received \cup Range(SubSeq(inFlight, 1, k))
    /\ UNCHANGED <<mode, failures, useLocal, twice, restarts, spillVars>>

\* The POST failed after the collector stored the first k sessions.
PostFailed(k) ==
    /\ Answered
    /\ received' = received \cup Range(SubSeq(inFlight, 1, k))
    /\ failures' = IF failures < CircuitBreakerThreshold THEN failures + 1 ELSE failures
    /\ UNCHANGED <<mode, useLocal, twice, restarts, spillVars>>

\* Nobody listens: emit('error') throws and the rest of the catch block is
\* skipped.  The batch is garbage.
FailUnheard(k) ==
    /\ mode = "unheard"
    /\ PostFailed(k)
    /\ EndFlush
    /\ UNCHANGED <<buffer, spilling, fate>>

FailStrict(k) ==
    /\ mode = "strict"
    /\ PostFailed(k)
    /\ fate' = Mark(Range(inFlight), "raised")
    /\ EndFlush
    /\ UNCHANGED <<buffer, spilling>>

BeginSpill ==
    /\ phase' = "spilling"
    /\ UNCHANGED <<buffer, inFlight, stop, fate>>

\* The breaker opens, or is open already: the batch goes to disk.
FailOpen(k) ==
    /\ mode = "graceful"
    /\ PostFailed(k)
    /\ failures + 1 >= CircuitBreakerThreshold
    /\ spilling' = TRUE
    /\ BeginSpill

Room == MaxBufferSize - Len(buffer)

\* A mutant of Requeue: push() for unshift().
RequeueLast(batch, q) == q \o batch

\* this.buffer.unshift(...)
Requeue(batch, q) == batch \o q

\* Below the threshold: the oldest sessions of the batch that fit go back to
\* the front of the buffer, the others are counted as dropped.
FailRetry(k) ==
    /\ mode = "graceful"
    /\ PostFailed(k)
    /\ failures + 1 < CircuitBreakerThreshold
    /\ Len(buffer) < MaxBufferSize
    /\ LET kept == IF Room < Len(inFlight) THEN Room ELSE Len(inFlight)
       IN  /\ buffer' = Requeue(SubSeq(inFlight, 1, kept), buffer)
           /\ fate' = Mark(Range(SubSeq(inFlight, kept + 1, Len(inFlight))), "dropped")
    /\ EndFlush
    /\ UNCHANGED spilling

\* Below the threshold with a full buffer: the batch goes to disk, and the
\* breaker stays closed.
FailFull(k) ==
    /\ mode = "graceful"
    /\ PostFailed(k)
    /\ failures + 1 < CircuitBreakerThreshold
    /\ Len(buffer) >= MaxBufferSize
    /\ BeginSpill
    /\ UNCHANGED spilling

PostFail ==
    \E k \in 0..Len(inFlight) :
        FailUnheard(k) \/ FailStrict(k) \/ FailOpen(k) \/ FailRetry(k) \/ FailFull(k)

\* One iteration of the loop that spills the batch.
SpillBatch ==
    /\ phase = "spilling"
    /\ SpillSession(Head(inFlight))
    /\ inFlight' = Tail(inFlight)
    /\ IF Len(inFlight) = 1 THEN phase' = "idle" /\ Resolve ELSE UNCHANGED <<phase, stop>>
    /\ UNCHANGED <<mode, buffer, failures, spilling, useLocal, received, twice, restarts>>

(***************************************************************************)
(* drainSpill(): one iteration of the loop of drain().  The sessions are   *)
(* pushed on the buffer as they are read; the code pushes them together    *)
(* when the loop is over, before anything else can run.                    *)
(***************************************************************************)

Drained(q, lines) == q \o lines

\* The lines of a file are returned: the client holds their sessions again.
Returned(n) ==
    /\ buffer' = Drained(buffer, disk[n].lines)
    /\ fate' = Mark(Range(disk[n].lines), "held")

DrainSpill ==
    /\ \E n \in draining :
         \/ DrainFile(n) /\ Returned(n) /\ UNCHANGED twice
         \/ KeepFile(n) /\ Returned(n) /\ twice' = twice \cup Range(disk[n].lines)
         \/ SkipFile(n) /\ UNCHANGED <<buffer, fate, twice>>
    /\ UNCHANGED <<mode, inFlight, phase, failures, spilling, stop, useLocal,
                   received, restarts>>

(***************************************************************************)
(* The process ends, at any point, and a new one runs the constructor and  *)
(* start(), which drains the spill files; it may be set up differently.    *)
(* A POST that was in flight may still reach the collector.                *)
(***************************************************************************)
Restart ==
    /\ restarts < MaxRestarts
    /\ restarts' = restarts + 1
    /\ mode' \in Modes
    /\ \E k \in 0..Len(inFlight) :
         /\ phase # "sending" => k = 0
         /\ received' = received \cup Range(SubSeq(inFlight, 1, k))
    /\ fate' = Mark(Range(buffer) \cup Range(inFlight), "crashed")
    /\ buffer' = <<>>
    /\ inFlight' = <<>>
    /\ phase' = "idle"
    /\ failures' = 0
    /\ spilling' = FALSE
    /\ stop' = "running"
    /\ useLocal' = FALSE
    /\ UNCHANGED twice
    /\ NewSpillBuffer
    /\ StartDrain

Init ==
    /\ SpillInit
    /\ mode \in Modes
    /\ buffer = <<>>
    /\ inFlight = <<>>
    /\ phase = "idle"
    /\ failures = 0
    /\ spilling = FALSE
    /\ stop = "running"
    /\ useLocal = FALSE
    /\ received = {}
    /\ fate = [s \in Session |-> "fresh"]
    /\ twice = {}
    /\ restarts = 0

Next ==
    \/ \E s \in Session : Enqueue(s)
    \/ EnableLocalStore
    \/ FlushTimer
    \/ Stop
    \/ PostOk
    \/ PostFail
    \/ SpillBatch
    \/ DrainSpill
    \/ Restart

Spec == Init /\ [][Next]_vars

\* The interval timer fires, a POST is answered or aborted by its timeout, and
\* a synchronous loop runs to its end.
Fairness ==
    /\ WF_vars(FlushTimer)
    /\ WF_vars(PostOk \/ PostFail)
    /\ WF_vars(SpillBatch)
    /\ WF_vars(DrainSpill)

FairSpec == Spec /\ Fairness

-----------------------------------------------------------------------------
(***************************************************************************)
(* Properties                                                              *)
(***************************************************************************)

Held == Range(buffer) \cup Range(inFlight) \cup OnDisk

\* collector-client.ts:14, the module's own invariant: a session is never
\* silently dropped.  A session that was enqueued and has not left by a way
\* that is counted, logged or thrown is in the buffer, in the batch of the
\* running flush, or readable on disk; the exceptions are the fates "glued" and
\* "unread", which the code does not notice.
NoSilentDrop == \A s \in Session : fate[s] = "held" => s \in Held

Occurrences(q, s) == Cardinality({i \in DOMAIN q : q[i] = s})

\* The client never keeps two copies of a session, over any mix of retries,
\* spills, drains, failed writes and restarts, unless a file it drained could
\* not be unlinked: what it posts twice is only what it was told had failed.
AtMostOneCopy ==
    \A s \in Session \ twice :
        LET files == {n \in DOMAIN disk : s \in Range(disk[n].lines)}
        IN  /\ Occurrences(buffer, s) + Occurrences(inFlight, s) + Cardinality(files) <= 1
            /\ \A n \in files : Occurrences(disk[n].lines, s) = 1

\* The breaker is open exactly when the last flushes that ended failed
\* threshold times in a row, and only where a failed batch is spilled (circuit
\* breaker of flush(), its reset, and strict mode's way around it).
BreakerMatchesFailures ==
    spilling <=> (mode = "graceful" /\ failures >= CircuitBreakerThreshold)

\* What became of a session, as SessionCustody tells it.  A session that is
\* nowhere, and was not seen to leave, has vanished: no step allows it.
Custody ==
    [s \in Session |->
        CASE s \in Held -> "held"
          [] s \notin Held /\ fate[s] = "fresh" -> "new"
          [] s \notin Held /\ fate[s] = "sent"  -> "delivered"
          [] s \notin Held /\ fate[s] = "local" -> "local"
          [] s \notin Held /\ fate[s] = "held"  -> "vanished"
          [] OTHER -> "lost"]

C == INSTANCE SessionCustody WITH status <- Custody, stored <- received

\* The client keeps the promise of its header over retries, partly stored
\* batches, spills, drains and restarts: it posts only what it holds, calls
\* delivered only what the collector has, and never takes back what it gave up.
KeepsCustody == C!Spec

Before(q, s, t) == \E i, j \in DOMAIN q : i < j /\ q[i] = s /\ q[j] = t

Pending == inFlight \o buffer

\* Sessions that wait to be posted never overtake each other: a failed batch
\* goes back in front of what was enqueued meanwhile, drained sessions go
\* behind, in whatever order the files are read.  A session that is drained
\* again from a file that stayed has two places.
PendingOrderStable ==
    [][\A s, t \in Session \ twice' :
          /\ Before(Pending, s, t)
          /\ {s, t} \subseteq Range(Pending')
          => Before(Pending', s, t)]_vars

\* Without a stop, a session in memory gets out of it: it is posted, or the
\* failures add up to the threshold and it reaches the disk.
LeavesMemory ==
    [](stop = "running") =>
        \A s \in Session : s \in Range(Pending) ~> s \notin Range(Pending)

=============================================================================

--------------------------- MODULE CollectorServer ---------------------------
(***************************************************************************)
(* The collector's HTTP server (server.ts) on top of its storage engine    *)
(* (module FileStorage), with a probe that posts its whole queue, waits 5  *)
(* seconds for the answer and posts again what was not answered with 200.  *)
(*                                                                         *)
(* A handler runs from one await to the next: the body is read, then the   *)
(* sessions of the batch are validated and stored one after the other.     *)
(* A handler whose client has gone away runs to its end all the same, so   *)
(* a batch and its retry may be stored at the same time.                   *)
(*                                                                         *)
(* The probe is reduced to what the server can see of it; its buffer       *)
(* limit, its breaker and its spill files are in module CollectorClient.   *)
(* Limits on the rate (429) and on the bytes of a body (413) are one       *)
(* nondeterministic refusal here; modules RateLimiter and Admission model  *)
(* when they happen.                                                       *)
(***************************************************************************)
EXTENDS FileStorage

CONSTANTS
    Request,        \* connections the server has open at once
    MaxBatch,       \* MAX_SESSIONS_PER_BATCH
    Malformed,      \* sessions that fail the server's field checks
    Refuses,        \* the server may refuse a request before its sessions
    MaxCompleted,   \* bound: how many of the sessions are completed
    MaxTimeouts     \* bound: how often the probe gives up waiting

ASSUME ServerConstants ==
    /\ MaxBatch \in Nat \ {0}
    /\ Malformed \subseteq Session
    /\ Refuses \in BOOLEAN
    /\ MaxCompleted \in Nat /\ MaxTimeouts \in Nat

VARIABLES
    completed,         \* the sessions the probe has completed
    queue,             \* the probe's buffer
    batch,             \* the batch the probe waits for; empty when it waits for none
    request,           \* the handlers: stage, sessions, position, whether the probe waits
    sessionsReceived,  \* sessionsReceived
    delivered,         \* history: the sessions the probe was told are stored
    timeouts           \* how often the probe gave up

probeVars == <<completed, queue, batch, delivered, timeouts>>
serverVars == <<probeVars, request, sessionsReceived, vars>>

Free == [stage |-> "free"]
RequestState ==
    {Free} \cup [stage: {"arrived", "storing", "writing", "200", "refused"},
                 sessions: Seq(Session),
                 at: Nat \ {0}, awaited: BOOLEAN]

ServerTypeOK ==
    /\ TypeOK
    /\ completed \subseteq Session
    /\ queue \in Seq(Session)
    /\ batch \in Seq(Session)
    /\ request \in [Request -> RequestState]
    /\ sessionsReceived \in Nat
    /\ delivered \subseteq Session
    /\ timeouts \in 0..MaxTimeouts
    \* An answer is taken for the batch it answers.
    /\ \A r \in Request : request[r] # Free /\ request[r].awaited
                          => request[r].sessions = batch

To(r, stage) == request' = [request EXCEPT ![r].stage = stage]
Current(r) == request[r].sessions[request[r].at]

(***************************************************************************)
(* The probe                                                               *)
(***************************************************************************)

CompleteSession(s) ==
    /\ s \notin completed
    /\ Cardinality(completed) < MaxCompleted
    /\ completed' = completed \cup {s}
    /\ queue' = Append(queue, s)
    /\ UNCHANGED <<batch, delivered, timeouts, request, sessionsReceived, vars>>

\* flush(): the whole buffer in one POST.
Post(r) ==
    /\ batch = <<>>
    /\ queue # <<>>
    /\ request[r] = Free
    /\ batch' = queue
    /\ queue' = <<>>
    /\ request' = [request EXCEPT ![r] =
                     [stage |-> "arrived", sessions |-> queue, at |-> 1, awaited |-> TRUE]]
    /\ UNCHANGED <<completed, delivered, timeouts, sessionsReceived, vars>>

Requeue == queue' = batch \o queue /\ batch' = <<>>

\* AbortSignal.timeout(5000): the handler goes on without its client.
GiveUp(r) ==
    /\ request[r] # Free
    /\ request[r].awaited
    /\ timeouts < MaxTimeouts
    /\ timeouts' = timeouts + 1
    /\ Requeue
    /\ request' = [request EXCEPT ![r].awaited = FALSE]
    /\ UNCHANGED <<completed, delivered, sessionsReceived, vars>>

\* The response arrives, or nobody waits for it.
Answered(r) ==
    /\ request[r].stage \in {"200", "refused"}
    /\ request' = [request EXCEPT ![r] = Free]
    /\ IF ~request[r].awaited THEN UNCHANGED <<queue, batch, delivered>>
       ELSE IF request[r].stage = "refused" THEN Requeue /\ UNCHANGED delivered
       ELSE /\ batch' = <<>>
            /\ delivered' = delivered \cup Range(batch)
            /\ UNCHANGED queue
    /\ UNCHANGED <<completed, timeouts, sessionsReceived, vars>>

(***************************************************************************)
(* handleRequest(): POST /api/v1/sessions                                  *)
(***************************************************************************)

\* The Host header, the rate limit, the token, the body's size and time limit
\* and its JSON: 403, 429, 401, 413, 400 or 500 before any session is looked at.
Refuse(r) ==
    /\ Refuses
    /\ request[r].stage = "arrived"
    /\ To(r, "refused")
    /\ UNCHANGED <<probeVars, sessionsReceived, vars>>

BatchFits(r) == Len(request[r].sessions) <= MaxBatch

\* The body is read and parsed, and the number of its sessions is checked.
ReadBody(r) ==
    /\ request[r].stage = "arrived"
    /\ To(r, IF BatchFits(r) THEN "storing" ELSE "refused")
    /\ UNCHANGED <<probeVars, sessionsReceived, vars>>

\* A field check fails: 400, whatever was stored before it stays.
RejectSession(r) ==
    /\ request[r].stage = "storing"
    /\ request[r].at <= Len(request[r].sessions)
    /\ Current(r) \in Malformed
    /\ To(r, "refused")
    /\ UNCHANGED <<probeVars, sessionsReceived, vars>>

\* A mutant of StartStore: a session that is being written is written again.
StartStoreUnchecked(r) ==
    IF index[Current(r)] = "none"
    THEN /\ writer' = [writer EXCEPT ![Current(r)] = "writing"]
         /\ UNCHANGED <<fileVars, logVars, memVars, reader, history>>
         /\ To(r, "writing")
    ELSE To(r, "refused") /\ UNCHANGED vars

\* storage.store() is called; it throws at once when the session is already
\* stored or being written: 500.
StartStore(r) ==
    IF MayStore(Current(r)) THEN StoreBegin(Current(r)) /\ To(r, "writing")
    ELSE To(r, "refused") /\ UNCHANGED vars

StoreSession(r) ==
    /\ request[r].stage = "storing"
    /\ request[r].at <= Len(request[r].sessions)
    /\ Current(r) \notin Malformed
    /\ StartStore(r)
    /\ UNCHANGED <<probeVars, sessionsReceived>>

\* store() goes on in the storage engine ...
Writing(r) ==
    /\ request[r].stage = "writing"
    /\ \/ Flush(Current(r)) \/ Rename(Current(r)) \/ SyncDir(Current(r)) \/ SyncRefused(Current(r))
       \/ LogLine(Current(r))
       \/ IndexSession(Current(r)) /\ ~TraceFull(Current(r))
    /\ UNCHANGED <<probeVars, request, sessionsReceived>>

\* The loop of a handler goes to its next session.
Onward(q) == [q EXCEPT !.stage = "storing", !.at = @ + 1]

\* Mutants of StoreThrows: the handler hangs; the loop goes on with the next session.
StoreThrowsHanging(r) ==
    /\ request[r].stage = "writing"
    /\ \/ StoreFails(Current(r)) \/ RenameFails(Current(r))
       \/ IndexSession(Current(r)) /\ TraceFull(Current(r))
    /\ UNCHANGED <<probeVars, request, sessionsReceived>>

StoreThrowsSkipping(r) ==
    /\ request[r].stage = "writing"
    /\ \/ StoreFails(Current(r)) \/ RenameFails(Current(r))
       \/ IndexSession(Current(r)) /\ TraceFull(Current(r))
    /\ request' = [request EXCEPT ![r] = Onward(@)]
    /\ UNCHANGED <<probeVars, sessionsReceived>>

\* ... and throws: 500, or 400 when the trace is full.
StoreThrows(r) ==
    /\ request[r].stage = "writing"
    /\ \/ StoreFails(Current(r)) \/ RenameFails(Current(r))
       \/ IndexSession(Current(r)) /\ TraceFull(Current(r))
    /\ To(r, "refused")
    /\ UNCHANGED <<probeVars, sessionsReceived>>

\* ... or returns: the session is counted and the loop goes on.
SessionStored(r) ==
    /\ request[r].stage = "writing"
    /\ StoreReturns(Current(r))
    /\ request' = [request EXCEPT ![r] = Onward(@)]
    /\ sessionsReceived' = sessionsReceived + 1
    /\ UNCHANGED probeVars

\* The loop is over: 200.
BatchStored(r) ==
    /\ request[r].stage = "storing"
    /\ request[r].at > Len(request[r].sessions)
    /\ To(r, "200")
    /\ UNCHANGED <<probeVars, sessionsReceived, vars>>

(***************************************************************************)
(* The life of the server                                                  *)
(***************************************************************************)

\* The collector dies with its handlers, and start() of a new one rebuilds the
\* index before it listens.  The probe sees its connection break.
ServerRestarts ==
    /\ Restart
    /\ request' = [r \in Request |-> Free]
    /\ sessionsReceived' = 0
    /\ Requeue
    /\ UNCHANGED <<completed, delivered, timeouts>>

ServerInit ==
    /\ Init
    /\ completed = {}
    /\ queue = <<>>
    /\ batch = <<>>
    /\ request = [r \in Request |-> Free]
    /\ sessionsReceived = 0
    /\ delivered = {}
    /\ timeouts = 0

Handler(r) ==
    \/ Refuse(r) \/ ReadBody(r) \/ RejectSession(r) \/ StoreSession(r)
    \/ Writing(r) \/ StoreThrows(r) \/ SessionStored(r) \/ BatchStored(r)

ServerNext ==
    \/ \E r \in Request : Post(r) \/ GiveUp(r) \/ Answered(r) \/ Handler(r)
    \/ \E s \in Session : CompleteSession(s)
    \/ ServerRestarts

ServerSpec == ServerInit /\ [][ServerNext]_serverVars

\* Handlers run (promises of the file system settle), responses are delivered,
\* and the probe's interval timer posts.
ServerFairness ==
    /\ \A r \in Request : WF_serverVars(Handler(r)) /\ WF_serverVars(Answered(r))
    /\ WF_serverVars(\E r \in Request : Post(r))

FairServerSpec == ServerSpec /\ ServerFairness

-----------------------------------------------------------------------------
(***************************************************************************)
(* Properties                                                              *)
(***************************************************************************)

\* What a probe was told is stored can be loaded, and listed under its trace:
\* a 200 speaks of every session of the batch, over timeouts, retries that
\* overlap the first attempt, refusals in the middle of a batch and restarts,
\* unless the disk lost it (see AckedReadable).
DeliveredIsServed ==
    \A s \in delivered \ (rotted \cup refused \cup unlogged) :
        /\ index[s] = "final" /\ file[s] = "good"
        /\ s \in listed /\ s \in traceIds[TraceOf[s]]

\* At most one handler is inside storage.store() for a session, although a probe
\* that gave up posts it again while its first handler runs on (inFlightWrites,
\* storage.ts:101-105).
OneHandlerPerSession ==
    \A r1, r2 \in Request :
        /\ request[r1].stage = "writing"
        /\ request[r2].stage = "writing"
        /\ Current(r1) = Current(r2)
        => r1 = r2

\* Every request gets an answer, or dies with the process ("INVARIANT: No
\* request can OOM or crash the collector", server.ts:25).
RequestsEnd == \A r \in Request : request[r] # Free ~> request[r] = Free

=============================================================================

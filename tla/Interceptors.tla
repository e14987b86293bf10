---------------------------- MODULE Interceptors ----------------------------
(***************************************************************************)
(* What the probe's interceptors record while a handler works on one       *)
(* request (probe/src/interceptors): the operations it issues, their       *)
(* outcomes in whatever order they come, its timers and its console.       *)
(*                                                                         *)
(* The result of an operation is named by the operation, so it is known    *)
(* later whose result a replay serves; it is intact when what was recorded *)
(* suffices to serve it again, and not when it was redacted, streamed,     *)
(* truncated or an error.                                                  *)
(***************************************************************************)
EXTENDS EventLog, SequencesExt

CONSTANTS
    Kinds,    \* the operations of the instance, a subset of AllKinds
    Incidents, \* the other events of the instance, a subset of Incidental
    MaxOps,   \* bound: operations of the handler
    MaxTicks  \* bound: timer events, console lines, errors and body streams

Result == [of: 0..MaxOps, intact: BOOLEAN]
Lost == [of |-> 0, intact |-> FALSE]

\* A synchronous source leaves one event, with its value or a placeholder.
Source(type, kept) == [call |-> {}, ok |-> type, err |-> {}, intact |-> kept]
\* A call leaves an event when it is issued and one when it settles; "kept" holds
\* what its result may be, intact or not.
Call(asks, ok, err, kept) == [call |-> asks, ok |-> ok, err |-> err, intact |-> kept]

DateNow == Source("timestamp", {TRUE})
MathRandom == Source("random", {FALSE})
RandomUUID == Source("uuid", {FALSE})
\* The head of the response is recorded, its body streams past.
Fetch == Call({"http_request_out"}, "http_response_in", {"http_response_in"}, {FALSE})
\* Rows are redacted, long strings in rows and results are cut.
Pg == Call({"db_query"}, "db_result", {"db_result"}, BOOLEAN)
Redis == Call({"cache_get"}, "cache_set", {"cache_set"}, BOOLEAN)
\* There is no catch(): a failure is not recorded.
Mongo == Call({"db_query"}, "db_result", {}, {FALSE})
Fs == Call({"fs_call"}, "fs_result", {"fs_error"}, {FALSE})
Dns == Call({"dns_lookup", "dns_resolve"}, "dns_result", {"dns_error"}, {FALSE})

\* "empty_fetch" is a fetch that is answered with 204, 205 or 304.
Interceptor == [date |-> DateNow, random |-> MathRandom, uuid |-> RandomUUID,
                fetch |-> Fetch, empty_fetch |-> Fetch, pg |-> Pg, redis |-> Redis, mongo |-> Mongo,
                fs |-> Fs, dns |-> Dns]
AllKinds == DOMAIN Interceptor
Synchronous == {k \in AllKinds : Interceptor[k].call = {}}

\* setTimeout() and its companions, the console, an uncaught error, the end of
\* a response body read in the background.
Incidental == {"timer_set", "timer_fire", "timer_clear", "custom", "error",
               "http_response_in_body"}

ASSUME InterceptorConstants ==
    /\ Kinds \subseteq AllKinds /\ Incidents \subseteq Incidental
    /\ MaxOps \in Nat \ {0} /\ MaxTicks \in Nat

VARIABLES
    probe,   \* whether the probe's interceptors are installed
    ops,     \* what the handler has issued, in that order
    log,     \* the events of its RecordingSession
    ticks    \* how many other events were recorded

handlerVars == <<ops, log, ticks>>

Types == {"http_request_in", "http_response_out", "http_response_in_body", "timer_set",
          "timer_fire", "timer_clear", "custom", "error", "timestamp", "random", "uuid",
          "http_request_out", "http_response_in", "db_query", "db_result", "cache_get",
          "cache_set", "fs_call", "fs_result", "fs_error", "dns_lookup", "dns_resolve",
          "dns_result", "dns_error"}

Event == [type: Types, result: Result]
Entry(type, result) == [type |-> type, result |-> result]

ASSUME MarkerIsCustom == Marker = Entry("custom", Lost)

HandlerTypeOK ==
    /\ probe \in BOOLEAN
    /\ ops \in Seq([kind: Kinds, state: {"pending", "ok", "failed"}, alone: BOOLEAN])
    /\ Len(ops) <= MaxOps
    /\ log \in Logs(Event)
    /\ ticks \in 0..MaxTicks

\* The timestamp nested in an event of the request's context; the two global
\* interceptors guard against their own.
Stamp == IF probe THEN <<Entry("timestamp", Lost)>> ELSE <<>>

\* An interceptor that is not installed records nothing.
Recorded(l, type, result) == IF probe THEN Record(l, Stamp, Entry(type, result)) ELSE l
RecordedBare(l, type, result) == IF probe THEN Record(l, <<>>, Entry(type, result)) ELSE l

Pending == {i \in DOMAIN ops : ops[i].state = "pending"}

\* The handler reads the clock, draws a random number or a UUID.
Read(k) ==
    LET i == Len(ops) + 1
    IN  /\ k \in Kinds \cap Synchronous /\ i <= MaxOps
        /\ ops' = Append(ops, [kind |-> k, state |-> "ok", alone |-> Pending = {}])
        /\ \E kept \in Interceptor[k].intact :
              LET result == [of |-> i, intact |-> kept]
              IN  log' = IF k = "uuid" THEN Recorded(log, Interceptor[k].ok, result)
                         ELSE RecordedBare(log, Interceptor[k].ok, result)
        /\ UNCHANGED <<probe, ticks>>

\* The handler issues a call, maybe while others are out.
Issue(k) ==
    /\ k \in Kinds \ Synchronous /\ Len(ops) < MaxOps
    /\ ops' = Append(ops, [kind |-> k, state |-> "pending", alone |-> Pending = {}])
    /\ \E ask \in Interceptor[k].call : log' = Recorded(log, ask, Lost)
    /\ UNCHANGED <<probe, ticks>>

\* A call succeeds.
Succeed(i) ==
    LET by == Interceptor[ops[i].kind]
    IN  /\ i \in Pending
        /\ ops' = [ops EXCEPT ![i].state = "ok"]
        /\ \E kept \in by.intact :
              log' = Recorded(log, by.ok, [of |-> i, intact |-> kept])
        /\ UNCHANGED <<probe, ticks>>

\* A call fails.
FailCall(i) ==
    LET by == Interceptor[ops[i].kind]
    IN  /\ i \in Pending
        /\ ops' = [ops EXCEPT ![i].state = "failed"]
        /\ IF by.err = {} THEN log' = log
           ELSE \E err \in by.err : log' = Recorded(log, err, [of |-> i, intact |-> FALSE])
        /\ UNCHANGED <<probe, ticks>>

\* One of those.
Incident ==
    /\ ticks < MaxTicks
    /\ ticks' = ticks + 1
    /\ \E type \in Incidents :
          log' = Recorded(IF type = "timer_set" THEN WithTimer(log) ELSE log, type, Lost)
    /\ UNCHANGED <<probe, ops>>

HandlerInit ==
    /\ probe = TRUE
    /\ ops = <<>>
    /\ log = Record(EmptyLog, <<>>, Entry("http_request_in", Lost))
    /\ ticks = 0

HandlerStep ==
    \/ \E k \in Kinds : Read(k) \/ Issue(k)
    \/ \E i \in DOMAIN ops : Succeed(i) \/ FailCall(i)
    \/ Incident
=============================================================================

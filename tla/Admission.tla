----------------------------- MODULE Admission -----------------------------
(***************************************************************************)
(* What a POST passes before the collector looks at it: the rate limiter   *)
(* (server.ts, module RateLimiter) and the reader of its body              *)
(* (body-reader.ts), where the data, the end and an error of the stream,   *)
(* the byte limit and a 30 s timer race to settle one promise.             *)
(*                                                                         *)
(* A connection carries one request after the other; a timer that outlives *)
(* its request would destroy the next one.  How long 30 s are is left to   *)
(* chance: the timer may fire whenever it is armed.                        *)
(***************************************************************************)
EXTENDS RateLimiter

CONSTANTS
    Connection,    \* sockets
    MaxBodyBytes,  \* DEFAULT_MAX_BODY_BYTES
    ChunkSizes,    \* the sizes of data events
    Lengths        \* the Content-Length headers; 0 is none

ASSUME BodyConstants ==
    /\ MaxBodyBytes \in Nat
    /\ ChunkSizes \subseteq Nat \ {0} /\ Lengths \subseteq Nat

VARIABLE body   \* the readBody() call of each connection

admissionVars == <<limiterVars, body>>

NoBody == [outcome |-> "free", total |-> 0, kept |-> 0, timer |-> FALSE, open |-> TRUE]

Outcomes == {"read", "tooLarge", "failed", "timedOut"}

AdmissionTypeOK ==
    /\ LimiterTypeOK
    /\ body \in [Connection -> [outcome: {"free", "limited", "reading"} \cup Outcomes,
                                total: Nat, kept: Nat, timer: BOOLEAN, open: BOOLEAN]]

\* The promise settles once; a later resolve() or reject() does nothing.
Settle(b, outcome) == IF b.outcome = "reading" THEN outcome ELSE b.outcome

\* A declared length above the limit rejects before a byte is read and before
\* the timer exists; the socket stays open for the 413.
Begun(length) ==
    IF length > MaxBodyBytes THEN [NoBody EXCEPT !.outcome = "tooLarge"]
    ELSE [NoBody EXCEPT !.outcome = "reading", !.timer = TRUE]

\* handleRequest(): 429, or the body is read.
Arrive(c, k) ==
    /\ body[c] = NoBody
    /\ \/ /\ Consume(k, FALSE)
          /\ body' = [body EXCEPT ![c].outcome = "limited"]
       \/ /\ Consume(k, TRUE)
          /\ \E n \in Lengths : body' = [body EXCEPT ![c] = Begun(n)]

\* Listeners are there unless the length was refused.
Listening(c) ==
    \/ body[c].outcome = "reading"
    \/ body[c].outcome \in Outcomes /\ body[c].total > 0

\* The bytes kept in memory after a chunk.
Kept(b, n) == IF b.total + n > MaxBodyBytes THEN b.kept ELSE b.kept + n

\* 'data'
Data(c, n) ==
    /\ Listening(c) /\ body[c].open
    /\ LET b == body[c]
           over == b.total + n > MaxBodyBytes
       IN  body' = [body EXCEPT ![c] =
             [b EXCEPT !.total = b.total + n, !.kept = Kept(b, n),
                       !.timer = b.timer /\ ~over, !.open = ~over,
                       !.outcome = IF over THEN Settle(b, "tooLarge") ELSE b.outcome]]
    /\ UNCHANGED limiterVars

\* A mutant of End: the timer is not cleared.
EndUncleared(c) ==
    /\ Listening(c) /\ body[c].open
    /\ body[c].outcome = "reading"
    /\ body' = [body EXCEPT ![c].outcome = Settle(body[c], "read")]
    /\ UNCHANGED limiterVars

\* 'end'
End(c) ==
    /\ Listening(c) /\ body[c].open
    /\ body[c].outcome = "reading"
    /\ body' = [body EXCEPT ![c].outcome = Settle(body[c], "read"), ![c].timer = FALSE]
    /\ UNCHANGED limiterVars

\* 'error': the client went away, or a destroyed request says so.
Fail(c) ==
    /\ Listening(c)
    /\ body' = [body EXCEPT ![c].outcome = Settle(body[c], "failed"), ![c].timer = FALSE,
                            ![c].open = FALSE]
    /\ UNCHANGED limiterVars

\* A mutant of TimeOut: the promise is not rejected.
TimeOutSilent(c) ==
    /\ body[c].timer
    /\ body' = [body EXCEPT ![c].timer = FALSE, ![c].open = FALSE]
    /\ UNCHANGED limiterVars

\* The 30 s timer.
TimeOut(c) ==
    /\ body[c].timer
    /\ body' = [body EXCEPT ![c].outcome = Settle(body[c], "timedOut"), ![c].timer = FALSE,
                            ![c].open = FALSE]
    /\ UNCHANGED limiterVars

\* The response is sent; the connection carries the next request, or a new one
\* takes its place.
NextRequest(c) ==
    /\ body[c].outcome \in Outcomes \cup {"limited"}
    /\ body' = [body EXCEPT ![c] = [NoBody EXCEPT !.timer = body[c].timer]]
    /\ UNCHANGED limiterVars

Stream(c) == \/ \E n \in ChunkSizes : Data(c, n)
             \/ End(c) \/ Fail(c)

AdmissionInit ==
    /\ LimiterInit
    /\ body = [c \in Connection |-> NoBody]

AdmissionNext ==
    \/ \E c \in Connection : \/ \E k \in Key : Arrive(c, k)
                             \/ Stream(c) \/ TimeOut(c) \/ NextRequest(c)
    \/ (Cleanup \/ Destroy \/ Tick \/ SetBack) /\ UNCHANGED body

AdmissionSpec == AdmissionInit /\ [][AdmissionNext]_admissionVars

\* A timer that is armed fires unless it is cleared; the client owes nothing.
FairAdmissionSpec ==
    AdmissionSpec /\ \A c \in Connection : WF_admissionVars(TimeOut(c))

-----------------------------------------------------------------------------
\* No request makes the collector keep more bytes than the limit (server.ts:25:
\* "No request can OOM or crash the collector"), whatever it declared.
KeepsWithinLimit == \A c \in Connection : body[c].kept <= MaxBodyBytes

\* The timer is armed only while its body is read, so it never destroys the
\* next request of a connection that is kept alive.
TimerOnlyWhileReading == \A c \in Connection : body[c].timer => body[c].outcome = "reading"

\* Every body that is begun ends, however slowly it is sent (body-reader.ts,
\* "Read timeout").
BodiesEnd == \A c \in Connection : body[c].outcome = "reading" ~> body[c].outcome # "reading"
=============================================================================

------------------------------- MODULE Replay -------------------------------
(***************************************************************************)
(* Recording one request and replaying it (replay/src): the handler first  *)
(* runs under the interceptors (module Interceptors); engines then load    *)
(* the recording and run the same handler again with Date.now,             *)
(* Math.random and fetch replaced for the whole process, one engine at a   *)
(* time by a module-level flag, each fed from the queues of its mock layer.*)
(*                                                                         *)
(* The handler is deterministic: it issues the same operations in the same *)
(* order, and its response holds every result it saw.                      *)
(***************************************************************************)
EXTENDS Interceptors, FiniteSets

CONSTANTS
    Engine,
    Seeks    \* the positions sought; 0 is the start

ASSUME ReplayConstants == Seeks \subseteq Nat /\ {"real", "probe"} \cap Engine = {}

VARIABLES
    phase,        \* "recording", then "recorded"
    recording,    \* the events of the recording that is loaded
    dataless,     \* whether its request or its response has lost its data
    esm,          \* whether the build is an ES module, without require()
    isReplaying,  \* isReplaying
    globals,      \* whose Date.now (and Math.random) and whose fetch is in place
    original,     \* the probe's _originalFetch
    engine,       \* the engines
    meddled       \* history: the probe was started or stopped during a replay

processVars == <<isReplaying, globals, original, engine, meddled>>
recordingVars == <<probe, handlerVars, phase, recording, dataless, esm>>
replayVars == <<recordingVars, processVars>>

Whose == {"real", "probe"} \cup Engine
Globals == [date: Whose, fetch: Whose]

Unloaded == [state |-> "empty", left |-> {}, seen |-> <<>>,
             fresh |-> FALSE, saved |-> [date |-> "real", fetch |-> "real"],
             outcome |-> "none"]

Outcomes == {"none", "success", "differs", "diverged", "noRequest", "noRequire"}

Indices == DOMAIN recording

ReplayTypeOK ==
    /\ HandlerTypeOK
    /\ phase \in {"recording", "recorded"}
    /\ recording \in Seq(Event)
    /\ <<dataless, esm>> \in BOOLEAN \X BOOLEAN /\ isReplaying \in BOOLEAN /\ meddled \in BOOLEAN
    /\ globals \in Globals /\ original \in Whose
    /\ \A e \in Engine :
          /\ engine[e].state \in {"empty", "idle", "running"}
          /\ engine[e].left \subseteq Indices
          /\ Len(engine[e].seen) <= Len(ops) /\ engine[e].seen \in Seq(Result)
          /\ engine[e].saved \in Globals /\ engine[e].outcome \in Outcomes

-----------------------------------------------------------------------------
Handle ==
    /\ phase = "recording"
    /\ HandlerStep
    /\ UNCHANGED <<phase, recording, dataless, esm, processVars>>

\* The response ends the recording.  A recording that was edited or imported may
\* have lost its request, or the data of its request or response.
Respond ==
    /\ phase = "recording"
    /\ phase' = "recorded"
    /\ log' = Recorded(log, "http_response_out", Lost)
    /\ recording' \in {log'.events, SubSeq(log'.events, 2, Len(log'.events))}
    /\ dataless' \in BOOLEAN
    /\ UNCHANGED <<probe, ops, ticks, esm, processVars>>

\* install and uninstall of globals.ts and http-outgoing.ts.  A probe stopped
\* during a replay has its fetch put back at the end; when it starts again it
\* saves that one, which then calls itself.
ToggleProbe ==
    /\ phase = "recorded"
    /\ probe' = ~probe
    /\ globals' = IF probe THEN [date |-> "real", fetch |-> original]
                  ELSE [date |-> "probe", fetch |-> "probe"]
    /\ original' = IF probe THEN original ELSE globals.fetch
    /\ meddled' = (meddled \/ isReplaying)
    /\ UNCHANGED <<handlerVars, phase, recording, dataless, esm, isReplaying, engine>>

-----------------------------------------------------------------------------

\* A new mock layer, or one whose queues are rebuilt from position n.
Layer(e, n) ==
    [engine[e] EXCEPT !.state = "idle", !.left = {i \in Indices : i > n}]

\* loadFromSession(), loadFromFile()
Load(e) ==
    /\ phase = "recorded" /\ engine[e].state = "empty"
    /\ engine' = [engine EXCEPT ![e] = Layer(e, 0)]
    /\ UNCHANGED <<recordingVars, isReplaying, globals, original, meddled>>

\* seekTo(), and reset() to 0.
SeekTo(e) ==
    /\ engine[e].state = "idle"
    /\ \E n \in Seeks : engine' = [engine EXCEPT ![e] = Layer(e, n)]
    /\ UNCHANGED <<recordingVars, isReplaying, globals, original, meddled>>

HasRequest == \E i \in Indices : recording[i] = Entry("http_request_in", Lost)

\* replay() refuses a recording without request, and a process without require()
\* fails it; both give the flag back.
Unusable(e) ==
    /\ engine[e].state = "idle" /\ ~isReplaying
    /\ ~HasRequest \/ (esm /\ ~dataless)
    /\ engine' = [engine EXCEPT ![e].outcome = IF HasRequest THEN "noRequire" ELSE "noRequest"]
    /\ UNCHANGED <<recordingVars, isReplaying, globals, original, meddled>>

\* A mutant of MayReplay: engines do not exclude each other.
MayReplayAnyway == TRUE

\* While a replay runs, replay() throws.
MayReplay == ~isReplaying

\* replay() raises the flag and throws, outside its try, where it reads the data
\* of the request or the response.
Strand(e) ==
    /\ engine[e].state = "idle" /\ MayReplay
    /\ HasRequest /\ dataless
    /\ isReplaying' = TRUE
    /\ UNCHANGED <<recordingVars, globals, original, engine, meddled>>

\* replay(), up to the start of the handler: withMocks() saves what it replaces.
Begin(e) ==
    /\ engine[e].state = "idle" /\ MayReplay
    /\ HasRequest /\ ~dataless /\ ~esm
    /\ isReplaying' = TRUE
    /\ globals' = [date |-> e, fetch |-> e]
    /\ engine' = [engine EXCEPT ![e].state = "running", ![e].saved = globals,
                                ![e].seen = <<>>, ![e].outcome = "none",
                                ![e].fresh = (~meddled /\ engine[e].left = Indices)]
    /\ UNCHANGED <<recordingVars, original, meddled>>

-----------------------------------------------------------------------------
Queue(e, type) == {i \in engine[e].left : recording[i].type = type}

\* A mutant of Served: the mocks take the events from the end.
ServedLast(e, type) == CHOOSE i \in Queue(e, type) : \A j \in Queue(e, type) : j <= i

\* nextOfType(): the first event of its type.
Served(e, type) == CHOOSE i \in Queue(e, type) : \A j \in Queue(e, type) : i <= j

Consumed(e, types) == {Served(e, t) : t \in {u \in types : Queue(e, u) # {}}}

Fetches == {"fetch", "empty_fetch"}

\* The mock layer that answers the k of a handler running under e, if any does:
\* the engine replaces three globals; the harness asks for the others itself.
AskedOf(e, k) ==
    CASE k \in {"date", "random"} -> {globals.date} \cap Engine
      [] k \in Fetches -> {IF globals.fetch = "probe" THEN original ELSE globals.fetch} \cap Engine
      [] k \in {"fs", "dns"} -> {}
      [] OTHER -> {e}

\* mockDbQuery() and mockRedisCommand() take the call's event as well.
Takes(k) ==
    {Interceptor[k].ok} \cup (IF k \in Fetches THEN {} ELSE Interceptor[k].call)

\* What it answers with, if it has an event left.
Answers(e, k) ==
    LET type == Interceptor[k].ok
    IN  {recording[Served(f, type)].result : f \in {g \in AskedOf(e, k) : Queue(g, type) # {}}}

\* The recorded answer of a fetch that had no body; of one that failed not even
\* the status is recorded.
Bodiless(result) ==
    /\ result.of \in DOMAIN ops
    /\ ops[result.of].kind = "empty_fetch" /\ ops[result.of].state = "ok"

\* Without its event a mock throws, but those of the databases return null; and
\* new Response() throws for such an answer, since the mock gives it a body.
Throws(e, k) ==
    \/ /\ k \in {"date", "random", "uuid"} \cup Fetches
       /\ AskedOf(e, k) # {} /\ Answers(e, k) = {}
    \/ k \in Fetches /\ \E result \in Answers(e, k) : Bodiless(result)

\* What is left to engine g when the n-th operation under e has asked for it.
LeftBy(e, n, g) ==
    IF n \in DOMAIN ops /\ g \in AskedOf(e, ops[n].kind)
    THEN engine[g].left \ Consumed(g, Takes(ops[n].kind))
    ELSE engine[g].left

\* The handler issues its next operation and sees its result.
Step(e) ==
    LET n == Len(engine[e].seen) + 1
        k == ops[n].kind
    IN  /\ engine[e].state = "running" /\ n \in DOMAIN ops
        /\ ~Throws(e, k)
        /\ \E result \in IF Answers(e, k) = {} THEN {Lost} ELSE Answers(e, k) :
              engine' = [g \in Engine |->
                  [engine[g] EXCEPT !.left = LeftBy(e, n, g),
                                    !.seen = IF g = e THEN Append(@, result) ELSE @]]
        /\ UNCHANGED <<recordingVars, isReplaying, globals, original, meddled>>

\* The handler threw, or its response is compared with the recorded one.
Outcome(e) ==
    LET seen == engine[e].seen
    IN  IF Len(seen) < Len(ops) THEN "diverged"
        ELSE IF \A i \in DOMAIN ops : seen[i] = [of |-> i, intact |-> TRUE] THEN "success"
        ELSE "differs"

\* Nothing of engine e runs any more.
Over(e) ==
    LET after(g) == [engine[g] EXCEPT !.left = LeftBy(e, Len(engine[e].seen) + 1, g)]
    IN  engine' = [g \in Engine |->
            IF g # e THEN after(g)
            ELSE [after(e) EXCEPT !.state = "idle", !.seen = <<>>,
                                  !.saved = Unloaded.saved, !.outcome = Outcome(e)]]

\* A mutant of Done: the flag is given back on success only.
DoneStuck(e) ==
    LET n == Len(engine[e].seen) + 1
    IN  /\ engine[e].state = "running"
        /\ n \in DOMAIN ops => Throws(e, ops[n].kind)
        /\ globals' = engine[e].saved
        /\ isReplaying' = (n <= Len(ops))
        /\ Over(e)
        /\ UNCHANGED <<recordingVars, original, meddled>>

\* The end of replay(), through the two finally blocks.
Done(e) ==
    LET n == Len(engine[e].seen) + 1
    IN  /\ engine[e].state = "running"
        /\ n \in DOMAIN ops => Throws(e, ops[n].kind)
        /\ globals' = engine[e].saved
        /\ isReplaying' = FALSE
        /\ Over(e)
        /\ UNCHANGED <<recordingVars, original, meddled>>

ReplayInit ==
    /\ HandlerInit
    /\ phase = "recording" /\ recording = <<>>
    /\ esm \in BOOLEAN /\ dataless = FALSE
    /\ isReplaying = FALSE /\ meddled = FALSE
    /\ globals = [date |-> "probe", fetch |-> "probe"] /\ original = "real"
    /\ engine = [e \in Engine |-> Unloaded]

ReplayNext ==
    \/ Handle \/ Respond \/ ToggleProbe
    \/ \E e \in Engine : \/ Load(e) \/ SeekTo(e) \/ Unusable(e) \/ Strand(e)
                         \/ Begin(e) \/ Step(e) \/ Done(e)

ReplaySpec == ReplayInit /\ [][ReplayNext]_replayVars

-----------------------------------------------------------------------------
Running(e) == engine[e].state = "running"

\* When no engine runs a handler, the process has its own clock, random numbers
\* and fetch back (replay-engine.ts: "Always restore originals"), however replays,
\* refused ones and the probe's start and stop follow each other; a fetch that
\* the probe found mocked is the exception.
MocksGone ==
    (\A e \in Engine : ~Running(e)) =>
        /\ globals.date \notin Engine
        /\ ~meddled => globals.fetch \notin Engine /\ original = "real"

\* Handlers a replay can follow: they await one operation before the next, none
\* fails, and the clock is read before anything else is recorded.
Followed ==
    /\ \A i \in DOMAIN ops :
          /\ ops[i].alone /\ ops[i].state = "ok"
          /\ ops[i].kind \in {"date", "random", "uuid", "pg", "redis"} \cup Fetches
    /\ \A i, j \in Indices :
          /\ recording[i] = Entry("timestamp", Lost)
          /\ recording[j].type = "timestamp"
          /\ recording[j].result # Lost
          => j < i
    /\ ~log.overflowed

\* Such a handler is served its own results from the start of a fresh mock layer
\* to the end, and diverges only for a fetch that was answered without a body
\* (mock-layer.ts: "consumed in EXACTLY the same order they were recorded").
FollowedHandlersReplay ==
    \A e \in Engine :
        Followed /\ engine[e].fresh /\ ~meddled =>
            /\ \A i \in DOMAIN engine[e].seen : engine[e].seen[i].of = i
            /\ engine[e].outcome = "diverged" =>
                   \E i \in DOMAIN ops : ops[i].kind = "empty_fetch"

\* The flag is up exactly while an engine runs a handler: no way out of a replay
\* leaves it up, which would refuse every later one, but that of a recording
\* whose request or response has no data.
FlagIsHeld == ~dataless => (isReplaying <=> \E e \in Engine : Running(e))
=============================================================================

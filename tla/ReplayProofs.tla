---------------------------- MODULE ReplayProofs ----------------------------
(***************************************************************************)
(* Proofs about module Replay, for any engines, handlers and recordings:   *)
(* its types, the flag that lets one engine replay at a time, the          *)
(* functions of the process, which come back when no replay runs, and the  *)
(* results that a handler is served when it is replayed.                   *)
(*                                                                         *)
(* The flag and the functions need ReplayInv: what a running engine has    *)
(* saved is what the process had when it began, which was not another      *)
(* engine's, since at most one runs.  The results need TraceInv, what a    *)
(* recording has to do with the operations it is of, and FollowInv, what   *)
(* is left of a fresh mock layer when so many of them have been replayed.  *)
(***************************************************************************)
EXTENDS Replay, SequenceTheorems, WellFoundedInduction, TLAPS

EngineState == [state: {"empty", "idle", "running"}, left: SUBSET Nat, seen: Seq(Result),
                fresh: BOOLEAN, saved: Globals, outcome: Outcomes]

Blank(e) == engine[e].state = "empty" /\ engine[e].left = {} /\ engine[e].seen = <<>>

\* ReplayTypeOK, and that nothing is loaded before the recording ends.
ReplayTypeInv ==
    /\ ReplayTypeOK
    /\ engine \in [Engine -> EngineState]
    /\ phase = "recording" => \A e \in Engine : Blank(e)

-----------------------------------------------------------------------------
\* A set of natural numbers that is not empty has a least element.
NatBefore == {ss \in Nat \X Nat : ss[1] < ss[2]}

LEMMA LeastExists ==
    ASSUME NEW T, T \subseteq Nat, T # {}
    PROVE  \E x \in T : \A y \in T : x <= y
<1>1. IsWellFoundedOn(NatBefore, Nat)
  BY NatLessThanWellFounded, Zenon DEF OpToRel, NatBefore
<1>2. PICK x \in T : \A y \in T : ~ (<<y, x>> \in NatBefore)
  BY <1>1, WFMin, Zenon
<1>3. ASSUME NEW y \in T PROVE x <= y
  <2>1. ~ (<<y, x>> \in NatBefore)
    BY <1>2
  <2>2. x \in Nat /\ y \in Nat
    OBVIOUS
  <2> QED
    BY <2>1, <2>2 DEF NatBefore
<1> QED
  BY <1>3

\* The log of events keeps its type.
LEMMA MarkerType == Marker \in Event
BY MarkerIsCustom, InterceptorConstants DEF Event, Entry, Types, Lost, Result

LEMMA LostType == Lost \in Result
BY InterceptorConstants DEF Lost, Result

LEMMA RecordType ==
    ASSUME NEW l \in Logs(Event), NEW nested \in Seq(Event), NEW x \in Event
    PROVE  Record(l, nested, x) \in Logs(Event)
<1>1. ASSUME NEW es \in Seq(Event) PROVE Pushed(l, es) \in Logs(Event)
  <2>1. l.events \o es \in Seq(Event)
    BY DEF Logs
  <2> HIDE DEF Event
  <2> QED
    BY <2>1 DEF Pushed, Logs
<1>2. Overflow(l) \in Logs(Event)
  <2>1. Pushed(l, <<Marker>>) \in Logs(Event)
    <3>1. <<Marker>> \in Seq(Event)
      BY MarkerType
    <3> QED
      BY <1>1, <3>1
  <2> QED
    BY <2>1 DEF Overflow, Logs
<1>3. nested \o <<x>> \in Seq(Event)
  OBVIOUS
<1> QED
  BY <1>1, <1>2, <1>3 DEF Record

LEMMA RecordedType ==
    ASSUME NEW l \in Logs(Event), NEW type \in Types, NEW result \in Result, probe \in BOOLEAN
    PROVE  /\ Recorded(l, type, result) \in Logs(Event)
           /\ RecordedBare(l, type, result) \in Logs(Event)
<1>1. Entry(type, result) \in Event
  BY DEF Entry, Event
<1>2. Stamp \in Seq(Event)
  <2>1. Entry("timestamp", Lost) \in Event
    BY LostType DEF Entry, Event, Types
  <2> QED
    BY <2>1 DEF Stamp
<1>3. <<>> \in Seq(Event)
  OBVIOUS
<1> QED
  BY <1>1, <1>2, <1>3, RecordType DEF Recorded, RecordedBare

LEMMA InterceptorTypes ==
    ASSUME NEW k \in Kinds
    PROVE  /\ Interceptor[k].ok \in Types /\ Interceptor[k].intact \subseteq BOOLEAN
           /\ Interceptor[k].err \subseteq Types /\ Interceptor[k].call \subseteq Types
<1>1. k \in {"date", "random", "uuid", "fetch", "empty_fetch", "pg", "redis", "mongo",
             "fs", "dns"}
  BY InterceptorConstants DEF AllKinds, Interceptor
<1>2. Interceptor[k] \in {DateNow, MathRandom, RandomUUID, Fetch, Pg, Redis, Mongo, Fs, Dns}
  BY <1>1 DEF Interceptor
<1> DEFINE Typed(x) == /\ x.ok \in Types /\ x.intact \subseteq BOOLEAN
                       /\ x.err \subseteq Types /\ x.call \subseteq Types
<1>3. Typed(DateNow) /\ Typed(MathRandom) /\ Typed(RandomUUID)
  BY DEF DateNow, MathRandom, RandomUUID, Source, Types
<1>4. Typed(Fetch) /\ Typed(Pg) /\ Typed(Redis)
  BY DEF Fetch, Pg, Redis, Call, Types
<1>5. Typed(Mongo) /\ Typed(Fs) /\ Typed(Dns)
  BY DEF Mongo, Fs, Dns, Call, Types
<1> QED
  BY <1>2, <1>3, <1>4, <1>5

-----------------------------------------------------------------------------
\* A step of the handler keeps the types of the recording side.
LEMMA HandlerTypes ==
    ASSUME HandlerTypeOK, HandlerStep
    PROVE  HandlerTypeOK' /\ probe' = probe /\ Len(ops) <= Len(ops')
<1> USE InterceptorConstants
<1> DEFINE Op == [kind: Kinds, state: {"pending", "ok", "failed"}, alone: BOOLEAN]
<1>t. ops \in Seq(Op) /\ Len(ops) <= MaxOps /\ log \in Logs(Event) /\ ticks \in 0..MaxTicks
      /\ probe \in BOOLEAN
  BY DEF HandlerTypeOK
<1>1. ASSUME NEW k \in Kinds, Read(k)
      PROVE  HandlerTypeOK' /\ probe' = probe /\ Len(ops) <= Len(ops')
  <2> DEFINE type == Interceptor[k].ok
             result(kept) == [of |-> Len(ops) + 1, intact |-> kept]
  <2>1. PICK kept \in Interceptor[k].intact :
           \/ log' = Recorded(log, type, result(kept))
           \/ log' = RecordedBare(log, type, result(kept))
    BY <1>1 DEF Read
  <2>2. log' \in Logs(Event)
    <3>1. result(kept) \in Result
      BY <1>1, <1>t, InterceptorTypes DEF Read, Result
    <3>2. type \in Types
      BY InterceptorTypes
    <3> HIDE DEF result, type
    <3> QED
      BY <1>t, <2>1, <3>1, <3>2, RecordedType
  <2>3. ops' \in Seq(Op) /\ Len(ops') = Len(ops) + 1
    BY <1>1, <1>t DEF Read
  <2> QED
    BY <1>1, <1>t, <2>2, <2>3 DEF Read, HandlerTypeOK
<1>2. ASSUME NEW k \in Kinds, Issue(k)
      PROVE  HandlerTypeOK' /\ probe' = probe /\ Len(ops) <= Len(ops')
  <2>1. log' \in Logs(Event)
    BY <1>2, <1>t, LostType, RecordedType, InterceptorTypes DEF Issue
  <2>2. ops' \in Seq(Op) /\ Len(ops') = Len(ops) + 1
    BY <1>2, <1>t DEF Issue
  <2> QED
    BY <1>2, <1>t, <2>1, <2>2 DEF Issue, HandlerTypeOK
<1>3. ASSUME NEW i \in DOMAIN ops, Succeed(i) \/ FailCall(i)
      PROVE  HandlerTypeOK' /\ probe' = probe /\ Len(ops) <= Len(ops')
  <2>a. i \in 1..Len(ops) /\ Len(ops) \in Nat
    BY <1>t
  <2>0. ops[i] \in Op /\ i \in 1..MaxOps
    <3> HIDE DEF Op
    <3> QED
      BY <1>t, <2>a
  <2>1. ops[i].kind \in Kinds
    BY <2>0
  <2>2. ASSUME NEW b \in BOOLEAN PROVE [of |-> i, intact |-> b] \in Result
    BY <2>0 DEF Result
  <2>3. log' \in Logs(Event)
    <3>1. CASE Succeed(i)
      <4>1. PICK kept \in Interceptor[ops[i].kind].intact :
                log' = Recorded(log, Interceptor[ops[i].kind].ok, [of |-> i, intact |-> kept])
        BY <3>1 DEF Succeed
      <4>2. kept \in BOOLEAN /\ Interceptor[ops[i].kind].ok \in Types
        BY <2>1, InterceptorTypes
      <4> QED
        BY <1>t, <2>2, <4>1, <4>2, RecordedType
    <3>2. CASE FailCall(i)
      <4>1. CASE Interceptor[ops[i].kind].err = {}
        BY <3>2, <4>1, <1>t DEF FailCall
      <4>2. CASE Interceptor[ops[i].kind].err # {}
        <5>1. PICK err \in Interceptor[ops[i].kind].err :
                      log' = Recorded(log, err, [of |-> i, intact |-> FALSE])
          BY <3>2, <4>2 DEF FailCall
        <5>2. err \in Types
          BY <2>1, InterceptorTypes
        <5> QED
          BY <5>1, <5>2, <1>t, <2>2, RecordedType
      <4> QED
        BY <4>1, <4>2
    <3> QED
      BY <1>3, <3>1, <3>2
  <2>4. PICK s \in {"ok", "failed"} : ops' = [ops EXCEPT ![i].state = s]
    BY <1>3 DEF Succeed, FailCall
  <2>5. ops' \in Seq(Op) /\ Len(ops') = Len(ops)
    BY <1>t, <2>0, <2>4
  <2> QED
    BY <1>3, <1>t, <2>3, <2>5 DEF Succeed, FailCall, HandlerTypeOK
<1>4. ASSUME Incident
      PROVE  HandlerTypeOK' /\ probe' = probe /\ Len(ops) <= Len(ops')
  <2>1. WithTimer(log) \in Logs(Event)
    BY <1>t DEF WithTimer, Logs
  <2>2. Incidents \subseteq Types
    BY DEF Incidental, Types
  <2>3. log' \in Logs(Event)
    BY <1>4, <1>t, <2>1, <2>2, LostType, RecordedType DEF Incident
  <2> QED
    BY <1>4, <1>t, <2>3 DEF Incident, HandlerTypeOK
<1> QED
  BY <1>1, <1>2, <1>3, <1>4 DEF HandlerStep

\* What an engine serves is an event of the recording.
LEMMA ServedType ==
    ASSUME ReplayTypeInv, NEW f \in Engine, NEW type, Queue(f, type) # {}
    PROVE  recording[Served(f, type)].result \in Result
<1>1. engine[f].left \subseteq Indices /\ recording \in Seq(Event)
  BY DEF ReplayTypeInv, ReplayTypeOK
<1>2. Queue(f, type) \subseteq Indices /\ Queue(f, type) \subseteq Nat
  BY <1>1 DEF Queue, Indices
<1>3. \E i \in Queue(f, type) : \A j \in Queue(f, type) : i <= j
  BY <1>2, LeastExists
<1>4. Served(f, type) \in Queue(f, type)
  BY <1>3 DEF Served
<1>5. recording[Served(f, type)] \in Event
  BY <1>1, <1>2, <1>4 DEF Indices
<1> QED
  BY <1>5 DEF Event

-----------------------------------------------------------------------------
LEMMA ReplayTypesInitial == ReplayInit => ReplayTypeInv
<1> SUFFICES ASSUME ReplayInit PROVE ReplayTypeInv
  OBVIOUS
<1> USE InterceptorConstants
<1>1. HandlerTypeOK
  <2>1. EmptyLog \in Logs(Event)
    BY DEF EmptyLog, Logs
  <2>2. Entry("http_request_in", Lost) \in Event
    BY LostType DEF Entry, Event, Types
  <2>3. <<>> \in Seq(Event)
    OBVIOUS
  <2>4. log \in Logs(Event)
    BY <2>1, <2>2, <2>3, RecordType DEF ReplayInit, HandlerInit
  <2> QED
    BY <2>4 DEF ReplayInit, HandlerInit, HandlerTypeOK
<1>2. Unloaded \in EngineState
  BY DEF Unloaded, EngineState, Globals, Whose, Outcomes
<1>3. globals \in Globals /\ original \in Whose
  BY DEF ReplayInit, Globals, Whose
<1>4. \A e \in Engine : engine[e] = Unloaded
  BY DEF ReplayInit
<1>5. engine \in [Engine -> EngineState]
  BY <1>2 DEF ReplayInit
<1>6. \A e \in Engine : Blank(e) /\ engine[e].left = {} /\ engine[e].seen = <<>>
  BY <1>4 DEF Unloaded, Blank
<1>7. recording \in Seq(Event) /\ Len(ops) \in Nat
  BY <1>1 DEF ReplayInit, HandlerTypeOK
<1>8. ASSUME NEW e \in Engine
      PROVE  /\ engine[e].state \in {"empty", "idle", "running"}
             /\ engine[e].left \subseteq Indices
             /\ Len(engine[e].seen) <= Len(ops) /\ engine[e].seen \in Seq(Result)
             /\ engine[e].saved \in Globals /\ engine[e].outcome \in Outcomes
  <2>1. engine[e] \in EngineState
    BY <1>5
  <2> QED
    BY <2>1, <1>6, <1>7 DEF EngineState
<1> QED
  BY <1>1, <1>3, <1>5, <1>6, <1>7, <1>8 DEF ReplayTypeInv, ReplayTypeOK, ReplayInit

\* What is left to show of a step of one engine: its new record.
LEMMA EngineTypes ==
    ASSUME ReplayTypeInv, phase = "recorded",
           UNCHANGED recordingVars,
           isReplaying' \in BOOLEAN, meddled' \in BOOLEAN,
           globals' \in Globals, original' \in Whose,
           engine' \in [Engine -> EngineState],
           \A e \in Engine : /\ engine'[e].left \subseteq Indices
                             /\ Len(engine'[e].seen) <= Len(ops)
    PROVE  ReplayTypeInv'
<1>1. ReplayTypeOK
  BY DEF ReplayTypeInv
<1>2. HandlerTypeOK'
  BY <1>1 DEF ReplayTypeOK, HandlerTypeOK, recordingVars, handlerVars
<1>3. Indices' = Indices /\ Len(ops') = Len(ops) /\ phase' = "recorded"
  BY DEF Indices, recordingVars, handlerVars
<1>4. \A e \in Engine : engine'[e] \in EngineState
  OBVIOUS
<1>5. \A e \in Engine :
        /\ engine'[e].state \in {"empty", "idle", "running"}
        /\ engine'[e].left \subseteq Indices'
        /\ Len(engine'[e].seen) <= Len(ops') /\ engine'[e].seen \in Seq(Result)
        /\ engine'[e].saved \in Globals /\ engine'[e].outcome \in Outcomes
  BY <1>3, <1>4 DEF EngineState
<1> QED
  BY <1>1, <1>2, <1>3, <1>5 DEF ReplayTypeInv, ReplayTypeOK, recordingVars

\* A mock answers with the result of an event of the recording.
LEMMA AnswersType ==
    ASSUME ReplayTypeInv, NEW e \in Engine, NEW k
    PROVE  Answers(e, k) \subseteq Result
<1>1. AskedOf(e, k) \subseteq Engine
  BY DEF AskedOf
<1> QED
  BY <1>1, ServedType DEF Answers

LEMMA LeftByType ==
    ASSUME ReplayTypeInv, NEW e, NEW n, NEW g \in Engine
    PROVE  /\ LeftBy(e, n, g) \subseteq engine[g].left
           /\ LeftBy(e, n, g) \in SUBSET Nat /\ LeftBy(e, n, g) \subseteq Indices
<1>1. engine[g] \in EngineState /\ engine[g].left \subseteq Indices
  BY DEF ReplayTypeInv, ReplayTypeOK
<1>2. LeftBy(e, n, g) \subseteq engine[g].left
  BY DEF LeftBy
<1> QED
  BY <1>1, <1>2 DEF EngineState

\* What a step of a handler leaves alone, and what it changes.
LEMMA SteppedEngine ==
    ASSUME ReplayTypeInv, NEW e \in Engine, Step(e), NEW n, n = Len(engine[e].seen) + 1
    PROVE  \E result \in Result :
              /\ LET answers == Answers(e, ops[n].kind)
                 IN  answers # {} => result \in answers
              /\ \A g \in Engine :
                    /\ engine'[g] \in EngineState
                    /\ engine'[g].state = engine[g].state /\ engine'[g].fresh = engine[g].fresh
                    /\ engine'[g].saved = engine[g].saved
                    /\ engine'[g].outcome = engine[g].outcome
                    /\ engine'[g].left = LeftBy(e, n, g)
                    /\ engine'[g].seen = IF g = e THEN Append(engine[g].seen, result)
                                         ELSE engine[g].seen
              /\ engine' \in [Engine -> EngineState]
<1> DEFINE answers == Answers(e, ops[n].kind)
<1>0. \E result \in IF answers = {} THEN {Lost} ELSE answers :
         engine' = [g \in Engine |->
             [engine[g] EXCEPT !.left = LeftBy(e, n, g),
                               !.seen = IF g = e THEN Append(@, result) ELSE @]]
  <2> DEFINE m == Len(engine[e].seen) + 1
  <2>1. \E result \in IF Answers(e, ops[m].kind) = {} THEN {Lost} ELSE Answers(e, ops[m].kind) :
           engine' = [g \in Engine |->
               [engine[g] EXCEPT !.left = LeftBy(e, m, g),
                                 !.seen = IF g = e THEN Append(@, result) ELSE @]]
    BY Zenon DEF Step
  <2>2. m = n
    OBVIOUS
  <2> HIDE DEF m
  <2> QED
    BY <2>1, <2>2, Zenon
<1>1. PICK result \in (IF answers = {} THEN {Lost} ELSE answers) :
         engine' = [g \in Engine |->
             [engine[g] EXCEPT !.left = LeftBy(e, n, g),
                               !.seen = IF g = e THEN Append(@, result) ELSE @]]
  BY <1>0, Zenon
<1>2. result \in Result
  BY <1>1, LostType, AnswersType
<1>3. ASSUME NEW g \in Engine
      PROVE  /\ engine'[g] \in EngineState
             /\ engine'[g].state = engine[g].state /\ engine'[g].fresh = engine[g].fresh
             /\ engine'[g].saved = engine[g].saved
             /\ engine'[g].outcome = engine[g].outcome
             /\ engine'[g].left = LeftBy(e, n, g)
             /\ engine'[g].seen = IF g = e THEN Append(engine[g].seen, result)
                                  ELSE engine[g].seen
  <2> DEFINE left == LeftBy(e, n, g)
             seen == IF g = e THEN Append(engine[g].seen, result) ELSE engine[g].seen
  <2>1. engine[g] \in EngineState
    BY DEF ReplayTypeInv
  <2>2. left \in SUBSET Nat
    BY LeftByType
  <2>3. seen \in Seq(Result)
    BY <1>2, <2>1 DEF EngineState
  <2>4. engine'[g] = [engine[g] EXCEPT !.left = left, !.seen = seen]
    BY <1>1
  <2> HIDE DEF left, seen
  <2> QED
    BY <2>1, <2>2, <2>3, <2>4 DEF EngineState, left, seen
<1>4. engine' \in [Engine -> EngineState]
  BY <1>1, <1>3
<1> QED
  BY <1>1, <1>2, <1>3, <1>4

\* The same of the end of a replay.
LEMMA OverEngine ==
    ASSUME ReplayTypeInv, NEW e \in Engine, Over(e), NEW n, n = Len(engine[e].seen) + 1
    PROVE  /\ \A g \in Engine :
                 /\ engine'[g] \in EngineState
                 /\ engine'[g].fresh = engine[g].fresh
                 /\ engine'[g].left = LeftBy(e, n, g)
                 /\ g # e => /\ engine'[g].state = engine[g].state
                             /\ engine'[g].saved = engine[g].saved
                             /\ engine'[g].outcome = engine[g].outcome
                             /\ engine'[g].seen = engine[g].seen
           /\ engine'[e].state = "idle" /\ engine'[e].seen = <<>>
           /\ engine'[e].outcome = Outcome(e)
           /\ engine' \in [Engine -> EngineState]
<1> DEFINE after(g) == [engine[g] EXCEPT !.left = LeftBy(e, n, g)]
           ended == [after(e) EXCEPT !.state = "idle", !.seen = <<>>,
                                     !.saved = Unloaded.saved, !.outcome = Outcome(e)]
<1>1. engine' = [g \in Engine |-> IF g # e THEN after(g) ELSE ended]
  BY DEF Over
<1>2. ASSUME NEW g \in Engine
      PROVE  /\ after(g) \in EngineState /\ after(g).left = LeftBy(e, n, g)
             /\ after(g).state = engine[g].state /\ after(g).fresh = engine[g].fresh
             /\ after(g).saved = engine[g].saved /\ after(g).seen = engine[g].seen
             /\ after(g).outcome = engine[g].outcome
  <2> DEFINE left == LeftBy(e, n, g)
  <2>1. engine[g] \in EngineState
    BY DEF ReplayTypeInv
  <2>2. left \in SUBSET Nat
    BY LeftByType
  <2> HIDE DEF left
  <2>3. [engine[g] EXCEPT !.left = left] \in EngineState
    BY <2>1, <2>2 DEF EngineState
  <2> QED
    BY <2>1, <2>3 DEF left, EngineState
<1> HIDE DEF after
<1>3. Unloaded.saved \in Globals /\ Outcome(e) \in Outcomes /\ <<>> \in Seq(Result)
  BY DEF Unloaded, Globals, Whose, Outcome, Outcomes
<1>4. /\ ended \in EngineState /\ ended.left = LeftBy(e, n, e)
      /\ ended.fresh = engine[e].fresh /\ ended.state = "idle" /\ ended.seen = <<>>
      /\ ended.outcome = Outcome(e)
  BY <1>2, <1>3 DEF EngineState
<1> HIDE DEF ended
<1> QED
  BY <1>1, <1>2, <1>4

LEMMA ReplayTypesStep == ReplayTypeInv /\ [ReplayNext]_replayVars => ReplayTypeInv'
<1> SUFFICES ASSUME ReplayTypeInv, [ReplayNext]_replayVars PROVE ReplayTypeInv'
  OBVIOUS
<1>t. /\ ReplayTypeOK /\ HandlerTypeOK /\ engine \in [Engine -> EngineState]
      /\ isReplaying \in BOOLEAN /\ meddled \in BOOLEAN
      /\ globals \in Globals /\ original \in Whose /\ probe \in BOOLEAN
      /\ recording \in Seq(Event) /\ Len(ops) \in Nat
      /\ <<dataless, esm>> \in BOOLEAN \X BOOLEAN
      /\ phase \in {"recording", "recorded"}
  BY DEF ReplayTypeInv, ReplayTypeOK, HandlerTypeOK
<1>l. \A e \in Engine : /\ engine[e] \in EngineState
                        /\ engine[e].left \subseteq Indices
                        /\ Len(engine[e].seen) <= Len(ops)
  BY DEF ReplayTypeInv, ReplayTypeOK
<1>r. phase = "recorded" <=> phase # "recording"
  BY <1>t
<1>1. CASE Handle
  <2>1. HandlerTypeOK' /\ Len(ops) <= Len(ops')
    BY <1>1, <1>t, HandlerTypes DEF Handle
  <2>2. Len(ops') \in Nat
    BY <2>1 DEF HandlerTypeOK
  <2>3. UNCHANGED <<phase, recording, dataless, esm, processVars>>
    BY <1>1 DEF Handle
  <2>4. \A e \in Engine : Blank(e) /\ engine[e].left = {} /\ engine[e].seen = <<>>
    BY <1>1 DEF Handle, ReplayTypeInv, Blank
  <2>5. Indices' = Indices /\ engine' = engine
    BY <2>3 DEF Indices, processVars
  <2>6. \A e \in Engine : Len(engine'[e].seen) <= Len(ops')
    BY <2>2, <2>4, <2>5
  <2> QED
    BY <1>t, <2>1, <2>3, <2>4, <2>5, <2>6 DEF ReplayTypeInv, ReplayTypeOK, processVars, Blank
<1>2. CASE Respond
  <2>1. log' \in Logs(Event)
    <3>1. "http_response_out" \in Types
      BY DEF Types
    <3> QED
      BY <1>2, <1>t, <3>1, LostType, RecordedType DEF Respond, HandlerTypeOK
  <2>2. log'.events \in Seq(Event)
    BY <2>1 DEF Logs
  <2>3. SubSeq(log'.events, 2, Len(log'.events)) \in Seq(Event)
    BY <2>2
  <2>4. recording' \in Seq(Event)
    BY <1>2, <2>2, <2>3 DEF Respond
  <2>5. UNCHANGED <<probe, ops, ticks, esm, processVars>> /\ phase' = "recorded"
        /\ dataless' \in BOOLEAN
    BY <1>2 DEF Respond
  <2>6. HandlerTypeOK'
    BY <1>t, <2>1, <2>5 DEF HandlerTypeOK
  <2>7. \A e \in Engine : engine[e].left = {} /\ engine[e].seen = <<>>
    BY <1>2 DEF Respond, ReplayTypeInv, Blank
  <2> QED
    BY <1>t, <2>4, <2>5, <2>6, <2>7 DEF ReplayTypeInv, ReplayTypeOK, processVars
<1>3. CASE ToggleProbe
  <2>1. globals' \in Globals /\ original' \in Whose
    BY <1>3, <1>t DEF ToggleProbe, Globals, Whose
  <2>2. probe' \in BOOLEAN /\ meddled' \in BOOLEAN
    BY <1>3, <1>t DEF ToggleProbe
  <2>3. UNCHANGED <<handlerVars, phase, recording, dataless, esm, isReplaying, engine>>
    BY <1>3 DEF ToggleProbe
  <2>4. HandlerTypeOK'
    BY <1>t, <2>2, <2>3 DEF HandlerTypeOK, handlerVars
  <2>5. Indices' = Indices /\ Len(ops') = Len(ops)
    BY <2>3 DEF Indices, handlerVars
  <2> QED
    BY <1>t, <1>l, <2>1, <2>2, <2>3, <2>4, <2>5
    DEF ReplayTypeInv, ReplayTypeOK, handlerVars, Blank
<1>e. ASSUME NEW e \in Engine, engine[e].state # "empty" PROVE phase = "recorded"
  BY <1>e, <1>r DEF ReplayTypeInv, Blank
<1>4. ASSUME NEW e \in Engine, Load(e) \/ SeekTo(e) PROVE ReplayTypeInv'
  <2>1. phase = "recorded"
    BY <1>4, <1>e DEF Load, SeekTo
  <2>2. PICK n \in Seeks \cup {0} : engine' = [engine EXCEPT ![e] = Layer(e, n)]
    BY <1>4 DEF Load, SeekTo
  <2>3. Layer(e, n) \in EngineState /\ Layer(e, n).left \subseteq Indices
        /\ Layer(e, n).seen = engine[e].seen
    <3>1. {i \in Indices : i > n} \in SUBSET Nat
      BY <1>t DEF Indices
    <3>2. engine[e] \in EngineState
      BY <1>l
    <3> QED
      BY <3>1, <3>2 DEF Layer, EngineState
  <2>4. engine' \in [Engine -> EngineState]
    BY <1>t, <2>2, <2>3
  <2>5. \A f \in Engine : engine'[f].left \subseteq Indices /\ Len(engine'[f].seen) <= Len(ops)
    BY <1>t, <1>l, <2>2, <2>3
  <2>6. UNCHANGED <<recordingVars, isReplaying, globals, original, meddled>>
    BY <1>4 DEF Load, SeekTo
  <2> QED
    BY <1>t, <2>1, <2>4, <2>5, <2>6, EngineTypes
<1>5. ASSUME NEW e \in Engine, Unusable(e) PROVE ReplayTypeInv'
  <2>1. PICK o \in Outcomes : engine' = [engine EXCEPT ![e].outcome = o]
    BY <1>5 DEF Unusable, Outcomes
  <2>2. engine' \in [Engine -> EngineState]
    BY <1>t, <2>1 DEF EngineState
  <2>3. \A f \in Engine : engine'[f].left \subseteq Indices /\ Len(engine'[f].seen) <= Len(ops)
    BY <1>t, <1>l, <2>1 DEF EngineState
  <2>4. phase = "recorded" /\ UNCHANGED <<recordingVars, isReplaying, globals, original, meddled>>
    BY <1>5, <1>e DEF Unusable
  <2> QED
    BY <1>t, <2>2, <2>3, <2>4, EngineTypes
<1>6. ASSUME NEW e \in Engine, Begin(e) PROVE ReplayTypeInv'
  <2> DEFINE began == [engine[e] EXCEPT !.state = "running", !.saved = globals, !.seen = <<>>,
                                        !.outcome = "none",
                                        !.fresh = (~meddled /\ engine[e].left = Indices)]
  <2>1. engine' = [engine EXCEPT ![e] = began]
    BY <1>6, <1>t DEF Begin
  <2>2. began \in EngineState /\ began.left = engine[e].left /\ began.seen = <<>>
    <3>1. <<>> \in Seq(Result) /\ "none" \in Outcomes
      BY DEF Outcomes
    <3>2. (~meddled /\ engine[e].left = Indices) \in BOOLEAN
      OBVIOUS
    <3> HIDE DEF Outcomes
    <3> QED
      BY <1>t, <1>l, <3>1, <3>2 DEF EngineState
  <2> HIDE DEF began
  <2>3. engine' \in [Engine -> EngineState]
    BY <1>t, <2>1, <2>2
  <2>4. \A f \in Engine : engine'[f].left \subseteq Indices /\ Len(engine'[f].seen) <= Len(ops)
    BY <1>t, <1>l, <2>1, <2>2
  <2>5. globals' \in Globals
    BY <1>6 DEF Begin, Globals, Whose
  <2>6. phase = "recorded" /\ isReplaying' = TRUE
        /\ UNCHANGED <<recordingVars, original, meddled>>
    BY <1>6, <1>e DEF Begin
  <2> QED
    BY <1>t, <2>3, <2>4, <2>5, <2>6, EngineTypes
<1>s. ASSUME NEW e \in Engine, Strand(e) PROVE ReplayTypeInv'
  <2>1. phase = "recorded" /\ isReplaying' = TRUE /\ engine' = engine
        /\ UNCHANGED <<recordingVars, globals, original, meddled>>
    BY <1>s, <1>e DEF Strand
  <2> QED
    BY <1>t, <1>l, <2>1, EngineTypes
<1>7. ASSUME NEW e \in Engine, Step(e) PROVE ReplayTypeInv'
  <2> DEFINE n == Len(engine[e].seen) + 1
  <2>1. phase = "recorded" /\ n \in DOMAIN ops
        /\ UNCHANGED <<recordingVars, isReplaying, globals, original, meddled>>
    BY <1>7, <1>e DEF Step
  <2>2. Len(engine[e].seen) + 1 <= Len(ops) /\ Len(engine[e].seen) \in Nat
    BY <2>1, <1>t, <1>l DEF EngineState, HandlerTypeOK
  <2>3. PICK result \in Result :
           /\ \A g \in Engine :
                 /\ engine'[g] \in EngineState /\ engine'[g].left = LeftBy(e, n, g)
                 /\ engine'[g].seen = IF g = e THEN Append(engine[g].seen, result)
                                      ELSE engine[g].seen
           /\ engine' \in [Engine -> EngineState]
    BY <1>7, SteppedEngine
  <2>4. ASSUME NEW g \in Engine
        PROVE  engine'[g].left \subseteq Indices /\ Len(engine'[g].seen) <= Len(ops)
    <3>1. engine[g].seen \in Seq(Result)
      BY <1>l DEF EngineState
    <3>2. Len(Append(engine[g].seen, result)) = Len(engine[g].seen) + 1
      BY <3>1
    <3>3. Len(engine'[g].seen) <= Len(ops)
      <4>1. CASE g = e
        BY <4>1, <2>2, <2>3, <3>2
      <4>2. CASE g # e
        BY <4>2, <1>l, <2>3
      <4> QED
        BY <4>1, <4>2
    <3>4. engine'[g].left \subseteq Indices
      BY <2>3, LeftByType
    <3> QED
      BY <3>3, <3>4
  <2> QED
    BY <1>t, <2>1, <2>3, <2>4, EngineTypes
<1>8. ASSUME NEW e \in Engine, Done(e) PROVE ReplayTypeInv'
  <2> DEFINE n == Len(engine[e].seen) + 1
  <2>1. phase = "recorded" /\ isReplaying' = FALSE /\ globals' = engine[e].saved /\ Over(e)
        /\ UNCHANGED <<recordingVars, original, meddled>>
    BY <1>8, <1>e DEF Done
  <2>2. /\ \A g \in Engine : /\ engine'[g].left = LeftBy(e, n, g)
                             /\ engine'[g].seen = <<>> \/ engine'[g].seen = engine[g].seen
        /\ engine' \in [Engine -> EngineState]
    BY <2>1, OverEngine
  <2>3. \A g \in Engine : engine'[g].left \subseteq Indices /\ Len(engine'[g].seen) <= Len(ops)
    BY <1>t, <1>l, <2>2, LeftByType
  <2>4. globals' \in Globals
    BY <1>l, <2>1 DEF EngineState
  <2> QED
    BY <1>t, <2>1, <2>2, <2>3, <2>4, EngineTypes
<1>9. CASE UNCHANGED replayVars
  BY <1>9, <1>t, <1>l
  DEF replayVars, recordingVars, processVars, handlerVars, ReplayTypeInv, ReplayTypeOK, HandlerTypeOK, Blank, Indices
<1> QED
  BY <1>1, <1>2, <1>3, <1>4, <1>5, <1>6, <1>s, <1>7, <1>8, <1>9 DEF ReplayNext

\* Every variable has its type (ReplayTypeOK), whatever is recorded, loaded,
\* sought, replayed and refused.
THEOREM ReplayTypeCorrect == ReplaySpec => []ReplayTypeOK
<1>1. ReplayTypeInv => ReplayTypeOK
  BY DEF ReplayTypeInv
<1> QED
  BY <1>1, ReplayTypesInitial, ReplayTypesStep, PTL DEF ReplaySpec

-----------------------------------------------------------------------------
\* Whose fetch is in place when no replay runs, unless the probe was meddled with.
Home == IF probe THEN "probe" ELSE "real"

Idle == \A e \in Engine : ~Running(e)

\* Where the process's functions are: at home, or saved by the engine that runs.
ReplayInv ==
    /\ FlagIsHeld
    /\ dataless => Idle /\ phase = "recorded"
    /\ \A e, f \in Engine : Running(e) /\ Running(f) => e = f
    /\ Idle => globals.date \notin Engine
    /\ \A e \in Engine : Running(e) => engine[e].saved.date \notin Engine
    /\ ~meddled => /\ original = "real"
                   /\ Idle => globals.fetch = Home
                   /\ \A e \in Engine : Running(e) => engine[e].saved.fetch = Home

LEMMA ReplayInvInitial == ReplayInit => ReplayInv
BY ReplayConstants
DEF ReplayInit, HandlerInit, ReplayInv, FlagIsHeld, Running, Idle, Home, Unloaded

LEMMA ReplayInvStep == ReplayTypeInv /\ ReplayInv /\ [ReplayNext]_replayVars => ReplayInv'
<1> SUFFICES ASSUME ReplayTypeInv, ReplayInv, [ReplayNext]_replayVars PROVE ReplayInv'
  OBVIOUS
<1> USE ReplayConstants
<1>t. /\ engine \in [Engine -> EngineState] /\ globals \in Globals
      /\ \A e \in Engine : engine[e] \in EngineState
      /\ isReplaying \in BOOLEAN /\ meddled \in BOOLEAN /\ probe \in BOOLEAN
      /\ dataless \in BOOLEAN /\ phase \in {"recording", "recorded"}
  BY DEF ReplayTypeInv, ReplayTypeOK, HandlerTypeOK
<1>s. ASSUME NEW e \in Engine
      PROVE  "state" \in DOMAIN engine[e] /\ "saved" \in DOMAIN engine[e]
  BY <1>t DEF EngineState
<1>e. ASSUME NEW e \in Engine, engine[e].state # "empty" PROVE phase = "recorded"
  BY <1>e, <1>t DEF ReplayTypeInv, Blank
\* Engines that neither begin nor end.
<1>k. ASSUME UNCHANGED <<isReplaying, globals, original, meddled, probe, phase, dataless>>,
             \A e \in Engine : (Running(e))' = Running(e) /\ engine'[e].saved = engine[e].saved
      PROVE  ReplayInv'
  <2>1. Idle' = Idle /\ FlagIsHeld' = FlagIsHeld /\ Home' = Home
    BY <1>k DEF Idle, FlagIsHeld, Home
  <2> QED
    BY <1>k, <2>1 DEF ReplayInv
<1>1. CASE Handle
  <2>1. probe' = probe
    BY <1>1, HandlerTypes DEF Handle, ReplayTypeInv, ReplayTypeOK
  <2> QED
    BY <1>1, <1>k, <2>1 DEF Handle, processVars, Running
<1>2. CASE Respond
  <2>1. /\ UNCHANGED <<probe, isReplaying, globals, original, engine, meddled>>
        /\ phase = "recording" /\ phase' = "recorded"
    BY <1>2 DEF Respond, processVars
  <2>2. Idle /\ Idle' /\ ~dataless
    BY <2>1, <1>e DEF Idle, Running, ReplayInv
  <2>3. ~isReplaying /\ Home' = Home
    BY <2>1, <2>2 DEF ReplayInv, FlagIsHeld, Idle, Home
  <2>4. FlagIsHeld' /\ (\A e \in Engine : ~(Running(e))')
    BY <2>1, <2>2, <2>3 DEF FlagIsHeld, Idle
  <2> QED
    BY <2>1, <2>2, <2>3, <2>4 DEF ReplayInv
<1>3. CASE ToggleProbe
  <2>1. /\ probe' = ~probe /\ isReplaying' = isReplaying /\ engine' = engine
        /\ UNCHANGED <<phase, dataless>>
        /\ meddled' = (meddled \/ isReplaying)
        /\ globals' = IF probe THEN [date |-> "real", fetch |-> original]
                      ELSE [date |-> "probe", fetch |-> "probe"]
        /\ original' = IF probe THEN original ELSE globals.fetch
    BY <1>3 DEF ToggleProbe
  <2>2. globals'.date \notin Engine
    BY <2>1
  <2>3. Idle' = Idle /\ FlagIsHeld' = FlagIsHeld /\ (\A e \in Engine : (Running(e))' = Running(e))
    BY <2>1 DEF Idle, FlagIsHeld, Running
  <2>4. CASE ~Idle
    <3>1. isReplaying /\ meddled'
      BY <2>1, <2>4 DEF ReplayInv, FlagIsHeld, Idle
    <3> QED
      BY <2>1, <2>2, <2>3, <2>4, <3>1 DEF ReplayInv
  <2>5. CASE Idle
    <3>1. ASSUME ~meddled' PROVE original' = "real" /\ globals'.fetch = Home'
      BY <2>1, <2>5, <3>1, <1>t DEF ReplayInv, Home
    <3>2. \A e \in Engine : ~(Running(e))'
      BY <2>3, <2>5 DEF Idle
    <3> QED
      BY <2>1, <2>2, <2>3, <2>5, <3>1, <3>2 DEF ReplayInv
  <2> QED
    BY <2>4, <2>5
<1>4. ASSUME NEW e \in Engine, Load(e) \/ SeekTo(e) PROVE ReplayInv'
  <2>1. PICK n : engine' = [engine EXCEPT ![e] = Layer(e, n)]
    BY <1>4 DEF Load, SeekTo
  <2>2. Layer(e, n).state = "idle" /\ Layer(e, n).saved = engine[e].saved
    BY <1>s DEF Layer
  <2>3. ~Running(e)
    BY <1>4 DEF Load, SeekTo, Running
  <2>4. \A f \in Engine : (Running(f))' = Running(f) /\ engine'[f].saved = engine[f].saved
    BY <1>t, <2>1, <2>2, <2>3 DEF Running
  <2> QED
    BY <1>4, <1>k, <2>4 DEF Load, SeekTo, recordingVars
<1>5. ASSUME NEW e \in Engine, Unusable(e) PROVE ReplayInv'
  <2>1. \A f \in Engine : (Running(f))' = Running(f) /\ engine'[f].saved = engine[f].saved
    BY <1>5, <1>t, <1>s DEF Unusable, Running
  <2> QED
    BY <1>5, <1>k, <2>1 DEF Unusable, recordingVars
<1>6. ASSUME NEW e \in Engine, Begin(e) PROVE ReplayInv'
  <2>1. /\ ~isReplaying /\ isReplaying' = TRUE /\ ~dataless
        /\ UNCHANGED <<original, meddled, probe, phase, dataless>>
    BY <1>6 DEF Begin, MayReplay, recordingVars
  <2>2. engine'[e].state = "running" /\ engine'[e].saved = globals
    <3>1. engine'[e] = [engine[e] EXCEPT
                          !.state = "running", !.saved = globals, !.seen = <<>>,
                          !.outcome = "none", !.fresh = (~meddled /\ engine[e].left = Indices)]
      BY <1>6, <1>t DEF Begin
    <3> QED
      BY <1>s, <3>1
  <2>3. \A f \in Engine \ {e} : engine'[f] = engine[f]
    BY <1>6, <1>t DEF Begin
  <2>4. Idle /\ \A f \in Engine : (Running(f))' => f = e
    BY <2>1, <2>3 DEF ReplayInv, FlagIsHeld, Running, Idle
  <2>5. (Running(e))' /\ ~Idle' /\ FlagIsHeld' /\ Home' = Home
    BY <2>1, <2>2 DEF Running, Idle, FlagIsHeld, Home
  <2> QED
    BY <2>1, <2>2, <2>4, <2>5 DEF ReplayInv
<1>a. ASSUME NEW e \in Engine, Strand(e) PROVE ReplayInv'
  <2>1. /\ dataless /\ dataless' /\ UNCHANGED <<globals, original, engine, meddled, probe, phase>>
    BY <1>a DEF Strand, recordingVars
  <2>2. Idle' = Idle /\ FlagIsHeld' /\ Home' = Home
        /\ (\A f \in Engine : (Running(f))' = Running(f))
    BY <2>1 DEF Idle, Running, FlagIsHeld, Home
  <2> QED
    BY <2>1, <2>2 DEF ReplayInv
<1>7. ASSUME NEW e \in Engine, Step(e) PROVE ReplayInv'
  <2>1. \A f \in Engine : engine'[f].state = engine[f].state /\ engine'[f].saved = engine[f].saved
    BY <1>7, SteppedEngine
  <2>2. UNCHANGED <<isReplaying, globals, original, meddled, probe, phase, dataless>>
    BY <1>7 DEF Step, recordingVars
  <2> QED
    BY <1>k, <2>1, <2>2 DEF Running
<1>8. ASSUME NEW e \in Engine, Done(e) PROVE ReplayInv'
  <2>1. /\ Running(e) /\ isReplaying' = FALSE /\ globals' = engine[e].saved /\ Over(e)
        /\ UNCHANGED <<original, meddled, probe, phase, dataless>>
    BY <1>8 DEF Done, Running, recordingVars
  <2>2. engine'[e].state = "idle" /\ \A f \in Engine \ {e} : engine'[f].state = engine[f].state
    BY <2>1, OverEngine
  <2>3. Idle'
    <3>1. \A f \in Engine \ {e} : ~Running(f)
      BY <2>1 DEF ReplayInv
    <3> QED
      BY <2>2, <3>1 DEF Running, Idle
  <2>4. FlagIsHeld' /\ Home' = Home /\ ~dataless
    BY <2>1, <2>3 DEF FlagIsHeld, Idle, Home, ReplayInv
  <2>5. engine[e].saved.date \notin Engine
        /\ (~meddled => original = "real" /\ engine[e].saved.fetch = Home)
    BY <2>1 DEF ReplayInv
  <2>6. \A f \in Engine : ~(Running(f))'
    BY <2>3 DEF Idle
  <2> QED
    BY <2>1, <2>3, <2>4, <2>5, <2>6 DEF ReplayInv
<1>9. CASE UNCHANGED replayVars
  BY <1>9, <1>k DEF replayVars, recordingVars, processVars, Running
<1> QED
  BY <1>1, <1>2, <1>3, <1>4, <1>5, <1>6, <1>a, <1>7, <1>8, <1>9 DEF ReplayNext

\* The flag of the module is up exactly while an engine runs a handler, whichever
\* way replays begin, are refused, diverge and end, if the recording's request and
\* response have their data.
THEOREM FlagHeld == ReplaySpec => []FlagIsHeld
<1>1. ReplayInv => FlagIsHeld
  BY DEF ReplayInv
<1> QED
  BY <1>1, ReplayTypesInitial, ReplayTypesStep, ReplayInvInitial, ReplayInvStep, PTL
  DEF ReplaySpec

\* While no engine runs a handler no mock is left in the process, for any number of engines
\* and replays and any start and stop of the probe between them.
THEOREM MocksAreGone == ReplaySpec => []MocksGone
<1>1. ReplayInv => MocksGone
  BY ReplayConstants DEF ReplayInv, MocksGone, Home, Idle
<1> QED
  BY <1>1, ReplayTypesInitial, ReplayTypesStep, ReplayInvInitial, ReplayInvStep, PTL
  DEF ReplaySpec

-----------------------------------------------------------------------------
(***************************************************************************)
(* The recording.  An event that has a result has that of an operation     *)
(* that has settled; each operation that succeeded has one, unless the log *)
(* overflowed; and a handler that awaits one operation before the next has *)
(* them in its order.                                                      *)
(***************************************************************************)
\* Types that only results are recorded under; "timestamp" is the other one.
ResultOnly == {"random", "uuid", "http_response_in", "db_result", "cache_set"}

Alone == \A i \in DOMAIN ops : ops[i].alone

TraceInv ==
    /\ \A p \in DOMAIN log.events :
          LET x == log.events[p]
              i == x.result.of
          IN  IF x.result = Lost THEN x.type \notin ResultOnly
              ELSE /\ i \in DOMAIN ops /\ ops[i].state # "pending"
                   /\ ops[i].state = "ok" => x.type = Interceptor[ops[i].kind].ok
    /\ Alone => \A p, q \in DOMAIN log.events :
          /\ log.events[p].result # Lost /\ log.events[q].result # Lost
          /\ p < q
          => log.events[p].result.of < log.events[q].result.of
    /\ ~log.overflowed => \A i \in DOMAIN ops : ops[i].state = "ok" =>
          \E p \in DOMAIN log.events : log.events[p].result.of = i
    /\ Len(log.events) > 0
    /\ \A p \in DOMAIN log.events : log.events[p].type = "http_request_in" => p = 1
    /\ \A i, j \in DOMAIN ops : ops[i].state = "pending" /\ i < j => ~ops[j].alone

ResultTypes == ResultOnly \cup {"timestamp"}

\* What a running engine has left: of the results, those that come next.
Following(e) ==
    /\ \A i \in DOMAIN engine[e].seen : engine[e].seen[i].of = i
    /\ \A p \in Indices :
          recording[p].type \in ResultTypes =>
             (p \in engine[e].left <=> \/ recording[p].result = Lost
                                     \/ recording[p].result.of > Len(engine[e].seen))

\* Some fetch was answered without a body.
SomeEmpty == \E i \in DOMAIN ops : ops[i].kind = "empty_fetch"

\* An engine that began with a fresh mock layer has not diverged, but for those.
Follows(e) ==
    /\ engine[e].fresh => phase = "recorded" /\ recording = log.events
    /\ ~Running(e) => engine[e].seen = <<>>
    /\ Running(e) /\ ~meddled => globals = [date |-> e, fetch |-> e]
    /\ engine[e].fresh /\ ~meddled /\ Followed =>
          /\ engine[e].outcome = "diverged" => SomeEmpty
          /\ Running(e) => Following(e)

FollowInv ==
    /\ phase = "recording" => probe
    /\ phase = "recorded" => recording = log.events \/ ~HasRequest
    /\ \A e \in Engine : Follows(e)

-----------------------------------------------------------------------------
(***************************************************************************)
(* The log grows at its end, and what a step of the handler adds to it is  *)
(* about the operation of that step.                                       *)
(***************************************************************************)
\* What the code adds around an event: the nested timestamp and the marker.
Background == {Entry("timestamp", Lost), Marker}

\* Log m is l with some background and, at its very end, perhaps x.
Grown(l, m, x) ==
    /\ Len(l.events) <= Len(m.events)
    /\ \A p \in 1..Len(l.events) : m.events[p] = l.events[p]
    /\ \A p \in 1..Len(m.events) : p > Len(l.events) =>
          m.events[p] \in Background \/ (p = Len(m.events) /\ m.events[p] = x)
    /\ ~m.overflowed => ~l.overflowed

\* Background is never a result.
LEMMA BackgroundTypes ==
    ASSUME NEW x \in Background
    PROVE  x.result = Lost /\ x.type \in {"timestamp", "custom"}
BY MarkerIsCustom DEF Background, Entry

\* Two elements at the end of a sequence.
LEMMA TwoMore ==
    ASSUME NEW S, NEW a \in Seq(S), NEW b \in Seq(S), Len(b) = 2
    PROVE  /\ Len(a \o b) = Len(a) + 2
           /\ \A p \in 1..Len(a) : (a \o b)[p] = a[p]
           /\ (a \o b)[Len(a) + 1] = b[1]
           /\ (a \o b)[Len(a) + 2] = b[2]
<1>1. Len(a) \in Nat /\ Len(b) \in Nat
  OBVIOUS
<1> QED
  BY <1>1, ConcatProperties

\* record() only ever appends, and the event last.
LEMMA RecordGrows ==
    ASSUME NEW l \in Logs(Event), NEW x \in Event,
           NEW nested \in {<<>>, <<Entry("timestamp", Lost)>>}
    PROVE  /\ Grown(l, Record(l, nested, x), x)
           /\ ~Record(l, nested, x).overflowed =>
                 LET es == Record(l, nested, x).events
                 IN  Len(es) > 0 /\ es[Len(es)] = x
<1> DEFINE m == Record(l, nested, x)
<1>1. /\ l.events \in Seq(Event) /\ Len(l.events) \in Nat
      /\ l.overflowed \in BOOLEAN
      /\ DOMAIN l = {"events", "overflowed", "timers"}
  BY DEF Logs
<1>2. ASSUME NEW es
      PROVE  /\ Pushed(l, es).events = l.events \o es
             /\ Pushed(l, es).overflowed = l.overflowed
             /\ DOMAIN Pushed(l, es) = {"events", "overflowed", "timers"}
  BY <1>1 DEF Pushed
<1>3. CASE Full(l) /\ l.overflowed
  BY <1>1, <1>3 DEF Record, Overflow, Grown
<1>4. CASE Full(l) /\ ~l.overflowed
  <2>1. m = [Pushed(l, <<Marker>>) EXCEPT !.overflowed = TRUE]
    BY <1>4 DEF Record, Overflow
  <2>2. m.events = l.events \o <<Marker>> /\ m.overflowed = TRUE
    BY <1>2, <2>1
  <2> HIDE DEF m
  <2>3. /\ Len(m.events) = Len(l.events) + 1
        /\ \A p \in 1..Len(l.events) : m.events[p] = l.events[p]
        /\ m.events[Len(l.events) + 1] = Marker
    BY <1>1, <2>2, MarkerType
  <2>4. \A p \in 1..Len(m.events) : p > Len(l.events) => p = Len(l.events) + 1
    BY <1>1, <2>3
  <2> QED
    BY <1>1, <2>2, <2>3, <2>4 DEF Grown, Background, m
<1>5. CASE ~Full(l)
  <2>1. m = Pushed(l, nested \o <<x>>)
    BY <1>5 DEF Record
  <2>2. m.events = l.events \o (nested \o <<x>>) /\ m.overflowed = l.overflowed
    BY <1>2, <2>1
  <2> HIDE DEF m
  <2>3. CASE nested = <<>>
    <3>1. nested \o <<x>> = <<x>>
      BY <2>3
    <3>2. /\ Len(m.events) = Len(l.events) + 1
          /\ \A p \in 1..Len(l.events) : m.events[p] = l.events[p]
          /\ m.events[Len(l.events) + 1] = x
      BY <1>1, <2>2, <3>1
    <3>3. \A p \in 1..Len(m.events) : p > Len(l.events) => p = Len(m.events)
      BY <1>1, <3>2
    <3> QED
      BY <1>1, <2>2, <3>2, <3>3 DEF Grown, m
  <2>4. CASE nested = <<Entry("timestamp", Lost)>>
    <3> DEFINE s == Entry("timestamp", Lost)
    <3>0. s \in Event
      BY LostType DEF Entry, Event, Types
    <3> HIDE DEF s
    <3> DEFINE two == nested \o <<x>>
    <3>1. two \in Seq(Event) /\ Len(two) = 2 /\ two[1] = s /\ two[2] = x
      <4>1. nested = <<s>>
        BY <2>4 DEF s
      <4> QED
        BY <3>0, <4>1
    <3>n. m.events = l.events \o two
      BY <2>2
    <3> HIDE DEF two
    <3>2. /\ Len(m.events) = Len(l.events) + 2
          /\ \A p \in 1..Len(l.events) : m.events[p] = l.events[p]
          /\ m.events[Len(l.events) + 1] = s
          /\ m.events[Len(l.events) + 2] = x
      BY <1>1, <3>1, <3>n, TwoMore
    <3>3. \A p \in 1..Len(m.events) : p > Len(l.events) =>
             p = Len(l.events) + 1 \/ p = Len(m.events)
      BY <1>1, <3>2
    <3>4. s \in Background
      BY DEF s, Background
    <3> QED
      BY <1>1, <2>2, <3>2, <3>3, <3>4 DEF Grown, m
  <2> QED
    BY <2>3, <2>4
<1> QED
  BY <1>3, <1>4, <1>5

Operation == [kind: Kinds, state: {"pending", "ok", "failed"}, alone: BOOLEAN]

\* How one step of the handler, about its operation n, changes the operations.
Works(n) ==
    /\ n \in 1..(Len(ops) + 1)
    /\ Len(ops') = Len(ops) \/ Len(ops') = Len(ops) + 1
    /\ \A j \in DOMAIN ops : /\ ops'[j].kind = ops[j].kind /\ ops'[j].alone = ops[j].alone
                             /\ j # n => ops'[j].state = ops[j].state
    /\ n \in DOMAIN ops => ops[n].state = "pending"
    /\ Len(ops') = Len(ops) + 1 =>
          /\ n = Len(ops) + 1
          /\ ops'[n].alone => Pending = {}

\* The event that the step records: no result, or that of the operation.
Tells(x, n) ==
    /\ x.type # "http_request_in"
    /\ IF x.result = Lost THEN x.type \notin ResultOnly
       ELSE /\ x.result.of = n /\ n \in DOMAIN ops'
            /\ ops'[n].state # "pending"
            /\ ops'[n].state = "ok" => x.type = Interceptor[ops'[n].kind].ok

\* Whatever step the handler takes, TraceInv needs only this of it.
LEMMA TraceKept ==
    ASSUME TraceInv, ops \in Seq(Operation), ops' \in Seq(Operation),
           log \in Logs(Event), log' \in Logs(Event),
           NEW n, Works(n), NEW x, Tells(x, n), Grown(log, log', x),
           n \in DOMAIN ops' /\ ops'[n].state = "ok" /\ ~log'.overflowed =>
              /\ Len(log'.events) > 0 /\ log'.events[Len(log'.events)] = x
              /\ x.result # Lost
    PROVE  TraceInv'
<1> DEFINE es == log.events
           more == log'.events
<1>t. /\ es \in Seq(Event) /\ more \in Seq(Event)
      /\ Len(es) \in Nat /\ Len(more) \in Nat
      /\ DOMAIN es = 1..Len(es) /\ DOMAIN more = 1..Len(more)
      /\ Len(ops) \in Nat /\ Len(ops') \in Nat
      /\ DOMAIN ops = 1..Len(ops) /\ DOMAIN ops' = 1..Len(ops')
      /\ \A j \in DOMAIN ops : ops[j] \in Operation
      /\ \A j \in DOMAIN ops' : ops'[j] \in Operation
  BY DEF Logs
<1>g. /\ Len(es) <= Len(more)
      /\ \A p \in 1..Len(es) : more[p] = es[p]
      /\ \A p \in 1..Len(more) : p > Len(es) =>
            more[p] \in Background \/ (p = Len(more) /\ more[p] = x)
      /\ ~log'.overflowed => ~log.overflowed
  BY DEF Grown
<1> HIDE DEF Operation
<1>w. /\ n \in 1..(Len(ops) + 1)
      /\ Len(ops') = Len(ops) \/ Len(ops') = Len(ops) + 1
      /\ Len(ops') = Len(ops) + 1 => n = Len(ops) + 1
  BY Zenon DEF Works
<1>z. Len(ops) \in Nat /\ Len(ops') \in Nat
  BY <1>t, Zenon
<1>d. /\ DOMAIN ops \subseteq DOMAIN ops'
      /\ \A j \in DOMAIN ops' : j \in DOMAIN ops \/ j = n
      /\ \A i, j \in DOMAIN ops' : i < j => i \in DOMAIN ops
      /\ \A j \in DOMAIN ops' : j \in DOMAIN ops \/ (j = Len(ops) + 1 /\ Len(ops') = j)
  <2> DEFINE a == Len(ops)
             b == Len(ops')
  <2>0. a \in Nat /\ b \in Nat /\ (b = a \/ b = a + 1) /\ (b = a + 1 => n = a + 1)
    BY <1>z, <1>w, Zenon
  <2> HIDE DEF a, b
  <2>1. \A j \in 1..a : j \in 1..b
    BY <2>0
  <2>2. \A j \in 1..b : j \in 1..a \/ j = n
    BY <2>0
  <2>3. \A i, j \in 1..b : i < j => i \in 1..a
    BY <2>0
  <2>4. \A j \in 1..b : j \in 1..a \/ (j = a + 1 /\ b = j)
    BY <2>0
  <2> QED
    BY <1>t, <2>1, <2>2, <2>3, <2>4, Zenon DEF a, b
<1>k. \A j \in DOMAIN ops' : j = n \/ (j \in DOMAIN ops /\ ops'[j].state = ops[j].state
                                       /\ ops'[j].kind = ops[j].kind)
  BY <1>d DEF Works
\* What is new in the log.
<1>n. ASSUME NEW p \in DOMAIN more, p \notin DOMAIN es, more[p].result # Lost
      PROVE  p = Len(more) /\ more[p] = x
  BY <1>t, <1>g, <1>n, BackgroundTypes
<1>o. ASSUME NEW p \in DOMAIN es, es[p].result # Lost
      PROVE  /\ es[p].result.of \in DOMAIN ops /\ ops[es[p].result.of].state # "pending"
             /\ es[p].result.of # n
             /\ ops'[es[p].result.of].state = ops[es[p].result.of].state
             /\ ops'[es[p].result.of].kind = ops[es[p].result.of].kind
  <2>1. es[p].result.of \in DOMAIN ops /\ ops[es[p].result.of].state # "pending"
    BY <1>o DEF TraceInv
  <2>2. es[p].result.of # n
    BY <2>1 DEF Works
  <2> QED
    BY <2>1, <2>2, <1>d, <1>k
<1>1. ASSUME NEW p \in DOMAIN more
      PROVE  IF more[p].result = Lost THEN more[p].type \notin ResultOnly
             ELSE LET i == more[p].result.of
                  IN  /\ i \in DOMAIN ops' /\ ops'[i].state # "pending"
                      /\ ops'[i].state = "ok" => more[p].type = Interceptor[ops'[i].kind].ok
  <2>1. CASE p \in DOMAIN es
    <3>1. more[p] = es[p]
      BY <1>t, <1>g, <2>1
    <3>2. CASE es[p].result = Lost
      BY <2>1, <3>1, <3>2 DEF TraceInv
    <3>3. CASE es[p].result # Lost
      <4>1. ops[es[p].result.of].state = "ok" =>
               es[p].type = Interceptor[ops[es[p].result.of].kind].ok
        BY <2>1, <3>3 DEF TraceInv
      <4> QED
        BY <1>d, <1>o, <2>1, <3>1, <3>3, <4>1
    <3> QED
      BY <3>2, <3>3
  <2>2. CASE p \notin DOMAIN es
    <3>1. more[p] \in Background \/ more[p] = x
      BY <1>t, <1>g, <2>2
    <3>2. CASE more[p] \in Background
      BY <3>2, BackgroundTypes DEF ResultOnly
    <3>3. CASE more[p] = x
      BY <3>3 DEF Tells
    <3> QED
      BY <3>1, <3>2, <3>3
  <2> QED
    BY <2>1, <2>2
<1>2. ASSUME Alone', NEW p \in DOMAIN more, NEW q \in DOMAIN more,
             more[p].result # Lost, more[q].result # Lost, p < q
      PROVE  more[p].result.of < more[q].result.of
  <2>1. p \in DOMAIN es
    BY <1>2, <1>n, <1>t
  <2>2. more[p] = es[p] /\ es[p].result # Lost
    BY <1>2, <1>t, <1>g, <2>1
  <2>3. Alone
    <3>1. \A j \in DOMAIN ops' : ops'[j].alone
      BY <1>2 DEF Alone
    <3> QED
      BY <1>d, <3>1 DEF Alone, Works
  <2>4. CASE q \in DOMAIN es
    <3>1. more[q] = es[q]
      BY <1>t, <1>g, <2>4
    <3> QED
      BY <1>2, <2>1, <2>2, <2>3, <2>4, <3>1 DEF TraceInv
  <2>5. CASE q \notin DOMAIN es
    <3>1. more[q] = x /\ x.result.of = n /\ n \in 1..(Len(ops) + 1)
      BY <1>2, <1>n, <2>5 DEF Tells, Works
    <3> DEFINE i == es[p].result.of
    <3>2. i \in DOMAIN ops /\ i # n
      BY <1>o, <2>1, <2>2
    <3> HIDE DEF i
    <3>3. ~(n < i)
      <4>1. ASSUME n < i PROVE FALSE
        <5>1. n \in DOMAIN ops
          BY <1>t, <3>1, <3>2, <4>1
        <5>2. ops[n].state = "pending"
          BY <5>1 DEF Works
        <5>3. ~ops[i].alone
          BY <3>2, <4>1, <5>1, <5>2 DEF TraceInv
        <5> QED
          BY <2>3, <3>2, <5>3 DEF Alone
      <4> QED
        BY <4>1
    <3>4. i < n
      BY <1>t, <3>1, <3>2, <3>3
    <3> QED
      BY <2>2, <3>1, <3>4 DEF i
  <2> QED
    BY <2>4, <2>5
<1>3. ASSUME ~log'.overflowed, NEW i \in DOMAIN ops', ops'[i].state = "ok"
      PROVE  \E p \in DOMAIN more : more[p].result.of = i
  <2>1. CASE i = n
    <3>1. Len(more) > 0 /\ more[Len(more)] = x /\ x.result # Lost
      BY <1>3, <2>1
    <3>2. Len(more) \in DOMAIN more /\ x.result.of = n
      BY <1>t, <3>1 DEF Tells
    <3> QED
      BY <2>1, <3>1, <3>2
  <2>2. CASE i # n
    <3>1. i \in DOMAIN ops /\ ops[i].state = "ok"
      BY <1>3, <1>k, <2>2
    <3>2. PICK p \in DOMAIN es : es[p].result.of = i
      BY <1>3, <1>g, <3>1 DEF TraceInv
    <3>3. p \in DOMAIN more /\ more[p] = es[p]
      BY <1>t, <1>g
    <3> QED
      BY <3>2, <3>3
  <2> QED
    BY <2>1, <2>2
<1>4. Len(more) > 0
  <2>1. Len(es) > 0
    BY DEF TraceInv
  <2> QED
    BY <1>t, <1>g, <2>1
<1>5. ASSUME NEW p \in DOMAIN more, more[p].type = "http_request_in" PROVE p = 1
  <2>1. CASE p \in DOMAIN es
    <3>1. more[p] = es[p]
      BY <1>t, <1>g, <2>1
    <3> QED
      BY <1>5, <2>1, <3>1 DEF TraceInv
  <2>2. CASE p \notin DOMAIN es
    <3>1. more[p] \in Background \/ more[p] = x
      BY <1>t, <1>g, <2>2
    <3> QED
      BY <1>5, <3>1, BackgroundTypes DEF Tells
  <2> QED
    BY <2>1, <2>2
<1>6. ASSUME NEW i \in DOMAIN ops', NEW j \in DOMAIN ops', ops'[i].state = "pending", i < j
      PROVE  ~ops'[j].alone
  <2>0. i \in DOMAIN ops
    BY <1>d, <1>6
  <2>1. ops[i].state = "pending"
    BY <1>6, <1>k, <2>0 DEF Works
  <2>2. CASE j \in DOMAIN ops
    BY <1>6, <2>0, <2>1, <2>2 DEF TraceInv, Works
  <2>3. CASE j \notin DOMAIN ops
    <3>1. j = Len(ops) + 1 /\ Len(ops') = j
      BY <1>d, <2>3
    <3>2. i \in Pending
      BY <2>0, <2>1 DEF Pending
    <3> QED
      BY <3>1, <3>2 DEF Works
  <2> QED
    BY <2>2, <2>3
<1> QED
  BY <1>1, <1>2, <1>3, <1>4, <1>5, <1>6 DEF TraceInv

\* Results are recorded under types of their own.
LEMMA TypesOfKinds ==
    ASSUME NEW k \in Kinds
    PROVE  /\ "http_request_in" \notin Interceptor[k].call \cup Interceptor[k].err
           /\ Interceptor[k].ok # "http_request_in"
           /\ Interceptor[k].call \cap ResultOnly = {}
<1>1. k \in {"date", "random", "uuid", "fetch", "empty_fetch", "pg", "redis", "mongo",
             "fs", "dns"}
  BY InterceptorConstants DEF AllKinds, Interceptor
<1>2. Interceptor[k] \in {DateNow, MathRandom, RandomUUID, Fetch, Pg, Redis, Mongo, Fs, Dns}
  BY <1>1 DEF Interceptor
<1> DEFINE Typed(x) == /\ "http_request_in" \notin x.call \cup x.err
                       /\ x.ok # "http_request_in"
                       /\ x.call \cap ResultOnly = {}
<1>3. Typed(DateNow) /\ Typed(MathRandom) /\ Typed(RandomUUID)
  BY DEF DateNow, MathRandom, RandomUUID, Source, ResultOnly
<1>4. Typed(Fetch) /\ Typed(Pg) /\ Typed(Redis)
  BY DEF Fetch, Pg, Redis, Call, ResultOnly
<1>5. Typed(Mongo) /\ Typed(Fs) /\ Typed(Dns)
  BY DEF Mongo, Fs, Dns, Call, ResultOnly
<1> QED
  BY <1>2, <1>3, <1>4, <1>5

\* The same of an interceptor that records, while the probe is installed.
LEMMA RecordedGrows ==
    ASSUME probe = TRUE, NEW l \in Logs(Event), NEW type \in Types, NEW result \in Result,
           NEW m \in {Recorded(l, type, result), RecordedBare(l, type, result)}
    PROVE  /\ Grown(l, m, Entry(type, result)) /\ m \in Logs(Event)
           /\ ~m.overflowed => /\ Len(m.events) > 0
                               /\ m.events[Len(m.events)] = Entry(type, result)
<1>1. Entry(type, result) \in Event
  BY DEF Entry, Event
<1>2. PICK nested \in {<<>>, <<Entry("timestamp", Lost)>>} :
         m = Record(l, nested, Entry(type, result))
  BY DEF Recorded, RecordedBare, Stamp
<1>3. m \in Logs(Event)
  BY RecordedType
<1> QED
  BY <1>1, <1>2, <1>3, RecordGrows

\* Of a step that is about no operation.
LEMMA StillWorks ==
    ASSUME ops' = ops, Len(ops) \in Nat, DOMAIN ops = 1..Len(ops)
    PROVE  Works(Len(ops) + 1) /\ Len(ops) + 1 \notin DOMAIN ops'
<1>1. /\ Len(ops) + 1 \in 1..(Len(ops) + 1) /\ Len(ops) + 1 # Len(ops)
      /\ Len(ops) + 1 \notin 1..Len(ops)
  <2> DEFINE a == Len(ops)
  <2>1. a \in Nat
    OBVIOUS
  <2> HIDE DEF a
  <2>2. a + 1 \in 1..(a + 1) /\ a + 1 # a /\ a + 1 \notin 1..a
    BY <2>1
  <2> QED
    BY <2>2 DEF a
<1> QED
  BY <1>1, Zenon DEF Works

\* Every step of the handler keeps the trace.
LEMMA TraceStep ==
    ASSUME HandlerTypeOK, TraceInv, probe = TRUE, HandlerStep
    PROVE  TraceInv'
<1> USE InterceptorConstants
<1>o. ops \in Seq(Operation) /\ log \in Logs(Event) /\ Len(ops) <= MaxOps
  BY DEF HandlerTypeOK, Operation
<1>t. /\ ops \in Seq(Operation) /\ log \in Logs(Event) /\ Len(ops) \in Nat
      /\ DOMAIN ops = 1..Len(ops) /\ Len(ops) <= MaxOps
      /\ \A j \in DOMAIN ops : ops[j] \in Operation
  BY <1>o
<1>p. ops' \in Seq(Operation) /\ log' \in Logs(Event)
  BY HandlerTypes DEF HandlerTypeOK, Operation
<1>n. ASSUME NEW o \in Operation, ops' = Append(ops, o), o.alone => Pending = {}
      PROVE  /\ Works(Len(ops) + 1) /\ Len(ops) + 1 \in DOMAIN ops'
             /\ ops'[Len(ops) + 1] = o
  <2>1. /\ Len(ops') = Len(ops) + 1 /\ \A j \in DOMAIN ops : ops'[j] = ops[j]
        /\ ops'[Len(ops) + 1] = o
    BY <1>n, <1>t, AppendProperties
  <2>2. Len(ops) + 1 \in DOMAIN ops'
    BY <2>1, <1>t, <1>p
  <2>3. Len(ops) + 1 \in 1..(Len(ops) + 1) /\ Len(ops) + 1 \notin DOMAIN ops
    BY <1>t
  <2> QED
    BY <1>n, <2>1, <2>2, <2>3 DEF Works
<1>1. ASSUME NEW k \in Kinds, Read(k) PROVE TraceInv'
  <2>0. PICK kept \in Interceptor[k].intact :
           LET value == [of |-> Len(ops) + 1, intact |-> kept]
           IN  log' \in {Recorded(log, Interceptor[k].ok, value),
                         RecordedBare(log, Interceptor[k].ok, value)}
    BY <1>1 DEF Read
  <2> DEFINE n == Len(ops) + 1
             result == [of |-> n, intact |-> kept]
             o == [kind |-> k, state |-> "ok", alone |-> Pending = {}]
             x == Entry(Interceptor[k].ok, result)
  <2>1. n \in 1..MaxOps /\ result \in Result /\ result # Lost
    <3>1. kept \in BOOLEAN
      BY <2>0, InterceptorTypes
    <3> QED
      BY <1>1, <1>t, <3>1 DEF Read, Result, Lost
  <2>2. ops' = Append(ops, o) /\ o \in Operation
    BY <1>1 DEF Read, Operation
  <2>3. Works(n) /\ n \in DOMAIN ops' /\ ops'[n] = o
    BY <1>n, <2>2
  <2>4. log' \in {Recorded(log, Interceptor[k].ok, result),
                  RecordedBare(log, Interceptor[k].ok, result)}
    BY <2>0
  <2>5. /\ Grown(log, log', x)
        /\ ~log'.overflowed => Len(log'.events) > 0 /\ log'.events[Len(log'.events)] = x
    BY <1>t, <2>1, <2>4, InterceptorTypes, RecordedGrows
  <2>6. x.result = result /\ x.type = Interceptor[k].ok
    BY DEF Entry
  <2>7. Tells(x, n)
    <3>1. result.of = n /\ o.kind = k /\ o.state = "ok"
      OBVIOUS
    <3> HIDE DEF result, o, x, n
    <3> QED
      BY <2>1, <2>3, <2>6, <3>1, TypesOfKinds DEF Tells
  <2> HIDE DEF result, o, x, n
  <2> QED
    BY <1>t, <1>p, <2>1, <2>3, <2>5, <2>6, <2>7, TraceKept
<1>2. ASSUME NEW k \in Kinds, Issue(k) PROVE TraceInv'
  <2> DEFINE n == Len(ops) + 1
             o == [kind |-> k, state |-> "pending", alone |-> Pending = {}]
  <2>1. PICK ask \in Interceptor[k].call : log' = Recorded(log, ask, Lost)
    BY <1>2 DEF Issue
  <2> DEFINE x == Entry(ask, Lost)
  <2>2. ops' = Append(ops, o) /\ o \in Operation
    BY <1>2 DEF Issue, Operation
  <2>3. Works(n) /\ n \in DOMAIN ops' /\ ops'[n] = o
    BY <1>n, <2>2
  <2>4. Grown(log, log', x)
    BY <1>t, <2>1, LostType, InterceptorTypes, RecordedGrows
  <2>5. x.result = Lost /\ x.type = ask
    BY DEF Entry
  <2>6. Tells(x, n)
    BY <2>1, <2>5, TypesOfKinds DEF Tells
  <2>7. ops'[n].state = "pending"
    BY <2>3
  <2> HIDE DEF o, x, n
  <2> QED
    BY <1>t, <1>p, <2>3, <2>4, <2>6, <2>7, TraceKept
\* A call settles: the event that is recorded, if any, is its own.
<1>3. ASSUME NEW i \in DOMAIN ops, Succeed(i) \/ FailCall(i) PROVE TraceInv'
  <2>0. i \in 1..Len(ops) /\ ops[i] \in Operation
    BY <1>t
  <2>1. /\ ops[i].state = "pending" /\ i \in 1..MaxOps /\ i # 0
        /\ ops[i].kind \in Kinds /\ i \in 1..Len(ops)
    <3>1. i \in Pending
      BY <1>3 DEF Succeed, FailCall
    <3>2. ops[i].state = "pending"
      BY <3>1 DEF Pending
    <3>3. i \in 1..MaxOps /\ i # 0
      BY <1>t, <2>0
    <3> QED
      BY <2>0, <3>2, <3>3 DEF Operation
  <2>2. PICK s \in {"ok", "failed"} : ops' = [ops EXCEPT ![i].state = s]
    BY <1>3 DEF Succeed, FailCall
  <2>3. /\ Len(ops') = Len(ops) /\ DOMAIN ops' = DOMAIN ops
        /\ ops'[i].state = s /\ ops'[i].kind = ops[i].kind
        /\ \A j \in DOMAIN ops : /\ ops'[j].kind = ops[j].kind /\ ops'[j].alone = ops[j].alone
                                 /\ j # i => ops'[j].state = ops[j].state
    BY <1>t, <2>2 DEF Operation
  <2>4. Works(i)
    <3>1. i \in 1..(Len(ops) + 1) /\ Len(ops') # Len(ops) + 1
      <4> DEFINE a == Len(ops)
      <4>1. a \in Nat /\ i \in 1..a
        BY <1>t, <2>1
      <4> HIDE DEF a
      <4>2. i \in 1..(a + 1) /\ a # a + 1
        BY <4>1
      <4> QED
        BY <2>3, <4>2, Zenon DEF a
    <3> QED
      BY <2>1, <2>3, <3>1, Zenon DEF Works
  <2>5. ASSUME NEW b \in BOOLEAN
        PROVE  [of |-> i, intact |-> b] \in Result /\ [of |-> i, intact |-> b] # Lost
    BY <2>1 DEF Result, Lost
  <2> DEFINE by == Interceptor[ops[i].kind]
  <2>6. CASE Succeed(i)
    <3>0. PICK kept \in by.intact :
             log' = Recorded(log, by.ok, [of |-> i, intact |-> kept])
      BY <2>6 DEF Succeed
    <3> DEFINE result == [of |-> i, intact |-> kept]
               x == Entry(by.ok, result)
    <3>1. log' = Recorded(log, by.ok, result)
      BY <3>0
    <3>2. result \in Result /\ result # Lost /\ by.ok \in Types
      <4>1. kept \in BOOLEAN /\ by.ok \in Types
        BY <2>1, <3>0, InterceptorTypes
      <4> QED
        BY <4>1, <2>5
    <3>3. /\ Grown(log, log', x)
          /\ ~log'.overflowed => Len(log'.events) > 0 /\ log'.events[Len(log'.events)] = x
      BY <1>t, <3>1, <3>2, RecordedGrows
    <3>4. x.result = result /\ x.type = by.ok /\ result.of = i
      BY DEF Entry
    <3>5. s # "pending" /\ by.ok # "http_request_in"
      BY <2>1, TypesOfKinds
    <3> HIDE DEF result, x
    <3>6. Tells(x, i)
      BY <2>3, <3>2, <3>4, <3>5 DEF Tells
    <3> QED
      BY <1>t, <1>p, <2>4, <3>2, <3>3, <3>4, <3>6, TraceKept
  <2>7. CASE FailCall(i)
    <3>0. ops'[i].state = "failed"
      <4>1. ops' = [ops EXCEPT ![i].state = "failed"]
        BY <2>7 DEF FailCall
      <4> QED
        BY <1>t, <4>1 DEF Operation
    <3>1. CASE by.err = {}
      <4>1. log' = log
        BY <2>7, <3>1 DEF FailCall
      <4>2. Grown(log, log', Marker)
        <5>1. Len(log.events) \in Nat
          BY <1>t DEF Logs
        <5> QED
          BY <4>1, <5>1 DEF Grown
      <4>3. Tells(Marker, i)
        BY MarkerIsCustom DEF Tells, Entry, ResultOnly
      <4> QED
        BY <1>t, <1>p, <2>4, <3>0, <4>2, <4>3, TraceKept
    <3>2. CASE by.err # {}
      <4> DEFINE result == [of |-> i, intact |-> FALSE]
      <4>1. PICK err \in by.err : log' = Recorded(log, err, result)
        BY <2>7, <3>2 DEF FailCall
      <4> DEFINE x == Entry(err, result)
      <4>2. result \in Result /\ result # Lost /\ err \in Types /\ err # "http_request_in"
        BY <2>1, <2>5, <4>1, InterceptorTypes, TypesOfKinds
      <4>3. Grown(log, log', x)
        BY <1>t, <4>1, <4>2, RecordedGrows
      <4>4. x.result = result /\ x.type = err /\ result.of = i
        BY DEF Entry
      <4> HIDE DEF result, x
      <4>5. Tells(x, i)
        BY <2>3, <3>0, <4>2, <4>4 DEF Tells
      <4> QED
        BY <1>t, <1>p, <2>4, <3>0, <4>3, <4>5, TraceKept
    <3> QED
      BY <3>1, <3>2
  <2> QED
    BY <1>3, <2>6, <2>7
<1>4. CASE Incident
  <2>1. PICK type \in Incidents :
           log' = Recorded(IF type = "timer_set" THEN WithTimer(log) ELSE log, type, Lost)
    BY <1>4 DEF Incident
  <2> DEFINE l == IF type = "timer_set" THEN WithTimer(log) ELSE log
             x == Entry(type, Lost)
             n == Len(ops) + 1
  <2>2. l \in Logs(Event) /\ l.events = log.events /\ l.overflowed = log.overflowed
    BY <1>t DEF WithTimer, Logs
  <2>3. type \in Types /\ type \notin ResultOnly /\ type # "http_request_in"
    BY <2>1 DEF Incidental, Types, ResultOnly
  <2>4. Grown(l, log', x)
    BY <2>1, <2>2, <2>3, LostType, RecordedGrows
  <2>5. Grown(log, log', x)
    BY <2>2, <2>4 DEF Grown
  <2>6. Tells(x, n)
    BY <2>3 DEF Tells, Entry
  <2>7. Works(n) /\ n \notin DOMAIN ops'
    <3>1. ops' = ops
      BY <1>4 DEF Incident
    <3> QED
      BY <1>t, <3>1, StillWorks
  <2> HIDE DEF x, n
  <2> QED
    BY <1>t, <1>p, <2>5, <2>6, <2>7, TraceKept
<1> QED
  BY <1>1, <1>2, <1>3, <1>4 DEF HandlerStep

\* The response is recorded last, with no result.
LEMMA TraceResponse ==
    ASSUME HandlerTypeOK, TraceInv, probe = TRUE, ops' = ops,
           log' = Recorded(log, "http_response_out", Lost)
    PROVE  TraceInv'
<1> DEFINE x == Entry("http_response_out", Lost)
           n == Len(ops) + 1
<1>1. /\ ops \in Seq(Operation) /\ ops' \in Seq(Operation) /\ log \in Logs(Event)
      /\ Len(ops) \in Nat /\ DOMAIN ops = 1..Len(ops)
  BY DEF HandlerTypeOK, Operation
<1>2. Grown(log, log', x) /\ log' \in Logs(Event)
  BY <1>1, LostType, RecordedGrows DEF Types
<1>3. Tells(x, n)
  BY DEF Tells, Entry, ResultOnly
<1>4. Works(n) /\ n \notin DOMAIN ops'
  BY <1>1, StillWorks
<1> HIDE DEF x, n
<1> QED
  BY <1>1, <1>2, <1>3, <1>4, TraceKept

LEMMA TraceInitial == HandlerInit => TraceInv
<1> SUFFICES ASSUME HandlerInit PROVE TraceInv
  OBVIOUS
<1>1. log = Record(EmptyLog, <<>>, Entry("http_request_in", Lost)) /\ ops = <<>>
  BY DEF HandlerInit
<1> DEFINE x == Entry("http_request_in", Lost)
<1>2. ~Full(EmptyLog)
  BY EventLogConstants DEF Full, EmptyLog
<1>3. log.events = <<>> \o (<<>> \o <<x>>)
  BY <1>1, <1>2 DEF Record, Pushed, EmptyLog
<1>4. x.result = Lost /\ x.type = "http_request_in" /\ x \in Event
  BY LostType DEF Entry, Event, Types
<1> HIDE DEF x
<1>5. Len(log.events) = 1 /\ log.events[1] = x /\ DOMAIN log.events = {1}
  BY <1>3, <1>4
<1>6. DOMAIN ops = {}
  BY <1>1
<1> QED
  BY <1>4, <1>5, <1>6 DEF TraceInv, ResultOnly

-----------------------------------------------------------------------------
(***************************************************************************)
(* The replay of a handler that can be followed.                           *)
(***************************************************************************)
\* The events that a followed operation takes: its result's, and no other's.
LEMMA FollowedKinds ==
    ASSUME NEW k \in {"date", "random", "uuid", "pg", "redis"} \cup Fetches
    PROVE  /\ Interceptor[k].ok \in ResultTypes /\ Interceptor[k].ok \in Takes(k)
           /\ \A u \in Takes(k) : u = Interceptor[k].ok \/ u \notin ResultTypes
<1>1. CASE k = "date"
  BY <1>1 DEF Interceptor, Takes, DateNow, Source, ResultTypes, ResultOnly
<1>2. CASE k = "random"
  BY <1>2 DEF Interceptor, Takes, MathRandom, Source, ResultTypes, ResultOnly
<1>3. CASE k = "uuid"
  BY <1>3 DEF Interceptor, Takes, RandomUUID, Source, ResultTypes, ResultOnly
<1>4. CASE k \in Fetches
  BY <1>4 DEF Interceptor, Takes, Fetches, Fetch, Call, ResultTypes, ResultOnly
<1>5. CASE k = "pg"
  BY <1>5 DEF Interceptor, Takes, Pg, Call, ResultTypes, ResultOnly
<1>6. CASE k = "redis"
  BY <1>6 DEF Interceptor, Takes, Redis, Call, ResultTypes, ResultOnly
<1> QED
  BY <1>1, <1>2, <1>3, <1>4, <1>5, <1>6

\* nextOfType() takes an event of the type it is asked for.
LEMMA ServedOfType ==
    ASSUME ReplayTypeInv, NEW f \in Engine, NEW type, Queue(f, type) # {}
    PROVE  /\ Served(f, type) \in Queue(f, type)
           /\ \A j \in Queue(f, type) : Served(f, type) <= j
<1>1. engine[f].left \subseteq Indices /\ recording \in Seq(Event)
  BY DEF ReplayTypeInv, ReplayTypeOK
<1>2. Queue(f, type) \subseteq Nat
  BY <1>1 DEF Queue, Indices
<1>3. \E i \in Queue(f, type) : \A j \in Queue(f, type) : i <= j
  BY <1>2, LeastExists
<1> QED
  BY <1>3 DEF Served

\* Engine e serves operation n, of kind k, its own result, and has left what comes
\* after it.
Serves(e, n, k) ==
    /\ Queue(e, Interceptor[k].ok) # {}
    /\ recording[Served(e, Interceptor[k].ok)].result.of = n
    /\ \A q \in Indices : recording[q].type \in ResultTypes =>
          (q \in engine[e].left \ Consumed(e, Takes(k))
             <=> recording[q].result = Lost \/ recording[q].result.of > n)

\* The engine that follows serves the next operation, and goes on following.
LEMMA NextServed ==
    ASSUME ReplayTypeInv, TraceInv, recording = log.events, Followed,
           NEW e \in Engine, Following(e),
           NEW n, n = Len(engine[e].seen) + 1, n \in DOMAIN ops,
           NEW k, k = ops[n].kind
    PROVE  Serves(e, n, k)
<1> DEFINE type == Interceptor[k].ok
<1>t. /\ recording \in Seq(Event) /\ Indices \subseteq Nat
      /\ \A q \in Indices : recording[q] \in Event
      /\ engine[e].seen \in Seq(Result) /\ engine[e].left \subseteq Indices
      /\ ops \in Seq(Operation) /\ Len(engine[e].seen) \in Nat
  BY DEF ReplayTypeInv, ReplayTypeOK, HandlerTypeOK, Indices, Operation
<1>r. \A q \in Indices : /\ recording[q].result \in Result
                         /\ recording[q].result.of \in Nat
                         /\ recording[q].type = "timestamp" /\ recording[q].result = Lost =>
                               recording[q] = Entry("timestamp", Lost)
  <2>1. ASSUME NEW y \in Event
        PROVE  /\ y.result \in Result /\ y.result.of \in Nat
               /\ y.type = "timestamp" /\ y.result = Lost => y = Entry("timestamp", Lost)
    BY InterceptorConstants DEF Event, Entry, Result
  <2> QED
    BY <1>t, <2>1
<1>n. n \in Nat /\ n > 0 /\ Len(engine[e].seen) = n - 1
  BY <1>t
<1>k. k \in {"date", "random", "uuid", "pg", "redis"} \cup Fetches /\ ops[n].state = "ok"
  BY DEF Followed
<1>y. /\ type \in ResultTypes /\ type \in Takes(k)
      /\ \A u \in Takes(k) : u = type \/ u \notin ResultTypes
  BY <1>k, FollowedKinds
<1> HIDE DEF type
<1>a. Alone
  BY DEF Followed, Alone
<1>o. /\ \A q \in Indices : recording[q].result = Lost => recording[q].type \notin ResultOnly
      /\ \A q \in Indices : recording[q].result # Lost =>
            /\ recording[q].result.of \in DOMAIN ops
            /\ ops[recording[q].result.of].state = "ok" =>
                  recording[q].type = Interceptor[ops[recording[q].result.of].kind].ok
      /\ \A p, q \in Indices : recording[p].result # Lost /\ recording[q].result # Lost /\ p < q
            => recording[p].result.of < recording[q].result.of
  BY <1>a DEF TraceInv, Indices
<1>f. \A q \in Indices : recording[q].type \in ResultTypes =>
         (q \in engine[e].left <=> recording[q].result = Lost
                                   \/ recording[q].result.of > n - 1)
  BY <1>n DEF Following
<1>1. PICK p \in Indices : recording[p].result.of = n
  BY <1>k DEF Followed, TraceInv, Indices
<1>2. recording[p].result # Lost /\ recording[p].type = type
  <2>1. recording[p].result # Lost
    BY <1>1, <1>n DEF Lost
  <2> QED
    BY <1>1, <1>k, <1>o, <2>1 DEF type
<1>3. p \in Queue(e, type)
  <2>1. p \in engine[e].left
    BY <1>1, <1>2, <1>f, <1>n, <1>y
  <2> QED
    BY <1>2, <2>1 DEF Queue
<1>4. ASSUME NEW q \in Indices, recording[q].result # Lost, recording[q].result.of = n
      PROVE  q = p
  <2>1. ~(p < q) /\ ~(q < p)
    BY <1>1, <1>2, <1>4, <1>o, <1>n
  <2> QED
    BY <1>t, <2>1
<1>5. ASSUME NEW q \in Queue(e, type) PROVE p <= q
  <2>1. q \in Indices /\ q \in engine[e].left /\ recording[q].type = type
    BY <1>t DEF Queue
  <2>2. recording[q].result = Lost \/ recording[q].result.of > n - 1
    BY <1>f, <1>y, <2>1
  <2>3. CASE recording[q].result = Lost
    <3>1. type = "timestamp"
      BY <1>o, <1>y, <2>1, <2>3 DEF ResultTypes
    <3>2. recording[q] = Entry("timestamp", Lost)
      BY <1>r, <2>1, <2>3, <3>1
    <3>3. p < q
      BY <1>2, <2>1, <3>1, <3>2 DEF Followed
    <3> QED
      BY <1>t, <2>1, <3>3
  <2>4. CASE recording[q].result # Lost /\ recording[q].result.of > n - 1
    <3>1. ~(q < p)
      <4>1. recording[q].result.of \in Nat
        BY <1>r, <2>1
      <4>2. ~(recording[q].result.of < n)
        BY <1>n, <2>4, <4>1
      <4> QED
        BY <1>1, <1>2, <1>o, <2>1, <2>4, <4>2
    <3> QED
      BY <1>t, <2>1, <3>1
  <2> QED
    BY <2>2, <2>3, <2>4
<1>6. Served(e, type) = p
  <2>1. Served(e, type) \in Queue(e, type) /\ Served(e, type) <= p
    BY <1>3, ServedOfType
  <2>2. p <= Served(e, type)
    BY <1>5, <2>1
  <2>3. Served(e, type) \in Nat /\ p \in Nat
    BY <1>t, <2>1 DEF Queue
  <2> QED
    BY <2>1, <2>2, <2>3
<1>7. ASSUME NEW q \in Indices, recording[q].type \in ResultTypes
      PROVE  q \in Consumed(e, Takes(k)) <=> q = p
  <2>1. p \in Consumed(e, Takes(k))
    BY <1>3, <1>6, <1>y DEF Consumed
  <2>2. ASSUME q \in Consumed(e, Takes(k)) PROVE q = p
    <3>1. PICK u \in Takes(k) : Queue(e, u) # {} /\ q = Served(e, u)
      BY <2>2 DEF Consumed
    <3>2. q \in Queue(e, u)
      BY <3>1, ServedOfType
    <3>3. recording[q].type = u
      BY <3>2 DEF Queue
    <3>4. u = type
      BY <1>7, <1>y, <3>1, <3>3
    <3> QED
      BY <1>6, <3>1, <3>4
  <2> QED
    BY <2>1, <2>2
<1>8. ASSUME NEW q \in Indices, recording[q].type \in ResultTypes
      PROVE  q \in engine[e].left \ Consumed(e, Takes(k))
                <=> recording[q].result = Lost \/ recording[q].result.of > n
  <2>1. CASE q = p
    BY <1>1, <1>2, <1>7, <1>8, <1>n, <2>1
  <2>2. CASE q # p
    <3>1. q \in engine[e].left \ Consumed(e, Takes(k)) <=> q \in engine[e].left
      BY <1>7, <1>8, <2>2
    <3>2. recording[q].result # Lost => recording[q].result.of # n
      BY <1>4, <2>2
    <3>3. recording[q].result # Lost =>
             (recording[q].result.of > n - 1 <=> recording[q].result.of > n)
      <4>1. recording[q].result.of \in Nat
        BY <1>r
      <4> QED
        BY <1>n, <3>2, <4>1
    <3> QED
      BY <1>8, <1>f, <3>1, <3>3
  <2> QED
    BY <2>1, <2>2
<1> QED
  BY <1>1, <1>3, <1>6, <1>8 DEF type, Serves

LEMMA FollowInitial == ReplayInit => TraceInv /\ FollowInv
<1> SUFFICES ASSUME ReplayInit PROVE TraceInv /\ FollowInv
  OBVIOUS
<1>1. TraceInv
  BY TraceInitial DEF ReplayInit
<1>2. \A e \in Engine : engine[e] = Unloaded
  BY DEF ReplayInit
<1>3. phase = "recording" /\ probe
  BY DEF ReplayInit, HandlerInit
<1>4. ASSUME NEW e \in Engine PROVE Follows(e)
  BY <1>2 DEF Follows, Running, Unloaded
<1> QED
  BY <1>1, <1>3, <1>4 DEF FollowInv

\* The operations and their log no longer change once the recording has ended.
LEMMA RecordedStays ==
    ASSUME UNCHANGED <<handlerVars, phase, recording>>
    PROVE  /\ Followed' = Followed /\ HasRequest' = HasRequest /\ Indices' = Indices
           /\ TraceInv' = TraceInv /\ SomeEmpty' = SomeEmpty
BY DEF handlerVars, Followed, HasRequest, Indices, TraceInv, Alone, Pending, SomeEmpty

\* An engine that runs under a probe left alone is asked for all that its handler
\* needs, and has it.
LEMMA AskedItself ==
    ASSUME ReplayTypeInv, TraceInv, FollowInv, Followed,
           NEW e \in Engine, Running(e), engine[e].fresh, ~meddled,
           NEW n, n = Len(engine[e].seen) + 1, n \in DOMAIN ops
    PROVE  LET k == ops[n].kind
           IN  /\ AskedOf(e, k) = {e} /\ Serves(e, n, k)
               /\ Answers(e, k) = {recording[Served(e, Interceptor[k].ok)].result}
               /\ Throws(e, k) => k = "empty_fetch"
<1> DEFINE k == ops[n].kind
<1>1. /\ recording = log.events /\ Following(e)
      /\ globals = [date |-> e, fetch |-> e]
  BY DEF FollowInv, Follows
<1>2. k \in {"date", "random", "uuid", "pg", "redis"} \cup Fetches
  BY DEF Followed
<1>k. k = ops[n].kind
  OBVIOUS
<1> HIDE DEF k
<1>3. Serves(e, n, k)
  BY <1>1, <1>k, NextServed
<1>q. Queue(e, Interceptor[k].ok) # {}
  BY <1>3 DEF Serves
<1>4. globals.date = e /\ globals.fetch = e /\ e # "probe"
  BY <1>1, ReplayConstants
<1>5. AskedOf(e, k) = {e}
  <2>1. CASE k \in {"date", "random"}
    BY <1>4, <2>1 DEF AskedOf
  <2>2. CASE k \in Fetches
    <3>1. k \notin {"date", "random"} /\ k \notin {"fs", "dns"}
      BY <2>2 DEF Fetches
    <3>2. (IF globals.fetch = "probe" THEN original ELSE globals.fetch) = e
      BY <1>4
    <3>3. AskedOf(e, k) = {IF globals.fetch = "probe" THEN original ELSE globals.fetch} \cap Engine
      BY <2>2, <3>1 DEF AskedOf
    <3> QED
      BY <3>2, <3>3
  <2>3. CASE k \in {"uuid", "pg", "redis"}
    BY <2>3 DEF AskedOf, Fetches
  <2> QED
    BY <1>2, <2>1, <2>2, <2>3
<1> DEFINE result == recording[Served(e, Interceptor[k].ok)].result
<1>6. Answers(e, k) = {result}
  BY <1>5, <1>q DEF Answers
<1>7. result.of = n
  BY <1>3 DEF Serves
<1> HIDE DEF result
<1>8. Throws(e, k) => k = "empty_fetch"
  BY <1>6, <1>7, <1>k DEF Throws, Bodiless
<1> QED
  BY <1>3, <1>5, <1>6, <1>8 DEF k, result

LEMMA FollowStep ==
    ReplayTypeInv /\ ReplayInv /\ TraceInv /\ FollowInv /\ [ReplayNext]_replayVars
    => TraceInv' /\ FollowInv'
<1> SUFFICES ASSUME ReplayTypeInv, ReplayInv, TraceInv, FollowInv, [ReplayNext]_replayVars
             PROVE  TraceInv' /\ FollowInv'
  OBVIOUS
<1>t. /\ engine \in [Engine -> EngineState] /\ HandlerTypeOK
      /\ \A e \in Engine : engine[e] \in EngineState
      /\ phase \in {"recording", "recorded"} /\ log \in Logs(Event)
      /\ isReplaying \in BOOLEAN /\ meddled \in BOOLEAN /\ probe \in BOOLEAN
  BY DEF ReplayTypeInv, ReplayTypeOK, HandlerTypeOK
<1>e. ASSUME NEW e \in Engine, engine[e].state # "empty" PROVE phase = "recorded"
  BY <1>e, <1>t DEF ReplayTypeInv, Blank
\* Before the recording ends nothing has been replayed.
<1>b. ASSUME phase = "recording", engine' = engine, NEW e \in Engine PROVE (Follows(e))'
  <2>1. ~engine[e].fresh /\ ~Running(e) /\ engine[e].seen = <<>>
    BY <1>b DEF FollowInv, Follows, ReplayTypeInv, Blank, Running
  <2> QED
    BY <1>b, <2>1 DEF Follows, Running
\* A step of one engine keeps what it does not touch.
<1>k. ASSUME UNCHANGED <<probe, handlerVars, phase, recording>>, phase = "recorded",
             \A e \in Engine : (Follows(e))'
      PROVE  TraceInv' /\ FollowInv'
  BY <1>k, RecordedStays DEF FollowInv, handlerVars
<1>o. ASSUME UNCHANGED <<handlerVars, phase, recording, meddled>>, NEW e \in Engine,
             /\ engine'[e].state = engine[e].state /\ engine'[e].seen = engine[e].seen
             /\ engine'[e].fresh = engine[e].fresh /\ engine'[e].outcome = engine[e].outcome
             /\ Running(e) => globals' = globals /\ engine'[e].left = engine[e].left
      PROVE  (Follows(e))'
  <2>1. Follows(e) /\ Followed' = Followed /\ Indices' = Indices
    BY <1>o, RecordedStays DEF FollowInv
  <2>2. (Running(e))' = Running(e) /\ SomeEmpty' = SomeEmpty
    BY <1>o, RecordedStays DEF Running
  <2>3. Running(e) => (Following(e))' = Following(e)
    BY <1>o, <2>1 DEF Following
  <2> QED
    BY <1>o, <2>1, <2>2, <2>3 DEF Follows, handlerVars
<1>1. CASE Handle
  <2>1. phase = "recording" /\ probe = TRUE
    BY <1>1, <1>t DEF Handle, FollowInv
  <2>2. HandlerStep /\ UNCHANGED <<phase, recording, dataless, esm, processVars>>
    BY <1>1 DEF Handle
  <2>3. TraceInv' /\ probe' = probe
    BY <1>t, <2>1, <2>2, TraceStep, HandlerTypes
  <2> QED
    BY <1>b, <2>1, <2>2, <2>3 DEF FollowInv, processVars
<1>2. CASE Respond
  <2>1. phase = "recording" /\ probe = TRUE
    BY <1>2, <1>t DEF Respond, FollowInv
  <2>2. /\ UNCHANGED <<probe, ops, ticks, esm, processVars>> /\ phase' = "recorded"
        /\ log' = Recorded(log, "http_response_out", Lost)
        /\ recording' \in {log'.events, SubSeq(log'.events, 2, Len(log'.events))}
    BY <1>2 DEF Respond
  <2>3. TraceInv'
    BY <1>t, <2>1, <2>2, TraceResponse
  <2>4. log'.events \in Seq(Event) /\ Len(log'.events) \in Nat
    <3>1. log' \in Logs(Event)
      BY <1>t, <2>2, LostType, RecordedType DEF Types
    <3> QED
      BY <3>1 DEF Logs
  <2>5. CASE recording' = SubSeq(log'.events, 2, Len(log'.events))
    <3> DEFINE es == log'.events
               tail == SubSeq(es, 2, Len(es))
    <3>1. ASSUME NEW i \in DOMAIN tail PROVE i + 1 \in DOMAIN es /\ tail[i] = es[i + 1] /\ i \in Nat
                                              /\ i > 0
      BY <2>4
    <3>2. ASSUME NEW i \in DOMAIN tail PROVE tail[i] # Entry("http_request_in", Lost)
      <4>1. es[i + 1].type # "http_request_in"
        <5>1. i + 1 # 1
          BY <3>1
        <5> QED
          BY <2>3, <3>1, <5>1 DEF TraceInv
      <4> QED
        BY <3>1, <4>1 DEF Entry
    <3>3. ~HasRequest'
      BY <2>5, <3>2 DEF HasRequest, Indices
    <3> QED
      BY <1>b, <2>1, <2>2, <2>3, <3>3 DEF FollowInv, processVars
  <2>6. CASE recording' = log'.events
    BY <1>b, <2>1, <2>2, <2>3, <2>6 DEF FollowInv, processVars
  <2> QED
    BY <2>2, <2>5, <2>6
<1>3. CASE ToggleProbe
  <2>1. phase = "recorded" /\ UNCHANGED <<handlerVars, phase, recording, isReplaying, engine>>
        /\ meddled' = (meddled \/ isReplaying)
    BY <1>3 DEF ToggleProbe
  <2>2. ASSUME NEW e \in Engine PROVE (Follows(e))'
    <3>1. Follows(e) /\ Followed' = Followed /\ SomeEmpty' = SomeEmpty
      BY <2>1, RecordedStays DEF FollowInv
    <3>2. Running(e) => meddled'
      BY <2>1 DEF ReplayInv, FlagIsHeld, Idle
    <3>3. (Running(e))' = Running(e) /\ (~meddled' => ~meddled)
      BY <2>1 DEF Running
    <3> QED
      BY <2>1, <3>1, <3>2, <3>3 DEF Follows, handlerVars
  <2> QED
    BY <2>1, <2>2, RecordedStays DEF FollowInv, handlerVars
<1>4. ASSUME NEW e \in Engine, Load(e) \/ SeekTo(e) PROVE TraceInv' /\ FollowInv'
  <2>1. PICK n : engine' = [engine EXCEPT ![e] = Layer(e, n)]
    BY <1>4 DEF Load, SeekTo
  <2>2. /\ UNCHANGED <<probe, handlerVars, phase, recording, globals, meddled>>
        /\ phase = "recorded" /\ ~Running(e)
    BY <1>4, <1>e DEF Load, SeekTo, Running, recordingVars
  <2>3. /\ engine'[e].fresh = engine[e].fresh /\ engine'[e].seen = engine[e].seen
        /\ engine'[e].outcome = engine[e].outcome /\ engine'[e].state = "idle"
    <3>1. /\ Layer(e, n).fresh = engine[e].fresh /\ Layer(e, n).seen = engine[e].seen
          /\ Layer(e, n).outcome = engine[e].outcome /\ Layer(e, n).state = "idle"
      BY <1>t DEF Layer, EngineState
    <3> QED
      BY <1>t, <2>1, <3>1
  <2>4. (Follows(e))'
    <3>1. Follows(e) /\ Followed' = Followed /\ SomeEmpty' = SomeEmpty
      BY <2>2, RecordedStays DEF FollowInv
    <3> QED
      BY <2>2, <2>3, <3>1 DEF Follows, Running, handlerVars
  <2>5. ASSUME NEW f \in Engine \ {e} PROVE (Follows(f))'
    BY <1>o, <1>t, <2>1, <2>2
  <2> QED
    BY <1>k, <2>2, <2>4, <2>5
<1>5. ASSUME NEW e \in Engine, Unusable(e) PROVE TraceInv' /\ FollowInv'
  <2>1. PICK o \in {"noRequest", "noRequire"} : engine' = [engine EXCEPT ![e].outcome = o]
    BY <1>5 DEF Unusable
  <2>2. /\ UNCHANGED <<probe, handlerVars, phase, recording, globals, meddled>>
        /\ phase = "recorded" /\ ~Running(e)
    BY <1>5, <1>e DEF Unusable, Running, recordingVars
  <2>3. /\ engine'[e].fresh = engine[e].fresh /\ engine'[e].seen = engine[e].seen
        /\ engine'[e].outcome = o /\ engine'[e].state = engine[e].state
    BY <1>t, <2>1 DEF EngineState
  <2>4. (Follows(e))'
    <3>1. Follows(e)
      BY DEF FollowInv
    <3> QED
      BY <2>2, <2>3, <3>1 DEF Follows, Running, handlerVars
  <2>5. ASSUME NEW f \in Engine \ {e} PROVE (Follows(f))'
    BY <1>o, <1>t, <2>1, <2>2
  <2> QED
    BY <1>k, <2>2, <2>4, <2>5
<1>6. ASSUME NEW e \in Engine, Begin(e) PROVE TraceInv' /\ FollowInv'
  <2> DEFINE began == [engine[e] EXCEPT !.state = "running", !.saved = globals, !.seen = <<>>,
                                        !.outcome = "none",
                                        !.fresh = (~meddled /\ engine[e].left = Indices)]
  <2>1. engine' = [engine EXCEPT ![e] = began]
    BY <1>6, <1>t DEF Begin
  <2>2. /\ UNCHANGED <<probe, handlerVars, phase, recording, meddled>>
        /\ globals' = [date |-> e, fetch |-> e] /\ ~isReplaying /\ HasRequest /\ ~dataless
        /\ phase = "recorded"
    BY <1>6, <1>e DEF Begin, MayReplay, recordingVars
  <2>3. /\ began.fresh = (~meddled /\ engine[e].left = Indices) /\ began.seen = <<>>
        /\ began.outcome = "none" /\ began.left = engine[e].left /\ began.state = "running"
    BY <1>t DEF EngineState
  <2> HIDE DEF began
  <2>4. engine'[e] = began /\ \A f \in Engine \ {e} : engine'[f] = engine[f]
    BY <1>t, <2>1
  <2>5. recording = log.events
    BY <2>2 DEF FollowInv
  <2>6. ASSUME began.fresh PROVE (Following(e))'
    <3>1. engine'[e].left = Indices /\ engine'[e].seen = <<>>
      BY <2>3, <2>4, <2>6
    <3>2. \A p \in Indices : recording[p].result # Lost => recording[p].result.of > 0
      <4>1. \A i \in DOMAIN ops : i > 0
        BY <1>t DEF HandlerTypeOK
      <4> QED
        BY <2>5, <4>1 DEF TraceInv, Indices
    <3>3. Indices' = Indices /\ recording' = recording
      BY <2>2 DEF Indices
    <3>4. DOMAIN (engine'[e].seen) = {} /\ Len(engine'[e].seen) = 0
      BY <3>1
    <3> QED
      BY <3>1, <3>2, <3>3, <3>4 DEF Following
  <2>7. (Follows(e))'
    BY <2>2, <2>3, <2>4, <2>5, <2>6 DEF Follows, Running, handlerVars
  <2>8. ASSUME NEW f \in Engine \ {e} PROVE (Follows(f))'
    <3>1. ~Running(f)
      BY <2>2 DEF ReplayInv, FlagIsHeld
    <3> QED
      BY <1>o, <2>2, <2>4, <3>1
  <2> QED
    BY <1>k, <2>2, <2>7, <2>8
<1>s. ASSUME NEW e \in Engine, Strand(e) PROVE TraceInv' /\ FollowInv'
  <2>1. /\ UNCHANGED <<probe, handlerVars, phase, recording, globals, meddled, engine>>
        /\ phase = "recorded"
    BY <1>s, <1>e DEF Strand, recordingVars
  <2>2. \A f \in Engine : (Follows(f))'
    BY <1>o, <2>1
  <2> QED
    BY <1>k, <2>1, <2>2
<1>7. ASSUME NEW e \in Engine, Step(e) PROVE TraceInv' /\ FollowInv'
  <2> DEFINE n == Len(engine[e].seen) + 1
             k == ops[n].kind
  <2>1. /\ UNCHANGED <<probe, handlerVars, phase, recording, globals, meddled>>
        /\ Running(e) /\ n \in DOMAIN ops
    BY <1>7 DEF Step, Running, recordingVars
  <2>2. phase = "recorded"
    BY <1>e, <2>1 DEF Running
  <2>3. \A f \in Engine \ {e} : ~Running(f)
    BY <2>1 DEF ReplayInv
  <2>4. PICK result \in Result :
           /\ Answers(e, k) # {} => result \in Answers(e, k)
           /\ \A g \in Engine :
                 /\ engine'[g].state = engine[g].state /\ engine'[g].fresh = engine[g].fresh
                 /\ engine'[g].outcome = engine[g].outcome
                 /\ engine'[g].left = LeftBy(e, n, g)
                 /\ engine'[g].seen = IF g = e THEN Append(engine[g].seen, result)
                                      ELSE engine[g].seen
    BY <1>7, SteppedEngine
  <2>5. Followed' = Followed /\ Indices' = Indices /\ SomeEmpty' = SomeEmpty
    BY <2>1, RecordedStays
  <2>6. ASSUME engine[e].fresh, ~meddled, Followed PROVE (Following(e))'
    <3> DEFINE served == recording[Served(e, Interceptor[k].ok)].result
               rest == engine[e].left \ Consumed(e, Takes(k))
    <3>1. /\ AskedOf(e, k) = {e} /\ Serves(e, n, k) /\ Answers(e, k) = {served}
          /\ Following(e)
      BY <2>1, <2>6, AskedItself DEF FollowInv, Follows
    <3>2. /\ served.of = n
          /\ \A q \in Indices : recording[q].type \in ResultTypes =>
                (q \in rest <=> recording[q].result = Lost \/ recording[q].result.of > n)
      BY <3>1 DEF Serves
    <3>3. engine'[e].left = rest
      BY <2>1, <2>4, <3>1 DEF LeftBy
    <3>4. engine'[e].seen = Append(engine[e].seen, result) /\ result.of = n
      BY <2>4, <3>1, <3>2
    <3>5. engine[e].seen \in Seq(Result)
      BY <1>t DEF EngineState
    <3>6. /\ Len(engine'[e].seen) = n
          /\ \A i \in DOMAIN engine'[e].seen :
                \/ i = n /\ engine'[e].seen[i] = result
                \/ i \in DOMAIN engine[e].seen /\ engine'[e].seen[i] = engine[e].seen[i]
      BY <3>4, <3>5
    <3>7. \A i \in DOMAIN engine'[e].seen : engine'[e].seen[i].of = i
      BY <3>1, <3>4, <3>6 DEF Following
    <3> HIDE DEF rest
    <3>8. \A p \in Indices : recording[p].type \in ResultTypes =>
             (p \in engine'[e].left <=> recording[p].result = Lost
                                        \/ recording[p].result.of > Len(engine'[e].seen))
      BY <3>2, <3>3, <3>6
    <3> HIDE DEF n
    <3> QED
      BY <2>1, <2>5, <3>7, <3>8 DEF Following
  <2> HIDE DEF n, k
  <2>7. (Follows(e))'
    <3>1. Follows(e)
      BY DEF FollowInv
    <3> QED
      BY <2>1, <2>4, <2>5, <2>6, <3>1 DEF Follows, Running, handlerVars
  <2>8. ASSUME NEW f \in Engine \ {e} PROVE (Follows(f))'
    <3>1. ~Running(f)
      BY <2>3
    <3> QED
      BY <1>o, <2>1, <2>4, <3>1
  <2> QED
    BY <1>k, <2>1, <2>2, <2>7, <2>8
<1>8. ASSUME NEW e \in Engine, Done(e) PROVE TraceInv' /\ FollowInv'
  <2> DEFINE n == Len(engine[e].seen) + 1
  <2>1. /\ UNCHANGED <<probe, handlerVars, phase, recording, meddled>>
        /\ Running(e) /\ (n \in DOMAIN ops => Throws(e, ops[n].kind)) /\ Over(e)
    BY <1>8 DEF Done, Running, recordingVars
  <2>2. phase = "recorded"
    BY <1>e, <2>1 DEF Running
  <2>3. /\ \A g \in Engine :
              /\ engine'[g].fresh = engine[g].fresh
              /\ g # e => /\ engine'[g].state = engine[g].state
                          /\ engine'[g].outcome = engine[g].outcome
                          /\ engine'[g].seen = engine[g].seen
        /\ engine'[e].state = "idle" /\ engine'[e].seen = <<>>
        /\ engine'[e].outcome = Outcome(e)
    BY <2>1, OverEngine
  <2>5. ASSUME engine[e].fresh, ~meddled, Followed, Outcome(e) = "diverged" PROVE SomeEmpty
    <3>1. n \in DOMAIN ops => ops[n].kind = "empty_fetch"
      BY <2>1, <2>5, AskedItself
    <3>2. Len(engine[e].seen) < Len(ops)
      BY <2>5 DEF Outcome
    <3>3. n \in DOMAIN ops
      <4>1. Len(engine[e].seen) \in Nat /\ Len(ops) \in Nat /\ DOMAIN ops = 1..Len(ops)
        BY <1>t DEF HandlerTypeOK, EngineState
      <4> QED
        BY <3>2, <4>1
    <3> QED
      BY <3>1, <3>3 DEF SomeEmpty
  <2> HIDE DEF n
  <2>7. (Follows(e))'
    <3>1. Follows(e) /\ Followed' = Followed /\ SomeEmpty' = SomeEmpty
      BY <2>1, RecordedStays DEF FollowInv
    <3> QED
      BY <2>1, <2>3, <2>5, <3>1 DEF Follows, Running, handlerVars
  <2>8. ASSUME NEW f \in Engine \ {e} PROVE (Follows(f))'
    <3>1. ~Running(f)
      BY <2>1 DEF ReplayInv
    <3> QED
      BY <1>o, <2>1, <2>3, <3>1
  <2> QED
    BY <1>k, <2>1, <2>2, <2>7, <2>8
<1>9. CASE UNCHANGED replayVars
  <2>1. UNCHANGED <<probe, handlerVars, phase, recording, globals, meddled, engine>>
    BY <1>9 DEF replayVars, recordingVars, processVars
  <2>2. \A e \in Engine : (Follows(e))'
    BY <1>o, <2>1
  <2> QED
    BY <2>1, <2>2, RecordedStays DEF FollowInv, handlerVars
<1> QED
  BY <1>1, <1>2, <1>3, <1>4, <1>5, <1>6, <1>s, <1>7, <1>8, <1>9 DEF ReplayNext

\* A handler that awaits one operation before the next is served its own results
\* from the start of a fresh mock layer to the end, and diverges only for a fetch
\* that was answered without a body, for any number of operations, engines and
\* other events in the recording.
THEOREM FollowedAreServed == ReplaySpec => []FollowedHandlersReplay
<1>1. ASSUME FollowInv, NEW e \in Engine, Followed, engine[e].fresh, ~meddled
      PROVE  /\ \A i \in DOMAIN engine[e].seen : engine[e].seen[i].of = i
             /\ engine[e].outcome = "diverged" => SomeEmpty
  <2>1. Follows(e)
    BY <1>1 DEF FollowInv
  <2>2. CASE Running(e)
    BY <1>1, <2>1, <2>2 DEF Follows, Following
  <2>3. CASE ~Running(e)
    BY <1>1, <2>1, <2>3 DEF Follows
  <2> QED
    BY <2>2, <2>3
<1>2. FollowInv => FollowedHandlersReplay
  BY <1>1 DEF FollowedHandlersReplay, SomeEmpty
<1> QED
  BY <1>2, ReplayTypesInitial, ReplayTypesStep, ReplayInvInitial, ReplayInvStep,
     FollowInitial, FollowStep, PTL
  DEF ReplaySpec
=============================================================================

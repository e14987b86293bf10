------------------------------ MODULE Sampling ------------------------------
(***************************************************************************)
(* The sampling engine (sampling.ts): a decision at the head of a request, *)
(* a second one at its tail, a sliding window of outcomes that switches on *)
(* full recording for a while, and forceRecord(), which borrows the base   *)
(* rate and gives it back from a timer.                                    *)
(*                                                                         *)
(* A rate is one of Rates; under a rate of 0 a random draw never wins, and *)
(* even under 1 it may lose: the draw lies in [0, 1] and must be below.    *)
(***************************************************************************)
EXTENDS Naturals, FiniteSetsExt, SequencesExt

CONSTANTS
    Route,            \* normalised paths
    Rates,            \* base rates; 0 is never, FullRate is 1.0
    FullRate,
    Configs,          \* the configurations updateConfig() may leave behind
    MaxTrackedPaths,  \* maxTrackedPaths
    Window,           \* windowSize, in ticks
    PruneEvery,       \* the 100 requests between two prunes
    EnoughRequests,   \* the 10 requests below which no rate is computed
    ThresholdPercent, \* adaptiveErrorThreshold
    OverrideFor,      \* the 30 s of full sampling, in ticks
    MaxNow,           \* bound: the clock
    MaxForces         \* bound: forceRecord() calls pending at once

ASSUME SamplingConstants ==
    /\ 0 \in Rates /\ FullRate \in Rates /\ Rates \subseteq Nat
    /\ Configs \subseteq [rate: Rates, newPaths: BOOLEAN, errors: BOOLEAN,
                          upstream: BOOLEAN, latency: BOOLEAN, adaptive: BOOLEAN]
    /\ PruneEvery \in Nat \ {0}
    /\ {MaxTrackedPaths, Window, EnoughRequests, ThresholdPercent, OverrideFor,
        MaxNow, MaxForces} \subseteq Nat

VARIABLES
    now,         \* originalDateNow()
    config,      \* config
    seenPaths,   \* seenPaths
    rings,       \* requestRing and errorRing
    until,       \* adaptiveUntil, 0 when adaptiveOverride is off
    forces       \* the rates that pending forceRecord() timers will restore

samplingVars == <<now, config, seenPaths, rings, until, forces>>

Reason == {"upstream", "adaptive", "new_path", "random", "dropped", "error", "latency"}
Keeps(reason) == reason # "dropped"

SamplingTypeOK ==
    /\ now \in Nat
    /\ config \in [rate: Rates, newPaths: BOOLEAN, errors: BOOLEAN,
                   upstream: BOOLEAN, latency: BOOLEAN, adaptive: BOOLEAN]
    /\ seenPaths \in SUBSET Route
    /\ rings \in [requests: Seq(Nat), errors: Seq(Nat)]
    /\ until \in Nat
    /\ forces \in Seq(Rates) /\ Len(forces) <= MaxForces

AdaptiveActive == now < until

\* headDecision()
HeadReason(route, sampledUpstream, lucky) ==
    IF config.upstream /\ sampledUpstream THEN "upstream"
    ELSE IF config.adaptive /\ AdaptiveActive THEN "adaptive"
    ELSE IF config.newPaths /\ route \notin seenPaths THEN "new_path"
    ELSE IF lucky THEN "random" ELSE "dropped"

CouldWin(lucky) == lucky => config.rate > 0

\* The paths known once route is added, if there is room.
WithPath(route) ==
    IF Cardinality(seenPaths) < MaxTrackedPaths THEN seenPaths \cup {route} ELSE seenPaths

\* A mutant of Claimed: the path is left to tailDecision().
ClaimedLate(route, reason) == seenPaths

\* headDecision() claims a new path at once.
Claimed(route, reason) == IF reason = "new_path" THEN WithPath(route) ELSE seenPaths

\* What is left of a ring: its front is dropped while it is out of the window.
Fresh(ring) ==
    LET kept == {i \in DOMAIN ring : ring[i] + Window > now}
        first == IF kept = {} THEN Len(ring) + 1 ELSE Min(kept)
    IN  SubSeq(ring, first, Len(ring))

\* A mutant of Pruned: the error ring is forgotten.
PrunedRequests(r) == [r EXCEPT !.requests = Fresh(@)]

\* pruneWindow()
Pruned(r) == [requests |-> Fresh(r.requests), errors |-> Fresh(r.errors)]

\* tailDecision(): the outcome enters the window.
Counted(failed) ==
    LET r == [requests |-> Append(rings.requests, now),
              errors |-> IF failed THEN Append(rings.errors, now) ELSE rings.errors]
    IN  IF Len(r.requests) % PruneEvery = 0 THEN Pruned(r) ELSE r

\* checkAdaptiveTrigger()
Spiking(r) ==
    /\ Len(r.requests) > EnoughRequests
    /\ Len(r.errors) * 100 > ThresholdPercent * Len(r.requests)

\* A mutant of TailReason: an error is an error only if it was slow.
TailReasonSlow(head, failed, slow) ==
    IF Keeps(head) THEN head
    ELSE IF config.latency /\ slow THEN IF failed THEN "error" ELSE "latency"
    ELSE head

\* tailDecision(): only ever an upgrade.
TailReason(head, failed, slow) ==
    IF Keeps(head) THEN head
    ELSE IF config.errors /\ failed THEN "error"
    ELSE IF config.latency /\ slow THEN "latency"
    ELSE head

HeadDecision(route, sampledUpstream, lucky) ==
    /\ CouldWin(lucky)
    /\ seenPaths' = Claimed(route, HeadReason(route, sampledUpstream, lucky))
    /\ UNCHANGED <<now, config, rings, until, forces>>

\* A kept head skips the trigger, also when the request failed.
TailDecision(route, head, failed, slow) ==
    LET upgraded == ~Keeps(head) /\ config.errors /\ failed
        counted == Counted(failed)
    IN  /\ seenPaths' = WithPath(route)
        /\ rings' = IF upgraded /\ config.adaptive THEN Pruned(counted) ELSE counted
        /\ until' = IF upgraded /\ config.adaptive /\ Spiking(rings')
                    THEN now + OverrideFor ELSE until
        /\ UNCHANGED <<now, config, forces>>

\* getStats()
GetStats ==
    /\ rings' = Pruned(rings)
    /\ UNCHANGED <<now, config, seenPaths, until, forces>>

\* updateConfig(), by setSamplingRate() or updateSamplingConfig().
UpdateConfig ==
    /\ config' \in Configs
    /\ UNCHANGED <<now, seenPaths, rings, until, forces>>

\* forceRecord(): the timer will restore the rate it finds.
ForceRecord ==
    /\ Len(forces) < MaxForces
    /\ forces' = Append(forces, config.rate)
    /\ config' = [config EXCEPT !.rate = FullRate]
    /\ UNCHANGED <<now, seenPaths, rings, until>>

\* Such a timer fires; those of longer calls fire later.
ForceEnds ==
    /\ \E i \in DOMAIN forces :
          /\ config' = [config EXCEPT !.rate = forces[i]]
          /\ forces' = RemoveAt(forces, i)
    /\ UNCHANGED <<now, seenPaths, rings, until>>

\* The clock of the machine moves on, or is set back.
Tick ==
    /\ now' \in 0..MaxNow
    /\ UNCHANGED <<config, seenPaths, rings, until, forces>>

SamplingInit ==
    /\ now = 0
    /\ config \in Configs
    /\ seenPaths = {}
    /\ rings = [requests |-> <<>>, errors |-> <<>>]
    /\ until = 0
    /\ forces = <<>>

SamplingStep == GetStats \/ UpdateConfig \/ ForceRecord \/ ForceEnds \/ Tick

-----------------------------------------------------------------------------
\* Where a ring holds the time t.
At(ring, t) == {i \in DOMAIN ring : ring[i] = t}

\* The window never counts an error of which it lost the request, so the error
\* rate that adaptive sampling compares stays below one (sampling.ts prunes the
\* two rings separately, at moments of its own).
ErrorsAreRequests ==
    \A t \in ToSet(rings.errors) :
        Cardinality(At(rings.errors, t)) <= Cardinality(At(rings.requests, t))
=============================================================================

----------------------------- MODULE Licensing -----------------------------
(***************************************************************************)
(* A license from its sale to the process that it unlocks: the license     *)
(* server (module LicenseServer) signs, and whatever was sent, edited or   *)
(* damaged may lie in the places that are searched when a probe, a         *)
(* collector or the web UI starts.  They load a license once, then         *)
(* (probe/src/index.ts, collector/src/server.ts, ui/src/server.ts).        *)
(***************************************************************************)
EXTENDS LicenseServer

CONSTANTS
    Asked,      \* what licenses issued by hand ask for
    MaxByHand   \* bound: licenses issued by hand

Limit == Nat \cup {-1}

ASSUME LicensingConstants ==
    /\ MaxByHand \in Nat
    /\ \A asked \in Asked : {asked.maxServices, asked.maxEventsPerDay} \subseteq Limit

VARIABLES
    byHand,   \* how many licenses were issued by hand
    process,  \* licenseValidation of a process, or that it has not started yet
    since     \* history: when it started

licensingVars == <<serverVars, byHand, process, since>>

Down == [outcome |-> "down"]

\* Other hands than the server's change a payload, or sign it.
Forged(file) ==
    {[file EXCEPT !.payload.tier = t] : t \in Tier \cup {"gold"}}
        \cup {[file EXCEPT !.payload.expiresAt = @ + 1],
              [file EXCEPT !.payload.features = Enterprise],
              [file EXCEPT !.key = "other"]}

Content(p) ==
    {Nothing, Broken("text"), Broken("null")} \cup issued
        \cup (UNION {Forged(file) : file \in issued})
        \cup IF p = "inline" THEN {} ELSE {Unreadable}
        \cup IF p = "path" THEN {Missing} ELSE {}

LicensingTypeOK ==
    /\ LicenseServerTypeOK
    /\ byHand \in 0..MaxByHand
    /\ process.outcome = "ok" => process.tier \in Tier /\ process.features \subseteq Enterprise
    /\ since \in 0..MaxNow

Issue ==
    /\ byHand < MaxByHand
    /\ byHand' = byHand + 1
    /\ \E tier \in {"pro", "enterprise"}, asked \in Asked : IssueByHand(tier, asked)
    /\ UNCHANGED <<process, since>>

\* Bound: something lies in at most two of the places, and only one of them has
\* been tampered with.
Empty == [p \in Place |-> Nothing]

\* A process starts; it is followed from then on, and the next one would know
\* nothing of it.  An exception in loadLicense() ends it at once.
StartProcess ==
    /\ process = Down
    /\ \E p, q \in Place : \E file \in Content(p), other \in issued \cup {Nothing} :
           process' = LoadLicense([Empty EXCEPT ![p] = file, ![q] = other], now)
    /\ since' = now
    /\ UNCHANGED <<serverVars, byHand>>

LicensingInit ==
    /\ LicenseServerInit
    /\ byHand = 0
    /\ process = Down
    /\ since = 0

LicensingNext ==
    \/ LicenseServerStep /\ UNCHANGED <<byHand, process, since>>
    \/ Issue \/ StartProcess

LicensingSpec == LicensingInit /\ [][LicensingNext]_licensingVars

\* Stripe delivers until it gets its 200, mails end, and the webhook is
\* configured for good at some time.
FairLicensingSpec ==
    /\ LicensingSpec
    /\ \A h \in Handler : WF_licensingVars(Mailed(h) /\ UNCHANGED <<byHand, process, since>>)
    /\ \A e \in Event : SF_licensingVars(Stripe(e) /\ UNCHANGED <<byHand, process, since>>)

-----------------------------------------------------------------------------
Unlocked == process # Down /\ process.outcome = "ok" /\ process.tier # "community"

\* A process has the tier of a license that the server signed for it and that
\* was good when the process started, whatever was put, edited or signed
\* elsewhere.
UnlockedIsIssued ==
    Unlocked => \E file \in issued : /\ file.payload.tier = process.tier
                                     /\ file.payload.expiresAt >= since

\* No process has more than its tier: neither features of another, nor limits
\* above its own, nor "unlimited" where the tier has a limit.
WithinTier ==
    process # Down /\ process.outcome = "ok" =>
        LET limits == TIER_LIMITS[process.tier]
            Below(x, ceiling) == ceiling = -1 \/ (x >= 0 /\ x <= ceiling)
        IN  /\ process.features \subseteq TIER_FEATURES[process.tier]
            /\ Below(process.limits.maxServices, limits.maxServices)
            /\ Below(process.limits.maxEventsPerDay, limits.maxEventsPerDay)

\* Stripe is told in the end, unless the webhook is switched off or the server
\* forgets events as fast as they are delivered.
EventsEnd ==
    \A e \in Event :
        <>[](env.webhook) => <>(e \in acked \/ SumFunction(lapsed) = MaxLapses)
=============================================================================

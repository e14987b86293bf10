--------------------------- MODULE LicenseServer ---------------------------
(***************************************************************************)
(* The license server (license-server/src): Stripe's webhook with its set  *)
(* of processed events, and the free registrations with a counter for each *)
(* mailbox and each address.  Both sign a license, await the mail that     *)
(* carries it, and answer whether it was sent or not.                      *)
(*                                                                         *)
(* A request runs without interruption up to that await.  Stripe delivers  *)
(* an event again until it is answered with 200; it may stop waiting for   *)
(* an answer, so two deliveries of an event may be under way.  Everything  *)
(* the server remembers is in its memory.                                  *)
(***************************************************************************)
EXTENDS License, FiniteSets, Functions

CONSTANTS
    Event,            \* events of Stripe
    TypeOf,           \* "paid", "cancelled" or "other"
    TierOf,           \* the tier in the metadata of a paid event
    Reachable,        \* the events that name the customer's mail address
    Handler,          \* requests the server works on at once
    Mailbox,          \* mail addresses, normalised
    Address,          \* client addresses
    MaxIdempotency,   \* MAX_IDEMPOTENCY_SET
    MaxPerEmail,      \* MAX_FREE_PER_EMAIL
    MaxPerIp,         \* MAX_FREE_PER_IP
    MaxMapSize,       \* MAX_MAP_SIZE
    Ttl,              \* RATE_LIMIT_TTL
    MaxNow,           \* bound: time
    MaxLapses,        \* bound: events, mailboxes and addresses that the server forgets
    MaxRegistrations, \* bound: attempts to register
    MaxMails          \* bound: mails under way are given up by Stripe

ASSUME ServerConstants ==
    /\ TypeOf \in [Event -> {"paid", "cancelled", "other"}]
    /\ Reachable \subseteq Event
    /\ DOMAIN TierOf = Event
    /\ {MaxIdempotency, MaxPerEmail, MaxPerIp, MaxMapSize} \subseteq Nat \ {0}
    /\ Event \cap (Mailbox \cup Address) = {} /\ Mailbox \cap Address = {}
    /\ {Ttl, MaxNow, MaxLapses, MaxRegistrations, MaxMails} \subseteq Nat

VARIABLES
    now,        \* Date.now()
    env,        \* whether the webhook's and the signing keys are configured
    processed,  \* processedEventIds, oldest first
    emails,     \* freeRegistrations
    ips,        \* ipRegistrations
    handler,    \* requests that await their mail
    acked,      \* the events that Stripe got a 200 for
    issued,     \* history: the licenses that were signed
    made,       \* history: how many for each event, mailbox and address
    lapsed,     \* history: how often the server forgot one of those
    attempts,   \* how many registrations were tried
    givenUp     \* how often Stripe stopped waiting

memory == <<processed, emails, ips>>
history == <<issued, made, lapsed, attempts, givenUp>>
serverVars == <<now, env, memory, handler, acked, history>>

Counter == [count: Nat, lastAt: Nat]
Whom == Event \cup Mailbox \cup Address

Idle == [for |-> "nobody", event |-> FALSE]

LicenseServerTypeOK ==
    /\ now \in 0..MaxNow
    /\ env \in [webhook: BOOLEAN, signing: BOOLEAN]
    /\ processed \in Seq(Event) /\ Len(processed) <= MaxIdempotency
    /\ \A i, j \in DOMAIN processed : processed[i] = processed[j] => i = j
    /\ DOMAIN emails \subseteq Mailbox /\ DOMAIN ips \subseteq Address
    /\ Range(emails) \cup Range(ips) \subseteq Counter
    /\ \A h \in Handler : handler[h] = Idle \/ handler[h].for \in Event \cup Mailbox
    /\ acked \subseteq Event
    /\ made \in [Whom -> Nat] /\ lapsed \in [Whom -> Nat]
    /\ attempts \in 0..MaxRegistrations /\ givenUp \in 0..MaxMails

Remembered(seq) == {seq[i] : i \in DOMAIN seq}

Forgetting(who) == [w \in Whom |-> lapsed[w] + IF w \in who THEN 1 ELSE 0]
MayForget(who) == SumFunction(lapsed) + Cardinality(who) <= MaxLapses

-----------------------------------------------------------------------------
(***************************************************************************)
(* POST /api/webhook                                                       *)
(***************************************************************************)

\* The set of processed events once e is added.
WithEvent(e) ==
    Append(IF Len(processed) >= MaxIdempotency THEN Tail(processed) ELSE processed, e)

\* A mutant of Claim: the event is remembered when its license is sent.
ClaimLate(e) == UNCHANGED <<processed, lapsed>>

\* processEvent() remembers the event before it works on it.
Claim(e) ==
    LET dropped == IF Len(processed) >= MaxIdempotency THEN {Head(processed)} ELSE {}
    IN  /\ MayForget(dropped)
        /\ processed' = WithEvent(e)
        /\ lapsed' = Forgetting(dropped)

\* handleCheckoutCompleted() refuses an event without mail address, with a tier
\* it does not know (none is "pro"), and when nothing can be signed: 500.
Licensable(e) == /\ e \in Reachable
                 /\ TierOf[e] \in {"pro", "enterprise"}
                 /\ env.signing

\* A license is signed for who, and the handler h awaits the mail.
Sign(h, who, for, tier) ==
    /\ issued' = issued \cup {GenerateLicense(tier, NoOverrides, now)}
    /\ made' = [w \in Whom |-> made[w] + IF w \in who THEN 1 ELSE 0]
    /\ handler' = [handler EXCEPT ![h] = [for |-> for, event |-> for \in Event]]

\* Without its secret the webhook refuses everything: 500.
WebhookOff(e) ==
    /\ e \notin acked /\ ~env.webhook
    /\ UNCHANGED serverVars

\* A mutant of Duplicate: a known event is refused again.
DuplicateRefused(e) ==
    /\ e \notin acked /\ env.webhook /\ e \in Remembered(processed)
    /\ UNCHANGED serverVars

\* A known event: 200.
Duplicate(e) ==
    /\ e \notin acked /\ env.webhook /\ e \in Remembered(processed)
    /\ acked' = acked \cup {e}
    /\ UNCHANGED <<now, env, memory, handler, history>>

\* A new event.
Deliver(h, e) ==
    /\ e \notin acked /\ env.webhook /\ e \notin Remembered(processed)
    /\ handler[h] = Idle
    /\ Claim(e)
    /\ \/ /\ TypeOf[e] = "paid" /\ Licensable(e)
          /\ Sign(h, {e}, e, TierOf[e])
          /\ UNCHANGED acked
       \/ /\ TypeOf[e] = "paid" /\ ~Licensable(e)
          /\ UNCHANGED <<handler, acked, issued, made>>
       \/ /\ TypeOf[e] # "paid"
          /\ acked' = acked \cup {e}
          /\ UNCHANGED <<handler, issued, made>>
    /\ UNCHANGED <<now, env, emails, ips, attempts, givenUp>>

\* sendLicenseEmail() is over, with the mail sent or not: 200.
Mailed(h) ==
    /\ handler[h] # Idle
    /\ acked' = IF handler[h].event THEN acked \cup {handler[h].for} ELSE acked
    /\ handler' = [handler EXCEPT ![h] = Idle]
    /\ UNCHANGED <<now, env, memory, history>>

\* Stripe does not wait any longer; the handler goes on.
StripeGivesUp(h) ==
    /\ handler[h] # Idle /\ handler[h].event
    /\ givenUp < MaxMails
    /\ givenUp' = givenUp + 1
    /\ handler' = [handler EXCEPT ![h].event = FALSE]
    /\ UNCHANGED <<now, env, memory, acked, issued, made, lapsed, attempts>>

-----------------------------------------------------------------------------
(***************************************************************************)
(* POST /api/register-free                                                 *)
(***************************************************************************)

CountOf(map, k) == IF k \in DOMAIN map THEN map[k].count ELSE 0

Bump(map, k) == [x \in DOMAIN map \cup {k} |->
                   IF x = k THEN [count |-> CountOf(map, k) + 1, lastAt |-> now] ELSE map[x]]

\* A full map refuses whom it does not know (503); a counter at its limit
\* refuses (429).
Admits(m, a) ==
    /\ Cardinality(DOMAIN emails) >= MaxMapSize => m \in DOMAIN emails
    /\ Cardinality(DOMAIN ips) >= MaxMapSize => a \in DOMAIN ips
    /\ CountOf(ips, a) < MaxPerIp /\ CountOf(emails, m) < MaxPerEmail

\* A mutant of Register: nothing is counted before the await.
RegisterUncounted(h, m, a) ==
    /\ attempts < MaxRegistrations /\ handler[h] = Idle
    /\ attempts' = attempts + 1
    /\ Admits(m, a)
    /\ IF env.signing THEN Sign(h, {m, a}, m, "pro") ELSE UNCHANGED <<handler, issued, made>>
    /\ UNCHANGED <<now, env, memory, acked, lapsed, givenUp>>

\* Both counters are raised before the license is signed, and stay raised when
\* that fails (500).
Register(h, m, a) ==
    /\ attempts < MaxRegistrations /\ handler[h] = Idle
    /\ attempts' = attempts + 1
    /\ Admits(m, a)
    /\ emails' = Bump(emails, m) /\ ips' = Bump(ips, a)
    /\ IF env.signing THEN Sign(h, {m, a}, m, "pro") ELSE UNCHANGED <<handler, issued, made>>
    /\ UNCHANGED <<now, env, processed, acked, lapsed, givenUp>>

Outdated(map) == {k \in DOMAIN map : now - map[k].lastAt > Ttl}

\* The interval timer of the counters.
Cleanup ==
    LET gone == Outdated(emails) \cup Outdated(ips)
    IN  /\ gone # {} /\ MayForget(gone)
        /\ emails' = Restrict(emails, DOMAIN emails \ gone)
        /\ ips' = Restrict(ips, DOMAIN ips \ gone)
        /\ lapsed' = Forgetting(gone)
        /\ UNCHANGED <<now, env, processed, handler, acked, issued, made, attempts, givenUp>>

\* POST /api/generate-license, or generateLicense() called by hand.
IssueByHand(tier, asked) ==
    /\ env.signing
    /\ issued' = issued \cup {GenerateLicense(tier, asked, now)}
    /\ UNCHANGED <<now, env, memory, handler, acked, made, lapsed, attempts, givenUp>>

-----------------------------------------------------------------------------
\* The process dies; the next one may be configured otherwise.
ServerRestarts ==
    LET known == Remembered(processed) \cup DOMAIN emails \cup DOMAIN ips
    IN  /\ MayForget(known) /\ lapsed' = Forgetting(known)
        /\ env' \in [webhook: BOOLEAN, signing: BOOLEAN]
        /\ processed' = <<>> /\ emails' = <<>> /\ ips' = <<>>
        /\ handler' = [h \in Handler |-> Idle]
        /\ UNCHANGED <<now, acked, issued, made, attempts, givenUp>>

Tick ==
    /\ now < MaxNow
    /\ now' = now + 1
    /\ UNCHANGED <<env, memory, handler, acked, history>>

LicenseServerInit ==
    /\ now = 0
    /\ env \in [webhook: BOOLEAN, signing: BOOLEAN]
    /\ processed = <<>> /\ emails = <<>> /\ ips = <<>>
    /\ handler = [h \in Handler |-> Idle]
    /\ acked = {}
    /\ issued = {}
    /\ made = [w \in Whom |-> 0] /\ lapsed = [w \in Whom |-> 0]
    /\ attempts = 0 /\ givenUp = 0

Stripe(e) == WebhookOff(e) \/ Duplicate(e) \/ \E h \in Handler : Deliver(h, e)

LicenseServerStep ==
    \/ \E e \in Event : Stripe(e)
    \/ \E h \in Handler : \/ Mailed(h) \/ StripeGivesUp(h)
                          \/ \E m \in Mailbox, a \in Address : Register(h, m, a)
    \/ Cleanup \/ ServerRestarts \/ Tick

-----------------------------------------------------------------------------
\* An event is licensed once, however often Stripe delivers it and although
\* deliveries overlap, until the server forgets it (stripe-webhook.ts:
\* "prevent duplicate license generation on Stripe retries").
OneLicensePerEvent == \A e \in Event : made[e] <= 1 + lapsed[e]

\* Requests that overlap do not get past a counter together (index.ts:
\* "Increment counter BEFORE the await to prevent race condition").
QuotasHold ==
    /\ \A m \in Mailbox : made[m] <= MaxPerEmail * (1 + lapsed[m])
    /\ \A a \in Address : made[a] <= MaxPerIp * (1 + lapsed[a])

\* The counters are kept for a bounded number of keys (index.ts: "Hard cap to
\* prevent OOM").
MapsBounded ==
    Cardinality(DOMAIN emails) <= MaxMapSize /\ Cardinality(DOMAIN ips) <= MaxMapSize

\* What Stripe is told is done has been licensed, if it was paid for
\* (stripe-webhook.ts: "Return received:false so Stripe retries on transient
\* failures").
PaidIsLicensed ==
    \A e \in acked : TypeOf[e] = "paid" /\ e \in Reachable
                     /\ TierOf[e] \in {"pro", "enterprise"} => made[e] > 0
=============================================================================

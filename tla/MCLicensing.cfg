SPECIFICATION FairLicensingSpec
CONSTANTS
    Term = 0
    Place = {"inline", "cwd", "home"}
    Event = {"e1", "e2"}
    TypeOf <- MCTypeOf
    TierOf <- MCTierOf
    Reachable = {"e1", "e2"}
    Handler = {h1, h2}
    Mailbox = {m1, m2}
    Address = {a1}
    MaxIdempotency = 1
    MaxPerEmail = 1
    MaxPerIp = 2
    MaxMapSize = 1
    Ttl = 0
    MaxNow = 1
    MaxLapses = 2
    MaxRegistrations = 2
    MaxMails = 1
    Asked <- MCAsked
    MaxByHand = 1
INVARIANTS OneLicensePerEvent QuotasHold UnlockedIsIssued WithinTier
PROPERTIES EventsEnd
CHECK_DEADLOCK FALSE

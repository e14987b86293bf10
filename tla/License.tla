------------------------------ MODULE License ------------------------------
(***************************************************************************)
(* Licenses (core/src/license-types.ts, license-generator.ts,              *)
(* license-validator.ts): what the server signs, what a process makes of a *)
(* license file, and where it looks for one.                               *)
(*                                                                         *)
(* A signature is the payload it was made for and the key that made it, so *)
(* it holds for that payload and no other.  Features are represented by    *)
(* one or two of each tier; -1 stands for "unlimited" as in the code.      *)
(***************************************************************************)
EXTENDS Integers, Sequences

CONSTANTS Term,     \* durationDays, in units of time
          Place     \* the places searched: "inline", "path", then the standard paths

StandardPaths == <<"cwd", "cwd_alt", "home">>

ASSUME LicenseConstants ==
    /\ Term \in Nat
    /\ Place \subseteq {"inline", "path", "cwd", "cwd_alt", "home"}

Community == {"single_service_replay"}
Pro == Community \cup {"fs_interceptor", "database_interceptor"}
Enterprise == Pro \cup {"audit_log"}

TIER_FEATURES == [community |-> Community, pro |-> Pro, enterprise |-> Enterprise]

\* In tens of thousands of events.
TIER_LIMITS == [community |-> [maxServices |-> 1, maxEventsPerDay |-> 1],
                pro |-> [maxServices |-> -1, maxEventsPerDay |-> 100],
                enterprise |-> [maxServices |-> -1, maxEventsPerDay |-> -1]]

Tier == DOMAIN TIER_FEATURES

-----------------------------------------------------------------------------
\* What a caller asks for beside the tier; the license server asks for nothing.
NoOverrides == [features |-> {}, maxServices |-> -1, maxEventsPerDay |-> -1]

\* generateLicense(): features outside the tier are dropped, limits are taken as
\* they are.
GenerateLicense(tier, asked, now) ==
    LET payload == [version |-> 1, tier |-> tier,
                    features |-> IF asked = NoOverrides THEN TIER_FEATURES[tier]
                                 ELSE asked.features \cap TIER_FEATURES[tier],
                    maxServices |-> asked.maxServices,
                    maxEventsPerDay |-> asked.maxEventsPerDay,
                    expiresAt |-> now + Term]
    IN  [form |-> "license", payload |-> payload, signed |-> payload, key |-> "server"]

\* Text that is not JSON, the JSON value null, an object without its parts.
Broken(form) == [form |-> form]

\* A mutant of Verifies: the signature is not bound to the payload.
VerifiesKey(file) == file.key = "server"

\* verify() over the canonical JSON, with the embedded public key.
Verifies(file) == file.key = "server" /\ file.signed = file.payload

\* communityFallback()
Fallback(error) == [outcome |-> "ok", tier |-> "community", features |-> Community,
                    limits |-> TIER_LIMITS.community, error |-> error]

\* A mutant of ClampLimit: "unlimited" is a number like any other.
ClampLimitSigned(requested, ceiling) ==
    IF ceiling = -1 THEN requested
    ELSE IF requested <= ceiling THEN requested ELSE ceiling

ClampLimit(requested, ceiling) ==
    IF ceiling = -1 THEN requested
    ELSE IF requested = -1 THEN ceiling
    ELSE IF requested <= ceiling THEN requested ELSE ceiling

\* An empty list of features stands for those of the tier.
Granted(p) ==
    IF p.features = {} THEN TIER_FEATURES[p.tier]
    ELSE p.features \cap TIER_FEATURES[p.tier]

Expired(p, now) == p.expiresAt < now

\* validateLicense(): every check that fails gives the community tier, and the
\* property access on null throws.
ValidateLicense(file, now) ==
    LET p == file.payload
        limits == TIER_LIMITS[p.tier]
    IN  IF file.form = "null" THEN [Fallback(TRUE) EXCEPT !.outcome = "throws"]
        ELSE IF file.form # "license" THEN Fallback(TRUE)
        ELSE IF p.version # 1 \/ p.tier \notin Tier \/ ~Verifies(file) \/ Expired(p, now)
        THEN Fallback(TRUE)
        ELSE [outcome |-> "ok", tier |-> p.tier, features |-> Granted(p), error |-> FALSE,
              limits |-> [maxServices |-> ClampLimit(p.maxServices, limits.maxServices),
                          maxEventsPerDay |-> ClampLimit(p.maxEventsPerDay,
                                                         limits.maxEventsPerDay)]]

-----------------------------------------------------------------------------
\* What a place holds: nothing, a file or the value of the variable, or a file
\* that is too large or cannot be read.  ERGENEKON_LICENSE may name no file.
Nothing == [form |-> "none"]
Unreadable == [form |-> "unreadable"]
Missing == [form |-> "missing"]

\* A standard path whose file validates, throws nothing and is not skipped.
Usable(file) == file.form \notin {"none", "unreadable", "null"}

\* loadLicense(): the environment decides if it is set; of the standard paths
\* the first whose file can be read decides, valid or not.
LoadLicense(at, now) ==
    LET found == {i \in DOMAIN StandardPaths :
                    StandardPaths[i] \in Place /\ Usable(at[StandardPaths[i]])}
        first == CHOOSE i \in found : \A j \in found : i <= j
    IN  IF "inline" \in Place /\ at["inline"] # Nothing
        THEN ValidateLicense(at["inline"], now)
        ELSE IF "path" \in Place /\ at["path"] # Nothing
        THEN IF at["path"].form \in {"missing", "unreadable", "null"} THEN Fallback(TRUE)
             ELSE ValidateLicense(at["path"], now)
        ELSE IF found # {} THEN ValidateLicense(at[StandardPaths[first]], now)
        ELSE Fallback(FALSE)
=============================================================================

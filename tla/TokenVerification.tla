------------------------- MODULE TokenVerification -------------------------
(***************************************************************************)
(* The identity of a request: createOidcIntegrationActorResolver reads its *)
(* clock, Rs256OidcTokenVerifier asks CachedJwksRs256KeyProvider for the   *)
(* key of the token's kid, and the claims are judged at the clock read     *)
(* first.  The provider keeps the issuer's keys for a while, fetches them  *)
(* again when they expired or a kid is unknown, and lets every request     *)
(* that needs them wait for the one fetch in flight.                       *)
(*                                                                         *)
(* A promise that settles resumes those who await it before anything else  *)
(* runs: while a request is due, no other action is taken.                 *)
(***************************************************************************)
EXTENDS Integers, FiniteSets

CONSTANTS
    Kids,          \* keys of the issuer, by kid
    SigningKids,   \* those for RS256 signatures; others have another use
    MaxKeys,       \* maximumKeys
    Tokens,        \* [kid, iat, exp, client, roles, mfa]: issued tokens
    Bindings,      \* [client, roles]: OIDC_ALLOWED_BINDINGS
    CacheTtl,      \* cacheTtlSeconds
    MinInterval,   \* minimumRefreshIntervalSeconds
    FetchTimeout,  \* timeoutMs of the fetcher
    MaxTokenAge,   \* maxTokenAgeSeconds
    Skew,          \* maxClockSkewSeconds
    Callers,       \* requests under way at a time
    MaxOidcTime,   \* bound on the clock
    Nobody,        \* no request, no fetch
    Unprovisioned  \* a binding or a token without roles

(* What createRuntimeActorResolver accepts. A binding's client stands for  *)
(* its clientId, tenantId and purpose, of which there is one binding.      *)
SettingsAccepted ==
    /\ {CacheTtl, FetchTimeout, MaxTokenAge, Skew} \subseteq Nat \ {0}
    /\ MinInterval \in Nat
    /\ Bindings # {}
    /\ \A b \in Bindings : b.roles = Unprovisioned \/ b.roles # {}
    /\ \A b, c \in Bindings : b.client = c.client => b = c

Fetch == [now : Nat, began : Nat, answer : (SUBSET Kids) \cup {Nobody}]
Request == [token : Tokens, now : Nat, stage : {"stale", "unknown"},
            settled : {"no", "done", "failed"}]

(* By default the fetch times out after 2 seconds and keys live for 300.   *)
ASSUME OidcAssumption ==
    /\ SettingsAccepted
    /\ FetchTimeout < CacheTtl
    /\ SigningKids \subseteq Kids
    /\ {MaxKeys, MaxOidcTime} \subseteq Nat
    /\ \A t \in Tokens : t.kid \in Kids /\ {t.iat, t.exp} \subseteq Nat
    /\ Nobody \notin Fetch \cup Request
    /\ \A keys \in SUBSET Kids : Nobody # keys

VARIABLES
    oidcClock,  \* epoch seconds
    published,  \* the kids in the issuer's document
    withdrawn,  \* when a kid left the document, 0 when it did not
    cache,      \* keys
    cacheUntil, \* expiresAtEpochSeconds
    lastTry,    \* lastRefreshAttemptEpochSeconds
    flight,     \* refreshInFlight: the clock it was given, when it began, its answer
    caller,     \* requests under way
    grants      \* when a token was last accepted, 0 when it never was

oidcVars == <<oidcClock, published, withdrawn, cache, cacheUntil, lastTry, flight,
              caller, grants>>

OidcInit ==
    /\ oidcClock = 1
    /\ published \in (SUBSET Kids) \ {{}}
    /\ withdrawn = [k \in Kids |-> 0]
    /\ cache = {}
    /\ cacheUntil = 0
    /\ lastTry = 0
    /\ flight = Nobody
    /\ caller = [c \in Callers |-> Nobody]
    /\ grants = [t \in Tokens |-> 0]

Due == {c \in Callers : caller[c] # Nobody /\ caller[c].settled # "no"}

(* refresh: whoever comes while a fetch is in flight awaits that one.      *)
refresh(now) ==
    IF flight # Nobody
      THEN UNCHANGED <<flight, lastTry>>
      ELSE /\ flight' = [now |-> now, began |-> oidcClock, answer |-> Nobody]
           /\ lastTry' = now

Awaits(c, t, now, stage) ==
    caller' = [caller EXCEPT ![c] =
                 [token |-> t, now |-> now, stage |-> stage, settled |-> "no"]]

Gone(c) == caller' = [caller EXCEPT ![c] = Nobody]

(* trustedRoles: a binding without roles admits no role claim, one with    *)
(* roles requires a claim within them.                                     *)
trustedRoles(b, t) ==
    IF b.roles = Unprovisioned THEN t.roles = Unprovisioned
    ELSE t.roles # Unprovisioned /\ t.roles # {} /\ t.roles \subseteq b.roles

(* The claims of a token with a valid signature, judged at now.            *)
resolveTrustedIntegrationPrincipal(t, now) ==
    /\ \E b \in Bindings : b.client = t.client /\ trustedRoles(b, t)
    /\ t.iat =< now + Skew
    /\ t.exp > now - Skew
    /\ now - t.iat =< MaxTokenAge + Skew
    /\ t.mfa

(* verifyBearerToken has its key, or is told there is none.                *)
Conclude(c, t, now) ==
    /\ Gone(c)
    /\ grants' = IF t.kid \in cache /\ resolveTrustedIntegrationPrincipal(t, now)
                   THEN [grants EXCEPT ![t] = oidcClock] ELSE grants

(* An unknown kid does not cause a fetch right after another one.          *)
Throttled(now) == now - lastTry < MinInterval

(* resolveRs256PublicKey once the cache is believed to be fresh.           *)
LookUp(c, t, now) ==
    IF t.kid \in cache \/ Throttled(now)
      THEN Conclude(c, t, now) /\ UNCHANGED <<flight, lastTry>>
      ELSE refresh(now) /\ Awaits(c, t, now, "unknown") /\ UNCHANGED grants

Stale(now) == cache = {} \/ now >= cacheUntil

Resolve(c, t) ==
    /\ Due = {}
    /\ caller[c] = Nobody
    /\ IF Stale(oidcClock)
         THEN refresh(oidcClock) /\ Awaits(c, t, oidcClock, "stale") /\ UNCHANGED grants
         ELSE LookUp(c, t, oidcClock)
    /\ UNCHANGED <<oidcClock, published, withdrawn, cache, cacheUntil>>

(* A caller whose awaited fetch settled goes on, with the clock it read.   *)
Resume(c) ==
    /\ c \in Due
    /\ LET q == caller[c] IN
       \/ /\ q.settled = "failed"
          /\ Gone(c)
          /\ UNCHANGED <<flight, lastTry, grants>>
       \/ /\ q.settled = "done" /\ q.stage = "stale"
          /\ LookUp(c, q.token, q.now)
       \/ /\ q.settled = "done" /\ q.stage = "unknown"
          /\ Conclude(c, q.token, q.now)
          /\ UNCHANGED <<flight, lastTry>>
    /\ UNCHANGED <<oidcClock, published, withdrawn, cache, cacheUntil>>

Settle(how) ==
    /\ flight' = Nobody
    /\ caller' = [c \in Callers |-> IF caller[c] = Nobody THEN Nobody
                                    ELSE [caller[c] EXCEPT !.settled = how]]

(* The issuer answers fetchJwks with the document it publishes.            *)
Serve ==
    /\ Due = {}
    /\ flight # Nobody
    /\ flight.answer = Nobody
    /\ flight' = [flight EXCEPT !.answer = published]
    /\ UNCHANGED <<oidcClock, published, withdrawn, cache, cacheUntil, lastTry,
                   caller, grants>>

(* parseJwks keeps the keys for RS256 verification and refuses a document  *)
(* with too many entries or with none it can use.                          *)
parseJwks(document) == document \cap SigningKids

Parses(document) == Cardinality(document) =< MaxKeys /\ parseJwks(document) # {}

(* A mutant: the keys are kept from the time they arrive.                  *)
performRefresh_FromArrival ==
    /\ Due = {}
    /\ flight # Nobody
    /\ flight.answer # Nobody
    /\ Parses(flight.answer)
    /\ cache' = parseJwks(flight.answer)
    /\ cacheUntil' = oidcClock + CacheTtl
    /\ Settle("done")
    /\ UNCHANGED <<oidcClock, published, withdrawn, lastTry, grants>>

(* The document arrives: its keys replace the cached ones and count from   *)
(* when they were asked for.                                               *)
performRefresh ==
    /\ Due = {}
    /\ flight # Nobody
    /\ flight.answer # Nobody
    /\ Parses(flight.answer)
    /\ cache' = parseJwks(flight.answer)
    /\ cacheUntil' = flight.now + CacheTtl
    /\ Settle("done")
    /\ UNCHANGED <<oidcClock, published, withdrawn, lastTry, grants>>

(* The fetch fails or times out, or its document is refused.               *)
RefreshFails ==
    /\ Due = {}
    /\ flight # Nobody
    /\ Settle("failed")
    /\ UNCHANGED <<oidcClock, published, withdrawn, cache, cacheUntil, lastTry,
                   grants>>

(* The issuer withdraws a key, having published another.                   *)
RotateKeys(old, new) ==
    /\ Due = {}
    /\ old \in published
    /\ new \notin published
    /\ withdrawn[new] = 0
    /\ published' = (published \ {old}) \cup {new}
    /\ withdrawn' = [withdrawn EXCEPT ![old] = oidcClock]
    /\ UNCHANGED <<oidcClock, cache, cacheUntil, lastTry, flight,
                   caller, grants>>

OidcTick ==
    /\ Due = {}
    /\ oidcClock < MaxOidcTime
    /\ flight # Nobody => oidcClock < flight.began + FetchTimeout
    /\ oidcClock' = oidcClock + 1
    /\ UNCHANGED <<published, withdrawn, cache, cacheUntil, lastTry, flight,
                   caller, grants>>

OidcNext ==
    \/ \E c \in Callers : (\E t \in Tokens : Resolve(c, t)) \/ Resume(c)
    \/ Serve \/ performRefresh \/ RefreshFails
    \/ \E old, new \in Kids : RotateKeys(old, new)
    \/ OidcTick

OidcSpec == OidcInit /\ [][OidcNext]_oidcVars

-----------------------------------------------------------------------------
(* Properties                                                              *)

(* A key is trusted for less than CacheTtl after the issuer withdrew it,   *)
(* however fetches, waits and the failure of fetches interleave.           *)
WithdrawnIsForgotten ==
    \A t \in Tokens : withdrawn[t.kid] # 0 =>
                         grants[t] < withdrawn[t.kid] + CacheTtl

(* A token is accepted at most Skew and the two fetches a request may      *)
(* await after it expired, although its expiry is judged at the clock the  *)
(* request read first.                                                     *)
ExpiryIsMet ==
    \A t \in Tokens : grants[t] # 0 => grants[t] < t.exp + Skew + 2 * FetchTimeout

(* Trust lapses: neither a withdrawn key nor an expired token is accepted  *)
(* for longer than the cache and the waiting for fetches account for       *)
(* (resolveRs256PublicKey).                                                *)
TrustLapses == WithdrawnIsForgotten /\ ExpiryIsMet
=============================================================================

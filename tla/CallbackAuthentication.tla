----------------------- MODULE CallbackAuthentication -----------------------
(***************************************************************************)
(* verifyCallbackHmac and PostgresCallbackReplayStore: a partner's signed  *)
(* callback is checked for freshness and then claims its nonce in          *)
(* PostgreSQL.  Check and claim are apart: the verifier reads its clock,   *)
(* awaits a connection and claims when it gets one.  Meanwhile others      *)
(* claim, time passes and maintenance prunes expired nonces.               *)
(*                                                                         *)
(* Callbacks are authentic ones; a wrong signature is refused before any   *)
(* state is touched.                                                       *)
(***************************************************************************)
EXTENDS Integers

CONSTANTS
    Verifiers,      \* requests being verified, in any number of processes
    Callbacks,      \* records [profile, nonce, timestamp]: signed callbacks
    MaxAge,         \* maxAgeSeconds
    MaxFutureSkew,  \* maxFutureSkewSeconds
    Drift,          \* how far a verifier's clock is off the database's
    MaxAuthTime,    \* bound on the clock
    NoCallback

ASSUME WindowAssumption ==
    /\ MaxAge \in Nat \ {0}
    /\ MaxFutureSkew \in Nat
    /\ Drift \in Nat
    /\ MaxAuthTime \in Nat
    /\ NoCallback \notin Callbacks
    /\ \A c \in Callbacks : c.timestamp \in Nat \ {0}

VARIABLES
    authClock, \* the database's now(), in seconds
    nonces,    \* integration_callback_nonces
    checking,  \* the callback a verifier found fresh and is about to claim
    accepted   \* how often a callback was let through

authVars == <<authClock, nonces, checking, accepted>>

expiresAt(c) == c.timestamp + MaxAge + MaxFutureSkew

NonceRow(c) ==
    [profile |-> c.profile, nonce |-> c.nonce, expiresAt |-> expiresAt(c)]

CallbackInit ==
    /\ authClock = 1
    /\ nonces = {}
    /\ checking = [v \in Verifiers |-> NoCallback]
    /\ accepted = [c \in Callbacks |-> 0]

(* A mutant: a callback from the future passes.                            *)
Fresh_AnyFuture(c, now) ==
    /\ now > 0
    /\ now - c.timestamp =< MaxAge
    /\ expiresAt(c) > now

(* What a verifier whose clock reads now lets pass to the claim.           *)
Fresh(c, now) ==
    /\ now > 0
    /\ now - c.timestamp =< MaxAge
    /\ c.timestamp - now =< MaxFutureSkew
    /\ expiresAt(c) > now

CheckFresh(v, c) ==
    /\ checking[v] = NoCallback
    /\ \E now \in (authClock - Drift) .. (authClock + Drift) : Fresh(c, now)
    /\ checking' = [checking EXCEPT ![v] = c]
    /\ UNCHANGED <<authClock, nonces, accepted>>

(* A mutant: ON CONFLICT DO UPDATE, so that a known nonce yields a row too. *)
Claimable_Again(c) == expiresAt(c) > authClock

(* INSERT ... ON CONFLICT DO NOTHING adds a row: the key is new, and the   *)
(* constraint expires_at > claimed_at holds at the database's now().       *)
Claimable(c) ==
    /\ \A n \in nonces : ~ (n.profile = c.profile /\ n.nonce = c.nonce)
    /\ expiresAt(c) > authClock

Claim(v) ==
    /\ checking[v] # NoCallback
    /\ LET c == checking[v] IN
       IF Claimable(c)
         THEN /\ nonces' = nonces \cup {NonceRow(c)}
              /\ accepted' = [accepted EXCEPT ![c] = @ + 1]
         ELSE UNCHANGED <<nonces, accepted>>
    /\ checking' = [checking EXCEPT ![v] = NoCallback]
    /\ UNCHANGED authClock

(* The store fails, before or after the row was written: the callback is   *)
(* refused.                                                                *)
ClaimFails(v) ==
    /\ checking[v] # NoCallback
    /\ \/ UNCHANGED nonces
       \/ Claimable(checking[v]) /\ nonces' = nonces \cup {NonceRow(checking[v])}
    /\ checking' = [checking EXCEPT ![v] = NoCallback]
    /\ UNCHANGED <<authClock, accepted>>

(* Maintenance deletes expired nonces; no code of the repository does.     *)
Prune(n) ==
    /\ n.expiresAt =< authClock
    /\ nonces' = nonces \ {n}
    /\ UNCHANGED <<authClock, checking, accepted>>

AuthTick ==
    /\ authClock < MaxAuthTime
    /\ authClock' = authClock + 1
    /\ UNCHANGED <<nonces, checking, accepted>>

CallbackNext ==
    \/ \E v \in Verifiers : \/ \E c \in Callbacks : CheckFresh(v, c)
                            \/ Claim(v)
                            \/ ClaimFails(v)
    \/ \E n \in nonces : Prune(n)
    \/ AuthTick

CallbackSpec == CallbackInit /\ [][CallbackNext]_authVars

-----------------------------------------------------------------------------
(* Properties                                                              *)

(* A signed callback is let through at most once, however it is repeated,  *)
(* delayed between check and claim, or its nonce pruned in between, and    *)
(* however far the verifiers' clocks are off the database's.               *)
AcceptedOnce == \A c \in Callbacks : accepted[c] =< 1

(* A callback is let through only around its timestamp by the database's   *)
(* clock, although the verifier reads its own, and reads it before it      *)
(* waits for the claim.                                                    *)
AcceptedInTime ==
    [][\A c \in Callbacks :
          accepted'[c] # accepted[c] =>
              /\ c.timestamp - MaxFutureSkew - Drift =< authClock
              /\ authClock < c.timestamp + MaxAge + MaxFutureSkew]_authVars

=============================================================================

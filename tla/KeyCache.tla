------------------------------- MODULE KeyCache -------------------------------
(***************************************************************************)
(* The identity provider's signing keys as the web process caches them:    *)
(* requests look a key up, one of them at a time refreshes the set, a      *)
(* failed refresh is not repeated for a while and a known key survives it  *)
(* for a bounded time.  The readiness probe shares the cache and the lock. *)
(*                                                                         *)
(* Source: backend/oidc_verifier.py (OIDCVerifier).                        *)
(*                                                                         *)
(* Time is counted in ticks and only ages are kept, none beyond the limit  *)
(* it is compared with.  A success raises refresh_attempt_serial and the   *)
(* cache's generation together, so a waiter needs one flag for both: some  *)
(* attempt has ended since it looked.                                      *)
(***************************************************************************)
EXTENDS Integers, Sequences, FiniteSets

CONSTANTS
  Requests,   \* requests that verify a token
  Probes,     \* readiness probes
  Kids,       \* key identifiers
  TTL,        \* cache_ttl_seconds
  MaxStale,   \* max_stale_seconds
  RetryAfter, \* refresh_failure_retry_seconds
  Cooldown,   \* unknown_kid_refresh_cooldown_seconds
  MaxFlight   \* bound: ticks a refresh lasts

Callers == Requests \cup Probes

VARIABLES
  published, \* the keys the provider signs with
  gone,      \* ticks since each key was withdrawn
  cache,     \* the JWKSCache: its keys and its age; age -1 if there is none
  outcome,   \* last_refresh_outcome
  failed,    \* ticks since the last failed refresh completed
  unknownAt, \* ticks since the last refresh for an unknown key completed
  lock,      \* the asyncio.Lock: its holder, then its waiters
  call,      \* per caller: where it is and what it found
  flight     \* the refresh in progress: its age and the answer, once given

vars == <<published, gone, cache, outcome, failed, unknownAt, lock, call, flight>>

Horizon == MaxStale + MaxFlight + 1

Idle == [pc |-> "idle", kid |-> "none", unknown |-> FALSE, moved |-> FALSE,
         result |-> "none"]

NoFlight == [age |-> 0, answer |-> {}]

Init ==
  /\ published \in SUBSET Kids \ {{}}
  /\ gone = [k \in Kids |-> IF k \in published THEN 0 ELSE Horizon]
  /\ cache = [keys |-> {}, age |-> -1]
  /\ outcome = "none"
  /\ failed = RetryAfter
  /\ unknownAt = Cooldown
  /\ lock = <<>>
  /\ call = [c \in Callers |-> Idle]
  /\ flight = NoFlight

-----------------------------------------------------------------------------

Cached == cache.age >= 0

Fresh == Cached /\ cache.age < TTL

Stale == Cached /\ cache.age <= MaxStale

\* _failure_retry_active.
RetryActive == outcome = "failure" /\ failed < RetryAfter

Leave(c, result) ==
  /\ lock' = Tail(lock)
  /\ call' = [call EXCEPT ![c] = [Idle EXCEPT !.kid = call[c].kid,
                                              !.result = result]]

\* A refresh attempt ends: everybody who waits has observed an older one.
AttemptEnds(c, result) ==
  /\ lock' = Tail(lock)
  /\ call' = [d \in Callers |->
                IF d = c THEN [Idle EXCEPT !.kid = call[c].kid,
                                           !.result = result]
                ELSE IF call[d].pc = "wait" THEN [call[d] EXCEPT !.moved = TRUE]
                ELSE call[d]]
  /\ flight' = NoFlight

\* signing_key up to the lock.
SigningKey(c, k) ==
  /\ call[c].pc = "idle"
  /\ IF Fresh /\ k \in cache.keys
     THEN /\ call' = [call EXCEPT ![c] = [Idle EXCEPT !.kid = k,
                                                      !.result = "key"]]
          /\ UNCHANGED lock
     ELSE /\ call' = [call EXCEPT ![c] = [Idle EXCEPT !.pc = "wait", !.kid = k,
                                            !.unknown = Cached
                                                        /\ k \notin cache.keys]]
          /\ lock' = Append(lock, c)
  /\ UNCHANGED <<published, gone, cache, outcome, failed, unknownAt, flight>>

\* ensure_ready up to the lock.
EnsureReady(c) ==
  /\ call[c].pc = "idle"
  /\ IF Fresh
     THEN /\ call' = [call EXCEPT ![c] = [Idle EXCEPT !.result = "ready"]]
          /\ UNCHANGED lock
     ELSE /\ call' = [call EXCEPT ![c] = [Idle EXCEPT !.pc = "wait"]]
          /\ lock' = Append(lock, c)
  /\ UNCHANGED <<published, gone, cache, outcome, failed, unknownAt, flight>>

Granted(c) == call[c].pc = "wait" /\ lock[1] = c

Fetch(c) ==
  /\ call' = [call EXCEPT ![c].pc = "fetch"]
  /\ UNCHANGED lock

\* _key_after_concurrent_refresh, for a caller that waited through one.
KeyAfterRefresh(k) ==
  IF Fresh /\ k \in cache.keys THEN "key"
  ELSE IF outcome = "success" THEN "invalid"
  ELSE IF Stale /\ k \in cache.keys THEN "key"
  ELSE "unavailable"

\* _cached_key_before_fetch.
KeyBeforeFetch(k, unknown) ==
  IF Fresh /\ k \in cache.keys THEN "key"
  ELSE IF RetryActive
  THEN IF Stale /\ k \in cache.keys THEN "key" ELSE "unavailable"
  ELSE IF unknown /\ unknownAt < Cooldown
  THEN IF outcome = "success" THEN "invalid" ELSE "unavailable"
  ELSE "fetch"

\* signing_key inside the lock, up to the request it may send.
EnterSigning(c) ==
  /\ c \in Requests /\ Granted(c)
  /\ LET found == IF call[c].moved THEN KeyAfterRefresh(call[c].kid)
                  ELSE KeyBeforeFetch(call[c].kid, call[c].unknown)
     IN IF found = "fetch" THEN Fetch(c) ELSE Leave(c, found)
  /\ UNCHANGED <<published, gone, cache, outcome, failed, unknownAt, flight>>

EnterReady(c) ==
  /\ c \in Probes /\ Granted(c)
  /\ IF Fresh THEN Leave(c, "ready")
     ELSE IF RetryActive
     THEN Leave(c, IF Stale THEN "ready" ELSE "unavailable")
     ELSE Fetch(c)
  /\ UNCHANGED <<published, gone, cache, outcome, failed, unknownAt, flight>>

\* The provider answers the refresh with the keys it has at that moment.
Answer(c) ==
  /\ call[c].pc = "fetch" /\ flight.answer = {}
  /\ flight' = [flight EXCEPT !.answer = published]
  /\ UNCHANGED <<published, gone, cache, outcome, failed, unknownAt, lock, call>>

\* _fetch succeeds: the cache is replaced and the caller is answered from it.
FetchSucceeds(c) ==
  /\ call[c].pc = "fetch" /\ flight.answer /= {}
  /\ cache' = [keys |-> flight.answer, age |-> 0]
  /\ outcome' = "success"
  /\ failed' = RetryAfter
  /\ unknownAt' = IF call[c].unknown THEN 0 ELSE unknownAt
  /\ AttemptEnds(c, IF c \in Probes THEN "ready"
                    ELSE IF call[c].kid \in flight.answer THEN "key"
                    ELSE "invalid")
  /\ UNCHANGED <<published, gone>>

\* _fetch fails, or the probe's own time limit passes: the failure is
\* recorded and a key or a set that is not too old is used all the same.
FetchFails(c) ==
  /\ call[c].pc = "fetch"
  /\ outcome' = "failure"
  /\ failed' = 0
  /\ unknownAt' = IF call[c].unknown THEN 0 ELSE unknownAt
  /\ AttemptEnds(c, IF c \in Probes
                    THEN IF Stale THEN "ready" ELSE "unavailable"
                    ELSE IF Stale /\ call[c].kid \in cache.keys THEN "key"
                    ELSE "unavailable")
  /\ UNCHANGED <<published, gone, cache>>

\* Fault: the lock stays with the probe that was cancelled.
ProbeCancelledHolding(c) ==
  /\ c \in Probes /\ call[c].pc \in {"wait", "fetch"}
  /\ call' = [call EXCEPT ![c] = [Idle EXCEPT !.result = "cancelled"]]
  /\ flight' = IF call[c].pc = "fetch" THEN NoFlight ELSE flight
  /\ lock' = IF call[c].pc = "fetch" THEN lock
             ELSE SelectSeq(lock, LAMBDA d : d /= c)
  /\ UNCHANGED <<published, gone, cache, outcome, failed, unknownAt>>

\* The health check's outer limit cancels the probe, waiting or fetching;
\* nothing is recorded.
ProbeCancelled(c) ==
  /\ c \in Probes /\ call[c].pc \in {"wait", "fetch"}
  /\ call' = [call EXCEPT ![c] = [Idle EXCEPT !.result = "cancelled"]]
  /\ flight' = IF call[c].pc = "fetch" THEN NoFlight ELSE flight
  /\ lock' = SelectSeq(lock, LAMBDA d : d /= c)
  /\ UNCHANGED <<published, gone, cache, outcome, failed, unknownAt>>

\* The provider changes its keys; it always has one.
Rotate ==
  /\ \E keys \in SUBSET Kids \ {{}} :
       /\ published' = keys
       /\ gone' = [k \in Kids |-> IF k \in published \cup keys THEN 0
                                  ELSE gone[k]]
  /\ published' /= published
  /\ UNCHANGED <<cache, outcome, failed, unknownAt, lock, call, flight>>

Least(m, n) == IF m < n THEN m ELSE n

\* A tick passes.  A caller that can take the lock does so at once.
Tick ==
  /\ \A c \in Callers : ~ (lock /= <<>> /\ Granted(c))
  /\ flight.age < MaxFlight \/ lock = <<>>
  /\ gone' = [k \in Kids |-> IF k \in published THEN 0
                             ELSE Least(gone[k] + 1, Horizon)]
  /\ cache' = IF Cached THEN [cache EXCEPT !.age = Least(@ + 1, MaxStale + 1)]
              ELSE cache
  /\ failed' = Least(failed + 1, RetryAfter)
  /\ unknownAt' = Least(unknownAt + 1, Cooldown)
  /\ flight' = IF lock = <<>> THEN flight ELSE [flight EXCEPT !.age = @ + 1]
  /\ UNCHANGED <<published, outcome, lock, call>>

Enter(c) == EnterSigning(c) \/ EnterReady(c)

FetchEnds(c) == FetchSucceeds(c) \/ FetchFails(c)

Next ==
  \/ \E c \in Requests, k \in Kids : SigningKey(c, k)
  \/ \E c \in Probes : EnsureReady(c) \/ ProbeCancelled(c)
  \/ \E c \in Callers : (lock /= <<>> /\ Enter(c)) \/ Answer(c) \/ FetchEnds(c)
  \/ Rotate
  \/ Tick

Spec == Init /\ [][Next]_vars

-----------------------------------------------------------------------------

TypeOK ==
  /\ published \subseteq Kids /\ gone \in [Kids -> 0 .. Horizon]
  /\ cache.keys \subseteq Kids /\ cache.age \in -1 .. MaxStale + 1
  /\ (cache.keys = {}) = (cache.age = -1)
  /\ outcome \in {"none", "success", "failure"}
  /\ failed \in 0 .. RetryAfter /\ unknownAt \in 0 .. Cooldown
  /\ \A c \in Callers :
       (call[c].pc /= "idle") = (\E i \in 1 .. Len(lock) : lock[i] = c)
  /\ flight /= NoFlight => lock /= <<>> /\ call[lock[1]].pc = "fetch"

\* signing_key accepts a key the provider withdrew for no longer than
\* max_stale_seconds and one refresh after the withdrawal, whatever fails.
WithdrawnKeyExpires ==
  \A c \in Requests :
    call'[c] /= call[c] /\ call'[c].result = "key" =>
      gone[call'[c].kid] < Horizon

\* The refresh is single-flight: a caller sends a request only if no attempt
\* has ended since it looked at the cache, and not in the pause after a
\* failure.
OneRefreshPerMiss ==
  \A c \in Requests :
    call[c].pc /= "fetch" /\ call'[c].pc = "fetch" =>
      ~ call[c].moved /\ ~ RetryActive

\* An outage of the provider does not refuse a request whose key is cached
\* and not too old.
KnownKeySurvivesOutage ==
  \A c \in Requests :
    /\ call[c].pc /= "idle" /\ call'[c].pc = "idle"
    /\ call'[c].result = "unavailable"
    => ~ (Stale /\ call[c].kid \in cache.keys)

=============================================================================

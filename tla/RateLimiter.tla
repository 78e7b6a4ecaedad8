---------------------------- MODULE RateLimiter ----------------------------
(***************************************************************************)
(* The bounded caches of token buckets behind the three HTTP limiters:     *)
(* keyedRateLimiter (internal/mcp/keyedrate.go), which the per-client and  *)
(* the anonymous limiter wrap, and IPFailRateLimiter (failrate.go), its    *)
(* twin with a peek and a penalty.  A cache is a map from keys to the      *)
(* bucket's address and the time it was last used; a caller keeps the      *)
(* address after the lock is released, so a bucket may be dropped from     *)
(* the map while somebody still holds it.                                  *)
(*                                                                         *)
(* Time advances in ticks, the time in which a bucket gains one token.     *)
(***************************************************************************)
EXTENDS Integers, FiniteSets, Functions

CONSTANTS
    Ids,        \* addresses of buckets
    Burst,      \* Burst[l]: the capacity of the buckets of limiter l
    MaxKeys,    \* maxKeys, maxIPs: the cap of a map
    IdleTTL     \* idleTTL, in ticks

Limiters == {"fail", "anon", "client"}

ASSUME RateLimiterAssumption ==
    /\ Ids \subseteq Nat \ {0}
    /\ Burst \in [Limiters -> Nat \ {0}]
    /\ MaxKeys \in Nat \ {0}
    \* A bucket left alone for the idle time is full again.
    /\ IdleTTL \in Nat
    /\ \A l \in Limiters : IdleTTL >= Burst[l]

\* A map without buckets.
EmptyMap == [k \in {} |-> 0]

\* The addresses a map refers to.
Mapped(map) == {map[k].id : k \in DOMAIN map}

\* The keys evictLRULocked may pick: nobody was used longer ago.  Ties are
\* broken by the iteration order of a Go map, that is, anyhow.
evictLRULocked(map) ==
    {k \in DOMAIN map : \A j \in DOMAIN map : map[k].last <= map[j].last}

\* The maps limiterFor (getLimiter) may leave behind for a key, at a time,
\* with `fresh` the address of the bucket it would create.
limiterFor(map, key, now, fresh) ==
    IF key \in DOMAIN map
    THEN {[map EXCEPT ![key].last = now]}
    ELSE LET Put(m) == [k \in DOMAIN m \cup {key} |->
                            IF k = key THEN [id |-> fresh, last |-> now] ELSE m[k]]
         IN  IF Cardinality(DOMAIN map) >= MaxKeys
             THEN {Put(Restrict(map, DOMAIN map \ {k})) : k \in evictLRULocked(map)}
             ELSE {Put(map)}

\* The keys that lost their bucket between two maps.
Dropped(before, after) == DOMAIN before \ DOMAIN after

\* Mutation: the idle time is added to the cutoff instead of taken off.
sweepAhead(map, now) == {k \in DOMAIN map : map[k].last < now + IdleTTL}

\* The keys the janitor's sweep deletes: last used before the cutoff.
sweep(map, now) == {k \in DOMAIN map : map[k].last + IdleTTL < now}

\* rate.Limiter.Allow on a bucket with this many tokens: what it answers and
\* what is left.
Allows(tokens) == tokens >= 1
AfterAllow(tokens) == IF tokens >= 1 THEN tokens - 1 ELSE tokens

\* One tick of refill.
Refilled(l, tokens) == IF tokens < Burst[l] THEN tokens + 1 ELSE tokens
=============================================================================

----------------------------- MODULE TokenCache -----------------------------
(***************************************************************************)
(* TokenCache of src/unnamed/part_000 (Set, Get, Delete, Cleanup) over its *)
(* own Cache, used at once by the handlers of several requests.            *)
(*                                                                         *)
(* Cache (NewCache) is not in src/.  It is modelled from the spec as a     *)
(* mutex-guarded map from a key to a value and an absolute expiry.  So are *)
(* the handlers around the cache: a request looks its token up, validates  *)
(* the token on a miss and stores the claims.  A logout or revocation      *)
(* deletes a token, and the owner's periodic sweep calls Cleanup.          *)
(***************************************************************************)
EXTENDS Naturals

CONSTANTS
    Requests,       \* handlers using the cache at once
    Tokens,         \* raw token strings
    Claims,         \* claims maps (map[string]interface{}), nil included
    TTLs,           \* expirations the handlers pass to Set
    MaxTime,        \* bound on the clock
    MaxRevocations  \* bound on the Deletes of one token

ASSUME TokenCacheAssumption ==
    /\ Tokens # {}
    /\ TTLs \subseteq Nat
    /\ MaxTime \in Nat
    /\ MaxRevocations \in Nat

\* `"t-" + token`: the cache key of a token, distinct from the token itself.
Key(t) == <<"t-", t>>
CacheKeys == Tokens \cup {Key(t) : t \in Tokens}

NoEntry == [none |-> TRUE]
CacheEntry == [val : Claims, exp : Nat]
Miss == [found |-> FALSE]
Hit == [found : {TRUE}, claims : Claims]
NoReply == [replied |-> FALSE]

VARIABLES
    cache,      \* the Cache: key -> [val, exp] or NoEntry
    now,        \* the clock
    got,        \* got[r]: what r's TokenCache.Get returned, until r is done
    pc,         \* pc[r]: "idle", "validating" after a miss, or "done"
    tok,        \* tok[r]: the token r validates
    epoch,      \* epoch[t]: the Deletes of t so far (history)
    seenEpoch,  \* seenEpoch[r]: epoch[tok[r]] when r's lookup missed
    setEpoch    \* setEpoch[t]: seenEpoch of the validation that stored t

vars == <<cache, now, got, pc, tok, epoch, seenEpoch, setEpoch>>

TypeOK ==
    /\ cache \in [CacheKeys -> CacheEntry \cup {NoEntry}]
    /\ now \in 0..MaxTime
    /\ got \in [Requests -> Hit \cup {Miss, NoReply}]
    /\ pc \in [Requests -> {"idle", "validating", "done"}]
    /\ tok \in [Requests -> Tokens]
    /\ epoch \in [Tokens -> 0..MaxRevocations]
    /\ seenEpoch \in [Requests -> 0..MaxRevocations]
    /\ setEpoch \in [Tokens -> 0..MaxRevocations]

-----------------------------------------------------------------------------
(* Cache (spec_modelled): every operation holds the cache's mutex.        *)

LiveEntry(e) == e # NoEntry /\ now < e.exp

CacheSet(k, v, ttl) == cache' = [cache EXCEPT ![k] = [val |-> v, exp |-> now + ttl]]

CacheGet(k) ==
    IF LiveEntry(cache[k]) THEN [found |-> TRUE, value |-> cache[k].val]
                           ELSE [found |-> FALSE]

CacheDelete(k) == cache' = [cache EXCEPT ![k] = NoEntry]

CacheCleanup == cache' = [k \in CacheKeys |->
                            IF LiveEntry(cache[k]) THEN cache[k] ELSE NoEntry]

-----------------------------------------------------------------------------
(* TokenCache: every method namespaces the token, then calls the Cache.   *)

TokenCacheSet(t, claims, expiration) == CacheSet(Key(t), claims, expiration)

\* The type assertion `value.(map[string]interface{})`.
IsClaimsMap(v) == v \in Claims

\* Get without the namespacing of its first line.
TokenCacheGetUnprefixed(t) ==
    LET res == CacheGet(t)
    IN  IF ~res.found THEN Miss
        ELSE IF IsClaimsMap(res.value) THEN [found |-> TRUE, claims |-> res.value]
        ELSE Miss

TokenCacheGet(t) ==
    LET res == CacheGet(Key(t))
    IN  IF ~res.found THEN Miss
        ELSE IF IsClaimsMap(res.value) THEN [found |-> TRUE, claims |-> res.value]
        ELSE Miss

TokenCacheDelete(t) == CacheDelete(Key(t))

TokenCacheCleanupDropped == UNCHANGED cache
TokenCacheCleanup == CacheCleanup

-----------------------------------------------------------------------------
(* The handlers (spec_modelled).                                          *)

Init ==
    /\ cache = [k \in CacheKeys |-> NoEntry]
    /\ now = 0
    /\ got = [r \in Requests |-> NoReply]
    /\ pc = [r \in Requests |-> "idle"]
    /\ tok = [r \in Requests |-> CHOOSE t \in Tokens : TRUE]
    /\ epoch = [t \in Tokens |-> 0]
    /\ seenEpoch = [r \in Requests |-> 0]
    /\ setEpoch = [t \in Tokens |-> 0]

\* A request looks its token up.  A hit serves it from the cache; a miss
\* sends it to validate the token.
Lookup(r, t) ==
    /\ pc[r] = "idle"
    /\ got' = [got EXCEPT ![r] = TokenCacheGet(t)]
    /\ tok' = [tok EXCEPT ![r] = t]
    /\ seenEpoch' = [seenEpoch EXCEPT ![r] = epoch[t]]
    /\ pc' = [pc EXCEPT ![r] = IF got'[r].found THEN "done" ELSE "validating"]
    /\ UNCHANGED <<cache, now, epoch, setEpoch>>

\* The token validated: its claims are cached for the given TTL.
Validated(r, claims, ttl) ==
    /\ pc[r] = "validating"
    /\ TokenCacheSet(tok[r], claims, ttl)
    /\ setEpoch' = [setEpoch EXCEPT ![tok[r]] = seenEpoch[r]]
    /\ pc' = [pc EXCEPT ![r] = "done"]
    /\ UNCHANGED <<now, got, tok, epoch, seenEpoch>>

\* The token failed validation: nothing is cached.
ValidationFailed(r) ==
    /\ pc[r] = "validating"
    /\ pc' = [pc EXCEPT ![r] = "done"]
    /\ UNCHANGED <<cache, now, got, tok, epoch, seenEpoch, setEpoch>>

\* The request is answered and the handler is free for the next one.
Finish(r) ==
    /\ pc[r] = "done"
    /\ pc' = [pc EXCEPT ![r] = "idle"]
    /\ got' = [got EXCEPT ![r] = NoReply]
    /\ UNCHANGED <<cache, now, tok, epoch, seenEpoch, setEpoch>>

\* A logout or a revocation drops the token from the cache.
Revoke(t) ==
    /\ epoch[t] < MaxRevocations
    /\ TokenCacheDelete(t)
    /\ epoch' = [epoch EXCEPT ![t] = epoch[t] + 1]
    /\ UNCHANGED <<now, got, pc, tok, seenEpoch, setEpoch>>

\* The owner's periodic sweep.
Sweep ==
    /\ TokenCacheCleanup
    /\ UNCHANGED <<now, got, pc, tok, epoch, seenEpoch, setEpoch>>

Tick ==
    /\ now < MaxTime
    /\ now' = now + 1
    /\ UNCHANGED <<cache, got, pc, tok, epoch, seenEpoch, setEpoch>>

Next ==
    \/ \E r \in Requests, t \in Tokens : Lookup(r, t)
    \/ \E r \in Requests, cl \in Claims, ttl \in TTLs : Validated(r, cl, ttl)
    \/ \E r \in Requests : ValidationFailed(r)
    \/ \E r \in Requests : Finish(r)
    \/ \E t \in Tokens : Revoke(t)
    \/ Sweep
    \/ Tick

\* The owner runs the sweep periodically, so it is not put off forever
\* while there is an expired entry to evict.
Spec == Init /\ [][Next]_vars /\ WF_vars(Sweep)

-----------------------------------------------------------------------------
(***************************************************************************)
(* Refinement: the namespaced keys of the Cache, read back through the     *)
(* type assertion, are the token map the spec describes.                   *)
(***************************************************************************)
AbsEntry(e) == IF e = NoEntry THEN NoEntry ELSE [claims |-> e.val, exp |-> e.exp]

Abs == INSTANCE ClaimsCache
         WITH entries <- [t \in Tokens |-> AbsEntry(cache[Key(t)])]

\* TokenCache with the Cache behaves as the spec's token cache: Get finds
\* exactly the unexpired claims last Set for the token and not deleted
\* since, and every expired entry is eventually evicted.
ClaimsCacheRefined == Abs!Spec

\* A token that was deleted (a logout, a revocation) is not served from the
\* cache again by claims whose validation began before the Delete.
RevocationSticks ==
    [][\A r \in Requests, t \in Tokens :
         Lookup(r, t) /\ got'[r].found => setEpoch[t] = epoch[t]]_vars

====

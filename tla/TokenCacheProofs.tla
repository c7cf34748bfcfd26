------------------------- MODULE TokenCacheProofs -------------------------
(***************************************************************************)
(* TLAPS proof that TokenCache over its Cache implements the token cache   *)
(* of the spec (ClaimsCache): every initial state maps to an initial       *)
(* state, and every step to a step of ClaimsCache or a stutter.  The       *)
(* fairness part of the refinement (every expired entry is eventually      *)
(* evicted) is checked by TLC only.                                        *)
(***************************************************************************)
EXTENDS TokenCache, TLAPS

(***************************************************************************)
(* The inductive invariant.  Lookup maps to ClaimsCache's Get, which needs *)
(* its reply register free; Finish maps to Release, which needs it full.   *)
(* The register of r is free exactly when r is idle.                       *)
(***************************************************************************)
ReplyFreeWhenIdle ==
    \A r \in Requests : pc[r] = "idle" <=> got[r] = NoReply

CacheInv == TypeOK /\ ReplyFreeWhenIdle

LEMMA InitInv == Init => CacheInv
<1>. SUFFICES ASSUME Init PROVE CacheInv
  OBVIOUS
<1>1. (CHOOSE t \in Tokens : TRUE) \in Tokens
  BY TokenCacheAssumption
<1>. QED
  BY <1>1, TokenCacheAssumption
  DEF Init, CacheInv, TypeOK, ReplyFreeWhenIdle, NoReply, NoEntry, Hit, Miss

LEMMA KeyInCache ==
    ASSUME NEW t \in Tokens
    PROVE  Key(t) \in CacheKeys
BY DEF Key, CacheKeys

\* A reply of Get is never the empty register: it has no `replied' field.
LEMMA ReplyDistinct ==
    ASSUME NEW x \in Hit \cup {Miss}
    PROVE  x # NoReply
<1>1. "replied" \in DOMAIN NoReply
  BY DEF NoReply
<1>2. "replied" \notin DOMAIN x
  <2>1. CASE x \in Hit
    <3>1. DOMAIN x = {"found", "claims"}
      BY <2>1 DEF Hit
    <3>. QED
      BY <3>1
  <2>2. CASE x = Miss
    <3>1. DOMAIN x = {"found"}
      BY <2>2 DEF Miss
    <3>. QED
      BY <3>1
  <2>. QED
    BY <2>1, <2>2
<1>. QED
  BY <1>1, <1>2

LEMMA GetType ==
    ASSUME TypeOK, NEW t \in Tokens
    PROVE  TokenCacheGet(t) \in Hit \cup {Miss}
<1>1. cache[Key(t)] \in CacheEntry \cup {NoEntry}
  BY KeyInCache DEF TypeOK
<1>. QED
  BY <1>1 DEF TokenCacheGet, CacheGet, IsClaimsMap, LiveEntry, CacheEntry,
              Hit, Miss

LEMMA LookupInv ==
    ASSUME CacheInv, NEW r \in Requests, NEW t \in Tokens, Lookup(r, t)
    PROVE  CacheInv'
<1>1. TokenCacheGet(t) \in Hit \cup {Miss}
  BY GetType DEF CacheInv
<1>2. TokenCacheGet(t) # NoReply
  BY <1>1, ReplyDistinct
<1>. QED
  BY <1>1, <1>2 DEF Lookup, CacheInv, TypeOK, ReplyFreeWhenIdle

LEMMA ValidatedInv ==
    ASSUME CacheInv, NEW r \in Requests, NEW cl \in Claims, NEW ttl \in TTLs,
           Validated(r, cl, ttl)
    PROVE  CacheInv'
<1>1. Key(tok[r]) \in CacheKeys
  BY KeyInCache DEF CacheInv, TypeOK
<1>2. [val |-> cl, exp |-> now + ttl] \in CacheEntry
  BY TokenCacheAssumption DEF CacheInv, TypeOK, CacheEntry
<1>3. got[r] # NoReply
  BY DEF Validated, CacheInv, ReplyFreeWhenIdle
<1>. QED
  BY <1>1, <1>2, <1>3
  DEF Validated, TokenCacheSet, CacheSet, CacheInv, TypeOK, ReplyFreeWhenIdle

LEMMA ValidationFailedInv ==
    ASSUME CacheInv, NEW r \in Requests, ValidationFailed(r)
    PROVE  CacheInv'
BY DEF ValidationFailed, CacheInv, TypeOK, ReplyFreeWhenIdle

LEMMA FinishInv ==
    ASSUME CacheInv, NEW r \in Requests, Finish(r)
    PROVE  CacheInv'
BY DEF Finish, CacheInv, TypeOK, ReplyFreeWhenIdle, NoReply

LEMMA RevokeInv ==
    ASSUME CacheInv, NEW t \in Tokens, Revoke(t)
    PROVE  CacheInv'
BY KeyInCache, TokenCacheAssumption DEF Revoke, TokenCacheDelete, CacheDelete, CacheInv, TypeOK,
                  ReplyFreeWhenIdle

LEMMA SweepInv ==
    ASSUME CacheInv, Sweep
    PROVE  CacheInv'
BY DEF Sweep, TokenCacheCleanup, CacheCleanup, CacheInv, TypeOK,
       ReplyFreeWhenIdle

LEMMA TickInv ==
    ASSUME CacheInv, Tick
    PROVE  CacheInv'
BY TokenCacheAssumption DEF Tick, CacheInv, TypeOK, ReplyFreeWhenIdle

LEMMA NextInv == CacheInv /\ [Next]_vars => CacheInv'
<1>. SUFFICES ASSUME CacheInv, [Next]_vars PROVE CacheInv'
  OBVIOUS
<1>1. CASE UNCHANGED vars
  BY <1>1 DEF vars, CacheInv, TypeOK, ReplyFreeWhenIdle
<1>2. CASE Next
  BY <1>2, LookupInv, ValidatedInv, ValidationFailedInv, FinishInv,
     RevokeInv, SweepInv, TickInv DEF Next
<1>. QED
  BY <1>1, <1>2

-----------------------------------------------------------------------------
(***************************************************************************)
(* The refinement mapping, entry by entry.                                 *)
(***************************************************************************)
absEntries == [t \in Tokens |-> AbsEntry(cache[Key(t)])]

LEMMA KeyInjective ==
    ASSUME NEW t \in Tokens, NEW u \in Tokens, Key(t) = Key(u)
    PROVE  t = u
BY DEF Key

\* A Cache entry is live exactly when the entry it maps to is, and then
\* carries the same claims.
LEMMA AbsEntryLive ==
    ASSUME NEW e \in CacheEntry \cup {NoEntry}
    PROVE  /\ Abs!Live(AbsEntry(e)) <=> LiveEntry(e)
           /\ LiveEntry(e) => AbsEntry(e).claims = e.val
           /\ AbsEntry(e) = NoEntry <=> e = NoEntry
<1>1. CASE e = NoEntry
  BY <1>1 DEF AbsEntry, Abs!Live, Abs!NoEntry, LiveEntry, NoEntry
<1>2. CASE e \in CacheEntry
  <2>1. AbsEntry(e) = [claims |-> e.val, exp |-> e.exp]
    BY <1>2 DEF AbsEntry, CacheEntry, NoEntry
  <2>2. "none" \notin DOMAIN AbsEntry(e) /\ "none" \in DOMAIN NoEntry
    BY <2>1 DEF NoEntry
  <2>3. AbsEntry(e) # NoEntry /\ e # NoEntry
    <3>1. "none" \notin DOMAIN e
      BY <1>2 DEF CacheEntry
    <3>. QED
      BY <2>2, <3>1
  <2>. QED
    BY <2>1, <2>3 DEF Abs!Live, Abs!NoEntry, LiveEntry, NoEntry
<1>. QED
  BY <1>1, <1>2

LEMMA InitRefines == Init => Abs!Init
BY KeyInCache DEF Init, Abs!Init, AbsEntry, NoEntry, Abs!NoEntry, NoReply, Abs!NoReply

LEMMA LookupRefines ==
    ASSUME CacheInv, NEW r \in Requests, NEW t \in Tokens, Lookup(r, t)
    PROVE  Abs!Get(r, t)
<1>1. got[r] = NoReply
  BY DEF Lookup, CacheInv, ReplyFreeWhenIdle
<1>2. cache[Key(t)] \in CacheEntry \cup {NoEntry}
  BY KeyInCache DEF CacheInv, TypeOK
<1>3. LiveEntry(cache[Key(t)]) => cache[Key(t)].val \in Claims
  BY <1>2 DEF LiveEntry, CacheEntry
<1>4. TokenCacheGet(t) =
        IF Abs!Live(absEntries[t])
        THEN [found |-> TRUE, claims |-> absEntries[t].claims]
        ELSE Abs!Miss
  BY <1>2, <1>3, AbsEntryLive
  DEF TokenCacheGet, CacheGet, IsClaimsMap, absEntries, Miss, Abs!Miss
<1>5. absEntries' = absEntries
  BY DEF Lookup, absEntries
<1>. QED
  BY <1>1, <1>4, <1>5 DEF Lookup, Abs!Get, absEntries, NoReply, Abs!NoReply

LEMMA ValidatedRefines ==
    ASSUME CacheInv, NEW r \in Requests, NEW cl \in Claims, NEW ttl \in TTLs,
           Validated(r, cl, ttl)
    PROVE  Abs!Set(tok[r], cl, ttl)
<1>1. tok[r] \in Tokens
  BY DEF CacheInv, TypeOK
<1>2. absEntries' = [absEntries EXCEPT ![tok[r]] = [claims |-> cl, exp |-> now + ttl]]
  <2>1. \A u \in Tokens : cache'[Key(u)] =
            IF u = tok[r] THEN [val |-> cl, exp |-> now + ttl] ELSE cache[Key(u)]
    BY <1>1, KeyInjective, KeyInCache
    DEF Validated, TokenCacheSet, CacheSet, CacheInv, TypeOK
  <2>2. AbsEntry([val |-> cl, exp |-> now + ttl]) = [claims |-> cl, exp |-> now + ttl]
    BY DEF AbsEntry, NoEntry
  <2>. QED
    BY <1>1, <2>1, <2>2 DEF absEntries
<1>. QED
  BY <1>2 DEF Validated, Abs!Set, absEntries

LEMMA ValidationFailedRefines ==
    ASSUME NEW r \in Requests, ValidationFailed(r)
    PROVE  UNCHANGED Abs!avars
BY DEF ValidationFailed, Abs!avars, absEntries

LEMMA FinishRefines ==
    ASSUME CacheInv, NEW r \in Requests, Finish(r)
    PROVE  Abs!Release(r)
<1>1. got[r] # NoReply
  BY DEF Finish, CacheInv, ReplyFreeWhenIdle
<1>. QED
  BY <1>1 DEF Finish, Abs!Release, NoReply, Abs!NoReply, absEntries

LEMMA RevokeRefines ==
    ASSUME CacheInv, NEW t \in Tokens, Revoke(t)
    PROVE  Abs!Delete(t)
<1>1. \A u \in Tokens : cache'[Key(u)] = IF u = t THEN NoEntry ELSE cache[Key(u)]
  BY KeyInjective, KeyInCache
  DEF Revoke, TokenCacheDelete, CacheDelete, CacheInv, TypeOK
<1>2. AbsEntry(NoEntry) = NoEntry
  BY DEF AbsEntry
<1>. QED
  BY <1>1, <1>2 DEF Revoke, Abs!Delete, absEntries, NoEntry, Abs!NoEntry

LEMMA SweepRefines ==
    ASSUME CacheInv, Sweep
    PROVE  Abs!Cleanup
<1>1. ASSUME NEW u \in Tokens
      PROVE  AbsEntry(cache'[Key(u)]) =
               IF Abs!Live(AbsEntry(cache[Key(u)])) THEN AbsEntry(cache[Key(u)])
                                                    ELSE Abs!NoEntry
  <2>1. cache[Key(u)] \in CacheEntry \cup {NoEntry}
    BY KeyInCache DEF CacheInv, TypeOK
  <2>2. cache'[Key(u)] = IF LiveEntry(cache[Key(u)]) THEN cache[Key(u)] ELSE NoEntry
    BY KeyInCache DEF Sweep, TokenCacheCleanup, CacheCleanup
  <2>. QED
    BY <2>1, <2>2, AbsEntryLive DEF AbsEntry, Abs!NoEntry, NoEntry
<1>. QED
  BY <1>1 DEF Sweep, Abs!Cleanup, absEntries

LEMMA TickRefines ==
    ASSUME Tick
    PROVE  Abs!Tick
BY DEF Tick, Abs!Tick, absEntries

LEMMA NextRefines == CacheInv /\ [Next]_vars => [Abs!Next]_Abs!avars
<1>. SUFFICES ASSUME CacheInv, [Next]_vars PROVE [Abs!Next]_Abs!avars
  OBVIOUS
<1>1. CASE UNCHANGED vars
  BY <1>1 DEF vars, Abs!avars, absEntries
<1>2. ASSUME NEW r \in Requests, NEW t \in Tokens, Lookup(r, t)
      PROVE  Abs!Next
  BY <1>2, LookupRefines DEF Abs!Next
<1>3. ASSUME NEW r \in Requests, NEW cl \in Claims, NEW ttl \in TTLs,
             Validated(r, cl, ttl)
      PROVE  Abs!Next
  <2>1. tok[r] \in Tokens
    BY DEF CacheInv, TypeOK
  <2>. QED
    BY <1>3, <2>1, ValidatedRefines DEF Abs!Next
<1>4. ASSUME NEW r \in Requests, ValidationFailed(r)
      PROVE  UNCHANGED Abs!avars
  BY <1>4, ValidationFailedRefines
<1>5. ASSUME NEW r \in Requests, Finish(r)
      PROVE  Abs!Next
  BY <1>5, FinishRefines DEF Abs!Next
<1>6. ASSUME NEW t \in Tokens, Revoke(t)
      PROVE  Abs!Next
  BY <1>6, RevokeRefines DEF Abs!Next
<1>7. CASE Sweep
  BY <1>7, SweepRefines DEF Abs!Next
<1>8. CASE Tick
  BY <1>8, TickRefines DEF Abs!Next
<1>. QED
  BY <1>1, <1>2, <1>3, <1>4, <1>5, <1>6, <1>7, <1>8 DEF Next

\* TokenCache's Set, Get, Delete and Cleanup, namespacing the token and
\* type-asserting the cached value, implement the spec's token cache for
\* every set of requests, tokens, claims and TTLs: a Get finds exactly the
\* unexpired claims last stored for the token and not deleted since.
THEOREM RefinesClaimsCache == Spec => Abs!Init /\ [][Abs!Next]_Abs!avars
<1>1. Init => CacheInv /\ Abs!Init
  BY InitInv, InitRefines
<1>2. CacheInv /\ [Next]_vars => CacheInv' /\ [Abs!Next]_Abs!avars
  BY NextInv, NextRefines
<1>. QED
  BY <1>1, <1>2, PTL DEF Spec

====

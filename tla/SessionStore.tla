---------------------------- MODULE SessionStore ----------------------------
(***************************************************************************)
(* The cookie-backed session of src/session.go (SessionManager and         *)
(* SessionData), the handleLogout handler of src/unnamed/part_000, the     *)
(* sync.Pool the SessionData instances come from, and the one browser      *)
(* whose cookie jar holds the session.                                     *)
(*                                                                         *)
(* Several requests of the browser are in flight at once.  Each loads the  *)
(* cookies the browser holds when it is sent (GetSession), changes its own *)
(* SessionData, and answers with Set-Cookie headers (Save, Clear).  The    *)
(* browser applies a response's headers when it arrives (Deliver), and     *)
(* responses arrive in any order.                                          *)
(*                                                                         *)
(* Data abstraction.  A token is a model value t.  Its compressed form     *)
(* (gzip, then standard base64: compressToken) is the string of CompLen[t] *)
(* characters <<t, 1>>, ..., <<t, CompLen[t]>>, lengths being counted in   *)
(* the unit MaxCookieSize is given in.  decompressToken inverts exactly    *)
(* those strings and returns any other string as it is (its fallback).     *)
(* Time is counted in ticks; Timeout is absoluteSessionTimeout, which is   *)
(* also the MaxAge getSessionOptions gives every cookie.                   *)
(***************************************************************************)
EXTENDS Integers, Sequences, FiniteSets

LOCAL INSTANCE SequencesExt

CONSTANTS
    Requests,       \* the browser's requests that can be in flight at once
    Tokens,         \* the tokens handed to SetAccessToken / SetRefreshToken
    CompLen,        \* CompLen[t] = len(compressToken(t))
    MaxCookieSize,  \* maxCookieSize (session.go:56)
    MaxChunks,      \* chunk cookies <base>_0 .. <base>_(MaxChunks-1)
    Timeout,        \* absoluteSessionTimeout (session.go:60), in ticks
    MaxTime,        \* the clock runs from 0 to MaxTime
    TokenSlots      \* which of the two token partitions are modelled

ASSUME ParamsAssumption ==
    /\ Requests # {} /\ Tokens # {}
    /\ CompLen \in [Tokens -> Nat \ {0}]
    /\ MaxCookieSize \in Nat \ {0}
    /\ Timeout \in Nat \ {0}
    /\ MaxTime \in Nat
    /\ TokenSlots \subseteq {"access", "refresh"}

(* splitIntoChunks (session.go:652-664): consecutive pieces of n          *)
(* characters, the last one holding what is left.                         *)
SplitIntoChunks(s, n) ==
    LET k == (Len(s) + n - 1) \div n
    IN  [i \in 1..k |-> SubSeq(s, (i - 1) * n + 1,
                                  IF i * n < Len(s) THEN i * n ELSE Len(s))]

ASSUME ChunksAssumption ==
    /\ MaxChunks \in Nat
    /\ \A t \in Tokens :
          (CompLen[t] + MaxCookieSize - 1) \div MaxCookieSize <= MaxChunks

-----------------------------------------------------------------------------
Char == Tokens \X Nat
Str == Seq(Char)
ChunkSeq == {c \in Seq(Str) : Len(c) <= MaxChunks}

(* compressToken (session.go:74-84).  Writing to a bytes.Buffer cannot    *)
(* fail, so its uncompressed fallback is never taken.                     *)
CompressToken(t) == [i \in 1..CompLen[t] |-> <<t, i>>]

(* decompressToken (session.go:95-113): the token whose compressed form   *)
(* the string is, or the string itself when it decodes to none.           *)
DecompressToken(s) ==
    IF \E t \in Tokens : CompressToken(t) = s
    THEN CHOOSE t \in Tokens : CompressToken(t) = s
    ELSE s

NoTime == -1
Time == 0..MaxTime

(* The main partition: keys "authenticated" and "created_at".  login is a  *)
(* history field, not a cookie key: the time of the SetAuthenticated(true)*)
(* whose flag the partition carries.  The other keys (csrf, nonce, ...)   *)
(* are plain strings no step here reads.                                  *)
MainVal == [auth : BOOLEAN, created : Time \cup {NoTime},
            login : Time \cup {NoTime}]
NoMain == [auth |-> FALSE, created |-> NoTime, login |-> NoTime]

(* A token partition: keys "token" and "compressed".  An absent key reads *)
(* as "" and false (the ", _ :=" type assertions of the getters).         *)
TokVal == [token : Str, comp : BOOLEAN]
NoTok == [token |-> <<>>, comp |-> FALSE]

(* What a request holds in its SessionData.  chunks[s][i] is the          *)
(* "token_chunk" value of the chunk map entry i - 1.                      *)
SessionView == [main : MainVal, tok : [TokenSlots -> TokVal],
                chunks : [TokenSlots -> ChunkSeq]]

(* A token as a request reads it: a token, "" (<<>>), or raw bytes.       *)
NoToken == <<>>

Exp == 0..(MaxTime + Timeout)
Cookie(V) == [val : V, exp : Exp]

(* The Set-Cookie headers of one response; kind and intended are history  *)
(* fields: which operation wrote them and the tokens the request meant to *)
(* store.                                                                 *)
Response == [main : MainVal, tok : [TokenSlots -> TokVal],
             chunks : [TokenSlots -> ChunkSeq], maxAge : Int,
             kind : {"save", "clear"},
             intended : [TokenSlots -> Tokens \cup {NoToken}]]

NoGrant == [at |-> NoTime, login |-> NoTime]

VARIABLES
    now,        \* the clock
    jarMain,    \* the browser's _oidc_raczylo_m cookie
    jarTok,     \* jarTok[s]: the _oidc_raczylo_a / _oidc_raczylo_r cookie
    jarChunk,   \* jarChunk[s][i]: the cookie <base>_(i-1)
    pc,         \* "idle", "active" (holds a SessionData) or "sent"
    sd,         \* sd[r]: request r's SessionData
    resp,       \* resp[r]: the headers of r's response once sent
    intended,   \* history: intended[r][s], the token r means its session to hold
    lastWrite,  \* history: the intended tokens of the response applied last
    lastKind,   \* history: the operation that wrote the response applied last
    granted,    \* history: when r was treated as authenticated, and its login
    lastLoad,   \* history: outcome of the latest GetSession
    prevLoad    \* history: outcome of the GetSession before it

jarVars == <<jarMain, jarTok, jarChunk>>
vars == <<now, jarMain, jarTok, jarChunk, pc, sd, resp, intended,
          lastWrite, lastKind, granted, lastLoad, prevLoad>>

LoadOutcome == {"none", "ok", "expired", "panic"}

TypeOK ==
    /\ now \in Time
    /\ jarMain \in Cookie(MainVal)
    /\ jarTok \in [TokenSlots -> Cookie(TokVal)]
    /\ jarChunk \in [TokenSlots -> [1..MaxChunks -> Cookie(Str)]]
    /\ pc \in [Requests -> {"idle", "active", "sent"}]
    /\ sd \in [Requests -> SessionView]
    /\ resp \in [Requests -> Response]
    /\ intended \in [Requests -> [TokenSlots -> Tokens \cup {NoToken}]]
    /\ lastWrite \in [TokenSlots -> Tokens \cup {NoToken}]
    /\ lastKind \in {"none", "save", "clear"}
    /\ granted \in [Requests -> [at : Time \cup {NoTime},
                                 login : Time \cup {NoTime}]]
    /\ lastLoad \in LoadOutcome
    /\ prevLoad \in LoadOutcome

-----------------------------------------------------------------------------
(* The browser sends a cookie until its Max-Age has run out.              *)
Live(c) == now < c.exp

(* getTokenChunkSessions (session.go:243-252): GetSession loads <base>_0, *)
(* <base>_1, ... and stops at the first chunk the browser does not send:  *)
(* the lengths k whose chunks 1..k are all sent are 1..ChunkRun(s).       *)
ChunkRun(s) ==
    Cardinality({k \in 1..MaxChunks : \A i \in 1..k : Live(jarChunk[s][i])})

LoadChunks(s) == [i \in 1..ChunkRun(s) |-> jarChunk[s][i].val]

(* The partitions GetSession (session.go:188-233) reads: a cookie the     *)
(* browser does not send loads as a new, empty session.                   *)
LoadView ==
    [main   |-> IF Live(jarMain) THEN jarMain.val ELSE NoMain,
     tok    |-> [s \in TokenSlots |->
                   IF Live(jarTok[s]) THEN jarTok[s].val ELSE NoTok],
     chunks |-> [s \in TokenSlots |-> LoadChunks(s)]]

(* The intended tokens a loaded session carries.                          *)
LoadIntended ==
    [s \in TokenSlots |-> IF Live(jarTok[s]) THEN lastWrite[s] ELSE NoToken]

(* The absolute-timeout check of GetSession (session.go:200-206).         *)
SessionExpired(m) == m.created # NoTime /\ now - m.created > Timeout

(* GetAuthenticated with the elapsed-time check left out: a session       *)
(* authenticated once would stay so for as long as a request holds it.    *)
GetAuthenticatedFlagOnly(m) == m.auth /\ m.created # NoTime

(* GetAuthenticated (session.go:407-419).                                 *)
GetAuthenticated(m) ==
    /\ m.auth
    /\ m.created # NoTime
    /\ now - m.created <= Timeout

(* GetAccessToken (session.go:449-480) on partition p and chunk map cs:   *)
(* the inline token if there is one, else the chunks joined in order;     *)
(* decompressed when the "compressed" flag is set.                        *)
GetToken(p, cs) ==
    LET Decoded(str) == IF p.comp THEN DecompressToken(str) ELSE str
    IN  IF p.token # <<>> THEN Decoded(p.token)
        ELSE IF cs = <<>> THEN NoToken
        ELSE Decoded(FlattenSeq(cs))

(* GetAccessToken of a loaded session view.                               *)
GetAccessToken(v) == GetToken(v.tok["access"], v.chunks["access"])

(* GetRefreshToken (session.go:525-556) is GetAccessToken on the refresh  *)
(* partition.                                                             *)
GetRefreshToken(v) == GetToken(v.tok["refresh"], v.chunks["refresh"])

ReadToken(v, s) == IF s = "access" THEN GetAccessToken(v) ELSE GetRefreshToken(v)

(* A MaxAge one tick longer than absoluteSessionTimeout.                  *)
CookieMaxAgeOffByOne == Timeout + 1

(* getSessionOptions (session.go:174-182): the MaxAge Save gives.          *)
CookieMaxAge == Timeout

(* Save (session.go:296-337) sets the options of getSessionOptions on the *)
(* three partitions and on every chunk of both chunk maps, then writes    *)
(* them all.  Whatever MaxAge a partition had is replaced.                *)
SaveHeaders(v, kind, want) ==
    [main |-> v.main, tok |-> v.tok, chunks |-> v.chunks,
     maxAge |-> CookieMaxAge, kind |-> kind, intended |-> want]

(* Clear (session.go:352-370) with clearTokenChunks (392-399): every      *)
(* partition and every chunk of the chunk maps emptied (and given MaxAge  *)
(* -1, which SaveHeaders then overrides).                                 *)
ClearedView(v) ==
    [main   |-> NoMain,
     tok    |-> [s \in TokenSlots |-> NoTok],
     chunks |-> [s \in TokenSlots |-> [i \in DOMAIN v.chunks[s] |-> <<>>]]]

(* sessionPool.Get (session.go:190, New at 152-160): an instance some     *)
(* Clear put back, or a fresh one whose partitions are nil.  The pool is  *)
(* shared by the requests of every browser the server serves, so another *)
(* user's Clear may have left an instance in it, and a garbage collection *)
(* may have emptied it: both are possible at every Get.                   *)
PoolGet == {"reused", "fresh"}

(* What an idle request holds: nothing any later step reads.  A request  *)
(* that has answered keeps no state, so it is reset to these.             *)
NoView == [main |-> NoMain, tok |-> [s \in TokenSlots |-> NoTok],
           chunks |-> [s \in TokenSlots |-> <<>>]]
NoIntent == [s \in TokenSlots |-> NoToken]
NoResp == SaveHeaders(NoView, "save", NoIntent)

-----------------------------------------------------------------------------
Init ==
    /\ now = 0
    /\ jarMain = [val |-> NoMain, exp |-> 0]
    /\ jarTok = [s \in TokenSlots |-> [val |-> NoTok, exp |-> 0]]
    /\ jarChunk = [s \in TokenSlots |->
                     [i \in 1..MaxChunks |-> [val |-> <<>>, exp |-> 0]]]
    /\ pc = [r \in Requests |-> "idle"]
    /\ sd = [r \in Requests |-> NoView]
    /\ resp = [r \in Requests |-> NoResp]
    /\ intended = [r \in Requests |-> NoIntent]
    /\ lastWrite = NoIntent
    /\ lastKind = "none"
    /\ granted = [r \in Requests |-> NoGrant]
    /\ lastLoad = "none"
    /\ prevLoad = "none"

(* The error paths of GetSession for an expired main cookie: Clear(r,     *)
(* nil) (line 203) runs on the instance.  A reused instance goes back to  *)
(* the pool and "session expired" is returned; on a fresh one Clear       *)
(* dereferences the nil accessSession (line 355) and the request panics.  *)
(* Either way no header is written: the cookie stays in the browser.      *)
GetSessionExpired(inst) ==
    /\ SessionExpired(LoadView.main)
    /\ \/ inst = "reused" /\ lastLoad' = "expired"
       \/ inst = "fresh" /\ lastLoad' = "panic"

(* Clear (session.go:352-384) with a writer: the emptied partitions are   *)
(* saved through Save and the instance goes back to the pool.  Save's     *)
(* encoding errors cannot happen for the strings, booleans and int64 the  *)
(* partitions hold, so the headers are always written.                    *)
ClearWithWriter(r, v) ==
    /\ sd' = [sd EXCEPT ![r] = ClearedView(v)]
    /\ intended' = [intended EXCEPT ![r] = [s \in TokenSlots |-> NoToken]]
    /\ resp' = [resp EXCEPT ![r] =
                  SaveHeaders(ClearedView(v), "clear", intended'[r])]
    /\ pc' = [pc EXCEPT ![r] = "sent"]

(* GetSession (session.go:188-233) for request r.                         *)
GetSession(r) ==
    /\ pc[r] = "idle"
    /\ \E inst \in PoolGet :
         \/ /\ GetSessionExpired(inst)
            /\ UNCHANGED <<pc, sd, intended>>
         \/ /\ ~SessionExpired(LoadView.main)
            /\ lastLoad' = "ok"
            /\ sd' = [sd EXCEPT ![r] = LoadView]
            /\ intended' = [intended EXCEPT ![r] = LoadIntended]
            /\ pc' = [pc EXCEPT ![r] = "active"]
    /\ prevLoad' = lastLoad
    /\ UNCHANGED <<now, jarVars, resp, lastWrite, lastKind, granted>>

(* SetAuthenticated (session.go:430-441).  true stamps created_at (and    *)
(* rotates the session ID, which a cookie store never writes); false      *)
(* clears only the flag.                                                  *)
SetAuthenticated(r, value) ==
    /\ pc[r] = "active"
    /\ sd' = [sd EXCEPT ![r].main =
                IF value THEN [auth |-> TRUE, created |-> now, login |-> now]
                ELSE [@ EXCEPT !.auth = FALSE]]
    /\ UNCHANGED <<now, jarVars, pc, resp, intended, lastWrite,
                   lastKind, granted, lastLoad, prevLoad>>

(* SetAccessToken (session.go:490-517).  expireAccessTokenChunks          *)
(* (602-617) is called with a nil writer: it empties the registry's       *)
(* sessions of the old chunk cookies, which no later Save writes since    *)
(* the chunk map is replaced, so it changes nothing that reaches the      *)
(* browser.  A compressed token that fits is stored inline; a longer one  *)
(* goes to fresh chunk sessions <base>_0 .. and the inline value is "".   *)
SetToken(r, s, t) ==
    /\ pc[r] = "active"
    /\ LET c == CompressToken(t) IN
       \/ /\ Len(c) <= MaxCookieSize
          /\ sd' = [sd EXCEPT ![r].tok[s] = [token |-> c, comp |-> TRUE],
                              ![r].chunks[s] = <<>>]
       \/ /\ Len(c) > MaxCookieSize
          /\ sd' = [sd EXCEPT ![r].tok[s] = [token |-> <<>>, comp |-> TRUE],
                              ![r].chunks[s] = SplitIntoChunks(c, MaxCookieSize)]
    /\ intended' = [intended EXCEPT ![r][s] = t]
    /\ UNCHANGED <<now, jarVars, pc, resp, lastWrite, lastKind,
                   granted, lastLoad, prevLoad>>

SetAccessToken(r, t) == SetToken(r, "access", t)

(* SetRefreshToken copied from SetAccessToken with the partition left     *)
(* unchanged: the refresh token lands in the access partition.            *)
SetRefreshTokenIntoAccess(r, t) == SetToken(r, "access", t)

(* SetRefreshToken (session.go:566-593) is SetAccessToken on the refresh  *)
(* partition and the _oidc_raczylo_r_N chunks.                            *)
SetRefreshToken(r, t) == SetToken(r, "refresh", t)

(* Save (session.go:296-337) as the last step of a request.               *)
Save(r) ==
    /\ pc[r] = "active"
    /\ resp' = [resp EXCEPT ![r] = SaveHeaders(sd[r], "save", intended[r])]
    /\ pc' = [pc EXCEPT ![r] = "sent"]
    /\ UNCHANGED <<now, jarVars, sd, intended, lastWrite, lastKind,
                   granted, lastLoad, prevLoad>>

(* Clear(r, w) called by a handler that holds a session.                  *)
Clear(r) ==
    /\ pc[r] = "active"
    /\ ClearWithWriter(r, sd[r])
    /\ UNCHANGED <<now, jarVars, lastWrite, lastKind, granted, lastLoad,
                   prevLoad>>

(* handleLogout (part_000:253-292): GetSession, read the access token,    *)
(* Clear(req, rw), redirect.  The redirect target (the provider's end-    *)
(* session URL when one is configured and there was an access token)      *)
(* changes no state.  A GetSession error answers 500 without cookies.     *)
HandleLogout(r) ==
    /\ pc[r] = "idle"
    /\ \E inst \in PoolGet :
         \/ /\ GetSessionExpired(inst)
            /\ UNCHANGED <<pc, sd, resp, intended>>
         \/ /\ ~SessionExpired(LoadView.main)
            /\ lastLoad' = "ok"
            /\ ClearWithWriter(r, LoadView)
    /\ prevLoad' = lastLoad
    /\ UNCHANGED <<now, jarVars, lastWrite, lastKind, granted>>

(* The middleware (outside src/) treats the request as authenticated      *)
(* when GetAuthenticated holds.                                            *)
CheckAuthenticated(r) ==
    /\ pc[r] = "active"
    /\ granted[r] = NoGrant
    /\ GetAuthenticated(sd[r].main)
    /\ granted' = [granted EXCEPT ![r] = [at |-> now,
                                          login |-> sd[r].main.login]]
    /\ UNCHANGED <<now, jarVars, pc, sd, resp, intended, lastWrite,
                   lastKind, lastLoad, prevLoad>>

(* A handler (outside src/) answers without saving the session.           *)
Respond(r) ==
    /\ pc[r] = "active"
    /\ pc' = [pc EXCEPT ![r] = "idle"]
    /\ sd' = [sd EXCEPT ![r] = NoView]
    /\ intended' = [intended EXCEPT ![r] = NoIntent]
    /\ granted' = [granted EXCEPT ![r] = NoGrant]
    /\ UNCHANGED <<now, jarVars, resp, lastWrite, lastKind,
                   lastLoad, prevLoad>>

(* The browser applies the Set-Cookie headers of r's response.  A header  *)
(* with a negative MaxAge deletes the cookie.                             *)
ExpiresAt(maxAge) == IF maxAge < 0 THEN 0 ELSE now + maxAge

Deliver(r) ==
    /\ pc[r] = "sent"
    /\ LET h == resp[r]
           e == ExpiresAt(h.maxAge)
       IN  /\ jarMain' = [val |-> h.main, exp |-> e]
           /\ jarTok' = [s \in TokenSlots |-> [val |-> h.tok[s], exp |-> e]]
           /\ jarChunk' = [s \in TokenSlots |-> [i \in 1..MaxChunks |->
                             IF i <= Len(h.chunks[s])
                             THEN [val |-> h.chunks[s][i], exp |-> e]
                             ELSE jarChunk[s][i]]]
           /\ lastWrite' = h.intended
           /\ lastKind' = h.kind
    /\ pc' = [pc EXCEPT ![r] = "idle"]
    /\ sd' = [sd EXCEPT ![r] = NoView]
    /\ resp' = [resp EXCEPT ![r] = NoResp]
    /\ intended' = [intended EXCEPT ![r] = NoIntent]
    /\ granted' = [granted EXCEPT ![r] = NoGrant]
    /\ UNCHANGED <<now, lastLoad, prevLoad>>

Tick ==
    /\ now < MaxTime
    /\ now' = now + 1
    /\ UNCHANGED <<jarVars, pc, sd, resp, intended, lastWrite,
                   lastKind, granted, lastLoad, prevLoad>>

Next ==
    \/ Tick
    \/ \E r \in Requests :
         \/ GetSession(r)
         \/ HandleLogout(r)
         \/ \E v \in BOOLEAN : SetAuthenticated(r, v)
         \/ \E t \in Tokens :
              \/ "access" \in TokenSlots /\ SetAccessToken(r, t)
              \/ "refresh" \in TokenSlots /\ SetRefreshToken(r, t)
         \/ CheckAuthenticated(r)
         \/ Save(r)
         \/ Clear(r)
         \/ Respond(r)
         \/ Deliver(r)

Spec == Init /\ [][Next]_vars

-----------------------------------------------------------------------------
(* SetAccessToken(t) (SetRefreshToken(t)) followed by GetAccessToken()   *)
(* (GetRefreshToken()) on the same SessionData returns t: compression,    *)
(* the inline-or-chunked choice, splitting and reassembly lose nothing    *)
(* and the two token partitions do not mix.                               *)
StoredTokenReadable ==
    [][\A r \in Requests, t \in Tokens :
         /\ "access" \in TokenSlots /\ SetAccessToken(r, t)
              => GetAccessToken(sd'[r]) = t
         /\ "refresh" \in TokenSlots /\ SetRefreshToken(r, t)
              => GetRefreshToken(sd'[r]) = t]_vars

(* The token a later request reads (GetSession, then GetAccessToken or    *)
(* GetRefreshToken) is the token stored by the request whose response the *)
(* browser applied last, or "" once its cookies have expired.  In         *)
(* particular, setting a new token after a chunked one leaves no trace of *)
(* the old chunks that GetAccessToken can reach (spec 8).                 *)
JarToken(s) == ReadToken(LoadView, s)

TokenRoundTrip ==
    \A s \in TokenSlots :
        JarToken(s) = IF Live(jarTok[s]) THEN lastWrite[s] ELSE NoToken

(* Absolute session timeout: a request is treated as authenticated        *)
(* (GetAuthenticated) only within Timeout of the SetAuthenticated(true)   *)
(* whose flag its session carries, however often the session was saved   *)
(* in between.                                                            *)
AbsoluteTimeout ==
    \A r \in Requests :
        granted[r] # NoGrant =>
            /\ granted[r].login # NoTime
            /\ granted[r].at - granted[r].login <= Timeout

(* Clear, given a writer, sends headers that expire the session's         *)
(* cookies (spec 4.2): once the browser applied the response of a Clear,  *)
(* it no longer sends the main cookie.                                    *)
ClearExpiresCookies == lastKind = "clear" => ~Live(jarMain)

(* GetSession's expiry path (session.go:200-206) never dereferences the   *)
(* nil partitions of a fresh SessionData: it returns "session expired".   *)
NoNilDereference == lastLoad # "panic"

(* After GetSession reported an expired session, the caller restarts the  *)
(* login flow (spec 7): the next GetSession of the browser loads a session.*)
ExpiryAllowsNewLogin == prevLoad = "expired" => lastLoad = "ok"
=============================================================================

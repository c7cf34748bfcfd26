------------------------- MODULE SessionStoreProofs -------------------------
(***************************************************************************)
(* Proofs about SessionStore for every value of its constants.            *)
(***************************************************************************)
EXTENDS SessionStore, TLAPS, FiniteSetTheorems, SequenceTheorems

(* Every response a request has built carries the MaxAge of               *)
(* getSessionOptions: Save overwrites the -1 Clear sets, so no Set-Cookie *)
(* header of this code ever deletes a cookie.                             *)
ResponsesKeepMaxAge == \A r \in Requests : resp[r].maxAge = CookieMaxAge

TypeInv == TypeOK /\ ResponsesKeepMaxAge

-----------------------------------------------------------------------------
(* A function on 1..k is a sequence of length k.                          *)
LEMMA SeqOfLength ==
    ASSUME NEW S, NEW k \in Nat, NEW f \in [1..k -> S]
    PROVE  f \in Seq(S) /\ Len(f) = k
<1>1. f \in Seq(S)
  BY SeqDef, Zenon
<1>2. DOMAIN f = 1..Len(f) /\ Len(f) \in Nat
  BY <1>1, LenProperties
<1>3. QED
  BY <1>1, <1>2

(* The compressed form of a token is a string.                            *)
LEMMA CompressTokenType ==
    ASSUME ParamsAssumption, NEW t \in Tokens
    PROVE  /\ CompressToken(t) \in Str
           /\ Len(CompressToken(t)) = CompLen[t]
BY DEF ParamsAssumption, CompressToken, Str, Char

(* splitIntoChunks of a compressed token yields at most MaxChunks chunks, *)
(* each a string.                                                         *)
LEMMA SplitType ==
    ASSUME NEW t \in Tokens
    PROVE  SplitIntoChunks(CompressToken(t), MaxCookieSize) \in ChunkSeq
<1> DEFINE c == CompressToken(t)
           n == MaxCookieSize
           k == (Len(c) + n - 1) \div n
<1>1. c \in Str /\ Len(c) = CompLen[t]
  BY ParamsAssumption, CompressTokenType
<1>2. k \in Nat /\ k <= MaxChunks
  <2>1. Len(c) = CompLen[t] /\ CompLen[t] \in Nat /\ n \in Nat \ {0}
    BY <1>1, ParamsAssumption
  <2>2. k = (CompLen[t] + MaxCookieSize - 1) \div MaxCookieSize
    BY <2>1
  <2>3. k \in Nat
    <3>1. CompLen[t] + MaxCookieSize - 1 \in Nat
      BY <2>1
    <3>. QED
      BY <3>1, <2>1, <2>2, Z3
  <2>4. k <= MaxChunks
    BY <2>2, ChunksAssumption
  <2>. QED
    BY <2>3, <2>4
<1>3. ASSUME NEW i \in 1..k
      PROVE  SubSeq(c, (i - 1) * n + 1, IF i * n < Len(c) THEN i * n ELSE Len(c))
               \in Str
  <2>1. \A j \in ((i - 1) * n + 1)..(IF i * n < Len(c) THEN i * n ELSE Len(c)) :
           c[j] \in Char
    BY <1>1, <1>2, ParamsAssumption DEF Str
  <2>2. QED
    BY <2>1, <1>2, ParamsAssumption, SubSeqProperties DEF Str
<1> DEFINE f == [i \in 1..k |-> SubSeq(c, (i - 1) * n + 1,
                                    IF i * n < Len(c) THEN i * n ELSE Len(c))]
<1>4. f \in Seq(Str) /\ Len(f) = k
  <2>1. f \in [1..k -> Str]
    BY <1>3
  <2>2. QED
    <3>. HIDE DEF f, k
    <3>. QED
      BY <1>2, <2>1, SeqOfLength
<1>5. SplitIntoChunks(c, n) = f
  BY DEF SplitIntoChunks
<1>6. QED
  BY <1>2, <1>4, <1>5 DEF ChunkSeq
(* GetSession loads at most MaxChunks chunks.                             *)
LEMMA ChunkRunType ==
    ASSUME TypeOK, NEW s \in TokenSlots
    PROVE  ChunkRun(s) \in 0..MaxChunks
<1> DEFINE L == {k \in 1..MaxChunks : \A i \in 1..k : Live(jarChunk[s][i])}
<1>1. IsFiniteSet(1..MaxChunks) /\ Cardinality(1..MaxChunks) = MaxChunks
  BY ChunksAssumption, FS_Interval
<1>2. IsFiniteSet(L) /\ Cardinality(L) <= MaxChunks
  <2>1. L \subseteq 1..MaxChunks
    OBVIOUS
  <2>. HIDE DEF L
  <2>. QED
    BY <1>1, <2>1, FS_Subset
<1>3. Cardinality(L) \in Nat
  BY <1>2, FS_CardinalityType
<1>4. QED
  BY <1>2, <1>3 DEF ChunkRun

(* What GetSession loads is a session view.                               *)
LEMMA LoadViewType ==
    ASSUME TypeOK
    PROVE  LoadView \in SessionView
<1>1. ASSUME NEW s \in TokenSlots
      PROVE  LoadChunks(s) \in ChunkSeq
  <2>1. ChunkRun(s) \in 0..MaxChunks
    BY <1>1, ChunkRunType
  <2>2. LoadChunks(s) \in [1..ChunkRun(s) -> Str]
    <3>1. 1..ChunkRun(s) \subseteq 1..MaxChunks
      BY <2>1, ChunksAssumption
    <3>2. \A i \in 1..MaxChunks : jarChunk[s][i].val \in Str
      <4>1. jarChunk[s] \in [1..MaxChunks -> Cookie(Str)]
        BY <1>1 DEF TypeOK
      <4>2. QED
        BY <4>1 DEF Cookie
    <3>3. QED
      BY <3>1, <3>2 DEF LoadChunks
  <2>3. QED
    BY <2>1, <2>2, SeqOfLength DEF ChunkSeq
<1>2. (IF Live(jarMain) THEN jarMain.val ELSE NoMain) \in MainVal
  <2>1. jarMain \in Cookie(MainVal)
    BY DEF TypeOK
  <2>2. NoMain \in MainVal
    BY DEF NoMain, MainVal, NoTime
  <2>3. QED
    BY <2>1, <2>2 DEF Cookie
<1>3. [s \in TokenSlots |-> IF Live(jarTok[s]) THEN jarTok[s].val ELSE NoTok]
        \in [TokenSlots -> TokVal]
  <2>1. jarTok \in [TokenSlots -> Cookie(TokVal)]
    BY DEF TypeOK
  <2>2. NoTok \in TokVal
    BY DEF NoTok, TokVal, Str
  <2>3. QED
    BY <2>1, <2>2 DEF Cookie
<1>4. [s \in TokenSlots |-> LoadChunks(s)] \in [TokenSlots -> ChunkSeq]
  BY <1>1
<1>5. QED
  BY <1>2, <1>3, <1>4 DEF LoadView, SessionView

(* Clear turns a session view into a session view.                        *)
LEMMA ClearedViewType ==
    ASSUME NEW v \in SessionView
    PROVE  ClearedView(v) \in SessionView
<1>1. ASSUME NEW s \in TokenSlots
      PROVE  [i \in DOMAIN v.chunks[s] |-> <<>>] \in ChunkSeq
  <2>1. v.chunks[s] \in Seq(Str) /\ Len(v.chunks[s]) <= MaxChunks
    BY DEF SessionView, ChunkSeq
  <2>2. DOMAIN v.chunks[s] = 1..Len(v.chunks[s]) /\ Len(v.chunks[s]) \in Nat
    BY <2>1, LenProperties
  <2>3. [i \in DOMAIN v.chunks[s] |-> <<>>] \in [1..Len(v.chunks[s]) -> Str]
    BY <2>2 DEF Str
  <2>4. QED
    BY <2>1, <2>2, <2>3, SeqOfLength DEF ChunkSeq
<1>2. QED
  BY <1>1 DEF ClearedView, SessionView, NoMain, MainVal, NoTok, TokVal, Str
(* The headers Save builds are a response with getSessionOptions' MaxAge. *)
LEMMA SaveHeadersType ==
    ASSUME NEW v \in SessionView, NEW kind \in {"save", "clear"},
           NEW want \in [TokenSlots -> Tokens \cup {NoToken}]
    PROVE  /\ SaveHeaders(v, kind, want) \in Response
           /\ SaveHeaders(v, kind, want).maxAge = CookieMaxAge
BY ParamsAssumption DEF SaveHeaders, Response, SessionView, CookieMaxAge

(* The state of an idle request is well typed.                            *)
LEMMA IdleType ==
    /\ NoView \in SessionView
    /\ NoIntent \in [TokenSlots -> Tokens \cup {NoToken}]
    /\ NoResp \in Response /\ NoResp.maxAge = CookieMaxAge
<1>1. NoView \in SessionView
  <2>1. <<>> \in ChunkSeq
    BY EmptySeq, ChunksAssumption DEF ChunkSeq
  <2>2. QED
    BY <2>1 DEF NoView, SessionView, NoMain, MainVal, NoTime, NoTok, TokVal, Str
<1>2. NoIntent \in [TokenSlots -> Tokens \cup {NoToken}]
  BY DEF NoIntent
<1>3. QED
  BY <1>1, <1>2, SaveHeadersType DEF NoResp

(* Init establishes the type invariant.                                   *)
LEMMA InitType == Init => TypeInv
<1> SUFFICES ASSUME Init PROVE TypeInv
  OBVIOUS
<1>1. jarChunk \in [TokenSlots -> [1..MaxChunks -> Cookie(Str)]]
  BY ParamsAssumption DEF Init, Cookie, Exp, Str
<1>2. QED
  BY <1>1, IdleType, ParamsAssumption
     DEF Init, TypeInv, TypeOK, ResponsesKeepMaxAge, Time, Cookie, Exp,
         NoMain, MainVal, NoTime, NoTok, TokVal, Str, LoadOutcome, NoGrant
LEMMA GetSessionType ==
    ASSUME TypeInv, NEW r \in Requests, GetSession(r)
    PROVE  TypeInv'
<1>1. LoadView \in SessionView
  BY LoadViewType DEF TypeInv
<1>2. LoadIntended \in [TokenSlots -> Tokens \cup {NoToken}]
  BY DEF TypeInv, TypeOK, LoadIntended
<1>3. CASE \E inst \in PoolGet : GetSessionExpired(inst)
  BY <1>3 DEF TypeInv, TypeOK, ResponsesKeepMaxAge, GetSession,
              GetSessionExpired, LoadOutcome, jarVars
<1>4. CASE /\ lastLoad' = "ok"
           /\ sd' = [sd EXCEPT ![r] = LoadView]
           /\ intended' = [intended EXCEPT ![r] = LoadIntended]
           /\ pc' = [pc EXCEPT ![r] = "active"]
  BY <1>1, <1>2, <1>4 DEF TypeInv, TypeOK, ResponsesKeepMaxAge, GetSession,
                          LoadOutcome, jarVars
<1>5. QED
  BY <1>3, <1>4 DEF GetSession

LEMMA SetAuthenticatedType ==
    ASSUME TypeInv, NEW r \in Requests, NEW value \in BOOLEAN,
           SetAuthenticated(r, value)
    PROVE  TypeInv'
<1>1. sd[r].main \in MainVal
  BY DEF TypeInv, TypeOK, SessionView
<1>2. (IF value THEN [auth |-> TRUE, created |-> now, login |-> now]
       ELSE [sd[r].main EXCEPT !.auth = FALSE]) \in MainVal
  BY <1>1 DEF TypeInv, TypeOK, MainVal, Time
<1>3. sd' \in [Requests -> SessionView]
  <2>1. sd \in [Requests -> SessionView]
    BY DEF TypeInv, TypeOK
  <2>2. [sd[r] EXCEPT !.main =
           IF value THEN [auth |-> TRUE, created |-> now, login |-> now]
           ELSE [sd[r].main EXCEPT !.auth = FALSE]] \in SessionView
    BY <1>2, <2>1 DEF SessionView
  <2>3. QED
    BY <2>1, <2>2 DEF SetAuthenticated
<1>4. QED
  BY <1>3 DEF TypeInv, TypeOK, ResponsesKeepMaxAge, SetAuthenticated, jarVars

LEMMA SetTokenType ==
    ASSUME TypeInv, NEW r \in Requests, NEW s \in TokenSlots,
           NEW t \in Tokens, SetToken(r, s, t)
    PROVE  TypeInv'
<1>1. CompressToken(t) \in Str
  BY ParamsAssumption, CompressTokenType
<1>2. SplitIntoChunks(CompressToken(t), MaxCookieSize) \in ChunkSeq
  BY SplitType
<1>3. <<>> \in ChunkSeq /\ <<>> \in Str
  BY EmptySeq, ChunksAssumption DEF ChunkSeq, Str
<1>4. sd' \in [Requests -> SessionView]
  <2> DEFINE c == CompressToken(t)
             Upd(p, cs) == [sd[r] EXCEPT !.tok[s] = p, !.chunks[s] = cs]
  <2>1. sd \in [Requests -> SessionView]
    BY DEF TypeInv, TypeOK
  <2>2. \A p \in TokVal, cs \in ChunkSeq : Upd(p, cs) \in SessionView
    BY <2>1 DEF SessionView
  <2>3. [token |-> c, comp |-> TRUE] \in TokVal
        /\ [token |-> <<>>, comp |-> TRUE] \in TokVal
    BY <1>1, <1>3 DEF TokVal
  <2>4. \/ sd' = [sd EXCEPT ![r] = Upd([token |-> c, comp |-> TRUE], <<>>)]
        \/ sd' = [sd EXCEPT ![r] = Upd([token |-> <<>>, comp |-> TRUE],
                                      SplitIntoChunks(c, MaxCookieSize))]
    BY DEF SetToken
  <2>5. QED
    BY <1>2, <1>3, <2>1, <2>2, <2>3, <2>4
<1>5. QED
  BY <1>4 DEF TypeInv, TypeOK, ResponsesKeepMaxAge, SetToken, jarVars

LEMMA SaveType ==
    ASSUME TypeInv, NEW r \in Requests, Save(r)
    PROVE  TypeInv'
<1>1. SaveHeaders(sd[r], "save", intended[r]) \in Response
      /\ SaveHeaders(sd[r], "save", intended[r]).maxAge = CookieMaxAge
  BY SaveHeadersType DEF TypeInv, TypeOK
<1>2. QED
  BY <1>1 DEF TypeInv, TypeOK, ResponsesKeepMaxAge, Save, jarVars
(* What Clear with a writer changes is well typed.                        *)
LEMMA ClearWithWriterType ==
    ASSUME TypeInv, NEW r \in Requests, NEW v \in SessionView,
           ClearWithWriter(r, v)
    PROVE  /\ sd' \in [Requests -> SessionView]
           /\ intended' \in [Requests -> [TokenSlots -> Tokens \cup {NoToken}]]
           /\ resp' \in [Requests -> Response]
           /\ \A q \in Requests : resp'[q].maxAge = CookieMaxAge
           /\ pc' \in [Requests -> {"idle", "active", "sent"}]
<1>1. ClearedView(v) \in SessionView
  BY ClearedViewType
<1>2. intended' \in [Requests -> [TokenSlots -> Tokens \cup {NoToken}]]
      /\ intended'[r] \in [TokenSlots -> Tokens \cup {NoToken}]
  BY DEF TypeInv, TypeOK, ClearWithWriter
<1>3. SaveHeaders(ClearedView(v), "clear", intended'[r]) \in Response
      /\ SaveHeaders(ClearedView(v), "clear", intended'[r]).maxAge = CookieMaxAge
  BY <1>1, <1>2, SaveHeadersType
<1>4. QED
  BY <1>1, <1>2, <1>3 DEF TypeInv, TypeOK, ResponsesKeepMaxAge, ClearWithWriter

LEMMA ClearType ==
    ASSUME TypeInv, NEW r \in Requests, Clear(r)
    PROVE  TypeInv'
<1>1. sd[r] \in SessionView
  BY DEF TypeInv, TypeOK
<1>2. QED
  BY <1>1, ClearWithWriterType
     DEF Clear, TypeInv, TypeOK, ResponsesKeepMaxAge, jarVars

LEMMA HandleLogoutType ==
    ASSUME TypeInv, NEW r \in Requests, HandleLogout(r)
    PROVE  TypeInv'
<1>1. LoadView \in SessionView
  BY LoadViewType DEF TypeInv
<1>2. QED
  BY <1>1, ClearWithWriterType
     DEF HandleLogout, GetSessionExpired, TypeInv, TypeOK, ResponsesKeepMaxAge,
         LoadOutcome, jarVars

LEMMA CheckAuthenticatedType ==
    ASSUME TypeInv, NEW r \in Requests, CheckAuthenticated(r)
    PROVE  TypeInv'
<1>1. sd[r].main.login \in Time \cup {NoTime}
  BY DEF TypeInv, TypeOK, SessionView, MainVal
<1>2. QED
  BY <1>1 DEF CheckAuthenticated, TypeInv, TypeOK, ResponsesKeepMaxAge, jarVars

LEMMA RespondType ==
    ASSUME TypeInv, NEW r \in Requests, Respond(r)
    PROVE  TypeInv'
BY IdleType DEF Respond, TypeInv, TypeOK, ResponsesKeepMaxAge, jarVars, NoGrant

LEMMA DeliverType ==
    ASSUME TypeInv, NEW r \in Requests, Deliver(r)
    PROVE  TypeInv'
<1> DEFINE h == resp[r]
           e == ExpiresAt(h.maxAge)
<1>1. h \in Response /\ h.maxAge = CookieMaxAge
  BY DEF TypeInv, TypeOK, ResponsesKeepMaxAge
<1>2. e \in Exp
  BY <1>1, ParamsAssumption DEF TypeInv, TypeOK, ExpiresAt, CookieMaxAge, Exp, Time
<1>3. jarMain' \in Cookie(MainVal)
  BY <1>1, <1>2 DEF Deliver, Response, Cookie
<1>4. jarTok' \in [TokenSlots -> Cookie(TokVal)]
  BY <1>1, <1>2 DEF Deliver, Response, Cookie
<1>5. jarChunk' \in [TokenSlots -> [1..MaxChunks -> Cookie(Str)]]
  <2>1. ASSUME NEW s \in TokenSlots, NEW i \in 1..MaxChunks, i <= Len(h.chunks[s])
        PROVE  h.chunks[s][i] \in Str
    <3>1. h.chunks[s] \in Seq(Str)
      BY <1>1 DEF Response, ChunkSeq
    <3>2. QED
      BY <2>1, <3>1, ElementOfSeq
  <2>2. jarChunk \in [TokenSlots -> [1..MaxChunks -> Cookie(Str)]]
    BY DEF TypeInv, TypeOK
  <2>3. QED
    BY <1>2, <2>1, <2>2 DEF Deliver, Cookie
<1>6. h.intended \in [TokenSlots -> Tokens \cup {NoToken}]
      /\ h.kind \in {"save", "clear"}
  BY <1>1 DEF Response
<1>7. QED
  BY <1>3, <1>4, <1>5, <1>6, IdleType
     DEF Deliver, TypeInv, TypeOK, ResponsesKeepMaxAge, NoGrant

LEMMA TickType ==
    ASSUME TypeInv, Tick
    PROVE  TypeInv'
<1>1. now' \in Time
  BY ParamsAssumption DEF Tick, TypeInv, TypeOK, Time
<1>2. QED
  BY <1>1 DEF Tick, TypeInv, TypeOK, ResponsesKeepMaxAge, jarVars
(* Every step of Next, and every stuttering step, keeps TypeInv.          *)
LEMMA NextType ==
    TypeInv /\ [Next]_vars => TypeInv'
<1> SUFFICES ASSUME TypeInv, [Next]_vars PROVE TypeInv'
  OBVIOUS
<1>1. CASE Tick
  BY <1>1, TickType
<1>2. ASSUME NEW r \in Requests,
             \/ GetSession(r)
             \/ HandleLogout(r)
             \/ \E v \in BOOLEAN : SetAuthenticated(r, v)
             \/ \E t \in Tokens :
                  \/ "access" \in TokenSlots /\ SetAccessToken(r, t)
                  \/ "refresh" \in TokenSlots /\ SetRefreshToken(r, t)
             \/ CheckAuthenticated(r)
             \/ Save(r)
             \/ Clear(r)
             \/ Respond(r)
             \/ Deliver(r)
      PROVE  TypeInv'
  BY <1>2, GetSessionType, HandleLogoutType, SetAuthenticatedType,
     SetTokenType, CheckAuthenticatedType, SaveType, ClearType, RespondType,
     DeliverType DEF SetAccessToken, SetRefreshToken
<1>3. CASE UNCHANGED vars
  BY <1>3 DEF vars, TypeInv, TypeOK, ResponsesKeepMaxAge
<1>4. QED
  BY <1>1, <1>2, <1>3 DEF Next

(* The type invariant: every variable of the model holds a value of its   *)
(* type in every reachable state, in particular the browser never holds   *)
(* more than MaxChunks chunk cookies per token and no cookie outlives the *)
(* absolute timeout past the last response (session.go, all handlers).    *)
THEOREM TypeCorrect == Spec => []TypeOK
<1>1. Init => TypeInv
  BY InitType
<1>2. TypeInv /\ [Next]_vars => TypeInv'
  BY NextType
<1>3. TypeInv => TypeOK
  BY DEF TypeInv
<1>4. QED
  BY <1>1, <1>2, <1>3, PTL DEF Spec
-----------------------------------------------------------------------------
(* Every main partition, in the browser, in a request's SessionData or in *)
(* a response, carries as created_at the time of the SetAuthenticated     *)
(* (true) whose flag it holds: no step but that one writes created_at.    *)
MainsConsistent ==
    /\ jarMain.val.created = jarMain.val.login
    /\ \A r \in Requests :
         /\ sd[r].main.created = sd[r].main.login
         /\ resp[r].main.created = resp[r].main.login

TimeoutInv == TypeInv /\ MainsConsistent /\ AbsoluteTimeout

LEMMA InitTimeout == Init => TimeoutInv
BY InitType DEF Init, TimeoutInv, MainsConsistent, AbsoluteTimeout, NoView,
               NoResp, SaveHeaders, NoMain, NoGrant

(* The clauses of TimeoutInv other than TypeInv, after one step.          *)
TimeoutStep == MainsConsistent' /\ AbsoluteTimeout'

LEMMA GetSessionTimeout ==
    ASSUME TimeoutInv, NEW r \in Requests, GetSession(r)
    PROVE  TimeoutStep
<1>1. LoadView.main.created = LoadView.main.login
  BY DEF TimeoutInv, MainsConsistent, LoadView, NoMain
<1>2. QED
  BY <1>1 DEF TimeoutInv, TimeoutStep, MainsConsistent, AbsoluteTimeout,
              GetSession, GetSessionExpired, TypeInv, TypeOK, jarVars

LEMMA SetAuthenticatedTimeout ==
    ASSUME TimeoutInv, NEW r \in Requests, NEW value \in BOOLEAN,
           SetAuthenticated(r, value)
    PROVE  TimeoutStep
<1>1. sd'[r].main.created = sd'[r].main.login
  BY DEF TimeoutInv, MainsConsistent, SetAuthenticated, TypeInv, TypeOK,
         SessionView, MainVal
<1>2. QED
  BY <1>1 DEF TimeoutInv, TimeoutStep, MainsConsistent, AbsoluteTimeout,
              SetAuthenticated, TypeInv, TypeOK, jarVars

LEMMA SetTokenTimeout ==
    ASSUME TimeoutInv, NEW r \in Requests, NEW s \in TokenSlots,
           NEW t \in Tokens, SetToken(r, s, t)
    PROVE  TimeoutStep
<1>1. \A q \in Requests : sd'[q].main = sd[q].main
  <2>1. sd'[r].main = sd[r].main
    BY DEF SetToken, TimeoutInv, TypeInv, TypeOK, SessionView
  <2>2. \A q \in Requests \ {r} : sd'[q] = sd[q]
    BY DEF SetToken, TimeoutInv, TypeInv, TypeOK
  <2>. QED
    BY <2>1, <2>2
<1>3. UNCHANGED <<jarMain, resp, granted>>
  BY DEF SetToken, jarVars
<1>4. MainsConsistent'
  BY <1>1, <1>3 DEF TimeoutInv, MainsConsistent
<1>5. AbsoluteTimeout'
  BY <1>3 DEF TimeoutInv, AbsoluteTimeout
<1>6. QED
  BY <1>4, <1>5 DEF TimeoutStep

LEMMA SaveTimeout ==
    ASSUME TimeoutInv, NEW r \in Requests, Save(r)
    PROVE  TimeoutStep
BY DEF TimeoutInv, TimeoutStep, MainsConsistent, AbsoluteTimeout, Save,
       SaveHeaders, TypeInv, TypeOK, jarVars

LEMMA ClearWithWriterTimeout ==
    ASSUME TimeoutInv, NEW r \in Requests, NEW v \in SessionView,
           ClearWithWriter(r, v), UNCHANGED <<jarMain, granted>>
    PROVE  TimeoutStep
BY DEF TimeoutInv, TimeoutStep, MainsConsistent, AbsoluteTimeout,
       ClearWithWriter, ClearedView, SaveHeaders, NoMain, TypeInv, TypeOK

LEMMA ClearTimeout ==
    ASSUME TimeoutInv, NEW r \in Requests, Clear(r)
    PROVE  TimeoutStep
<1>1. sd[r] \in SessionView
  BY DEF TimeoutInv, TypeInv, TypeOK
<1>2. QED
  BY <1>1, ClearWithWriterTimeout DEF Clear, jarVars

LEMMA HandleLogoutTimeout ==
    ASSUME TimeoutInv, NEW r \in Requests, HandleLogout(r)
    PROVE  TimeoutStep
<1>1. LoadView \in SessionView
  BY LoadViewType DEF TimeoutInv, TypeInv
<1>2. QED
  BY <1>1, ClearWithWriterTimeout
     DEF HandleLogout, GetSessionExpired, jarVars, TimeoutInv, TimeoutStep,
         MainsConsistent, AbsoluteTimeout

(* The step that grants access: GetAuthenticated's elapsed-time check on  *)
(* created_at is a check on the time of the login.                        *)
LEMMA CheckAuthenticatedTimeout ==
    ASSUME TimeoutInv, NEW r \in Requests, CheckAuthenticated(r)
    PROVE  TimeoutStep
<1>1. /\ sd[r].main.login # NoTime
      /\ now - sd[r].main.login <= Timeout
  BY DEF CheckAuthenticated, GetAuthenticated, TimeoutInv, MainsConsistent
<1>2. QED
  BY <1>1 DEF TimeoutInv, TimeoutStep, MainsConsistent, AbsoluteTimeout,
              CheckAuthenticated, TypeInv, TypeOK, jarVars
LEMMA RespondTimeout ==
    ASSUME TimeoutInv, NEW r \in Requests, Respond(r)
    PROVE  TimeoutStep
BY DEF TimeoutInv, TimeoutStep, MainsConsistent, AbsoluteTimeout, Respond,
       NoView, NoMain, NoGrant, TypeInv, TypeOK, jarVars

LEMMA DeliverTimeout ==
    ASSUME TimeoutInv, NEW r \in Requests, Deliver(r)
    PROVE  TimeoutStep
<1>1. jarMain'.val = resp[r].main
  BY DEF Deliver
<1>2. QED
  BY <1>1 DEF TimeoutInv, TimeoutStep, MainsConsistent, AbsoluteTimeout,
              Deliver, NoView, NoResp, SaveHeaders, NoMain, NoGrant,
              TypeInv, TypeOK

LEMMA TickTimeout ==
    ASSUME TimeoutInv, Tick
    PROVE  TimeoutStep
BY DEF TimeoutInv, TimeoutStep, MainsConsistent, AbsoluteTimeout, Tick,
       jarVars

LEMMA NextTimeout ==
    TimeoutInv /\ [Next]_vars => TimeoutInv'
<1> SUFFICES ASSUME TimeoutInv, [Next]_vars PROVE TimeoutInv'
  OBVIOUS
<1>1. TypeInv'
  BY NextType DEF TimeoutInv
<1>2. TimeoutStep
  <2>1. CASE Tick
    BY <2>1, TickTimeout
  <2>2. ASSUME NEW r \in Requests,
               \/ GetSession(r)
               \/ HandleLogout(r)
               \/ \E v \in BOOLEAN : SetAuthenticated(r, v)
               \/ \E t \in Tokens :
                    \/ "access" \in TokenSlots /\ SetAccessToken(r, t)
                    \/ "refresh" \in TokenSlots /\ SetRefreshToken(r, t)
               \/ CheckAuthenticated(r)
               \/ Save(r)
               \/ Clear(r)
               \/ Respond(r)
               \/ Deliver(r)
        PROVE  TimeoutStep
    BY <2>2, GetSessionTimeout, HandleLogoutTimeout, SetAuthenticatedTimeout,
       SetTokenTimeout, CheckAuthenticatedTimeout, SaveTimeout, ClearTimeout,
       RespondTimeout, DeliverTimeout DEF SetAccessToken, SetRefreshToken
  <2>3. CASE UNCHANGED vars
    BY <2>3 DEF vars, TimeoutInv, TimeoutStep, MainsConsistent, AbsoluteTimeout
  <2>4. QED
    BY <2>1, <2>2, <2>3 DEF Next
<1>3. QED
  BY <1>1, <1>2 DEF TimeoutInv, TimeoutStep

(* Absolute session timeout, for every number of concurrent requests,     *)
(* every token set, cookie size and timeout: a request is treated as      *)
(* authenticated only within Timeout of the login whose flag its session *)
(* carries, however the responses of concurrent requests were            *)
(* interleaved and however often the session was saved (GetSession,      *)
(* Save and GetAuthenticated of session.go).                              *)
THEOREM AbsoluteTimeoutHolds == Spec => []AbsoluteTimeout
<1>1. Init => TimeoutInv
  BY InitTimeout
<1>2. TimeoutInv /\ [Next]_vars => TimeoutInv'
  BY NextTimeout
<1>3. TimeoutInv => AbsoluteTimeout
  BY DEF TimeoutInv
<1>4. QED
  BY <1>1, <1>2, <1>3, PTL DEF Spec
====

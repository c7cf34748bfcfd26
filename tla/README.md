# Formal models of traefikoidc's session, token exchange and token cache

This directory holds TLA+ models of three parts of the traefikoidc middleware:

- the cookie session layer (`src/session.go`) and the logout handler;
- the token-endpoint exchange (`exchangeTokens` and its two wrappers);
- the `TokenCache` of validated claims.

The last three live in `src/unnamed/part_000`. The directory also holds the
TLC configurations that model-check the models, an abstract specification of
the token cache with a refinement proof, and TLAPS proofs of type correctness,
the absolute session timeout and the redirect bound for every value of the
constants.

## The system

The middleware keeps no server-side session store. Everything about a user's
session lives in cookies that the browser sends back on every request:

- `_oidc_raczylo_m` is the main partition: `authenticated`, `created_at`, and
  the CSRF, nonce, PKCE verifier, email and incoming-path strings.
- `_oidc_raczylo_a` and `_oidc_raczylo_r` hold the access and refresh tokens,
  with keys `token` and `compressed`.
- `_oidc_raczylo_a_N` and `_oidc_raczylo_r_N` are chunk cookies (`token_chunk`),
  used when a compressed token exceeds `maxCookieSize`.

A request handler goes through four stages:

1. It takes a `SessionData` from a process-wide `sync.Pool` (`GetSession`).
2. It loads the main partition, rejects it when `created_at` is older than
   `absoluteSessionTimeout`, then loads the token partitions and the chunks
   `_0, _1, ...` up to the first missing one.
3. It changes the session in memory (`SetAuthenticated`, `SetAccessToken`,
   `SetRefreshToken`; each setter compresses the token and splits it into
   chunks when it is too long).
4. It writes all partitions back as `Set-Cookie` headers (`Save`), or empties
   them (`Clear`, which also returns the instance to the pool).

Several requests of one browser can be in flight at once. Each saves the
snapshot it loaded and changed, and the browser applies the responses in
whatever order they arrive.

Two more components are used by the handlers of every request at once:

- **The token exchange** posts a form to the provider's token endpoint
  (`grant_type` `authorization_code` with the code, redirect URI and, under
  PKCE, the verifier; or `refresh_token`). Each call uses a request-scoped
  `http.Client` with the configured timeout. Its `CheckRedirect` refuses a
  redirect once `len(via) >= 50`. The result is a transport error, a status
  error, a decode error or the tokens. Both wrappers pass
  `context.Background()`.
- **TokenCache** is a process-wide map from a raw token to its validated
  claims. It prefixes every key with `t-`, type-asserts what it reads back,
  and relies on `Cache` (not under `src/`) for locking and absolute expiry.

They interact with the session through the handlers outside `src/`. A
refresh handler exchanges the session's refresh token and stores the new one
in the session. A request handler looks its access token up in the cache and
validates it on a miss. `TokenCache.Delete` revokes an entry, but no code
under `src/` calls it (`handleLogout` does not); a revocation comes from a
caller outside `src/`, which the model lets happen at any time.

## Modules

| module | what it is |
|---|---|
| `SessionStore.tla` | the component model: the browser's cookie jar, concurrent requests with their `SessionData`, the pool, `handleLogout` |
| `MCSessionStore.tla` | model values and constant definitions for TLC |
| `SessionStoreProofs.tla` | TLAPS proofs of `TypeOK` and `AbsoluteTimeout` |
| `TokenExchange.tla` | concurrent exchanges, the provider (rotating refresh tokens), the client timer, cancellation of the incoming request, and the handler storing the new refresh token |
| `MCTokenExchange.tla` | model values for TLC |
| `ExchangeContract.tla` | the abstract client contract of `exchangeTokens` (spec sections 4.3 and 5): one call per invocation, at most one issue per invocation, tokens only if issued for it, every call returns |
| `TokenExchangeProofs.tla` | TLAPS proofs of `TypeOK`, `RedirectsBounded` and of the refinement of `ExchangeContract` (safety part) |
| `ClaimsCache.tla` | the abstract token cache of spec section 4.4 |
| `TokenCache.tla` | `TokenCache` over `Cache`, used by concurrent handlers, and its refinement mapping to `ClaimsCache` |
| `MCTokenCache.tla` | model values for TLC |
| `TokenCacheProofs.tla` | TLAPS proof of the refinement (safety part) and of its invariant |

### How SessionStore corresponds to the code

**Data abstraction**

- A token is a model value `t`. Its compressed form is the string of
  `CompLen[t]` characters `<<t,1>>..<<t,CompLen[t]>>`.
- `DecompressToken` inverts exactly those strings. Any other string it returns
  unchanged, which is `decompressToken`'s fallback.
- Lengths are counted in the unit `MaxCookieSize` is given in.
- `SplitIntoChunks` is `splitIntoChunks` on such strings.
- Time is counted in ticks. `Timeout` is `absoluteSessionTimeout`, which
  `getSessionOptions` also uses as every cookie's MaxAge (`CookieMaxAge`).

**State**

| variable | what it models |
|---|---|
| `jarMain`, `jarTok[s]`, `jarChunk[s][i]` | the cookies the browser holds: a value and an expiry time; a cookie is sent while `now < exp` |
| `pc[r]`, `sd[r]`, `resp[r]` | request `r`'s stage, its `SessionData` (a `SessionView`), and the headers of its response |
| `intended`, `lastWrite`, `lastKind`, `granted`, `lastLoad`, `prevLoad`, and the `login` field of a main partition | history variables that only the properties read |

**Actions**

Each action is one handler or one method, including every state change it
makes.

| action | what it models |
|---|---|
| `GetSession` | pool Get, main load, the absolute-timeout early return with `Clear(r, nil)`, token and chunk loads |
| `SetAuthenticated` | stamps `created_at` when given true |
| `SetAccessToken` / `SetRefreshToken` | both through `SetToken`: expire (without effect), replace the chunk map, inline or chunked store |
| `Save` | all partitions written with `getSessionOptions` |
| `Clear` | emptied partitions and chunks, saved, instance returned to the pool |
| `HandleLogout` | `GetSession`, then its error path or `Clear(req, rw)` |
| `CheckAuthenticated` and `Respond` | the middleware's use of `GetAuthenticated`, and a handler that answers without saving; these are outside `src/` and marked `spec_modelled` |
| `Deliver` | the browser applying a response's headers |
| `Tick` | the clock advancing |

`Init` is the state after a successful `NewSessionManager`: an empty pool
whose `New` makes empty chunk maps, and a browser with no cookies. The
encryption-key length check (`session.go:141-143`) only refuses to build
a manager, and is not modelled.

**Save never fails in the model.** It fails only when securecookie cannot
encode a partition. That needs a value gob cannot encode, or an encoded cookie
over 4096 bytes, and neither can happen for strings, booleans, int64 and chunks
of at most 2000 characters. A handler answering without saving is `Respond`.

**The pool is shared by all browsers.** Any `Get` may therefore return a
reused instance (another user's `Clear` put it back) or a fresh one (the pool
is empty, or a GC emptied it). `PoolGet` is that choice.

An idle request's `SessionData` is reset, because nothing reads it again.

### How TokenExchange corresponds to the code

Each caller `c` is one goroutine inside `exchangeTokens`.

- `st[c]` is its stage: `idle`, `inflight` (a request is on the wire),
  `answered` (an answer is back), or `done`.
- `grant[c]`, `form[c]` and `sentRT[c]` are the grant type, the set of form
  fields sent, and the refresh token sent.
- `via[c]` is `len(via)`, the number of requests made.
- `answer[c]` is the provider's answer, and `result[c]` what `exchangeTokens`
  returns.
- `cancelled[c]` records that the handler's own request was cancelled.
- The provider's state is `valid` (the refresh tokens it accepts) and
  `lastRT`. The session's refresh token is `browserRT`.

| action | code |
|---|---|
| `ExchangeCodeForToken`, `GetNewTokenWithRefreshToken` | the wrappers: PKCE verifier only when `enablePKCE` and non-empty, `context.Background()` |
| `SendExchange` (with `FormData`) | building the form, the client, and the first POST |
| `FollowRedirect` / `RefuseRedirect` | `client.Do` on a redirect, with `CheckRedirect`'s `len(via) >= 50` as `RedirectAllowed` |
| `ReceiveAnswer` (with `AnswerResult`) | the transport-error, status, decode and success returns |
| `TimerFires` | the client timeout ending `client.Do`; `t.httpClient.Timeout` is set outside `src/` and may be zero (no timer), so the step may or may not happen |
| `ProviderHandle`, `IssueTokens` | the provider (spec-modelled): invalid_grant for a refresh token it no longer accepts, otherwise tokens, a garbled body, an error status, a redirect or a broken connection |
| `Cancel`, `CallerReturns` | the handler around the call (spec-modelled): its request cancelled; the new refresh token stored in the session unless the request was cancelled |

**Refinement.** `ExchangeContract` sees an invocation only as a call
(`idle`, `calling`, `done`). The mapping `CallOf` sends `inflight` and
`answered` to `calling` and leaves every other variable as it is, with
`issuedRT` as the contract's `issued`. Redirects, the form and the answer on
the wire are hidden: `FollowRedirect` and a provider answer that issues
nothing are stutters, and a provider answer with tokens is the contract's
`Issue`. `RefuseRedirect`, `TimerFires` and `ReceiveAnswer` are `Return`.

The redirect cap is the constant `RedirectCap` (50 in the code). A token
string is a number: the provider issues 1, 2, ... up to `MaxTokens`.

### How TokenCache corresponds to the code

- `cache` is the `Cache`: a key maps to `[val, exp]` or to no entry.
  `TokenCacheSet`, `TokenCacheGet` (with `IsClaimsMap`, the type assertion),
  `TokenCacheDelete` and `TokenCacheCleanup` are the four methods. `Key(t)` is
  `"t-" + t`, a key distinct from every raw token.
- `CacheSet`, `CacheGet`, `CacheDelete` and `CacheCleanup` are the `Cache`
  methods, modelled from the spec. Each runs under the cache's mutex, so each
  is part of one atomic action.
- The handlers (spec-modelled) are `Lookup` (Get; a hit serves, a miss goes
  to validation), `Validated` (Set of the claims), `ValidationFailed`,
  `Finish`, `Revoke` (Delete), `Sweep` (Cleanup) and `Tick`.
- `epoch`, `seenEpoch` and `setEpoch` are history: how often a token was
  deleted, and how often it had been when the validation that stored it began.

`ClaimsCache` is what the spec promises: a map from a token to its claims and
expiry, `Get` replies found only for an unexpired entry, `Cleanup` evicts
every expired entry, and the owner runs `Cleanup` periodically
(`WF_avars(Cleanup)`). The variable `got` holds each request's last reply
until the request releases it, so that every `Get` is a visible step. The
refinement mapping is

    entries <- [t \in Tokens |-> AbsEntry(cache[Key(t)])]

Raw-token keys of the `Cache` are invisible to the abstract map.
`TokenCache`'s `Lookup` is the abstract `Get`, `Finish` is `Release`,
`Validated` is `Set`, and `ValidationFailed` is a stutter.

## Runs

### SessionStore

All SessionStore runs use `MaxCookieSize = 2`. Token `t1` compresses to 2 units (inline),
`t2` to 3 (two chunks, the second short), and `t3` to 5 (three chunks).

| run | cfg | expect | what it checks |
|---|---|---|---|
| concurrent | `SessionStore_concurrent.cfg` | pass | `AbsoluteTimeout` with two concurrent requests, responses delivered in any order, `Timeout = 1`, clock to 2 |
| two_slots | `SessionStore_two_slots.cfg` | pass | `TypeOK` and `StoredTokenReadable` (set-then-get returns the token, per partition) with both token partitions and tokens of 1 and 2 chunks |
| stale_chunks | `SessionStore_stale_chunks.cfg` | violation | `TokenRoundTrip`: what a later request reads is the token last written |
| clear_keeps_cookies | `SessionStore_clear_keeps_cookies.cfg` | violation | `ClearExpiresCookies`: Clear's headers remove the main cookie |
| expiry_panic | `SessionStore_expiry_panic.cfg` | violation | `NoNilDereference`: the expiry path does not dereference nil partitions |
| expiry_lockout | `SessionStore_expiry_lockout.cfg` | violation | `ExpiryAllowsNewLogin`: after "session expired", the next GetSession succeeds |

**Why these bounds are enough**

- Two requests are the smallest number for which one response can overtake
  another.
- One tick more than the timeout reaches both the expired-but-still-sent main
  cookie and a response delivered after expiry. Every cookie then lives
  `Timeout` ticks past its delivery.
- Tokens of 1, 2 and 3 chunks cover:
  - the inline/chunk threshold;
  - a short last chunk;
  - a chunked token replaced by a shorter one, which is where stale chunks
    appear.

The passing runs reach about 180k and 90k distinct states, in under 20 seconds each.

**Mutants.** Each passing property has a mutant that TLC must catch:

- `AbsoluteTimeout` fails when `GetAuthenticated` drops its elapsed-time check:
  a request loaded just before expiry would stay authenticated.
- `TypeOK` fails when the cookie MaxAge is one tick past the timeout.
- `StoredTokenReadable` fails when `SetRefreshToken` is a copy of
  `SetAccessToken` that still writes the access partition.

**What the violations show** (the findings in `PROJECT.json`):

1. **Stale chunks** (`session.go:497`). `SetAccessToken` replaces the chunk map,
   so nothing ever expires the chunk cookies of the previous token. In the
   trace, a chunked token is stored, then a request stores an inline one and
   clears the session. The browser keeps the old chunks, and the next
   `GetAccessToken` returns their raw concatenation. (`Clear`,
   `session.go:369`, also expires only the chunks its own request loaded;
   whether chunks of a concurrent save outlive a logout is not checked by
   any run.)
2. **Clear keeps the cookies** (`session.go:300`). `Save` overwrites Clear's
   `MaxAge = -1` with 24 hours, so the "expired" cookies are empty cookies
   that live for a day.
3. **Nil dereference** (`session.go:355`). On an instance fresh from the pool,
   the expiry path calls `Clear` before `accessSession` is loaded.
4. **Lockout** (`session.go:203`). The expiry path writes no header, so the
   expired main cookie stays. Every later request, logout included, gets
   "session expired" until the browser drops the cookie.

The model also reaches a logout being undone (`part_000:263`). A request that
loaded the authenticated session before the logout answers after it, and
its `Save` writes the authenticated main cookie back. No property is checked
for it, because the server keeps no state that could refuse the cookie: it
is the design of a session held only in cookies, not a defect of a step.

### TokenExchange

All runs use `RedirectCap = 2`, `MaxTokens = 3`, PKCE on and a rotating
provider.

| run | cfg | expect | what it checks |
|---|---|---|---|
| exchange_liveness | `TokenExchange_liveness.cfg` | pass | two callers: `TypeOK`, `RedirectsBounded` (at most `RedirectCap` requests per exchange), `ExchangeReturns` (every exchange returns) and `ContractRefined` (the run implements `ExchangeContract!Spec`, fairness included) |
| redirect_cap | `TokenExchange_redirect_cap.cfg` | violation | `RedirectCapAsSpecified`: the redirect error only comes after more than `RedirectCap` redirects |
| cancel_ignored | `TokenExchange_cancel_ignored.cfg` | violation | `CancelStopsExchange`: after the caller's request is cancelled, nothing more is sent and no tokens are returned |
| refresh_replay | `TokenExchange_refresh_replay.cfg` | violation | `RefreshTokenAccepted`: a refresh sends a token the provider still accepts |

A cap of 2 lets an exchange follow one redirect and be refused at the next,
which is where an off-by-one shows. Three tokens let two refreshes redeem
the same token after an authorization-code exchange. The passing run
reaches about 332k distinct states in about two minutes.

Mutants: `TypeOK` fails when `getNewTokenWithRefreshToken` sends the grant
type `"refresh"`. `RedirectsBounded` fails when the check is `len(via) > cap`.
`ExchangeReturns` fails when the client resends the request after a broken
connection (`ReceiveAnswerRetry`): a provider that keeps failing then keeps
it waiting forever. `ContractRefined` fails when an undecodable 200
answer is returned as tokens: tokens the provider never issued reach the
caller.

What the violations show:

1. **The cap is one short** (`part_000:110`). `via` already holds the
   requests made, so `len(via) >= 50` refuses the 50th redirect. The spec
   says a 50-redirect cap with an error beyond it.
2. **Cancellation is ignored** (`part_000:146`, `:225`). The wrappers pass
   `context.Background()`, so a cancelled handler's exchange goes on following
   redirects and may still return tokens. The spec (section 5) requires the
   exchange to honor cancellation. Tokens issued for it are lost, and under
   rotation the session's refresh token is then dead.
3. **Refresh replay** (`session.go:283`). The refresh lock belongs to one
   `SessionData`. Two requests of one browser both redeem the same refresh
   token, and a rotating provider refuses the second. A timer firing after
   the provider issued tokens has the same effect on the retry.

### TokenCache

One token, two requests, claims `cl1`/`cl2`, TTLs 0, 1 and 2, the clock to 3,
one revocation.

| run | cfg | expect | what it checks |
|---|---|---|---|
| cache_refinement | `TokenCache_refinement.cfg` | pass | `ClaimsCacheRefined`: TokenCache over Cache implements `ClaimsCache`, fairness of eviction included |
| cache_revocation | `TokenCache_revocation.cfg` | violation | `RevocationSticks`: a hit never serves claims from a validation that began before the token was last deleted |

TTL 0 stores an entry that is already expired, and TTLs 1 and 2 expire at
different ticks. The clock running to 3 lets every entry expire and be
swept. The key-namespacing bug needs only one token: the mutant that drops
the `t-` prefix from `Get` misses every entry `Set` stored, and the
refinement fails at the first hit. A second token made the run about 40
times longer and reached no new kind of step. The passing run has about 6k
distinct states.

**Revocation race** (`part_000:193`). A handler misses, a caller outside
`src/` deletes the token, then the handler's validation (begun before the delete) `Set`s the
claims. The next lookup serves the revoked token until its TTL ends. The
spec does not say whether a delete wins over a validation in flight.

## Fairness and liveness

- **TokenExchange** assumes weak fairness of the client's own steps
  (`FollowRedirect`, `RefuseRedirect`, `ReceiveAnswer`): `client.Do` runs on
  in its goroutine once an answer is back. It assumes that the provider
  answers every request (`WF(ProviderHandle)`), but any answer, a redirect
  or a failure included. It does not assume that the client timer fires:
  `t.httpClient.Timeout` is set outside `src/` and zero means no timeout.
  `ExchangeReturns` therefore holds because of the redirect cap and because
  `exchangeTokens` never resends, not because of the timer. A provider that
  never answers would hang an exchange that has no timeout; the model does
  not check that case, since nothing in `src/` can end it.
  `ExchangeContract` asks for weak fairness of each invocation's `Return`,
  which `ContractRefined` checks follows from these.
- **TokenCache** assumes weak fairness of `Sweep`. The spec says the owner
  invokes `Cleanup` periodically. `ClaimsCache` promises the same
  `WF(Cleanup)`, and the refinement run checks that the concrete sweep
  delivers it.

The SessionStore properties are safety properties, and no fairness is assumed.
`ExpiryAllowsNewLogin` states the spec's "the caller restarts the login flow"
as a safety property over two consecutive loads. That form is enough to refute
it.

The code gives no scheduling guarantee. A browser may never send another
request, and the model lets requests stop (deadlock is still checked; `Tick`
and new requests are always possible until the clock bound, and `Deliver` or
`Respond` always finishes a request).

## What is proved

`SessionStoreProofs.tla` proves the following for every value of the
constants allowed by `ParamsAssumption` and `ChunksAssumption`:

**`TypeCorrect`** (`Spec => []TypeOK`).

- `TypeOK` is not inductive as it stands: `Deliver` turns a response's MaxAge
  into an expiry time.
- The inductive invariant `TypeInv` therefore adds `ResponsesKeepMaxAge`:
  every response carries `getSessionOptions`' MaxAge.
- Lemmas cover:
  - the type of `SplitIntoChunks` (at most `MaxChunks` string chunks, from
    `SubSeqProperties`);
  - the number of chunks `GetSession` loads (a cardinality bound, from
    `FS_Subset`);
  - the views `GetSession` and `Clear` build, and the headers `Save` builds;
  - one step lemma per action.

**`AbsoluteTimeoutHolds`** (`Spec => []AbsoluteTimeout`).

- The inductive invariant adds `MainsConsistent`: every main partition carries
  the `created_at` of the login that set its flag. This covers the browser's
  cookie, every request's `SessionData` and every response.
- `MainsConsistent` holds because no step but `SetAuthenticated(true)` writes
  `created_at`. Save, GetSession, concurrent responses and the browser all
  carry it unchanged.
- `GetAuthenticated`'s elapsed-time check then bounds the time of every grant.

`TokenExchangeProofs.tla` proves, under `ExchangeAssumption` (a positive
cap, a positive token bound, Boolean flags), for any set of callers:

**`TypeCorrect`** and **`RedirectsBoundedHolds`** (`Spec => []TypeOK`,
`Spec => []RedirectsBounded`).

- The inductive invariant `ExchangeInv` adds two conjuncts to `TypeOK` and
  `RedirectsBounded`:
  - `AnsweredHasAnswer`: an exchange holds a real answer exactly when it is
    answered, which `ReceiveAnswer`'s lookup in `AnswerResult` needs;
  - `TokensCarryRT`: a tokens answer or result carries an issued refresh
    token, which `CallerReturns` hands to the browser.
- The redirect bound is inductive with them. `FollowRedirect` increments
  `via` only when `~(via >= cap)`, and every other step resets it to 1 or 0
  or leaves it.
- There is one lemma per action; the provider's lemma has one case per
  answer.

`TokenCacheProofs.tla` proves, under `TokenCacheAssumption`:

**`RefinesClaimsCache`** (`Spec => Abs!Init /\ [][Abs!Next]_Abs!avars`): the
safety part of the refinement, for any sets of requests, tokens, claims and
TTLs.

- The invariant `CacheInv` is `TypeOK` plus `ReplyFreeWhenIdle`: a request
  holds a reply exactly when it is not idle. This gives the abstract `Get`
  its guard `got[r] = NoReply` and `Release` its guard `got[r] # NoReply`.
- `KeyInjective` (`Key(t) = Key(u) => t = u`) is what the mapping needs.
  Every `EXCEPT` on `Key(t)` changes exactly the abstract entry of `t`.
- `AbsEntryLive` shows that the concrete liveness of an entry is the
  abstract `Live`, so `TokenCacheGet` returns what the abstract `Get` does.
- There is one lemma per concrete action, naming the abstract step it maps
  to.

**`RefinesExchangeContract`** (`Spec => Contract!Init /\
[][Contract!Next]_Contract!avars`): the safety part of `ContractRefined`.

- The invariant `ContractInv` adds `FreshIssue` to `ExchangeInv`: an
  exchange holds an issued refresh token only once the provider answered it
  with tokens, or once it is done. It was checked by TLC on the liveness
  run before it was proved.
- It is needed for the contract's `Issue` guard `issued[c] = NoRT`: a
  provider step that issues tokens happens only while the exchange is in
  flight, and `FreshIssue` says no token was issued to it then. Without it
  an issue would seem possible twice per invocation.
- `TokensCarryRT` gives `Return`'s guard: tokens are returned only with an
  issued refresh token.
- There is one lemma per action (`SendRefines`, `ProviderRefines`,
  `FollowRefines`, `FinishRefines`, `CancelRefines`, `ReturnsRefines`),
  combined in `NextRefines`; `CallMapStep` states how the mapped call
  changes under an `EXCEPT` on `st`.

**Left to TLC.**

- The SessionStore token properties need `FlattenSeq` (a fold) and
  `DecompressToken`, and are only model-checked.
- Liveness is out of reach of the prover, as is `ENABLED`. That covers
  `ExchangeReturns` and the fairness conjuncts of `ContractRefined` and
  `ClaimsCacheRefined`.
- All the violations are found by TLC.

## Not modelled

- The CSRF, nonce, code-verifier, email and incoming-path getters and
  setters (`session.go:670-758`).
  - Each is one string read or written in the main partition. `Save` writes
    them in one cookie together with `authenticated`, so concurrent responses
    can only replace them as a whole, as the main partition already is.
  - The handlers that compare them (the callback's state, nonce and PKCE
    checks) are outside `src/`, and the spec gives only their purpose. A
    property about them would be about an invented handler.
- `expireAccessTokenChunks` / `expireRefreshTokenChunks`
  (`session.go:602-641`). Called with a nil writer, they empty chunk objects
  that no `Save` ever writes, because `SetAccessToken` replaces the chunk map
  right after. `SetToken` models that absence of effect, which is the
  stale-chunks finding.
- `extractClaims`, `createStringMap`, `BuildLogoutURL`, and the PKCE and nonce
  generators. These are pure parsing, formatting and encoding with no state
  and no concurrency, and a model value stands for their output. Unit tests
  reach everything TLC could explore in them.
- The plugin manifest, which is configuration data.
- `Cache` beyond what the spec says. Its real code is not in `src/`.
- Cookie tampering and key rotation, which make `store.Get` fail.
- Things the code does that no property depends on, noted here for readers:
  - the single-key `CookieStore` signs the cookies but does not encrypt them;
  - `SetAuthenticated`'s new session ID is never written by a cookie store, so
    it gives no protection against fixation;
  - `Save`'s `isSecure` reads `r.URL.Scheme`, which is empty on server
    requests;
  - `handleLogout` passes the access token as `id_token_hint`.

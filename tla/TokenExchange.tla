--------------------------- MODULE TokenExchange ---------------------------
(***************************************************************************)
(* The token-endpoint exchange of src/unnamed/part_000: exchangeTokens,    *)
(* exchangeCodeForToken and getNewTokenWithRefreshToken, called            *)
(* concurrently by the handlers of several requests (Callers).             *)
(*                                                                         *)
(* Each call builds the form for its grant type, sends one POST through a  *)
(* request-scoped http.Client and follows the provider's redirects until   *)
(* CheckRedirect refuses one.  It ends with an error or with the tokens.   *)
(* The client has the timeout of t.httpClient, but both wrappers pass      *)
(* context.Background(), so the handler's own request context never        *)
(* reaches it.                                                              *)
(*                                                                         *)
(* The provider and the handler around the call are not in src/.  They are *)
(* modelled from the spec: a provider that may rotate refresh tokens       *)
(* (a redeemed one is refused), and a handler that stores the refresh      *)
(* token it obtained in the browser's session.                             *)
(***************************************************************************)
EXTENDS Naturals, FiniteSets

CONSTANTS
    Callers,        \* handler goroutines that may call the exchange at once
    RedirectCap,    \* the 50 of `len(via) >= 50` in CheckRedirect
    EnablePKCE,     \* t.enablePKCE
    Rotation,       \* the provider invalidates a refresh token once redeemed
    MaxTokens       \* bound on the refresh tokens the provider issues

ASSUME ExchangeAssumption ==
    /\ RedirectCap \in Nat \ {0}
    /\ EnablePKCE \in BOOLEAN
    /\ Rotation \in BOOLEAN
    /\ MaxTokens \in Nat \ {0}

\* Refresh tokens are numbered in the order the provider issues them.
RefreshTokens == 1..MaxTokens
NoRT == 0

FormFields == {"grant_type", "client_id", "client_secret", "code",
               "redirect_uri", "code_verifier", "refresh_token"}
Grants == {"authorization_code", "refresh_token"}
NoGrant == "none"

\* What the provider can answer to one POST (a redirect answer keeps the
\* method and the body, as 307/308 do), and the failure of the transport.
Answers == {"tokens", "garbled", "error_status", "redirect", "conn_error"}
NoAnswer == "none"

\* The outcome exchangeTokens returns, by the error it wraps.
Results == {"tokens", "err_exchange", "err_redirect", "err_status", "err_decode"}
NoResult == "none"

\* exchangeTokens' url.Values: the base fields, then those of the grant.
FormData(grantType, codeVerifier) ==
    {"grant_type", "client_id", "client_secret"}
    \cup (IF grantType = "authorization_code"
          THEN {"code", "redirect_uri"}
               \cup (IF codeVerifier THEN {"code_verifier"} ELSE {})
          ELSE IF grantType = "refresh_token"
          THEN {"refresh_token"}
          ELSE {})

VARIABLES
    st,         \* st[c]: "idle", "inflight" (a POST at the provider),
                \* "answered" (an answer on its way back) or "done"
    grant,      \* grant[c]: the grant type of c's exchange
    form,       \* form[c]: the fields of c's request body
    sentRT,     \* sentRT[c]: the refresh token in c's body, or NoRT
    via,        \* via[c]: the requests c's client has made (len(via))
    answer,     \* answer[c]: the provider's answer in flight to c
    issuedRT,   \* issuedRT[c]: the refresh token carried by that answer
    result,     \* result[c]: what exchangeTokens returned to c
    cancelled,  \* cancelled[c]: c's incoming request was cancelled
    valid,      \* the refresh tokens the provider accepts
    lastRT,     \* the last refresh token the provider issued
    browserRT   \* the refresh token the browser's session holds

vars == <<st, grant, form, sentRT, via, answer, issuedRT, result, cancelled,
          valid, lastRT, browserRT>>

TypeOK ==
    /\ st \in [Callers -> {"idle", "inflight", "answered", "done"}]
    /\ grant \in [Callers -> Grants \cup {NoGrant}]
    /\ form \in [Callers -> SUBSET FormFields]
    /\ sentRT \in [Callers -> RefreshTokens \cup {NoRT}]
    /\ via \in [Callers -> Nat]
    /\ answer \in [Callers -> Answers \cup {NoAnswer}]
    /\ issuedRT \in [Callers -> RefreshTokens \cup {NoRT}]
    /\ result \in [Callers -> Results \cup {NoResult}]
    /\ cancelled \in [Callers -> BOOLEAN]
    /\ valid \subseteq RefreshTokens
    /\ lastRT \in RefreshTokens
    /\ browserRT \in RefreshTokens

\* The browser holds the first refresh token of a login made earlier.
Init ==
    /\ st = [c \in Callers |-> "idle"]
    /\ grant = [c \in Callers |-> NoGrant]
    /\ form = [c \in Callers |-> {}]
    /\ sentRT = [c \in Callers |-> NoRT]
    /\ via = [c \in Callers |-> 0]
    /\ answer = [c \in Callers |-> NoAnswer]
    /\ issuedRT = [c \in Callers |-> NoRT]
    /\ result = [c \in Callers |-> NoResult]
    /\ cancelled = [c \in Callers |-> FALSE]
    /\ valid = {1}
    /\ lastRT = 1
    /\ browserRT = 1

\* exchangeTokens up to client.Do's first request: the form is built, the
\* client is created with its redirect check and timeout, and the POST goes
\* out (it is one of `via` from now on).
SendExchange(c, grantType, rt, codeVerifier) ==
    /\ st[c] = "idle"
    /\ st' = [st EXCEPT ![c] = "inflight"]
    /\ grant' = [grant EXCEPT ![c] = grantType]
    /\ form' = [form EXCEPT ![c] = FormData(grantType, codeVerifier)]
    /\ sentRT' = [sentRT EXCEPT ![c] = rt]
    /\ via' = [via EXCEPT ![c] = 1]
    /\ UNCHANGED <<answer, issuedRT, result, cancelled, valid, lastRT, browserRT>>

\* exchangeCodeForToken: the verifier is forwarded only when PKCE is
\* enabled and the session had one.
ExchangeCodeForToken(c, hasVerifier) ==
    SendExchange(c, "authorization_code", NoRT, EnablePKCE /\ hasVerifier)

\* getNewTokenWithRefreshToken with the refresh token of the session.
GetNewTokenWithRefreshTokenGrantTypo(c) ==
    SendExchange(c, "refresh", browserRT, FALSE)

GetNewTokenWithRefreshToken(c) ==
    SendExchange(c, "refresh_token", browserRT, FALSE)

(***************************************************************************)
(* The provider (spec_modelled).  It answers one POST of c.  A refresh     *)
(* token it no longer accepts gets an error status (invalid_grant).  Any   *)
(* other request may get tokens, a garbled body, an error status, a        *)
(* redirect, or a broken connection.  Issuing tokens issues a new refresh  *)
(* token.  Under Rotation, the redeemed one is then refused.               *)
(***************************************************************************)
IssueTokens(c) ==
    /\ lastRT < MaxTokens
    /\ lastRT' = lastRT + 1
    /\ issuedRT' = [issuedRT EXCEPT ![c] = lastRT + 1]
    /\ valid' = IF Rotation /\ grant[c] = "refresh_token"
                THEN (valid \ {sentRT[c]}) \cup {lastRT + 1}
                ELSE valid \cup {lastRT + 1}

ProviderHandle(c) ==
    /\ st[c] = "inflight"
    /\ st' = [st EXCEPT ![c] = "answered"]
    /\ \/ /\ grant[c] = "refresh_token"
          /\ sentRT[c] \notin valid
          /\ answer' = [answer EXCEPT ![c] = "error_status"]
          /\ UNCHANGED <<issuedRT, valid, lastRT>>
       \/ /\ grant[c] = "authorization_code" \/ sentRT[c] \in valid
          /\ \/ /\ answer' = [answer EXCEPT ![c] = "tokens"]
                /\ IssueTokens(c)
             \/ /\ \E a \in Answers \ {"tokens"} : answer' = [answer EXCEPT ![c] = a]
                /\ UNCHANGED <<issuedRT, valid, lastRT>>
    /\ UNCHANGED <<grant, form, sentRT, via, result, cancelled, browserRT>>

\* CheckRedirect: a redirect is followed while len(via) < 50.
RedirectAllowedOffByOne(n) == n <= RedirectCap
RedirectAllowed(n) == ~(n >= RedirectCap)

\* client.Do and the rest of exchangeTokens on a final answer: a transport
\* error, a status other than 200, a body that does not decode, or the
\* decoded TokenResponse.
AnswerResultDecodeIgnored == [a \in Answers \ {"redirect"} |->
                    CASE a = "conn_error"   -> "err_exchange"
                      [] a = "error_status" -> "err_status"
                      [] a = "garbled"      -> "tokens"
                      [] a = "tokens"       -> "tokens"]
AnswerResult == [a \in Answers \ {"redirect"} |->
                    CASE a = "conn_error"   -> "err_exchange"
                      [] a = "error_status" -> "err_status"
                      [] a = "garbled"      -> "err_decode"
                      [] a = "tokens"       -> "tokens"]

Finish(c, res) ==
    /\ st' = [st EXCEPT ![c] = "done"]
    /\ result' = [result EXCEPT ![c] = res]
    /\ answer' = [answer EXCEPT ![c] = NoAnswer]

\* client.Do receives a redirect and CheckRedirect lets it through: the
\* request is sent again, with its body, to the new location.
FollowRedirect(c) ==
    /\ st[c] = "answered"
    /\ answer[c] = "redirect"
    /\ RedirectAllowed(via[c])
    /\ st' = [st EXCEPT ![c] = "inflight"]
    /\ via' = [via EXCEPT ![c] = via[c] + 1]
    /\ answer' = [answer EXCEPT ![c] = NoAnswer]
    /\ UNCHANGED <<grant, form, sentRT, issuedRT, result, cancelled,
                   valid, lastRT, browserRT>>

\* CheckRedirect refuses the redirect: client.Do fails.
RefuseRedirect(c) ==
    /\ st[c] = "answered"
    /\ answer[c] = "redirect"
    /\ ~RedirectAllowed(via[c])
    /\ Finish(c, "err_redirect")
    /\ UNCHANGED <<grant, form, sentRT, via, issuedRT, cancelled,
                   valid, lastRT, browserRT>>

\* A client that resends the request after a broken connection.
ReceiveAnswerRetry(c) ==
    /\ st[c] = "answered"
    /\ answer[c] # "redirect"
    /\ IF answer[c] = "conn_error"
       THEN /\ st' = [st EXCEPT ![c] = "inflight"]
            /\ answer' = [answer EXCEPT ![c] = NoAnswer]
            /\ UNCHANGED result
       ELSE Finish(c, AnswerResult[answer[c]])
    /\ UNCHANGED <<grant, form, sentRT, via, issuedRT, cancelled,
                   valid, lastRT, browserRT>>

ReceiveAnswer(c) ==
    /\ st[c] = "answered"
    /\ answer[c] # "redirect"
    /\ Finish(c, AnswerResult[answer[c]])
    /\ UNCHANGED <<grant, form, sentRT, via, issuedRT, cancelled,
                   valid, lastRT, browserRT>>

\* The client copies t.httpClient.Timeout, which covers the whole exchange,
\* redirects included.  Its timer fires while c waits: client.Do fails.  An
\* answer still on its way back is lost, whatever the provider did for it.
\* (A zero Timeout means no timer; the step is then never taken, which the
\* model allows since the step is not fair.)
TimerFires(c) ==
    /\ st[c] \in {"inflight", "answered"}
    /\ Finish(c, "err_exchange")
    /\ UNCHANGED <<grant, form, sentRT, via, issuedRT, cancelled,
                   valid, lastRT, browserRT>>

\* The handler's incoming request is cancelled (the browser disconnects
\* or an upstream proxy times out).  The exchange runs under
\* context.Background(), so nothing else changes.
Cancel(c) ==
    /\ st[c] \in {"inflight", "answered"}
    /\ ~cancelled[c]
    /\ cancelled' = [cancelled EXCEPT ![c] = TRUE]
    /\ UNCHANGED <<st, grant, form, sentRT, via, answer, issuedRT, result,
                   valid, lastRT, browserRT>>

\* The handler takes the result (spec_modelled).  New tokens are stored in
\* the session and reach the browser, unless the incoming request was
\* cancelled and its response has nowhere to go.
CallerReturns(c) ==
    /\ st[c] = "done"
    /\ browserRT' = IF result[c] = "tokens" /\ ~cancelled[c]
                    THEN issuedRT[c] ELSE browserRT
    /\ st' = [st EXCEPT ![c] = "idle"]
    /\ grant' = [grant EXCEPT ![c] = NoGrant]
    /\ form' = [form EXCEPT ![c] = {}]
    /\ sentRT' = [sentRT EXCEPT ![c] = NoRT]
    /\ via' = [via EXCEPT ![c] = 0]
    /\ issuedRT' = [issuedRT EXCEPT ![c] = NoRT]
    /\ result' = [result EXCEPT ![c] = NoResult]
    /\ cancelled' = [cancelled EXCEPT ![c] = FALSE]
    /\ UNCHANGED <<answer, valid, lastRT>>

Next ==
    \E c \in Callers :
        \/ \E v \in BOOLEAN : ExchangeCodeForToken(c, v)
        \/ GetNewTokenWithRefreshToken(c)
        \/ ProviderHandle(c)
        \/ FollowRedirect(c)
        \/ RefuseRedirect(c)
        \/ ReceiveAnswer(c)
        \/ TimerFires(c)
        \/ Cancel(c)
        \/ CallerReturns(c)

\* client.Do runs on in its goroutine: once an answer is back it follows
\* or refuses the redirect, or returns, so these steps are weakly fair.
\* The provider is assumed to answer every request it receives (spec
\* section 4.3: the token endpoint).  The client's timer is NOT assumed to
\* fire: t.httpClient.Timeout is set outside src/ and may be zero, which
\* net/http takes as no timeout.  Cancel and the handler are not fair.
Fairness ==
    \A c \in Callers :
        /\ WF_vars(ProviderHandle(c))
        /\ WF_vars(FollowRedirect(c))
        /\ WF_vars(RefuseRedirect(c))
        /\ WF_vars(ReceiveAnswer(c))

Spec == Init /\ [][Next]_vars /\ Fairness

-----------------------------------------------------------------------------
(***************************************************************************)
(* Refinement: seen from its caller, the exchange is one call that         *)
(* returns.  Redirects, the form and the answer on the wire are hidden;    *)
(* a POST on its way and an answer on its way back are both "calling".    *)
(***************************************************************************)
CallOf(s) == CASE s = "idle" -> "idle"
               [] s \in {"inflight", "answered"} -> "calling"
               [] s = "done" -> "done"

Contract == INSTANCE ExchangeContract
              WITH call <- [c \in Callers |-> CallOf(st[c])], issued <- issuedRT

\* exchangeTokens keeps the client's promise: one call per invocation, no
\* retries inside, tokens returned only from the provider's answer to this
\* invocation, and every invocation returns.
ContractRefined == Contract!Spec

-----------------------------------------------------------------------------
(***************************************************************************)
(* Properties                                                              *)
(***************************************************************************)

\* CheckRedirect bounds what one exchange sends: the client of
\* exchangeTokens never makes more than RedirectCap requests (len(via)),
\* however many redirects the provider chains.
RedirectsBounded == \A c \in Callers : via[c] <= RedirectCap

\* The spec (section 4.3) puts a 50-redirect cap on the exchange, with an
\* error only beyond that.  An exchange refused by CheckRedirect has
\* therefore received more than RedirectCap redirects.
RedirectCapAsSpecified ==
    \A c \in Callers : result[c] = "err_redirect" => via[c] > RedirectCap

\* Every exchange returns, even when the client has no timeout: with a
\* provider that answers, CheckRedirect's cap ends any chain of redirects
\* and exchangeTokens never resends after a transport error or a bad
\* answer, so the provider cannot keep it waiting by redirecting or failing
\* forever.
ExchangeReturns ==
    \A c \in Callers : st[c] \in {"inflight", "answered"} ~> st[c] = "done"

\* The spec (section 5) requires that the exchange honour context
\* cancellation.  Once the handler's request is cancelled, the exchange
\* sends the provider nothing more and returns no tokens.
CancelStopsExchange ==
    [][\A c \in Callers :
         cancelled[c] /\ result[c] = NoResult =>
            /\ via'[c] <= via[c]
            /\ result'[c] # "tokens"]_vars

\* The refresh token that getNewTokenWithRefreshToken sends is one the
\* provider still accepts.  The session's instance-local refresh lock gives
\* no order between the exchanges of two requests.
RefreshTokenAccepted ==
    [][\A c \in Callers :
         ProviderHandle(c) /\ grant[c] = "refresh_token" => sentRT[c] \in valid]_vars

====

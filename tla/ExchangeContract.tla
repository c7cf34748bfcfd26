-------------------------- MODULE ExchangeContract --------------------------
(***************************************************************************)
(* What the token-exchange client promises (spec sections 4.3 and 5).     *)
(* Each invocation is one blocking outbound call with no retries inside    *)
(* it.  It returns an error, or tokens that the provider issued for this   *)
(* invocation, and the provider issues tokens at most once per invocation. *)
(* Every invocation returns, because the call is bounded by a timeout.     *)
(*                                                                         *)
(* The provider and the handler around the call are the environment, as   *)
(* in TokenExchange.  Redirects, the form and the answer on the wire are   *)
(* not visible at this level.                                              *)
(***************************************************************************)
EXTENDS Naturals

CONSTANTS Callers, Rotation, MaxTokens

RefreshTokens == 1..MaxTokens
NoRT == 0
Grants == {"authorization_code", "refresh_token"}
NoGrant == "none"
Results == {"tokens", "err_exchange", "err_redirect", "err_status", "err_decode"}
NoResult == "none"

VARIABLES
    call,       \* call[c]: "idle", "calling" or "done"
    grant,      \* grant[c]: the grant type of c's invocation
    sentRT,     \* sentRT[c]: the refresh token it redeems, or NoRT
    issued,     \* issued[c]: the refresh token issued for it, or NoRT
    result,     \* result[c]: what the invocation returned
    cancelled,  \* cancelled[c]: the caller's own request was cancelled
    valid,      \* the refresh tokens the provider accepts
    lastRT,     \* the last refresh token the provider issued
    browserRT   \* the refresh token the browser's session holds

avars == <<call, grant, sentRT, issued, result, cancelled, valid, lastRT,
           browserRT>>

Init ==
    /\ call = [c \in Callers |-> "idle"]
    /\ grant = [c \in Callers |-> NoGrant]
    /\ sentRT = [c \in Callers |-> NoRT]
    /\ issued = [c \in Callers |-> NoRT]
    /\ result = [c \in Callers |-> NoResult]
    /\ cancelled = [c \in Callers |-> FALSE]
    /\ valid = {1}
    /\ lastRT = 1
    /\ browserRT = 1

Invoke(c, g, rt) ==
    /\ call[c] = "idle"
    /\ call' = [call EXCEPT ![c] = "calling"]
    /\ grant' = [grant EXCEPT ![c] = g]
    /\ sentRT' = [sentRT EXCEPT ![c] = rt]
    /\ UNCHANGED <<issued, result, cancelled, valid, lastRT, browserRT>>

\* The provider redeems the invocation's code or refresh token, once.
Issue(c) ==
    /\ call[c] = "calling"
    /\ issued[c] = NoRT
    /\ grant[c] = "authorization_code" \/ sentRT[c] \in valid
    /\ lastRT < MaxTokens
    /\ lastRT' = lastRT + 1
    /\ issued' = [issued EXCEPT ![c] = lastRT + 1]
    /\ valid' = IF Rotation /\ grant[c] = "refresh_token"
                THEN (valid \ {sentRT[c]}) \cup {lastRT + 1}
                ELSE valid \cup {lastRT + 1}
    /\ UNCHANGED <<call, grant, sentRT, result, cancelled, browserRT>>

\* The invocation returns: tokens only if they were issued for it.
Return(c, r) ==
    /\ call[c] = "calling"
    /\ r = "tokens" => issued[c] # NoRT
    /\ call' = [call EXCEPT ![c] = "done"]
    /\ result' = [result EXCEPT ![c] = r]
    /\ UNCHANGED <<grant, sentRT, issued, cancelled, valid, lastRT, browserRT>>

Cancel(c) ==
    /\ call[c] = "calling"
    /\ ~cancelled[c]
    /\ cancelled' = [cancelled EXCEPT ![c] = TRUE]
    /\ UNCHANGED <<call, grant, sentRT, issued, result, valid, lastRT, browserRT>>

\* The handler stores the new refresh token, unless its request is gone.
Store(c) ==
    /\ call[c] = "done"
    /\ browserRT' = IF result[c] = "tokens" /\ ~cancelled[c]
                    THEN issued[c] ELSE browserRT
    /\ call' = [call EXCEPT ![c] = "idle"]
    /\ grant' = [grant EXCEPT ![c] = NoGrant]
    /\ sentRT' = [sentRT EXCEPT ![c] = NoRT]
    /\ issued' = [issued EXCEPT ![c] = NoRT]
    /\ result' = [result EXCEPT ![c] = NoResult]
    /\ cancelled' = [cancelled EXCEPT ![c] = FALSE]
    /\ UNCHANGED <<valid, lastRT>>

Next ==
    \E c \in Callers :
        \/ Invoke(c, "authorization_code", NoRT)
        \/ Invoke(c, "refresh_token", browserRT)
        \/ Issue(c)
        \/ \E r \in Results : Return(c, r)
        \/ Cancel(c)
        \/ Store(c)

\* An invocation that is calling eventually returns.
Spec == Init /\ [][Next]_avars
             /\ \A c \in Callers : WF_avars(\E r \in Results : Return(c, r))

====

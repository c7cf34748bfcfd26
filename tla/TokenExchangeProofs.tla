------------------------ MODULE TokenExchangeProofs ------------------------
(***************************************************************************)
(* TLAPS proofs about TokenExchange: the type invariant and the redirect   *)
(* bound of CheckRedirect, for every number of callers, every redirect cap *)
(* and every bound on the tokens the provider issues.                      *)
(***************************************************************************)
EXTENDS TokenExchange, TLAPS

(***************************************************************************)
(* TypeOK alone is not inductive.  ReceiveAnswer looks the answer up in    *)
(* AnswerResult, which is defined only for a real answer.  CallerReturns   *)
(* hands the browser the refresh token of a tokens answer.  The inductive  *)
(* invariant records that an exchange has an answer exactly when it is     *)
(* answered, and that a tokens answer or result carries an issued refresh  *)
(* token.                                                                  *)
(***************************************************************************)
AnsweredHasAnswer ==
    \A c \in Callers : IF st[c] = "answered" THEN answer[c] \in Answers
                                           ELSE answer[c] = NoAnswer

TokensCarryRT ==
    \A c \in Callers :
        answer[c] = "tokens" \/ result[c] = "tokens" => issuedRT[c] \in RefreshTokens

ExchangeInv == TypeOK /\ RedirectsBounded /\ AnsweredHasAnswer /\ TokensCarryRT

LEMMA InitInv == Init => ExchangeInv
BY ExchangeAssumption
DEF Init, ExchangeInv, TypeOK, RedirectsBounded, AnsweredHasAnswer,
    TokensCarryRT, RefreshTokens, NoRT, NoGrant, NoAnswer, NoResult

LEMMA FormDataType ==
    ASSUME NEW g \in Grants, NEW v \in BOOLEAN
    PROVE  FormData(g, v) \in SUBSET FormFields
BY DEF FormData, FormFields, Grants

LEMMA SendInv ==
    ASSUME ExchangeInv, NEW c \in Callers, NEW g \in Grants,
           NEW rt \in RefreshTokens \cup {NoRT}, NEW v \in BOOLEAN,
           SendExchange(c, g, rt, v)
    PROVE  ExchangeInv'
BY FormDataType, ExchangeAssumption
DEF SendExchange, ExchangeInv, TypeOK, RedirectsBounded, AnsweredHasAnswer,
    TokensCarryRT, Grants, NoAnswer, Answers

LEMMA ProviderInv ==
    ASSUME ExchangeInv, NEW c \in Callers, ProviderHandle(c)
    PROVE  ExchangeInv'
<1>. USE DEF ExchangeInv, TypeOK, RedirectsBounded, AnsweredHasAnswer,
             TokensCarryRT, Answers
<1>1. CASE /\ answer' = [answer EXCEPT ![c] = "tokens"]
           /\ IssueTokens(c)
  <2>1. lastRT + 1 \in RefreshTokens
    BY <1>1, ExchangeAssumption DEF IssueTokens, RefreshTokens
  <2>2. valid' \subseteq RefreshTokens /\ lastRT' \in RefreshTokens
    BY <1>1, <2>1 DEF IssueTokens
  <2>3. issuedRT' \in [Callers -> RefreshTokens \cup {NoRT}]
        /\ issuedRT'[c] \in RefreshTokens
    BY <1>1, <2>1 DEF IssueTokens
  <2>4. \A d \in Callers \ {c} : issuedRT'[d] = issuedRT[d]
    BY <1>1 DEF IssueTokens
  <2>. QED
    BY <1>1, <2>2, <2>3, <2>4 DEF ProviderHandle
<1>2. CASE /\ \E a \in Answers \ {"tokens"} : answer' = [answer EXCEPT ![c] = a]
           /\ UNCHANGED <<issuedRT, valid, lastRT>>
  BY <1>2 DEF ProviderHandle
<1>3. CASE /\ answer' = [answer EXCEPT ![c] = "error_status"]
           /\ UNCHANGED <<issuedRT, valid, lastRT>>
  BY <1>3 DEF ProviderHandle
<1>. QED
  BY <1>1, <1>2, <1>3 DEF ProviderHandle

LEMMA FollowInv ==
    ASSUME ExchangeInv, NEW c \in Callers, FollowRedirect(c)
    PROVE  ExchangeInv'
BY ExchangeAssumption
DEF FollowRedirect, RedirectAllowed, ExchangeInv, TypeOK, RedirectsBounded,
    AnsweredHasAnswer, TokensCarryRT, NoAnswer, Answers

LEMMA RefuseInv ==
    ASSUME ExchangeInv, NEW c \in Callers, RefuseRedirect(c)
    PROVE  ExchangeInv'
BY DEF RefuseRedirect, Finish, ExchangeInv, TypeOK, RedirectsBounded,
       AnsweredHasAnswer, TokensCarryRT, NoAnswer, Answers, Results

LEMMA AnswerResultType ==
    ASSUME NEW a \in Answers \ {"redirect"}
    PROVE  /\ AnswerResult[a] \in Results
           /\ AnswerResult[a] = "tokens" => a = "tokens"
BY DEF AnswerResult, Answers, Results

LEMMA ReceiveInv ==
    ASSUME ExchangeInv, NEW c \in Callers, ReceiveAnswer(c)
    PROVE  ExchangeInv'
<1>1. answer[c] \in Answers \ {"redirect"}
  BY DEF ReceiveAnswer, ExchangeInv, AnsweredHasAnswer
<1>2. /\ AnswerResult[answer[c]] \in Results
      /\ AnswerResult[answer[c]] = "tokens" => answer[c] = "tokens"
  BY <1>1, AnswerResultType
<1>. QED
  BY <1>2 DEF ReceiveAnswer, Finish, ExchangeInv, TypeOK, RedirectsBounded,
              AnsweredHasAnswer, TokensCarryRT, NoAnswer, Answers

LEMMA TimerInv ==
    ASSUME ExchangeInv, NEW c \in Callers, TimerFires(c)
    PROVE  ExchangeInv'
BY DEF TimerFires, Finish, ExchangeInv, TypeOK, RedirectsBounded,
       AnsweredHasAnswer, TokensCarryRT, NoAnswer, Answers, Results

LEMMA CancelInv ==
    ASSUME ExchangeInv, NEW c \in Callers, Cancel(c)
    PROVE  ExchangeInv'
BY DEF Cancel, ExchangeInv, TypeOK, RedirectsBounded, AnsweredHasAnswer,
       TokensCarryRT

LEMMA ReturnsInv ==
    ASSUME ExchangeInv, NEW c \in Callers, CallerReturns(c)
    PROVE  ExchangeInv'
<1>. USE DEF ExchangeInv
<1>1. browserRT' \in RefreshTokens
  <2>1. result[c] = "tokens" => issuedRT[c] \in RefreshTokens
    BY DEF TokensCarryRT
  <2>. QED
    BY <2>1 DEF CallerReturns, TypeOK
<1>2. answer[c] = NoAnswer
  BY DEF CallerReturns, AnsweredHasAnswer
<1>3. TypeOK'
  BY <1>1 DEF CallerReturns, TypeOK, NoGrant, NoRT, NoResult, RefreshTokens
<1>4. AnsweredHasAnswer'
  BY <1>2 DEF CallerReturns, TypeOK, AnsweredHasAnswer
<1>5. TokensCarryRT'
  BY <1>2 DEF CallerReturns, TypeOK, TokensCarryRT, NoResult, NoAnswer
<1>6. RedirectsBounded'
  BY ExchangeAssumption DEF CallerReturns, TypeOK, RedirectsBounded
<1>. QED
  BY <1>3, <1>4, <1>5, <1>6

LEMMA NextInv == ExchangeInv /\ [Next]_vars => ExchangeInv'
<1>. SUFFICES ASSUME ExchangeInv, [Next]_vars PROVE ExchangeInv'
  OBVIOUS
<1>1. CASE UNCHANGED vars
  BY <1>1 DEF vars, ExchangeInv, TypeOK, RedirectsBounded, AnsweredHasAnswer,
              TokensCarryRT
<1>2. ASSUME NEW c \in Callers, NEW v \in BOOLEAN, ExchangeCodeForToken(c, v)
      PROVE  ExchangeInv'
  <2>1. (EnablePKCE /\ v) \in BOOLEAN
    BY ExchangeAssumption
  <2>2. SendExchange(c, "authorization_code", NoRT, EnablePKCE /\ v)
    BY <1>2 DEF ExchangeCodeForToken
  <2>3. "authorization_code" \in Grants /\ NoRT \in RefreshTokens \cup {NoRT}
    BY DEF Grants
  <2>. QED
    BY <2>1, <2>2, <2>3, SendInv
<1>3. ASSUME NEW c \in Callers, GetNewTokenWithRefreshToken(c)
      PROVE  ExchangeInv'
  <2>1. browserRT \in RefreshTokens \cup {NoRT}
    BY DEF ExchangeInv, TypeOK
  <2>. QED
    BY <1>3, <2>1, SendInv DEF GetNewTokenWithRefreshToken, Grants
<1>4. CASE Next
  BY <1>2, <1>3, <1>4, ProviderInv, FollowInv, RefuseInv, ReceiveInv,
     TimerInv, CancelInv, ReturnsInv DEF Next
<1>. QED
  BY <1>1, <1>4

\* The state of every exchange is well typed for every number of callers
\* and every bound: in particular, ReceiveAnswer only ever maps a real
\* answer of the provider to the result exchangeTokens returns.
THEOREM TypeCorrect == Spec => []TypeOK
<1>1. Init => ExchangeInv
  BY InitInv
<1>2. ExchangeInv /\ [Next]_vars => ExchangeInv'
  BY NextInv
<1>3. ExchangeInv => TypeOK
  BY DEF ExchangeInv
<1>. QED
  BY <1>1, <1>2, <1>3, PTL DEF Spec

\* CheckRedirect's `len(via) >= 50` bounds every exchange to RedirectCap
\* requests, for every cap and however the provider chains redirects.
THEOREM RedirectsBoundedHolds == Spec => []RedirectsBounded
<1>1. ExchangeInv => RedirectsBounded
  BY DEF ExchangeInv
<1>. QED
  BY <1>1, InitInv, NextInv, PTL DEF Spec

-----------------------------------------------------------------------------
(***************************************************************************)
(* Refinement of ExchangeContract.  The mapping needs one more fact: a     *)
(* refresh token is issued to an exchange only while its POST is at the    *)
(* provider, and from then on the exchange is answered with those tokens   *)
(* or done.  So a redirect never leads to a second issue within one        *)
(* invocation, which is the contract's "at most once".                     *)
(***************************************************************************)
callMap == [d \in Callers |-> CallOf(st[d])]

FreshIssue ==
    \A c \in Callers :
        issuedRT[c] # NoRT => st[c] = "done" \/ (st[c] = "answered" /\ answer[c] = "tokens")

ContractInv == ExchangeInv /\ FreshIssue

StStates == {"idle", "inflight", "answered", "done"}

LEMMA CallMapStep ==
    ASSUME NEW c \in Callers, NEW v \in StStates,
           st \in [Callers -> StStates], st' = [st EXCEPT ![c] = v]
    PROVE  callMap' = [callMap EXCEPT ![c] = CallOf(v)]
BY DEF callMap

LEMMA InitRefines == Init => Contract!Init /\ FreshIssue
<1>. SUFFICES ASSUME Init PROVE Contract!Init /\ FreshIssue
  OBVIOUS
<1>1. [d \in Callers |-> CallOf(st[d])] = [d \in Callers |-> "idle"]
  BY DEF Init, CallOf
<1>2. Contract!Init
  BY <1>1 DEF Init, Contract!Init, NoGrant, NoRT, NoResult, Contract!NoGrant,
              Contract!NoRT, Contract!NoResult
<1>3. FreshIssue
  BY DEF Init, FreshIssue
<1>. QED
  BY <1>2, <1>3

LEMMA NextFresh ==
    ASSUME ContractInv, [Next]_vars
    PROVE  FreshIssue'
<1>. USE DEF ContractInv, ExchangeInv, TypeOK
<1>. SUFFICES ASSUME NEW d \in Callers, issuedRT'[d] # NoRT
              PROVE  st'[d] = "done" \/ (st'[d] = "answered" /\ answer'[d] = "tokens")
  BY DEF FreshIssue
<1>1. CASE UNCHANGED vars
  BY <1>1 DEF vars, FreshIssue
<1>2. ASSUME NEW c \in Callers, NEW g \in Grants, NEW rt, NEW v,
             SendExchange(c, g, rt, v)
      PROVE  FALSE \/ st'[d] = "done" \/ (st'[d] = "answered" /\ answer'[d] = "tokens")
  <2>1. st[c] = "idle" /\ issuedRT' = issuedRT
    BY <1>2 DEF SendExchange
  <2>2. d # c
    BY <2>1 DEF FreshIssue
  <2>. QED
    BY <1>2, <2>1, <2>2 DEF SendExchange, FreshIssue
<1>3. ASSUME NEW c \in Callers, ProviderHandle(c)
      PROVE  st'[d] = "done" \/ (st'[d] = "answered" /\ answer'[d] = "tokens")
  <2>1. CASE d = c /\ issuedRT'[c] = issuedRT[c]
    <3>1. st[c] = "inflight"
      BY <1>3 DEF ProviderHandle
    <3>2. issuedRT[c] = NoRT
      BY <3>1 DEF FreshIssue
    <3>. QED
      BY <2>1, <3>2
  <2>2. CASE d = c /\ issuedRT'[c] # issuedRT[c]
    BY <1>3, <2>2 DEF ProviderHandle, IssueTokens
  <2>3. CASE d # c
    BY <1>3, <2>3 DEF ProviderHandle, IssueTokens, FreshIssue
  <2>. QED
    BY <2>1, <2>2, <2>3
<1>4. ASSUME NEW c \in Callers,
             \/ FollowRedirect(c) \/ RefuseRedirect(c) \/ ReceiveAnswer(c)
             \/ TimerFires(c) \/ Cancel(c) \/ CallerReturns(c)
      PROVE  st'[d] = "done" \/ (st'[d] = "answered" /\ answer'[d] = "tokens")
  <2>1. CASE FollowRedirect(c)
    <3>1. d # c
      BY <2>1 DEF FollowRedirect, FreshIssue
    <3>. QED
      BY <2>1, <3>1 DEF FollowRedirect, FreshIssue
  <2>2. CASE RefuseRedirect(c) \/ ReceiveAnswer(c) \/ TimerFires(c)
    BY <2>2 DEF RefuseRedirect, ReceiveAnswer, TimerFires, Finish, FreshIssue
  <2>3. CASE Cancel(c)
    BY <2>3 DEF Cancel, FreshIssue
  <2>4. CASE CallerReturns(c)
    BY <2>4 DEF CallerReturns, FreshIssue
  <2>. QED
    BY <1>4, <2>1, <2>2, <2>3, <2>4
<1>5. CASE Next
  <2>1. ASSUME NEW c \in Callers, NEW v \in BOOLEAN, ExchangeCodeForToken(c, v)
        PROVE  st'[d] = "done" \/ (st'[d] = "answered" /\ answer'[d] = "tokens")
    BY <2>1, <1>2 DEF ExchangeCodeForToken, Grants
  <2>2. ASSUME NEW c \in Callers, GetNewTokenWithRefreshToken(c)
        PROVE  st'[d] = "done" \/ (st'[d] = "answered" /\ answer'[d] = "tokens")
    BY <2>2, <1>2 DEF GetNewTokenWithRefreshToken, Grants
  <2>. QED
    BY <1>5, <2>1, <2>2, <1>3, <1>4 DEF Next
<1>. QED
  BY <1>1, <1>5

\* Each step of one caller's exchange, seen through the mapping.
LEMMA SendRefines ==
    ASSUME ContractInv, NEW c \in Callers, NEW g \in Grants, NEW rt, NEW v,
           SendExchange(c, g, rt, v)
    PROVE  Contract!Invoke(c, g, rt)
<1>1. callMap' = [callMap EXCEPT ![c] = CallOf("inflight")]
  BY CallMapStep DEF SendExchange, ContractInv, ExchangeInv, TypeOK, StStates
<1>2. callMap[c] = "idle" /\ CallOf("inflight") = "calling"
  BY DEF SendExchange, callMap, CallOf
<1>. QED
  BY <1>1, <1>2 DEF SendExchange, Contract!Invoke, callMap

LEMMA ProviderRefines ==
    ASSUME ContractInv, NEW c \in Callers, ProviderHandle(c)
    PROVE  Contract!Issue(c) \/ UNCHANGED Contract!avars
<1>1. callMap' = callMap
  <2>1. callMap' = [callMap EXCEPT ![c] = CallOf("answered")]
    BY CallMapStep DEF ProviderHandle, ContractInv, ExchangeInv, TypeOK, StStates
  <2>2. callMap[c] = CallOf("answered")
    BY DEF ProviderHandle, callMap, CallOf
  <2>. QED
    BY <2>1, <2>2 DEF callMap
<1>2. issuedRT[c] = NoRT
  BY DEF ProviderHandle, ContractInv, FreshIssue
<1>3. CASE /\ answer' = [answer EXCEPT ![c] = "tokens"]
           /\ IssueTokens(c)
  <2>0. answer'[c] = "tokens"
    BY <1>3 DEF ContractInv, ExchangeInv, TypeOK
  <2>1. grant[c] = "authorization_code" \/ sentRT[c] \in valid
    <3>1. ~(answer'[c] = "error_status")
      BY <2>0
    <3>2. answer' = [answer EXCEPT ![c] = "error_status"] => answer'[c] = "error_status"
      BY DEF ContractInv, ExchangeInv, TypeOK
    <3>. QED
      BY <3>1, <3>2 DEF ProviderHandle
  <2>2. callMap[c] = "calling"
    BY DEF ProviderHandle, callMap, CallOf
  <2>. QED
    BY <1>1, <1>2, <1>3, <2>1, <2>2
    DEF ProviderHandle, IssueTokens, Contract!Issue, callMap, Contract!NoRT, NoRT
<1>4. CASE UNCHANGED <<issuedRT, valid, lastRT>>
  BY <1>1, <1>4 DEF ProviderHandle, Contract!avars, callMap
<1>. QED
  BY <1>3, <1>4 DEF ProviderHandle

LEMMA FollowRefines ==
    ASSUME ContractInv, NEW c \in Callers, FollowRedirect(c)
    PROVE  UNCHANGED Contract!avars
<1>1. callMap' = [callMap EXCEPT ![c] = CallOf("inflight")]
  BY CallMapStep DEF FollowRedirect, ContractInv, ExchangeInv, TypeOK, StStates
<1>2. callMap[c] = CallOf("inflight")
  BY DEF FollowRedirect, callMap, CallOf
<1>. QED
  BY <1>1, <1>2 DEF FollowRedirect, Contract!avars, callMap

\* A finishing exchange returns its result to the caller.
LEMMA FinishRefines ==
    ASSUME ContractInv, NEW c \in Callers, NEW res \in Results,
           st[c] \in {"inflight", "answered"},
           res = "tokens" => issuedRT[c] \in RefreshTokens,
           Finish(c, res),
           UNCHANGED <<grant, sentRT, issuedRT, cancelled, valid, lastRT, browserRT>>
    PROVE  Contract!Return(c, res)
<1>1. callMap' = [callMap EXCEPT ![c] = CallOf("done")]
  BY CallMapStep DEF Finish, ContractInv, ExchangeInv, TypeOK, StStates
<1>2. callMap[c] = "calling" /\ CallOf("done") = "done"
  BY DEF callMap, CallOf
<1>3. res = "tokens" => issuedRT[c] # Contract!NoRT
  BY DEF RefreshTokens, Contract!NoRT
<1>. QED
  BY <1>1, <1>2, <1>3 DEF Finish, Contract!Return, callMap

LEMMA CancelRefines ==
    ASSUME ContractInv, NEW c \in Callers, Cancel(c)
    PROVE  Contract!Cancel(c)
BY DEF Cancel, Contract!Cancel, callMap, CallOf

LEMMA ReturnsRefines ==
    ASSUME ContractInv, NEW c \in Callers, CallerReturns(c)
    PROVE  Contract!Store(c)
<1>1. callMap' = [callMap EXCEPT ![c] = CallOf("idle")]
  BY CallMapStep DEF CallerReturns, ContractInv, ExchangeInv, TypeOK, StStates
<1>2. callMap[c] = "done" /\ CallOf("idle") = "idle"
  BY DEF CallerReturns, callMap, CallOf
<1>. QED
  BY <1>1, <1>2 DEF CallerReturns, Contract!Store, callMap, NoGrant, NoRT,
                    NoResult, Contract!NoGrant, Contract!NoRT, Contract!NoResult

LEMMA NextRefines ==
    ASSUME ContractInv, [Next]_vars
    PROVE  [Contract!Next]_Contract!avars
<1>1. CASE UNCHANGED vars
  BY <1>1 DEF vars, Contract!avars
<1>2. ASSUME NEW c \in Callers, NEW v \in BOOLEAN, ExchangeCodeForToken(c, v)
      PROVE  Contract!Next
  <2>1. Contract!Invoke(c, "authorization_code", Contract!NoRT)
    BY <1>2, SendRefines DEF ExchangeCodeForToken, Grants, NoRT, Contract!NoRT
  <2>. QED
    BY <2>1 DEF Contract!Next
<1>3. ASSUME NEW c \in Callers, GetNewTokenWithRefreshToken(c)
      PROVE  Contract!Next
  <2>1. Contract!Invoke(c, "refresh_token", browserRT)
    BY <1>3, SendRefines DEF GetNewTokenWithRefreshToken, Grants
  <2>. QED
    BY <2>1 DEF Contract!Next
<1>4. ASSUME NEW c \in Callers, ProviderHandle(c)
      PROVE  [Contract!Next]_Contract!avars
  BY <1>4, ProviderRefines DEF Contract!Next
<1>5. ASSUME NEW c \in Callers, RefuseRedirect(c)
      PROVE  Contract!Next
  <2>1. Contract!Return(c, "err_redirect")
    BY <1>5, FinishRefines DEF RefuseRedirect, Results
  <2>. QED
    BY <2>1 DEF Contract!Next, Contract!Results
<1>6. ASSUME NEW c \in Callers, TimerFires(c)
      PROVE  Contract!Next
  <2>1. Contract!Return(c, "err_exchange")
    BY <1>6, FinishRefines DEF TimerFires, Results
  <2>. QED
    BY <2>1 DEF Contract!Next, Contract!Results
<1>7. ASSUME NEW c \in Callers, ReceiveAnswer(c)
      PROVE  Contract!Next
  <2>1. answer[c] \in Answers \ {"redirect"}
    BY <1>7 DEF ReceiveAnswer, ContractInv, ExchangeInv, AnsweredHasAnswer
  <2>2. /\ AnswerResult[answer[c]] \in Results
        /\ AnswerResult[answer[c]] = "tokens" => answer[c] = "tokens"
    BY <2>1, AnswerResultType
  <2>3. AnswerResult[answer[c]] = "tokens" => issuedRT[c] \in RefreshTokens
    BY <2>2 DEF ContractInv, ExchangeInv, TokensCarryRT
  <2>4. Contract!Return(c, AnswerResult[answer[c]])
    BY <1>7, <2>2, <2>3, FinishRefines DEF ReceiveAnswer
  <2>. QED
    BY <2>2, <2>4 DEF Contract!Next, Contract!Results, Results
<1>8. CASE Next
  BY <1>8, <1>2, <1>3, <1>4, <1>5, <1>6, <1>7, FollowRefines, CancelRefines,
     ReturnsRefines DEF Next, Contract!Next
<1>. QED
  BY <1>1, <1>8

\* TokenExchange implements ExchangeContract: from the caller's side,
\* exchangeTokens is one call per invocation that returns an error or
\* tokens the provider issued for that invocation, and the provider never
\* issues twice within one invocation, whatever the redirects, timeouts
\* and concurrent callers.  (That every invocation returns is the fairness
\* part of ContractRefined, which TLC checks.)
THEOREM RefinesExchangeContract ==
    Spec => Contract!Init /\ [][Contract!Next]_Contract!avars
<1>1. Init => ContractInv
  BY InitInv, InitRefines DEF ContractInv
<1>2. ContractInv /\ [Next]_vars => ContractInv'
  BY NextInv, NextFresh DEF ContractInv
<1>3. ContractInv /\ [Next]_vars => [Contract!Next]_Contract!avars
  BY NextRefines
<1>. QED
  BY <1>1, <1>2, <1>3, InitRefines, PTL DEF Spec

====

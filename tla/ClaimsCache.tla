---------------------------- MODULE ClaimsCache ----------------------------
(***************************************************************************)
(* What the token cache promises (spec section 4.4): a process-wide map    *)
(* from a token to its validated claims and an absolute expiry.  Get       *)
(* reports a token found only while its entry has not expired.  Cleanup,   *)
(* run periodically by the owner, evicts every expired entry.  Every       *)
(* request may use the cache at once, and each operation is atomic.        *)
(*                                                                         *)
(* got[r] is the reply of request r's Get, until r is done with it.        *)
(***************************************************************************)
EXTENDS Naturals

CONSTANTS Requests, Tokens, Claims, TTLs, MaxTime

NoEntry == [none |-> TRUE]
Entry == [claims : Claims, exp : Nat]
Miss == [found |-> FALSE]
Hit == [found : {TRUE}, claims : Claims]
NoReply == [replied |-> FALSE]

VARIABLES entries, now, got

avars == <<entries, now, got>>

CacheTypeOK ==
    /\ entries \in [Tokens -> Entry \cup {NoEntry}]
    /\ now \in 0..MaxTime
    /\ got \in [Requests -> Hit \cup {Miss, NoReply}]

Live(e) == e # NoEntry /\ now < e.exp

Init ==
    /\ entries = [t \in Tokens |-> NoEntry]
    /\ now = 0
    /\ got = [r \in Requests |-> NoReply]

Set(t, cl, ttl) ==
    /\ entries' = [entries EXCEPT ![t] = [claims |-> cl, exp |-> now + ttl]]
    /\ UNCHANGED <<now, got>>

Get(r, t) ==
    /\ got[r] = NoReply
    /\ got' = [got EXCEPT ![r] = IF Live(entries[t])
                                 THEN [found |-> TRUE, claims |-> entries[t].claims]
                                 ELSE Miss]
    /\ UNCHANGED <<entries, now>>

Release(r) ==
    /\ got[r] # NoReply
    /\ got' = [got EXCEPT ![r] = NoReply]
    /\ UNCHANGED <<entries, now>>

Delete(t) ==
    /\ entries' = [entries EXCEPT ![t] = NoEntry]
    /\ UNCHANGED <<now, got>>

Cleanup ==
    /\ entries' = [t \in Tokens |-> IF Live(entries[t]) THEN entries[t] ELSE NoEntry]
    /\ UNCHANGED <<now, got>>

Tick ==
    /\ now < MaxTime
    /\ now' = now + 1
    /\ UNCHANGED <<entries, got>>

Next ==
    \/ \E t \in Tokens, cl \in Claims, ttl \in TTLs : Set(t, cl, ttl)
    \/ \E r \in Requests, t \in Tokens : Get(r, t)
    \/ \E r \in Requests : Release(r)
    \/ \E t \in Tokens : Delete(t)
    \/ Cleanup
    \/ Tick

\* The owner's periodic sweep runs whenever there is something to evict.
Spec == Init /\ [][Next]_avars /\ WF_avars(Cleanup)

====

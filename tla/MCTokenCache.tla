---------------------------- MODULE MCTokenCache ----------------------------
(* Model values for TLC runs of TokenCache. *)
EXTENDS TokenCache, TLC

CONSTANTS r1, r2, tk1, tk2, cl1, cl2

MCRequests == {r1, r2}
MCTokens == {tk1, tk2}
MCOneToken == {tk1}
MCClaims == {cl1, cl2}
MCTTLs == {0, 1, 2}

====

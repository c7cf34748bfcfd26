-------------------------- MODULE MCTokenExchange --------------------------
(* Model values for TLC runs of TokenExchange. *)
EXTENDS TokenExchange, TLC

CONSTANTS c1, c2

MCCallers == {c1, c2}
MCOneCaller == {c1}

====

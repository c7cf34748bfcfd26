--------------------------- MODULE MCSessionStore ---------------------------
(***************************************************************************)
(* Instances of SessionStore for TLC.  Sizes are in units of one           *)
(* MaxCookieSize = 2: t1 compresses to 2 units (stored inline), t2 to 3    *)
(* (two chunks, the second one short), t3 to 5 (three chunks).            *)
(***************************************************************************)
EXTENDS SessionStore, TLC

CONSTANTS r1, r2, t1, t2, t3

MCRequests == {r1, r2}
MCOneRequest == {r1}
MCTokensTwoSizes == {t1, t2}
MCTokensThreeSizes == {t1, t2, t3}
MCTokensInline == {t1}
MCCompLen == [t \in Tokens |-> CASE t = t1 -> 2 [] t = t2 -> 3 [] t = t3 -> 5]
MCAccessOnly == {"access"}
MCBothSlots == {"access", "refresh"}
MCSymmetry == Permutations(MCRequests)
=============================================================================

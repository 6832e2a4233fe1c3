--------------------------- MODULE MCAuthSession ---------------------------
(* Two sessions with three refresh tokens, two codes, two requests in       *)
(* flight, three passwords.                                                  *)
EXTENDS AuthSession, TLC

CONSTANTS s1, s2, t1, t2, t3, c1, c2, r1, r2
MCSessions == {s1, s2}
MCTokens == {t1, t2, t3}
MCCodes == {c1, c2}
MCCalls == {r1, r2}
Symmetry == Permutations(MCSessions) \cup Permutations(MCTokens)
            \cup Permutations(MCCodes) \cup Permutations(MCCalls)
=============================================================================

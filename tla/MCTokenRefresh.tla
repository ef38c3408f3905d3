--------------------------- MODULE MCTokenRefresh ---------------------------
(* Instances of TokenRefresh for TLC. *)
EXTENDS TokenRefresh

CONSTANTS r1, r2, r3, r4, s1

MCReq     == {r1, r2, r3, r4}
MCSession == {s1}

MCSymmetry == Permutations(MCReq)
=============================================================================

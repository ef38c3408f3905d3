----------------------------- MODULE MCTenants -----------------------------
(* Instances of Tenants for TLC. *)
EXTENDS Tenants

CONSTANTS r1, r2, r3, t1, g1, i1, i2, u2

MCReq     == {r1, r2, r3}
MCIssuer  == {i1, i2}
\* i2 ends with a slash.
MCTrim    == [i \in {i1, i2} |-> IF i = i2 THEN u2 ELSE i]
\* A tenant that is active, and a registration under another issuer.
MCTenants == [t \in {t1} |-> i1]
MCRegs    == [g \in {g1} |-> i2]

MCSymmetry == Permutations(MCReq)
=============================================================================

------------------------------ MODULE MCGroups ------------------------------
(* Instances of Groups for TLC. *)
EXTENDS Groups, TLC

CONSTANTS r1, r2, r3, u1, u2, d1, d2, d3, c1, c2

MCReq    == {r1, r2, r3}
MCUser   == {u1, u2}
MCDevice == {d1, d2, d3}
MCConv   == {c1, c2}
\* A conversation as create_direct_conversation leaves it.
MCSeed   == [c \in {c1} |-> {<<u1, d1>>, <<u2, d2>>}]
\* A row that is there already, and a second device.
MCNamed  == {<<u1, d1>>, <<u2, d3>>}
\* Nobody, and enough for a group.
MCBodies == {{}, {<<u1, d1>>, <<u2, d3>>}}

MCSymmetry == Permutations(MCReq)
=============================================================================

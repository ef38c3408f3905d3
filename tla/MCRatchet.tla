----------------------------- MODULE MCRatchet -----------------------------
(* Instances of Ratchet for TLC. *)
EXTENDS Ratchet

CONSTANTS k1, k2, k3

\* One party has two calls under way at once.
MCCall  == {k1, k2, k3}
MCOwner == [k \in MCCall |-> IF k = k1 THEN "initiator" ELSE "responder"]

MCSend == [p \in Party |-> IF p = "initiator" THEN 3 ELSE 1]

\* The behaviour is followed until a save is lost, and the conversation is opened
\* before anything is sent in it.
MCConstraint == ~lost /\ (made = {} \/ Opening \in net)

MCSymmetry == Permutations({k2, k3})
============================================================================

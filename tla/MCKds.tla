------------------------------- MODULE MCKds -------------------------------
(* An instance of Kds for TLC: two requests of any kind on one device. *)
EXTENDS Kds, TLC

CONSTANTS r1, r2, u1, d1, d2, d3, i1, i2, s0, s1, s2, t1

MCReq  == {r1, r2}
MCUser == {u1}
\* One seeded device and a fresh id for each request.
MCDevice == {d1, d2, d3}
MCSeedDevices == {d1}
MCKeyId == 1 .. 3
\* With one key a fetch finds it locked, with two it can have the other one.
MCSeedCounts == {1, 2}

\* The seeded keys again, ids that cross each other, a repeated id, too many.
MCUploads == {<<>>, <<1, 2>>, <<2, 3>>, <<3, 2>>, <<2, 2>>, <<1, 2, 3>>}

\* s1 and t1 are signed by i1, s2 by i2, s0 by nobody.
MCIdentity == {i1, i2}
MCSpk      == {s0, s1, s2, t1}
MCSigner   == (s0 :> None) @@ (s1 :> i1) @@ (t1 :> i1) @@ (s2 :> i2)
============================================================================

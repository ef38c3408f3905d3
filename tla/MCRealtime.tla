----------------------------- MODULE MCRealtime -----------------------------
(* Instances of Realtime for TLC. *)
EXTENDS Realtime

CONSTANTS k1, k2, d1, e1, e2

MCConn   == {k1, k2}
MCDevice == {d1}
MCEvent  == {e1, e2}
============================================================================

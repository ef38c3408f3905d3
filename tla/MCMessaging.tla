---------------------------- MODULE MCMessaging ----------------------------
(* Instances of Messaging for TLC. *)
EXTENDS Messaging

CONSTANTS r1, r2, r3, u1, u2, d1, c1, c2

MCReq     == {r1, r2, r3}
MCUser    == {u1, u2}
MCDevice  == {d1}
MCConv    == {c1}
MCConvs   == {c1, c2}
MCLimits  == {0, 3, 4}     \* below 1, above MAX_LIMIT, and negative as i64
MCCursors == {1, 2, 7}     \* nothing, one message, and negative as i64
MCNone    == {}            \* no conversation yet
============================================================================

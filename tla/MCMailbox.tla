----------------------------- MODULE MCMailbox ------------------------------
(***************************************************************************)
(* Attachments and the offline queue of one device, for TLC.               *)
(***************************************************************************)
EXTENDS OfflineQueue, TLC

CONSTANTS r1, r2, r3, r4, t1, t2

MCReq == {r1, r2, r3, r4}
MCTenant == {t1, t2}

RequestsAlike == Permutations(MCReq)
=============================================================================

----------------------------- MODULE MCDelivery -----------------------------
(***************************************************************************)
(* One message for a device that is not connected when it is sent.         *)
(***************************************************************************)
EXTENDS Delivery

CONSTANTS r1, t1

MCReq == {r1}
MCTenant == {t1}
=============================================================================

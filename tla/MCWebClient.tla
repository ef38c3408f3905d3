---------------------------- MODULE MCWebClient -----------------------------
(***************************************************************************)
(* Instances of the web client for TLC.                                    *)
(***************************************************************************)
EXTENDS WebClient, TLC

CONSTANTS c1, c2

MCCall == {c1, c2}
=============================================================================

----------------------------- MODULE MessageLog -----------------------------
(***************************************************************************)
(* What store_envelope promises (crates/messaging/src/lib.rs): each        *)
(* conversation is an append-only log, the sequence number of an envelope  *)
(* is its place in the log, and an envelope is in at most one place.       *)
(***************************************************************************)
EXTENDS Naturals, Sequences

CONSTANTS Conv, Env

VARIABLE log    \* for each conversation, the envelopes stored in it

LogInit == log = [c \in Conv |-> <<>>]

Logged(e) == \E c \in Conv : \E i \in DOMAIN log[c] : log[c][i] = e

StoreEnvelope(c, e) ==
    /\ ~Logged(e)
    /\ log' = [log EXCEPT ![c] = Append(@, e)]

LogNext == \E c \in Conv, e \in Env : StoreEnvelope(c, e)

LogSpec == LogInit /\ [][LogNext]_log
============================================================================

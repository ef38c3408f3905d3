------------------------------ MODULE Delivery ------------------------------
(***************************************************************************)
(* What reaches a device: send_message stores an envelope and calls        *)
(* deliver; register_session drains the offline queue for a device that    *)
(* connects, on_session_closed fills it for one that leaves.  The session  *)
(* is the one of Realtime, reduced to whether the device is registered.    *)
(***************************************************************************)
EXTENDS OfflineQueue

VARIABLES
    session,    \* whether the device has an entry in the session map
    pushed      \* the envelopes given to its session

vars == <<mailboxVars, session, pushed>>

Init ==
    /\ OfflineQueueInit
    /\ session = FALSE
    /\ pushed = {}

\* deliver gives the event to the session, if there is one.
Deliver(r) ==
    /\ Sent(r)
    /\ pushed' = IF session THEN pushed \cup {seq[r]} ELSE pushed
    /\ UNCHANGED session

\* drain_for_device asks for no conversation, so it has none to drain.
DrainForDevice == {}

\* register_session
Connect ==
    /\ ~session
    /\ session' = TRUE
    /\ pushed' = pushed \cup DrainForDevice
    /\ UNCHANGED mailboxVars

\* The envelopes that wait for an ack: nothing is ever added to them.
Unacked == {}

\* on_session_closed enqueues what is in Unacked.
Close ==
    /\ session
    /\ Unacked = {}
    /\ session' = FALSE
    /\ UNCHANGED <<mailboxVars, pushed>>

Next ==
    \/ \E r \in Req :
          \/ AttachmentStep(r) /\ UNCHANGED <<queueVars, session, pushed>>
          \/ QueueStep(r) /\ UNCHANGED <<session, pushed>>
          \/ Deliver(r)
    \/ Restart /\ session' = FALSE /\ UNCHANGED <<queueVars, pushed>>
    \/ Connect
    \/ Close

Spec == Init /\ [][Next]_vars

\* Handlers run to their answer, and the device connects again and again.
FairSpec ==
    /\ Spec
    /\ WF_vars(Connect)
    /\ \A r \in Req : WF_vars(Deliver(r))

(***************************************************************************)
(* Properties.                                                             *)
(***************************************************************************)

\* A message for a device without a session is put in the offline queue, which is
\* drained when the device connects: what send_message answered reaches a device
\* that keeps coming back.
GuaranteedDelivery ==
    \A r \in Req : resp[r] = "stored" ~> seq[r] \in pushed
=============================================================================

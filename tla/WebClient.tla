----------------------------- MODULE WebClient ------------------------------
(***************************************************************************)
(* ChatClient of the web SDK: the connection, and the prekey maintenance   *)
(* its low_otpk frames and its timer start.                                *)
(***************************************************************************)
EXTENDS Connection, PreKeys

vars == <<connectionVars, preKeyVars>>

Init == ConnectionInit /\ PreKeysInit

\* RtEventRouter: a low_otpk frame on the open socket.
LowOtpkFrame(c) ==
    /\ ws = "open"
    /\ Load(c, "otpks")
    /\ UNCHANGED connectionVars

\* The interval of SpkRotator, which destroy() stops.
RotationDue(c) ==
    /\ ~destroyed /\ swaps = 0
    /\ Load(c, "spk")
    /\ UNCHANGED connectionVars

\* The page is loaded again: a new client over the same store.
Reload ==
    /\ CallsEnd
    /\ state' = "disconnected" /\ reconnecting' = FALSE /\ destroyed' = FALSE
    /\ sleeps' = 0 /\ waiting' = 0 /\ swaps' = 0 /\ ws' = "none"
    /\ ClearTimers
    /\ strays' = FALSE /\ wanted' = FALSE /\ revived' = {}

Next ==
    \/ ConnectionNext /\ UNCHANGED preKeyVars
    \/ \E c \in Call :
          \/ LowOtpkFrame(c)
          \/ RotationDue(c)
          \/ (Upload(c) \/ Save(c)) /\ UNCHANGED connectionVars
    \/ Reload

Spec == Init /\ [][Next]_vars

FairSpec == Spec /\ ConnectionFairness
=============================================================================

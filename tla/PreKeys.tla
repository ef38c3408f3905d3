------------------------------ MODULE PreKeys -------------------------------
(***************************************************************************)
(* Prekey maintenance in the web SDK: OtpkReplenisher.handleLowOtpk and    *)
(* SpkRotator.checkAndRotate.  Both load the device record, upload new     *)
(* public keys and save a copy of what they loaded with the private keys   *)
(* added, with an await between the steps.                                 *)
(*                                                                         *)
(* Each element of Call is one run of either.  A key is named by its id    *)
(* and the call that generated it.  The server is as in Kds: a one-time    *)
(* prekey whose id it has is ignored, a signed prekey is replaced.         *)
(***************************************************************************)
EXTENDS Naturals, FiniteSets

CONSTANTS
    Call,           \* runs of the replenisher and the rotator
    REPLENISH_COUNT \* keys per upload: 50 in the code

ASSUME PreKeysAssumption ==
    /\ REPLENISH_COUNT \in Nat \ {0}
    /\ "registration" \notin Call

VARIABLES
    record,         \* the device record: signed prekey, one-time prekeys, nextOtpkId
    server,         \* the public keys the server has been given
    call,           \* where each call is
    kind,           \* what it renews
    copy            \* the record it loaded

VARIABLES
    cut,            \* calls that ended after their upload and before their save
    raced           \* a save overwrote a record that had changed since it was loaded

preKeyVars == <<record, server, call, kind, copy, cut, raced>>

\* Registration has stored its first keys on both sides.
Registered == [spk |-> <<0, "registration">>, otpks |-> {<<0, "registration">>}, next |-> 1]

PreKeysInit ==
    /\ record = Registered
    /\ server = [spk |-> Registered.spk, otpks |-> Registered.otpks]
    /\ call = [c \in Call |-> "idle"]
    /\ kind = [c \in Call |-> "none"]
    /\ copy = [c \in Call |-> Registered]
    /\ cut = {}
    /\ raced = FALSE

\* A low_otpk event below the threshold; the hourly check finds an old key.
Load(c, k) ==
    /\ call[c] = "idle"
    /\ call' = [call EXCEPT ![c] = "upload"]
    /\ kind' = [kind EXCEPT ![c] = k]
    /\ copy' = [copy EXCEPT ![c] = record]
    /\ UNCHANGED <<record, server, cut, raced>>

NewOtpks(c) ==
    {<<id, c>> : id \in copy[c].next .. copy[c].next + REPLENISH_COUNT - 1}

NewSpk(c) == <<copy[c].spk[1] + 1, c>>

Ids(keys) == {k[1] : k \in keys}

\* What the server has after the PUT.
Accepted(c) ==
    IF kind[c] = "otpks"
    THEN [server EXCEPT !.otpks = @ \cup {k \in NewOtpks(c) : k[1] \notin Ids(@)}]
    ELSE [server EXCEPT !.spk = NewSpk(c)]

\* The PUT: it is answered, or it fails or its answer is lost, and it is tried
\* again (three times in the code, any number here) or given up.
Upload(c) ==
    /\ call[c] \in {"upload", "again"}
    /\ \/ /\ server' = Accepted(c)
          /\ call' = [call EXCEPT ![c] = "save"]
          /\ UNCHANGED cut
       \/ /\ server' \in {server, Accepted(c)}
          /\ call' = [call EXCEPT ![c] = "again"]
          /\ UNCHANGED cut
       \/ /\ server' \in {server, Accepted(c)}
          /\ call' = [call EXCEPT ![c] = "done"]
          /\ cut' = cut \cup {c}
    /\ UNCHANGED <<record, kind, copy, raced>>

\* Mutant: the keys that are still unused are left out.
WithOtpksOnly(c) == [copy[c] EXCEPT !.otpks = NewOtpks(c), !.next = @ + REPLENISH_COUNT]

WithOtpks(c) == [copy[c] EXCEPT !.otpks = @ \cup NewOtpks(c), !.next = @ + REPLENISH_COUNT]

WithSpk(c) == [copy[c] EXCEPT !.spk = NewSpk(c)]

Save(c) ==
    /\ call[c] = "save"
    /\ record' = IF kind[c] = "otpks" THEN WithOtpks(c) ELSE WithSpk(c)
    /\ raced' = (raced \/ record # copy[c])
    /\ call' = [call EXCEPT ![c] = "done"]
    /\ UNCHANGED <<server, kind, copy, cut>>

\* The page goes away, and every call with it.
CallsEnd ==
    /\ call' = [c \in Call |-> IF call[c] = "idle" THEN "idle" ELSE "done"]
    /\ cut' = cut \cup {c \in Call : call[c] \in {"upload", "again", "save"}}
    /\ UNCHANGED <<record, server, kind, copy, raced>>

(***************************************************************************)
(* Properties.                                                             *)
(***************************************************************************)

InFlight(c) == c \in Call /\ call[c] \in {"again", "save"}

\* The device can use every key the server hands out for it: it holds the private
\* key, or the call that uploaded it is about to save it.  The exceptions are the
\* keys of a call that was cut short after its upload, and every key once a save
\* has overwritten a record that another call changed meanwhile: the two classes
\* share the record and neither locks it.
UploadedIsHeld ==
    raced \/ /\ \A k \in server.otpks : k \in record.otpks \/ InFlight(k[2]) \/ k[2] \in cut
             /\ server.spk = record.spk \/ InFlight(server.spk[2]) \/ server.spk[2] \in cut
=============================================================================

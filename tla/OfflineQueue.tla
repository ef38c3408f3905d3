---------------------------- MODULE OfflineQueue ----------------------------
(***************************************************************************)
(* The offline queue of one device in one conversation: mark_delivered,    *)
(* enqueue_offline and drain_offline_queue of crates/messaging, beside the *)
(* envelopes of the conversation and the attachments they name.            *)
(*                                                                         *)
(* A call is an element of Req of its own.  Each statement commits by      *)
(* itself.  store_envelope is one step here: Messaging shows that it       *)
(* appends to a log.  last_acked_seq has its value from the INSERT, since  *)
(* no statement of the program updates it.                                 *)
(*                                                                         *)
(* The functions are those of the repository's trait.  The program calls   *)
(* enqueue_offline only for the envelopes a closed session had not         *)
(* acknowledged, of which it keeps none, and the other two nowhere.        *)
(***************************************************************************)
EXTENDS Attachments, Sequences, FiniteSetsExt

CONSTANTS
    MaxLog,     \* a bound on the envelopes of the conversation
    CAP,        \* OFFLINE_QUEUE_CAP: 10000 in the code
    PAGE        \* the LIMIT of the drain: 100 in the code

ASSUME OfflineQueueAssumption ==
    /\ None \notin Req \cup Tenant
    /\ None \notin [delivered : Nat, acked : Nat, dropped : Nat]
    /\ MaxLog \in Nat /\ CAP \in Nat \ {0} /\ PAGE \in Nat \ {0}

VARIABLES
    log,        \* message_envelopes: the attachment of each envelope, by seq
    state,      \* the row of delivery_state, None if there is none
    seq,        \* the sequence number a call is about
    depth,      \* the depth of the queue enqueue_offline read
    acked,      \* the last_acked_seq drain_offline_queue read
    drained     \* what drain_offline_queue returned, as a set of seqs

queueLocals == <<seq, depth, acked, drained>>
queueVars   == <<log, state, queueLocals>>
mailboxVars == <<attachmentVars, queueVars>>

NoRow == [delivered |-> 0, acked |-> 0, dropped |-> 0]

OfflineQueueInit ==
    /\ AttachmentsInit
    /\ log = <<>>
    /\ state = None
    /\ seq = [r \in Req |-> 0]
    /\ depth = [r \in Req |-> 0]
    /\ acked = [r \in Req |-> 0]
    /\ drained = [r \in Req |-> {}]

\* Mutant: the foreign key is dropped.
MayReferToAny(a) == TRUE

\* The foreign key of message_envelopes.attachment_id, which does not ask for the
\* tenant.
MayReferTo(a) == a = None \/ (a \in Req /\ row[a] # None)

\* store_envelope
Store(r, a) ==
    /\ pc[r] = "idle"
    /\ Len(log) < MaxLog
    /\ IF MayReferTo(a)
       THEN /\ log' = Append(log, a)
            /\ seq' = [seq EXCEPT ![r] = Len(log) + 1]
            /\ Goto(r, "deliver")
       ELSE Answer(r, "internal") /\ UNCHANGED <<log, seq>>
    /\ UNCHANGED <<stores, locals, history, state, depth, acked, drained>>

\* deliver, whose outcome is not looked at, and the answer.
Sent(r) ==
    /\ pc[r] = "deliver"
    /\ Answer(r, "stored")
    /\ UNCHANGED <<stores, locals, history, queueVars>>

\* Mutant: the last call wins.
AdvancedLast(x, s) == s

\* GREATEST(last_delivered_seq, $4)
Advanced(x, s) == Max({x, s})

\* mark_delivered: one upsert, acknowledged or not.
MarkDelivered(r, s) ==
    /\ pc[r] = "idle"
    /\ state' = IF state = None THEN [NoRow EXCEPT !.delivered = s]
                ELSE [state EXCEPT !.delivered = Advanced(@, s)]
    /\ seq' = [seq EXCEPT ![r] = s]
    /\ \E a \in {"marked", "unavailable"} : Answer(r, a)
    /\ UNCHANGED <<stores, locals, history, log, depth, acked, drained>>

(***************************************************************************)
(* enqueue_offline                                                         *)
(***************************************************************************)

\* INSERT ... ON CONFLICT DO NOTHING
EnsureRow(r, s) ==
    /\ pc[r] = "idle"
    /\ state' = IF state = None THEN NoRow ELSE state
    /\ seq' = [seq EXCEPT ![r] = s]
    /\ Goto(r, "depth")
    /\ UNCHANGED <<stores, locals, history, log, depth, acked, drained>>

\* The row is always there: nothing deletes it.
ReadDepth(r) ==
    /\ pc[r] = "depth"
    /\ depth' = [depth EXCEPT ![r] = state.delivered - state.acked]
    /\ Goto(r, "enqueue")
    /\ UNCHANGED <<stores, locals, history, log, state, seq, acked, drained>>

Full(n) == n >= CAP

\* Mutant: the count is set and not incremented.
DroppedSet == [state EXCEPT !.dropped = 1]

Dropped == [state EXCEPT !.dropped = @ + 1]

Queued(s) == [state EXCEPT !.delivered = Advanced(@, s)]

Enqueue(r) ==
    /\ pc[r] = "enqueue"
    /\ IF Full(depth[r])
       THEN state' = Dropped /\ Answer(r, "dropped")
       ELSE state' = Queued(seq[r]) /\ Answer(r, "queued")
    /\ UNCHANGED <<stores, locals, history, log, queueLocals>>

(***************************************************************************)
(* drain_offline_queue                                                     *)
(***************************************************************************)

DrainRequest(r) ==
    /\ pc[r] = "idle"
    /\ IF state = None
       THEN Answer(r, "drained") /\ UNCHANGED acked
       ELSE acked' = [acked EXCEPT ![r] = state.acked] /\ Goto(r, "drain")
    /\ UNCHANGED <<stores, locals, history, log, state, seq, depth, drained>>

\* The rows with a greater seq, the first PAGE of them.
Page(n) == {s \in DOMAIN log : s > n /\ s <= n + PAGE}

Drain(r) ==
    /\ pc[r] = "drain"
    /\ drained' = [drained EXCEPT ![r] = Page(acked[r])]
    /\ Answer(r, "drained")
    /\ UNCHANGED <<stores, locals, history, log, state, seq, depth, acked>>

\* A statement fails, or it commits and its answer is lost.
QueueAbort(r) ==
    /\ pc[r] \in {"depth", "enqueue", "drain"}
    /\ \/ pc[r] = "enqueue" /\ state' = IF Full(depth[r]) THEN Dropped ELSE Queued(seq[r])
       \/ UNCHANGED state
    /\ Answer(r, "unavailable")
    /\ UNCHANGED <<stores, locals, history, log, queueLocals>>

\* A call of the queue is about an envelope that is stored.
QueueStep(r) ==
    \/ \E a \in Req \cup {None} : Store(r, a)
    \/ \E s \in DOMAIN log : MarkDelivered(r, s) \/ EnsureRow(r, s)
    \/ ReadDepth(r)
    \/ Enqueue(r)
    \/ DrainRequest(r)
    \/ Drain(r)
    \/ QueueAbort(r)

MailboxNext ==
    \/ \E r \in Req :
          \/ AttachmentStep(r) /\ UNCHANGED queueVars
          \/ QueueStep(r)
          \/ Sent(r)
    \/ Restart /\ UNCHANGED queueVars

MailboxSpec == OfflineQueueInit /\ [][MailboxNext]_mailboxVars

(***************************************************************************)
(* Properties.                                                             *)
(***************************************************************************)

\* An attachment that an envelope names has a tenant that may download it, and to
\* whom download_attachment grants it, it finds a file: uploads write the file, the
\* row and the envelope in this order, and may be cut off anywhere.  It is not said
\* that the reader of the envelope is of that tenant: neither the foreign key nor
\* send_message compares the two, and the download of another tenant gets a 404.
ReferencedIsReadable ==
    /\ \A s \in DOMAIN log : log[s] # None => \E t \in Tenant : MayRead(t, log[s])
    /\ \A t \in Tenant, a \in Req : MayRead(t, a) => file[a] # "absent"

\* The calls that enqueue_offline answered with DroppedQueueFull.
DroppedCalls == {r \in Req : resp[r] = "dropped"}

\* enqueue_offline reads the depth and writes the row in two statements, and calls
\* overlap and fail after their commit.  What is answered is in the row all the
\* same: last_delivered_seq covers each envelope that was queued or delivered, and
\* dropped_count counts each one that was dropped.
QueueAnswersHold ==
    /\ \A r \in Req : resp[r] \in {"queued", "marked"} => state.delivered >= seq[r]
    /\ DroppedCalls # {} => state.dropped >= Cardinality(DroppedCalls)
=============================================================================

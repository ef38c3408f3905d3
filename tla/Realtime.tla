------------------------------ MODULE Realtime ------------------------------
(***************************************************************************)
(* WebSocket sessions: WsSessionManager and handle_ws_session of           *)
(* crates/realtime, opened by ws_handler of main.rs.                       *)
(*                                                                         *)
(* Each element of Conn is one socket, used once.  Its server side is two  *)
(* tasks, the receive loop (loop) and the spawned send task (sender), and  *)
(* one bounded mpsc channel (chan).  A handle of the session map is named  *)
(* by the connection that created it.  Each element of Event is one call   *)
(* of deliver.  Pings that are written and pongs that are read change no   *)
(* state of the server.                                                    *)
(***************************************************************************)
EXTENDS Naturals, Sequences, SequencesExt

CONSTANTS
    Conn,       \* sockets
    Device,     \* device ids
    Event,      \* RtEvents, each with an identity of its own
    Capacity,   \* of the mpsc channel: 256 in the code
    None

ASSUME RealtimeAssumption ==
    /\ Capacity \in Nat \ {0}
    /\ None \notin Conn /\ None \notin Device /\ None \notin Event

VARIABLES
    sessions,   \* the session map: the handle each device is registered with
    dev,        \* the device of a connection
    loop,       \* where handle_ws_session is
    sender,     \* the send task, which owns the receiver of the channel
    chan,       \* the events in the channel
    hand,       \* the event the send task has received and not yet written
    unacked     \* SessionHandle::unacked

VARIABLES
    client,     \* the client's end of the socket
    registered, \* for each device, its connections in the order they registered
    replaced,   \* for each connection, those of its device not closed when it registered
    outcome,    \* what deliver returned for each event
    accepted,   \* for each connection, the events its channel took, in order
    sent,       \* for each connection, the events written to its socket
    acked,      \* the events the client has acknowledged
    requeued    \* the events handed to OfflineEnqueue

server == <<sessions, dev, loop, sender, chan, hand, unacked>>
history == <<registered, replaced, outcome, accepted, sent, acked, requeued>>
vars == <<server, client, history>>

Init ==
    /\ sessions = [d \in Device |-> None]
    /\ dev = [k \in Conn |-> None]
    /\ loop = [k \in Conn |-> "idle"]
    /\ sender = [k \in Conn |-> "none"]
    /\ chan = [k \in Conn |-> <<>>]
    /\ hand = [k \in Conn |-> None]
    /\ unacked = [k \in Conn |-> {}]
    /\ client = [k \in Conn |-> "open"]
    /\ registered = [d \in Device |-> <<>>]
    /\ replaced = [k \in Conn |-> {}]
    /\ outcome = [e \in Event |-> "none"]
    /\ accepted = [k \in Conn |-> <<>>]
    /\ sent = [k \in Conn |-> <<>>]
    /\ acked = {}
    /\ requeued = {}

\* Some Sender of the channel is alive: the one in the session map, or the clone
\* that register_session drops when it returns.
TxAlive(k) == loop[k] = "register" \/ sessions[dev[k]] = k

(***************************************************************************)
(* The session map.                                                        *)
(***************************************************************************)

\* Mutant: an entry that is already there is kept.
InsertedKept(d, k) == IF sessions[d] = None THEN k ELSE sessions[d]

\* sessions.insert, which replaces the entry of an older connection.
Inserted(d, k) == k

\* ws_handler has validated the token; register_session inserts the handle.
Connect(k, d) ==
    /\ loop[k] = "idle"
    /\ loop' = [loop EXCEPT ![k] = "register"]
    /\ dev' = [dev EXCEPT ![k] = d]
    /\ sessions' = [sessions EXCEPT ![d] = Inserted(d, k)]
    /\ registered' = [registered EXCEPT ![d] = Append(@, k)]
    /\ replaced' = [replaced EXCEPT ![k] = {h \in Conn : dev[h] = d /\ loop[h] # "closed"}]
    /\ UNCHANGED <<sender, chan, hand, unacked, client, outcome, accepted, sent,
                   acked, requeued>>

\* drain_for_device returns no envelope; register_session returns and the send
\* task is spawned.
Drained(k) ==
    /\ loop[k] = "register"
    /\ loop' = [loop EXCEPT ![k] = "open"]
    /\ sender' = [sender EXCEPT ![k] = "running"]
    /\ UNCHANGED <<sessions, dev, chan, hand, unacked, client, history>>

\* try_send finds a free slot.
HasRoom(k) == Len(chan[k]) < Capacity

\* deliver: look the device up and try_send, under the read lock of the map.
Deliver(e, d) ==
    LET k == sessions[d] IN
    /\ outcome[e] = "none"
    /\ \/ /\ k = None \/ (k # None /\ sender[k] = "stopped")
          /\ outcome' = [outcome EXCEPT ![e] = "NoSession"]
          /\ UNCHANGED <<chan, accepted>>
       \/ /\ k # None /\ sender[k] # "stopped" /\ ~HasRoom(k)
          /\ outcome' = [outcome EXCEPT ![e] = "DroppedQueueFull"]
          /\ UNCHANGED <<chan, accepted>>
       \/ /\ k # None /\ sender[k] # "stopped" /\ HasRoom(k)
          /\ outcome' = [outcome EXCEPT ![e] = "Delivered"]
          /\ chan' = [chan EXCEPT ![k] = Append(@, e)]
          /\ accepted' = [accepted EXCEPT ![k] = Append(@, e)]
    /\ UNCHANGED <<sessions, dev, loop, sender, hand, unacked, client, registered,
                   replaced, sent, acked, requeued>>

\* An ack is applied to the handle the device is registered with now.
Ack(k, e) ==
    /\ loop[k] = "open" /\ client[k] = "open"
    /\ e \in ToSet(sent[k]) \ acked
    /\ acked' = acked \cup {e}
    /\ unacked' = [h \in Conn |-> IF h = sessions[dev[k]] THEN unacked[h] \ {e}
                                                         ELSE unacked[h]]
    /\ UNCHANGED <<sessions, dev, loop, sender, chan, hand, client, registered,
                   replaced, outcome, accepted, sent, requeued>>

(***************************************************************************)
(* The send task.                                                          *)
(***************************************************************************)
\* Mutant: an event is received while the one before it is still being written.
RecvEventWhileWriting(k) ==
    /\ sender[k] = "running" /\ chan[k] # <<>>
    /\ hand' = [hand EXCEPT ![k] = Head(chan[k])]
    /\ chan' = [chan EXCEPT ![k] = Tail(@)]
    /\ UNCHANGED <<sessions, dev, loop, sender, unacked, client, history>>

RecvEvent(k) ==
    /\ sender[k] = "running" /\ hand[k] = None /\ chan[k] # <<>>
    /\ hand' = [hand EXCEPT ![k] = Head(chan[k])]
    /\ chan' = [chan EXCEPT ![k] = Tail(@)]
    /\ UNCHANGED <<sessions, dev, loop, sender, unacked, client, history>>

WriteEvent(k) ==
    /\ sender[k] = "running" /\ hand[k] # None
    /\ sent' = [sent EXCEPT ![k] = Append(@, hand[k])]
    /\ hand' = [hand EXCEPT ![k] = None]
    /\ UNCHANGED <<sessions, dev, loop, sender, chan, unacked, client, registered,
                   replaced, outcome, accepted, acked, requeued>>

\* The task ends and its receiver, with what the channel holds, is dropped.
StopSender(k) ==
    /\ sender' = [sender EXCEPT ![k] = "stopped"]
    /\ chan' = [chan EXCEPT ![k] = <<>>]
    /\ hand' = [hand EXCEPT ![k] = None]
    /\ UNCHANGED <<sessions, dev, loop, unacked, client, history>>

\* Writing an event or a ping to a socket whose client is gone fails.
WriteFails(k) ==
    /\ sender[k] = "running" /\ client[k] = "gone"
    /\ StopSender(k)

\* Mutant: the task ends as soon as the last Sender is dropped.
ClosedAndEmptyEarly(k) == ~TxAlive(k)

\* recv returns None only when the channel is closed and empty.
ClosedAndEmpty(k) == ~TxAlive(k) /\ chan[k] = <<>>

RecvNone(k) ==
    /\ sender[k] = "running" /\ hand[k] = None
    /\ ClosedAndEmpty(k)
    /\ StopSender(k)

\* The abort that the receive loop asked for reaches the task.
Aborted(k) ==
    /\ sender[k] = "running" /\ loop[k] \in {"closing", "closed"}
    /\ StopSender(k)

(***************************************************************************)
(* The receive loop.                                                       *)
(***************************************************************************)

\* A close frame, an error or the end of the stream: send_task.abort().
LoopEnds(k) ==
    /\ loop[k] = "open" /\ client[k] = "gone"
    /\ loop' = [loop EXCEPT ![k] = "closing"]
    /\ UNCHANGED <<sessions, dev, sender, chan, hand, unacked, client, history>>

\* Mutant: there is nothing to re-enqueue, so the entry is left.
RemovedIfUnacked(k) == IF unacked[k] = {} THEN sessions[dev[k]] ELSE None

\* sessions.remove
Removed(k) == None

\* on_session_closed removes the entry of the device, whichever connection it is
\* of, and re-enqueues what that handle holds as unacknowledged.
SessionClosed(k) ==
    /\ loop[k] = "closing"
    /\ loop' = [loop EXCEPT ![k] = "closed"]
    /\ requeued' = requeued \cup UNION {unacked[h] : h \in {sessions[dev[k]]} \ {None}}
    /\ sessions' = [sessions EXCEPT ![dev[k]] = Removed(k)]
    /\ UNCHANGED <<dev, sender, chan, hand, unacked, client, registered, replaced,
                   outcome, accepted, sent, acked>>

(***************************************************************************)
(* The client: it may stop answering with its socket open, or go away.     *)
(***************************************************************************)
ClientMute(k) ==
    /\ loop[k] # "idle" /\ client[k] = "open"
    /\ client' = [client EXCEPT ![k] = "mute"]
    /\ UNCHANGED <<server, history>>

ClientGone(k) ==
    /\ loop[k] # "idle" /\ client[k] # "gone"
    /\ client' = [client EXCEPT ![k] = "gone"]
    /\ UNCHANGED <<server, history>>

\* What the runtime keeps scheduling.  A write to a mute client may block.
Task(k) ==
    \/ Drained(k) \/ RecvEvent(k) \/ WriteFails(k) \/ RecvNone(k) \/ Aborted(k)
    \/ LoopEnds(k) \/ SessionClosed(k)
    \/ client[k] # "mute" /\ WriteEvent(k)

Next ==
    \/ \E k \in Conn : Task(k) \/ WriteEvent(k) \/ ClientMute(k) \/ ClientGone(k)
    \/ \E k \in Conn, d \in Device : Connect(k, d)
    \/ \E k \in Conn, e \in Event : Ack(k, e)
    \/ \E e \in Event, d \in Device : Deliver(e, d)

Spec == Init /\ [][Next]_vars

\* Every spawned task runs.
FairSpec == Spec /\ \A k \in Conn : WF_vars(Task(k))

(***************************************************************************)
(* Properties.                                                             *)
(***************************************************************************)

\* deliver hands events only to the newest connection of a device: registration
\* replaces the older handle, and no later close brings it back.
SessionIsNewest ==
    \A d \in Device : sessions[d] # None =>
        registered[d] # <<>> /\ sessions[d] = Last(registered[d])

\* The newest open connection of a device is registered, so that deliver reaches
\* it, unless one that it replaced has closed since: a connection that opens, or is
\* opened beside others that stay, never finds its entry missing.
NewestIsRegistered ==
    \A k \in Conn : loop[k] = "open" /\ k = Last(registered[dev[k]]) =>
        sessions[dev[k]] = k \/ \E h \in replaced[k] : loop[h] = "closed"

\* "deliver it to all active WebSocketSessions belonging to the recipient DeviceID"
\* (6.3, 8.3): deliver finds at least the newest open connection of a device.
OpenIsReached ==
    \A k \in Conn :
        loop[k] = "open" /\ client[k] = "open" /\ k = Last(registered[dev[k]]) =>
            sessions[dev[k]] = k

InFlight(k) == IF hand[k] = None THEN chan[k] ELSE <<hand[k]>> \o chan[k]

\* A socket carries the events its channel took, in that order and without a gap:
\* while the send task lives nothing is lost between try_send and the socket.
SentInOrder ==
    \A k \in Conn : IF sender[k] = "stopped" THEN IsPrefix(sent[k], accepted[k])
                    ELSE accepted[k] = sent[k] \o InFlight(k)

\* An event that deliver reports as Delivered is written to the socket unless its
\* client stops reading: a connection that was replaced still empties its channel.
AcceptedIsWritten ==
    \A k \in Conn, e \in Event :
        e \in ToSet(accepted[k]) ~> e \in ToSet(sent[k]) \/ client[k] # "open"

\* When the client of a device's last connection is gone, its entry goes.
GoneIsUnregistered ==
    \A d \in Device :
        (\A k \in Conn : dev[k] = d => client[k] = "gone") ~>
            (sessions[d] = None \/ \E k \in Conn : dev[k] = d /\ client[k] # "gone")
============================================================================

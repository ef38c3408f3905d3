----------------------------- MODULE Connection -----------------------------
(***************************************************************************)
(* The connection of the web SDK: ConnectionManager and WsManager, against *)
(* the keepalive of handle_ws_session.                                     *)
(*                                                                         *)
(* JavaScript runs one callback at a time, so an action is one callback or *)
(* one call of the application with all it calls.  What follows an await   *)
(* is a step of its own, a microtask: other calls of the application may   *)
(* come before it, and events and timers may not.  Only the current socket *)
(* has handlers.  A unit of time is 5 seconds; backoff delays and the time *)
(* a socket takes to open or close are any time.                           *)
(***************************************************************************)
EXTENDS Integers

CONSTANTS
    PING_TIMEOUT,   \* of the ping timer: 2 units
    PONG_DEADLINE,  \* 1 unit
    KEEPALIVE,      \* between two pings of the server: 6 units
    MaxWaiting,     \* a bound on the calls of connect() and updateToken() that wait
    MaxSleeps,      \* a bound on the backoff delays that run at once
    Off

ASSUME ConnectionAssumption ==
    /\ {PING_TIMEOUT, PONG_DEADLINE, KEEPALIVE, MaxWaiting, MaxSleeps} \subseteq Nat \ {0}
    /\ PONG_DEADLINE < PING_TIMEOUT
    /\ Off \notin Int

VARIABLES
    state,          \* ConnectionManager.state
    reconnecting,
    destroyed,
    sleeps,         \* the backoff delays that run
    waiting,        \* connectResolvers, by their number
    swaps,          \* calls of updateToken() whose second half is still to run
    ws,             \* the current socket: none, or its readyState
    pingTimer,      \* time left of each timer, or Off
    pongDeadline,
    serverPing      \* time to the next ping of the server on this socket

VARIABLES
    silent,         \* time since the socket opened, or a ping arrived on it
    strays,         \* a socket that was replaced or dropped and not closed
    wanted,         \* the application asked for a connection last
    revived         \* what has connected since the application asked for no connection

timers  == <<pingTimer, pongDeadline, serverPing, silent>>
manager == <<state, reconnecting, destroyed, sleeps, waiting, swaps>>
connectionVars == <<manager, ws, timers, strays, wanted, revived>>

ConnectionInit ==
    /\ state = "disconnected"
    /\ reconnecting = FALSE
    /\ destroyed = FALSE
    /\ sleeps = 0
    /\ waiting = 0
    /\ swaps = 0
    /\ ws = "none"
    /\ pingTimer = Off /\ pongDeadline = Off /\ serverPing = Off
    /\ silent = 0
    /\ strays = FALSE
    /\ wanted = FALSE
    /\ revived = {}

Live == ws \in {"connecting", "open"}

ClearTimers == pingTimer' = Off /\ pongDeadline' = Off /\ serverPing' = Off /\ silent' = 0

\* Mutant: the handlers are taken off and the socket stays.
StrayKept == strays \/ Live

\* WsManager.disconnect closes the socket it lets go of.
Stray == strays

\* WsManager.connect, which disconnects first.
DoConnect ==
    /\ state' = "connecting"
    /\ ws' = "connecting"
    /\ strays' = Stray
    /\ ClearTimers

WsDisconnect ==
    /\ state' = "disconnected"
    /\ ws' = "none"
    /\ strays' = Stray
    /\ ClearTimers

(***************************************************************************)
(* Calls of the application.                                               *)
(***************************************************************************)

\* Neither up nor on its way.
Idle == state \notin {"connected", "connecting"} /\ ~reconnecting

\* ensureConnected(): a call that finds the connection up returns at once.  Nothing
\* asks whether the client is destroyed.
Ensure ==
    /\ waiting' = IF state = "connected" THEN waiting ELSE waiting + 1
    /\ IF Idle THEN DoConnect ELSE UNCHANGED <<state, ws, timers, strays>>
    /\ UNCHANGED <<reconnecting, destroyed, sleeps>>

Room == waiting + swaps < MaxWaiting

\* connect()
EnsureConnected ==
    /\ Room
    /\ Ensure
    /\ wanted' = TRUE
    /\ UNCHANGED <<swaps, revived>>

\* A delay that runs is not cancelled, and neither is the second half of updateToken().
Disconnect ==
    /\ sleeps < MaxSleeps
    /\ reconnecting' = FALSE
    /\ WsDisconnect
    /\ wanted' = FALSE
    /\ revived' = {}
    /\ UNCHANGED <<destroyed, sleeps, waiting, swaps>>

\* updateToken() disconnects, and has the rest run when the caller is done.
UpdateToken ==
    /\ sleeps < MaxSleeps /\ Room
    /\ reconnecting' = FALSE
    /\ WsDisconnect
    /\ swaps' = swaps + 1
    /\ wanted' = TRUE
    /\ revived' = {}
    /\ UNCHANGED <<destroyed, sleeps, waiting>>

\* The microtask: ensureConnected().
TokenUpdated ==
    /\ swaps > 0
    /\ swaps' = swaps - 1
    /\ Ensure
    /\ revived' = IF Idle /\ ~wanted THEN revived \cup {"token"} ELSE revived
    /\ UNCHANGED wanted

Destroy ==
    /\ destroyed' = TRUE
    /\ WsDisconnect
    /\ wanted' = FALSE
    /\ revived' = {}
    /\ UNCHANGED <<reconnecting, sleeps, waiting, swaps>>

(***************************************************************************)
(* Events of the current socket.                                           *)
(***************************************************************************)

\* Mutant: one connect() returns, and the others wait on.
OnOpenFirst ==
    /\ ws = "connecting"
    /\ ws' = "open"
    /\ state' = "connected"
    /\ waiting' = IF waiting > 1 THEN waiting - 1 ELSE 0
    /\ pingTimer' = PING_TIMEOUT
    /\ serverPing' = KEEPALIVE
    /\ UNCHANGED <<reconnecting, destroyed, sleeps, swaps, pongDeadline, silent, strays,
                   wanted, revived>>

\* onopen: the ping timer starts, and every waiting connect() returns.
OnOpen ==
    /\ ws = "connecting"
    /\ ws' = "open"
    /\ state' = "connected"
    /\ waiting' = 0
    /\ pingTimer' = PING_TIMEOUT
    /\ serverPing' = KEEPALIVE
    /\ UNCHANGED <<reconnecting, destroyed, sleeps, swaps, pongDeadline, silent, strays,
                   wanted, revived>>

ScheduleReconnect ==
    IF reconnecting \/ destroyed
    THEN UNCHANGED <<state, reconnecting, sleeps>>
    ELSE /\ reconnecting' = TRUE
         /\ state' = "reconnecting"
         /\ sleeps' = sleeps + 1

\* onerror and onclose: a socket that fails has both in one task.  The handlers of a
\* client that is destroyed return at once, and the state stays what it was.
OnClose ==
    /\ ws \in {"connecting", "open", "closing"}
    /\ ws' = "closed"
    /\ ClearTimers
    /\ IF destroyed \/ state = "disconnected"
       THEN UNCHANGED <<state, reconnecting, sleeps>>
       ELSE ScheduleReconnect
    /\ UNCHANGED <<destroyed, waiting, swaps, strays, wanted, revived>>

\* Mutant: a delay that ends after destroy() connects.
SleepOverDestroyed ==
    /\ sleeps > 0
    /\ sleeps' = sleeps - 1
    /\ reconnecting' = FALSE
    /\ DoConnect
    /\ revived' = IF wanted \/ destroyed THEN revived ELSE revived \cup {"delay"}
    /\ UNCHANGED <<destroyed, waiting, swaps, wanted>>

\* A backoff delay ends.
SleepOver ==
    /\ sleeps > 0
    /\ sleeps' = sleeps - 1
    /\ IF destroyed
       THEN UNCHANGED <<state, reconnecting, ws, timers, strays, revived>>
       ELSE /\ reconnecting' = FALSE
            /\ DoConnect
            /\ revived' = IF wanted THEN revived ELSE revived \cup {"delay"}
    /\ UNCHANGED <<destroyed, waiting, swaps, wanted>>

(***************************************************************************)
(* Time.                                                                   *)
(***************************************************************************)

Running(t) == t # Off

After(t) == IF Running(t) THEN t - 1 ELSE Off

\* Time passes while no timer is due.
Tick ==
    /\ \E t \in {pingTimer, pongDeadline, serverPing} : Running(t)
    /\ \A t \in {pingTimer, pongDeadline, serverPing} : Running(t) => t > 0
    /\ pingTimer' = After(pingTimer)
    /\ pongDeadline' = After(pongDeadline)
    /\ serverPing' = After(serverPing)
    /\ silent' = IF ws = "open" THEN silent + 1 ELSE 0
    /\ UNCHANGED <<manager, ws, strays, wanted, revived>>

\* The interval: a deadline for the next ping of the server.
PingTimeout ==
    /\ pingTimer = 0
    /\ pingTimer' = PING_TIMEOUT
    /\ pongDeadline' = PONG_DEADLINE
    /\ UNCHANGED <<manager, ws, serverPing, silent, strays, wanted, revived>>

\* close(4001): frames are no longer read, and onclose follows.
PongTimeout ==
    /\ pongDeadline = 0
    /\ pongDeadline' = Off
    /\ ws' = "closing"
    /\ serverPing' = Off /\ silent' = 0
    /\ UNCHANGED <<manager, pingTimer, strays, wanted, revived>>

\* Mutant: the timer is taken away with the deadline.
PingFrameLast ==
    /\ serverPing = 0
    /\ serverPing' = KEEPALIVE
    /\ silent' = 0
    /\ pingTimer' = Off /\ pongDeadline' = Off
    /\ UNCHANGED <<manager, ws, strays, wanted, revived>>

\* The server's ping arrives and sendPong takes the deadline away.
PingFrame ==
    /\ serverPing = 0
    /\ serverPing' = KEEPALIVE
    /\ silent' = 0
    /\ pongDeadline' = Off
    /\ UNCHANGED <<manager, ws, pingTimer, strays, wanted, revived>>

\* The network is down, and neither side has noticed.
PingLost ==
    /\ serverPing = 0
    /\ serverPing' = KEEPALIVE
    /\ UNCHANGED <<manager, ws, pingTimer, pongDeadline, silent, strays, wanted, revived>>

ApplicationCall == EnsureConnected \/ Disconnect \/ UpdateToken \/ Destroy

Callback ==
    \/ OnOpen \/ OnClose \/ SleepOver
    \/ Tick \/ PingTimeout \/ PongTimeout \/ PingFrame \/ PingLost

ConnectionNext == ApplicationCall \/ TokenUpdated \/ (swaps = 0 /\ Callback)

\* Microtasks run and timers fire; a socket opens, or closes after close(); and the
\* server is there again and again.
ConnectionFairness ==
    /\ WF_connectionVars(TokenUpdated)
    /\ WF_connectionVars(swaps = 0 /\ SleepOver)
    /\ WF_connectionVars(swaps = 0 /\ ws = "closing" /\ OnClose)
    /\ WF_connectionVars(swaps = 0 /\ ws = "connecting" /\ (OnOpen \/ OnClose))
    /\ SF_connectionVars(swaps = 0 /\ OnOpen)

(***************************************************************************)
(* Properties.                                                             *)
(***************************************************************************)

\* The state the application is shown is that of the socket, whatever delays and
\* sockets of earlier attempts are still around: a disconnected client has no socket,
\* one that has a socket shows whether it was opened, and one whose socket is closed
\* is reconnecting, with a delay running at the end of which it will connect.  Left
\* out is a client that is destroyed and connects again, by connect() or the second
\* half of updateToken(): it goes on showing the state its closed socket had.
StateIsReal ==
    /\ ~strays
    /\ state = "disconnected" <=> ws = "none"
    /\ ws = "connecting" => state = "connecting"
    /\ ws \in {"open", "closing"} => state = "connected"
    /\ ws = "closed" => destroyed \/ (state = "reconnecting" /\ reconnecting /\ sleeps > 0)

\* After disconnect() or destroy() there is no socket until the application connects
\* again, but for two things they do not cancel: a backoff delay that was running
\* when disconnect() was called, which destroy() does make harmless, and the second
\* half of an updateToken() called in the same task before either.
LeftAlone ==
    /\ ws # "none" => wanted \/ revived # {}
    /\ destroyed => "delay" \notin revived

\* A connect() that waits returns, through any number of failed attempts, unless
\* the application disconnects or destroys the client.
ConnectReturns == waiting > 0 ~> (waiting = 0 \/ state = "disconnected" \/ destroyed)

\* startPingTimer is there to notice a server that is gone: a socket that stays open
\* has heard the server within the last PING_TIMEOUT + PONG_DEADLINE, however pings,
\* reconnections and the two timers fall together.
SilenceIsBounded == ws = "open" => silent <= PING_TIMEOUT + PONG_DEADLINE
=============================================================================

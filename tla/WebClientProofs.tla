-------------------------- MODULE WebClientProofs ---------------------------
(***************************************************************************)
(* The connection of the web client, for any intervals of its timers and   *)
(* of the server's pings, any number of waiting calls and of delays.       *)
(***************************************************************************)
EXTENDS WebClient, TLAPS

(***************************************************************************)
(* The state that is shown and the socket.                                 *)
(***************************************************************************)

States == {"disconnected", "connecting", "connected", "reconnecting"}

\* A delay of the current attempt is running only while the socket is closed, and what
\* connects after destroy() is no delay.
ManagerInv ==
    /\ state \in States
    /\ reconnecting \in BOOLEAN /\ destroyed \in BOOLEAN
    /\ strays \in BOOLEAN /\ wanted \in BOOLEAN /\ revived \subseteq {"delay", "token"}
    /\ sleeps \in Nat
    /\ ws \in {"none", "connecting", "open", "closing", "closed"}
    /\ reconnecting /\ ~destroyed => state = "reconnecting"
    /\ StateIsReal
    /\ LeftAlone

(***************************************************************************)
(* The timers.                                                             *)
(***************************************************************************)

\* A deadline was set when the interval began that still runs; without one, the
\* server was heard no earlier than the interval began.
OpenTimers ==
    /\ pingTimer \in 0 .. PING_TIMEOUT
    /\ silent \in Nat
    /\ IF pongDeadline = Off
       THEN silent + pingTimer <= PING_TIMEOUT
       ELSE /\ pongDeadline \in 0 .. PONG_DEADLINE
            /\ pingTimer = PING_TIMEOUT - PONG_DEADLINE + pongDeadline
            /\ silent + pongDeadline <= PING_TIMEOUT + PONG_DEADLINE

TimerInv ==
    /\ ws \notin {"open", "closing"} => pingTimer = Off /\ pongDeadline = Off
    /\ ws # "open" => serverPing = Off /\ silent = 0
    /\ ws = "open" => OpenTimers

\* When the server pings less often than the client expects, the first ping of a
\* connection is still to come for as long as the connection lasts.
FirstPingAhead ==
    KEEPALIVE > PING_TIMEOUT + PONG_DEADLINE /\ ws = "open"
        => serverPing \in Nat /\ serverPing + silent = KEEPALIVE

LEMMA ManagerInit == Init => ManagerInv
<1> SUFFICES ASSUME Init PROVE ManagerInv
  BY Zenon
<1>1. sleeps \in Nat
  BY Zenon DEF Init, ConnectionInit
<1>2. QED
  BY <1>1, Zenon DEF Init, ConnectionInit, ManagerInv, States, StateIsReal, LeftAlone

LEMMA ManagerCall == ManagerInv /\ ApplicationCall => ManagerInv'
<1> SUFFICES ASSUME ManagerInv, ApplicationCall PROVE ManagerInv'
  BY Zenon
<1> USE DEF ManagerInv, States, StateIsReal, LeftAlone, Stray
<1>1. CASE EnsureConnected
  <2>1. Ensure /\ wanted' = TRUE /\ revived' = revived
    BY <1>1, Zenon DEF EnsureConnected
  <2>2. CASE Idle
    <3>1. /\ state' = "connecting" /\ ws' = "connecting" /\ strays' = strays
          /\ UNCHANGED <<reconnecting, destroyed, sleeps>> /\ ~reconnecting
      BY <2>1, <2>2, Zenon DEF Ensure, DoConnect, Idle
    <3>2. QED
      BY <2>1, <3>1, Zenon
  <2>3. CASE ~Idle
    <3>1. UNCHANGED <<state, ws, strays, reconnecting, destroyed, sleeps>>
      BY <2>1, <2>3, Zenon DEF Ensure
    <3>2. QED
      BY <2>1, <3>1, Zenon
  <2>4. QED
    BY <2>2, <2>3, Zenon
<1>2. CASE Disconnect
  BY <1>2, Zenon DEF Disconnect, WsDisconnect
<1>3. CASE UpdateToken
  BY <1>3, Zenon DEF UpdateToken, WsDisconnect
<1>4. CASE Destroy
  BY <1>4, Zenon DEF Destroy, WsDisconnect
<1>5. QED
  BY <1>1, <1>2, <1>3, <1>4, Zenon DEF ApplicationCall

\* The second half of updateToken() may connect a client that is destroyed.
LEMMA ManagerUpdated == ManagerInv /\ TokenUpdated => ManagerInv'
<1> SUFFICES ASSUME ManagerInv, TokenUpdated PROVE ManagerInv'
  BY Zenon
<1> USE DEF ManagerInv, States, StateIsReal, LeftAlone, Stray
<1>1. /\ Ensure /\ wanted' = wanted
      /\ revived' = IF Idle /\ ~wanted THEN revived \cup {"token"} ELSE revived
  BY Zenon DEF TokenUpdated
<1>2. CASE Idle
  <2>1. /\ wanted' \/ revived' # {}
        /\ revived' \subseteq {"delay", "token"} /\ ("delay" \in revived' => "delay" \in revived)
    BY <1>1, <1>2, Zenon
  <2>2. /\ state' = "connecting" /\ ws' = "connecting" /\ strays' = strays
        /\ UNCHANGED <<reconnecting, destroyed, sleeps>> /\ ~reconnecting
    BY <1>1, <1>2, Zenon DEF Ensure, DoConnect, Idle
  <2>3. QED
    BY <1>1, <2>1, <2>2, Zenon
<1>3. CASE ~Idle
  BY <1>1, <1>3, Zenon DEF Ensure
<1>4. QED
  BY <1>2, <1>3, Zenon

LEMMA ManagerCallback == ManagerInv /\ TimerInv /\ Callback => ManagerInv'
<1> SUFFICES ASSUME ManagerInv, TimerInv, Callback PROVE ManagerInv'
  BY Zenon
<1> USE DEF ManagerInv, States, StateIsReal, LeftAlone, Stray
<1>1. CASE OnOpen
  BY <1>1, Zenon DEF OnOpen
<1>2. CASE OnClose
  <2>1. sleeps + 1 \in Nat /\ sleeps + 1 > 0
    OBVIOUS
  <2>2. /\ ws \in {"connecting", "open", "closing"} /\ ws' = "closed"
        /\ UNCHANGED <<destroyed, strays, wanted, revived>>
    BY <1>2, Zenon DEF OnClose
  <2>3. state # "disconnected"
    BY <2>2, Zenon
  <2>4. CASE destroyed
    <3>1. UNCHANGED <<state, reconnecting, sleeps>>
      BY <1>2, <2>4, Zenon DEF OnClose
    <3>2. QED
      BY <2>2, <2>3, <2>4, <3>1, Zenon
  <2>5. CASE ~destroyed
    <3>1. ~reconnecting
      BY <2>2, <2>5, Zenon
    <3>2. reconnecting' = TRUE /\ state' = "reconnecting" /\ sleeps' = sleeps + 1
      BY <1>2, <2>3, <2>5, <3>1, Zenon DEF OnClose, ScheduleReconnect
    <3>3. QED
      BY <2>1, <2>2, <2>5, <3>2, Zenon
  <2>6. QED
    BY <2>4, <2>5, Zenon
<1>3. CASE SleepOver
  <2>1. sleeps - 1 \in Nat
    BY <1>3 DEF SleepOver
  <2>2. CASE destroyed
    BY <1>3, <2>1, <2>2, Zenon DEF SleepOver
  <2>3. CASE ~destroyed
    <3>1. /\ revived' = IF wanted THEN revived ELSE revived \cup {"delay"}
          /\ reconnecting' = FALSE /\ state' = "connecting" /\ ws' = "connecting"
          /\ strays' = strays /\ sleeps' = sleeps - 1 /\ UNCHANGED <<destroyed, wanted>>
      BY <1>3, <2>3, Zenon DEF SleepOver, DoConnect
    <3>2. /\ wanted' \/ revived' # {}
          /\ revived' \subseteq {"delay", "token"}
      BY <3>1, Zenon
    <3>3. QED
      BY <2>1, <2>3, <3>1, <3>2, Zenon
  <2>4. QED
    BY <2>2, <2>3, Zenon
<1>4. CASE Tick \/ PingTimeout \/ PingFrame \/ PingLost
  <2>1. UNCHANGED <<state, reconnecting, destroyed, sleeps, ws, strays, wanted, revived>>
    BY <1>4, Zenon DEF Tick, PingTimeout, PingFrame, PingLost, manager
  <2>2. QED
    BY <2>1, Zenon
<1>5. CASE PongTimeout
  <2>1. UNCHANGED <<state, reconnecting, destroyed, sleeps, strays, wanted, revived>>
    BY <1>5, Zenon DEF PongTimeout, manager
  <2>2. ws \in {"open", "closing"} /\ ws' = "closing"
    BY <1>5, ConnectionAssumption DEF PongTimeout, TimerInv
  <2>3. QED
    BY <2>1, <2>2, Zenon
<1>6. QED
  BY <1>1, <1>2, <1>3, <1>4, <1>5, Zenon DEF Callback

LEMMA TimerInit == Init => TimerInv
  BY Zenon DEF Init, ConnectionInit, TimerInv

\* Every step that drops the socket clears its timers.
LEMMA ClearedTimers == ClearTimers /\ ws' \notin {"open", "closing"} => TimerInv'
  BY Zenon DEF ClearTimers, TimerInv

LEMMA TimerCall == TimerInv /\ (ApplicationCall \/ TokenUpdated) => TimerInv'
<1> SUFFICES ASSUME TimerInv, ApplicationCall \/ TokenUpdated PROVE TimerInv'
  OBVIOUS
<1>1. CASE UNCHANGED <<ws, timers>>
  BY <1>1, Zenon DEF timers, TimerInv, OpenTimers
<1>2. CASE DoConnect \/ WsDisconnect
  BY <1>2, ClearedTimers, Zenon DEF DoConnect, WsDisconnect
<1>3. QED
  BY <1>1, <1>2, Zenon DEF ApplicationCall, EnsureConnected, Ensure, Disconnect, UpdateToken, TokenUpdated,
     Destroy

LEMMA TimerCallback == TimerInv /\ Callback => TimerInv'
<1> SUFFICES ASSUME TimerInv, Callback PROVE TimerInv'
  OBVIOUS
<1> USE ConnectionAssumption
<1>1. CASE OnOpen
  BY <1>1 DEF OnOpen, TimerInv, OpenTimers
<1>2. CASE OnClose
  BY <1>2, ClearedTimers, Zenon DEF OnClose
<1>3. CASE SleepOver
  <2>1. CASE UNCHANGED <<ws, timers>>
    BY <2>1, Zenon DEF timers, TimerInv, OpenTimers
  <2>2. CASE DoConnect
    BY <2>2, ClearedTimers, Zenon DEF DoConnect
  <2>3. QED
    BY <1>3, <2>1, <2>2, Zenon DEF SleepOver
<1>4. CASE Tick
  BY <1>4 DEF Tick, After, Running, TimerInv, OpenTimers
<1>5. CASE PingTimeout
  BY <1>5 DEF PingTimeout, TimerInv, OpenTimers
<1>6. CASE PongTimeout
  BY <1>6, Zenon DEF PongTimeout, TimerInv
<1>7. CASE PingFrame
  BY <1>7 DEF PingFrame, TimerInv, OpenTimers
<1>8. CASE PingLost
  BY <1>8 DEF PingLost, TimerInv, OpenTimers
<1>9. QED
  BY <1>1, <1>2, <1>3, <1>4, <1>5, <1>6, <1>7, <1>8, Zenon DEF Callback

LEMMA PingInit == Init => FirstPingAhead
  BY Zenon DEF Init, ConnectionInit, FirstPingAhead

\* A socket whose timers run as before has its first ping ahead as before.
LEMMA PingUnchanged == FirstPingAhead /\ UNCHANGED <<ws, serverPing, silent>> => FirstPingAhead'
  BY Zenon DEF FirstPingAhead

LEMMA PingCall == FirstPingAhead /\ (ApplicationCall \/ TokenUpdated) => FirstPingAhead'
<1> SUFFICES ASSUME FirstPingAhead, ApplicationCall \/ TokenUpdated PROVE FirstPingAhead'
  OBVIOUS
<1>1. CASE UNCHANGED <<ws, timers>>
  BY <1>1, PingUnchanged, Zenon DEF timers
<1>2. CASE DoConnect \/ WsDisconnect
  BY <1>2, Zenon DEF DoConnect, WsDisconnect, FirstPingAhead
<1>3. QED
  BY <1>1, <1>2, Zenon DEF ApplicationCall, EnsureConnected, Ensure, Disconnect, UpdateToken, TokenUpdated,
     Destroy

LEMMA PingCallback == TimerInv /\ FirstPingAhead /\ Callback => FirstPingAhead'
<1> SUFFICES ASSUME TimerInv, FirstPingAhead, Callback PROVE FirstPingAhead'
  BY Zenon
<1> USE ConnectionAssumption
<1>1. CASE OnOpen
  BY <1>1 DEF OnOpen, TimerInv, FirstPingAhead
<1>2. CASE OnClose \/ PongTimeout
  BY <1>2, Zenon DEF OnClose, PongTimeout, FirstPingAhead
<1>3. CASE SleepOver
  <2>1. CASE UNCHANGED <<ws, timers>>
    BY <2>1, PingUnchanged, Zenon DEF timers
  <2>2. CASE DoConnect
    BY <2>2, Zenon DEF DoConnect, FirstPingAhead
  <2>3. QED
    BY <1>3, <2>1, <2>2, Zenon DEF SleepOver
<1>4. CASE Tick
  BY <1>4 DEF Tick, After, Running, TimerInv, OpenTimers, FirstPingAhead
<1>5. CASE PingTimeout
  BY <1>5, PingUnchanged, Zenon DEF PingTimeout
<1>6. CASE PingFrame \/ PingLost
  <2>1. serverPing = 0 /\ ws' = ws
    BY <1>6, Zenon DEF PingFrame, PingLost
  <2>2. ws = "open" => OpenTimers
    BY Zenon DEF TimerInv
  <2>3. ws = "open" => ~(KEEPALIVE > PING_TIMEOUT + PONG_DEADLINE)
    BY <2>1, <2>2 DEF OpenTimers, FirstPingAhead
  <2>4. QED
    BY <2>1, <2>3, Zenon DEF FirstPingAhead
<1>7. QED
  BY <1>1, <1>2, <1>3, <1>4, <1>5, <1>6, Zenon DEF Callback

(***************************************************************************)
(* The client as a whole.                                                  *)
(***************************************************************************)

ClientInv == ManagerInv /\ TimerInv /\ FirstPingAhead

LEMMA ClientNext == ClientInv /\ [Next]_vars => ClientInv'
<1> SUFFICES ASSUME ClientInv, [Next]_vars PROVE ClientInv'
  BY Zenon
<1>1. CASE ConnectionNext
  BY <1>1, ManagerCall, ManagerUpdated, ManagerCallback, TimerCall, TimerCallback, PingCall, PingCallback, Zenon
     DEF ConnectionNext, ClientInv
<1>2. CASE UNCHANGED connectionVars
  <2>1. UNCHANGED <<state, reconnecting, destroyed, sleeps, ws, pingTimer, pongDeadline,
                    serverPing, silent, strays, wanted, revived>>
    BY <1>2, Zenon DEF connectionVars, manager, timers
  <2>2. ManagerInv'
    BY <2>1, Zenon DEF ClientInv, ManagerInv, StateIsReal, LeftAlone
  <2>3. TimerInv' /\ FirstPingAhead'
    BY <2>1, Zenon DEF ClientInv, TimerInv, OpenTimers, FirstPingAhead
  <2>4. QED
    BY <2>2, <2>3, Zenon DEF ClientInv
<1>3. CASE Reload
  <2>1. ManagerInv'
    <3>1. sleeps' \in Nat
      BY <1>3, Zenon DEF Reload
    <3>2. QED
      BY <1>3, <3>1, Zenon DEF Reload, ManagerInv, States, StateIsReal, LeftAlone
  <2>2. TimerInv' /\ FirstPingAhead'
    BY <1>3, ClearedTimers, Zenon DEF Reload, FirstPingAhead
  <2>3. QED
    BY <2>1, <2>2 DEF ClientInv
<1>4. QED
  BY <1>1, <1>2, <1>3, Zenon DEF Next, LowOtpkFrame, RotationDue, vars

LEMMA ClientInvariant == Spec => []ClientInv
<1>1. Init => ClientInv
  BY ManagerInit, TimerInit, PingInit, Zenon DEF ClientInv
<1>2. QED
  BY <1>1, ClientNext, PTL DEF Spec

\* ConnectionManager: through any order of calls, socket events, reloads and delays of
\* earlier attempts, the state that is shown is the state of the one socket, until a
\* client that is destroyed connects and its socket closes.
THEOREM ShownStateIsReal == Spec => []StateIsReal
  BY ClientInvariant, PTL DEF ClientInv, ManagerInv

\* disconnect() and destroy(): no socket comes back by itself, but by the delay that
\* disconnect() leaves running and the second half of an updateToken() that came just
\* before; after destroy() no delay brings one back.
THEOREM DisconnectIsRespected == Spec => []LeftAlone
  BY ClientInvariant, PTL DEF ClientInv, ManagerInv

\* startPingTimer, for all intervals of which the deadline is the shorter: a server
\* that falls silent is noticed after at most PING_TIMEOUT + PONG_DEADLINE.
THEOREM SilenceIsNoticed == Spec => []SilenceIsBounded
<1>1. ClientInv => SilenceIsBounded
  BY ConnectionAssumption DEF ClientInv, TimerInv, OpenTimers, SilenceIsBounded
<1>2. QED
  BY <1>1, ClientInvariant, PTL

\* The intervals of the code: the server pings every 30 seconds and the client waits
\* 15.  A server that pings less often than the client expects is never heard, and the
\* client gives up every connection before the first ping arrives.
THEOREM SlowPingsAreNeverHeard ==
    Spec => [](KEEPALIVE > PING_TIMEOUT + PONG_DEADLINE => serverPing # 0)
<1>1. ClientInv => (KEEPALIVE > PING_TIMEOUT + PONG_DEADLINE => serverPing # 0)
  BY ConnectionAssumption DEF ClientInv, TimerInv, OpenTimers, FirstPingAhead
<1>2. QED
  BY <1>1, ClientInvariant, PTL

(***************************************************************************)
(* The prekeys.                                                            *)
(***************************************************************************)

Key    == Nat \X (Call \cup {"registration"})
Record == [spk : Key, otpks : SUBSET Key, next : Nat]

PreKeyType ==
    /\ record \in Record
    /\ server \in [spk : Key, otpks : SUBSET Key]
    /\ call \in [Call -> {"idle", "upload", "again", "save", "done"}]
    /\ kind \in [Call -> {"none", "otpks", "spk"}]
    /\ copy \in [Call -> Record]
    /\ cut \subseteq Call
    /\ \A c \in Call : call[c] # "idle" => kind[c] # "none"

\* A signed prekey that is in a record was saved by a call that is over.
Settled(key) == key[2] \in Call => call[key[2]] = "done"

\* What the server has of a call is what the call generated from its copy.
Generated ==
    /\ server.spk[2] \in Call =>
          LET c == server.spk[2]
          IN  call[c] # "idle" /\ kind[c] = "spk" /\ server.spk = NewSpk(c)
    /\ \A k \in server.otpks : k[2] \in Call =>
          call[k[2]] # "idle" /\ kind[k[2]] = "otpks" /\ k \in NewOtpks(k[2])

\* A rotation that is about to save has moved the server off the key it loaded.
RotationSeen == \A c \in Call : call[c] = "save" /\ kind[c] = "spk" => server.spk # copy[c].spk

OtpksHeld == \A k \in server.otpks : k \in record.otpks \/ InFlight(k[2]) \/ k[2] \in cut

SpkHeld == server.spk = record.spk \/ InFlight(server.spk[2]) \/ server.spk[2] \in cut

PreKeyInv ==
    /\ PreKeyType
    /\ Settled(record.spk) /\ \A c \in Call : Settled(copy[c].spk)
    /\ Generated
    /\ RotationSeen
    /\ raced \in BOOLEAN
    /\ ~raced => OtpksHeld /\ SpkHeld

LEMMA PreKeyInit == PreKeysInit => PreKeyInv
<1> SUFFICES ASSUME PreKeysInit PROVE PreKeyInv
  OBVIOUS
<1>1. Registered \in Record /\ Registered.spk[2] = "registration"
      /\ \A k \in Registered.otpks : k[2] = "registration"
  BY DEF Registered, Record, Key
<1>2. PreKeyType
  BY <1>1, Zenon DEF PreKeysInit, PreKeyType, Record, Key
<1>3. \A c \in Call : copy[c] = Registered
  BY Zenon DEF PreKeysInit
<1>4. QED
  BY <1>1, <1>2, <1>3, PreKeysAssumption, Zenon
     DEF PreKeysInit, PreKeyInv, Settled, Generated, RotationSeen, OtpksHeld, SpkHeld

\* The keys a call generates bear its name.
LEMMA NewKeys ==
    ASSUME PreKeyType, NEW c \in Call
    PROVE  /\ NewSpk(c) \in Key /\ NewSpk(c)[2] = c
           /\ NewOtpks(c) \subseteq Key /\ \A k \in NewOtpks(c) : k[2] = c
<1>1. copy[c].spk[1] \in Nat /\ copy[c].next \in Nat
  BY Zenon DEF PreKeyType, Record, Key
<1>2. \A id \in copy[c].next .. copy[c].next + REPLENISH_COUNT - 1 : id \in Nat
  BY <1>1, PreKeysAssumption
<1>3. QED
  BY <1>1, <1>2 DEF NewSpk, NewOtpks, Key

LEMMA PreKeyLoad ==
    ASSUME PreKeyInv, NEW c \in Call, NEW k \in {"otpks", "spk"}, Load(c, k)
    PROVE  PreKeyInv'
<1>1. PreKeyType'
  BY Zenon DEF PreKeyInv, PreKeyType, Load
<1>2. /\ call[c] = "idle" /\ call'[c] = "upload"
      /\ \A d \in Call \ {c} : call'[d] = call[d] /\ kind'[d] = kind[d] /\ copy'[d] = copy[d]
      /\ copy'[c] = record /\ UNCHANGED <<record, server, cut, raced>>
  BY Zenon DEF PreKeyInv, PreKeyType, Load
<1>3. Settled(record.spk)' /\ \A d \in Call : Settled(copy[d].spk)'
  BY <1>2 DEF PreKeyInv, Settled
<1>4. \A d \in Call \ {c} : NewSpk(d)' = NewSpk(d) /\ NewOtpks(d)' = NewOtpks(d)
  BY <1>2, Zenon DEF NewSpk, NewOtpks
<1>5. Generated'
  BY <1>2, <1>4 DEF PreKeyInv, Generated
<1>6. RotationSeen'
  BY <1>2, Zenon DEF PreKeyInv, RotationSeen
<1>7. OtpksHeld => OtpksHeld'
  BY <1>2, Zenon DEF OtpksHeld, InFlight
<1>8. SpkHeld => SpkHeld'
  BY <1>2, Zenon DEF SpkHeld, InFlight
<1>9. QED
  BY <1>1, <1>2, <1>3, <1>5, <1>6, <1>7, <1>8, Zenon DEF PreKeyInv

LEMMA PreKeyUpload ==
    ASSUME PreKeyInv, NEW c \in Call, Upload(c)
    PROVE  PreKeyInv'
<1>1. /\ call[c] \in {"upload", "again"} /\ call'[c] \in {"save", "again", "done"}
      /\ \A d \in Call \ {c} : call'[d] = call[d]
      /\ cut \subseteq cut' /\ cut' \subseteq Call /\ (call'[c] = "done" => c \in cut')
      /\ UNCHANGED <<record, kind, copy, raced>>
  BY Zenon DEF PreKeyInv, PreKeyType, Upload
<1>2. (server' = server /\ call'[c] # "save") \/ server' = Accepted(c)
  BY <1>1, Zenon DEF PreKeyInv, PreKeyType, Upload
<1>3. /\ NewSpk(c) \in Key /\ NewSpk(c)[2] = c
      /\ NewOtpks(c) \subseteq Key /\ \A k \in NewOtpks(c) : k[2] = c
  BY NewKeys, Zenon DEF PreKeyInv
<1>4. /\ server' \in [spk : Key, otpks : SUBSET Key]
      /\ \/ server'.spk = server.spk /\ (call'[c] = "save" => kind[c] = "otpks")
         \/ server'.spk = NewSpk(c) /\ kind[c] # "otpks"
      /\ \A k \in server'.otpks : k \in server.otpks \/ (k \in NewOtpks(c) /\ kind[c] = "otpks")
  BY <1>2, <1>3 DEF Accepted, PreKeyInv, PreKeyType
<1>5. PreKeyType'
  <2>1. call' \in [Call -> {"idle", "upload", "again", "save", "done"}]
    BY Zenon DEF Upload, PreKeyInv, PreKeyType
  <2>2. QED
    BY <1>1, <1>4, <2>1, Zenon DEF PreKeyInv, PreKeyType
<1>6. Settled(record.spk)' /\ \A d \in Call : Settled(copy[d].spk)'
  BY <1>1, Zenon DEF PreKeyInv, Settled
<1>7. \A d \in Call : NewSpk(d)' = NewSpk(d) /\ NewOtpks(d)' = NewOtpks(d)
  BY <1>1, Zenon DEF NewSpk, NewOtpks
<1>8. Generated'
  <2>1. ASSUME server'.spk[2] \in Call
        PROVE  LET d == server'.spk[2]
               IN  call'[d] # "idle" /\ kind'[d] = "spk" /\ server'.spk = NewSpk(d)
    BY <1>1, <1>3, <1>4, <2>1 DEF PreKeyInv, PreKeyType, Generated
  <2>2. ASSUME NEW k \in server'.otpks, k[2] \in Call
        PROVE  call'[k[2]] # "idle" /\ kind'[k[2]] = "otpks" /\ k \in NewOtpks(k[2])
    BY <1>1, <1>3, <1>4, <2>2, Zenon DEF PreKeyInv, Generated
  <2>3. QED
    BY <1>7, <2>1, <2>2, Zenon DEF Generated
<1>9. RotationSeen'
  <2> SUFFICES ASSUME NEW d \in Call, call'[d] = "save", kind'[d] = "spk"
               PROVE  server'.spk # copy'[d].spk
    BY Zenon DEF RotationSeen
  <2>1. CASE server'.spk = NewSpk(c)
    BY <1>1, <1>3, <2>1 DEF PreKeyInv, Settled
  <2>2. CASE server'.spk = server.spk /\ d # c
    BY <1>1, <2>2, Zenon DEF PreKeyInv, RotationSeen
  <2>3. QED
    BY <1>1, <1>4, <2>1, <2>2, Zenon
<1>10. OtpksHeld => OtpksHeld'
  BY <1>1, <1>3, <1>4, Zenon DEF OtpksHeld, InFlight
<1>11. SpkHeld => SpkHeld'
  BY <1>1, <1>3, <1>4 DEF SpkHeld, InFlight
<1>12. QED
  BY <1>1, <1>5, <1>6, <1>8, <1>9, <1>10, <1>11, Zenon DEF PreKeyInv

LEMMA PreKeySave ==
    ASSUME PreKeyInv, NEW c \in Call, Save(c)
    PROVE  PreKeyInv'
<1>1. /\ call[c] = "save" /\ call'[c] = "done"
      /\ \A d \in Call \ {c} : call'[d] = call[d]
      /\ UNCHANGED <<server, kind, copy, cut>>
  BY Zenon DEF PreKeyInv, PreKeyType, Save
<1>2. /\ NewSpk(c) \in Key /\ NewSpk(c)[2] = c
      /\ NewOtpks(c) \subseteq Key /\ \A k \in NewOtpks(c) : k[2] = c
  BY NewKeys DEF PreKeyInv
<1>3. copy[c] \in Record /\ kind[c] \in {"otpks", "spk"}
  BY <1>1, Zenon DEF PreKeyInv, PreKeyType
<1>4. /\ record' \in Record
      /\ copy[c].otpks \subseteq record'.otpks
      /\ \/ kind[c] = "otpks" /\ record'.spk = copy[c].spk /\ NewOtpks(c) \subseteq record'.otpks
         \/ kind[c] = "spk" /\ record'.spk = NewSpk(c)
  <2>1. CASE kind[c] = "otpks"
    <3>1. record' = WithOtpks(c)
      BY <2>1, Zenon DEF Save
    <3>2. copy[c].next + REPLENISH_COUNT \in Nat
      BY <1>3, PreKeysAssumption DEF Record
    <3>3. QED
      BY <1>2, <1>3, <2>1, <3>1, <3>2, Zenon DEF WithOtpks, Record
  <2>2. CASE kind[c] = "spk"
    <3>1. record' = WithSpk(c)
      BY <2>2, Zenon DEF Save
    <3>2. QED
      BY <1>2, <1>3, <2>2, <3>1, Zenon DEF WithSpk, Record
  <2>3. QED
    BY <1>3, <2>1, <2>2, Zenon
<1>5. PreKeyType'
  <2>1. call' \in [Call -> {"idle", "upload", "again", "save", "done"}]
    BY Zenon DEF Save, PreKeyInv, PreKeyType
  <2>2. QED
    BY <1>1, <1>4, <2>1, Zenon DEF PreKeyInv, PreKeyType
<1>6. Settled(record.spk)' /\ \A d \in Call : Settled(copy[d].spk)'
  BY <1>1, <1>2, <1>4, Zenon DEF PreKeyInv, Settled
<1>7. \A d \in Call : NewSpk(d)' = NewSpk(d) /\ NewOtpks(d)' = NewOtpks(d)
  BY <1>1, Zenon DEF NewSpk, NewOtpks
<1>8. Generated'
  BY <1>1, <1>7, Zenon DEF PreKeyInv, Generated
<1>9. RotationSeen'
  BY <1>1, Zenon DEF PreKeyInv, RotationSeen
<1>10. OtpksHeld /\ record = copy[c] => OtpksHeld'
  BY <1>1, <1>4, Zenon DEF PreKeyInv, Generated, OtpksHeld, InFlight
<1>11. SpkHeld /\ record = copy[c] => SpkHeld'
  BY <1>1, <1>4, Zenon DEF PreKeyInv, Generated, RotationSeen, SpkHeld, InFlight
<1>12. raced' \in BOOLEAN /\ (~raced' => ~raced /\ record = copy[c])
  BY Zenon DEF Save
<1>13. QED
  BY <1>5, <1>6, <1>8, <1>9, <1>10, <1>11, <1>12, Zenon DEF PreKeyInv

LEMMA PreKeyCallsEnd == PreKeyInv /\ CallsEnd => PreKeyInv'
<1> SUFFICES ASSUME PreKeyInv, CallsEnd PROVE PreKeyInv'
  OBVIOUS
<1>1. /\ \A c \in Call : call'[c] = IF call[c] = "idle" THEN "idle" ELSE "done"
      /\ cut \subseteq cut' /\ \A c \in Call : InFlight(c) => c \in cut'
      /\ UNCHANGED <<record, server, kind, copy, raced>>
  BY Zenon DEF CallsEnd, InFlight
<1>2. PreKeyType'
  BY Zenon DEF CallsEnd, PreKeyInv, PreKeyType
<1>3. Settled(record.spk)' /\ \A d \in Call : Settled(copy[d].spk)'
  BY <1>1, Zenon DEF PreKeyInv, Settled
<1>4. \A d \in Call : NewSpk(d)' = NewSpk(d) /\ NewOtpks(d)' = NewOtpks(d)
  BY <1>1, Zenon DEF NewSpk, NewOtpks
<1>5. Generated' /\ RotationSeen'
  BY <1>1, <1>4, Zenon DEF PreKeyInv, Generated, RotationSeen
<1>6. (OtpksHeld => OtpksHeld') /\ (SpkHeld => SpkHeld')
  BY <1>1, Zenon DEF OtpksHeld, SpkHeld, InFlight
<1>7. QED
  BY <1>1, <1>2, <1>3, <1>5, <1>6, Zenon DEF PreKeyInv

LEMMA PreKeyNext == PreKeyInv /\ [Next]_vars => PreKeyInv'
<1> SUFFICES ASSUME PreKeyInv, [Next]_vars PROVE PreKeyInv'
  OBVIOUS
<1>1. CASE UNCHANGED preKeyVars
  BY <1>1, Zenon DEF preKeyVars, PreKeyInv, PreKeyType, Settled, Generated, RotationSeen, OtpksHeld,
     SpkHeld, InFlight, NewSpk, NewOtpks
<1>2. ASSUME NEW c \in Call, LowOtpkFrame(c) \/ RotationDue(c) PROVE PreKeyInv'
  BY <1>2, PreKeyLoad, Zenon DEF LowOtpkFrame, RotationDue
<1>3. ASSUME NEW c \in Call, Upload(c) \/ Save(c) PROVE PreKeyInv'
  BY <1>3, PreKeyUpload, PreKeySave, Zenon
<1>4. CASE Reload
  BY <1>4, PreKeyCallsEnd, Zenon DEF Reload
<1>5. QED
  BY <1>1, <1>2, <1>3, <1>4, Zenon DEF Next, vars

\* OtpkReplenisher and SpkRotator: for any number of runs that overlap, are retried,
\* lose an answer or end with the page, the device holds what it uploaded until one of
\* them overwrites a record that another has changed.
THEOREM UploadsAreHeld == Spec => []UploadedIsHeld
<1>1. Init => PreKeyInv
  BY PreKeyInit, Zenon DEF Init
<1>2. PreKeyInv => UploadedIsHeld
  BY Zenon DEF PreKeyInv, OtpksHeld, SpkHeld, UploadedIsHeld
<1>3. QED
  BY <1>1, <1>2, PreKeyNext, PTL DEF Spec
=============================================================================

# A TLA+ model of the chat service

The repository is a multi-tenant, end-to-end encrypted chat service: a Rust server
(axum handlers over PostgreSQL, WebSocket sessions in memory, OIDC authentication),
a TypeScript client SDK, a Dart mirror of it, and a web portal. This directory holds
TLA+ modules translated from that code, the TLC runs that check them on small
instances, and theorems about them that TLAPS proves for every value of the constants.

Paths below are relative to `src/`.

## The system

| Part | Source | State it owns | Operations that change it | Module |
|---|---|---|---|---|
| Key distribution server | `crates/kds`, `crates/api/src/kds.rs` | `users`, `devices`, `one_time_prekeys` | register a device, fetch a bundle, upload one-time prekeys, rotate the signed prekey | `Kds` |
| Message store | `crates/messaging`, `crates/api/src/conversations.rs` | `conversations`, `conversation_members`, `message_envelopes` | open a direct conversation, send; read a page | `Messaging`, `MessageLog` |
| Offline queue | `crates/messaging`, its callers in `crates/realtime` | `delivery_state` | mark as delivered, enqueue; drain | `OfflineQueue`, `Delivery` |
| Real-time delivery | `crates/realtime`, `ws_handler` in `crates/api/src/main.rs` | the session map, one bounded channel per session | open, replace and close a session, deliver, acknowledge | `Realtime` |
| Groups | `crates/groups`, `crates/api/src/groups.rs` | `conversation_members`, `sender_key_distributions` | create, add, remove, send, distribute sender keys | `Groups` |
| Refresh tokens | `crates/auth/src/{refresh,token_store}.rs` | `refresh_tokens` | exchange a token | `TokenRefresh` |
| Tenants | `crates/tenant`, `crates/auth/src/tenant_registry.rs`, `crates/api/src/{admin,registrations}.rs` | `tenants`, `tenant_registrations`, the registry in memory | create, deactivate, change issuer, submit, approve, reject, restart | `Tenants` |
| Bearer and admin tokens | `crates/auth/src/{lib,validate,middleware,jwks_cache}.rs`, `crates/api/src/admin_auth.rs` | the JWKS cache | authenticate a request, fetch, expire and evict keys | `Tenants` |
| Attachments | `crates/api/src/attachments.rs` | `attachments`, files | upload; download | `Attachments` |
| Web SDK: one-to-one | `web_sdk/src/crypto/ratchet-engine.ts`, `web_sdk/src/conversation/one-to-one-conversation.ts` | the ratchet state of a conversation in the session store | send, receive a frame, read the history | `Ratchet` |
| Web SDK: groups | `group-conversation.ts`, `sender-key-engine.ts` | sender keys in the session store | send, receive, distribute | none |
| Web SDK: prekeys | `otpk-replenisher.ts`, `spk-rotator.ts`, `utils/retry.ts` | the device record in the session store | replenish on `low_otpk`, rotate weekly | `PreKeys` |
| Web SDK: connection | `connection-manager.ts`, `ws-manager.ts` | socket, timers, backoff | connect, reconnect, disconnect, change the token, destroy | `Connection` |
| Web SDK: client | `chat-client.ts`, `conversation-registry.ts`, `rt-event-router.ts` | registry of conversations | open a conversation, route frames | `WebClient`, in part |
| Flutter SDK | `flutter_sdk` | as the web SDK | as the web SDK | none |
| Observability, transport, shared types, portal, test page | | counters, configuration, form state | none of the protocol | none |

How the parts interact:

- Every request is authenticated by `validate_bearer_token`, which looks the issuer up in
  the tenant registry and takes its keys from the JWKS cache. The registry and the cache
  are copies in memory which the admin handlers keep in step with the tables by hand.
- A client registers a device with the key server, and peers fetch key bundles from it to
  begin a ratchet session. A fetch may push `low_otpk` to the owner.
- A send commits an envelope in the message store and then calls
  `WebTransportManager::deliver`, outside the transaction and ignoring the outcome. A
  client that missed the push reads the page from the store.
- A session drains the offline queue when it is registered and fills it when it closes,
  through two traits whose implementations have nothing to drain and nothing to fill:
  `drain_for_device` returns an empty list, `enqueue_offline` is called for the `unacked`
  envelopes of a closed session, where nothing is ever put, and `mark_delivered` and
  `drain_offline_queue` have no caller at all.
- An envelope may name an attachment, which was uploaded before it.
- The client answers `low_otpk` with an upload of new keys, on the device record which the
  rotation of the signed prekey also loads and saves.
- Group handlers use the same store and the same `deliver`, once for each member row.
- The SDK loads the ratchet state, awaits cryptography, saves the state, and only then
  sends or shows a message. No conversation of the SDK has such a state (see `Ratchet`).
- `DELETE /groups/{id}/members/{user}` removes members of any conversation, direct ones too.

What is hard in this system: SQL statements of concurrent requests that interleave at
READ COMMITTED; statements that fail, and commits whose acknowledgement is lost; handlers
that commit statement by statement; memory that mirrors a table; connections of one device
that overlap; bounded channels; messages that are lost, repeated and reordered; page
reloads and server restarts between two steps.

What correctness means for it: a one-time prekey is given out once; what a bundle
contains verifies; the envelopes of a conversation are a log without gaps, what is
answered is in it, and a reader misses nothing; events reach the newest connection in
order; a group message reaches exactly the members; a refresh token is exchanged once;
the registry agrees with the table; a message decrypts whatever the order of arrival, no
message key is used twice, and no message is shown twice; what an envelope names can be read;
what the queue answered is what it records; the client's connection is what it says it is, and
the client holds the private half of every key the server hands out for it.

## Modelling conventions

- An element of `Req` is one HTTP request, served once. A request moves through the
  awaited statements of its handler (`pc`), and the statements of different requests
  interleave. There is no atomicity other than what the database or a lock gives.
- Table variables hold what is committed. A transaction's own writes stay in per-request
  variables until its commit action publishes them. Row locks are predicates over `pc`, so
  a lock is released exactly when its transaction ends.
- A statement can fail at every point where the code awaits one (`Abort`), and a commit can
  succeed and lose its acknowledgement, where a caller could tell the difference.
- Every query is keyed by `tenant_id`, so each module except `Tenants` is of one tenant.
- Ids that the code draws with `new_v4` are fresh elements of a set, or the request itself.
- History variables (`taken`, `stayed`, `seen`, `unclean`, `torn`, `late`, `unclear`, `reused`,
  `broken`, `lost`, `early`, `raced`, `cut`, `revived`, ...) record what happened and guard no action. Where the code does not
  keep two overlapping requests apart, the property says what holds for everything else,
  and the history variable says exactly which overlap is meant. The overlap itself is then
  not covered by the property; the hazards in `PROJECT.json` say so one by one.

## The modules

### Kds: the key distribution server

State: the tables with every column that a statement reads or writes (owner, `created_at`,
identity key, signed prekey, the cached `otpk_count`, the key rows with their BIGSERIAL
order) and the locals of each request. Actions, by handler:

| Handler | Actions |
|---|---|
| `register_device` | `RegisterRequest` (checks), `RegisterBegin`, `RegisterUpsertUser`, `RegisterCount`, `RegisterInsert`, `RegisterCommit` |
| `get_key_bundle` | `FetchSelectDevice`, `FetchLockOtpk` (`FOR UPDATE SKIP LOCKED`), `FetchMark`, `FetchCommit`, `FetchNotify` |
| `replenish_otpks` | `ReplenishRequest`, `ReplenishInsert` (one `ON CONFLICT DO NOTHING` per key, which waits for an uncommitted entry), `ReplenishCount`, `ReplenishSync`, `ReplenishCommit` |
| `rotate_signed_prekey` | `RotateRequest`, `RotateWrite` |
| any | `Abort`; `DeadlockVictim` is the abort that PostgreSQL chooses when requests wait in a cycle |

A signature is the identity key that made it (`Signer`); keys are model values. `Init` seeds the
devices of before with any of `SeedCounts` free keys.

### Messaging and MessageLog: direct conversations

`CreateRequest`, `CreateInsert`, `SendRequest`, `StoreUpdate` (the counter, which takes the
row lock of the conversation), `StoreInsert` (the UNIQUE constraint), `StoreCommit`, `Push`,
`ReadRequest`, `ReadQuery`, `Abort`. The limit and the cursor are u64 values cast to i64, so
`AsI64`, `PageLimit` and `GetMessages` are translated with the wrap at `HALF` (2^63).
`MessageLog` is the abstract specification: each conversation is an append-only log, and an
envelope is in at most one place. `Messaging!AbstractLog` instantiates it with the rows
listed by sequence number. `AddMember` and `RemoveMember` are the requests of `api/groups.rs`,
which ask for no particular kind of conversation: members come and go at any time, also
between `is_participant` and the store, so that an envelope may be from a user who has left.
What the broadcast of a group makes of that is in `Groups` (`FanOutIsMembership`).

### Realtime: WebSocket sessions

One connection is a receive loop, a send task and a channel of `Capacity` events. `Connect`
inserts into the map (replacing an older entry), `Drained` starts the send task, `Deliver` is
`try_send` under the read lock, `RecvEvent` and `WriteEvent` are the send task, which ends in
`WriteFails`, `RecvNone` or `Aborted`; `LoopEnds` and `SessionClosed` close. The client may go
away or fall silent with its socket open. `replaced` remembers which connections a connection
took the place of.

### Groups

`CreateGroup` (one transaction), `SendRequest` and `StoreEnvelope`, `AddMember`,
`RemoveMember`; `SkdmRequest`, one `InsertSkdm` for each row of a distribution and `CommitSkdm`, with
an `Abort` that may come before any of them; and what every handler ends in: `GetMembers` and
one `Deliver` for each row. `StoreEnvelope` is a single append, which the theorem
`StoreIsALog` justifies.

### TokenRefresh

`CheckToken`, `RevokeToken`, `StoreToken` are the three statements of `handle_refresh`; `Abort`
may come before the last two, the answer may be lost, tokens `Expire`. A token that is refused
changes nothing else: requirement 2.5 is not implemented (see below).

### Tenants

The two tables, the registry, the JWKS cache, and the statements of `create_tenant`,
`deactivate_tenant`, `update_oidc_issuer`, `submit_registration`, `approve_registration`,
`reject_registration`, `get_registration` and `validate_bearer_token`, the refusals in front of
them (`AdminRefused`, `NoToken`, `Malformed`, `SubmitInvalid`), with the updates of the registry and the
cache as steps of their own, and `Restart`, whose first query may fail. `Trim` strips trailing
slashes, which `build_jwks_url` does and the eviction does not.

### Ratchet

Both ends of a Double Ratchet session over a server that loses, repeats and reorders.

In the program no conversation ever has a session. `openConversation` saves the state of
`initSender` under an id it draws itself and then uses the id that the server answers with;
`initReceiver` is called by nothing but `__tests__/ratchet-engine.test.ts`; and the first message goes out
as `x3dh_init`, which the receiving handlers refuse. So `send` throws `SESSION_NOT_FOUND`, and every
delivery is a decryption error. The module has all of this: `Init` has no state,
`OpenConversation` puts its message out and stores nothing, `SendLoad` needs a state, and
`ReceiveLoad` is an error without a state or with another type of header (`Readable`). To check the
engine and its callers all the same, `Establish` gives a party the state that `initPair` of the test
gives it. The properties of `Ratchet` are about sessions that began so, and not about what a
user of the SDK sees today.

Keys are symbolic terms, so that two keys are equal only if they were derived alike. `Encrypted`,
`AfterEncrypt`, `SkipMessageKeys`, `DhRatchetStep`, `Decrypt` are the functions of
`ratchet-engine.ts`; `SendLoad`, `SendSave`, `SendPost`, `ReceiveLoad`, `ReceiveSave`,
`ReceiveEmit`, `ReceiveError` are the awaits of `one-to-one-conversation.ts`. `Reload` ends all
calls of a page. Calls of one conversation overlap: nothing in the SDK keeps them apart.

### Attachments, OfflineQueue and Delivery

`Attachments`: `UploadRequest`, `CreateFile`, `WriteAll`, `InsertRow`; `DownloadRequest`,
`ReadFile`; `AttachmentAbort` at each of them and `Restart`. A file is a `tokio::fs::File`:
`write_all` returns when the last buffer is with a blocking thread, and the handler neither
flushes nor waits, so the end of the write is an action of its own (`FinishWrite`) and may fail
unnoticed. `OfflineQueue` extends it with the envelopes of one conversation, which may name an
attachment whose row exists (the foreign key), and with the row of `delivery_state` of one device:
`MarkDelivered`, `EnsureRow`, `ReadDepth` and `Enqueue` (the statements of `enqueue_offline`),
`DrainRequest` and `Drain`, each statement committing by itself. These three functions are modelled as
their signatures allow them to be called; in the program none of them ever runs. `Delivery` puts the session of
the device beside it: `Deliver` as `send_message` calls it, `Connect` with what
`drain_for_device` returns, `Close` with what is in `unacked`.

### Connection, PreKeys and WebClient

`Connection` is `ConnectionManager` over `WsManager`; an action is one callback or one call of the
application with all it calls, since JavaScript runs one at a time. `updateToken()` is two actions:
`UpdateToken` disconnects, and `TokenUpdated` is the microtask that calls `ensureConnected`, between
which the caller may go on to `disconnect()` or `destroy()`; no callback comes before it (`swaps`).
Nothing in `ensureConnected` asks whether the client is destroyed, so neither does the model. A unit
of time is 5 seconds.
`Tick` passes while no timer is due; `PingTimeout` and `PongTimeout` are the two timers,
`PingFrame` and `PingLost` what becomes of a ping of the server; backoff delays and sockets
take any time, and several delays may run at once, since `disconnect()` does not cancel them.
`PreKeys` has the runs of the replenisher and the rotator: `Load`, `Upload` (answered, lost and
tried again, or given up), `Save` of a copy of what was loaded. `WebClient` composes them: a
`low_otpk` frame needs an open socket, the rotation timer a client that is not destroyed, and
`Reload` replaces the client over the same store.

## The runs

Run one with `tlc -config <cfg> <module>`.

| Run | Module, cfg | Checks | Result |
|---|---|---|---|
| `kds` | `MCKds`, `MCKds.cfg` | `OtpkTakenOnce`, `ConsumedIffTaken`, `DepletedIsHonest`, `LowPoolNotified`, `BundlesVerify`, `EveryRequestAnswered` | holds |
| `messaging` | `MCMessaging`, `MCMessaging.cfg` | `SeqGapFree`, `AnsweredIsStored`, `PageIsGapFree`, `ImplementsLog`, `EveryRequestAnswered` | holds |
| `messaging_duplicate` | `MCMessaging`, `MCMessagingDuplicate.cfg` | `OneDirectConversation` | violated |
| `realtime` | `MCRealtime`, `MCRealtime.cfg` | `SessionIsNewest`, `NewestIsRegistered`, `SentInOrder`, `AcceptedIsWritten`, `GoneIsUnregistered` | holds |
| `realtime_reached` | `MCRealtime`, `MCRealtimeReached.cfg` | `OpenIsReached` | violated |
| `groups` | `MCGroups`, `MCGroups.cfg` | `FanOutIsMembership`, `SkdmAllOrNothing`, `ToldIsTable` | holds |
| `refresh` | `MCTokenRefresh`, `MCTokenRefresh.cfg` | `OneCurrent`, `SessionSurvives`, `RefusedForAReason` | holds |
| `tenants` | `MCTenants`, `MCTenants.cfg` | `RegistryIsTable`, `OldKeysAreGone`, `ProvisionedIsApproved`, `OneTenantPerRegistration`, `DecisionsStand` | holds |
| `ratchet` | `MCRatchet`, `MCRatchet.cfg` | `TypeOK`, `FirstDeliveryDecrypts`, `KeysUsedOnce`, `EmittedOnce` | holds |
| `mailbox` | `MCMailbox`, `MCMailbox.cfg` | `DownloadIsWhole`, `ReferencedIsReadable`, `QueueAnswersHold` | holds |
| `delivery` | `MCDelivery`, `MCDelivery.cfg` | `GuaranteedDelivery` | violated |
| `web_client` | `MCWebClient`, `MCWebClient.cfg` | `StateIsReal`, `LeftAlone`, `SilenceIsBounded`, `UploadedIsHeld`, `ConnectReturns` | holds |

Each property has a comment at its definition that states it in words. Each property that
holds has a mutant of the model, next to the definition it replaces (`\* Mutant:`), which
breaks it: a dropped guard, a missing reset, a swapped order.

### Bounds, and why they are enough

- **kds**: two requests of any kind, one seeded device with one or two keys, a third key id, a fresh
  device id per request, thresholds of 2, four signed prekeys (two of one identity, one of
  another, one signed by nobody) and uploads in opposite orders. Two requests are enough for a
  race for a key, a deadlock and a rotation that races a fetch; with one seeded key the second
  fetch finds the pool depleted while the first holds it; the theorems cover any number.
  No symmetry, since it checks liveness.
- **messaging**: three requests of two users on one conversation that a request has to
  create first, with an envelope of its own, so that a run has a create and two sends that race for
  the row, or a send that races a read; members come and go without bound. The page
  limit is at most 2; limits and cursors include zero, one above the maximum and one that
  turns negative. A second create finds no id left, which `new_v4` does not meet (`OutOfIds`).
  No symmetry, since it checks liveness.
- **realtime**, **realtime_reached**: two connections of one device, two events, a channel of one event: the channel
  is full, the older connection is replaced with an event in it, and each may close first.
- **groups**: three requests, two users, one of whom may have two devices; one row to add is
  there already; a distribution has up to two rows. Requests of one device only cannot show the difference between a user's rows.
- **refresh**: four requests of one session: two exchanges in a row, each raced by another.
- **tenants**: three requests, one tenant, one registration, two issuers, one with a trailing
  slash; any number of restarts and key fetches.
- **ratchet**: three messages one way and one the other, one call of the first party and two of
  the second, `MAX_SKIP` 1, one reload. Three messages are needed for two to be missing, one
  more than is allowed; the answer makes a DH step with messages of the old chain still out.
  The conversation is opened before anything is sent in it, which halves the states and leaves
  out no order of deliveries. `MCConstraint` follows a behaviour until a save overwrites a newer one (`lost`), after which
  the properties say nothing.
- **mailbox**: four requests that are alike, two tenants, two envelopes, a queue of capacity one,
  pages of one. Four is an upload, a send that names it, and two calls of the queue that overlap;
  one envelope fills the queue and the second is dropped.
- **delivery**: one send to a device without a session; more cannot help it.
- **web_client**: two calls that wait or are in the middle of a token change, two delays at once, two prekey runs of two keys each, and
  timers of 2 and 1 units as in the code. The server pings every 3 units, which can meet the
  deadline and can miss it. The code's 6 units never meet it (see below), so that fewer cases
  would happen.

`CHECK_DEADLOCK` is off because every request, connection or call is used once and all of them
may be finished; a client that is destroyed has nothing left to do either. That no request hangs is what `EveryRequestAnswered` says.

### Fairness

- `Kds!FairSpec`, `Messaging!FairSpec`: weak fairness of the steps of each request that has
  arrived (`Step`). tokio polls a ready task again, and a statement that is not blocked
  completes or fails. Arrivals and failures are not fair. In `Kds` also `DeadlockVictim`:
  PostgreSQL detects a cycle of waiting transactions and aborts one. Weak fairness is enough:
  a row lock that is released is given to a waiting statement, and in these instances a
  request waits only for the finitely many that came before it.
- `Realtime!FairSpec`: weak fairness of each spawned task (`Task`). A write to a client that does
  not read may block for ever, so `WriteEvent` is fair only while the client is not mute. What
  the client does is not fair.
- `Delivery!FairSpec`: the handler reaches its answer, and the device connects again whenever it
  has no session: the most that can be asked of a device.
- `WebClient!FairSpec`: a microtask runs, a delay ends and a socket that is closing or connecting comes to an end,
  which the browser guarantees, and a connection that is attempted again and again succeeds
  once (strong fairness of `OnOpen`): the code retries for ever, so it relies on a server that is
  there again. No call of the application, no ping and no upload is fair.

### What the violated properties show

- **One direct conversation** (`OneDirectConversation`): `create_conversation` looks for a
  conversation and inserts one in two transactions, and no constraint covers the pair, so two
  users who open a conversation with each other at the same time get one each. Requirement
  5.4 asks for the existing one to be returned.
- **An open connection is reached** (`OpenIsReached`): `on_session_closed` removes the entry of the
  device whichever connection it is of (`crates/realtime/src/lib.rs:190`): a connection that was
  replaced and closes late removes its successor's entry, and the successor stays open and
  receives nothing. Requirement 6.3 asks for delivery to all active sessions of the device.
- **Guaranteed delivery** (`GuaranteedDelivery`): `CONTRIBUTING.md` says that the offline queue is
  filled when no session is active, and a comment in `send_message` that `deliver` falls back to
  it. `deliver` answers `NoSession` and nothing follows; when the device connects,
  `drain_for_device` returns an empty list. The message stays in the store, where the client
  finds it when it reads the history.

### Where the code and its documents differ, without a run

Reachable in the models, or read off the code while translating it:

- The limit on devices is read without a lock, so concurrent registrations pass it
  (`crates/kds/src/lib.rs:166`).
- `devices.otpk_count` is counted before, and written after, a wait for the row lock, and stays
  wrong after a fetch in between (`crates/kds/src/lib.rs:399`). No handler reads it.
- Nothing inserts into `SessionHandle::unacked`, so no event is handed back to the offline queue
  when a session closes; no session is closed for want of a pong.
- Bearer tokens carry no device, so the row of a group's creator names the nil device, which the
  foreign key refuses: every request to create a group is answered 503
  (`crates/api/src/groups.rs:183`; `Insertable` in `Groups`).
- An upload is answered 201 before its last buffer is written (`crates/api/src/attachments.rs:109`;
  `early` and `torn` in `Attachments`). An upload whose INSERT fails leaves its file behind.
- `send_message` accepts an attachment of another tenant, since the foreign key is on the id alone; a
  download of it by the reader is answered 404 (`crates/api/src/attachments.rs:165`).
  `ReferencedIsReadable` therefore speaks of the tenant that uploaded it.
- Requirement 6.5 has a full queue discard the oldest envelopes; `enqueue_offline` drops the incoming
  one (`crates/messaging/src/lib.rs:616`). `last_acked_seq` is never updated, so a queue that once was
  full stays full. `last_delivered_seq` jumps to the sequence number that is queued, and the depth is
  read in a statement of its own, so that the maximum of line 178 can be passed.
  `QueueAnswersHold` is only about what the calls record. None of this runs today: the functions have
  no caller, or none that passes anything.
- Requirement 2.5 has a revoked or expired refresh token invalidate the sessions it belongs to;
  `handle_refresh` answers 401 and leaves the session's token as it is. `SessionSurvives` says nothing
  of a session that was refused once, so that it holds with the requirement and without it.
- The server pings every 30 seconds and the client gives up a connection after 15 seconds without
  a ping, so that no ping is ever received (`SlowPingsAreNeverHeard`). The requirements of the SDK
  ask for an answer to each ping within 5 seconds, and for a reconnection only if it cannot be given.
- `disconnect()` does not cancel a backoff delay, at whose end the client connects (`revived` in
  `Connection`). `updateToken()` followed by `destroy()` or `disconnect()` opens a socket, and so does
  `connect()` after `destroy()`; the client that is destroyed ignores the close of that socket and goes
  on showing "connected" (`web_sdk/src/transport/connection-manager.ts:38`). `StateIsReal` and
  `LeftAlone` say what holds in spite of it. A reconnection after `updateToken` uses the URL of the
  closure made at creation.
- The replenisher and the rotator save a copy of the record they loaded: one overwrites the keys of
  the other (`raced` in `PreKeys`), and a call that ends between upload and save loses its keys
  (`cut`). The rotator keeps no previous signed prekey. `withRetry` repeats a request that was
  refused for good.
- Two requests that present one refresh token at once are both answered with a new one
  (`TokenRefresh`, `reused`).
- A tenant that is deactivated while its creation is being answered stays in the registry; a
  tenant that was approved is not in the registry until the next restart (`Tenants`, `torn`).
- The keys of an issuer with a trailing slash are not evicted (`crates/api/src/admin.rs:285`).
- An approval and a rejection that overlap leave a tenant on a rejected registration (`unclear`). An
  approval that is cut off after the tenant was inserted leaves a registration that can never be
  approved, since its issuer is taken.
- Calls of one conversation that overlap in the SDK lose a ratchet state, and with it reuse a
  key or show a message twice (`Ratchet`, `lost`). `fetchHistory` returns the party's own
  messages, and those it has shown, as decryption errors.
- The example above `openConversation` (`web_sdk/src/client/chat-client.ts:404`) sends in the conversation
  it returns, which throws, since the conversation has no ratchet state.
- `tasks.md:320` of the SDK's specification has skipped keys evicted, oldest first, at 2000; the engine
  throws, and the message that would have needed one more is a decryption error until some of the
  missing ones have come.
- `get_messages` without a cursor returns the oldest messages where its comment says the most
  recent (`crates/messaging/src/lib.rs:39`; line 104 says ascending, as it is). `PageIsGapFree` holds
  of either order. A limit of 0 gives 1 where a comment says 50 (435).

## The proofs

Check with `tlapm <module>.tla`. All theorems are for any sets of requests, users, devices, keys
and conversations, under the named assumption of the module (`KdsAssumption`,
`MessagingAssumption`, `OfflineQueueAssumption`, `ConnectionAssumption`, `PreKeysAssumption`,
`RealtimeAssumption`, `RefreshAssumption`, `GroupsAssumption`, `TenantsAssumption`): `None` is none of
the other values, key ids are a finite set of positive numbers, seeded devices have a signed prekey
that verifies, limits and intervals are natural numbers, a replenishment adds at least one key, the
tokens, tenants and registrations of before differ from those of the requests, the tenants of before
have different issuers, the nil device is no device, and the pong deadline is shorter than the ping
interval.

| Theorem | Module | States |
|---|---|---|
| `TypeCorrect` | `KdsProofs` | `Spec => []TypeOK` |
| `NoOtpkTakenTwice` | `KdsProofs` | `Spec => []OtpkTakenOnce` |
| `ConsumptionIsExact` | `KdsProofs` | `Spec => []ConsumedIffTaken` |
| `ConsumedKeysStayConsumed` | `KdsProofs` | `Spec => ConsumedForever` |
| `DepletionIsHonest` | `KdsProofs` | `Spec => []DepletedIsHonest` |
| `LowPoolsAreNotified` | `KdsProofs` | `Spec => []LowPoolNotified` |
| `SignedPrekeysVerify` | `KdsProofs` | `Spec => []BundlesVerify` |
| `TypeCorrect` | `MessagingProofs` | `Spec => []TypeOK` |
| `SequenceIsGapFree` | `MessagingProofs` | `Spec => []SeqGapFree` |
| `AnswersAreStored` | `MessagingProofs` | `Spec => []AnsweredIsStored` |
| `StoreIsALog` | `MessagingProofs` | `Spec => ImplementsLog` |
| `PagesAreGapFree` | `MessagingProofs` | `Spec => []PageIsGapFree` |
| `EntryIsNewest` | `RealtimeProofs` | `Spec => []SessionIsNewest` |
| `NewestUntilClose` | `RealtimeProofs` | `Spec => []NewestIsRegistered` |
| `SocketsInOrder` | `RealtimeProofs` | `Spec => []SentInOrder` |
| `RotationKeepsOne` | `TokenRefreshProofs` | `Spec => []OneCurrent` |
| `SessionsSurvive` | `TokenRefreshProofs` | `Spec => []SessionSurvives` |
| `RefusalsHaveReasons` | `TokenRefreshProofs` | `Spec => []RefusedForAReason` |
| `DownloadsAreWhole` | `MailboxProofs` | `MailboxSpec => []DownloadIsWhole` |
| `ReferencesAreReadable` | `MailboxProofs` | `MailboxSpec => []ReferencedIsReadable` |
| `QueueAnswersAreTrue` | `MailboxProofs` | `MailboxSpec => []QueueAnswersHold` |
| `FanOutCorrect` | `GroupsProofs` | `Spec => []FanOutIsMembership` |
| `SkdmCorrect` | `GroupsProofs` | `Spec => []SkdmAllOrNothing` |
| `ToldCorrect` | `GroupsProofs` | `Spec => []ToldIsTable` |
| `RegistryCorrect` | `TenantsProofs` | `Spec => []RegistryIsTable` |
| `KeysCorrect` | `TenantsProofs` | `Spec => []OldKeysAreGone` |
| `ProvisionCorrect` | `TenantsProofs` | `Spec => []ProvisionedIsApproved` |
| `ApprovalCorrect` | `TenantsProofs` | `Spec => []OneTenantPerRegistration` |
| `DecisionCorrect` | `TenantsProofs` | `Spec => []DecisionsStand` |
| `ShownStateIsReal` | `WebClientProofs` | `Spec => []StateIsReal` |
| `DisconnectIsRespected` | `WebClientProofs` | `Spec => []LeftAlone` |
| `SilenceIsNoticed` | `WebClientProofs` | `Spec => []SilenceIsBounded` |
| `SlowPingsAreNeverHeard` | `WebClientProofs` | `Spec => [](KEEPALIVE > PING_TIMEOUT + PONG_DEADLINE => serverPing # 0)` |
| `UploadsAreHeld` | `WebClientProofs` | `Spec => []UploadedIsHeld` |

**Kds.** `TypeOK` is not inductive: that `RotateWrite` keeps rows whole needs the row to exist,
which the request saw some steps before. `TypeInv` adds `Shape`, what a request has read at each
label. `OtpkTakenOnce` rests on `KeyInv`: a fetch past `FetchLockOtpk` holds a row that is free
(`LockFree`) and holds it alone (`LockOnce`), so that its commit takes a key nobody took; a
transaction that inserts holds rows that are not in the table (`InsertsAbsent`) and no two hold
the same (`InsertsOnce`), so that publishing them revives nothing; a device that is being
registered is known to its request only (`FreshDevice`), so that none of this is disturbed by its
commit. `ConsumedForever` is an action property that follows from the same invariant. `SpkInv`
says that every request which will store or hand out a signed prekey carries one that verifies;
for a rotation this lasts until it is written, since `FreshDevice` keeps an identity key from being
written twice.

`PoolInv` carries what a refused fetch has seen: every free key of its device is locked by a fetch,
unless a request has since added keys or given one back (`RefusedIsSpoken`); and a pool that a
fetch left low is known, or a fetch that took from it is still to count it (`LowIsKnown`).

**Messaging.** `SeqGapFree` needs two facts about the lock: one request at a time is between the
counter and the commit (`OneWriter`), and it has the number after the last one committed
(`NextNumber`). `RowsKnown` ties each row to a request that is past its commit, so that no
envelope is stored twice; `Promised` carries the fact that what is about to be pushed is stored.
The refinement maps a conversation to the sequence of its rows: `StoreCommit` is an append of the
abstract log (`LogMoves`), every other step a stutter. A page has no gap since the rows it is
taken from are 1 to `last_seq` and the cursor cuts off an end. Nothing is proved of the membership of
senders: a member may be removed between the check and the store.

**Realtime.** `NewestIsRegistered` is strengthened to every state of the newest connection before its
close (`NewestStays`). A close of another connection of the device may end it, and that one is
among those the newest one replaced (`ReplacesOthers`). `SentInOrder` is inductive once it is known that the send task is
spawned only when `register_session` returns (`Spawned`).

**Token refresh.** `RefreshInv` adds that a request is about a row of its own session (`Presented`)
and that the row of a request comes with its last step (`RowsOwned`). `RevokeToken` then takes the
one current token of the session and puts the request in its place, and `StoreToken` puts the new
token in the place of the request.

**Groups.** `SendInv` follows a message from its store to its answer: the devices that stayed have it
or are on the list the handler took (`todo`), and those on the list were members after the store.
`SkdmInv` says that a distribution has no row in the table before its commit, wherever it is in its
loop, and all of them after it, and that only these are pushed. `ToldIsTable` speaks of a quiet server; while
requests run, a device whose last news of a user is old is still to be told by the one request that
announces the last change (`ToldOrPending`). That there is only one, and that it says what the table
says, holds unless changes of that user overlap (`OnePending`); that a device which hears of a change
is a member or has left is `Announced`.

**Tenants.** The table has one row per issuer (`OneIssuer`, from the UNIQUE constraint) and a request is
known by its label (`AtLabel`); that is `BaseInv`. `DecisionInv` is about registrations: while
decisions on one do not overlap there is one request that decides it, and it is pending until then
(`Decisions`), so that what a reader was told cannot change (`Told`). `ProvidedIssuer` ties a tenant to
the issuer of its registration, whence two approvals of one registration would share an issuer.

`RegistryInv` is the reason the registry follows the table. Two admin requests that have a tenant or an
issuer in common have torn their tenants (`Apart`). The issuers that an admin request writes into
the registry are of no other tenant, except one that was approved and that the registry has not heard
of (`Alone`, `Silent`): without that exception the invariant is false, since an approval may take the
issuer a change of issuer has just given up, before the old entry is removed. A request therefore finds
its tenant as it left it (`Knows`), an entry is right or its request is about to put it right
(`EntryRight`), and an active tenant has its entry or will (`HasEntry`). `KeysInv` says that cached keys,
and the lookups that will insert some, are of the tenant's issuer or of one whose eviction is to
come (`Held`); a lookup that is under way at the eviction goes to `late`.

**Mailbox.** `FileInv` orders the steps of an upload: a row is preceded by its file, and a file with a
row lacks bytes only while it is in writing or torn. `QueueInv` says that the row of
`delivery_state` exists once a call is past its first statement and that its `last_delivered_seq` and its
count of drops only grow; each answered drop is counted once (`DropsCounted`).

**Web client.** `StateIsReal` needs to know that a client that waits for a delay shows so, unless it is
destroyed (`ManagerInv`). `TimerInv` relates the two timers and the silence: without a deadline
the server was heard since the interval began; with one, both timers run in step. Since time is
discrete, the bound is up to the delay with which the browser runs a timer that is due.
`PreKeyInv` says that the keys on the server are those a call made from the copy it loaded, that the
signed prekey of a record belongs to a call that is over, and that a rotation about to save has
moved the server off the key it loaded.

The proofs have one lemma per action; most actions of a component change nothing its invariant
speaks about, and share a lemma that says so (`PlainKeepsKeyInv`, `PlainKeepsSpkInv`, `PlainKeeps`).

**Only model-checked**: liveness (`EveryRequestAnswered`, `AcceptedIsWritten`,
`GoneIsUnregistered`, `ConnectReturns`), which is out of the prover's reach; and everything in
`Ratchet`. The three violated properties are not theorems.

## What is not modelled, and why

- Group conversations of the web SDK. They do not run end to end as written: `createGroup` calls a
  method that does not exist, `onSkdm` hands a distribution that is still encrypted to the engine,
  and a message that waits for its key takes a slot that drops the later ones. A model would have
  to supply what the code leaves out.
- Retries of a send: the server cannot tell a retry from a new message, so `Messaging` counts them
  as two requests.
- Wire formats, base64, JSON, JWT encoding, TLS, routing, metrics, logging, listings and usage
  counters: no state the properties speak about.
- Cryptography: keys are symbolic, and a signature or a ciphertext verifies or decrypts exactly
  under the key it was made with. The secret that X3DH gives both parties is the starting
  point of `Establish` in `Ratchet`.
- The Flutter SDK repeats the control flow of the web SDK; the portal and the test page only call
  the API.

## Open ends

- Theorems for `Ratchet` (`KeysUsedOnce`, `EmittedOnce`).
- `Connection` composed with `Realtime`: reconnections of the real client against the session map.
- The limit on devices (`crates/kds/src/lib.rs:166`) has no property: the code does not keep it.

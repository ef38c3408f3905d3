-------------------------------- MODULE Kds --------------------------------
(***************************************************************************)
(* The key distribution server: PgKdsRepository (crates/kds/src/lib.rs)    *)
(* and the four HTTP handlers that call it (crates/api/src/kds.rs).        *)
(*                                                                         *)
(* Each element of Req is one HTTP request, served once.  A request moves  *)
(* through the SQL statements of its handler; the statements of different  *)
(* requests interleave.  PostgreSQL runs at READ COMMITTED: the variables  *)
(* of the first group hold what is committed, a transaction's own writes   *)
(* stay in the per-request variables until its commit action publishes     *)
(* them, and the row locks it holds are derived from how far it has come.  *)
(* Every query is keyed by tenant_id, so the model is of one tenant.       *)
(***************************************************************************)
EXTENDS Naturals, Sequences, FiniteSets

CONSTANTS
    Req,            \* HTTP requests
    User,           \* OIDC subjects of the tenant
    Device,         \* device ids that new_v4 may draw
    KeyId,          \* client-chosen one-time prekey ids
    Identity,       \* identity keys that clients generate
    Spk,            \* signed prekeys that clients upload
    Signer,         \* the identity key each one is signed with, None if with none
    Uploads,        \* lists of one-time prekey ids that clients upload
    SeedDevices,    \* devices registered before the behaviour starts ...
    SeedUser,       \* ... by this user ...
    SeedIdentity,   \* ... with this identity key, ...
    SeedSpk,        \* ... this signed prekey ...
    SeedCounts,     \* ... and one-time prekeys, so many of them
    DEVICE_LIMIT,   \* 5 in the code
    MAX_UPLOAD,     \* 100 in the code
    LOW_OTPK,       \* 10 in the code
    None            \* absence of a value

ASSUME KdsAssumption ==
    /\ KeyId \subseteq Nat \ {0} /\ IsFiniteSet(KeyId)
    /\ Signer \in [Spk -> Identity \cup {None}]
    /\ Uploads \subseteq Seq(KeyId)
    /\ SeedDevices \subseteq Device
    /\ SeedUser \in User
    /\ SeedIdentity \in Identity
    /\ SeedSpk \in Spk /\ Signer[SeedSpk] = SeedIdentity
    /\ SeedCounts \subseteq Nat /\ \A n \in SeedCounts : 1 .. n \subseteq KeyId
    /\ {DEVICE_LIMIT, MAX_UPLOAD, LOW_OTPK} \subseteq Nat
    /\ None \notin User /\ None \notin Device /\ None \notin KeyId
    /\ None \notin Identity /\ None \notin Spk /\ None \notin Device \X KeyId

VARIABLES
    users,      \* table users
    devUser,    \* table devices: owner, None when there is no such row
    devAt,      \* devices.created_at
    devIdent,   \* devices.identity_key
    devSpk,     \* devices.signed_prekey with its signature
    devCount,   \* devices.otpk_count, the cached counter
    otpk,       \* table one_time_prekeys: "absent", "free" or "consumed"
    otpkId,     \* one_time_prekeys.otpk_id of the rows that exist
    nextId,     \* the BIGSERIAL behind otpk_id
    clock       \* NOW() of the latest BEGIN

VARIABLES
    pc,         \* where the request is in its handler
    usr,        \* the user the request is about
    dev,        \* the device the request is about
    todo,       \* one-time prekey ids still to be inserted
    mine,       \* otpk_id of each row the open transaction inserted, 0 if none
    newUser,    \* the open transaction inserted the user row
    key,        \* the one-time prekey row a fetch has locked
    ident,      \* the identity key in the request or in the bundle
    spk,        \* the signed prekey read from, or to be written to, the device
    num,        \* created_at (register) or the counted pool (replenish)
    resp,       \* the answer
    taken,      \* the one-time prekey whose consumption the request committed
    notified    \* devices a low_otpk event was sent to

db     == <<users, devUser, devAt, devIdent, devSpk, devCount, otpk, otpkId, nextId, clock>>
locals == <<usr, dev, todo, mine, newUser, key, ident, spk, num>>
vars   == <<db, pc, locals, resp, taken, notified>>

(***************************************************************************)
(* Transactions, locks and what a statement sees.                          *)
(***************************************************************************)
RegisterTx  == {"reg_user", "reg_count", "reg_insert", "reg_commit"}
FetchTx     == {"fetch_otpk", "fetch_mark", "fetch_commit"}
ReplenishTx == {"repl_insert", "repl_sync", "repl_commit"}
InTx(r)     == pc[r] \in RegisterTx \cup FetchTx \cup ReplenishTx

\* SELECT ... FOR UPDATE holds the key row until the fetch ends.
HoldsOtpk(r, d, k) ==
    pc[r] \in {"fetch_mark", "fetch_commit"} /\ dev[r] = d /\ key[r] = k

\* UPDATE devices holds the device row until the transaction ends.
HoldsDevice(r, d) == pc[r] \in {"fetch_commit", "repl_commit"} /\ dev[r] = d

\* Mutant: the rows of an ended transaction stay locked.
HoldsInsertLeaked(r, d, k) == dev[r] = d /\ mine[r][k] # 0

\* An uncommitted one_time_prekeys row; its unique-index entry blocks others.
HoldsInsert(r, d, k) == InTx(r) /\ dev[r] = d /\ mine[r][k] # 0

\* An uncommitted users row.
HoldsUser(r, u) == InTx(r) /\ usr[r] = u /\ newUser[r]

DevicesOf(u) == {d \in Device : devUser[d] = u}
Available(d) == {k \in KeyId : otpk[d][k] = "free"}

\* SELECT COUNT(*) ... WHERE consumed = FALSE
PoolSize(d) == Cardinality(Available(d))

\* verify_signed_prekey
Verifies(i, s) == Signer[s] = i

\* ORDER BY created_at LIMIT 1
Oldest(u) == {d \in DevicesOf(u) : \A e \in DevicesOf(u) : devAt[d] <= devAt[e]}

\* ORDER BY otpk_id LIMIT 1
First(d, ks) == {k \in ks : \A j \in ks : otpkId[d][k] <= otpkId[d][j]}

\* Mutant: no FOR UPDATE.
LockableUnlocked(d) == Available(d)

\* Mutant: LIMIT 1 is applied before locked rows are skipped.
LockableLimitFirst(d) ==
    {k \in Available(d) : k \in First(d, Available(d)) /\ \A q \in Req : ~HoldsOtpk(q, d, k)}

\* Unconsumed rows that FOR UPDATE SKIP LOCKED does not skip.
Lockable(d) == {k \in Available(d) : \A q \in Req : ~HoldsOtpk(q, d, k)}

NoKeys == [k \in KeyId |-> 0]

\* The database with n one-time prekeys on each seeded device, and no request.
Seeded(n) ==
    /\ users = IF SeedDevices = {} THEN {} ELSE {SeedUser}
    /\ devUser = [d \in Device |-> IF d \in SeedDevices THEN SeedUser ELSE None]
    /\ devAt = [d \in Device |-> 0]
    /\ devIdent = [d \in Device |-> IF d \in SeedDevices THEN SeedIdentity ELSE None]
    /\ devSpk = [d \in Device |-> IF d \in SeedDevices THEN SeedSpk ELSE None]
    /\ devCount = [d \in Device |-> IF d \in SeedDevices THEN n ELSE 0]
    /\ otpk = [d \in Device |-> [k \in KeyId |->
                  IF d \in SeedDevices /\ k <= n THEN "free" ELSE "absent"]]
    /\ otpkId = [d \in Device |-> [k \in KeyId |->
                  IF d \in SeedDevices /\ k <= n THEN k ELSE 0]]
    /\ nextId = n + 1
    /\ clock = 0
    /\ pc = [r \in Req |-> "idle"]
    /\ usr = [r \in Req |-> None]
    /\ dev = [r \in Req |-> None]
    /\ todo = [r \in Req |-> <<>>]
    /\ mine = [r \in Req |-> NoKeys]
    /\ newUser = [r \in Req |-> FALSE]
    /\ key = [r \in Req |-> None]
    /\ ident = [r \in Req |-> None]
    /\ spk = [r \in Req |-> None]
    /\ num = [r \in Req |-> 0]
    /\ resp = [r \in Req |-> "none"]
    /\ taken = [r \in Req |-> None]
    /\ notified = {}

Init == \E n \in SeedCounts : Seeded(n)

Goto(r, l) == pc' = [pc EXCEPT ![r] = l] /\ UNCHANGED resp

\* The handler returns; an open transaction that did not commit is rolled back.
Answer(r, a) == pc' = [pc EXCEPT ![r] = "done"] /\ resp' = [resp EXCEPT ![r] = a]

(***************************************************************************)
(* POST /users/{u}/devices                                                 *)
(***************************************************************************)

\* The handler's checks in order: ownership, size, signature, and a first device
\* count outside any transaction.
RegisterRefusal(u, own, keys, i, s) ==
    IF ~own THEN "forbidden"
    ELSE IF Len(keys) > MAX_UPLOAD THEN "bad_request"
    ELSE IF ~Verifies(i, s) THEN "bad_signature"
    ELSE IF Cardinality(DevicesOf(u)) >= DEVICE_LIMIT THEN "limit"
    ELSE "none"

RegisterRequest(r, u, own, keys, i, s) ==
    /\ pc[r] = "idle"
    /\ LET refusal == RegisterRefusal(u, own, keys, i, s) IN
       IF refusal # "none"
       THEN Answer(r, refusal) /\ UNCHANGED <<usr, todo, ident, spk>>
       ELSE /\ usr' = [usr EXCEPT ![r] = u]
            /\ todo' = [todo EXCEPT ![r] = keys]
            /\ ident' = [ident EXCEPT ![r] = i]
            /\ spk' = [spk EXCEPT ![r] = s]
            /\ Goto(r, "reg_begin")
    /\ UNCHANGED <<db, dev, mine, newUser, key, num, taken, notified>>

\* BEGIN fixes the NOW() that becomes created_at.
RegisterBegin(r) ==
    /\ pc[r] = "reg_begin"
    /\ clock' = clock + 1
    /\ num' = [num EXCEPT ![r] = clock + 1]
    /\ Goto(r, "reg_user")
    /\ UNCHANGED <<users, devUser, devAt, devIdent, devSpk, devCount, otpk, otpkId, nextId>>
    /\ UNCHANGED <<usr, dev, todo, mine, newUser, key, ident, spk, taken, notified>>

\* INSERT INTO users ... ON CONFLICT DO NOTHING waits for an open transaction
\* that inserted the same row.
RegisterUpsertUser(r) ==
    /\ pc[r] = "reg_user"
    /\ \A q \in Req : ~HoldsUser(q, usr[r])
    /\ newUser' = [newUser EXCEPT ![r] = usr[r] \notin users]
    /\ Goto(r, "reg_count")
    /\ UNCHANGED <<db, usr, dev, todo, mine, key, ident, spk, num, taken, notified>>

\* The second count, inside the transaction, locks nothing.
RegisterCount(r) ==
    /\ pc[r] = "reg_count"
    /\ IF Cardinality(DevicesOf(usr[r])) >= DEVICE_LIMIT
       THEN Answer(r, "limit")
       ELSE Goto(r, "reg_insert")
    /\ UNCHANGED <<db, locals, taken, notified>>

\* The device row and its one-time prekeys; a repeated id breaks the UNIQUE
\* constraint and rolls everything back.
RegisterInsert(r, d) ==
    /\ pc[r] = "reg_insert"
    /\ devUser[d] = None
    /\ \A q \in Req : dev[q] # d
    /\ dev' = [dev EXCEPT ![r] = d]
    /\ IF Cardinality({todo[r][i] : i \in DOMAIN todo[r]}) < Len(todo[r])
       THEN Answer(r, "storage") /\ UNCHANGED <<nextId, mine>>
       ELSE /\ Goto(r, "reg_commit")
            /\ mine' = [mine EXCEPT ![r] = [k \in KeyId |->
                            IF \E i \in DOMAIN todo[r] : todo[r][i] = k
                            THEN nextId + (CHOOSE i \in DOMAIN todo[r] : todo[r][i] = k) - 1
                            ELSE 0]]
            /\ nextId' = nextId + Len(todo[r])
    /\ UNCHANGED <<users, devUser, devAt, devIdent, devSpk, devCount, otpk, otpkId, clock>>
    /\ UNCHANGED <<usr, todo, newUser, key, ident, spk, num, taken, notified>>

\* The rows a transaction inserted become visible, unconsumed.
PublishKeys(r) ==
    /\ otpk' = [otpk EXCEPT ![dev[r]] =
                   [k \in KeyId |-> IF mine[r][k] # 0 THEN "free" ELSE @[k]]]
    /\ otpkId' = [otpkId EXCEPT ![dev[r]] =
                   [k \in KeyId |-> IF mine[r][k] # 0 THEN mine[r][k] ELSE @[k]]]

\* COMMIT succeeds; its acknowledgement may be lost, and the handler then
\* answers 503 although the rows are there.
RegisterCommit(r) ==
    /\ pc[r] = "reg_commit"
    /\ users' = users \cup {usr[r]}
    /\ devUser' = [devUser EXCEPT ![dev[r]] = usr[r]]
    /\ devAt' = [devAt EXCEPT ![dev[r]] = num[r]]
    /\ devIdent' = [devIdent EXCEPT ![dev[r]] = ident[r]]
    /\ devSpk' = [devSpk EXCEPT ![dev[r]] = spk[r]]
    /\ devCount' = [devCount EXCEPT ![dev[r]] = Len(todo[r])]
    /\ PublishKeys(r)
    /\ \E a \in {"created", "storage"} : Answer(r, a)
    /\ UNCHANGED <<nextId, clock, locals, taken, notified>>

(***************************************************************************)
(* GET /users/{u}/key-bundle                                               *)
(***************************************************************************)

\* The device row, with its signed prekey, is read before the transaction.
FetchSelectDevice(r, u) ==
    /\ pc[r] = "idle"
    /\ \/ /\ DevicesOf(u) = {}
          /\ Answer(r, "not_found")
          /\ UNCHANGED <<usr, dev, ident, spk>>
       \/ \E d \in Oldest(u) :
          /\ usr' = [usr EXCEPT ![r] = u]
          /\ dev' = [dev EXCEPT ![r] = d]
          /\ ident' = [ident EXCEPT ![r] = devIdent[d]]
          /\ spk' = [spk EXCEPT ![r] = devSpk[d]]
          /\ Goto(r, "fetch_otpk")
    /\ UNCHANGED <<db, todo, mine, newUser, key, num, taken, notified>>

\* SELECT ... FOR UPDATE SKIP LOCKED; with no row the transaction commits empty.
FetchLockOtpk(r) ==
    /\ pc[r] = "fetch_otpk"
    /\ \/ /\ Lockable(dev[r]) = {}
          /\ Goto(r, "fetch_notify")
          /\ UNCHANGED key
       \/ \E k \in First(dev[r], Lockable(dev[r])) :
          /\ key' = [key EXCEPT ![r] = k]
          /\ Goto(r, "fetch_mark")
    /\ UNCHANGED <<db, usr, dev, todo, mine, newUser, ident, spk, num, taken, notified>>

\* UPDATE one_time_prekeys, then UPDATE devices, which waits for the row lock.
FetchMark(r) ==
    /\ pc[r] = "fetch_mark"
    /\ \A q \in Req : ~HoldsDevice(q, dev[r])
    /\ Goto(r, "fetch_commit")
    /\ UNCHANGED <<db, locals, taken, notified>>

\* COMMIT, acknowledged or not.
FetchCommit(r) ==
    /\ pc[r] = "fetch_commit"
    /\ otpk' = [otpk EXCEPT ![dev[r]][key[r]] = "consumed"]
    /\ devCount' = [devCount EXCEPT ![dev[r]] = IF @ = 0 THEN 0 ELSE @ - 1]
    /\ taken' = [taken EXCEPT ![r] = <<dev[r], key[r]>>]
    /\ Goto(r, "fetch_notify") \/ Answer(r, "storage")
    /\ UNCHANGED <<users, devUser, devAt, devIdent, devSpk, otpkId, nextId, clock, locals, notified>>

\* Mutant: the cached counter in place of COUNT(*).
FetchNotifyCached(r) ==
    /\ pc[r] = "fetch_notify"
    /\ notified' = IF devCount[dev[r]] < LOW_OTPK THEN notified \cup {dev[r]} ELSE notified
    /\ Answer(r, IF taken[r] = None THEN "depleted" ELSE "bundle")
    /\ UNCHANGED <<db, locals, taken>>

\* The handler counts the pool afresh (0 when the query fails), sends low_otpk
\* below the threshold and answers.
FetchNotify(r) ==
    /\ pc[r] = "fetch_notify"
    /\ \E n \in {PoolSize(dev[r]), 0} :
          notified' = IF n < LOW_OTPK THEN notified \cup {dev[r]} ELSE notified
    /\ Answer(r, IF taken[r] = None THEN "depleted" ELSE "bundle")
    /\ UNCHANGED <<db, locals, taken>>

(***************************************************************************)
(* PUT /users/{u}/devices/{d}/one-time-prekeys                             *)
(***************************************************************************)

\* Ownership and size; a device that does not exist fails the foreign key.
ReplenishRefusal(d, own, keys) ==
    IF ~own THEN "forbidden"
    ELSE IF keys = <<>> \/ Len(keys) > MAX_UPLOAD THEN "bad_request"
    ELSE IF devUser[d] = None THEN "storage"
    ELSE "none"

ReplenishRequest(r, d, own, keys) ==
    /\ pc[r] = "idle"
    /\ LET refusal == ReplenishRefusal(d, own, keys) IN
       IF refusal # "none"
       THEN Answer(r, refusal) /\ UNCHANGED <<dev, todo>>
       ELSE /\ dev' = [dev EXCEPT ![r] = d]
            /\ todo' = [todo EXCEPT ![r] = keys]
            /\ Goto(r, "repl_insert")
    /\ UNCHANGED <<db, usr, mine, newUser, key, ident, spk, num, taken, notified>>

\* Mutant: ON CONFLICT DO UPDATE, which replaces a committed row.
ConflictsOwn(r, k) == mine[r][k] # 0

\* The row exists already, committed or inserted earlier by the same upload.
Conflicts(r, k) == otpk[dev[r]][k] # "absent" \/ mine[r][k] # 0

\* INSERT ... ON CONFLICT DO NOTHING waits for an open transaction that
\* inserted the same (device, key_id), then inserts only if no row exists.
ReplenishInsert(r) ==
    LET k == Head(todo[r]) IN
    /\ pc[r] = "repl_insert"
    /\ todo[r] # <<>>
    /\ \A q \in Req \ {r} : ~HoldsInsert(q, dev[r], k)
    /\ IF Conflicts(r, k)
       THEN UNCHANGED <<mine, nextId>>
       ELSE /\ mine' = [mine EXCEPT ![r][k] = nextId]
            /\ nextId' = nextId + 1
    /\ todo' = [todo EXCEPT ![r] = Tail(@)]
    /\ UNCHANGED <<pc, resp>>
    /\ UNCHANGED <<users, devUser, devAt, devIdent, devSpk, devCount, otpk, otpkId, clock>>
    /\ UNCHANGED <<usr, dev, newUser, key, ident, spk, num, taken, notified>>

\* SELECT COUNT(*) sees the committed rows and the transaction's own.
ReplenishCount(r) ==
    /\ pc[r] = "repl_insert"
    /\ todo[r] = <<>>
    /\ num' = [num EXCEPT ![r] = Cardinality(Available(dev[r]) \cup
                                             {k \in KeyId : mine[r][k] # 0})]
    /\ Goto(r, "repl_sync")
    /\ UNCHANGED <<db, usr, dev, todo, mine, newUser, key, ident, spk, taken, notified>>

\* UPDATE devices SET otpk_count waits for the row lock.
ReplenishSync(r) ==
    /\ pc[r] = "repl_sync"
    /\ \A q \in Req : ~HoldsDevice(q, dev[r])
    /\ Goto(r, "repl_commit")
    /\ UNCHANGED <<db, locals, taken, notified>>

ReplenishCommit(r) ==
    /\ pc[r] = "repl_commit"
    /\ devCount' = [devCount EXCEPT ![dev[r]] = num[r]]
    /\ PublishKeys(r)
    /\ \E a \in {"replenished", "storage"} : Answer(r, a)
    /\ UNCHANGED <<users, devUser, devAt, devIdent, devSpk, nextId, clock, locals, taken, notified>>

(***************************************************************************)
(* PUT /users/{u}/devices/{d}/signed-prekey                                *)
(***************************************************************************)

\* Mutant: the signature is not verified.
RotateRefusalUnverified(d, own, s) ==
    IF ~own THEN "forbidden"
    ELSE IF devUser[d] = None THEN "not_found"
    ELSE "none"

\* Ownership, the device row, and the signature under its identity key.
RotateRefusal(d, own, s) ==
    IF ~own THEN "forbidden"
    ELSE IF devUser[d] = None THEN "not_found"
    ELSE IF ~Verifies(devIdent[d], s) THEN "bad_signature"
    ELSE "none"

\* The identity key is read and the signature verified before the write.
RotateRequest(r, d, own, s) ==
    /\ pc[r] = "idle"
    /\ LET refusal == RotateRefusal(d, own, s) IN
       IF refusal # "none"
       THEN Answer(r, refusal) /\ UNCHANGED <<dev, spk>>
       ELSE /\ dev' = [dev EXCEPT ![r] = d]
            /\ spk' = [spk EXCEPT ![r] = s]
            /\ Goto(r, "rot_write")
    /\ UNCHANGED <<db, usr, todo, mine, newUser, key, ident, num, taken, notified>>

\* One auto-committed UPDATE, which waits for the row lock.
RotateWrite(r) ==
    /\ pc[r] = "rot_write"
    /\ \A q \in Req : ~HoldsDevice(q, dev[r])
    /\ devSpk' = [devSpk EXCEPT ![dev[r]] = spk[r]]
    /\ \E a \in {"rotated", "storage"} : Answer(r, a)
    /\ UNCHANGED <<users, devUser, devAt, devIdent, devCount, otpk, otpkId, nextId, clock>>
    /\ UNCHANGED <<locals, taken, notified>>

(***************************************************************************)
(* Failures.  Any statement may fail (a lost connection, a server crash, a *)
(* deadlock victim): the transaction is rolled back and the answer is 503. *)
(***************************************************************************)
Abort(r) ==
    /\ pc[r] \notin {"idle", "fetch_notify", "done"}
    /\ Answer(r, "storage")
    /\ UNCHANGED <<db, locals, taken, notified>>

\* The open transactions whose locks the next statement of r must wait for.
WaitsFor(r) ==
    CASE pc[r] = "reg_user" ->
            {q \in Req : HoldsUser(q, usr[r])}
      [] pc[r] = "repl_insert" /\ todo[r] # <<>> ->
            {q \in Req \ {r} : HoldsInsert(q, dev[r], Head(todo[r]))}
      [] pc[r] \in {"fetch_mark", "repl_sync", "rot_write"} ->
            {q \in Req : HoldsDevice(q, dev[r])}
      [] OTHER -> {}

Deadlocked(r) ==
    \E S \in SUBSET Req : r \in S /\ \A q \in S : WaitsFor(q) \cap S # {}

\* PostgreSQL breaks a cycle of waiting transactions by aborting a member.
DeadlockVictim(r) == Deadlocked(r) /\ Abort(r)

Step(r) ==
    \/ RegisterBegin(r) \/ RegisterUpsertUser(r) \/ RegisterCount(r)
    \/ (\E d \in Device : RegisterInsert(r, d)) \/ RegisterCommit(r)
    \/ FetchLockOtpk(r) \/ FetchMark(r) \/ FetchCommit(r) \/ FetchNotify(r)
    \/ ReplenishInsert(r) \/ ReplenishCount(r) \/ ReplenishSync(r) \/ ReplenishCommit(r)
    \/ RotateWrite(r)

Arrive(r) ==
    \/ \E u \in User, own \in BOOLEAN, ks \in Uploads, i \in Identity, s \in Spk :
          RegisterRequest(r, u, own, ks, i, s)
    \/ \E u \in User : FetchSelectDevice(r, u)
    \/ \E d \in Device, own \in BOOLEAN, ks \in Uploads : ReplenishRequest(r, d, own, ks)
    \/ \E d \in Device, own \in BOOLEAN, s \in Spk : RotateRequest(r, d, own, s)

Next == \E r \in Req : Arrive(r) \/ Step(r) \/ Abort(r)

Spec == Init /\ [][Next]_vars

\* A request that has arrived keeps executing, and the database resolves
\* deadlocks; no request has to arrive and no failure has to happen.
Fairness == \A r \in Req : WF_vars(Step(r)) /\ WF_vars(DeadlockVictim(r))
FairSpec == Spec /\ Fairness

(***************************************************************************)
(* Properties.                                                             *)
(***************************************************************************)
Labels == RegisterTx \cup FetchTx \cup ReplenishTx \cup
          {"idle", "reg_begin", "fetch_notify", "rot_write", "done"}

Responses == {"none", "forbidden", "bad_request", "bad_signature", "limit",
              "not_found", "storage", "created", "bundle", "depleted",
              "replenished", "rotated"}

\* The columns of a device row are set together.
RowsWhole ==
    \A d \in Device : /\ (devUser[d] = None) <=> (devIdent[d] = None)
                      /\ (devUser[d] = None) <=> (devSpk[d] = None)

\* Every variable has its type, and no handler writes a device that
\* register_device did not insert.
TypeOK ==
    /\ users \subseteq User
    /\ devUser \in [Device -> User \cup {None}]
    /\ devAt \in [Device -> Nat]
    /\ devIdent \in [Device -> Identity \cup {None}]
    /\ devSpk \in [Device -> Spk \cup {None}]
    /\ devCount \in [Device -> Nat]
    /\ otpk \in [Device -> [KeyId -> {"absent", "free", "consumed"}]]
    /\ otpkId \in [Device -> [KeyId -> Nat]]
    /\ nextId \in Nat /\ clock \in Nat
    /\ pc \in [Req -> Labels]
    /\ usr \in [Req -> User \cup {None}]
    /\ dev \in [Req -> Device \cup {None}]
    /\ todo \in [Req -> Seq(KeyId)]
    /\ mine \in [Req -> [KeyId -> Nat]]
    /\ newUser \in [Req -> BOOLEAN]
    /\ key \in [Req -> KeyId \cup {None}]
    /\ ident \in [Req -> Identity \cup {None}]
    /\ spk \in [Req -> Spk \cup {None}]
    /\ num \in [Req -> Nat]
    /\ resp \in [Req -> Responses]
    /\ taken \in [Req -> (Device \X KeyId) \cup {None}]
    /\ notified \subseteq Device
    /\ RowsWhole

\* "concurrent fetches never return the same OTPK" (fetch_key_bundle): no two
\* requests ever commit the consumption of the same one-time prekey.
OtpkTakenOnce ==
    \A r, q \in Req : taken[r] # None /\ taken[r] = taken[q] => r = q

\* A one-time prekey is marked consumed exactly when a fetch committed taking it:
\* a fetch that is rolled back spends no key, and an upload of an id that was
\* already used does not make the key available again.
ConsumedIffTaken ==
    \A d \in Device, k \in KeyId :
        otpk[d][k] = "consumed" <=> \E r \in Req : taken[r] = <<d, k>>

\* A step that revives or replaces no consumed row and drops no row.
KeyRowsKept ==
    \A d \in Device, k \in KeyId :
        /\ otpk[d][k] = "consumed" =>
              otpk'[d][k] = "consumed" /\ otpkId'[d][k] = otpkId[d][k]
        /\ otpk[d][k] # "absent" => otpk'[d][k] # "absent"

\* ON CONFLICT DO NOTHING in replenish_otpks: no step, of any request, replaces
\* or revives a row that a fetch has consumed, and no committed row disappears.
ConsumedForever == [][KeyRowsKept]_vars

\* Rotation verifies against the identity key of the row it is about to write:
\* every stored signed prekey, and every one a fetch hands out with an identity
\* key, verifies under that identity key.
BundlesVerify ==
    /\ \A d \in Device : devUser[d] # None => Verifies(devIdent[d], devSpk[d])
    /\ \A r \in Req : resp[r] \in {"bundle", "depleted"} => Verifies(ident[r], spk[r])

\* The otpk_warning "depleted" is only given when every key that is left is locked
\* by another fetch: unless the device was replenished or a fetch that held a key
\* was rolled back, a request that got no key found none it could have had.
DepletedIsHonest ==
    \A r \in Req : LET d == dev[r] IN
        /\ resp[r] = "depleted"
        /\ \A q \in Req : dev[q] = d =>
              /\ mine[q] = NoKeys
              /\ pc[q] = "done" /\ key[q] # None => taken[q] # None
        => \A k \in Available(d) : \E q \in Req : HoldsOtpk(q, d, k)

Quiescent == \A r \in Req : pc[r] \in {"idle", "done"}

\* get_key_bundle counts after its own commit: when all requests are answered and
\* the acknowledgement of no fetch was lost, a device whose pool a fetch has left
\* below the threshold has been sent low_otpk.
LowPoolNotified ==
    Quiescent =>
        \A d \in Device :
            /\ \E r \in Req : resp[r] \in {"bundle", "depleted"} /\ dev[r] = d
            /\ \A r \in Req : taken[r] # None => resp[r] = "bundle"
            /\ PoolSize(d) < LOW_OTPK
            => d \in notified

\* Every request that has arrived is answered, although uploads of the same ids
\* in different orders can wait for each other.
EveryRequestAnswered == \A r \in Req : pc[r] # "idle" ~> pc[r] = "done"
============================================================================

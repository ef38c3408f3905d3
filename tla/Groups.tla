------------------------------- MODULE Groups -------------------------------
(***************************************************************************)
(* Group conversations: PgGroupRepository (crates/groups) and the handlers *)
(* of crates/api/src/groups.rs.                                            *)
(*                                                                         *)
(* Each element of Req is one HTTP request, served once; it also names the *)
(* event the request broadcasts.  add_member and remove_member work on any *)
(* conversation, so the seeded ones may be direct.  store_envelope is one  *)
(* step here: Messaging shows that it implements an append-only log.       *)
(* deliver never waits and its outcome is ignored, so what happens to an   *)
(* event after it is the business of Realtime.                             *)
(***************************************************************************)
EXTENDS FiniteSets, Sequences, Functions

CONSTANTS
    Req,            \* HTTP requests
    User,           \* rows of users
    Device,         \* rows of devices
    NilDevice,      \* Uuid::nil(), the device of a token without device_id
    Conv,           \* conversation ids
    SeedMembers,    \* the conversations that exist at first, and their member rows
    Named,          \* rows that clients ask to add
    Bodies,         \* members of a create, recipients of a distribution: sets of rows
    MAX_EXTRA,      \* 999 in the code
    None

Row == User \X Device

ASSUME GroupsAssumption ==
    /\ NilDevice \notin Device
    /\ DOMAIN SeedMembers \subseteq Conv /\ Range(SeedMembers) \subseteq SUBSET Row
    /\ Named \subseteq Row /\ Bodies \subseteq SUBSET Row
    /\ MAX_EXTRA \in Nat
    /\ None \notin Conv

VARIABLES
    convs,      \* table conversations
    members,    \* table conversation_members
    log,        \* table message_envelopes, as the log of each conversation
    skdm        \* table sender_key_distributions: <<request, recipient row>>

VARIABLES
    pc,         \* where the request is in its handler
    op,         \* which handler it is in
    usr,        \* the authenticated user
    conv,       \* the conversation of the path
    target,     \* the row that is added; the user that is removed, with None
    body,       \* the recipients of a distribution
    todo,       \* rows still to be inserted or told: the SELECT has no ORDER BY,
                \* and the client orders the recipients of a distribution
    resp,       \* the answer
    pushed      \* for each device, the events handed to deliver, in order

VARIABLES
    stayed,     \* devices that were members ever since a message was stored
    seen,       \* devices that were members at some time since then
    left,       \* <<conversation, device>> whose row was deleted
    unclean     \* <<conversation, user>> changed by overlapping or unannounced requests

tables  == <<convs, members, log, skdm>>
locals  == <<op, usr, conv, target, body>>
history == <<stayed, seen, left, unclean>>
vars    == <<tables, pc, locals, todo, resp, pushed, history>>

Init ==
    /\ convs = DOMAIN SeedMembers
    /\ members = [c \in Conv |-> IF c \in DOMAIN SeedMembers THEN SeedMembers[c] ELSE {}]
    /\ log = [c \in Conv |-> <<>>]
    /\ skdm = {}
    /\ pc = [r \in Req |-> "idle"]
    /\ op = [r \in Req |-> "none"]
    /\ usr = [r \in Req |-> None]
    /\ conv = [r \in Req |-> None]
    /\ target = [r \in Req |-> None]
    /\ body = [r \in Req |-> {}]
    /\ todo = [r \in Req |-> {}]
    /\ resp = [r \in Req |-> "none"]
    /\ pushed = [d \in Device |-> <<>>]
    /\ stayed = [r \in Req |-> {}]
    /\ seen = [r \in Req |-> {}]
    /\ left = {}
    /\ unclean = {}

Goto(r, l) == pc' = [pc EXCEPT ![r] = l] /\ UNCHANGED resp

Answer(r, a) == pc' = [pc EXCEPT ![r] = "done"] /\ resp' = [resp EXCEPT ![r] = a]

\* is_member
IsMember(c, u) == \E d \in Device : <<u, d>> \in members[c]

DevicesOf(c) == {row[2] : row \in members[c]}

(***************************************************************************)
(* POST /groups                                                            *)
(***************************************************************************)

\* Tokens carry no device_id, so the creator's row is for the nil device.
InitialMembers(u, b) == {<<u, NilDevice>>} \cup b

\* The foreign keys of conversation_members.  A row that is repeated in the
\* request is an error like a device that does not exist.
Insertable(rows) == rows \subseteq Row

\* The check of the size, then one transaction.
CreateGroup(r, u, b) ==
    /\ pc[r] = "idle"
    /\ op' = [op EXCEPT ![r] = "create"]
    /\ usr' = [usr EXCEPT ![r] = u]
    /\ IF Cardinality(b) \in 2 .. MAX_EXTRA /\ Insertable(InitialMembers(u, b))
       THEN \E c \in Conv \ convs :
                /\ convs' = convs \cup {c}
                /\ members' = [members EXCEPT ![c] = InitialMembers(u, b)]
                /\ conv' = [conv EXCEPT ![r] = c]
                /\ Answer(r, "created")
       ELSE /\ Answer(r, IF Cardinality(b) \in 2 .. MAX_EXTRA THEN "storage" ELSE "bad_request")
            /\ UNCHANGED <<convs, members, conv>>
    /\ UNCHANGED <<log, skdm, target, body, todo, pushed, history>>

(***************************************************************************)
(* POST /groups/{id}/messages                                              *)
(***************************************************************************)

\* is_member
SendRequest(r, u, c) ==
    /\ pc[r] = "idle"
    /\ op' = [op EXCEPT ![r] = "send"]
    /\ usr' = [usr EXCEPT ![r] = u]
    /\ conv' = [conv EXCEPT ![r] = c]
    /\ IF IsMember(c, u) THEN Goto(r, "store") ELSE Answer(r, "forbidden")
    /\ UNCHANGED <<tables, target, body, todo, pushed, history>>

\* store_envelope
StoreEnvelope(r) ==
    /\ pc[r] = "store"
    /\ log' = [log EXCEPT ![conv[r]] = Append(@, r)]
    /\ stayed' = [stayed EXCEPT ![r] = DevicesOf(conv[r])]
    /\ seen' = [seen EXCEPT ![r] = DevicesOf(conv[r])]
    /\ Goto(r, "list")
    /\ UNCHANGED <<convs, members, skdm, locals, todo, pushed, left, unclean>>

(***************************************************************************)
(* POST and DELETE /groups/{id}/members.  Neither handler looks at who     *)
(* asks, so the requester is left out.                                     *)
(***************************************************************************)

\* A change of u's rows that commits while another is being announced.
Overlaps(r, c, u) ==
    \E q \in Req \ {r} : /\ pc[q] \in {"list", "fan"}
                         /\ op[q] \in {"add", "remove"}
                         /\ conv[q] = c
                         /\ target[q][1] = u

\* INSERT: a row that exists is an error.
AddMember(r, c, row) ==
    /\ pc[r] = "idle"
    /\ op' = [op EXCEPT ![r] = "add"]
    /\ conv' = [conv EXCEPT ![r] = c]
    /\ target' = [target EXCEPT ![r] = row]
    /\ \/ /\ row \notin members[c]
          /\ members' = [members EXCEPT ![c] = @ \cup {row}]
          /\ seen' = [q \in Req |-> IF r # q /\ conv[q] = c THEN seen[q] \cup {row[2]} ELSE seen[q]]
          /\ unclean' = IF Overlaps(r, c, row[1]) THEN unclean \cup {<<c, row[1]>>} ELSE unclean
          /\ Goto(r, "list")
       \/ /\ row \in members[c]
          /\ Answer(r, "storage")
          /\ UNCHANGED <<members, seen, unclean>>
    /\ UNCHANGED <<convs, log, skdm, usr, body, todo, pushed, stayed, left>>

\* Mutant: only one of the user's rows goes.
RowsOfOne(c, u) == LET mine == {row \in members[c] : row[1] = u}
                   IN  IF mine = {} THEN {} ELSE {CHOOSE row \in mine : TRUE}

\* ... WHERE user_id = u
RowsOf(c, u) == {row \in members[c] : row[1] = u}

\* DELETE, which is no error when it finds no row.
RemoveMember(r, c, u) ==
    /\ pc[r] = "idle"
    /\ op' = [op EXCEPT ![r] = "remove"]
    /\ conv' = [conv EXCEPT ![r] = c]
    /\ target' = [target EXCEPT ![r] = <<u, None>>]
    /\ LET gone  == RowsOf(c, u)
           rest  == members[c] \ gone
           leave == {row[2] : row \in gone} \ {row[2] : row \in rest}
       IN  /\ members' = [members EXCEPT ![c] = rest]
           /\ stayed' = [q \in Req |-> IF r # q /\ conv[q] = c THEN stayed[q] \ leave ELSE stayed[q]]
           /\ left' = left \cup ({c} \X leave)
    /\ unclean' = IF Overlaps(r, c, u) THEN unclean \cup {<<c, u>>} ELSE unclean
    /\ Goto(r, "list")
    /\ UNCHANGED <<convs, log, skdm, usr, body, todo, pushed, seen>>

(***************************************************************************)
(* POST /groups/{id}/sender-key-distribution                               *)
(***************************************************************************)

\* is_member
SkdmRequest(r, u, c, b) ==
    /\ pc[r] = "idle"
    /\ op' = [op EXCEPT ![r] = "skdm"]
    /\ usr' = [usr EXCEPT ![r] = u]
    /\ conv' = [conv EXCEPT ![r] = c]
    /\ body' = [body EXCEPT ![r] = b]
    /\ IF IsMember(c, u)
       THEN Goto(r, "skdm") /\ todo' = [todo EXCEPT ![r] = b]
       ELSE Answer(r, "forbidden") /\ UNCHANGED todo
    /\ UNCHANGED <<tables, target, pushed, history>>

\* Mutant: the INSERT runs on the pool, outside of the transaction.
InsertSkdmOnPool(r, row) ==
    /\ pc[r] = "skdm"
    /\ skdm' = skdm \cup {<<r, row>>}
    /\ todo' = [todo EXCEPT ![r] = @ \ {row}]
    /\ UNCHANGED <<convs, members, log, pc, locals, resp, pushed, history>>

\* store_skdm: one INSERT per recipient, which nobody sees before the commit.
InsertSkdm(r, row) ==
    /\ pc[r] = "skdm"
    /\ todo' = [todo EXCEPT ![r] = @ \ {row}]
    /\ UNCHANGED <<tables, pc, locals, resp, pushed, history>>

\* The recipients whose row the transaction of r has inserted.
Inserted(r) == body[r] \ todo[r]

\* COMMIT, once the loop is through; then the recipients are told.
CommitSkdm(r) ==
    /\ pc[r] = "skdm"
    /\ todo[r] = {}
    /\ skdm' = skdm \cup ({r} \X Inserted(r))
    /\ IF body[r] = {} THEN Answer(r, "created") ELSE Goto(r, "fan")
    /\ todo' = [todo EXCEPT ![r] = body[r]]
    /\ UNCHANGED <<convs, members, log, locals, pushed, history>>

(***************************************************************************)
(* The end of every handler: get_members, and deliver for one after the    *)
(* other.                                                                  *)
(***************************************************************************)

\* Mutant: one device per user.
RowsToTellPerUser(c) == {CHOOSE row \in members[c] : row[1] = u : u \in {row[1] : row \in members[c]}}

\* get_members
RowsToTell(c) == members[c]

Success(r) == IF op[r] = "remove" THEN "no_content" ELSE "created"

GetMembers(r) ==
    /\ pc[r] = "list"
    /\ todo' = [todo EXCEPT ![r] = RowsToTell(conv[r])]
    /\ IF RowsToTell(conv[r]) = {} THEN Answer(r, Success(r)) ELSE Goto(r, "fan")
    /\ UNCHANGED <<tables, locals, pushed, history>>

Deliver(r, row) ==
    /\ pc[r] = "fan"
    /\ row \in todo[r]
    /\ pushed' = [pushed EXCEPT ![row[2]] = Append(@, r)]
    /\ todo' = [todo EXCEPT ![r] = @ \ {row}]
    /\ IF todo[r] = {row} THEN Answer(r, Success(r)) ELSE Goto(r, "fan")
    /\ UNCHANGED <<tables, locals, history>>

\* A statement fails, among them any INSERT of a distribution, and its transaction is
\* rolled back; or the answer of a commit is lost, and what was committed stays.
Abort(r) ==
    /\ \/ pc[r] \in {"store", "skdm", "list"}
       \/ op[r] = "skdm" /\ pc[r] = "fan" /\ todo[r] = body[r]
    /\ Answer(r, "storage")
    /\ unclean' = IF pc[r] = "list" /\ op[r] # "send"
                  THEN unclean \cup {<<conv[r], target[r][1]>>} ELSE unclean
    /\ todo' = [todo EXCEPT ![r] = {}]
    /\ UNCHANGED <<tables, locals, pushed, stayed, seen, left>>

\* A request about an id that is not in convs is answered 403, 503 or, a
\* removal, 204, and changes nothing.
Next ==
    \E r \in Req :
        \/ \E u \in User, b \in Bodies : CreateGroup(r, u, b)
        \/ \E u \in User, c \in convs : SendRequest(r, u, c)
        \/ \E c \in convs, row \in Named : AddMember(r, c, row)
        \/ \E c \in convs, u \in User : RemoveMember(r, c, u)
        \/ \E u \in User, c \in convs, b \in Bodies : SkdmRequest(r, u, c, b)
        \/ StoreEnvelope(r)
        \/ \E row \in todo[r] : InsertSkdm(r, row)
        \/ CommitSkdm(r)
        \/ GetMembers(r)
        \/ \E row \in todo[r] : Deliver(r, row)
        \/ Abort(r)

Spec == Init /\ [][Next]_vars

(***************************************************************************)
(* Properties.                                                             *)
(***************************************************************************)

Heard(r) == {d \in Device : r \in Range(pushed[d])}

\* send_group_message reads the members after it stored the message: each device
\* that stays a member from the store to the answer is handed the message, and
\* no device is that was not a member at some moment after the store.
FanOutIsMembership ==
    \A r \in Req : op[r] = "send" =>
        /\ Heard(r) \subseteq seen[r]
        /\ resp[r] = "created" => stayed[r] \subseteq Heard(r)

\* distribute_sender_key: although any INSERT of the loop may fail and the answer of
\* the commit may be lost, the rows of a distribution are stored all or none, and no
\* device is handed key material before its row is stored.
SkdmAllOrNothing ==
    \A r \in Req : op[r] = "skdm" =>
        LET stored == {x[2] : x \in {y \in skdm : y[1] = r}}
        IN  /\ stored \in {{}, body[r]}
            /\ Heard(r) \subseteq {row[2] : row \in stored}

\* r changes u's membership of c.
Changes(r, c, u) == op[r] \in {"add", "remove"} /\ conv[r] = c /\ target[r][1] = u

\* The last change of u's membership that d was told of is its i-th event.
LastTold(d, c, u, i) ==
    /\ Changes(pushed[d][i], c, u)
    /\ \A j \in i + 1 .. Len(pushed[d]) : ~Changes(pushed[d][j], c, u)

\* A device that is not removed and follows MemberAdded and MemberRemoved ends
\* with the membership the table has, for each user whose changes did not overlap
\* and were all announced.
ToldIsTable ==
    (\A r \in Req : pc[r] \in {"idle", "done"}) =>
        \A c \in convs, u \in User, d \in Device : \A i \in DOMAIN pushed[d] :
            (<<c, u>> \notin unclean /\ <<c, d>> \notin left /\ LastTold(d, c, u, i))
                => (op[pushed[d][i]] = "add" <=> IsMember(c, u))
=============================================================================

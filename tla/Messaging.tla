----------------------------- MODULE Messaging -----------------------------
(***************************************************************************)
(* Direct conversations: PgMessagingRepository (crates/messaging) and the  *)
(* handlers of crates/api/src/conversations.rs that call it.               *)
(*                                                                         *)
(* Each element of Req is one HTTP request, served once, and stands for    *)
(* the envelope it carries.  The requests that add and remove members are  *)
(* those of crates/api/src/groups.rs: they accept any conversation, at any *)
(* time, so they are here with what they do to the table.                  *)
(*                                                                         *)
(* The first group of variables is what is committed; the row lock that    *)
(* UPDATE conversations takes is derived from how far a request has come.  *)
(* A statement that fails (a lost connection, a foreign key on a device or *)
(* user that does not exist) is Abort.  Every query is keyed by tenant_id, *)
(* so the model is of one tenant.                                          *)
(***************************************************************************)
EXTENDS Integers, Sequences, FiniteSets

CONSTANTS
    Req,            \* HTTP requests
    User,           \* OIDC subjects of the tenant
    Device,         \* device ids
    Conv,           \* conversation ids that new_v4 may draw
    SeedConvs,      \* conversations that exist before the behaviour starts, empty, ...
    SeedUsers,      \* ... between these users
    Limits,         \* values of the limit parameter that clients send (u64)
    Cursors,        \* values of the before_seq parameter (u64)
    DEFAULT_LIMIT,  \* 50 in the code
    MAX_LIMIT,      \* 200 in the code
    HALF,           \* 2^63 in the code: u64 values from here on are negative as i64
    None            \* absence of a value

ASSUME MessagingAssumption ==
    /\ SeedConvs \subseteq Conv /\ SeedUsers \subseteq User
    /\ {DEFAULT_LIMIT, MAX_LIMIT, HALF} \subseteq Nat \ {0}
    /\ DEFAULT_LIMIT <= MAX_LIMIT /\ MAX_LIMIT < HALF
    /\ Limits \subseteq 0 .. 2 * HALF - 1 /\ Cursors \subseteq 0 .. 2 * HALF - 1
    /\ None \notin Req /\ None \notin User /\ None \notin Device
    /\ None \notin Conv /\ None \notin Nat

VARIABLES
    convs,      \* table conversations: the ids that exist
    lastSeq,    \* conversations.last_seq
    members,    \* table conversation_members: the users of each conversation
    envs        \* table message_envelopes: <<seq, envelope>> of each conversation

VARIABLES
    pc,         \* where the request is in its handler
    usr,        \* the authenticated user of a create
    peer,       \* recipient_user_id of a create, None for a send
    conv,       \* the conversation the request is about
    to,         \* recipient_device_id, None if the envelope has none
    seq,        \* the sequence number RETURNING gave
    page,       \* what a read returned: its page size and the sequence numbers
    resp,       \* the answer
    pushed      \* for each device, the envelopes handed to deliver, in order

tables == <<convs, lastSeq, members, envs>>
locals == <<usr, peer, conv, to, seq, page>>
vars   == <<tables, pc, locals, resp, pushed>>

(***************************************************************************)
(* Locks and queries.                                                      *)
(***************************************************************************)

\* Mutant: the sequence number is read without the row lock.
HoldsConvNever(r, c) == FALSE

\* Mutant: a transaction that fails is left open instead of rolled back.
HoldsConvLeaked(r, c) ==
    conv[r] = c /\ (pc[r] \in {"st_insert", "st_commit"} \/ resp[r] = "storage")

\* UPDATE conversations holds the row until the transaction ends.
HoldsConv(r, c) == pc[r] \in {"st_insert", "st_commit"} /\ conv[r] = c

\* find_direct_conversation, whose LIMIT 1 returns any of these.
DirectBetween(u, v) == {c \in convs : {u, v} \subseteq members[c]}

\* is_participant
IsParticipant(c, u) == u \in members[c]

\* x as i64
AsI64(n) == IF n < HALF THEN n ELSE n - 2 * HALF

\* The page size: the default, then min, then max.
PageLimit(limit) ==
    LET raw     == IF limit = None THEN DEFAULT_LIMIT ELSE AsI64(limit)
        atMost  == IF raw > MAX_LIMIT THEN MAX_LIMIT ELSE raw
    IN  IF atMost < 1 THEN 1 ELSE atMost

SeqsOf(c) == {e[1] : e \in envs[c]}

\* Mutant: the cursor is compared the wrong way round.
GetMessagesAfter(c, before, limit) ==
    LET rows == {n \in SeqsOf(c) : before = None \/ n > AsI64(before)}
    IN  {n \in rows : Cardinality({m \in rows : m < n}) < PageLimit(limit)}

\* ... WHERE seq < before_seq ORDER BY seq ASC LIMIT n: the first n of those rows.
GetMessages(c, before, limit) ==
    LET rows == {n \in SeqsOf(c) : before = None \/ n < AsI64(before)}
    IN  {n \in rows : Cardinality({m \in rows : m < n}) < PageLimit(limit)}

Init ==
    /\ convs = SeedConvs
    /\ lastSeq = [c \in Conv |-> 0]
    /\ members = [c \in Conv |-> IF c \in SeedConvs THEN SeedUsers ELSE {}]
    /\ envs = [c \in Conv |-> {}]
    /\ pc = [r \in Req |-> "idle"]
    /\ usr = [r \in Req |-> None]
    /\ peer = [r \in Req |-> None]
    /\ conv = [r \in Req |-> None]
    /\ to = [r \in Req |-> None]
    /\ seq = [r \in Req |-> 0]
    /\ page = [r \in Req |-> [size |-> 0, rows |-> {}]]
    /\ resp = [r \in Req |-> "none"]
    /\ pushed = [d \in Device |-> <<>>]

Goto(r, l) == pc' = [pc EXCEPT ![r] = l] /\ UNCHANGED resp

\* The handler returns; an open transaction that did not commit is rolled back.
Answer(r, a) == pc' = [pc EXCEPT ![r] = "done"] /\ resp' = [resp EXCEPT ![r] = a]

(***************************************************************************)
(* POST /conversations                                                     *)
(***************************************************************************)

\* The checks and find_direct_conversation; an existing conversation is
\* returned and the envelope of the request is not stored.
CreateRequest(r, u, v, d) ==
    /\ pc[r] = "idle"
    /\ \/ /\ u = v
          /\ Answer(r, "bad_request")
          /\ UNCHANGED <<usr, peer, conv, to>>
       \/ /\ u # v
          /\ \E c \in DirectBetween(u, v) : conv' = [conv EXCEPT ![r] = c]
          /\ Answer(r, "existing")
          /\ UNCHANGED <<usr, peer, to>>
       \/ /\ u # v
          /\ DirectBetween(u, v) = {}
          /\ usr' = [usr EXCEPT ![r] = u]
          /\ peer' = [peer EXCEPT ![r] = v]
          /\ to' = [to EXCEPT ![r] = d]
          /\ Goto(r, "cr_insert")
          /\ UNCHANGED conv
    /\ UNCHANGED <<tables, seq, page, pushed>>

\* create_direct_conversation: one transaction on rows nobody else can see; its
\* acknowledgement may be lost.
CreateInsert(r, c) ==
    /\ pc[r] = "cr_insert"
    /\ c \notin convs
    /\ convs' = convs \cup {c}
    /\ members' = [members EXCEPT ![c] = {usr[r], peer[r]}]
    /\ conv' = [conv EXCEPT ![r] = c]
    /\ Goto(r, "st_update") \/ Answer(r, "storage")
    /\ UNCHANGED <<lastSeq, envs, usr, peer, to, seq, page, pushed>>

(***************************************************************************)
(* POST /conversations/{c}/messages                                        *)
(***************************************************************************)
SendRequest(r, u, c, d) ==
    /\ pc[r] = "idle"
    /\ IF ~IsParticipant(c, u)
       THEN Answer(r, "forbidden") /\ UNCHANGED <<conv, to>>
       ELSE /\ conv' = [conv EXCEPT ![r] = c]
            /\ to' = [to EXCEPT ![r] = d]
            /\ Goto(r, "st_update")
    /\ UNCHANGED <<tables, usr, peer, seq, page, pushed>>

(***************************************************************************)
(* store_envelope, for both handlers.                                      *)
(***************************************************************************)

\* UPDATE conversations SET last_seq = last_seq + 1 ... RETURNING waits for the
\* row lock and then sees what its holder committed.
StoreUpdate(r) ==
    /\ pc[r] = "st_update"
    /\ \A q \in Req : ~HoldsConv(q, conv[r])
    /\ IF conv[r] \in convs
       THEN seq' = [seq EXCEPT ![r] = lastSeq[conv[r]] + 1] /\ Goto(r, "st_insert")
       ELSE Answer(r, "storage") /\ UNCHANGED seq
    /\ UNCHANGED <<tables, usr, peer, conv, to, page, pushed>>

\* A create answers 201; a send goes on to deliver if there is a device.
AfterCommit(r) ==
    IF peer[r] # None THEN Answer(r, "created")
    ELSE IF to[r] = None THEN Answer(r, "sent")
    ELSE Goto(r, "push")

\* Mutant: the transaction is dropped without a commit.
StoreInsertUncommitted(r) ==
    /\ pc[r] = "st_insert"
    /\ AfterCommit(r)
    /\ UNCHANGED <<tables, locals, pushed>>

\* INSERT INTO message_envelopes, under UNIQUE (tenant_id, conversation_id, seq).
StoreInsert(r) ==
    /\ pc[r] = "st_insert"
    /\ IF seq[r] \in SeqsOf(conv[r]) THEN Answer(r, "storage") ELSE Goto(r, "st_commit")
    /\ UNCHANGED <<tables, locals, pushed>>

\* Mutant: last_seq is not written back.
StoreCommitNoBump(r) ==
    /\ pc[r] = "st_commit"
    /\ envs' = [envs EXCEPT ![conv[r]] = @ \cup {<<seq[r], r>>}]
    /\ AfterCommit(r) \/ Answer(r, "storage")
    /\ UNCHANGED <<convs, lastSeq, members, locals, pushed>>

\* COMMIT, acknowledged or not.
StoreCommit(r) ==
    /\ pc[r] = "st_commit"
    /\ lastSeq' = [lastSeq EXCEPT ![conv[r]] = seq[r]]
    /\ envs' = [envs EXCEPT ![conv[r]] = @ \cup {<<seq[r], r>>}]
    /\ AfterCommit(r) \/ Answer(r, "storage")
    /\ UNCHANGED <<convs, members, locals, pushed>>

\* WebTransportManager::deliver to the recipient device, its outcome ignored.
Push(r) ==
    /\ pc[r] = "push"
    /\ pushed' = [pushed EXCEPT ![to[r]] = Append(@, <<conv[r], seq[r], r>>)]
    /\ Answer(r, "sent")
    /\ UNCHANGED <<tables, locals>>

(***************************************************************************)
(* GET /conversations/{c}/messages                                         *)
(***************************************************************************)
ReadRequest(r, u, c) ==
    /\ pc[r] = "idle"
    /\ IF ~IsParticipant(c, u)
       THEN Answer(r, "forbidden") /\ UNCHANGED conv
       ELSE conv' = [conv EXCEPT ![r] = c] /\ Goto(r, "rd_query")
    /\ UNCHANGED <<tables, usr, peer, to, seq, page, pushed>>

ReadQuery(r, before, limit) ==
    /\ pc[r] = "rd_query"
    /\ page' = [page EXCEPT ![r] = [size |-> PageLimit(limit),
                                    rows |-> GetMessages(conv[r], before, limit)]]
    /\ Answer(r, "page")
    /\ UNCHANGED <<tables, usr, peer, conv, to, seq, pushed>>

(***************************************************************************)
(* POST and DELETE /groups/{c}/members: nothing asks whether c is a group, *)
(* nor who the caller is.                                                  *)
(***************************************************************************)

\* add_member, under the foreign key on the conversation.
AddMember(c, u) ==
    /\ c \in convs
    /\ members' = [members EXCEPT ![c] = @ \cup {u}]
    /\ UNCHANGED <<convs, lastSeq, envs, pc, locals, resp, pushed>>

\* remove_member
RemoveMember(c, u) ==
    /\ members' = [members EXCEPT ![c] = @ \ {u}]
    /\ UNCHANGED <<convs, lastSeq, envs, pc, locals, resp, pushed>>

\* A statement fails: the transaction is rolled back and the answer is 503.
Abort(r) ==
    /\ pc[r] \notin {"push", "done"}
    /\ Answer(r, "storage")
    /\ UNCHANGED <<tables, locals, pushed>>

Step(r) ==
    \/ \E c \in Conv : CreateInsert(r, c)
    \/ StoreUpdate(r) \/ StoreInsert(r) \/ StoreCommit(r) \/ Push(r)
    \/ \E before \in Cursors \cup {None}, limit \in Limits \cup {None} :
          ReadQuery(r, before, limit)

Arrive(r) ==
    \/ \E u, v \in User, d \in Device : CreateRequest(r, u, v, d)
    \/ \E u \in User, c \in Conv, d \in Device \cup {None} : SendRequest(r, u, c, d)
    \/ \E u \in User, c \in Conv : ReadRequest(r, u, c)

Membership == \E c \in Conv, u \in User : AddMember(c, u) \/ RemoveMember(c, u)

Next == (\E r \in Req : Arrive(r) \/ Step(r) \/ Abort(r)) \/ Membership

Spec == Init /\ [][Next]_vars

\* A request that has arrived keeps executing.
FairSpec == Spec /\ \A r \in Req : WF_vars(Step(r))

(***************************************************************************)
(* Properties.                                                             *)
(***************************************************************************)
Labels == {"idle", "cr_insert", "st_update", "st_insert", "st_commit", "push",
           "rd_query", "done"}

Responses == {"none", "bad_request", "existing", "created", "forbidden", "sent",
              "page", "storage"}

\* Every variable has its type; no statement runs on a conversation that does not
\* exist, and deliver is called for a device only.
TypeOK ==
    /\ convs \subseteq Conv
    /\ lastSeq \in [Conv -> Nat]
    /\ members \in [Conv -> SUBSET User]
    /\ envs \in [Conv -> SUBSET (Nat \X Req)]
    /\ pc \in [Req -> Labels]
    /\ usr \in [Req -> User \cup {None}]
    /\ peer \in [Req -> User \cup {None}]
    /\ conv \in [Req -> Conv \cup {None}]
    /\ to \in [Req -> Device \cup {None}]
    /\ seq \in [Req -> Nat]
    /\ page \in [Req -> [size : Nat, rows : SUBSET Nat]]
    /\ resp \in [Req -> Responses]
    /\ pushed \in [Device -> Seq(Conv \X Nat \X Req)]
    /\ \A r \in Req :
          /\ pc[r] \in {"st_update", "st_insert", "st_commit", "push"} => conv[r] \in convs
          /\ pc[r] = "push" => to[r] \in Device

\* "a server-assigned monotonically increasing sequence number" (store_envelope):
\* whatever sends interleave, fail or lose their acknowledgement, the committed
\* sequence numbers of a conversation are 1 .. last_seq, each given once.
SeqGapFree ==
    \A c \in Conv :
        /\ SeqsOf(c) = 1 .. lastSeq[c]
        /\ \A e, f \in envs[c] : e[1] = f[1] => e = f

\* A send that was answered 201, or whose envelope was pushed to a device, is
\* stored at the sequence number it was given.
AnsweredIsStored ==
    /\ \A r \in Req : resp[r] \in {"created", "sent"} => <<seq[r], r>> \in envs[conv[r]]
    /\ \A d \in Device : \A i \in DOMAIN pushed[d] :
          LET p == pushed[d][i] IN <<p[2], p[3]>> \in envs[p[1]]

\* Although sends commit while it reads, a reader that sees two envelopes of a
\* conversation sees every one between them, and if its page has room left it sees
\* every earlier one too; and no page is larger than MAX_LIMIT.
PageIsGapFree ==
    \A r \in Req :
        LET rows == page[r].rows
        IN  /\ \A m, n \in rows : m .. n \subseteq rows
            /\ rows # {} /\ Cardinality(rows) < page[r].size => 1 \in rows
            /\ Cardinality(rows) <= MAX_LIMIT

\* The log a conversation's rows stand for.
LogOf(c) == [n \in 1 .. lastSeq[c] |-> CHOOSE r \in Req : <<n, r>> \in envs[c]]

AbstractLog == INSTANCE MessageLog WITH Env <- Req, log <- [c \in Conv |-> LogOf(c)]

\* store_envelope implements the append-only log.
ImplementsLog == AbstractLog!LogSpec

\* Only a bounded instance has no id left for new_v4 to draw.
OutOfIds(r) == pc[r] = "cr_insert" /\ convs = Conv

\* Every request that has arrived is answered: the row lock is always released.
EveryRequestAnswered ==
    \A r \in Req : pc[r] # "idle" ~> pc[r] = "done" \/ OutOfIds(r)

\* "IF a 1:1 Conversation already exists between the same two participants ...
\* return the existing ConversationID ... instead of creating a duplicate" (5.4).
OneDirectConversation ==
    \A c, d \in convs :
        members[c] = members[d] /\ Cardinality(members[c]) = 2 => c = d
============================================================================

-------------------------- MODULE MessagingProofs --------------------------
(***************************************************************************)
(* Proofs about direct conversations, for any number of requests, users,   *)
(* devices and conversations: type correctness, how envelopes are          *)
(* numbered, that the store implements the append-only log of MessageLog,  *)
(* and that a page of it has no holes.                                     *)
(***************************************************************************)
EXTENDS Messaging, FiniteSetTheorems, SequenceTheorems, TLAPS

Writing == {"st_insert", "st_commit"}

\* The row lock: one request at a time is between the counter and the commit, ...
OneWriter ==
    \A r, q \in Req : pc[r] \in Writing /\ pc[q] \in Writing /\ conv[r] = conv[q] => r = q

\* ... and it has the number after the last one committed.
NextNumber == \A r \in Req : pc[r] \in Writing => seq[r] = lastSeq[conv[r]] + 1

\* A row is of a request that is past its commit, and names its conversation.
RowsKnown ==
    \A c \in Conv : \A e \in envs[c] :
        pc[e[2]] \in {"push", "done"} /\ conv[e[2]] = c /\ seq[e[2]] = e[1]

\* What a request has yet to push, or has answered, is stored.
Promised ==
    /\ \A r \in Req : pc[r] = "push" => <<seq[r], r>> \in envs[conv[r]]
    /\ \A r \in Req : resp[r] \in {"created", "sent"} => pc[r] = "done" /\ conv[r] \in Conv
    /\ AnsweredIsStored

\* A conversation that does not exist has neither rows nor members.
FreshConv == \A c \in Conv \ convs : envs[c] = {} /\ members[c] = {}

\* TypeOK in three parts: the tables, the locals, and what a request has to keep of
\* its own.
TableTypes ==
    /\ convs \subseteq Conv
    /\ lastSeq \in [Conv -> Nat]
    /\ members \in [Conv -> SUBSET User]
    /\ envs \in [Conv -> SUBSET (Nat \X Req)]

LocalTypes ==
    /\ pc \in [Req -> Labels]
    /\ usr \in [Req -> User \cup {None}]
    /\ peer \in [Req -> User \cup {None}]
    /\ conv \in [Req -> Conv \cup {None}]
    /\ to \in [Req -> Device \cup {None}]
    /\ seq \in [Req -> Nat]
    /\ page \in [Req -> [size : Nat, rows : SUBSET Nat]]
    /\ resp \in [Req -> Responses]
    /\ pushed \in [Device -> Seq(Conv \X Nat \X Req)]

OwnAt(r) ==
    /\ pc[r] \in {"st_update", "st_insert", "st_commit", "push"} => conv[r] \in convs
    /\ pc[r] = "push" => to[r] \in Device
    /\ pc[r] = "rd_query" => conv[r] \in Conv
    /\ pc[r] = "cr_insert" => usr[r] \in User /\ peer[r] \in User

Own == \A r \in Req : OwnAt(r)

TypeInv == TableTypes /\ LocalTypes /\ Own /\ FreshConv

LogInv == OneWriter /\ NextNumber /\ SeqGapFree /\ RowsKnown /\ Promised

(***************************************************************************)
(* Type correctness.                                                       *)
(***************************************************************************)

LEMMA PageLimitInRange ==
    ASSUME NEW limit \in Limits \cup {None}
    PROVE  PageLimit(limit) \in 1 .. MAX_LIMIT
BY MessagingAssumption DEF PageLimit, AsI64

\* GET answers with sequence numbers only.
LEMMA PageType ==
    ASSUME TableTypes, NEW c \in Conv, NEW before, NEW limit
    PROVE  GetMessages(c, before, limit) \subseteq Nat
<1>1. SeqsOf(c) \subseteq Nat   BY DEF TableTypes, SeqsOf
<1>2. QED   BY <1>1, Zenon DEF GetMessages

LEMMA TypeInit == Init => TypeInv
BY MessagingAssumption
   DEF Init, TypeInv, TableTypes, LocalTypes, Own, OwnAt, FreshConv, Labels, Responses

\* A step of r leaves the requests other than r alone.
Elsewhere(r) ==
    \A q \in Req \ {r} :
        /\ pc'[q] = pc[q] /\ conv'[q] = conv[q] /\ to'[q] = to[q] /\ seq'[q] = seq[q]
        /\ usr'[q] = usr[q] /\ peer'[q] = peer[q] /\ resp'[q] = resp[q]

LEMMA OwnLocal ==
    ASSUME Own, NEW r \in Req, convs \subseteq convs', Elsewhere(r), OwnAt(r)'
    PROVE  Own'
BY Zenon DEF Own, OwnAt, Elsewhere

LEMMA TypeArrive ==
    ASSUME TypeInv, NEW r \in Req, Arrive(r)
    PROVE  TypeInv' /\ Elsewhere(r)
<1> USE DEF TypeInv
<1>1. ASSUME NEW u \in User, NEW v \in User, NEW d \in Device, CreateRequest(r, u, v, d)
      PROVE  LocalTypes' /\ OwnAt(r)' /\ Elsewhere(r)
  <2>0. DirectBetween(u, v) \subseteq Conv
    BY Zenon DEF DirectBetween, TableTypes
  <2>1. LocalTypes'
    <3>1. pc' \in [Req -> Labels] /\ resp' \in [Req -> Responses]
      BY <1>1, Zenon DEF CreateRequest, Answer, Goto, LocalTypes, Labels, Responses
    <3>2. /\ usr' \in [Req -> User \cup {None}]
          /\ peer' \in [Req -> User \cup {None}]
          /\ to' \in [Req -> Device \cup {None}]
      <4>1. usr' \in [Req -> User \cup {None}]    BY <1>1 DEF CreateRequest, LocalTypes
      <4>2. peer' \in [Req -> User \cup {None}]   BY <1>1 DEF CreateRequest, LocalTypes
      <4>3. to' \in [Req -> Device \cup {None}]   BY <1>1 DEF CreateRequest, LocalTypes
      <4>4. QED                                   BY <4>1, <4>2, <4>3, Zenon
    <3>3. conv' \in [Req -> Conv \cup {None}]
      BY <1>1, <2>0, Zenon DEF CreateRequest, LocalTypes
    <3>4. UNCHANGED <<seq, page, pushed>>
      BY <1>1, Zenon DEF CreateRequest
    <3>5. QED   BY <3>1, <3>2, <3>3, <3>4, Zenon DEF LocalTypes
  <2>2. OwnAt(r)'       BY <1>1, Zenon DEF CreateRequest, DirectBetween, TableTypes, Answer,
                           Goto, tables, LocalTypes, OwnAt
  <2>3. Elsewhere(r)    BY <1>1 DEF CreateRequest, DirectBetween, TableTypes, Answer,
                           Goto, tables, LocalTypes, Elsewhere
  <2>4. QED             BY <2>1, <2>2, <2>3, Zenon
<1>2. ASSUME NEW u \in User, NEW c \in Conv, NEW d \in Device \cup {None},
             SendRequest(r, u, c, d)
      PROVE  LocalTypes' /\ OwnAt(r)' /\ Elsewhere(r)
  <2>1. LocalTypes'
    <3>1. pc' \in [Req -> Labels] /\ resp' \in [Req -> Responses]
      BY <1>2, Zenon DEF SendRequest, Answer, Goto, LocalTypes, Labels, Responses
    <3>2. to' \in [Req -> Device \cup {None}]
      BY <1>2, Zenon DEF SendRequest, LocalTypes
    <3>3. conv' \in [Req -> Conv \cup {None}]
      BY <1>2, Zenon DEF SendRequest, LocalTypes
    <3>4. UNCHANGED <<usr, peer, seq, page, pushed>>
      BY <1>2, Zenon DEF SendRequest
    <3>5. QED   BY <3>1, <3>2, <3>3, <3>4, Zenon DEF LocalTypes
  <2>2. OwnAt(r)'       BY <1>2 DEF SendRequest, IsParticipant, FreshConv, Answer,
                           Goto, tables, LocalTypes, OwnAt
  <2>3. Elsewhere(r)    BY <1>2 DEF SendRequest, IsParticipant, FreshConv, Answer,
                           Goto, tables, LocalTypes, Elsewhere
  <2>4. QED             BY <2>1, <2>2, <2>3, Zenon
<1>3. ASSUME NEW u \in User, NEW c \in Conv, ReadRequest(r, u, c)
      PROVE  LocalTypes' /\ OwnAt(r)' /\ Elsewhere(r)
  <2>1. LocalTypes'
    <3>1. pc' \in [Req -> Labels] /\ resp' \in [Req -> Responses]
      BY <1>3, Zenon DEF ReadRequest, Answer, Goto, LocalTypes, Labels, Responses
    <3>2. conv' \in [Req -> Conv \cup {None}]
      BY <1>3, Zenon DEF ReadRequest, LocalTypes
    <3>3. UNCHANGED <<usr, peer, to, seq, page, pushed>>
      BY <1>3, Zenon DEF ReadRequest
    <3>4. QED   BY <3>1, <3>2, <3>3, Zenon DEF LocalTypes
  <2>2. OwnAt(r)'       BY <1>3, Zenon DEF ReadRequest, Answer, Goto, tables, LocalTypes, OwnAt
  <2>3. Elsewhere(r)    BY <1>3, Zenon DEF ReadRequest, Answer, Goto, tables, LocalTypes,
                           Elsewhere
  <2>4. QED             BY <2>1, <2>2, <2>3, Zenon
<1>4. UNCHANGED tables
  BY Zenon DEF Arrive, CreateRequest, SendRequest, ReadRequest
<1>5. TableTypes' /\ FreshConv' /\ convs \subseteq convs'
  BY <1>4, Zenon DEF tables, TableTypes, FreshConv
<1>6. LocalTypes' /\ OwnAt(r)' /\ Elsewhere(r)
  BY <1>1, <1>2, <1>3, Zenon DEF Arrive
<1>7. QED   BY <1>5, <1>6, OwnLocal, Zenon

LEMMA TypeTurn ==
    ASSUME TypeInv, NEW r \in Req, Step(r) \/ Abort(r)
    PROVE  TypeInv' /\ Elsewhere(r)
<1> USE DEF TypeInv
<1>1. ASSUME NEW c \in Conv, CreateInsert(r, c)
      PROVE  LocalTypes' /\ OwnAt(r)' /\ Elsewhere(r)
  <2>1. LocalTypes'     BY <1>1, Zenon DEF CreateInsert, Answer, Goto, tables,
                           LocalTypes,
                           Labels, Responses
  <2>2. OwnAt(r)'       BY <1>1, Zenon DEF CreateInsert, Answer, Goto, tables, LocalTypes,
                           OwnAt
  <2>3. Elsewhere(r)    BY <1>1, Zenon DEF CreateInsert, Answer, Goto, tables, LocalTypes,
                           Elsewhere
  <2>4. QED             BY <2>1, <2>2, <2>3, Zenon
<1>2. ASSUME StoreUpdate(r)
      PROVE  LocalTypes' /\ OwnAt(r)' /\ Elsewhere(r)
  <2>0. conv[r] \in convs => lastSeq[conv[r]] + 1 \in Nat
    BY DEF TableTypes
  <2>1. LocalTypes'
    <3>1. pc' \in [Req -> Labels] /\ resp' \in [Req -> Responses]
      BY <1>2, Zenon DEF StoreUpdate, Answer, Goto, LocalTypes, Labels, Responses
    <3>2. seq' \in [Req -> Nat]
      BY <1>2, <2>0, Zenon DEF StoreUpdate, LocalTypes
    <3>3. UNCHANGED <<usr, peer, conv, to, page, pushed>>
      BY <1>2, Zenon DEF StoreUpdate
    <3>4. QED   BY <3>1, <3>2, <3>3, Zenon DEF LocalTypes
  <2>2. OwnAt(r)'       BY <1>2, Zenon DEF StoreUpdate, Own, TableTypes, Answer, Goto, tables,
                           LocalTypes, OwnAt
  <2>3. Elsewhere(r)    BY <1>2, Zenon DEF StoreUpdate, Own, TableTypes, Answer, Goto, tables,
                           LocalTypes, Elsewhere
  <2>4. QED             BY <2>1, <2>2, <2>3, Zenon
<1>3. ASSUME StoreInsert(r)
      PROVE  LocalTypes' /\ OwnAt(r)' /\ Elsewhere(r)
  <2>1. LocalTypes'     BY <1>3, Zenon DEF StoreInsert, Own, locals, Answer, Goto,
                           tables,
                           LocalTypes, Labels, Responses
  <2>2. OwnAt(r)'       BY <1>3, Zenon DEF StoreInsert, Own, locals, Answer, Goto, tables,
                           LocalTypes, OwnAt
  <2>3. Elsewhere(r)    BY <1>3, Zenon DEF StoreInsert, Own, locals, Answer, Goto, tables,
                           LocalTypes, Elsewhere
  <2>4. QED             BY <2>1, <2>2, <2>3
<1>4. ASSUME StoreCommit(r)
      PROVE  LocalTypes' /\ OwnAt(r)' /\ Elsewhere(r)
  <2>1. LocalTypes'     BY <1>4, Zenon DEF StoreCommit, AfterCommit, Own, locals,
                           Answer,
                           Goto, tables, LocalTypes, Labels, Responses
  <2>2. OwnAt(r)'       BY <1>4, Zenon DEF StoreCommit, AfterCommit, Own, locals, Answer,
                           Goto, tables, LocalTypes, OwnAt
  <2>3. Elsewhere(r)    BY <1>4, Zenon DEF StoreCommit, AfterCommit, Own, locals, Answer,
                           Goto, tables, LocalTypes, Elsewhere
  <2>4. QED             BY <2>1, <2>2, <2>3
<1>5. ASSUME Push(r)
      PROVE  LocalTypes' /\ OwnAt(r)' /\ Elsewhere(r)
  <2>1. LocalTypes'     BY <1>5 DEF Push, Own, locals, TableTypes, OwnAt, Answer, Goto,
                           tables, LocalTypes, Labels, Responses
  <2>2. OwnAt(r)'       BY <1>5, Zenon DEF Push, Own, locals, TableTypes, OwnAt, Answer, Goto,
                           tables, LocalTypes, OwnAt
  <2>3. Elsewhere(r)    BY <1>5, Zenon DEF Push, Own, locals, TableTypes, OwnAt, Answer, Goto,
                           tables, LocalTypes, Elsewhere
  <2>4. QED             BY <2>1, <2>2, <2>3
<1>6. ASSUME NEW before \in Cursors \cup {None}, NEW limit \in Limits \cup {None},
             ReadQuery(r, before, limit)
      PROVE  LocalTypes' /\ OwnAt(r)' /\ Elsewhere(r)
  <2>0. GetMessages(conv[r], before, limit) \subseteq Nat
    BY <1>6, PageType, Zenon DEF ReadQuery, Own, OwnAt
  <2>1. LocalTypes'
    <3>1. PageLimit(limit) \in Nat
      BY PageLimitInRange, MessagingAssumption
    <3>2. [size |-> PageLimit(limit), rows |-> GetMessages(conv[r], before, limit)]
              \in [size : Nat, rows : SUBSET Nat]
      BY <2>0, <3>1, Zenon
    <3>3. page' \in [Req -> [size : Nat, rows : SUBSET Nat]]
      BY <1>6, <3>2, Zenon DEF ReadQuery, LocalTypes
    <3>4. QED
      BY <1>6, <3>3, Zenon DEF ReadQuery, Answer, Goto, LocalTypes, Labels, Responses
  <2>2. OwnAt(r)'       BY <1>6, Zenon DEF ReadQuery, Answer, Goto, tables, LocalTypes, OwnAt
  <2>3. Elsewhere(r)    BY <1>6, Zenon DEF ReadQuery, Answer, Goto, tables, LocalTypes,
                           Elsewhere
  <2>4. QED             BY <2>1, <2>2, <2>3
<1>7. ASSUME Abort(r)
      PROVE  LocalTypes' /\ OwnAt(r)' /\ Elsewhere(r)
  <2>1. LocalTypes'     BY <1>7, Zenon DEF Abort, locals, Answer, Goto, tables, LocalTypes,
                           Labels, Responses
  <2>2. OwnAt(r)'       BY <1>7, Zenon DEF Abort, locals, Answer, Goto, tables, LocalTypes,
                           OwnAt
  <2>3. Elsewhere(r)    BY <1>7, Zenon DEF Abort, locals, Answer, Goto, tables, LocalTypes,
                           Elsewhere
  <2>4. QED             BY <2>1, <2>2, <2>3
<1>8. LocalTypes' /\ OwnAt(r)' /\ Elsewhere(r)
  BY <1>1, <1>2, <1>3, <1>4, <1>5, <1>6, <1>7, Zenon DEF Step
<1>9. TableTypes' /\ FreshConv' /\ convs \subseteq convs'
  <2>1. ASSUME NEW c \in Conv, CreateInsert(r, c)
        PROVE  TableTypes' /\ FreshConv' /\ convs \subseteq convs'
    <3>1. usr[r] \in User /\ peer[r] \in User   BY <2>1, Zenon DEF CreateInsert, Own, OwnAt
    <3>2. TableTypes'   BY <2>1, <3>1, Zenon DEF CreateInsert, TableTypes
    <3>3. FreshConv'    BY <2>1, Zenon DEF CreateInsert, TableTypes, FreshConv
    <3>4. QED           BY <2>1, <3>2, <3>3, Zenon DEF CreateInsert
  <2>2. ASSUME StoreCommit(r)
        PROVE  TableTypes' /\ FreshConv' /\ convs \subseteq convs'
    <3>1. conv[r] \in convs /\ seq[r] \in Nat
      BY <2>2, Zenon DEF StoreCommit, Own, OwnAt, LocalTypes
    <3>2. TableTypes'   BY <2>2, <3>1 DEF StoreCommit, TableTypes
    <3>3. FreshConv'    BY <2>2, <3>1, Zenon DEF StoreCommit, TableTypes, FreshConv
    <3>4. QED           BY <2>2, <3>2, <3>3, Zenon DEF StoreCommit
  <2>3. ASSUME UNCHANGED tables
        PROVE  TableTypes' /\ FreshConv' /\ convs \subseteq convs'
    BY <2>3, Zenon DEF tables, TableTypes, FreshConv
  <2>4. QED
    BY <2>1, <2>2, <2>3, Zenon DEF Step, StoreUpdate, StoreInsert, Push, ReadQuery, Abort
<1>10. QED   BY <1>8, <1>9, OwnLocal, Zenon

LEMMA TypeMembership == TypeInv /\ Membership => TypeInv'
<1> SUFFICES ASSUME TypeInv, NEW c \in Conv, NEW u \in User,
                    AddMember(c, u) \/ RemoveMember(c, u)
             PROVE  TypeInv'
  BY Zenon DEF Membership
<1> USE DEF TypeInv
<1>1. /\ UNCHANGED <<convs, lastSeq, envs, pc, locals, resp, pushed>>
      /\ members' \in [Conv -> SUBSET User]
      /\ \A b \in Conv \ convs : members'[b] = {}
  <2>1. CASE AddMember(c, u)
    BY <2>1 DEF AddMember, TableTypes, FreshConv
  <2>2. CASE RemoveMember(c, u)
    BY <2>2 DEF RemoveMember, TableTypes, FreshConv
  <2>3. QED   BY <2>1, <2>2, Zenon
<1>2. TableTypes' /\ FreshConv'   BY <1>1, Zenon DEF TableTypes, FreshConv
<1>3. LocalTypes'                 BY <1>1, Zenon DEF LocalTypes, locals
<1>4. Own'                        BY <1>1, Zenon DEF Own, OwnAt, locals
<1>5. QED                         BY <1>2, <1>3, <1>4, Zenon

LEMMA TypeStep == TypeInv /\ [Next]_vars => TypeInv'
<1>1. ASSUME TypeInv, UNCHANGED vars
      PROVE  TypeInv'
  BY <1>1, Zenon DEF vars, tables, locals, TypeInv, TableTypes, LocalTypes, Own, OwnAt,
     FreshConv
<1>2. QED   BY <1>1, TypeArrive, TypeTurn, TypeMembership, Zenon DEF Next

LEMMA TypeInvImplies == TypeInv => TypeOK
BY Zenon DEF TypeInv, TypeOK, TableTypes, LocalTypes, Own, OwnAt

\* Every variable has its type, no statement runs on a conversation that does not
\* exist, and deliver is called for a device only.
THEOREM TypeCorrect == Spec => []TypeOK
BY TypeInit, TypeStep, TypeInvImplies, PTL DEF Spec

(***************************************************************************)
(* The numbering of envelopes.                                             *)
(***************************************************************************)
LEMMA LogInit == Init => LogInv
<1> SUFFICES ASSUME Init PROVE LogInv   BY Zenon
<1>1. \A c \in Conv : SeqsOf(c) = {} /\ envs[c] = {} /\ lastSeq[c] = 0
  BY Zenon DEF Init, SeqsOf
<1>2. OneWriter /\ NextNumber /\ RowsKnown
  BY <1>1, Zenon DEF Init, OneWriter, NextNumber, RowsKnown, Writing
<1>3. SeqGapFree   BY <1>1 DEF SeqGapFree
<1>4. Promised     BY DEF Init, Promised, AnsweredIsStored
<1>5. QED          BY <1>2, <1>3, <1>4, Zenon DEF LogInv

\* A step of r, which has not committed, that touches no row and no counter.
LEMMA PlainKeeps ==
    ASSUME TypeInv, TypeInv', LogInv, NEW r \in Req, Elsewhere(r),
           UNCHANGED <<lastSeq, envs, pushed>>,
           pc[r] \notin {"push", "done"}, pc'[r] # "push",
           resp'[r] = resp[r] \/ resp'[r] \notin {"created", "sent"},
           pc'[r] \in Writing =>
               pc[r] \in Writing /\ conv'[r] = conv[r] /\ seq'[r] = seq[r]
    PROVE  LogInv'
<1> USE DEF LogInv
<1>1. \A c \in Conv : \A e \in envs[c] : e \in Nat \X Req /\ e[2] # r /\ c \in convs
  BY DEF RowsKnown, TypeInv, TableTypes, FreshConv
<1>2. resp'[r] \notin {"created", "sent"}
  BY Zenon DEF Promised
<1>3. OneWriter'     BY DEF OneWriter, Elsewhere
<1>4. NextNumber'    BY Zenon DEF NextNumber, Elsewhere
<1>5. SeqGapFree'    BY Zenon DEF SeqGapFree, SeqsOf
<1>6. RowsKnown'     BY <1>1 DEF RowsKnown, Elsewhere
<1>7. Promised'
  BY <1>2, Zenon DEF Promised, AnsweredIsStored, Elsewhere
<1>8. QED   BY <1>3, <1>4, <1>5, <1>6, <1>7, Zenon

LEMMA LogArrive ==
    ASSUME TypeInv, TypeInv', LogInv, NEW r \in Req, Elsewhere(r), Arrive(r)
    PROVE  LogInv'
<1>1. /\ UNCHANGED <<lastSeq, envs, pushed>>
      /\ pc[r] = "idle"
  BY Zenon DEF Arrive, CreateRequest, SendRequest, ReadRequest, tables
<1>2. /\ pc'[r] \in {"done", "cr_insert", "st_update", "rd_query"}
      /\ resp'[r] = resp[r] \/ resp'[r] \notin {"created", "sent"}
  BY DEF Arrive, CreateRequest, SendRequest, ReadRequest, Answer, Goto, TypeInv,
     LocalTypes
<1>3. QED   BY <1>1, <1>2, PlainKeeps, Zenon DEF Writing

LEMMA LogPlain ==
    ASSUME TypeInv, TypeInv', LogInv, NEW r \in Req, Elsewhere(r),
           \/ \E c \in Conv : CreateInsert(r, c)
           \/ StoreInsert(r)
           \/ \E before, limit : ReadQuery(r, before, limit)
           \/ Abort(r)
    PROVE  LogInv'
<1>1. /\ UNCHANGED <<lastSeq, envs, pushed>>
      /\ pc[r] \notin {"push", "done"}
  BY Zenon DEF CreateInsert, StoreInsert, ReadQuery, Abort, tables
<1>2. /\ pc'[r] # "push"
      /\ resp'[r] = resp[r] \/ resp'[r] \notin {"created", "sent"}
      /\ pc'[r] \in Writing => pc[r] \in Writing /\ conv'[r] = conv[r] /\ seq'[r] = seq[r]
  BY DEF CreateInsert, StoreInsert, ReadQuery, Abort, Answer, Goto, locals, TypeInv,
     LocalTypes,
         Writing
<1>3. QED   BY <1>1, <1>2, PlainKeeps, Zenon

LEMMA LogUpdate ==
    ASSUME TypeInv, TypeInv', LogInv, NEW r \in Req, Elsewhere(r), StoreUpdate(r)
    PROVE  LogInv'
<1>1. UNCHANGED <<tables, usr, conv, pushed>> /\ pc[r] = "st_update"
  BY Zenon DEF StoreUpdate
<1>2. conv[r] \in convs   BY <1>1, Zenon DEF TypeInv, Own, OwnAt
<1>3. seq'[r] = lastSeq[conv[r]] + 1 /\ pc'[r] = "st_insert" /\ resp' = resp
  BY <1>2 DEF StoreUpdate, Goto, TypeInv, LocalTypes
<1>4. \A q \in Req : pc[q] \in Writing => conv[q] # conv[r]
  BY Zenon DEF StoreUpdate, HoldsConv, Writing
<1> USE DEF LogInv, tables
<1>5. \A c \in Conv : \A e \in envs[c] : e \in Nat \X Req /\ e[2] # r
  BY <1>1, Zenon DEF RowsKnown, TypeInv, TableTypes
<1>6. OneWriter'     BY <1>1, <1>4, Zenon DEF OneWriter, Elsewhere
<1>7. NextNumber'    BY <1>1, <1>3 DEF NextNumber, Elsewhere
<1>8. SeqGapFree'    BY <1>1, Zenon DEF SeqGapFree, SeqsOf
<1>9. RowsKnown'     BY <1>1, <1>5 DEF RowsKnown, Elsewhere
<1>10. Promised'     BY <1>1, <1>3, Zenon DEF Promised, AnsweredIsStored, Elsewhere
<1>11. QED   BY <1>6, <1>7, <1>8, <1>9, <1>10, Zenon

\* An element of a sequence with one more element is the new one or was there before.
LEMMA AppendAt ==
    ASSUME NEW S, NEW s \in Seq(S), NEW e \in S, NEW i \in DOMAIN Append(s, e)
    PROVE  \/ i \in DOMAIN s /\ Append(s, e)[i] = s[i]
           \/ Append(s, e)[i] = e
OBVIOUS

LEMMA LogPush ==
    ASSUME TypeInv, TypeInv', LogInv, NEW r \in Req, Elsewhere(r), Push(r)
    PROVE  LogInv'
<1>1. UNCHANGED <<tables, usr, conv, seq>> /\ pc[r] = "push" /\ pc'[r] = "done"
  BY Zenon DEF Push, locals, Answer, TypeInv, LocalTypes
<1> USE DEF LogInv, tables
<1>2. <<seq[r], r>> \in envs[conv[r]] /\ conv[r] \in Conv
  BY <1>1, Zenon DEF Promised, TypeInv, Own, OwnAt, TableTypes
<1>3. OneWriter'     BY <1>1, Zenon DEF OneWriter, Elsewhere, Writing
<1>4. NextNumber'    BY <1>1, Zenon DEF NextNumber, Elsewhere, Writing
<1>5. SeqGapFree'    BY <1>1, Zenon DEF SeqGapFree, SeqsOf
<1>6. RowsKnown'     BY <1>1 DEF RowsKnown, Elsewhere, TypeInv, TableTypes
<1>7. Promised'
  <2>1. ASSUME NEW d \in Device, NEW i \in DOMAIN pushed'[d]
        PROVE  LET p == pushed'[d][i] IN <<p[2], p[3]>> \in envs'[p[1]]
    <3>1. to[r] \in Device /\ pushed[d] \in Seq(Conv \X Nat \X Req)
      BY <1>1, Zenon DEF TypeInv, Own, OwnAt, LocalTypes
    <3>2. CASE pushed'[d] = pushed[d]
      BY <1>1, <3>2, Zenon DEF Promised, AnsweredIsStored
    <3>3. CASE pushed'[d] = Append(pushed[d], <<conv[r], seq[r], r>>)
      <4>1. <<conv[r], seq[r], r>> \in Conv \X Nat \X Req
        BY <1>1, Zenon DEF TypeInv, Own, OwnAt, TableTypes, LocalTypes
      <4>2. \/ i \in DOMAIN pushed[d] /\ pushed'[d][i] = pushed[d][i]
            \/ pushed'[d][i] = <<conv[r], seq[r], r>>
        BY <3>1, <3>3, <4>1, AppendAt
      <4>3. CASE i \in DOMAIN pushed[d] /\ pushed'[d][i] = pushed[d][i]
        BY <1>1, <4>3, Zenon DEF Promised, AnsweredIsStored
      <4>4. CASE pushed'[d][i] = <<conv[r], seq[r], r>>
        BY <1>1, <1>2, <4>4
      <4>5. QED   BY <4>2, <4>3, <4>4, Zenon
    <3>4. QED   BY <3>1, <3>2, <3>3, Zenon DEF Push, TypeInv, LocalTypes
  <2>2. \A q \in Req : resp'[q] \in {"created", "sent"} =>
            pc'[q] = "done" /\ conv'[q] \in Conv /\ <<seq'[q], q>> \in envs'[conv'[q]]
    BY <1>1, <1>2, Zenon DEF Promised, AnsweredIsStored, Elsewhere
  <2>3. \A q \in Req : pc'[q] = "push" => <<seq'[q], q>> \in envs'[conv'[q]]
    BY <1>1, Zenon DEF Promised, Elsewhere
  <2>4. QED   BY <2>1, <2>2, <2>3, Zenon DEF Promised, AnsweredIsStored
<1>8. QED   BY <1>3, <1>4, <1>5, <1>6, <1>7, Zenon

LEMMA ImageOfOneMore ==
    ASSUME NEW S, NEW n, NEW q
    PROVE  {e[1] : e \in S \cup {<<n, q>>}} = {e[1] : e \in S} \cup {n}
<1> DEFINE more == S \cup {<<n, q>>}
<1>1. ASSUME NEW m \in {e[1] : e \in more}
      PROVE  m \in {e[1] : e \in S} \cup {n}
  <2>1. PICK e \in more : m = e[1]   BY <1>1, Zenon
  <2>2. CASE e \in S                 BY <2>1, <2>2, Zenon
  <2>3. CASE e = <<n, q>>            BY <2>1, <2>3, Zenon
  <2>4. QED                          BY <2>2, <2>3, Zenon
<1>2. n \in {e[1] : e \in more}
  <2>1. <<n, q>> \in more /\ <<n, q>>[1] = n   BY Zenon
  <2>2. QED                                    BY <2>1, Zenon
<1>3. {e[1] : e \in S} \subseteq {e[1] : e \in more}   BY Zenon
<1>4. QED   BY <1>1, <1>2, <1>3, Zenon

LEMMA LogCommit ==
    ASSUME TypeInv, TypeInv', LogInv, NEW r \in Req, Elsewhere(r), StoreCommit(r)
    PROVE  LogInv'
<1> DEFINE c == conv[r]
<1>1. /\ UNCHANGED <<convs, members, usr, conv, seq, pushed>> /\ pc[r] = "st_commit"
      /\ pc'[r] \in {"push", "done"}
      /\ resp'[r] \in {"created", "sent"} => pc'[r] = "done"
  <2>1. UNCHANGED <<convs, members, usr, conv, seq, pushed>> /\ pc[r] = "st_commit"
    BY Zenon DEF StoreCommit, locals
  <2>2. resp[r] \notin {"created", "sent"}   BY <2>1, Zenon DEF LogInv, Promised
  <2>3. QED
    BY <2>1, <2>2, Zenon DEF StoreCommit, AfterCommit, Answer, Goto, TypeInv, LocalTypes
<1>2. c \in Conv /\ seq[r] \in Nat /\ lastSeq[c] \in Nat
  BY <1>1, Zenon DEF TypeInv, Own, OwnAt, TableTypes, LocalTypes
<1>3. seq[r] = lastSeq[c] + 1   BY <1>1, Zenon DEF LogInv, NextNumber, Writing
<1>4. /\ lastSeq'[c] = lastSeq[c] + 1 /\ envs'[c] = envs[c] \cup {<<seq[r], r>>}
      /\ \A b \in Conv \ {c} : lastSeq'[b] = lastSeq[b] /\ envs'[b] = envs[b]
  BY <1>2, <1>3, Zenon DEF StoreCommit, TypeInv, TableTypes
<1>5. \A b \in Conv : envs[b] \subseteq envs'[b]   BY <1>4, Zenon
<1>6. \A b \in Conv : \A e \in envs[b] : e \in Nat \X Req /\ e[2] # r
  BY <1>1, Zenon DEF LogInv, RowsKnown, TypeInv, TableTypes
<1> USE DEF LogInv
<1>7. OneWriter'     BY <1>1, Zenon DEF OneWriter, Elsewhere, Writing
<1>8. NextNumber'
  <2>1. ASSUME NEW q \in Req, pc'[q] \in Writing
        PROVE  seq'[q] = lastSeq'[conv'[q]] + 1
    <3>1. q # r /\ pc[q] \in Writing   BY <1>1, <2>1, Zenon DEF Elsewhere, Writing
    <3>2. conv[q] # c                  BY <1>1, <3>1, Zenon DEF OneWriter, Writing
    <3>3. conv[q] \in Conv
      BY <3>1, Zenon DEF TypeInv, Own, OwnAt, TableTypes, Writing
    <3>4. QED   BY <1>1, <1>4, <3>1, <3>2, <3>3, Zenon DEF NextNumber
  <2>2. QED   BY <2>1, Zenon DEF NextNumber
<1>9. SeqGapFree'
  <2>1. \A b \in Conv : SeqsOf(b)' = {e[1] : e \in envs'[b]}   BY Zenon DEF SeqsOf
  <2>2. SeqsOf(c) = 1 .. lastSeq[c]   BY <1>2, Zenon DEF SeqGapFree
  <2>3. {e[1] : e \in envs'[c]} = SeqsOf(c) \cup {seq[r]}
    <3>1. envs'[c] = envs[c] \cup {<<seq[r], r>>}   BY <1>4, Zenon
    <3>2. {e[1] : e \in envs[c] \cup {<<seq[r], r>>}} = {e[1] : e \in envs[c]} \cup {seq[r]}
      BY ImageOfOneMore, Zenon
    <3>3. QED   BY <3>1, <3>2, Zenon DEF SeqsOf
  <2>4. {e[1] : e \in envs'[c]} = 1 .. lastSeq'[c]
    BY <1>2, <1>3, <1>4, <2>2, <2>3
  <2>5. \A e \in envs[c] : e[1] # seq[r]
    BY <1>2, <1>3, <2>2 DEF SeqsOf
  <2>6. \A e, f \in envs'[c] : e[1] = f[1] => e = f
    BY <1>2, <1>4, <2>5 DEF SeqGapFree
  <2>7. ASSUME NEW b \in Conv
        PROVE  /\ {e[1] : e \in envs'[b]} = 1 .. lastSeq'[b]
               /\ \A e, f \in envs'[b] : e[1] = f[1] => e = f
    <3>1. CASE b = c   BY <2>4, <2>6, <3>1, Zenon
    <3>2. CASE b # c   BY <1>4, <3>2, Zenon DEF SeqGapFree, SeqsOf
    <3>3. QED          BY <3>1, <3>2, Zenon
  <2>8. QED   BY <2>1, <2>7, Zenon DEF SeqGapFree
<1>10. RowsKnown'
  <2>1. ASSUME NEW b \in Conv, NEW e \in envs'[b]
        PROVE  pc'[e[2]] \in {"push", "done"} /\ conv'[e[2]] = b /\ seq'[e[2]] = e[1]
    <3>1. CASE e \in envs[b]
      BY <1>1, <1>6, <3>1, Zenon DEF RowsKnown, Elsewhere
    <3>2. CASE b = c /\ e = <<seq[r], r>>
      BY <1>1, <3>2, Zenon
    <3>3. QED   BY <1>4, <3>1, <3>2, Zenon
  <2>2. QED   BY <2>1, Zenon DEF RowsKnown
<1>11. Promised'
  <2>1. \A q \in Req \ {r} : conv[q] \in Conv /\ <<seq[q], q>> \in envs[conv[q]] =>
            <<seq'[q], q>> \in envs'[conv'[q]]
    BY <1>5, Zenon DEF Elsewhere
  <2>2. <<seq'[r], r>> \in envs'[conv'[r]] /\ conv'[r] \in Conv
    BY <1>1, <1>2, <1>4, Zenon
  <2>3. ASSUME NEW q \in Req, pc'[q] = "push"
        PROVE  <<seq'[q], q>> \in envs'[conv'[q]]
    <3>1. CASE q = r   BY <2>2, <3>1, Zenon
    <3>2. CASE q # r
      <4>1. pc[q] = "push"       BY <2>3, <3>2, Zenon DEF Elsewhere
      <4>2. conv[q] \in Conv     BY <4>1, Zenon DEF TypeInv, Own, OwnAt, TableTypes
      <4>3. QED                  BY <2>1, <3>2, <4>1, <4>2, Zenon DEF Promised
    <3>3. QED   BY <3>1, <3>2, Zenon
  <2>4. ASSUME NEW q \in Req, resp'[q] \in {"created", "sent"}
        PROVE  pc'[q] = "done" /\ conv'[q] \in Conv /\ <<seq'[q], q>> \in envs'[conv'[q]]
    <3>1. CASE q = r   BY <1>1, <2>2, <2>4, <3>1, Zenon
    <3>2. CASE q # r
      <4>1. resp[q] \in {"created", "sent"} /\ conv'[q] = conv[q] /\ pc'[q] = pc[q]
        BY <2>4, <3>2, Zenon DEF Elsewhere
      <4>2. QED   BY <2>1, <3>2, <4>1, Zenon DEF Promised, AnsweredIsStored
    <3>3. QED   BY <3>1, <3>2, Zenon
  <2>5. ASSUME NEW d \in Device, NEW i \in DOMAIN pushed[d]
        PROVE  LET p == pushed[d][i] IN <<p[2], p[3]>> \in envs'[p[1]]
    <3>1. pushed[d] \in Seq(Conv \X Nat \X Req)   BY Zenon DEF TypeInv, LocalTypes
    <3>2. pushed[d][i] \in Conv \X Nat \X Req     BY <3>1
    <3>3. pushed[d][i][1] \in Conv                BY <3>2, Zenon
    <3>4. QED   BY <1>5, <3>3, Zenon DEF Promised, AnsweredIsStored
  <2>6. QED
    BY <1>1, <2>3, <2>4, <2>5, Zenon DEF Promised, AnsweredIsStored
<1>12. QED   BY <1>7, <1>8, <1>9, <1>10, <1>11, Zenon

LEMMA LogStep == TypeInv /\ LogInv /\ [Next]_vars => LogInv'
<1>1. ASSUME TypeInv, LogInv, UNCHANGED vars
      PROVE  LogInv'
  BY <1>1 DEF vars, tables, locals, LogInv, OneWriter, NextNumber, SeqGapFree, SeqsOf,
     RowsKnown, Promised, AnsweredIsStored
<1>2. ASSUME TypeInv, LogInv, NEW r \in Req, Arrive(r)
      PROVE  LogInv'
  BY <1>2, TypeArrive, LogArrive, Zenon
<1>3. ASSUME TypeInv, LogInv, NEW r \in Req, Step(r) \/ Abort(r)
      PROVE  LogInv'
  <2>1. TypeInv' /\ Elsewhere(r)   BY <1>3, TypeTurn, Zenon
  <2>2. QED   BY <1>3, <2>1, LogPlain, LogUpdate, LogCommit, LogPush, Zenon DEF Step
<1>4. ASSUME TypeInv, LogInv, Membership
      PROVE  LogInv'
  <2>1. UNCHANGED <<convs, lastSeq, envs, pc, locals, resp, pushed>>
    BY <1>4, Zenon DEF Membership, AddMember, RemoveMember
  <2>2. QED
    BY <1>4, <2>1 DEF locals, LogInv, OneWriter, NextNumber, SeqGapFree, SeqsOf,
       RowsKnown, Promised, AnsweredIsStored
<1>5. QED   BY <1>1, <1>2, <1>3, <1>4, Zenon DEF Next

LEMMA LogInvariant == Spec => [](TypeInv /\ LogInv)
BY TypeInit, TypeStep, LogInit, LogStep, PTL DEF Spec

\* However sends of a conversation interleave, fail or lose their acknowledgement,
\* the numbers store_envelope has given to what it committed are 1 .. last_seq, each once.
THEOREM SequenceIsGapFree == Spec => []SeqGapFree
BY LogInvariant, PTL DEF LogInv

\* What was answered 201 or handed to deliver is stored under the number it was given.
THEOREM AnswersAreStored == Spec => []AnsweredIsStored
<1>1. LogInv => AnsweredIsStored   BY Zenon DEF LogInv, Promised
<1>2. QED   BY <1>1, LogInvariant, PTL

(***************************************************************************)
(* Refinement of the log.                                                  *)
(***************************************************************************)

\* A sequence that agrees with another and has one more element.
LEMMA Appended ==
    ASSUME NEW S, NEW k \in Nat, NEW s \in [1 .. k -> S], NEW t \in [1 .. k + 1 -> S],
           \A n \in 1 .. k : t[n] = s[n]
    PROVE  t = Append(s, t[k + 1])
<1> DEFINE a == Append(s, t[k + 1])
<1>1. s \in Seq(S) /\ Len(s) = k /\ t[k + 1] \in S   OBVIOUS
<1>2. a \in Seq(S) /\ Len(a) = k + 1   BY <1>1, AppendProperties
<1>3. \A n \in 1 .. k + 1 : a[n] = t[n]   BY <1>1
<1>4. t \in Seq(S) /\ Len(t) = k + 1   OBVIOUS
<1> HIDE DEF a
<1>5. a = t   BY <1>2, <1>3, <1>4, SeqEqual, Zenon
<1>6. QED     BY <1>5, Zenon DEF a

\* Rows numbered 1 .. k, listed by their numbers.
LEMMA RowsListed ==
    ASSUME NEW k \in Nat, NEW rows, rows \subseteq Nat \X Req, {e[1] : e \in rows} = 1 .. k,
           NEW l, l = [n \in 1 .. k |-> CHOOSE q \in Req : <<n, q>> \in rows]
    PROVE  l \in [1 .. k -> Req] /\ \A n \in 1 .. k : <<n, l[n]>> \in rows
<1>1. ASSUME NEW n \in 1 .. k
      PROVE  \E q \in Req : <<n, q>> \in rows
  <2>1. PICK e \in rows : n = e[1]       BY Zenon
  <2>2. e[2] \in Req /\ e = <<n, e[2]>>  BY <2>1
  <2>3. QED                              BY <2>1, <2>2, Zenon
<1>2. QED   BY <1>1, Zenon

\* The log of a conversation is a sequence, and it lists the rows.
LEMMA LogLists ==
    ASSUME TypeInv, LogInv, NEW c \in Conv
    PROVE  /\ lastSeq[c] \in Nat
           /\ LogOf(c) \in [1 .. lastSeq[c] -> Req]
           /\ \A n \in 1 .. lastSeq[c] : <<n, LogOf(c)[n]>> \in envs[c]
<1>1. /\ lastSeq[c] \in Nat /\ envs[c] \subseteq Nat \X Req
      /\ {e[1] : e \in envs[c]} = 1 .. lastSeq[c]
  BY Zenon DEF TypeInv, TableTypes, LogInv, SeqGapFree, SeqsOf
<1>2. QED   BY <1>1, RowsListed, Zenon DEF LogOf

\* A step that adds no row leaves the log alone; a commit appends to it.
LEMMA LogMoves ==
    ASSUME TypeInv, TypeInv', LogInv, LogInv', [Next]_vars
    PROVE  [AbstractLog!LogNext]_([c \in Conv |-> LogOf(c)])
<1> DEFINE Log == [c \in Conv |-> LogOf(c)]
<1>1. CASE UNCHANGED <<lastSeq, envs>>
  BY <1>1 DEF LogOf
<1>2. ASSUME NEW r \in Req, StoreCommit(r)
      PROVE  AbstractLog!StoreEnvelope(conv[r], r) /\ conv[r] \in Conv
  <2>1. pc[r] = "st_commit" /\ seq[r] \in Nat /\ conv[r] \in Conv /\ conv[r] \in convs
    BY <1>2, Zenon DEF StoreCommit, TypeInv, Own, OwnAt, TableTypes, LocalTypes
  <2>2. seq[r] = lastSeq[conv[r]] + 1   BY <2>1, Zenon DEF LogInv, NextNumber, Writing
  <2>3. /\ lastSeq' = [lastSeq EXCEPT ![conv[r]] = lastSeq[conv[r]] + 1]
        /\ envs' = [envs EXCEPT ![conv[r]] = @ \cup {<<seq[r], r>>}]
    BY <1>2, <2>2, Zenon DEF StoreCommit
  <2>4. ~AbstractLog!Logged(r)
    <3>1. SUFFICES ASSUME NEW c \in Conv, NEW i \in DOMAIN Log[c], Log[c][i] = r
                   PROVE  FALSE
      BY Zenon DEF AbstractLog!Logged
    <3>2. <<i, r>> \in envs[c]   BY <3>1, LogLists, Zenon
    <3>3. QED                    BY <2>1, <3>2 DEF LogInv, RowsKnown
  <2>5. ASSUME NEW c \in Conv, c # conv[r]
        PROVE  Log'[c] = Log[c]
    BY <2>3, <2>5 DEF LogOf, TypeInv, TableTypes
  <2>6. Log'[conv[r]] = Append(Log[conv[r]], r)
    <3>1. PICK c \in Conv : c = conv[r]   BY <2>1, Zenon
    <3>2. /\ lastSeq[c] \in Nat
          /\ Log[c] \in [1 .. lastSeq[c] -> Req]
          /\ \A n \in 1 .. lastSeq[c] : <<n, Log[c][n]>> \in envs[c]
      BY LogLists, Zenon
    <3>3. lastSeq'[c] = lastSeq[c] + 1 /\ envs'[c] = envs[c] \cup {<<seq[r], r>>}
      BY <2>3, <3>1, Zenon DEF TypeInv, TableTypes
    <3>4. /\ Log'[c] \in [1 .. lastSeq'[c] -> Req]
          /\ \A n \in 1 .. lastSeq'[c] : <<n, Log'[c][n]>> \in envs'[c]
      <4>1. /\ lastSeq'[c] \in Nat /\ envs'[c] \subseteq Nat \X Req
            /\ {e[1] : e \in envs'[c]} = 1 .. lastSeq'[c]
        BY Zenon DEF TypeInv, TableTypes, LogInv, SeqGapFree, SeqsOf
      <4>2. Log'[c] = [n \in 1 .. lastSeq'[c] |-> CHOOSE q \in Req : <<n, q>> \in envs'[c]]
        BY Zenon DEF LogOf
      <4>3. QED   BY <4>1, <4>2, RowsListed, Zenon
    <3>5. \A e, f \in envs'[c] : e[1] = f[1] => e = f   BY Zenon DEF LogInv, SeqGapFree
    <3>6. ASSUME NEW n \in 1 .. lastSeq[c]
          PROVE  Log'[c][n] = Log[c][n]
      <4>1. <<n, Log'[c][n]>> \in envs'[c] /\ <<n, Log[c][n]>> \in envs'[c]
        BY <3>2, <3>3, <3>4
      <4>2. QED   BY <3>5, <4>1, Zenon
    <3>7. Log'[c][lastSeq[c] + 1] = r
      <4>1. /\ <<lastSeq[c] + 1, Log'[c][lastSeq[c] + 1]>> \in envs'[c]
            /\ <<lastSeq[c] + 1, r>> \in envs'[c]
        BY <2>2, <3>1, <3>2, <3>3, <3>4
      <4>2. QED   BY <3>5, <4>1, Zenon
    <3>8. Log'[c] = Append(Log[c], r)
      BY <3>2, <3>3, <3>4, <3>6, <3>7, Appended
    <3>9. QED   BY <3>1, <3>8, Zenon
  <2>7. Log' = [Log EXCEPT ![conv[r]] = Append(@, r)]   BY <2>1, <2>5, <2>6, Zenon
  <2>8. QED   BY <2>1, <2>4, <2>7, Zenon DEF AbstractLog!StoreEnvelope
<1>3. CASE \E r \in Req : StoreCommit(r)
  BY <1>2, <1>3, Zenon DEF AbstractLog!LogNext
<1>4. UNCHANGED <<lastSeq, envs>> \/ \E r \in Req : StoreCommit(r)
  <2>1. ASSUME NEW r \in Req, Arrive(r) PROVE UNCHANGED <<lastSeq, envs>>
    BY <2>1, Zenon DEF Arrive, CreateRequest, SendRequest, ReadRequest, tables
  <2>2. ASSUME NEW r \in Req, Step(r), ~StoreCommit(r) PROVE UNCHANGED <<lastSeq, envs>>
    BY <2>2, Zenon DEF Step, CreateInsert, StoreUpdate, StoreInsert, Push, ReadQuery, tables
  <2>3. ASSUME NEW r \in Req, Abort(r) PROVE UNCHANGED <<lastSeq, envs>>
    BY <2>3, Zenon DEF Abort, tables
  <2>4. CASE UNCHANGED vars \/ Membership
    BY <2>4, Zenon DEF vars, tables, Membership, AddMember, RemoveMember
  <2>5. QED
    BY <2>1, <2>2, <2>3, <2>4, Zenon DEF Next
<1>5. QED   BY <1>1, <1>3, <1>4, Zenon

\* store_envelope implements the append-only log: each conversation only ever grows,
\* by one envelope at its end, and no envelope is logged twice.
THEOREM StoreIsALog == Spec => ImplementsLog
<1>1. Init => AbstractLog!LogInit
  <2>1. ASSUME Init, NEW c \in Conv PROVE LogOf(c) = <<>>
    BY <2>1 DEF Init, LogOf
  <2>2. QED   BY <2>1, Zenon DEF AbstractLog!LogInit
<1>2. QED   BY <1>1, LogMoves, LogInvariant, PTL DEF Spec, ImplementsLog,
               AbstractLog!LogSpec

(***************************************************************************)
(* Pages.                                                                  *)
(***************************************************************************)
\* The first p of the first n numbers are a prefix.
LEMMA FirstOf ==
    ASSUME NEW n \in Nat, NEW p \in Nat
    PROVE  \E k \in 0 .. p :
              {i \in 1 .. n : Cardinality({m \in 1 .. n : m < i}) < p} = 1 .. k
<1>1. ASSUME NEW i \in 1 .. n
      PROVE  Cardinality({m \in 1 .. n : m < i}) = i - 1
  <2>1. {m \in 1 .. n : m < i} = 1 .. (i - 1)   OBVIOUS
  <2>2. Cardinality(1 .. (i - 1)) = i - 1       BY FS_Interval
  <2>3. QED                                     BY <2>1, <2>2, Zenon
<1>2. {i \in 1 .. n : Cardinality({m \in 1 .. n : m < i}) < p} = {i \in 1 .. n : i - 1 < p}
  BY <1>1, Zenon
<1>3. CASE n <= p
  <2>1. {i \in 1 .. n : i - 1 < p} = 1 .. n   BY <1>3
  <2>2. QED                                   BY <1>2, <1>3, <2>1
<1>4. CASE p < n
  <2>1. {i \in 1 .. n : i - 1 < p} = 1 .. p   BY <1>4
  <2>2. QED                                   BY <1>2, <2>1
<1>5. QED   BY <1>3, <1>4

LEMMA PageOfGapFree ==
    ASSUME TypeInv, LogInv, NEW c \in Conv,
           NEW before \in Cursors \cup {None}, NEW limit \in Limits \cup {None}
    PROVE  \E n \in 0 .. MAX_LIMIT : GetMessages(c, before, limit) = 1 .. n
<1> DEFINE rows == {n \in SeqsOf(c) : before = None \/ n < AsI64(before)}
<1>1. SeqsOf(c) = 1 .. lastSeq[c] /\ lastSeq[c] \in Nat
  BY Zenon DEF LogInv, SeqGapFree, TypeInv, TableTypes
<1>2. PICK n \in Nat : rows = 1 .. n
  <2>1. CASE before = None   BY <1>1, <2>1, Zenon
  <2>2. CASE before # None
    <3>1. AsI64(before) \in Int   BY <2>2, MessagingAssumption DEF AsI64
    <3>2. rows = {i \in 1 .. lastSeq[c] : i < AsI64(before)}   BY <1>1, <2>2, Zenon
    <3>3. CASE AsI64(before) < 1
      <4>1. rows = 1 .. 0   BY <3>1, <3>2, <3>3
      <4>2. QED             BY <4>1, Zenon
    <3>4. CASE AsI64(before) \in 1 .. lastSeq[c]
      <4>1. rows = 1 .. (AsI64(before) - 1)   BY <1>1, <3>1, <3>2, <3>4
      <4>2. QED                               BY <3>4, <4>1
    <3>5. CASE AsI64(before) > lastSeq[c]
      <4>1. rows = 1 .. lastSeq[c]   BY <1>1, <3>1, <3>2, <3>5
      <4>2. QED                      BY <1>1, <4>1, Zenon
    <3>6. QED   BY <1>1, <3>1, <3>3, <3>4, <3>5
  <2>3. QED   BY <2>1, <2>2, Zenon
<1>3. PageLimit(limit) \in 1 .. MAX_LIMIT   BY PageLimitInRange, Zenon
<1>4. PICK k \in 0 .. PageLimit(limit) : GetMessages(c, before, limit) = 1 .. k
  <2>1. PageLimit(limit) \in Nat   BY <1>3, MessagingAssumption
  <2>2. PICK k \in 0 .. PageLimit(limit) :
            {i \in 1 .. n : Cardinality({m \in 1 .. n : m < i}) < PageLimit(limit)} = 1 .. k
    BY <2>1, FirstOf, Zenon
  <2>3. GetMessages(c, before, limit) =
            {i \in rows : Cardinality({m \in rows : m < i}) < PageLimit(limit)}
    BY Zenon DEF GetMessages
  <2>4. QED   BY <1>2, <2>2, <2>3, Zenon
<1>5. QED   BY <1>3, <1>4, MessagingAssumption

\* The numbers 1 .. n are what PageIsGapFree asks of a page.
LEMMA FirstHasNoHoles ==
    ASSUME NEW n \in 0 .. MAX_LIMIT
    PROVE  /\ \A i, j \in 1 .. n : i .. j \subseteq 1 .. n
           /\ 1 .. n # {} => 1 \in 1 .. n
           /\ Cardinality(1 .. n) <= MAX_LIMIT
<1>1. MAX_LIMIT \in Nat /\ n \in Nat   BY MessagingAssumption
<1>2. Cardinality(1 .. n) = n          BY <1>1, FS_Interval
<1>3. QED                              BY <1>1, <1>2

LEMMA PageStep == TypeInv /\ LogInv /\ PageIsGapFree /\ [Next]_vars => PageIsGapFree'
<1> SUFFICES ASSUME TypeInv, LogInv, PageIsGapFree, [Next]_vars
             PROVE  PageIsGapFree'
  BY Zenon
<1>1. CASE page' = page   BY <1>1, Zenon DEF PageIsGapFree
<1>2. ASSUME NEW r \in Req, NEW before \in Cursors \cup {None},
             NEW limit \in Limits \cup {None}, ReadQuery(r, before, limit)
      PROVE  PageIsGapFree'
  <2>1. conv[r] \in Conv   BY <1>2, Zenon DEF ReadQuery, TypeInv, Own, OwnAt
  <2>2. PICK n \in 0 .. MAX_LIMIT : GetMessages(conv[r], before, limit) = 1 .. n
    BY <2>1, PageOfGapFree, Zenon
  <2>3. page'[r].rows = 1 .. n /\ \A q \in Req \ {r} : page'[q] = page[q]
    BY <1>2, <2>2, Zenon DEF ReadQuery, TypeInv, LocalTypes
  <2>4. /\ \A i, j \in page'[r].rows : i .. j \subseteq page'[r].rows
        /\ page'[r].rows # {} => 1 \in page'[r].rows
        /\ Cardinality(page'[r].rows) <= MAX_LIMIT
    BY <2>3, FirstHasNoHoles, Zenon
  <2>5. QED   BY <2>3, <2>4, Zenon DEF PageIsGapFree
<1>3. QED
  <2>1. ASSUME NEW r \in Req, Arrive(r) PROVE page' = page
    BY <2>1, Zenon DEF Arrive, CreateRequest, SendRequest, ReadRequest
  <2>2. ASSUME NEW r \in Req, Step(r),
               \A before \in Cursors \cup {None}, limit \in Limits \cup {None} :
                   ~ReadQuery(r, before, limit)
        PROVE  page' = page
    BY <2>2, Zenon DEF Step, CreateInsert, StoreUpdate, StoreInsert, StoreCommit, Push, locals
  <2>3. ASSUME NEW r \in Req, Abort(r) PROVE page' = page
    BY <2>3, Zenon DEF Abort, locals
  <2>4. CASE UNCHANGED vars \/ Membership
    BY <1>1, <2>4, Zenon DEF vars, locals, Membership, AddMember, RemoveMember
  <2>5. QED
    BY <1>1, <1>2, <2>1, <2>2, <2>3, <2>4, Zenon DEF Next

\* A page has no holes, within it or, while it has room, before it, and at most
\* MAX_LIMIT messages, whatever commits while it is read.
THEOREM PagesAreGapFree == Spec => []PageIsGapFree
<1>1. Init => PageIsGapFree
  <2>1. Cardinality({}) = 0 /\ 0 <= MAX_LIMIT   BY MessagingAssumption, FS_EmptySet
  <2>2. Init => \A r \in Req : page[r].rows = {}   BY DEF Init
  <2>3. QED   BY <2>1, <2>2, Zenon DEF PageIsGapFree
<1>2. QED   BY <1>1, PageStep, LogInvariant, PTL DEF Spec
============================================================================

---------------------------- MODULE GroupsProofs ----------------------------
(***************************************************************************)
(* Group conversations, for any number of requests, users, devices and     *)
(* conversations: whom a message and a distribution reach, and what the    *)
(* events about members tell a device.                                     *)
(***************************************************************************)
EXTENDS Groups, TLAPS

Labels     == {"idle", "store", "skdm", "list", "fan", "done"}
Operations == {"none", "create", "send", "add", "remove", "skdm"}

GroupsType ==
    /\ convs \subseteq Conv
    /\ members \in [Conv -> SUBSET Row]
    /\ skdm \subseteq Req \X Row
    /\ pc \in [Req -> Labels]
    /\ op \in [Req -> Operations]
    /\ conv \in [Req -> Conv \cup {None}]
    /\ target \in [Req -> Row \cup (User \X {None}) \cup {None}]
    /\ body \in [Req -> SUBSET Row]
    /\ todo \in [Req -> SUBSET Row]
    /\ resp \in [Req -> {"none", "created", "no_content", "storage", "bad_request", "forbidden"}]
    /\ pushed \in [Device -> Seq(Req)]
    /\ stayed \in [Req -> SUBSET Device]
    /\ seen \in [Req -> SUBSET Device]

\* What is known of a request from where it is in its handler.
AtLabel(r) ==
    /\ pc[r] = "idle" => op[r] = "none" /\ conv[r] = None
    /\ pc[r] = "store" => op[r] = "send"
    /\ pc[r] = "skdm" => op[r] = "skdm"
    /\ pc[r] = "list" => op[r] \in {"send", "add", "remove"}
    /\ pc[r] = "fan" => op[r] \in {"send", "add", "remove", "skdm"}
    /\ pc[r] \notin {"idle", "done"} => conv[r] \in Conv /\ resp[r] = "none"
    /\ pc[r] = "idle" => resp[r] = "none"
    /\ op[r] \notin {"none", "create"} => conv[r] \in Conv

\* Nobody hears of a request before it delivers.
Unheard(r) == pc[r] \in {"idle", "store", "skdm", "list"} => Heard(r) = {}

BaseInv == GroupsType /\ \A r \in Req : AtLabel(r) /\ Unheard(r)

Devs(rows) == {row[2] : row \in rows}

\* A message: the devices that stayed have it or are on the list.
SendInv(r) ==
    op[r] = "send" =>
        /\ pc[r] = "list" => stayed[r] \subseteq DevicesOf(conv[r]) /\ DevicesOf(conv[r]) \subseteq seen[r]
        /\ pc[r] = "fan" => stayed[r] \subseteq Heard(r) \cup Devs(todo[r]) /\ Devs(todo[r]) \subseteq seen[r]
        /\ Heard(r) \subseteq seen[r]
        /\ resp[r] = "created" => stayed[r] \subseteq Heard(r)

RowsStored(r) == {x[2] : x \in {y \in skdm : y[1] = r}}

\* A distribution: nothing is stored before store_skdm commits, everything after it.
SkdmInv(r) ==
    /\ pc[r] \in {"idle", "skdm"} => RowsStored(r) = {}
    /\ op[r] = "skdm" =>
           /\ pc[r] = "fan" => RowsStored(r) = body[r] /\ todo[r] \subseteq body[r]
           /\ RowsStored(r) \in {{}, body[r]}
           /\ Heard(r) \subseteq Devs(RowsStored(r))

\* The members of c are being told of a change of u.
Pending(p, c, u) == Changes(p, c, u) /\ pc[p] \in {"list", "fan"}

\* A device that is told, or will be, of a change in c is in c, or has left it.
InOrLeft(c, d) == <<c, d>> \in left \/ d \in DevicesOf(c)

Announced(r) ==
    op[r] \in {"add", "remove"} =>
        /\ \A d \in Heard(r) : InOrLeft(conv[r], d)
        /\ pc[r] = "fan" => \A row \in todo[r] : InOrLeft(conv[r], row[2])

\* The one change of u that is being announced is the last one, ...
OnePending(c, u) ==
    /\ \A p, q \in Req : Pending(p, c, u) /\ Pending(q, c, u) => p = q
    /\ \A p \in Req : Pending(p, c, u) => (op[p] = "add" <=> IsMember(c, u))

\* ... and a device whose last news of u is old has yet to be told of it.
ToldOrPending(c, u) ==
    \A d \in Device : \A i \in DOMAIN pushed[d] :
        (<<c, d>> \notin left /\ LastTold(d, c, u, i)) =>
            \/ op[pushed[d][i]] = "add" <=> IsMember(c, u)
            \/ \E p \in Req : Pending(p, c, u) /\ (pc[p] = "list" \/ d \in Devs(todo[p]))

ToldInv ==
    /\ \A r \in Req : Announced(r)
    /\ \A c \in Conv, u \in User : <<c, u>> \notin unclean => OnePending(c, u) /\ ToldOrPending(c, u)

GroupsInv == BaseInv /\ (\A r \in Req : SendInv(r) /\ SkdmInv(r)) /\ ToldInv

LEMMA Appended ==
    ASSUME NEW S, NEW s \in Seq(S), NEW x \in S
    PROVE  /\ Len(s) \in Nat /\ DOMAIN s = 1 .. Len(s)
           /\ Append(s, x) \in Seq(S)
           /\ Len(Append(s, x)) = Len(s) + 1 /\ DOMAIN Append(s, x) = 1 .. Len(s) + 1
           /\ \A i \in 1 .. Len(s) : Append(s, x)[i] = s[i]
           /\ Append(s, x)[Len(s) + 1] = x
  OBVIOUS

LEMMA RangeOfAppend ==
    ASSUME NEW S, NEW s \in Seq(S), NEW x \in S
    PROVE  Range(Append(s, x)) = Range(s) \cup {x}
<1> DEFINE t == Append(s, x)
<1>1. /\ Len(s) \in Nat /\ DOMAIN s = 1 .. Len(s)
      /\ t \in Seq(S) /\ Len(t) = Len(s) + 1 /\ DOMAIN t = 1 .. Len(s) + 1
      /\ \A i \in 1 .. Len(s) : t[i] = s[i]
      /\ t[Len(s) + 1] = x
  BY Appended
<1> HIDE DEF t
<1>2. \A i \in DOMAIN t : t[i] \in Range(s) \cup {x}
  BY <1>1 DEF Range
<1>3. \A y \in Range(s) : \E i \in DOMAIN t : t[i] = y
  BY <1>1 DEF Range
<1>4. \E i \in DOMAIN t : t[i] = x
  BY <1>1
<1>5. Range(t) = Range(s) \cup {x}
  BY <1>2, <1>3, <1>4, Zenon DEF Range
<1>6. QED
  BY <1>5, Zenon DEF t

\* A group is never created: the creator's row names the nil device.
LEMMA NoGroup ==
    ASSUME NEW u \in User, NEW b \in Bodies
    PROVE  ~Insertable(InitialMembers(u, b))
  BY GroupsAssumption, Zenon DEF Insertable, InitialMembers, Row

LEMMA CreateEffect ==
    ASSUME BaseInv, NEW r \in Req, NEW u \in User, NEW b \in Bodies, CreateGroup(r, u, b)
    PROVE  /\ pc[r] = "idle" /\ pc' = [pc EXCEPT ![r] = "done"]
           /\ op' = [op EXCEPT ![r] = "create"]
           /\ \E a \in {"storage", "bad_request"} : resp' = [resp EXCEPT ![r] = a]
           /\ UNCHANGED <<convs, members, log, skdm, conv, target, body, todo, pushed>>
           /\ UNCHANGED history
  BY NoGroup, Zenon DEF CreateGroup, Answer, BaseInv, GroupsType

LEMMA DeliverHeard ==
    ASSUME BaseInv, NEW r \in Req, NEW row \in todo[r], Deliver(r, row)
    PROVE  /\ row[2] \in Device
           /\ Heard(r)' = Heard(r) \cup {row[2]}
           /\ \A q \in Req \ {r} : Heard(q)' = Heard(q)
<1>1. row[2] \in Device
  BY DEF BaseInv, GroupsType, Row
<1>2. /\ pushed'[row[2]] = Append(pushed[row[2]], r)
      /\ \A d \in Device \ {row[2]} : pushed'[d] = pushed[d]
      /\ pushed[row[2]] \in Seq(Req)
  BY <1>1, Zenon DEF BaseInv, GroupsType, Deliver
<1>3. Range(pushed'[row[2]]) = Range(pushed[row[2]]) \cup {r}
  BY <1>2, RangeOfAppend
<1>4. QED
  BY <1>1, <1>2, <1>3, Zenon DEF Heard

LEMMA GroupsInit ==
    Init => GroupsInv
<1> SUFFICES ASSUME Init PROVE GroupsInv
  BY Zenon
<1>1. GroupsType
  <2>1. members \in [Conv -> SUBSET Row] /\ convs \subseteq Conv
    BY GroupsAssumption DEF Init, Range
  <2>2. \A d \in Device : pushed[d] = <<>>
    BY Zenon DEF Init
  <2>3. pushed \in [Device -> Seq(Req)]
    BY DEF Init
  <2>4. QED
    BY <2>1, <2>3, Zenon DEF Init, GroupsType, Labels, Operations
<1>2. \A r \in Req : Heard(r) = {} /\ RowsStored(r) = {}
  BY DEF Init, Heard, RowsStored, Range
<1>3. \A d \in Device : DOMAIN pushed[d] = {}
  BY DEF Init
<1>4. \A r \in Req : pc[r] = "idle" /\ op[r] = "none" /\ conv[r] = None /\ resp[r] = "none"
  BY Zenon DEF Init
<1>5. BaseInv
  BY <1>1, <1>2, <1>4, Zenon DEF BaseInv, AtLabel, Unheard
<1>6. \A r \in Req : SendInv(r) /\ SkdmInv(r) /\ Announced(r)
  BY <1>2, <1>4, Zenon DEF SendInv, SkdmInv, Announced
<1>7. \A c \in Conv, u \in User : OnePending(c, u) /\ ToldOrPending(c, u)
  BY <1>3, <1>4, Zenon DEF OnePending, ToldOrPending, Pending
<1>8. QED
  BY <1>5, <1>6, <1>7, Zenon DEF GroupsInv, ToldInv

\* What each step leaves as it is for the other requests.
Same(q) ==
    /\ pc'[q] = pc[q] /\ op'[q] = op[q] /\ conv'[q] = conv[q] /\ target'[q] = target[q]
    /\ body'[q] = body[q] /\ todo'[q] = todo[q] /\ resp'[q] = resp[q]

Step(r) ==
    \/ \E u \in User, b \in Bodies : CreateGroup(r, u, b)
    \/ \E u \in User, c \in convs : SendRequest(r, u, c)
    \/ \E c \in convs, row \in Named : AddMember(r, c, row)
    \/ \E c \in convs, u \in User : RemoveMember(r, c, u)
    \/ \E u \in User, c \in convs, b \in Bodies : SkdmRequest(r, u, c, b)
    \/ StoreEnvelope(r)
    \/ \E row \in todo[r] : InsertSkdm(r, row)
    \/ CommitSkdm(r)
    \/ GetMembers(r)
    \/ \E row \in todo[r] : Deliver(r, row)
    \/ Abort(r)

LEMMA OthersSame ==
    ASSUME BaseInv, NEW r \in Req, Step(r)
    PROVE  \A q \in Req \ {r} : Same(q)
<1>1. ASSUME NEW u \in User, NEW b \in Bodies, CreateGroup(r, u, b)
      PROVE  \A q \in Req \ {r} : Same(q)
  <2>1. PICK a \in {"storage", "bad_request"} : resp' = [resp EXCEPT ![r] = a]
    BY <1>1, CreateEffect, Zenon
  <2>2. /\ pc' = [pc EXCEPT ![r] = "done"] /\ op' = [op EXCEPT ![r] = "create"]
        /\ UNCHANGED <<conv, target, body, todo>>
    BY <1>1, CreateEffect, Zenon
  <2>3. QED
    BY <2>1, <2>2, Zenon DEF BaseInv, GroupsType, Same
<1> USE DEF BaseInv, GroupsType, Same
<1>2. ASSUME NEW u \in User, NEW c \in convs, SendRequest(r, u, c)
      PROVE  \A q \in Req \ {r} : Same(q)
  BY <1>2, Zenon DEF SendRequest, Goto, Answer
<1>3. ASSUME NEW c \in convs, NEW row \in Named, AddMember(r, c, row)
      PROVE  \A q \in Req \ {r} : Same(q)
  BY <1>3, Zenon DEF AddMember, Goto, Answer
<1>4. ASSUME NEW c \in convs, NEW u \in User, RemoveMember(r, c, u)
      PROVE  \A q \in Req \ {r} : Same(q)
  BY <1>4, Zenon DEF RemoveMember, Goto
<1>5. ASSUME NEW u \in User, NEW c \in convs, NEW b \in Bodies, SkdmRequest(r, u, c, b)
      PROVE  \A q \in Req \ {r} : Same(q)
  BY <1>5, Zenon DEF SkdmRequest, Goto, Answer
<1>6. CASE StoreEnvelope(r)
  BY <1>6, Zenon DEF StoreEnvelope, Goto, locals
<1>7. CASE CommitSkdm(r)
  BY <1>7, Zenon DEF CommitSkdm, Goto, Answer, locals
<1>8. CASE GetMembers(r)
  BY <1>8, Zenon DEF GetMembers, Goto, Answer, locals
<1>9. ASSUME NEW row \in todo[r], Deliver(r, row)
      PROVE  \A q \in Req \ {r} : Same(q)
  BY <1>9, Zenon DEF Deliver, Goto, Answer, locals
<1>10. CASE Abort(r)
  BY <1>10, Zenon DEF Abort, Answer, locals
<1>11. ASSUME NEW row \in todo[r], InsertSkdm(r, row)
       PROVE  \A q \in Req \ {r} : Same(q)
  BY <1>11, Zenon DEF InsertSkdm, locals
<1> QED
  BY <1>1, <1>2, <1>3, <1>4, <1>5, <1>6, <1>7, <1>8, <1>9, <1>10, <1>11, Zenon DEF Step

LEMMA HeardSame ==
    ASSUME BaseInv, NEW r \in Req, Step(r), NEW q \in Req,
           q # r \/ ~\E row \in todo[r] : Deliver(r, row)
    PROVE  Heard(q)' = Heard(q)
<1>1. CASE \E row \in todo[r] : Deliver(r, row)
  BY <1>1, DeliverHeard, Zenon
<1>2. CASE ~\E row \in todo[r] : Deliver(r, row)
  <2>1. pushed' = pushed
    BY <1>2, CreateEffect, Zenon DEF Step, SendRequest, AddMember, RemoveMember, SkdmRequest,
       StoreEnvelope, InsertSkdm, CommitSkdm, GetMembers, Abort
  <2>2. QED
    BY <2>1, Zenon DEF Heard
<1>3. QED
  BY <1>1, <1>2, Zenon

LEMMA BaseStep ==
    ASSUME BaseInv, NEW r \in Req, Step(r)
    PROVE  BaseInv'
<1> DEFINE Own == GroupsType' /\ AtLabel(r)' /\ (Unheard(r)' \/ pc'[r] \in {"fan", "done"})
<1>0. AtLabel(r) /\ Unheard(r) /\ GroupsType /\ convs \subseteq Conv
  BY Zenon DEF BaseInv, GroupsType
<1>1. ASSUME NEW u \in User, NEW b \in Bodies, CreateGroup(r, u, b)
      PROVE  Own
  <2>1. GroupsType'
    <3>1. PICK a \in {"storage", "bad_request"} : resp' = [resp EXCEPT ![r] = a]
      BY <1>1, CreateEffect
    <3>2. /\ pc' \in [Req -> Labels] /\ op' \in [Req -> Operations]
          /\ UNCHANGED <<convs, members, log, skdm, conv, target, body, todo, pushed, stayed, seen>>
      BY <1>0, <1>1, CreateEffect, Zenon DEF GroupsType, Labels, Operations, history
    <3>3. QED
      BY <1>0, <3>1, <3>2, Zenon DEF GroupsType
  <2>2. AtLabel(r)' /\ pc'[r] = "done"
    BY <1>0, <1>1, CreateEffect DEF GroupsType, AtLabel
  <2>3. QED
    BY <2>1, <2>2, Zenon
<1>2. ASSUME NEW u \in User, NEW c \in convs, SendRequest(r, u, c)
      PROVE  Own
  <2>1. GroupsType'
    BY <1>0, <1>2, Zenon DEF GroupsType, SendRequest, Goto, Answer, Labels, Operations, tables, history
  <2>2. AtLabel(r)'
    BY <1>0, <1>2, Zenon DEF GroupsType, AtLabel, SendRequest, Goto, Answer
  <2>3. Heard(r)' = {}
    BY <1>0, <1>2, Zenon DEF Unheard, SendRequest, Heard
  <2>4. QED
    BY <2>1, <2>2, <2>3, Zenon DEF Unheard
<1>3. ASSUME NEW c \in convs, NEW row \in Named, AddMember(r, c, row)
      PROVE  Own
  <2>0. row \in Row
    BY GroupsAssumption, Zenon
  <2>1. members' \in [Conv -> SUBSET Row] /\ seen' \in [Req -> SUBSET Device]
    <3>1. row[2] \in Device
      BY <2>0, Zenon DEF Row
    <3>2. members' \in [Conv -> SUBSET Row]
      BY <1>0, <1>3, <2>0 DEF GroupsType, AddMember
    <3>3. seen' \in [Req -> SUBSET Device]
      BY <1>0, <1>3, <3>1 DEF GroupsType, AddMember
    <3>4. QED
      BY <3>2, <3>3, Zenon
  <2>2. GroupsType'
    BY <1>0, <1>3, <2>0, <2>1, Zenon DEF GroupsType, AddMember, Goto, Answer, Labels, Operations
  <2>3. AtLabel(r)'
    BY <1>0, <1>3, Zenon DEF GroupsType, AtLabel, AddMember, Goto, Answer
  <2>4. Heard(r)' = {}
    BY <1>0, <1>3, Zenon DEF Unheard, AddMember, Heard
  <2>5. QED
    BY <2>2, <2>3, <2>4, Zenon DEF Unheard
<1>4. ASSUME NEW c \in convs, NEW u \in User, RemoveMember(r, c, u)
      PROVE  Own
  <2>1. members' \in [Conv -> SUBSET Row] /\ stayed' \in [Req -> SUBSET Device]
    BY <1>0, <1>4, Zenon DEF GroupsType, RemoveMember
  <2>2. GroupsType'
    BY <1>0, <1>4, <2>1, Zenon DEF GroupsType, RemoveMember, Goto, Labels, Operations
  <2>3. AtLabel(r)'
    BY <1>0, <1>4, Zenon DEF GroupsType, AtLabel, RemoveMember, Goto
  <2>4. Heard(r)' = {}
    BY <1>0, <1>4, Zenon DEF Unheard, RemoveMember, Heard
  <2>5. QED
    BY <2>2, <2>3, <2>4 DEF Unheard
<1>5. ASSUME NEW u \in User, NEW c \in convs, NEW b \in Bodies, SkdmRequest(r, u, c, b)
      PROVE  Own
  <2>1. GroupsType'
    <3>1. b \subseteq Row
      BY GroupsAssumption, Zenon
    <3>2. body' \in [Req -> SUBSET Row] /\ todo' \in [Req -> SUBSET Row]
      BY <1>0, <1>5, <3>1, Zenon DEF GroupsType, SkdmRequest
    <3>3. /\ pc' \in [Req -> Labels] /\ op' \in [Req -> Operations]
          /\ conv' \in [Req -> Conv \cup {None}]
      BY <1>0, <1>5, Zenon DEF GroupsType, SkdmRequest, Goto, Answer, Labels, Operations
    <3>4. resp' \in [Req -> {"none", "created", "no_content", "storage", "bad_request", "forbidden"}]
      BY <1>0, <1>5, Zenon DEF GroupsType, SkdmRequest, Goto, Answer
    <3>5. UNCHANGED <<convs, members, skdm, target, pushed, stayed, seen>>
      BY <1>5, Zenon DEF SkdmRequest, tables, history
    <3>6. QED
      BY <1>0, <3>2, <3>3, <3>4, <3>5, Zenon DEF GroupsType
  <2>2. AtLabel(r)'
    BY <1>0, <1>5, Zenon DEF GroupsType, AtLabel, SkdmRequest, Goto, Answer
  <2>3. Heard(r)' = {}
    BY <1>0, <1>5, Zenon DEF Unheard, SkdmRequest, Heard
  <2>4. QED
    BY <2>1, <2>2, <2>3, Zenon DEF Unheard
<1>6. ASSUME StoreEnvelope(r) PROVE Own
  <2>1. DevicesOf(conv[r]) \subseteq Device
    BY <1>0, <1>6 DEF StoreEnvelope, AtLabel, GroupsType, DevicesOf, Row
  <2>2. GroupsType'
    BY <1>0, <1>6, <2>1, Zenon DEF GroupsType, StoreEnvelope, Goto, Labels, locals
  <2>3. AtLabel(r)'
    BY <1>0, <1>6, Zenon DEF GroupsType, AtLabel, StoreEnvelope, Goto, locals
  <2>4. Heard(r)' = {}
    BY <1>0, <1>6, Zenon DEF Unheard, StoreEnvelope, Heard
  <2>5. QED
    BY <2>2, <2>3, <2>4, Zenon DEF Unheard
<1>7. ASSUME CommitSkdm(r) PROVE Own
  <2>1. skdm' \subseteq Req \X Row
    BY <1>0, <1>7, Zenon DEF GroupsType, CommitSkdm, Inserted
  <2>2. GroupsType'
    BY <1>0, <1>7, <2>1, Zenon DEF GroupsType, CommitSkdm, Goto, Answer, Labels, locals, history
  <2>3. AtLabel(r)' /\ pc'[r] \in {"fan", "done"}
    BY <1>0, <1>7, Zenon DEF GroupsType, AtLabel, CommitSkdm, Goto, Answer, locals
  <2>4. QED
    BY <2>2, <2>3, Zenon
<1>8. ASSUME GetMembers(r) PROVE Own
  <2>1. GroupsType'
    BY <1>0, <1>8, Zenon DEF GroupsType, AtLabel, GetMembers, RowsToTell, Goto, Answer, Success, Labels,
       tables, locals, history
  <2>2. AtLabel(r)' /\ pc'[r] \in {"fan", "done"}
    BY <1>0, <1>8, Zenon DEF GroupsType, AtLabel, GetMembers, Goto, Answer, locals
  <2>3. QED
    BY <2>1, <2>2
<1>9. ASSUME NEW row \in todo[r], Deliver(r, row)
      PROVE  Own
  <2>1. row[2] \in Device
    BY <1>9, DeliverHeard, Zenon
  <2>2. pushed' \in [Device -> Seq(Req)]
    BY <1>0, <1>9, <2>1 DEF GroupsType, Deliver
  <2>3. GroupsType'
    BY <1>0, <1>9, <2>2, ZenonT(30) DEF GroupsType, Deliver, Goto, Answer, Success, Labels, tables, locals, history
  <2>4. AtLabel(r)' /\ pc'[r] \in {"fan", "done"}
    BY <1>0, <1>9, Zenon DEF GroupsType, AtLabel, Deliver, Goto, Answer, locals
  <2>5. QED
    BY <2>3, <2>4, Zenon
<1>10. ASSUME Abort(r) PROVE Own
  <2>1. GroupsType'
    BY <1>0, <1>10, Zenon DEF GroupsType, Abort, Answer, Labels, tables, locals
  <2>2. AtLabel(r)' /\ pc'[r] = "done"
    BY <1>0, <1>10, Zenon DEF GroupsType, AtLabel, Abort, Answer, locals
  <2>3. QED
    BY <2>1, <2>2, Zenon
<1>11. ASSUME NEW row \in todo[r], InsertSkdm(r, row) PROVE Own
  <2>1. GroupsType'
    BY <1>0, <1>11, Zenon DEF GroupsType, InsertSkdm, tables, locals, history
  <2>2. AtLabel(r)'
    BY <1>0, <1>11, Zenon DEF AtLabel, InsertSkdm, locals
  <2>3. Heard(r)' = {}
    BY <1>0, <1>11, Zenon DEF Unheard, InsertSkdm, Heard
  <2>4. QED
    BY <2>1, <2>2, <2>3, Zenon DEF Unheard
<1>12. Own
  BY <1>1, <1>2, <1>3, <1>4, <1>5, <1>6, <1>7, <1>8, <1>9, <1>10, <1>11, Zenon DEF Step
<1>13. ASSUME NEW q \in Req, q # r
       PROVE  AtLabel(q)' /\ Unheard(q)'
  <2>1. Same(q) /\ Heard(q)' = Heard(q)
    BY <1>13, OthersSame, HeardSame, Zenon
  <2>2. AtLabel(q) /\ Unheard(q)
    BY Zenon DEF BaseInv
  <2>3. QED
    BY <2>1, <2>2, Zenon DEF Same, AtLabel, Unheard
<1>14. Unheard(r)'
  BY <1>12, Zenon DEF Unheard
<1>15. QED
  BY <1>12, <1>13, <1>14, Zenon DEF BaseInv

-----------------------------------------------------------------------------
(***************************************************************************)
(* Messages.                                                               *)
(***************************************************************************)

\* A step of another request, for a message whose members are about to be read.
LEMMA MembersMove ==
    ASSUME BaseInv, NEW r \in Req, Step(r), NEW q \in Req, q # r
    PROVE  /\ seen[q] \subseteq seen'[q] /\ stayed'[q] \subseteq stayed[q]
           /\ conv[q] \in Conv =>
                /\ stayed[q] \subseteq DevicesOf(conv[q]) => stayed'[q] \subseteq DevicesOf(conv[q])'
                /\ DevicesOf(conv[q]) \subseteq seen[q] => DevicesOf(conv[q])' \subseteq seen'[q]
<1> DEFINE Moved ==
           /\ seen[q] \subseteq seen'[q] /\ stayed'[q] \subseteq stayed[q]
           /\ conv[q] \in Conv =>
                /\ stayed[q] \subseteq DevicesOf(conv[q]) => stayed'[q] \subseteq DevicesOf(conv[q])'
                /\ DevicesOf(conv[q]) \subseteq seen[q] => DevicesOf(conv[q])' \subseteq seen'[q]
<1>0. GroupsType /\ conv'[q] = conv[q]
  BY OthersSame, Zenon DEF Same, BaseInv
<1>1. ASSUME members' = members, stayed'[q] = stayed[q], seen'[q] = seen[q] PROVE Moved
  BY <1>0, <1>1, Zenon DEF DevicesOf
<1>2. ASSUME NEW c \in convs, NEW row \in Named, AddMember(r, c, row) PROVE Moved
  <2>1. CASE row \in members[c]
    BY <1>1, <1>2, <2>1, Zenon DEF AddMember
  <2>2. CASE row \notin members[c]
    <3>1. /\ stayed' = stayed
          /\ seen'[q] = IF conv[q] = c THEN seen[q] \cup {row[2]} ELSE seen[q]
          /\ c \in Conv
      BY <1>0, <1>2, <2>2, Zenon DEF AddMember, GroupsType
    <3>2. members' = [members EXCEPT ![c] = @ \cup {row}]
      BY <1>2, <2>2, Zenon DEF AddMember
    <3>3. CASE conv[q] = c
      <4>1. members'[conv[q]] = members[conv[q]] \cup {row}
        BY <1>0, <3>1, <3>2, <3>3, Zenon DEF GroupsType
      <4>2. DevicesOf(conv[q])' = DevicesOf(conv[q]) \cup {row[2]}
        BY <1>0, <4>1, Zenon DEF DevicesOf
      <4>3. QED
        BY <3>1, <3>3, <4>2, Zenon
    <3>4. CASE conv[q] # c
      <4>1. conv[q] \in Conv => members'[conv[q]] = members[conv[q]]
        BY <1>0, <3>2, <3>4, Zenon DEF GroupsType
      <4>2. conv[q] \in Conv => DevicesOf(conv[q])' = DevicesOf(conv[q])
        BY <1>0, <4>1, Zenon DEF DevicesOf
      <4>3. QED
        BY <3>1, <3>4, <4>2, Zenon
    <3>5. QED
      BY <3>3, <3>4, Zenon
  <2>3. QED
    BY <2>1, <2>2, Zenon
<1>3. ASSUME NEW c \in convs, NEW u \in User, RemoveMember(r, c, u) PROVE Moved
  <2> DEFINE rest  == members[c] \ RowsOf(c, u)
             leave == Devs(RowsOf(c, u)) \ Devs(rest)
  <2>1. /\ seen' = seen
        /\ stayed'[q] = IF conv[q] = c THEN stayed[q] \ leave ELSE stayed[q]
        /\ members' = [members EXCEPT ![c] = rest]
        /\ c \in Conv
    BY <1>0, <1>3, Zenon DEF RemoveMember, GroupsType, Devs
  <2>2. CASE conv[q] = c
    <3>1. members'[c] = rest
      BY <1>0, <2>1, Zenon DEF GroupsType
    <3>2. DevicesOf(conv[q])' = Devs(rest)
      BY <1>0, <2>2, <3>1, Zenon DEF DevicesOf, Devs
    <3>3. DevicesOf(c) \ leave \subseteq Devs(rest) /\ Devs(rest) \subseteq DevicesOf(c)
      BY Zenon DEF DevicesOf, Devs, RowsOf
    <3> HIDE DEF rest, leave
    <3>4. QED
      BY <2>1, <2>2, <3>2, <3>3, Zenon
  <2>3. CASE conv[q] # c
    <3>1. conv[q] \in Conv => members'[conv[q]] = members[conv[q]]
      BY <1>0, <2>1, <2>3, Zenon DEF GroupsType
    <3>2. conv[q] \in Conv => DevicesOf(conv[q])' = DevicesOf(conv[q])
      BY <1>0, <3>1 DEF DevicesOf
    <3>3. QED
      BY <2>1, <2>3, <3>2, Zenon
  <2>4. QED
    BY <2>2, <2>3
<1>4. ASSUME StoreEnvelope(r) PROVE Moved
  BY <1>0, <1>1, <1>4, Zenon DEF StoreEnvelope, GroupsType
<1>5. ASSUME NEW u \in User, NEW b \in Bodies, CreateGroup(r, u, b) PROVE Moved
  BY <1>1, <1>5, CreateEffect, Zenon DEF history
<1>6. ASSUME \/ \E u \in User, c \in convs : SendRequest(r, u, c)
             \/ \E u \in User, c \in convs, b \in Bodies : SkdmRequest(r, u, c, b)
             \/ CommitSkdm(r) \/ GetMembers(r) \/ Abort(r)
             \/ \E row \in todo[r] : Deliver(r, row) \/ InsertSkdm(r, row)
      PROVE  Moved
  <2>1. UNCHANGED <<members, stayed, seen>>
    BY <1>6, Zenon DEF SendRequest, SkdmRequest, InsertSkdm, CommitSkdm, GetMembers, Abort, Deliver,
       tables, history
  <2>2. QED
    BY <1>1, <2>1, Zenon
<1>7. Moved
  BY <1>2, <1>3, <1>4, <1>5, <1>6, Zenon DEF Step
<1>8. QED
  BY <1>7, Zenon

LEMMA SendStep ==
    ASSUME BaseInv, BaseInv', NEW r \in Req, Step(r), NEW q \in Req, SendInv(q)
    PROVE  SendInv(q)'
<1>0. GroupsType /\ AtLabel(q) /\ Unheard(q) /\ AtLabel(q)'
  BY Zenon DEF BaseInv
<1>1. CASE q # r
  <2>1. Same(q) /\ Heard(q)' = Heard(q)
    BY <1>1, OthersSame, HeardSame, Zenon
  <2>2. /\ seen[q] \subseteq seen'[q] /\ stayed'[q] \subseteq stayed[q]
        /\ conv[q] \in Conv =>
             /\ stayed[q] \subseteq DevicesOf(conv[q]) => stayed'[q] \subseteq DevicesOf(conv[q])'
             /\ DevicesOf(conv[q]) \subseteq seen[q] => DevicesOf(conv[q])' \subseteq seen'[q]
    BY <1>1, MembersMove, Zenon
  <2>3. Devs(todo[q])' = Devs(todo[q])
    BY <2>1, Zenon DEF Devs, Same
  <2>4. pc[q] = "list" => conv[q] \in Conv
    BY <1>0, Zenon DEF AtLabel
  <2>5. QED
    BY <2>1, <2>2, <2>3, <2>4, Zenon DEF SendInv, Same
<1>2. CASE q = r
  <2>1. ASSUME NEW u \in User, NEW c \in convs, SendRequest(r, u, c) PROVE SendInv(r)'
    <3>1. Heard(r)' = {}
      BY <1>0, <1>2, <2>1, Zenon DEF SendRequest, Unheard, Heard
    <3>2. pc'[r] \in {"store", "done"} /\ resp'[r] # "created"
      BY <1>0, <1>2, <2>1, Zenon DEF SendRequest, Goto, Answer, GroupsType, AtLabel
    <3>3. QED
      BY <3>1, <3>2, Zenon DEF SendInv
  <2>2. ASSUME StoreEnvelope(r) PROVE SendInv(r)'
    <3>1. Heard(r)' = {}
      BY <1>0, <1>2, <2>2, Zenon DEF StoreEnvelope, Unheard, Heard
    <3>2. pc'[r] = "list" /\ resp'[r] = "none" /\ conv'[r] = conv[r] /\ members' = members
      BY <1>0, <1>2, <2>2, Zenon DEF StoreEnvelope, Goto, GroupsType, AtLabel, locals
    <3>3. stayed'[r] = DevicesOf(conv[r]) /\ seen'[r] = DevicesOf(conv[r])
      BY <1>0, <2>2, Zenon DEF StoreEnvelope, GroupsType
    <3>4. DevicesOf(conv[r])' = DevicesOf(conv[r])
      BY <3>2, Zenon DEF DevicesOf
    <3>5. QED
      BY <3>1, <3>2, <3>3, <3>4, Zenon DEF SendInv
  <2>3. ASSUME GetMembers(r) PROVE SendInv(r)'
    <3>1. Heard(r)' = {}
      BY <1>0, <1>2, <2>3, Zenon DEF GetMembers, Unheard, Heard
    <3>2. todo'[r] = members[conv[r]] /\ UNCHANGED <<op, stayed, seen, members>> /\ pc[r] = "list"
      BY <1>0, <2>3, Zenon DEF GetMembers, RowsToTell, GroupsType, tables, locals, history
    <3>3. Devs(todo[r])' = DevicesOf(conv[r])
      BY <3>2, Zenon DEF Devs, DevicesOf
    <3>4. CASE members[conv[r]] = {}
      <4>1. DevicesOf(conv[r]) = {} /\ pc'[r] = "done"
        BY <1>0, <2>3, <3>4 DEF GetMembers, RowsToTell, Answer, GroupsType, DevicesOf
      <4>2. QED
        BY <1>2, <3>1, <3>2, <4>1, Zenon DEF SendInv
    <3>5. CASE members[conv[r]] # {}
      <4>1. pc'[r] = "fan" /\ resp'[r] = "none"
        BY <1>0, <1>2, <2>3, <3>5, Zenon DEF GetMembers, RowsToTell, Goto, GroupsType, AtLabel
      <4>2. QED
        BY <1>2, <3>1, <3>2, <3>3, <4>1, Zenon DEF SendInv
    <3>6. QED
      BY <3>4, <3>5, Zenon
  <2>4. ASSUME NEW row \in todo[r], Deliver(r, row) PROVE SendInv(r)'
    <3>1. Heard(r)' = Heard(r) \cup {row[2]}
      BY <2>4, DeliverHeard, Zenon
    <3>2. /\ todo'[r] = todo[r] \ {row} /\ UNCHANGED <<op, stayed, seen>> /\ pc[r] = "fan"
          /\ pc'[r] \in {"fan", "done"} /\ (pc'[r] = "done" => todo[r] = {row})
      BY <1>0, <2>4, Zenon DEF Deliver, Goto, Answer, GroupsType, locals, history
    <3>3. Devs(todo[r]) \subseteq Devs(todo[r])' \cup {row[2]} /\ row[2] \in Devs(todo[r])
      BY <3>2, Zenon DEF Devs
    <3>4. todo[r] = {row} => Devs(todo[r]) = {row[2]}
      BY Zenon DEF Devs
    <3>5. Devs(todo[r])' \subseteq Devs(todo[r])
      BY <3>2, Zenon DEF Devs
    <3>6. resp'[r] = "created" => pc'[r] = "done"
      BY <1>0, <1>2, <3>2, Zenon DEF AtLabel
    <3>7. QED
      BY <1>2, <3>1, <3>2, <3>3, <3>4, <3>5, <3>6, Zenon DEF SendInv
  <2>5. ASSUME Abort(r) PROVE SendInv(r)'
    <3>1. Heard(r)' = Heard(r) /\ UNCHANGED <<op, stayed, seen>>
      BY <1>0, <2>5, Zenon DEF Abort, Heard, locals
    <3>2. pc'[r] = "done" /\ resp'[r] = "storage"
      BY <1>0, <2>5, Zenon DEF Abort, Answer, GroupsType
    <3>3. QED
      BY <1>2, <3>1, <3>2, Zenon DEF SendInv
  <2>6. ASSUME \/ \E u \in User, b \in Bodies : CreateGroup(r, u, b)
               \/ \E c \in convs, row \in Named : AddMember(r, c, row)
               \/ \E c \in convs, u \in User : RemoveMember(r, c, u)
               \/ \E u \in User, c \in convs, b \in Bodies : SkdmRequest(r, u, c, b)
               \/ (\E row \in todo[r] : InsertSkdm(r, row)) \/ CommitSkdm(r)
        PROVE  SendInv(r)'
    <3>1. op'[r] # "send"
      BY <1>0, <1>2, <2>6, Zenon DEF CreateGroup, AddMember, RemoveMember, SkdmRequest, InsertSkdm,
         CommitSkdm, AtLabel, GroupsType, locals
    <3>2. QED
      BY <3>1, Zenon DEF SendInv
  <2>7. QED
    BY <1>2, <2>1, <2>2, <2>3, <2>4, <2>5, <2>6, Zenon DEF Step
<1>3. QED
  BY <1>1, <1>2, Zenon

-----------------------------------------------------------------------------
(***************************************************************************)
(* Distributions.                                                          *)
(***************************************************************************)

LEMMA StoredBy ==
    ASSUME BaseInv, NEW r \in Req, Step(r), NEW q \in Req
    PROVE  RowsStored(q)' = IF q = r /\ CommitSkdm(r) THEN RowsStored(q) \cup body[r]
                                                     ELSE RowsStored(q)
<1>1. CASE CommitSkdm(r)
  <2>1. skdm' = skdm \cup ({r} \X body[r])
    <3>1. todo[r] = {} /\ skdm' = skdm \cup ({r} \X (body[r] \ todo[r]))
      BY <1>1, Zenon DEF CommitSkdm, Inserted
    <3>2. body[r] \ todo[r] = body[r]
      BY <3>1, Zenon
    <3>3. QED
      BY <3>1, <3>2, Zenon
  <2>2. CASE q # r
    <3>1. {y \in skdm' : y[1] = q} = {y \in skdm : y[1] = q}
      BY <2>1, <2>2, Zenon
    <3>2. QED
      BY <2>2, <3>1, Zenon DEF RowsStored
  <2>3. CASE q = r
    <3>1. {y \in skdm' : y[1] = r} = {y \in skdm : y[1] = r} \cup ({r} \X body[r])
      BY <2>1, Zenon
    <3>2. {x[2] : x \in {r} \X body[r]} = body[r]
      <4>1. \A z \in body[r] : <<r, z>> \in {r} \X body[r] /\ <<r, z>>[2] = z
        BY Zenon
      <4>2. \A x \in {r} \X body[r] : x[2] \in body[r]
        BY Zenon
      <4>3. \A z \in body[r] : \E x \in {r} \X body[r] : z = x[2]
        BY <4>1, Zenon
      <4>4. QED
        BY <4>2, <4>3, Zenon
    <3>3. RowsStored(r)' = RowsStored(r) \cup {x[2] : x \in {r} \X body[r]}
      BY <3>1, Zenon DEF RowsStored
    <3>4. QED
      BY <1>1, <2>3, <3>2, <3>3, Zenon
  <2>4. QED
    BY <2>2, <2>3, Zenon
<1>2. CASE ~CommitSkdm(r)
  <2>1. skdm' = skdm
    BY <1>2, CreateEffect, Zenon DEF Step, SendRequest, AddMember, RemoveMember, SkdmRequest,
       StoreEnvelope, InsertSkdm, GetMembers, Deliver, Abort, tables
  <2>2. QED
    BY <1>2, <2>1, Zenon DEF RowsStored
<1>3. QED
  BY <1>1, <1>2, Zenon

LEMMA SkdmStep ==
    ASSUME BaseInv, BaseInv', NEW r \in Req, Step(r), NEW q \in Req, SkdmInv(q)
    PROVE  SkdmInv(q)'
<1>0. GroupsType /\ AtLabel(q) /\ Unheard(q) /\ AtLabel(q)'
  BY DEF BaseInv
<1>1. CASE q # r
  <2>1. Same(q) /\ Heard(q)' = Heard(q) /\ RowsStored(q)' = RowsStored(q)
    BY <1>1, OthersSame, HeardSame, StoredBy, Zenon
  <2>2. Devs(RowsStored(q))' = Devs(RowsStored(q))
    BY <2>1, Zenon DEF Devs
  <2>3. QED
    BY <2>1, <2>2, Zenon DEF SkdmInv, Same
<1>2. CASE q = r /\ CommitSkdm(r)
  <2>1. RowsStored(r) = {}
    BY <1>2, Zenon DEF SkdmInv, CommitSkdm
  <2>2. RowsStored(r)' = body[r]
    BY <1>2, <2>1, StoredBy, Zenon
  <2>3. Heard(r)' = {}
    BY <1>0, <1>2, Zenon DEF CommitSkdm, Unheard, Heard
  <2>4. body'[r] = body[r] /\ todo'[r] = body[r] /\ pc'[r] \in {"fan", "done"}
    BY <1>0, <1>2, Zenon DEF CommitSkdm, Goto, Answer, GroupsType, locals
  <2>5. QED
    BY <1>2, <2>2, <2>3, <2>4, Zenon DEF SkdmInv
<1>3. CASE q = r /\ ~CommitSkdm(r)
  <2>0. RowsStored(r)' = RowsStored(r)
    BY <1>3, StoredBy, Zenon
  <2>1. Devs(RowsStored(r))' = Devs(RowsStored(r))
    BY <2>0, Zenon DEF Devs
  <2>2. ASSUME NEW u \in User, NEW c \in convs, NEW b \in Bodies, SkdmRequest(r, u, c, b)
        PROVE  SkdmInv(r)'
    <3>1. RowsStored(r) = {}
      BY <1>3, <2>2, Zenon DEF SkdmInv, SkdmRequest
    <3>2. Heard(r)' = {}
      BY <1>0, <1>3, <2>2, Zenon DEF SkdmRequest, Unheard, Heard
    <3>3. pc'[r] \in {"skdm", "done"}
      BY <1>0, <2>2, Zenon DEF SkdmRequest, Goto, Answer, GroupsType
    <3>4. QED
      BY <2>0, <3>1, <3>2, <3>3, Zenon DEF SkdmInv
  <2>3. ASSUME NEW row \in todo[r], Deliver(r, row) PROVE SkdmInv(r)'
    <3>1. Heard(r)' = Heard(r) \cup {row[2]}
      BY <2>3, DeliverHeard
    <3>2. /\ todo'[r] \subseteq todo[r] /\ op' = op /\ body' = body /\ pc[r] = "fan"
          /\ pc'[r] \in {"fan", "done"}
      BY <1>0, <2>3, Zenon DEF Deliver, Goto, Answer, GroupsType, locals
    <3>3. op[r] = "skdm" => row[2] \in Devs(RowsStored(r))
      BY <1>3, <3>2, Zenon DEF Devs, SkdmInv
    <3>4. QED
      BY <1>3, <2>0, <2>1, <3>1, <3>2, <3>3, Zenon DEF SkdmInv
  <2>4. ASSUME Abort(r) PROVE SkdmInv(r)'
    <3>1. Heard(r)' = Heard(r) /\ op' = op /\ body' = body /\ pc'[r] = "done"
      BY <1>0, <2>4, Zenon DEF Abort, Answer, GroupsType, Heard, locals
    <3>2. QED
      BY <1>3, <2>0, <2>1, <3>1, Zenon DEF SkdmInv
  <2>5. ASSUME \/ \E u \in User, b \in Bodies : CreateGroup(r, u, b)
               \/ \E u \in User, c \in convs : SendRequest(r, u, c)
               \/ \E c \in convs, row \in Named : AddMember(r, c, row)
               \/ \E c \in convs, u \in User : RemoveMember(r, c, u)
               \/ StoreEnvelope(r) \/ GetMembers(r)
        PROVE  SkdmInv(r)'
    <3>1. op'[r] # "skdm"
      BY <1>0, <1>3, <2>5, Zenon DEF CreateGroup, SendRequest, AddMember, RemoveMember, StoreEnvelope,
         GetMembers, AtLabel, GroupsType, locals
    <3>2. pc'[r] \notin {"idle", "skdm"}
      BY <1>0, <2>5 DEF CreateGroup, SendRequest, AddMember, RemoveMember, StoreEnvelope,
         GetMembers, GroupsType, Goto, Answer
    <3>3. QED
      BY <3>1, <3>2, Zenon DEF SkdmInv
  <2>6. ASSUME NEW row \in todo[r], InsertSkdm(r, row) PROVE SkdmInv(r)'
    <3>1. Heard(r)' = Heard(r) /\ UNCHANGED <<op, body, pc>> /\ pc[r] = "skdm"
      BY <2>6, Zenon DEF InsertSkdm, Heard, locals
    <3>2. QED
      BY <1>3, <2>0, <2>1, <3>1, Zenon DEF SkdmInv
  <2>7. QED
    BY <1>3, <2>2, <2>3, <2>4, <2>5, <2>6, Zenon DEF Step
<1>4. QED
  BY <1>1, <1>2, <1>3, Zenon

-----------------------------------------------------------------------------
(***************************************************************************)
(* Changes of members.                                                     *)
(***************************************************************************)

\* Who is in a conversation, or has left it, stays so.
LEMMA InOrLeftKept ==
    ASSUME BaseInv, NEW r \in Req, Step(r), NEW c \in Conv, NEW d \in Device, InOrLeft(c, d)
    PROVE  InOrLeft(c, d)'
<1>0. GroupsType
  BY Zenon DEF BaseInv
<1>1. ASSUME NEW k \in convs, NEW row \in Named, AddMember(r, k, row) PROVE InOrLeft(c, d)'
  <2>1. left' = left /\ members[c] \subseteq members'[c]
    BY <1>0, <1>1, Zenon DEF AddMember, GroupsType
  <2>2. QED
    BY <2>1, Zenon DEF InOrLeft, DevicesOf
<1>2. ASSUME NEW k \in convs, NEW u \in User, RemoveMember(r, k, u) PROVE InOrLeft(c, d)'
  <2> DEFINE rest  == members[k] \ RowsOf(k, u)
             leave == Devs(RowsOf(k, u)) \ Devs(rest)
  <2>1. members' = [members EXCEPT ![k] = rest] /\ left' = left \cup ({k} \X leave)
    BY <1>0, <1>2, Zenon DEF RemoveMember, GroupsType, Devs
  <2>2. CASE c # k
    <3>1. members'[c] = members[c]
      BY <1>0, <2>1, <2>2, Zenon DEF GroupsType
    <3>2. QED
      BY <2>1, <3>1, Zenon DEF InOrLeft, DevicesOf
  <2>3. CASE c = k
    <3>1. members'[c] = rest
      BY <1>0, <2>1, <2>3, Zenon DEF GroupsType
    <3>2. DevicesOf(c)' = Devs(rest)
      BY <3>1, Zenon DEF DevicesOf, Devs
    <3>3. DevicesOf(c) \ leave \subseteq Devs(rest)
      BY <2>3, Zenon DEF DevicesOf, Devs, RowsOf
    <3> HIDE DEF rest, leave
    <3>4. QED
      BY <2>1, <2>3, <3>2, <3>3, Zenon DEF InOrLeft
  <2>4. QED
    BY <2>2, <2>3, Zenon
<1>3. CASE UNCHANGED <<members, left>>
  BY <1>3, Zenon DEF InOrLeft, DevicesOf
<1>4. ASSUME NEW u \in User, NEW b \in Bodies, CreateGroup(r, u, b) PROVE InOrLeft(c, d)'
  BY <1>3, <1>4, CreateEffect, Zenon DEF history
<1>5. ASSUME \/ \E u \in User, k \in convs : SendRequest(r, u, k)
             \/ \E u \in User, k \in convs, b \in Bodies : SkdmRequest(r, u, k, b)
             \/ StoreEnvelope(r) \/ CommitSkdm(r) \/ GetMembers(r) \/ Abort(r)
             \/ \E row \in todo[r] : Deliver(r, row) \/ InsertSkdm(r, row)
      PROVE  InOrLeft(c, d)'
  <2>1. UNCHANGED <<members, left>>
    BY <1>5, Zenon DEF SendRequest, SkdmRequest, StoreEnvelope, InsertSkdm, CommitSkdm, GetMembers, Abort,
       Deliver, tables, history
  <2>2. QED
    BY <1>3, <2>1, Zenon
<1>6. QED
  BY <1>1, <1>2, <1>4, <1>5, Zenon DEF Step

LEMMA AnnouncedStep ==
    ASSUME BaseInv, BaseInv', NEW r \in Req, Step(r), NEW q \in Req, Announced(q)
    PROVE  Announced(q)'
<1>0. GroupsType /\ AtLabel(q) /\ Unheard(q) /\ AtLabel(q)' /\ GroupsType'
  BY Zenon DEF BaseInv
<1>1. \A c \in Conv, d \in Device : InOrLeft(c, d) => InOrLeft(c, d)'
  BY InOrLeftKept, Zenon
<1>2. \A row \in todo[q] : row[2] \in Device
  BY <1>0 DEF GroupsType, Row
<1>3. Heard(q) \subseteq Device
  BY Zenon DEF Heard
<1>4. op[q] \in {"add", "remove"} => conv[q] \in Conv
  BY <1>0, Zenon DEF AtLabel
<1>5. CASE q # r
  <2>1. Same(q) /\ Heard(q)' = Heard(q)
    BY <1>5, OthersSame, HeardSame
  <2>2. \A d : InOrLeft(conv[q], d)' <=> (<<conv[q], d>> \in left' \/ d \in {row[2] : row \in members'[conv[q]]})
    BY <2>1, Zenon DEF InOrLeft, DevicesOf, Same
  <2>3. \A c, d : InOrLeft(c, d)' <=> (<<c, d>> \in left' \/ d \in {row[2] : row \in members'[c]})
    BY Zenon DEF InOrLeft, DevicesOf
  <2>4. op[q] \in {"add", "remove"} =>
            \A d \in Device : InOrLeft(conv[q], d) => InOrLeft(conv[q], d)'
    BY <1>1, <1>4, <2>2, <2>3, Zenon
  <2>5. QED
    BY <1>2, <1>3, <2>1, <2>4, Zenon DEF Announced, Same
<1>6. CASE q = r
  <2>1. ASSUME \/ \E c \in convs, row \in Named : AddMember(r, c, row)
               \/ \E c \in convs, u \in User : RemoveMember(r, c, u)
        PROVE  Announced(r)'
    <3>1. Heard(r)' = {} /\ pc'[r] # "fan"
      BY <1>0, <1>6, <2>1 DEF AddMember, RemoveMember, Unheard, Heard, GroupsType, Goto, Answer
    <3>2. QED
      BY <3>1, Zenon DEF Announced
  <2>2. ASSUME GetMembers(r) PROVE Announced(r)'
    <3>1. Heard(r)' = {}
      BY <1>0, <1>6, <2>2, Zenon DEF GetMembers, Unheard, Heard
    <3>2. todo'[r] = members'[conv'[r]]
      BY <1>0, <2>2, Zenon DEF GetMembers, RowsToTell, GroupsType, tables, locals
    <3>3. QED
      BY <3>1, <3>2, Zenon DEF Announced, InOrLeft, DevicesOf
  <2>3. ASSUME NEW row \in todo[r], Deliver(r, row) PROVE Announced(r)'
    <3>1. Heard(r)' = Heard(r) \cup {row[2]}
      BY <2>3, DeliverHeard
    <3>2. todo'[r] \subseteq todo[r] /\ UNCHANGED <<op, conv, members, left>> /\ pc[r] = "fan"
      BY <1>0, <2>3, Zenon DEF Deliver, GroupsType, tables, locals, history
    <3>3. \A d : (InOrLeft(conv[r], d)' <=> InOrLeft(conv[r], d))
      BY <3>2, Zenon DEF InOrLeft, DevicesOf
    <3>4. QED
      BY <1>6, <3>1, <3>2, <3>3, Zenon DEF Announced
  <2>4. ASSUME Abort(r) PROVE Announced(r)'
    <3>1. Heard(r)' = Heard(r) /\ UNCHANGED <<op, conv, members, left>> /\ pc'[r] = "done"
      BY <1>0, <2>4, Zenon DEF Abort, Answer, GroupsType, Heard, tables, locals
    <3>2. \A d : (InOrLeft(conv[r], d)' <=> InOrLeft(conv[r], d))
      BY <3>1, Zenon DEF InOrLeft, DevicesOf
    <3>3. QED
      BY <1>6, <3>1, <3>2, Zenon DEF Announced
  <2>5. ASSUME \/ \E u \in User, b \in Bodies : CreateGroup(r, u, b)
               \/ \E u \in User, c \in convs : SendRequest(r, u, c)
               \/ \E u \in User, c \in convs, b \in Bodies : SkdmRequest(r, u, c, b)
               \/ StoreEnvelope(r) \/ CommitSkdm(r) \/ (\E row \in todo[r] : InsertSkdm(r, row))
        PROVE  Announced(r)'
    <3>1. op'[r] \notin {"add", "remove"}
      BY <1>0, <1>6, <2>5, Zenon DEF CreateGroup, SendRequest, SkdmRequest, StoreEnvelope, InsertSkdm,
         CommitSkdm, AtLabel, GroupsType, locals
    <3>2. QED
      BY <3>1, Zenon DEF Announced
  <2>6. QED
    BY <1>6, <2>1, <2>2, <2>3, <2>4, <2>5, Zenon DEF Step
<1>7. QED
  BY <1>5, <1>6

\* A step that leaves the announcements of changes of u, and u's membership, alone.
LEMMA QuietStep ==
    ASSUME BaseInv, NEW c \in Conv, NEW u \in User, OnePending(c, u), ToldOrPending(c, u),
           pushed' = pushed, left \subseteq left', (IsMember(c, u)' <=> IsMember(c, u)),
           \A q \in Req : Pending(q, c, u)' <=> Pending(q, c, u),
           \A q \in Req : Pending(q, c, u) => op'[q] = op[q] /\ pc'[q] = pc[q] /\ todo'[q] = todo[q],
           \A q \in Req : Heard(q) # {} => op'[q] = op[q] /\ (Changes(q, c, u)' <=> Changes(q, c, u))
    PROVE  OnePending(c, u)' /\ ToldOrPending(c, u)'
<1>1. OnePending(c, u)'
  BY Zenon DEF OnePending
<1>2. ASSUME NEW d \in Device, NEW i \in DOMAIN pushed[d], <<c, d>> \notin left', LastTold(d, c, u, i)'
      PROVE  \/ op'[pushed[d][i]] = "add" <=> IsMember(c, u)'
             \/ \E p \in Req : Pending(p, c, u)' /\ (pc'[p] = "list" \/ d \in Devs(todo[p])')
  <2>1. pushed[d] \in Seq(Req)
    BY Zenon DEF BaseInv, GroupsType
  <2>2. \A j \in DOMAIN pushed[d] : pushed[d][j] \in Req /\ d \in Heard(pushed[d][j])
    BY <2>1 DEF Heard, Range
  <2>3. \A j \in DOMAIN pushed[d] :
            /\ op'[pushed[d][j]] = op[pushed[d][j]]
            /\ Changes(pushed[d][j], c, u)' <=> Changes(pushed[d][j], c, u)
    <3>1. \A q \in Req : Changes(q, c, u)' <=> (op'[q] \in {"add", "remove"} /\ conv'[q] = c /\ target'[q][1] = u)
      BY Zenon DEF Changes
    <3>2. ASSUME NEW j \in DOMAIN pushed[d]
          PROVE  Changes(pushed[d][j], c, u)' <=>
                 (op'[pushed[d][j]] \in {"add", "remove"} /\ conv'[pushed[d][j]] = c /\ target'[pushed[d][j]][1] = u)
      BY Zenon DEF Changes
    <3>3. QED
      BY <2>2, <3>1, <3>2, Zenon
  <2>4. DOMAIN pushed[d] = 1 .. Len(pushed[d]) /\ Len(pushed[d]) \in Nat
    BY <2>1
  <2>5. \A j \in i + 1 .. Len(pushed[d]) : j \in DOMAIN pushed[d]
    BY <2>4
  <2>6. LastTold(d, c, u, i)
    BY <1>2, <2>3, <2>5, Zenon DEF LastTold
  <2>7. \/ op[pushed[d][i]] = "add" <=> IsMember(c, u)
        \/ \E p \in Req : Pending(p, c, u) /\ (pc[p] = "list" \/ d \in Devs(todo[p]))
    BY <1>2, <2>6, Zenon DEF ToldOrPending
  <2>8. ASSUME NEW p \in Req, Pending(p, c, u) PROVE Devs(todo[p])' = Devs(todo[p])
    BY <2>8, Zenon DEF Devs
  <2>9. QED
    BY <2>3, <2>7, <2>8, Zenon
<1>3. ToldOrPending(c, u)'
  BY <1>2, Zenon DEF ToldOrPending
<1>4. QED
  BY <1>1, <1>3, Zenon

\* A change that commits while no other change of u is being announced.
LEMMA ChangeStep ==
    ASSUME BaseInv, NEW r \in Req, NEW c \in Conv, NEW u \in User,
           ~Overlaps(r, c, u), \A q \in Req \ {r} : Same(q),
           Pending(r, c, u)', pc'[r] = "list", op'[r] = "add" <=> IsMember(c, u)'
    PROVE  OnePending(c, u)' /\ ToldOrPending(c, u)'
<1>1. ASSUME NEW q \in Req, q # r PROVE ~Pending(q, c, u)'
  <2>1. Same(q) /\ ~(pc[q] \in {"list", "fan"} /\ op[q] \in {"add", "remove"} /\ conv[q] = c /\ target[q][1] = u)
    BY <1>1, Zenon DEF Overlaps
  <2>2. QED
    BY <2>1, Zenon DEF Same, Pending, Changes
<1>2. OnePending(c, u)'
  BY <1>1, Zenon DEF OnePending
<1>3. ToldOrPending(c, u)'
  BY Zenon DEF ToldOrPending
<1>4. QED
  BY <1>2, <1>3, Zenon

\* The last change a device is told of, after one more event.
LEMMA LastToldAfter ==
    ASSUME BaseInv, NEW r \in Req, NEW row \in todo[r], Deliver(r, row), NEW c \in Conv, NEW u \in User,
           NEW d \in Device, NEW i \in DOMAIN pushed'[d], LastTold(d, c, u, i)'
    PROVE  \/ d = row[2] /\ pushed'[d][i] = r /\ Changes(r, c, u)
           \/ /\ i \in DOMAIN pushed[d] /\ pushed'[d][i] = pushed[d][i] /\ LastTold(d, c, u, i)
              /\ d = row[2] => ~Changes(r, c, u)
<1> DEFINE s == pushed[d]
           t == pushed'[d]
<1>0. UNCHANGED <<op, conv, target>>
  BY Zenon DEF Deliver, locals
<1>1. s \in Seq(Req) /\ Len(s) \in Nat /\ DOMAIN s = 1 .. Len(s)
  BY DEF BaseInv, GroupsType
<1>2. Changes(t[i], c, u) /\ \A j \in i + 1 .. Len(t) : ~Changes(t[j], c, u)
  BY <1>0, Zenon DEF LastTold, Changes
<1>3. CASE d # row[2]
  <2>1. t = s
    BY <1>3, Zenon DEF Deliver, BaseInv, GroupsType
  <2>2. QED
    BY <1>2, <1>3, <2>1, Zenon DEF LastTold
<1>4. CASE d = row[2]
  <2>1. t = Append(s, r)
    BY <1>4, Zenon DEF Deliver, BaseInv, GroupsType
  <2>2. /\ Len(t) = Len(s) + 1 /\ DOMAIN t = 1 .. Len(s) + 1
        /\ \A j \in 1 .. Len(s) : t[j] = s[j]
        /\ t[Len(s) + 1] = r
    BY <1>1, <2>1, Appended
  <2> HIDE DEF s, t
  <2>3. CASE i = Len(s) + 1
    BY <1>2, <1>4, <2>2, <2>3, Zenon DEF t
  <2>4. CASE i \in 1 .. Len(s)
    <3>1. Len(s) + 1 \in i + 1 .. Len(t)
      BY <1>1, <2>2, <2>4
    <3>2. ~Changes(r, c, u)
      BY <1>2, <2>2, <3>1, Zenon
    <3>3. Changes(s[i], c, u) /\ \A j \in i + 1 .. Len(s) : ~Changes(s[j], c, u)
      BY <1>1, <1>2, <2>2, <2>4
    <3>4. QED
      BY <1>1, <2>2, <2>4, <3>2, <3>3, Zenon DEF LastTold, s, t
  <2>5. i \in 1 .. Len(s) + 1
    BY <2>2, Zenon DEF t
  <2>6. QED
    BY <1>1, <2>3, <2>4, <2>5
<1>5. QED
  BY <1>3, <1>4, Zenon

LEMMA DeliverTold ==
    ASSUME BaseInv, BaseInv', NEW r \in Req, NEW row \in todo[r], Deliver(r, row),
           NEW c \in Conv, NEW u \in User, OnePending(c, u), ToldOrPending(c, u)
    PROVE  OnePending(c, u)' /\ ToldOrPending(c, u)'
<1>0. /\ UNCHANGED <<op, conv, target, members, left>> /\ pc[r] = "fan"
      /\ todo'[r] = todo[r] \ {row}
      /\ pc'[r] = IF todo[r] = {row} THEN "done" ELSE "fan"
      /\ \A q \in Req \ {r} : pc'[q] = pc[q] /\ todo'[q] = todo[q]
  BY DEF Deliver, Goto, Answer, tables, locals, history, BaseInv, GroupsType
<1>1. /\ (IsMember(c, u)' <=> IsMember(c, u))
      /\ \A q \in Req : Changes(q, c, u)' <=> Changes(q, c, u)
  BY <1>0, Zenon DEF IsMember, Changes
<1>2. \A q \in Req : Pending(q, c, u)' => Pending(q, c, u)
  BY <1>0, <1>1, Zenon DEF Pending
<1>3. \A q \in Req \ {r} : Pending(q, c, u)' <=> Pending(q, c, u)
  BY <1>0, <1>1, Zenon DEF Pending
<1>4. OnePending(c, u)'
  BY <1>0, <1>1, <1>2, Zenon DEF OnePending
<1>5. ASSUME NEW d \in Device, NEW i \in DOMAIN pushed'[d], <<c, d>> \notin left', LastTold(d, c, u, i)'
      PROVE  \/ op'[pushed'[d][i]] = "add" <=> IsMember(c, u)'
             \/ \E p \in Req : Pending(p, c, u)' /\ (pc'[p] = "list" \/ d \in Devs(todo[p])')
  <2>1. CASE d = row[2] /\ pushed'[d][i] = r /\ Changes(r, c, u)
    <3>1. Pending(r, c, u)
      BY <1>0, <2>1, Zenon DEF Pending
    <3>2. op[r] = "add" <=> IsMember(c, u)
      BY <3>1, Zenon DEF OnePending
    <3>3. QED
      BY <1>0, <1>1, <2>1, <3>2, Zenon
  <2>2. CASE /\ i \in DOMAIN pushed[d] /\ pushed'[d][i] = pushed[d][i] /\ LastTold(d, c, u, i)
             /\ d = row[2] => ~Changes(r, c, u)
    <3>1. \/ op[pushed[d][i]] = "add" <=> IsMember(c, u)
          \/ \E p \in Req : Pending(p, c, u) /\ (pc[p] = "list" \/ d \in Devs(todo[p]))
      BY <1>0, <1>5, <2>2, Zenon DEF ToldOrPending
    <3>2. CASE op[pushed[d][i]] = "add" <=> IsMember(c, u)
      BY <1>0, <1>1, <2>2, <3>2, Zenon
    <3>3. ASSUME NEW p \in Req, Pending(p, c, u), pc[p] = "list" \/ d \in Devs(todo[p])
          PROVE  Pending(p, c, u)' /\ (pc'[p] = "list" \/ d \in Devs(todo[p])')
      <4>1. CASE p # r
        <5>1. pc'[p] = pc[p] /\ todo'[p] = todo[p] /\ Pending(p, c, u)'
          BY <1>0, <1>3, <3>3, <4>1, Zenon
        <5>2. QED
          BY <3>3, <5>1, Zenon DEF Devs
      <4>2. CASE p = r
        <5>1. d # row[2] /\ d \in Devs(todo[r])
          BY <1>0, <2>2, <3>3, <4>2, Zenon DEF Pending
        <5>2. d \in Devs(todo[r])' /\ todo[r] # {row}
          BY <1>0, <5>1, Zenon DEF Devs
        <5>3. Pending(r, c, u)'
          BY <1>0, <1>1, <3>3, <4>2, <5>2, Zenon DEF Pending
        <5>4. QED
          BY <4>2, <5>2, <5>3, Zenon
      <4>3. QED
        BY <4>1, <4>2, Zenon
    <3>4. QED
      BY <3>1, <3>2, <3>3, Zenon
  <2>3. QED
    BY <1>5, <2>1, <2>2, LastToldAfter
<1>6. ToldOrPending(c, u)'
  BY <1>5, Zenon DEF ToldOrPending
<1>7. QED
  BY <1>4, <1>6, Zenon

LEMMA ListTold ==
    ASSUME BaseInv, BaseInv', NEW r \in Req, GetMembers(r), \A q \in Req : Announced(q),
           NEW c \in Conv, NEW u \in User, Changes(r, c, u), OnePending(c, u), ToldOrPending(c, u)
    PROVE  OnePending(c, u)' /\ ToldOrPending(c, u)'
<1>0. /\ UNCHANGED <<op, conv, target, members, left, pushed>> /\ pc[r] = "list"
      /\ todo'[r] = members[c] /\ conv[r] = c
      /\ pc'[r] = IF members[c] = {} THEN "done" ELSE "fan"
      /\ \A q \in Req \ {r} : pc'[q] = pc[q] /\ todo'[q] = todo[q]
  BY DEF GetMembers, RowsToTell, Goto, Answer, tables, locals, history, BaseInv, GroupsType, Changes
<1>1. /\ (IsMember(c, u)' <=> IsMember(c, u))
      /\ \A q \in Req : Changes(q, c, u)' <=> Changes(q, c, u)
  BY <1>0, Zenon DEF IsMember, Changes
<1>2. \A q \in Req : Pending(q, c, u)' => Pending(q, c, u)
  BY <1>0, <1>1, Zenon DEF Pending
<1>3. OnePending(c, u)'
  BY <1>0, <1>1, <1>2, Zenon DEF OnePending
<1>4. ASSUME NEW d \in Device, NEW i \in DOMAIN pushed'[d], <<c, d>> \notin left', LastTold(d, c, u, i)'
      PROVE  Pending(r, c, u)' /\ d \in Devs(todo[r])'
  <2>1. pushed[d] \in Seq(Req) /\ i \in DOMAIN pushed[d]
    BY <1>0, Zenon DEF BaseInv, GroupsType
  <2>2. pushed[d][i] \in Req /\ d \in Heard(pushed[d][i])
    BY <2>1 DEF Heard, Range
  <2>3. op[pushed[d][i]] \in {"add", "remove"} /\ conv[pushed[d][i]] = c
    BY <1>0, <1>4, Zenon DEF LastTold, Changes
  <2>4. InOrLeft(c, d)
    BY <2>2, <2>3, Zenon DEF Announced
  <2>5. d \in DevicesOf(c)
    BY <1>0, <1>4, <2>4, Zenon DEF InOrLeft
  <2>6. members[c] # {} /\ d \in Devs(todo[r])'
    BY <1>0, <2>5, Zenon DEF DevicesOf, Devs
  <2>7. QED
    BY <1>0, <1>1, <2>6, Zenon DEF Pending
<1>5. ToldOrPending(c, u)'
  BY <1>4, Zenon DEF ToldOrPending
<1>6. QED
  BY <1>3, <1>5, Zenon

LEMMA QuietBy ==
    ASSUME BaseInv, NEW r \in Req, \A q \in Req \ {r} : Same(q), NEW c \in Conv, NEW u \in User,
           OnePending(c, u), ToldOrPending(c, u), pushed' = pushed, left \subseteq left',
           (IsMember(c, u)' <=> IsMember(c, u)), ~Pending(r, c, u), ~Pending(r, c, u)',
           Heard(r) = {} \/ UNCHANGED <<op, conv, target>>
    PROVE  OnePending(c, u)' /\ ToldOrPending(c, u)'
<1>1. ASSUME NEW q \in Req, q # r
      PROVE  /\ Pending(q, c, u)' <=> Pending(q, c, u)
             /\ Changes(q, c, u)' <=> Changes(q, c, u)
             /\ op'[q] = op[q] /\ pc'[q] = pc[q] /\ todo'[q] = todo[q]
  BY <1>1, Zenon DEF Same, Pending, Changes
<1>2. Heard(r) # {} => op'[r] = op[r] /\ (Changes(r, c, u)' <=> Changes(r, c, u))
  BY Zenon DEF Changes
<1>3. \A q \in Req : Pending(q, c, u)' <=> Pending(q, c, u)
  BY <1>1, Zenon
<1>4. \A q \in Req : Pending(q, c, u) => op'[q] = op[q] /\ pc'[q] = pc[q] /\ todo'[q] = todo[q]
  BY <1>1, Zenon
<1>5. \A q \in Req : Heard(q) # {} => op'[q] = op[q] /\ (Changes(q, c, u)' <=> Changes(q, c, u))
  BY <1>1, <1>2, Zenon
<1>6. QED
  BY <1>3, <1>4, <1>5, QuietStep, Zenon

LEMMA ToldStep ==
    ASSUME BaseInv, BaseInv', ToldInv, NEW r \in Req, Step(r)
    PROVE  ToldInv'
<1>0. GroupsType /\ AtLabel(r) /\ Unheard(r) /\ \A q \in Req \ {r} : Same(q)
  BY OthersSame, Zenon DEF BaseInv
<1>1. \A q \in Req : Announced(q)'
  BY AnnouncedStep, Zenon DEF ToldInv
<1>2. ASSUME NEW c \in Conv, NEW u \in User, <<c, u>> \notin unclean'
      PROVE  OnePending(c, u)' /\ ToldOrPending(c, u)'
  <2> DEFINE Goal == OnePending(c, u)' /\ ToldOrPending(c, u)'
  <2>0. OnePending(c, u) /\ ToldOrPending(c, u)
    <3>1. unclean \subseteq unclean'
      BY CreateEffect, Zenon DEF Step, SendRequest, AddMember, RemoveMember, SkdmRequest,
         StoreEnvelope, InsertSkdm, CommitSkdm, GetMembers, Deliver, Abort, history
    <3>2. QED
      BY <1>2, <3>1, Zenon DEF ToldInv
  <2>1. ASSUME NEW row \in todo[r], Deliver(r, row) PROVE Goal
    BY <2>0, <2>1, DeliverTold, Zenon
  <2>2. ASSUME GetMembers(r), Changes(r, c, u) PROVE Goal
    BY <2>0, <2>2, ListTold, Zenon DEF ToldInv
  <2>3. ASSUME UNCHANGED <<op, conv, target, members, left, pushed>>,
               ~Pending(r, c, u), ~Pending(r, c, u)'
        PROVE  Goal
    <3>1. (IsMember(c, u)' <=> IsMember(c, u))
      BY <2>3, Zenon DEF IsMember
    <3>2. QED
      BY <1>0, <2>0, <2>3, <3>1, QuietBy, Zenon
  <2>4. ASSUME GetMembers(r), ~Changes(r, c, u) PROVE Goal
    <3>1. UNCHANGED <<op, conv, target, members, left, pushed>>
      BY <2>4, Zenon DEF GetMembers, tables, locals, history
    <3>2. ~Pending(r, c, u) /\ ~Pending(r, c, u)'
      BY <2>4, <3>1, Zenon DEF Pending, Changes
    <3>3. QED
      BY <2>3, <3>1, <3>2, Zenon
  <2>5. ASSUME StoreEnvelope(r) \/ CommitSkdm(r) \/ \E row \in todo[r] : InsertSkdm(r, row)
        PROVE  Goal
    <3>1. UNCHANGED <<op, conv, target, members, left, pushed>> /\ pc[r] \in {"store", "skdm"}
      BY <2>5, Zenon DEF StoreEnvelope, InsertSkdm, CommitSkdm, tables, locals, history
    <3>2. op'[r] \notin {"add", "remove"} /\ op[r] \notin {"add", "remove"}
      BY <1>0, <3>1, Zenon DEF AtLabel
    <3>3. ~Pending(r, c, u) /\ ~Pending(r, c, u)'
      BY <3>2, Zenon DEF Pending, Changes
    <3>4. QED
      BY <2>3, <3>1, <3>3, Zenon
  <2>6. ASSUME Abort(r) PROVE Goal
    <3>1. UNCHANGED <<op, conv, target, members, left, pushed>> /\ pc'[r] = "done"
      BY <1>0, <2>6, Zenon DEF Abort, Answer, GroupsType, tables, locals
    <3>2. ~Pending(r, c, u)
      BY <1>0, <1>2, <2>6, Zenon DEF Abort, AtLabel, Pending, Changes
    <3>3. ~Pending(r, c, u)'
      BY <3>1, Zenon DEF Pending
    <3>4. QED
      BY <2>3, <3>1, <3>2, <3>3, Zenon
  \* The requests that arrive: nobody has heard of them.
  <2>7. ASSUME pc[r] = "idle", pushed' = pushed, left \subseteq left', (IsMember(c, u)' <=> IsMember(c, u)),
               ~Pending(r, c, u)'
        PROVE  Goal
    <3>1. Heard(r) = {} /\ ~Pending(r, c, u)
      BY <1>0, <2>7, Zenon DEF Unheard, Pending
    <3>2. QED
      BY <1>0, <2>0, <2>7, <3>1, QuietBy, Zenon
  <2>8. ASSUME \/ \E v \in User, b \in Bodies : CreateGroup(r, v, b)
               \/ \E v \in User, k \in convs : SendRequest(r, v, k)
               \/ \E v \in User, k \in convs, b \in Bodies : SkdmRequest(r, v, k, b)
        PROVE  Goal
    <3>1. pc[r] = "idle" /\ UNCHANGED <<pushed, left, members>>
      BY <2>8, CreateEffect, Zenon DEF SendRequest, SkdmRequest, tables, history
    <3>2. op'[r] \notin {"add", "remove"}
      BY <1>0, <2>8, Zenon DEF CreateGroup, SendRequest, SkdmRequest, GroupsType
    <3>3. ~Pending(r, c, u)' /\ (IsMember(c, u)' <=> IsMember(c, u))
      BY <3>1, <3>2, Zenon DEF Pending, Changes, IsMember
    <3>4. QED
      BY <2>7, <3>1, <3>3, Zenon
  <2>9. ASSUME NEW k \in convs, NEW row \in Named, AddMember(r, k, row) PROVE Goal
    <3>0. /\ pc[r] = "idle" /\ UNCHANGED <<pushed, left>> /\ k \in Conv /\ row \in Row
          /\ op'[r] = "add" /\ conv'[r] = k /\ target'[r] = row
      BY <1>0, <2>9, GroupsAssumption, Zenon DEF AddMember, GroupsType
    <3>1. CASE row \in members[k]
      <4>1. members' = members /\ pc'[r] = "done"
        BY <1>0, <2>9, <3>1, Zenon DEF AddMember, Answer, GroupsType
      <4>2. ~Pending(r, c, u)' /\ (IsMember(c, u)' <=> IsMember(c, u))
        BY <4>1, Zenon DEF Pending, IsMember
      <4>3. QED
        BY <2>7, <3>0, <4>2, Zenon
    <3>2. CASE row \notin members[k] /\ (k # c \/ row[1] # u)
      <4>1. members' = [members EXCEPT ![k] = @ \cup {row}]
        BY <2>9, <3>2, Zenon DEF AddMember
      <4>2. \A d \in Device : <<u, d>> \in members'[c] <=> <<u, d>> \in members[c]
        BY <1>0, <3>0, <3>2, <4>1 DEF GroupsType, Row
      <4>3. ~Pending(r, c, u)' /\ (IsMember(c, u)' <=> IsMember(c, u))
        BY <3>0, <3>2, <4>2, Zenon DEF Pending, Changes, IsMember
      <4>4. QED
        BY <2>7, <3>0, <4>3
    <3>3. CASE row \notin members[k] /\ k = c /\ row[1] = u
      <4>1. /\ members' = [members EXCEPT ![c] = @ \cup {row}]
            /\ unclean' = IF Overlaps(r, c, u) THEN unclean \cup {<<c, u>>} ELSE unclean
            /\ pc'[r] = "list"
        BY <1>0, <2>9, <3>3, Zenon DEF AddMember, Goto, GroupsType
      <4>2. ~Overlaps(r, c, u)
        BY <1>2, <4>1, Zenon
      <4>3. row[2] \in Device /\ row = <<u, row[2]>>
        BY <3>0, <3>3 DEF Row
      <4>4. <<u, row[2]>> \in members'[c]
        BY <1>0, <4>1, <4>3, Zenon DEF GroupsType
      <4>5. IsMember(c, u)'
        BY <4>3, <4>4, Zenon DEF IsMember
      <4>6. Pending(r, c, u)'
        BY <3>0, <3>3, <4>1, Zenon DEF Pending, Changes
      <4>7. QED
        BY <1>0, <3>0, <4>1, <4>2, <4>5, <4>6, ChangeStep, Zenon
    <3>4. QED
      BY <3>1, <3>2, <3>3, Zenon
  <2>10. ASSUME NEW k \in convs, NEW v \in User, RemoveMember(r, k, v) PROVE Goal
    <3>0. /\ pc[r] = "idle" /\ pushed' = pushed /\ left \subseteq left' /\ k \in Conv
          /\ op'[r] = "remove" /\ conv'[r] = k /\ target'[r][1] = v /\ pc'[r] = "list"
          /\ members' = [members EXCEPT ![k] = members[k] \ RowsOf(k, v)]
          /\ unclean' = IF Overlaps(r, k, v) THEN unclean \cup {<<k, v>>} ELSE unclean
      BY <1>0, <2>10, Zenon DEF RemoveMember, Goto, GroupsType
    <3>1. CASE k # c \/ v # u
      <4>1. \A d \in Device : <<u, d>> \in members'[c] <=> <<u, d>> \in members[c]
        BY <1>0, <3>0, <3>1, Zenon DEF GroupsType, RowsOf
      <4>2. ~Pending(r, c, u)' /\ (IsMember(c, u)' <=> IsMember(c, u))
        BY <3>0, <3>1, <4>1, Zenon DEF Pending, Changes, IsMember
      <4>3. QED
        BY <2>7, <3>0, <4>2, Zenon
    <3>2. CASE k = c /\ v = u
      <4>1. ~Overlaps(r, c, u)
        BY <1>2, <3>0, <3>2, Zenon
      <4>2. \A d \in Device : <<u, d>> \notin members'[c]
        BY <1>0, <3>0, <3>2, Zenon DEF GroupsType, RowsOf
      <4>3. ~IsMember(c, u)'
        BY <4>2, Zenon DEF IsMember
      <4>4. Pending(r, c, u)'
        BY <3>0, <3>2, Zenon DEF Pending, Changes
      <4>5. QED
        BY <1>0, <3>0, <4>1, <4>3, <4>4, ChangeStep, Zenon
    <3>3. QED
      BY <3>1, <3>2, Zenon
  <2>11. QED
    BY <2>1, <2>2, <2>4, <2>5, <2>6, <2>8, <2>9, <2>10, Zenon DEF Step
<1>3. QED
  BY <1>1, <1>2, Zenon DEF ToldInv

-----------------------------------------------------------------------------
LEMMA GroupsStep ==
    GroupsInv /\ [Next]_vars => GroupsInv'
<1>1. ASSUME GroupsInv, NEW r \in Req, Step(r) PROVE GroupsInv'
  <2>1. BaseInv /\ ToldInv /\ \A q \in Req : SendInv(q) /\ SkdmInv(q)
    BY <1>1, Zenon DEF GroupsInv
  <2>2. BaseInv'
    BY <1>1, <2>1, BaseStep, Zenon
  <2>3. \A q \in Req : SendInv(q)' /\ SkdmInv(q)'
    BY <1>1, <2>1, <2>2, SendStep, SkdmStep, Zenon
  <2>4. ToldInv'
    BY <1>1, <2>1, <2>2, ToldStep, Zenon
  <2>5. QED
    BY <2>2, <2>3, <2>4, Zenon DEF GroupsInv
<1>2. ASSUME GroupsInv, UNCHANGED vars PROVE GroupsInv'
  <2>1. /\ UNCHANGED <<convs, members, skdm, pc, op, conv, target, body, todo, resp>>
        /\ UNCHANGED <<pushed, stayed, seen, left, unclean>>
    BY <1>2, Zenon DEF vars, tables, locals, history
  <2>2. BaseInv'
    BY <1>2, <2>1, Zenon DEF GroupsInv, BaseInv, GroupsType, AtLabel, Unheard, Heard
  <2>3. \A q \in Req : SendInv(q)' /\ SkdmInv(q)'
    BY <1>2, <2>1, Zenon DEF GroupsInv, SendInv, SkdmInv, RowsStored, DevicesOf, Devs, Heard
  <2>4. \A q \in Req : Announced(q)'
    BY <1>2, <2>1, Zenon DEF GroupsInv, ToldInv, Announced, InOrLeft, DevicesOf, Heard
  <2>5. \A c \in Conv, u \in User : OnePending(c, u)' <=> OnePending(c, u)
    BY <2>1 DEF OnePending, Pending, Changes, IsMember
  <2>6. \A c \in Conv, u \in User : ToldOrPending(c, u)' <=> ToldOrPending(c, u)
    BY <2>1 DEF ToldOrPending, LastTold, Pending, Changes, IsMember, Devs
  <2>7. QED
    BY <1>2, <2>1, <2>2, <2>3, <2>4, <2>5, <2>6, Zenon DEF GroupsInv, ToldInv
<1>3. ASSUME Next PROVE \E r \in Req : Step(r)
  BY <1>3, Zenon DEF Next, Step
<1>4. QED
  BY <1>1, <1>2, <1>3, Zenon

LEMMA GroupsInvariant ==
    Spec => []GroupsInv
  BY GroupsInit, GroupsStep, PTL DEF Spec

\* POST /groups/{id}/messages, whatever joins, leaves and other sends run beside it:
\* each device that stays a member from the store to the answer is handed the
\* message, and no device is that was not a member after the store.
THEOREM FanOutCorrect ==
    Spec => []FanOutIsMembership
<1>1. GroupsInv => FanOutIsMembership
  BY Zenon DEF GroupsInv, SendInv, FanOutIsMembership
<1>2. QED
  BY <1>1, GroupsInvariant, PTL

\* POST /groups/{id}/sender-key-distribution: wherever the loop of store_skdm fails,
\* the rows of a distribution are all stored or none is, and no device hears of it
\* before its row is stored.
THEOREM SkdmCorrect ==
    Spec => []SkdmAllOrNothing
<1>1. GroupsInv => SkdmAllOrNothing
  BY Zenon DEF GroupsInv, SkdmInv, SkdmAllOrNothing, RowsStored, Devs
<1>2. QED
  BY <1>1, GroupsInvariant, PTL

\* MemberAdded and MemberRemoved: when the server is quiet, a device that is not
\* removed was told last what the table says, for each user whose changes did not
\* overlap and were all announced.
THEOREM ToldCorrect ==
    Spec => []ToldIsTable
<1>1. ASSUME GroupsInv, \A r \in Req : pc[r] \in {"idle", "done"},
             NEW c \in convs, NEW u \in User, NEW d \in Device, NEW i \in DOMAIN pushed[d],
             <<c, u>> \notin unclean, <<c, d>> \notin left, LastTold(d, c, u, i)
      PROVE  op[pushed[d][i]] = "add" <=> IsMember(c, u)
  <2>1. c \in Conv /\ ToldOrPending(c, u)
    BY <1>1, Zenon DEF GroupsInv, BaseInv, GroupsType, ToldInv
  <2>2. \A p \in Req : ~Pending(p, c, u)
    BY <1>1, Zenon DEF Pending
  <2>3. QED
    BY <1>1, <2>1, <2>2, Zenon DEF ToldOrPending
<1>2. GroupsInv => ToldIsTable
  BY <1>1 DEF ToldIsTable
<1>3. QED
  BY <1>2, GroupsInvariant, PTL
=============================================================================

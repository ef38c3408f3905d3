--------------------------- MODULE MailboxProofs ----------------------------
(***************************************************************************)
(* Attachments and the offline queue, for any number of requests, tenants  *)
(* and envelopes.                                                          *)
(***************************************************************************)
EXTENDS OfflineQueue, FiniteSetTheorems, TLAPS

UploadLabels == {"create", "write", "insert"}
QueueLabels  == {"deliver", "depth", "enqueue", "drain"}
Labels == UploadLabels \cup QueueLabels \cup {"idle", "read", "done"}

AttachmentAnswers == {"none", "bad_request", "too_large", "created", "not_found",
                      "internal", "ok"}
QueueAnswers == {"stored", "marked", "dropped", "queued", "drained", "unavailable"}

CommonType ==
    /\ pc \in [Req -> Labels]
    /\ resp \in [Req -> AttachmentAnswers \cup QueueAnswers]

(***************************************************************************)
(* Files and rows.                                                         *)
(***************************************************************************)
AttachmentType ==
    /\ file \in [Req -> {"absent", "partial", "whole"}]
    /\ writing \subseteq Req /\ early \subseteq Req /\ torn \subseteq Req
    /\ row \in [Req -> Tenant \cup {None}]
    /\ tenant \in [Req -> Tenant \cup {None}]
    /\ wanted \in [Req -> Req \cup {None}]
    /\ got \in [Req -> {"none", "partial", "whole"}]

\* A row is preceded by its file, and a file that has a row lacks bytes only while
\* the last buffer is being written, or for good if that fails.
AttachmentAt(a) ==
    /\ pc[a] \in UploadLabels => tenant[a] \in Tenant
    /\ pc[a] \in {"idle", "create", "write"} => row[a] = None
    /\ pc[a] \in {"write", "insert"} \/ row[a] # None => file[a] # "absent"
    /\ (pc[a] = "insert" \/ row[a] # None) /\ file[a] = "partial" => a \in writing \cup torn
    /\ pc[a] = "read" => wanted[a] \in Req /\ row[wanted[a]] # None
    /\ got[a] = "partial" => pc[a] = "done" /\ (a \in early \/ wanted[a] \in torn)

\* An envelope names nothing, or a row.
LogRefers ==
    /\ log \in Seq(Req \cup {None})
    /\ \A s \in DOMAIN log : log[s] # None => row[log[s]] # None

FileInv == CommonType /\ AttachmentType /\ LogRefers /\ \A a \in Req : AttachmentAt(a)

LEMMA FileInit == OfflineQueueInit => FileInv
<1> SUFFICES ASSUME OfflineQueueInit PROVE FileInv
  BY Zenon
<1>1. CommonType /\ AttachmentType
  BY Zenon DEF OfflineQueueInit, AttachmentsInit, CommonType, AttachmentType, Labels,
     AttachmentAnswers
<1>2. LogRefers
  BY DEF OfflineQueueInit, LogRefers
<1>3. \A a \in Req : AttachmentAt(a)
  BY Zenon DEF OfflineQueueInit, AttachmentsInit, AttachmentAt, UploadLabels
<1>4. QED
  BY <1>1, <1>2, <1>3, Zenon DEF FileInv

LEMMA CommonGoto ==
    ASSUME CommonType, NEW r \in Req, NEW l \in Labels, Goto(r, l)
    PROVE  /\ CommonType' /\ resp' = resp
           /\ pc' = [pc EXCEPT ![r] = l] /\ pc'[r] = l /\ \A q \in Req \ {r} : pc'[q] = pc[q]
  BY Zenon DEF CommonType, Goto

LEMMA CommonAnswer ==
    ASSUME CommonType, NEW r \in Req, NEW a \in AttachmentAnswers \cup QueueAnswers, Answer(r, a)
    PROVE  /\ CommonType' /\ resp'[r] = a /\ \A q \in Req \ {r} : resp'[q] = resp[q]
           /\ pc'[r] = "done" /\ \A q \in Req \ {r} : pc'[q] = pc[q]
  BY Zenon DEF CommonType, Answer, Labels

\* The envelopes refer to rows as long as no row goes.
LEMMA RefersStays ==
    ASSUME LogRefers, log' = log, \A a \in Req : row[a] # None => row'[a] # None
    PROVE  LogRefers'
<1>1. \A s \in DOMAIN log : log[s] \in Req \cup {None}
  BY DEF LogRefers
<1>2. QED
  BY <1>1, Zenon DEF LogRefers

LEMMA FileUpload ==
    ASSUME FileInv, NEW r \in Req, UNCHANGED queueVars,
           \/ \E t \in Tenant : UploadRequest(r, t)
           \/ CreateFile(r) \/ WriteAll(r) \/ InsertRow(r) \/ FinishWrite(r)
    PROVE  FileInv'
<1> USE OfflineQueueAssumption DEF FileInv
<1>1. ASSUME NEW t \in Tenant, UploadRequest(r, t) PROVE FileInv'
  <2>1. /\ CommonType' /\ pc[r] = "idle" /\ pc'[r] \in {"done", "create"}
        /\ \A q \in Req \ {r} : pc'[q] = pc[q]
    BY <1>1, CommonGoto, CommonAnswer, Zenon DEF UploadRequest, Labels, UploadLabels, AttachmentAnswers
  <2>2. /\ tenant' = [tenant EXCEPT ![r] = t]
        /\ UNCHANGED <<file, writing, row, wanted, got, early, torn, log>>
    BY <1>1, Zenon DEF UploadRequest, stores, history, queueVars
  <2>3. AttachmentType' /\ LogRefers'
    BY <2>2, RefersStays, Zenon DEF AttachmentType
  <2>4. \A a \in Req : AttachmentAt(a)'
    BY <2>1, <2>2 DEF AttachmentAt, AttachmentType, UploadLabels
  <2>5. QED
    BY <2>1, <2>3, <2>4, Zenon
<1>2. CASE CreateFile(r)
  <2>1. /\ CommonType' /\ pc[r] = "create" /\ pc'[r] = "write"
        /\ \A q \in Req \ {r} : pc'[q] = pc[q]
    BY <1>2, CommonGoto, Zenon DEF CreateFile, Labels, UploadLabels
  <2>2. /\ file' = [file EXCEPT ![r] = "partial"]
        /\ UNCHANGED <<writing, row, tenant, wanted, got, early, torn, log>>
    BY <1>2, Zenon DEF CreateFile, locals, history, queueVars
  <2>3. AttachmentType' /\ LogRefers'
    BY <2>2, RefersStays, Zenon DEF AttachmentType
  <2>4. \A a \in Req : AttachmentAt(a)'
    BY <2>1, <2>2 DEF AttachmentAt, AttachmentType, UploadLabels
  <2>5. QED
    BY <2>1, <2>3, <2>4, Zenon
<1>3. CASE WriteAll(r)
  <2>1. /\ CommonType' /\ pc[r] = "write" /\ pc'[r] = "insert"
        /\ \A q \in Req \ {r} : pc'[q] = pc[q]
    BY <1>3, CommonGoto, Zenon DEF WriteAll, Labels, UploadLabels
  <2>2. /\ writing' = writing \cup {r}
        /\ UNCHANGED <<file, row, tenant, wanted, got, early, torn, log>>
    BY <1>3, Zenon DEF WriteAll, locals, history, queueVars
  <2>3. AttachmentType' /\ LogRefers'
    BY <2>2, RefersStays, Zenon DEF AttachmentType
  <2>4. \A a \in Req : AttachmentAt(a)'
    BY <2>1, <2>2 DEF AttachmentAt, AttachmentType, UploadLabels
  <2>5. QED
    BY <2>1, <2>3, <2>4, Zenon
<1>4. CASE InsertRow(r)
  <2>1. /\ CommonType' /\ pc[r] = "insert" /\ pc'[r] = "done"
        /\ \A q \in Req \ {r} : pc'[q] = pc[q]
    BY <1>4, CommonAnswer, Zenon DEF InsertRow, AttachmentAnswers
  <2>2. /\ row' = [row EXCEPT ![r] = tenant[r]] /\ tenant[r] \in Tenant
        /\ UNCHANGED <<file, writing, tenant, wanted, got, early, torn, log>>
    BY <1>4, Zenon DEF InsertRow, locals, history, queueVars, AttachmentAt, UploadLabels
  <2>3. AttachmentType' /\ \A a \in Req : row[a] # None => row'[a] # None
    BY <2>2, Zenon DEF AttachmentType
  <2>4. \A a \in Req : AttachmentAt(a)'
    BY <2>1, <2>2, <2>3 DEF AttachmentAt, AttachmentType, UploadLabels
  <2>5. QED
    BY <2>1, <2>2, <2>3, <2>4, RefersStays, Zenon
<1>5. CASE FinishWrite(r)
  <2>1. /\ writing' = writing \ {r}
        /\ \/ file' = [file EXCEPT ![r] = "whole"] /\ torn' = torn
           \/ torn' = torn \cup {r} /\ file' = file
        /\ UNCHANGED <<row, pc, resp, tenant, wanted, got, early, log>>
    BY <1>5, Zenon DEF FinishWrite, locals, queueVars
  <2>2. CommonType' /\ AttachmentType' /\ LogRefers'
    BY <2>1, RefersStays, Zenon DEF CommonType, AttachmentType
  <2>3. \A a \in Req : AttachmentAt(a)'
    BY <2>1 DEF AttachmentAt, AttachmentType, UploadLabels
  <2>4. QED
    BY <2>2, <2>3, Zenon
<1>6. QED
  BY <1>1, <1>2, <1>3, <1>4, <1>5, Zenon
LEMMA FileDownload ==
    ASSUME FileInv, NEW r \in Req, UNCHANGED queueVars,
           \/ \E t \in Tenant, a \in Req : DownloadRequest(r, t, a)
           \/ ReadFile(r) \/ AttachmentAbort(r)
    PROVE  FileInv'
<1> USE OfflineQueueAssumption DEF FileInv
<1>1. ASSUME NEW t \in Tenant, NEW b \in Req, DownloadRequest(r, t, b) PROVE FileInv'
  <2>1. /\ CommonType' /\ pc[r] = "idle"
        /\ pc'[r] = "done" \/ (pc'[r] = "read" /\ row[b] = t)
        /\ \A q \in Req \ {r} : pc'[q] = pc[q]
    BY <1>1, CommonGoto, CommonAnswer, Zenon DEF DownloadRequest, MayRead, Labels, AttachmentAnswers
  <2>2. /\ tenant' = [tenant EXCEPT ![r] = t] /\ wanted' = [wanted EXCEPT ![r] = b]
        /\ UNCHANGED <<file, writing, row, got, early, torn, log>>
    BY <1>1, Zenon DEF DownloadRequest, stores, history, queueVars
  <2>3. AttachmentType' /\ LogRefers'
    BY <2>2, RefersStays, Zenon DEF AttachmentType
  <2>4. \A a \in Req : AttachmentAt(a)'
    BY <2>1, <2>2 DEF AttachmentAt, AttachmentType, UploadLabels
  <2>5. QED
    BY <2>1, <2>3, <2>4, Zenon
<1>2. CASE ReadFile(r)
  <2>1. /\ CommonType' /\ pc[r] = "read" /\ pc'[r] = "done"
        /\ \A q \in Req \ {r} : pc'[q] = pc[q]
    BY <1>2, CommonAnswer, Zenon DEF ReadFile, AttachmentAnswers
  <2>2. /\ wanted[r] \in Req /\ row[wanted[r]] # None
        /\ \/ UNCHANGED <<got, early>>
           \/ /\ got' = [got EXCEPT ![r] = file[wanted[r]]] /\ file[wanted[r]] # "absent"
              /\ early' = IF wanted[r] \in writing THEN early \cup {r} ELSE early
        /\ UNCHANGED <<file, writing, row, tenant, wanted, torn, log>>
    BY <1>2, <2>1, Zenon DEF ReadFile, stores, queueVars, AttachmentAt
  <2>3. AttachmentType' /\ LogRefers'
    BY <2>2, RefersStays DEF AttachmentType
  <2>4. ASSUME NEW a \in Req PROVE AttachmentAt(a)'
    <3>1. CASE a = r
      BY <2>1, <2>2, <3>1 DEF AttachmentAt, AttachmentType, UploadLabels
    <3>2. CASE a # r
      BY <2>1, <2>2, <3>2 DEF AttachmentAt, AttachmentType, UploadLabels
    <3>3. QED
      BY <3>1, <3>2, Zenon
  <2>5. QED
    BY <2>1, <2>3, <2>4, Zenon
<1>3. CASE AttachmentAbort(r)
  <2>1. /\ CommonType' /\ pc[r] \in UploadLabels \cup {"read"} /\ pc'[r] = "done"
        /\ \A q \in Req \ {r} : pc'[q] = pc[q]
    BY <1>3, CommonAnswer, Zenon DEF AttachmentAbort, AttachmentAnswers, UploadLabels
  <2>2. /\ \/ row' = row
           \/ /\ pc[r] = "insert" /\ row' = [row EXCEPT ![r] = tenant[r]]
              /\ tenant[r] \in Tenant
        /\ UNCHANGED <<file, writing, tenant, wanted, got, early, torn, log>>
    BY <1>3, Zenon DEF AttachmentAbort, locals, history, queueVars, AttachmentAt, UploadLabels
  <2>3. AttachmentType' /\ \A a \in Req : row[a] # None => row'[a] # None
    BY <2>2 DEF AttachmentType
  <2>4. \A a \in Req : AttachmentAt(a)'
    BY <2>1, <2>2, <2>3 DEF AttachmentAt, AttachmentType, UploadLabels
  <2>5. QED
    BY <2>1, <2>2, <2>3, <2>4, RefersStays, Zenon
<1>4. QED
  BY <1>1, <1>2, <1>3, Zenon

LEMMA FileRestart == ASSUME FileInv, Restart, UNCHANGED queueVars PROVE FileInv'
<1> USE DEF FileInv
<1>1. /\ pc' = [r \in Req |-> IF pc[r] = "idle" THEN "idle" ELSE "done"]
      /\ writing' = {} /\ torn' = torn \cup writing
      /\ UNCHANGED <<file, row, tenant, wanted, got, resp, early, log>>
  BY Zenon DEF Restart, locals, queueVars
<1>2. CommonType' /\ AttachmentType' /\ LogRefers'
  BY <1>1, RefersStays, Zenon DEF CommonType, AttachmentType, Labels
<1>3. \A a \in Req : AttachmentAt(a)'
  BY <1>1, Zenon DEF AttachmentAt, AttachmentType, UploadLabels
<1>4. QED
  BY <1>2, <1>3, Zenon

\* A step of the queue is none of an upload or a download.
LEMMA FileElsewhere ==
    ASSUME FileInv, NEW r \in Req, UNCHANGED <<stores, locals, history>>,
           CommonType', LogRefers', pc[r] # "done", pc'[r] \in QueueLabels \cup {"done"},
           \A q \in Req \ {r} : pc'[q] = pc[q]
    PROVE  FileInv'
<1> USE DEF FileInv
<1>1. UNCHANGED <<file, writing, row, tenant, wanted, got, early, torn>>
  BY Zenon DEF stores, locals, history
<1>2. AttachmentType'
  BY <1>1, Zenon DEF AttachmentType
<1>3. pc'[r] \notin UploadLabels \cup {"idle", "read"}
  BY Zenon DEF QueueLabels, UploadLabels
<1>4. ASSUME NEW a \in Req PROVE AttachmentAt(a)'
  <2>1. CASE a = r
    BY <1>1, <1>3, <2>1, Zenon DEF AttachmentAt, UploadLabels
  <2>2. CASE a # r
    BY <1>1, <2>2, Zenon DEF AttachmentAt, UploadLabels
  <2>3. QED
    BY <2>1, <2>2, Zenon
<1>5. QED
  BY <1>2, <1>4, Zenon
(***************************************************************************)
(* The queue.                                                              *)
(***************************************************************************)
Row == [delivered : Nat, acked : {0}, dropped : Nat]

QueueType ==
    /\ state \in Row \cup {None}
    /\ seq \in [Req -> Nat] /\ depth \in [Req -> Nat] /\ acked \in [Req -> Nat]
    /\ drained \in [Req -> SUBSET Nat]

\* last_delivered_seq only grows, so what was true when a call wrote it stays so.
QueueAt(r) ==
    /\ pc[r] \in {"depth", "enqueue"} => state # None
    /\ pc[r] = "drain" => acked[r] = 0
    /\ resp[r] # "none" => pc[r] = "done"
    /\ resp[r] \in {"queued", "marked"} => state # None /\ state.delivered >= seq[r]

QueueInv == QueueType /\ \A r \in Req : QueueAt(r)

LEMMA QueueInit == OfflineQueueInit => QueueInv
<1> SUFFICES ASSUME OfflineQueueInit PROVE QueueInv
  OBVIOUS
<1>1. QueueType
  BY Zenon DEF OfflineQueueInit, QueueType
<1>2. \A r \in Req : QueueAt(r)
  BY Zenon DEF OfflineQueueInit, AttachmentsInit, QueueAt
<1>3. QED
  BY <1>1, <1>2, Zenon DEF QueueInv

\* GREATEST is what Advanced says.
LEMMA AdvancedIsGreatest ==
    ASSUME NEW x \in Nat, NEW y \in Nat
    PROVE  Advanced(x, y) \in Nat /\ Advanced(x, y) >= x /\ Advanced(x, y) >= y
<1>1. \E z \in {x, y} : \A w \in {x, y} : z >= w
  <2>1. CASE x >= y
    BY <2>1
  <2>2. CASE y >= x
    BY <2>2
  <2>3. QED
    BY <2>1, <2>2
<1>2. Max({x, y}) \in {x, y} /\ \A w \in {x, y} : Max({x, y}) >= w
  BY <1>1, Zenon DEF Max
<1>3. QED
  BY <1>2, Zenon DEF Advanced

RowGrows ==
    state # None => state' # None /\ state'.delivered >= state.delivered

\* The calls that do not take the step.
LEMMA QueueElsewhere ==
    ASSUME QueueType, QueueType', NEW q \in Req, QueueAt(q), RowGrows,
           pc'[q] = pc[q], resp'[q] = resp[q], seq'[q] = seq[q], depth'[q] = depth[q],
           acked'[q] = acked[q], drained'[q] = drained[q]
    PROVE  QueueAt(q)'
<1>1. state # None => /\ state \in Row /\ state' \in Row
                      /\ state.delivered \in Nat /\ state'.delivered \in Nat
  BY Zenon DEF QueueType, Row, RowGrows
<1>2. seq[q] \in Nat
  BY Zenon DEF QueueType
<1>3. QED
  BY <1>1, <1>2 DEF QueueAt, RowGrows

\* Uploads, downloads and restarts.
LEMMA QueueUntouched ==
    ASSUME QueueInv, UNCHANGED queueVars,
           \A q \in Req :
              \/ pc'[q] = pc[q] /\ resp'[q] = resp[q]
              \/ /\ pc'[q] \notin QueueLabels
                 /\ \/ resp'[q] = resp[q] /\ (pc[q] = "done" => pc'[q] = "done")
                    \/ resp'[q] \in AttachmentAnswers /\ pc'[q] = "done"
    PROVE  QueueInv'
<1>1. UNCHANGED <<log, state, seq, depth, acked, drained>>
  BY Zenon DEF queueVars, queueLocals
<1>2. QueueType'
  BY <1>1, Zenon DEF QueueInv, QueueType
<1>3. ASSUME NEW q \in Req PROVE QueueAt(q)'
  BY <1>1, Zenon DEF QueueInv, QueueAt, QueueLabels, AttachmentAnswers
<1>4. QED
  BY <1>2, <1>3, Zenon DEF QueueInv

LEMMA MailAttachmentStep ==
    ASSUME FileInv, QueueInv, NEW r \in Req, AttachmentStep(r), UNCHANGED queueVars
    PROVE  FileInv' /\ QueueInv'
<1>1. FileInv'
  BY FileUpload, FileDownload, Zenon DEF AttachmentStep
<1>2. CommonType
  BY Zenon DEF FileInv
<1>3. \/ pc' = pc /\ resp' = resp
      \/ \E l \in UploadLabels \cup {"read"} : pc[r] # "done" /\ Goto(r, l)
      \/ \E a \in AttachmentAnswers : Answer(r, a)
  BY Zenon DEF AttachmentStep, UploadRequest, CreateFile, WriteAll, InsertRow, FinishWrite,
     DownloadRequest, ReadFile, AttachmentAbort, UploadLabels, AttachmentAnswers
<1>4. \A q \in Req :
         \/ pc'[q] = pc[q] /\ resp'[q] = resp[q]
         \/ /\ pc'[q] \notin QueueLabels
            /\ \/ resp'[q] = resp[q] /\ (pc[q] = "done" => pc'[q] = "done")
               \/ resp'[q] \in AttachmentAnswers /\ pc'[q] = "done"
  BY <1>2, <1>3, Zenon DEF CommonType, Goto, Answer, UploadLabels, QueueLabels
<1>5. QED
  BY <1>1, <1>4, QueueUntouched, Zenon

LEMMA MailRestart ==
    ASSUME FileInv, QueueInv, Restart, UNCHANGED queueVars
    PROVE  FileInv' /\ QueueInv'
<1>1. /\ resp' = resp
      /\ pc' = [r \in Req |-> IF pc[r] = "idle" THEN "idle" ELSE "done"]
  BY Zenon DEF Restart
<1>2. QED
  BY <1>1, FileRestart, QueueUntouched, Zenon DEF QueueLabels

\* store_envelope appends; deliver leaves the queue alone.
LEMMA MailStore ==
    ASSUME FileInv, QueueInv, NEW r \in Req, NEW b \in Req \cup {None}, Store(r, b)
    PROVE  FileInv' /\ QueueInv'
<1>1. /\ pc[r] = "idle" /\ CommonType /\ LogRefers /\ QueueType
      /\ UNCHANGED <<stores, locals, history, state, depth, acked, drained>>
  BY Zenon DEF Store, FileInv, QueueInv
<1>2. /\ CommonType' /\ pc'[r] \in {"deliver", "done"}
      /\ resp'[r] = resp[r] \/ (pc'[r] = "done" /\ resp'[r] = "internal")
      /\ \A q \in Req \ {r} : pc'[q] = pc[q] /\ resp'[q] = resp[q]
  BY <1>1, CommonGoto, CommonAnswer, Zenon DEF Store, Labels, QueueLabels, AttachmentAnswers
<1>3. \/ UNCHANGED <<log, seq>>
      \/ /\ MayReferTo(b) /\ log' = Append(log, b)
         /\ seq' = [seq EXCEPT ![r] = Len(log) + 1]
  BY Zenon DEF Store
<1>4. row' = row
  BY <1>1, Zenon DEF stores
<1>5. LogRefers'
  <2>1. CASE UNCHANGED <<log, seq>>
    BY <1>1, <1>4, <2>1, Zenon DEF LogRefers
  <2>2. CASE MayReferTo(b) /\ log' = Append(log, b)
    <3>1. /\ log' \in Seq(Req \cup {None}) /\ Len(log') = Len(log) + 1
          /\ \A s \in 1 .. Len(log) + 1 : log'[s] = IF s = Len(log) + 1 THEN b ELSE log[s]
          /\ DOMAIN log = 1 .. Len(log) /\ DOMAIN log' = 1 .. Len(log) + 1
          /\ Len(log) \in Nat
      BY <1>1, <2>2 DEF LogRefers
    <3>2. b # None => row[b] # None
      BY <2>2, Zenon DEF MayReferTo
    <3>3. QED
      BY <1>1, <1>4, <3>1, <3>2 DEF LogRefers
  <2>3. QED
    BY <1>3, <2>1, <2>2, Zenon
<1>6. FileInv'
  BY <1>1, <1>2, <1>5, FileElsewhere, Zenon DEF QueueLabels
<1>7. QueueType' /\ \A q \in Req \ {r} : seq'[q] = seq[q]
  <2>1. Len(log) + 1 \in Nat
    BY <1>1 DEF LogRefers
  <2>2. QED
    BY <1>1, <1>3, <2>1, Zenon DEF QueueType
<1>8. \A q \in Req \ {r} : QueueAt(q)'
  <2>1. RowGrows
    BY <1>1 DEF RowGrows, QueueType, Row
  <2>2. QED
    BY <1>1, <1>2, <1>5, <1>7, <2>1, QueueElsewhere, Zenon DEF QueueInv
<1>9. QueueAt(r)'
  BY <1>1, <1>2, Zenon DEF QueueInv, QueueAt
<1>10. QED
  BY <1>6, <1>7, <1>8, <1>9, Zenon DEF QueueInv

LEMMA MailSent ==
    ASSUME FileInv, QueueInv, NEW r \in Req, Sent(r)
    PROVE  FileInv' /\ QueueInv'
<1>1. /\ pc[r] = "deliver" /\ CommonType /\ LogRefers /\ QueueType
      /\ UNCHANGED <<stores, locals, history, log, state, seq, depth, acked, drained>>
  BY Zenon DEF Sent, FileInv, QueueInv, queueVars, queueLocals
<1>2. /\ CommonType' /\ pc'[r] = "done" /\ resp'[r] = "stored"
      /\ \A q \in Req \ {r} : pc'[q] = pc[q] /\ resp'[q] = resp[q]
  BY <1>1, CommonAnswer, Zenon DEF Sent, QueueAnswers
<1>3. LogRefers'
  BY <1>1, RefersStays, Zenon DEF stores
<1>4. FileInv'
  BY <1>1, <1>2, <1>3, FileElsewhere, Zenon
<1>5. QueueType'
  BY <1>1, Zenon DEF QueueType
<1>6. ASSUME NEW q \in Req PROVE QueueAt(q)'
  BY <1>1, <1>2, Zenon DEF QueueInv, QueueAt
<1>7. QED
  BY <1>4, <1>5, <1>6, Zenon DEF QueueInv

\* A step of the queue that stores nothing keeps FileInv.
LEMMA FileQueueStep ==
    ASSUME FileInv, NEW r \in Req, UNCHANGED <<stores, locals, history, log>>, pc[r] # "done",
           \/ \E l \in QueueLabels : Goto(r, l)
           \/ \E a \in QueueAnswers : Answer(r, a)
    PROVE  FileInv'
<1>1. CommonType /\ LogRefers
  BY Zenon DEF FileInv
<1>2. /\ CommonType' /\ pc'[r] \in QueueLabels \cup {"done"}
      /\ \A q \in Req \ {r} : pc'[q] = pc[q]
  BY <1>1, CommonGoto, CommonAnswer DEF Labels
<1>3. LogRefers'
  BY <1>1, RefersStays, Zenon DEF stores
<1>4. QED
  BY <1>2, <1>3, FileElsewhere, Zenon
\* A step of the queue by r: what is left to show is what holds of r after it.
LEMMA QueueStepBy ==
    ASSUME FileInv, QueueInv, NEW r \in Req, UNCHANGED <<stores, locals, history, log>>,
           pc[r] # "done", QueueType', RowGrows,
           \/ \E l \in QueueLabels : Goto(r, l)
           \/ \E a \in QueueAnswers : Answer(r, a),
           \A q \in Req \ {r} : /\ seq'[q] = seq[q] /\ depth'[q] = depth[q]
                                /\ acked'[q] = acked[q] /\ drained'[q] = drained[q],
           QueueAt(r)'
    PROVE  FileInv' /\ QueueInv'
<1>1. FileInv'
  BY FileQueueStep, Zenon
<1>2. CommonType
  BY Zenon DEF FileInv
<1>3. \A q \in Req \ {r} : pc'[q] = pc[q] /\ resp'[q] = resp[q]
  BY <1>2, CommonGoto, CommonAnswer DEF Labels
<1>4. \A q \in Req \ {r} : QueueAt(q)'
  BY <1>3, QueueElsewhere, Zenon DEF QueueInv
<1>5. QED
  BY <1>1, <1>4, Zenon DEF QueueInv

\* The row that enqueue_offline and mark_delivered write.
LEMMA RowWritten ==
    ASSUME state \in Row, NEW s \in Nat
    PROVE  /\ Dropped \in Row /\ Dropped.delivered = state.delivered
           /\ Dropped.dropped = state.dropped + 1
           /\ Queued(s) \in Row /\ Queued(s).delivered >= state.delivered
           /\ Queued(s).delivered >= s /\ Queued(s).dropped = state.dropped
           /\ None \notin Row
<1>1. Advanced(state.delivered, s) \in Nat
      /\ Advanced(state.delivered, s) >= state.delivered
      /\ Advanced(state.delivered, s) >= s
  BY AdvancedIsGreatest, Zenon DEF Row
<1>2. /\ Dropped \in Row /\ Dropped.delivered = state.delivered
      /\ Dropped.dropped = state.dropped + 1
  BY DEF Dropped, Row
<1>3. /\ Queued(s) \in Row /\ Queued(s).delivered = Advanced(state.delivered, s)
      /\ Queued(s).dropped = state.dropped
  BY <1>1, Zenon DEF Queued, Row
<1>4. None \notin Row
  BY OfflineQueueAssumption DEF Row
<1>5. QED
  BY <1>1, <1>2, <1>3, <1>4, Zenon

LEMMA MailMarkDelivered ==
    ASSUME FileInv, QueueInv, NEW r \in Req, NEW s \in DOMAIN log, MarkDelivered(r, s)
    PROVE  FileInv' /\ QueueInv'
<1>1. /\ pc[r] = "idle" /\ QueueType /\ CommonType /\ log \in Seq(Req \cup {None})
      /\ seq' = [seq EXCEPT ![r] = s] /\ \E a \in {"marked", "unavailable"} : Answer(r, a)
      /\ UNCHANGED <<stores, locals, history, log, depth, acked, drained>>
  BY Zenon DEF MarkDelivered, FileInv, QueueInv, LogRefers
<1>2. s \in Nat
  BY <1>1
<1>3. state' \in Row /\ state' # None /\ state'.delivered >= s /\ RowGrows
  <2>1. CASE state = None
    <3>1. state' = [NoRow EXCEPT !.delivered = s]
      BY <2>1, Zenon DEF MarkDelivered
    <3>2. state' \in Row /\ state'.delivered = s
      BY <1>2, <3>1, Zenon DEF NoRow, Row
    <3>3. QED
      BY <1>2, <2>1, <3>2, OfflineQueueAssumption DEF RowGrows, Row
  <2>2. CASE state # None
    <3>1. state \in Row /\ state' = Queued(s)
      BY <1>1, <2>2, Zenon DEF MarkDelivered, QueueType, Queued
    <3>2. QED
      BY <1>2, <3>1, RowWritten, Zenon DEF RowGrows
  <2>3. QED
    BY <2>1, <2>2, Zenon
<1>4. QueueType'
  BY <1>1, <1>2, <1>3, Zenon DEF QueueType
<1>5. pc'[r] = "done" /\ resp'[r] \in {"marked", "unavailable"} /\ seq'[r] = s
  BY <1>1, Zenon DEF Answer, CommonType, QueueType
<1>6. QueueAt(r)'
  BY <1>1, <1>3, <1>5, Zenon DEF QueueAt
<1>7. \A q \in Req \ {r} : seq'[q] = seq[q]
  BY <1>1, Zenon DEF QueueType
<1>8. QED
  BY <1>1, <1>3, <1>4, <1>6, <1>7, QueueStepBy, Zenon DEF QueueAnswers

LEMMA MailEnsureRow ==
    ASSUME FileInv, QueueInv, NEW r \in Req, NEW s \in DOMAIN log, EnsureRow(r, s)
    PROVE  FileInv' /\ QueueInv'
<1>1. /\ pc[r] = "idle" /\ QueueType /\ CommonType /\ log \in Seq(Req \cup {None})
      /\ seq' = [seq EXCEPT ![r] = s] /\ Goto(r, "depth")
      /\ UNCHANGED <<stores, locals, history, log, depth, acked, drained>>
  BY Zenon DEF EnsureRow, FileInv, QueueInv, LogRefers
<1>2. s \in Nat
  BY <1>1
<1>3. state' \in Row /\ state' # None /\ RowGrows
  <2>1. NoRow \in Row /\ None \notin Row
    BY OfflineQueueAssumption DEF NoRow, Row
  <2>2. state' = IF state = None THEN NoRow ELSE state
    BY Zenon DEF EnsureRow
  <2>3. state # None => state.delivered \in Nat
    BY <1>1, Zenon DEF QueueType, Row
  <2>4. QED
    BY <1>1, <2>1, <2>2, <2>3 DEF QueueType, RowGrows
<1>4. QueueType'
  BY <1>1, <1>2, <1>3, Zenon DEF QueueType
<1>5. pc'[r] = "depth" /\ resp'[r] = "none" /\ seq'[r] = s
  BY <1>1, Zenon DEF Goto, CommonType, QueueType, QueueInv, QueueAt
<1>6. QueueAt(r)'
  BY <1>1, <1>3, <1>5, Zenon DEF QueueAt
<1>7. \A q \in Req \ {r} : seq'[q] = seq[q]
  BY <1>1, Zenon DEF QueueType
<1>8. QED
  BY <1>1, <1>3, <1>4, <1>6, <1>7, QueueStepBy, Zenon DEF QueueLabels

LEMMA MailReadDepth ==
    ASSUME FileInv, QueueInv, NEW r \in Req, ReadDepth(r)
    PROVE  FileInv' /\ QueueInv'
<1>1. /\ pc[r] = "depth" /\ QueueType /\ CommonType /\ QueueAt(r)
      /\ Goto(r, "enqueue")
      /\ depth' = [depth EXCEPT ![r] = state.delivered - state.acked]
      /\ UNCHANGED <<stores, locals, history, log, state, seq, acked, drained>>
  BY Zenon DEF ReadDepth, FileInv, QueueInv
<1>2. state \in Row /\ state.delivered \in Nat /\ state.delivered - state.acked = state.delivered
  BY <1>1 DEF QueueAt, QueueType, Row
<1>3. QueueType' /\ RowGrows
  BY <1>1, <1>2 DEF QueueType, RowGrows
<1>4. pc'[r] = "enqueue" /\ resp'[r] = "none" /\ depth'[r] = state.delivered
  BY <1>1, <1>2, Zenon DEF Goto, CommonType, QueueType, QueueAt
<1>5. QueueAt(r)'
  BY <1>1, <1>2, <1>4 DEF QueueAt
<1>6. \A q \in Req \ {r} : depth'[q] = depth[q]
  BY <1>1, Zenon DEF QueueType
<1>7. QED
  BY <1>1, <1>3, <1>5, <1>6, QueueStepBy, Zenon DEF QueueLabels
\* The UPDATE of enqueue_offline, answered or not.
LEMMA RowUpdated ==
    ASSUME QueueInv, NEW r \in Req, pc[r] = "enqueue",
           state' = IF Full(depth[r]) THEN Dropped ELSE Queued(seq[r])
    PROVE  /\ state' \in Row /\ state' # None /\ RowGrows
           /\ state'.dropped = IF Full(depth[r]) THEN state.dropped + 1 ELSE state.dropped
           /\ ~Full(depth[r]) => state'.delivered >= seq[r]
<1>1. state \in Row /\ state.delivered \in Nat /\ seq[r] \in Nat
  BY Zenon DEF QueueInv, QueueAt, QueueType, Row
<1>2. CASE Full(depth[r])
  <2>1. /\ state' \in Row /\ state' # None /\ state'.delivered = state.delivered
        /\ state'.dropped = state.dropped + 1
    BY <1>1, <1>2, RowWritten, Zenon
  <2>2. QED
    BY <1>1, <1>2, <2>1 DEF RowGrows
<1>3. CASE ~Full(depth[r])
  BY <1>1, <1>3, RowWritten, Zenon DEF RowGrows
<1>4. QED
  BY <1>2, <1>3, Zenon

LEMMA MailEnqueue ==
    ASSUME FileInv, QueueInv, NEW r \in Req, Enqueue(r)
    PROVE  FileInv' /\ QueueInv'
<1>1. /\ pc[r] = "enqueue" /\ QueueType /\ CommonType /\ QueueAt(r)
      /\ UNCHANGED <<stores, locals, history, log, seq, depth, acked, drained>>
      /\ state' = IF Full(depth[r]) THEN Dropped ELSE Queued(seq[r])
  BY Zenon DEF Enqueue, FileInv, QueueInv, queueLocals
<1>2. /\ state' \in Row /\ state' # None /\ RowGrows
      /\ ~Full(depth[r]) => state'.delivered >= seq[r]
  BY <1>1, RowUpdated, Zenon
<1>3. QueueType'
  BY <1>1, <1>2, Zenon DEF QueueType
<1>4. CASE Full(depth[r])
  <2>1. Answer(r, "dropped")
    BY <1>4, Zenon DEF Enqueue
  <2>2. pc'[r] = "done" /\ resp'[r] = "dropped"
    BY <1>1, <2>1, Zenon DEF Answer, CommonType
  <2>3. QueueAt(r)'
    BY <1>1, <1>2, <1>4, <2>2, Zenon DEF QueueAt
  <2>4. QED
    BY <1>1, <1>2, <1>3, <2>1, <2>3, QueueStepBy, Zenon DEF QueueAnswers
<1>5. CASE ~Full(depth[r])
  <2>1. Answer(r, "queued")
    BY <1>5, Zenon DEF Enqueue
  <2>2. pc'[r] = "done" /\ resp'[r] = "queued"
    BY <1>1, <2>1, Zenon DEF Answer, CommonType
  <2>3. QueueAt(r)'
    BY <1>1, <1>2, <1>5, <2>2, Zenon DEF QueueAt
  <2>4. QED
    BY <1>1, <1>2, <1>3, <2>1, <2>3, QueueStepBy, Zenon DEF QueueAnswers
<1>6. QED
  BY <1>4, <1>5, Zenon

LEMMA MailDrainRequest ==
    ASSUME FileInv, QueueInv, NEW r \in Req, DrainRequest(r)
    PROVE  FileInv' /\ QueueInv'
<1>1. /\ pc[r] = "idle" /\ QueueType /\ CommonType /\ QueueAt(r)
      /\ UNCHANGED <<stores, locals, history, log, state, seq, depth, drained>>
  BY Zenon DEF DrainRequest, FileInv, QueueInv
<1>2. RowGrows
  BY <1>1 DEF RowGrows, QueueType, Row
<1>3. CASE state = None
  <2>1. Answer(r, "drained") /\ acked' = acked
    BY <1>3, Zenon DEF DrainRequest
  <2>2. pc'[r] = "done" /\ resp'[r] = "drained"
    BY <1>1, <2>1, Zenon DEF Answer, CommonType
  <2>3. QueueType' /\ QueueAt(r)'
    BY <1>1, <2>1, <2>2, Zenon DEF QueueType, QueueAt
  <2>4. QED
    BY <1>1, <1>2, <2>1, <2>3, QueueStepBy, Zenon DEF QueueAnswers
<1>4. CASE state # None
  <2>1. Goto(r, "drain") /\ acked' = [acked EXCEPT ![r] = state.acked]
    BY <1>4, Zenon DEF DrainRequest
  <2>2. state.acked = 0
    BY <1>1, <1>4, Zenon DEF QueueType, Row
  <2>3. /\ pc'[r] = "drain" /\ resp'[r] = "none" /\ acked'[r] = 0
        /\ \A q \in Req \ {r} : acked'[q] = acked[q]
    BY <1>1, <2>1, <2>2, Zenon DEF Goto, CommonType, QueueType, QueueAt
  <2>4. QueueType'
    BY <1>1, <2>1, <2>2 DEF QueueType
  <2>5. QueueAt(r)'
    BY <2>3, Zenon DEF QueueAt
  <2>6. QED
    BY <1>1, <1>2, <2>1, <2>3, <2>4, <2>5, QueueStepBy, Zenon DEF QueueLabels
<1>5. QED
  BY <1>3, <1>4, Zenon

LEMMA MailDrain ==
    ASSUME FileInv, QueueInv, NEW r \in Req, Drain(r)
    PROVE  FileInv' /\ QueueInv'
<1>1. /\ pc[r] = "drain" /\ QueueType /\ CommonType
      /\ drained' = [drained EXCEPT ![r] = Page(acked[r])]
      /\ log \in Seq(Req \cup {None}) /\ Answer(r, "drained")
      /\ UNCHANGED <<stores, locals, history, log, state, seq, depth, acked>>
  BY Zenon DEF Drain, FileInv, QueueInv, LogRefers
<1>2. Page(acked[r]) \subseteq Nat
  BY <1>1 DEF Page
<1>3. QueueType' /\ RowGrows
  BY <1>1, <1>2 DEF QueueType, RowGrows, Row
<1>4. /\ pc'[r] = "done" /\ resp'[r] = "drained"
      /\ \A q \in Req \ {r} : drained'[q] = drained[q]
  BY <1>1, Zenon DEF Answer, CommonType, QueueType
<1>5. QueueAt(r)'
  BY <1>4, Zenon DEF QueueAt
<1>6. QED
  BY <1>1, <1>3, <1>4, <1>5, QueueStepBy, Zenon DEF QueueAnswers

LEMMA MailQueueAbort ==
    ASSUME FileInv, QueueInv, NEW r \in Req, QueueAbort(r)
    PROVE  FileInv' /\ QueueInv'
<1>1. /\ pc[r] \in {"depth", "enqueue", "drain"} /\ QueueType /\ CommonType
      /\ Answer(r, "unavailable")
      /\ UNCHANGED <<stores, locals, history, log, seq, depth, acked, drained>>
  BY Zenon DEF QueueAbort, FileInv, QueueInv, queueLocals
<1>2. state' \in Row \cup {None} /\ RowGrows
  <2>1. CASE pc[r] = "enqueue" /\ state' = IF Full(depth[r]) THEN Dropped ELSE Queued(seq[r])
    BY <2>1, RowUpdated, Zenon
  <2>2. CASE UNCHANGED state
    BY <1>1, <2>2 DEF QueueType, RowGrows, Row
  <2>3. QED
    BY <2>1, <2>2, Zenon DEF QueueAbort
<1>3. QueueType'
  BY <1>1, <1>2, Zenon DEF QueueType
<1>4. pc'[r] = "done" /\ resp'[r] = "unavailable"
  BY <1>1, Zenon DEF Answer, CommonType
<1>5. QueueAt(r)'
  BY <1>4, Zenon DEF QueueAt
<1>6. QED
  BY <1>1, <1>2, <1>3, <1>5, QueueStepBy, Zenon DEF QueueAnswers
LEMMA MailQueueStep ==
    ASSUME FileInv, QueueInv, NEW r \in Req, QueueStep(r)
    PROVE  FileInv' /\ QueueInv'
BY MailStore, MailMarkDelivered, MailEnsureRow, MailReadDepth, MailEnqueue,
   MailDrainRequest, MailDrain, MailQueueAbort, Zenon DEF QueueStep

LEMMA MailStutter ==
    ASSUME FileInv, QueueInv, UNCHANGED mailboxVars
    PROVE  FileInv' /\ QueueInv'
<1>1. UNCHANGED <<pc, resp, file, writing, row, tenant, wanted, got, early, torn, queueVars>>
  BY Zenon DEF mailboxVars, attachmentVars, stores, locals, history
<1>2. QueueInv'
  BY <1>1, QueueUntouched, Zenon
<1>3. UNCHANGED log
  BY <1>1, Zenon DEF queueVars
<1>4. FileInv'
  BY <1>1, <1>3, Zenon DEF FileInv, CommonType, AttachmentType, LogRefers, AttachmentAt
<1>5. QED
  BY <1>2, <1>4, Zenon

(***************************************************************************)
(* The count of what was dropped.                                          *)
(***************************************************************************)
DropsCounted ==
    /\ IsFiniteSet(DroppedCalls)
    /\ DroppedCalls # {} => state # None /\ state.dropped >= Cardinality(DroppedCalls)

\* A step that answers no call with "dropped", and does not lower the count.
LEMMA DropsStay ==
    ASSUME DropsCounted, DroppedCalls' = DroppedCalls, QueueType,
           state # None => state' # None /\ state'.dropped \in {state.dropped, state.dropped + 1}
    PROVE  DropsCounted'
<1>1. state # None => state.dropped \in Nat
  BY Zenon DEF QueueType, Row
<1>2. CASE DroppedCalls = {}
  BY <1>2, Zenon DEF DropsCounted
<1>3. CASE DroppedCalls # {}
  <2>1. Cardinality(DroppedCalls) \in Nat
    BY FS_CardinalityType, Zenon DEF DropsCounted
  <2>2. state' # None /\ state'.dropped >= Cardinality(DroppedCalls)
    BY <1>1, <1>3, <2>1 DEF DropsCounted
  <2>3. IsFiniteSet(DroppedCalls') /\ Cardinality(DroppedCalls') = Cardinality(DroppedCalls)
    BY Zenon DEF DropsCounted
  <2>4. QED
    BY <2>2, <2>3, Zenon DEF DropsCounted
<1>4. QED
  BY <1>2, <1>3, Zenon

\* The step of r answers it with something else, or not at all.
LEMMA DropsOthers ==
    ASSUME FileInv, QueueInv, NEW r \in Req, pc[r] # "done",
           \/ resp' = resp
           \/ \E a \in (AttachmentAnswers \cup QueueAnswers) \ {"dropped"} : Answer(r, a)
    PROVE  DroppedCalls' = DroppedCalls
<1>1. CASE resp' = resp
  BY <1>1, Zenon DEF DroppedCalls
<1>2. ASSUME NEW a \in (AttachmentAnswers \cup QueueAnswers) \ {"dropped"}, Answer(r, a)
      PROVE  DroppedCalls' = DroppedCalls
  <2>1. resp[r] # "dropped" /\ resp \in [Req -> AttachmentAnswers \cup QueueAnswers]
    BY Zenon DEF QueueInv, QueueAt, FileInv, CommonType
  <2>2. resp'[r] # "dropped" /\ \A q \in Req \ {r} : resp'[q] = resp[q]
    BY <1>2, <2>1, Zenon DEF Answer
  <2>3. QED
    BY <2>1, <2>2, Zenon DEF DroppedCalls
<1>3. QED
  BY <1>1, <1>2, Zenon

LEMMA DropsEnqueue ==
    ASSUME FileInv, QueueInv, DropsCounted, NEW r \in Req, Enqueue(r)
    PROVE  DropsCounted'
<1>1. /\ pc[r] = "enqueue" /\ QueueType /\ QueueAt(r)
      /\ resp \in [Req -> AttachmentAnswers \cup QueueAnswers]
      /\ state' = IF Full(depth[r]) THEN Dropped ELSE Queued(seq[r])
  BY Zenon DEF Enqueue, FileInv, QueueInv, CommonType
<1>2. /\ state \in Row /\ state # None /\ state.dropped \in Nat /\ state' # None
      /\ state'.dropped = IF Full(depth[r]) THEN state.dropped + 1 ELSE state.dropped
  BY <1>1, RowUpdated, Zenon DEF QueueAt, QueueType, Row
<1>3. CASE ~Full(depth[r])
  <2>1. Answer(r, "queued")
    BY <1>3, Zenon DEF Enqueue
  <2>2. DroppedCalls' = DroppedCalls
    BY <1>1, <2>1, DropsOthers, Zenon DEF QueueAnswers
  <2>3. QED
    BY <1>1, <1>2, <1>3, <2>2, DropsStay, Zenon
<1>4. CASE Full(depth[r])
  <2>1. Answer(r, "dropped")
    BY <1>4, Zenon DEF Enqueue
  <2>2. r \notin DroppedCalls
    BY <1>1, Zenon DEF DroppedCalls, QueueAt
  <2>3. DroppedCalls' = DroppedCalls \cup {r}
    <3>1. resp'[r] = "dropped" /\ \A q \in Req \ {r} : resp'[q] = resp[q]
      BY <1>1, <2>1, Zenon DEF Answer
    <3>2. QED
      BY <3>1, Zenon DEF DroppedCalls
  <2>4. /\ IsFiniteSet(DroppedCalls')
        /\ Cardinality(DroppedCalls') = Cardinality(DroppedCalls) + 1
        /\ Cardinality(DroppedCalls) \in Nat
    BY <2>2, <2>3, FS_AddElement, FS_CardinalityType DEF DropsCounted
  <2>5. state.dropped >= Cardinality(DroppedCalls)
    <3>1. CASE DroppedCalls = {}
      BY <1>2, <3>1, FS_EmptySet
    <3>2. QED
      BY <3>1, Zenon DEF DropsCounted
  <2>6. state'.dropped >= Cardinality(DroppedCalls')
    BY <1>2, <1>4, <2>4, <2>5
  <2>7. QED
    BY <1>2, <2>4, <2>6, Zenon DEF DropsCounted
<1>5. QED
  BY <1>3, <1>4, Zenon

\* mark_delivered and the failures of enqueue_offline: the count stays or grows.
LEMMA DropsWritten ==
    ASSUME FileInv, QueueInv, DropsCounted, NEW r \in Req,
           (\E s \in DOMAIN log : MarkDelivered(r, s)) \/ QueueAbort(r)
    PROVE  DropsCounted'
<1>1. QueueType /\ log \in Seq(Req \cup {None})
  BY Zenon DEF FileInv, QueueInv, LogRefers
<1>2. ASSUME NEW s \in DOMAIN log, MarkDelivered(r, s) PROVE DropsCounted'
  <2>1. DroppedCalls' = DroppedCalls
    <3>1. pc[r] = "idle" /\ \E a \in {"marked", "unavailable"} : Answer(r, a)
      BY <1>2, Zenon DEF MarkDelivered
    <3>2. QED
      BY <3>1, DropsOthers, Zenon DEF QueueAnswers
  <2>2. ASSUME state # None
        PROVE  state' # None /\ state'.dropped \in {state.dropped, state.dropped + 1}
    <3>1. state \in Row /\ state' = Queued(s) /\ s \in Nat
      BY <1>1, <1>2, <2>2 DEF MarkDelivered, QueueType, Queued
    <3>2. QED
      BY <3>1, RowWritten, Zenon
  <2>3. QED
    BY <1>1, <2>1, <2>2, DropsStay, Zenon
<1>3. CASE QueueAbort(r)
  <2>1. DroppedCalls' = DroppedCalls
    <3>1. pc[r] \in {"depth", "enqueue", "drain"} /\ Answer(r, "unavailable")
      BY <1>3, Zenon DEF QueueAbort
    <3>2. QED
      BY <3>1, DropsOthers, Zenon DEF QueueAnswers
  <2>2. ASSUME state # None
        PROVE  state' # None /\ state'.dropped \in {state.dropped, state.dropped + 1}
    <3>1. CASE pc[r] = "enqueue" /\ state' = IF Full(depth[r]) THEN Dropped ELSE Queued(seq[r])
      BY <3>1, RowUpdated, Zenon
    <3>2. CASE UNCHANGED state
      BY <2>2, <3>2, Zenon
    <3>3. QED
      BY <1>3, <3>1, <3>2, Zenon DEF QueueAbort
  <2>3. QED
    BY <1>1, <2>1, <2>2, DropsStay, Zenon
<1>4. QED
  BY <1>2, <1>3, Zenon

LEMMA DropsStep ==
    ASSUME FileInv, QueueInv, DropsCounted, [MailboxNext]_mailboxVars
    PROVE  DropsCounted'
<1>1. QueueType
  BY Zenon DEF QueueInv
<1>2. ASSUME state' = state, DroppedCalls' = DroppedCalls PROVE DropsCounted'
  BY <1>1, <1>2, DropsStay, Zenon
<1>3. ASSUME NEW r \in Req, AttachmentStep(r), UNCHANGED queueVars PROVE DropsCounted'
  <2>1. \/ resp' = resp
        \/ \E a \in AttachmentAnswers : pc[r] # "done" /\ Answer(r, a)
    BY <1>3, Zenon DEF AttachmentStep, UploadRequest, CreateFile, WriteAll, InsertRow,
       FinishWrite, DownloadRequest, ReadFile, AttachmentAbort, AttachmentAnswers, Goto
  <2>2. DroppedCalls' = DroppedCalls
    <3>1. CASE resp' = resp
      BY <3>1, Zenon DEF DroppedCalls
    <3>2. CASE \E a \in AttachmentAnswers : pc[r] # "done" /\ Answer(r, a)
      BY <3>2, DropsOthers, Zenon DEF AttachmentAnswers
    <3>3. QED
      BY <2>1, <3>1, <3>2, Zenon
  <2>3. QED
    BY <1>2, <1>3, <2>2, Zenon DEF queueVars
<1>4. CASE (Restart /\ UNCHANGED queueVars) \/ UNCHANGED mailboxVars
  BY <1>2, <1>4, Zenon DEF Restart, queueVars, mailboxVars, attachmentVars, DroppedCalls
<1>5. ASSUME NEW r \in Req,
             \/ \E a \in Req \cup {None} : Store(r, a)
             \/ Sent(r) \/ DrainRequest(r) \/ Drain(r) \/ ReadDepth(r)
      PROVE  DropsCounted'
  <2>1. /\ pc[r] # "done" /\ state' = state
        /\ \/ resp' = resp
           \/ \E a \in {"internal", "stored", "drained"} : Answer(r, a)
    BY <1>5, Zenon DEF Store, Sent, DrainRequest, Drain, ReadDepth, Goto, queueVars
  <2>2. DroppedCalls' = DroppedCalls
    BY <2>1, DropsOthers, Zenon DEF AttachmentAnswers, QueueAnswers
  <2>3. QED
    BY <1>2, <2>1, <2>2, Zenon
<1>6. ASSUME NEW r \in Req, NEW s \in DOMAIN log, EnsureRow(r, s) PROVE DropsCounted'
  <2>1. resp' = resp /\ (state # None => state' = state)
    BY <1>6, Zenon DEF EnsureRow, Goto
  <2>2. DroppedCalls' = DroppedCalls
    BY <2>1, Zenon DEF DroppedCalls
  <2>3. QED
    BY <1>1, <2>1, <2>2, DropsStay, Zenon
<1>7. QED
  BY <1>3, <1>4, <1>5, <1>6, DropsEnqueue, DropsWritten, Zenon DEF MailboxNext, QueueStep

LEMMA MailboxInvariant == MailboxSpec => [](FileInv /\ QueueInv /\ DropsCounted)
<1>1. OfflineQueueInit => FileInv /\ QueueInv
  BY FileInit, QueueInit, Zenon
<1>2. OfflineQueueInit => DropsCounted
  <2>1. OfflineQueueInit => DroppedCalls = {}
    BY Zenon DEF OfflineQueueInit, AttachmentsInit, DroppedCalls
  <2>2. QED
    BY <2>1, FS_EmptySet, Zenon DEF DropsCounted
<1>3. FileInv /\ QueueInv /\ [MailboxNext]_mailboxVars => FileInv' /\ QueueInv'
  BY MailAttachmentStep, MailRestart, MailQueueStep, MailSent, MailStutter, Zenon DEF MailboxNext
<1>4. QED
  BY <1>1, <1>2, <1>3, DropsStep, PTL DEF MailboxSpec

\* For any number of uploads and downloads that overlap, fail or are cut off by a
\* restart: download_attachment returns less than what was uploaded only when it
\* overtakes the write that upload_attachment did not wait for, or that write
\* never finished.
THEOREM DownloadsAreWhole == MailboxSpec => []DownloadIsWhole
<1>1. FileInv => DownloadIsWhole
  BY Zenon DEF FileInv, AttachmentAt, DownloadIsWhole
<1>2. QED
  BY <1>1, MailboxInvariant, PTL

\* What an envelope names may be downloaded by some tenant, and a download that is
\* granted finds a file: upload_attachment creates the file before it inserts the
\* row, nothing removes either, and the foreign key of message_envelopes refuses
\* an attachment without a row.
THEOREM ReferencesAreReadable == MailboxSpec => []ReferencedIsReadable
<1>1. FileInv => ReferencedIsReadable
  <2> SUFFICES ASSUME FileInv PROVE ReferencedIsReadable
    BY Zenon
  <2>1. ASSUME NEW s \in DOMAIN log, log[s] # None PROVE \E t \in Tenant : MayRead(t, log[s])
    <3>1. log[s] \in Req /\ row[log[s]] # None
      BY <2>1 DEF FileInv, LogRefers
    <3>2. row[log[s]] \in Tenant
      BY <3>1, Zenon DEF FileInv, AttachmentType
    <3>3. QED
      BY <3>2, Zenon DEF MayRead
  <2>2. ASSUME NEW t \in Tenant, NEW a \in Req, MayRead(t, a) PROVE file[a] # "absent"
    <3>1. row[a] # None
      BY <2>2, OfflineQueueAssumption, Zenon DEF MayRead
    <3>2. QED
      BY <3>1, Zenon DEF FileInv, AttachmentAt
  <2>3. QED
    BY <2>1, <2>2, Zenon DEF ReferencedIsReadable
<1>2. QED
  BY <1>1, MailboxInvariant, PTL

\* enqueue_offline decides on a depth it read in an earlier statement, and may fail
\* after its commit.  However many calls overlap, the row covers each envelope that
\* was answered as queued or delivered, and counts each that was answered as
\* dropped: GREATEST and dropped_count + 1 are computed where the row is locked.
THEOREM QueueAnswersAreTrue == MailboxSpec => []QueueAnswersHold
<1>1. QueueInv /\ DropsCounted => QueueAnswersHold
  BY Zenon DEF QueueInv, QueueAt, DropsCounted, QueueAnswersHold
<1>2. QED
  BY <1>1, MailboxInvariant, PTL
=============================================================================

---------------------------- MODULE Attachments ----------------------------
(***************************************************************************)
(* Attachments: upload_attachment and download_attachment of               *)
(* crates/api/src/attachments.rs.  The bytes of an upload are a file, its  *)
(* metadata a row of the table attachments, and nothing ties the two       *)
(* together but the order of the steps.                                    *)
(*                                                                         *)
(* Each element of Req is one HTTP request, served once.  An upload makes  *)
(* the attachment that has its name, since every id is new.  A file is     *)
(* absent, whole, or partial: created, and short of bytes.                 *)
(*                                                                         *)
(* The file is a tokio::fs::File: write_all returns once the last buffer   *)
(* is handed to a blocking thread, and the handler drops the file without  *)
(* flush.  Until that thread is done the attachment is in writing.         *)
(***************************************************************************)
EXTENDS Naturals, FiniteSets

CONSTANTS
    Req,        \* HTTP requests, and calls of the repository
    Tenant,     \* tenants
    None

VARIABLES
    file,       \* the file of an attachment under ATTACHMENT_DIR
    writing,    \* the attachments whose last buffer is not written yet
    row,        \* attachments.tenant_id, None if there is no such row
    pc,         \* where the request is in its handler
    tenant,     \* the tenant of the request
    wanted,     \* the attachment it is about
    got,        \* the file a download was answered with
    resp        \* the answer

VARIABLES
    early,      \* downloads that read a file that was still in writing
    torn        \* attachments whose last buffer was never written

stores  == <<file, writing, row>>
locals  == <<tenant, wanted, got>>
history == <<early, torn>>
attachmentVars == <<stores, pc, locals, resp, history>>

AttachmentsInit ==
    /\ file = [a \in Req |-> "absent"]
    /\ writing = {}
    /\ row = [a \in Req |-> None]
    /\ pc = [r \in Req |-> "idle"]
    /\ tenant = [r \in Req |-> None]
    /\ wanted = [r \in Req |-> None]
    /\ got = [r \in Req |-> "none"]
    /\ resp = [r \in Req |-> "none"]
    /\ early = {}
    /\ torn = {}

Goto(r, l) == pc' = [pc EXCEPT ![r] = l] /\ UNCHANGED resp

Answer(r, a) == pc' = [pc EXCEPT ![r] = "done"] /\ resp' = [resp EXCEPT ![r] = a]

(***************************************************************************)
(* POST /attachments                                                       *)
(***************************************************************************)

\* The body has no field, cannot be read or is empty; it is above 100 MB; or the
\* upload goes on.
UploadRequest(r, t) ==
    /\ pc[r] = "idle"
    /\ tenant' = [tenant EXCEPT ![r] = t]
    /\ \/ Answer(r, "bad_request")
       \/ Answer(r, "too_large")
       \/ Goto(r, "create")
    /\ UNCHANGED <<stores, wanted, got, history>>

\* Mutant: the row is inserted before the bytes are written.
CreateFileAndRow(r) ==
    /\ pc[r] = "create"
    /\ file' = [file EXCEPT ![r] = "partial"]
    /\ row' = [row EXCEPT ![r] = tenant[r]]
    /\ Goto(r, "write")
    /\ UNCHANGED <<writing, locals, history>>

\* create_dir_all and File::create.
CreateFile(r) ==
    /\ pc[r] = "create"
    /\ file' = [file EXCEPT ![r] = "partial"]
    /\ Goto(r, "write")
    /\ UNCHANGED <<writing, row, locals, history>>

\* write_all: the last buffer is handed over.
WriteAll(r) ==
    /\ pc[r] = "write"
    /\ writing' = writing \cup {r}
    /\ Goto(r, "insert")
    /\ UNCHANGED <<file, row, locals, history>>

InsertRow(r) ==
    /\ pc[r] = "insert"
    /\ row' = [row EXCEPT ![r] = tenant[r]]
    /\ Answer(r, "created")
    /\ UNCHANGED <<file, writing, locals, history>>

\* The blocking thread writes the buffer, or fails, which nobody learns of.
FinishWrite(a) ==
    /\ a \in writing
    /\ writing' = writing \ {a}
    /\ \/ file' = [file EXCEPT ![a] = "whole"] /\ UNCHANGED torn
       \/ torn' = torn \cup {a} /\ UNCHANGED file
    /\ UNCHANGED <<row, pc, locals, resp, early>>

(***************************************************************************)
(* GET /attachments/{attachment_id}                                        *)
(***************************************************************************)

\* The WHERE clause: the id and the tenant.
MayRead(t, a) == row[a] = t

DownloadRequest(r, t, a) ==
    /\ pc[r] = "idle"
    /\ tenant' = [tenant EXCEPT ![r] = t]
    /\ wanted' = [wanted EXCEPT ![r] = a]
    /\ IF MayRead(t, a) THEN Goto(r, "read") ELSE Answer(r, "not_found")
    /\ UNCHANGED <<stores, got, history>>

\* fs::read
ReadFile(r) ==
    /\ pc[r] = "read"
    /\ IF file[wanted[r]] = "absent"
       THEN Answer(r, "internal") /\ UNCHANGED <<got, early>>
       ELSE /\ got' = [got EXCEPT ![r] = file[wanted[r]]]
            /\ early' = IF wanted[r] \in writing THEN early \cup {r} ELSE early
            /\ Answer(r, "ok")
    /\ UNCHANGED <<stores, tenant, wanted, torn>>

(***************************************************************************)
(* Failures.                                                               *)
(***************************************************************************)

\* A step on the file system or a statement fails, before or, for the INSERT,
\* after it took effect.  What was done before it stays.
AttachmentAbort(r) ==
    /\ pc[r] \in {"create", "write", "insert", "read"}
    /\ \/ pc[r] = "insert" /\ row' = [row EXCEPT ![r] = tenant[r]]
       \/ UNCHANGED row
    /\ Answer(r, "internal")
    /\ UNCHANGED <<file, writing, locals, history>>

\* The process ends and is started again: the requests being served end without
\* an answer, and what was not written is lost.
Restart ==
    /\ writing # {} \/ \E r \in Req : pc[r] \notin {"idle", "done"}
    /\ pc' = [r \in Req |-> IF pc[r] = "idle" THEN "idle" ELSE "done"]
    /\ writing' = {}
    /\ torn' = torn \cup writing
    /\ UNCHANGED <<file, row, locals, resp, early>>

AttachmentStep(r) ==
    \/ \E t \in Tenant : UploadRequest(r, t)
    \/ CreateFile(r)
    \/ WriteAll(r)
    \/ InsertRow(r)
    \/ FinishWrite(r)
    \/ \E t \in Tenant, a \in Req : DownloadRequest(r, t, a)
    \/ ReadFile(r)
    \/ AttachmentAbort(r)

(***************************************************************************)
(* Properties.                                                             *)
(***************************************************************************)

\* The file is written before the row is inserted, so a download is answered with
\* less than what was uploaded only if it read the file before its last buffer
\* was written, or that buffer never was: upload_attachment does not wait for it.
DownloadIsWhole ==
    \A r \in Req : got[r] = "partial" => r \in early \/ wanted[r] \in torn
=============================================================================

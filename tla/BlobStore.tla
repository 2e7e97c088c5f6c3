----------------------------- MODULE BlobStore ------------------------------
(***************************************************************************)
(* blob_store.py with the requests of routes.py that use it.  A blob is    *)
(* two files, <id>.blob and <id>.json; create() writes both under          *)
(* temporary names, renames the data and then the metadata; delete()       *)
(* removes the data and then the metadata.  There is no lock: requests run *)
(* in threads, and every step of a job is one call on the file system.     *)
(*                                                                         *)
(* Sizes count chunks of the request body.  Ids (uuid4) are never drawn    *)
(* twice and tokens are not guessed: a client asks for blobs whose         *)
(* credentials it was given, with either of the two tokens (the wrong one   *)
(* stands for any other).  A process that dies is each of its jobs being   *)
(* cut off.                                                                *)
(***************************************************************************)
EXTENDS Naturals

CONSTANTS
  Blobs, Workers,
  NoBlob, NoFile,
  MaxSize,      \* max_blob_size_bytes
  Allowed       \* what may happen, see Circumstances

Circumstances ==
  {"cut_off",       \* a job ends without its exception handler: the process dies
   "lost_answer",   \* the answer of an upload does not reach its client
   "disk_error",    \* a file operation of create(), an unlink of its clean-up
                    \* or an unlink of delete() raises
   "read_error"}    \* opening existing metadata raises an OSError

ASSUME MaxSizePositive == MaxSize \in Nat /\ MaxSize > 0
ASSUME AllowedKnown == Allowed \subseteq Circumstances
ASSUME NullValues == NoBlob \notin Blobs /\ NoFile \notin Nat

VARIABLES
  data, meta,           \* <id>.blob: its size; <id>.json: the size it names
  tempData, tempMeta,   \* the temporary files of a blob's create()
  drawn,                \* ids drawn so far
  issued,               \* blobs whose credentials reached a client
  job,                  \* job[w]: the request worker w is handling
  reply,                \* reply[w]: the answer of w's latest request
  doomed,               \* history variable: a delete() got past its token check
  removed,              \* history variable: a delete() was answered, true or false
  stranded,             \* history variable: creation cut off, or answer lost
  unclean,              \* history variable: the clean-up of a creation raised
  misread               \* history variable: metadata that could not be opened

files == <<data, meta, tempData, tempMeta>>
history == <<doomed, removed, stranded, unclean, misread>>
vars == <<files, drawn, issued, job, reply, history>>

-----------------------------------------------------------------------------
CleanPcs == {"clean_temp_data", "clean_temp_meta", "clean_data", "clean_meta"}
CreatePcs == {"open", "receive", "write_meta", "replace_data", "replace_meta", "answer"}
               \cup CleanPcs
ReadPcs == {"load_read", "check", "serve"}
DeletePcs == {"load_delete", "unlink_data", "unlink_meta"}

Job ==
  [pc : {"idle"} \cup CreatePcs \cup ReadPcs \cup DeletePcs,
   blob : Blobs \cup {NoBlob},
   size : 0..MaxSize,                           \* create(): chunks written
   token : {"none", "read", "delete"}] \* the token presented

Idle == [pc |-> "idle", blob |-> NoBlob, size |-> 0, token |-> "none"]

Answers == {"none", "created", "served", "not_found", "absent", "deleted",
            "too_large", "forbidden", "error", "unreadable"}

Said(a, b, n) == [answer |-> a, blob |-> b, size |-> n]

At(w, label) == job[w].pc = label

Goto(w, label) == job' = [job EXCEPT ![w].pc = label]

Start(w, label, b, token) ==
  /\ job[w] = Idle
  /\ job' = [job EXCEPT ![w] = [pc |-> label, blob |-> b, size |-> 0, token |-> token]]
  /\ reply' = [reply EXCEPT ![w] = Said("none", NoBlob, 0)]

Finish(w, a, n) ==
  /\ job' = [job EXCEPT ![w] = Idle]
  /\ reply' = [reply EXCEPT ![w] = Said(a, job[w].blob, n)]

Creating(b) == \E w \in Workers : job[w].blob = b /\ job[w].pc \in CreatePcs

-----------------------------------------------------------------------------
Init ==
  /\ data = [b \in Blobs |-> NoFile]
  /\ meta = [b \in Blobs |-> NoFile]
  /\ tempData = [b \in Blobs |-> NoFile]
  /\ tempMeta = [b \in Blobs |-> NoFile]
  /\ drawn = {}
  /\ issued = {}
  /\ job = [w \in Workers |-> Idle]
  /\ reply = [w \in Workers |-> Said("none", NoBlob, 0)]
  /\ doomed = {} /\ removed = {} /\ stranded = {} /\ unclean = {} /\ misread = {}

(* POST /blobs whose Content-Length is over the limit: nothing is touched. *)
CreateRefused(w) ==
  /\ job[w] = Idle
  /\ Finish(w, "too_large", 0)
  /\ UNCHANGED <<files, drawn, issued, history>>

CreateBegin(w, b) ==
  /\ b \notin drawn
  /\ drawn' = drawn \cup {b}
  /\ Start(w, "open", b, "none")
  /\ UNCHANGED <<files, issued, history>>

CreateOpen(w) ==
  /\ At(w, "open")
  /\ tempData' = [tempData EXCEPT ![job[w].blob] = 0]
  /\ Goto(w, "receive")
  /\ UNCHANGED <<data, meta, tempMeta, drawn, issued, reply, history>>

(* Mutant: the limit is compared after the chunk is written. *)
ReceiveThenCompare(w) ==
  LET size == job[w].size + 1
  IN /\ At(w, "receive")
     /\ tempData' = [tempData EXCEPT ![job[w].blob] = size]
     /\ \/ /\ size <= MaxSize
           /\ job' = [job EXCEPT ![w].size = size]
           /\ UNCHANGED reply
        \/ /\ size > MaxSize
           /\ Goto(w, "clean_temp_data")
           /\ reply' = [reply EXCEPT ![w] = Said("too_large", job[w].blob, 0)]
     /\ UNCHANGED <<data, meta, tempMeta, drawn, issued, history>>

(* A chunk of the body: the limit is compared before it is written.        *)
Receive(w) ==
  LET size == job[w].size + 1
  IN /\ At(w, "receive")
     /\ \/ /\ size <= MaxSize
           /\ tempData' = [tempData EXCEPT ![job[w].blob] = size]
           /\ job' = [job EXCEPT ![w].size = size]
           /\ UNCHANGED reply
        \/ /\ size > MaxSize
           /\ Goto(w, "clean_temp_data")
           /\ reply' = [reply EXCEPT ![w] = Said("too_large", job[w].blob, 0)]
           /\ UNCHANGED tempData
     /\ UNCHANGED <<data, meta, tempMeta, drawn, issued, history>>

(* The end of the body; flush and fsync.                                   *)
ReceiveEnd(w) ==
  /\ At(w, "receive")
  /\ Goto(w, "write_meta")
  /\ UNCHANGED <<files, drawn, issued, reply, history>>

WriteMeta(w) ==
  /\ At(w, "write_meta")
  /\ tempMeta' = [tempMeta EXCEPT ![job[w].blob] = job[w].size]
  /\ Goto(w, "replace_data")
  /\ UNCHANGED <<data, meta, tempData, drawn, issued, reply, history>>

(* os.replace(temp_data_path, data_path) *)
ReplaceData(w) ==
  LET b == job[w].blob
  IN /\ At(w, "replace_data")
     /\ data' = [data EXCEPT ![b] = tempData[b]]
     /\ tempData' = [tempData EXCEPT ![b] = NoFile]
     /\ Goto(w, "replace_meta")
     /\ UNCHANGED <<meta, tempMeta, drawn, issued, reply, history>>

(* os.replace(temp_metadata_path, metadata_path); the permissions that are *)
(* set then are best effort and raise nothing.                             *)
ReplaceMeta(w) ==
  LET b == job[w].blob
  IN /\ At(w, "replace_meta")
     /\ meta' = [meta EXCEPT ![b] = tempMeta[b]]
     /\ tempMeta' = [tempMeta EXCEPT ![b] = NoFile]
     /\ Goto(w, "answer")
     /\ UNCHANGED <<data, tempData, drawn, issued, reply, history>>

(* 201 with the credentials *)
CreateAnswer(w) ==
  /\ At(w, "answer")
  /\ issued' = issued \cup {job[w].blob}
  /\ Finish(w, "created", job[w].size)
  /\ UNCHANGED <<files, drawn, history>>

CreateAnswerLost(w) ==
  /\ "lost_answer" \in Allowed
  /\ At(w, "answer")
  /\ stranded' = stranded \cup {job[w].blob}
  /\ Finish(w, "none", 0)
  /\ UNCHANGED <<files, drawn, issued, doomed, removed, unclean, misread>>

(* A file operation or the request stream raises; metadata that could not  *)
(* be written may have been begun.  The reply is the one to be given when  *)
(* the exception handler is done.                                          *)
CreateError(w) ==
  LET b == job[w].blob
  IN /\ "disk_error" \in Allowed
     /\ job[w].pc \in {"open", "receive", "write_meta", "replace_data", "replace_meta"}
     /\ \/ UNCHANGED tempMeta
        \/ At(w, "write_meta") /\ tempMeta' = [tempMeta EXCEPT ![b] = job[w].size]
     /\ Goto(w, "clean_temp_data")
     /\ reply' = [reply EXCEPT ![w] = Said("error", b, 0)]
     /\ UNCHANGED <<data, meta, tempData, drawn, issued, history>>

(* The exception handler of create(): four unlinks in this order, of which *)
(* a missing file is none's concern.                                       *)
CleanTempData(w) ==
  /\ At(w, "clean_temp_data")
  /\ tempData' = [tempData EXCEPT ![job[w].blob] = NoFile]
  /\ Goto(w, "clean_temp_meta")
  /\ UNCHANGED <<data, meta, tempMeta, drawn, issued, reply, history>>

CleanTempMeta(w) ==
  /\ At(w, "clean_temp_meta")
  /\ tempMeta' = [tempMeta EXCEPT ![job[w].blob] = NoFile]
  /\ Goto(w, "clean_data")
  /\ UNCHANGED <<data, meta, tempData, drawn, issued, reply, history>>

(* Mutant: only the temporary files are removed. *)
CleanDataForgotten(w) ==
  /\ At(w, "clean_data")
  /\ Goto(w, "clean_meta")
  /\ UNCHANGED <<files, drawn, issued, reply, history>>

CleanData(w) ==
  /\ At(w, "clean_data")
  /\ data' = [data EXCEPT ![job[w].blob] = NoFile]
  /\ Goto(w, "clean_meta")
  /\ UNCHANGED <<meta, tempData, tempMeta, drawn, issued, reply, history>>

CleanMeta(w) ==
  /\ At(w, "clean_meta")
  /\ meta' = [meta EXCEPT ![job[w].blob] = NoFile]
  /\ job' = [job EXCEPT ![w] = Idle]
  /\ UNCHANGED <<data, tempData, tempMeta, drawn, issued, reply, history>>

(* An unlink that raises takes the place of what went wrong before, and    *)
(* those behind it are not tried.                                          *)
CleanError(w) ==
  /\ "disk_error" \in Allowed
  /\ job[w].pc \in CleanPcs
  /\ unclean' = unclean \cup {job[w].blob}
  /\ Finish(w, "error", 0)
  /\ UNCHANGED <<files, drawn, issued, doomed, removed, stranded, misread>>

-----------------------------------------------------------------------------
(* GET and DELETE /blobs/<id> *)

ReadBegin(w, b, token) ==
  /\ b \in issued
  /\ Start(w, "load_read", b, token)
  /\ UNCHANGED <<files, drawn, issued, history>>

DeleteBegin(w, b, token) ==
  /\ b \in issued
  /\ Start(w, "load_delete", b, token)
  /\ UNCHANGED <<files, drawn, issued, history>>

(* _load_metadata, then the token.  The route turns a missing blob into    *)
(* 404 for a read and into {"deleted": false} for a delete.                *)
LoadMissing(w) ==
  LET b == job[w].blob
  IN /\ job[w].pc \in {"load_read", "load_delete"}
     /\ meta[b] = NoFile
     /\ \/ /\ At(w, "load_read")
           /\ Finish(w, "not_found", 0)
           /\ UNCHANGED removed
        \/ /\ At(w, "load_delete")
           /\ Finish(w, "absent", 0)
           /\ removed' = removed \cup {b}
     /\ UNCHANGED <<files, drawn, issued, doomed, stranded, unclean, misread>>

LoadForbidden(w) ==
  /\ job[w].pc \in {"load_read", "load_delete"}
  /\ meta[job[w].blob] # NoFile
  /\ \/ At(w, "load_read") /\ job[w].token # "read"
     \/ At(w, "load_delete") /\ job[w].token # "delete"
  /\ Finish(w, "forbidden", 0)
  /\ UNCHANGED <<files, drawn, issued, history>>

LoadGranted(w) ==
  LET b == job[w].blob
  IN /\ job[w].pc \in {"load_read", "load_delete"}
     /\ meta[b] # NoFile
     /\ \/ /\ At(w, "load_read") /\ job[w].token = "read"
           /\ Goto(w, "check")
           /\ UNCHANGED doomed
        \/ /\ At(w, "load_delete") /\ job[w].token = "delete"
           /\ Goto(w, "unlink_data")
           /\ doomed' = doomed \cup {b}
     /\ UNCHANGED <<files, drawn, issued, reply, removed, stranded, unclean, misread>>

(* Mutant: metadata that cannot be read is thrown away. *)
LoadUnreadableRemoves(w) ==
  LET b == job[w].blob
  IN /\ "read_error" \in Allowed
     /\ job[w].pc \in {"load_read", "load_delete"}
     /\ meta[b] # NoFile
     /\ meta' = [meta EXCEPT ![b] = NoFile]
     /\ Finish(w, "unreadable", 0)
     /\ misread' = misread \cup {b}
     /\ UNCHANGED <<data, tempData, tempMeta, drawn, issued, doomed, removed, stranded, unclean>>

(* Any OSError is taken for a missing file, and answered like one.  The    *)
(* reply is recorded apart, because what it says is not so.                *)
LoadUnreadable(w) ==
  LET b == job[w].blob
  IN /\ "read_error" \in Allowed
     /\ job[w].pc \in {"load_read", "load_delete"}
     /\ meta[b] # NoFile
     /\ Finish(w, "unreadable", 0)
     /\ removed' = IF At(w, "load_delete") THEN removed \cup {b} ELSE removed
     /\ misread' = misread \cup {b}
     /\ UNCHANGED <<files, drawn, issued, doomed, stranded, unclean>>

(* path.is_file() *)
Check(w) ==
  LET b == job[w].blob
  IN /\ At(w, "check")
     /\ \/ /\ data[b] # NoFile
           /\ Goto(w, "serve")
           /\ UNCHANGED reply
        \/ /\ data[b] = NoFile
           /\ Finish(w, "not_found", 0)
     /\ UNCHANGED <<files, drawn, issued, history>>

(* Mutant: the size in the metadata is answered, whatever became of the file. *)
ServeUnchecked(w) ==
  /\ At(w, "serve")
  /\ Finish(w, "served", job[w].size)
  /\ UNCHANGED <<files, drawn, issued, history>>

(* send_file opens the file: it may be gone by now, which is an error 500. *)
Serve(w) ==
  LET b == job[w].blob
  IN /\ At(w, "serve")
     /\ \/ data[b] # NoFile /\ Finish(w, "served", data[b])
        \/ data[b] = NoFile /\ Finish(w, "error", 0)
     /\ UNCHANGED <<files, drawn, issued, history>>

(* Mutant: the metadata is removed first ... *)
UnlinkMetaFirst(w) ==
  LET b == job[w].blob
  IN /\ At(w, "unlink_data")
     /\ meta' = [meta EXCEPT ![b] = NoFile]
     /\ Goto(w, "unlink_meta")
     /\ UNCHANGED <<data, tempData, tempMeta, drawn, issued, reply, history>>

UnlinkData(w) ==
  LET b == job[w].blob
  IN /\ At(w, "unlink_data")
     /\ data' = [data EXCEPT ![b] = NoFile]
     /\ Goto(w, "unlink_meta")
     /\ UNCHANGED <<meta, tempData, tempMeta, drawn, issued, reply, history>>

UnlinkMeta(w) ==
  LET b == job[w].blob
  IN /\ At(w, "unlink_meta")
     /\ meta' = [meta EXCEPT ![b] = NoFile]
     /\ removed' = removed \cup {b}
     /\ Finish(w, "deleted", 0)
     /\ UNCHANGED <<data, tempData, tempMeta, drawn, issued, doomed, stranded, unclean, misread>>

DeleteError(w) ==
  /\ "disk_error" \in Allowed
  /\ job[w].pc \in {"unlink_data", "unlink_meta"}
  /\ Finish(w, "error", 0)
  /\ UNCHANGED <<files, drawn, issued, history>>

-----------------------------------------------------------------------------
(* The job ends where it is, and the files stay as they are. *)
CutOff(w) ==
  /\ "cut_off" \in Allowed
  /\ job[w] # Idle
  /\ stranded' = IF job[w].pc \in CreatePcs THEN stranded \cup {job[w].blob} ELSE stranded
  /\ Finish(w, "none", 0)
  /\ UNCHANGED <<files, drawn, issued, doomed, removed, unclean, misread>>

Step(w) ==
  \/ CreateOpen(w) \/ Receive(w) \/ ReceiveEnd(w) \/ WriteMeta(w)
  \/ ReplaceData(w) \/ ReplaceMeta(w) \/ CreateAnswer(w) \/ CreateAnswerLost(w)
  \/ CreateError(w)
  \/ CleanTempData(w) \/ CleanTempMeta(w) \/ CleanData(w) \/ CleanMeta(w) \/ CleanError(w)
  \/ LoadMissing(w) \/ LoadForbidden(w) \/ LoadGranted(w) \/ LoadUnreadable(w)
  \/ Check(w) \/ Serve(w)
  \/ UnlinkData(w) \/ UnlinkMeta(w) \/ DeleteError(w)

Next ==
  \/ \E w \in Workers : CreateRefused(w) \/ Step(w) \/ CutOff(w)
  \/ \E w \in Workers, b \in Blobs : CreateBegin(w, b)
  \/ \E w \in Workers, b \in Blobs, token \in {"read", "delete"} :
       ReadBegin(w, b, token) \/ DeleteBegin(w, b, token)

Spec == Init /\ [][Next]_vars

-----------------------------------------------------------------------------
(* Properties *)

FileSize == 0..MaxSize \cup {NoFile}

(* Types, and the README's limit (README.md:173-174): no file, temporary   *)
(* ones included, ever exceeds max_blob_size_bytes, whatever the           *)
(* Content-Length said.                                                    *)
TypeOK ==
  /\ data \in [Blobs -> FileSize]
  /\ meta \in [Blobs -> FileSize]
  /\ tempData \in [Blobs -> FileSize]
  /\ tempMeta \in [Blobs -> FileSize]
  /\ drawn \subseteq Blobs
  /\ issued \subseteq Blobs
  /\ job \in [Workers -> Job]
  /\ reply \in [Workers -> [answer : Answers, blob : Blobs \cup {NoBlob}, size : 0..MaxSize]]
  /\ doomed \subseteq Blobs
  /\ removed \subseteq Blobs
  /\ stranded \subseteq Blobs
  /\ unclean \subseteq Blobs
  /\ misread \subseteq Blobs

(* A blob whose credentials were given out keeps both files, and of the    *)
(* same size, until somebody who holds its delete token asks for its       *)
(* deletion: no failed or interrupted request, of this or another blob,    *)
(* damages it (blob_store.py:124-135).                                     *)
IssuedIsKept ==
  \A b \in issued \ doomed : data[b] # NoFile /\ meta[b] = data[b]

(* Once a delete was answered, true or false, both files are gone for good *)
(* (routes.py:123, "the desired state is still achieved"), although        *)
(* another delete may have been cut off between them or fail.  Deletes     *)
(* that could not read the metadata are excepted.                          *)
DeletedIsGone ==
  \A b \in removed \ misread : data[b] = NoFile /\ meta[b] = NoFile

(* An upload that failed, at whatever step, leaves no file at all, once    *)
(* the four unlinks of its exception handler are through.  If one of them  *)
(* raises, files may stay (blob_store.py:130-133), but none that makes a   *)
(* blob: never metadata.  Otherwise files without an owner, and temporary  *)
(* files, remain only after an upload that was cut off or whose answer was *)
(* lost.                                                                   *)
NoLitter ==
  \A b \in Blobs \ stranded : ~Creating(b) =>
    /\ b \notin unclean => tempData[b] = NoFile /\ tempMeta[b] = NoFile
    /\ b \notin issued \cup unclean => data[b] = NoFile
    /\ b \notin issued => meta[b] = NoFile

(* The store implements BlobSpec: a blob is there when its metadata and    *)
(* its data are.  It appears with the second rename, whole, and disappears *)
(* with the first unlink, and all answers but "unreadable" agree.          *)
content == [b \in Blobs |-> IF meta[b] # NoFile THEN data[b] ELSE NoFile]

gone == {b \in doomed : data[b] = NoFile}

B == INSTANCE BlobSpec

ImplementsBlobSpec == B!Spec
=============================================================================

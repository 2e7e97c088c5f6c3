------------------------------ MODULE BlobSpec ------------------------------
(***************************************************************************)
(* What the blob store promises its HTTP clients (class docstring of       *)
(* blob_store.py, README "Opaque blob storage"): a blob appears at once    *)
(* and whole, stays as it is until it is dropped, and never comes back.    *)
(* An answer tells the truth about the blob at some moment of the request. *)
(* There are no files, no temporary names and no crashes here.             *)
(***************************************************************************)
EXTENDS Naturals

CONSTANTS Blobs, Workers, NoFile, NoBlob

VARIABLES
  content,    \* content[b]: the size of blob b, NoFile if there is none
  gone,       \* blobs that were dropped
  reply       \* reply[w]: what worker w answered to its latest request

specVars == <<content, gone, reply>>

Present == {"created", "served"}                   \* claims: there is a blob of this size
Absent == {"not_found", "absent", "deleted"}       \* claims: there is no such blob
Neither == {"none", "too_large", "forbidden", "error", "unreadable"}

Reply == [answer : Present \cup Absent, blob : Blobs, size : Nat]
           \cup [answer : Neither, blob : Blobs \cup {NoBlob}, size : Nat]

NoReply == [answer |-> "none", blob |-> NoBlob, size |-> 0]

Init ==
  /\ content = [b \in Blobs |-> NoFile]
  /\ gone = {}
  /\ reply = [w \in Workers |-> NoReply]

Put(b) ==
  /\ content[b] = NoFile /\ b \notin gone
  /\ content'[b] \in Nat
  /\ content' = [content EXCEPT ![b] = content'[b]]
  /\ UNCHANGED <<gone, reply>>

Drop(b) ==
  /\ content[b] # NoFile
  /\ content' = [content EXCEPT ![b] = NoFile]
  /\ gone' = gone \cup {b}
  /\ UNCHANGED reply

True(r) ==
  /\ r.answer \in Present => content[r.blob] = r.size
  /\ r.answer \in Absent => content[r.blob] = NoFile

(* Also a new request, which takes the previous answer away. *)
Answer(w) ==
  /\ reply'[w] \in Reply
  /\ True(reply'[w])
  /\ reply' = [reply EXCEPT ![w] = reply'[w]]
  /\ UNCHANGED <<content, gone>>

Next ==
  \/ \E b \in Blobs : Put(b) \/ Drop(b)
  \/ \E w \in Workers : Answer(w)

Spec == Init /\ [][Next]_specVars
=============================================================================

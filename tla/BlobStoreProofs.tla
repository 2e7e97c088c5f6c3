-------------------------- MODULE BlobStoreProofs ---------------------------
(***************************************************************************)
(* Proofs about the blob store, for any number of blobs and workers, any   *)
(* limit and any circumstances.  The inductive invariant says which files  *)
(* of a blob exist at each step of its creation, which nobody else touches *)
(* (Stage, Alone), and what is left of a blob that was issued (Ordered).   *)
(***************************************************************************)
EXTENDS BlobStore, TLAPS

Clear(b) == data[b] = NoFile /\ meta[b] = NoFile /\ tempData[b] = NoFile /\ tempMeta[b] = NoFile

(* What worker w has reached.                                              *)
Stage(w) ==
  LET b == job[w].blob  pc == job[w].pc  n == job[w].size
  IN /\ pc = "idle" => b = NoBlob
     /\ pc # "idle" => b \in Blobs /\ b \in drawn
     /\ pc \in CreatePcs => b \notin issued
     /\ pc \in ReadPcs \cup DeletePcs => b \in issued
     /\ pc = "open" => Clear(b) /\ n = 0
     /\ pc \in {"receive", "write_meta"} =>
          tempData[b] = n /\ tempMeta[b] = NoFile /\ data[b] = NoFile /\ meta[b] = NoFile
     /\ pc = "replace_data" =>
          tempData[b] = n /\ tempMeta[b] = n /\ data[b] = NoFile /\ meta[b] = NoFile
     /\ pc = "replace_meta" =>
          tempData[b] = NoFile /\ tempMeta[b] = n /\ data[b] = n /\ meta[b] = NoFile
     /\ pc = "answer" =>
          tempData[b] = NoFile /\ tempMeta[b] = NoFile /\ data[b] = n /\ meta[b] = n
     /\ pc \in CleanPcs => meta[b] = NoFile
     /\ pc \in {"clean_temp_meta", "clean_data", "clean_meta"} => tempData[b] = NoFile
     /\ pc \in {"clean_data", "clean_meta"} => tempMeta[b] = NoFile
     /\ pc = "clean_meta" => data[b] = NoFile
     /\ pc \in {"unlink_data", "unlink_meta"} => b \in doomed
     /\ pc = "unlink_meta" => data[b] = NoFile

Stages == \A w \in Workers : Stage(w)

(* A blob is created by one worker. *)
Alone ==
  \A v, w \in Workers :
    job[v].pc \in CreatePcs /\ job[w].pc \in CreatePcs /\ job[v].blob = job[w].blob => v = w

(* Data goes before metadata; without a delete neither goes. *)
Ordered ==
  \A b \in issued :
    /\ tempData[b] = NoFile /\ tempMeta[b] = NoFile
    /\ data[b] # NoFile => meta[b] = data[b]
    /\ b \notin doomed => data[b] # NoFile

Lineage ==
  /\ issued \subseteq drawn
  /\ doomed \subseteq issued
  /\ removed \subseteq issued
  /\ \A b \in Blobs \ drawn : Clear(b)

Inv ==
  /\ TypeOK
  /\ Stages
  /\ Alone
  /\ Ordered
  /\ Lineage
  /\ DeletedIsGone
  /\ NoLitter

-----------------------------------------------------------------------------
LEMMA InitInv == Init => Inv
BY MaxSizePositive DEF Init, Inv, TypeOK, FileSize, Job, Idle, Answers, Said, Stages, Stage, Alone,
  Ordered, Lineage, Clear, DeletedIsGone, NoLitter, CreatePcs, CleanPcs, ReadPcs, DeletePcs

(* The three ways a step changes the job at work.                          *)
Steps(w, j) == job' = [job EXCEPT ![w] = j] /\ j \in Job

LEMMA GotoSteps ==
  ASSUME TypeOK, NEW w \in Workers,
         NEW label \in {"idle"} \cup CreatePcs \cup ReadPcs \cup DeletePcs, Goto(w, label)
  PROVE  Steps(w, [job[w] EXCEPT !.pc = label])
<1>1. job[w] \in Job
  BY DEF TypeOK
<1>2. [job[w] EXCEPT !.pc = label] \in Job
  BY <1>1 DEF Job
<1>. QED BY <1>2 DEF Goto, Steps

LEMMA IdleJob == Idle \in Job
BY MaxSizePositive DEF Idle, Job

Replies == [Workers -> [answer : Answers, blob : Blobs \cup {NoBlob}, size : 0..MaxSize]]

LEMMA FinishTypes ==
  ASSUME TypeOK, NEW w \in Workers, NEW a \in Answers, NEW n \in 0..MaxSize, Finish(w, a, n)
  PROVE  /\ Steps(w, Idle)
         /\ reply' \in Replies
<1>1. job[w].blob \in Blobs \cup {NoBlob}
  BY DEF TypeOK, Job
<1>2. Said(a, job[w].blob, n) \in [answer : Answers, blob : Blobs \cup {NoBlob}, size : 0..MaxSize]
  BY <1>1 DEF Said
<1>. QED BY <1>2, IdleJob DEF Finish, Steps, TypeOK, Replies

LEMMA StartTypes ==
  ASSUME TypeOK, NEW w \in Workers, NEW b \in Blobs, NEW token \in {"none", "read", "delete"},
         NEW label \in CreatePcs \cup ReadPcs \cup DeletePcs, Start(w, label, b, token)
  PROVE  /\ Steps(w, [pc |-> label, blob |-> b, size |-> 0, token |-> token])
         /\ reply' \in Replies
BY MaxSizePositive DEF Start, Steps, TypeOK, Job, Said, Answers, Replies

Tidy(b) ==
  /\ b \notin unclean => tempData[b] = NoFile /\ tempMeta[b] = NoFile
  /\ b \notin issued \cup unclean => data[b] = NoFile
  /\ b \notin issued => meta[b] = NoFile

(* A step of w concerns its blob only.  The blob must then still be in the *)
(* making, or stranded, or without litter.                                 *)
LEMMA StillTidy ==
  ASSUME NoLitter, NEW w \in Workers, NEW j, Steps(w, j), job \in [Workers -> Job],
         stranded \subseteq stranded', unclean \subseteq unclean', issued \subseteq issued',
         \A b \in Blobs \ {job[w].blob} :
           /\ data'[b] = data[b] /\ meta'[b] = meta[b]
           /\ tempData'[b] = tempData[b] /\ tempMeta'[b] = tempMeta[b],
         \/ j.pc \in CreatePcs /\ j.blob = job[w].blob
         \/ \A b \in Blobs \ stranded' : b = job[w].blob => Tidy(b)'
  PROVE  NoLitter'
<1> SUFFICES ASSUME NEW b \in Blobs \ stranded', ~Creating(b)' PROVE Tidy(b)'
  BY DEF NoLitter, Tidy
<1>1. job'[w] = j /\ \A v \in Workers \ {w} : job'[v] = job[v]
  BY DEF Steps
<1>2. CASE b = job[w].blob
  BY <1>1, <1>2 DEF Creating
<1>3. CASE b # job[w].blob
  <2>1. ~Creating(b)
    BY <1>1, <1>3 DEF Creating
  <2>. QED BY <1>3, <2>1 DEF NoLitter, Tidy
<1>. QED BY <1>2, <1>3

(* The steps of a creation that goes on, or fails.                         *)
Creates(w) ==
  \/ CreateOpen(w) \/ Receive(w) \/ ReceiveEnd(w) \/ WriteMeta(w)
  \/ ReplaceData(w) \/ ReplaceMeta(w) \/ CreateError(w)
  \/ CleanTempData(w) \/ CleanTempMeta(w) \/ CleanData(w)

LEMMA CreatesInv ==
  ASSUME Inv, NEW w \in Workers, Creates(w)
  PROVE  Inv'
<1> USE NullValues, MaxSizePositive
    DEF Inv, Creates, CreateOpen, Receive, ReceiveEnd, WriteMeta, ReplaceData, ReplaceMeta,
        CreateError, CleanTempData, CleanTempMeta, CleanData, At, Goto, Said, files, history
<1>1. job[w] \in Job /\ job[w].size \in 0..MaxSize /\ job[w].blob \in Blobs /\ job[w].pc \in CreatePcs
  BY DEF TypeOK, Job, Stages, Stage, CreatePcs, CleanPcs
<1>2. Steps(w, job'[w]) /\ job'[w].pc \in CreatePcs /\ job'[w].blob = job[w].blob
  BY <1>1, SMTT(30) DEF TypeOK, Steps, Job, CreatePcs, CleanPcs
<1>3. TypeOK'
  BY <1>1, <1>2, SMTT(30) DEF TypeOK, FileSize, Steps, Answers
<1> HIDE DEF Creates
<1>4. Stages'
  <2>1. Stage(w)'
    <3>1. CASE CreateOpen(w)
      BY <1>1, <3>1, SMTT(30) DEF TypeOK, Job, Stages, Stage, Clear, CreatePcs, CleanPcs, ReadPcs, DeletePcs
    <3>2. CASE Receive(w)
      BY <1>1, <3>2, SMTT(30) DEF TypeOK, Job, Stages, Stage, Clear, CreatePcs, CleanPcs, ReadPcs, DeletePcs
    <3>3. CASE ReceiveEnd(w)
      BY <1>1, <3>3, SMTT(30) DEF TypeOK, Job, Stages, Stage, Clear, CreatePcs, CleanPcs, ReadPcs, DeletePcs
    <3>4. CASE WriteMeta(w)
      BY <1>1, <3>4, SMTT(30) DEF TypeOK, Job, Stages, Stage, Clear, CreatePcs, CleanPcs, ReadPcs, DeletePcs
    <3>5. CASE ReplaceData(w)
      BY <1>1, <3>5, SMTT(30) DEF TypeOK, Job, Stages, Stage, Clear, CreatePcs, CleanPcs, ReadPcs, DeletePcs
    <3>6. CASE ReplaceMeta(w)
      BY <1>1, <3>6, SMTT(30) DEF TypeOK, Job, Stages, Stage, Clear, CreatePcs, CleanPcs, ReadPcs, DeletePcs
    <3>7. CASE CreateError(w)
      BY <1>1, <3>7, SMTT(30) DEF TypeOK, Job, Stages, Stage, Clear, CreatePcs, CleanPcs, ReadPcs, DeletePcs
    <3>8. CASE CleanTempData(w)
      BY <1>1, <3>8, SMTT(30) DEF TypeOK, Job, Stages, Stage, Clear, CreatePcs, CleanPcs, ReadPcs, DeletePcs
    <3>9. CASE CleanTempMeta(w)
      BY <1>1, <3>9, SMTT(30) DEF TypeOK, Job, Stages, Stage, Clear, CreatePcs, CleanPcs, ReadPcs, DeletePcs
    <3>10. CASE CleanData(w)
      BY <1>1, <3>10, SMTT(30) DEF TypeOK, Job, Stages, Stage, Clear, CreatePcs, CleanPcs, ReadPcs, DeletePcs
    <3>. QED BY <3>1, <3>2, <3>3, <3>4, <3>5, <3>6, <3>7, <3>8, <3>9, <3>10 DEF Creates
  <2>2. ASSUME NEW v \in Workers \ {w} PROVE Stage(v)'
    <3>1. job'[v] = job[v] /\ (job[v].pc # "idle" => job[v].blob # job[w].blob)
      BY <1>1, <1>2 DEF TypeOK, Job, Steps, Stages, Stage, Alone
    <3>2. \A b \in Blobs \ {job[w].blob} :
            /\ data'[b] = data[b] /\ meta'[b] = meta[b]
            /\ tempData'[b] = tempData[b] /\ tempMeta'[b] = tempMeta[b]
      BY <1>1 DEF Creates, TypeOK
    <3>3. Stage(v) /\ drawn' = drawn /\ issued' = issued /\ doomed' = doomed
      BY DEF Creates, Stages
    <3> HIDE DEF Inv, Creates, CreateOpen, Receive, ReceiveEnd, WriteMeta, ReplaceData, ReplaceMeta,
                 CreateError, CleanTempData, CleanTempMeta, CleanData, Goto, Said
    <3>. QED BY <3>1, <3>2, <3>3 DEF Stage, Clear, CreatePcs, CleanPcs, ReadPcs, DeletePcs
  <2>. QED BY <2>1, <2>2 DEF Stages
<1>5. Alone'
  BY <1>1, <1>2 DEF Steps, TypeOK, Alone
<1>6. Ordered'
  <2>1. CASE CreateOpen(w)
    BY <1>1, <2>1, SMTT(30) DEF TypeOK, Ordered, Stages, Stage
  <2>2. CASE Receive(w)
    BY <1>1, <2>2, SMTT(30) DEF TypeOK, Ordered, Stages, Stage
  <2>3. CASE ReceiveEnd(w)
    BY <1>1, <2>3, SMTT(30) DEF TypeOK, Ordered, Stages, Stage
  <2>4. CASE WriteMeta(w)
    BY <1>1, <2>4, SMTT(30) DEF TypeOK, Ordered, Stages, Stage
  <2>5. CASE ReplaceData(w)
    BY <1>1, <2>5, SMTT(30) DEF TypeOK, Ordered, Stages, Stage
  <2>6. CASE ReplaceMeta(w)
    BY <1>1, <2>6, SMTT(30) DEF TypeOK, Ordered, Stages, Stage
  <2>7. CASE CreateError(w)
    BY <1>1, <2>7, SMTT(30) DEF TypeOK, Ordered, Stages, Stage
  <2>8. CASE CleanTempData(w)
    BY <1>1, <2>8, SMTT(30) DEF TypeOK, Ordered, Stages, Stage
  <2>9. CASE CleanTempMeta(w)
    BY <1>1, <2>9, SMTT(30) DEF TypeOK, Ordered, Stages, Stage
  <2>10. CASE CleanData(w)
    BY <1>1, <2>10, SMTT(30) DEF TypeOK, Ordered, Stages, Stage
  <2>. QED BY <2>1, <2>2, <2>3, <2>4, <2>5, <2>6, <2>7, <2>8, <2>9, <2>10 DEF Creates
<1>7. Lineage'
  <2>1. CASE CreateOpen(w)
    BY <1>1, <2>1, SMTT(30) DEF TypeOK, Lineage, Clear, Stages, Stage
  <2>2. CASE Receive(w)
    BY <1>1, <2>2, SMTT(30) DEF TypeOK, Lineage, Clear, Stages, Stage
  <2>3. CASE ReceiveEnd(w)
    BY <1>1, <2>3, SMTT(30) DEF TypeOK, Lineage, Clear, Stages, Stage
  <2>4. CASE WriteMeta(w)
    BY <1>1, <2>4, SMTT(30) DEF TypeOK, Lineage, Clear, Stages, Stage
  <2>5. CASE ReplaceData(w)
    BY <1>1, <2>5, SMTT(30) DEF TypeOK, Lineage, Clear, Stages, Stage
  <2>6. CASE ReplaceMeta(w)
    BY <1>1, <2>6, SMTT(30) DEF TypeOK, Lineage, Clear, Stages, Stage
  <2>7. CASE CreateError(w)
    BY <1>1, <2>7, SMTT(30) DEF TypeOK, Lineage, Clear, Stages, Stage
  <2>8. CASE CleanTempData(w)
    BY <1>1, <2>8, SMTT(30) DEF TypeOK, Lineage, Clear, Stages, Stage
  <2>9. CASE CleanTempMeta(w)
    BY <1>1, <2>9, SMTT(30) DEF TypeOK, Lineage, Clear, Stages, Stage
  <2>10. CASE CleanData(w)
    BY <1>1, <2>10, SMTT(30) DEF TypeOK, Lineage, Clear, Stages, Stage
  <2>. QED BY <2>1, <2>2, <2>3, <2>4, <2>5, <2>6, <2>7, <2>8, <2>9, <2>10 DEF Creates
<1>8. DeletedIsGone'
  <2>1. CASE CreateOpen(w)
    BY <1>1, <2>1, SMTT(30) DEF TypeOK, DeletedIsGone, Lineage, Stages, Stage
  <2>2. CASE Receive(w)
    BY <1>1, <2>2, SMTT(30) DEF TypeOK, DeletedIsGone, Lineage, Stages, Stage
  <2>3. CASE ReceiveEnd(w)
    BY <1>1, <2>3, SMTT(30) DEF TypeOK, DeletedIsGone, Lineage, Stages, Stage
  <2>4. CASE WriteMeta(w)
    BY <1>1, <2>4, SMTT(30) DEF TypeOK, DeletedIsGone, Lineage, Stages, Stage
  <2>5. CASE ReplaceData(w)
    BY <1>1, <2>5, SMTT(30) DEF TypeOK, DeletedIsGone, Lineage, Stages, Stage
  <2>6. CASE ReplaceMeta(w)
    BY <1>1, <2>6, SMTT(30) DEF TypeOK, DeletedIsGone, Lineage, Stages, Stage
  <2>7. CASE CreateError(w)
    BY <1>1, <2>7, SMTT(30) DEF TypeOK, DeletedIsGone, Lineage, Stages, Stage
  <2>8. CASE CleanTempData(w)
    BY <1>1, <2>8, SMTT(30) DEF TypeOK, DeletedIsGone, Lineage, Stages, Stage
  <2>9. CASE CleanTempMeta(w)
    BY <1>1, <2>9, SMTT(30) DEF TypeOK, DeletedIsGone, Lineage, Stages, Stage
  <2>10. CASE CleanData(w)
    BY <1>1, <2>10, SMTT(30) DEF TypeOK, DeletedIsGone, Lineage, Stages, Stage
  <2>. QED BY <2>1, <2>2, <2>3, <2>4, <2>5, <2>6, <2>7, <2>8, <2>9, <2>10 DEF Creates
<1>9. NoLitter'
  BY <1>1, <1>2, StillTidy DEF Creates, TypeOK
<1>. QED BY <1>3, <1>4, <1>5, <1>6, <1>7, <1>8, <1>9

(* A request begins. *)
LEMMA BeginInv ==
  ASSUME Inv, NEW w \in Workers, NEW b \in Blobs, NEW token \in {"read", "delete"},
         CreateBegin(w, b) \/ ReadBegin(w, b, token) \/ DeleteBegin(w, b, token)
  PROVE  Inv'
<1> USE NullValues DEF Inv, CreateBegin, ReadBegin, DeleteBegin, files, history
<1>1. job[w] = Idle /\ Idle.pc = "idle" /\ Idle.blob = NoBlob
  BY DEF Start, Idle
<1>2. /\ Steps(w, job'[w])
      /\ job'[w].blob = b /\ job'[w].size = 0
      /\ \/ b \notin drawn /\ job'[w].pc = "open" /\ drawn' = drawn \cup {b}
         \/ b \in issued /\ job'[w].pc \in {"load_read", "load_delete"} /\ drawn' = drawn
      /\ reply' \in Replies
  <2>1. CASE CreateBegin(w, b)
    <3>1. Start(w, "open", b, "none")
      BY <2>1
    <3>2. /\ Steps(w, [pc |-> "open", blob |-> b, size |-> 0, token |-> "none"])
          /\ reply' \in Replies
      BY <3>1, StartTypes DEF CreatePcs
    <3>. QED BY <2>1, <3>1, <3>2 DEF TypeOK, Steps
  <2>2. CASE ReadBegin(w, b, token)
    <3>1. Start(w, "load_read", b, token) /\ b \in issued /\ drawn' = drawn
      BY <2>2
    <3>2. /\ Steps(w, [pc |-> "load_read", blob |-> b, size |-> 0, token |-> token])
          /\ reply' \in Replies
      BY <3>1, StartTypes DEF ReadPcs
    <3>. QED BY <3>1, <3>2 DEF TypeOK, Steps
  <2>3. CASE DeleteBegin(w, b, token)
    <3>1. Start(w, "load_delete", b, token) /\ b \in issued /\ drawn' = drawn
      BY <2>3
    <3>2. /\ Steps(w, [pc |-> "load_delete", blob |-> b, size |-> 0, token |-> token])
          /\ reply' \in Replies
      BY <3>1, StartTypes DEF DeletePcs
    <3>. QED BY <3>1, <3>2 DEF TypeOK, Steps
  <2>. QED BY <2>1, <2>2, <2>3
<1>3. TypeOK'
  BY <1>2 DEF TypeOK, Steps, Replies
<1>4. Stages'
  <2>1. Stage(w)'
    BY <1>2 DEF Lineage, Stage, Clear, CreatePcs, CleanPcs, ReadPcs, DeletePcs
  <2>2. ASSUME NEW v \in Workers \ {w} PROVE Stage(v)'
    BY <1>2 DEF TypeOK, Steps, Stages, Stage, Clear
  <2>. QED BY <2>1, <2>2 DEF Stages
<1>5. Alone'
  BY <1>2 DEF Steps, TypeOK, Alone, Stages, Stage, CreatePcs
<1>6. Ordered' /\ DeletedIsGone'
  BY DEF Ordered, DeletedIsGone
<1>7. Lineage'
  BY <1>2 DEF Lineage, Clear
<1>8. NoLitter'
  BY <1>1, <1>2, StillTidy DEF TypeOK
<1>. QED BY <1>3, <1>4, <1>5, <1>6, <1>7, <1>8

(* A step that leaves the files alone and ends the request, or takes it to *)
(* its next step.                                                          *)
Looks(w) ==
  \/ CreateRefused(w) \/ CreateAnswer(w) \/ CreateAnswerLost(w) \/ CutOff(w)
  \/ LoadMissing(w) \/ LoadForbidden(w) \/ LoadGranted(w) \/ LoadUnreadable(w)
  \/ Check(w) \/ Serve(w) \/ DeleteError(w) \/ CleanError(w)

LEMMA LooksInv ==
  ASSUME Inv, NEW w \in Workers, Looks(w)
  PROVE  Inv'
<1> DEFINE b == job[w].blob
           pc == job[w].pc
<1>1. /\ job[w] \in Job /\ job[w].size \in 0..MaxSize
      /\ pc # "idle" => b \in Blobs
  BY DEF Inv, TypeOK, Job, Stages, Stage
(* What such a step does to the rest of the state. *)
<1>2. /\ UNCHANGED <<data, meta, tempData, tempMeta, drawn>>
      /\ issued' = issued \/ (pc = "answer" /\ issued' = issued \cup {b})
      /\ doomed' = doomed \/ (pc = "load_delete" /\ doomed' = doomed \cup {b})
      /\ \/ removed' = removed
         \/ /\ pc = "load_delete" /\ removed' = removed \cup {b}
            /\ meta[b] = NoFile \/ b \in misread'
      /\ stranded' = stranded \/ (pc # "idle" /\ stranded' = stranded \cup {b})
      /\ misread' = misread \/ (pc # "idle" /\ misread' = misread \cup {b})
      /\ unclean' = unclean \/ (pc # "idle" /\ unclean' = unclean \cup {b})
      /\ pc \in CreatePcs =>
           issued' = issued \cup {b} \/ b \in stranded' \/ (pc \in CleanPcs /\ b \in unclean')
  <2>1. CASE \/ CreateRefused(w) \/ CreateAnswer(w) \/ CreateAnswerLost(w) \/ DeleteError(w)
             \/ CleanError(w)
    BY <2>1 DEF CreateRefused, CreateAnswer, CreateAnswerLost, DeleteError, CleanError, At, Idle,
      CreatePcs, CleanPcs, files, history
  <2>2. CASE CutOff(w)
    BY <2>2, <1>1 DEF CutOff, CreatePcs, CleanPcs, Idle, Inv, Stages, Stage, files, history
  <2>3. CASE LoadMissing(w) \/ LoadForbidden(w) \/ LoadGranted(w) \/ Check(w) \/ Serve(w)
    BY <2>3 DEF LoadMissing, LoadForbidden, LoadGranted, Check, Serve, At, CreatePcs, CleanPcs, files, history
  <2>4. CASE LoadUnreadable(w)
    BY <2>4 DEF LoadUnreadable, At, CreatePcs, CleanPcs, files, history
  <2>. QED BY <2>1, <2>2, <2>3, <2>4 DEF Looks
(* What it does to the request. *)
<1>3. \/ \E a \in Answers, n \in 0..MaxSize : Finish(w, a, n)
      \/ /\ reply' = reply
         /\ \/ pc = "load_read" /\ Goto(w, "check")
            \/ pc = "load_delete" /\ Goto(w, "unlink_data") /\ b \in doomed'
            \/ pc = "check" /\ Goto(w, "serve")
  <2>1. CASE \/ CreateRefused(w) \/ CreateAnswer(w) \/ CreateAnswerLost(w) \/ DeleteError(w)
             \/ CutOff(w) \/ LoadUnreadable(w) \/ CleanError(w)
    <3>1. 0 \in 0..MaxSize
      BY MaxSizePositive
    <3>. QED BY <2>1, <1>1, <3>1 DEF Answers, CreateRefused, CreateAnswer, CreateAnswerLost,
           DeleteError, CutOff, LoadUnreadable, CleanError
  <2>2. CASE LoadMissing(w) \/ LoadForbidden(w) \/ LoadGranted(w) \/ Check(w) \/ Serve(w)
    <3>1. 0 \in 0..MaxSize /\ (data[b] # NoFile /\ pc = "serve" => data[b] \in 0..MaxSize)
      BY <1>1, MaxSizePositive DEF Inv, TypeOK, FileSize
    <3>. QED BY <2>2, <3>1
           DEF Answers, LoadMissing, LoadForbidden, LoadGranted, Check, Serve, At
  <2>. QED BY <2>1, <2>2 DEF Looks
<1>4. /\ Steps(w, job'[w])
      /\ reply' \in Replies
      /\ \/ job'[w] = Idle
         \/ /\ job'[w].blob = b
            /\ \/ pc = "load_read" /\ job'[w].pc = "check"
               \/ pc = "load_delete" /\ job'[w].pc = "unlink_data" /\ b \in doomed'
               \/ pc = "check" /\ job'[w].pc = "serve"
  <2>1. CASE \E a \in Answers, n \in 0..MaxSize : Finish(w, a, n)
    BY <2>1, FinishTypes DEF Inv, Steps, TypeOK
  <2>2. ASSUME NEW label \in ReadPcs \cup DeletePcs, Goto(w, label)
        PROVE  Steps(w, job'[w]) /\ job'[w].blob = b /\ job'[w].pc = label
    <3>1. Steps(w, [job[w] EXCEPT !.pc = label])
      BY <2>2, GotoSteps DEF Inv
    <3>. QED BY <3>1, <1>1 DEF Inv, Steps, TypeOK, Job
  <2>. QED BY <1>3, <2>1, <2>2 DEF Inv, TypeOK, Replies, ReadPcs, DeletePcs
<1> USE DEF Inv
<1>5. TypeOK'
  BY <1>1, <1>2, <1>4 DEF TypeOK, Steps, Replies
<1>6. Stages'
  <2>1. Stage(w)'
    BY <1>1, <1>2, <1>4 DEF Stages, Stage, Idle, CreatePcs, CleanPcs, ReadPcs, DeletePcs
  <2>2. ASSUME NEW v \in Workers \ {w} PROVE Stage(v)'
    <3>1. job'[v] = job[v]
      BY <1>4 DEF Inv, TypeOK, Steps
    <3>2. pc = "answer" /\ job[v].pc \in CreatePcs => job[v].blob # b
      BY DEF Alone, CreatePcs
    <3>. QED BY <1>2, <3>1, <3>2 DEF Stages, Stage, Clear
  <2>. QED BY <2>1, <2>2 DEF Stages
<1>7. Alone'
  BY <1>4 DEF Steps, TypeOK, Alone, Idle, CreatePcs, CleanPcs
<1>8. Ordered'
  BY <1>1, <1>2, NullValues DEF Ordered, Stages, Stage
<1>9. Lineage'
  BY <1>1, <1>2 DEF Lineage, Clear, Stages, Stage, ReadPcs, DeletePcs
<1>10. DeletedIsGone'
  BY <1>1, <1>2 DEF DeletedIsGone, Ordered, Stages, Stage, ReadPcs, DeletePcs
<1>11. NoLitter'
  <2>1. \A c \in Blobs \ stranded' : c = b => Tidy(c)'
    <3>1. b \in Blobs \ stranded' => b \in issued' \/ (pc \in CleanPcs /\ b \in unclean')
      BY <1>1, <1>2, NullValues DEF Stages, Stage, TypeOK, Job
    <3>2. pc \in CleanPcs => meta'[b] = NoFile
      BY <1>2 DEF Stages, Stage
    <3>. QED BY <3>1, <3>2, <1>8 DEF Ordered, Tidy
  <2>. QED BY <1>1, <1>2, <1>4, <2>1, StillTidy DEF TypeOK
<1>. QED BY <1>5, <1>6, <1>7, <1>8, <1>9, <1>10, <1>11

(* The last step of a failed upload's clean-up, and the delete's.          *)
Removes(w) == CleanMeta(w) \/ UnlinkData(w) \/ UnlinkMeta(w)

LEMMA RemovesInv ==
  ASSUME Inv, NEW w \in Workers, Removes(w)
  PROVE  Inv'
<1> USE NullValues DEF Inv, Removes, CleanMeta, UnlinkData, UnlinkMeta, At, files, history
<1> DEFINE b == job[w].blob
<1>1. job[w] \in Job /\ b \in Blobs /\ (CleanMeta(w) <=> b \notin issued)
  BY DEF TypeOK, Stages, Stage, CreatePcs, CleanPcs, ReadPcs, DeletePcs
<1>2. /\ Steps(w, job'[w])
      /\ job'[w] = Idle \/ (job'[w].blob = b /\ job'[w].pc = "unlink_meta" /\ UnlinkData(w))
  <2>1. CASE CleanMeta(w)
    BY <2>1, IdleJob DEF TypeOK, Steps
  <2>2. CASE UnlinkData(w)
    <3>1. Steps(w, [job[w] EXCEPT !.pc = "unlink_meta"])
      BY <2>2, GotoSteps DEF DeletePcs
    <3>. QED BY <2>2, <3>1, <1>1 DEF Steps, TypeOK, Job
  <2>3. CASE UnlinkMeta(w)
    BY <2>3, <1>1, IdleJob DEF Finish, TypeOK, Steps
  <2>. QED BY <2>1, <2>2, <2>3
<1>3. TypeOK'
  <2>1. reply' \in Replies
    <3>1. CASE UnlinkMeta(w)
      <4>1. Finish(w, "deleted", 0) /\ 0 \in 0..MaxSize
        BY <3>1, MaxSizePositive
      <4>. QED BY <4>1, FinishTypes DEF Answers
    <3>. QED BY <3>1 DEF TypeOK, Replies
  <2>. QED BY <1>1, <1>2, <2>1, ZenonT(60) DEF TypeOK, FileSize, Steps, Replies
<1>4. Stages'
  <2>1. Stage(w)'
    <3>1. CASE job'[w] = Idle
      BY <3>1 DEF Stage, Idle, CreatePcs, CleanPcs, ReadPcs, DeletePcs
    <3>2. CASE job'[w].blob = b /\ job'[w].pc = "unlink_meta" /\ UnlinkData(w)
      BY <1>1, <3>2 DEF TypeOK, Stages, Stage, CreatePcs, CleanPcs, ReadPcs, DeletePcs
    <3>. QED BY <1>2, <3>1, <3>2
  <2>2. ASSUME NEW v \in Workers \ {w} PROVE Stage(v)'
    <3>1. job'[v] = job[v]
      BY <1>2 DEF TypeOK, Steps
    <3>2. CASE job[v].blob # b
      <4>1. \A c \in Blobs \ {b} :
              /\ data'[c] = data[c] /\ meta'[c] = meta[c]
              /\ tempData'[c] = tempData[c] /\ tempMeta'[c] = tempMeta[c]
        BY <1>1 DEF TypeOK
      <4>2. Stage(v) /\ drawn' = drawn /\ issued' = issued /\ doomed' = doomed
        BY DEF Stages
      <4> HIDE DEF Inv, Removes, CleanMeta, UnlinkData, UnlinkMeta
      <4>. QED BY <3>1, <3>2, <4>1, <4>2 DEF Stage, Clear, CreatePcs, CleanPcs, ReadPcs, DeletePcs
    <3>3. CASE job[v].blob = b
      <4>1. job[v].pc \notin CreatePcs
        BY <1>1, <3>3 DEF Alone, Stages, Stage, CreatePcs, CleanPcs
      <4>. QED BY <1>1, <3>1, <3>3, <4>1 DEF TypeOK, Stages, Stage, CreatePcs, CleanPcs
    <3>. QED BY <3>2, <3>3
  <2>. QED BY <2>1, <2>2 DEF Stages
<1>5. Alone'
  BY <1>2 DEF Steps, TypeOK, Alone, Idle, CreatePcs, CleanPcs
<1>6. Ordered'
  BY <1>1 DEF TypeOK, Ordered, Stages, Stage
<1>7. Lineage'
  BY <1>1 DEF TypeOK, Lineage, Clear, Stages, Stage
<1>8. DeletedIsGone'
  BY <1>1 DEF TypeOK, DeletedIsGone, Stages, Stage
<1>9. NoLitter'
  <2>1. \A c \in Blobs \ stranded' : c = b => Tidy(c)'
    <3>1. CASE CleanMeta(w)
      BY <1>1, <3>1 DEF TypeOK, Stages, Stage, Tidy
    <3>2. CASE UnlinkData(w) \/ UnlinkMeta(w)
      <4>1. b \in issued'
        BY <1>1, <3>2
      <4>. QED BY <1>6, <4>1 DEF Ordered, Tidy
    <3>. QED BY <3>1, <3>2
  <2>2. \A c \in Blobs \ {b} :
          /\ data'[c] = data[c] /\ meta'[c] = meta[c]
          /\ tempData'[c] = tempData[c] /\ tempMeta'[c] = tempMeta[c]
    BY <1>1 DEF TypeOK
  <2>. QED BY <1>2, <2>1, <2>2, StillTidy DEF TypeOK
<1>. QED BY <1>3, <1>4, <1>5, <1>6, <1>7, <1>8, <1>9

LEMMA NextInv == Inv /\ [Next]_vars => Inv'
<1> SUFFICES ASSUME Inv, [Next]_vars PROVE Inv'
  OBVIOUS
<1>1. ASSUME NEW w \in Workers, CreateRefused(w) \/ Step(w) \/ CutOff(w) PROVE Inv'
  BY <1>1, CreatesInv, LooksInv, RemovesInv DEF Step, Creates, Looks, Removes
<1>2. ASSUME NEW w \in Workers, NEW b \in Blobs, NEW token \in {"read", "delete"},
             CreateBegin(w, b) \/ ReadBegin(w, b, token) \/ DeleteBegin(w, b, token)
      PROVE  Inv'
  BY <1>2, BeginInv
<1>3. CASE UNCHANGED vars
  BY <1>3 DEF vars, files, history, Inv, TypeOK, Stages, Stage, Alone, Ordered, Lineage, Clear,
    DeletedIsGone, NoLitter, Creating
<1>. QED BY <1>1, <1>2, <1>3 DEF Next

-----------------------------------------------------------------------------
(* The refinement of BlobSpec.                                             *)

(* A step that changes no content and answers the truth.                   *)
LEMMA AnswerStep ==
  ASSUME TypeOK, NEW w \in Workers, NEW r \in B!Reply, B!True(r),
         reply' = [reply EXCEPT ![w] = r], content' = content, gone' = gone
  PROVE  B!Next
<1>1. reply'[w] = r
  BY DEF TypeOK
<1>. QED BY <1>1 DEF B!Next, B!Answer, B!True

(* Answers that say nothing of the blob.                                   *)
LEMMA NeitherStep ==
  ASSUME TypeOK, NEW w \in Workers, NEW a \in B!Neither, NEW b \in Blobs \cup {NoBlob},
         reply' = [reply EXCEPT ![w] = Said(a, b, 0)], content' = content, gone' = gone
  PROVE  B!Next
<1>1. Said(a, b, 0) \in B!Reply /\ B!True(Said(a, b, 0))
  BY DEF Said, B!Reply, B!True, B!Neither, B!Present, B!Absent
<1>. QED BY <1>1, AnswerStep

(* Answers that say what is there.                                         *)
LEMMA PresentStep ==
  ASSUME TypeOK, NEW w \in Workers, NEW a \in B!Present, NEW b \in Blobs, content[b] \in Nat,
         reply' = [reply EXCEPT ![w] = Said(a, b, content[b])], content' = content, gone' = gone
  PROVE  B!Next
<1>1. Said(a, b, content[b]) \in B!Reply /\ B!True(Said(a, b, content[b]))
  BY DEF Said, B!Reply, B!True, B!Neither, B!Present, B!Absent
<1>. QED BY <1>1, AnswerStep

(* Answers that say that there is nothing.                                 *)
LEMMA AbsentStep ==
  ASSUME TypeOK, NEW w \in Workers, NEW a \in B!Absent, NEW b \in Blobs, content[b] = NoFile,
         reply' = [reply EXCEPT ![w] = Said(a, b, 0)], content' = content, gone' = gone
  PROVE  B!Next
<1>1. Said(a, b, 0) \in B!Reply /\ B!True(Said(a, b, 0))
  BY DEF Said, B!Reply, B!True, B!Neither, B!Present, B!Absent
<1>. QED BY <1>1, AnswerStep

LEMMA CreatesStep ==
  ASSUME Inv, NEW w \in Workers, Creates(w)
  PROVE  B!Next \/ UNCHANGED B!specVars
<1> DEFINE b == job[w].blob
<1>1. /\ b \in Blobs /\ b \notin issued /\ b \notin doomed /\ job[w].size \in Nat
      /\ doomed' = doomed
  BY DEF Inv, Creates, CreateOpen, Receive, ReceiveEnd, WriteMeta, ReplaceData, ReplaceMeta,
    CreateError, CleanTempData, CleanTempMeta, CleanData, At, TypeOK, Job, Stages, Stage, CreatePcs,
    CleanPcs, Lineage, history
<1>2. \A c \in Blobs \ {b} : data'[c] = data[c] /\ meta'[c] = meta[c]
  BY <1>1 DEF Inv, TypeOK, Creates, CreateOpen, Receive, ReceiveEnd, WriteMeta, ReplaceData,
    ReplaceMeta, CreateError, CleanTempData, CleanTempMeta, CleanData, files
<1>3. gone' = gone
  <2>1. \A c \in doomed : data'[c] = data[c]
    BY <1>1, <1>2 DEF Inv, TypeOK
  <2>. QED BY <1>1, <2>1 DEF gone
<1>4. CASE ReplaceMeta(w)
  <2>1. content[b] = NoFile /\ content'[b] = job[w].size
    BY <1>1, <1>4, NullValues DEF ReplaceMeta, At, content, Inv, TypeOK, Stages, Stage
  <2>2. content' = [content EXCEPT ![b] = content'[b]]
    BY <1>1, <1>2 DEF content
  <2>3. b \notin gone /\ reply' = reply
    BY <1>1, <1>4 DEF gone, ReplaceMeta
  <2>. QED BY <1>1, <1>3, <2>1, <2>2, <2>3 DEF B!Next, B!Put
<1>5. CASE ~ReplaceMeta(w)
  <2>1. meta' = meta /\ (data' = data \/ meta[b] = NoFile)
    BY <1>5 DEF Inv, Stages, Stage, Creates, CreateOpen, Receive, ReceiveEnd, WriteMeta,
      ReplaceData, CreateError, CleanTempData, CleanTempMeta, CleanData, At, CleanPcs, files
  <2>2. content' = content
    BY <1>2, <2>1 DEF content
  <2>3. \/ reply' = reply
        \/ reply' = [reply EXCEPT ![w] = Said("too_large", b, 0)]
        \/ reply' = [reply EXCEPT ![w] = Said("error", b, 0)]
    BY <1>5 DEF Creates, CreateOpen, Receive, ReceiveEnd, WriteMeta, ReplaceData, CreateError,
      CleanTempData, CleanTempMeta, CleanData
  <2>. QED BY <1>1, <1>3, <2>2, <2>3, NeitherStep DEF B!specVars, B!Neither, Inv
<1>. QED BY <1>4, <1>5

LEMMA BeginStep ==
  ASSUME Inv, NEW w \in Workers, NEW b \in Blobs, NEW token \in {"read", "delete"},
         CreateBegin(w, b) \/ ReadBegin(w, b, token) \/ DeleteBegin(w, b, token)
  PROVE  B!Next
<1>1. reply' = [reply EXCEPT ![w] = Said("none", NoBlob, 0)]
  BY DEF CreateBegin, ReadBegin, DeleteBegin, Start
<1>2. content' = content /\ gone' = gone
  BY DEF CreateBegin, ReadBegin, DeleteBegin, content, gone, files, history
<1>. QED BY <1>1, <1>2, NeitherStep DEF Inv, B!Neither

LEMMA LooksStep ==
  ASSUME Inv, NEW w \in Workers, Looks(w)
  PROVE  B!Next \/ UNCHANGED B!specVars
<1> DEFINE b == job[w].blob
           Finishes(a) == reply' = [reply EXCEPT ![w] = Said(a, b, 0)]
<1> USE DEF Inv
<1>1. /\ b \in Blobs \cup {NoBlob}
      /\ CreateAnswer(w) \/ LoadMissing(w) \/ LoadGranted(w) \/ Check(w) \/ Serve(w) => b \in Blobs
  BY DEF TypeOK, Job, Stages, Stage, CreateAnswer, LoadMissing, LoadGranted, Check, Serve, At
<1>2. content' = content
  BY DEF Looks, CreateRefused, CreateAnswer, CreateAnswerLost, CutOff, LoadMissing, LoadForbidden,
    LoadGranted, LoadUnreadable, Check, Serve, DeleteError, CleanError, content, files
<1>3. gone' = gone
  <2>1. CASE LoadGranted(w)
    BY <2>1, <1>1 DEF LoadGranted, gone, files, Ordered, Stages, Stage, ReadPcs, DeletePcs
  <2>2. CASE ~LoadGranted(w)
    BY <2>2 DEF Looks, CreateRefused, CreateAnswer, CreateAnswerLost, CutOff, LoadMissing,
      LoadForbidden, LoadUnreadable, Check, Serve, DeleteError, CleanError, gone, files, history
  <2>. QED BY <2>1, <2>2
<1>4. CASE \/ CreateRefused(w) \/ CreateAnswerLost(w) \/ CutOff(w) \/ LoadForbidden(w)
           \/ LoadUnreadable(w) \/ DeleteError(w) \/ CleanError(w)
  <2>1. \E a \in B!Neither : Finishes(a)
    BY <1>4 DEF Finish, CreateRefused, CreateAnswerLost, CutOff, LoadForbidden, LoadUnreadable,
      DeleteError, CleanError, B!Neither
  <2>. QED BY <1>1, <1>2, <1>3, <2>1, NeitherStep
<1>5. CASE CreateAnswer(w)
  <2>1. content[b] = job[w].size /\ job[w].size \in Nat
    BY <1>1, <1>5, NullValues DEF CreateAnswer, At, TypeOK, Job, Stages, Stage, content
  <2>. QED BY <1>1, <1>2, <1>3, <1>5, <2>1, PresentStep DEF CreateAnswer, Finish, B!Present
<1>6. CASE LoadMissing(w) \/ (Check(w) /\ data[b] = NoFile)
  <2>1. b \in Blobs /\ content[b] = NoFile
    <3>1. b \in Blobs /\ (meta[b] = NoFile \/ data[b] = NoFile)
      BY <1>1, <1>6 DEF LoadMissing
    <3>. QED BY <3>1 DEF content
  <2>2. \E a \in B!Absent : Finishes(a)
    BY <1>6 DEF LoadMissing, Check, Finish, B!Absent
  <2>. QED BY <1>2, <1>3, <2>1, <2>2, AbsentStep
<1>7. CASE Serve(w)
  <2>1. CASE data[b] = NoFile
    BY <1>1, <1>2, <1>3, <1>7, <2>1, NeitherStep DEF Serve, Finish, B!Neither
  <2>2. CASE data[b] # NoFile
    <3>1. content[b] = data[b] /\ data[b] \in Nat
      BY <1>1, <1>7, <2>2 DEF Serve, At, TypeOK, FileSize, Stages, Stage, Ordered, ReadPcs, content
    <3>. QED BY <1>1, <1>2, <1>3, <1>7, <2>2, <3>1, PresentStep DEF Serve, Finish, B!Present
  <2>. QED BY <2>1, <2>2
<1>8. CASE LoadGranted(w) \/ (Check(w) /\ data[b] # NoFile)
  BY <1>2, <1>3, <1>8 DEF LoadGranted, Check, B!specVars
<1>. QED BY <1>4, <1>5, <1>6, <1>7, <1>8 DEF Looks

LEMMA RemovesStep ==
  ASSUME Inv, NEW w \in Workers, Removes(w)
  PROVE  B!Next \/ UNCHANGED B!specVars
<1> DEFINE b == job[w].blob
<1> USE NullValues DEF Inv, Removes, At
<1>1. b \in Blobs
  BY DEF CleanMeta, UnlinkData, UnlinkMeta, Stages, Stage
<1>2. CASE CleanMeta(w)
  <2>1. meta[b] = NoFile /\ b \notin doomed
    BY <1>1, <1>2 DEF CleanMeta, Stages, Stage, CreatePcs, CleanPcs, Lineage
  <2>2. content' = content
    BY <1>1, <1>2, <2>1 DEF CleanMeta, content, TypeOK
  <2>3. gone' = gone /\ reply' = reply
    BY <1>1, <1>2, <2>1 DEF CleanMeta, gone, TypeOK, history
  <2>. QED BY <2>2, <2>3 DEF B!specVars
<1>3. CASE UnlinkMeta(w)
  <2>1. data[b] = NoFile /\ content[b] = NoFile
    BY <1>1, <1>3 DEF UnlinkMeta, Stages, Stage, content
  <2>2. content' = content /\ gone' = gone
    BY <1>1, <1>3, <2>1 DEF UnlinkMeta, content, gone, TypeOK
  <2>. QED BY <1>1, <1>3, <2>1, <2>2, AbsentStep DEF UnlinkMeta, Finish, B!Absent
<1>4. CASE UnlinkData(w)
  <2>1. b \in issued /\ b \in doomed /\ reply' = reply /\ doomed' = doomed /\ meta' = meta
    BY <1>4 DEF UnlinkData, Stages, Stage, ReadPcs, DeletePcs, history
  <2>2. data' = [data EXCEPT ![b] = NoFile] /\ data \in [Blobs -> FileSize]
    BY <1>4 DEF UnlinkData, TypeOK
  <2>3. content' = [content EXCEPT ![b] = NoFile]
    BY <1>1, <2>1, <2>2 DEF content
  <2>4. gone' = gone \cup {b}
    BY <1>1, <2>1, <2>2 DEF gone, TypeOK
  <2>5. CASE content[b] # NoFile
    BY <1>1, <2>1, <2>3, <2>4, <2>5 DEF B!Next, B!Drop
  <2>6. CASE content[b] = NoFile
    <3>1. data[b] = NoFile
      BY <1>1, <2>1, <2>6 DEF Ordered, content
    <3>2. content' = content
      BY <1>1, <2>3, <2>6 DEF content
    <3>3. gone' = gone
      BY <1>1, <2>1, <2>4, <3>1 DEF gone
    <3>. QED BY <2>1, <3>2, <3>3 DEF B!specVars
  <2>. QED BY <2>5, <2>6
<1>. QED BY <1>2, <1>3, <1>4

-----------------------------------------------------------------------------
(* Types; no file outgrows the limit.                                      *)
THEOREM NothingOversized == Spec => []TypeOK
<1>1. Inv => TypeOK
  BY DEF Inv
<1>. QED BY <1>1, InitInv, NextInv, PTL DEF Spec

(* An issued blob keeps both its files until a delete with the right token *)
(* comes.                                                                  *)
THEOREM IssuedBlobIsKept == Spec => []IssuedIsKept
<1>1. Inv => IssuedIsKept
  BY DEF Inv, Ordered, IssuedIsKept
<1>. QED BY <1>1, InitInv, NextInv, PTL DEF Spec

(* After an answered delete both files are gone for good.                  *)
THEOREM DeletedBlobIsGone == Spec => []DeletedIsGone
<1>1. Inv => DeletedIsGone
  BY DEF Inv
<1>. QED BY <1>1, InitInv, NextInv, PTL DEF Spec

(* What remains on disk without an owner comes from uploads that were cut  *)
(* off, whose answer was lost, or whose clean-up itself raised; and of the *)
(* last there is never metadata, so nothing can be read.                   *)
THEOREM FailedUploadLeavesNothing == Spec => []NoLitter
<1>1. Inv => NoLitter
  BY DEF Inv
<1>. QED BY <1>1, InitInv, NextInv, PTL DEF Spec

(* Two files per blob, renamed and removed one after the other without a   *)
(* lock, show their users one blob that appears and disappears at once.    *)
THEOREM StoreImplementsBlobSpec == Spec => ImplementsBlobSpec
<1>1. Init => B!Init
  BY DEF Init, B!Init, B!NoReply, content, gone, Said
<1>2. Inv /\ [Next]_vars => [B!Next]_(B!specVars)
  <2> SUFFICES ASSUME Inv, [Next]_vars PROVE B!Next \/ UNCHANGED B!specVars
    OBVIOUS
  <2>1. ASSUME NEW w \in Workers, CreateRefused(w) \/ Step(w) \/ CutOff(w)
        PROVE  B!Next \/ UNCHANGED B!specVars
    BY <2>1, CreatesStep, LooksStep, RemovesStep DEF Step, Creates, Looks, Removes
  <2>2. ASSUME NEW w \in Workers, NEW b \in Blobs, NEW token \in {"read", "delete"},
               CreateBegin(w, b) \/ ReadBegin(w, b, token) \/ DeleteBegin(w, b, token)
        PROVE  B!Next
    BY <2>2, BeginStep
  <2>3. CASE UNCHANGED vars
    BY <2>3 DEF vars, files, history, B!specVars, content, gone
  <2>. QED BY <2>1, <2>2, <2>3 DEF Next
<1>. QED BY <1>1, <1>2, InitInv, NextInv, PTL DEF Spec, ImplementsBlobSpec, B!Spec
=============================================================================

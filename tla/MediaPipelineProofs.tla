------------------------ MODULE MediaPipelineProofs ------------------------
(***************************************************************************)
(* Proofs that the safety properties of MediaPipeline hold for any number  *)
(* of uploads, workers, requests, messages and faults: first the rows and  *)
(* the objects, then the queue.                                            *)
(***************************************************************************)
EXTENDS MediaPipeline, TLAPS

\* A worker past the fetch has the original, and past each put the variant,
\* unless a media row of the upload has been deleted meanwhile.
WorkerBacked ==
    \A w \in Workers :
        /\ pc[w] \in {"thumb", "medium", "commit"} =>
              original[Upload(w)] # "missing" \/ RowDeleted(Upload(w))
        /\ pc[w] \in {"medium", "commit"} =>
              Upload(w) \in thumb \/ RowDeleted(Upload(w))
        /\ pc[w] = "commit" =>
              Upload(w) \in medium \/ RowDeleted(Upload(w))

\* A request that deletes objects has deleted a media row of theirs before.
RowBeforeObjects ==
    \A h \in Handlers : hpc[h] \in Deleting => RowDeleted(hup[h])

-----------------------------------------------------------------------------
\* What a received message names: an upload.
LEMMA UploadOfJob ==
    ASSUME TypeOK, NEW w \in Workers, pc[w] # "idle"
    PROVE  /\ job[w] \in Messages
           /\ Upload(w) \in Uploads
           /\ <<Upload(w), w>> \in Media
BY DEF TypeOK, Messages, Upload, Media

\* Types are preserved by every step.
LEMMA TypeInductive == TypeOK /\ [Next]_vars => TypeOK'
<1> SUFFICES ASSUME TypeOK, [Next]_vars PROVE TypeOK'
    OBVIOUS
<1> USE NoneAssumption, MaxFaultsAssumption, MaxReceivesAssumption DEF TypeOK, redrive
<1>1. ASSUME NEW u \in Uploads, create_upload(u) PROVE TypeOK'
    BY <1>1 DEF create_upload, objects, worker, api, Status
<1>2. ASSUME NEW u \in Uploads, NEW c \in {"good", "bad"}, PutOriginal(u, c) PROVE TypeOK'
    BY <1>2 DEF PutOriginal, rows, worker, api
<1>3. ASSUME NEW h \in Handlers, Api(h) PROVE TypeOK'
  <2>1. ASSUME NEW u \in Uploads, complete_upload(h, u) PROVE TypeOK'
      BY <2>1 DEF complete_upload, objects, worker, Status
  <2>2. CASE enqueue_processing(h)
      BY <2>2 DEF enqueue_processing, enqueue_media_job, Queued, FreeSlots, rows, objects, worker
  <2>3. ASSUME NEW i \in live, delete_media(h, i) PROVE TypeOK'
      BY <2>3 DEF delete_media, objects, worker, Media, Deleting
  <2>4. CASE delete_original(h)
      BY <2>4 DEF delete_original, rows, worker, Deleting
  <2>5. CASE delete_thumb(h)
      BY <2>5 DEF delete_thumb, rows, worker, Deleting
  <2>6. CASE delete_medium(h)
      BY <2>6 DEF delete_medium, rows, worker
  <2>7. CASE DeleteObjectFails(h)
      BY <2>7 DEF DeleteObjectFails, Fault, rows, objects, worker, Deleting
  <2>8. CASE RequestDies(h)
      BY <2>8 DEF RequestDies, Fault, rows, objects, worker
  <2> HIDE DEF TypeOK, redrive
  <2> QED BY <1>3, <2>1, <2>2, <2>3, <2>4, <2>5, <2>6, <2>7, <2>8 DEF Api
<1>4. ASSUME NEW m \in Messages, VisibilityTimeout(m) PROVE TypeOK'
    BY <1>4 DEF VisibilityTimeout, rows, objects, worker, api
<1>d. ASSUME NEW m \in Messages, DeadLetter(m) PROVE TypeOK'
  <2>1. dead' \in SUBSET Uploads
      BY <1>d, Zenon DEF DeadLetter, Messages
  <2> QED BY <1>d, <2>1 DEF DeadLetter, Gone, rows, objects, worker, api
<1>x. ASSUME NEW m \in Messages, MessageExpires(m) PROVE TypeOK'
    BY <1>x DEF MessageExpires, Gone, Fault, rows, objects, worker, api
<1>5. ASSUME NEW w \in Workers, NEW m \in Messages, receive_media_job(w, m) PROVE TypeOK'
    BY <1>5 DEF receive_media_job, Goto, rows, objects, api, InProcess
<1>6. ASSUME NEW w \in Workers, process_job(w) PROVE TypeOK'
  <2> USE UploadOfJob DEF Goto, Release, InProcess
  <2>1. CASE Claim(w)
      BY <2>1 DEF Claim, objects, api, Status
  <2>2. CASE Fetch(w)
      BY <2>2 DEF Fetch, rows, objects, api
  <2>3. CASE StoreThumb(w)
      BY <2>3, ZenonT(30) DEF StoreThumb, rows, api
  <2>4. CASE StoreMedium(w)
      BY <2>4, ZenonT(30) DEF StoreMedium, rows, api
  <2>5. CASE Commit(w)
      BY <2>5 DEF Commit, objects, api, Status
  <2>6. CASE mark_failed(w)
      BY <2>6 DEF mark_failed, Fault, objects, api, Status
  <2>7. CASE delete_message(w)
      BY <2>7 DEF delete_message, Gone, rows, objects, api
  <2> HIDE DEF TypeOK, redrive
  <2> QED BY <1>6, <2>1, <2>2, <2>3, <2>4, <2>5, <2>6, <2>7 DEF process_job
<1>7. ASSUME NEW w \in Workers, WorkerInterrupted(w) PROVE TypeOK'
    BY <1>7 DEF WorkerInterrupted, Fault, Release, Goto, rows, objects, api
<1>8. CASE Sweep
  <2>1. ASSUME NEW Aged \in SUBSET UnsettledUploads, requeue_stale_uploads(Aged) PROVE TypeOK'
      BY <2>1 DEF requeue_stale_uploads, Oldest, UnsettledUploads, rows, objects, worker, api
  <2>2. ASSUME NEW u \in Uploads, Requeue(u) PROVE TypeOK'
      BY <2>2 DEF Requeue, enqueue_media_job, Queued, FreeSlots, Fault, rows, objects, worker, api
  <2>3. CASE SweepDies
      BY <2>3 DEF SweepDies, Fault, rows, objects, worker, api
  <2> HIDE DEF TypeOK, redrive
  <2> QED BY <1>8, <2>1, <2>2, <2>3 DEF Sweep
<1>9. CASE UNCHANGED vars
    BY <1>9 DEF vars
<1> HIDE DEF TypeOK, redrive
<1> QED BY <1>1, <1>2, <1>3, <1>4, <1>d, <1>x, <1>5, <1>6, <1>7, <1>8, <1>9 DEF Next

\* Every variable of MediaPipeline keeps its type in every reachable state.
THEOREM TypeCorrect == Spec => []TypeOK
<1>1. Init => TypeOK
    BY NoneAssumption, MaxFaultsAssumption, MaxReceivesAssumption DEF Init, TypeOK, Status
<1> QED BY <1>1, TypeInductive, PTL DEF Spec

-----------------------------------------------------------------------------
\* The rows: what tables media_uploads and media say of each other.
RowInv == NoOrphanedMedia /\ FreshMediaId /\ CompletedPointsAtMedia

\* Every step keeps the two tables in agreement: only Commit adds a media row,
\* and it completes the upload in the same transaction.
LEMMA RowInvInductive == TypeOK /\ RowInv /\ [Next]_vars => RowInv'
<1> SUFFICES ASSUME TypeOK, RowInv, [Next]_vars PROVE RowInv'
    OBVIOUS
<1> USE NoneAssumption DEF TypeOK, RowInv, NoOrphanedMedia, FreshMediaId,
        CompletedPointsAtMedia, RowDeleted, Upload, InProcess, Media, Messages
<1>1. ASSUME NEW u \in Uploads, create_upload(u) PROVE RowInv'
    BY <1>1 DEF create_upload, objects, worker, api
<1>2. ASSUME NEW u \in Uploads, NEW c \in {"good", "bad"}, PutOriginal(u, c) PROVE RowInv'
    BY <1>2 DEF PutOriginal, rows, worker, api
<1>3. ASSUME NEW h \in Handlers, Api(h) PROVE RowInv'
  <2>1. ASSUME NEW u \in Uploads, complete_upload(h, u) PROVE RowInv'
      BY <2>1 DEF complete_upload, objects, worker
  <2>2. CASE enqueue_processing(h)
      BY <2>2 DEF enqueue_processing, enqueue_media_job, Queued, FreeSlots, rows, objects, worker
  <2>3. ASSUME NEW i \in live, delete_media(h, i) PROVE RowInv'
      BY <2>3 DEF delete_media, objects, worker
  <2>4. CASE delete_original(h)
      BY <2>4 DEF delete_original, rows, worker
  <2>5. CASE delete_thumb(h)
      BY <2>5 DEF delete_thumb, rows, worker
  <2>6. CASE delete_medium(h)
      BY <2>6 DEF delete_medium, rows, worker
  <2>7. CASE DeleteObjectFails(h)
      BY <2>7 DEF DeleteObjectFails, Fault, rows, objects, worker
  <2>8. CASE RequestDies(h)
      BY <2>8 DEF RequestDies, Fault, rows, objects, worker
  <2> HIDE DEF TypeOK, RowInv, NoOrphanedMedia, FreshMediaId, CompletedPointsAtMedia,
           RowDeleted, Upload, InProcess, Media, Messages
  <2> QED BY <1>3, <2>1, <2>2, <2>3, <2>4, <2>5, <2>6, <2>7, <2>8 DEF Api
<1>4. ASSUME NEW m \in Messages, VisibilityTimeout(m) PROVE RowInv'
    BY <1>4 DEF VisibilityTimeout, rows, objects, worker, api
<1>d. ASSUME NEW m \in Messages, DeadLetter(m) PROVE RowInv'
    BY <1>d DEF DeadLetter, Gone, Queued, rows, objects, worker, api
<1>x. ASSUME NEW m \in Messages, MessageExpires(m) PROVE RowInv'
    BY <1>x DEF MessageExpires, Gone, Fault, rows, objects, worker, api
<1>5. ASSUME NEW w \in Workers, NEW m \in Messages, receive_media_job(w, m) PROVE RowInv'
    BY <1>5 DEF receive_media_job, Goto, rows, objects, api
<1>6. ASSUME NEW w \in Workers, process_job(w) PROVE RowInv'
  <2>1. CASE Claim(w)
    <3>1. Upload(w) \in Uploads /\ job[w] # None
        BY <2>1, UploadOfJob DEF Claim
    <3>2. NoOrphanedMedia'
        BY <2>1, <3>1 DEF Claim, Unsettled
    <3>3. FreshMediaId'
        BY <2>1, <3>1 DEF Claim, Goto, Unsettled
    <3>4. CompletedPointsAtMedia'
        BY <2>1, <3>1 DEF Claim, Unsettled
    <3> QED BY <3>2, <3>3, <3>4
  <2>2. CASE Fetch(w)
      BY <2>2 DEF Fetch, Goto, Release, rows, objects, api
  <2>3. CASE StoreThumb(w)
      BY <2>3 DEF StoreThumb, Goto, rows, api
  <2>4. CASE StoreMedium(w)
      BY <2>4 DEF StoreMedium, Goto, rows, api
  <2>5. CASE Commit(w)
      BY <2>5 DEF Commit, Goto, objects, api
  <2>6. CASE mark_failed(w)
      BY <2>6 DEF mark_failed, Fault, Goto, objects, api
  <2>7. CASE delete_message(w)
      BY <2>7 DEF delete_message, Gone, Goto, Release, rows, objects, api
  <2> HIDE DEF TypeOK, RowInv, NoOrphanedMedia, FreshMediaId, CompletedPointsAtMedia,
           RowDeleted, Upload, InProcess, Media, Messages
  <2> QED BY <1>6, <2>1, <2>2, <2>3, <2>4, <2>5, <2>6, <2>7 DEF process_job
<1>7. ASSUME NEW w \in Workers, WorkerInterrupted(w) PROVE RowInv'
    BY <1>7 DEF WorkerInterrupted, Fault, Release, Goto, rows, objects, api
<1>8. CASE Sweep
  <2>1. ASSUME NEW Aged \in SUBSET UnsettledUploads, requeue_stale_uploads(Aged) PROVE RowInv'
      BY <2>1 DEF requeue_stale_uploads, Oldest, UnsettledUploads, rows, objects, worker, api
  <2>2. ASSUME NEW u \in Uploads, Requeue(u) PROVE RowInv'
      BY <2>2 DEF Requeue, enqueue_media_job, Queued, FreeSlots, Fault, rows, objects, worker, api
  <2>3. CASE SweepDies
      BY <2>3 DEF SweepDies, Fault, rows, objects, worker, api
  <2> HIDE DEF TypeOK, RowInv, NoOrphanedMedia, FreshMediaId, CompletedPointsAtMedia,
           RowDeleted, Upload, InProcess, Media, Messages
  <2> QED BY <1>8, <2>1, <2>2, <2>3 DEF Sweep
<1>9. CASE UNCHANGED vars
    BY <1>9 DEF vars
<1> HIDE DEF TypeOK, RowInv
<1> QED BY <1>1, <1>2, <1>3, <1>4, <1>d, <1>x, <1>5, <1>6, <1>7, <1>8, <1>9 DEF Next

-----------------------------------------------------------------------------
\* Rows of table media appear in Commit and disappear in delete_media only.
LEMMA MediaChangedBy ==
    ASSUME [Next]_vars
    PROVE  \/ UNCHANGED <<inserted, live>>
           \/ \E h \in Handlers : \E i \in live : delete_media(h, i)
           \/ \E w \in Workers : Commit(w)
BY Zenon DEF Next, vars, Api, process_job, Sweep, create_upload, PutOriginal, complete_upload,
       enqueue_processing, delete_original, delete_thumb, delete_medium,
       DeleteObjectFails, RequestDies, VisibilityTimeout, DeadLetter, MessageExpires,
           receive_media_job, Claim,
       Fetch, StoreThumb, StoreMedium, mark_failed, delete_message, WorkerInterrupted,
       requeue_stale_uploads, Requeue, SweepDies, rows

\* A deleted row is never inserted again.
LEMMA RowDeletedStable ==
    ASSUME TypeOK, RowInv, [Next]_vars, NEW u, RowDeleted(u)
    PROVE  RowDeleted(u)'
<1>1. CASE UNCHANGED <<inserted, live>>
    BY <1>1 DEF RowDeleted
<1>2. ASSUME NEW h \in Handlers, NEW i \in live, delete_media(h, i) PROVE RowDeleted(u)'
    BY <1>2 DEF delete_media, RowDeleted
<1>3. ASSUME NEW w \in Workers, Commit(w) PROVE RowDeleted(u)'
    BY <1>3 DEF Commit, RowDeleted, RowInv, FreshMediaId, InProcess
<1> QED BY <1>1, <1>2, <1>3, MediaChangedBy

\* The objects: what the store holds for each row, worker and request.
ObjectInv == RowBeforeObjects /\ WorkerBacked /\ BrokenOnlyAfterDelete

\* Every step keeps the objects behind the rows: the worker stores them before
\* it commits, and delete_media deletes the row before them.
LEMMA ObjectInvInductive == TypeOK /\ RowInv /\ ObjectInv /\ [Next]_vars => ObjectInv'
<1> SUFFICES ASSUME TypeOK, RowInv, ObjectInv, [Next]_vars PROVE ObjectInv'
    OBVIOUS
<1>0. \A u : RowDeleted(u) => RowDeleted(u)'
    BY RowDeletedStable
<1> USE NoneAssumption DEF TypeOK, ObjectInv, RowBeforeObjects, WorkerBacked,
        BrokenOnlyAfterDelete, ObjectsStored, Upload, Deleting
<1>1. ASSUME NEW u \in Uploads, create_upload(u) PROVE ObjectInv'
    BY <1>0, <1>1 DEF create_upload, objects, worker, api
<1>2. ASSUME NEW u \in Uploads, NEW c \in {"good", "bad"}, PutOriginal(u, c) PROVE ObjectInv'
    BY <1>0, <1>2 DEF PutOriginal, rows, worker, api
<1>3. ASSUME NEW h \in Handlers, Api(h) PROVE ObjectInv'
  <2>1. ASSUME NEW u \in Uploads, complete_upload(h, u) PROVE ObjectInv'
      BY <1>0, <2>1 DEF complete_upload, objects, worker
  <2>2. CASE enqueue_processing(h)
      BY <1>0, <2>2 DEF enqueue_processing, enqueue_media_job, Queued, FreeSlots, rows, objects, worker
  <2>3. ASSUME NEW i \in live, delete_media(h, i) PROVE ObjectInv'
    <3>1. RowDeleted(i[1])'
        BY <2>3 DEF delete_media, RowDeleted
    <3> QED BY <1>0, <2>3, <3>1 DEF delete_media, objects, worker
  <2>4. CASE delete_original(h)
      BY <1>0, <2>4 DEF delete_original, rows, worker
  <2>5. CASE delete_thumb(h)
      BY <1>0, <2>5 DEF delete_thumb, rows, worker
  <2>6. CASE delete_medium(h)
      BY <1>0, <2>6 DEF delete_medium, rows, worker
  <2>7. CASE DeleteObjectFails(h)
      BY <1>0, <2>7 DEF DeleteObjectFails, Fault, rows, objects, worker
  <2>8. CASE RequestDies(h)
      BY <1>0, <2>8 DEF RequestDies, Fault, rows, objects, worker
  <2> HIDE DEF TypeOK, ObjectInv, RowBeforeObjects, WorkerBacked, BrokenOnlyAfterDelete,
           ObjectsStored, Upload, Deleting
  <2> QED BY <1>3, <2>1, <2>2, <2>3, <2>4, <2>5, <2>6, <2>7, <2>8 DEF Api
<1>4. ASSUME NEW m \in Messages, VisibilityTimeout(m) PROVE ObjectInv'
    BY <1>0, <1>4 DEF VisibilityTimeout, rows, objects, worker, api
<1>d. ASSUME NEW m \in Messages, DeadLetter(m) PROVE ObjectInv'
    BY <1>0, <1>d DEF DeadLetter, Gone, Queued, rows, objects, worker, api
<1>x. ASSUME NEW m \in Messages, MessageExpires(m) PROVE ObjectInv'
    BY <1>0, <1>x DEF MessageExpires, Gone, Fault, rows, objects, worker, api
<1>5. ASSUME NEW w \in Workers, NEW m \in Messages, receive_media_job(w, m) PROVE ObjectInv'
    BY <1>0, <1>5 DEF receive_media_job, Goto, rows, objects, api
<1>6. ASSUME NEW w \in Workers, process_job(w) PROVE ObjectInv'
  <2>1. CASE Claim(w)
      BY <1>0, <2>1 DEF Claim, Goto, Unsettled, objects, api
  <2>2. CASE Fetch(w)
      BY <1>0, <2>2 DEF Fetch, Goto, Release, rows, objects, api
  <2>3. CASE StoreThumb(w)
      BY <1>0, <2>3 DEF StoreThumb, Goto, rows, api
  <2>4. CASE StoreMedium(w)
      BY <1>0, <2>4 DEF StoreMedium, Goto, rows, api
  <2>5. CASE Commit(w)
      BY <1>0, <2>5 DEF Commit, Goto, objects, api
  <2>6. CASE mark_failed(w)
      BY <1>0, <2>6 DEF mark_failed, Fault, Goto, objects, api
  <2>7. CASE delete_message(w)
      BY <1>0, <2>7 DEF delete_message, Gone, Goto, Release, rows, objects, api
  <2> HIDE DEF TypeOK, ObjectInv, RowBeforeObjects, WorkerBacked, BrokenOnlyAfterDelete,
           ObjectsStored, Upload, Deleting
  <2> QED BY <1>6, <2>1, <2>2, <2>3, <2>4, <2>5, <2>6, <2>7 DEF process_job
<1>7. ASSUME NEW w \in Workers, WorkerInterrupted(w) PROVE ObjectInv'
    BY <1>0, <1>7 DEF WorkerInterrupted, Fault, Release, Goto, rows, objects, api
<1>8. CASE Sweep
  <2>1. ASSUME NEW Aged \in SUBSET UnsettledUploads, requeue_stale_uploads(Aged) PROVE ObjectInv'
      BY <1>0, <2>1 DEF requeue_stale_uploads, Oldest, UnsettledUploads, rows, objects, worker, api
  <2>2. ASSUME NEW u \in Uploads, Requeue(u) PROVE ObjectInv'
      BY <1>0, <2>2 DEF Requeue, enqueue_media_job, Queued, FreeSlots, Fault, rows, objects, worker, api
  <2>3. CASE SweepDies
      BY <1>0, <2>3 DEF SweepDies, Fault, rows, objects, worker, api
  <2> HIDE DEF TypeOK, ObjectInv, RowBeforeObjects, WorkerBacked, BrokenOnlyAfterDelete,
           ObjectsStored, Upload, Deleting
  <2> QED BY <1>8, <2>1, <2>2, <2>3 DEF Sweep
<1>9. CASE UNCHANGED vars
    BY <1>0, <1>9 DEF vars
<1> HIDE DEF TypeOK, ObjectInv
<1> QED BY <1>1, <1>2, <1>3, <1>4, <1>d, <1>x, <1>5, <1>6, <1>7, <1>8, <1>9 DEF Next

-----------------------------------------------------------------------------
\* The inductive invariant: none of the properties of MediaPipeline is
\* inductive without the others of its group.
IInv == TypeOK /\ RowInv /\ ObjectInv

\* The inductive invariant holds in every reachable state of the pipeline.
THEOREM Invariance == Spec => []IInv
<1>1. Init => IInv
  <2> SUFFICES ASSUME Init PROVE IInv
      OBVIOUS
  <2>1. TypeOK
      BY NoneAssumption, MaxFaultsAssumption, MaxReceivesAssumption DEF Init, TypeOK, Status
  <2>2. RowInv
      BY DEF Init, RowInv, NoOrphanedMedia, FreshMediaId, CompletedPointsAtMedia, InProcess
  <2>3. ObjectInv
      BY DEF Init, ObjectInv, RowBeforeObjects, WorkerBacked, BrokenOnlyAfterDelete, Deleting
  <2> QED BY <2>1, <2>2, <2>3 DEF IInv
<1>2. IInv /\ [Next]_vars => IInv'
    BY TypeInductive, RowInvInductive, ObjectInvInductive DEF IInv
<1> QED BY <1>1, <1>2, PTL DEF Spec

\* However often a message is redelivered and whatever crashes, no media row
\* belongs to an upload that is not completed (the transaction of process_job).
THEOREM NoOrphanedMediaHolds == Spec => []NoOrphanedMedia
<1>1. IInv => NoOrphanedMedia
    BY DEF IInv, RowInv
<1> QED BY <1>1, Invariance, PTL

\* A completed upload points at a media row of its own, or at nothing once a
\* row of it was deleted; any other upload points at nothing.
THEOREM CompletedPointsAtMediaHolds == Spec => []CompletedPointsAtMedia
<1>1. IInv => CompletedPointsAtMedia
    BY DEF IInv, RowInv
<1> QED BY <1>1, Invariance, PTL

\* No worker inserts a second row for an upload, so the pair of upload and
\* worker identifies a media row.
THEOREM FreshMediaIdHolds == Spec => []FreshMediaId
<1>1. IInv => FreshMediaId
    BY DEF IInv, RowInv
<1> QED BY <1>1, Invariance, PTL

\* The objects of a media row are all stored, unless another row made for the
\* same upload has been deleted (process_job against delete_media).
THEOREM BrokenOnlyAfterDeleteHolds == Spec => []BrokenOnlyAfterDelete
<1>1. IInv => BrokenOnlyAfterDelete
    BY DEF IInv, ObjectInv
<1> QED BY <1>1, Invariance, PTL


\* Only an upload its client has completed is ever named by a message, a
\* worker, a request about to enqueue, or the sweep.
Started(u) == status[u] \notin {"absent", "pending"}

OnlyStartedQueued ==
    /\ \A m \in Messages : msg[m] # "free" => Started(m[1])
    /\ \A w \in Workers : pc[w] # "idle" => Started(Upload(w))
    /\ \A h \in Handlers : hpc[h] = "enqueue" => Started(hup[h])
    /\ \A u \in batch : Started(u)

\* After the claim an upload never goes back to 'uploaded'.
Claimed == {"processing", "failed", "completed"}

ClaimHolds ==
    \A w \in Workers :
        pc[w] \in {"fetch", "thumb", "medium", "commit", "mark_failed"} =>
            status[Upload(w)] \in Claimed

\* Unless mark_failed was lost to a fault, a worker that deletes its message
\* has seen the upload settled.
ConsumedWhenSettled ==
    faults = 0 =>
        \A w \in Workers : pc[w] = "delete_message" => status[Upload(w)] \in Terminal

-----------------------------------------------------------------------------
(* The queue: what the messages, the workers and the sweep are about. *)

\* No step takes the status of an upload back: not out of the started, the
\* claimed or the settled ones.
StatusForward(u) ==
    /\ Started(u) => Started(u)'
    /\ status[u] \in Claimed => status'[u] \in Claimed
    /\ status[u] \in Terminal => status'[u] \in Terminal
    /\ status[u] = "completed" => status'[u] = "completed"

\* The UPDATEs that write media_uploads.status are guarded by it, or complete.
LEMMA StatusOnlyForward ==
    ASSUME TypeOK, [Next]_vars
    PROVE  \A u \in Uploads : StatusForward(u)
<1> USE DEF StatusForward, Started, Claimed, Terminal
<1>1. CASE UNCHANGED status
    BY <1>1
<1>2. ASSUME NEW v \in Uploads, create_upload(v) PROVE \A u \in Uploads : StatusForward(u)
    BY <1>2 DEF TypeOK, create_upload
<1>3. ASSUME NEW h \in Handlers, NEW v \in Uploads, complete_upload(h, v)
      PROVE  \A u \in Uploads : StatusForward(u)
    BY <1>3 DEF TypeOK, complete_upload
<1>4. ASSUME NEW w \in Workers, Claim(w) \/ Commit(w) \/ mark_failed(w)
      PROVE  \A u \in Uploads : StatusForward(u)
  <2>0. pc[w] # "idle"
      BY <1>4 DEF Claim, Commit, mark_failed
  <2>1. Upload(w) \in Uploads
      BY <2>0, UploadOfJob, ZenonT(30)
  <2>2. CASE Claim(w)
      BY <2>1, <2>2 DEF TypeOK, Claim, Unsettled
  <2>3. CASE Commit(w)
      BY <2>1, <2>3 DEF TypeOK, Commit
  <2>4. CASE mark_failed(w)
      BY <2>1, <2>4 DEF TypeOK, mark_failed
  <2> QED BY <1>4, <2>2, <2>3, <2>4
<1>5. \/ UNCHANGED status
      \/ \E v \in Uploads : create_upload(v)
      \/ \E h \in Handlers, v \in Uploads : complete_upload(h, v)
      \/ \E w \in Workers : Claim(w) \/ Commit(w) \/ mark_failed(w)
    BY SMTT(20) DEF Next, vars, Api, process_job, Sweep, PutOriginal, enqueue_processing,
           delete_media, delete_original, delete_thumb, delete_medium,
           DeleteObjectFails, RequestDies, VisibilityTimeout, DeadLetter, MessageExpires,
           receive_media_job,
           Fetch, StoreThumb, StoreMedium, delete_message, WorkerInterrupted,
           requeue_stale_uploads, Requeue, SweepDies, rows
<1> QED BY <1>1, <1>2, <1>3, <1>4, <1>5

\* Messages, workers, requests and the sweep name started uploads only.
LEMMA OnlyStartedInductive == TypeOK /\ OnlyStartedQueued /\ [Next]_vars => OnlyStartedQueued'
<1> SUFFICES ASSUME TypeOK, OnlyStartedQueued, [Next]_vars PROVE OnlyStartedQueued'
    OBVIOUS
<1>m. \A u \in Uploads : StatusForward(u)
    BY StatusOnlyForward
<1>u. /\ \A m \in Messages : m[1] \in Uploads
      /\ \A w \in Workers : pc[w] # "idle" => Upload(w) \in Uploads
      /\ \A h \in Handlers : hpc[h] = "enqueue" => hup[h] \in Uploads
      /\ batch \subseteq Uploads
  <2>1. \A m \in Messages : m[1] \in Uploads
      BY DEF Messages
  <2>2. \A w \in Workers : pc[w] # "idle" => Upload(w) \in Uploads
      BY UploadOfJob, ZenonT(30)
  <2> QED BY <2>1, <2>2, NoneAssumption, SMTT(20) DEF TypeOK
<1>f. ASSUME UNCHANGED <<msg, worker, api, batch>> PROVE OnlyStartedQueued'
    BY <1>f, <1>m, <1>u, Zenon DEF OnlyStartedQueued, StatusForward, Upload, worker, api
<1>e. ASSUME NEW u \in Uploads, Started(u), enqueue_media_job(u)
      PROVE  \A m \in Messages : msg'[m] # "free" => Started(m[1])'
    BY <1>e, <1>m, <1>u DEF TypeOK, OnlyStartedQueued, StatusForward, enqueue_media_job, Queued, FreeSlots
<1>b. ASSUME UNCHANGED <<worker, api>>,
             \A m \in Messages : msg'[m] # "free" => Started(m[1])',
             \A u \in batch' : Started(u)'
      PROVE  OnlyStartedQueued'
    BY <1>b, <1>m, <1>u DEF OnlyStartedQueued, StatusForward, Upload, worker, api
<1>1. ASSUME NEW u \in Uploads, create_upload(u) PROVE OnlyStartedQueued'
    BY <1>1, <1>f DEF create_upload
<1>2. ASSUME NEW u \in Uploads, NEW c \in {"good", "bad"}, PutOriginal(u, c)
      PROVE  OnlyStartedQueued'
    BY <1>2, <1>f DEF PutOriginal
<1>3. ASSUME NEW h \in Handlers, Api(h) PROVE OnlyStartedQueued'
  <2>1. ASSUME NEW u \in Uploads, complete_upload(h, u) PROVE OnlyStartedQueued'
      BY <1>m, <2>1, NoneAssumption
         DEF complete_upload, objects, worker, Started, TypeOK, OnlyStartedQueued,
             StatusForward, Upload, Messages
  <2>2. CASE enqueue_processing(h)
      BY <1>m, <2>2, NoneAssumption
         DEF enqueue_processing, enqueue_media_job, Queued, FreeSlots, rows, objects, worker,
             TypeOK, OnlyStartedQueued, StatusForward, Upload, Messages
  <2>3. ASSUME NEW i \in live, delete_media(h, i) PROVE OnlyStartedQueued'
      BY <1>m, <2>3, NoneAssumption
         DEF delete_media, objects, worker, TypeOK, OnlyStartedQueued, StatusForward,
             Upload, Messages
  <2>4. CASE delete_original(h)
      BY <1>m, <2>4, NoneAssumption
         DEF delete_original, rows, worker, TypeOK, OnlyStartedQueued, StatusForward,
             Upload, Messages
  <2>5. CASE delete_thumb(h)
      BY <1>m, <2>5, NoneAssumption
         DEF delete_thumb, rows, worker, TypeOK, OnlyStartedQueued, StatusForward, Upload,
             Messages
  <2>6. CASE delete_medium(h)
      BY <1>m, <2>6, NoneAssumption
         DEF delete_medium, rows, worker, TypeOK, OnlyStartedQueued, StatusForward, Upload,
             Messages
  <2>7. CASE DeleteObjectFails(h)
      BY <1>m, <2>7, NoneAssumption
         DEF DeleteObjectFails, rows, objects, worker, TypeOK, OnlyStartedQueued,
             StatusForward, Upload, Messages
  <2>8. CASE RequestDies(h)
      BY <1>m, <2>8, NoneAssumption
         DEF RequestDies, rows, objects, worker, TypeOK, OnlyStartedQueued, StatusForward,
             Upload, Messages
  <2> QED BY <1>3, <2>1, <2>2, <2>3, <2>4, <2>5, <2>6, <2>7, <2>8 DEF Api
<1>4. ASSUME NEW m \in Messages, VisibilityTimeout(m) PROVE OnlyStartedQueued'
    BY <1>m, <1>4, NoneAssumption
       DEF VisibilityTimeout, rows, objects, worker, api, TypeOK, OnlyStartedQueued,
           StatusForward, Upload, Messages
<1>d. ASSUME NEW m \in Messages, DeadLetter(m) PROVE OnlyStartedQueued'
    BY <1>m, <1>d, NoneAssumption
       DEF DeadLetter, Gone, Queued, rows, objects, worker, api, TypeOK, OnlyStartedQueued,
           StatusForward, Upload, Messages
<1>x. ASSUME NEW m \in Messages, MessageExpires(m) PROVE OnlyStartedQueued'
    BY <1>m, <1>x, NoneAssumption
       DEF MessageExpires, Gone, Fault, rows, objects, worker, api, TypeOK, OnlyStartedQueued,
           StatusForward, Upload, Messages
<1>5. ASSUME NEW w \in Workers, NEW m \in Messages, receive_media_job(w, m)
      PROVE  OnlyStartedQueued'
    BY <1>m, <1>5, NoneAssumption
       DEF receive_media_job, Goto, rows, objects, api, TypeOK, OnlyStartedQueued,
           StatusForward, Upload, Messages
<1>6. ASSUME NEW w \in Workers, process_job(w) PROVE OnlyStartedQueued'
  <2>1. CASE Claim(w)
      BY <1>m, <2>1, NoneAssumption
         DEF Claim, Goto, objects, api, TypeOK, OnlyStartedQueued, StatusForward, Upload,
             Messages
  <2>2. CASE Fetch(w)
      BY <1>m, <2>2, NoneAssumption, SMTT(20)
         DEF Fetch, Goto, Release, rows, objects, api, TypeOK, OnlyStartedQueued,
             StatusForward, Upload, Messages
  <2>3. CASE StoreThumb(w)
      BY <1>m, <2>3, NoneAssumption
         DEF StoreThumb, Goto, rows, api, TypeOK, OnlyStartedQueued, StatusForward, Upload,
             Messages
  <2>4. CASE StoreMedium(w)
      BY <1>m, <2>4, NoneAssumption
         DEF StoreMedium, Goto, rows, api, TypeOK, OnlyStartedQueued, StatusForward,
             Upload, Messages
  <2>5. CASE Commit(w)
      BY <1>m, <2>5, NoneAssumption
         DEF Commit, Goto, objects, api, TypeOK, OnlyStartedQueued, StatusForward, Upload,
             Messages
  <2>6. CASE mark_failed(w)
      BY <1>m, <2>6, NoneAssumption
         DEF mark_failed, Goto, objects, api, TypeOK, OnlyStartedQueued, StatusForward,
             Upload, Messages
  <2>7. CASE delete_message(w)
      BY <1>m, <2>7, NoneAssumption
         DEF delete_message, Gone, Goto, Release, rows, objects, api, TypeOK, OnlyStartedQueued,
             StatusForward, Upload, Messages
  <2> QED BY <1>6, <2>1, <2>2, <2>3, <2>4, <2>5, <2>6, <2>7 DEF process_job
<1>7. ASSUME NEW w \in Workers, WorkerInterrupted(w) PROVE OnlyStartedQueued'
    BY <1>m, <1>7, NoneAssumption
       DEF WorkerInterrupted, Release, Goto, rows, objects, api, TypeOK, OnlyStartedQueued,
           StatusForward, Upload, Messages
<1>8. CASE Sweep
  <2>1. ASSUME NEW Aged \in SUBSET UnsettledUploads, requeue_stale_uploads(Aged)
        PROVE  OnlyStartedQueued'
    <3>1. \A u \in batch' : u \in Uploads /\ Started(u)
        BY <2>1, NoneAssumption
           DEF requeue_stale_uploads, Oldest, UnsettledUploads, Unsettled, Started, TypeOK,
               OnlyStartedQueued, StatusForward, Upload, Messages
    <3>2. \A m \in Messages : msg'[m] # "free" => Started(m[1])'
        BY <1>m, <1>u, <2>1 DEF requeue_stale_uploads, OnlyStartedQueued, StatusForward
    <3>3. \A u \in batch' : Started(u)'
        BY <1>m, <3>1 DEF StatusForward
    <3> QED BY <1>b, <2>1, <3>2, <3>3 DEF requeue_stale_uploads
  <2>2. ASSUME NEW u \in Uploads, Requeue(u) PROVE OnlyStartedQueued'
    <3>1. Started(u)
        BY <2>2, NoneAssumption
           DEF Requeue, TypeOK, OnlyStartedQueued, StatusForward, Upload, Messages
    <3>2. \A m \in Messages : msg'[m] # "free" => Started(m[1])'
        BY <1>e, <1>m, <1>u, <2>2, <3>1, NoneAssumption
           DEF Requeue, TypeOK, OnlyStartedQueued, StatusForward, Upload, Messages
    <3>3. \A v \in batch' : Started(v)'
        BY <1>m, <1>u, <2>2 DEF Requeue, OnlyStartedQueued, StatusForward
    <3> QED BY <1>b, <2>2, <3>2, <3>3 DEF Requeue
  <2>3. CASE SweepDies
    <3>1. \A m \in Messages : msg'[m] # "free" => Started(m[1])'
        BY <1>m, <1>u, <2>3 DEF SweepDies, OnlyStartedQueued, StatusForward
    <3> QED BY <1>b, <2>3, <3>1 DEF SweepDies
  <2> QED BY <1>8, <2>1, <2>2, <2>3 DEF Sweep
<1>9. CASE UNCHANGED vars
    BY <1>m, <1>9, NoneAssumption
       DEF vars, TypeOK, OnlyStartedQueued, StatusForward, Upload, Messages
<1> QED BY <1>1, <1>2, <1>3, <1>4, <1>d, <1>x, <1>5, <1>6, <1>7, <1>8, <1>9 DEF Next

\* A worker past the claim keeps the upload claimed.
LEMMA ClaimHoldsInductive == TypeOK /\ ClaimHolds /\ [Next]_vars => ClaimHolds'
<1> SUFFICES ASSUME TypeOK, ClaimHolds, [Next]_vars PROVE ClaimHolds'
    OBVIOUS
<1>m. \A u \in Uploads : StatusForward(u)
    BY StatusOnlyForward
<1>f. ASSUME UNCHANGED worker PROVE ClaimHolds'
  <2>1. \A w \in Workers : pc[w] # "idle" => Upload(w) \in Uploads
      BY UploadOfJob, ZenonT(30)
  <2> QED BY <1>f, <1>m, <2>1 DEF ClaimHolds, StatusForward, Upload, worker
<1>1. ASSUME NEW u \in Uploads, create_upload(u) PROVE ClaimHolds'
    BY <1>1, <1>f DEF create_upload
<1>2. ASSUME NEW u \in Uploads, NEW c \in {"good", "bad"}, PutOriginal(u, c) PROVE ClaimHolds'
    BY <1>2, <1>f DEF PutOriginal
<1>3. ASSUME NEW h \in Handlers, Api(h) PROVE ClaimHolds'
  <2>1. ASSUME NEW u \in Uploads, complete_upload(h, u) PROVE ClaimHolds'
      BY <2>1, <1>f DEF complete_upload
  <2>2. CASE enqueue_processing(h)
      BY <2>2, <1>f DEF enqueue_processing
  <2>3. ASSUME NEW i \in live, delete_media(h, i) PROVE ClaimHolds'
      BY <2>3, <1>f DEF delete_media
  <2>4. CASE delete_original(h)
      BY <2>4, <1>f DEF delete_original
  <2>5. CASE delete_thumb(h)
      BY <2>5, <1>f DEF delete_thumb
  <2>6. CASE delete_medium(h)
      BY <2>6, <1>f DEF delete_medium
  <2>7. CASE DeleteObjectFails(h)
      BY <2>7, <1>f DEF DeleteObjectFails
  <2>8. CASE RequestDies(h)
      BY <2>8, <1>f DEF RequestDies
  <2> QED BY <1>3, <2>1, <2>2, <2>3, <2>4, <2>5, <2>6, <2>7, <2>8 DEF Api
<1>4. ASSUME NEW m \in Messages, VisibilityTimeout(m) PROVE ClaimHolds'
    BY <1>4, <1>f DEF VisibilityTimeout
<1>d. ASSUME NEW m \in Messages, DeadLetter(m) PROVE ClaimHolds'
    BY <1>d, <1>f DEF DeadLetter
<1>x. ASSUME NEW m \in Messages, MessageExpires(m) PROVE ClaimHolds'
    BY <1>x, <1>f DEF MessageExpires
<1>5. ASSUME NEW w \in Workers, NEW m \in Messages, receive_media_job(w, m) PROVE ClaimHolds'
    BY <1>m, <1>5, NoneAssumption
       DEF receive_media_job, Goto, rows, objects, api, TypeOK, ClaimHolds, StatusForward,
           Upload, Messages
<1>6. ASSUME NEW w \in Workers, process_job(w) PROVE ClaimHolds'
  <2>1. CASE Claim(w)
      BY <1>m, <2>1, NoneAssumption
         DEF Claim, Goto, objects, api, Unsettled, Claimed, TypeOK, ClaimHolds,
             StatusForward, Upload, Messages
  <2>2. CASE Fetch(w)
      BY <1>m, <2>2, NoneAssumption
         DEF Fetch, Goto, Release, rows, objects, api, TypeOK, ClaimHolds, StatusForward,
             Upload, Messages
  <2>3. CASE StoreThumb(w)
      BY <1>m, <2>3, NoneAssumption
         DEF StoreThumb, Goto, rows, api, TypeOK, ClaimHolds, StatusForward, Upload,
             Messages
  <2>4. CASE StoreMedium(w)
      BY <1>m, <2>4, NoneAssumption
         DEF StoreMedium, Goto, rows, api, TypeOK, ClaimHolds, StatusForward, Upload,
             Messages
  <2>5. CASE Commit(w)
      BY <1>m, <2>5, NoneAssumption
         DEF Commit, Goto, objects, api, TypeOK, ClaimHolds, StatusForward, Upload,
             Messages
  <2>6. CASE mark_failed(w)
      BY <1>m, <2>6, NoneAssumption
         DEF mark_failed, Goto, objects, api, TypeOK, ClaimHolds, StatusForward, Upload,
             Messages
  <2>7. CASE delete_message(w)
      BY <1>m, <2>7, NoneAssumption
         DEF delete_message, Gone, Goto, Release, rows, objects, api, TypeOK, ClaimHolds,
             StatusForward, Upload, Messages
  <2> QED BY <1>6, <2>1, <2>2, <2>3, <2>4, <2>5, <2>6, <2>7 DEF process_job
<1>7. ASSUME NEW w \in Workers, WorkerInterrupted(w) PROVE ClaimHolds'
    BY <1>m, <1>7, NoneAssumption
       DEF WorkerInterrupted, Release, Goto, rows, objects, api, TypeOK, ClaimHolds,
           StatusForward, Upload, Messages
<1>8. CASE Sweep
  <2>1. ASSUME NEW Aged \in SUBSET UnsettledUploads, requeue_stale_uploads(Aged)
        PROVE  ClaimHolds'
      BY <2>1, <1>f DEF requeue_stale_uploads
  <2>2. ASSUME NEW u \in Uploads, Requeue(u) PROVE ClaimHolds'
      BY <2>2, <1>f DEF Requeue
  <2>3. CASE SweepDies
      BY <2>3, <1>f DEF SweepDies
  <2> QED BY <1>8, <2>1, <2>2, <2>3 DEF Sweep
<1>9. CASE UNCHANGED vars
    BY <1>m, <1>9, NoneAssumption
       DEF vars, TypeOK, ClaimHolds, StatusForward, Upload, Messages
<1> QED BY <1>1, <1>2, <1>3, <1>4, <1>d, <1>x, <1>5, <1>6, <1>7, <1>8, <1>9 DEF Next

\* Faults are only ever counted up.
LEMMA FaultsGrow == TypeOK /\ [Next]_vars /\ faults' = 0 => faults = 0 /\ ~Fault
<1> SUFFICES ASSUME TypeOK, [Next]_vars, faults' = 0 PROVE faults = 0 /\ ~Fault
    OBVIOUS
<1>1. faults \in Nat
    BY MaxFaultsAssumption DEF TypeOK
<1>2. ~Fault
    BY <1>1 DEF Fault
<1>3. ASSUME NEW h \in Handlers, Api(h) PROVE faults' = faults \/ Fault
    BY <1>3 DEF Api, complete_upload, enqueue_processing, delete_media, delete_original,
                delete_thumb, delete_medium, DeleteObjectFails, RequestDies
<1>4. ASSUME NEW w \in Workers, process_job(w) \/ WorkerInterrupted(w)
      PROVE  faults' = faults \/ Fault
    BY <1>4, Zenon DEF process_job, Claim, Fetch, StoreThumb, StoreMedium, Commit, mark_failed,
                delete_message, WorkerInterrupted
<1>5. ASSUME Sweep PROVE faults' = faults \/ Fault
    BY <1>5 DEF Sweep, requeue_stale_uploads, Requeue, SweepDies
<1>6. faults' = faults \/ Fault
    BY <1>3, <1>4, <1>5, SMTT(20) DEF Next, vars, create_upload, PutOriginal, VisibilityTimeout,
                            DeadLetter, MessageExpires, receive_media_job
<1> QED BY <1>2, <1>6

\* A worker deletes the message of an upload that is settled only.
LEMMA ConsumedInductive ==
    TypeOK /\ OnlyStartedQueued /\ ClaimHolds /\ ConsumedWhenSettled /\ [Next]_vars
        => ConsumedWhenSettled'
<1> SUFFICES ASSUME TypeOK, OnlyStartedQueued, ClaimHolds, ConsumedWhenSettled, [Next]_vars
             PROVE  ConsumedWhenSettled'
    OBVIOUS
<1> SUFFICES ASSUME faults' = 0 PROVE ConsumedWhenSettled'
    BY DEF ConsumedWhenSettled
<1>z. faults = 0 /\ ~Fault
    BY FaultsGrow
<1>m. \A u \in Uploads : StatusForward(u)
    BY StatusOnlyForward
<1>f. ASSUME UNCHANGED worker PROVE ConsumedWhenSettled'
  <2>1. \A w \in Workers : pc[w] # "idle" => Upload(w) \in Uploads
      BY UploadOfJob, ZenonT(30)
  <2> QED BY <1>f, <1>m, <1>z, <2>1 DEF ConsumedWhenSettled, StatusForward, Upload, worker
<1>1. ASSUME NEW u \in Uploads, create_upload(u) PROVE ConsumedWhenSettled'
    BY <1>1, <1>f DEF create_upload
<1>2. ASSUME NEW u \in Uploads, NEW c \in {"good", "bad"}, PutOriginal(u, c)
      PROVE  ConsumedWhenSettled'
    BY <1>2, <1>f DEF PutOriginal
<1>3. ASSUME NEW h \in Handlers, Api(h) PROVE ConsumedWhenSettled'
  <2>1. ASSUME NEW u \in Uploads, complete_upload(h, u) PROVE ConsumedWhenSettled'
      BY <2>1, <1>f DEF complete_upload
  <2>2. CASE enqueue_processing(h)
      BY <2>2, <1>f DEF enqueue_processing
  <2>3. ASSUME NEW i \in live, delete_media(h, i) PROVE ConsumedWhenSettled'
      BY <2>3, <1>f DEF delete_media
  <2>4. CASE delete_original(h)
      BY <2>4, <1>f DEF delete_original
  <2>5. CASE delete_thumb(h)
      BY <2>5, <1>f DEF delete_thumb
  <2>6. CASE delete_medium(h)
      BY <2>6, <1>f DEF delete_medium
  <2>7. CASE DeleteObjectFails(h)
      BY <2>7, <1>f DEF DeleteObjectFails
  <2>8. CASE RequestDies(h)
      BY <2>8, <1>f DEF RequestDies
  <2> QED BY <1>3, <2>1, <2>2, <2>3, <2>4, <2>5, <2>6, <2>7, <2>8 DEF Api
<1>4. ASSUME NEW m \in Messages, VisibilityTimeout(m) PROVE ConsumedWhenSettled'
    BY <1>4, <1>f DEF VisibilityTimeout
<1>d. ASSUME NEW m \in Messages, DeadLetter(m) PROVE ConsumedWhenSettled'
    BY <1>d, <1>f DEF DeadLetter
<1>x. ASSUME NEW m \in Messages, MessageExpires(m) PROVE ConsumedWhenSettled'
    BY <1>x, <1>f DEF MessageExpires
<1>5. ASSUME NEW w \in Workers, NEW m \in Messages, receive_media_job(w, m)
      PROVE  ConsumedWhenSettled'
    BY <1>m, <1>z, <1>5, NoneAssumption
       DEF receive_media_job, Goto, rows, objects, api, TypeOK, ConsumedWhenSettled,
           StatusForward, Upload, Messages
<1>6. ASSUME NEW w \in Workers, process_job(w) PROVE ConsumedWhenSettled'
  <2>1. CASE Claim(w)
    <3>1. Upload(w) \in Uploads /\ status[Upload(w)] \in Unsettled \cup Terminal
        BY <2>1, UploadOfJob, Zenon DEF Claim, OnlyStartedQueued, Started, Status, Unsettled, Terminal, TypeOK
    <3>2. ASSUME NEW q \in Workers, q # w PROVE pc'[q] = pc[q] /\ Upload(q)' = Upload(q)
        BY <2>1, <3>2 DEF Claim, Goto, Upload, TypeOK
    <3>3. pc'[w] = "delete_message" => Upload(w)' = Upload(w) /\ status'[Upload(w)] \in Terminal
        BY <2>1, <3>1 DEF Claim, Goto, Upload, TypeOK
    <3>4. ASSUME NEW q \in Workers, q # w, pc'[q] = "delete_message"
          PROVE  status'[Upload(q)'] \in Terminal
      <4>1. pc[q] = "delete_message" /\ Upload(q)' = Upload(q)
          BY <3>2, <3>4
      <4>2. Upload(q) \in Uploads /\ status[Upload(q)] \in Terminal
          BY <1>z, <4>1, UploadOfJob, Zenon DEF ConsumedWhenSettled
      <4> QED BY <1>m, <4>1, <4>2 DEF StatusForward
    <3> QED BY <3>3, <3>4 DEF ConsumedWhenSettled
  <2>2. CASE Fetch(w)
      BY <1>m, <1>z, <2>2, NoneAssumption, SMTT(20)
         DEF Fetch, Goto, Release, rows, objects, api, TypeOK, ConsumedWhenSettled,
             StatusForward, Upload, Messages
  <2>3. CASE StoreThumb(w)
      BY <1>m, <1>z, <2>3, NoneAssumption
         DEF StoreThumb, Goto, rows, api, TypeOK, ConsumedWhenSettled, StatusForward,
             Upload, Messages
  <2>4. CASE StoreMedium(w)
      BY <1>m, <1>z, <2>4, NoneAssumption
         DEF StoreMedium, Goto, rows, api, TypeOK, ConsumedWhenSettled, StatusForward,
             Upload, Messages
  <2>5. CASE Commit(w)
      BY <1>m, <1>z, <2>5, NoneAssumption, SMTT(20)
         DEF Commit, Goto, objects, api, Terminal, TypeOK, ConsumedWhenSettled,
             StatusForward, Upload, Messages
  <2>6. CASE mark_failed(w)
      BY <1>m, <1>z, <2>6, NoneAssumption, SMTT(20)
         DEF ClaimHolds, mark_failed, Goto, objects, api, Claimed, Terminal, TypeOK,
             ConsumedWhenSettled, StatusForward, Upload, Messages
  <2>7. CASE delete_message(w)
      BY <1>m, <1>z, <2>7, NoneAssumption, Zenon
         DEF delete_message, Gone, Goto, Release, rows, objects, api, TypeOK,
             ConsumedWhenSettled, StatusForward, Upload, Messages
  <2> QED BY <1>6, <2>1, <2>2, <2>3, <2>4, <2>5, <2>6, <2>7 DEF process_job
<1>7. ASSUME NEW w \in Workers, WorkerInterrupted(w) PROVE ConsumedWhenSettled'
    BY <1>z, <1>7 DEF WorkerInterrupted
<1>8. CASE Sweep
  <2>1. ASSUME NEW Aged \in SUBSET UnsettledUploads, requeue_stale_uploads(Aged)
        PROVE  ConsumedWhenSettled'
      BY <2>1, <1>f DEF requeue_stale_uploads
  <2>2. ASSUME NEW u \in Uploads, Requeue(u) PROVE ConsumedWhenSettled'
      BY <2>2, <1>f DEF Requeue
  <2>3. CASE SweepDies
      BY <2>3, <1>f DEF SweepDies
  <2> QED BY <1>8, <2>1, <2>2, <2>3 DEF Sweep
<1>9. CASE UNCHANGED vars
    BY <1>m, <1>9, NoneAssumption
       DEF vars, TypeOK, ConsumedWhenSettled, StatusForward, Upload, Messages
<1> QED BY <1>1, <1>2, <1>3, <1>4, <1>d, <1>x, <1>5, <1>6, <1>7, <1>8, <1>9 DEF Next

\* A message is deleted once its upload is settled; any other step keeps it, or
\* moves it to the dead-letter queue.
LEMMA StrandedInductive ==
    TypeOK /\ ConsumedWhenSettled /\ StrandedOnlyByFault /\ [Next]_vars => StrandedOnlyByFault'
<1> SUFFICES ASSUME TypeOK, ConsumedWhenSettled, StrandedOnlyByFault, [Next]_vars
             PROVE  StrandedOnlyByFault'
    OBVIOUS
<1> SUFFICES ASSUME faults' = 0 PROVE StrandedOnlyByFault'
    BY DEF StrandedOnlyByFault
<1>z. faults = 0 /\ ~Fault
    BY FaultsGrow
<1>f. ASSUME UNCHANGED <<status, msg, redrive, api>> PROVE StrandedOnlyByFault'
    BY <1>f, <1>z DEF StrandedOnlyByFault, UnsettledUploads, Queued, redrive, api
<1>c. ASSUME UNCHANGED <<msg, redrive, api>>, UnsettledUploads' \subseteq UnsettledUploads
      PROVE  StrandedOnlyByFault'
    BY <1>c, <1>z DEF StrandedOnlyByFault, Queued, redrive, api
<1>t. /\ status \in [Uploads -> Status] /\ msg \in [Messages -> {"free", "visible", "inflight"}]
      /\ hpc \in [Handlers -> {"idle", "enqueue"} \cup Deleting]
      /\ hup \in [Handlers -> Uploads \cup {None}]
      /\ \A h \in Handlers : hpc[h] # "idle" => hup[h] \in Uploads
    BY DEF TypeOK
<1>h. ASSUME NEW h \in Handlers, hpc[h] # "enqueue", UNCHANGED <<status, msg, redrive>>,
             \A g \in Handlers \ {h} : hpc'[g] = hpc[g] /\ hup'[g] = hup[g]
      PROVE  StrandedOnlyByFault'
    BY <1>h, <1>z DEF StrandedOnlyByFault, UnsettledUploads, Queued, redrive
<1>e. ASSUME NEW u \in Uploads, enqueue_media_job(u)
      PROVE  /\ \A x : Queued(x) => Queued(x)'
             /\ Queued(u)'
             /\ dead' = dead \ {u}
    BY <1>e DEF TypeOK, enqueue_media_job, Queued, FreeSlots
\* One message leaves the queue, and the other uploads keep theirs.
<1>g. ASSUME NEW m \in Messages, Gone(m)
      PROVE  \A x : Queued(x) => Queued(x)' \/ x = m[1]
    BY <1>g DEF TypeOK, Gone, Queued
<1>1. ASSUME NEW u \in Uploads, create_upload(u) PROVE StrandedOnlyByFault'
  <2>1. UnsettledUploads' \subseteq UnsettledUploads
      BY <1>1, <1>t DEF create_upload, UnsettledUploads, Unsettled
  <2> QED BY <1>1, <1>c, <2>1 DEF create_upload
<1>2. ASSUME NEW u \in Uploads, NEW c \in {"good", "bad"}, PutOriginal(u, c)
      PROVE  StrandedOnlyByFault'
    BY <1>2, <1>f DEF PutOriginal, rows
<1>3. ASSUME NEW h \in Handlers, Api(h) PROVE StrandedOnlyByFault'
  <2>1. ASSUME NEW u \in Uploads, complete_upload(h, u) PROVE StrandedOnlyByFault'
    <3>1. UnsettledUploads' \subseteq UnsettledUploads \cup {u}
        BY <2>1, <1>t DEF complete_upload, UnsettledUploads
    <3>2. /\ msg' = msg /\ dead' = dead /\ hpc'[h] = "enqueue" /\ hup'[h] = u /\ hpc[h] = "idle"
          /\ \A g \in Handlers \ {h} : hpc'[g] = hpc[g] /\ hup'[g] = hup[g]
        BY <2>1, <1>t DEF complete_upload, redrive
    <3> QED BY <1>z, <3>1, <3>2 DEF StrandedOnlyByFault, Queued
  <2>2. CASE enqueue_processing(h)
    <3>1. PICK u \in Uploads : u = hup[h] /\ enqueue_media_job(u)
        BY <2>2, <1>t DEF enqueue_processing
    <3>2. (\A x : Queued(x) => Queued(x)') /\ Queued(u)' /\ dead' = dead \ {u}
        BY <1>e, <3>1
    <3>3. /\ status' = status
          /\ \A g \in Handlers \ {h} : hpc'[g] = hpc[g] /\ hup'[g] = hup[g]
        BY <2>2, <1>t DEF enqueue_processing, rows
    <3> QED BY <1>z, <3>1, <3>2, <3>3, SMTT(20) DEF StrandedOnlyByFault, UnsettledUploads
  <2>3. ASSUME NEW i \in live, delete_media(h, i) PROVE StrandedOnlyByFault'
      BY <2>3, <1>h, <1>t, SMTT(20) DEF delete_media
  <2>4. CASE delete_original(h)
      BY <2>4, <1>h, <1>t DEF delete_original, rows
  <2>5. CASE delete_thumb(h)
      BY <2>5, <1>h, <1>t DEF delete_thumb, rows
  <2>6. CASE delete_medium(h)
      BY <2>6, <1>h, <1>t DEF delete_medium, rows
  <2>7. CASE DeleteObjectFails(h)
      BY <1>z, <2>7 DEF DeleteObjectFails
  <2>8. CASE RequestDies(h)
      BY <1>z, <2>8 DEF RequestDies
  <2> QED BY <1>3, <2>1, <2>2, <2>3, <2>4, <2>5, <2>6, <2>7, <2>8 DEF Api
<1>4. ASSUME NEW m \in Messages, VisibilityTimeout(m) PROVE StrandedOnlyByFault'
    BY <1>z, <1>4, NoneAssumption, Zenon
       DEF VisibilityTimeout, rows, objects, worker, api, TypeOK, StrandedOnlyByFault,
           UnsettledUploads, Upload, Messages, Queued, redrive
<1>d. ASSUME NEW m \in Messages, DeadLetter(m) PROVE StrandedOnlyByFault'
  <2>1. \A x : Queued(x) => Queued(x)' \/ x = m[1]
      BY <1>d, <1>g DEF DeadLetter
  <2>2. UNCHANGED <<status, api>> /\ dead \subseteq dead' /\ (Queued(m[1])' \/ m[1] \in dead')
      BY <1>d, Zenon DEF DeadLetter, rows
  <2> QED BY <1>z, <2>1, <2>2, SMTT(20) DEF StrandedOnlyByFault, UnsettledUploads, api
<1>x. ASSUME NEW m \in Messages, MessageExpires(m) PROVE StrandedOnlyByFault'
    BY <1>z, <1>x DEF MessageExpires
<1>5. ASSUME NEW w \in Workers, NEW m \in Messages, receive_media_job(w, m)
      PROVE  StrandedOnlyByFault'
    BY <1>z, <1>5, NoneAssumption, Zenon
       DEF receive_media_job, Goto, rows, objects, api, TypeOK, StrandedOnlyByFault,
           UnsettledUploads, Upload, Messages, Queued
<1>6. ASSUME NEW w \in Workers, process_job(w) PROVE StrandedOnlyByFault'
  <2>1. CASE Claim(w)
    <3>1. UnsettledUploads' \subseteq UnsettledUploads
        BY <2>1, NoneAssumption, SMTT(20)
           DEF Claim, Unsettled, TypeOK, StrandedOnlyByFault, UnsettledUploads, Upload,
               Messages
    <3> QED BY <1>c, <2>1, <3>1 DEF Claim
  <2>2. CASE Fetch(w)
      BY <2>2, <1>f DEF Fetch, rows
  <2>3. CASE StoreThumb(w)
      BY <2>3, <1>f DEF StoreThumb, rows
  <2>4. CASE StoreMedium(w)
      BY <2>4, <1>f DEF StoreMedium, rows
  <2>5. CASE Commit(w)
    <3>1. UnsettledUploads' \subseteq UnsettledUploads
        BY <2>5, NoneAssumption, Zenon
           DEF Commit, Unsettled, TypeOK, StrandedOnlyByFault, UnsettledUploads, Upload,
               Messages
    <3> QED BY <1>c, <2>5, <3>1 DEF Commit
  <2>6. CASE mark_failed(w)
    <3>1. UnsettledUploads' \subseteq UnsettledUploads
        BY <2>6, NoneAssumption, SMTT(20)
           DEF mark_failed, Unsettled, TypeOK, StrandedOnlyByFault, UnsettledUploads,
               Upload, Messages
    <3> QED BY <1>c, <2>6, <3>1 DEF mark_failed
  <2>7. CASE delete_message(w)
    <3>1. job[w] \in Messages /\ status[job[w][1]] \in Terminal
        BY <1>z, <2>7, UploadOfJob, Zenon DEF delete_message, ConsumedWhenSettled, Upload
    <3>2. \A x : Queued(x) => Queued(x)' \/ x = job[w][1]
        BY <1>g, <2>7, <3>1 DEF delete_message
    <3>3. UNCHANGED <<status, api, dead>>
        BY <2>7 DEF delete_message, rows
    <3> QED BY <1>z, <3>1, <3>2, <3>3
            DEF StrandedOnlyByFault, UnsettledUploads, Unsettled, Terminal, api
  <2> QED BY <1>6, <2>1, <2>2, <2>3, <2>4, <2>5, <2>6, <2>7 DEF process_job
<1>7. ASSUME NEW w \in Workers, WorkerInterrupted(w) PROVE StrandedOnlyByFault'
    BY <1>z, <1>7 DEF WorkerInterrupted
<1>8. CASE Sweep
  <2>1. ASSUME NEW Aged \in SUBSET UnsettledUploads, requeue_stale_uploads(Aged)
        PROVE  StrandedOnlyByFault'
      BY <2>1, <1>f DEF requeue_stale_uploads, rows
  <2>2. ASSUME NEW u \in Uploads, Requeue(u) PROVE StrandedOnlyByFault'
    <3>1. UNCHANGED <<status, api>> /\ enqueue_media_job(u)
        BY <1>z, <2>2, Zenon DEF Requeue, rows
    <3>2. (\A x : Queued(x) => Queued(x)') /\ Queued(u)' /\ dead' = dead \ {u}
        BY <1>e, <3>1
    <3> QED BY <1>z, <3>1, <3>2 DEF StrandedOnlyByFault, UnsettledUploads, api
  <2>3. CASE SweepDies
      BY <1>z, <2>3 DEF SweepDies
  <2> QED BY <1>8, <2>1, <2>2, <2>3 DEF Sweep
<1>9. CASE UNCHANGED vars
    BY <1>9, NoneAssumption, Zenon
       DEF vars, TypeOK, StrandedOnlyByFault, UnsettledUploads, Upload, Messages, Queued
<1> QED BY <1>1, <1>2, <1>3, <1>4, <1>d, <1>x, <1>5, <1>6, <1>7, <1>8, <1>9 DEF Next

QueueInv ==
    OnlyStartedQueued /\ ClaimHolds /\ ConsumedWhenSettled /\ StrandedOnlyByFault

\* Every step that is not a fault keeps a message, or a request about to send
\* one, for each upload that waits, or records that the last was dead-lettered.
LEMMA QueueInvInductive == TypeOK /\ QueueInv /\ [Next]_vars => QueueInv'
BY OnlyStartedInductive, ClaimHoldsInductive, ConsumedInductive, StrandedInductive DEF QueueInv

\* What QueueInv adds to the types holds in every reachable state.
THEOREM QueueInvariance == Spec => []QueueInv
<1>1. Init => QueueInv
    BY DEF Init, QueueInv, OnlyStartedQueued, ClaimHolds, ConsumedWhenSettled,
           StrandedOnlyByFault, UnsettledUploads, Unsettled
<1>2. TypeOK /\ QueueInv /\ [Next]_vars => QueueInv'
    BY QueueInvInductive
<1> QED BY <1>1, <1>2, TypeCorrect, PTL DEF Spec

\* Without a fault, an upload waiting to be processed has a message, or a
\* request that is about to send one (complete_upload, run), or its last message
\* used up its receives and was dead-lettered.
THEOREM StrandedOnlyByFaultHolds == Spec => []StrandedOnlyByFault
<1>1. QueueInv => StrandedOnlyByFault
    BY DEF QueueInv
<1> QED BY <1>1, QueueInvariance, PTL

\* No step takes a completed or a failed upload back into processing: the
\* steps that write media_uploads.status are guarded by it, or complete.
THEOREM SettledStaysSettledHolds == Spec => SettledStaysSettled
<1> DEFINE Settled(u) ==
        /\ status[u] = "completed" => status'[u] = "completed"
        /\ status[u] = "failed" => status'[u] \in Terminal
<1>1. ASSUME TypeOK, [Next]_vars PROVE \A u \in Uploads : Settled(u)
    BY <1>1, StatusOnlyForward DEF StatusForward, Terminal
<1>2. TypeOK /\ [Next]_vars => [\A u \in Uploads : Settled(u)]_vars
    BY <1>1
<1> QED BY <1>2, TypeCorrect, PTL DEF Spec, SettledStaysSettled

=============================================================================

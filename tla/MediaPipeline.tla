--------------------------- MODULE MediaPipeline ---------------------------
(***************************************************************************)
(* The media upload pipeline: the API's upload and delete handlers         *)
(* (app/media.rs), the media worker (jobs/media_processor.rs), the         *)
(* stale-upload sweep (jobs/cleanup.rs), the SQS queue (infra/queue.rs),   *)
(* the object store, and the tables media_uploads and media they share.    *)
(* Every SQL statement or transaction, every queue call and every object   *)
(* store call is one step; anything else may run between two of them.      *)
(***************************************************************************)
EXTENDS Integers, FiniteSets

CONSTANTS
    NumUploads,   \* bound: rows of media_uploads; upload u is the u-th row created
    Workers,      \* concurrent process_job executions (worker loops or HTTP calls)
    Handlers,     \* concurrent API requests
    MaxMsgs,      \* bound: messages of one upload in the queue at a time
    MaxReceives,  \* dlq_max_receive_count of the queue
    Batch,        \* STALE_UPLOAD_BATCH
    MaxFaults,    \* bound: crashes, failed calls and lost messages in a behaviour
    None          \* SQL NULL, or no message

ASSUME NumUploadsAssumption == NumUploads \in Nat
ASSUME MaxMsgsAssumption == MaxMsgs \in Nat
ASSUME MaxReceivesAssumption == MaxReceives \in Nat \ {0}
ASSUME BatchAssumption == Batch \in Nat
ASSUME MaxFaultsAssumption == MaxFaults \in Nat

Uploads == 1..NumUploads

\* A message body names its upload, so two messages of one upload differ
\* only in the slot they occupy.
Messages == Uploads \X (1..MaxMsgs)

\* A worker inserts at most one media row for an upload (FreshMediaId below),
\* so the pair of the two names the row: it stands for the uuid of the row.
Media == Uploads \X Workers

ASSUME NoneAssumption == None \notin Media \cup Messages \cup Uploads

VARIABLES
    status,       \* media_uploads.status; "absent" before the row is inserted
    processed,    \* media_uploads.processed_media_id
    inserted,     \* the rows ever inserted into table media
    live,         \* the rows table media holds now
    original,     \* content of uploads/{owner}/{upload}: "missing", "good" or "bad"
    thumb,        \* uploads whose thumb object exists
    medium,       \* uploads whose medium object exists
    msg,          \* state of each queue message: "free", "visible" or "inflight"
    receives,     \* how often each message has been received
    pc,           \* where each worker is in run / process_job
    job,          \* the message each worker received
    hpc,          \* where each API request is
    hup,          \* the upload each API request works on
    batch,        \* rows requeue_stale_uploads has fetched and not yet enqueued
    faults,       \* crashes, failed calls and lost messages so far
    dead          \* history: uploads whose last message went to the dead-letter queue

vars == <<status, processed, inserted, live, original, thumb, medium,
          msg, receives, pc, job, hpc, hup, batch, faults, dead>>

rows    == <<status, processed, inserted, live>>
redrive == <<receives, dead>>
objects == <<original, thumb, medium>>
worker  == <<pc, job>>
api     == <<hpc, hup>>

Status    == {"absent", "pending", "uploaded", "processing", "failed", "completed"}
Unsettled == {"uploaded", "processing"}
Terminal  == {"failed", "completed"}
InProcess == {"claim", "fetch", "thumb", "medium", "commit"}
Deleting  == {"del_original", "del_thumb", "del_medium"}

TypeOK ==
    /\ status \in [Uploads -> Status]
    /\ processed \in [Uploads -> Media \cup {None}]
    /\ inserted \in SUBSET Media
    /\ live \in SUBSET inserted
    /\ original \in [Uploads -> {"missing", "good", "bad"}]
    /\ thumb \in SUBSET Uploads
    /\ medium \in SUBSET Uploads
    /\ msg \in [Messages -> {"free", "visible", "inflight"}]
    /\ receives \in [Messages -> 0..MaxReceives]
    /\ pc \in [Workers -> {"idle", "mark_failed", "delete_message"} \cup InProcess]
    /\ job \in [Workers -> Messages \cup {None}]
    /\ hpc \in [Handlers -> {"idle", "enqueue"} \cup Deleting]
    /\ hup \in [Handlers -> Uploads \cup {None}]
    /\ batch \in SUBSET Uploads
    /\ faults \in 0..MaxFaults
    /\ dead \in SUBSET Uploads
    /\ \A w \in Workers : pc[w] # "idle" => job[w] # None
    /\ \A h \in Handlers : hpc[h] # "idle" => hup[h] # None

Init ==
    /\ status = [u \in Uploads |-> "absent"]
    /\ processed = [u \in Uploads |-> None]
    /\ inserted = {}
    /\ live = {}
    /\ original = [u \in Uploads |-> "missing"]
    /\ thumb = {}
    /\ medium = {}
    /\ msg = [m \in Messages |-> "free"]
    /\ receives = [m \in Messages |-> 0]
    /\ pc = [w \in Workers |-> "idle"]
    /\ job = [w \in Workers |-> None]
    /\ hpc = [h \in Handlers |-> "idle"]
    /\ hup = [h \in Handlers |-> None]
    /\ batch = {}
    /\ faults = 0
    /\ dead = {}

\* The environment fails a call, kills a process or loses a message.
Fault == faults < MaxFaults /\ faults' = faults + 1

-----------------------------------------------------------------------------
(* The queue, as infra/queue.rs uses it and terraform/modules/messaging sets *)
(* it up: at-least-once, unordered, with a dead-letter queue nobody reads.   *)

Queued(u) == \E m \in Messages : m[1] = u /\ msg[m] # "free"

\* Slots of u holding no message, and named by no receipt handle a worker
\* still has: a receipt handle never deletes a later message.
FreeSlots(u) ==
    {m \in Messages : m[1] = u /\ msg[m] = "free" /\ \A w \in Workers : job[w] # m}

\* enqueue_media_job. When the slots of u are all taken, MaxMsgs messages of u
\* are there already and one more is not told apart from them.
enqueue_media_job(u) ==
    /\ \/ \E m \in FreeSlots(u) : msg' = [msg EXCEPT ![m] = "visible"]
       \/ FreeSlots(u) = {} /\ Queued(u) /\ UNCHANGED msg
    /\ dead' = dead \ {u}
    /\ UNCHANGED receives

\* Message m is in the queue no more.
Gone(m) ==
    /\ msg' = [msg EXCEPT ![m] = "free"]
    /\ receives' = [receives EXCEPT ![m] = 0]

\* The visibility timeout of a received message expires: SQS may deliver it
\* again, whether or not the first receiver is still working on it.
VisibilityTimeout(m) ==
    /\ msg[m] = "inflight"
    /\ msg' = [msg EXCEPT ![m] = "visible"]
    /\ UNCHANGED <<rows, objects, worker, api, batch, faults, redrive>>

\* A message that has been received MaxReceives times is not delivered once
\* more: SQS moves it to the dead-letter queue.
DeadLetter(m) ==
    /\ msg[m] = "visible"
    /\ receives[m] = MaxReceives
    /\ Gone(m)
    /\ dead' = IF Queued(m[1])' THEN dead ELSE dead \cup {m[1]}
    /\ UNCHANGED <<rows, objects, worker, api, batch, faults>>

\* A message that nobody consumed within message_retention_seconds is lost.
MessageExpires(m) ==
    /\ msg[m] # "free"
    /\ Fault
    /\ Gone(m)
    /\ UNCHANGED <<rows, objects, worker, api, batch, dead>>

-----------------------------------------------------------------------------
(* API requests. *)

\* The insert of create_upload; the presigned PUT URL is handed to the client.
create_upload(u) ==
    /\ status[u] = "absent"
    /\ \A v \in Uploads : v < u => status[v] # "absent"
    /\ status' = [status EXCEPT ![u] = "pending"]
    /\ UNCHANGED <<processed, inserted, live, objects, msg, worker, api, batch, faults, redrive>>

\* The client PUTs a file to the presigned URL, perhaps not an image, perhaps
\* more than once, for as long as the URL is valid, whatever the status is.
PutOriginal(u, content) ==
    /\ status[u] # "absent"
    /\ original' = [original EXCEPT ![u] = content]
    /\ UNCHANGED <<rows, thumb, medium, msg, worker, api, batch, faults, redrive>>

\* The UPDATE of complete_upload; no matching row is an early return.
complete_upload(h, u) ==
    /\ hpc[h] = "idle"
    /\ status[u] \in {"pending", "uploaded"}
    /\ status' = [status EXCEPT ![u] = "uploaded"]
    /\ hpc' = [hpc EXCEPT ![h] = "enqueue"]
    /\ hup' = [hup EXCEPT ![h] = u]
    /\ UNCHANGED <<processed, inserted, live, objects, msg, worker, batch, faults, redrive>>

\* The rest of complete_upload.
enqueue_processing(h) ==
    /\ hpc[h] = "enqueue"
    /\ enqueue_media_job(hup[h])
    /\ hpc' = [hpc EXCEPT ![h] = "idle"]
    /\ hup' = [hup EXCEPT ![h] = None]
    /\ UNCHANGED <<rows, objects, worker, batch, faults>>

\* The DELETE of delete_media; ON DELETE SET NULL clears processed_media_id.
\* A media row still referenced by a post or story is refused unchanged.
delete_media(h, i) ==
    /\ hpc[h] = "idle"
    /\ live' = live \ {i}
    /\ processed' = [u \in Uploads |-> IF processed[u] = i THEN None ELSE processed[u]]
    /\ hpc' = [hpc EXCEPT ![h] = "del_original"]
    /\ hup' = [hup EXCEPT ![h] = i[1]]
    /\ UNCHANGED <<status, inserted, objects, msg, worker, batch, faults, redrive>>

\* The three delete_object calls of delete_media, in the order of its loop.
delete_original(h) ==
    /\ hpc[h] = "del_original"
    /\ original' = [original EXCEPT ![hup[h]] = "missing"]
    /\ hpc' = [hpc EXCEPT ![h] = "del_thumb"]
    /\ UNCHANGED <<rows, thumb, medium, msg, worker, hup, batch, faults, redrive>>

delete_thumb(h) ==
    /\ hpc[h] = "del_thumb"
    /\ thumb' = thumb \ {hup[h]}
    /\ hpc' = [hpc EXCEPT ![h] = "del_medium"]
    /\ UNCHANGED <<rows, original, medium, msg, worker, hup, batch, faults, redrive>>

delete_medium(h) ==
    /\ hpc[h] = "del_medium"
    /\ medium' = medium \ {hup[h]}
    /\ hpc' = [hpc EXCEPT ![h] = "idle"]
    /\ hup' = [hup EXCEPT ![h] = None]
    /\ UNCHANGED <<rows, original, thumb, msg, worker, batch, faults, redrive>>

\* A delete_object call fails: delete_media logs it and goes on to the next key.
DeleteObjectFails(h) ==
    /\ Fault
    /\ \/ hpc[h] = "del_original" /\ hpc' = [hpc EXCEPT ![h] = "del_thumb"] /\ UNCHANGED hup
       \/ hpc[h] = "del_thumb" /\ hpc' = [hpc EXCEPT ![h] = "del_medium"] /\ UNCHANGED hup
       \/ /\ hpc[h] = "del_medium"
          /\ hpc' = [hpc EXCEPT ![h] = "idle"]
          /\ hup' = [hup EXCEPT ![h] = None]
    /\ UNCHANGED <<rows, objects, msg, worker, batch, redrive>>

\* The API process dies between two steps of a request, or the enqueue of
\* complete_upload fails after the status flip.
RequestDies(h) ==
    /\ hpc[h] # "idle"
    /\ Fault
    /\ hpc' = [hpc EXCEPT ![h] = "idle"]
    /\ hup' = [hup EXCEPT ![h] = None]
    /\ UNCHANGED <<rows, objects, msg, worker, batch, redrive>>

-----------------------------------------------------------------------------
(* The media worker. *)

Upload(w) == job[w][1]

Goto(w, label) == pc' = [pc EXCEPT ![w] = label]

\* Mutation of Release: the loop forgets the message and not the step it was at.
Release_KeepsStep(w) == UNCHANGED pc /\ job' = [job EXCEPT ![w] = None]

\* The worker drops the message it holds without deleting it.
Release(w) == Goto(w, "idle") /\ job' = [job EXCEPT ![w] = None]

receive_media_job(w, m) ==
    /\ pc[w] = "idle"
    /\ msg[m] = "visible"
    /\ receives[m] < MaxReceives
    /\ msg' = [msg EXCEPT ![m] = "inflight"]
    /\ receives' = [receives EXCEPT ![m] = @ + 1]
    /\ job' = [job EXCEPT ![w] = m]
    /\ Goto(w, "claim")
    /\ UNCHANGED <<rows, objects, api, batch, faults, dead>>

\* Mutations of Claim: no status guard; and 'uploaded' only, as before the fix
\* its comment tells of.
Claim_NoStatusGuard(w) ==
    /\ pc[w] = "claim"
    /\ status' = [status EXCEPT ![Upload(w)] = "processing"]
    /\ Goto(w, "fetch")
    /\ UNCHANGED <<processed, inserted, live, objects, msg, job, api, batch, faults, redrive>>

Claim_OnlyUploaded(w) ==
    /\ pc[w] = "claim"
    /\ IF status[Upload(w)] = "uploaded"
       THEN status' = [status EXCEPT ![Upload(w)] = "processing"] /\ Goto(w, "fetch")
       ELSE UNCHANGED status /\ Goto(w, "delete_message")
    /\ UNCHANGED <<processed, inserted, live, objects, msg, job, api, batch, faults, redrive>>

\* The claiming UPDATE. No row means that the message is stale: consume it.
Claim(w) ==
    /\ pc[w] = "claim"
    /\ IF status[Upload(w)] \in Unsettled
       THEN status' = [status EXCEPT ![Upload(w)] = "processing"] /\ Goto(w, "fetch")
       ELSE UNCHANGED status /\ Goto(w, "delete_message")
    /\ UNCHANGED <<processed, inserted, live, objects, msg, job, api, batch, faults, redrive>>

\* Mutation of Fetch: a missing object consumes the message.
Fetch_MissingConsumed(w) ==
    /\ pc[w] = "fetch"
    /\ \/ original[Upload(w)] = "missing" /\ Goto(w, "delete_message")
       \/ original[Upload(w)] = "good" /\ Goto(w, "thumb")
       \/ original[Upload(w)] = "bad" /\ Goto(w, "mark_failed")
    /\ UNCHANGED <<rows, objects, msg, job, api, batch, faults, redrive>>

\* get_object, decode and resize. A missing object is a transient error
\* (RetryLater), an image that does not decode a permanent one.
Fetch(w) ==
    /\ pc[w] = "fetch"
    /\ \/ original[Upload(w)] = "missing" /\ Release(w)
       \/ original[Upload(w)] = "good" /\ Goto(w, "thumb") /\ UNCHANGED job
       \/ original[Upload(w)] = "bad" /\ Goto(w, "mark_failed") /\ UNCHANGED job
    /\ UNCHANGED <<rows, objects, msg, api, batch, faults, redrive>>

\* upload_variant of the thumbnail, then of the medium variant.
StoreThumb(w) ==
    /\ pc[w] = "thumb"
    /\ thumb' = thumb \cup {Upload(w)}
    /\ Goto(w, "medium")
    /\ UNCHANGED <<rows, original, medium, msg, job, api, batch, faults, redrive>>

\* Mutation of StoreMedium: the error of put_object is not propagated.
StoreMedium_ErrorIgnored(w) ==
    /\ pc[w] = "medium"
    /\ medium' \in {medium, medium \cup {Upload(w)}}
    /\ Goto(w, "commit")
    /\ UNCHANGED <<rows, original, thumb, msg, job, api, batch, faults, redrive>>

StoreMedium(w) ==
    /\ pc[w] = "medium"
    /\ medium' = medium \cup {Upload(w)}
    /\ Goto(w, "commit")
    /\ UNCHANGED <<rows, original, thumb, msg, job, api, batch, faults, redrive>>

\* Mutation of Commit: two statements without a transaction; the second fails.
Commit_NoTransaction(w) ==
    /\ pc[w] = "commit"
    /\ inserted' = inserted \cup {<<Upload(w), w>>}
    /\ live' = live \cup {<<Upload(w), w>>}
    /\ Release(w)
    /\ UNCHANGED <<status, processed, objects, msg, api, batch, faults, redrive>>

\* The final transaction: insert the media row, complete the upload.
Commit(w) ==
    /\ pc[w] = "commit"
    /\ inserted' = inserted \cup {<<Upload(w), w>>}
    /\ live' = live \cup {<<Upload(w), w>>}
    /\ processed' = [processed EXCEPT ![Upload(w)] = <<Upload(w), w>>]
    /\ status' = [status EXCEPT ![Upload(w)] = "completed"]
    /\ Goto(w, "delete_message")
    /\ UNCHANGED <<objects, msg, job, api, batch, faults, redrive>>

\* Mutation of mark_failed: no status guard.
mark_failed_Unguarded(w) ==
    /\ pc[w] = "mark_failed"
    /\ status' = [status EXCEPT ![Upload(w)] = "failed"]
    /\ Goto(w, "delete_message")
    /\ UNCHANGED <<processed, inserted, live, objects, msg, job, api, batch, faults, redrive>>

\* mark_failed after a permanent error; its own failure is ignored.
mark_failed(w) ==
    /\ pc[w] = "mark_failed"
    /\ \/ /\ status' = [status EXCEPT ![Upload(w)] =
                          IF @ = "processing" THEN "failed" ELSE @]
          /\ UNCHANGED faults
       \/ Fault /\ UNCHANGED status
    /\ Goto(w, "delete_message")
    /\ UNCHANGED <<processed, inserted, live, objects, msg, job, api, batch, redrive>>

\* The outcome was Completed: delete the message, wherever it is by now.
delete_message(w) ==
    /\ pc[w] = "delete_message"
    /\ Gone(job[w])
    /\ Release(w)
    /\ UNCHANGED <<rows, objects, api, batch, faults, dead>>

\* A call of process_job fails with a transient error, delete_message fails,
\* or the worker dies or is stopped: the message stays in the queue.
WorkerInterrupted(w) ==
    /\ pc[w] # "idle"
    /\ Fault
    /\ Release(w)
    /\ UNCHANGED <<rows, objects, msg, api, batch, redrive>>

-----------------------------------------------------------------------------
(* The hourly sweep. *)

\* ORDER BY created_at LIMIT n
Oldest(S, n) == {u \in S : Cardinality({v \in S : v < u}) < n}

UnsettledUploads == {u \in Uploads : status[u] \in Unsettled}

\* The SELECT of requeue_stale_uploads, when the uploads of Aged have been
\* waiting for longer than STALE_UPLOAD_THRESHOLD.
requeue_stale_uploads(Aged) ==
    /\ batch = {}
    /\ Aged # {}
    /\ batch' = Oldest(Aged, Batch)
    /\ UNCHANGED <<rows, objects, msg, worker, api, faults, redrive>>

\* One iteration of its loop.
Requeue(u) ==
    /\ u \in batch
    /\ \A v \in batch : u <= v
    /\ \/ enqueue_media_job(u) /\ UNCHANGED faults
       \/ Fault /\ UNCHANGED <<msg, redrive>>
    /\ batch' = batch \ {u}
    /\ UNCHANGED <<rows, objects, worker, api>>

\* The process running the cleanup loop dies during the sweep.
SweepDies ==
    /\ batch # {}
    /\ Fault
    /\ batch' = {}
    /\ UNCHANGED <<rows, objects, msg, worker, api, redrive>>

-----------------------------------------------------------------------------
Api(h) ==
    \/ \E u \in Uploads : complete_upload(h, u)
    \/ enqueue_processing(h)
    \/ \E i \in live : delete_media(h, i)
    \/ delete_original(h)
    \/ delete_thumb(h)
    \/ delete_medium(h)
    \/ DeleteObjectFails(h)
    \/ RequestDies(h)

\* What the worker does with a message once it has received it.
process_job(w) ==
    \/ Claim(w)
    \/ Fetch(w)
    \/ StoreThumb(w)
    \/ StoreMedium(w)
    \/ Commit(w)
    \/ mark_failed(w)
    \/ delete_message(w)

Sweep ==
    \/ \E Aged \in SUBSET UnsettledUploads : requeue_stale_uploads(Aged)
    \/ \E u \in Uploads : Requeue(u)
    \/ SweepDies

Next ==
    \/ \E u \in Uploads : create_upload(u)
    \/ \E u \in Uploads, content \in {"good", "bad"} : PutOriginal(u, content)
    \/ \E h \in Handlers : Api(h)
    \/ \E m \in Messages : VisibilityTimeout(m) \/ DeadLetter(m) \/ MessageExpires(m)
    \/ \E w \in Workers, m \in Messages : receive_media_job(w, m)
    \/ \E w \in Workers : process_job(w) \/ WorkerInterrupted(w)
    \/ Sweep

Spec == Init /\ [][Next]_vars

-----------------------------------------------------------------------------
(* Safety. *)

ObjectsStored(u) == original[u] # "missing" /\ u \in thumb /\ u \in medium

RowDeleted(u) == \E i \in inserted \ live : i[1] = u

\* The insert of the media row and the completion of its upload are one
\* transaction (process_job): whatever crashes, is redelivered or races, no
\* media row belongs to an upload that is not 'completed'.
NoOrphanedMedia == \A i \in inserted : status[i[1]] = "completed"

\* What get_upload_status tells the client of a completed upload: a media row
\* of that very upload, or NULL once a row of that upload has been deleted;
\* and never a media id before completion.
CompletedPointsAtMedia ==
    \A u \in Uploads :
        IF status[u] = "completed"
        THEN \/ processed[u] \in live /\ processed[u][1] = u
             \/ processed[u] = None /\ RowDeleted(u)
        ELSE processed[u] = None

\* process_job stores both variants before it inserts the media row, and
\* delete_media removes the row before the objects: an object of a media row
\* can be missing only when another media row of the same upload was deleted.
BrokenOnlyAfterDelete ==
    \A i \in live : ObjectsStored(i[1]) \/ RowDeleted(i[1])

\* A worker deletes a message only once the upload is settled: as long as no
\* call has failed, nothing has crashed and no message was lost, an upload
\* waiting to be processed has a message in the queue or a request about to
\* send one, and needs no sweep; unless its last message was received
\* MaxReceives times, the object being missing each time or the worker slower
\* than the visibility timeout, and lies in the dead-letter queue.
StrandedOnlyByFault ==
    faults = 0 =>
        \A u \in UnsettledUploads :
            \/ Queued(u)
            \/ \E h \in Handlers : hpc[h] = "enqueue" /\ hup[h] = u
            \/ u \in dead

\* The row a worker is about to insert is not one it has inserted before: the
\* claim of process_job refuses a completed upload.
FreshMediaId ==
    \A w \in Workers :
        pc[w] \in InProcess \ {"claim"} => <<Upload(w), w>> \notin inserted

\* A completed upload stays completed and a failed one is never taken back
\* into processing, whatever message or retry arrives late (the status guards
\* of complete_upload, of the claim and of mark_failed).
SettledStaysSettled ==
    [][\A u \in Uploads :
          /\ status[u] = "completed" => status'[u] = "completed"
          /\ status[u] = "failed" => status'[u] \in Terminal]_vars

\* What the comments of process_job say: processing is idempotent, and a
\* redelivery cannot duplicate a media row. Of all deliveries of one upload at
\* most one inserts a row. It does not hold: the claim accepts 'processing' and
\* the final UPDATE has no status guard, so two overlapping deliveries both
\* insert.
AtMostOneMedia == \A i, j \in inserted : i[1] = j[1] => i = j

-----------------------------------------------------------------------------
(* Liveness. Every process keeps running: the requests that were started,    *)
(* the workers and the cleanup loop take their next step, the visibility     *)
(* timeout expires, and SQS delivers every message that keeps being visible, *)
(* or moves it to the dead-letter queue. Clients promise nothing. Faults are *)
(* finitely many (MaxFaults).                                                *)

Fairness ==
    /\ \A h \in Handlers :
          WF_vars(enqueue_processing(h) \/ delete_original(h)
                    \/ delete_thumb(h) \/ delete_medium(h))
    /\ \A w \in Workers : WF_vars(process_job(w))
    /\ \A m \in Messages : WF_vars(VisibilityTimeout(m)) /\ WF_vars(DeadLetter(m))
    /\ \A m \in Messages : SF_vars(\E w \in Workers : receive_media_job(w, m))
    /\ SF_vars(requeue_stale_uploads(UnsettledUploads))
    /\ WF_vars(\E u \in Uploads : Requeue(u))

LiveSpec == Spec /\ Fairness

\* An upload that the client has completed and whose object is in the store
\* is processed in the end: lost and dead-lettered messages, enqueue failures
\* and worker crashes are made good by redelivery and by the sweep. It takes a
\* Batch that holds all uploads that wait at a time: otherwise uploads without
\* an object, which never settle, can fill every batch.
UploadsSettle ==
    \A u \in Uploads :
        (status[u] \in Unsettled /\ original[u] # "missing") ~> (status[u] \in Terminal)

=============================================================================

--------------------------- MODULE Notifications ----------------------------
(***************************************************************************)
(* The in-process notification queue (jobs/notifications.rs): a bounded    *)
(* tokio channel, the worker that turns jobs into rows, and the drain when *)
(* the process shuts down. A job is named by the request that sends it.    *)
(*                                                                         *)
(* try_send of the channel (external) is two steps, as in tokio: a permit  *)
(* of the channel's semaphore, then the value. close() only stops permits  *)
(* from being taken; a value whose permit was taken before it may still    *)
(* arrive.                                                                 *)
(***************************************************************************)
EXTENDS Integers, Sequences, FiniteSets

CONSTANTS
    Jobs,
    Capacity   \* notification_queue_capacity

ASSUME CapacityAssumption == Capacity \in Nat \ {0}

VARIABLES
    queue,      \* the values in the channel
    permits,    \* jobs whose sender has a permit and has not pushed the value yet
    closed,     \* rx.close() was called, or rx was dropped
    worker,     \* step of run_notification_worker
    current,    \* the jobs it is processing: at most one
    notified,   \* jobs that became a row of notifications
    \* history:
    processed   \* jobs process_job has returned for, with a row, with an error or without either

channel == <<queue, permits, closed>>
workerVars == <<worker, current, notified, processed>>

NotificationsOK ==
    /\ queue \in Seq(Jobs) /\ Len(queue) + Cardinality(permits) <= Capacity
    /\ permits \subseteq Jobs
    /\ closed \in BOOLEAN
    /\ worker \in {"select", "work", "drain", "drain_work", "stopped", "killed"}
    /\ current \in SUBSET Jobs /\ Cardinality(current) <= 1
    /\ worker \in {"work", "drain_work"} => current # {}
    /\ worker \in {"select", "drain", "stopped"} => current = {}
    /\ processed \in SUBSET Jobs
    /\ notified \in SUBSET processed

InitNotifications ==
    /\ queue = <<>> /\ permits = {} /\ closed = FALSE
    /\ worker = "select" /\ current = {}
    /\ notified = {} /\ processed = {}

-----------------------------------------------------------------------------
(* The channel. *)

HasRoom == Len(queue) + Cardinality(permits) < Capacity

\* try_send takes a permit.
Reserve(j) ==
    /\ ~closed /\ HasRoom
    /\ permits' = permits \cup {j}
    /\ UNCHANGED <<queue, closed>>

\* try_send returns Err: the queue is full, or the worker no longer takes jobs.
Refuse == (closed \/ ~HasRoom) /\ UNCHANGED channel

\* The value is in the channel, and try_send returns Ok.
Push(j) ==
    /\ queue' = Append(queue, j)
    /\ permits' = permits \ {j}
    /\ UNCHANGED closed

-----------------------------------------------------------------------------
(* run_notification_worker. *)

Take(label) ==
    /\ queue # <<>>
    /\ worker' = label
    /\ current' = {Head(queue)}
    /\ queue' = Tail(queue)
    /\ UNCHANGED <<permits, closed, notified, processed>>

\* The branch of select! that waits for a job. It may win even after the cancellation.
Recv == worker = "select" /\ Take("work")

\* The branch that waits for the cancellation.
Cancelled ==
    /\ worker = "select"
    /\ closed' = TRUE
    /\ worker' = "drain"
    /\ UNCHANGED <<queue, permits, current, notified, processed>>

\* Mutation of Drain: the worker stops as soon as it has closed the channel.
Drain_Break ==
    /\ worker = "drain"
    /\ worker' = "stopped"
    /\ UNCHANGED <<channel, current, notified, processed>>

\* try_recv until the channel is empty, then break.
Drain ==
    /\ worker = "drain"
    /\ \/ Take("drain_work")
       \/ /\ queue = <<>>
          /\ worker' = "stopped"
          /\ UNCHANGED <<channel, current, notified, processed>>

\* process_job. A row is inserted only if the liked, commented or reacted-to object still
\* has an owner to notify who is not the actor; an error of the database is only logged.
process_job(due) ==
    /\ worker \in {"work", "drain_work"}
    /\ worker' = IF worker = "work" THEN "select" ELSE "drain"
    /\ processed' = processed \cup current
    /\ current' = {}
    /\ notified' \in {notified, notified \cup (current \cap due)}
    /\ UNCHANGED channel

=============================================================================

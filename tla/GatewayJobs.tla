---------------------------- MODULE GatewayJobs -----------------------------
(***************************************************************************)
(* JobsService of the API gateway (apps/api-gateway/src/jobs): creating    *)
(* jobs and cancelling them.  A request is a process that is cut at every  *)
(* await: `create` and `cancel` are its program counters.  The requests    *)
(* that only read (get, list, artifactKey) do not change state.            *)
(***************************************************************************)
EXTENDS JobState

VARIABLES
    create,  \* where the request that creates each job is
    cancel,  \* where the (latest) request to cancel each job is, or its answer
    inputs,  \* jobs whose uploaded input is in the object store
    asked    \* jobs that a user asked to cancel

gatewayVars == <<create, cancel, inputs, asked>>

GatewayTypeOK ==
    /\ create \in [Jobs -> {"none", "uploaded", "made", "failing", "discarding", "answered"}]
    /\ cancel \in [Jobs -> {"idle", "seen", "cleanup", "lost", "publish", "accepted"}]
    /\ inputs \subseteq Jobs
    /\ asked \subseteq Jobs

GatewayInit ==
    /\ create = [j \in Jobs |-> "none"]
    /\ cancel = [j \in Jobs |-> "idle"]
    /\ inputs = {}
    /\ asked = {}

(* Burns, translations and dubs read their parent's objects: only a
   transcription brings (and may delete) an input of its own. *)
OwnsInput(j) == Kind[j] = "TRANSCRIBE"

CreateGoes(j, to) == create' = [create EXCEPT ![j] = to]
CancelGoes(j, to) == cancel' = [cancel EXCEPT ![j] = to]

-----------------------------------------------------------------------------
(* POST /v1/jobs/transcribe, /burn, /translate, /dub *)

(* The stream is stored before there is a row. *)
Upload(j) ==
    /\ create[j] = "none"
    /\ OwnsInput(j)
    /\ CreateGoes(j, "uploaded")
    /\ inputs' = inputs \cup {j}
    /\ UNCHANGED <<cancel, asked, tableVars, queueVars, channelVars>>

(* An empty file, a payload off the contract or a failed INSERT: the input is
   deleted, and a failure to delete it is ignored. *)
DiscardUpload(j) ==
    /\ create[j] = "uploaded"
    /\ CreateGoes(j, "answered")
    /\ inputs' \in {inputs, inputs \ {j}}
    /\ UNCHANGED <<cancel, asked, tableVars, queueVars, channelVars>>

CreateRow(j) ==
    /\ create[j] = (IF OwnsInput(j) THEN "uploaded" ELSE "none")
    /\ \A i \in Jobs : i > j => row[i] = "none"
    /\ CreateGoes(j, "made")
    /\ WriteRow(j, "QUEUED")
    /\ UNCHANGED <<cancel, inputs, asked, started, aged, queueVars, channelVars>>

(* Mutant: the job is added with a delay. *)
AddToQueueMutant(j) == queue' = [queue EXCEPT ![j] = "delayed"]

(* The contract's jobId is BullMQ's id, so adding a job twice does not double it. *)
AddToQueue(j) ==
    queue' = [queue EXCEPT ![j] = IF @ = "none" THEN "waiting" ELSE @]

Enqueue(j) ==
    /\ create[j] = "made"
    /\ CreateGoes(j, "answered")
    /\ AddToQueue(j)
    /\ UNCHANGED <<unlocked, cancel, inputs, asked, tableVars, channelVars>>

(* The add fails, or it reached Redis and its answer did not arrive in time. *)
EnqueueFails(j) ==
    /\ "enqueue" \in Faults
    /\ create[j] = "made"
    /\ CreateGoes(j, "failing")
    /\ AddToQueue(j) \/ UNCHANGED queue
    /\ UNCHANGED <<unlocked, cancel, inputs, asked, tableVars, channelVars>>

(* Mutant: the input is deleted whoever closed the row. *)
FailEnqueueMutant(j) ==
    /\ create[j] = "failing"
    /\ CreateGoes(j, IF OwnsInput(j) THEN "discarding" ELSE "answered")
    /\ UpdateWhere(j, {"QUEUED"}, "FAILED")
    /\ UNCHANGED <<cancel, inputs, asked, started, aged, queueVars, channelVars>>

(* failEnqueue: only the request that closed the row may delete the input. *)
FailEnqueue(j) ==
    /\ create[j] = "failing"
    /\ \/ /\ row[j] = "QUEUED"
          /\ WriteRow(j, "FAILED")
          /\ CreateGoes(j, IF OwnsInput(j) THEN "discarding" ELSE "answered")
       \/ /\ row[j] # "QUEUED" \/ "db" \in Faults
          /\ KeepRow
          /\ CreateGoes(j, "answered")
    /\ UNCHANGED <<cancel, inputs, asked, started, aged, queueVars, channelVars>>

DeleteInput(j) ==
    /\ create[j] = "discarding"
    /\ CreateGoes(j, "answered")
    /\ inputs' \in {inputs, inputs \ {j}}
    /\ UNCHANGED <<cancel, asked, tableVars, queueVars, channelVars>>

-----------------------------------------------------------------------------
(* POST /v1/jobs/:id/cancel *)

(* 409 when the row is already terminal: no state changes. *)
CancelRead(j) ==
    /\ j \in Cancellable
    /\ cancel[j] \in {"idle", "accepted"}
    /\ row[j] \in Pending
    /\ CancelGoes(j, "seen")
    /\ asked' = asked \cup {j}
    /\ UNCHANGED <<create, inputs, tableVars, queueVars, channelVars>>

(* The conditional UPDATE that races with the worker's claim. *)
CancelDecide(j) ==
    /\ cancel[j] = "seen"
    /\ UpdateWhere(j, {"QUEUED"}, "CANCELLED")
    /\ CancelGoes(j, IF row[j] = "QUEUED" THEN "cleanup" ELSE "lost")
    /\ UNCHANGED <<create, inputs, asked, started, aged, queueVars, channelVars>>

(* removeIfWaiting is only tidying up: it may fail, or find the job taken. *)
CancelCleanup(j) ==
    /\ cancel[j] = "cleanup"
    /\ CancelGoes(j, "idle")
    /\ queue' \in {queue, [queue EXCEPT ![j] = IF @ = "waiting" THEN "none" ELSE @]}
    /\ UNCHANGED <<unlocked, create, inputs, asked, tableVars, channelVars>>

CancelReread(j) ==
    /\ cancel[j] = "lost"
    /\ CancelGoes(j, IF row[j] \in Terminal THEN "idle" ELSE "publish")
    /\ UNCHANGED <<create, inputs, asked, tableVars, queueVars, channelVars>>

(* Mutant: the number of receivers is not looked at. *)
ReceivedMutant == TRUE

(* PUBLISH answers how many workers received the message. *)
Received == subscribed # {}

(* 202 if some worker received the message, 503 if none did or PUBLISH failed. *)
CancelPublish(j) ==
    /\ cancel[j] = "publish"
    /\ \/ /\ Publish(j)
          /\ CancelGoes(j, IF Received THEN "accepted" ELSE "idle")
       \/ /\ "publish" \in Faults
          /\ CancelGoes(j, "idle")
          /\ UNCHANGED channelVars
    /\ UNCHANGED <<create, inputs, asked, tableVars, queueVars>>

-----------------------------------------------------------------------------
GatewayStep(j) ==
    \/ Upload(j) \/ DiscardUpload(j) \/ CreateRow(j)
    \/ Enqueue(j) \/ EnqueueFails(j) \/ FailEnqueue(j) \/ DeleteInput(j)
    \/ CancelRead(j) \/ CancelDecide(j) \/ CancelCleanup(j)
    \/ CancelReread(j) \/ CancelPublish(j)

(* The process dies: the requests in flight vanish with it. *)
GatewayDies ==
    /\ create' = [j \in Jobs |-> IF create[j] = "none" THEN "none" ELSE "answered"]
    /\ cancel' = [j \in Jobs |-> "idle"]
    /\ UNCHANGED <<inputs, asked>>
=============================================================================

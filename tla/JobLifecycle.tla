---------------------------- MODULE JobLifecycle ----------------------------
(***************************************************************************)
(* The life of a job across the gateway, the reaper, the queue and the     *)
(* workers: the composition of GatewayJobs, Reaper and AiWorker over the   *)
(* state of JobState, and the passing of time.                             *)
(***************************************************************************)
EXTENDS GatewayJobs, Reaper, AiWorker

vars == <<tableVars, queueVars, channelVars, gatewayVars, reaperVars, workerVars>>

TypeOK ==
    /\ SharedTypeOK
    /\ GatewayTypeOK
    /\ ReaperTypeOK
    /\ WorkerTypeOK

Init ==
    /\ SharedInit
    /\ GatewayInit
    /\ ReaperInit
    /\ WorkerInit

-----------------------------------------------------------------------------
(* Time *)

(* QUEUED_GRACE_MINUTES pass. *)
Ages(j) ==
    /\ row[j] = "QUEUED"
    /\ j \notin aged
    /\ aged' = aged \cup {j}
    /\ UNCHANGED <<row, started, silent, cut>>

(* JOB_STALE_MINUTES pass without a write: the heartbeat of a live worker does
   not allow it unless the worker, or its way to PostgreSQL, is stuck. *)
FallsSilent(j) ==
    /\ row[j] = "RUNNING"
    /\ j \notin silent
    /\ (\A w \in Workers : task[w][j] = "none") \/ "pause" \in Faults
    /\ silent' = silent \cup {j}
    /\ UNCHANGED <<row, started, cut, aged>>

Time ==
    /\ \E j \in Jobs : Ages(j) \/ FallsSilent(j)
    /\ UNCHANGED <<queueVars, channelVars, gatewayVars, reaperVars, workerVars>>

(* The requests in flight and the reaper's pass die with the API process. *)
GatewayCrash ==
    /\ "gateway" \in Faults
    /\ GatewayDies
    /\ ReaperDies
    /\ UNCHANGED <<tableVars, queueVars, channelVars, workerVars>>

Next ==
    \/ (\E j \in Jobs : GatewayStep(j)) /\ UNCHANGED <<reaperVars, workerVars>>
    \/ ReaperStep /\ UNCHANGED <<gatewayVars, workerVars>>
    \/ WorkerStep /\ UNCHANGED <<gatewayVars, reaperVars>>
    \/ Time
    \/ GatewayCrash

Spec == Init /\ [][Next]_vars

-----------------------------------------------------------------------------
(* Safety *)

(* A job whose row is terminal is never written again: of a cancellation, a
   claim, a completion, a failed enqueue and the reaper exactly one wins. *)
TerminalIsFinal ==
    [][\A j \in Jobs : row[j] \in Terminal => row'[j] = row[j]]_vars

(* Nobody closes a job under a healthy worker: while a worker whose lock holds
   and that writes its heartbeat computes a job, its row is RUNNING. *)
HealthyWorkerKeepsRow ==
    "pause" \notin Faults =>
        \A w \in Workers, j \in Jobs :
            task[w][j] \in Executing /\ j \notin unlocked => row[j] = "RUNNING"

(* Only the worker that made the QUEUED -> RUNNING transition computes the job:
   what the API cancelled in the queue is never computed. *)
OnlyClaimedJobsExecute ==
    \A w \in Workers, j \in Jobs : task[w][j] \in Executing => j \in started

(* failEnqueue never deletes the upload of a job that a worker is computing,
   although the add it gave up on may have reached Redis. *)
InputOutlivesExecution ==
    \A w \in Workers, j \in Jobs :
        task[w][j] \in Executing /\ OwnsInput(j) => j \in inputs

(* One heavy job at a time in a process, whatever queues its jobs came from. *)
OneHeavyJobPerWorker ==
    \A w \in Workers : \A i, j \in Jobs :
        task[w][i] \in Executing /\ task[w][j] \in Executing => i = j

(* From the moment the API can see the row RUNNING, the worker that computes
   the job has an event to set: a cancellation is not dropped for being early. *)
CancelEventRegistered ==
    \A w \in Workers, j \in Jobs :
        task[w][j] \in Executing => flag[w][j] # "absent"

(* What a worker computes is its own: it made the transition, its upload is
   there, and it hears that the job is cancelled (worker.py:121-171). *)
ComputesWhatIsItsOwn ==
    TypeOK /\ OnlyClaimedJobsExecute /\ InputOutlivesExecution /\ CancelEventRegistered

(* A 202 to a cancellation means that the worker computing the job has been
   told or will be, unless it lost its subscription. *)
AcceptedCancelIsTold ==
    \A w \in Workers, j \in Jobs :
        cancel[j] = "accepted" /\ task[w][j] \in Executing
            => j \in mail[w] \/ flag[w][j] = "aborted"

(* CANCELLED ("Cancelado por el usuario.") is only said of jobs that a user
   asked to cancel. *)
CancelledWasAsked ==
    \A j \in Jobs : row[j] = "CANCELLED" => j \in asked

(* What is cancelled was asked for, and what is asked for and accepted is
   heard (jobs.service.ts:689-720). *)
CancelsAreHonoured == AcceptedCancelIsTold /\ CancelledWasAsked

-----------------------------------------------------------------------------
(* Refinement *)

Computing == {j \in Jobs : \E w \in Workers : task[w][j] \in Executing}

Contract == INSTANCE JobContract WITH status <- row, computing <- Computing

(* The whole system implements the abstract contract of a job. *)
ImplementsContract == Contract!Spec
=============================================================================

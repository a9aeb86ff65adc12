------------------------------ MODULE JobState ------------------------------
(***************************************************************************)
(* What the API gateway and the AI workers share: the "Job" table of       *)
(* PostgreSQL, the BullMQ queues of Redis and the pub/sub channel          *)
(* captionforge:cancel.  Every write of the table is one conditional       *)
(* UPDATE ... WHERE status ..., the same statement whoever issues it.      *)
(*                                                                         *)
(* The components (GatewayJobs, Reaper, AiWorker) extend this module and   *)
(* add their private state; JobLifecycle composes them.                    *)
(***************************************************************************)
EXTENDS Naturals, FiniteSets

CONSTANTS
    Jobs,      \* job ids, numbered in the order in which their rows are created
    Workers,   \* worker processes (replicas of apps/ai-worker)
    Kind,      \* the kind of each job
    Cancellable, \* the jobs that users may ask to cancel (a bound; Jobs in the code)
    Faults     \* the classes of failure that may happen

JobKinds == {"TRANSCRIBE", "BURN", "TRANSLATE", "DUB"}

(***************************************************************************)
(* "enqueue": the queue's add fails or its answer is lost; "db": a         *)
(* statement fails after its retries, or commits with its answer lost;     *)
(* "redis": Redis restarts empty; "lock": a BullMQ lock lapses under a     *)
(* live worker; "sub": a worker loses its subscription; "pause": a live    *)
(* worker writes nothing for JOB_STALE_MINUTES; "crash", "stop": a worker  *)
(* dies, is asked to stop; "gateway": the API process dies; "payload": a   *)
(* worker rejects the payload; "publish": the API's PUBLISH fails.         *)
(***************************************************************************)
FaultKinds == {"enqueue", "db", "redis", "lock", "sub", "pause", "crash",
               "stop", "gateway", "payload", "publish"}

ASSUME JobsAssumption == Jobs \subseteq Nat
ASSUME KindAssumption == Kind \in [Jobs -> JobKinds]
ASSUME CancellableAssumption == Cancellable \subseteq Jobs
ASSUME FaultsAssumption == Faults \subseteq FaultKinds

VARIABLES
    row,        \* the status column; "none" before the row exists
    started,    \* jobs whose startedAt is set
    silent,     \* rows with updatedAt older than JOB_STALE_MINUTES
    cut,        \* rows with updatedAt before the staleBefore of the current reaper pass
    aged,       \* rows with createdAt older than QUEUED_GRACE_MINUTES
    queue,      \* the BullMQ job: "none", "waiting", "active" or "done" (completed or failed)
    unlocked,   \* active BullMQ jobs whose lock has lapsed
    subscribed, \* workers subscribed to captionforge:cancel
    mail        \* cancel messages on their way to each worker

tableVars == <<row, started, silent, cut, aged>>
queueVars == <<queue, unlocked>>
channelVars == <<subscribed, mail>>

Pending == {"QUEUED", "RUNNING"}
Terminal == {"COMPLETED", "FAILED", "CANCELLED"}
Status == {"none"} \cup Pending \cup Terminal
QueueState == {"none", "waiting", "active", "done"}

SharedTypeOK ==
    /\ row \in [Jobs -> Status]
    /\ started \subseteq Jobs
    /\ silent \subseteq Jobs
    /\ cut \subseteq Jobs
    /\ aged \subseteq Jobs
    /\ queue \in [Jobs -> QueueState]
    /\ unlocked \subseteq Jobs
    /\ subscribed \subseteq Workers
    /\ mail \in [Workers -> SUBSET Jobs]

SharedInit ==
    /\ row = [j \in Jobs |-> "none"]
    /\ started = {}
    /\ silent = {}
    /\ cut = {}
    /\ aged = {}
    /\ queue = [j \in Jobs |-> "none"]
    /\ unlocked = {}
    /\ subscribed = {}
    /\ mail = [w \in Workers |-> {}]

-----------------------------------------------------------------------------
(* The table *)

(* A write of the row also renews updatedAt. *)
WriteRow(j, s) ==
    /\ row' = [row EXCEPT ![j] = s]
    /\ silent' = silent \ {j}
    /\ cut' = cut \ {j}

KeepRow == UNCHANGED <<row, silent, cut>>

(* Mutant: the UPDATE has no condition on the status. *)
UpdateWhereMutant(j, from, s) == WriteRow(j, s)

(* UPDATE "Job" SET status = s WHERE id = j AND status IN from *)
UpdateWhere(j, from, s) ==
    IF row[j] \in from THEN WriteRow(j, s) ELSE KeepRow

-----------------------------------------------------------------------------
(* The queue and the channel *)

(* Mutant: a BullMQ job that ended counts as still there. *)
ExistsMutant(j) == queue[j] # "none"

(* queue.exists: a BullMQ job that failed or completed will not run again. *)
Exists(j) == queue[j] \in {"waiting", "active"}

(* PUBLISH reaches whoever is subscribed now, and nobody later. *)
Publish(j) ==
    /\ mail' = [w \in Workers |-> IF w \in subscribed THEN mail[w] \cup {j} ELSE mail[w]]
    /\ UNCHANGED subscribed
=============================================================================

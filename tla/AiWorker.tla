------------------------------ MODULE AiWorker ------------------------------
(***************************************************************************)
(* The AI worker processes (apps/ai-worker: worker.py, db.py): consuming   *)
(* the four BullMQ queues, one heavy job at a time, cooperative            *)
(* cancellation, heartbeat and shutdown.  A worker holds at most one       *)
(* BullMQ job of each queue (concurrency 1), and the coroutine _process of *)
(* each is a program counter, `task`.                                      *)
(***************************************************************************)
EXTENDS JobState

VARIABLES
    mode,    \* the life of each process
    task,    \* task[w][j]: where w is with job j
    flag,    \* flag[w][j]: the cancel event of j, "aborted" with the abort signal too
    closers  \* the repo.fail tasks that _close_interrupted has left running

workerVars == <<mode, task, flag, closers>>

(* A coroutine that is computing, one that holds the slot, any that is alive. *)
Executing == {"claimed", "running", "completing"}
HoldsSlot == {"claiming", "failing", "cancelling"} \cup Executing
TaskState == {"none", "waiting", "rejecting", "raising", "returning"} \cup HoldsSlot
FlagState == {"absent", "clear", "set", "aborted"}

WorkerTypeOK ==
    /\ mode \in [Workers -> {"down", "up", "stopping", "forced"}]
    /\ task \in [Workers -> [Jobs -> TaskState]]
    /\ flag \in [Workers -> [Jobs -> FlagState]]
    /\ closers \in [Workers -> SUBSET Jobs]

NoTasks == [j \in Jobs |-> "none"]
NoFlags == [j \in Jobs |-> "absent"]

WorkerInit ==
    /\ mode = [w \in Workers |-> "down"]
    /\ task = [w \in Workers |-> NoTasks]
    /\ flag = [w \in Workers |-> NoFlags]
    /\ closers = [w \in Workers |-> {}]

TaskGoes(w, j, to) == task' = [task EXCEPT ![w][j] = to]
FlagGoes(w, j, to) == flag' = [flag EXCEPT ![w][j] = to]
Alive(w) == mode[w] # "down"
Held(w) == {j \in Jobs : task[w][j] # "none"}

(* repo.fail, from a pending row only; a statement that fails for good changes
   nothing and the exception takes its course. *)
Fail(j, s) ==
    /\ UpdateWhere(j, Pending, s) \/ ("db" \in Faults /\ KeepRow)
    /\ UNCHANGED <<started, aged>>

-----------------------------------------------------------------------------
(* From the queue to the slot *)

(* BullMQ hands out a waiting job, to a worker that is closing too if its
   fetch was already under way. *)
Fetch(w, j) ==
    /\ mode[w] \in {"up", "stopping"}
    /\ queue[j] = "waiting"
    /\ \A i \in Held(w) : Kind[i] # Kind[j]
    /\ queue' = [queue EXCEPT ![j] = "active"]
    /\ UNCHANGED <<unlocked, mode, closers, channelVars, tableVars>>

(* Mutant: the cancel event is not registered while the job waits. *)
TakeMutant(w, j) ==
    /\ Fetch(w, j)
    /\ TaskGoes(w, j, "waiting")
    /\ UNCHANGED flag

(* The cancel event is registered before waiting for the slot. *)
Take(w, j) ==
    /\ Fetch(w, j)
    /\ TaskGoes(w, j, "waiting")
    /\ FlagGoes(w, j, "clear")

(* A payload off the contract, of another job or out of its scope. *)
TakeInvalid(w, j) ==
    /\ "payload" \in Faults
    /\ Fetch(w, j)
    /\ TaskGoes(w, j, "rejecting")
    /\ UNCHANGED flag

(* Mutant: a slot for each queue. *)
SlotFreeMutant(w) == TRUE

SlotFree(w) == \A i \in Jobs : task[w][i] \notin HoldsSlot

(* Inside the semaphore: a worker that is stopping starts nothing. *)
EnterSlot(w, j) ==
    /\ task[w][j] = "waiting"
    /\ SlotFree(w)
    /\ TaskGoes(w, j, IF mode[w] = "up" THEN "claiming" ELSE "failing")
    /\ UNCHANGED <<mode, flag, closers, tableVars, queueVars, channelVars>>

(* Mutant: the answer of claim is not looked at. *)
ClaimMutant(w, j) ==
    /\ task[w][j] = "claiming"
    /\ UpdateWhere(j, {"QUEUED"}, "RUNNING")
    /\ started' = IF row[j] = "QUEUED" THEN started \cup {j} ELSE started
    /\ TaskGoes(w, j, "claimed")
    /\ UNCHANGED <<aged, mode, flag, closers, queueVars, channelVars>>

(* repo.claim: QUEUED -> RUNNING.  If the UPDATE commits and its answer is
   lost, the retry finds the row RUNNING and claim answers False. *)
Claim(w, j) ==
    /\ task[w][j] = "claiming"
    /\ \/ /\ row[j] = "QUEUED"
          /\ WriteRow(j, "RUNNING")
          /\ started' = started \cup {j}
          /\ \/ TaskGoes(w, j, "claimed")
             \/ "db" \in Faults /\ TaskGoes(w, j, "raising")
       \/ /\ row[j] # "QUEUED" \/ "db" \in Faults
          /\ KeepRow
          /\ UNCHANGED started
          /\ TaskGoes(w, j, "raising")
    /\ UNCHANGED <<aged, mode, flag, closers, queueVars, channelVars>>

-----------------------------------------------------------------------------
(* The runner *)

(* claim's answer arrives: runner, heartbeat and the abort watch start. *)
StartRunner(w, j) ==
    /\ task[w][j] = "claimed"
    /\ TaskGoes(w, j, "running")
    /\ UNCHANGED <<mode, flag, closers, tableVars, queueVars, channelVars>>

(* Mutant: the answer of touch is not looked at. *)
TouchMutant(w, j) ==
    /\ task[w][j] = "running"
    /\ row[j] = "RUNNING"
    /\ WriteRow(j, "RUNNING")
    /\ UNCHANGED <<flag, started, aged, mode, task, closers, queueVars, channelVars>>

(* _heartbeat and Progress: renew updatedAt, or learn that the row was closed. *)
Touch(w, j) ==
    /\ task[w][j] = "running"
    /\ IF row[j] = "RUNNING"
         THEN WriteRow(j, "RUNNING") /\ UNCHANGED flag
         ELSE /\ KeepRow
              /\ flag[w][j] = "clear"
              /\ FlagGoes(w, j, "set")
    /\ UNCHANGED <<started, aged, mode, task, closers, queueVars, channelVars>>

(* The runner ends by itself, even with a cancellation it did not look at. *)
RunnerEnds(w, j) ==
    /\ task[w][j] = "running"
    /\ \/ TaskGoes(w, j, "completing")
       \/ TaskGoes(w, j, "failing")
    /\ UNCHANGED <<mode, flag, closers, tableVars, queueVars, channelVars>>

(* The thread sees the event, or the abort signal cuts the runner. *)
RunnerCancelled(w, j) ==
    /\ task[w][j] = "running"
    /\ flag[w][j] \in {"set", "aborted"}
    /\ TaskGoes(w, j, "cancelling")
    /\ UNCHANGED <<mode, flag, closers, tableVars, queueVars, channelVars>>

(* Mutant: a shutdown is reported like a cancellation. *)
RunnerForcedMutant(w, j) ==
    /\ task[w][j] = "running"
    /\ mode[w] = "forced"
    /\ flag[w][j] # "aborted"
    /\ TaskGoes(w, j, "cancelling")
    /\ UNCHANGED <<mode, flag, closers, tableVars, queueVars, channelVars>>

(* The grace period ran out, and nobody had aborted the job. *)
RunnerForced(w, j) ==
    /\ task[w][j] = "running"
    /\ mode[w] = "forced"
    /\ flag[w][j] # "aborted"
    /\ TaskGoes(w, j, "failing")
    /\ UNCHANGED <<mode, flag, closers, tableVars, queueVars, channelVars>>

(* repo.complete; a row someone else closed stays as it is. *)
Complete(w, j) ==
    /\ task[w][j] = "completing"
    /\ \/ /\ UpdateWhere(j, {"RUNNING"}, "COMPLETED")
          /\ TaskGoes(w, j, "returning")
       \/ /\ "db" \in Faults
          /\ KeepRow
          /\ TaskGoes(w, j, "raising")
    /\ UNCHANGED <<started, aged, mode, flag, closers, queueVars, channelVars>>

CloseFailed(w, j) ==
    /\ task[w][j] \in {"failing", "rejecting"}
    /\ Fail(j, "FAILED")
    /\ TaskGoes(w, j, "raising")
    /\ UNCHANGED <<mode, flag, closers, queueVars, channelVars>>

CloseCancelled(w, j) ==
    /\ task[w][j] = "cancelling"
    /\ Fail(j, "CANCELLED")
    /\ TaskGoes(w, j, "raising")
    /\ UNCHANGED <<mode, flag, closers, queueVars, channelVars>>

-----------------------------------------------------------------------------
(* Back in BullMQ *)

(* The coroutine is over.  Moving the BullMQ job needs its lock: without it the
   move is an error, and the job stays active until it counts as stalled. *)
Leave(w, j) ==
    /\ TaskGoes(w, j, "none")
    /\ FlagGoes(w, j, "absent")
    /\ queue' = IF queue[j] = "active" /\ j \notin unlocked
                THEN [queue EXCEPT ![j] = "done"] ELSE queue
    /\ UNCHANGED <<unlocked, mode, tableVars, channelVars>>

Return(w, j) ==
    /\ task[w][j] = "returning"
    /\ Leave(w, j)
    /\ UNCHANGED closers

(* "failed" is emitted for a job that could be moved. *)
Raise(w, j) ==
    /\ task[w][j] = "raising"
    /\ Leave(w, j)
    /\ closers' = IF j \in unlocked THEN closers
                  ELSE [closers EXCEPT ![w] = @ \cup {j}]

(* BullMQ fails a job whose lock lapsed (maxStalledCount 0: it is never handed
   out again) and some worker of its queue emits "stalled". *)
Stalled(w, j) ==
    /\ Alive(w)
    /\ queue[j] = "active"
    /\ j \in unlocked
    /\ queue' = [queue EXCEPT ![j] = "done"]
    /\ closers' = [closers EXCEPT ![w] = @ \cup {j}]
    /\ UNCHANGED <<unlocked, mode, task, flag, tableVars, channelVars>>

(* _close_interrupted, in a task of its own. *)
CloseInterrupted(w, j) ==
    /\ j \in closers[w]
    /\ Fail(j, "FAILED")
    /\ closers' = [closers EXCEPT ![w] = @ \ {j}]
    /\ UNCHANGED <<mode, task, flag, queueVars, channelVars>>

LockLapses(j) ==
    /\ "lock" \in Faults
    /\ queue[j] = "active"
    /\ unlocked' = unlocked \cup {j}
    /\ UNCHANGED <<queue, workerVars, tableVars, channelVars>>

(* "lockRenewalFailed": the worker aborts its job. *)
LockLost(w, j) ==
    /\ j \in unlocked
    /\ flag[w][j] = "clear"
    /\ FlagGoes(w, j, "set")
    /\ UNCHANGED <<mode, task, closers, tableVars, queueVars, channelVars>>

-----------------------------------------------------------------------------
(* The cancel channel *)

(* Mutant: only a runner that has started is told. *)
ListensMutant(w, j) == task[w][j] = "running"

Listens(w, j) == flag[w][j] # "absent"

(* _handle_cancel_message: a message for a job it does not hold is ignored. *)
Deliver(w, j) ==
    /\ j \in mail[w]
    /\ mail' = [mail EXCEPT ![w] = @ \ {j}]
    /\ IF Listens(w, j) THEN FlagGoes(w, j, "aborted") ELSE UNCHANGED flag
    /\ UNCHANGED <<subscribed, mode, task, closers, tableVars, queueVars>>

(* start() creates the consumers before it subscribes. *)
Subscribe(w) ==
    /\ Alive(w)
    /\ w \notin subscribed
    /\ subscribed' = subscribed \cup {w}
    /\ UNCHANGED <<mail, workerVars, tableVars, queueVars>>

LoseSubscription(w) ==
    /\ "sub" \in Faults
    /\ w \in subscribed
    /\ subscribed' = subscribed \ {w}
    /\ mail' = [mail EXCEPT ![w] = {}]
    /\ UNCHANGED <<workerVars, tableVars, queueVars>>

-----------------------------------------------------------------------------
(* The life of a process *)

Start(w) ==
    /\ mode[w] = "down"
    /\ mode' = [mode EXCEPT ![w] = "up"]
    /\ UNCHANGED <<task, flag, closers, tableVars, queueVars, channelVars>>

Stop(w) ==
    /\ "stop" \in Faults
    /\ mode[w] = "up"
    /\ mode' = [mode EXCEPT ![w] = "stopping"]
    /\ UNCHANGED <<task, flag, closers, tableVars, queueVars, channelVars>>

GraceEnds(w) ==
    /\ mode[w] = "stopping"
    /\ Held(w) # {}
    /\ mode' = [mode EXCEPT ![w] = "forced"]
    /\ UNCHANGED <<task, flag, closers, tableVars, queueVars, channelVars>>

(* What the process held goes with it; its locks lapse. *)
Dies(w) ==
    /\ mode' = [mode EXCEPT ![w] = "down"]
    /\ task' = [task EXCEPT ![w] = NoTasks]
    /\ flag' = [flag EXCEPT ![w] = NoFlags]
    /\ closers' = [closers EXCEPT ![w] = {}]
    /\ unlocked' = unlocked \cup Held(w)
    /\ subscribed' = subscribed \ {w}
    /\ mail' = [mail EXCEPT ![w] = {}]
    /\ UNCHANGED <<queue, tableVars>>

(* An orderly exit, or ten seconds after the cut with a job still held. *)
Exit(w) ==
    /\ \/ mode[w] = "stopping" /\ Held(w) = {}
       \/ mode[w] = "forced"
    /\ Dies(w)

Crash(w) ==
    /\ "crash" \in Faults
    /\ Alive(w)
    /\ Dies(w)

(* Redis restarts without its data: no jobs, no locks, no subscribers. *)
RedisRestarts ==
    /\ "redis" \in Faults
    /\ queue' = [j \in Jobs |-> "none"]
    /\ unlocked' = unlocked \cup {j \in Jobs : queue[j] = "active"}
    /\ subscribed' = {}
    /\ mail' = [w \in Workers |-> {}]
    /\ UNCHANGED <<workerVars, tableVars>>

-----------------------------------------------------------------------------
TaskStep(w, j) ==
    \/ Take(w, j) \/ TakeInvalid(w, j) \/ EnterSlot(w, j) \/ Claim(w, j)
    \/ StartRunner(w, j) \/ Touch(w, j) \/ RunnerEnds(w, j)
    \/ RunnerCancelled(w, j) \/ RunnerForced(w, j)
    \/ Complete(w, j) \/ CloseFailed(w, j) \/ CloseCancelled(w, j)
    \/ Return(w, j) \/ Raise(w, j)

WorkerStep ==
    \/ \E w \in Workers, j \in Jobs :
         \/ TaskStep(w, j)
         \/ Stalled(w, j) \/ CloseInterrupted(w, j) \/ LockLost(w, j) \/ Deliver(w, j)
    \/ \E w \in Workers :
         \/ Subscribe(w) \/ LoseSubscription(w)
         \/ Start(w) \/ Stop(w) \/ GraceEnds(w) \/ Exit(w) \/ Crash(w)
    \/ \E j \in Jobs : LockLapses(j)
    \/ RedisRestarts
=============================================================================

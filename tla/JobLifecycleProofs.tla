-------------------------- MODULE JobLifecycleProofs --------------------------
(***************************************************************************)
(* Proofs about JobLifecycle, for any jobs, workers, kinds, page size and  *)
(* classes of failure.                                                     *)
(***************************************************************************)
EXTENDS JobLifecycle, TLAPS

(* The steps of each component, with what they leave to the others. *)
GatewayActs == \E j \in Jobs : GatewayStep(j) /\ UNCHANGED <<reaperVars, workerVars>>
ReaperActs == ReaperStep /\ UNCHANGED <<gatewayVars, workerVars>>
WorkerActs == WorkerStep /\ UNCHANGED <<gatewayVars, reaperVars>>

USE DEF Pending, Terminal, Status, QueueState, Executing, HoldsSlot, TaskState, FlagState

-----------------------------------------------------------------------------
(* Type correctness *)

LEMMA InitTypeOK == Init => TypeOK
  BY DEF Init, SharedInit, GatewayInit, ReaperInit, WorkerInit, NoTasks, NoFlags,
         TypeOK, SharedTypeOK, GatewayTypeOK, ReaperTypeOK, WorkerTypeOK

(* Publishing only adds the job to the mail of workers. *)
LEMMA PublishType ==
    ASSUME SharedTypeOK, NEW j \in Jobs, Publish(j)
    PROVE  /\ mail' \in [Workers -> SUBSET Jobs]
           /\ subscribed' \subseteq Workers
  <1>1. \A w \in Workers :
            (IF w \in subscribed THEN mail[w] \cup {j} ELSE mail[w]) \in SUBSET Jobs
    BY DEF SharedTypeOK
  <1> QED
    BY <1>1 DEF Publish, SharedTypeOK

LEMMA GatewayKeepsType == TypeOK /\ GatewayActs => TypeOK'
  <1> SUFFICES ASSUME TypeOK, NEW j \in Jobs, GatewayStep(j),
                      UNCHANGED <<reaperVars, workerVars>>
               PROVE  TypeOK'
    BY DEF GatewayActs
  <1> USE DEF TypeOK, SharedTypeOK, GatewayTypeOK, ReaperTypeOK, WorkerTypeOK,
              tableVars, queueVars, channelVars, reaperVars, workerVars,
              CreateGoes, CancelGoes, WriteRow, KeepRow, UpdateWhere
  <1>1. CASE Upload(j)
    BY <1>1 DEF Upload
  <1>2. CASE DiscardUpload(j)
    BY <1>2 DEF DiscardUpload
  <1>3. CASE CreateRow(j)
    BY <1>3 DEF CreateRow
  <1>4. CASE Enqueue(j)
    BY <1>4 DEF Enqueue, AddToQueue
  <1>5. CASE EnqueueFails(j)
    BY <1>5 DEF EnqueueFails, AddToQueue
  <1>6. CASE FailEnqueue(j)
    BY <1>6, SMTT(20) DEF FailEnqueue
  <1>7. CASE DeleteInput(j)
    BY <1>7 DEF DeleteInput
  <1>8. CASE CancelRead(j)
    BY <1>8 DEF CancelRead
  <1>9. CASE CancelDecide(j)
    BY <1>9 DEF CancelDecide
  <1>10. CASE CancelCleanup(j)
    BY <1>10 DEF CancelCleanup
  <1>11. CASE CancelReread(j)
    BY <1>11 DEF CancelReread
  <1>12. CASE CancelPublish(j)
    <2>1. cancel' \in [Jobs -> {"idle", "seen", "cleanup", "lost", "publish", "accepted"}]
      BY <1>12 DEF CancelPublish, Received
    <2>2. mail' \in [Workers -> SUBSET Jobs] /\ subscribed' \subseteq Workers
      BY <1>12, PublishType DEF CancelPublish
    <2> QED
      BY <1>12, <2>1, <2>2 DEF CancelPublish
  <1> QED
    BY <1>1, <1>2, <1>3, <1>4, <1>5, <1>6, <1>7, <1>8, <1>9, <1>10, <1>11, <1>12
    DEF GatewayStep

LEMMA ReaperKeepsType == TypeOK /\ ReaperActs => TypeOK'
  <1> SUFFICES ASSUME TypeOK, ReaperStep, UNCHANGED <<gatewayVars, workerVars>>
               PROVE  TypeOK'
    BY DEF ReaperActs
  <1> USE DEF TypeOK, SharedTypeOK, GatewayTypeOK, ReaperTypeOK, WorkerTypeOK,
              tableVars, queueVars, channelVars, gatewayVars, workerVars,
              WriteRow, KeepRow, UpdateWhere
  <1>1. CASE ReapScan
    BY <1>1 DEF ReapScan, Pages, Running
  <1>2. CASE ReapClose
    BY <1>2 DEF ReapClose, StillStale
  <1>3. CASE ReapScanQueued
    BY <1>3 DEF ReapScanQueued, OldestPages, Pages, Queued
  <1>4. CASE ReapEnd
    BY <1>4 DEF ReapEnd
  <1>5. CASE ReapAbort
    BY <1>5 DEF ReapAbort
  <1>6. ASSUME NEW j \in Jobs, ReapNotify(j) PROVE TypeOK'
    BY <1>6, PublishType DEF ReapNotify
  <1>7. ASSUME NEW j \in Jobs, ReapCheck(j) PROVE TypeOK'
    BY <1>7 DEF ReapCheck
  <1>8. ASSUME NEW j \in Jobs, ReapCloseQueued(j) PROVE TypeOK'
    BY <1>8 DEF ReapCloseQueued
  <1> QED
    BY <1>1, <1>2, <1>3, <1>4, <1>5, <1>6, <1>7, <1>8 DEF ReaperStep

LEMMA WorkerKeepsType == TypeOK /\ WorkerActs => TypeOK'
  <1> SUFFICES ASSUME TypeOK, WorkerStep, UNCHANGED <<gatewayVars, reaperVars>>
               PROVE  TypeOK'
    BY DEF WorkerActs
  <1> USE DEF TypeOK, SharedTypeOK, GatewayTypeOK, ReaperTypeOK, WorkerTypeOK,
              tableVars, queueVars, channelVars, gatewayVars, reaperVars, workerVars,
              TaskGoes, FlagGoes, WriteRow, KeepRow, UpdateWhere, Fail, Fetch, Leave
  <1>1. ASSUME NEW w \in Workers, NEW j \in Jobs, TaskStep(w, j) PROVE TypeOK'
    <2>1. CASE Take(w, j)
      BY <2>1 DEF Take
    <2>2. CASE TakeInvalid(w, j)
      BY <2>2 DEF TakeInvalid
    <2>3. CASE EnterSlot(w, j)
      BY <2>3 DEF EnterSlot
    <2>4. CASE Claim(w, j)
      <3>1. CASE TaskGoes(w, j, "claimed")
        BY <2>4, <3>1 DEF Claim
      <3>2. CASE TaskGoes(w, j, "raising")
        <4>1. CASE WriteRow(j, "RUNNING") /\ started' = started \cup {j}
          BY <2>4, <3>2, <4>1 DEF Claim
        <4>2. CASE KeepRow /\ UNCHANGED started
          BY <2>4, <3>2, <4>2 DEF Claim
        <4> QED
          BY <2>4, <4>1, <4>2 DEF Claim
      <3> QED
        BY <2>4, <3>1, <3>2 DEF Claim
    <2>5. CASE StartRunner(w, j)
      BY <2>5 DEF StartRunner
    <2>6. CASE Touch(w, j)
      <3>1. CASE row[j] = "RUNNING"
        BY <2>6, <3>1 DEF Touch
      <3>2. CASE row[j] # "RUNNING"
        <4>1. FlagGoes(w, j, "set") /\ KeepRow
          BY <2>6, <3>2 DEF Touch
        <4> QED
          BY <2>6, <4>1 DEF Touch
      <3> QED
        BY <3>1, <3>2
    <2>7. CASE RunnerEnds(w, j)
      <3>1. CASE TaskGoes(w, j, "completing")
        BY <2>7, <3>1 DEF RunnerEnds
      <3>2. CASE TaskGoes(w, j, "failing")
        BY <2>7, <3>2 DEF RunnerEnds
      <3> QED
        BY <2>7, <3>1, <3>2 DEF RunnerEnds
    <2>8. CASE RunnerCancelled(w, j)
      BY <2>8 DEF RunnerCancelled
    <2>9. CASE RunnerForced(w, j)
      BY <2>9 DEF RunnerForced
    <2>10. CASE Complete(w, j)
      <3>1. CASE TaskGoes(w, j, "returning")
        BY <2>10, <3>1 DEF Complete
      <3>2. CASE TaskGoes(w, j, "raising")
        BY <2>10, <3>2 DEF Complete
      <3> QED
        BY <2>10, <3>1, <3>2 DEF Complete
    <2>11. CASE CloseFailed(w, j)
      BY <2>11 DEF CloseFailed
    <2>12. CASE CloseCancelled(w, j)
      BY <2>12 DEF CloseCancelled
    <2>13. CASE Return(w, j)
      BY <2>13 DEF Return
    <2>14. CASE Raise(w, j)
      BY <2>14 DEF Raise
    <2> QED
      BY <1>1, <2>1, <2>2, <2>3, <2>4, <2>5, <2>6, <2>7, <2>8, <2>9, <2>10, <2>11,
         <2>12, <2>13, <2>14 DEF TaskStep
  <1>2. ASSUME NEW w \in Workers, NEW j \in Jobs, Stalled(w, j) PROVE TypeOK'
    BY <1>2 DEF Stalled
  <1>3. ASSUME NEW w \in Workers, NEW j \in Jobs, CloseInterrupted(w, j) PROVE TypeOK'
    BY <1>3 DEF CloseInterrupted
  <1>4. ASSUME NEW w \in Workers, NEW j \in Jobs, LockLost(w, j) PROVE TypeOK'
    BY <1>4 DEF LockLost
  <1>5. ASSUME NEW w \in Workers, NEW j \in Jobs, Deliver(w, j) PROVE TypeOK'
    <2>1. CASE FlagGoes(w, j, "aborted")
      BY <1>5, <2>1 DEF Deliver
    <2>2. CASE UNCHANGED flag
      BY <1>5, <2>2 DEF Deliver
    <2> QED
      BY <1>5, <2>1, <2>2 DEF Deliver
  <1>6. ASSUME NEW w \in Workers, Subscribe(w) PROVE TypeOK'
    BY <1>6 DEF Subscribe
  <1>7. ASSUME NEW w \in Workers, LoseSubscription(w) PROVE TypeOK'
    BY <1>7 DEF LoseSubscription
  <1>8. ASSUME NEW w \in Workers, Start(w) \/ Stop(w) \/ GraceEnds(w) PROVE TypeOK'
    BY <1>8 DEF Start, Stop, GraceEnds
  <1>9. ASSUME NEW w \in Workers, Dies(w) PROVE TypeOK'
    BY <1>9 DEF Dies, NoTasks, NoFlags, Held
  <1>10. ASSUME NEW j \in Jobs, LockLapses(j) PROVE TypeOK'
    BY <1>10 DEF LockLapses
  <1>11. CASE RedisRestarts
    BY <1>11 DEF RedisRestarts
  <1> QED
    BY <1>1, <1>2, <1>3, <1>4, <1>5, <1>6, <1>7, <1>8, <1>9, <1>10, <1>11
    DEF WorkerStep, Exit, Crash

LEMMA RestKeepsType == TypeOK /\ (Time \/ GatewayCrash \/ UNCHANGED vars) => TypeOK'
  <1> USE DEF TypeOK, SharedTypeOK, GatewayTypeOK, ReaperTypeOK, WorkerTypeOK,
              tableVars, queueVars, channelVars, gatewayVars, reaperVars, workerVars
  <1>1. ASSUME TypeOK, Time PROVE TypeOK'
    BY <1>1 DEF Time, Ages, FallsSilent
  <1>2. ASSUME TypeOK, GatewayCrash PROVE TypeOK'
    BY <1>2 DEF GatewayCrash, GatewayDies, ReaperDies
  <1>3. ASSUME TypeOK, UNCHANGED vars PROVE TypeOK'
    BY <1>3 DEF vars
  <1> QED
    BY <1>1, <1>2, <1>3

LEMMA NextKeepsType == TypeOK /\ [Next]_vars => TypeOK'
  BY GatewayKeepsType, ReaperKeepsType, WorkerKeepsType, RestKeepsType
  DEF Next, GatewayActs, ReaperActs, WorkerActs

(* Every variable keeps its type. *)
THEOREM TypeCorrect == Spec => []TypeOK
  BY InitTypeOK, NextKeepsType, PTL DEF Spec

-----------------------------------------------------------------------------
(* Creation: the request, the row and the upload *)

(* The part of the inductive invariant about rows and the requests that make
   them: no row before the INSERT; QUEUED rows never ran; a request that may
   still delete its upload closed a job that never ran; and whatever is queued
   or was started has its upload. *)
RowFollowsRequest ==
    \A j \in Jobs : create[j] \in {"none", "uploaded"} => row[j] = "none"
UnstartedUntilClaimed ==
    \A j \in Jobs : row[j] \in {"none", "QUEUED"} => j \notin started
DiscardingIsClosed ==
    \A j \in Jobs : create[j] = "discarding" => row[j] \in Terminal /\ j \notin started
UploadStored ==
    \A j \in Jobs :
        OwnsInput(j) /\ (create[j] = "uploaded" \/ row[j] = "QUEUED" \/ j \in started)
            => j \in inputs

CreationInv ==
    /\ RowFollowsRequest
    /\ UnstartedUntilClaimed
    /\ DiscardingIsClosed
    /\ UploadStored

(* What workers and the reaper may do to rows: they close pending ones, and
   only a claim sets startedAt. *)
RowsOnlyClose ==
    /\ UNCHANGED <<create, inputs, started>>
    /\ \A j \in Jobs : row'[j] = row[j] \/ (row[j] \in Pending /\ row'[j] \in Terminal)
ClaimsRow(j) ==
    /\ UNCHANGED <<create, inputs>>
    /\ row[j] = "QUEUED"
    /\ row' = [row EXCEPT ![j] = "RUNNING"]
    /\ started' = started \cup {j}

LEMMA WorkerRowSteps ==
    ASSUME TypeOK, WorkerActs
    PROVE  RowsOnlyClose \/ \E j \in Jobs : ClaimsRow(j)
  <1> USE DEF TypeOK, SharedTypeOK, WorkerActs, RowsOnlyClose, gatewayVars, tableVars,
              WriteRow, KeepRow, UpdateWhere, Fail
  <1>1. ASSUME NEW w \in Workers, NEW j \in Jobs, TaskStep(w, j)
        PROVE  RowsOnlyClose \/ ClaimsRow(j)
    <2>1. CASE Claim(w, j)
      BY <2>1 DEF Claim, ClaimsRow
    <2>2. CASE Touch(w, j)
      BY <2>2 DEF Touch
    <2>3. CASE Complete(w, j)
      BY <2>3 DEF Complete
    <2>4. CASE CloseFailed(w, j) \/ CloseCancelled(w, j)
      BY <2>4 DEF CloseFailed, CloseCancelled
    <2>5. CASE Take(w, j) \/ TakeInvalid(w, j) \/ EnterSlot(w, j) \/ StartRunner(w, j)
      BY <2>5 DEF Take, TakeInvalid, Fetch, EnterSlot, StartRunner
    <2>6. CASE RunnerEnds(w, j) \/ RunnerCancelled(w, j) \/ RunnerForced(w, j)
      BY <2>6 DEF RunnerEnds, RunnerCancelled, RunnerForced
    <2>7. CASE Return(w, j) \/ Raise(w, j)
      BY <2>7 DEF Return, Raise, Leave
    <2> QED
      BY <1>1, <2>1, <2>2, <2>3, <2>4, <2>5, <2>6, <2>7 DEF TaskStep
  <1>2. ASSUME NEW w \in Workers, NEW j \in Jobs, CloseInterrupted(w, j)
        PROVE  RowsOnlyClose
    BY <1>2 DEF CloseInterrupted
  <1>3. ASSUME NEW w \in Workers, NEW j \in Jobs,
               Stalled(w, j) \/ LockLost(w, j) \/ Deliver(w, j)
        PROVE  RowsOnlyClose
    BY <1>3 DEF Stalled, LockLost, Deliver
  <1>4. ASSUME NEW w \in Workers, Subscribe(w) \/ LoseSubscription(w)
        PROVE  RowsOnlyClose
    BY <1>4 DEF Subscribe, LoseSubscription
  <1>5. ASSUME NEW w \in Workers,
               Start(w) \/ Stop(w) \/ GraceEnds(w) \/ Exit(w) \/ Crash(w)
        PROVE  RowsOnlyClose
    BY <1>5 DEF Start, Stop, GraceEnds, Exit, Crash, Dies
  <1>6. ASSUME NEW j \in Jobs, LockLapses(j) PROVE RowsOnlyClose
    BY <1>6 DEF LockLapses
  <1>7. CASE RedisRestarts
    BY <1>7 DEF RedisRestarts
  <1> QED
    BY <1>1, <1>2, <1>3, <1>4, <1>5, <1>6, <1>7 DEF WorkerStep

LEMMA ReaperRowSteps ==
    ASSUME TypeOK, ReaperActs
    PROVE  RowsOnlyClose
  <1> USE DEF TypeOK, SharedTypeOK, RowsOnlyClose, gatewayVars, tableVars,
              WriteRow, KeepRow, UpdateWhere
  <1>1. UNCHANGED <<create, inputs>>
    BY DEF ReaperActs
  <1>2. CASE ReapClose
    BY <1>1, <1>2 DEF ReapClose, StillStale, Running
  <1>3. CASE \E j \in Jobs : ReapCloseQueued(j)
    BY <1>1, <1>3 DEF ReapCloseQueued
  <1>4. CASE ReapScan \/ ReapScanQueued \/ ReapEnd \/ ReapAbort
    BY <1>1, <1>4 DEF ReapScan, ReapScanQueued, ReapEnd, ReapAbort
  <1>5. CASE \E j \in Jobs : ReapNotify(j) \/ ReapCheck(j)
    BY <1>1, <1>5 DEF ReapNotify, ReapCheck
  <1> QED
    BY <1>2, <1>3, <1>4, <1>5 DEF ReaperActs, ReaperStep

LEMMA RestRowSteps ==
    ASSUME Time \/ UNCHANGED vars
    PROVE  UNCHANGED <<create, inputs, started, row>>
  BY DEF Time, Ages, FallsSilent, vars, tableVars, gatewayVars

LEMMA CreationInvInit == Init => CreationInv
  BY DEF Init, SharedInit, GatewayInit, CreationInv, RowFollowsRequest,
         UnstartedUntilClaimed, DiscardingIsClosed, UploadStored

LEMMA CreationInvNext == TypeOK /\ CreationInv /\ [Next]_vars => CreationInv'
  <1> SUFFICES ASSUME TypeOK, CreationInv, [Next]_vars PROVE CreationInv'
    OBVIOUS
  <1> USE DEF CreationInv, RowFollowsRequest, UnstartedUntilClaimed,
              DiscardingIsClosed, UploadStored, OwnsInput
  <1>1. ASSUME NEW j \in Jobs, GatewayStep(j) PROVE CreationInv'
    <2> USE DEF TypeOK, SharedTypeOK, GatewayTypeOK, tableVars, CreateGoes,
                CancelGoes, WriteRow, KeepRow, UpdateWhere
    <2>1. CASE Upload(j)
      BY <2>1 DEF Upload
    <2>2. CASE DiscardUpload(j)
      BY <2>2 DEF DiscardUpload
    <2>3. CASE CreateRow(j)
      BY <2>3 DEF CreateRow
    <2>4. CASE Enqueue(j) \/ EnqueueFails(j)
      BY <2>4 DEF Enqueue, EnqueueFails
    <2>5. CASE FailEnqueue(j)
      BY <2>5 DEF FailEnqueue
    <2>6. CASE DeleteInput(j)
      BY <2>6 DEF DeleteInput
    <2>7. CASE CancelDecide(j)
      BY <2>7 DEF CancelDecide
    <2>8. CASE CancelRead(j) \/ CancelCleanup(j) \/ CancelReread(j) \/ CancelPublish(j)
      BY <2>8 DEF CancelRead, CancelCleanup, CancelReread, CancelPublish
    <2> QED
      BY <1>1, <2>1, <2>2, <2>3, <2>4, <2>5, <2>6, <2>7, <2>8 DEF GatewayStep
  <1>2. CASE RowsOnlyClose
    BY <1>2 DEF RowsOnlyClose
  <1>3. ASSUME NEW j \in Jobs, ClaimsRow(j) PROVE CreationInv'
    BY <1>3 DEF ClaimsRow, TypeOK, SharedTypeOK
  <1>4. CASE UNCHANGED <<create, inputs, started, row>>
    BY <1>4
  <1>5. CASE GatewayCrash
    BY <1>5 DEF GatewayCrash, GatewayDies, tableVars
  <1> QED
    BY <1>1, <1>2, <1>3, <1>4, <1>5, WorkerRowSteps, ReaperRowSteps, RestRowSteps
    DEF Next, GatewayActs, ReaperActs, WorkerActs

-----------------------------------------------------------------------------
(* The status column *)

LEMMA TerminalStays ==
    ASSUME TypeOK, CreationInv, [Next]_vars, NEW j \in Jobs, row[j] \in Terminal
    PROVE  row'[j] = row[j]
  <1>1. ASSUME NEW i \in Jobs, GatewayStep(i) PROVE row'[j] = row[j]
    <2> USE DEF TypeOK, SharedTypeOK, tableVars, WriteRow, KeepRow, UpdateWhere
    <2>1. CASE CreateRow(i)
      BY <2>1 DEF CreateRow, CreationInv, RowFollowsRequest
    <2>2. CASE FailEnqueue(i)
      BY <2>2 DEF FailEnqueue
    <2>3. CASE CancelDecide(i)
      BY <2>3 DEF CancelDecide
    <2>4. CASE UNCHANGED row
      BY <2>4
    <2> QED
      BY <1>1, <2>1, <2>2, <2>3, <2>4
      DEF GatewayStep, Upload, DiscardUpload, Enqueue, EnqueueFails, DeleteInput,
          CancelRead, CancelCleanup, CancelReread, CancelPublish
  <1>2. CASE RowsOnlyClose
    BY <1>2 DEF RowsOnlyClose
  <1>3. ASSUME NEW i \in Jobs, ClaimsRow(i) PROVE row'[j] = row[j]
    BY <1>3 DEF ClaimsRow, TypeOK, SharedTypeOK
  <1>4. CASE UNCHANGED row
    BY <1>4
  <1>5. CASE GatewayCrash
    BY <1>5 DEF GatewayCrash, tableVars
  <1> QED
    BY <1>1, <1>2, <1>3, <1>4, <1>5, WorkerRowSteps, ReaperRowSteps, RestRowSteps
    DEF Next, GatewayActs, ReaperActs, WorkerActs

LEMMA CreationCorrect == Spec => [](TypeOK /\ CreationInv)
  BY InitTypeOK, NextKeepsType, CreationInvInit, CreationInvNext, PTL DEF Spec

(* A row that reached a terminal status keeps it: every race over the row of a
   job, among cancellations, claims, results and the reaper, has one winner. *)
THEOREM TerminalStatusStands == Spec => TerminalIsFinal
  <1>1. TypeOK /\ CreationInv /\ [Next]_vars
            => [\A j \in Jobs : row[j] \in Terminal => row'[j] = row[j]]_vars
    BY TerminalStays
  <1> QED
    BY <1>1, CreationCorrect, PTL DEF Spec, TerminalIsFinal

-----------------------------------------------------------------------------
(* The coroutines of the workers *)

(* The part of the inductive invariant about the coroutines of a worker: what
   computes was claimed; a job has its cancel event from the moment it waits
   for the slot; and the slot has one holder, from the claim to the closing. *)
ListensWhileNeeded ==
    \A w \in Workers, j \in Jobs :
        task[w][j] \in {"waiting", "claiming"} \cup Executing => flag[w][j] # "absent"
OneSlotHolder ==
    \A w \in Workers : \A i, j \in Jobs :
        task[w][i] \in HoldsSlot /\ task[w][j] \in HoldsSlot => i = j

CoroutineInv ==
    /\ OnlyClaimedJobsExecute
    /\ ListensWhileNeeded
    /\ OneSlotHolder

LEMMA CoroutineInvInit == Init => CoroutineInv
  BY DEF Init, SharedInit, WorkerInit, NoTasks, NoFlags, CoroutineInv,
         OnlyClaimedJobsExecute, ListensWhileNeeded, OneSlotHolder

(* A step of one coroutine that goes to `to`, and what the code sees to before
   it goes there. *)
CoroutineMoves(w, j, to) ==
    /\ TaskGoes(w, j, to)
    /\ started \subseteq started'
    /\ to \in Executing => task[w][j] \in Executing \/ j \in started'
    /\ to \in HoldsSlot => task[w][j] \in HoldsSlot \/ SlotFree(w)
    /\ \/ /\ UNCHANGED flag
          /\ to # "waiting"
          /\ to \in {"claiming"} \cup Executing =>
                 task[w][j] \in {"waiting", "claiming"} \cup Executing
       \/ to = "waiting" /\ FlagGoes(w, j, "clear")
       \/ to = "none" /\ FlagGoes(w, j, "absent")

LEMMA TaskStepMoves ==
    ASSUME TypeOK, NEW w \in Workers, NEW j \in Jobs, TaskStep(w, j)
    PROVE  \/ \E to \in TaskState : CoroutineMoves(w, j, to)
           \/ UNCHANGED <<task, started>> /\ (UNCHANGED flag \/ FlagGoes(w, j, "set"))
  <1> USE DEF CoroutineMoves, tableVars, Fetch, Fail
  <1>1. CASE Take(w, j)
    BY <1>1 DEF Take
  <1>2. CASE TakeInvalid(w, j)
    BY <1>2 DEF TakeInvalid
  <1>3. CASE EnterSlot(w, j)
    BY <1>3 DEF EnterSlot
  <1>4. CASE Claim(w, j)
    <2>1. started \subseteq started' /\ (TaskGoes(w, j, "claimed") => j \in started')
      BY <1>4 DEF Claim, TaskGoes, TypeOK, WorkerTypeOK
    <2>2. CASE TaskGoes(w, j, "claimed")
      BY <1>4, <2>1, <2>2 DEF Claim
    <2>3. CASE TaskGoes(w, j, "raising")
      BY <1>4, <2>1, <2>3 DEF Claim
    <2> QED
      BY <1>4, <2>2, <2>3 DEF Claim
  <1>5. CASE StartRunner(w, j)
    BY <1>5 DEF StartRunner
  <1>6. CASE Touch(w, j)
    BY <1>6 DEF Touch
  <1>7. CASE RunnerEnds(w, j)
    BY <1>7 DEF RunnerEnds
  <1>8. CASE RunnerCancelled(w, j)
    BY <1>8 DEF RunnerCancelled
  <1>9. CASE RunnerForced(w, j)
    BY <1>9 DEF RunnerForced
  <1>10. CASE Complete(w, j)
    BY <1>10 DEF Complete
  <1>11. CASE CloseFailed(w, j)
    BY <1>11 DEF CloseFailed
  <1>12. CASE CloseCancelled(w, j)
    BY <1>12 DEF CloseCancelled
  <1>13. CASE Return(w, j)
    BY <1>13 DEF Return, Leave
  <1>14. CASE Raise(w, j)
    BY <1>14 DEF Raise, Leave
  <1> QED
    BY <1>1, <1>2, <1>3, <1>4, <1>5, <1>6, <1>7, <1>8, <1>9, <1>10, <1>11, <1>12,
       <1>13, <1>14 DEF TaskStep

LEMMA MovesKeepCoroutineInv ==
    ASSUME TypeOK, CoroutineInv, NEW w \in Workers, NEW j \in Jobs,
           NEW to \in TaskState, CoroutineMoves(w, j, to)
    PROVE  CoroutineInv'
  <1>1. \A v \in Workers, i \in Jobs :
            task'[v][i] = IF v = w /\ i = j THEN to ELSE task[v][i]
    BY DEF CoroutineMoves, TaskGoes, TypeOK, WorkerTypeOK
  <1>2. OnlyClaimedJobsExecute'
    BY <1>1 DEF CoroutineMoves, CoroutineInv, OnlyClaimedJobsExecute
  <1>3. ListensWhileNeeded'
    <2>1. CASE UNCHANGED flag
      BY <1>1, <2>1 DEF CoroutineMoves, CoroutineInv, ListensWhileNeeded, FlagGoes,
                        TypeOK, WorkerTypeOK
    <2>2. CASE to = "waiting" /\ FlagGoes(w, j, "clear")
      BY <1>1, <2>2 DEF CoroutineInv, ListensWhileNeeded, FlagGoes, TypeOK, WorkerTypeOK
    <2>3. CASE to = "none" /\ FlagGoes(w, j, "absent")
      BY <1>1, <2>3 DEF CoroutineInv, ListensWhileNeeded, FlagGoes, TypeOK, WorkerTypeOK
    <2> QED
      BY <2>1, <2>2, <2>3 DEF CoroutineMoves
  <1>4. OneSlotHolder'
    BY <1>1 DEF CoroutineMoves, CoroutineInv, OneSlotHolder, SlotFree
  <1> QED
    BY <1>2, <1>3, <1>4 DEF CoroutineInv

LEMMA FlagKeepsCoroutineInv ==
    ASSUME TypeOK, CoroutineInv, UNCHANGED <<task, started>>,
           \/ UNCHANGED flag
           \/ \E w \in Workers, j \in Jobs, f \in {"set", "aborted"} : FlagGoes(w, j, f)
    PROVE  CoroutineInv'
  <1>1. OnlyClaimedJobsExecute' /\ OneSlotHolder'
    BY DEF CoroutineInv, OnlyClaimedJobsExecute, OneSlotHolder
  <1>2. \A v \in Workers, i \in Jobs : flag[v][i] # "absent" => flag'[v][i] # "absent"
    <2>1. CASE UNCHANGED flag
      BY <2>1
    <2>2. ASSUME NEW w \in Workers, NEW j \in Jobs, NEW f \in {"set", "aborted"},
                 FlagGoes(w, j, f),
                 NEW v \in Workers, NEW i \in Jobs
          PROVE  flag'[v][i] = IF v = w /\ i = j THEN f ELSE flag[v][i]
      BY <2>2 DEF FlagGoes, TypeOK, WorkerTypeOK
    <2> QED
      BY <2>1, <2>2
  <1>3. ListensWhileNeeded'
    BY <1>2 DEF CoroutineInv, ListensWhileNeeded
  <1> QED
    BY <1>1, <1>3 DEF CoroutineInv

LEMMA CoroutineInvNext == TypeOK /\ CoroutineInv /\ [Next]_vars => CoroutineInv'
  <1> SUFFICES ASSUME TypeOK, CoroutineInv, [Next]_vars PROVE CoroutineInv'
    OBVIOUS
  <1>1. CASE WorkerActs
    <2> USE DEF tableVars, workerVars
    <2>1. ASSUME NEW w \in Workers, NEW j \in Jobs, TaskStep(w, j) PROVE CoroutineInv'
      BY <2>1, TaskStepMoves, MovesKeepCoroutineInv, FlagKeepsCoroutineInv
    <2>2. ASSUME NEW w \in Workers, NEW j \in Jobs,
                 \/ Stalled(w, j) \/ CloseInterrupted(w, j)
                 \/ LockLost(w, j) \/ Deliver(w, j)
          PROVE  CoroutineInv'
      BY <2>2, FlagKeepsCoroutineInv DEF Stalled, CloseInterrupted, Fail, LockLost, Deliver
    <2>3. ASSUME NEW w \in Workers, Dies(w) PROVE CoroutineInv'
      BY <2>3 DEF Dies, NoTasks, NoFlags, CoroutineInv, OnlyClaimedJobsExecute,
                  ListensWhileNeeded, OneSlotHolder, TypeOK, WorkerTypeOK
    <2>4. ASSUME NEW w \in Workers,
                 \/ Subscribe(w) \/ LoseSubscription(w)
                 \/ Start(w) \/ Stop(w) \/ GraceEnds(w)
          PROVE  CoroutineInv'
      BY <2>4, FlagKeepsCoroutineInv DEF Subscribe, LoseSubscription, Start, Stop, GraceEnds
    <2>5. CASE RedisRestarts \/ \E j \in Jobs : LockLapses(j)
      BY <2>5, FlagKeepsCoroutineInv DEF RedisRestarts, LockLapses
    <2> QED
      BY <1>1, <2>1, <2>2, <2>3, <2>4, <2>5 DEF WorkerActs, WorkerStep, Exit, Crash
  <1>2. ASSUME NEW j \in Jobs, GatewayStep(j), UNCHANGED workerVars PROVE CoroutineInv'
    <2>1. UNCHANGED started
      BY <1>2 DEF GatewayStep, Upload, DiscardUpload, CreateRow, Enqueue, EnqueueFails,
                  FailEnqueue, DeleteInput, CancelRead, CancelDecide, CancelCleanup,
                  CancelReread, CancelPublish, tableVars
    <2> QED
      BY <1>2, <2>1, FlagKeepsCoroutineInv DEF workerVars
  <1>3. CASE ReaperActs
    <2>1. UNCHANGED started
      BY <1>3, ReaperRowSteps DEF RowsOnlyClose
    <2> QED
      BY <1>3, <2>1, FlagKeepsCoroutineInv DEF ReaperActs, workerVars
  <1>4. CASE Time \/ GatewayCrash \/ UNCHANGED vars
    BY <1>4, FlagKeepsCoroutineInv
    DEF Time, Ages, FallsSilent, GatewayCrash, vars, tableVars, workerVars
  <1> QED
    BY <1>1, <1>2, <1>3, <1>4 DEF Next, ReaperActs, WorkerActs

LEMMA CoroutinesCorrect == Spec => [](TypeOK /\ CreationInv /\ CoroutineInv)
  BY InitTypeOK, NextKeepsType, CreationInvInit, CreationInvNext, CoroutineInvInit,
     CoroutineInvNext, PTL DEF Spec

(* Whatever races with the claim, a worker computes only jobs that it moved from
   QUEUED to RUNNING. *)
THEOREM OnlyTheClaimedAreComputed == Spec => []OnlyClaimedJobsExecute
  BY CoroutinesCorrect, PTL DEF CoroutineInv

(* A job that is being computed has its cancel event in the worker's table. *)
THEOREM CancelEventIsThere == Spec => []CancelEventRegistered
  <1>1. CoroutineInv => CancelEventRegistered
    BY DEF CoroutineInv, ListensWhileNeeded, CancelEventRegistered
  <1> QED
    BY <1>1, CoroutinesCorrect, PTL

(* The slot of a process lets one job compute at a time, for any number of
   queues, jobs and workers. *)
THEOREM OneJobAtATime == Spec => []OneHeavyJobPerWorker
  <1>1. CoroutineInv => OneHeavyJobPerWorker
    BY DEF CoroutineInv, OneSlotHolder, OneHeavyJobPerWorker
  <1> QED
    BY <1>1, CoroutinesCorrect, PTL

(* Nobody deletes the upload of a job that is being computed. *)
THEOREM ComputedHasItsInput == Spec => []InputOutlivesExecution
  <1>1. CreationInv /\ CoroutineInv => InputOutlivesExecution
    BY DEF CreationInv, UploadStored, CoroutineInv, OnlyClaimedJobsExecute,
           InputOutlivesExecution
  <1> QED
    BY <1>1, CoroutinesCorrect, PTL

(* A worker computes only what is its own, and hears that it is cancelled. *)
THEOREM ClaimsAreKept == Spec => []ComputesWhatIsItsOwn
  BY TypeCorrect, OnlyTheClaimedAreComputed, ComputedHasItsInput, CancelEventIsThere, PTL DEF ComputesWhatIsItsOwn

-----------------------------------------------------------------------------
(* The lock of a BullMQ job *)

(* The part of the inductive invariant about the queue: a job is added at most
   once, so what Redis or a worker ever knew of is past its enqueue; nobody has
   touched a job that is still waiting; and while its lock holds, a job is held
   by one worker, with nobody left to close it as interrupted. *)
KnownToRedis(j) ==
    \/ queue[j] # "none"
    \/ j \in unlocked
    \/ \E w \in Workers : task[w][j] # "none" \/ j \in closers[w]
AddedOnce ==
    \A j \in Jobs : KnownToRedis(j) => create[j] \in {"failing", "discarding", "answered"}
WaitingIsUntouched ==
    \A j \in Jobs : queue[j] = "waiting" =>
        /\ j \notin unlocked
        /\ \A w \in Workers : task[w][j] = "none" /\ j \notin closers[w]
LockIsExclusive ==
    \A w \in Workers, j \in Jobs :
        task[w][j] # "none" /\ j \notin unlocked =>
            /\ queue[j] = "active"
            /\ \A v \in Workers : j \notin closers[v] /\ (v # w => task[v][j] = "none")

LockInv == AddedOnce /\ WaitingIsUntouched /\ LockIsExclusive

LEMMA LockInvInit == Init => LockInv
  BY DEF Init, SharedInit, WorkerInit, NoTasks, LockInv, AddedOnce, KnownToRedis,
         WaitingIsUntouched, LockIsExclusive

LEMMA GatewayKeepsLockInv ==
    ASSUME TypeOK, LockInv, NEW j \in Jobs, GatewayStep(j), UNCHANGED workerVars
    PROVE  LockInv'
  <1> USE DEF LockInv, AddedOnce, KnownToRedis, WaitingIsUntouched, LockIsExclusive,
              CreateGoes, CancelGoes, workerVars, queueVars, TypeOK, SharedTypeOK,
              GatewayTypeOK
  <1>1. CASE Upload(j)
    BY <1>1 DEF Upload
  <1>2. CASE DiscardUpload(j)
    BY <1>2 DEF DiscardUpload
  <1>3. CASE CreateRow(j)
    BY <1>3 DEF CreateRow
  <1>4. CASE Enqueue(j)
    BY <1>4 DEF Enqueue, AddToQueue
  <1>5. CASE EnqueueFails(j)
    <2>1. CASE AddToQueue(j)
      BY <1>5, <2>1 DEF EnqueueFails, AddToQueue
    <2>2. CASE UNCHANGED queue
      BY <1>5, <2>2 DEF EnqueueFails
    <2> QED
      BY <1>5, <2>1, <2>2 DEF EnqueueFails
  <1>6. CASE FailEnqueue(j)
    BY <1>6 DEF FailEnqueue
  <1>7. CASE DeleteInput(j)
    BY <1>7 DEF DeleteInput
  <1>8. CASE CancelCleanup(j)
    BY <1>8 DEF CancelCleanup
  <1>9. CASE CancelRead(j) \/ CancelDecide(j) \/ CancelReread(j) \/ CancelPublish(j)
    BY <1>9 DEF CancelRead, CancelDecide, CancelReread, CancelPublish
  <1> QED
    BY <1>1, <1>2, <1>3, <1>4, <1>5, <1>6, <1>7, <1>8, <1>9 DEF GatewayStep

(* A coroutine between its fetch and its end touches neither queue nor lock. *)
GoesOn(w, j) ==
    /\ task[w][j] # "none"
    /\ \E to \in TaskState \ {"none"} : TaskGoes(w, j, to)
    /\ UNCHANGED <<queue, unlocked, closers>>

LEMMA TaskStepLocks ==
    ASSUME NEW w \in Workers, NEW j \in Jobs, TaskStep(w, j)
    PROVE  \/ Take(w, j) \/ TakeInvalid(w, j) \/ Return(w, j) \/ Raise(w, j)
           \/ GoesOn(w, j)
           \/ UNCHANGED <<queue, unlocked, closers, task>>
  <1> USE DEF GoesOn, queueVars
  <1>1. CASE EnterSlot(w, j)
    BY <1>1 DEF EnterSlot
  <1>2. CASE Claim(w, j)
    BY <1>2 DEF Claim
  <1>3. CASE StartRunner(w, j) \/ Touch(w, j)
    BY <1>3 DEF StartRunner, Touch
  <1>4. CASE RunnerEnds(w, j) \/ RunnerCancelled(w, j) \/ RunnerForced(w, j)
    BY <1>4 DEF RunnerEnds, RunnerCancelled, RunnerForced
  <1>5. CASE Complete(w, j)
    BY <1>5 DEF Complete
  <1>6. CASE CloseFailed(w, j) \/ CloseCancelled(w, j)
    BY <1>6 DEF CloseFailed, CloseCancelled
  <1> QED
    BY <1>1, <1>2, <1>3, <1>4, <1>5, <1>6 DEF TaskStep

LEMMA WorkerKeepsLockInv ==
    ASSUME TypeOK, LockInv, WorkerActs
    PROVE  LockInv'
  <1> USE DEF LockInv, AddedOnce, KnownToRedis, WaitingIsUntouched, LockIsExclusive,
              queueVars, workerVars, TypeOK, SharedTypeOK, WorkerTypeOK
  <1>1. UNCHANGED create
    BY DEF WorkerActs, gatewayVars
  <1>2. ASSUME NEW w \in Workers, NEW j \in Jobs, TaskStep(w, j) PROVE LockInv'
    <2>1. CASE Take(w, j) \/ TakeInvalid(w, j)
      <3>1. Fetch(w, j) /\ \E to \in {"waiting", "rejecting"} : TaskGoes(w, j, to)
        BY <2>1 DEF Take, TakeInvalid
      <3>2. queue[j] = "waiting" /\ queue' = [queue EXCEPT ![j] = "active"]
            /\ UNCHANGED <<unlocked, closers>>
        BY <3>1 DEF Fetch
      <3>3. /\ task'[w][j] # "none"
            /\ \A v \in Workers, i \in Jobs :
                  v # w \/ i # j => task'[v][i] = task[v][i]
        BY <3>1 DEF TaskGoes
      <3> QED
        BY <1>1, <3>2, <3>3
    <2>2. CASE Return(w, j)
      BY <1>1, <2>2 DEF Return, Leave, TaskGoes
    <2>3. CASE Raise(w, j)
      BY <1>1, <2>3 DEF Raise, Leave, TaskGoes
    <2>4. CASE GoesOn(w, j)
      BY <1>1, <2>4 DEF GoesOn, TaskGoes
    <2>5. CASE UNCHANGED <<queue, unlocked, closers, task>>
      BY <1>1, <2>5
    <2> QED
      BY <1>2, <2>1, <2>2, <2>3, <2>4, <2>5, TaskStepLocks
  <1>3. ASSUME NEW w \in Workers, NEW j \in Jobs, Stalled(w, j) PROVE LockInv'
    BY <1>1, <1>3 DEF Stalled
  <1>4. ASSUME NEW w \in Workers, NEW j \in Jobs, CloseInterrupted(w, j) PROVE LockInv'
    BY <1>1, <1>4 DEF CloseInterrupted
  <1>5. ASSUME NEW w \in Workers, NEW j \in Jobs, LockLost(w, j) \/ Deliver(w, j)
        PROVE  LockInv'
    BY <1>1, <1>5 DEF LockLost, Deliver
  <1>6. ASSUME NEW w \in Workers, Dies(w) PROVE LockInv'
    BY <1>1, <1>6 DEF Dies, NoTasks, Held
  <1>7. ASSUME NEW w \in Workers,
               \/ Subscribe(w) \/ LoseSubscription(w)
               \/ Start(w) \/ Stop(w) \/ GraceEnds(w)
        PROVE  LockInv'
    BY <1>1, <1>7 DEF Subscribe, LoseSubscription, Start, Stop, GraceEnds
  <1>8. ASSUME NEW j \in Jobs, LockLapses(j) PROVE LockInv'
    BY <1>1, <1>8 DEF LockLapses
  <1>9. CASE RedisRestarts
    BY <1>1, <1>9 DEF RedisRestarts
  <1> QED
    BY <1>2, <1>3, <1>4, <1>5, <1>6, <1>7, <1>8, <1>9 DEF WorkerActs, WorkerStep, Exit, Crash

LEMMA RestKeepsLockInv ==
    ASSUME TypeOK, LockInv, ReaperActs \/ Time \/ GatewayCrash \/ UNCHANGED vars
    PROVE  LockInv'
  <1> USE DEF LockInv, AddedOnce, KnownToRedis, WaitingIsUntouched, LockIsExclusive
  <1>1. CASE GatewayCrash
    BY <1>1 DEF GatewayCrash, GatewayDies, queueVars, workerVars
  <1>2. CASE Time \/ UNCHANGED vars
    BY <1>2 DEF Time, vars, queueVars, gatewayVars, workerVars
  <1>3. CASE ReaperActs
    <2>1. UNCHANGED <<queue, unlocked>>
      BY <1>3 DEF ReaperActs, ReaperStep, ReapScan, ReapClose, ReapNotify, ReapScanQueued,
                  ReapCheck, ReapCloseQueued, ReapEnd, ReapAbort, queueVars
    <2> QED
      BY <1>3, <2>1 DEF ReaperActs, gatewayVars, workerVars
  <1> QED
    BY <1>1, <1>2, <1>3

LEMMA LockInvNext == TypeOK /\ LockInv /\ [Next]_vars => LockInv'
  BY GatewayKeepsLockInv, WorkerKeepsLockInv, RestKeepsLockInv
  DEF Next, GatewayActs, ReaperActs, WorkerActs

-----------------------------------------------------------------------------
(* The row of a job that a healthy worker computes *)

(* What HealthyWorkerKeepsRow needs to be inductive: the reaper does not hold
   the row for a silent one, and will not before the worker lets go of it. *)
HealthyRowsAreFresh ==
    "pause" \notin Faults =>
        \A w \in Workers, j \in Jobs :
            task[w][j] \in Executing /\ j \notin unlocked =>
                row[j] = "RUNNING" /\ j \notin silent \cup cut

LEMMA HealthyInit == Init => HealthyRowsAreFresh
  BY DEF Init, WorkerInit, NoTasks, HealthyRowsAreFresh

(* No step of another process, or of another job, takes the row from a healthy
   worker. *)
LEMMA TaskStepKeepsHealthy ==
    ASSUME TypeOK, LockInv, HealthyRowsAreFresh, "pause" \notin Faults,
           NEW v \in Workers, NEW i \in Jobs, TaskStep(v, i),
           NEW w \in Workers, NEW j \in Jobs, task'[w][j] \in Executing, j \notin unlocked'
    PROVE  row'[j] = "RUNNING" /\ j \notin silent' \cup cut'
  <1> USE DEF TypeOK, SharedTypeOK, WorkerTypeOK, tableVars, queueVars, TaskGoes,
              WriteRow, KeepRow, UpdateWhere, Fail, Fetch, Leave
  <1>1. j \notin unlocked
    BY DEF TaskStep, Take, TakeInvalid, EnterSlot, Claim, StartRunner, Touch, RunnerEnds,
           RunnerCancelled, RunnerForced, Complete, CloseFailed, CloseCancelled, Return,
           Raise
  <1>2. CASE i # j
    <2>1. task'[w][j] = task[w][j]
      <3>1. (\E to \in TaskState : TaskGoes(v, i, to)) \/ UNCHANGED task
        BY TaskStepMoves DEF CoroutineMoves
      <3>2. ASSUME NEW to \in TaskState, TaskGoes(v, i, to)
            PROVE  task'[w][j] = task[w][j]
        BY <1>2, <3>2
      <3> QED
        BY <3>1, <3>2
    <2>2. row'[j] = row[j] /\ (j \in silent' \cup cut' => j \in silent \cup cut)
      <3>1. CASE Claim(v, i) \/ Touch(v, i) \/ Complete(v, i)
        BY <1>2, <3>1 DEF Claim, Touch, Complete
      <3>2. CASE CloseFailed(v, i) \/ CloseCancelled(v, i)
        BY <1>2, <3>2 DEF CloseFailed, CloseCancelled
      <3>3. CASE UNCHANGED tableVars
        BY <3>3
      <3> QED
        BY <3>1, <3>2, <3>3 DEF TaskStep, Take, TakeInvalid, EnterSlot, StartRunner,
           RunnerEnds, RunnerCancelled, RunnerForced, Return, Raise
    <2> QED
      BY <1>1, <2>1, <2>2 DEF HealthyRowsAreFresh
  <1>3. CASE i = j /\ v # w
    <2>1. task'[w][j] = task[w][j]
      BY <1>3 DEF TaskStep, Take, TakeInvalid, EnterSlot, Claim, StartRunner, Touch,
         RunnerEnds, RunnerCancelled, RunnerForced, Complete, CloseFailed, CloseCancelled,
         Return, Raise
    <2>2. task[v][j] = "none" /\ queue[j] = "active"
      BY <1>1, <1>3, <2>1 DEF LockInv, LockIsExclusive
    <2> QED
      BY <1>3, <2>2 DEF TaskStep, Take, TakeInvalid, EnterSlot, Claim, StartRunner, Touch,
         RunnerEnds, RunnerCancelled, RunnerForced, Complete, CloseFailed, CloseCancelled,
         Return, Raise
  <1>4. CASE i = j /\ v = w
    <2>1. CASE Claim(w, j)
      BY <2>1 DEF Claim
    <2>2. CASE Touch(w, j)
      BY <1>1, <2>2 DEF Touch, HealthyRowsAreFresh
    <2>3. CASE StartRunner(w, j) \/ RunnerEnds(w, j)
      BY <1>1, <2>3 DEF StartRunner, RunnerEnds, HealthyRowsAreFresh
    <2>4. CASE \/ Take(w, j) \/ TakeInvalid(w, j) \/ EnterSlot(w, j) \/ Complete(w, j)
               \/ RunnerCancelled(w, j) \/ RunnerForced(w, j)
               \/ CloseFailed(w, j) \/ CloseCancelled(w, j) \/ Return(w, j) \/ Raise(w, j)
      BY <2>4 DEF Take, TakeInvalid, EnterSlot, Complete, RunnerCancelled, RunnerForced,
                  CloseFailed, CloseCancelled, Return, Raise
    <2> QED
      BY <1>4, <2>1, <2>2, <2>3, <2>4 DEF TaskStep
  <1> QED
    BY <1>2, <1>3, <1>4

(* A step that starts no computation, gives back no lock and writes neither
   this row nor the reaper's view of it. *)
LeavesAlone(w, j) ==
    /\ task'[w][j] \in Executing => task[w][j] \in Executing
    /\ unlocked \subseteq unlocked'
    /\ row'[j] = row[j]
    /\ j \in silent' \cup cut' => j \in silent \cup cut

LEMMA OthersKeepHealthy ==
    ASSUME TypeOK, CreationInv, LockInv, HealthyRowsAreFresh, "pause" \notin Faults,
           NEW w \in Workers, NEW j \in Jobs, task'[w][j] \in Executing, j \notin unlocked',
           \/ \E i \in Jobs : GatewayStep(i) /\ UNCHANGED <<reaperVars, workerVars>>
           \/ ReaperActs \/ Time \/ GatewayCrash \/ UNCHANGED vars
    PROVE  LeavesAlone(w, j)
  <1> USE DEF LeavesAlone, TypeOK, SharedTypeOK, GatewayTypeOK, WorkerTypeOK, tableVars,
              queueVars, workerVars, WriteRow, KeepRow, UpdateWhere
  <1>1. UNCHANGED <<task, unlocked>>
    <2>1. CASE \E i \in Jobs : GatewayStep(i) /\ UNCHANGED <<reaperVars, workerVars>>
      BY <2>1 DEF GatewayStep, Upload, DiscardUpload, CreateRow, Enqueue, EnqueueFails,
                  FailEnqueue, DeleteInput, CancelRead, CancelDecide, CancelCleanup,
                  CancelReread, CancelPublish
    <2>2. CASE ReaperActs
      BY <2>2 DEF ReaperActs, ReaperStep, ReapScan, ReapClose, ReapNotify, ReapScanQueued,
                  ReapCheck, ReapCloseQueued, ReapEnd, ReapAbort
    <2> QED
      BY <2>1, <2>2 DEF Time, GatewayCrash, vars
  <1>2. row[j] = "RUNNING" /\ j \notin silent \cup cut
    BY <1>1 DEF HealthyRowsAreFresh
  <1>3. ASSUME NEW i \in Jobs, GatewayStep(i) PROVE LeavesAlone(w, j)
    <2>1. CASE CreateRow(i)
      BY <1>1, <1>2, <2>1 DEF CreateRow, CreationInv, RowFollowsRequest
    <2>2. CASE FailEnqueue(i) \/ CancelDecide(i)
      BY <1>1, <1>2, <2>2 DEF FailEnqueue, CancelDecide
    <2> QED
      BY <1>1, <1>3, <2>1, <2>2
      DEF GatewayStep, Upload, DiscardUpload, Enqueue, EnqueueFails, DeleteInput,
          CancelRead, CancelCleanup, CancelReread, CancelPublish
  <1>4. CASE ReaperActs
    <2>1. CASE ReapScan
      BY <1>1, <1>2, <2>1 DEF ReapScan
    <2>2. CASE ReapClose
      BY <1>1, <1>2, <2>2 DEF ReapClose, StillStale
    <2>3. CASE \E i \in Jobs : ReapCloseQueued(i)
      BY <1>1, <1>2, <2>3 DEF ReapCloseQueued
    <2> QED
      BY <1>1, <1>4, <2>1, <2>2, <2>3
      DEF ReaperActs, ReaperStep, ReapNotify, ReapScanQueued, ReapCheck, ReapEnd, ReapAbort
  <1>5. CASE Time
    BY <1>1, <1>2, <1>5 DEF Time, Ages, FallsSilent
  <1> QED
    BY <1>1, <1>3, <1>4, <1>5 DEF GatewayCrash, vars

LEMMA HealthyNext ==
    TypeOK /\ CreationInv /\ LockInv /\ HealthyRowsAreFresh /\ [Next]_vars
        => HealthyRowsAreFresh'
  <1> SUFFICES ASSUME TypeOK, CreationInv, LockInv, HealthyRowsAreFresh, [Next]_vars,
                      "pause" \notin Faults, NEW w \in Workers, NEW j \in Jobs,
                      task'[w][j] \in Executing, j \notin unlocked'
               PROVE  row'[j] = "RUNNING" /\ j \notin silent' \cup cut'
    BY DEF HealthyRowsAreFresh
  <1>1. LeavesAlone(w, j) => row'[j] = "RUNNING" /\ j \notin silent' \cup cut'
    BY DEF LeavesAlone, HealthyRowsAreFresh
  <1>2. CASE WorkerActs
    <2> USE DEF LeavesAlone, tableVars, queueVars
    <2>1. ASSUME NEW v \in Workers, NEW i \in Jobs, TaskStep(v, i)
          PROVE  row'[j] = "RUNNING" /\ j \notin silent' \cup cut'
      BY <2>1, TaskStepKeepsHealthy
    <2>2. ASSUME NEW v \in Workers, NEW i \in Jobs, CloseInterrupted(v, i)
          PROVE  LeavesAlone(w, j)
      <3>1. UNCHANGED <<task, unlocked>>
        BY <2>2 DEF CloseInterrupted
      <3>2. i # j
        BY <2>2, <3>1 DEF CloseInterrupted, LockInv, LockIsExclusive
      <3> QED
        BY <2>2, <3>1, <3>2 DEF CloseInterrupted, Fail, UpdateWhere, WriteRow, KeepRow,
                                TypeOK, SharedTypeOK
    <2>3. ASSUME NEW v \in Workers, NEW i \in Jobs,
                 Stalled(v, i) \/ LockLost(v, i) \/ Deliver(v, i)
          PROVE  LeavesAlone(w, j)
      BY <2>3 DEF Stalled, LockLost, Deliver
    <2>4. ASSUME NEW v \in Workers, Dies(v) PROVE LeavesAlone(w, j)
      BY <2>4 DEF Dies, NoTasks, TypeOK, WorkerTypeOK
    <2>5. ASSUME NEW v \in Workers,
                 \/ Subscribe(v) \/ LoseSubscription(v)
                 \/ Start(v) \/ Stop(v) \/ GraceEnds(v)
          PROVE  LeavesAlone(w, j)
      BY <2>5 DEF Subscribe, LoseSubscription, Start, Stop, GraceEnds, workerVars
    <2>6. ASSUME RedisRestarts PROVE LeavesAlone(w, j)
      BY <2>6 DEF RedisRestarts, workerVars
    <2>7. ASSUME NEW i \in Jobs, LockLapses(i) PROVE LeavesAlone(w, j)
      BY <2>7 DEF LockLapses, workerVars
    <2> QED
      BY <1>1, <1>2, <2>1, <2>2, <2>3, <2>4, <2>5, <2>6, <2>7
      DEF WorkerActs, WorkerStep, Exit, Crash
  <1> QED
    BY <1>1, <1>2, OthersKeepHealthy DEF Next, ReaperActs, WorkerActs

LEMMA HealthyCorrect == Spec => [](TypeOK /\ CreationInv /\ LockInv /\ HealthyRowsAreFresh)
  BY InitTypeOK, NextKeepsType, CreationInvInit, CreationInvNext, LockInvInit,
     LockInvNext, HealthyInit, HealthyNext, PTL DEF Spec

(* Nobody (neither the reaper, nor a failed enqueue, nor another worker, nor the
   handler of an interrupted job) closes the row of a job that a worker computes
   while its lock holds and its heartbeat is not stuck. *)
THEOREM HealthyWorkIsNotClosed == Spec => []HealthyWorkerKeepsRow
  <1>1. HealthyRowsAreFresh => HealthyWorkerKeepsRow
    BY DEF HealthyRowsAreFresh, HealthyWorkerKeepsRow
  <1> QED
    BY <1>1, HealthyCorrect, PTL

-----------------------------------------------------------------------------
(* The system implements JobContract *)

(* A job is computed by one worker at most: rows never go back to QUEUED, and
   the claim needs a QUEUED row. *)
OneExecutor ==
    \A v, w \in Workers, j \in Jobs :
        task[v][j] \in Executing /\ task[w][j] \in Executing => v = w

ContractInv == TypeOK /\ CreationInv /\ CoroutineInv /\ OneExecutor

LEMMA OneExecutorInit == Init => OneExecutor
  BY DEF Init, WorkerInit, NoTasks, OneExecutor

(* What a coroutine's step does to the set of the jobs being computed. *)
LEMMA TaskGoesComputing ==
    ASSUME TypeOK, OneExecutor, NEW w \in Workers, NEW j \in Jobs, NEW to \in TaskState,
           TaskGoes(w, j, to)
    PROVE  Computing' = IF to \in Executing THEN Computing \cup {j}
                        ELSE IF task[w][j] \in Executing THEN Computing \ {j}
                        ELSE Computing
  <1>1. \A v \in Workers, i \in Jobs :
            task'[v][i] = IF v = w /\ i = j THEN to ELSE task[v][i]
    BY DEF TaskGoes, TypeOK, WorkerTypeOK
  <1>2. CASE to \in Executing
    BY <1>1, <1>2 DEF Computing
  <1>3. CASE to \notin Executing /\ task[w][j] \in Executing
    BY <1>1, <1>3 DEF Computing, OneExecutor
  <1>4. CASE to \notin Executing /\ task[w][j] \notin Executing
    BY <1>1, <1>4 DEF Computing
  <1> QED
    BY <1>2, <1>3, <1>4

LEMMA OneExecutorNext == ContractInv /\ [Next]_vars => OneExecutor'
  <1> SUFFICES ASSUME ContractInv, [Next]_vars PROVE OneExecutor'
    OBVIOUS
  <1>1. CASE UNCHANGED task
    BY <1>1 DEF ContractInv, OneExecutor
  <1>2. ASSUME NEW w \in Workers, Dies(w) PROVE OneExecutor'
    BY <1>2 DEF Dies, NoTasks, ContractInv, OneExecutor, TypeOK, WorkerTypeOK
  <1>3. ASSUME NEW w \in Workers, NEW j \in Jobs, NEW to \in TaskState,
               TaskGoes(w, j, to),
               to \in Executing =>
                   task[w][j] \in Executing \/ \A v \in Workers : task[v][j] \notin Executing
        PROVE  OneExecutor'
    <2>1. \A v \in Workers, i \in Jobs :
              task'[v][i] = IF v = w /\ i = j THEN to ELSE task[v][i]
      BY <1>3 DEF TaskGoes, ContractInv, TypeOK, WorkerTypeOK
    <2> QED
      BY <1>3, <2>1 DEF ContractInv, OneExecutor
  <1>4. ASSUME NEW w \in Workers, NEW j \in Jobs, Claim(w, j) PROVE OneExecutor'
    <2>1. CASE row[j] = "QUEUED"
      <3>1. \A v \in Workers : task[v][j] \notin Executing
        BY <2>1 DEF ContractInv, CreationInv, UnstartedUntilClaimed, CoroutineInv,
                    OnlyClaimedJobsExecute
      <3> QED
        BY <1>3, <1>4, <3>1 DEF Claim
    <2>2. CASE TaskGoes(w, j, "raising")
      BY <1>3, <2>2
    <2> QED
      BY <1>4, <2>1, <2>2 DEF Claim
  <1>5. ASSUME NEW w \in Workers, NEW j \in Jobs, TaskStep(w, j), ~ Claim(w, j)
        PROVE  OneExecutor'
    <2>1. \/ UNCHANGED task
          \/ \E to \in TaskState :
               TaskGoes(w, j, to) /\ (to \in Executing => task[w][j] \in Executing)
      BY <1>5 DEF TaskStep, Take, TakeInvalid, EnterSlot, StartRunner, Touch, RunnerEnds,
         RunnerCancelled, RunnerForced, Complete, CloseFailed, CloseCancelled, Return,
         Raise, Leave
    <2>2. CASE ~ UNCHANGED task
      <3>1. PICK to \in TaskState :
               TaskGoes(w, j, to) /\ (to \in Executing => task[w][j] \in Executing)
        BY <2>1, <2>2
      <3> QED
        BY <1>3, <3>1
    <2> QED
      BY <1>1, <2>2
  <1>6. WorkerActs => OneExecutor'
    BY <1>1, <1>2, <1>4, <1>5
    DEF WorkerActs, WorkerStep, Stalled, CloseInterrupted, LockLost, Deliver, Subscribe,
        LoseSubscription, Start, Stop, GraceEnds, Exit, Crash, LockLapses, RedisRestarts,
        workerVars
  <1> QED
    BY <1>1, <1>6
    DEF Next, ReaperActs, WorkerActs, Time, GatewayCrash, vars, workerVars

LEMMA ContractInvCorrect == Spec => []ContractInv
  BY InitTypeOK, NextKeepsType, CreationInvInit, CreationInvNext, CoroutineInvInit,
     CoroutineInvNext, OneExecutorInit, OneExecutorNext, PTL DEF Spec, ContractInv

LEMMA GatewayImplements ==
    ASSUME ContractInv, NEW j \in Jobs, GatewayStep(j), UNCHANGED workerVars
    PROVE  Contract!Next \/ UNCHANGED <<row, Computing>>
  <1> USE DEF ContractInv, TypeOK, SharedTypeOK, tableVars, WriteRow, KeepRow, UpdateWhere
  <1>1. UNCHANGED Computing
    BY DEF workerVars, Computing
  <1>2. CASE CreateRow(j)
    <2>1. Contract!Submit(j)
      BY <1>1, <1>2 DEF CreateRow, CreationInv, RowFollowsRequest, Contract!Submit
    <2> QED
      BY <2>1 DEF Contract!Next
  <1>3. ASSUME NEW s \in {"FAILED", "CANCELLED"}, row[j] = "QUEUED", WriteRow(j, s)
        PROVE  Contract!Next
    <2>1. row' = [i \in Jobs |-> IF i \in {j} THEN s ELSE row[i]]
      BY <1>3
    <2>2. Contract!Close({j}, s)
      BY <1>1, <1>3, <2>1 DEF Contract!Close, Contract!Pending
    <2> QED
      BY <2>2 DEF Contract!Next
  <1>4. CASE FailEnqueue(j)
    BY <1>1, <1>3, <1>4 DEF FailEnqueue
  <1>5. CASE CancelDecide(j)
    BY <1>1, <1>3, <1>5 DEF CancelDecide
  <1> QED
    BY <1>1, <1>2, <1>4, <1>5
    DEF GatewayStep, Upload, DiscardUpload, Enqueue, EnqueueFails, DeleteInput,
        CancelRead, CancelCleanup, CancelReread, CancelPublish

LEMMA ReaperImplements ==
    ASSUME ContractInv, ReaperActs
    PROVE  Contract!Next \/ UNCHANGED <<row, Computing>>
  <1> USE DEF ContractInv, TypeOK, SharedTypeOK, tableVars, WriteRow, KeepRow, UpdateWhere
  <1>1. UNCHANGED Computing
    BY DEF ReaperActs, workerVars, Computing
  <1>2. CASE ReapClose
    <2>1. StillStale \in SUBSET Jobs /\ \A j \in StillStale : row[j] = "RUNNING"
      BY DEF StillStale, Running
    <2>2. Contract!Close(StillStale, "FAILED")
      BY <1>1, <1>2, <2>1 DEF ReapClose, Contract!Close, Contract!Pending
    <2> QED
      BY <2>1, <2>2 DEF Contract!Next
  <1>3. ASSUME NEW j \in Jobs, ReapCloseQueued(j), row[j] = "QUEUED" PROVE Contract!Next
    <2>1. row' = [i \in Jobs |-> IF i \in {j} THEN "FAILED" ELSE row[i]]
      BY <1>3 DEF ReapCloseQueued
    <2>2. Contract!Close({j}, "FAILED")
      BY <1>1, <1>3, <2>1 DEF Contract!Close, Contract!Pending
    <2> QED
      BY <2>2 DEF Contract!Next
  <1>4. CASE \E j \in Jobs : ReapCloseQueued(j)
    BY <1>1, <1>3, <1>4 DEF ReapCloseQueued
  <1> QED
    BY <1>1, <1>2, <1>4
    DEF ReaperActs, ReaperStep, ReapScan, ReapScanQueued, ReapEnd, ReapAbort, ReapNotify,
        ReapCheck

(* repo.fail closes a pending row, or leaves the table alone. *)
LEMMA FailImplements ==
    ASSUME ContractInv, NEW j \in Jobs, NEW s \in {"FAILED", "CANCELLED"}, Fail(j, s),
           UNCHANGED Computing
    PROVE  Contract!Next \/ UNCHANGED <<row, Computing>>
  <1> USE DEF ContractInv, TypeOK, SharedTypeOK, WriteRow, KeepRow, UpdateWhere, Fail
  <1>1. CASE row[j] \in Pending /\ WriteRow(j, s)
    <2>1. row' = [i \in Jobs |-> IF i \in {j} THEN s ELSE row[i]]
      BY <1>1
    <2>2. Contract!Close({j}, s)
      BY <1>1, <2>1 DEF Contract!Close, Contract!Pending
    <2> QED
      BY <2>2 DEF Contract!Next
  <1>2. CASE UNCHANGED row
    BY <1>2
  <1> QED
    BY <1>1, <1>2

LEMMA TaskStepImplements ==
    ASSUME ContractInv, NEW w \in Workers, NEW j \in Jobs, TaskStep(w, j)
    PROVE  Contract!Next \/ UNCHANGED <<row, Computing>>
  <1> USE DEF ContractInv, tableVars
  (* A step that writes no row lets the computation go on or abandons it. *)
  <1>1. ASSUME NEW to \in TaskState, TaskGoes(w, j, to), UNCHANGED row,
               to \in Executing => task[w][j] \in Executing
        PROVE  Contract!Next \/ UNCHANGED <<row, Computing>>
    <2>1. Computing' = Computing \/ Computing' = Computing \ {j}
      BY <1>1, TaskGoesComputing DEF Computing
    <2>2. Computing' = Computing \ {j} => Contract!Abandon({j})
      BY <1>1 DEF Contract!Abandon
    <2> QED
      BY <1>1, <2>1, <2>2 DEF Contract!Next
  <1>2. CASE Claim(w, j)
    <2> USE DEF Claim, TypeOK, SharedTypeOK
    <2>1. CASE row[j] = "QUEUED" /\ WriteRow(j, "RUNNING")
      <3>1. task[w][j] \notin Executing
        BY <1>2
      <3>2. Computing' \in {Computing, Computing \cup {j}}
        <4>1. CASE TaskGoes(w, j, "claimed")
          BY <4>1, TaskGoesComputing
        <4>2. CASE TaskGoes(w, j, "raising")
          BY <3>1, <4>2, TaskGoesComputing
        <4> QED
          BY <1>2, <4>1, <4>2
      <3>3. Contract!Begin(j)
        BY <2>1, <3>2 DEF WriteRow, Contract!Begin
      <3> QED
        BY <3>3 DEF Contract!Next
    <2>2. CASE TaskGoes(w, j, "raising") /\ UNCHANGED row
      BY <1>1, <2>2
    <2> QED
      BY <1>2, <2>1, <2>2 DEF KeepRow
  <1>3. CASE Complete(w, j)
    <2>1. CASE row[j] = "RUNNING" /\ WriteRow(j, "COMPLETED") /\ TaskGoes(w, j, "returning")
      <3>1. j \in Computing /\ task[w][j] \in Executing
        BY <1>3 DEF Complete, Computing
      <3>2. Computing' = Computing \ {j}
        BY <2>1, <3>1, TaskGoesComputing
      <3>3. Contract!Finish(j)
        BY <2>1, <3>1, <3>2 DEF WriteRow, Contract!Finish
      <3> QED
        BY <3>3 DEF Contract!Next
    <2>2. CASE UNCHANGED row /\ \E to \in {"returning", "raising"} : TaskGoes(w, j, to)
      BY <1>1, <2>2
    <2> QED
      BY <1>3, <2>1, <2>2 DEF Complete, UpdateWhere, KeepRow
  <1>4. ASSUME NEW s \in {"FAILED", "CANCELLED"}, Fail(j, s), TaskGoes(w, j, "raising"),
               task[w][j] \notin Executing
        PROVE  Contract!Next \/ UNCHANGED <<row, Computing>>
    <2>1. UNCHANGED Computing
      BY <1>4, TaskGoesComputing
    <2> QED
      BY <1>4, <2>1, FailImplements
  <1>5. CASE CloseFailed(w, j)
    BY <1>4, <1>5 DEF CloseFailed
  <1>6. CASE CloseCancelled(w, j)
    BY <1>4, <1>6 DEF CloseCancelled
  <1>7. CASE Touch(w, j)
    <2>1. UNCHANGED row
      BY <1>7 DEF Touch, WriteRow, KeepRow, TypeOK, SharedTypeOK
    <2> QED
      BY <1>7, <2>1 DEF Touch, Computing
  <1>8. CASE Take(w, j) \/ TakeInvalid(w, j) \/ EnterSlot(w, j) \/ StartRunner(w, j)
    BY <1>1, <1>8 DEF Take, TakeInvalid, Fetch, EnterSlot, StartRunner
  <1>9. CASE RunnerEnds(w, j) \/ RunnerCancelled(w, j) \/ RunnerForced(w, j)
    BY <1>1, <1>9 DEF RunnerEnds, RunnerCancelled, RunnerForced
  <1>10. CASE Return(w, j) \/ Raise(w, j)
    BY <1>1, <1>10 DEF Return, Raise, Leave
  <1> QED
    BY <1>2, <1>3, <1>5, <1>6, <1>7, <1>8, <1>9, <1>10 DEF TaskStep

LEMMA WorkerImplements ==
    ASSUME ContractInv, WorkerActs
    PROVE  Contract!Next \/ UNCHANGED <<row, Computing>>
  <1> USE DEF tableVars, workerVars
  <1>1. ASSUME NEW w \in Workers, Dies(w) PROVE Contract!Next
    <2> DEFINE S == {j \in Jobs : j \in Computing /\ j \notin Computing'}
    <2>1. Computing' = Computing \ S
      BY <1>1 DEF Dies, NoTasks, Computing, ContractInv, TypeOK, WorkerTypeOK
    <2>2. Contract!Abandon(S) /\ S \in SUBSET Jobs
      BY <1>1, <2>1 DEF Dies, Contract!Abandon
    <2> QED
      BY <2>2 DEF Contract!Next
  <1>2. ASSUME NEW w \in Workers, NEW j \in Jobs, CloseInterrupted(w, j)
        PROVE  Contract!Next \/ UNCHANGED <<row, Computing>>
    <2>1. UNCHANGED Computing
      BY <1>2 DEF CloseInterrupted, Computing
    <2> QED
      BY <1>2, <2>1, FailImplements DEF CloseInterrupted
  <1>3. CASE UNCHANGED <<row, task>>
    BY <1>3 DEF Computing
  <1> QED
    BY <1>1, <1>2, <1>3, TaskStepImplements
    DEF WorkerActs, WorkerStep, Stalled, LockLost, Deliver, Subscribe, LoseSubscription,
        Start, Stop, GraceEnds, Exit, Crash, LockLapses, RedisRestarts

(* The gateway, the reaper, the queue and the workers together do nothing to the
   table of jobs that JobContract does not allow, whatever fails. *)
THEOREM SystemImplementsContract == Spec => ImplementsContract
  <1>1. Init => Contract!Init
    BY DEF Init, SharedInit, WorkerInit, NoTasks, Computing, Contract!Init
  <1>2. ContractInv /\ [Next]_vars => [Contract!Next]_(Contract!vars)
    <2>1. Time \/ GatewayCrash \/ UNCHANGED vars => UNCHANGED <<row, Computing>>
      BY DEF Time, Ages, FallsSilent, GatewayCrash, vars, tableVars, workerVars, Computing
    <2> QED
      BY <2>1, GatewayImplements, ReaperImplements, WorkerImplements
      DEF Next, ReaperActs, WorkerActs, Contract!vars
  <1> QED
    BY ContractInvCorrect, <1>1, <1>2, PTL DEF Spec, ImplementsContract, Contract!Spec

-----------------------------------------------------------------------------
(* Cancellations: who asked, and who is told *)

(* The faults that lose what Redis or a lock knew, or make a live worker look
   dead: the reaper and the heartbeat then abort work that nobody cancelled. *)
Undisturbed == {"pause", "lock", "redis"} \cap Faults = {}

(* A lock that lapsed was of a worker that died, and a worker hears of what it
   holds only. *)
LapsedIsLetGo == \A j \in Jobs : j \in unlocked => \A w \in Workers : task[w][j] = "none"
RunningWasFetched == \A j \in Jobs : row[j] = "RUNNING" => queue[j] \in {"active", "done"}
ListensToItsOwn == \A w \in Workers, j \in Jobs : task[w][j] = "none" => flag[w][j] = "absent"

(* A job that no worker holds, nor will. *)
Abandoned(j) == queue[j] \in {"active", "done"} /\ \A w \in Workers : task[w][j] = "none"
SilentIsAbandoned ==
    \A j \in Jobs : j \in silent \/ (pass \in {"close", "notify"} /\ j \in batch) => Abandoned(j)

(* Who aborts a job was asked to: the request, its message and its event. *)
RequestsWereAsked == \A j \in Jobs : cancel[j] # "idle" => j \in asked
MailWasAsked == \A w \in Workers, j \in Jobs : j \in mail[w] => j \in asked \/ Abandoned(j)
AbortsWereAsked ==
    \A w \in Workers, j \in Jobs :
        /\ flag[w][j] # "set"
        /\ flag[w][j] = "aborted" \/ task[w][j] = "cancelling" => j \in asked

AskedInv ==
    /\ LapsedIsLetGo
    /\ RunningWasFetched
    /\ ListensToItsOwn
    /\ SilentIsAbandoned
    /\ RequestsWereAsked
    /\ MailWasAsked
    /\ AbortsWereAsked
    /\ CancelledWasAsked

(* With one worker, and none of its subscriptions lost, whoever received the
   message is who computes. *)
OneListener == (\E w \in Workers : Workers = {w}) /\ {"sub", "redis"} \cap Faults = {}

(* A request that publishes saw the row past the queue. *)
PublishedIsStarted ==
    \A j \in Jobs : /\ cancel[j] = "seen" => row[j] # "none"
                    /\ cancel[j] \in {"lost", "publish", "accepted"} => row[j] \notin {"none", "QUEUED"}

ToldInv == PublishedIsStarted /\ (OneListener => AcceptedCancelIsTold)

LEMMA AskedInit == Init => AskedInv
  BY DEF Init, SharedInit, GatewayInit, ReaperInit, WorkerInit, NoTasks, NoFlags, AskedInv, LapsedIsLetGo,
         RunningWasFetched, ListensToItsOwn, SilentIsAbandoned, RequestsWereAsked, MailWasAsked, AbortsWereAsked,
         CancelledWasAsked

(* Outside the coroutines: nobody is silenced or notified whom a worker still
   holds, and a job is cancelled only if it was asked for. *)
LEMMA AskedKept ==
    ASSUME AskedInv, UNCHANGED <<task, flag>>, unlocked' \subseteq unlocked, asked \subseteq asked',
           \A i \in Jobs :
               /\ queue[i] \in {"active", "done"} => queue'[i] \in {"active", "done"}
               /\ row'[i] = "RUNNING" => row[i] = "RUNNING"
               /\ row'[i] = "CANCELLED" => row[i] = "CANCELLED" \/ i \in asked'
               /\ cancel'[i] # "idle" => cancel[i] # "idle" \/ i \in asked'
               /\ i \in silent' => i \in silent \/ Abandoned(i)
               /\ pass' \in {"close", "notify"} /\ i \in batch' =>
                      i \in silent \/ (pass \in {"close", "notify"} /\ i \in batch),
           \A w \in Workers, i \in Jobs : i \in mail'[w] => i \in mail[w] \/ i \in asked' \/ Abandoned(i)
    PROVE  AskedInv'
  <1> USE DEF AskedInv
  <1>1. \A i \in Jobs : Abandoned(i) => Abandoned(i)'
    BY DEF Abandoned
  <1>2. LapsedIsLetGo' /\ RunningWasFetched' /\ ListensToItsOwn'
    BY DEF LapsedIsLetGo, RunningWasFetched, ListensToItsOwn
  <1>3. SilentIsAbandoned'
    BY <1>1 DEF SilentIsAbandoned
  <1>4. RequestsWereAsked' /\ AbortsWereAsked' /\ CancelledWasAsked'
    BY DEF RequestsWereAsked, AbortsWereAsked, CancelledWasAsked
  <1>5. MailWasAsked'
    BY <1>1 DEF MailWasAsked
  <1> QED
    BY <1>2, <1>3, <1>4, <1>5

LEMMA GatewayKeepsAsked ==
    ASSUME TypeOK, AskedInv, NEW j \in Jobs, GatewayStep(j), UNCHANGED <<reaperVars, workerVars>>
    PROVE  AskedInv'
  <1> USE DEF TypeOK, SharedTypeOK, GatewayTypeOK, tableVars, queueVars, channelVars, reaperVars, workerVars,
              CreateGoes, CancelGoes, WriteRow, KeepRow, UpdateWhere
  <1>1. j \in asked \/ cancel[j] = "idle"
    BY DEF AskedInv, RequestsWereAsked
  <1>2. CASE Upload(j) \/ DiscardUpload(j) \/ CreateRow(j) \/ DeleteInput(j)
    BY <1>2, AskedKept DEF Upload, DiscardUpload, CreateRow, DeleteInput
  <1>3. CASE Enqueue(j) \/ EnqueueFails(j)
    <2>1. \A i \in Jobs : queue[i] \in {"active", "done"} => queue'[i] \in {"active", "done"}
      BY <1>3 DEF Enqueue, EnqueueFails, AddToQueue
    <2> QED
      BY <1>3, <2>1, AskedKept DEF Enqueue, EnqueueFails
  <1>4. CASE FailEnqueue(j)
    BY <1>4, AskedKept DEF FailEnqueue
  <1>5. CASE CancelRead(j) \/ CancelDecide(j) \/ CancelReread(j)
    BY <1>1, <1>5, AskedKept DEF CancelRead, CancelDecide, CancelReread
  <1>6. CASE CancelCleanup(j)
    <2>1. \A i \in Jobs : queue[i] \in {"active", "done"} => queue'[i] \in {"active", "done"}
      BY <1>6 DEF CancelCleanup
    <2> QED
      BY <1>6, <2>1, AskedKept DEF CancelCleanup
  <1>7. CASE CancelPublish(j)
    <2>1. j \in asked /\ UNCHANGED <<task, flag, unlocked, asked, queue, row, silent, pass, batch>>
      BY <1>1, <1>7 DEF CancelPublish
    <2>2. \A w \in Workers, i \in Jobs : i \in mail'[w] => i \in mail[w] \/ i = j
      BY <1>7 DEF CancelPublish, Publish
    <2>3. \A i \in Jobs : cancel'[i] # "idle" => cancel[i] # "idle"
      BY <1>7 DEF CancelPublish
    <2> QED
      BY <2>1, <2>2, <2>3, AskedKept
  <1> QED
    BY <1>2, <1>3, <1>4, <1>5, <1>6, <1>7 DEF GatewayStep

LEMMA ReaperKeepsAsked == ASSUME TypeOK, AskedInv, ReaperActs PROVE AskedInv'
  <1> USE DEF TypeOK, SharedTypeOK, tableVars, queueVars, channelVars, WriteRow, KeepRow, UpdateWhere
  <1>1. UNCHANGED <<task, flag, asked, cancel, queue, unlocked>>
    BY DEF ReaperActs, gatewayVars, workerVars, ReaperStep, ReapScan, ReapClose, ReapNotify, ReapScanQueued, ReapCheck,
           ReapCloseQueued, ReapEnd, ReapAbort
  <1>2. CASE ReapScan
    <2>1. batch' \subseteq silent
      BY <1>2 DEF ReapScan, Pages
    <2> QED
      BY <1>1, <1>2, <2>1, AskedKept DEF ReapScan
  <1>3. CASE ReapClose
    BY <1>1, <1>3, AskedKept DEF ReapClose
  <1>4. ASSUME NEW j \in Jobs, ReapNotify(j) PROVE AskedInv'
    <2>1. Abandoned(j) /\ batch' \subseteq batch /\ UNCHANGED <<pass, row, silent>> /\ pass = "notify"
      BY <1>4 DEF ReapNotify, AskedInv, SilentIsAbandoned
    <2>2. \A w \in Workers, i \in Jobs : i \in mail'[w] => i \in mail[w] \/ i = j
      BY <1>4 DEF ReapNotify, Publish
    <2> QED
      BY <1>1, <2>1, <2>2, AskedKept
  <1>5. CASE ReapScanQueued \/ ReapEnd \/ ReapAbort
    BY <1>1, <1>5, AskedKept DEF ReapScanQueued, ReapEnd, ReapAbort
  <1>6. ASSUME NEW j \in Jobs, ReapCheck(j) \/ ReapCloseQueued(j) PROVE AskedInv'
    BY <1>1, <1>6, AskedKept DEF ReapCheck, ReapCloseQueued
  <1> QED
    BY <1>2, <1>3, <1>4, <1>5, <1>6 DEF ReaperActs, ReaperStep

LEMMA TimeKeepsAsked ==
    ASSUME TypeOK, Undisturbed, AskedInv, Time \/ GatewayCrash \/ UNCHANGED vars PROVE AskedInv'
  <1> USE DEF TypeOK, SharedTypeOK, tableVars, queueVars, channelVars, gatewayVars, reaperVars, workerVars
  <1>1. ASSUME NEW j \in Jobs, FallsSilent(j), Time PROVE AskedInv'
    <2>1. Abandoned(j)
      BY <1>1 DEF FallsSilent, Undisturbed, AskedInv, RunningWasFetched, Abandoned
    <2> QED
      BY <1>1, <2>1, AskedKept DEF FallsSilent, Time
  <1>2. ASSUME NEW j \in Jobs, Ages(j), Time PROVE AskedInv'
    BY <1>2, AskedKept DEF Ages, Time
  <1>3. CASE GatewayCrash
    BY <1>3, AskedKept DEF GatewayCrash, GatewayDies, ReaperDies
  <1>4. CASE UNCHANGED vars
    BY <1>4, AskedKept DEF vars
  <1> QED
    BY <1>1, <1>2, <1>3, <1>4 DEF Time

(* A coroutine changes nothing but its own job, which is not abandoned. *)
LEMMA CoroutineKeepsAsked ==
    ASSUME TypeOK, AskedInv, NEW w \in Workers, NEW j \in Jobs,
           UNCHANGED <<cancel, asked, batch, pass, mail, unlocked>>,
           \A v \in Workers, i \in Jobs : v # w \/ i # j => task'[v][i] = task[v][i] /\ flag'[v][i] = flag[v][i],
           \A i \in Jobs : i # j => queue'[i] = queue[i] /\ row'[i] = row[i],
           silent' \subseteq silent, j \notin unlocked, ~Abandoned(j),
           row'[j] = "RUNNING" => queue'[j] \in {"active", "done"},
           row'[j] = "CANCELLED" => row[j] = "CANCELLED" \/ j \in asked,
           task'[w][j] = "none" => flag'[w][j] = "absent",
           flag'[w][j] # "set",
           flag'[w][j] = "aborted" \/ task'[w][j] = "cancelling" => j \in asked
    PROVE  AskedInv'
  <1> USE DEF AskedInv
  <1>1. \A i \in Jobs : Abandoned(i) => Abandoned(i)' /\ i # j
    BY DEF Abandoned
  <1>2. LapsedIsLetGo'
    BY DEF LapsedIsLetGo
  <1>3. RunningWasFetched'
    BY DEF RunningWasFetched
  <1>4. ListensToItsOwn' /\ AbortsWereAsked'
    BY DEF ListensToItsOwn, AbortsWereAsked
  <1>5. SilentIsAbandoned' /\ MailWasAsked'
    BY <1>1 DEF SilentIsAbandoned, MailWasAsked
  <1>6. RequestsWereAsked' /\ CancelledWasAsked'
    BY DEF RequestsWereAsked, CancelledWasAsked
  <1> QED
    BY <1>2, <1>3, <1>4, <1>5, <1>6

LEMMA TaskStepKeepsAsked ==
    ASSUME TypeOK, LockInv, HealthyRowsAreFresh, Undisturbed, AskedInv,
           UNCHANGED <<gatewayVars, reaperVars>>,
           NEW w \in Workers, NEW j \in Jobs, TaskStep(w, j)
    PROVE  AskedInv'
  <1> USE DEF TypeOK, SharedTypeOK, WorkerTypeOK, tableVars, queueVars, channelVars, gatewayVars, reaperVars,
              TaskGoes, FlagGoes, WriteRow, KeepRow, UpdateWhere, Fail
  <1>1. UNCHANGED <<cancel, asked, batch, pass, mail, unlocked>>
    BY DEF TaskStep, Take, TakeInvalid, Fetch, EnterSlot, Claim, StartRunner, Touch, RunnerEnds, RunnerCancelled,
           RunnerForced, Complete, CloseFailed, CloseCancelled, Return, Raise, Leave
  <1>2. /\ flag[w][j] # "set" /\ (flag[w][j] = "aborted" \/ task[w][j] = "cancelling" => j \in asked)
        /\ task[w][j] = "none" => flag[w][j] = "absent"
        /\ row[j] = "RUNNING" => queue[j] \in {"active", "done"}
    BY DEF AskedInv, AbortsWereAsked, ListensToItsOwn, RunningWasFetched
  <1>3. ASSUME task[w][j] # "none" PROVE j \notin unlocked /\ ~Abandoned(j) /\ queue[j] = "active"
    BY <1>3 DEF AskedInv, LapsedIsLetGo, Abandoned, LockInv, LockIsExclusive
  <1>4. CASE Take(w, j) \/ TakeInvalid(w, j)
    <2>1. queue[j] = "waiting" /\ j \notin unlocked /\ task[w][j] = "none" /\ ~Abandoned(j)
      BY <1>4 DEF Take, TakeInvalid, Fetch, LockInv, WaitingIsUntouched, Abandoned
    <2>2. flag'[w][j] \in {"clear", "absent"} /\ task'[w][j] \in {"waiting", "rejecting"} /\ queue'[j] = "active"
      BY <1>2, <1>4, <2>1 DEF Take, TakeInvalid, Fetch
    <2>3. /\ \A v \in Workers, i \in Jobs : v # w \/ i # j => task'[v][i] = task[v][i] /\ flag'[v][i] = flag[v][i]
          /\ \A i \in Jobs : i # j => queue'[i] = queue[i]
          /\ UNCHANGED <<row, silent>>
      BY <1>4 DEF Take, TakeInvalid, Fetch
    <2> QED
      BY <1>1, <2>1, <2>2, <2>3, CoroutineKeepsAsked, ZenonT(30)
  <1>5. CASE Return(w, j) \/ Raise(w, j)
    <2>1. task[w][j] # "none" /\ Leave(w, j)
      BY <1>5 DEF Return, Raise
    <2>2. flag'[w][j] = "absent" /\ task'[w][j] = "none" /\ UNCHANGED <<row, silent>>
          /\ queue'[j] \in {"active", "done"}
      BY <1>3, <2>1 DEF Leave
    <2>3. /\ \A v \in Workers, i \in Jobs : v # w \/ i # j => task'[v][i] = task[v][i] /\ flag'[v][i] = flag[v][i]
          /\ \A i \in Jobs : i # j => queue'[i] = queue[i]
      BY <2>1 DEF Leave
    <2> QED
      BY <1>1, <1>3, <2>1, <2>2, <2>3, CoroutineKeepsAsked
  <1>6. CASE Touch(w, j)
    <2>1. task[w][j] = "running" /\ row[j] = "RUNNING"
      BY <1>3, <1>6 DEF Touch, HealthyRowsAreFresh, Undisturbed
    <2>2. UNCHANGED <<row, task, flag, queue>> /\ silent' \subseteq silent
      BY <1>6, <2>1 DEF Touch
    <2> QED
      BY <1>1, <1>2, <1>3, <2>1, <2>2, CoroutineKeepsAsked
  <1>7. CASE \/ EnterSlot(w, j) \/ Claim(w, j) \/ StartRunner(w, j) \/ RunnerEnds(w, j) \/ RunnerCancelled(w, j)
             \/ RunnerForced(w, j) \/ Complete(w, j) \/ CloseFailed(w, j) \/ CloseCancelled(w, j)
    <2>1. task[w][j] # "none" /\ UNCHANGED <<flag, queue>>
      BY <1>7 DEF EnterSlot, Claim, StartRunner, RunnerEnds, RunnerCancelled, RunnerForced, Complete, CloseFailed,
                  CloseCancelled
    <2>2. /\ \A v \in Workers, i \in Jobs : v # w \/ i # j => task'[v][i] = task[v][i]
          /\ task'[w][j] # "none" /\ (task'[w][j] = "cancelling" => flag[w][j] \in {"set", "aborted"})
      <3>1. CASE EnterSlot(w, j)
        BY <3>1 DEF EnterSlot
      <3>2. CASE Claim(w, j)
        <4>1. CASE task' = [task EXCEPT ![w][j] = "claimed"]
          BY <4>1
        <4>2. CASE task' = [task EXCEPT ![w][j] = "raising"]
          BY <4>2
        <4> QED
          BY <3>2, <4>1, <4>2 DEF Claim
      <3>3. CASE StartRunner(w, j) \/ RunnerForced(w, j)
        BY <3>3 DEF StartRunner, RunnerForced
      <3>4. CASE RunnerEnds(w, j)
        BY <3>4 DEF RunnerEnds
      <3>5. CASE RunnerCancelled(w, j)
        BY <3>5 DEF RunnerCancelled
      <3>6. CASE Complete(w, j)
        BY <3>6 DEF Complete
      <3>7. CASE CloseFailed(w, j) \/ CloseCancelled(w, j)
        BY <3>7 DEF CloseFailed, CloseCancelled
      <3> QED
        BY <1>7, <3>1, <3>2, <3>3, <3>4, <3>5, <3>6, <3>7
    <2>3. task'[w][j] # "none" /\ (task'[w][j] = "cancelling" => j \in asked)
      BY <1>2, <2>2
    <2>4. /\ \A i \in Jobs : i # j => row'[i] = row[i]
          /\ silent' \subseteq silent
          /\ row'[j] = "CANCELLED" => row[j] = "CANCELLED" \/ j \in asked
      <3>1. CASE Claim(w, j) \/ Complete(w, j)
        BY <3>1 DEF Claim, Complete
      <3>2. CASE CloseFailed(w, j) \/ CloseCancelled(w, j)
        BY <1>2, <3>2 DEF CloseFailed, CloseCancelled
      <3>3. CASE UNCHANGED <<row, silent>>
        BY <3>3
      <3> QED
        BY <1>7, <3>1, <3>2, <3>3 DEF EnterSlot, StartRunner, RunnerEnds, RunnerCancelled, RunnerForced
    <2>5. /\ \A v \in Workers, i \in Jobs : v # w \/ i # j => task'[v][i] = task[v][i] /\ flag'[v][i] = flag[v][i]
          /\ \A i \in Jobs : i # j => queue'[i] = queue[i] /\ row'[i] = row[i]
      BY <2>1, <2>2, <2>4
    <2>6. /\ row'[j] = "RUNNING" => queue'[j] \in {"active", "done"}
          /\ task'[w][j] = "none" => flag'[w][j] = "absent"
          /\ flag'[w][j] # "set"
          /\ flag'[w][j] = "aborted" \/ task'[w][j] = "cancelling" => j \in asked
      BY <1>2, <1>3, <2>1, <2>3
    <2> HIDE DEF tableVars, queueVars, channelVars, gatewayVars, reaperVars, TaskGoes, FlagGoes, WriteRow, KeepRow,
                 UpdateWhere, Fail
    <2> QED
      BY <1>1, <1>3, <2>1, <2>4, <2>5, <2>6, CoroutineKeepsAsked
  <1> QED
    BY <1>4, <1>5, <1>6, <1>7 DEF TaskStep

LEMMA WorkerKeepsAsked ==
    ASSUME TypeOK, LockInv, HealthyRowsAreFresh, Undisturbed, AskedInv, WorkerActs PROVE AskedInv'
  <1> USE DEF TypeOK, SharedTypeOK, WorkerTypeOK, tableVars, queueVars, channelVars, workerVars, WriteRow, KeepRow,
              UpdateWhere, Fail
  <1>1. UNCHANGED <<cancel, asked, batch, pass>>
    BY DEF WorkerActs, gatewayVars, reaperVars
  <1>2. ASSUME NEW w \in Workers, NEW j \in Jobs, TaskStep(w, j) PROVE AskedInv'
    BY <1>2, TaskStepKeepsAsked DEF WorkerActs
  <1>3. ASSUME NEW w \in Workers, NEW j \in Jobs, Stalled(w, j) PROVE AskedInv'
    <2>1. \A i \in Jobs : queue[i] \in {"active", "done"} => queue'[i] \in {"active", "done"}
      BY <1>3 DEF Stalled
    <2> QED
      BY <1>1, <1>3, <2>1, AskedKept DEF Stalled
  <1>4. ASSUME NEW w \in Workers, NEW j \in Jobs, CloseInterrupted(w, j) PROVE AskedInv'
    BY <1>1, <1>4, AskedKept DEF CloseInterrupted
  <1>5. ASSUME NEW w \in Workers, NEW j \in Jobs PROVE ~LockLost(w, j)
    BY DEF LockLost, AskedInv, LapsedIsLetGo, ListensToItsOwn
  <1>6. ASSUME NEW w \in Workers, NEW j \in Jobs, Deliver(w, j) PROVE AskedInv'
    <2>1. /\ UNCHANGED <<task, queue, row, silent, unlocked>>
          /\ \A v \in Workers : mail'[v] \subseteq mail[v]
      BY <1>6 DEF Deliver
    <2>2. CASE UNCHANGED flag
      BY <1>1, <2>1, <2>2, AskedKept
    <2>3. CASE flag[w][j] # "absent" /\ FlagGoes(w, j, "aborted")
      <3>1. j \in asked
        BY <1>6, <2>3 DEF Deliver, AskedInv, MailWasAsked, Abandoned, ListensToItsOwn
      <3>2. \A v \in Workers, i \in Jobs : flag'[v][i] = IF v = w /\ i = j THEN "aborted" ELSE flag[v][i]
        BY <2>3 DEF FlagGoes
      <3>3. ListensToItsOwn' /\ AbortsWereAsked'
        BY <1>1, <2>1, <2>3, <3>1, <3>2 DEF AskedInv, ListensToItsOwn, AbortsWereAsked
      <3>4. SilentIsAbandoned' /\ MailWasAsked'
        BY <1>1, <2>1 DEF AskedInv, SilentIsAbandoned, MailWasAsked, Abandoned
      <3> QED
        BY <1>1, <2>1, <3>3, <3>4 DEF AskedInv, LapsedIsLetGo, RunningWasFetched, RequestsWereAsked, CancelledWasAsked
    <2> QED
      BY <1>6, <2>2, <2>3 DEF Deliver, Listens
  <1>7. ASSUME NEW w \in Workers, Dies(w) PROVE AskedInv'
    <2>1. /\ \A v \in Workers, i \in Jobs : /\ task'[v][i] = IF v = w THEN "none" ELSE task[v][i]
                                            /\ flag'[v][i] = IF v = w THEN "absent" ELSE flag[v][i]
          /\ UNCHANGED <<queue, row, silent>>
          /\ \A v \in Workers : mail'[v] \subseteq mail[v]
      BY <1>7 DEF Dies, NoTasks, NoFlags
    <2>2. \A i \in Jobs : Abandoned(i) => Abandoned(i)'
      BY <2>1 DEF Abandoned
    <2>3. LapsedIsLetGo'
      BY <1>7, <2>1 DEF Dies, Held, AskedInv, LapsedIsLetGo, LockInv, LockIsExclusive
    <2>4. ListensToItsOwn' /\ AbortsWereAsked'
      BY <1>1, <2>1 DEF AskedInv, ListensToItsOwn, AbortsWereAsked
    <2>5. SilentIsAbandoned' /\ MailWasAsked'
      BY <1>1, <2>1, <2>2 DEF AskedInv, SilentIsAbandoned, MailWasAsked
    <2> QED
      BY <1>1, <2>1, <2>3, <2>4, <2>5 DEF AskedInv, RunningWasFetched, RequestsWereAsked, CancelledWasAsked
  <1>8. ASSUME NEW w \in Workers, Subscribe(w) \/ LoseSubscription(w) \/ Start(w) \/ Stop(w) \/ GraceEnds(w)
        PROVE  AskedInv'
    BY <1>1, <1>8, AskedKept DEF Subscribe, LoseSubscription, Start, Stop, GraceEnds
  <1>9. ~RedisRestarts /\ \A j \in Jobs : ~LockLapses(j)
    BY DEF RedisRestarts, LockLapses, Undisturbed
  <1> QED
    BY <1>2, <1>3, <1>4, <1>5, <1>6, <1>7, <1>8, <1>9 DEF WorkerActs, WorkerStep, Exit, Crash

LEMMA AskedNext ==
    TypeOK /\ LockInv /\ HealthyRowsAreFresh /\ (Undisturbed => AskedInv) /\ [Next]_vars => (Undisturbed => AskedInv')
  BY GatewayKeepsAsked, ReaperKeepsAsked, TimeKeepsAsked, WorkerKeepsAsked DEF Next, ReaperActs, WorkerActs

(* Neither the reaper's message nor the heartbeat, a lost lock or a shutdown
   makes a job CANCELLED: only a user's request does (jobs.service.ts:689-720,
   worker.py:177-226), as long as no live worker is taken for dead. *)
THEOREM CancelledIsAskedFor == Spec => [](Undisturbed => CancelledWasAsked)
  <1>1. AskedInv => CancelledWasAsked
    BY DEF AskedInv
  <1>2. Undisturbed' <=> Undisturbed
    BY DEF Undisturbed
  <1> QED
    BY <1>1, <1>2, HealthyCorrect, AskedInit, AskedNext, PTL DEF Spec

-----------------------------------------------------------------------------
(* Cancellations: who is told *)

LEMMA ToldInit == Init => ToldInv
  BY DEF Init, SharedInit, GatewayInit, WorkerInit, NoTasks, ToldInv, PublishedIsStarted, AcceptedCancelIsTold,
         Executing

(* No row goes back to the queue, and a request goes on only past it. *)
LEMMA StartedNext ==
    ASSUME TypeOK, CreationInv, PublishedIsStarted, [Next]_vars
    PROVE  PublishedIsStarted'
  <1> USE DEF PublishedIsStarted
  <1>1. ASSUME NEW j \in Jobs, GatewayStep(j) PROVE PublishedIsStarted'
    <2> USE DEF TypeOK, SharedTypeOK, GatewayTypeOK, tableVars, CancelGoes, WriteRow, KeepRow, UpdateWhere
    <2>1. CASE CreateRow(j)
      BY <1>1, <2>1 DEF CreateRow, CreationInv, RowFollowsRequest
    <2>2. CASE FailEnqueue(j)
      BY <2>2 DEF FailEnqueue
    <2>3. CASE CancelRead(j)
      BY <2>3 DEF CancelRead, Pending
    <2>4. CASE CancelDecide(j)
      BY <2>4 DEF CancelDecide
    <2>5. CASE CancelReread(j)
      BY <2>5 DEF CancelReread
    <2>6. CASE CancelCleanup(j) \/ CancelPublish(j)
      BY <2>6 DEF CancelCleanup, CancelPublish
    <2>7. CASE UNCHANGED <<cancel, row>>
      BY <2>7
    <2> QED
      BY <1>1, <2>1, <2>2, <2>3, <2>4, <2>5, <2>6, <2>7
      DEF GatewayStep, Upload, DiscardUpload, Enqueue, EnqueueFails, DeleteInput
  <1>2. CASE RowsOnlyClose /\ UNCHANGED cancel
    BY <1>2 DEF RowsOnlyClose, Pending, Terminal
  <1>3. ASSUME NEW j \in Jobs, ClaimsRow(j), UNCHANGED cancel PROVE PublishedIsStarted'
    BY <1>3 DEF ClaimsRow, TypeOK, SharedTypeOK
  <1>4. CASE GatewayCrash
    BY <1>4 DEF GatewayCrash, GatewayDies, tableVars
  <1>5. CASE Time \/ UNCHANGED vars
    BY <1>5 DEF Time, Ages, FallsSilent, vars, tableVars, gatewayVars
  <1> QED
    BY <1>1, <1>2, <1>3, <1>4, <1>5, WorkerRowSteps, ReaperRowSteps
    DEF Next, ReaperActs, WorkerActs, gatewayVars

(* A step that starts no computation, accepts no cancellation and delivers what
   it takes from the channel. *)
LEMMA ToldKept ==
    ASSUME AcceptedCancelIsTold,
           \A v \in Workers, i \in Jobs :
               cancel'[i] = "accepted" /\ task'[v][i] \in Executing =>
                   /\ cancel[i] = "accepted" /\ task[v][i] \in Executing
                   /\ i \in mail[v] => i \in mail'[v] \/ flag'[v][i] = "aborted"
                   /\ flag[v][i] = "aborted" => flag'[v][i] = "aborted"
    PROVE  AcceptedCancelIsTold'
  BY DEF AcceptedCancelIsTold

LEMMA GatewayKeepsTold ==
    ASSUME TypeOK, OneListener, AcceptedCancelIsTold, NEW j \in Jobs, GatewayStep(j), UNCHANGED workerVars
    PROVE  AcceptedCancelIsTold'
  <1> USE DEF TypeOK, SharedTypeOK, GatewayTypeOK, channelVars, workerVars, CancelGoes
  <1>1. CASE CancelPublish(j)
    <2>1. \A i \in Jobs : i # j => cancel'[i] = cancel[i]
      BY <1>1 DEF CancelPublish
    <2>2. \A w \in Workers : mail[w] \subseteq mail'[w]
      BY <1>1 DEF CancelPublish, Publish
    <2>3. ASSUME cancel'[j] = "accepted" PROVE \A w \in Workers : j \in mail'[w]
      <3>1. Publish(j) /\ subscribed # {}
        BY <1>1, <2>3 DEF CancelPublish, Received
      <3> QED
        BY <3>1 DEF Publish, OneListener
    <2> QED
      BY <2>1, <2>2, <2>3 DEF AcceptedCancelIsTold
  <1>2. CASE CancelRead(j) \/ CancelDecide(j) \/ CancelCleanup(j) \/ CancelReread(j)
    BY <1>2, ToldKept DEF CancelRead, CancelDecide, CancelCleanup, CancelReread
  <1>3. CASE UNCHANGED <<cancel, mail>>
    BY <1>3, ToldKept
  <1> QED
    BY <1>1, <1>2, <1>3
    DEF GatewayStep, Upload, DiscardUpload, CreateRow, Enqueue, EnqueueFails, FailEnqueue, DeleteInput

LEMMA TaskStepKeepsTold ==
    ASSUME TypeOK, PublishedIsStarted, AcceptedCancelIsTold, UNCHANGED cancel,
           NEW w \in Workers, NEW j \in Jobs, TaskStep(w, j)
    PROVE  AcceptedCancelIsTold'
  <1> USE DEF TypeOK, WorkerTypeOK, TaskGoes, FlagGoes, channelVars
  <1>1. UNCHANGED mail
    BY DEF TaskStep, Take, TakeInvalid, Fetch, EnterSlot, Claim, StartRunner, Touch, RunnerEnds, RunnerCancelled,
           RunnerForced, Complete, CloseFailed, CloseCancelled, Return, Raise, Leave
  <1> DEFINE Goes(S) == /\ task'[w][j] \in S
                        /\ \A v \in Workers, i \in Jobs : v # w \/ i # j => task'[v][i] = task[v][i]
  <1>2. CASE Take(w, j) \/ Return(w, j) \/ Raise(w, j)
    <2>1. /\ Goes({"none", "waiting"})
          /\ \A v \in Workers, i \in Jobs : v # w \/ i # j => flag'[v][i] = flag[v][i]
      BY <1>2 DEF Take, Return, Raise, Leave
    <2> QED
      BY <1>1, <2>1, ToldKept DEF Executing
  <1>3. CASE TakeInvalid(w, j) \/ EnterSlot(w, j) \/ RunnerCancelled(w, j) \/ RunnerForced(w, j)
    <2>1. Goes(TaskState \ Executing) /\ UNCHANGED flag
      BY <1>3 DEF TakeInvalid, EnterSlot, RunnerCancelled, RunnerForced, TaskState, Executing, HoldsSlot
    <2> QED
      BY <1>1, <2>1, ToldKept
  <1>4. CASE CloseFailed(w, j) \/ CloseCancelled(w, j)
    <2>1. Goes({"raising"}) /\ UNCHANGED flag
      BY <1>4 DEF CloseFailed, CloseCancelled
    <2> QED
      BY <1>1, <2>1, ToldKept DEF Executing
  <1>5. CASE Complete(w, j)
    <2>1. Goes({"returning", "raising"}) /\ UNCHANGED flag
      BY <1>5 DEF Complete
    <2> QED
      BY <1>1, <2>1, ToldKept DEF Executing
  <1>6. CASE Claim(w, j)
    <2>1. CASE row[j] = "QUEUED"
      <3>1. cancel[j] # "accepted"
        BY <2>1 DEF PublishedIsStarted
      <3>2. Goes({"claimed", "raising"}) /\ UNCHANGED flag
        BY <1>6, <2>1 DEF Claim
      <3> QED
        BY <1>1, <3>1, <3>2, ToldKept
    <2>2. CASE Goes({"raising"}) /\ UNCHANGED flag
      BY <1>1, <2>2, ToldKept DEF Executing
    <2> QED
      BY <1>6, <2>1, <2>2 DEF Claim
  <1>7. CASE StartRunner(w, j) \/ RunnerEnds(w, j)
    <2>1. Goes(TaskState) /\ task[w][j] \in Executing /\ UNCHANGED flag
      BY <1>7 DEF StartRunner, RunnerEnds, TaskState, Executing, HoldsSlot
    <2> QED
      BY <1>1, <2>1, ToldKept
  <1>8. CASE Touch(w, j)
    <2>1. /\ UNCHANGED task
          /\ \A v \in Workers, i \in Jobs : flag[v][i] = "aborted" => flag'[v][i] = "aborted"
      BY <1>8, SMTT(20) DEF Touch
    <2> QED
      BY <1>1, <2>1, ToldKept
  <1> QED
    BY <1>2, <1>3, <1>4, <1>5, <1>6, <1>7, <1>8 DEF TaskStep

LEMMA WorkerKeepsTold ==
    ASSUME TypeOK, CoroutineInv, PublishedIsStarted, OneListener, AcceptedCancelIsTold, WorkerActs
    PROVE  AcceptedCancelIsTold'
  <1> USE DEF TypeOK, SharedTypeOK, WorkerTypeOK, channelVars, workerVars
  <1>1. UNCHANGED cancel
    BY DEF WorkerActs, gatewayVars
  <1>2. ASSUME NEW w \in Workers, NEW j \in Jobs, TaskStep(w, j) PROVE AcceptedCancelIsTold'
    BY <1>1, <1>2, TaskStepKeepsTold
  <1>3. ASSUME NEW w \in Workers, NEW j \in Jobs, Deliver(w, j) PROVE AcceptedCancelIsTold'
    <2>1. /\ \A v \in Workers, i \in Jobs : v # w \/ i # j => flag'[v][i] = flag[v][i] /\ (i \in mail[v] => i \in mail'[v])
          /\ UNCHANGED task
      BY <1>3 DEF Deliver, FlagGoes
    <2>2. task[w][j] \in Executing => flag'[w][j] = "aborted"
      BY <1>3 DEF Deliver, FlagGoes, Listens, CoroutineInv, ListensWhileNeeded
    <2> QED
      BY <1>1, <2>1, <2>2, ToldKept
  <1>4. ASSUME NEW w \in Workers, NEW j \in Jobs, LockLost(w, j) PROVE AcceptedCancelIsTold'
    <2>1. /\ \A v \in Workers, i \in Jobs : flag[v][i] = "aborted" => flag'[v][i] = "aborted"
          /\ UNCHANGED <<task, mail>>
      BY <1>4 DEF LockLost, FlagGoes
    <2> QED
      BY <1>1, <2>1, ToldKept
  <1>5. ASSUME NEW w \in Workers, Dies(w) PROVE AcceptedCancelIsTold'
    <2>1. \A v \in Workers, i \in Jobs : /\ task'[v][i] \in Executing => v # w /\ task'[v][i] = task[v][i]
                                         /\ v # w => flag'[v][i] = flag[v][i] /\ mail'[v] = mail[v]
      BY <1>5 DEF Dies, NoTasks, Executing
    <2> QED
      BY <1>1, <2>1, ToldKept
  <1>6. ASSUME NEW w \in Workers, Subscribe(w) \/ Start(w) \/ Stop(w) \/ GraceEnds(w) PROVE AcceptedCancelIsTold'
    BY <1>1, <1>6, ToldKept DEF Subscribe, Start, Stop, GraceEnds
  <1>7. ASSUME NEW w \in Workers, NEW j \in Jobs, Stalled(w, j) \/ CloseInterrupted(w, j) \/ LockLapses(j)
        PROVE  AcceptedCancelIsTold'
    BY <1>1, <1>7, ToldKept DEF Stalled, CloseInterrupted, LockLapses
  <1>8. ~RedisRestarts /\ \A w \in Workers : ~LoseSubscription(w)
    BY DEF RedisRestarts, LoseSubscription, OneListener
  <1>9. Workers # {}
    BY DEF OneListener
  <1> QED
    BY <1>2, <1>3, <1>4, <1>5, <1>6, <1>7, <1>8, <1>9 DEF WorkerActs, WorkerStep, Exit, Crash

LEMMA ToldNext == TypeOK /\ CreationInv /\ CoroutineInv /\ ToldInv /\ [Next]_vars => ToldInv'
  <1> SUFFICES ASSUME TypeOK, CreationInv, CoroutineInv, ToldInv, [Next]_vars PROVE ToldInv'
    OBVIOUS
  <1>1. PublishedIsStarted'
    BY StartedNext DEF ToldInv
  <1>2. ASSUME OneListener PROVE AcceptedCancelIsTold'
    <2> USE <1>2 DEF ToldInv
    <2>1. ASSUME NEW j \in Jobs, GatewayStep(j), UNCHANGED workerVars PROVE AcceptedCancelIsTold'
      BY <2>1, GatewayKeepsTold
    <2>2. CASE WorkerActs
      BY <2>2, WorkerKeepsTold
    <2>3. CASE ReaperActs
      <3>1. UNCHANGED <<cancel, task, flag>>
        BY <2>3 DEF ReaperActs, gatewayVars, workerVars
      <3>2. \A w \in Workers : mail[w] \subseteq mail'[w]
        BY <2>3 DEF ReaperActs, ReaperStep, ReapScan, ReapClose, ReapNotify, ReapScanQueued, ReapCheck,
                    ReapCloseQueued, ReapEnd, ReapAbort, Publish, channelVars, TypeOK, SharedTypeOK
      <3> QED
        BY <3>1, <3>2, ToldKept
    <2>4. CASE GatewayCrash
      BY <2>4, ToldKept DEF GatewayCrash, GatewayDies, channelVars, workerVars
    <2>5. CASE Time \/ UNCHANGED vars
      BY <2>5, ToldKept DEF Time, vars, gatewayVars, channelVars, workerVars
    <2> QED
      BY <2>1, <2>2, <2>3, <2>4, <2>5 DEF Next, ReaperActs, WorkerActs
  <1> QED
    BY <1>1, <1>2 DEF ToldInv, OneListener

LEMMA CancelsCorrect ==
    Spec => [](ToldInv /\ (Undisturbed => AskedInv))
  <1>1. Undisturbed' <=> Undisturbed
    BY DEF Undisturbed
  <1> QED
    BY <1>1, CoroutinesCorrect, HealthyCorrect, AskedInit, AskedNext, ToldInit, ToldNext, PTL DEF Spec

(* A cancellation answered 202 is never lost on its way: until the computation
   ends the message is under way or the job is aborted
   (jobs.service.ts:710-725, worker.py:185-195, 258-271).  With a second worker
   the answer only says that some worker received it. *)
THEOREM AcceptedIsTold == Spec => [](OneListener => AcceptedCancelIsTold)
  <1>1. ToldInv => (OneListener => AcceptedCancelIsTold)
    BY DEF ToldInv
  <1> QED
    BY <1>1, CancelsCorrect, PTL

(* Both halves at once: who is cancelled asked for it, and who asked and was
   accepted is heard. *)
THEOREM CancelsAreHeard == Spec => [](Undisturbed /\ OneListener => CancelsAreHonoured)
  <1>1. ToldInv /\ (Undisturbed => AskedInv) => (Undisturbed /\ OneListener => CancelsAreHonoured)
    BY DEF ToldInv, AskedInv, CancelsAreHonoured
  <1> QED
    BY <1>1, CancelsCorrect, PTL
=============================================================================

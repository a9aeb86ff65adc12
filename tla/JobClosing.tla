----------------------------- MODULE JobClosing -----------------------------
(***************************************************************************)
(* That jobs end (JobLifecycle under fairness), in two situations:         *)
(*                                                                         *)
(*   - attended: workers are restarted and runners end, and the failures   *)
(*     of OutageFaults come on the way; nobody cancels;                    *)
(*   - not attended: no worker need be alive and no runner need end; jobs  *)
(*     may be cancelled, and the failures are those of Faults.             *)
(***************************************************************************)
EXTENDS JobLifecycle

CONSTANT OutageFaults       \* what may fail while workers keep coming back

VARIABLE attended           \* which of the two, for a whole behaviour

Attended == INSTANCE JobLifecycle WITH Faults <- OutageFaults, Cancellable <- {}

Either(A, B) == IF attended THEN A ELSE B

ClosingInit == Init /\ attended \in BOOLEAN

ClosingNext == Either(Attended!Next, Next) /\ UNCHANGED attended

-----------------------------------------------------------------------------
(* Fairness *)

(* Composed actions: what an action of a component leaves of the others. *)
AsReaper(A, B) == Either(A, B) /\ UNCHANGED <<gatewayVars, workerVars>>
AsWorker(A, B) == Either(A, B) /\ UNCHANGED <<gatewayVars, reaperVars>>

(* The clock runs and the reaper's timer keeps firing; an outage may cut any
   pass, but not every pass at the same step for ever (hence SF). *)
ReaperFairness ==
    /\ WF_vars(Either(Attended!Time, Time))
    /\ SF_vars(AsReaper(Attended!ReapScan, ReapScan))
    /\ SF_vars(AsReaper(Attended!ReapClose, ReapClose))
    /\ SF_vars(AsReaper(Attended!ReapScanQueued, ReapScanQueued))
    /\ SF_vars(AsReaper(Attended!ReapEnd, ReapEnd))
    /\ \A j \in Jobs :
         /\ SF_vars(AsReaper(Attended!ReapNotify(j), ReapNotify(j)))
         /\ SF_vars(AsReaper(Attended!ReapCheck(j), ReapCheck(j)))
         /\ SF_vars(AsReaper(Attended!ReapCloseQueued(j), ReapCloseQueued(j)))

(* The event loop of a live worker runs what is ready: rule 1 of ADR 0006 keeps
   heavy work off it.  Nothing is said of how long a runner takes. *)
EventLoopFairness ==
    \A w \in Workers, j \in Jobs :
        /\ WF_vars(AsWorker(Attended!Deliver(w, j), Deliver(w, j)))
        /\ WF_vars(AsWorker(Attended!LockLost(w, j), LockLost(w, j)))
        /\ WF_vars(AsWorker(Attended!EnterSlot(w, j), EnterSlot(w, j)))
        /\ WF_vars(AsWorker(Attended!Claim(w, j), Claim(w, j)))
        /\ WF_vars(AsWorker(Attended!StartRunner(w, j), StartRunner(w, j)))
        /\ WF_vars(AsWorker(Attended!Touch(w, j), Touch(w, j)))
        /\ WF_vars(AsWorker(Attended!RunnerCancelled(w, j), RunnerCancelled(w, j)))
        /\ WF_vars(AsWorker(Attended!RunnerForced(w, j), RunnerForced(w, j)))
        /\ WF_vars(AsWorker(Attended!Complete(w, j), Complete(w, j)))
        /\ WF_vars(AsWorker(Attended!CloseFailed(w, j), CloseFailed(w, j)))
        /\ WF_vars(AsWorker(Attended!CloseCancelled(w, j), CloseCancelled(w, j)))
        /\ WF_vars(AsWorker(Attended!Return(w, j) \/ Attended!Raise(w, j),
                            Return(w, j) \/ Raise(w, j)))
        /\ WF_vars(AsWorker(Attended!CloseInterrupted(w, j), CloseInterrupted(w, j)))

(* While attended, workers are restarted (restart: unless-stopped) and get to
   fetch and to look for stalled jobs between one crash and the next; runners
   end, because every subprocess has a time limit (rule 4 of ADR 0006). *)
WorkersKeepComing ==
    /\ \A w \in Workers :
         /\ WF_vars(AsWorker(Attended!Start(w), FALSE))
         /\ WF_vars(AsWorker(Attended!Exit(w), FALSE))
    /\ \A w \in Workers, j \in Jobs :
         /\ SF_vars(AsWorker(Attended!Take(w, j), FALSE))
         /\ SF_vars(AsWorker(Attended!Stalled(w, j), FALSE))
         /\ WF_vars(AsWorker(Attended!RunnerEnds(w, j), FALSE))

ClosingSpec ==
    /\ ClosingInit /\ [][ClosingNext]_<<vars, attended>>
    /\ ReaperFairness /\ EventLoopFairness /\ WorkersKeepComing

-----------------------------------------------------------------------------
(* Properties *)

(* The row of a job whose worker is gone, and that of a queued job that Redis
   no longer has: nobody but the reaper will close them. *)
Orphan(j) == row[j] = "RUNNING" /\ (\A w \in Workers : task[w][j] = "none")

LostQueued(j) ==
    row[j] = "QUEUED" /\ queue[j] \in {"none", "done"} /\ create[j] = "answered"

(* Whatever fails on the way, the row of every job ends in a terminal status
   as long as workers keep coming back; and if none ever does, the orphaned and
   the lost ones are closed all the same (reaper.service.ts:47-97). *)
EveryJobCloses ==
    \A j \in Jobs :
        (attended /\ row[j] \in Pending) \/ Orphan(j) \/ LostQueued(j) ~> row[j] \in Terminal

(* What need not be computed any longer is not, though no runner may ever end
   by itself: a computation whose cancellation was accepted stops, and so does
   that of a job that was closed behind its worker's back, whose heartbeat, if
   not the reaper's message, tells it (worker.py:177-226). *)
UnwantedWorkStops ==
    \A w \in Workers, j \in Jobs :
        task[w][j] \in Executing /\ (row[j] \in Terminal \/ cancel[j] = "accepted")
            ~> task[w][j] \notin Executing
=============================================================================

------------------------------- MODULE Reaper -------------------------------
(***************************************************************************)
(* ReaperService (apps/api-gateway/src/jobs/reaper.service.ts): a timer of *)
(* the API process that closes the rows of orphaned jobs.  One pass is     *)
(* reapOnce cut at its awaits; the flag `running` keeps passes from        *)
(* overlapping, so there is one program counter.                           *)
(***************************************************************************)
EXTENDS JobState

CONSTANT BatchSize  \* rows a pass takes of each kind (200 in the code)

ASSUME BatchAssumption == BatchSize \in Nat \ {0}

VARIABLES
    pass,   \* where the pass is
    batch   \* the rows it still has to look at

reaperVars == <<pass, batch>>

ReaperTypeOK ==
    /\ pass \in {"idle", "close", "notify", "check", "closing"}
    /\ batch \subseteq Jobs

ReaperInit == pass = "idle" /\ batch = {}

Running == {j \in Jobs : row[j] = "RUNNING"}
Queued == {j \in Jobs : row[j] = "QUEUED"}

(* Any page of S, and the page of its oldest rows (orderBy createdAt). *)
Pages(S) == {P \in SUBSET S : \/ Cardinality(P) = BatchSize
                              \/ P = S /\ Cardinality(S) < BatchSize}
OldestPages(S) == {P \in Pages(S) : \A i \in P, j \in S \ P : i < j}

Oldest(j) == j \in batch /\ \A i \in batch : j <= i

-----------------------------------------------------------------------------
(* staleBefore is fixed here: `cut` is what is older than it, and a row that
   is written later leaves `cut` for good. *)
ReapScan ==
    /\ pass = "idle"
    /\ pass' = "close"
    /\ batch' \in Pages(silent \cap Running)
    /\ cut' = silent \cap Running
    /\ UNCHANGED <<row, started, silent, aged, queueVars, channelVars>>

(* The rows of the page that are still RUNNING and still older than staleBefore. *)
StillStale == batch \cap Running \cap cut

ReapClose ==
    /\ pass = "close"
    /\ pass' = "notify"
    /\ row' = [j \in Jobs |-> IF j \in StillStale THEN "FAILED" ELSE row[j]]
    /\ silent' = silent \ StillStale
    /\ cut' = {}
    /\ UNCHANGED <<batch, started, aged, queueVars, channelVars>>

(* Every row the scan found is notified, closed by this pass or not; a PUBLISH
   that fails is ignored. *)
ReapNotify(j) ==
    /\ pass = "notify"
    /\ j \in batch
    /\ batch' = batch \ {j}
    /\ Publish(j) \/ ("publish" \in Faults /\ UNCHANGED channelVars)
    /\ UNCHANGED <<pass, tableVars, queueVars>>

ReapScanQueued ==
    /\ pass = "notify"
    /\ batch = {}
    /\ pass' = "check"
    /\ batch' \in OldestPages(Queued \cap aged)
    /\ UNCHANGED <<tableVars, queueVars, channelVars>>

ReapCheck(j) ==
    /\ pass = "check"
    /\ Oldest(j)
    /\ IF Exists(j) THEN pass' = pass /\ batch' = batch \ {j}
                    ELSE pass' = "closing" /\ batch' = batch
    /\ UNCHANGED <<tableVars, queueVars, channelVars>>

(* Redis was asked before the UPDATE: the job may have been added or taken since. *)
ReapCloseQueued(j) ==
    /\ pass = "closing"
    /\ Oldest(j)
    /\ pass' = "check"
    /\ batch' = batch \ {j}
    /\ UpdateWhere(j, {"QUEUED"}, "FAILED")
    /\ UNCHANGED <<started, aged, queueVars, channelVars>>

ReapEnd ==
    /\ pass = "check"
    /\ batch = {}
    /\ pass' = "idle"
    /\ UNCHANGED <<batch, tableVars, queueVars, channelVars>>

(* PostgreSQL or Redis fails: tick logs it, and the next tick starts over. *)
ReapAbort ==
    /\ "db" \in Faults
    /\ pass # "idle"
    /\ pass' = "idle"
    /\ batch' = {}
    /\ UNCHANGED <<tableVars, queueVars, channelVars>>

-----------------------------------------------------------------------------
ReaperStep ==
    \/ ReapScan \/ ReapClose \/ ReapScanQueued \/ ReapEnd \/ ReapAbort
    \/ \E j \in Jobs : ReapNotify(j) \/ ReapCheck(j) \/ ReapCloseQueued(j)

ReaperDies == pass' = "idle" /\ batch' = {}
=============================================================================

----------------------------- MODULE DerivedJobs -----------------------------
(***************************************************************************)
(* The jobs made from the subtitles of a transcription: requests to burn,  *)
(* translate or dub them (jobs/jobs.service.ts, createBurn,                *)
(* createTranslate, createDub) and what the worker reads and spends for    *)
(* them (ai_worker/burn.py, translate.py, dub.py), while the subtitles are *)
(* edited.  How a row moves between its statuses is the matter of          *)
(* JobLifecycle; here a row may be closed at any time (Close), and a       *)
(* worker whose row was closed may go on.                                  *)
(***************************************************************************)
EXTENDS SubtitleEdits, FiniteSets

CONSTANTS
    Requests,       \* the requests for derived jobs, each made once
    Kind,           \* the kind of job each one asks for
    WithinCaps(_)   \* may the text of this version be sent to a provider?

DerivedKinds == {"BURN", "TRANSLATE", "DUB"}

ASSUME KindAssumption == Kind \in [Requests -> DerivedKinds]
ASSUME CapsAssumption == \A version \in Content : WithinCaps(version) \in BOOLEAN

VARIABLES
    request,        \* the await of create* a request is in, or how it was answered
    pinned,         \* the ETag that goes into the payload
    row,            \* PostgreSQL: the status of the job of a request
    run,            \* where the worker is with the job
    source          \* the version the worker read

derivedVars == <<request, pinned, row, run, source>>
vars == <<editVars, derivedVars>>

RequestSteps == {"new", "caps", "count", "insert", "refused", "created", "lost"}
RowStatus == {"absent", "QUEUED", "RUNNING", "COMPLETED", "CLOSED"}
RunSteps == {"idle", "claimed", "read", "spending", "finished", "failed"}

TypeOK ==
    /\ EditsTypeOK
    /\ request \in [Requests -> RequestSteps]
    /\ pinned \in [Requests -> Content \cup {NoEtag}]
    /\ row \in [Requests -> RowStatus]
    /\ run \in [Requests -> RunSteps]
    /\ source \in [Requests -> Content \cup {NoEtag}]

Init ==
    /\ EditsInit
    /\ request = [r \in Requests |-> "new"]
    /\ pinned = [r \in Requests |-> NoEtag]
    /\ row = [r \in Requests |-> "absent"]
    /\ run = [r \in Requests |-> "idle"]
    /\ source = [r \in Requests |-> NoEtag]
-----------------------------------------------------------------------------
RequestGoes(r, next) == request' = [request EXCEPT ![r] = next]
RunGoes(r, next) == run' = [run EXCEPT ![r] = next]
RowBecomes(r, status) == row' = [row EXCEPT ![r] = status]
Spends(r) == Kind[r] # "BURN"

Pin(r) == pinned' = [pinned EXCEPT ![r] = segments]

(* storage.head: burning and dubbing pin the version of this moment, unseen. *)
Head(r) ==
    /\ Kind[r] \in {"BURN", "DUB"} /\ request[r] = "new"
    /\ Pin(r)
    /\ RequestGoes(r, IF Kind[r] = "BURN" THEN "count" ELSE "caps")
    /\ UNCHANGED <<editVars, row, run, source>>

(* readSegments and assertSpendingCaps.  A translation pins what it read; a dub has pinned already. *)
CheckCaps(r) ==
    /\ \/ /\ Kind[r] = "TRANSLATE" /\ request[r] = "new"
          /\ Pin(r)
       \/ /\ Kind[r] = "DUB" /\ request[r] = "caps"
          /\ UNCHANGED pinned
    /\ RequestGoes(r, IF WithinCaps(segments) THEN "count" ELSE "refused")
    /\ UNCHANGED <<editVars, row, run, source>>

OneIsActive(r) ==
    \E q \in Requests : q # r /\ Kind[q] = Kind[r] /\ row[q] \in {"QUEUED", "RUNNING"}

(* job.count: the quick answer. *)
CountActive(r) ==
    /\ request[r] = "count"
    /\ RequestGoes(r, IF OneIsActive(r) THEN "refused" ELSE "insert")
    /\ UNCHANGED <<editVars, pinned, row, run, source>>

(* Mutant: without the partial unique index. *)
InsertRowMutant(r) ==
    /\ request[r] = "insert"
    /\ RowBecomes(r, "QUEUED") /\ RequestGoes(r, "created")
    /\ UNCHANGED <<editVars, pinned, run, source>>

(* createDerived: the partial unique index has the last word (P2002 is the same 409). *)
InsertRow(r) ==
    /\ request[r] = "insert"
    /\ \/ /\ OneIsActive(r)
          /\ RequestGoes(r, "refused")
          /\ UNCHANGED row
       \/ /\ ~OneIsActive(r)
          /\ RowBecomes(r, "QUEUED") /\ RequestGoes(r, "created")
    /\ UNCHANGED <<editVars, pinned, run, source>>

(* The API dies: the requests under way, of both sorts, get no answer. *)
ApiCrash ==
    /\ GatewayCrash
    /\ request' = [r \in Requests |-> IF request[r] \in {"caps", "count", "insert"} THEN "lost" ELSE request[r]]
    /\ UNCHANGED <<pinned, row, run, source>>
-----------------------------------------------------------------------------
Claim(r) ==
    /\ row[r] = "QUEUED"
    /\ RowBecomes(r, "RUNNING") /\ RunGoes(r, "claimed")
    /\ UNCHANGED <<editVars, request, pinned, source>>

(* Mutants: read without If-Match; no second look at the caps. *)
ReadMutant(r) ==
    /\ run[r] = "claimed"
    /\ source' = [source EXCEPT ![r] = segments]
    /\ RunGoes(r, IF Spends(r) /\ ~WithinCaps(segments) THEN "failed" ELSE "read")
    /\ UNCHANGED <<editVars, request, pinned, row>>

ReadWithoutCaps(r) ==
    /\ run[r] = "claimed"
    /\ \/ /\ segments # pinned[r]
          /\ RunGoes(r, "failed")
          /\ UNCHANGED source
       \/ /\ segments = pinned[r]
          /\ source' = [source EXCEPT ![r] = segments]
          /\ RunGoes(r, "read")
    /\ UNCHANGED <<editVars, request, pinned, row>>

(* read_if_match in one request (412: SEGMENTS_CHANGED), then check_caps on what it returned. *)
ReadPinned(r) ==
    /\ run[r] = "claimed"
    /\ \/ /\ segments # pinned[r]
          /\ RunGoes(r, "failed")
          /\ UNCHANGED source
       \/ /\ segments = pinned[r]
          /\ source' = [source EXCEPT ![r] = segments]
          /\ RunGoes(r, IF Spends(r) /\ ~WithinCaps(segments) THEN "failed" ELSE "read")
    /\ UNCHANGED <<editVars, request, pinned, row>>

(* The calls to the provider: paid for from the first one on. *)
CallProvider(r) ==
    /\ Spends(r) /\ run[r] = "read"
    /\ RunGoes(r, "spending")
    /\ UNCHANGED <<editVars, request, pinned, row, source>>

(* The result is written if the row is still RUNNING. *)
Complete(r) ==
    /\ run[r] = IF Spends(r) THEN "spending" ELSE "read"
    /\ RunGoes(r, "finished")
    /\ row' = [row EXCEPT ![r] = IF @ = "RUNNING" THEN "COMPLETED" ELSE @]
    /\ UNCHANGED <<editVars, request, pinned, source>>

(* A failed enqueue, a cancellation, the reaper or the worker that gave up close the row. *)
Close(r) ==
    /\ row[r] \in {"QUEUED", "RUNNING"}
    /\ RowBecomes(r, "CLOSED")
    /\ UNCHANGED <<editVars, request, pinned, run, source>>

RequestStep(r) == Head(r) \/ CheckCaps(r) \/ CountActive(r) \/ InsertRow(r)
WorkerStep(r) == Claim(r) \/ ReadPinned(r) \/ CallProvider(r) \/ Complete(r) \/ Close(r)

Editing ==
    /\ \E t \in Tasks : AskEdit(t) \/ EditStep(t) \/ CallFails(t)
    /\ UNCHANGED derivedVars

Next ==
    \/ Editing
    \/ \E r \in Requests : RequestStep(r) \/ WorkerStep(r)
    \/ ApiCrash

Spec == Init /\ [][Next]_vars
-----------------------------------------------------------------------------
(* At most one job of a kind is queued or running for a transcription,     *)
(* although all requests may have counted none (jobs.service.ts:247-251).  *)
OneActivePerKind ==
    \A q, r \in Requests :
        q # r /\ Kind[q] = Kind[r] =>
            row[q] \notin {"QUEUED", "RUNNING"} \/ row[r] \notin {"QUEUED", "RUNNING"}

(* What was burned, translated or dubbed is the version its request        *)
(* pinned, whatever was edited while it waited (burn.py:61-70,             *)
(* translate.py:77-84, dub.py:118-124).                                    *)
MadeFromApproved ==
    \A r \in Requests : row[r] = "COMPLETED" => source[r] = pinned[r]

(* Nothing over the caps is sent to a provider, also when a dub was        *)
(* accepted for another version than the one it was checked on             *)
(* (translate.py:43-50, dub.py:126).                                       *)
SpendsWithinCaps ==
    \A r \in Requests : Spends(r) /\ run[r] \in {"spending", "finished"} => WithinCaps(source[r])

(* docs/architecture_and_security.md:212: a request over the caps is       *)
(* refused before its job is queued.                                       *)
EnqueuedWithinCaps ==
    \A r \in Requests : Spends(r) /\ row[r] # "absent" => WithinCaps(pinned[r])
=============================================================================

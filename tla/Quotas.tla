------------------------------- MODULE Quotas -------------------------------
(***************************************************************************)
(* What the gateway lets a tenant start (quota/, security/ and the uploads *)
(* and burns of jobs.controller.ts).  A request is checked before its body *)
(* is read: the jobs in flight are counted in the table, the uploads of    *)
(* the hour in Redis; an upload then takes a slot of the limiter for as    *)
(* long as it lasts, and only at its end there is a job to be counted.     *)
(***************************************************************************)
EXTENDS Integers, FiniteSets

CONSTANTS
    MaxJobs,        \* bound on the rows of the table of jobs, numbered as they are created
    Request,        \* the uploads that may be under way at once
    File,           \* the files
    MaxQueued,      \* TENANT_MAX_QUEUED_JOBS
    MaxPerHour,     \* TENANT_UPLOADS_PER_HOUR
    MaxUploads,     \* MAX_CONCURRENT_UPLOADS
    MaxHours,       \* bound on the hours that start
    None

ASSUME QuotaAssumption ==
    /\ MaxJobs \in Nat \ {0} /\ MaxHours \in Nat
    /\ {MaxQueued, MaxPerHour, MaxUploads} \subseteq Nat \ {0}
    /\ IsFiniteSet(Request)
    /\ None \notin {"rate_limited", "busy", "server", "network"}

VARIABLES
    job,        \* the table of jobs
    up,         \* each upload
    burn,       \* the request to burn the subtitles of each transcription
    bucket,     \* Redis: the uploads counted this hour
    seen,       \* those that Redis counted and let through this hour
    hour,       \* the hours that have started
    receiving   \* ConcurrencyLimiter.inUse of the uploads

quotaVars == <<bucket, seen, hour, receiving>>
serverVars == <<job, up, burn, quotaVars>>

JobId == 1..MaxJobs
Pending == {"QUEUED", "RUNNING"}
Errors == {"rate_limited", "busy", "server", "network"}
NoJob == [status |-> "none", kind |-> "none", of |-> None]
NoUpload == [step |-> "idle", file |-> None, job |-> 0, error |-> None]
UploadSteps == {"idle", "asked", "counted", "charged", "receiving", "answered"}
BurnSteps == {"idle", "asked", "counted", "started", "refused", "told"}

QuotaTypeOK ==
    /\ job \in [JobId -> [status: {"none", "COMPLETED", "FAILED"} \cup Pending,
                          kind: {"none", "TRANSCRIBE", "BURN"}, of: File \cup JobId \cup {None}]]
    /\ up \in [Request -> [step: UploadSteps, file: File \cup {None}, job: 0..MaxJobs, error: Errors \cup {None}]]
    /\ burn \in [JobId -> BurnSteps]
    /\ {bucket, seen, hour, receiving} \subseteq Nat

QuotaInit ==
    /\ job = [j \in JobId |-> NoJob]
    /\ up = [u \in Request |-> NoUpload]
    /\ burn = [j \in JobId |-> "idle"]
    /\ bucket = 0 /\ seen = 0 /\ hour = 0
    /\ receiving = 0

InFlight == {j \in JobId : job[j].status \in Pending}
Rows == {j \in JobId : job[j].status /= "none"}
NextJob == Cardinality(Rows) + 1

Insert(kind, of) ==
    /\ NextJob \in JobId
    /\ job' = [job EXCEPT ![NextJob] = [status |-> "QUEUED", kind |-> kind, of |-> of]]

(* The workers: JobContract.                                               *)
JobEnds(j) ==
    /\ job[j].status = "QUEUED"
    /\ \E s \in {"COMPLETED", "FAILED"} :
          /\ job[j].kind = "BURN" => s = "COMPLETED"      \* nobody here asks how a burn ends
          /\ job' = [job EXCEPT ![j].status = s]
    /\ UNCHANGED <<up, burn, quotaVars>>

-----------------------------------------------------------------------------
(* checkQueue.                                                             *)
QueueFullMutant == Cardinality(InFlight) > MaxQueued

QueueFull == Cardinality(InFlight) >= MaxQueued

Refused(r, why) == [up EXCEPT ![r].step = "answered", ![r].error = why]

CheckQueue(r) ==
    /\ up[r].step = "asked"
    /\ up' = IF QueueFull THEN Refused(r, "rate_limited") ELSE [up EXCEPT ![r].step = "counted"]
    /\ UNCHANGED <<job, burn, quotaVars>>

(***************************************************************************)
(* consumeUpload: INCR and PEXPIRE in one script.  Redis not answering, or *)
(* its answer lost, lets the upload through.                               *)
(***************************************************************************)
OverHourMutant == bucket > MaxPerHour

OverHour == bucket >= MaxPerHour

(* What is above the limit is not told apart.                              *)
Counted == IF bucket > MaxPerHour THEN bucket ELSE bucket + 1

ConsumeUpload(r) ==
    /\ up[r].step = "counted"
    /\ bucket' = Counted
    /\ IF OverHour
       THEN up' = Refused(r, "rate_limited") /\ UNCHANGED seen
       ELSE up' = [up EXCEPT ![r].step = "charged"] /\ seen' = seen + 1
    /\ UNCHANGED <<job, burn, hour, receiving>>

RedisFails(r) ==
    /\ up[r].step = "counted"
    /\ up' = [up EXCEPT ![r].step = "charged"]
    /\ bucket' \in {bucket, Counted}
    /\ UNCHANGED <<job, burn, seen, hour, receiving>>

(* Only once the hour's uploads are used up: before that it changes little. *)
HourStarts ==
    /\ hour < MaxHours /\ bucket >= MaxPerHour
    /\ hour' = hour + 1
    /\ bucket' = 0 /\ seen' = 0
    /\ UNCHANGED <<job, up, burn, receiving>>

NoSlotMutant == receiving > MaxUploads

(***************************************************************************)
(* transcribe: tryAcquire, then the body is read to its end; the slot is   *)
(* released in the finally.                                                *)
(***************************************************************************)
NoSlot == receiving >= MaxUploads
TakeSlot(r) ==
    /\ up[r].step = "charged"
    /\ IF NoSlot
       THEN up' = Refused(r, "busy") /\ UNCHANGED receiving
       ELSE up' = [up EXCEPT ![r].step = "receiving"] /\ receiving' = receiving + 1
    /\ UNCHANGED <<job, burn, bucket, seen, hour>>

CreateTranscription(r) ==
    /\ up[r].step = "receiving"
    /\ Insert("TRANSCRIBE", up[r].file)
    /\ up' = [up EXCEPT ![r].step = "answered", ![r].job = NextJob]
    /\ receiving' = receiving - 1
    /\ UNCHANGED <<burn, bucket, seen, hour>>

(* The storage, the database or the client fails.                          *)
UploadFails(r) ==
    /\ up[r].step = "receiving"
    /\ up' = Refused(r, "server")
    /\ receiving' = receiving - 1
    /\ UNCHANGED <<job, burn, bucket, seen, hour>>

(* burn: the same queue, no slot; createBurn refuses what it cannot burn.  *)
CheckBurn(j) ==
    /\ burn[j] = "asked"
    /\ burn' = [burn EXCEPT ![j] = IF QueueFull THEN "refused" ELSE "counted"]
    /\ UNCHANGED <<job, up, quotaVars>>

CreateBurn(j) ==
    /\ burn[j] = "counted"
    /\ \/ /\ Insert("BURN", j)
          /\ burn' = [burn EXCEPT ![j] = "started"]
       \/ burn' = [burn EXCEPT ![j] = "refused"] /\ UNCHANGED job
    /\ UNCHANGED <<up, quotaVars>>

UploadStep(r) ==
    CheckQueue(r) \/ ConsumeUpload(r) \/ RedisFails(r) \/ TakeSlot(r)
        \/ CreateTranscription(r) \/ UploadFails(r)

BurnStep(j) == CheckBurn(j) \/ CreateBurn(j)

-----------------------------------------------------------------------------
(* checkQueue counts before anything is created: what a tenant may have in *)
(* flight exceeds TENANT_MAX_QUEUED_JOBS by the requests under way, and no *)
(* more than that.                                                         *)
OnTheirWay == {r \in Request : up[r].step \in {"counted", "charged", "receiving"}}
BurnsOnTheirWay == {j \in JobId : burn[j] = "counted"}
BurnsAsked == {j \in JobId : burn[j] /= "idle"}
QueueWithinReach ==
    Cardinality(InFlight) + Cardinality(OnTheirWay) + Cardinality(BurnsOnTheirWay)
        <= MaxQueued - 1 + Cardinality(Request) + Cardinality(BurnsAsked)

(* consumeUpload: the uploads of an hour let through are within the limit, *)
(* but for those that Redis did not see.                                   *)
UploadsWithinHour == seen <= MaxPerHour

(* transcribe: never more bodies being received than the limit, and every  *)
(* upload that ends, however it ends, gives its slot back.                 *)
BodiesWithinLimit ==
    /\ receiving = Cardinality({r \in Request : up[r].step = "receiving"})
    /\ receiving <= MaxUploads
=============================================================================

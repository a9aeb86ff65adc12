---------------------------- MODULE WebPageProofs ----------------------------
(***************************************************************************)
(* The page and the quotas, for any number of files, of uploads under way, *)
(* of jobs and of gestures, and any limits.                                *)
(*                                                                         *)
(* Three invariants carry the proofs.  A job is held by one upload, or     *)
(* wanted once, or its burn has been asked for (JobsAreHeldOnce), because  *)
(* the rows are numbered without gaps (RowsHaveNoGaps).  What comes after  *)
(* a file that is not done is pending (LaterIsPending), so the file that   *)
(* was accepted leaves nothing behind that has failed.  And whoever has    *)
(* passed checkQueue adds one job at most (QueueWithinReach is inductive). *)
(***************************************************************************)
EXTENDS WebPage, KeysPanel, Assistant, FiniteSetTheorems, SequenceTheorems, WellFoundedInduction, TLAPS

RowsHaveNoGaps == \E k \in 0..MaxJobs : Rows = 1..k

Holds(r) == up[r].job /= 0

JobsAreHeldOnce ==
    /\ \A r \in Request :
          /\ Holds(r) => /\ up[r].step = "answered" /\ up[r].job \in Rows
                         /\ up[r].job \notin Range(wanted) /\ asked[up[r].job] = 0
          /\ up[r].step = "answered" /\ up[r].error = None => Holds(r)
    /\ \A q, r \in Request : Holds(q) /\ Holds(r) /\ q /= r => up[q].job /= up[r].job
    /\ \A i \in DOMAIN wanted : wanted[i] \in Rows /\ asked[wanted[i]] = 0
    /\ \A i, k \in DOMAIN wanted : i /= k => wanted[i] /= wanted[k]
    /\ \A j \in JobId : asked[j] > 0 => j \in Rows

PollIsOfAJob == polled.status /= "none" => polled.job \in JobId

(* Keys are handed out once in a queue, and what is under a key is of its  *)
(* own file in a queue that did not take the place of another.             *)
FilesAreKnown ==
    /\ \A i \in DOMAIN batch : batch[i].key < nextKey
    /\ \A i, k \in DOMAIN batch : i /= k => batch[i].file /= batch[k].file /\ batch[i].key /= batch[k].key
    /\ restarted \/ \A i \in DOMAIN batch : probe[batch[i].key].file = batch[i].file

LaterIsPending ==
    \A i, k \in DOMAIN batch : i < k /\ batch[i].status /= "done" => batch[k].status = "pending"

OneIsUploading ==
    /\ Busy => /\ up[mine].step /= "idle"
               /\ \E i \in DOMAIN batch : batch[i].status = "uploading" /\ batch[i].file = up[mine].file
    /\ \A i \in DOMAIN batch : batch[i].status = "uploading" => Busy /\ batch[i].file = up[mine].file

PageInv ==
    /\ TypeOK
    /\ QueueWithinReach
    /\ seen <= bucket /\ UploadsWithinHour
    /\ BodiesWithinLimit
    /\ RowsHaveNoGaps /\ JobsAreHeldOnce /\ OneBurnPerFile /\ PollIsOfAJob
    /\ FilesAreKnown /\ LaterIsPending /\ OneIsUploading
    /\ PlannedWithFacts /\ QueueGoesOn
    /\ waiting => phase = "error"
-----------------------------------------------------------------------------
(* The limits of the tenant. *)

Receiving == {r \in Request : up[r].step = "receiving"}

LimitsInv == QueueWithinReach /\ seen <= bucket /\ UploadsWithinHour /\ BodiesWithinLimit

LEMMA PartIsSmaller ==
    ASSUME NEW S, IsFiniteSet(S), NEW T, T \subseteq S
    PROVE  IsFiniteSet(T) /\ Cardinality(T) \in Nat /\ Cardinality(S) \in Nat /\ Cardinality(T) <= Cardinality(S)
BY FS_Subset, FS_CardinalityType

LEMMA JobsAreFinite == IsFiniteSet(JobId) /\ IsFiniteSet(Request) /\ MaxJobs \in Nat \ {0}
BY QuotaAssumption, FS_Interval DEF JobId

(* Whatever is counted is finite, now and in the next state. *)
LEMMA CountsAreFinite ==
    /\ IsFiniteSet(InFlight) /\ IsFiniteSet(InFlight')
    /\ IsFiniteSet(OnTheirWay) /\ Cardinality(OnTheirWay) <= Cardinality(Request)
    /\ IsFiniteSet(OnTheirWay') /\ Cardinality(OnTheirWay') <= Cardinality(Request)
    /\ IsFiniteSet(BurnsAsked) /\ Cardinality(BurnsOnTheirWay) <= Cardinality(BurnsAsked)
    /\ IsFiniteSet(BurnsAsked') /\ Cardinality(BurnsOnTheirWay') <= Cardinality(BurnsAsked')
    /\ IsFiniteSet(BurnsOnTheirWay) /\ IsFiniteSet(BurnsOnTheirWay')
    /\ IsFiniteSet(Receiving) /\ IsFiniteSet(Receiving')
    /\ {Cardinality(InFlight), Cardinality(InFlight'), Cardinality(OnTheirWay), Cardinality(OnTheirWay'),
        Cardinality(BurnsAsked), Cardinality(BurnsAsked'), Cardinality(BurnsOnTheirWay), Cardinality(BurnsOnTheirWay'),
        Cardinality(Receiving), Cardinality(Receiving'), Cardinality(Request), MaxQueued, MaxUploads, MaxPerHour} \subseteq Nat
<1>1. /\ InFlight \subseteq JobId /\ InFlight' \subseteq JobId
      /\ OnTheirWay \subseteq Request /\ OnTheirWay' \subseteq Request
      /\ Receiving \subseteq Request /\ Receiving' \subseteq Request
      /\ BurnsAsked \subseteq JobId /\ BurnsAsked' \subseteq JobId
      /\ BurnsOnTheirWay \subseteq BurnsAsked /\ BurnsOnTheirWay' \subseteq BurnsAsked'
  BY DEF InFlight, OnTheirWay, Receiving, BurnsAsked, BurnsOnTheirWay
<1>2. /\ IsFiniteSet(InFlight) /\ IsFiniteSet(InFlight') /\ IsFiniteSet(BurnsAsked) /\ IsFiniteSet(BurnsAsked')
      /\ {Cardinality(InFlight), Cardinality(InFlight'), Cardinality(BurnsAsked), Cardinality(BurnsAsked')} \subseteq Nat
  BY <1>1, JobsAreFinite, PartIsSmaller
<1>3. /\ IsFiniteSet(OnTheirWay) /\ IsFiniteSet(OnTheirWay') /\ IsFiniteSet(Receiving) /\ IsFiniteSet(Receiving')
      /\ {Cardinality(OnTheirWay), Cardinality(OnTheirWay'), Cardinality(Receiving), Cardinality(Receiving'),
          Cardinality(Request)} \subseteq Nat
      /\ Cardinality(OnTheirWay) <= Cardinality(Request) /\ Cardinality(OnTheirWay') <= Cardinality(Request)
  BY <1>1, JobsAreFinite, PartIsSmaller
<1>4. /\ IsFiniteSet(BurnsOnTheirWay) /\ IsFiniteSet(BurnsOnTheirWay')
      /\ {Cardinality(BurnsOnTheirWay), Cardinality(BurnsOnTheirWay')} \subseteq Nat
      /\ Cardinality(BurnsOnTheirWay) <= Cardinality(BurnsAsked) /\ Cardinality(BurnsOnTheirWay') <= Cardinality(BurnsAsked')
  BY <1>1, <1>2, PartIsSmaller
<1> QED BY <1>2, <1>3, <1>4, QuotaAssumption

(* Nobody takes a place: the counts stay or fall. *)
LEMMA LimitsKept ==
    ASSUME LimitsInv, UNCHANGED <<bucket, seen, receiving>>, Receiving' = Receiving,
           InFlight' \subseteq InFlight, OnTheirWay' \subseteq OnTheirWay, BurnsOnTheirWay' \subseteq BurnsOnTheirWay,
           BurnsAsked \subseteq BurnsAsked'
    PROVE  LimitsInv'
<1>1. Cardinality(InFlight') <= Cardinality(InFlight) /\ Cardinality(OnTheirWay') <= Cardinality(OnTheirWay)
  BY CountsAreFinite, PartIsSmaller
<1>2. /\ Cardinality(BurnsOnTheirWay') <= Cardinality(BurnsOnTheirWay)
      /\ Cardinality(BurnsAsked) <= Cardinality(BurnsAsked')
  BY CountsAreFinite, PartIsSmaller
<1>3. QueueWithinReach'
  BY <1>1, <1>2, CountsAreFinite DEF LimitsInv, QueueWithinReach
<1> QED BY <1>3 DEF LimitsInv, UploadsWithinHour, BodiesWithinLimit, Receiving

(* A new row: one more in flight, at most. *)
LEMMA InsertAddsOne ==
    ASSUME QuotaTypeOK, NEW kind, NEW of, Insert(kind, of)
    PROVE  Cardinality(InFlight') <= Cardinality(InFlight) + 1
<1>1. InFlight' \subseteq InFlight \cup {NextJob}
  BY DEF Insert, InFlight, QuotaTypeOK, Pending
<1>2. /\ IsFiniteSet(InFlight \cup {NextJob}) /\ Cardinality(InFlight \cup {NextJob}) \in Nat
      /\ Cardinality(InFlight \cup {NextJob}) <= Cardinality(InFlight) + 1
  <2> DEFINE S == InFlight  x == NextJob
  <2>1. IsFiniteSet(S) /\ Cardinality(S) \in Nat
    BY CountsAreFinite
  <2> HIDE DEF S, x
  <2>2. IsFiniteSet(S \cup {x}) /\ Cardinality(S \cup {x}) = IF x \in S THEN Cardinality(S) ELSE Cardinality(S) + 1
    BY <2>1, FS_AddElement
  <2>3. IsFiniteSet(S \cup {x}) /\ Cardinality(S \cup {x}) \in Nat /\ Cardinality(S \cup {x}) <= Cardinality(S) + 1
    BY <2>1, <2>2
  <2> QED BY <2>3 DEF S, x
<1> QED BY <1>1, <1>2, CountsAreFinite, PartIsSmaller

LEMMA UploadStepKeepsLimits ==
    ASSUME QuotaTypeOK, LimitsInv, NEW r \in Request, UploadStep(r) PROVE LimitsInv'
<1> USE DEF QuotaTypeOK, LimitsInv
<1> DEFINE Steps(s, t) == up[r].step = s /\ up'[r].step = t /\ \A q \in Request \ {r} : up'[q] = up[q]
<1>1. CASE CheckQueue(r)
  <2>1. CASE QueueFull
    <3>1. Steps("asked", "answered") /\ UNCHANGED <<job, burn, bucket, seen, receiving>>
      BY <1>1, <2>1 DEF CheckQueue, Refused, quotaVars
    <3> QED BY <3>1, LimitsKept DEF OnTheirWay, Receiving, InFlight, BurnsOnTheirWay, BurnsAsked
  <2>2. CASE ~QueueFull
    <3>1. Steps("asked", "counted") /\ UNCHANGED <<job, burn, bucket, seen, receiving>>
      BY <1>1, <2>2 DEF CheckQueue, quotaVars
    <3>2. /\ InFlight' = InFlight /\ BurnsOnTheirWay' = BurnsOnTheirWay /\ BurnsAsked' = BurnsAsked
          /\ Receiving' = Receiving
      BY <3>1 DEF OnTheirWay, Receiving, InFlight, BurnsOnTheirWay, BurnsAsked
    <3>3. QueueWithinReach'
      BY <2>2, <3>2, CountsAreFinite DEF QueueWithinReach, QueueFull
    <3> QED BY <3>1, <3>2, <3>3 DEF UploadsWithinHour, BodiesWithinLimit, Receiving
  <2> QED BY <2>1, <2>2
<1>2. CASE ConsumeUpload(r) \/ RedisFails(r)
  <2>1. \E t \in {"answered", "charged"} : Steps("counted", t)
    BY <1>2 DEF ConsumeUpload, RedisFails, Refused
  <2>2. UNCHANGED <<job, burn, receiving>>
    BY <1>2 DEF ConsumeUpload, RedisFails
  <2>3. /\ InFlight' = InFlight /\ BurnsOnTheirWay' = BurnsOnTheirWay /\ BurnsAsked' = BurnsAsked
        /\ Receiving' = Receiving /\ OnTheirWay' \subseteq OnTheirWay
    BY <2>1, <2>2 DEF OnTheirWay, Receiving, InFlight, BurnsOnTheirWay, BurnsAsked
  <2>4. Cardinality(OnTheirWay') <= Cardinality(OnTheirWay)
    BY <2>3, CountsAreFinite, PartIsSmaller
  <2>5. QueueWithinReach'
    BY <2>3, <2>4, CountsAreFinite DEF QueueWithinReach
  <2>6. seen' <= bucket' /\ UploadsWithinHour'
    BY <1>2, CountsAreFinite DEF ConsumeUpload, RedisFails, Counted, OverHour, UploadsWithinHour
  <2> QED BY <2>2, <2>3, <2>5, <2>6 DEF BodiesWithinLimit, Receiving
<1>3. CASE TakeSlot(r)
  <2>1. CASE NoSlot
    <3>1. Steps("charged", "answered") /\ UNCHANGED <<job, burn, bucket, seen, receiving>>
      BY <1>3, <2>1 DEF TakeSlot, Refused
    <3> QED BY <3>1, LimitsKept DEF OnTheirWay, Receiving, InFlight, BurnsOnTheirWay, BurnsAsked
  <2>2. CASE ~NoSlot
    <3>1. Steps("charged", "receiving") /\ UNCHANGED <<job, burn, bucket, seen>> /\ receiving' = receiving + 1
      BY <1>3, <2>2 DEF TakeSlot
    <3>2. /\ InFlight' = InFlight /\ BurnsOnTheirWay' = BurnsOnTheirWay /\ BurnsAsked' = BurnsAsked
          /\ OnTheirWay' = OnTheirWay /\ Receiving' = Receiving \cup {r} /\ r \notin Receiving
      BY <3>1 DEF OnTheirWay, Receiving, InFlight, BurnsOnTheirWay, BurnsAsked
    <3>3. Cardinality(Receiving') = Cardinality(Receiving) + 1
      BY <3>2, CountsAreFinite, FS_AddElement
    <3>4. BodiesWithinLimit'
      BY <2>2, <3>1, <3>3, CountsAreFinite DEF BodiesWithinLimit, Receiving, NoSlot
    <3> QED BY <3>1, <3>2, <3>4 DEF QueueWithinReach, UploadsWithinHour
  <2> QED BY <2>1, <2>2
<1>4. CASE CreateTranscription(r) \/ UploadFails(r)
  <2>1. Steps("receiving", "answered") /\ UNCHANGED <<burn, bucket, seen>> /\ receiving' = receiving - 1
    BY <1>4 DEF CreateTranscription, UploadFails, Refused
  <2>2. /\ BurnsOnTheirWay' = BurnsOnTheirWay /\ BurnsAsked' = BurnsAsked /\ r \in OnTheirWay
        /\ OnTheirWay' = OnTheirWay \ {r} /\ Receiving' = Receiving \ {r} /\ r \in Receiving
    BY <2>1 DEF OnTheirWay, Receiving, BurnsOnTheirWay, BurnsAsked
  <2>3. Cardinality(Receiving') = Cardinality(Receiving) - 1 /\ Cardinality(OnTheirWay') = Cardinality(OnTheirWay) - 1
    BY <2>2, CountsAreFinite, FS_RemoveElement
  <2>4. Cardinality(InFlight') <= Cardinality(InFlight) + 1
    <3>1. CASE CreateTranscription(r)
      BY <3>1, InsertAddsOne DEF CreateTranscription
    <3>2. CASE UploadFails(r)
      BY <3>2, CountsAreFinite DEF UploadFails, InFlight
    <3> QED BY <1>4, <3>1, <3>2
  <2>5. QueueWithinReach'
    BY <2>2, <2>3, <2>4, CountsAreFinite DEF QueueWithinReach
  <2>6. BodiesWithinLimit'
    BY <2>1, <2>3, CountsAreFinite DEF BodiesWithinLimit, Receiving
  <2> QED BY <2>1, <2>5, <2>6 DEF UploadsWithinHour
<1> QED BY <1>1, <1>2, <1>3, <1>4 DEF UploadStep

LEMMA BurnStepKeepsLimits ==
    ASSUME QuotaTypeOK, LimitsInv, NEW j \in JobId, BurnStep(j) PROVE LimitsInv'
<1> USE DEF QuotaTypeOK, LimitsInv
<1> DEFINE Steps(s, t) == burn[j] = s /\ burn'[j] = t /\ \A q \in JobId \ {j} : burn'[q] = burn[q]
<1>1. UNCHANGED <<up, bucket, seen, receiving>>
  BY DEF BurnStep, CheckBurn, CreateBurn, quotaVars
<1>2. Receiving' = Receiving /\ OnTheirWay' = OnTheirWay
  BY <1>1 DEF Receiving, OnTheirWay
<1>3. CASE CheckBurn(j) /\ ~QueueFull
  <2>1. InFlight' = InFlight
    BY <1>3 DEF CheckBurn, InFlight
  <2>2. QueueWithinReach'
    BY <1>2, <1>3, <2>1, CountsAreFinite DEF QueueWithinReach, QueueFull
  <2> QED BY <1>1, <1>2, <2>2 DEF UploadsWithinHour, BodiesWithinLimit, Receiving
<1>4. CASE CreateBurn(j) /\ Insert("BURN", j) /\ burn' = [burn EXCEPT ![j] = "started"]
  <2>1. Steps("counted", "started")
    BY <1>4 DEF CreateBurn
  <2>2. BurnsAsked' = BurnsAsked /\ BurnsOnTheirWay' = BurnsOnTheirWay \ {j} /\ j \in BurnsOnTheirWay
    BY <2>1 DEF BurnsAsked, BurnsOnTheirWay
  <2>3. Cardinality(BurnsOnTheirWay') = Cardinality(BurnsOnTheirWay) - 1
    BY <2>2, CountsAreFinite, FS_RemoveElement
  <2>4. Cardinality(InFlight') <= Cardinality(InFlight) + 1
    BY <1>4, InsertAddsOne
  <2>5. QueueWithinReach'
    BY <1>2, <2>2, <2>3, <2>4, CountsAreFinite DEF QueueWithinReach
  <2> QED BY <1>1, <1>2, <2>5 DEF UploadsWithinHour, BodiesWithinLimit, Receiving
<1>5. CASE \/ CheckBurn(j) /\ QueueFull
           \/ CreateBurn(j) /\ burn' = [burn EXCEPT ![j] = "refused"] /\ UNCHANGED job
  <2>1. UNCHANGED job /\ \E s \in {"asked", "counted"} : Steps(s, "refused")
    BY <1>5 DEF CheckBurn, CreateBurn
  <2> QED BY <1>1, <1>2, <2>1, LimitsKept DEF InFlight, BurnsOnTheirWay, BurnsAsked
<1> QED BY <1>3, <1>4, <1>5 DEF BurnStep, CreateBurn

LEMMA TimeKeepsLimits ==
    ASSUME QuotaTypeOK, LimitsInv, HourStarts \/ \E j \in JobId : JobEnds(j) PROVE LimitsInv'
<1>1. CASE HourStarts
  BY <1>1, CountsAreFinite DEF HourStarts, LimitsInv, QueueWithinReach, UploadsWithinHour, BodiesWithinLimit, InFlight,
     OnTheirWay, BurnsOnTheirWay, BurnsAsked
<1>2. ASSUME NEW j \in JobId, JobEnds(j) PROVE LimitsInv'
  <2>1. UNCHANGED <<up, burn, bucket, seen, receiving>>
    BY <1>2 DEF JobEnds, quotaVars
  <2>2. PICK s \in {"COMPLETED", "FAILED"} : job' = [job EXCEPT ![j].status = s]
    BY <1>2 DEF JobEnds
  <2>3. InFlight' \subseteq InFlight
    BY <1>2, <2>2 DEF InFlight, QuotaTypeOK, Pending
  <2> QED BY <2>1, <2>3, LimitsKept DEF OnTheirWay, Receiving, BurnsOnTheirWay, BurnsAsked
<1> QED BY <1>1, <1>2

-----------------------------------------------------------------------------
(* Who takes a step: the person or the page, without the server; the       *)
(* chained burns; the page's hold on its uploads; the server.              *)

PageOnly ==
    \/ \E c \in Offered : Choose(c)
    \/ \E f \in File : SelectFile(f) \/ RemoveFile(f)
    \/ \E k \in DOMAIN probe : Facts(k)
    \/ StartOver \/ Start \/ AnswerLost \/ CancelUpload \/ CountdownEnds \/ Sent \/ UploadRefused
    \/ \E j \in JobId : OpenJob(j)

ChainStep ==
    \/ TrackerShows \/ Tick \/ PollRead \/ PollAnswered \/ PollFails
    \/ \E j \in JobId : BurnAnswered(j)

RequestStep ==
    \/ Begin \/ Accepted
    \/ \E r \in Request : Forgotten(r) \/ OtherUploads(r)

ServerStep ==
    /\ Server \/ HourStarts \/ \E j \in JobId : JobEnds(j)
    /\ UNCHANGED <<queueVars, chainVars, gestures>>

LEMMA NextCases == Next => PageOnly \/ ChainStep \/ RequestStep \/ ServerStep
BY DEF Next, PageProgress, PageOnly, ChainStep, RequestStep, ServerStep

(* What the page alone does leaves the server and the chained burns alone. *)
LEMMA PageOnlyLeaves == PageOnly => UNCHANGED <<job, up, burn, bucket, seen, hour, receiving, wanted, turn, polled, asked>>
BY DEF PageOnly, Choose, SelectFile, RemoveFile, Facts, StartOver, Start, AnswerLost, CancelUpload, CountdownEnds, Sent,
   UploadRefused, OpenJob, Fails, serverVars, quotaVars, chainVars

LEMMA ChainStepLeaves ==
    ASSUME ChainStep
    PROVE  UNCHANGED <<job, up, bucket, seen, hour, receiving, batch, nextKey, probe, restarted, choice, phase, beginning, mine, waiting,
                       planned, tracked>>
BY DEF ChainStep, TrackerShows, Tick, PollRead, PollAnswered, PollFails, BurnAnswered, serverVars, quotaVars, queueVars,
   chainVars

(* A burn is asked for once it was not, or its answer is told. *)
BurnMoves(j) ==
    \/ burn'[j] = burn[j]
    \/ burn[j] = "idle" /\ burn'[j] = "asked"
    \/ burn[j] \in {"started", "refused"} /\ burn'[j] = "told"

LEMMA ChainStepMovesBurns ==
    ASSUME QuotaTypeOK, ChainStep PROVE burn' \in [JobId -> BurnSteps] /\ \A j \in JobId : BurnMoves(j)
<1> USE DEF QuotaTypeOK, BurnMoves, BurnSteps
<1>1. ASSUME NEW j, NEW s, OnJob(j, s) PROVE burn' \in [JobId -> BurnSteps] /\ \A q \in JobId : BurnMoves(q)
  BY <1>1 DEF OnJob
<1>2. CASE UNCHANGED burn
  BY <1>2
<1>3. CASE \E j \in JobId : BurnAnswered(j)
  BY <1>3 DEF BurnAnswered
<1> QED BY <1>1, <1>2, <1>3 DEF ChainStep, TrackerShows, Tick, PollRead, PollAnswered, PollFails, serverVars

LEMMA ChainStepKeepsLimits == ASSUME QuotaTypeOK, LimitsInv, ChainStep PROVE LimitsInv'
BY ChainStepLeaves, ChainStepMovesBurns, LimitsKept DEF Receiving, InFlight, OnTheirWay, BurnsOnTheirWay, BurnsAsked,
   BurnMoves

(* The page takes a free request, or gives one back that has been answered. *)
LEMMA RequestStepMoves ==
    ASSUME QuotaTypeOK, RequestStep
    PROVE  /\ UNCHANGED <<job, burn, bucket, seen, hour, receiving>>
           /\ \A r \in Request : \/ up'[r] = up[r]
                                 \/ up[r].step = "idle" /\ up'[r].step = "asked" /\ up'[r].job \in {0, up[r].job}
                                 \/ up[r].step = "answered" /\ up'[r] = NoUpload
<1> USE DEF QuotaTypeOK, quotaVars
<1>1. ASSUME NEW r \in NextRequest PROVE r \in Request /\ up[r].step = "idle"
  BY DEF NextRequest
<1>2. CASE Begin
  <2>1. UNCHANGED <<job, burn, bucket, seen, hour, receiving>>
    BY <1>2 DEF Begin
  <2>2. CASE UNCHANGED up
    BY <2>1, <2>2
  <2>3. ASSUME NEW r \in NextRequest, up' = [up EXCEPT ![r] = [NoUpload EXCEPT !.step = "asked", !.file = Current.file]]
        PROVE  \A q \in Request : up'[q] = up[q] \/ (up[q].step = "idle" /\ up'[q].step = "asked" /\ up'[q].job = 0)
    <3> DEFINE new == [NoUpload EXCEPT !.step = "asked", !.file = Current.file]
    <3>1. new.step = "asked" /\ new.job = 0
      BY DEF NoUpload
    <3> HIDE DEF new
    <3> QED BY <1>1, <2>3, <3>1 DEF new
  <2> QED BY <1>2, <2>1, <2>2, <2>3 DEF Begin
<1>3. CASE Accepted
  BY <1>3 DEF Accepted
<1>4. ASSUME NEW r \in Request, Forgotten(r) \/ OtherUploads(r)
      PROVE  /\ UNCHANGED <<job, burn, bucket, seen, hour, receiving>>
             /\ \A q \in Request : \/ up'[q] = up[q]
                                   \/ up[q].step = "idle" /\ up'[q].step = "asked" /\ up'[q].job \in {0, up[q].job}
                                   \/ up[q].step = "answered" /\ up'[q] = NoUpload
  BY <1>1, <1>4 DEF Forgotten, OtherUploads
<1> QED BY <1>2, <1>3, <1>4 DEF RequestStep

LEMMA RequestStepKeepsLimits == ASSUME QuotaTypeOK, LimitsInv, RequestStep PROVE LimitsInv'
<1>1. \A r \in Request : \/ up'[r] = up[r]
                         \/ up[r].step = "idle" /\ up'[r].step = "asked"
                         \/ up[r].step = "answered" /\ up'[r].step = "idle"
  BY RequestStepMoves DEF NoUpload
<1> QED BY <1>1, RequestStepMoves, LimitsKept DEF Receiving, InFlight, OnTheirWay, BurnsOnTheirWay, BurnsAsked

LEMMA StepKeepsLimits == ASSUME QuotaTypeOK, LimitsInv, [Next]_vars PROVE LimitsInv'
<1>1. CASE PageOnly \/ UNCHANGED vars
  BY <1>1, PageOnlyLeaves, LimitsKept DEF vars, serverVars, quotaVars, Receiving, InFlight, OnTheirWay, BurnsOnTheirWay,
     BurnsAsked
<1>2. CASE ServerStep
  BY <1>2, UploadStepKeepsLimits, BurnStepKeepsLimits, TimeKeepsLimits DEF ServerStep, Server
<1> QED BY <1>1, <1>2, NextCases, ChainStepKeepsLimits, RequestStepKeepsLimits
-----------------------------------------------------------------------------
(* Each transcription is held once. *)

HeldInv == RowsHaveNoGaps /\ JobsAreHeldOnce /\ OneBurnPerFile

ChainTypes == wanted \in Seq(JobId) /\ asked \in [JobId -> Nat]

LEMMA RemoveAtIsShorter ==
    ASSUME NEW S, NEW s \in Seq(S), NEW k \in 1..Len(s)
    PROVE  /\ RemoveAt(s, k) \in Seq(S)
           /\ Len(RemoveAt(s, k)) = Len(s) - 1
           /\ \A i \in 1..(Len(s) - 1) : RemoveAt(s, k)[i] = IF i < k THEN s[i] ELSE s[i + 1]
<1> DEFINE a == SubSeq(s, 1, k - 1)  b == SubSeq(s, k + 1, Len(s))
<1>1. a \in Seq(S) /\ Len(a) = k - 1 /\ \A i \in 1..(k - 1) : a[i] = s[i]
  BY SubSeqProperties
<1>2. b \in Seq(S) /\ Len(b) = Len(s) - k /\ \A i \in 1..(Len(s) - k) : b[i] = s[i + k]
  BY SubSeqProperties
<1>3. RemoveAt(s, k) = a \o b
  BY DEF RemoveAt
<1> HIDE DEF a, b
<1>4. a \o b \in Seq(S) /\ Len(a \o b) = Len(a) + Len(b)
      /\ \A i \in 1..(Len(a) + Len(b)) : (a \o b)[i] = IF i <= Len(a) THEN a[i] ELSE b[i - Len(a)]
  BY <1>1, <1>2, ConcatProperties
<1>5. ASSUME NEW i \in 1..(Len(s) - 1) PROVE (a \o b)[i] = IF i < k THEN s[i] ELSE s[i + 1]
  <2>1. CASE i < k
    BY <1>1, <1>2, <1>4, <2>1
  <2>2. CASE ~(i < k)
    <3>1. i - (k - 1) \in 1..(Len(s) - k) /\ i - (k - 1) + k = i + 1
      BY <2>2
    <3>2. b[i - (k - 1)] = s[i + 1]
      BY <1>2, <3>1
    <3>3. i \in 1..(Len(a) + Len(b)) /\ ~(i <= Len(a)) /\ i - Len(a) = i - (k - 1)
      BY <1>1, <1>2, <2>2
    <3> QED BY <1>4, <2>2, <3>2, <3>3
  <2> QED BY <2>1, <2>2
<1> QED BY <1>1, <1>2, <1>3, <1>4, <1>5

(* The next row is a new one, and the rows stay without gaps. *)
LEMMA NextJobIsNew ==
    ASSUME QuotaTypeOK, RowsHaveNoGaps, NEW kind, NEW of, Insert(kind, of)
    PROVE  NextJob \in JobId /\ NextJob \notin Rows /\ Rows' = Rows \cup {NextJob} /\ RowsHaveNoGaps'
<1>1. PICK k \in 0..MaxJobs : Rows = 1..k
  BY DEF RowsHaveNoGaps
<1>2. k \in Nat /\ Cardinality(1..k) = k
  BY JobsAreFinite, FS_Interval
<1>3. NextJob = k + 1
  BY <1>1, <1>2 DEF NextJob
<1>4. NextJob \in JobId
  BY DEF Insert
<1>5. Rows' = Rows \cup {NextJob}
  BY <1>4 DEF Insert, Rows, QuotaTypeOK
<1>6. Rows' = 1..(k + 1) /\ k + 1 \in 0..MaxJobs
  BY <1>1, <1>2, <1>3, <1>4, <1>5, JobsAreFinite DEF JobId
<1> QED BY <1>1, <1>2, <1>3, <1>4, <1>5, <1>6 DEF RowsHaveNoGaps

(* A step that only leaves the rows and the requests where they are. *)
LEMMA HeldKept ==
    ASSUME HeldInv, Rows' = Rows, UNCHANGED <<wanted, asked>>,
           \A r \in Request : up'[r] = up[r] \/ (up'[r].job = 0 /\ (up'[r].step = "answered" => up'[r].error /= None))
    PROVE  HeldInv'
<1> USE DEF HeldInv, Holds
<1>1. RowsHaveNoGaps' /\ OneBurnPerFile'
  BY DEF RowsHaveNoGaps, OneBurnPerFile
<1>2. \A r \in Request : Holds(r)' => up'[r] = up[r] /\ Holds(r)
  OBVIOUS
<1>3. JobsAreHeldOnce'
  BY <1>2 DEF JobsAreHeldOnce
<1> QED BY <1>1, <1>3

LEMMA ServerStepKeepsHeld ==
    ASSUME QuotaTypeOK, ChainTypes, HeldInv, ServerStep PROVE HeldInv'
<1> USE DEF QuotaTypeOK, HeldInv
<1>1. UNCHANGED <<wanted, asked>>
  BY DEF ServerStep, chainVars
<1>2. ASSUME NEW r \in Request, UploadStep(r) PROVE HeldInv'
  <2>1. CASE CreateTranscription(r)
    <3>1. /\ NextJob \in JobId /\ NextJob \notin Rows /\ Rows' = Rows \cup {NextJob} /\ RowsHaveNoGaps'
      BY <2>1, NextJobIsNew DEF CreateTranscription
    <3> DEFINE n == NextJob
    <3>2. /\ up'[r].step = "answered" /\ up'[r].job = n
          /\ \A q \in Request \ {r} : up'[q] = up[q]
      BY <2>1 DEF CreateTranscription
    <3> HIDE DEF n
    <3>3. n \in Rows' /\ n \in JobId /\ n \notin Rows /\ n /= 0 /\ Rows \subseteq Rows'
      BY <3>1 DEF n, JobId
    <3>4. asked[n] = 0 /\ n \notin Range(wanted)
      BY <3>3 DEF JobsAreHeldOnce, ChainTypes, Range
    <3>5. /\ Holds(r)' /\ \A q \in Request \ {r} : Holds(q)' <=> Holds(q)
          /\ \A q \in Request \ {r} : Holds(q)' => up'[q].job \in Rows /\ up'[q].job /= n
      BY <3>2, <3>3 DEF Holds, JobsAreHeldOnce
    <3>6. \A q \in Request :
             /\ Holds(q)' => /\ up'[q].step = "answered" /\ up'[q].job \in Rows'
                             /\ up'[q].job \notin Range(wanted') /\ asked'[up'[q].job] = 0
             /\ up'[q].step = "answered" /\ up'[q].error = None => Holds(q)'
      BY <1>1, <3>2, <3>3, <3>4, <3>5 DEF JobsAreHeldOnce
    <3>7. \A q, t \in Request : Holds(q)' /\ Holds(t)' /\ q /= t => up'[q].job /= up'[t].job
      BY <3>2, <3>5 DEF JobsAreHeldOnce
    <3> QED BY <1>1, <3>1, <3>3, <3>6, <3>7 DEF JobsAreHeldOnce, OneBurnPerFile
  <2>2. CASE CheckQueue(r) \/ ConsumeUpload(r) \/ RedisFails(r) \/ TakeSlot(r) \/ UploadFails(r)
    <3>1. /\ up[r].step /= "answered" /\ up'[r].job = up[r].job
          /\ up'[r].step = "answered" => up'[r].error \in {"rate_limited", "busy", "server"}
          /\ \A q \in Request \ {r} : up'[q] = up[q]
      BY <2>2 DEF CheckQueue, ConsumeUpload, RedisFails, TakeSlot, UploadFails, Refused
    <3>2. Rows' = Rows
      BY <2>2 DEF CheckQueue, ConsumeUpload, RedisFails, TakeSlot, UploadFails, Rows
    <3>3. ~Holds(r) /\ up[r].job = 0
      BY <3>1 DEF JobsAreHeldOnce, Holds
    <3> QED BY <1>1, <3>1, <3>2, <3>3, HeldKept, QuotaAssumption
  <2> QED BY <1>2, <2>1, <2>2 DEF UploadStep
<1>3. CASE Rows' = Rows /\ UNCHANGED up
  BY <1>1, <1>3, HeldKept
<1>4. ASSUME NEW j \in JobId, BurnStep(j), Rows' /= Rows PROVE HeldInv'
  <2>1. Insert("BURN", j) /\ UNCHANGED up
    BY <1>4 DEF BurnStep, CheckBurn, CreateBurn, Rows
  <2>2. RowsHaveNoGaps' /\ Rows \subseteq Rows'
    BY <2>1, NextJobIsNew
  <2> QED BY <1>1, <2>1, <2>2 DEF JobsAreHeldOnce, OneBurnPerFile, Holds
<1>5. ASSUME NEW j \in JobId, JobEnds(j) PROVE Rows' = Rows /\ UNCHANGED up
  BY <1>5 DEF JobEnds, Rows
<1>6. HourStarts => Rows' = Rows /\ UNCHANGED up
  BY DEF HourStarts, Rows
<1>7. \A j \in JobId : BurnStep(j) => UNCHANGED up
  BY DEF BurnStep, CheckBurn, CreateBurn
<1> QED BY <1>2, <1>3, <1>4, <1>5, <1>6, <1>7 DEF ServerStep, Server

(* fire, ended: the wanted one is forgotten, and its burn asked for.       *)
LEMMA OnJobKeepsHeld ==
    ASSUME QuotaTypeOK, ChainTypes, HeldInv, UNCHANGED <<job, up>>, NEW j, NEW s, OnJob(j, s) PROVE HeldInv' /\ ChainTypes'
<1> USE DEF QuotaTypeOK, HeldInv
<1>1. Rows' = Rows
  BY DEF Rows
<1>2. CASE j \notin Range(wanted) \/ s \in Pending
  BY <1>1, <1>2, HeldKept DEF OnJob, ChainTypes
<1>3. CASE j \in Range(wanted) /\ s \notin Pending
  <2> DEFINE k == CHOOSE i \in DOMAIN wanted : wanted[i] = j
  <2>1. k \in 1..Len(wanted) /\ wanted[k] = j /\ Len(wanted) \in Nat
    BY <1>3 DEF Range, ChainTypes
  <2>2. wanted' = RemoveAt(wanted, k)
    BY <1>3 DEF OnJob, ForgottenFirst
  <2> HIDE DEF k
  <2>3. /\ wanted' \in Seq(JobId) /\ Len(wanted') = Len(wanted) - 1
        /\ \A i \in 1..(Len(wanted) - 1) : wanted'[i] = IF i < k THEN wanted[i] ELSE wanted[i + 1]
    BY <2>1, <2>2, RemoveAtIsShorter DEF ChainTypes
  <2> DEFINE old(i) == IF i < k THEN i ELSE i + 1
  <2>0. DOMAIN wanted = 1..Len(wanted) /\ DOMAIN wanted' = 1..(Len(wanted) - 1) /\ Len(wanted) \in Nat /\ k \in Nat
    BY <2>1, <2>3 DEF ChainTypes
  <2>4. \A i \in DOMAIN wanted' : old(i) \in DOMAIN wanted /\ old(i) /= k /\ wanted'[i] = wanted[old(i)]
    <3> TAKE i \in DOMAIN wanted'
    <3>1. i \in 1..(Len(wanted) - 1)
      BY <2>0
    <3>2. old(i) \in 1..Len(wanted) /\ old(i) /= k
      BY <2>0, <2>1, <3>1
    <3>3. wanted'[i] = wanted[old(i)]
      BY <2>3, <3>1
    <3> QED BY <2>0, <3>2, <3>3
  <2>17. \A i, m \in DOMAIN wanted' : i /= m => old(i) /= old(m)
    BY <2>0
  <2> HIDE DEF old
  <2>5. j \in Rows /\ j \in JobId /\ asked[j] = 0
    BY <2>1 DEF JobsAreHeldOnce, ChainTypes
  <2>6. asked' \in [JobId -> Nat] /\ asked'[j] \in {0, 1} /\ \A q \in JobId \ {j} : asked'[q] = asked[q]
    BY <1>3, <2>5 DEF OnJob, ChainTypes
  <2>7. \A i \in DOMAIN wanted' : wanted'[i] \in Rows /\ wanted'[i] /= j /\ wanted'[i] \in JobId
    BY <2>1, <2>4 DEF JobsAreHeldOnce, ChainTypes
  <2>8. \A i, m \in DOMAIN wanted' : i /= m => wanted'[i] /= wanted'[m]
    <3> TAKE i, m \in DOMAIN wanted'
    <3> HAVE i /= m
    <3> QED BY <2>4, <2>17 DEF JobsAreHeldOnce
  <2>9. \A i \in DOMAIN wanted' : asked'[wanted'[i]] = 0
    BY <2>4, <2>6, <2>7 DEF JobsAreHeldOnce
  <2>10. Range(wanted') \subseteq Range(wanted)
    BY <2>4 DEF Range
  <2>11. j \in Range(wanted)
    BY <1>3
  <2>12. \A r \in Request :
            /\ Holds(r)' => /\ up'[r].step = "answered" /\ up'[r].job \in Rows'
                            /\ up'[r].job \notin Range(wanted') /\ asked'[up'[r].job] = 0
            /\ up'[r].step = "answered" /\ up'[r].error = None => Holds(r)'
    <3> TAKE r \in Request
    <3>1. /\ Holds(r)' => Holds(r) /\ up[r].step = "answered" /\ up[r].job \in Rows
                            /\ up[r].job \notin Range(wanted) /\ asked[up[r].job] = 0
          /\ up[r].step = "answered" /\ up[r].error = None => Holds(r)'
      BY DEF JobsAreHeldOnce, Holds
    <3>2. Rows \subseteq JobId
      BY DEF Rows
    <3> QED BY <1>1, <2>6, <2>10, <2>11, <3>1, <3>2
  <2>13. \A q \in JobId : asked'[q] > 0 => q \in Rows'
    BY <1>1, <2>5, <2>6 DEF JobsAreHeldOnce
  <2>14. JobsAreHeldOnce'
    <3>1. \A q, r \in Request : Holds(q)' /\ Holds(r)' /\ q /= r => up'[q].job /= up'[r].job
      BY DEF JobsAreHeldOnce, Holds
    <3> QED BY <1>1, <2>7, <2>8, <2>9, <2>12, <2>13, <3>1 DEF JobsAreHeldOnce
  <2>15. OneBurnPerFile'
    BY <2>6 DEF OneBurnPerFile
  <2>16. RowsHaveNoGaps'
    BY <1>1 DEF RowsHaveNoGaps
  <2> QED BY <2>3, <2>6, <2>14, <2>15, <2>16 DEF ChainTypes
<1> QED BY <1>2, <1>3

LEMMA ChainStepKeepsHeld ==
    ASSUME QuotaTypeOK, ChainTypes, HeldInv, ChainStep PROVE HeldInv' /\ ChainTypes'
<1>1. UNCHANGED <<job, up>>
  BY ChainStepLeaves
<1>2. Rows' = Rows
  BY <1>1 DEF Rows
<1>3. CASE UNCHANGED <<wanted, asked>>
  BY <1>1, <1>2, <1>3, HeldKept DEF ChainTypes
<1>4. CASE \E j, s : OnJob(j, s)
  BY <1>1, <1>4, OnJobKeepsHeld
<1> QED
  BY <1>3, <1>4 DEF ChainStep, TrackerShows, Tick, PollRead, PollAnswered, PollFails, BurnAnswered, chainVars

(* The job of an upload that is accepted passes from it to the wanted ones. *)
LEMMA RequestStepKeepsHeld ==
    ASSUME QuotaTypeOK, ChainTypes, HeldInv, RequestStep, Busy => mine \in Request PROVE HeldInv' /\ ChainTypes'
<1> USE DEF QuotaTypeOK, HeldInv
<1>1. Rows' = Rows /\ UNCHANGED asked
  BY RequestStepMoves DEF Rows, RequestStep, Begin, Accepted, Forgotten, OtherUploads, chainVars
<1>2. ASSUME NEW r \in Request PROVE up'[r] = up[r] \/ (up'[r].job = 0 /\ up'[r].step /= "answered")
  BY RequestStepMoves DEF NoUpload, JobsAreHeldOnce, Holds
<1>3. CASE UNCHANGED wanted
  BY <1>1, <1>2, <1>3, HeldKept DEF ChainTypes
<1>4. CASE wanted' /= wanted
  <2> DEFINE n == up[mine].job
  <2>1. Accepted /\ wanted' = Append(wanted, n) /\ mine \in Request /\ up[mine].step = "answered" /\ up[mine].error = None
    BY <1>4 DEF RequestStep, Begin, Accepted, Forgotten, OtherUploads, chainVars
  <2>2. up'[mine].job = 0 /\ up'[mine].step /= "answered" /\ \A q \in Request \ {mine} : up'[q] = up[q]
    BY <2>1 DEF Accepted, NoUpload
  <2>3. Holds(mine) /\ n \in Rows /\ n \notin Range(wanted) /\ asked[n] = 0 /\ n \in JobId
    BY <2>1 DEF JobsAreHeldOnce, Rows
  <2>4. \A q \in Request \ {mine} : Holds(q) => up[q].job /= n
    BY <2>1, <2>3 DEF JobsAreHeldOnce
  <2> HIDE DEF n
  <2>5. /\ wanted' \in Seq(JobId) /\ Len(wanted') = Len(wanted) + 1 /\ wanted'[Len(wanted) + 1] = n
        /\ \A i \in 1..Len(wanted) : wanted'[i] = wanted[i]
    BY <2>1, <2>3, AppendProperties DEF ChainTypes
  <2>6. \A i \in DOMAIN wanted' : (wanted'[i] = n /\ i = Len(wanted) + 1) \/ (i \in DOMAIN wanted /\ wanted'[i] = wanted[i])
    BY <2>5, SMTT(20) DEF ChainTypes
  <2>7. \A i \in DOMAIN wanted : wanted[i] /= n
    BY <2>3 DEF Range
  <2>8. \A i \in DOMAIN wanted' : wanted'[i] \in Rows' /\ asked'[wanted'[i]] = 0
    BY <1>1, <2>3, <2>6 DEF JobsAreHeldOnce
  <2>9. \A i, k \in DOMAIN wanted' : i /= k => wanted'[i] /= wanted'[k]
    BY <2>6, <2>7 DEF JobsAreHeldOnce
  <2>10. \A r \in Request : Holds(r)' => up'[r] = up[r] /\ r /= mine /\ Holds(r)
    BY <2>2 DEF Holds
  <2>11. \A r \in Request :
            /\ Holds(r)' => /\ up'[r].step = "answered" /\ up'[r].job \in Rows'
                            /\ up'[r].job \notin Range(wanted') /\ asked'[up'[r].job] = 0
            /\ up'[r].step = "answered" /\ up'[r].error = None => Holds(r)'
    <3> TAKE r \in Request
    <3>1. CASE Holds(r)'
      <4>1. up'[r].job \notin Range(wanted')
        BY <2>4, <2>6, <2>10, <3>1 DEF Range, JobsAreHeldOnce
      <4> QED BY <1>1, <2>10, <3>1, <4>1 DEF JobsAreHeldOnce
    <3>2. CASE ~Holds(r)'
      BY <2>2, <3>2 DEF JobsAreHeldOnce, Holds
    <3> QED BY <3>1, <3>2
  <2>12. \A q, r \in Request : Holds(q)' /\ Holds(r)' /\ q /= r => up'[q].job /= up'[r].job
    BY <2>10 DEF JobsAreHeldOnce
  <2>13. JobsAreHeldOnce'
    BY <1>1, <2>8, <2>9, <2>11, <2>12 DEF JobsAreHeldOnce
  <2>14. RowsHaveNoGaps' /\ OneBurnPerFile'
    BY <1>1 DEF RowsHaveNoGaps, OneBurnPerFile
  <2> QED BY <1>1, <2>5, <2>13, <2>14 DEF ChainTypes
<1> QED BY <1>3, <1>4

LEMMA StepKeepsHeld ==
    ASSUME QuotaTypeOK, ChainTypes, HeldInv, Busy => mine \in Request, [Next]_vars PROVE HeldInv' /\ ChainTypes'
<1>1. CASE PageOnly \/ UNCHANGED vars
  BY <1>1, PageOnlyLeaves, HeldKept DEF vars, serverVars, chainVars, Rows, ChainTypes
<1>2. CASE ServerStep
  BY <1>2, ServerStepKeepsHeld DEF ServerStep, chainVars, ChainTypes
<1> QED BY <1>1, <1>2, NextCases, ChainStepKeepsHeld, RequestStepKeepsHeld
-----------------------------------------------------------------------------
(* The types. *)

Item == [key: Nat, file: File, status: ItemStatus]
Entry == [file: File, facts: Reading]
Plan == [burn: BOOLEAN, known: BOOLEAN, own: BOOLEAN]

LEMMA ServerStepKeepsTypes == ASSUME QuotaTypeOK, LimitsInv, ServerStep PROVE QuotaTypeOK'
<1> USE DEF QuotaTypeOK
<1>1. {bucket', seen', hour', receiving'} \subseteq Nat
  <2>1. receiving' \in Nat
    <3>1. LimitsInv'
      BY UploadStepKeepsLimits, BurnStepKeepsLimits, TimeKeepsLimits DEF ServerStep, Server
    <3> QED BY <3>1, CountsAreFinite DEF LimitsInv, BodiesWithinLimit, Receiving
  <2>2. ASSUME NEW r \in Request, UploadStep(r) PROVE {bucket', seen', hour'} \subseteq Nat
    BY <2>2 DEF UploadStep, CheckQueue, ConsumeUpload, RedisFails, TakeSlot, CreateTranscription, UploadFails, quotaVars,
       Counted
  <2>3. ASSUME NEW j \in JobId, BurnStep(j) \/ JobEnds(j) PROVE {bucket', seen', hour'} \subseteq Nat
    BY <2>3 DEF BurnStep, CheckBurn, CreateBurn, JobEnds, quotaVars
  <2>4. HourStarts => {bucket', seen', hour'} \subseteq Nat
    BY DEF HourStarts
  <2> QED BY <2>1, <2>2, <2>3, <2>4 DEF ServerStep, Server
<1>2. ASSUME NEW kind \in {"TRANSCRIBE", "BURN"}, NEW of \in File \cup JobId \cup {None}, Insert(kind, of)
      PROVE  job' \in [JobId -> [status: {"none", "COMPLETED", "FAILED"} \cup Pending,
                                 kind: {"none", "TRANSCRIBE", "BURN"}, of: File \cup JobId \cup {None}]]
  BY <1>2 DEF Insert, Pending
<1>3. ASSUME NEW r \in Request, UploadStep(r) PROVE QuotaTypeOK'
  <2>1. UNCHANGED burn
    BY <1>3 DEF UploadStep, CheckQueue, ConsumeUpload, RedisFails, TakeSlot, CreateTranscription, UploadFails
  <2>2. job' \in [JobId -> [status: {"none", "COMPLETED", "FAILED"} \cup Pending,
                            kind: {"none", "TRANSCRIBE", "BURN"}, of: File \cup JobId \cup {None}]]
    BY <1>2, <1>3 DEF UploadStep, CheckQueue, ConsumeUpload, RedisFails, TakeSlot, CreateTranscription, UploadFails
  <2>3. CASE CreateTranscription(r)
    <3>1. NextJob \in 0..MaxJobs
      BY <2>3 DEF CreateTranscription, Insert, JobId
    <3>2. up' \in [Request -> [step: UploadSteps, file: File \cup {None}, job: 0..MaxJobs, error: Errors \cup {None}]]
      BY <2>3, <3>1, ZenonT(30) DEF CreateTranscription, UploadSteps
    <3> QED BY <1>1, <2>1, <2>2, <3>2
  <2>4. CASE ~CreateTranscription(r)
    <3>1. up' \in [Request -> [step: UploadSteps, file: File \cup {None}, job: 0..MaxJobs, error: Errors \cup {None}]]
      BY <1>3, <2>4 DEF UploadStep, CheckQueue, ConsumeUpload, RedisFails, TakeSlot, UploadFails, Refused, UploadSteps, Errors
    <3> QED BY <1>1, <2>1, <2>2, <3>1
  <2> QED BY <2>3, <2>4
<1>4. ASSUME NEW j \in JobId, BurnStep(j) PROVE QuotaTypeOK'
  <2>1. job' \in [JobId -> [status: {"none", "COMPLETED", "FAILED"} \cup Pending,
                            kind: {"none", "TRANSCRIBE", "BURN"}, of: File \cup JobId \cup {None}]]
    BY <1>2, <1>4 DEF BurnStep, CheckBurn, CreateBurn
  <2> QED BY <1>1, <1>4, <2>1 DEF BurnStep, CheckBurn, CreateBurn, BurnSteps
<1>5. ASSUME NEW j \in JobId, JobEnds(j) PROVE QuotaTypeOK'
  <2>1. PICK s \in {"COMPLETED", "FAILED"} : job' = [job EXCEPT ![j].status = s]
    BY <1>5 DEF JobEnds
  <2>2. job' \in [JobId -> [status: {"none", "COMPLETED", "FAILED"} \cup Pending,
                            kind: {"none", "TRANSCRIBE", "BURN"}, of: File \cup JobId \cup {None}]]
    BY <2>1
  <2> QED BY <1>1, <1>5, <2>2 DEF JobEnds
<1>6. CASE HourStarts
  BY <1>1, <1>6 DEF HourStarts
<1> QED BY <1>3, <1>4, <1>5, <1>6 DEF ServerStep, Server

LEMMA ItemsAre ==
    ASSUME NEW b \in Seq(Item)
    PROVE  /\ DOMAIN b = 1..Len(b) /\ Len(b) \in Nat
           /\ \A i \in DOMAIN b : b[i] = [key |-> b[i].key, file |-> b[i].file, status |-> b[i].status]
                                   /\ b[i].key \in Nat /\ b[i].file \in File /\ b[i].status \in ItemStatus
<1>1. \A i \in DOMAIN b : b[i] \in Item
  OBVIOUS
<1> QED BY <1>1 DEF Item

LEMMA SmallestIsThere ==
    ASSUME NEW T \in SUBSET Nat, T /= {} PROVE \E i \in T : \A k \in T : i <= k
<1>1. PICK i \in T : \A k \in T : <<k, i>> \notin OpToRel(<, Nat)
  BY NatLessThanWellFounded, WFMin
<1>2. \A k \in T : <<k, i>> \in Nat \X Nat
  OBVIOUS
<1>3. \A k \in T : ~(k < i)
  BY <1>1, <1>2 DEF OpToRel
<1> QED BY <1>3

LEMMA FirstIsThere ==
    ASSUME batch \in Seq(Item), NEW S, Some(S)
    PROVE  /\ First(S) \in DOMAIN batch /\ batch[First(S)].status \in S
           /\ \A k \in 1..(First(S) - 1) : batch[k].status \notin S
<1> DEFINE T == {i \in DOMAIN batch : batch[i].status \in S}
<1>1. T \in SUBSET Nat /\ T /= {} /\ DOMAIN batch = 1..Len(batch) /\ Len(batch) \in Nat
  BY DEF Some
<1>2. PICK i \in T : \A k \in T : i <= k
  BY <1>1, SmallestIsThere
<1>3. i \in DOMAIN batch /\ batch[i].status \in S /\ \A k \in 1..(i - 1) : batch[k].status \notin S
  BY <1>1, <1>2
<1> QED BY <1>3 DEF First

(* The file begin takes: the first that is still to be uploaded. *)
LEMMA CurrentIsTheFirst ==
    ASSUME batch \in Seq(Item), HasCurrent, ~Some({"uploading"})
    PROVE  \E c \in DOMAIN batch : /\ Current = batch[c] /\ batch[c].status \in Open
                                   /\ \A k \in 1..(c - 1) : batch[k].status = "done"
<1>1. Some(Open)
  BY DEF HasCurrent, Some
<1> DEFINE c == First(Open)
<1>2. Current = batch[c]
  BY DEF Current
<1>3. c \in DOMAIN batch /\ batch[c].status \in Open /\ \A k \in 1..(c - 1) : batch[k].status \notin Open
  BY <1>1, FirstIsThere
<1>4. ASSUME NEW k \in 1..(c - 1) PROVE batch[k].status = "done"
  <2>1. k \in DOMAIN batch
    BY <1>3
  <2>2. batch[k].status \in ItemStatus
    BY <2>1, ItemsAre
  <2> QED BY <1>3, <2>1, <2>2 DEF Open, ItemStatus, Some
<1> QED BY <1>2, <1>3, <1>4

LEMMA MarkedChanges ==
    ASSUME batch \in Seq(Item), NEW f, NEW s \in ItemStatus
    PROVE  /\ Marked(f, s) \in Seq(Item) /\ DOMAIN Marked(f, s) = DOMAIN batch
           /\ KeysOf(Marked(f, s)) = KeysOf(batch)
           /\ \A i \in DOMAIN batch : /\ Marked(f, s)[i].file = batch[i].file /\ Marked(f, s)[i].key = batch[i].key
                                      /\ Marked(f, s)[i].status = IF batch[i].file = f THEN s ELSE batch[i].status
<1> DEFINE e(i) == IF batch[i].file = f THEN [batch[i] EXCEPT !.status = s] ELSE batch[i]
<1>1. ASSUME NEW i \in DOMAIN batch
      PROVE  e(i) \in Item /\ e(i).file = batch[i].file /\ e(i).key = batch[i].key
             /\ e(i).status = IF batch[i].file = f THEN s ELSE batch[i].status
  <2>1. batch[i] \in Item
    OBVIOUS
  <2>2. CASE batch[i].file = f
    <3>1. \A x \in Item : [x EXCEPT !.status = s] \in Item /\ [x EXCEPT !.status = s].file = x.file
                          /\ [x EXCEPT !.status = s].key = x.key /\ [x EXCEPT !.status = s].status = s
      BY DEF Item
    <3>2. e(i) = [batch[i] EXCEPT !.status = s]
      BY <2>2
    <3> QED BY <2>1, <2>2, <3>1, <3>2
  <2>3. CASE batch[i].file /= f
    BY <2>1, <2>3
  <2> QED BY <2>2, <2>3
<1>2. Marked(f, s) = [i \in DOMAIN batch |-> e(i)]
  BY DEF Marked
<1> HIDE DEF e
<1>3. [i \in DOMAIN batch |-> e(i)] \in [1..Len(batch) -> Item] /\ Len(batch) \in Nat
  BY <1>1
<1>4. [i \in DOMAIN batch |-> e(i)] \in Seq(Item)
  BY <1>3, IsASeq
<1>5. KeysOf(Marked(f, s)) = KeysOf(batch)
  BY <1>1, <1>2 DEF KeysOf
<1> QED BY <1>1, <1>2, <1>3, <1>4, <1>5

LEMMA WithoutIsShorter ==
    ASSUME batch \in Seq(Item), NEW f, \E i \in DOMAIN batch : batch[i].file = f
    PROVE  Without(f) \in Seq(Item)
           /\ \E k \in DOMAIN batch :
                 /\ batch[k].file = f
                 /\ DOMAIN Without(f) = 1..(Len(batch) - 1)
                 /\ \A i \in 1..(Len(batch) - 1) : Without(f)[i] = batch[IF i < k THEN i ELSE i + 1]
<1> DEFINE k == CHOOSE i \in DOMAIN batch : batch[i].file = f
<1>1. k \in 1..Len(batch) /\ batch[k].file = f
  OBVIOUS
<1>2. Without(f) = RemoveAt(batch, k)
  BY DEF Without
<1> HIDE DEF k
<1>3. Without(f) \in Seq(Item) /\ Len(Without(f)) = Len(batch) - 1
      /\ \A i \in 1..(Len(batch) - 1) : Without(f)[i] = IF i < k THEN batch[i] ELSE batch[i + 1]
  BY <1>1, <1>2, RemoveAtIsShorter
<1>4. DOMAIN Without(f) = 1..(Len(batch) - 1)
  BY <1>3
<1>5. \A i \in 1..(Len(batch) - 1) : Without(f)[i] = batch[IF i < k THEN i ELSE i + 1]
  BY <1>3
<1> QED BY <1>1, <1>3, <1>4, <1>5, SMTT(30)

QueueTypes ==
    /\ batch \in Seq(Item)
    /\ nextKey \in Nat
    /\ probe \in [KeysOf(batch) -> Entry]
    /\ choice \in Choice
    /\ phase \in Phases
    /\ mine \in IF phase \in {"uploading", "finalizing"} THEN Request ELSE {None}
    /\ {restarted, beginning, waiting} \subseteq BOOLEAN
    /\ planned \in Plan

PollTypes ==
    /\ tracked \in 0..MaxJobs
    /\ turn \in Nat
    /\ polled \in [job: 0..MaxJobs, status: {"none", "asked"} \cup {"COMPLETED", "FAILED"} \cup Pending]
    /\ gestures \in 0..MaxGestures

LEMMA TypesAre == TypeOK <=> QuotaTypeOK /\ QueueTypes /\ ChainTypes /\ PollTypes
BY DEF TypeOK, QueueTypes, ChainTypes, PollTypes, Item, Entry, Plan

LEMMA TypesAreNext == TypeOK' <=> QuotaTypeOK' /\ QueueTypes' /\ ChainTypes' /\ PollTypes'
BY DEF TypeOK, QueueTypes, ChainTypes, PollTypes, Item, Entry, Plan
LEMMA ChainStepKeepsTypes ==
    ASSUME TypeOK, HeldInv, PollIsOfAJob, ChainStep PROVE TypeOK' /\ PollIsOfAJob'
<1>1. QuotaTypeOK /\ QueueTypes /\ ChainTypes /\ PollTypes
  BY TypesAre
<1>2. QuotaTypeOK'
  BY <1>1, ChainStepLeaves, ChainStepMovesBurns DEF QuotaTypeOK
<1>3. QueueTypes'
  BY <1>1, ChainStepLeaves DEF QueueTypes
<1>4. ChainTypes'
  BY <1>1, ChainStepKeepsHeld
<1>5. PollTypes' /\ PollIsOfAJob'
  <2> USE DEF PollTypes, PollIsOfAJob
  <2>1. UNCHANGED tracked
    BY ChainStepLeaves
  <2>2. CASE UNCHANGED <<turn, polled, gestures>>
    BY <1>1, <2>1, <2>2
  <2>3. CASE Tick
    <3>1. Picked \in JobId
      <4>1. Len(wanted) \in Nat \ {0} /\ turn \in Nat
        BY <1>1, <2>3, EmptySeq DEF Tick, ChainTypes
      <4>2. (turn % Len(wanted)) + 1 \in 1..Len(wanted)
        BY <4>1
      <4> QED BY <1>1, <4>2 DEF Picked, ChainTypes
    <3>2. turn' \in Nat
      BY <1>1, <2>3, PageBoundsAssumption DEF Tick
    <3> QED BY <1>1, <2>1, <2>3, <3>1, <3>2, JobsAreFinite DEF Tick, JobId
  <2>4. CASE PollRead
    <3>1. polled.job \in JobId /\ polled.job \in 0..MaxJobs
      BY <1>1, <2>4 DEF PollRead
    <3>2. job[polled.job].status \in {"none", "COMPLETED", "FAILED"} \cup Pending
      BY <1>1, <3>1 DEF QuotaTypeOK
    <3> DEFINE s == job[polled.job].status
    <3>3. polled' = [polled EXCEPT !.status = s] /\ UNCHANGED <<turn, gestures>>
      BY <2>4 DEF PollRead
    <3> HIDE DEF s
    <3>4. s \in {"none", "asked"} \cup {"COMPLETED", "FAILED"} \cup Pending
      BY <3>2 DEF s
    <3>5. polled'.job = polled.job /\ polled' \in [job: 0..MaxJobs, status: {"none", "asked"} \cup {"COMPLETED", "FAILED"} \cup Pending]
      BY <1>1, <3>3, <3>4
    <3> QED BY <1>1, <2>1, <3>1, <3>3, <3>5
  <2>5. CASE polled' = NoPoll /\ UNCHANGED turn /\ gestures' \in {gestures, gestures + 1} /\ gestures' \in 0..MaxGestures
    <3>1. polled' \in [job: 0..MaxJobs, status: {"none", "asked"} \cup {"COMPLETED", "FAILED"} \cup Pending]
          /\ polled'.status = "none"
      BY <2>5, JobsAreFinite DEF NoPoll
    <3> QED BY <1>1, <2>1, <2>5, <3>1
  <2>6. gestures < MaxGestures => gestures + 1 \in 0..MaxGestures
    BY <1>1, PageBoundsAssumption
  <2> QED BY <1>1, <2>2, <2>3, <2>4, <2>5, <2>6 DEF ChainStep, TrackerShows, PollAnswered, PollFails, BurnAnswered, Gesture, chainVars
<1> QED BY <1>2, <1>3, <1>4, <1>5, TypesAreNext

LEMMA GesturesAreBounded == ASSUME gestures \in 0..MaxGestures, Gesture PROVE gestures' \in 0..MaxGestures
BY PageBoundsAssumption DEF Gesture

LEMMA ServerStepKeepsAllTypes ==
    ASSUME TypeOK, LimitsInv, PollIsOfAJob, ServerStep PROVE TypeOK' /\ PollIsOfAJob'
<1>1. QuotaTypeOK'
  BY ServerStepKeepsTypes, TypesAre
<1>2. QueueTypes' /\ ChainTypes' /\ PollTypes' /\ PollIsOfAJob'
  BY TypesAre DEF ServerStep, queueVars, chainVars, QueueTypes, ChainTypes, PollTypes, PollIsOfAJob
<1> QED BY <1>1, <1>2, TypesAreNext

(* plan.js gives an answer for every choice. *)
LEMMA ChainsIsBoolean == ASSUME QueueTypes, NEW k PROVE Chains(k) \in BOOLEAN /\ Known(k) \in BOOLEAN
<1>1. Known(k) \in BOOLEAN
  BY DEF Known
<1> DEFINE x == FactsOf(k)
           a == Known(k) /\ FollowUpFor(Analyze(x), x)
           b == FollowUpFor(choice, x)
           c == choice /= "by hand" /\ ~(Known(k) /\ x.audio) /\ ~Unavailable(choice, x)
<1>2. a \in BOOLEAN /\ b \in BOOLEAN /\ c \in BOOLEAN
  BY Zenon DEF FollowUpFor
<1>3. Chains(k) = CASE choice = "auto" -> a [] choice \in Profiles -> b [] choice \in ByHand -> c
  BY Zenon DEF Chains
<1> HIDE DEF a, b, c
<1>4. Chains(k) \in {a, b, c}
  BY <1>3 DEF QueueTypes, Choice
<1> QED BY <1>1, <1>2, <1>4

(* Whatever the new queue, there is an entry for each of its keys, and the *)
(* one that was there stays.                                               *)
LEMMA TrackingIs ==
    ASSUME QueueTypes, NEW b \in Seq(Item), Tracking(b)
    PROVE  /\ probe' \in [KeysOf(b) -> Entry]
           /\ \A k \in KeysOf(b) : k \in KeysOf(batch) => probe'[k] = probe[k]
           /\ \A i \in DOMAIN b : (\A m \in DOMAIN b : m /= i => b[m].key /= b[i].key) /\ b[i].key \notin KeysOf(batch)
                                 => probe'[b[i].key].file = b[i].file
<1>1. DOMAIN b = 1..Len(b) /\ \A i \in DOMAIN b : b[i].file \in File /\ b[i].key \in KeysOf(b)
  BY ItemsAre DEF KeysOf
<1>2. Range(b) = {b[i] : i \in DOMAIN b}
  BY DEF Range
<1> DEFINE fresh(k) == [file |-> (CHOOSE x \in Range(b) : x.key = k).file, facts |-> "reading"]
           e(k) == IF k \in DOMAIN probe THEN probe[k] ELSE fresh(k)
<1>3. probe' = [k \in KeysOf(b) |-> e(k)] /\ DOMAIN probe = KeysOf(batch)
  BY DEF Tracking, QueueTypes
<1>4. ASSUME NEW k \in KeysOf(b) PROVE fresh(k) \in Entry /\ \E i \in DOMAIN b : b[i].key = k /\ fresh(k).file = b[i].file
  <2>1. \E x \in Range(b) : x.key = k
    BY <1>2 DEF KeysOf
  <2> DEFINE y == CHOOSE x \in Range(b) : x.key = k
  <2>2. y \in Range(b) /\ y.key = k
    BY <2>1
  <2>3. fresh(k) = [file |-> y.file, facts |-> "reading"]
    OBVIOUS
  <2> HIDE DEF y
  <2>4. PICK i \in DOMAIN b : y = b[i]
    BY <1>2, <2>2
  <2>5. y.file \in File
    BY <1>1, <2>4
  <2> QED BY <2>2, <2>3, <2>4, <2>5 DEF Entry, Reading
<1> HIDE DEF fresh
<1>5. ASSUME NEW k \in KeysOf(b) PROVE e(k) \in Entry
  BY <1>3, <1>4 DEF QueueTypes
<1>6. \A k \in KeysOf(b) : probe'[k] = e(k)
  BY <1>3
<1>7. probe' \in [KeysOf(b) -> Entry]
  BY <1>3, <1>5
<1>8. \A k \in KeysOf(b) : k \in KeysOf(batch) => probe'[k] = probe[k]
  BY <1>3, <1>6
<1>9. ASSUME NEW i \in DOMAIN b, \A m \in DOMAIN b : m /= i => b[m].key /= b[i].key, b[i].key \notin KeysOf(batch)
      PROVE  probe'[b[i].key].file = b[i].file
  <2>1. probe'[b[i].key] = fresh(b[i].key)
    BY <1>1, <1>3, <1>6, <1>9
  <2>2. PICK m \in DOMAIN b : b[m].key = b[i].key /\ fresh(b[i].key).file = b[m].file
    BY <1>1, <1>4
  <2> QED BY <1>9, <2>1, <2>2
<1> QED BY <1>7, <1>8, <1>9

LEMMA EnterIs ==
    ASSUME NEW p \in Phases, NEW w \in BOOLEAN, Enter(p, w)
    PROVE  phase' = p /\ waiting' \in BOOLEAN /\ (waiting' => phase' = "error")
<1>1. waiting' = (p = "error" /\ w)
  BY DEF Enter
<1>2. waiting' \in BOOLEAN /\ (waiting' => p = "error")
  BY <1>1, Zenon
<1> QED BY <1>2 DEF Enter

LEMMA RequestStepKeepsTypes ==
    ASSUME TypeOK, HeldInv, PollIsOfAJob, RequestStep PROVE TypeOK' /\ PollIsOfAJob'
<1>1. QuotaTypeOK /\ QueueTypes /\ ChainTypes /\ PollTypes
  BY TypesAre
<1>2. Busy => mine \in Request
  BY <1>1 DEF QueueTypes, Busy
<1>3. ChainTypes' /\ UNCHANGED <<job, burn, bucket, seen, hour, receiving>>
  BY <1>1, <1>2, RequestStepKeepsHeld, RequestStepMoves
<1> DEFINE UpType == [step: UploadSteps, file: File \cup {None}, job: 0..MaxJobs, error: Errors \cup {None}]
<1>4. NoUpload \in UpType
  BY JobsAreFinite DEF NoUpload, UploadSteps
<1>5. ASSUME up' \in [Request -> UpType] PROVE QuotaTypeOK'
  BY <1>1, <1>3, <1>5 DEF QuotaTypeOK
<1>6. ASSUME NEW r \in NextRequest PROVE r \in Request
  BY DEF NextRequest
<1>7. up \in [Request -> UpType]
  BY <1>1 DEF QuotaTypeOK
<1> HIDE DEF UpType
<1>8. CASE Begin
  <2>1. UNCHANGED <<nextKey, probe, restarted, choice, turn, polled, gestures>> /\ beginning' = FALSE
    BY <1>8 DEF Begin
  <2>2. CASE UNCHANGED <<batch, mine, planned, phase, waiting, tracked, up>>
    <3>1. QueueTypes' /\ PollTypes' /\ PollIsOfAJob'
      BY <1>1, <2>1, <2>2 DEF QueueTypes, PollTypes, PollIsOfAJob
    <3> QED BY <1>3, <1>5, <1>7, <2>2, <3>1, TypesAreNext
  <2>3. CASE ~UNCHANGED <<batch, mine, planned, phase, waiting, tracked, up>>
    <3> DEFINE new == [NoUpload EXCEPT !.step = "asked", !.file = Current.file]
    <3>1. HasCurrent /\ ~Busy
      BY <1>8, <2>3 DEF Begin
    <3>2. PICK r \in NextRequest :
            /\ up' = [up EXCEPT ![r] = new]
            /\ mine' = r
            /\ batch' = Marked(Current.file, "uploading")
            /\ planned' = [burn |-> Chains(Current.key), known |-> Known(Current.key),
                           own |-> probe[Current.key].file = Current.file]
            /\ Enter("uploading", FALSE)
            /\ tracked' = 0
      BY <1>8, <2>3 DEF Begin
    <3>3. Current.file \in File
      <4>1. CASE Some({"uploading"})
        BY <1>1, <4>1, FirstIsThere, ItemsAre DEF Current, QueueTypes
      <4>2. CASE ~Some({"uploading"})
        BY <1>1, <3>1, <4>2, CurrentIsTheFirst, ItemsAre DEF QueueTypes
      <4> QED BY <4>1, <4>2
    <3>4. new \in UpType
      <4> DEFINE y == [NoUpload EXCEPT !.step = "asked"]
      <4>1. y \in UpType
        BY <1>4 DEF UpType, UploadSteps
      <4>2. new = [y EXCEPT !.file = Current.file]
        OBVIOUS
      <4> HIDE DEF y
      <4>3. [y EXCEPT !.file = Current.file] \in UpType
        BY <3>3, <4>1 DEF UpType
      <4> QED BY <4>2, <4>3
    <3> HIDE DEF new
    <3>5. up' \in [Request -> UpType]
      BY <1>7, <3>2, <3>4
    <3>6. batch' \in Seq(Item) /\ KeysOf(batch') = KeysOf(batch)
      BY <1>1, <3>2, MarkedChanges DEF QueueTypes, ItemStatus
    <3>7. planned' \in Plan
      <4> DEFINE own == probe[Current.key].file = Current.file
      <4>1. own \in BOOLEAN
        BY Zenon
      <4>2. planned' = [burn |-> Chains(Current.key), known |-> Known(Current.key), own |-> own]
        BY <3>2
      <4> HIDE DEF own
      <4> QED BY <1>1, <4>1, <4>2, ChainsIsBoolean DEF Plan
    <3>8. phase' = "uploading" /\ waiting' \in BOOLEAN
      BY <3>2, EnterIs DEF Phases
    <3>9. QueueTypes'
      BY <1>1, <1>6, <2>1, <3>2, <3>6, <3>7, <3>8 DEF QueueTypes, Phases
    <3>10. PollTypes' /\ PollIsOfAJob'
      BY <1>1, <2>1, <3>2, JobsAreFinite DEF PollTypes, PollIsOfAJob
    <3> QED BY <1>3, <1>5, <3>5, <3>9, <3>10, TypesAreNext
  <2> QED BY <2>2, <2>3
<1>9. CASE Accepted
  <2>1. Busy /\ mine \in Request /\ UNCHANGED <<nextKey, probe, restarted, choice, turn, polled, gestures>>
    BY <1>2, <1>9 DEF Accepted
  <2>2. up' = [up EXCEPT ![mine] = NoUpload]
    BY <1>9 DEF Accepted
  <2>3. up' \in [Request -> UpType]
    BY <1>4, <1>7, <2>2
  <2>4. batch' \in Seq(Item) /\ KeysOf(batch') = KeysOf(batch)
    BY <1>1, <1>9, MarkedChanges DEF Accepted, QueueTypes, ItemStatus
  <2>5. phase' = "queued" /\ waiting' \in BOOLEAN
    BY <1>9, EnterIs DEF Accepted, Phases
  <2>6. beginning' \in BOOLEAN
    <3>1. beginning' = (beginning \/ More(batch'))
      BY <1>9 DEF Accepted
    <3> QED BY <3>1, Zenon
  <2>7. planned' \in Plan /\ mine' = None
    BY <1>9 DEF Accepted, Unplanned, Plan
  <2>8. tracked' \in 0..MaxJobs
    BY <1>1, <1>9, <2>1 DEF Accepted, QuotaTypeOK
  <2>9. QueueTypes'
    BY <1>1, <2>1, <2>4, <2>5, <2>6, <2>7 DEF QueueTypes, Phases
  <2>10. PollTypes' /\ PollIsOfAJob'
    BY <1>1, <2>1, <2>8 DEF PollTypes, PollIsOfAJob
  <2> QED BY <1>3, <1>5, <2>3, <2>9, <2>10, TypesAreNext
<1>10. ASSUME NEW r \in Request, Forgotten(r) PROVE TypeOK' /\ PollIsOfAJob'
  <2>1. up' \in [Request -> UpType]
    BY <1>4, <1>7, <1>10 DEF Forgotten
  <2>2. QueueTypes' /\ PollTypes' /\ PollIsOfAJob'
    BY <1>1, <1>10 DEF KeysOf, Forgotten, queueVars, chainVars, QueueTypes, PollTypes, PollIsOfAJob
  <2> QED BY <1>3, <1>5, <2>1, <2>2, TypesAreNext
<1>11. ASSUME NEW r \in Request, OtherUploads(r) PROVE TypeOK' /\ PollIsOfAJob'
  <2>1. up' \in [Request -> UpType]
    BY <1>7, <1>11 DEF OtherUploads, UpType, UploadSteps
  <2>2. QueueTypes' /\ PollIsOfAJob'
    BY <1>1, <1>11 DEF KeysOf, OtherUploads, queueVars, chainVars, QueueTypes, PollIsOfAJob
  <2>3. PollTypes'
    BY <1>1, <1>11, GesturesAreBounded DEF OtherUploads, chainVars, PollTypes
  <2> QED BY <1>3, <1>5, <2>1, <2>2, <2>3, TypesAreNext
<1> QED BY <1>8, <1>9, <1>10, <1>11 DEF RequestStep
LEMMA PageOnlyKeepsTypes == ASSUME TypeOK, PollIsOfAJob, PageOnly PROVE TypeOK' /\ PollIsOfAJob'
<1>1. QuotaTypeOK /\ QueueTypes /\ ChainTypes /\ PollTypes
  BY TypesAre
<1>2. QuotaTypeOK' /\ ChainTypes' /\ PollIsOfAJob'
  BY <1>1, PageOnlyLeaves DEF QuotaTypeOK, ChainTypes, PollIsOfAJob
<1>3. gestures' \in 0..MaxGestures /\ tracked' \in 0..MaxJobs
  <2>1. Gesture \/ UNCHANGED gestures
    BY DEF PageOnly, Choose, SelectFile, RemoveFile, Facts, StartOver, Start, AnswerLost, CancelUpload, CountdownEnds, Sent,
       UploadRefused, OpenJob
  <2>2. UNCHANGED tracked \/ tracked' = 0 \/ tracked' \in JobId
    BY DEF PageOnly, Choose, SelectFile, RemoveFile, Facts, StartOver, Start, AnswerLost, CancelUpload, CountdownEnds, Sent,
       UploadRefused, OpenJob, Fails, chainVars
  <2> QED BY <1>1, <2>1, <2>2, GesturesAreBounded, JobsAreFinite DEF PollTypes, JobId
<1>4. PollTypes'
  BY <1>1, <1>3, PageOnlyLeaves DEF PollTypes
<1> SUFFICES QueueTypes'
  BY <1>2, <1>4, TypesAreNext
<1>5. ASSUME batch' \in Seq(Item), Tracking(batch') PROVE probe' \in [KeysOf(batch') -> Entry]
  BY <1>1, <1>5, TrackingIs
<1>a. ASSUME UNCHANGED batch PROVE KeysOf(batch') = KeysOf(batch)
  BY <1>a DEF KeysOf
<1>6. ASSUME ~Busy PROVE mine = None /\ phase \in Phases \ {"uploading", "finalizing"}
  BY <1>1, <1>6 DEF QueueTypes, Busy
<1>7. ASSUME NEW c \in Offered, Choose(c) PROVE QueueTypes'
  BY <1>1, <1>7, <1>a, OfferedAssumption DEF Choose, QueueTypes
<1>8. ASSUME NEW f \in File, SelectFile(f) PROVE QueueTypes'
  <2>1. batch' \in Seq(Item) /\ nextKey' \in Nat
    <3> DEFINE key == IF HasCurrent THEN nextKey ELSE 1
               x == [key |-> key, file |-> f, status |-> "pending"]
               b == IF HasCurrent THEN batch ELSE <<>>
    <3>1. key \in Nat /\ x \in Item
      BY <1>1 DEF QueueTypes, Item, ItemStatus
    <3>2. b \in Seq(Item)
      BY <1>1, EmptySeq DEF QueueTypes
    <3>3. batch' = Append(b, x) /\ nextKey' = key + 1
      BY <1>8 DEF SelectFile
    <3> HIDE DEF x, b, key
    <3> QED BY <3>1, <3>2, <3>3, AppendProperties
  <2>2. probe' \in [KeysOf(batch') -> Entry] /\ ~Busy /\ restarted' \in BOOLEAN
    <3>1. Tracking(batch') /\ ~Busy
      BY <1>8 DEF SelectFile, Locked
    <3>2. (batch /= <<>>) \in BOOLEAN
      OBVIOUS
    <3>3. restarted' \in BOOLEAN
      BY <1>1, <1>8, <3>2 DEF SelectFile, QueueTypes
    <3> QED BY <1>5, <2>1, <3>1, <3>3
  <2>3. phase' \in Phases \ {"uploading", "finalizing"} /\ waiting' \in BOOLEAN
    BY <1>1, <1>6, <1>8, <2>2, EnterIs DEF SelectFile, Phases, QueueTypes
  <2> QED BY <1>1, <1>6, <1>8, <2>1, <2>2, <2>3 DEF SelectFile, QueueTypes
<1>9. ASSUME NEW f \in File, RemoveFile(f) PROVE QueueTypes'
  <2>1. batch' \in Seq(Item)
    BY <1>1, <1>9, WithoutIsShorter DEF RemoveFile, QueueTypes
  <2>2. probe' \in [KeysOf(batch') -> Entry] /\ ~Busy
    BY <1>5, <1>9, <2>1 DEF RemoveFile, Locked
  <2>3. phase' \in Phases \ {"uploading", "finalizing"} /\ waiting' \in BOOLEAN
    BY <1>1, <1>6, <1>9, <2>2, EnterIs DEF RemoveFile, Phases, QueueTypes
  <2> QED BY <1>1, <1>6, <1>9, <2>1, <2>2, <2>3 DEF RemoveFile, QueueTypes
<1>10. ASSUME NEW k \in DOMAIN probe, Facts(k) PROVE QueueTypes'
  <2>1. \A x \in Entry, t \in {"read", "unread"} : [x EXCEPT !.facts = t] \in Entry
    BY DEF Entry, Reading
  <2>2. PICK t \in {"read", "unread"} : probe' = [probe EXCEPT ![k] = [probe[k] EXCEPT !.facts = t]]
    BY <1>10 DEF Facts
  <2>3. probe' \in [KeysOf(batch) -> Entry]
    BY <1>1, <1>10, <2>1, <2>2 DEF QueueTypes
  <2> QED BY <1>1, <1>10, <1>a, <2>3 DEF Facts, QueueTypes
<1>11. CASE StartOver
  <2>1. probe' \in [KeysOf(batch') -> Entry] /\ ~Busy /\ nextKey' \in Nat
    <3>1. batch' = <<>> /\ Tracking(<<>>) /\ ~Busy /\ nextKey' = 1
      BY <1>11 DEF StartOver, Busy
    <3>2. batch' \in Seq(Item) /\ Tracking(batch')
      BY <3>1, EmptySeq
    <3> QED BY <1>5, <3>1, <3>2
  <2>2. phase' = "idle" /\ waiting' \in BOOLEAN
    BY <1>11, EnterIs DEF StartOver, Phases
  <2>3. choice' \in Choice /\ batch' \in Seq(Item)
    BY <1>1, <1>11, EmptySeq DEF StartOver, QueueTypes, Choice
  <2> QED BY <1>1, <1>6, <1>11, <2>1, <2>2, <2>3 DEF StartOver, QueueTypes, Phases
<1>12. CASE Start
  BY <1>1, <1>12, <1>a DEF Start, QueueTypes
<1>13. ASSUME NEW s \in {"error", "cancelled"}, NEW w \in BOOLEAN, Fails(s), Enter(s, w) PROVE QueueTypes'
  <2>1. batch' \in Seq(Item) /\ KeysOf(batch') = KeysOf(batch)
    BY <1>1, <1>13, MarkedChanges DEF Fails, QueueTypes, ItemStatus
  <2>2. phase' = s /\ waiting' \in BOOLEAN
    BY <1>13, EnterIs DEF Phases
  <2> QED BY <1>1, <1>13, <2>1, <2>2 DEF Fails, QueueTypes, Phases, Unplanned, Plan
<1>14. CASE AnswerLost \/ CancelUpload
  BY <1>13, <1>14 DEF AnswerLost, CancelUpload
<1>15. CASE UploadRefused
  <2>1. (up[mine].error \in {"rate_limited", "busy"}) \in BOOLEAN
    OBVIOUS
  <2> QED BY <1>13, <1>15, <2>1 DEF UploadRefused
<1>16. CASE CountdownEnds
  BY <1>1, <1>16, <1>a DEF CountdownEnds, QueueTypes
<1>17. CASE Sent
  <2>1. phase' = "finalizing" /\ waiting' \in BOOLEAN
    BY <1>17, EnterIs DEF Sent, Phases
  <2> QED BY <1>1, <1>17, <1>a, <2>1 DEF Sent, QueueTypes, Phases
<1>18. ASSUME NEW j \in JobId, OpenJob(j) PROVE QueueTypes'
  <2>1. phase' = "idle" /\ waiting' \in BOOLEAN /\ ~Busy
    BY <1>18, EnterIs DEF OpenJob, Phases
  <2> QED BY <1>1, <1>6, <1>18, <1>a, <2>1 DEF OpenJob, QueueTypes, Phases
<1> QED BY <1>7, <1>8, <1>9, <1>10, <1>11, <1>12, <1>14, <1>15, <1>16, <1>17, <1>18 DEF PageOnly

-----------------------------------------------------------------------------
(* The queue of files. *)

QueueInv ==
    /\ FilesAreKnown /\ LaterIsPending /\ OneIsUploading /\ PlannedWithFacts /\ QueueGoesOn
    /\ waiting => phase = "error"

(* One file changes its status, from one that is not done to one that is   *)
(* not pending, and only done may have others of its kind before it.       *)
LEMMA QueueIsMarked ==
    ASSUME batch \in Seq(Item), FilesAreKnown, LaterIsPending, UNCHANGED <<nextKey, probe, restarted>>,
           NEW c \in DOMAIN batch, batch[c].status /= "done", \A k \in 1..(c - 1) : batch[k].status = "done",
           NEW s \in ItemStatus, batch' = Marked(batch[c].file, s)
    PROVE  /\ FilesAreKnown' /\ LaterIsPending'
           /\ DOMAIN batch' = DOMAIN batch /\ batch'[c].status = s /\ batch'[c].file = batch[c].file
           /\ \A i \in DOMAIN batch : i < c => batch'[i].status = "done"
           /\ \A i \in DOMAIN batch : i > c => batch'[i].status = "pending"
<1>1. /\ DOMAIN batch' = DOMAIN batch
      /\ \A i \in DOMAIN batch : /\ batch'[i].file = batch[i].file /\ batch'[i].key = batch[i].key
                                 /\ batch'[i].status = IF batch[i].file = batch[c].file THEN s ELSE batch[i].status
  BY MarkedChanges
<1>2. \A i \in DOMAIN batch : batch'[i].status = IF i = c THEN s ELSE batch[i].status
  BY <1>1 DEF FilesAreKnown
<1>3. DOMAIN batch = 1..Len(batch) /\ Len(batch) \in Nat
  BY ItemsAre
<1>4. \A i \in DOMAIN batch : i < c => batch'[i].status = "done"
  BY <1>2, <1>3
<1>5. \A i \in DOMAIN batch : i > c => batch'[i].status = "pending"
  BY <1>2, <1>3 DEF LaterIsPending
<1>6. FilesAreKnown'
  BY <1>1 DEF FilesAreKnown
<1>7. LaterIsPending'
  <2> SUFFICES ASSUME NEW i \in DOMAIN batch, NEW k \in DOMAIN batch, i < k, batch'[i].status /= "done"
               PROVE  batch'[k].status = "pending"
    BY <1>1 DEF LaterIsPending
  <2>1. ~(i < c)
    BY <1>4
  <2> QED BY <1>3, <1>5, <2>1
<1> QED BY <1>1, <1>2, <1>4, <1>5, <1>6, <1>7

(* Before the file under way everything is done. *)
LEMMA UploadingComesFirst ==
    ASSUME batch \in Seq(Item), LaterIsPending, OneIsUploading, Busy
    PROVE  \E c \in DOMAIN batch : /\ batch[c].status = "uploading" /\ batch[c].file = up[mine].file
                                   /\ \A k \in 1..(c - 1) : batch[k].status = "done"
<1>1. PICK c \in DOMAIN batch : batch[c].status = "uploading" /\ batch[c].file = up[mine].file
  BY DEF OneIsUploading
<1>2. \A k \in 1..(c - 1) : k \in DOMAIN batch /\ k < c
  BY ItemsAre
<1> QED BY <1>1, <1>2 DEF LaterIsPending

(* The upload under way ends: the page has none any more. *)
LEMMA UploadEnds ==
    ASSUME batch \in Seq(Item), QueueInv, Busy, UNCHANGED <<nextKey, probe, restarted>>,
           NEW s \in {"done", "error", "cancelled"},
           batch' = Marked(up[mine].file, s), phase' \notin {"uploading", "finalizing"}, waiting' => phase' = "error",
           phase' = "queued" => s = "done" /\ (More(batch') => beginning')
    PROVE  QueueInv'
<1> USE DEF QueueInv
<1>1. PICK c \in DOMAIN batch : /\ batch[c].status = "uploading" /\ batch[c].file = up[mine].file
                                /\ \A k \in 1..(c - 1) : batch[k].status = "done"
  BY UploadingComesFirst
<1>2. /\ FilesAreKnown' /\ LaterIsPending'
      /\ DOMAIN batch' = DOMAIN batch /\ batch'[c].status = s
      /\ \A i \in DOMAIN batch : i < c => batch'[i].status = "done"
      /\ \A i \in DOMAIN batch : i > c => batch'[i].status = "pending"
  BY <1>1, QueueIsMarked DEF ItemStatus
<1>3. DOMAIN batch = 1..Len(batch) /\ Len(batch) \in Nat
  BY ItemsAre
<1>4. \A i \in DOMAIN batch' : i = c \/ batch'[i].status \in {"done", "pending"}
  BY <1>2, <1>3
<1>5. ~Busy'
  BY DEF Busy
<1>6. OneIsUploading' /\ PlannedWithFacts'
  BY <1>2, <1>4, <1>5 DEF OneIsUploading, PlannedWithFacts
<1>7. QueueGoesOn'
  BY <1>2, <1>4 DEF QueueGoesOn, HasCurrent, Some, Open, More
<1> QED BY <1>2, <1>6, <1>7

(* Nobody touches the queue, and who is busy stays so. *)
LEMMA QueueKept ==
    ASSUME QueueInv, UNCHANGED <<batch, nextKey, restarted, phase, mine, planned, waiting>>,
           \A k \in KeysOf(batch) : probe'[k].file = probe[k].file,
           beginning => beginning',
           Busy => /\ up'[mine].file = up[mine].file
                   /\ up[mine].step /= "idle" => up'[mine].step /= "idle"
    PROVE  QueueInv'
<1>1. FilesAreKnown'
  BY DEF QueueInv, FilesAreKnown, KeysOf
<1>2. LaterIsPending' /\ PlannedWithFacts' /\ QueueGoesOn' /\ (waiting' => phase' = "error")
  BY DEF QueueInv, LaterIsPending, PlannedWithFacts, QueueGoesOn, HasCurrent, Some, Busy
<1>3. OneIsUploading'
  BY DEF QueueInv, OneIsUploading, Busy
<1> QED BY <1>1, <1>2, <1>3 DEF QueueInv
LEMMA ChainStepKeepsQueue == ASSUME QueueInv, ChainStep PROVE QueueInv'
BY ChainStepLeaves, QueueKept

LEMMA ServerStepKeepsQueue == ASSUME TypeOK, QueueInv, ServerStep PROVE QueueInv'
<1>1. up \in [Request -> [step: UploadSteps, file: File \cup {None}, job: 0..MaxJobs, error: Errors \cup {None}]]
  BY DEF TypeOK, QuotaTypeOK
<1>2. UNCHANGED <<batch, nextKey, restarted, phase, mine, planned, waiting, probe, beginning>>
  BY DEF ServerStep, queueVars
<1>3. ASSUME NEW q \in Request
      PROVE  up'[q].file = up[q].file /\ (up[q].step /= "idle" => up'[q].step /= "idle")
  <2>1. CASE UNCHANGED up
    BY <2>1
  <2>2. ASSUME NEW r \in Request, UploadStep(r)
        PROVE  up'[q].file = up[q].file /\ (up[q].step /= "idle" => up'[q].step /= "idle")
    BY <1>1, <2>2 DEF UploadStep, CheckQueue, ConsumeUpload, RedisFails, TakeSlot, CreateTranscription, UploadFails, Refused
  <2>3. ASSUME NEW j \in JobId, BurnStep(j) \/ JobEnds(j) PROVE UNCHANGED up
    BY <2>3 DEF BurnStep, CheckBurn, CreateBurn, JobEnds
  <2>4. HourStarts => UNCHANGED up
    BY DEF HourStarts
  <2> QED BY <2>1, <2>2, <2>3, <2>4 DEF ServerStep, Server
<1>4. Busy => mine \in Request
  BY DEF TypeOK, Busy
<1> QED BY <1>2, <1>3, <1>4, QueueKept

LEMMA RequestStepKeepsQueue == ASSUME TypeOK, QueueInv, RequestStep PROVE QueueInv'
<1> USE DEF QueueInv
<1>1. QuotaTypeOK /\ QueueTypes
  BY TypesAre
<1>2. batch \in Seq(Item) /\ (Busy => mine \in Request)
  BY <1>1 DEF QueueTypes, Busy
<1>3. ASSUME NEW r \in NextRequest PROVE r \in Request /\ up[r].step = "idle"
  BY DEF NextRequest
<1>4. CASE Begin
  <2>1. UNCHANGED <<nextKey, probe, restarted>> /\ Settled
    BY <1>4 DEF Begin
  <2>2. CASE ~(HasCurrent /\ ~Busy /\ ~waiting)
    <3>1. UNCHANGED <<batch, mine, planned, phase, waiting, tracked, up>>
      BY <1>4, <2>2 DEF Begin
    <3>2. QueueGoesOn'
      BY <2>2, <3>1 DEF QueueGoesOn, HasCurrent, Some, Busy
    <3> QED BY <2>1, <3>1, <3>2 DEF FilesAreKnown, LaterIsPending, OneIsUploading, PlannedWithFacts, Busy
  <2>3. CASE HasCurrent /\ ~Busy /\ ~waiting
    <3>1. PICK r \in NextRequest :
            /\ up' = [up EXCEPT ![r] = [NoUpload EXCEPT !.step = "asked", !.file = Current.file]]
            /\ mine' = r
            /\ batch' = Marked(Current.file, "uploading")
            /\ planned' = [burn |-> Chains(Current.key), known |-> Known(Current.key),
                           own |-> probe[Current.key].file = Current.file]
            /\ Enter("uploading", FALSE)
      BY <1>4, <2>3 DEF Begin
    <3>2. ~Some({"uploading"})
      BY <2>3 DEF OneIsUploading, Some
    <3>3. PICK c \in DOMAIN batch : /\ Current = batch[c] /\ batch[c].status \in Open
                                    /\ \A k \in 1..(c - 1) : batch[k].status = "done"
      BY <1>2, <2>3, <3>2, CurrentIsTheFirst
    <3>4. batch[c].status /= "done" /\ batch' = Marked(batch[c].file, "uploading")
      BY <3>1, <3>3 DEF Open
    <3>5. /\ FilesAreKnown' /\ LaterIsPending'
          /\ DOMAIN batch' = DOMAIN batch /\ batch'[c].status = "uploading" /\ batch'[c].file = batch[c].file
          /\ \A i \in DOMAIN batch : i < c => batch'[i].status = "done"
          /\ \A i \in DOMAIN batch : i > c => batch'[i].status = "pending"
      BY <1>2, <2>1, <3>3, <3>4, QueueIsMarked DEF ItemStatus
    <3>6. DOMAIN batch = 1..Len(batch) /\ Len(batch) \in Nat /\ batch[c].file \in File
      BY <1>2, ItemsAre
    <3>7. phase' = "uploading" /\ (waiting' => phase' = "error")
      BY <3>1, EnterIs DEF Phases
    <3>8. up'[mine'].file = batch[c].file /\ up'[mine'].step = "asked"
      <4> DEFINE y == [NoUpload EXCEPT !.step = "asked"]
      <4>1. y.step = "asked" /\ y \in [step: {"asked"}, file: {None}, job: {0}, error: {None}]
        BY DEF NoUpload
      <4>2. up' = [up EXCEPT ![r] = [y EXCEPT !.file = Current.file]]
        BY <3>1
      <4> HIDE DEF y
      <4> DEFINE z == [y EXCEPT !.file = Current.file]
      <4>3. z.step = "asked" /\ z.file = Current.file
        BY <4>1
      <4> HIDE DEF z
      <4>4. up'[r] = z
        BY <1>1, <1>3, <4>2 DEF QuotaTypeOK, z
      <4> QED BY <3>1, <3>3, <4>3, <4>4
    <3>9. OneIsUploading'
      <4>1. \A i \in DOMAIN batch' : batch'[i].status = "uploading" => i = c
        BY <3>5, <3>6
      <4> QED BY <3>5, <3>7, <3>8, <4>1 DEF OneIsUploading, Busy
    <3>10. planned'.known /\ (planned'.own \/ restarted')
      <4>1. Current.key \in DOMAIN probe
        BY <1>1, <3>3 DEF QueueTypes, KeysOf
      <4>2. Known(Current.key)
        BY <2>1, <4>1 DEF Settled
      <4>3. restarted \/ probe[Current.key].file = Current.file
        BY <3>3 DEF FilesAreKnown
      <4> QED BY <2>1, <3>1, <4>2, <4>3
    <3> QED BY <3>5, <3>7, <3>9, <3>10 DEF PlannedWithFacts, QueueGoesOn
  <2> QED BY <2>2, <2>3
<1>5. CASE Accepted
  <2>1. /\ Busy /\ batch' = Marked(up[mine].file, "done") /\ UNCHANGED <<nextKey, probe, restarted>>
        /\ beginning' = (beginning \/ More(batch'))
    BY <1>5 DEF Accepted
  <2>2. phase' = "queued" /\ (waiting' => phase' = "error")
    BY <1>5, EnterIs DEF Accepted, Phases
  <2>3. More(batch') => beginning'
    BY <2>1
  <2> QED BY <1>2, <2>1, <2>2, <2>3, UploadEnds
<1>6. ASSUME NEW r \in Request, Forgotten(r) \/ OtherUploads(r) PROVE QueueInv'
  <2>1. UNCHANGED <<batch, nextKey, restarted, phase, mine, planned, waiting, probe, beginning>>
    BY <1>6 DEF Forgotten, OtherUploads, queueVars
  <2>2. ASSUME Busy
        PROVE  up'[mine].file = up[mine].file /\ (up[mine].step /= "idle" => up'[mine].step /= "idle")
    BY <1>1, <1>2, <1>3, <1>6, <2>2 DEF Forgotten, OtherUploads, QuotaTypeOK
  <2> QED BY <2>1, <2>2, QueueKept
<1> QED BY <1>4, <1>5, <1>6 DEF RequestStep

LEMMA PageOnlyKeepsQueue == ASSUME TypeOK, QueueInv, PageOnly PROVE QueueInv'
<1> USE DEF QueueInv
<1>1. QueueTypes /\ batch \in Seq(Item) /\ UNCHANGED up
  BY TypesAre, PageOnlyLeaves DEF QueueTypes
<1>2. DOMAIN batch = 1..Len(batch) /\ Len(batch) \in Nat /\ \A i \in DOMAIN batch : batch[i].file \in File
  BY <1>1, ItemsAre
<1>3. \A i \in DOMAIN batch : batch[i].key \in KeysOf(batch)
  BY DEF KeysOf
<1>4. CASE \/ \E c \in Offered : Choose(c)
           \/ \E k \in DOMAIN probe : Facts(k)
           \/ Start
  <2>1. UNCHANGED <<batch, nextKey, restarted, phase, mine, planned, waiting>> /\ (beginning => beginning')
    BY <1>4 DEF Choose, Facts, Start
  <2>2. \A k \in KeysOf(batch) : probe'[k].file = probe[k].file
    <3>1. CASE UNCHANGED probe
      BY <3>1
    <3>2. ASSUME NEW k \in DOMAIN probe, Facts(k) PROVE \A q \in KeysOf(batch) : probe'[q].file = probe[q].file
      <4>1. \A x \in Entry, t \in {"read", "unread"} : [x EXCEPT !.facts = t].file = x.file
        BY DEF Entry, Reading
      <4>2. PICK t \in {"read", "unread"} : probe' = [probe EXCEPT ![k] = [probe[k] EXCEPT !.facts = t]]
        BY <3>2 DEF Facts
      <4> QED BY <1>1, <3>2, <4>1, <4>2 DEF QueueTypes
    <3> QED BY <1>4, <3>1, <3>2 DEF Choose, Start
  <2> QED BY <1>1, <2>1, <2>2, QueueKept
<1>5. CASE CountdownEnds
  BY <1>1, <1>5 DEF CountdownEnds, FilesAreKnown, LaterIsPending, OneIsUploading, PlannedWithFacts, QueueGoesOn, HasCurrent,
     Some, Busy
<1>6. CASE Sent
  <2>1. phase = "uploading" /\ UNCHANGED <<batch, nextKey, probe, restarted, beginning, mine, planned>>
    BY <1>6 DEF Sent
  <2>2. phase' = "finalizing" /\ (waiting' => phase' = "error")
    BY <1>6, EnterIs DEF Sent, Phases
  <2> QED BY <1>1, <2>1, <2>2 DEF FilesAreKnown, LaterIsPending, OneIsUploading, PlannedWithFacts, QueueGoesOn, Busy
<1>7. CASE \E j \in JobId : OpenJob(j)
  <2>1. UNCHANGED <<batch, nextKey, probe, restarted, beginning, mine, planned>> /\ ~Busy
    BY <1>7 DEF OpenJob
  <2>2. phase' = "idle" /\ (waiting' => phase' = "error")
    BY <1>7, EnterIs DEF OpenJob, Phases
  <2> QED BY <2>1, <2>2 DEF FilesAreKnown, LaterIsPending, OneIsUploading, PlannedWithFacts, QueueGoesOn, Busy
<1>8. ASSUME NEW s \in {"error", "cancelled"}, NEW w \in BOOLEAN, Busy, Fails(s), Enter(s, w) PROVE QueueInv'
  <2>1. phase' = s /\ (waiting' => phase' = "error")
    BY <1>8, EnterIs DEF Phases
  <2>2. batch' = Marked(up[mine].file, s) /\ UNCHANGED <<nextKey, probe, restarted>>
    BY <1>8 DEF Fails
  <2> QED BY <1>1, <1>8, <2>1, <2>2, UploadEnds
<1>9. CASE AnswerLost \/ CancelUpload
  BY <1>8, <1>9 DEF AnswerLost, CancelUpload, Busy
<1>10. CASE UploadRefused
  <2>1. (up[mine].error \in {"rate_limited", "busy"}) \in BOOLEAN
    OBVIOUS
  <2> QED BY <1>8, <1>10, <2>1 DEF UploadRefused
<1>11. CASE StartOver
  <2>1. batch' = <<>> /\ ~Busy
    BY <1>11 DEF StartOver, Busy
  <2>2. phase' = "idle" /\ (waiting' => phase' = "error")
    BY <1>11, EnterIs DEF StartOver, Phases
  <2>3. DOMAIN batch' = {}
    BY <2>1
  <2> QED BY <2>2, <2>3 DEF FilesAreKnown, LaterIsPending, OneIsUploading, PlannedWithFacts, QueueGoesOn, Busy
<1>12. ASSUME NEW f \in File, SelectFile(f) PROVE QueueInv'
  <2>1. ~Busy /\ phase /= "queued" /\ (HasCurrent => f \notin Files(batch)) /\ Tracking(batch')
    BY <1>12 DEF SelectFile, Locked
  <2>2. phase' /= "queued" /\ ~Busy' /\ (waiting' => phase' = "error")
    BY <1>12, <2>1, EnterIs DEF SelectFile, Phases, Busy
  <2> DEFINE b == IF HasCurrent THEN batch ELSE <<>>
             key == IF HasCurrent THEN nextKey ELSE 1
             x == [key |-> key, file |-> f, status |-> "pending"]
  <2>3. b \in Seq(Item) /\ batch' = Append(b, x) /\ nextKey' = key + 1
    BY <1>1, <1>12, EmptySeq DEF SelectFile
  <2>4. \A i \in DOMAIN b : /\ HasCurrent /\ b[i].file /= f /\ i \in DOMAIN batch /\ b[i] = batch[i]
                            /\ batch[i].status /= "uploading"
    BY <2>1 DEF Files, OneIsUploading
  <2>5. x \in Item /\ x.file = f /\ x.key = key /\ x.status = "pending" /\ key \in Nat
    BY <1>1 DEF Item, ItemStatus, QueueTypes
  <2>6. b = <<>> \/ HasCurrent
    OBVIOUS
  <2>k. IF HasCurrent THEN key = nextKey ELSE key = 1
    OBVIOUS
  <2>r. IF HasCurrent THEN restarted' = restarted ELSE restarted' = (batch /= <<>>)
    BY <1>12 DEF SelectFile
  <2> HIDE DEF b, key, x
  <2>7. /\ DOMAIN b = 1..Len(b) /\ Len(b) \in Nat
        /\ batch' \in Seq(Item) /\ DOMAIN batch' = 1..(Len(b) + 1)
        /\ batch'[Len(b) + 1] = x
        /\ \A i \in 1..Len(b) : batch'[i] = b[i]
    <3>1. /\ Append(b, x) \in Seq(Item) /\ Len(Append(b, x)) = Len(b) + 1
          /\ Append(b, x)[Len(b) + 1] = x /\ \A i \in 1..Len(b) : Append(b, x)[i] = b[i]
      BY <2>3, <2>5, AppendProperties
    <3>2. DOMAIN Append(b, x) = 1..(Len(b) + 1)
      BY <3>1
    <3>3. DOMAIN b = 1..Len(b) /\ Len(b) \in Nat
      BY <2>3, ItemsAre
    <3> QED BY <2>3, <3>1, <3>2, <3>3
  <2>8. \A i \in DOMAIN batch' : \/ /\ i = Len(b) + 1 /\ batch'[i].file = f /\ batch'[i].key = key
                                    /\ batch'[i].status = "pending"
                                 \/ /\ i \in DOMAIN batch /\ i \in DOMAIN b /\ batch'[i] = batch[i] /\ HasCurrent
                                    /\ batch[i].file /= f
    BY <2>4, <2>5, <2>7
  <2>9. FilesAreKnown'
    <3>1. \A i \in DOMAIN batch : batch[i].key \in Nat /\ batch[i].key < nextKey /\ nextKey \in Nat
      BY <1>1, ItemsAre DEF FilesAreKnown, QueueTypes
    <3>2. \A i \in DOMAIN batch' : batch'[i].key < nextKey'
      <4> SUFFICES ASSUME NEW i \in DOMAIN batch' PROVE batch'[i].key < nextKey'
        OBVIOUS
      <4>1. CASE batch'[i].key = key
        BY <2>3, <2>5, <4>1
      <4>2. CASE i \in DOMAIN batch /\ batch'[i] = batch[i] /\ HasCurrent
        BY <2>3, <2>k, <3>1, <4>2
      <4> QED BY <2>8, <4>1, <4>2
    <3>3. \A i, k \in DOMAIN batch' : i /= k => batch'[i].file /= batch'[k].file /\ batch'[i].key /= batch'[k].key
      <4> SUFFICES ASSUME NEW i \in DOMAIN batch', NEW k \in DOMAIN batch', i /= k
                   PROVE  batch'[i].file /= batch'[k].file /\ batch'[i].key /= batch'[k].key
        OBVIOUS
      <4> DEFINE Was(n) == n \in DOMAIN batch /\ batch'[n] = batch[n] /\ HasCurrent /\ batch[n].file /= f
                 New(n) == n = Len(b) + 1 /\ batch'[n].file = f /\ batch'[n].key = key
      <4>1. (Was(i) \/ New(i)) /\ (Was(k) \/ New(k))
        BY <2>8
      <4>2. CASE Was(i) /\ Was(k)
        BY <4>2 DEF FilesAreKnown
      <4>3. \A n \in DOMAIN batch : HasCurrent => batch[n].key /= key
        BY <2>k, <3>1
      <4>4. CASE (Was(i) /\ New(k)) \/ (New(i) /\ Was(k))
        BY <4>3, <4>4
      <4> QED BY <4>1, <4>2, <4>4
    <3>4. ASSUME ~restarted' PROVE \A i \in DOMAIN batch' : probe'[batch'[i].key].file = batch'[i].file
      <4>1. QueueTypes /\ batch' \in Seq(Item) /\ Tracking(batch')
        BY <1>1, <2>1, <2>7
      <4>2. /\ \A q \in KeysOf(batch') : q \in KeysOf(batch) => probe'[q] = probe[q]
            /\ \A i \in DOMAIN batch' :
                  (\A m \in DOMAIN batch' : m /= i => batch'[m].key /= batch'[i].key) /\ batch'[i].key \notin KeysOf(batch)
                  => probe'[batch'[i].key].file = batch'[i].file
        BY <4>1, TrackingIs
      <4>3. \A i \in DOMAIN batch' : batch'[i].key \in KeysOf(batch')
        BY DEF KeysOf
      <4> SUFFICES ASSUME NEW i \in DOMAIN batch' PROVE probe'[batch'[i].key].file = batch'[i].file
        OBVIOUS
      <4>4. CASE i \in DOMAIN batch /\ batch'[i] = batch[i] /\ HasCurrent
        <5>1. probe[batch[i].key].file = batch[i].file
          BY <2>r, <3>4, <4>4 DEF FilesAreKnown
        <5> QED BY <1>3, <4>2, <4>3, <4>4, <5>1
      <4>5. CASE batch'[i].key = key /\ batch'[i].file = f
        <5>1. key \notin KeysOf(batch)
          <6>1. CASE HasCurrent
            <7>1. \A n \in DOMAIN batch : batch[n].key /= key
              BY <2>k, <3>1, <6>1
            <7> QED BY <7>1 DEF KeysOf
          <6>2. CASE ~HasCurrent
            <7>1. batch = <<>>
              BY <2>r, <3>4, <6>2
            <7> QED BY <7>1 DEF KeysOf
          <6> QED BY <6>1, <6>2
        <5> QED BY <3>3, <4>2, <4>5, <5>1
      <4> QED BY <2>8, <4>4, <4>5
    <3> QED BY <3>2, <3>3, <3>4 DEF FilesAreKnown
  <2>10. LaterIsPending'
    BY <2>7, <2>8 DEF LaterIsPending
  <2>11. OneIsUploading' /\ PlannedWithFacts' /\ QueueGoesOn'
    BY <2>2, <2>4, <2>8 DEF OneIsUploading, PlannedWithFacts, QueueGoesOn
  <2> QED BY <2>2, <2>9, <2>10, <2>11
<1>13. ASSUME NEW f \in File, RemoveFile(f) PROVE QueueInv'
  <2>1. ~Busy /\ phase /= "queued" /\ batch' = Without(f) /\ Tracking(batch')
    BY <1>13 DEF RemoveFile, Locked
  <2>2. phase' /= "queued" /\ ~Busy' /\ (waiting' => phase' = "error")
    BY <1>13, <2>1, EnterIs DEF RemoveFile, Phases, Busy
  <2>3. \E i \in DOMAIN batch : batch[i].file = f
    BY <1>13 DEF RemoveFile
  <2>4. PICK k \in DOMAIN batch : /\ DOMAIN Without(f) = 1..(Len(batch) - 1)
                                  /\ \A i \in 1..(Len(batch) - 1) : Without(f)[i] = batch[IF i < k THEN i ELSE i + 1]
    BY <1>1, <2>3, WithoutIsShorter
  <2> DEFINE old(i) == IF i < k THEN i ELSE i + 1
  <2>5. \A i \in DOMAIN batch' : old(i) \in DOMAIN batch /\ batch'[i] = batch[old(i)]
    BY <1>2, <2>1, <2>4
  <2>6. \A i, m \in DOMAIN batch' : (i /= m => old(i) /= old(m)) /\ (i < m => old(i) < old(m))
    BY <1>2, <2>1, <2>4
  <2> HIDE DEF old
  <2>7. UNCHANGED <<nextKey, restarted>> /\ batch' \in Seq(Item)
    BY <1>1, <1>13, <2>1, <2>3, WithoutIsShorter DEF RemoveFile
  <2>8. FilesAreKnown'
    <3>1. \A i \in DOMAIN batch' : batch'[i].key \in KeysOf(batch') /\ batch'[i].key \in KeysOf(batch)
      BY <1>3, <2>5 DEF KeysOf
    <3>2. \A q \in KeysOf(batch') : q \in KeysOf(batch) => probe'[q] = probe[q]
      BY <1>1, <2>1, <2>7, TrackingIs
    <3>3. \A i \in DOMAIN batch' : probe'[batch'[i].key] = probe[batch[old(i)].key]
      BY <2>5, <3>1, <3>2
    <3> QED BY <2>5, <2>6, <2>7, <3>3 DEF FilesAreKnown
  <2>9. LaterIsPending'
    BY <2>5, <2>6 DEF LaterIsPending
  <2>10. OneIsUploading' /\ PlannedWithFacts' /\ QueueGoesOn'
    BY <2>1, <2>2, <2>5 DEF OneIsUploading, PlannedWithFacts, QueueGoesOn
  <2> QED BY <2>2, <2>8, <2>9, <2>10
<1> QED BY <1>4, <1>5, <1>6, <1>7, <1>9, <1>10, <1>11, <1>12, <1>13 DEF PageOnly

-----------------------------------------------------------------------------
(* All together. *)

LEMMA PageInvIs == PageInv <=> TypeOK /\ LimitsInv /\ HeldInv /\ PollIsOfAJob /\ QueueInv
BY DEF PageInv, LimitsInv, HeldInv, QueueInv

LEMMA PageInvIsNext == PageInv' <=> TypeOK' /\ LimitsInv' /\ HeldInv' /\ PollIsOfAJob' /\ QueueInv'
BY DEF PageInv, LimitsInv, HeldInv, QueueInv

LEMMA PageStarts == Init => PageInv
<1> SUFFICES ASSUME Init PROVE PageInv
  OBVIOUS
<1> USE DEF Init, QuotaInit
<1>1. QuotaTypeOK
  BY JobsAreFinite DEF QuotaTypeOK, NoJob, NoUpload, UploadSteps, BurnSteps
<1>2. /\ DOMAIN batch = DOMAIN Chosen /\ DOMAIN Chosen = 1..Len(Chosen) /\ Len(Chosen) \in Nat
      /\ \A i \in DOMAIN Chosen : batch[i].key = i /\ batch[i].file = Chosen[i] /\ batch[i].status = "pending"
  BY ChosenAssumption
<1>3. batch \in Seq(Item)
  <2>1. batch \in [1..Len(Chosen) -> Item] /\ Len(Chosen) \in Nat
    BY ChosenAssumption DEF Item, ItemStatus
  <2> QED BY <2>1, IsASeq
<1>4. QueueTypes
  <2>1. KeysOf(batch) = DOMAIN Chosen
    BY <1>2 DEF KeysOf
  <2>2. probe \in [KeysOf(batch) -> Entry] /\ nextKey \in Nat
    <3> DEFINE e(i) == [file |-> Chosen[i], facts |-> "reading"]
    <3>1. \A i \in DOMAIN Chosen : e(i) \in Entry
      BY ChosenAssumption DEF Entry, Reading
    <3>2. probe = [i \in DOMAIN Chosen |-> e(i)] /\ nextKey = Len(Chosen) + 1
      OBVIOUS
    <3> HIDE DEF e
    <3>3. [i \in DOMAIN Chosen |-> e(i)] \in [DOMAIN Chosen -> Entry]
      BY <3>1
    <3>4. nextKey \in Nat
      BY <1>2, <3>2
    <3> QED BY <2>1, <3>2, <3>3, <3>4
  <2> QED BY <1>3, <2>2 DEF QueueTypes, Choice, Phases, Unplanned, Plan
<1>5. ChainTypes /\ PollTypes /\ PollIsOfAJob
  BY JobsAreFinite, PageBoundsAssumption, EmptySeq DEF ChainTypes, PollTypes, PollIsOfAJob, NoPoll
<1>6. LimitsInv
  <2>1. InFlight = {} /\ OnTheirWay = {} /\ BurnsOnTheirWay = {} /\ BurnsAsked = {} /\ Receiving = {}
    BY DEF InFlight, OnTheirWay, BurnsOnTheirWay, BurnsAsked, Receiving, NoJob, NoUpload, Pending
  <2>2. Cardinality({}) = 0
    BY FS_EmptySet
  <2>3. MaxQueued \in Nat \ {0} /\ MaxPerHour \in Nat \ {0} /\ MaxUploads \in Nat \ {0} /\ Cardinality(Request) \in Nat
    BY QuotaAssumption, CountsAreFinite
  <2>4. QueueWithinReach
    BY <2>1, <2>2, <2>3 DEF QueueWithinReach
  <2>5. seen <= bucket /\ UploadsWithinHour /\ receiving = 0 /\ 0 <= MaxUploads
    BY <2>3 DEF UploadsWithinHour
  <2> QED BY <2>1, <2>2, <2>4, <2>5 DEF LimitsInv, BodiesWithinLimit, Receiving
<1>7. HeldInv
  <2>1. Rows = 1..0 /\ 0 \in 0..MaxJobs
    BY JobsAreFinite DEF Rows, NoJob
  <2>2. DOMAIN wanted = {}
    OBVIOUS
  <2> QED BY <2>1, <2>2 DEF HeldInv, RowsHaveNoGaps, JobsAreHeldOnce, OneBurnPerFile, Holds, NoUpload
<1>8. QueueInv
  <2>1. FilesAreKnown
    BY <1>2, ChosenAssumption DEF FilesAreKnown
  <2>2. LaterIsPending /\ OneIsUploading /\ PlannedWithFacts /\ QueueGoesOn
    BY <1>2 DEF LaterIsPending, OneIsUploading, PlannedWithFacts, QueueGoesOn, Busy
  <2> QED BY <2>1, <2>2 DEF QueueInv
<1> QED BY <1>1, <1>4, <1>5, <1>6, <1>7, <1>8, TypesAre, PageInvIs

LEMMA PageGoesOn == PageInv /\ [Next]_vars => PageInv'
<1> SUFFICES ASSUME PageInv, [Next]_vars PROVE PageInv'
  OBVIOUS
<1>1. TypeOK /\ QuotaTypeOK /\ QueueTypes /\ ChainTypes /\ LimitsInv /\ HeldInv /\ PollIsOfAJob /\ QueueInv
  BY PageInvIs, TypesAre
<1>2. Busy => mine \in Request
  BY <1>1 DEF QueueTypes, Busy
<1>3. LimitsInv' /\ HeldInv'
  BY <1>1, <1>2, StepKeepsLimits, StepKeepsHeld
<1>4. CASE UNCHANGED vars
  <2>1. TypeOK' /\ PollIsOfAJob'
    BY <1>1, <1>4 DEF vars, serverVars, quotaVars, queueVars, chainVars, TypeOK, KeysOf, QuotaTypeOK, PollIsOfAJob
  <2>2. QueueInv'
    BY <1>1, <1>4, QueueKept DEF vars, serverVars, queueVars
  <2> QED BY <1>3, <2>1, <2>2, PageInvIsNext
<1>5. CASE PageOnly
  BY <1>1, <1>3, <1>5, PageOnlyKeepsTypes, PageOnlyKeepsQueue, PageInvIsNext
<1>6. CASE ChainStep
  BY <1>1, <1>3, <1>6, ChainStepKeepsTypes, ChainStepKeepsQueue, PageInvIsNext
<1>7. CASE RequestStep
  BY <1>1, <1>3, <1>7, RequestStepKeepsTypes, RequestStepKeepsQueue, PageInvIsNext
<1>8. CASE ServerStep
  BY <1>1, <1>3, <1>8, ServerStepKeepsAllTypes, ServerStepKeepsQueue, PageInvIsNext
<1> QED BY <1>4, <1>5, <1>6, <1>7, <1>8, NextCases

(* In every reachable state of the page and the gateway the invariant holds. *)
THEOREM PageIsSafe == Spec => []PageInv
BY PageStarts, PageGoesOn, PTL DEF Spec

(* Pages and tabs race, Redis fails and uploads break off, and what a      *)
(* tenant has under way stays within the limits (tenant-quota.service.ts). *)
THEOREM LimitsAlwaysHold == Spec => []LimitsHold
<1>1. PageInv => LimitsHold
  BY DEF PageInv, LimitsHold
<1> QED BY <1>1, PageIsSafe, PTL

(* follow-up.js chains each burn once, and begin plans no upload before    *)
(* what is under its key has been read, which is its own file in every     *)
(* queue that did not take the place of another (app.js:380).              *)
THEOREM PageActsOnce == Spec => []ActsOnceAndInformed
<1>1. PageInv => ActsOnceAndInformed
  BY DEF PageInv, ActsOnceAndInformed
<1> QED BY <1>1, PageIsSafe, PTL

(* No file waits behind a locked form: after one was accepted, the next    *)
(* begins by itself (app.js, begin).                                       *)
THEOREM NoFileIsLeft == Spec => []QueueGoesOn
<1>1. PageInv => QueueGoesOn
  BY DEF PageInv
<1> QED BY <1>1, PageIsSafe, PTL

(* The queue is worked off in order: behind a file that is not done there  *)
(* are only pending ones (domain/batch.js).                                *)
THEOREM QueueIsInOrder == Spec => []LaterIsPending
<1>1. PageInv => LaterIsPending
  BY DEF PageInv
<1> QED BY <1>1, PageIsSafe, PTL

-----------------------------------------------------------------------------
(***************************************************************************)
(* The panel of the keys, for any keys, servers and models, calls and      *)
(* gestures.  A painted panel shows what the call that painted it brought; *)
(* what is typed is in its fields, or in a call that saves it.             *)
(***************************************************************************)
PutsOf(p) == {n \in 1..MaxCalls : pending[n].kind = "put" /\ pending[n].of = p}

SavingIsOne ==
    \A p \in Owned :
        IF Saving(p) THEN \E n \in 1..MaxCalls : PutsOf(p) = {n} ELSE PutsOf(p) = {}

ListsAreServed ==
    \A n \in 1..MaxCalls :
        pending[n].kind = "list" /\ pending[n].step = "served" => pending[n].list \in KeyTable

PanelType ==
    [open : BOOLEAN, loaded : BOOLEAN, listed : KeyTable, typed : [Owned -> Keys \cup {""}],
     text : [url : Urls, model : Models], touched : SUBSET Extra, baseline : [url : Urls, model : Models],
     dropped : BOOLEAN, saving : SUBSET Owned, confirming : Owned \cup {Null},
     wanted : [url : Urls, model : Models], left : SUBSET Extra, lost : SUBSET Extra]

(* The fields of a panel say what they should, FieldsAreHonest but for its lost ones. *)
IsHonest(q) ==
    /\ q.dropped => q.touched \subseteq q.lost
    /\ \A f \in Extra \ q.lost :
        IF f \in q.touched THEN q.text[f] = q.wanted[f]
        ELSE \/ q.dropped
             \/ q.text[f] = Defaults(q.listed)[f]
             \/ f \in q.left /\ q.text[f] = q.wanted[f]
PanelIs(q) == q \in PanelType /\ IsHonest(q) /\ q.baseline = Defaults(q.listed)

LEMMA DefaultsAreTyped ==
    ASSUME NEW l \in KeyTable PROVE Defaults(l) \in [url : Urls, model : Models]
<1>1. l["openai"] \in Key \cup {Null}
  BY DEF KeyTable, Owned
<1> QED BY <1>1 DEF Defaults, Key, Urls, Models

LEMMA PaintedIs ==
    ASSUME NEW q \in PanelType,
           \A f \in Extra \ q.lost : f \in q.touched => q.text[f] = q.wanted[f] \/ q.dropped,
           \A f \in Extra \ q.lost : f \notin q.touched =>
               \/ q.dropped
               \/ q.text[f] = q.baseline[f]
               \/ f \in q.left /\ q.text[f] = q.wanted[f],
           q.dropped => q.touched \subseteq q.lost
    PROVE  PanelIs(Painted(q)) /\ Painted(q).saving = q.saving
<1> DEFINE t == [f \in Extra |-> IF Stays(q, f) THEN q.text[f] ELSE Defaults(q.listed)[f]]
           b == Defaults(q.listed)
           w == Painted(q)
<1>1. b \in [url : Urls, model : Models]
  BY DefaultsAreTyped DEF PanelType
<1>2. t \in [url : Urls, model : Models] /\ \A f \in Extra : t[f] = IF Stays(q, f) THEN q.text[f] ELSE b[f]
  BY <1>1 DEF PanelType, Extra
<1>3. w = [q EXCEPT !.text = t, !.baseline = b, !.dropped = FALSE, !.left = {f \in @ : Stays(q, f)}]
  BY DEF Painted
<1> HIDE DEF t, b, w
<1>4. /\ w \in PanelType /\ w.text = t /\ w.baseline = b /\ ~w.dropped /\ w.left = {f \in q.left : Stays(q, f)}
      /\ w.lost = q.lost /\ w.touched = q.touched /\ w.listed = q.listed /\ w.wanted = q.wanted
      /\ w.saving = q.saving
  BY <1>1, <1>2, <1>3 DEF PanelType
<1>5. ASSUME NEW f \in Extra \ q.lost
      PROVE  IF f \in q.touched THEN t[f] = q.wanted[f]
             ELSE t[f] = b[f] \/ (f \in w.left /\ t[f] = q.wanted[f])
  <2>1. CASE f \in q.touched
    <3>1. ~q.dropped /\ q.text[f] = q.wanted[f]
      BY <2>1
    <3> QED BY <1>2, <2>1, <3>1 DEF Stays
  <2>2. CASE f \notin q.touched /\ Stays(q, f)
    <3>1. f \in q.left /\ q.text[f] = q.wanted[f]
      BY <2>2 DEF Stays
    <3> QED BY <1>2, <1>4, <2>2, <3>1
  <2>3. CASE f \notin q.touched /\ ~Stays(q, f)
    BY <1>2, <2>3
  <2> QED BY <2>1, <2>2, <2>3
<1> QED BY <1>4, <1>5 DEF PanelIs, IsHonest, b, w

KeysRest ==
    keys \in KeyTable /\ pending \in [1..MaxCalls -> Call] /\ edits \in 0..MaxEdits /\ ListsAreServed

KeysInv == PanelIs(panel) /\ KeysRest /\ SavingIsOne

LEMMA NoCallIsTyped ==
    /\ NoCall \in Call /\ NoCall.kind = Null /\ List \in Call /\ List.kind = "list" /\ List.step = "sent"
    /\ Null \notin {"put", "delete", "list"}
BY KeysValuesAssumption DEF NoCall, List, Call

(* The saves under way stay as they are. *)
PutsStay(S) ==
    /\ \A n \in S : pending[n].kind = "put" <=> pending'[n].kind = "put"
    /\ \A n \in S : pending[n].kind = "put" => pending'[n].of = pending[n].of

LEMMA SavingStays ==
    ASSUME SavingIsOne, PutsStay(1..MaxCalls), panel'.saving = panel.saving
    PROVE  SavingIsOne'
<1>1. \A p \in Owned : PutsOf(p)' = PutsOf(p) /\ (Saving(p)' <=> Saving(p))
  BY DEF PutsOf, PutsStay, Saving
<1> QED BY <1>1 DEF SavingIsOne

LEMMA SavingEnds ==
    ASSUME SavingIsOne, NEW n \in 1..MaxCalls, pending[n].kind = "put", pending'[n].kind /= "put",
           PutsStay((1..MaxCalls) \ {n}), panel'.saving = panel.saving \ {pending[n].of}
    PROVE  SavingIsOne'
<1> SUFFICES ASSUME NEW p \in Owned
             PROVE  IF Saving(p)' THEN \E m \in 1..MaxCalls : PutsOf(p)' = {m} ELSE PutsOf(p)' = {}
  BY DEF SavingIsOne
<1>1. PutsOf(p)' = PutsOf(p) \ {n}
  BY DEF PutsOf, PutsStay
<1>2. CASE pending[n].of = p
  <2>1. n \in PutsOf(p)
    BY <1>2 DEF PutsOf
  <2>2. PutsOf(p) = {n}
    BY <2>1 DEF SavingIsOne
  <2> QED BY <1>1, <1>2, <2>2 DEF Saving
<1>3. CASE pending[n].of /= p
  <2>1. n \notin PutsOf(p) /\ (Saving(p)' <=> Saving(p))
    BY <1>3 DEF PutsOf, Saving
  <2> QED BY <1>1, <2>1 DEF SavingIsOne
<1> QED BY <1>2, <1>3

(* The place that a call takes. *)
TakesAPlace(over, call) ==
    \E n \in 1..MaxCalls :
        /\ n \in over \/ pending[n].kind = Null
        /\ pending'[n] = call
        /\ \A m \in (1..MaxCalls) \ {n} : pending'[m] = IF m \in over THEN NoCall ELSE pending[m]

LEMMA CallGoesOut ==
    ASSUME KeysRest, NEW over \in SUBSET (1..MaxCalls), NEW call \in Call, Calls(over, call),
           call.kind = "list" => call.step = "sent"
    PROVE  /\ pending' \in [1..MaxCalls -> Call] /\ ListsAreServed'
           /\ TakesAPlace(over, call)
<1>1. PICK n \in Free \cup over :
        pending' = [m \in 1..MaxCalls |-> IF m = n THEN call ELSE IF m \in over THEN NoCall ELSE pending[m]]
  BY DEF Calls
<1>2. n \in 1..MaxCalls /\ (n \in over \/ pending[n].kind = Null)
  BY <1>1 DEF Free
<1>3. pending' \in [1..MaxCalls -> Call]
  BY <1>1, NoCallIsTyped DEF KeysRest
<1>4. ListsAreServed'
  BY <1>1, NoCallIsTyped DEF KeysRest, ListsAreServed
<1> QED BY <1>1, <1>2, <1>3, <1>4 DEF TakesAPlace

LEMMA OverKeeps ==
    ASSUME KeysRest, NEW n \in 1..MaxCalls, Over(n)
    PROVE  /\ pending' \in [1..MaxCalls -> Call] /\ ListsAreServed' /\ pending'[n].kind = Null
           /\ \A m \in (1..MaxCalls) \ {n} : pending'[m] = pending[m]
BY NoCallIsTyped DEF KeysRest, Over, ListsAreServed

(* Painting a panel whose fields are those of the panel. *)
LEMMA PaintAgain ==
    ASSUME PanelIs(panel), NEW q \in PanelType,
           q.text = panel.text, q.touched = panel.touched, q.baseline = panel.baseline,
           q.dropped = panel.dropped, q.wanted = panel.wanted, q.left = panel.left, q.lost = panel.lost
    PROVE  PanelIs(Painted(q)) /\ Painted(q).saving = q.saving
<1>1. /\ \A f \in Extra \ q.lost : f \in q.touched => q.text[f] = q.wanted[f]
      /\ \A f \in Extra \ q.lost : f \notin q.touched =>
            q.dropped \/ q.text[f] = q.baseline[f] \/ (f \in q.left /\ q.text[f] = q.wanted[f])
      /\ q.dropped => q.touched \subseteq q.lost
  BY DEF PanelIs, IsHonest
<1> QED BY <1>1, PaintedIs

(* A panel whose fields were not touched is what it was. *)
LEMMA FieldsAlone ==
    ASSUME PanelIs(panel), NEW q \in PanelType,
           q.text = panel.text, q.touched = panel.touched, q.baseline = panel.baseline, q.listed = panel.listed,
           q.dropped = panel.dropped, q.wanted = panel.wanted, q.left = panel.left, q.lost = panel.lost
    PROVE  PanelIs(q)
BY DEF PanelIs, IsHonest

LEMMA ServedKeeps ==
    ASSUME KeysInv, NEW n \in 1..MaxCalls, Served(n) PROVE KeysInv'
<1>1. PanelIs(panel) /\ KeysRest /\ SavingIsOne /\ pending[n] \in Call
  BY DEF KeysInv, KeysRest
<1> DEFINE l == IF pending[n].kind = "list" THEN keys ELSE Null
           c == [[pending[n] EXCEPT !.step = "served"] EXCEPT !.list = l]
<1>2. l \in KeyTable \cup {Null} /\ (pending[n].kind = "list" => l \in KeyTable)
  BY <1>1 DEF KeysRest
<1> HIDE DEF l
<1>3. c \in Call /\ c.kind = pending[n].kind /\ c.of = pending[n].of /\ c.list = l
  BY <1>1, <1>2 DEF Call
<1>4. pending' = [pending EXCEPT ![n] = c]
  BY <1>1 DEF Served, KeysRest, l
<1> HIDE DEF c
<1>5. pending' \in [1..MaxCalls -> Call] /\ ListsAreServed' /\ PutsStay(1..MaxCalls)
  BY <1>1, <1>2, <1>3, <1>4 DEF KeysRest, ListsAreServed, PutsStay
<1>6. keys' \in KeyTable
  BY <1>1 DEF Served, KeysRest, KeyTable, Call
<1>7. UNCHANGED <<panel, edits>>
  BY DEF Served
<1>8. SavingIsOne'
  BY <1>1, <1>5, <1>7, SavingStays
<1>9. PanelIs(panel') /\ KeysRest'
  BY <1>1, <1>5, <1>6, <1>7 DEF KeysRest
<1> QED BY <1>8, <1>9 DEF KeysInv

LEMMA ListedKeeps ==
    ASSUME KeysInv, NEW n \in 1..MaxCalls, Listed(n) PROVE KeysInv'
<1>1. PanelIs(panel) /\ KeysRest /\ SavingIsOne /\ panel \in PanelType
  BY DEF KeysInv, PanelIs
<1> DEFINE q == [panel EXCEPT !.listed = pending[n].list, !.loaded = TRUE]
<1>2. pending[n].list \in KeyTable
  BY <1>1 DEF Listed, KeysRest, ListsAreServed
<1>3. /\ q \in PanelType /\ q.text = panel.text /\ q.touched = panel.touched /\ q.baseline = panel.baseline
      /\ q.dropped = panel.dropped /\ q.wanted = panel.wanted /\ q.left = panel.left /\ q.lost = panel.lost
      /\ q.saving = panel.saving
  BY <1>1, <1>2 DEF PanelType
<1>4. panel' = Painted(q)
  BY DEF Listed
<1> HIDE DEF q
<1>5. PanelIs(panel') /\ panel'.saving = panel.saving
  BY <1>1, <1>3, <1>4, PaintAgain
<1>6. /\ pending' \in [1..MaxCalls -> Call] /\ ListsAreServed' /\ pending'[n].kind = Null
      /\ \A m \in (1..MaxCalls) \ {n} : pending'[m] = pending[m]
  BY <1>1, OverKeeps DEF Listed
<1>7. PutsStay(1..MaxCalls)
  BY <1>6, NoCallIsTyped DEF Listed, PutsStay
<1>8. SavingIsOne' /\ KeysRest'
  BY <1>1, <1>5, <1>6, <1>7, SavingStays DEF KeysRest, Listed
<1> QED BY <1>5, <1>8 DEF KeysInv

LEMMA EditsAreTyped ==
    ASSUME KeysInv, Edit PROVE edits' \in 0..MaxEdits
BY KeysBoundsAssumption DEF KeysInv, KeysRest, Edit

(* The panel changes, and nothing that is under way. *)
LEMMA PanelChanges ==
    ASSUME KeysInv, Edit, PanelIs(panel'), panel'.saving = panel.saving, UNCHANGED <<keys, pending>>
    PROVE  KeysInv'
<1>1. PutsStay(1..MaxCalls)
  BY DEF PutsStay
<1>2. SavingIsOne'
  BY <1>1, SavingStays DEF KeysInv
<1>3. KeysRest'
  BY EditsAreTyped DEF KeysInv, KeysRest, ListsAreServed
<1> QED BY <1>2, <1>3 DEF KeysInv

(* A call goes out that saves nothing, in the place of one that is over. *)
LEMMA AskingKeeps ==
    ASSUME KeysInv, PanelIs(panel'), panel'.saving = panel.saving, keys' = keys, edits' \in 0..MaxEdits,
           NEW over \in SUBSET (1..MaxCalls), \A n \in over : pending[n].kind /= "put",
           NEW call \in Call, call.kind \in {"list", "delete"}, call.step = "sent", Calls(over, call)
    PROVE  KeysInv'
<1>1. pending' \in [1..MaxCalls -> Call] /\ ListsAreServed' /\ TakesAPlace(over, call)
  BY CallGoesOut DEF KeysInv
<1>2. PICK n \in 1..MaxCalls :
        /\ n \in over \/ pending[n].kind = Null
        /\ pending'[n] = call
        /\ \A m \in (1..MaxCalls) \ {n} : pending'[m] = IF m \in over THEN NoCall ELSE pending[m]
  BY <1>1 DEF TakesAPlace
<1>3. PutsStay(1..MaxCalls)
  BY <1>2, NoCallIsTyped DEF PutsStay
<1> QED BY <1>1, <1>3, SavingStays DEF KeysInv, KeysRest

LEMMA KeySavedKeeps ==
    ASSUME KeysInv, NEW n \in 1..MaxCalls, KeySaved(n) PROVE KeysInv'
<1> DEFINE c == pending[n]
           p == [panel EXCEPT !.typed[c.of] = "", !.saving = @ \ {c.of}]
           w == [p EXCEPT !.touched = {}, !.lost = {}, !.left = {}, !.dropped = TRUE,
                          !.text.url = IF p.dropped THEN @ ELSE ""]
<1>1. PanelIs(panel) /\ KeysRest /\ SavingIsOne /\ panel \in PanelType
  BY DEF KeysInv, PanelIs
<1>2. /\ p \in PanelType /\ p.saving = panel.saving \ {c.of} /\ p.listed = panel.listed
      /\ p.baseline = panel.baseline /\ p.text = panel.text /\ p.touched = panel.touched
      /\ p.dropped = panel.dropped /\ p.wanted = panel.wanted /\ p.left = panel.left /\ p.lost = panel.lost
  BY <1>1 DEF PanelType
<1>3. PanelIs(p)
  BY <1>1, <1>2, FieldsAlone
<1>4. panel' = IF c.of /= "openai" THEN p ELSE w
  BY DEF KeySaved
<1>5. c.kind = "put" /\ Calls({n}, List) /\ UNCHANGED <<keys, edits>>
  BY DEF KeySaved
<1> HIDE DEF p, c
<1>6. w \in PanelType /\ w.dropped /\ w.touched = {} /\ w.saving = p.saving
      /\ w.baseline = p.baseline /\ w.listed = p.listed
  BY <1>2 DEF PanelType, Urls
<1> HIDE DEF w
<1>7. PanelIs(w)
  BY <1>2, <1>3, <1>6 DEF PanelIs, IsHonest
<1>8. PanelIs(panel') /\ panel'.saving = panel.saving \ {c.of}
  BY <1>2, <1>3, <1>4, <1>6, <1>7
<1> DEFINE over == {n}
<1>9. n \in over /\ over \in SUBSET (1..MaxCalls) /\ Calls(over, List) /\ (\A k \in over : k = n)
  BY <1>5
<1> HIDE DEF over
<1>10. pending' \in [1..MaxCalls -> Call] /\ ListsAreServed' /\ TakesAPlace(over, List)
  BY <1>1, <1>9, CallGoesOut, NoCallIsTyped
<1>11. pending'[n].kind /= "put" /\ PutsStay((1..MaxCalls) \ {n})
  BY <1>9, <1>10, NoCallIsTyped DEF PutsStay, TakesAPlace
<1>12. SavingIsOne'
  BY <1>1, <1>5, <1>8, <1>11, SavingEnds DEF c
<1> QED BY <1>1, <1>5, <1>8, <1>10, <1>12 DEF KeysInv, KeysRest

LEMMA RemovedKeeps ==
    ASSUME KeysInv, NEW n \in 1..MaxCalls, Removed(n) PROVE KeysInv'
<1>1. PanelIs(panel') /\ panel'.saving = panel.saving /\ keys' = keys /\ edits' \in 0..MaxEdits
  BY DEF KeysInv, KeysRest, Removed
<1> QED BY <1>1, AskingKeeps, NoCallIsTyped DEF Removed

LEMMA FailsKeeps ==
    ASSUME KeysInv, NEW n \in 1..MaxCalls, CallFails(n) PROVE KeysInv'
<1> DEFINE c == pending[n]
           p == [panel EXCEPT !.saving = @ \ {c.of}]
<1>1. PanelIs(panel) /\ KeysRest /\ SavingIsOne /\ panel \in PanelType
  BY DEF KeysInv, PanelIs
<1>2. /\ pending' \in [1..MaxCalls -> Call] /\ ListsAreServed' /\ pending'[n].kind = Null
      /\ \A m \in (1..MaxCalls) \ {n} : pending'[m] = pending[m]
  BY <1>1, OverKeeps DEF CallFails
<1>3. CASE c.kind = "put"
  <2>1. /\ p \in PanelType /\ p.saving = panel.saving \ {c.of} /\ p.listed = panel.listed
        /\ p.baseline = panel.baseline /\ p.text = panel.text /\ p.touched = panel.touched
        /\ p.dropped = panel.dropped /\ p.wanted = panel.wanted /\ p.left = panel.left /\ p.lost = panel.lost
    BY <1>1 DEF PanelType
  <2>2. panel' = p
    BY <1>3 DEF CallFails
  <2> HIDE DEF p
  <2>3. PanelIs(panel')
    BY <1>1, <2>1, <2>2, FieldsAlone
  <2>4. PutsStay((1..MaxCalls) \ {n}) /\ pending'[n].kind /= "put"
    BY <1>2, NoCallIsTyped DEF PutsStay
  <2>5. SavingIsOne'
    BY <1>1, <1>3, <2>1, <2>2, <2>4, SavingEnds
  <2> QED BY <1>1, <1>2, <2>3, <2>5 DEF KeysInv, KeysRest, CallFails
<1>4. CASE c.kind /= "put"
  <2>1. panel' = Painted(panel)
    BY <1>4 DEF CallFails
  <2>2. PanelIs(panel') /\ panel'.saving = panel.saving
    BY <1>1, <2>1, PaintAgain
  <2>3. PutsStay(1..MaxCalls)
    BY <1>2, <1>4, NoCallIsTyped DEF PutsStay
  <2>4. SavingIsOne'
    BY <1>1, <2>2, <2>3, SavingStays
  <2> QED BY <1>1, <1>2, <2>2, <2>4 DEF KeysInv, KeysRest, CallFails
<1> QED BY <1>3, <1>4

LEMMA FoldKeeps ==
    ASSUME KeysInv, Fold PROVE KeysInv'
<1> DEFINE q == [panel EXCEPT !.open = FALSE, !.touched = {}, !.confirming = Null,
                              !.left = (@ \cup panel.touched) \ panel.lost]
<1>1. PanelIs(panel) /\ panel \in PanelType
  BY DEF KeysInv, PanelIs
<1>2. /\ q \in PanelType /\ q.text = panel.text /\ q.touched = {} /\ q.baseline = panel.baseline
      /\ q.dropped = panel.dropped /\ q.wanted = panel.wanted /\ q.lost = panel.lost
      /\ q.left = (panel.left \cup panel.touched) \ panel.lost /\ q.saving = panel.saving
  BY <1>1 DEF PanelType
<1>3. panel' = Painted(q) /\ Edit /\ UNCHANGED <<keys, pending>>
  BY DEF Fold
<1> HIDE DEF q
<1>4. \A f \in Extra \ q.lost : q.dropped \/ q.text[f] = q.baseline[f] \/ (f \in q.left /\ q.text[f] = q.wanted[f])
  BY <1>1, <1>2 DEF PanelIs, IsHonest
<1>5. PanelIs(panel') /\ panel'.saving = panel.saving
  BY <1>2, <1>3, <1>4, PaintedIs
<1> QED BY <1>3, <1>5, PanelChanges

(* ThinksBetter, Translated: the panel is painted again. *)
LEMMA RepaintKeeps ==
    ASSUME KeysInv, ThinksBetter \/ Translated PROVE KeysInv'
<1> DEFINE q == [panel EXCEPT !.confirming = Null]
<1>1. PanelIs(panel) /\ panel \in PanelType
  BY DEF KeysInv, PanelIs
<1>2. /\ q \in PanelType /\ q.text = panel.text /\ q.touched = panel.touched /\ q.baseline = panel.baseline
      /\ q.dropped = panel.dropped /\ q.wanted = panel.wanted /\ q.left = panel.left /\ q.lost = panel.lost
      /\ q.saving = panel.saving
  BY <1>1 DEF PanelType
<1>3. (panel' = Painted(q) \/ panel' = Painted(panel)) /\ Edit /\ UNCHANGED <<keys, pending>>
  BY DEF ThinksBetter, Translated
<1> HIDE DEF q
<1>4. PanelIs(panel') /\ panel'.saving = panel.saving
  BY <1>1, <1>2, <1>3, PaintAgain
<1> QED BY <1>3, <1>4, PanelChanges

LEMMA UnfoldKeeps ==
    ASSUME KeysInv, Unfold PROVE KeysInv'
<1> DEFINE q == [panel EXCEPT !.open = TRUE]
<1>1. PanelIs(panel) /\ panel \in PanelType
  BY DEF KeysInv, PanelIs
<1>2. /\ q \in PanelType /\ q.text = panel.text /\ q.touched = panel.touched /\ q.baseline = panel.baseline
      /\ q.listed = panel.listed /\ q.dropped = panel.dropped /\ q.wanted = panel.wanted
      /\ q.left = panel.left /\ q.lost = panel.lost /\ q.saving = panel.saving
  BY <1>1 DEF PanelType
<1>3. panel' = q /\ Edit /\ keys' = keys
  BY DEF Unfold
<1> HIDE DEF q
<1>4. PanelIs(panel') /\ panel'.saving = panel.saving
  BY <1>1, <1>2, <1>3, FieldsAlone
<1>5. CASE panel.loaded
  BY <1>3, <1>4, <1>5, PanelChanges DEF Unfold
<1>6. CASE ~panel.loaded
  <2>1. Calls({}, List)
    BY <1>6 DEF Unfold
  <2> QED BY <1>3, <1>4, <2>1, AskingKeeps, EditsAreTyped, NoCallIsTyped
<1> QED BY <1>5, <1>6

LEMMA PastesKeeps ==
    ASSUME KeysInv, NEW p \in Owned, NEW k \in Keys, Pastes(p, k) PROVE KeysInv'
<1> DEFINE q == [panel EXCEPT !.typed[p] = k]
<1>1. PanelIs(panel) /\ panel \in PanelType
  BY DEF KeysInv, PanelIs
<1>2. /\ q \in PanelType /\ q.text = panel.text /\ q.touched = panel.touched /\ q.baseline = panel.baseline
      /\ q.listed = panel.listed /\ q.dropped = panel.dropped /\ q.wanted = panel.wanted
      /\ q.left = panel.left /\ q.lost = panel.lost /\ q.saving = panel.saving
  BY <1>1 DEF PanelType
<1>3. panel' = q /\ Edit /\ UNCHANGED <<keys, pending>>
  BY DEF Pastes
<1> HIDE DEF q
<1>4. PanelIs(panel') /\ panel'.saving = panel.saving
  BY <1>1, <1>2, <1>3, FieldsAlone
<1> QED BY <1>3, <1>4, PanelChanges

(* What is written is what the person meant, and touched. *)
LEMMA WritingIsHonest ==
    ASSUME PanelIs(panel), NEW F \in SUBSET Extra, NEW values \in [url : Urls, model : Models], Writes(F, values)
    PROVE  PanelIs(panel') /\ panel'.saving = panel.saving
<1> DEFINE t == [f \in Extra |-> IF f \in F THEN values[f] ELSE panel.text[f]]
           w == [f \in Extra |-> IF f \in F THEN values[f] ELSE panel.wanted[f]]
<1>1. panel \in PanelType
  BY DEF PanelIs
<1>2. /\ t \in [url : Urls, model : Models] /\ w \in [url : Urls, model : Models]
      /\ \A f \in F : t[f] = w[f]
      /\ \A f \in Extra \ F : t[f] = panel.text[f] /\ w[f] = panel.wanted[f]
  BY <1>1 DEF PanelType, Extra
<1>3. panel' = [panel EXCEPT !.text = t, !.wanted = w, !.touched = @ \cup F,
                             !.lost = IF panel.dropped THEN @ \cup F ELSE @ \ F]
  BY DEF Writes
<1> HIDE DEF t, w
<1>4. /\ panel' \in PanelType /\ panel'.text = t /\ panel'.wanted = w /\ panel'.touched = panel.touched \cup F
      /\ panel'.lost = (IF panel.dropped THEN panel.lost \cup F ELSE panel.lost \ F)
      /\ panel'.baseline = panel.baseline /\ panel'.listed = panel.listed /\ panel'.left = panel.left
      /\ panel'.dropped = panel.dropped /\ panel'.saving = panel.saving
  BY <1>1, <1>2, <1>3 DEF PanelType
<1>5. ASSUME NEW f \in Extra \ panel'.lost
      PROVE  IF f \in panel'.touched THEN t[f] = w[f]
             ELSE \/ panel.dropped
                  \/ t[f] = Defaults(panel.listed)[f]
                  \/ f \in panel.left /\ t[f] = w[f]
  <2>1. CASE f \in F
    BY <1>2, <1>4, <2>1
  <2>2. CASE f \notin F
    <3>1. f \notin panel.lost
      BY <1>4, <2>2
    <3> QED BY <1>2, <1>4, <2>2, <3>1 DEF PanelIs, IsHonest
  <2> QED BY <2>1, <2>2
<1>6. panel'.dropped => panel'.touched \subseteq panel'.lost
  BY <1>4 DEF PanelIs, IsHonest
<1>7. IsHonest(panel')
  BY <1>4, <1>5, <1>6 DEF IsHonest
<1>8. panel'.baseline = Defaults(panel'.listed)
  BY <1>4 DEF PanelIs
<1> QED BY <1>4, <1>7, <1>8 DEF PanelIs

LEMMA TypesKeeps ==
    ASSUME KeysInv, NEW f, NEW v, Types(f, v), (f = "url" /\ v \in Urls) \/ (f = "model" /\ v \in Models)
    PROVE  KeysInv'
<1> DEFINE values == [panel.text EXCEPT ![f] = v]
<1>1. PanelIs(panel) /\ panel.text \in [url : Urls, model : Models]
  BY DEF KeysInv, PanelIs, PanelType
<1>2. values \in [url : Urls, model : Models] /\ {f} \in SUBSET Extra
  BY <1>1 DEF Extra
<1>3. Writes({f}, values) /\ Edit /\ UNCHANGED <<keys, pending>>
  BY DEF Types
<1> HIDE DEF values
<1>4. PanelIs(panel') /\ panel'.saving = panel.saving
  BY <1>1, <1>2, <1>3, WritingIsHonest
<1> QED BY <1>3, <1>4, PanelChanges

LEMMA ChoosesKeeps ==
    ASSUME KeysInv, NEW service \in Services, Chooses(service) PROVE KeysInv'
<1> DEFINE values == [url |-> IF service = "openai" THEN "" ELSE "known",
                      model |-> IF service = "openai" THEN "" ELSE "suggested"]
           F == IF panel.text.model \in OwnModels THEN {"url"} ELSE Extra
<1>1. values \in [url : Urls, model : Models] /\ F \in SUBSET Extra
  BY DEF Urls, Models, Extra
<1>2. Writes(F, values) /\ Edit /\ UNCHANGED <<keys, pending>>
  BY DEF Chooses
<1> HIDE DEF values, F
<1>3. PanelIs(panel') /\ panel'.saving = panel.saving
  BY <1>1, <1>2, WritingIsHonest DEF KeysInv
<1> QED BY <1>2, <1>3, PanelChanges

LEMMA OtherOwnerKeeps ==
    ASSUME KeysInv, NEW p \in Owned, OtherOwner(p) PROVE KeysInv'
<1>1. PICK k \in Keys : \E saved \in {Null, [key |-> k, url |-> "", model |-> ""]} : keys' = [keys EXCEPT ![p] = saved]
  BY DEF OtherOwner
<1>2. [key |-> k, url |-> "", model |-> ""] \in Key
  BY DEF Key, Urls, Models
<1>3. keys' \in KeyTable
  BY <1>1, <1>2 DEF KeysInv, KeysRest, KeyTable
<1>4. edits' \in 0..MaxEdits /\ UNCHANGED <<panel, pending>>
  BY EditsAreTyped DEF OtherOwner
<1>5. PutsStay(1..MaxCalls)
  BY <1>4 DEF PutsStay
<1>6. SavingIsOne'
  BY <1>4, <1>5, SavingStays DEF KeysInv
<1> QED BY <1>3, <1>4, <1>6 DEF KeysInv, KeysRest, ListsAreServed

LEMMA DeletesKeeps ==
    ASSUME KeysInv, NEW p \in Owned, Deletes(p) PROVE KeysInv'
<1> DEFINE to == IF panel.confirming = p THEN Null ELSE p
           q == [panel EXCEPT !.confirming = to]
           call == [[NoCall EXCEPT !.kind = "delete"] EXCEPT !.of = p]
<1>1. PanelIs(panel) /\ panel \in PanelType
  BY DEF KeysInv, PanelIs
<1>2. /\ q \in PanelType /\ q.text = panel.text /\ q.touched = panel.touched /\ q.baseline = panel.baseline
      /\ q.listed = panel.listed /\ q.dropped = panel.dropped /\ q.wanted = panel.wanted
      /\ q.left = panel.left /\ q.lost = panel.lost /\ q.saving = panel.saving
  BY <1>1 DEF PanelType
<1>3. call \in Call /\ call.kind = "delete" /\ call.step = "sent"
  BY NoCallIsTyped DEF Call, NoCall
<1>4. Edit /\ keys' = keys
  BY DEF Deletes
<1>5. panel.confirming = p => panel' = q /\ Calls({}, call)
  BY DEF Deletes
<1>6. panel.confirming /= p => panel' = Painted(q) /\ UNCHANGED pending
  BY DEF Deletes
<1> HIDE DEF q, call
<1>7. CASE panel.confirming = p
  <2>1. PanelIs(panel') /\ panel'.saving = panel.saving
    BY <1>1, <1>2, <1>5, <1>7, FieldsAlone
  <2> QED BY <1>3, <1>4, <1>5, <1>7, <2>1, AskingKeeps, EditsAreTyped
<1>8. CASE panel.confirming /= p
  <2>1. PanelIs(panel') /\ panel'.saving = panel.saving
    BY <1>1, <1>2, <1>6, <1>8, PaintAgain
  <2> QED BY <1>4, <1>6, <1>8, <2>1, PanelChanges
<1> QED BY <1>7, <1>8

LEMMA SavesKeeps ==
    ASSUME KeysInv, NEW p \in Owned, Saves(p) PROVE KeysInv'
<1> DEFINE q == [panel EXCEPT !.saving = @ \cup {p}]
           theirs == p = "openai" /\ ~panel.dropped
           put == [key |-> panel.typed[p],
                   url |-> IF theirs THEN panel.text.url ELSE "",
                   model |-> IF theirs THEN panel.text.model ELSE ""]
           call == [[[NoCall EXCEPT !.kind = "put"] EXCEPT !.of = p] EXCEPT !.put = put]
<1>1. PanelIs(panel) /\ panel \in PanelType /\ KeysRest /\ SavingIsOne
  BY DEF KeysInv, PanelIs
<1>2. Edit /\ keys' = keys
  BY DEF Saves
<1>3. CASE panel.typed[p] = ""
  <2>1. panel' = Painted(panel) /\ UNCHANGED pending
    BY <1>3 DEF Saves
  <2>2. PanelIs(panel') /\ panel'.saving = panel.saving
    BY <1>1, <2>1, PaintAgain
  <2> QED BY <1>2, <2>1, <2>2, PanelChanges
<1>4. CASE panel.typed[p] /= ""
  <2>1. ~Saving(p) /\ panel' = q /\ Calls({}, call)
    BY <1>4 DEF Saves
  <2>2. put \in Key
    BY <1>1, <1>4 DEF PanelType, Key, Urls, Models
  <2> HIDE DEF put
  <2>3. call \in Call /\ call.kind = "put" /\ call.of = p
    BY <2>2, NoCallIsTyped DEF Call
  <2> HIDE DEF call
  <2>4. /\ q \in PanelType /\ q.text = panel.text /\ q.touched = panel.touched /\ q.baseline = panel.baseline
        /\ q.listed = panel.listed /\ q.dropped = panel.dropped /\ q.wanted = panel.wanted
        /\ q.left = panel.left /\ q.lost = panel.lost /\ q.saving = panel.saving \cup {p}
    BY <1>1 DEF PanelType
  <2> HIDE DEF q
  <2>5. PanelIs(panel') /\ panel'.saving = panel.saving \cup {p}
    BY <1>1, <2>1, <2>4, FieldsAlone
  <2> DEFINE over == {}
  <2>6. over \in SUBSET (1..MaxCalls) /\ Calls(over, call) /\ \A m : m \notin over
    BY <2>1
  <2> HIDE DEF over
  <2>7. pending' \in [1..MaxCalls -> Call] /\ ListsAreServed' /\ TakesAPlace(over, call)
    BY <1>1, <2>3, <2>6, CallGoesOut
  <2>8. PICK n \in 1..MaxCalls :
          /\ pending[n].kind = Null /\ pending'[n] = call
          /\ \A m \in (1..MaxCalls) \ {n} : pending'[m] = pending[m]
    BY <2>6, <2>7 DEF TakesAPlace
  <2>9. ASSUME NEW o \in Owned, o /= p
        PROVE  PutsOf(o)' = PutsOf(o) /\ (Saving(o)' <=> Saving(o))
    BY <2>3, <2>5, <2>8, <2>9, NoCallIsTyped DEF PutsOf, Saving
  <2>10. PutsOf(p) = {}
    BY <1>1, <2>1 DEF SavingIsOne
  <2>11. PutsOf(p)' = {n} /\ Saving(p)'
    BY <2>3, <2>5, <2>8, <2>10, NoCallIsTyped DEF PutsOf, Saving
  <2>12. SavingIsOne'
    BY <1>1, <2>9, <2>11 DEF SavingIsOne
  <2> QED BY <1>1, <1>2, <2>5, <2>7, <2>12, EditsAreTyped DEF KeysInv, KeysRest
<1> QED BY <1>3, <1>4

LEMMA KeysInvInit == KeysInit => KeysInv
<1> SUFFICES ASSUME KeysInit PROVE KeysInv
  OBVIOUS
<1> DEFINE blank == Defaults(Unsaved)
           q == [open |-> FALSE, loaded |-> FALSE, listed |-> Unsaved, typed |-> [p \in Owned |-> ""],
                 text |-> Defaults(Unsaved), touched |-> {}, baseline |-> Defaults(Unsaved), dropped |-> TRUE,
                 saving |-> {}, confirming |-> Null, wanted |-> Defaults(Unsaved), left |-> {}, lost |-> {}]
<1>1. Unsaved \in KeyTable
  BY DEF Unsaved, KeyTable
<1>2. blank \in [url : Urls, model : Models]
  BY <1>1, DefaultsAreTyped
<1> HIDE DEF blank
<1>3. q \in PanelType /\ q.dropped /\ q.touched = {} /\ q.saving = {} /\ q.lost = {}
  BY <1>1, <1>2 DEF PanelType, blank
<1>4. panel = Painted(q)
  BY DEF KeysInit
<1> HIDE DEF q
<1>5. PanelIs(panel) /\ panel.saving = {}
  BY <1>3, <1>4, PaintedIs
<1>6. ASSUME NEW k \in Keys
      PROVE  [Unsaved EXCEPT !["openai"] = [key |-> k, url |-> "known", model |-> "suggested"]] \in KeyTable
  <2>1. [key |-> k, url |-> "known", model |-> "suggested"] \in Key
    BY DEF Key, Urls, Models
  <2> QED BY <1>1, <2>1 DEF KeyTable
<1>7. keys \in KeyTable
  BY <1>1, <1>6 DEF KeysInit
<1>8. pending \in [1..MaxCalls -> Call] /\ edits \in 0..MaxEdits /\ \A n \in 1..MaxCalls : pending[n].kind = Null
  <2>1. pending = [n \in 1..MaxCalls |-> NoCall] /\ edits = 0
    BY DEF KeysInit
  <2>2. 0 \in 0..MaxEdits
    BY KeysBoundsAssumption
  <2> QED BY <2>1, <2>2, NoCallIsTyped
<1>9. ListsAreServed /\ SavingIsOne
  BY <1>5, <1>8, NoCallIsTyped DEF ListsAreServed, SavingIsOne, Saving, PutsOf
<1> QED BY <1>5, <1>7, <1>8, <1>9 DEF KeysInv, KeysRest

LEMMA KeysInvStep == KeysInv /\ [KeysNext]_keysVars => KeysInv'
<1> SUFFICES ASSUME KeysInv, [KeysNext]_keysVars PROVE KeysInv'
  OBVIOUS
<1>1. ASSUME NEW n \in 1..MaxCalls, Served(n) \/ Listed(n) \/ KeySaved(n) \/ Removed(n) \/ CallFails(n)
      PROVE  KeysInv'
  BY <1>1, ServedKeeps, ListedKeeps, KeySavedKeeps, RemovedKeeps, FailsKeeps
<1>2. ASSUME Unfold \/ Fold \/ ThinksBetter \/ Translated PROVE KeysInv'
  BY <1>2, UnfoldKeeps, FoldKeeps, RepaintKeeps
<1>3. ASSUME NEW p \in Owned, Saves(p) \/ Deletes(p) \/ OtherOwner(p) \/ (\E k \in Keys : Pastes(p, k))
      PROVE  KeysInv'
  BY <1>3, SavesKeeps, DeletesKeeps, OtherOwnerKeeps, PastesKeeps
<1>4. ASSUME NEW u \in Urls, Types("url", u) PROVE KeysInv'
  BY <1>4, TypesKeeps
<1>5. ASSUME NEW m \in Models, Types("model", m) PROVE KeysInv'
  BY <1>5, TypesKeeps
<1>6. ASSUME NEW s \in Services, Chooses(s) PROVE KeysInv'
  BY <1>6, ChoosesKeeps
<1>7. CASE UNCHANGED keysVars
  BY <1>7 DEF keysVars, KeysInv, KeysRest, SavingIsOne, ListsAreServed, PutsOf, Saving
<1> QED BY <1>1, <1>2, <1>3, <1>4, <1>5, <1>6, <1>7 DEF KeysNext

LEMMA KeysInvIsEnough == KeysInv => KeysPanelIsHonest
<1> SUFFICES ASSUME KeysInv PROVE KeysPanelIsHonest
  OBVIOUS
<1>1. KeysTypeOK
  BY DEF KeysInv, KeysRest, PanelIs, PanelType, KeysTypeOK
<1>2. FieldsAreHonest
  BY DEF KeysInv, PanelIs, IsHonest, FieldsAreHonest
<1>3. ASSUME NEW p \in Owned PROVE Cardinality(PutsOf(p)) = IF Saving(p) THEN 1 ELSE 0
  BY FS_EmptySet, FS_Singleton DEF KeysInv, SavingIsOne
<1> QED BY <1>1, <1>2, <1>3 DEF KeysPanelIsHonest, OneSavePerKey, PutsOf

(* What the person typed for the server of a key is what its fields say, and
   one save of a key is under way at most, for any keys, models and calls. *)
THEOREM KeysPanelStaysHonest == KeysSpec => []KeysPanelIsHonest
BY KeysInvInit, KeysInvStep, KeysInvIsEnough, PTL DEF KeysSpec

-----------------------------------------------------------------------------
(***************************************************************************)
(* The assistant, for any texts, AIs and pages of controls, and any bounds *)
(* on the turns of a conversation and on the cards of a turn.              *)
(***************************************************************************)
Roles == {"user", "assistant"}
Talk == [step : {"none", "sent", "aborted"}, ai : Ais \cup {NoValue}, said : Seq(Roles)]

(* The turns t of a conversation: cards that ran as a whole or not, and answers
   that are about a question. *)
CardIsWhole(card) == card.ran = IF card.state = "applied" THEN Len(Operations[card.name]) ELSE 0
CardsOf(t) ==
    \A i \in DOMAIN t : Len(t[i].cards) <= MaxCards /\ \A c \in DOMAIN t[i].cards : CardIsWhole(t[i].cards[c])
Answers(t) == \A i \in DOMAIN t \ {1} : t[i].role = "assistant" => t[i - 1].role = "user"
Turned(t) == t \in Seq(Turn) /\ Len(t) <= MaxTurns /\ CardsOf(t) /\ Answers(t)

LastIs(t, role) == Len(t) > 0 /\ t[Len(t)].role = role

(* What is asked waits at the end of the conversation for its answer, or is back
   in the field. *)
OwedIsKept ==
    owed /= NoValue =>
        IF Talking THEN turns[Len(turns)].text = owed /\ input = "" ELSE input = owed

SaidIsAsked ==
    talk.said /= <<>> => talk.said[1] = "user" /\ talk.said[Len(talk.said)] = "user"

TalkInv ==
    /\ talk \in Talk /\ Turned(turns)
    /\ input \in Texts \cup {""} /\ owed \in Texts \cup {NoValue}
    /\ Talking => LastIs(turns, "user") /\ owed /= NoValue
    /\ OwedIsKept
    /\ SaidIsAsked

PrefsInv ==
    /\ prefs \in Prefs /\ stored \in Prefs /\ forgotten \in BOOLEAN /\ open \in BOOLEAN
    /\ forgotten => stored.ai = NoValue
    /\ prefs.ai = NoValue => talk.step /= "sent"

RestInv == isAudio \in BOOLEAN /\ usable \in {{}} \cup Pages /\ moves \in 0..MaxTalk

AssistantInv == TalkInv /\ PrefsInv /\ RestInv

LEMMA TurnIsTyped ==
    ASSUME NEW t \in Seq(Turn)
    PROVE  /\ Len(t) \in Nat /\ DOMAIN t = 1..Len(t)
           /\ \A i \in 1..Len(t) :
                t[i] \in Turn /\ t[i].role \in Roles /\ t[i].text \in Texts \cup {NoValue} /\ t[i].cards \in Seq(Card)
<1>1. \A i \in 1..Len(t) : t[i] \in Turn
  OBVIOUS
<1> QED BY <1>1 DEF Turn, Roles

LEMMA AddTurnIs ==
    ASSUME Turned(turns), NEW added \in Turn, Len(added.cards) <= MaxCards,
           \A c \in DOMAIN added.cards : CardIsWhole(added.cards[c]),
           added.role = "assistant" => LastIs(turns, "user")
    PROVE  /\ Turned(AddTurn(added)) /\ Len(AddTurn(added)) > 0
           /\ AddTurn(added)[Len(AddTurn(added))] = added
<1> DEFINE all == Append(turns, added)
           s == IF Len(all) > MaxTurns THEN Len(all) - MaxTurns + 1 ELSE 1
           n == Len(turns) + 1
           t == AddTurn(added)
<1>1. turns \in Seq(Turn) /\ Len(turns) \in Nat /\ Len(turns) <= MaxTurns /\ MaxTurns \in Nat \ {0}
  BY TalkBoundsAssumption DEF Turned
<1>2. /\ all \in Seq(Turn) /\ Len(all) = n /\ all[n] = added
      /\ \A i \in 1..Len(turns) : all[i] = turns[i]
  BY <1>1, AppendProperties
<1> HIDE DEF all
<1>3. n \in Nat /\ s \in {1, 2} /\ s <= n /\ n - s + 1 <= MaxTurns
  BY <1>1, <1>2
<1>4. t = SubSeq(all, s, n)
  BY <1>2 DEF AddTurn, all
<1> HIDE DEF s, t
<1>5. \A i \in s..n : all[i] \in Turn
  BY <1>2, <1>3
<1>6. t \in Seq(Turn) /\ Len(t) = n - s + 1 /\ \A i \in 1..(n - s + 1) : t[i] = all[s + i - 1]
  <2>1. s \in Int /\ n \in Int
    BY <1>3
  <2> QED BY <1>3, <1>4, <1>5, <2>1, SubSeqProperties
<1>7. Len(t) = n - s + 1 /\ Len(t) <= MaxTurns /\ Len(t) \in Nat /\ Len(t) > 0 /\ DOMAIN t = 1..Len(t)
  BY <1>3, <1>6
<1>8. t[Len(t)] = added
  <2>1. s + Len(t) - 1 = n
    BY <1>3, <1>7
  <2> QED BY <1>2, <1>6, <1>7, <2>1
<1>9. ASSUME NEW i \in 1..Len(t)
      PROVE  (i = Len(t) /\ t[i] = added) \/ (s + i - 1 \in 1..Len(turns) /\ t[i] = turns[s + i - 1])
  <2>1. CASE i = Len(t)
    BY <1>8, <2>1
  <2>2. CASE i /= Len(t)
    <3>1. s + i - 1 \in 1..Len(turns)
      BY <1>1, <1>3, <1>7, <2>2
    <3> QED BY <1>2, <1>6, <1>7, <3>1
  <2> QED BY <2>1, <2>2
<1>10. CardsOf(t)
  BY <1>1, <1>7, <1>9, TurnIsTyped DEF CardsOf, Turned
<1>11. ASSUME NEW i \in (1..Len(t)) \ {1}, t[i].role = "assistant" PROVE t[i - 1].role = "user"
  <2>1. i - 1 \in 1..Len(t) /\ i - 1 /= Len(t)
    BY <1>7
  <2>2. s + (i - 1) - 1 \in 1..Len(turns) /\ t[i - 1] = turns[s + (i - 1) - 1]
    BY <1>9, <2>1
  <2>3. CASE i = Len(t)
    <3>1. LastIs(turns, "user")
      BY <1>8, <1>11, <2>3
    <3>2. s + (i - 1) - 1 = Len(turns)
      BY <1>1, <1>3, <1>7, <2>3
    <3> QED BY <2>2, <3>1, <3>2 DEF LastIs
  <2>4. CASE i /= Len(t)
    <3>1. s + i - 1 \in 1..Len(turns) /\ t[i] = turns[s + i - 1]
      BY <1>9, <2>4
    <3>2. s + i - 1 \in DOMAIN turns \ {1} /\ (s + i - 1) - 1 = s + (i - 1) - 1
      BY <1>1, <1>3, <1>7, <3>1
    <3>3. turns[(s + i - 1) - 1].role = "user"
      BY <1>11, <3>1, <3>2 DEF Turned, Answers
    <3> QED BY <2>2, <3>2, <3>3
  <2> QED BY <2>3, <2>4
<1>12. Answers(t)
  BY <1>7, <1>11 DEF Answers
<1> QED BY <1>6, <1>7, <1>8, <1>10, <1>12 DEF Turned, t

(* What reaches the AI begins and ends with the person, for the first message
   of the person is the first or the second turn. *)
LEMMA HeardIsAsked ==
    ASSUME NEW t, Turned(t), LastIs(t, "user")
    PROVE  Heard(t) \in Seq(Roles) /\ Heard(t)[1] = "user" /\ Heard(t)[Len(Heard(t))] = "user"
<1> DEFINE questions == {i \in DOMAIN t : t[i].role = "user"}
           first == CHOOSE i \in questions : \A j \in questions : i <= j
           n == Len(t) - first + 1
<1>1. t \in Seq(Turn) /\ Len(t) \in Nat /\ DOMAIN t = 1..Len(t) /\ (\A i \in 1..Len(t) : t[i].role \in Roles)
  BY TurnIsTyped DEF Turned
<1>2. Len(t) \in questions /\ questions \subseteq 1..Len(t)
  BY <1>1 DEF LastIs
<1>3. 1 \in questions \/ (1 \notin questions /\ 2 \in questions)
  <2>1. CASE 1 \notin questions
    <3>1. Len(t) >= 2 /\ t[1].role /= "user"
      BY <1>1, <1>2, <2>1
    <3>2. t[2].role \in Roles /\ 2 \in DOMAIN t \ {1}
      BY <1>1, <3>1
    <3>3. t[2].role = "assistant" => t[1].role = "user"
      BY <3>2 DEF Turned, Answers
    <3> QED BY <2>1, <3>1, <3>2, <3>3 DEF Roles
  <2> QED BY <2>1
<1>4. \E i \in questions : \A j \in questions : i <= j
  BY <1>2, <1>3
<1>5. first \in questions
  BY <1>4
<1>6. Heard(t) = [i \in 1..n |-> t[first + i - 1].role]
  BY DEF Heard
<1> HIDE DEF first, questions
<1>7. first \in 1..Len(t) /\ t[first].role = "user" /\ n \in Nat /\ n > 0 /\ first + n - 1 = Len(t)
  BY <1>1, <1>2, <1>5 DEF questions
<1>8. \A i \in 1..n : first + i - 1 \in 1..Len(t)
  BY <1>1, <1>7
<1> HIDE DEF n
<1>9. \A i \in 1..n : t[first + i - 1].role \in Roles
  BY <1>1, <1>8
<1>10. Heard(t) \in [1..n -> Roles]
  BY <1>6, <1>9
<1>11. Heard(t) \in Seq(Roles) /\ Len(Heard(t)) = n
  BY <1>7, <1>10
<1>12. 1 \in 1..n /\ n \in 1..n /\ first + 1 - 1 = first
  BY <1>7
<1>13. Heard(t)[1] = t[first].role /\ Heard(t)[n] = t[Len(t)].role
  BY <1>6, <1>7, <1>12
<1> QED BY <1>7, <1>11, <1>13 DEF LastIs

LEMMA OperationsAreFew ==
    ASSUME NEW name \in DOMAIN Operations
    PROVE  Len(Operations[name]) \in 0..3 /\ DOMAIN Operations[name] = 1..Len(Operations[name])
<1>1. name \in {"go_to_step", "translate", "dub", "burn", "download_srt"}
  BY DEF Operations
<1>2. CASE name = "go_to_step"
  <2>1. Operations[name] = <<"next">>
    BY <1>2 DEF Operations
  <2> QED BY <2>1
<1>3. CASE name = "translate"
  <2>1. Operations[name] = <<"translate-provider", "translate-target", "translate-start">>
    BY <1>3 DEF Operations
  <2> QED BY <2>1
<1>4. CASE name = "dub"
  <2>1. Operations[name] = <<"dub-provider", "dub-start">>
    BY <1>4 DEF Operations
  <2> QED BY <2>1
<1>5. CASE name = "burn"
  <2>1. Operations[name] = <<"burn-start">>
    BY <1>5 DEF Operations
  <2> QED BY <2>1
<1>6. CASE name = "download_srt"
  <2>1. Operations[name] = <<"dl-srt">>
    BY <1>6 DEF Operations
  <2> QED BY <2>1
<1> QED BY <1>1, <1>2, <1>3, <1>4, <1>5, <1>6

LEMMA MovesAreTyped ==
    ASSUME AssistantInv, Move PROVE moves' \in 0..MaxTalk
BY TalkBoundsAssumption DEF AssistantInv, RestInv, Move

(* Nothing of the conversation changes, but that its call may be aborted. *)
LEMMA TalkStays ==
    ASSUME TalkInv, UNCHANGED <<input, owed, turns>>, talk' = talk \/ Aborts PROVE TalkInv'
<1>1. talk \in Talk
  BY DEF TalkInv
<1>2. talk' \in Talk /\ talk'.said = talk.said /\ (Talking' <=> Talking)
  BY <1>1 DEF Aborts, Talk, Talking
<1> QED BY <1>2 DEF TalkInv, Turned, CardsOf, Answers, OwedIsKept, SaidIsAsked

LEMMA NoTalkIs == NoTalk \in Talk /\ NoTalk.step = "none" /\ NoTalk.said = <<>>
BY DEF NoTalk, Talk

LEMMA WritesTextKeeps ==
    ASSUME AssistantInv, NEW x \in Texts, WritesText(x) PROVE AssistantInv'
<1>1. TalkInv'
  BY DEF AssistantInv, WritesText, TalkInv, Talking, Turned, CardsOf, Answers, OwedIsKept, SaidIsAsked
<1>2. PrefsInv' /\ RestInv'
  BY MovesAreTyped DEF AssistantInv, WritesText, PrefsInv, RestInv, prefVars, pageVars
<1> QED BY <1>1, <1>2 DEF AssistantInv

LEMMA SendsKeeps ==
    ASSUME AssistantInv, Sends PROVE AssistantInv'
<1> DEFINE added == [role |-> "user", text |-> input, cards |-> <<>>]
<1>1. input \in Texts /\ added \in Turn /\ Len(added.cards) = 0 /\ DOMAIN added.cards = {}
  <2>1. <<>> \in Seq(Card) /\ Len(<<>>) = 0 /\ DOMAIN <<>> = {}
    OBVIOUS
  <2> QED BY <2>1 DEF AssistantInv, TalkInv, Sends, Turn
<1>2. turns' = AddTurn(added) /\ added.role = "user" /\ added.text = input
  BY DEF Sends
<1> HIDE DEF added
<1>3. Turned(turns') /\ Len(turns') > 0 /\ turns'[Len(turns')] = added
  <2>1. Turned(turns) /\ added.role /= "assistant"
    BY <1>2 DEF AssistantInv, TalkInv
  <2>3. Len(added.cards) <= MaxCards
    BY <1>1, TalkBoundsAssumption
  <2>2. \A c \in DOMAIN added.cards : CardIsWhole(added.cards[c])
    BY <1>1
  <2> QED BY <1>1, <1>2, <2>1, <2>2, <2>3, AddTurnIs
<1>4. LastIs(turns', "user")
  BY <1>2, <1>3 DEF LastIs
<1>5. /\ talk' = [step |-> "sent", ai |-> prefs.ai, said |-> Heard(turns')]
      /\ prefs.ai \in Ais /\ input' = "" /\ owed' = input
      /\ UNCHANGED <<prefVars, open, pageVars, moves>>
  BY DEF Sends, AssistantInv, PrefsInv, Prefs
<1>6. talk' \in Talk /\ talk'.step = "sent" /\ talk'.said = Heard(turns')
  BY <1>3, <1>4, <1>5, HeardIsAsked DEF Talk
<1>7. SaidIsAsked'
  BY <1>3, <1>4, <1>6, HeardIsAsked DEF SaidIsAsked
<1>8. OwedIsKept'
  BY <1>2, <1>3, <1>5, <1>6 DEF OwedIsKept, Talking
<1>9. Turned(turns)' /\ LastIs(turns, "user")'
  BY <1>3, <1>4
<1>10. TalkInv'
  BY <1>1, <1>5, <1>6, <1>7, <1>8, <1>9, TalkValuesAssumption DEF TalkInv
<1>11. PrefsInv' /\ RestInv'
  BY <1>5, TalkValuesAssumption DEF AssistantInv, PrefsInv, RestInv, prefVars, pageVars
<1> QED BY <1>10, <1>11 DEF AssistantInv

LEMMA AnsweredKeeps ==
    ASSUME AssistantInv, Answered PROVE AssistantInv'
<1>1. PICK n \in 0..MaxCards : \E names \in [1..n -> DOMAIN Operations] :
        turns' = AddTurn(
             [role |-> "assistant", text |-> NoValue,
              cards |-> [i \in 1..n |-> [name |-> names[i], state |-> "pending", ran |-> 0]]])
  BY DEF Answered
<1>0. PICK names \in [1..n -> DOMAIN Operations] :
        turns' = AddTurn(
             [role |-> "assistant", text |-> NoValue,
              cards |-> [i \in 1..n |-> [name |-> names[i], state |-> "pending", ran |-> 0]]])
  BY <1>1
<1> DEFINE cards == [i \in 1..n |-> [name |-> names[i], state |-> "pending", ran |-> 0]]
           added == [role |-> "assistant", text |-> NoValue, cards |-> cards]
<1>2. n \in Nat /\ n <= MaxCards
  BY TalkBoundsAssumption
<1>3. \A i \in 1..n : cards[i] \in Card /\ CardIsWhole(cards[i])
  BY DEF Card, CardIsWhole
<1>4. cards \in [1..n -> Card]
  BY <1>3
<1> HIDE DEF cards
<1>5. cards \in Seq(Card) /\ Len(cards) = n /\ DOMAIN cards = 1..n
  BY <1>2, <1>4
<1>6. added \in Turn /\ added.cards = cards
  BY <1>5 DEF Turn
<1>7. LastIs(turns, "user") /\ Turned(turns)
  BY DEF AssistantInv, TalkInv, Talking, Answered
<1>8. Turned(turns')
  BY <1>0, <1>2, <1>3, <1>5, <1>6, <1>7, AddTurnIs DEF cards
<1>9. talk' = NoTalk /\ owed' = NoValue /\ input' = input /\ UNCHANGED <<prefVars, open, pageVars, moves>>
  BY DEF Answered
<1>10. ~Talking' /\ SaidIsAsked' /\ OwedIsKept' /\ talk' \in Talk
  BY <1>9, NoTalkIs DEF Talking, SaidIsAsked, OwedIsKept
<1>11. TalkInv'
  BY <1>8, <1>9, <1>10 DEF AssistantInv, TalkInv
<1>12. PrefsInv' /\ RestInv'
  BY <1>9, NoTalkIs DEF AssistantInv, PrefsInv, RestInv, prefVars, pageVars
<1> QED BY <1>11, <1>12 DEF AssistantInv

LEMMA TalkFailsKeeps ==
    ASSUME AssistantInv, TalkFails PROVE AssistantInv'
<1> DEFINE n == Len(turns)
<1>1. Turned(turns) /\ LastIs(turns, "user") /\ Talking
  BY DEF AssistantInv, TalkInv, Talking, TalkFails
<1>2. turns \in Seq(Turn) /\ n \in Nat /\ n > 0 /\ DOMAIN turns = 1..n /\ turns[n].text \in Texts \cup {NoValue}
  BY <1>1, TurnIsTyped DEF Turned, LastIs
<1>3. turns' = SubSeq(turns, 1, n - 1) /\ input' = IF input = "" THEN turns[n].text ELSE input
  BY DEF TalkFails, PutBack
<1>4. /\ turns' \in Seq(Turn) /\ Len(turns') = n - 1 /\ DOMAIN turns' = 1..(n - 1)
      /\ \A i \in 1..(n - 1) : turns'[i] = turns[i]
  <2>1. 1 \in Int /\ n - 1 \in Int /\ \A i \in 1..(n - 1) : turns[i] \in Turn
    BY <1>2, TurnIsTyped
  <2>2. /\ SubSeq(turns, 1, n - 1) \in Seq(Turn)
        /\ Len(SubSeq(turns, 1, n - 1)) = IF 1 <= n - 1 THEN (n - 1) - 1 + 1 ELSE 0
        /\ \A i \in 1..((n - 1) - 1 + 1) : SubSeq(turns, 1, n - 1)[i] = turns[1 + i - 1]
    BY <2>1, SubSeqProperties
  <2>3. /\ (IF 1 <= n - 1 THEN (n - 1) - 1 + 1 ELSE 0) = n - 1 /\ (n - 1) - 1 + 1 = n - 1
        /\ \A i \in 1..(n - 1) : 1 + i - 1 = i
    BY <1>2
  <2>4. turns' \in Seq(Turn) /\ Len(turns') = n - 1 /\ \A i \in 1..(n - 1) : turns'[i] = turns[i]
    BY <1>3, <2>2, <2>3
  <2> QED BY <2>4
<1>5. CardsOf(turns')
  BY <1>1, <1>2, <1>4 DEF Turned, CardsOf
<1>6. Answers(turns')
  BY <1>1, <1>2, <1>4 DEF Turned, Answers
<1>7. Turned(turns)'
  BY <1>1, <1>2, <1>4, <1>5, <1>6, TalkBoundsAssumption DEF Turned
<1>8. talk' = NoTalk /\ owed' = owed /\ UNCHANGED <<prefVars, open, pageVars, moves>>
  BY DEF TalkFails
<1>9. owed \in Texts /\ turns[n].text = owed /\ input = ""
  BY <1>1 DEF AssistantInv, TalkInv, OwedIsKept
<1>10. ~Talking' /\ SaidIsAsked' /\ talk' \in Talk
  BY <1>8, NoTalkIs DEF Talking, SaidIsAsked
<1>11. input' = owed /\ OwedIsKept'
  BY <1>3, <1>8, <1>9, <1>10 DEF OwedIsKept
<1>12. TalkInv'
  BY <1>7, <1>8, <1>9, <1>10, <1>11 DEF AssistantInv, TalkInv
<1>13. PrefsInv' /\ RestInv'
  BY <1>8, NoTalkIs DEF AssistantInv, PrefsInv, RestInv, prefVars, pageVars
<1> QED BY <1>12, <1>13 DEF AssistantInv

LEMMA TalkAbortedKeeps ==
    ASSUME AssistantInv, TalkAborted PROVE AssistantInv'
<1>1. talk' = NoTalk /\ owed' = NoValue /\ UNCHANGED <<prefVars, open, input, turns, pageVars, moves>>
  BY DEF TalkAborted
<1>2. ~Talking' /\ SaidIsAsked' /\ OwedIsKept' /\ talk' \in Talk
  BY <1>1, NoTalkIs DEF Talking, SaidIsAsked, OwedIsKept
<1>3. TalkInv'
  BY <1>1, <1>2 DEF AssistantInv, TalkInv, Turned, CardsOf, Answers
<1>4. PrefsInv' /\ RestInv'
  BY <1>1, NoTalkIs DEF AssistantInv, PrefsInv, RestInv, prefVars, pageVars
<1> QED BY <1>3, <1>4 DEF AssistantInv

(* The panel and the AI of the person, in this tab or in another one. *)
PrefsMove ==
    \/ OpenPanel \/ ClosePanel \/ ForgetAi \/ DismissAssistant \/ RestoreAssistant \/ OtherTab
    \/ \E ai \in Ais : SaveAi(ai)

LEMMA PrefsChange ==
    ASSUME NEW p \in Prefs, NEW ai \in Ais \cup {NoValue}, NEW hidden \in BOOLEAN
    PROVE  /\ [p EXCEPT !.ai = ai] \in Prefs /\ [p EXCEPT !.ai = ai].ai = ai
           /\ [p EXCEPT !.hidden = hidden] \in Prefs /\ [p EXCEPT !.hidden = hidden].ai = p.ai
BY DEF Prefs

LEMMA PrefsMoveKeeps ==
    ASSUME AssistantInv, PrefsMove PROVE AssistantInv'
<1>1. Move /\ UNCHANGED <<input, owed, turns, pageVars>> /\ (talk' = talk \/ Aborts)
  BY DEF PrefsMove, OpenPanel, ClosePanel, ForgetAi, DismissAssistant, RestoreAssistant, OtherTab, SaveAi, talkVars
<1>2. TalkInv' /\ RestInv'
  BY <1>1, TalkStays, MovesAreTyped DEF AssistantInv, RestInv, pageVars
<1>3. PrefsInv /\ talk \in Talk /\ NoValue \notin Ais
  BY TalkValuesAssumption DEF AssistantInv, TalkInv
<1>4. ASSUME OpenPanel \/ ClosePanel PROVE PrefsInv'
  <2>1. UNCHANGED <<prefs, stored, forgotten, talk>> /\ open' \in BOOLEAN
    BY <1>4 DEF OpenPanel, ClosePanel, prefVars, talkVars
  <2> QED BY <1>3, <2>1 DEF PrefsInv
<1>5. ASSUME NEW ai \in Ais, SaveAi(ai) PROVE PrefsInv'
  <2>1. /\ prefs' = [prefs EXCEPT !.ai = ai] /\ stored' = prefs' /\ forgotten' = FALSE
        /\ UNCHANGED <<open, talk>>
    BY <1>5 DEF SaveAi, talkVars
  <2>2. prefs' \in Prefs /\ prefs'.ai /= NoValue
    BY <1>3, <2>1, PrefsChange DEF PrefsInv
  <2> QED BY <1>3, <2>1, <2>2 DEF PrefsInv
<1>6. ASSUME ForgetAi PROVE PrefsInv'
  <2>1. talk'.step /= "sent"
    BY <1>3, <1>6 DEF ForgetAi, Aborts, Talk
  <2>2. /\ prefs' = [prefs EXCEPT !.ai = NoValue] /\ stored' = [stored EXCEPT !.ai = NoValue]
        /\ forgotten' = TRUE /\ open' = open
    BY <1>6 DEF ForgetAi
  <2>3. prefs' \in Prefs /\ stored' \in Prefs /\ stored'.ai = NoValue
    BY <1>3, <2>2, PrefsChange DEF PrefsInv
  <2> QED BY <1>3, <2>1, <2>2, <2>3 DEF PrefsInv
<1>7. ASSUME DismissAssistant PROVE PrefsInv'
  <2>1. talk'.step /= "sent"
    BY <1>3, <1>7 DEF DismissAssistant, Aborts, Talk
  <2>2. /\ prefs' = [prefs EXCEPT !.hidden = TRUE] /\ stored' = [stored EXCEPT !.hidden = TRUE]
        /\ forgotten' = forgotten /\ open' = FALSE
    BY <1>7 DEF DismissAssistant, Keeps
  <2>3. prefs' \in Prefs /\ stored' \in Prefs /\ stored'.ai = stored.ai
    BY <1>3, <2>2, PrefsChange DEF PrefsInv
  <2> QED BY <1>3, <2>1, <2>2, <2>3 DEF PrefsInv
<1>8. ASSUME RestoreAssistant PROVE PrefsInv'
  <2>1. /\ prefs' = [prefs EXCEPT !.hidden = FALSE] /\ stored' = [stored EXCEPT !.hidden = FALSE]
        /\ forgotten' = forgotten /\ open' = TRUE /\ talk' = talk
    BY <1>8 DEF RestoreAssistant, Keeps, talkVars
  <2>2. prefs' \in Prefs /\ prefs'.ai = prefs.ai /\ stored' \in Prefs /\ stored'.ai = stored.ai
    BY <1>3, <2>1, PrefsChange DEF PrefsInv
  <2> QED BY <1>3, <2>1, <2>2 DEF PrefsInv
<1>9. ASSUME OtherTab PROVE PrefsInv'
  <2>1. PICK ai \in Ais \cup {NoValue} : stored' = [stored EXCEPT !.ai = ai] /\ forgotten' = (ai = NoValue)
    BY <1>9 DEF OtherTab
  <2>2. UNCHANGED <<prefs, open, talk>>
    BY <1>9 DEF OtherTab, talkVars
  <2>3. stored' \in Prefs /\ stored'.ai = ai
    BY <1>3, <2>1, PrefsChange DEF PrefsInv
  <2> QED BY <1>3, <2>1, <2>2, <2>3 DEF PrefsInv
<1> QED BY <1>2, <1>4, <1>5, <1>6, <1>7, <1>8, <1>9 DEF AssistantInv, PrefsMove

LEMMA NoTurnsAreTurned == Turned(<<>>)
BY TalkBoundsAssumption DEF Turned, CardsOf, Answers

LEMMA ReloadsKeeps ==
    ASSUME AssistantInv, Reloads PROVE AssistantInv'
<1>1. /\ prefs' = stored /\ open' = FALSE /\ input' = "" /\ owed' = NoValue /\ turns' = <<>> /\ talk' = NoTalk
      /\ usable' = {} /\ isAudio' = FALSE /\ UNCHANGED <<stored, forgotten>> /\ Move
  BY DEF Reloads
<1>2. ~Talking' /\ SaidIsAsked' /\ OwedIsKept' /\ talk' \in Talk /\ Turned(turns)'
  BY <1>1, NoTalkIs, NoTurnsAreTurned DEF Talking, SaidIsAsked, OwedIsKept
<1>3. TalkInv'
  BY <1>1, <1>2 DEF TalkInv
<1>4. PrefsInv' /\ RestInv'
  BY <1>1, NoTalkIs, MovesAreTyped DEF AssistantInv, PrefsInv, RestInv
<1> QED BY <1>3, <1>4 DEF AssistantInv

LEMMA PageChangesKeeps ==
    ASSUME AssistantInv, PageChanges PROVE AssistantInv'
<1>1. UNCHANGED <<prefVars, open, talkVars>> /\ Move /\ usable' \in Pages /\ isAudio' \in BOOLEAN
  BY DEF PageChanges
<1>2. TalkInv' /\ PrefsInv' /\ RestInv'
  BY <1>1, TalkStays, MovesAreTyped DEF AssistantInv, PrefsInv, RestInv, prefVars, talkVars
<1> QED BY <1>2 DEF AssistantInv

(* A card of a turn gets another state, whole as the one before. *)
LEMMA CardKeeps ==
    ASSUME AssistantInv, NEW i \in DOMAIN turns, NEW c \in DOMAIN turns[i].cards,
           NEW card \in Card, CardIsWhole(card), turns' = [turns EXCEPT ![i].cards[c] = card],
           Move, UNCHANGED <<prefVars, open, input, owed, talk, pageVars>>
    PROVE  AssistantInv'
<1> DEFINE cards == [turns[i].cards EXCEPT ![c] = card]
           added == [turns[i] EXCEPT !.cards = cards]
<1>1. turns \in Seq(Turn) /\ Len(turns) \in Nat /\ Len(turns) <= MaxTurns /\ CardsOf(turns) /\ Answers(turns)
  BY TurnIsTyped DEF AssistantInv, TalkInv, Turned
<1>2. i \in 1..Len(turns) /\ turns[i] \in Turn /\ turns[i].cards \in Seq(Card) /\ DOMAIN turns = 1..Len(turns)
  BY <1>1, TurnIsTyped
<1>3. /\ cards \in Seq(Card) /\ Len(cards) = Len(turns[i].cards) /\ DOMAIN cards = DOMAIN turns[i].cards
      /\ \A k \in DOMAIN cards : cards[k] = IF k = c THEN card ELSE turns[i].cards[k]
  BY <1>2
<1>4. turns' = [turns EXCEPT ![i] = added]
  BY <1>1
<1> HIDE DEF cards
<1>5. added \in Turn /\ added.cards = cards /\ added.role = turns[i].role /\ added.text = turns[i].text
  BY <1>2, <1>3 DEF Turn
<1> HIDE DEF added
<1>6. /\ turns' \in Seq(Turn) /\ Len(turns') = Len(turns) /\ DOMAIN turns' = DOMAIN turns
      /\ \A k \in DOMAIN turns : turns'[k] = IF k = i THEN added ELSE turns[k]
  <2>1. i \in 1..Len(turns) /\ added \in Turn
    BY <1>2, <1>5
  <2>2. /\ [turns EXCEPT ![i] = added] \in Seq(Turn) /\ Len([turns EXCEPT ![i] = added]) = Len(turns)
        /\ \A k \in 1..Len(turns) : [turns EXCEPT ![i] = added][k] = IF k = i THEN added ELSE turns[k]
    BY <1>1, <2>1, ExceptSeq
  <2> QED BY <1>2, <1>4, <2>2
<1>7. \A k \in DOMAIN turns : turns'[k].role = turns[k].role /\ turns'[k].text = turns[k].text
  BY <1>5, <1>6
<1>8. CardsOf(turns')
  BY <1>1, <1>3, <1>5, <1>6 DEF CardsOf
<1>9. Answers(turns')
  <2>1. \A k \in DOMAIN turns \ {1} : k - 1 \in DOMAIN turns
    BY <1>1, <1>2
  <2> QED BY <1>1, <1>6, <1>7, <2>1 DEF Answers
<1>10. Turned(turns)' /\ (LastIs(turns, "user") => LastIs(turns, "user")')
  BY <1>1, <1>2, <1>6, <1>7, <1>8, <1>9 DEF Turned, LastIs
<1>11. OwedIsKept'
  <2>1. Len(turns') = Len(turns) /\ (LastIs(turns, "user") => Len(turns) \in DOMAIN turns)
    BY <1>1, <1>2, <1>6 DEF LastIs
  <2> QED BY <1>7, <2>1 DEF AssistantInv, TalkInv, OwedIsKept, Talking
<1>12. TalkInv'
  BY <1>10, <1>11 DEF AssistantInv, TalkInv, Talking, SaidIsAsked
<1>13. PrefsInv' /\ RestInv'
  BY MovesAreTyped DEF AssistantInv, PrefsInv, RestInv, prefVars, pageVars
<1> QED BY <1>12, <1>13 DEF AssistantInv

LEMMA CardIsTyped ==
    ASSUME AssistantInv, NEW i \in DOMAIN turns, NEW c \in DOMAIN turns[i].cards
    PROVE  turns[i].cards[c] \in Card /\ CardIsWhole(turns[i].cards[c])
<1>1. turns \in Seq(Turn) /\ CardsOf(turns)
  BY DEF AssistantInv, TalkInv, Turned
<1>2. turns[i].cards \in Seq(Card)
  BY <1>1, TurnIsTyped
<1> QED BY <1>1, <1>2 DEF CardsOf

(* What is checked before anything is touched is there when it is touched. *)
LEMMA ReadyRunsWhole ==
    ASSUME NEW ops, Len(ops) \in Nat, DOMAIN ops = 1..Len(ops), Ready(ops) PROVE Ran(ops) = Len(ops)
<1> DEFINE reached == {n \in 0..Len(ops) : \A i \in 1..n : ops[i] \in usable}
           most == CHOOSE n \in reached : \A m \in reached : m <= n
<1>1. reached = 0..Len(ops)
  BY DEF Ready
<1>2. Len(ops) \in reached /\ \A m \in reached : m <= Len(ops)
  BY <1>1
<1>3. most \in reached /\ \A m \in reached : m <= most
  BY <1>2
<1> HIDE DEF most, reached
<1>4. most \in Int /\ most <= Len(ops) /\ Len(ops) <= most
  BY <1>1, <1>2, <1>3
<1> QED BY <1>4 DEF Ran, most, reached

LEMMA AppliesKeeps ==
    ASSUME AssistantInv, NEW i \in DOMAIN turns, NEW c \in DOMAIN turns[i].cards, Applies(i, c)
    PROVE  AssistantInv'
<1> DEFINE card == turns[i].cards[c]
           ops == Operations[card.name]
           tried == Ready(ops) /\ ~(card.name = "burn" /\ isAudio)
           n == IF tried THEN Ran(ops) ELSE 0
           done == [[card EXCEPT !.ran = n] EXCEPT !.state = IF tried /\ n = Len(ops) THEN "applied" ELSE "failed"]
<1>1. card \in Card
  BY CardIsTyped
<1>2. Len(ops) \in 0..3 /\ DOMAIN ops = 1..Len(ops)
  BY <1>1, OperationsAreFew DEF Card
<1>3. tried \in BOOLEAN /\ n = (IF tried THEN Len(ops) ELSE 0)
  BY <1>2, ReadyRunsWhole
<1>4. turns' = [turns EXCEPT ![i].cards[c] = done]
  BY DEF Applies
<1>5. Move /\ UNCHANGED <<prefVars, open, input, owed, talk, pageVars>>
  BY DEF Applies
<1> HIDE DEF n
<1>6. done \in Card /\ done.name = card.name /\ done.ran = n
      /\ done.state = IF tried /\ n = Len(ops) THEN "applied" ELSE "failed"
  <2>1. n \in 0..3
    BY <1>2, <1>3
  <2> QED BY <1>1, <2>1 DEF Card
<1>7. CardIsWhole(done)
  <2>1. Len(ops) = n => (IF tried THEN n ELSE 0) = n
    BY <1>3
  <2> QED BY <1>2, <1>3, <1>6, <2>1 DEF CardIsWhole
<1> HIDE DEF done
<1> QED BY <1>4, <1>5, <1>6, <1>7, CardKeeps

LEMMA DismissCardKeeps ==
    ASSUME AssistantInv, NEW i \in DOMAIN turns, NEW c \in DOMAIN turns[i].cards, DismissCard(i, c)
    PROVE  AssistantInv'
<1> DEFINE card == turns[i].cards[c]
           done == [card EXCEPT !.state = "dismissed"]
<1>1. card \in Card /\ CardIsWhole(card) /\ card.state = "pending"
  BY CardIsTyped DEF DismissCard, IsPending
<1>2. turns' = [turns EXCEPT ![i].cards[c] = done]
  BY DEF DismissCard
<1>3. Move /\ UNCHANGED <<prefVars, open, input, owed, talk, pageVars>>
  BY DEF DismissCard
<1>4. done \in Card /\ CardIsWhole(done)
  BY <1>1 DEF Card, CardIsWhole
<1> HIDE DEF done
<1> QED BY <1>2, <1>3, <1>4, CardKeeps

LEMMA AssistantInvInit == AssistantInit => AssistantInv
<1> SUFFICES ASSUME AssistantInit PROVE AssistantInv
  OBVIOUS
<1>1. ~Talking /\ SaidIsAsked /\ OwedIsKept /\ talk \in Talk /\ Turned(turns)
  BY NoTalkIs, NoTurnsAreTurned DEF AssistantInit, Talking, SaidIsAsked, OwedIsKept
<1>2. TalkInv
  BY <1>1 DEF AssistantInit, TalkInv
<1>3. stored = [hidden |-> FALSE, ai |-> NoValue] /\ prefs = stored /\ forgotten = TRUE /\ open = FALSE /\ talk = NoTalk
  BY DEF AssistantInit
<1>4. stored \in Prefs /\ stored.ai = NoValue
  BY <1>3 DEF Prefs
<1>5. PrefsInv
  BY <1>3, <1>4, NoTalkIs DEF PrefsInv
<1>6. RestInv
  <2>1. usable = {} /\ isAudio = FALSE /\ moves = 0
    BY DEF AssistantInit
  <2>2. 0 \in 0..MaxTalk
    BY TalkBoundsAssumption
  <2> QED BY <2>1, <2>2 DEF RestInv
<1> QED BY <1>2, <1>5, <1>6 DEF AssistantInv

LEMMA AssistantInvStep == AssistantInv /\ [AssistantNext]_assistantVars => AssistantInv'
<1> SUFFICES ASSUME AssistantInv, [AssistantNext]_assistantVars PROVE AssistantInv'
  OBVIOUS
<1>1. CASE (\E x \in Texts : WritesText(x)) \/ Sends \/ Answered \/ TalkFails \/ TalkAborted
  BY <1>1, WritesTextKeeps, SendsKeeps, AnsweredKeeps, TalkFailsKeeps, TalkAbortedKeeps
<1>2. CASE PrefsMove \/ Reloads \/ PageChanges
  BY <1>2, PrefsMoveKeeps, ReloadsKeeps, PageChangesKeeps
<1>3. CASE \E i \in DOMAIN turns : \E c \in DOMAIN turns[i].cards : Applies(i, c) \/ DismissCard(i, c)
  BY <1>3, AppliesKeeps, DismissCardKeeps
<1>4. CASE UNCHANGED assistantVars
  BY <1>4, TalkStays DEF AssistantInv, PrefsInv, RestInv, assistantVars, prefVars, talkVars, pageVars
<1> QED BY <1>1, <1>2, <1>3, <1>4 DEF AssistantNext, PrefsMove

LEMMA AssistantInvIsEnough == AssistantInv => AssistantOnlyProposes
<1> SUFFICES ASSUME AssistantInv PROVE AssistantOnlyProposes
  OBVIOUS
<1>1. turns \in Seq(Turn) /\ CardsOf(turns) /\ Answers(turns) /\ Len(turns) <= MaxTurns
  BY DEF AssistantInv, TalkInv, Turned
<1>2. AssistantTypeOK
  BY <1>1 DEF AssistantInv, TalkInv, PrefsInv, RestInv, Talk, CardsOf, AssistantTypeOK
<1>3. ForgottenStaysForgotten
  BY DEF AssistantInv, PrefsInv, ForgottenStaysForgotten
<1>4. owed /= NoValue =>
         LET questions == turns /= <<>> /\ turns[Len(turns)].role = "user" /\ turns[Len(turns)].text = owed
         IN  IF Talking THEN questions /\ input = "" ELSE input = owed
  <2>1. LastIs(turns, "user") => turns /= <<>>
    BY <1>1 DEF LastIs
  <2> QED BY <2>1 DEF AssistantInv, TalkInv, OwedIsKept, LastIs
<1>5. NothingAskedIsLost
  BY <1>1, <1>4 DEF AssistantInv, TalkInv, SaidIsAsked, Answers, NothingAskedIsLost
<1>6. CardsAreWhole
  BY <1>1 DEF CardsOf, CardIsWhole, CardsAreWhole
<1> QED BY <1>2, <1>3, <1>5, <1>6 DEF AssistantOnlyProposes

(* A key that was forgotten stays forgotten, nothing that was asked is lost, and
   what is proposed happens as a whole or not at all, for any texts, AIs and
   controls and however long the conversation may be. *)
THEOREM AssistantProposes == AssistantSpec => []AssistantOnlyProposes
BY AssistantInvInit, AssistantInvStep, AssistantInvIsEnough, PTL DEF AssistantSpec
=============================================================================

------------------------------- MODULE WebPage ------------------------------
(***************************************************************************)
(* The page that uploads and forgets (ui/app.js), composed with the quotas *)
(* of the gateway: the queue of files (domain/batch.js), the upload under  *)
(* way (domain/upload-state.js, api/upload.js), what the page learns of    *)
(* each file before it plans its upload (ui/quick-mode.js, domain/plan.js) *)
(* and the burns it chains when a transcription ends (ui/follow-up.js).    *)
(*                                                                         *)
(* The stream of the tracked job is Tracker's; here it shows the job's row *)
(* whenever it likes.  Closing the tab loses the page and is left out.     *)
(***************************************************************************)
EXTENDS Quotas, Sequences, SequencesExt

CONSTANTS
    Chosen,         \* the files the person has just selected
    Media,          \* what there is to read of each file; 0 seconds: it does not say
    VerticalMax,    \* limits.verticalMaxSeconds of the server
    Offered,        \* bound on what the person chooses
    MaxWanted,      \* bound on the turns, a multiple of the chained burns there can be at once
    MaxGestures     \* bound on what the person does, but for the first "Generate" of what is
                    \* shown, and on the answers that are lost

ASSUME PageBoundsAssumption == MaxGestures \in Nat /\ MaxWanted \in Nat \ {0}

Profiles == {"vertical", "podcast", "meeting", "quick-clip", "standard"}
ByHand == {"by hand", "burn by hand", "vertical by hand"}
Choice == {"auto"} \cup Profiles \cup ByHand

ASSUME MediaAssumption ==
    /\ Media \in [File -> [audio: BOOLEAN, portrait: BOOLEAN, seconds: Nat]]
    /\ VerticalMax \in Nat \ {0}
ASSUME OfferedAssumption == Offered \subseteq Choice
ASSUME ChosenAssumption == Chosen \in Seq(File) /\ \A i, k \in DOMAIN Chosen : i /= k => Chosen[i] /= Chosen[k]

VARIABLES
    batch,      \* the queue: key, file and status of each item
    nextKey,    \* the key of the next item
    probe,      \* quick mode's entries by key: the file it read, or is reading, and how that went
    restarted,  \* history: the queue took the place of one whose files had been dealt with
    choice,     \* auto, a profile, or the controls: what the person chose for every file
    phase,      \* UploadState.phase
    beginning,  \* begin waits for the files being read
    mine,       \* the page's upload, None when there is none
    waiting,    \* the countdown that a 429 or a 503 imposes
    planned,    \* for the upload under way: whether it chains a burn, whether the entry of its
                \* key had been read, and whether what was read was its own file
    tracked,    \* the job the page follows, 0 when none
    wanted,     \* the transcriptions whose end chains a burn, in order
    turn,       \* follow-up's turn, and the answer of the poll under way
    polled,
    asked,      \* how often each burn was asked for
    gestures

queueVars == <<batch, nextKey, probe, restarted, choice, phase, beginning, mine, waiting, planned>>
chainVars == <<tracked, wanted, turn, polled, asked>>
vars == <<serverVars, queueVars, chainVars, gestures>>

ItemStatus == {"pending", "uploading", "done", "error", "cancelled"}
Phases == {"idle", "uploading", "finalizing", "queued", "error", "cancelled"}
Reading == {"reading", "read", "unread"}
Unplanned == [burn |-> FALSE, known |-> FALSE, own |-> FALSE]
NoPoll == [job |-> 0, status |-> "none"]

KeysOf(b) == {b[i].key : i \in DOMAIN b}

(* Every variable has its type, quick mode has an entry for each key of    *)
(* the queue, and the page has an upload exactly while it shows one.       *)
TypeOK ==
    /\ QuotaTypeOK
    /\ batch \in Seq([key: Nat, file: File, status: ItemStatus])
    /\ nextKey \in Nat
    /\ probe \in [KeysOf(batch) -> [file: File, facts: Reading]]
    /\ choice \in Choice
    /\ phase \in Phases
    /\ mine \in IF phase \in {"uploading", "finalizing"} THEN Request ELSE {None}
    /\ {restarted, beginning, waiting} \subseteq BOOLEAN
    /\ planned \in [burn: BOOLEAN, known: BOOLEAN, own: BOOLEAN]
    /\ tracked \in 0..MaxJobs
    /\ wanted \in Seq(JobId)
    /\ turn \in Nat
    /\ polled \in [job: 0..MaxJobs, status: {"none", "asked"} \cup {"COMPLETED", "FAILED"} \cup Pending]
    /\ asked \in [JobId -> Nat]
    /\ gestures \in 0..MaxGestures

Init ==
    /\ QuotaInit
    /\ batch = [i \in DOMAIN Chosen |-> [key |-> i, file |-> Chosen[i], status |-> "pending"]]
    /\ nextKey = Len(Chosen) + 1
    /\ probe = [i \in DOMAIN Chosen |-> [file |-> Chosen[i], facts |-> "reading"]]
    /\ restarted = FALSE
    /\ choice = "auto"
    /\ phase = "idle"
    /\ mine = None
    /\ beginning = FALSE /\ waiting = FALSE
    /\ planned = Unplanned
    /\ tracked = 0
    /\ wanted = <<>> /\ turn = 0 /\ polled = NoPoll
    /\ asked = [j \in JobId |-> 0]
    /\ gestures = 0

Gesture == gestures < MaxGestures /\ gestures' = gestures + 1

-----------------------------------------------------------------------------
(* domain/batch.js.                                                        *)
Files(b) == {b[i].file : i \in DOMAIN b}
Open == {"pending", "error", "cancelled"}
Some(S) == \E i \in DOMAIN batch : batch[i].status \in S
First(S) == CHOOSE i \in DOMAIN batch : batch[i].status \in S /\ \A k \in 1..(i - 1) : batch[k].status \notin S
HasCurrent == Some(Open \cup {"uploading"})
Current == batch[First(IF Some({"uploading"}) THEN {"uploading"} ELSE Open)]
Marked(f, s) ==
    [i \in DOMAIN batch |-> IF batch[i].file = f THEN [batch[i] EXCEPT !.status = s] ELSE batch[i]]
Without(f) == RemoveAt(batch, CHOOSE i \in DOMAIN batch : batch[i].file = f)

(* domain/upload-state.js, and what render locks.                          *)
Busy == phase \in {"uploading", "finalizing"}
Locked == Busy \/ phase = "queued"

(* A phase other than "error" has no countdown (renderError).              *)
Enter(p, mustWait) ==
    /\ phase' = p
    /\ waiting' = (p = "error" /\ mustWait)

(***************************************************************************)
(* quick-mode.js, track: the file of an item is read once its key enters   *)
(* the queue, and what was read is forgotten with the key.  A key that is  *)
(* there is not looked at again, whatever file it stands for now: the keys *)
(* of a new queue start at 1 again (emptyBatch).                           *)
(***************************************************************************)
Tracking(b) ==
    probe' = [k \in KeysOf(b) |->
                IF k \in DOMAIN probe THEN probe[k]
                ELSE [file |-> (CHOOSE x \in Range(b) : x.key = k).file, facts |-> "reading"]]

(* probeMedia: no metadata in time, or none that the browser reads.         *)
Facts(k) ==
    /\ k \in DOMAIN probe /\ probe[k].facts = "reading"
    /\ \E s \in {"read", "unread"} : probe' = [probe EXCEPT ![k].facts = s]
    /\ UNCHANGED <<serverVars, batch, nextKey, restarted, choice, phase, beginning, mine, waiting, planned,
                   chainVars, gestures>>

Known(k) == probe[k].facts \in {"read", "unread"}
FactsOf(k) ==
    LET x == Media[probe[k].file]
    IN IF probe[k].facts = "read" THEN x ELSE [x EXCEPT !.seconds = 0, !.portrait = FALSE]

(* intent.js: the first rule that fits.                                    *)
Analyze(x) ==
    CASE x.seconds = 0 -> "standard"
      [] x.audio -> IF x.seconds >= 300 THEN "podcast" ELSE "standard"
      [] x.portrait -> IF x.seconds <= VerticalMax THEN "vertical" ELSE "standard"
      [] x.seconds >= 1200 -> "meeting"
      [] x.seconds < 180 -> "quick-clip"
      [] OTHER -> "standard"

(* profiles.js: only a burn is chained, and none that may be refused.       *)
FollowUpFor(profile, x) ==
    \/ profile = "quick-clip"
    \/ profile = "vertical" /\ x.seconds \in 1..VerticalMax

(* themes.js: with an unknown duration the server decides.                 *)
Unavailable(c, x) == c = "vertical by hand" /\ x.seconds > VerticalMax

(* plan.js.                                                                *)
Chains(k) ==
    LET x == FactsOf(k) IN
    CASE choice = "auto" -> Known(k) /\ FollowUpFor(Analyze(x), x)
      [] choice \in Profiles -> FollowUpFor(choice, x)
      [] choice \in ByHand -> choice /= "by hand" /\ ~(Known(k) /\ x.audio) /\ ~Unavailable(choice, x)

(* A control or the profile selector: it decides for every file.           *)
Choose(c) ==
    /\ Gesture /\ ~Locked
    /\ c /= choice
    /\ choice' = c
    /\ UNCHANGED <<serverVars, batch, nextKey, probe, restarted, phase, beginning, mine, waiting, planned, chainVars>>

(* selectFiles: after the last one has been dealt with, a new queue, whose *)
(* keys start again.  One file at a time.                                  *)
SelectFile(f) ==
    /\ Gesture /\ ~Locked
    /\ HasCurrent => f \notin Files(batch)
    /\ LET key == IF HasCurrent THEN nextKey ELSE 1
           b == Append(IF HasCurrent THEN batch ELSE <<>>, [key |-> key, file |-> f, status |-> "pending"])
       IN /\ batch' = b
          /\ nextKey' = key + 1
          /\ Tracking(b)
    /\ IF HasCurrent THEN UNCHANGED <<restarted, phase, waiting>>
       ELSE restarted' = (batch /= <<>>) /\ Enter("idle", FALSE)
    /\ UNCHANGED <<serverVars, choice, beginning, mine, planned, chainVars>>

(* The button of a row, or of the only file: that one leaves what it shows. *)
RemoveFile(f) ==
    /\ Gesture /\ ~Locked
    /\ \E i \in DOMAIN batch : batch[i].file = f /\ batch[i].status \in Open
    /\ batch' = Without(f)
    /\ Tracking(Without(f))
    /\ IF Len(batch) = 1 THEN Enter("idle", FALSE) ELSE UNCHANGED <<phase, waiting>>
    /\ UNCHANGED <<serverVars, nextKey, restarted, choice, beginning, mine, planned, chainVars>>

(* A choice made with the controls stays, a profile does not (reset).      *)
StartOver ==
    /\ Gesture /\ phase \in {"error", "cancelled", "queued"}
    /\ batch' = <<>>
    /\ nextKey' = 1 /\ restarted' = FALSE
    /\ Tracking(<<>>)
    /\ choice' = IF choice \in ByHand THEN choice ELSE "auto"
    /\ Enter("idle", FALSE)
    /\ tracked' = 0
    /\ UNCHANGED <<serverVars, beginning, mine, planned, wanted, turn, polled, asked>>

(* openJob: a job of the history takes the panel.                          *)
OpenJob(j) ==
    /\ Gesture /\ ~Busy /\ j \in Rows
    /\ Enter("idle", FALSE)
    /\ tracked' = j
    /\ UNCHANGED <<serverVars, batch, nextKey, probe, restarted, choice, beginning, mine, planned, wanted, turn, polled, asked>>

CountdownEnds ==
    /\ waiting
    /\ waiting' = FALSE
    /\ UNCHANGED <<serverVars, batch, nextKey, probe, restarted, choice, phase, beginning, mine, planned, chainVars, gestures>>

-----------------------------------------------------------------------------
(***************************************************************************)
(* begin, up to its await: "Generate", and "Retry", which is a gesture.    *)
(* The next file of the queue begins by itself (Accepted).                 *)
(***************************************************************************)
(* Any request that is free stands for a new one.                          *)
NextRequest ==
    LET free == {r \in Request : up[r].step = "idle"}
    IN IF free = {} THEN {} ELSE {CHOOSE r \in free : TRUE}

MayBegin == HasCurrent /\ ~Busy /\ ~waiting /\ ~beginning

Start ==
    /\ MayBegin /\ phase /= "queued"
    /\ IF phase = "idle" THEN UNCHANGED gestures ELSE Gesture
    /\ beginning' = TRUE
    /\ UNCHANGED <<serverVars, batch, nextKey, probe, restarted, choice, phase, mine, waiting, planned, chainVars>>

SettledMutant == \E k \in DOMAIN probe : Known(k)

(* quick.settled: nothing is being read, whatever was added meanwhile.     *)
Settled == \A k \in DOMAIN probe : Known(k)

(* begin, after its await.                                                 *)
Begin ==
    /\ beginning /\ Settled
    /\ beginning' = FALSE
    /\ IF HasCurrent /\ ~Busy /\ ~waiting
       THEN \E r \in NextRequest :
            /\ up' = [up EXCEPT ![r] = [NoUpload EXCEPT !.step = "asked", !.file = Current.file]]
            /\ mine' = r
            /\ batch' = Marked(Current.file, "uploading")
            /\ planned' = [burn |-> Chains(Current.key), known |-> Known(Current.key),
                           own |-> probe[Current.key].file = Current.file]
            /\ Enter("uploading", FALSE)
            /\ tracked' = 0
       ELSE UNCHANGED <<batch, mine, planned, phase, waiting, tracked, up>>
    /\ UNCHANGED <<job, burn, quotaVars, nextKey, probe, restarted, choice, wanted, turn, polled, asked, gestures>>

(* upload.onload: the last byte is on its way.                             *)
Sent ==
    /\ phase = "uploading" /\ up[mine].step \in {"receiving", "answered"}
    /\ Enter("finalizing", FALSE)
    /\ UNCHANGED <<serverVars, batch, nextKey, probe, restarted, choice, beginning, mine, planned, chainVars, gestures>>

MoreMutant(b) == FALSE

(* summaryOf(batch).pending > 0.                                           *)
More(b) == \E i \in DOMAIN b : b[i].status = "pending"

(***************************************************************************)
(* The 202.  The file is done, its job is followed, its chained burn is    *)
(* registered and the next file begins.                                    *)
(***************************************************************************)
Accepted ==
    LET r == up[mine] IN
    /\ Busy /\ r.step = "answered" /\ r.error = None
    /\ batch' = Marked(r.file, "done")
    /\ Enter("queued", FALSE)
    /\ up' = [up EXCEPT ![mine] = NoUpload]
    /\ mine' = None
    /\ planned' = Unplanned
    /\ wanted' = IF planned.burn THEN Append(wanted, r.job) ELSE wanted
    /\ tracked' = r.job
    /\ beginning' = (beginning \/ More(batch'))
    /\ UNCHANGED <<job, burn, quotaVars, nextKey, probe, restarted, choice, turn, polled, asked, gestures>>

(***************************************************************************)
(* The upload ends without a job that the page knows of: it is refused, it *)
(* loses its answer, or the person cancels it.  The server goes on with a  *)
(* request that nobody waits for.                                          *)
(***************************************************************************)
Fails(s) ==
    /\ batch' = Marked(up[mine].file, s)
    /\ mine' = None
    /\ planned' = Unplanned
    /\ UNCHANGED <<serverVars, nextKey, probe, restarted, choice, beginning, chainVars>>

UploadRefused ==
    /\ Busy /\ up[mine].step = "answered" /\ up[mine].error /= None
    /\ Fails("error")
    /\ Enter("error", up[mine].error \in {"rate_limited", "busy"})
    /\ UNCHANGED gestures

AnswerLost == Gesture /\ Busy /\ Fails("error") /\ Enter("error", FALSE)

CancelUpload == Gesture /\ phase = "uploading" /\ Fails("cancelled") /\ Enter("cancelled", FALSE)

Forgotten(r) ==
    /\ up[r].step = "answered" /\ r /= mine
    /\ up' = [up EXCEPT ![r] = NoUpload]
    /\ UNCHANGED <<job, burn, quotaVars, queueVars, chainVars, gestures>>

(* Another tab of the tenant uploads.                                      *)
OtherUploads(r) ==
    /\ Gesture /\ r \in NextRequest
    /\ up' = [up EXCEPT ![r].step = "asked"]
    /\ UNCHANGED <<job, burn, quotaVars, queueVars, chainVars>>

-----------------------------------------------------------------------------
ForgottenFirstMutant(j) == wanted

(* follow-up.js.  fire forgets the chaining before it awaits the server.   *)
ForgottenFirst(j) == RemoveAt(wanted, CHOOSE i \in DOMAIN wanted : wanted[i] = j)
OnJob(j, s) ==
    IF j \notin Range(wanted) \/ s \in Pending
    THEN UNCHANGED <<wanted, burn, asked>>
    ELSE /\ wanted' = ForgottenFirst(j)
         /\ IF s = "COMPLETED"
            THEN /\ asked' = [asked EXCEPT ![j] = @ + 1]
                 /\ burn' = [burn EXCEPT ![j] = IF @ = "idle" THEN "asked" ELSE @]
            ELSE UNCHANGED <<burn, asked>>

(* renderJob: the tracked job, as its stream shows it.                     *)
TrackerShows ==
    /\ tracked /= 0 /\ tracked \in Range(wanted)
    /\ OnJob(tracked, job[tracked].status)
    /\ wanted' /= wanted \/ asked' /= asked
    /\ UNCHANGED <<job, up, quotaVars, queueVars, tracked, turn, polled, gestures>>

(* tick: one of the wanted ones at a time, in turns.                       *)
Picked == wanted[(turn % Len(wanted)) + 1]

Tick ==
    /\ polled.job = 0 /\ wanted /= <<>>
    /\ polled' = [job |-> Picked, status |-> "asked"]
    /\ turn' = (turn + 1) % MaxWanted
    /\ UNCHANGED <<serverVars, queueVars, tracked, wanted, asked, gestures>>

PollRead ==
    /\ polled.status = "asked"
    /\ polled' = [polled EXCEPT !.status = job[polled.job].status]
    /\ UNCHANGED <<serverVars, queueVars, tracked, wanted, turn, asked, gestures>>

PollAnswered ==
    /\ polled.status \notin {"none", "asked"}
    /\ OnJob(polled.job, polled.status)
    /\ polled' = NoPoll
    /\ UNCHANGED <<job, up, quotaVars, queueVars, tracked, turn, gestures>>

(* The poll fails: another turn will come.                                 *)
PollFails ==
    /\ Gesture /\ polled.status = "asked"
    /\ polled' = NoPoll
    /\ UNCHANGED <<serverVars, queueVars, tracked, wanted, turn, asked>>

(* onStarted, or onProblem when it was refused or its answer was lost.     *)
BurnAnswered(j) ==
    /\ burn[j] \in {"started", "refused"}
    /\ burn' = [burn EXCEPT ![j] = "told"]
    /\ UNCHANGED <<job, up, quotaVars, queueVars, chainVars, gestures>>

PageProgress ==
    \/ \E k \in DOMAIN probe : Facts(k)
    \/ CountdownEnds \/ Begin \/ Sent \/ Accepted \/ UploadRefused
    \/ \E r \in Request : Forgotten(r)
    \/ TrackerShows \/ Tick \/ PollRead \/ PollAnswered
    \/ \E j \in JobId : BurnAnswered(j)

Server == (\E r \in Request : UploadStep(r)) \/ (\E j \in JobId : BurnStep(j))

Next ==
    \/ \E c \in Offered : Choose(c)
    \/ \E f \in File : SelectFile(f) \/ RemoveFile(f)
    \/ StartOver \/ Start \/ AnswerLost \/ CancelUpload \/ PollFails
    \/ \E j \in JobId : OpenJob(j)
    \/ \E r \in Request : OtherUploads(r)
    \/ PageProgress
    \/ Server /\ UNCHANGED <<queueVars, chainVars, gestures>>
    \/ (HourStarts \/ \E j \in JobId : JobEnds(j)) /\ UNCHANGED <<queueVars, chainVars, gestures>>

Spec == Init /\ [][Next]_vars

-----------------------------------------------------------------------------
(* What a tenant has under way stays within the limits, however pages and  *)
(* tabs race (tenant-quota.service.ts, concurrency-limiter.ts).            *)
LimitsHold == TypeOK /\ QueueWithinReach /\ UploadsWithinHour /\ BodiesWithinLimit

(* fire: the burn of a transcription is chained once, though its end comes *)
(* to the page by the tracked stream and by the polls.                     *)
OneBurnPerFile == \A j \in JobId : asked[j] <= 1

(* track, settled: no upload is planned before what quick mode has under   *)
(* its key has been read, also when files come and go while begin waits;   *)
(* and that is the file itself, in the queue that was there first and in   *)
(* every one begun after startOver or with nothing left.  In a queue that  *)
(* replaces one whose files have been dealt with it may be a file of that  *)
(* one: keys start again, entries stay (app.js:380, quick-mode.js:272).    *)
PlannedWithFacts == Busy => planned.known /\ (planned.own \/ restarted)

(* What the page does by itself it does once, and knowing what it does     *)
(* (follow-up.js:53, app.js:272).                                          *)
ActsOnceAndInformed == OneBurnPerFile /\ PlannedWithFacts

(* begin: after a file has been accepted the form is locked: the files     *)
(* still pending must go on by themselves.                                 *)
QueueGoesOn == phase = "queued" /\ HasCurrent => beginning
=============================================================================

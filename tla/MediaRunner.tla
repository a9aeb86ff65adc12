----------------------------- MODULE MediaRunner ----------------------------
(***************************************************************************)
(* What a worker does with the jobs it claims, one at a time: the runners  *)
(* of the four kinds (transcribe.py, burn.py, translate.py, dub.py) with   *)
(* their child processes and threads, the ways a job is stopped            *)
(* (worker.py), and the work directory it shares with other workers        *)
(* (workdir.py).  A step that is under way is not interrupted by the       *)
(* cancel event, which the runner looks at after it; only an abort, of a   *)
(* person or of the worker's end, cancels the runner at once.              *)
(***************************************************************************)
EXTENDS ProviderCalls

CONSTANTS
    Works,          \* the jobs that may come: kind, options, and the pieces of text they send
    MaxCleanings    \* bound on the starts of other workers on the volume

ASSUME WorksAssumption ==
    /\ Works \subseteq [kind: {"transcribe", "burn", "translate", "dub"}, external: BOOLEAN, clean: BOOLEAN,
                       diarize: BOOLEAN, mix: BOOLEAN, into: BOOLEAN, pieces: Nat]
    /\ MaxCleanings \in Nat

VARIABLES
    n,          \* the job in hand, and how many have been taken
    work,       \* its kind and options
    phase,      \* of _process: "idle", "claimed", "running", "over"
    plan,       \* the steps left, the first one under way if `doing`
    doing,
    cancel,     \* the cancel event
    late,       \* costly steps begun with the event set
    whisper,    \* ModelProvider: "none", loaded by a runner, or by a thread whose runner is gone
    stray,      \* such threads: the steps they are in
    dirs,       \* work_dir/<jobId>
    beating,    \* the jobs whose updatedAt is recent
    cleaner     \* clean_stale_work of another worker: its step, candidates, those alive

jobVars == <<n, work, phase, plan, doing, cancel, late, whisper, stray>>
dirVars == <<dirs, beating, cleaner>>
vars == <<row, channelVars, loanVars, dns, callVars, jobVars, dirVars>>

Idle == [kind |-> "none", external |-> FALSE, clean |-> FALSE, diarize |-> FALSE,
         mix |-> FALSE, into |-> FALSE, pieces |-> 0]
CleanerOff == [step |-> "off", listed |-> {}, alive |-> {}, starts |-> 0]

TypeOK ==
    /\ KeyTypeOK /\ CallTypeOK
    /\ n \in 0..MaxJobs /\ work \in Works \cup {Idle}
    /\ phase \in {"idle", "claimed", "running", "over"}
    /\ doing \in BOOLEAN /\ cancel \in BOOLEAN /\ late \in Nat
    /\ whisper \in {"none", "loaded", "stray"} /\ stray \subseteq {"load", "whisper"}
    /\ dirs \subseteq Job /\ beating \subseteq Job
    /\ cleaner.step \in {"off", "listed", "asked"} /\ cleaner.listed \cup cleaner.alive \subseteq Job

Init ==
    /\ KeyInit /\ CallInit
    /\ n = 0 /\ work = Idle /\ phase = "idle" /\ plan = <<>>
    /\ doing = FALSE /\ cancel = FALSE /\ late = 0
    /\ whisper = "none" /\ stray = {}
    /\ dirs = {} /\ beating = {} /\ cleaner = CleanerOff
-----------------------------------------------------------------------------
When(c, steps) == IF c THEN steps ELSE <<>>
Times(k, steps) == [i \in 1..(k * Len(steps)) |-> steps[((i - 1) % Len(steps)) + 1]]

(* The steps of each runner, in order.                                     *)
TranscribePlan(w) ==
    <<"video", "extract">> \o When(w.clean, <<"clean">>) \o <<"model", "load", "whisper">>
        \o When(w.diarize, <<"diarize">>) \o When(w.into, <<"text">>) \o <<"upload">>
BurnPlan == <<"segments", "video", "burn", "upload">>
TranslatePlan(w) ==
    <<"segments">> \o When(w.external, <<"lease">>) \o Times(w.pieces, <<IF w.external THEN "call" ELSE "text">>)
        \o <<"upload">>
DubPlan(w) ==
    <<"segments">> \o When(w.mix, <<"video">>) \o <<"lease">> \o Times(w.pieces, <<"call", "fit">>)
        \o <<"track">> \o When(w.mix, <<"mix">>) \o <<"upload">>

PlanOf(w) ==
    CASE w.kind = "transcribe" -> TranscribePlan(w)
      [] w.kind = "burn" -> BurnPlan
      [] w.kind = "translate" -> TranslatePlan(w)
      [] w.kind = "dub" -> DubPlan(w)

At(s) == phase = "running" /\ plan /= <<>> /\ Head(plan) = s
Doing(s) == At(s) /\ doing
Children == {"clean", "diarize"}
Plainly == {"segments", "video", "extract", "model", "text", "fit", "track", "mix", "burn", "upload"}

(* Nor after a phrase has been spoken. *)
UncheckedMutant == {"lease", "load", "call"}

(* After these the runner goes on without looking at the event.            *)
Unchecked == {"lease", "load"}

(* These begin as soon as the event has been looked at, without a report   *)
(* that is waited for in between.                                          *)
AtOnce == {"load", "fit"}

(* The finally of run and of what it was inside: the lease is left, the    *)
(* child is dead, the directory is removed.                                *)
Leave ==
    /\ phase' = "over" /\ plan' = <<>> /\ doing' = FALSE
    /\ LeaveLease /\ call' = NoCall /\ sent' = NoRequest
    /\ dirs' = dirs \ {n}

(* _check after a step; then the next one, out of the block that holds the *)
(* key if it was the last one in it.                                       *)
LastInBlock == Head(plan) \in {"call", "fit"} /\ plan[2] \notin {"call", "fit"}
GoesOn ==
    IF Len(plan) = 1 \/ (cancel /\ Head(plan) \notin Unchecked) THEN Leave
    ELSE /\ plan' = Tail(plan) /\ doing' = (plan[2] \in AtOnce)
         /\ call' = NoCall
         /\ IF LastInBlock THEN LeaveLease /\ sent' = NoRequest ELSE UNCHANGED <<loanVars, sent>>
         /\ UNCHANGED <<phase, dirs>>
-----------------------------------------------------------------------------
(* claim: the row of the next job, unless it was closed while it waited.   *)
Take ==
    /\ phase = "idle" /\ n < MaxJobs
    /\ n' = n + 1 /\ cancel' = FALSE /\ late' = 0
    /\ IF row[n + 1] = "QUEUED"
       THEN /\ row' = [row EXCEPT ![n + 1] = "RUNNING"]
            /\ beating' = beating \cup {n + 1}
            /\ work' \in Works /\ phase' = "claimed"
       ELSE UNCHANGED <<row, beating, work, phase>>
    /\ UNCHANGED <<channelVars, loanVars, dns, callVars, plan, doing, whisper, stray, dirs, cleaner>>

(* run: the directory of the job, and its first step.                      *)
Run ==
    /\ phase = "claimed"
    /\ phase' = "running" /\ plan' = PlanOf(work) /\ dirs' = dirs \cup {n}
    /\ UNCHANGED <<row, channelVars, loanVars, dns, callVars, n, work, doing, cancel, late, whisper, stray,
                   beating, cleaner>>

Costs == late' = IF cancel THEN late + 1 ELSE late

BeginPlain ==
    /\ phase = "running" /\ ~doing /\ Head(plan) \in Plainly \cup {"load", "whisper"}
    /\ doing' = TRUE /\ Costs
    /\ UNCHANGED <<row, channelVars, loanVars, dns, callVars, n, work, phase, plan, cancel, whisper, stray, dirVars>>

(* _clean, _diarize: release, then the child.                              *)
BeginChild ==
    /\ phase = "running" /\ ~doing /\ Head(plan) \in Children
    /\ whisper' = "none"
    /\ doing' = TRUE /\ Costs
    /\ UNCHANGED <<row, channelVars, loanVars, dns, callVars, n, work, phase, plan, cancel, stray, dirVars>>

(* A child that fails, stalls or takes too long is killed, and the job     *)
(* goes on without what it was to give: the same control.                  *)
StepEnds ==
    /\ phase = "running" /\ doing /\ Head(plan) \in Plainly \cup Children \cup {"whisper"}
    /\ GoesOn
    /\ UNCHANGED <<row, channelVars, dns, n, work, cancel, late, whisper, stray, beating, cleaner>>

ModelIsCached ==
    /\ At("model") /\ ~doing
    /\ GoesOn
    /\ UNCHANGED <<row, channelVars, dns, n, work, cancel, late, whisper, stray, beating, cleaner>>

(* get: the model this process keeps, loaded if it has to be.              *)
ModelLoaded ==
    /\ Doing("load")
    /\ GoesOn /\ whisper' = "loaded"
    /\ UNCHANGED <<row, channelVars, dns, n, work, cancel, late, stray, beating, cleaner>>

(* The subtitles changed or cost too much, there is no image, ffmpeg, S3,  *)
(* the download or the model fail.                                         *)
StepFails ==
    /\ phase = "running" /\ doing /\ Head(plan) \notin Children \cup {"lease", "call"}
    /\ Leave
    /\ UNCHANGED <<row, channelVars, dns, n, work, cancel, late, whisper, stray, beating, cleaner>>
-----------------------------------------------------------------------------
(* translator, voice: the key of the space, for as long as it is used.     *)
EnterLease ==
    /\ At("lease") /\ ~doing /\ AskKey
    /\ doing' = TRUE
    /\ UNCHANGED <<dns, callVars, n, work, phase, plan, cancel, late, whisper, stray, dirVars>>

(* Without a text to send, the block is left as soon as it is entered.     *)
LeaseGiven ==
    /\ Doing("lease")
    /\ IF plan[2] = "call" THEN ReadKey ELSE ReadUnusedKey
    /\ plan' = Tail(plan) /\ doing' = FALSE
    /\ UNCHANGED <<dns, callVars, n, work, phase, cancel, late, whisper, stray, dirVars>>

LeaseRefused ==
    /\ Doing("lease") /\ KeyRefused
    /\ Leave
    /\ UNCHANGED <<row, channelVars, dns, n, work, cancel, late, whisper, stray, beating, cleaner>>

Fetching ==
    /\ Doing("lease")
    /\ Handle(n) \/ Reveal \/ ChannelFails \/ AskAgain
    /\ UNCHANGED <<dns, callVars, jobVars, dirVars>>

BeginCall ==
    /\ At("call") /\ ~doing
    /\ call' = [NoCall EXCEPT !.step = "resolve"]
    /\ doing' = TRUE /\ Costs
    /\ UNCHANGED <<row, channelVars, loanVars, dns, sent, n, work, phase, plan, cancel, whisper, stray, dirVars>>

Calling == CallStep(work.kind) /\ UNCHANGED <<jobVars, dirVars>>

CallEnds ==
    /\ call.step \in {"ok", "failed"}
    /\ IF call.step = "ok" THEN GoesOn ELSE Leave
    /\ UNCHANGED <<row, channelVars, dns, n, work, cancel, late, whisper, stray, beating, cleaner>>
-----------------------------------------------------------------------------
(* touch or report finds the row closed: by the API or by the reaper.      *)
SeesClosed ==
    /\ phase \in {"claimed", "running"} /\ row[n] = "closed" /\ ~cancel
    /\ cancel' = TRUE
    /\ UNCHANGED <<row, channelVars, loanVars, dns, callVars, n, work, phase, plan, doing, late, whisper, stray,
                   dirVars>>

(* The signal: a cancellation, a lost lock, the end of the grace period.   *)
(* Children die with the runner; a thread that loads or uses Whisper stays.*)
Abort ==
    /\ phase \in {"claimed", "running"}
    /\ cancel' = TRUE /\ Leave
    /\ stray' = stray \cup {s \in {"load", "whisper"} : Doing(s)}
    /\ UNCHANGED <<row, channelVars, dns, n, work, late, whisper, beating, cleaner>>

StrayEnds(s) ==
    /\ s \in stray /\ stray' = stray \ {s}
    /\ whisper' = IF s = "load" /\ whisper = "none" THEN "stray" ELSE whisper
    /\ UNCHANGED <<row, channelVars, loanVars, dns, callVars, n, work, phase, plan, doing, cancel, late, dirVars>>

(* complete or fail: the row, unless it is closed already.                 *)
Finish ==
    /\ phase = "over"
    /\ row' = [row EXCEPT ![n] = "closed"]
    /\ phase' = "idle" /\ work' = Idle /\ cancel' = FALSE /\ late' = 0
    /\ UNCHANGED <<channelVars, loanVars, dns, callVars, n, plan, doing, whisper, stray, dirVars>>

(* The worker dies and another one takes the next job: what it had in      *)
(* memory is gone, its directory stays.                                    *)
Crash ==
    /\ phase \in {"claimed", "running"}
    /\ phase' = "idle" /\ work' = Idle /\ plan' = <<>> /\ doing' = FALSE /\ cancel' = FALSE /\ late' = 0
    /\ fetch' = NoFetch /\ lease' = NoCred /\ live' = {} /\ retired' = <<>>
    /\ call' = NoCall /\ sent' = NoRequest
    /\ whisper' = "none" /\ stray' = {}
    /\ UNCHANGED <<row, channelVars, dns, n, dirVars>>

(* The API cancels, or the reaper gives up.                                *)
RowCloses(j) ==
    /\ row[j] \in {"QUEUED", "RUNNING"} /\ row' = [row EXCEPT ![j] = "closed"]
    /\ UNCHANGED <<channelVars, loanVars, dns, callVars, jobVars, dirVars>>

(* Nobody renews the row of a job whose worker is dead.                    *)
BeatGetsOld(j) ==
    /\ j \in beating /\ row[j] = "RUNNING" /\ ~(j = n /\ phase /= "idle")
    /\ beating' = beating \ {j}
    /\ UNCHANGED <<row, channelVars, loanVars, dns, callVars, jobVars, dirs, cleaner>>
-----------------------------------------------------------------------------
(* clean_stale_work of a worker that starts on the same volume: it lists   *)
(* the directories, asks which jobs are alive, and removes the others.     *)
ListWork ==
    /\ cleaner.step = "off" /\ cleaner.starts < MaxCleanings /\ dirs /= {}
    /\ cleaner' = [cleaner EXCEPT !.step = "listed", !.listed = dirs, !.starts = @ + 1]
    /\ UNCHANGED <<dirs, beating>>

AskAlive ==
    /\ cleaner.step = "listed"
    /\ cleaner' = [cleaner EXCEPT !.step = "asked",
                       !.alive = {j \in cleaner.listed : row[j] = "RUNNING" /\ j \in beating}]
    /\ UNCHANGED <<dirs, beating>>

(* Lists again what it is about to remove. *)
RemoveStaleMutant ==
    /\ cleaner.step = "asked"
    /\ dirs' = dirs \ cleaner.alive
    /\ cleaner' = [CleanerOff EXCEPT !.starts = cleaner.starts]
    /\ UNCHANGED beating

RemoveStale ==
    /\ cleaner.step = "asked"
    /\ dirs' = dirs \ (cleaner.listed \ cleaner.alive)
    /\ cleaner' = [CleanerOff EXCEPT !.starts = cleaner.starts]
    /\ UNCHANGED beating

Clean ==
    /\ ListWork \/ AskAlive \/ RemoveStale
    /\ UNCHANGED <<row, channelVars, loanVars, dns, callVars, jobVars>>

RunnerStep ==
    \/ Take \/ Run \/ Finish
    \/ BeginPlain \/ BeginChild \/ StepEnds \/ ModelIsCached \/ ModelLoaded \/ StepFails
    \/ EnterLease \/ Fetching \/ LeaseGiven \/ LeaseRefused
    \/ BeginCall \/ Calling \/ CallEnds

Next ==
    \/ RunnerStep
    \/ SeesClosed \/ Abort \/ Crash
    \/ \E s \in stray : StrayEnds(s)
    \/ \E j \in Job : RowCloses(j) \/ BeatGetsOld(j)
    \/ Clean
    \/ OwnerChangesKey /\ UNCHANGED <<dns, callVars, jobVars, dirVars>>
    \/ NameMoves /\ UNCHANGED <<jobVars, dirVars>>

Spec == Init /\ [][Next]_vars
-----------------------------------------------------------------------------
(* What a job knows of a key is censored, and goes where it was saved for. *)
KeysAreGuarded == TypeOK /\ SecretsAreCensored /\ KeyGoesWhereItMay(work.kind)

(* A job that nobody wants any more, its event set, begins one more costly *)
(* step at most: it is looked at after each (translate.py:90-101,          *)
(* dub.py:148-160, transcribe.py:123-184).                                 *)
StopsAfterOneStep == late <= 1

(* A worker that starts does not take away the files of a job that another *)
(* one is working on (workdir.py:19-39).                                   *)
LiveWorkIsKept == phase = "running" /\ row[n] = "RUNNING" => n \in dirs

(* No child that fills the GPU starts beside the Whisper of the runner     *)
(* itself; a thread that an aborted job left behind can be there, too      *)
(* (transcribe.py:123-126, 149-154).                                       *)
WhisperIsReleasedFirst == doing /\ Head(plan) \in Children => whisper /= "loaded"

(* The files of a running job are not taken by a worker that starts, nor   *)
(* does a child of it begin beside the Whisper its runner holds.           *)
JobsDoNotCollide == LiveWorkIsKept /\ WhisperIsReleasedFirst
=============================================================================

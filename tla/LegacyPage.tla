----------------------------- MODULE LegacyPage -----------------------------
(***************************************************************************)
(* The page of the desktop application (src/legacy, static/app.js) with    *)
(* its server: choosing files, uploading them one after the other,         *)
(* following each job, editing, burning, cancelling, and what is kept in   *)
(* localStorage to go on after a reload.  Other tabs may upload and        *)
(* cancel, too.  Following a stream, what it sends is read when it comes;  *)
(* the thumbnail, the languages, the theme and the timeline are left out.  *)
(***************************************************************************)
EXTENDS LegacyJobs

CONSTANTS
    MaxFiles,   \* how many files may be chosen at once
    MaxErrors   \* MAX_SSE_RECONNECT_ATTEMPTS

ASSUME BoundsAssumption == MaxFiles \in Nat \ {0} /\ MaxErrors \in Nat

VARIABLES
    view,       \* "upload", "batch", "progress", "results" or "error"
    left,       \* how many of the chosen files are not over, or 1 for a job gone on with
    up,         \* what the upload waits for
    mine,       \* currentJobId
    watch,      \* the stream that is followed: its job, what for and its errors in a row
    editor,     \* None, or the save whose answer is awaited
    burnView,   \* what the burn waits for, or came to; "unanswered" shows its progress and waits for nothing
    pointer,    \* localStorage: the job to go on with after a reload
    history     \* localStorage: what is offered of each job

pageVars == <<view, left, up, mine, watch, editor, burnView, pointer, history>>
vars == <<serverVars, pageVars>>

NoWatch == [job |-> None, for |-> "none", errors |-> 0]

Init ==
    /\ ServerInit
    /\ view = "upload" /\ left = 0 /\ up = "idle" /\ mine = None
    /\ watch = NoWatch /\ editor = None /\ burnView = "none"
    /\ pointer = None
    /\ history = [j \in Jobs |-> "none"]

TypeOK ==
    /\ ServerTypeOK
    /\ view \in {"upload", "batch", "progress", "results", "error"}
    /\ left \in 0 .. MaxFiles
    /\ up \in {"idle", "asking", "consent", "sending", "saving", "following", "resuming"}
    /\ mine \in Jobs \cup {None} /\ pointer \in Jobs \cup {None}
    /\ watch \in [job : Jobs \cup {None}, for : {"none", "main", "item", "burn"}, errors : 0 .. MaxErrors]
    /\ editor \in Saves \cup {None}
    /\ burnView \in {"none", "asking", "accepted", "unanswered", "burning", "ready", "failed"}
    /\ history \in [Jobs -> {"none", "texts", "video"}]
-----------------------------------------------------------------------------
(* localStorage *)

SaveActive(j) == pointer' = j
ClearActive == pointer' = None

(* An entry begins without a video, and one that is gone is not updated. *)
WithEntry(j) == [history EXCEPT ![j] = "texts"]
WithVideo(entries, j) == [entries EXCEPT ![j] = IF @ = "none" THEN @ ELSE "video"]

(* renderHistory: the files the links of an entry lead to. *)
Links(j) ==
    IF history[j] = "none" THEN {}
    ELSE {"srt", "segments"} \cup (IF history[j] = "video" THEN {"video"} ELSE {})
-----------------------------------------------------------------------------
(* Choosing, asking and sending *)

Batch == view = "batch"

(* The upload button, with one file or with several. *)
Start(n) ==
    /\ view = "upload" /\ up = "idle"
    /\ left' = n
    /\ view' = IF n > 1 THEN "batch" ELSE "upload"
    /\ up' = "asking"
    /\ UNCHANGED <<serverVars, mine, watch, editor, burnView, pointer, history>>

(* A file is over, done or not: the next one of a batch begins.  After the  *)
(* failure of a single upload the form is there again.                     *)
NextFile ==
    /\ left' = left - 1
    /\ up' = IF left > 1 THEN "asking" ELSE "idle"

(* confirmModelDownload: not asked if the model is there, nor if the server  *)
(* does not say.                                                           *)
Ask ==
    /\ up = "asking"
    /\ up' = "sending" \/ (~cached /\ up' = "consent")
    /\ UNCHANGED <<serverVars, view, left, mine, watch, editor, burnView, pointer, history>>

Consent ==
    /\ up = "consent"
    /\ up' = "sending"
    /\ UNCHANGED <<serverVars, view, left, mine, watch, editor, burnView, pointer, history>>

Decline ==
    /\ up = "consent"
    /\ NextFile
    /\ UNCHANGED <<serverVars, view, mine, watch, editor, burnView, pointer, history>>

(* The request reaches the server, which takes it, or refuses it (409), or  *)
(* it gets lost before.                                                    *)
Send ==
    /\ up = "sending"
    /\ \/ \E j \in Jobs : Create(j) /\ mine' = j /\ up' = "saving" /\ UNCHANGED left
       \/ NextFile /\ UNCHANGED <<serverVars, mine>>
    /\ UNCHANGED <<view, watch, editor, burnView, pointer, history>>

(* 201: the job is followed, and found again after a reload.  An answer that *)
(* is lost is a failure, too, and nobody follows the job.                  *)
UploadAnswered ==
    /\ up = "saving" /\ work[mine] # "saving"
    /\ \/ /\ work[mine] # "unsaved"
          /\ SaveActive(mine)
          /\ watch' = [job |-> mine, for |-> IF Batch THEN "item" ELSE "main", errors |-> 0]
          /\ view' = IF Batch THEN "batch" ELSE "progress"
          /\ up' = "following"
          /\ UNCHANGED <<left, mine>>
       \/ NextFile /\ mine' = None /\ UNCHANGED <<view, watch, pointer>>
    /\ UNCHANGED <<serverVars, editor, burnView, history>>
-----------------------------------------------------------------------------
(* Following: watchJobEvents *)

(* Mutant: what was transcribed is offered with its video, burned or not. *)
OffersMutant(j) == history' = WithVideo(WithEntry(j), j)

(* showTranscriptionResults, showBurnResults *)
Offers(j) == history' = WithEntry(j)
OffersVideo(j) == history' = WithVideo(history, j)

Followed == watch.job # None
Message == Followed /\ Known(watch.job)
Status == job[watch.job].status

(* onDone *)
MainDone ==
    /\ Message /\ watch.for = "main" /\ Status \in {"done", "burned"}
    /\ Offers(watch.job)
    /\ NextFile
    /\ view' = "results"
    /\ UNCHANGED burnView

ItemDone ==
    /\ Message /\ watch.for = "item" /\ Status \in {"done", "burned"}
    /\ Offers(watch.job)
    /\ NextFile
    /\ view' = IF left = 1 THEN "results" ELSE view
    /\ UNCHANGED burnView

BurnDone ==
    /\ Message /\ watch.for = "burn" /\ Status \in {"done", "burned"}
    /\ OffersVideo(watch.job)
    /\ burnView' = "ready"
    /\ UNCHANGED <<view, left, up>>

(* onError: the next file, or the error that is shown. *)
WatchFails ==
    /\ \/ watch.for = "main" /\ NextFile /\ view' = "error" /\ UNCHANGED burnView
       \/ watch.for = "item" /\ NextFile /\ UNCHANGED <<view, burnView>>
       \/ watch.for = "burn" /\ burnView' = "failed" /\ UNCHANGED <<view, left, up>>
    /\ UNCHANGED history

Ended ==
    /\ watch' = NoWatch
    /\ \/ (MainDone \/ ItemDone \/ BurnDone) /\ UNCHANGED pointer
       \/ Message /\ Status = "error" /\ WatchFails /\ ClearActive
    /\ UNCHANGED <<serverVars, mine, editor>>

(* Any other message. *)
Progress ==
    /\ Message /\ Status \notin Final /\ watch.errors > 0
    /\ watch' = [watch EXCEPT !.errors = 0]
    /\ UNCHANGED <<serverVars, view, left, up, mine, editor, burnView, pointer, history>>

(* Mutant: a stream that is opened again and refused again is not given up. *)
TooManyMutant == Known(watch.job) /\ watch.errors + 1 >= MaxErrors

TooMany == watch.errors + 1 >= MaxErrors

(* onerror: the connection breaks, or the server does not know the job.  The *)
(* pointer stays.                                                          *)
Breaks ==
    /\ Followed
    /\ IF TooMany
       THEN watch' = NoWatch /\ WatchFails
       ELSE watch' = [watch EXCEPT !.errors = IF @ < MaxErrors THEN @ + 1 ELSE @]
            /\ UNCHANGED <<view, left, up, burnView, history>>
    /\ UNCHANGED <<serverVars, mine, editor, pointer>>
-----------------------------------------------------------------------------
(* Results *)

(* Its progress is shown at once; the server takes it, or does not.         *)
BurnClicked ==
    /\ view = "results" /\ burnView = "none"
    /\ \/ StartBurn(mine) /\ burnView' = "accepted"
       \/ burnView' = "asking" /\ UNCHANGED serverVars
    /\ UNCHANGED <<view, left, up, mine, watch, editor, pointer, history>>

(* Mutant: a burn that was taken is followed only if it is not over yet. *)
FollowsBurnMutant ==
    watch' = IF Known(mine) /\ job[mine].status \in Final THEN watch ELSE [job |-> mine, for |-> "burn", errors |-> 0]

FollowsBurn == watch' = [job |-> mine, for |-> "burn", errors |-> 0]

(* What was taken is followed, and a refusal is shown.  Without an answer    *)
(* the progress stays on the screen, and nobody catches that.              *)
BurnAnswered ==
    /\ burnView \in {"asking", "accepted"}
    /\ \/ burnView = "accepted" /\ burnView' = "burning" /\ FollowsBurn
       \/ burnView = "asking" /\ burnView' = "failed" /\ UNCHANGED watch
       \/ burnView' = "unanswered" /\ UNCHANGED watch
    /\ UNCHANGED <<serverVars, view, left, up, mine, editor, pointer, history>>

(* The save button waits for its answer; a reload does not. *)
SaveClicked ==
    /\ view = "results" /\ editor = None
    /\ \E s \in Saves : Edit(s, mine) /\ editor' = s
    /\ UNCHANGED <<view, left, up, mine, watch, burnView, pointer, history>>

SaveAnswered ==
    /\ editor # None /\ edits[editor] = Answered
    /\ editor' = None
    /\ UNCHANGED <<serverVars, view, left, up, mine, watch, burnView, pointer, history>>
-----------------------------------------------------------------------------
(* Reloading *)

Reloaded(kept) ==
    /\ view' = "upload" /\ left' = 0 /\ mine' = None
    /\ watch' = NoWatch /\ editor' = None /\ burnView' = "none"
    /\ pointer' = kept
    /\ up' = IF kept = None THEN "idle" ELSE "resuming"
    /\ UNCHANGED history

Reload == Reloaded(pointer) /\ UNCHANGED serverVars

RestartClicked == view = "results" /\ Reloaded(None) /\ UNCHANGED serverVars

(* The answer to the cancellation is not looked at. *)
CancelClicked ==
    /\ view = "progress"
    /\ Cancel(mine) \/ UNCHANGED serverVars
    /\ Reloaded(None)

(* resumeActiveJobIfAny *)
Unfinished == Active \ {"burning_subtitles"}

ResumeGone ==
    /\ ~Known(pointer)
    /\ ClearActive
    /\ UNCHANGED <<view, mine, watch, burnView, history>>

ResumeMain ==
    /\ Known(pointer) /\ job[pointer].status \in Unfinished
    /\ view' = "progress" /\ mine' = pointer
    /\ watch' = [job |-> pointer, for |-> "main", errors |-> 0]
    /\ UNCHANGED <<burnView, pointer, history>>

ResumeBurning ==
    /\ Known(pointer) /\ job[pointer].status = "burning_subtitles"
    /\ view' = "results" /\ mine' = pointer
    /\ Offers(pointer)
    /\ burnView' = "burning"
    /\ watch' = [job |-> pointer, for |-> "burn", errors |-> 0]
    /\ UNCHANGED pointer

ResumeDone ==
    /\ Known(pointer) /\ job[pointer].status \in {"done", "burned"}
    /\ view' = "results" /\ mine' = pointer
    /\ IF job[pointer].status = "burned" THEN history' = WithVideo(WithEntry(pointer), pointer) /\ burnView' = "ready"
       ELSE Offers(pointer) /\ UNCHANGED burnView
    /\ UNCHANGED <<watch, pointer>>

ResumeError ==
    /\ Known(pointer) /\ job[pointer].status = "error"
    /\ view' = "error" /\ mine' = pointer
    /\ ClearActive
    /\ UNCHANGED <<watch, burnView, history>>

Resume ==
    /\ up = "resuming"
    /\ \/ ResumeGone \/ ResumeMain \/ ResumeBurning \/ ResumeDone \/ ResumeError
       \/ UNCHANGED <<view, mine, watch, burnView, pointer, history>>
    /\ up' = IF watch'.for = "main" THEN "following" ELSE "idle"
    /\ left' = IF up' = "following" THEN 1 ELSE 0
    /\ UNCHANGED <<serverVars, editor>>
-----------------------------------------------------------------------------
(* Other tabs *)

OthersUpload == (\E j \in Jobs : Create(j)) /\ UNCHANGED pageVars
OthersCancel == (\E j \in Jobs : Cancel(j)) /\ UNCHANGED pageVars

Background == \E j \in Jobs : Work(j) \/ Burn(j)

Server ==
    /\ Background \/ (\E s \in Saves : EditStep(s)) \/ Restart
    /\ UNCHANGED pageVars

Next ==
    \/ Server \/ OthersUpload \/ OthersCancel
    \/ \E n \in 1 .. MaxFiles : Start(n)
    \/ Ask \/ Consent \/ Decline \/ Send \/ UploadAnswered
    \/ Ended \/ Progress \/ Breaks
    \/ BurnClicked \/ BurnAnswered \/ SaveClicked \/ SaveAnswered
    \/ Reload \/ RestartClicked \/ CancelClicked \/ Resume

Spec == Init /\ [][Next]_vars

(* ffmpeg has its limits (pipeline.py:86) and every thread is taken to end; *)
(* the page goes on by itself when it is answered, and a stream that breaks *)
(* is opened again by the browser.                                          *)
FairSpec ==
    /\ Spec
    /\ WF_vars(Background /\ UNCHANGED pageVars)
    /\ WF_vars(Ask \/ Send \/ UploadAnswered \/ Resume)
    /\ WF_vars(BurnAnswered)
    /\ WF_vars(Ended \/ (~Known(watch.job) /\ Breaks))
-----------------------------------------------------------------------------
(* What the history offers is there as a whole, however the work of a job   *)
(* that was cancelled or superseded, a restart of the program and a reload  *)
(* of the page cross: texts that were transcribed to their end, and a video *)
(* only once it is burned.  An old job may have been cleaned up, and an     *)
(* edit be under way or cut off by a restart (results.py:42, app.js:985).   *)
OffersWhatIsThere ==
    TypeOK /\ \A j \in Jobs :
        /\ \A file \in Links(j) \cap Serves(j) : disk[j][file] # "partial"
        /\ Known(j) /\ job[j].srtReady => {"srt", "segments"} \subseteq Serves(j)
        /\ Known(j) /\ job[j].videoReady => disk[j].video = "whole"

(* A job that was cancelled or failed stays so, and one that is burned does, *)
(* too: what goes on in the background moves no job that is over, and none   *)
(* that came after its own (jobs.py:126, pipeline.py:296).                  *)
OverIsOver ==
    [][\A j \in Jobs :
        /\ job[j].status \in {"error", "burned"} => job'[j].status = job[j].status
        /\ ~Known(j) => job'[j] = job[j]]_vars

(* Whatever becomes of a job, what the page follows comes to an end or is   *)
(* given up, and a batch comes to its last file: all it waits for is the    *)
(* person who is asked about a download.  A burn that was taken is followed *)
(* and ends like any other, unless its answer gets lost: that progress is   *)
(* followed by nobody and stays on the screen (app.js:897, 1146).           *)
Waits ==
    \/ up \notin {"idle", "consent"}
    \/ Followed
    \/ burnView \in {"asking", "accepted", "burning"}
WaitingEnds == Waits ~> ~Waits
=============================================================================

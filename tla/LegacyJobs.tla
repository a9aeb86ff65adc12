----------------------------- MODULE LegacyJobs -----------------------------
(***************************************************************************)
(* The server of the desktop application (src/legacy): the store that      *)
(* remembers one job (jobs.py), the background work that transcribes and   *)
(* burns (pipeline.py) and the routes that edit and serve its files.       *)
(*                                                                         *)
(* A cancelled job is an error at once, while its work goes on until it    *)
(* next writes to the store.  An action is what the event loop or a thread *)
(* does up to the next await.  A job is the number of its upload.          *)
(***************************************************************************)
EXTENDS Integers, FiniteSets

CONSTANTS
    Jobs,       \* 1 .. how many uploads there may be
    Saves,      \* the edits that may be saved
    None,
    Faults      \* which may happen: "ffmpeg", "model", "disk", "restart"

ASSUME NoneAssumption == None \notin Jobs \cup Saves

VARIABLES
    current,    \* the job of the store, or None
    job,        \* what the store says, or said, of each job
    work,       \* where the transcription of each job is
    burn,       \* where the burn of each job is
    edits,      \* the PUT of each save: its job and the file it writes
    disk,       \* the files of each job
    cached      \* is the model on this computer?

serverVars == <<current, job, work, burn, edits, disk, cached>>

Active == {"queued", "extracting_audio", "downloading_model", "transcribing", "burning_subtitles"}
Final == {"done", "burned", "error"}

(* Any status can also move to "error". *)
Transitions ==
    [queued |-> {"extracting_audio"},
     extracting_audio |-> {"downloading_model", "transcribing"},
     downloading_model |-> {"transcribing"},
     transcribing |-> {"done"},
     done |-> {"burning_subtitles"},
     burning_subtitles |-> {"burned"},
     burned |-> {},
     error |-> {}]

NewJob == [status |-> "queued", error |-> "none", srtReady |-> FALSE, videoReady |-> FALSE]
NoFiles == [srt |-> "none", segments |-> "none", video |-> "none"]
NoEdit == [job |-> None, at |-> "none"]
Answered == [job |-> None, at |-> "answered"]

ServerInit ==
    /\ current = None
    /\ job = [j \in Jobs |-> NewJob]
    /\ work = [j \in Jobs |-> "none"]
    /\ burn = [j \in Jobs |-> "none"]
    /\ edits = [s \in Saves |-> NoEdit]
    /\ disk = [j \in Jobs |-> NoFiles]
    /\ cached \in BOOLEAN

ServerTypeOK ==
    /\ current \in Jobs \cup {None}
    /\ job \in [Jobs -> [status : Active \cup Final, error : {"none", "cancelled", "failed"},
                         srtReady : BOOLEAN, videoReady : BOOLEAN]]
    /\ work \in [Jobs -> {"none", "saving", "unsaved", "extracting", "downloading", "downloaded", "loading",
                          "whisper", "srt", "segments", "cleaning", "end"}]
    /\ burn \in [Jobs -> {"none", "reading", "encoding", "end"}]
    /\ edits \in [Saves -> [job : Jobs \cup {None}, at : {"none", "segments", "srt", "answered"}]]
    /\ disk \in [Jobs -> [srt : {"none", "partial", "whole", "torn"},
                          segments : {"none", "partial", "whole", "torn"},
                          video : {"none", "partial", "whole"}]]
    /\ cached \in BOOLEAN
-----------------------------------------------------------------------------
(* The store.  An update or a transition of a job it no longer knows raises. *)

Known(j) == current = j

(* Mutant: a job that failed or was cancelled may go on. *)
MayMoveMutant(j, to) == Known(j) /\ (to = "error" \/ job[j].status = "error" \/ to \in Transitions[job[j].status])

MayMove(j, to) == Known(j) /\ (to = "error" \/ to \in Transitions[job[j].status])

Moves(j, to) == job' = [job EXCEPT ![j].status = to]

(* create: the next id; refused while a job is active. *)
Busy == current # None /\ job[current].status \in Active

Create(j) ==
    /\ ~Busy
    /\ work[j] = "none" /\ \A k \in Jobs : k < j => work[k] # "none"
    /\ current' = j
    /\ work' = [work EXCEPT ![j] = "saving"]
    /\ UNCHANGED <<job, burn, edits, disk, cached>>

(* cancel: what runs in the background is not stopped. *)
Cancel(j) ==
    /\ Known(j) /\ job[j].status \in Active
    /\ job' = [job EXCEPT ![j].status = "error", ![j].error = "cancelled"]
    /\ UNCHANGED <<current, work, burn, edits, disk, cached>>
-----------------------------------------------------------------------------
(* run_transcription_job *)

Goes(j, at) == work' = [work EXCEPT ![j] = at]

(* Nobody is told of a job that was cancelled or superseded. *)
Quits(j) == Goes(j, "cleaning") /\ UNCHANGED job

(* Any other exception: the message of a cancellation is overwritten, too. *)
Failed(j) ==
    IF Known(j) THEN job' = [job EXCEPT ![j].status = "error", ![j].error = "failed"] ELSE UNCHANGED job

Fails(j) == Failed(j) /\ Goes(j, "end")

(* The next status, if it may be; what follows is at "next". *)
Continues(j, to, next) ==
    \/ MayMove(j, to) /\ Moves(j, to) /\ Goes(j, next)
    \/ ~MayMove(j, to) /\ Quits(j)

(* A write that changes no status, and what follows. *)
Reports(j, next) ==
    \/ Known(j) /\ Goes(j, next) /\ UNCHANGED job
    \/ ~Known(j) /\ Quits(j)

(* The upload is on the disk: it is answered, and the work begins.  It is *)
(* refused (500) if another job took its place meanwhile.                 *)
Saved(j) ==
    /\ work[j] = "saving"
    /\ \/ Known(j) /\ Continues(j, "extracting_audio", "extracting")
       \/ ~Known(j) /\ Goes(j, "unsaved") /\ UNCHANGED job
    /\ UNCHANGED <<disk, cached>>

(* The job stays as it was created. *)
SaveFails(j) ==
    /\ "disk" \in Faults /\ work[j] = "saving"
    /\ Goes(j, "unsaved")
    /\ UNCHANGED <<job, disk, cached>>

Extracted(j) ==
    /\ work[j] = "extracting"
    /\ \/ cached /\ Continues(j, "transcribing", "loading")
       \/ ~cached /\ Continues(j, "downloading_model", "downloading")
    /\ UNCHANGED <<disk, cached>>

Downloaded(j) ==
    /\ work[j] = "downloading"
    /\ cached' = TRUE
    /\ Goes(j, "downloaded")
    /\ UNCHANGED <<job, disk>>

(* select_device.  The status is "transcribing" already if the model was cached. *)
Loaded(j) ==
    /\ \/ work[j] = "downloaded" /\ Continues(j, "transcribing", "whisper")
       \/ work[j] = "loading" /\ Reports(j, "whisper")
    /\ UNCHANGED <<disk, cached>>

(* With its translation, if one was asked for. *)
Transcribed(j) ==
    /\ work[j] = "whisper"
    /\ Goes(j, "srt")
    /\ disk' = [disk EXCEPT ![j].srt = "partial"]
    /\ UNCHANGED <<job, cached>>

SrtWritten(j) ==
    /\ work[j] = "srt"
    /\ Goes(j, "segments")
    /\ disk' = [disk EXCEPT ![j].srt = "whole", ![j].segments = "partial"]
    /\ UNCHANGED <<job, cached>>

(* srt_ready is set first, also of a job that was cancelled. *)
SegmentsWritten(j) ==
    /\ work[j] = "segments"
    /\ Goes(j, "cleaning")
    /\ disk' = [disk EXCEPT ![j].segments = "whole"]
    /\ IF Known(j)
       THEN job' = [job EXCEPT ![j].srtReady = TRUE, ![j].status = IF MayMove(j, "done") THEN "done" ELSE @]
       ELSE UNCHANGED job
    /\ UNCHANGED cached

(* Progress of a download or of Whisper, of a job that was superseded. *)
Superseded(j) ==
    /\ work[j] \in {"downloading", "whisper"} /\ ~Known(j)
    /\ Quits(j)
    /\ UNCHANGED <<disk, cached>>

(* ffmpeg fails or is stopped at a limit; the model does not fit, come or  *)
(* load; the audio or its translation fails; a file cannot be written.     *)
WorkFails(j) ==
    /\ \/ "ffmpeg" \in Faults /\ work[j] = "extracting"
       \/ "model" \in Faults /\ work[j] \in {"downloading", "downloaded", "loading", "whisper"}
       \/ "disk" \in Faults /\ work[j] \in {"srt", "segments"}
    /\ Fails(j)
    /\ UNCHANGED <<disk, cached>>

(* _cleanup_old_jobs, after work that did not raise: what was written days *)
(* ago, of jobs that have nothing under way.                               *)
Resting(j) ==
    /\ work[j] \in {"unsaved", "end"} /\ burn[j] \in {"none", "end"}
    /\ \A s \in Saves : edits[s].job # j

Cleaned(j) ==
    /\ work[j] = "cleaning"
    /\ Goes(j, "end")
    /\ \E old \in SUBSET {k \in Jobs \ {j} : ~Known(k) /\ Resting(k)} :
         disk' = [k \in Jobs |-> IF k \in old THEN NoFiles ELSE disk[k]]
    /\ UNCHANGED <<job, cached>>

Work(j) ==
    /\ \/ Saved(j) \/ SaveFails(j) \/ Extracted(j) \/ Downloaded(j) \/ Loaded(j) \/ Transcribed(j)
       \/ SrtWritten(j) \/ SegmentsWritten(j) \/ Superseded(j) \/ WorkFails(j) \/ Cleaned(j)
    /\ UNCHANGED <<current, burn, edits>>
-----------------------------------------------------------------------------
(* run_burn_job *)

Burns(j, at) == burn' = [burn EXCEPT ![j] = at]

(* burn_job: answered, and "burning_subtitles" before anything else runs. *)
StartBurn(j) ==
    /\ Known(j) /\ job[j].status = "done"
    /\ Moves(j, "burning_subtitles")
    /\ Burns(j, "reading")
    /\ UNCHANGED <<current, work, edits, disk, cached>>

Writing(j, file) == \E s \in Saves : edits[s] = [job |-> j, at |-> file]

(* The subtitles cannot be read while an edit writes them. *)
BurnRead(j) ==
    /\ burn[j] = "reading"
    /\ \/ /\ disk[j].segments = "whole"
          /\ Burns(j, "encoding")
          /\ disk' = [disk EXCEPT ![j].video = "partial"]
          /\ UNCHANGED job
       \/ /\ Writing(j, "segments") \/ disk[j].segments # "whole"
          /\ Failed(j) /\ Burns(j, "end") /\ UNCHANGED disk

Burned(j) ==
    /\ burn[j] = "encoding"
    /\ Burns(j, "end")
    /\ disk' = [disk EXCEPT ![j].video = "whole"]
    /\ IF Known(j)
       THEN job' = [job EXCEPT ![j].videoReady = TRUE, ![j].status = IF MayMove(j, "burned") THEN "burned" ELSE @]
       ELSE UNCHANGED job

(* Its progress finds that it was superseded: ffmpeg is stopped. *)
BurnStopped(j) ==
    /\ burn[j] = "encoding" /\ ~Known(j)
    /\ Burns(j, "end")
    /\ UNCHANGED <<job, disk>>

BurnFails(j) ==
    /\ "ffmpeg" \in Faults /\ burn[j] = "encoding"
    /\ Failed(j) /\ Burns(j, "end")
    /\ UNCHANGED disk

Burn(j) ==
    /\ BurnRead(j) \/ Burned(j) \/ BurnStopped(j) \/ BurnFails(j)
    /\ UNCHANGED <<current, work, edits, cached>>
-----------------------------------------------------------------------------
(* update_segments: the segments, then the .srt, each in a thread and with *)
(* no lock.  A refused edit changes nothing, and reading what is there, in a *)
(* thread, too, is taken together with the request.                        *)

Edit(s, j) ==
    /\ edits[s].at = "none"
    /\ Known(j) /\ job[j].srtReady
    /\ edits' = [edits EXCEPT ![s] = [job |-> j, at |-> "segments"]]
    /\ UNCHANGED <<current, job, work, burn, disk, cached>>

EditWrites(s) == edits[s].at = "segments" /\ edits' = [edits EXCEPT ![s].at = "srt"]
EditEnds(s) == edits[s].at = "srt" /\ edits' = [edits EXCEPT ![s] = Answered]

EditStep(s) ==
    /\ EditWrites(s) \/ EditEnds(s)
    /\ UNCHANGED <<current, job, work, burn, disk, cached>>
-----------------------------------------------------------------------------
(* What GET serves: of the current job what it says is ready, of an older   *)
(* one whatever is there.                                                  *)

SrtReady(j) == IF Known(j) THEN job[j].srtReady ELSE disk[j].srt # "none"
VideoReady(j) == IF Known(j) THEN job[j].videoReady ELSE disk[j].video # "none"

(* .vtt and .ass are made of the segments, if those can be read. *)
ServesTexts(j) == SrtReady(j) /\ disk[j].segments = "whole"
ServesSrt(j) == SrtReady(j) /\ disk[j].srt # "none"
ServesVideo(j) == VideoReady(j) /\ disk[j].video # "none"

Serves(j) == (IF ServesTexts(j) THEN {"segments"} ELSE {})
             \cup (IF ServesSrt(j) THEN {"srt"} ELSE {})
             \cup (IF ServesVideo(j) THEN {"video"} ELSE {})
-----------------------------------------------------------------------------
(* The program ends and is started again: the store is empty, and what was *)
(* being written stays as it is.                                           *)
Restart ==
    /\ "restart" \in Faults
    /\ current # None
    /\ current' = None
    /\ work' = [j \in Jobs |-> IF work[j] \in {"none", "unsaved"} THEN work[j]
                               ELSE IF work[j] = "saving" THEN "unsaved" ELSE "end"]
    /\ burn' = [j \in Jobs |-> IF burn[j] = "none" THEN "none" ELSE "end"]
    /\ disk' = [j \in Jobs |-> [disk[j] EXCEPT
                  !.segments = IF Writing(j, "segments") THEN "torn" ELSE @,
                  !.srt = IF Writing(j, "srt") THEN "torn" ELSE @]]
    /\ edits' = [s \in Saves |-> IF edits[s].job = None THEN edits[s] ELSE Answered]
    /\ UNCHANGED <<job, cached>>
=============================================================================

---------------------------- MODULE LegacyProofs ----------------------------
(***************************************************************************)
(* The desktop application, for any number of uploads, edits and files of  *)
(* a batch.  The argument goes by what a job has behind it: its work only  *)
(* goes forward, and what is ready, burned or offered says how far it got. *)
(***************************************************************************)
EXTENDS LegacyPage, TLAPS

EarlyWork == {"none", "saving", "unsaved", "extracting", "downloading", "downloaded", "loading",
              "whisper", "srt", "segments"}
LateStatus == {"done", "burning_subtitles", "burned"}

(* How the status of a job goes with its work and its burn. *)
StatusFollowsWork(j) ==
    /\ Known(j) => work[j] # "none"
    /\ work[j] = "none" => job[j] = NewJob
    /\ work[j] \in EarlyWork => ~job[j].srtReady
    /\ job[j].status \in LateStatus => job[j].srtReady
    /\ job[j].status = "done" => burn[j] = "none"
    /\ job[j].status \in {"burning_subtitles", "burned"} => burn[j] # "none"
    /\ job[j].status = "burned" => job[j].videoReady
    /\ burn[j] # "none" => job[j].srtReady
    /\ burn[j] \in {"reading", "encoding"} /\ Known(j) => job[j].status \in {"burning_subtitles", "error"}

(* How the files of a job go with what is said to be ready. *)
FilesFollowFlags(j) ==
    /\ work[j] = "segments" => disk[j].srt = "whole"
    /\ job[j].srtReady => disk[j].srt # "partial" /\ disk[j].segments # "partial"
    /\ job[j].srtReady /\ Known(j) => disk[j].srt = "whole" /\ disk[j].segments = "whole"
    /\ job[j].videoReady => burn[j] = "end" /\ disk[j].video # "partial"
    /\ job[j].videoReady /\ Known(j) => disk[j].video = "whole"

JobsInv == \A j \in Jobs : StatusFollowsWork(j) /\ FilesFollowFlags(j)

(* What is offered was ready. *)
HistoryInv ==
    \A j \in Jobs : /\ history[j] # "none" => job[j].srtReady
                    /\ history[j] = "video" => job[j].videoReady

(* The page waits for one thing at a time, and knows of which job. *)
PageInv ==
    /\ watch.for = "none" <=> watch.job = None
    /\ watch.job # None => mine = watch.job
    /\ watch.for \in {"main", "item"} => up = "following"
    /\ watch.for = "main" => left = 1
    /\ watch.for = "item" => view = "batch"
    /\ watch.for = "burn" => up = "idle" /\ view = "results" /\ burn[watch.job] # "none"
    /\ up \notin {"idle", "resuming"} => left >= 1 /\ (view = "upload" => left = 1)
    /\ up \in {"asking", "consent", "sending", "saving"} => view \in {"upload", "batch"}
    /\ up = "saving" => mine \in Jobs
    /\ up = "resuming" => pointer \in Jobs
    /\ view = "results" => up = "idle"
    /\ view \in {"progress", "results"} => mine \in Jobs
    /\ burnView \in {"asking", "accepted"} => view = "results"
    /\ burnView = "accepted" => burn[mine] # "none"

LegacyInv == TypeOK /\ JobsInv /\ HistoryInv /\ PageInv
-----------------------------------------------------------------------------
(* The server *)

ServerInv == ServerTypeOK /\ JobsInv

(* What is ready stays so, and a burn that began stays begun. *)
ReadyStays ==
    \A j \in Jobs : /\ job[j].srtReady => job'[j].srtReady
                    /\ job[j].videoReady => job'[j].videoReady
                    /\ burn[j] # "none" => burn'[j] # "none"

OverStays ==
    \A j \in Jobs :
        /\ job[j].status \in {"error", "burned"} => job'[j].status = job[j].status
        /\ ~Known(j) => job'[j] = job[j]

ServerKeeps == ServerInv' /\ ReadyStays /\ OverStays

LEMMA CreateKeeps ==
    ASSUME ServerInv, NEW j \in Jobs, Create(j) PROVE ServerKeeps
<1>1. ServerTypeOK'
  BY NoneAssumption DEF ServerInv, ServerTypeOK, Create
<1>2. ASSUME NEW k \in Jobs PROVE StatusFollowsWork(k)' /\ FilesFollowFlags(k)'
  BY NoneAssumption DEF ServerInv, ServerTypeOK, Create, JobsInv, StatusFollowsWork, FilesFollowFlags, Known,
     NewJob, EarlyWork, LateStatus
<1>3. ReadyStays /\ OverStays
  BY DEF Create, ReadyStays, OverStays
<1> QED BY <1>1, <1>2, <1>3 DEF ServerKeeps, ServerInv, JobsInv

JobType == [status : Active \cup Final, error : {"none", "cancelled", "failed"}, srtReady : BOOLEAN, videoReady : BOOLEAN]

LEMMA JobIsOver ==
    ASSUME job \in [Jobs -> JobType], NEW j \in Jobs, NEW e \in {"none", "cancelled", "failed"},
           job' = [job EXCEPT ![j].status = "error", ![j].error = e]
    PROVE  /\ job' \in [Jobs -> JobType]
           /\ job'[j].status = "error" /\ job'[j].srtReady = job[j].srtReady /\ job'[j].videoReady = job[j].videoReady
           /\ \A k \in Jobs \ {j} : job'[k] = job[k]
<1> DEFINE over == [[job[j] EXCEPT !.status = "error"] EXCEPT !.error = e]
<1>1. job' = [job EXCEPT ![j] = over]
  OBVIOUS
<1>2. job[j] \in JobType
  OBVIOUS
<1>3. over \in JobType /\ over.status = "error" /\ over.srtReady = job[j].srtReady /\ over.videoReady = job[j].videoReady
  BY <1>2 DEF JobType, Final
<1> QED BY <1>1, <1>3

LEMMA JobMoves ==
    ASSUME job \in [Jobs -> JobType], NEW j \in Jobs, NEW to \in Active \cup Final, Moves(j, to)
    PROVE  /\ job' \in [Jobs -> JobType]
           /\ job'[j].status = to /\ job'[j].srtReady = job[j].srtReady /\ job'[j].videoReady = job[j].videoReady
           /\ \A k \in Jobs \ {j} : job'[k] = job[k]
<1>1. job[j] \in JobType
  OBVIOUS
<1>2. [job[j] EXCEPT !.status = to] \in JobType
  BY <1>1 DEF JobType
<1> QED BY <1>1, <1>2 DEF Moves, JobType

LEMMA CancelKeeps ==
    ASSUME ServerInv, NEW j \in Jobs, Cancel(j) PROVE ServerKeeps
<1>1. /\ job' \in [Jobs -> JobType]
      /\ job'[j].status = "error" /\ job'[j].srtReady = job[j].srtReady /\ job'[j].videoReady = job[j].videoReady
      /\ \A k \in Jobs \ {j} : job'[k] = job[k]
  BY JobIsOver DEF ServerInv, ServerTypeOK, Cancel, JobType
<1>2. ServerTypeOK'
  BY <1>1 DEF ServerInv, ServerTypeOK, Cancel, JobType
<1>3. ASSUME NEW k \in Jobs PROVE StatusFollowsWork(k)' /\ FilesFollowFlags(k)'
  BY <1>1, ZenonT(30) DEF ServerInv, Cancel, JobsInv, StatusFollowsWork, FilesFollowFlags, Known, NewJob, LateStatus, Active
<1>4. ReadyStays /\ OverStays
  BY <1>1 DEF Cancel, ReadyStays, OverStays, Known, Active
<1> QED BY <1>2, <1>3, <1>4 DEF ServerKeeps, ServerInv, JobsInv

WorkSteps == EarlyWork \cup {"cleaning", "end"}
DiskType == [Jobs -> [srt : {"none", "partial", "whole", "torn"},
                      segments : {"none", "partial", "whole", "torn"},
                      video : {"none", "partial", "whole"}]]

(* Until its texts are written, a job has nothing that could be lost. *)
LEMMA EarlyStepKeeps ==
    ASSUME ServerInv, NEW j \in Jobs, work[j] \in EarlyWork \ {"none"},
           NEW next \in WorkSteps \ {"none"}, Goes(j, next), UNCHANGED <<current, burn, edits>>,
           disk' \in DiskType, cached' \in BOOLEAN, next = "segments" => disk'[j].srt = "whole",
           \A k \in Jobs \ {j} : disk'[k] = disk[k],
           \/ UNCHANGED job
           \/ \E to \in {"extracting_audio", "downloading_model", "transcribing"} : MayMove(j, to) /\ Moves(j, to)
           \/ Failed(j)
    PROVE  ServerKeeps
<1>1. /\ job' \in [Jobs -> JobType]
      /\ job'[j].srtReady = job[j].srtReady /\ job'[j].videoReady = job[j].videoReady
      /\ \A k \in Jobs \ {j} : job'[k] = job[k]
      /\ job'[j].status \notin LateStatus
      /\ job[j].status = "error" => job'[j].status = "error"
      /\ ~Known(j) => job'[j] = job[j]
  <2>1. job \in [Jobs -> JobType] /\ job[j].status \notin LateStatus
    BY DEF ServerInv, ServerTypeOK, JobType, JobsInv, StatusFollowsWork
  <2>2. CASE UNCHANGED job
    BY <2>1, <2>2
  <2>3. ASSUME NEW to \in {"extracting_audio", "downloading_model", "transcribing"}, MayMove(j, to), Moves(j, to)
        PROVE  <1>1!:
    <3>1. to \in Active \cup Final /\ to \notin LateStatus
      BY DEF Active, Final, LateStatus
    <3>2. Known(j) /\ job[j].status # "error"
      BY <2>3 DEF MayMove, Transitions
    <3> QED BY <2>1, <2>3, <3>1, <3>2, JobMoves
  <2>4. CASE Failed(j)
    BY <2>1, <2>4, JobIsOver DEF Failed, LateStatus
  <2> QED BY <2>2, <2>3, <2>4
<1>2. ServerTypeOK'
  BY <1>1 DEF ServerInv, ServerTypeOK, JobType, DiskType, Goes, WorkSteps, EarlyWork
<1>3. ~job[j].srtReady /\ ~job[j].videoReady /\ burn[j] = "none"
  BY DEF ServerInv, JobsInv, StatusFollowsWork, FilesFollowFlags
<1>4. work'[j] = next /\ \A k \in Jobs \ {j} : work'[k] = work[k]
  BY DEF ServerInv, ServerTypeOK, Goes
<1>5. StatusFollowsWork(j)' /\ FilesFollowFlags(j)'
  BY <1>1, <1>3, <1>4 DEF ServerInv, JobsInv, StatusFollowsWork, FilesFollowFlags, Known, LateStatus
<1>6. ASSUME NEW k \in Jobs \ {j} PROVE StatusFollowsWork(k)' /\ FilesFollowFlags(k)'
  BY <1>1, <1>4 DEF ServerInv, JobsInv, StatusFollowsWork, FilesFollowFlags, Known
<1>7. ReadyStays /\ OverStays
  BY <1>1, <1>3 DEF ServerInv, JobsInv, StatusFollowsWork, ReadyStays, OverStays, LateStatus
<1> QED BY <1>2, <1>5, <1>6, <1>7 DEF ServerKeeps, ServerInv, JobsInv

(* The texts are there, and ready if the store knows the job. *)
LEMMA SegmentsWrittenKeeps ==
    ASSUME ServerInv, NEW j \in Jobs, SegmentsWritten(j), UNCHANGED <<current, burn, edits>> PROVE ServerKeeps
<1>1. /\ job \in [Jobs -> JobType] /\ job[j].status \notin LateStatus /\ disk \in DiskType
      /\ ~job[j].srtReady /\ ~job[j].videoReady /\ burn[j] = "none"
  BY DEF ServerInv, ServerTypeOK, JobType, DiskType, JobsInv, StatusFollowsWork, FilesFollowFlags, SegmentsWritten,
     EarlyWork
<1> DEFINE ready == [[job[j] EXCEPT !.srtReady = TRUE]
                        EXCEPT !.status = IF MayMove(j, "done") THEN "done" ELSE @]
<1>2. /\ ready \in JobType /\ ready.srtReady /\ ~ready.videoReady
      /\ ready.status = IF MayMove(j, "done") THEN "done" ELSE job[j].status
  <2>1. job[j] \in JobType
    BY <1>1
  <2>2. "done" \in Active \cup Final
    BY DEF Final
  <2>3. CASE MayMove(j, "done")
    BY <1>1, <2>1, <2>2, <2>3 DEF JobType
  <2>4. CASE ~MayMove(j, "done")
    BY <1>1, <2>1, <2>4 DEF JobType
  <2> QED BY <2>3, <2>4
<1>3. /\ job' \in [Jobs -> JobType]
      /\ \A k \in Jobs \ {j} : job'[k] = job[k]
      /\ Known(j) => job'[j] = ready
      /\ ~Known(j) => job'[j] = job[j]
  <2>1. CASE Known(j)
    <3>1. job' = [job EXCEPT ![j] = ready]
      <4>1. CASE MayMove(j, "done")
        <5>1. job' = [job EXCEPT ![j].srtReady = TRUE, ![j].status = "done"]
          BY <2>1, <4>1 DEF SegmentsWritten
        <5>2. ready = [[job[j] EXCEPT !.srtReady = TRUE] EXCEPT !.status = "done"]
          BY <4>1
        <5> QED BY <5>1, <5>2
      <4>2. CASE ~MayMove(j, "done")
        <5>1. job' = [job EXCEPT ![j].srtReady = TRUE, ![j].status = @]
          BY <2>1, <4>2 DEF SegmentsWritten
        <5>2. ready = [[job[j] EXCEPT !.srtReady = TRUE] EXCEPT !.status = @]
          BY <4>2
        <5> QED BY <5>1, <5>2
      <4> QED BY <4>1, <4>2
    <3>2. job'[j] = ready
      BY <1>1, <3>1
    <3>3. \A k \in Jobs \ {j} : job'[k] = job[k]
      BY <1>1, <3>1
    <3>4. job' \in [Jobs -> JobType]
      BY <1>1, <1>2, <3>1
    <3> QED BY <2>1, <3>2, <3>3, <3>4
  <2>2. CASE ~Known(j)
    BY <1>1, <2>2 DEF SegmentsWritten
  <2> QED BY <2>1, <2>2
<1>4. /\ work'[j] = "cleaning" /\ \A k \in Jobs \ {j} : work'[k] = work[k]
      /\ disk'[j].segments = "whole" /\ disk'[j].srt = disk[j].srt /\ disk'[j].video = disk[j].video
      /\ \A k \in Jobs \ {j} : disk'[k] = disk[k]
  BY <1>1 DEF ServerInv, ServerTypeOK, SegmentsWritten, Goes, DiskType
<1>5. ServerTypeOK'
  <2>1. disk' \in DiskType
    BY <1>1 DEF SegmentsWritten, DiskType
  <2> QED BY <1>3, <2>1 DEF ServerInv, ServerTypeOK, JobType, DiskType, SegmentsWritten, Goes
<1>6. ASSUME NEW k \in Jobs \ {j} PROVE StatusFollowsWork(k)' /\ FilesFollowFlags(k)'
  BY <1>3, <1>4 DEF ServerInv, JobsInv, StatusFollowsWork, FilesFollowFlags, Known
<1>7. work[j] = "segments" /\ disk[j].srt = "whole"
  BY DEF SegmentsWritten, ServerInv, JobsInv, FilesFollowFlags
<1>8. StatusFollowsWork(j)' /\ FilesFollowFlags(j)'
  <2>1. CASE Known(j)
    <3>1. job'[j].srtReady /\ ~job'[j].videoReady /\ job'[j].status \in {"done", job[j].status}
      BY <1>2, <1>3, <2>1
    <3>2. job[j].status \notin {"burning_subtitles", "burned"}
      BY <1>1 DEF LateStatus
    <3> HIDE DEF ready
    <3> QED BY <1>1, <1>4, <1>7, <3>1, <3>2 DEF StatusFollowsWork, FilesFollowFlags, Known, EarlyWork
  <2>2. CASE ~Known(j)
    BY <1>1, <1>3, <1>4, <1>7, <2>2 DEF StatusFollowsWork, FilesFollowFlags, Known, LateStatus, EarlyWork
  <2> QED BY <2>1, <2>2
<1>9. ReadyStays /\ OverStays
  <2>1. MayMove(j, "done") => job[j].status \notin {"error", "burned"}
    BY DEF MayMove, Transitions
  <2> QED BY <1>1, <1>2, <1>3, <2>1 DEF ReadyStays, OverStays
<1> QED BY <1>5, <1>6, <1>8, <1>9 DEF ServerKeeps, ServerInv, JobsInv

(* Cleaning takes the files of jobs that are not known and have nothing under way. *)
LEMMA CleanedKeeps ==
    ASSUME ServerInv, NEW j \in Jobs, Cleaned(j), UNCHANGED <<current, burn, edits>> PROVE ServerKeeps
<1>1. PICK old \in SUBSET {k \in Jobs \ {j} : ~Known(k) /\ Resting(k)} :
        disk' = [k \in Jobs |-> IF k \in old THEN NoFiles ELSE disk[k]]
  BY DEF Cleaned
<1>2. ServerTypeOK'
  BY <1>1 DEF ServerInv, ServerTypeOK, Cleaned, Goes, NoFiles
<1>3. ASSUME NEW k \in Jobs PROVE StatusFollowsWork(k)' /\ FilesFollowFlags(k)'
  <2>1. work'[k] = IF k = j THEN "end" ELSE work[k]
    BY DEF ServerInv, ServerTypeOK, Cleaned, Goes
  <2>2. StatusFollowsWork(k)'
    BY <2>1 DEF Cleaned, ServerInv, JobsInv, StatusFollowsWork, Known, EarlyWork
  <2>3. CASE k \in old
    <3>1. disk'[k] = NoFiles /\ ~Known(k) /\ work[k] \in {"unsaved", "end"}
      BY <1>1, <2>3 DEF Resting
    <3> QED BY <2>1, <2>2, <3>1 DEF Cleaned, ServerInv, JobsInv, FilesFollowFlags, Known, NoFiles
  <2>4. CASE k \notin old
    BY <1>1, <2>1, <2>2, <2>4 DEF Cleaned, ServerInv, JobsInv, FilesFollowFlags, Known
  <2> QED BY <2>2, <2>3, <2>4
<1>4. ReadyStays /\ OverStays
  BY DEF Cleaned, ReadyStays, OverStays
<1> QED BY <1>2, <1>3, <1>4 DEF ServerKeeps, ServerInv, JobsInv
LEMMA WorkKeeps ==
    ASSUME ServerInv, NEW j \in Jobs, Work(j) PROVE ServerKeeps
<1>0. UNCHANGED <<current, burn, edits>> /\ disk \in DiskType /\ cached \in BOOLEAN
  BY DEF Work, ServerInv, ServerTypeOK, DiskType
<1>1. ASSUME NEW to \in {"extracting_audio", "downloading_model", "transcribing"}, NEW next \in WorkSteps \ {"none", "segments"},
             work[j] \in EarlyWork \ {"none"}, UNCHANGED <<disk, cached>>, Continues(j, to, next)
      PROVE  ServerKeeps
  <2>1. CASE MayMove(j, to) /\ Moves(j, to) /\ Goes(j, next)
    BY <1>0, <1>1, <2>1, EarlyStepKeeps
  <2>2. CASE Quits(j)
    BY <1>0, <1>1, <2>2, EarlyStepKeeps DEF Quits, WorkSteps
  <2> QED BY <1>1, <2>1, <2>2 DEF Continues
<1>2. CASE Saved(j)
  <2>1. CASE Known(j) /\ Continues(j, "extracting_audio", "extracting")
    BY <1>1, <1>2, <2>1 DEF Saved, WorkSteps, EarlyWork
  <2>2. CASE Goes(j, "unsaved") /\ UNCHANGED job
    BY <1>0, <1>2, <2>2, EarlyStepKeeps DEF Saved, WorkSteps, EarlyWork
  <2> QED BY <1>2, <2>1, <2>2 DEF Saved
<1>3. CASE SaveFails(j)
  BY <1>0, <1>3, EarlyStepKeeps DEF SaveFails, WorkSteps, EarlyWork
<1>4. CASE Extracted(j)
  BY <1>1, <1>4 DEF Extracted, WorkSteps, EarlyWork
<1>5. CASE Downloaded(j)
  BY <1>0, <1>5, EarlyStepKeeps DEF Downloaded, WorkSteps, EarlyWork
<1>6. CASE Loaded(j)
  <2>1. CASE Continues(j, "transcribing", "whisper") /\ work[j] = "downloaded"
    BY <1>1, <1>6, <2>1 DEF Loaded, WorkSteps, EarlyWork
  <2>2. CASE Reports(j, "whisper") /\ work[j] = "loading"
    BY <1>0, <1>6, <2>2, EarlyStepKeeps DEF Loaded, Reports, Quits, WorkSteps, EarlyWork
  <2> QED BY <1>6, <2>1, <2>2 DEF Loaded
<1>7. CASE Transcribed(j)
  <2>1. disk' \in DiskType /\ \A k \in Jobs \ {j} : disk'[k] = disk[k]
    BY <1>0, <1>7 DEF Transcribed, DiskType
  <2> QED BY <1>0, <1>7, <2>1, EarlyStepKeeps DEF Transcribed, WorkSteps, EarlyWork
<1>8. CASE SrtWritten(j)
  <2> DEFINE written == [[disk[j] EXCEPT !.srt = "whole"] EXCEPT !.segments = "partial"]
  <2>1. disk' = [disk EXCEPT ![j] = written]
    BY <1>0, <1>8 DEF SrtWritten
  <2>2. written.srt = "whole" /\ written \in [srt : {"none", "partial", "whole", "torn"},
              segments : {"none", "partial", "whole", "torn"}, video : {"none", "partial", "whole"}]
    BY <1>0 DEF DiskType
  <2>3. disk' \in DiskType /\ disk'[j].srt = "whole" /\ \A k \in Jobs \ {j} : disk'[k] = disk[k]
    BY <1>0, <2>1, <2>2 DEF DiskType
  <2> QED BY <1>0, <1>8, <2>3, EarlyStepKeeps DEF SrtWritten, WorkSteps, EarlyWork
<1>9. CASE Superseded(j)
  BY <1>0, <1>9, EarlyStepKeeps DEF Superseded, Quits, WorkSteps, EarlyWork
<1>10. CASE WorkFails(j)
  BY <1>0, <1>10, EarlyStepKeeps DEF WorkFails, Fails, WorkSteps, EarlyWork
<1> QED BY <1>0, <1>2, <1>3, <1>4, <1>5, <1>6, <1>7, <1>8, <1>9, <1>10, SegmentsWrittenKeeps, CleanedKeeps DEF Work

LEMMA StartBurnKeeps ==
    ASSUME ServerInv, NEW j \in Jobs, StartBurn(j) PROVE ServerKeeps /\ burn'[j] # "none"
<1>1. /\ job' \in [Jobs -> JobType]
      /\ job'[j].status = "burning_subtitles" /\ job'[j].srtReady = job[j].srtReady
      /\ job'[j].videoReady = job[j].videoReady
      /\ \A k \in Jobs \ {j} : job'[k] = job[k]
  BY JobMoves DEF ServerInv, ServerTypeOK, StartBurn, JobType, Active
<1>2. burn'[j] = "reading" /\ \A k \in Jobs \ {j} : burn'[k] = burn[k]
  BY DEF ServerInv, ServerTypeOK, StartBurn, Burns
<1>3. ServerTypeOK'
  BY <1>1 DEF ServerInv, ServerTypeOK, StartBurn, Burns, JobType
<1>4. ASSUME NEW k \in Jobs PROVE StatusFollowsWork(k)' /\ FilesFollowFlags(k)'
  <2>1. CASE k = j
    <3>1. burn[j] = "none" /\ job[j].srtReady /\ work[j] \notin EarlyWork
      BY DEF StartBurn, ServerInv, JobsInv, StatusFollowsWork, LateStatus
    <3>2. ~job[j].videoReady /\ work[j] # "none"
      BY <3>1 DEF ServerInv, JobsInv, FilesFollowFlags, EarlyWork
    <3> QED BY <1>1, <1>2, <2>1, <3>1, <3>2 DEF StartBurn, ServerInv, JobsInv, StatusFollowsWork, FilesFollowFlags, Known
  <2>2. CASE k # j
    BY <1>1, <1>2, <2>2 DEF StartBurn, ServerInv, JobsInv, StatusFollowsWork, FilesFollowFlags, Known
  <2> QED BY <2>1, <2>2
<1>5. ReadyStays /\ OverStays
  BY <1>1, <1>2 DEF StartBurn, ReadyStays, OverStays
<1> QED BY <1>2, <1>3, <1>4, <1>5 DEF ServerKeeps, ServerInv, JobsInv

LEMMA EditKeeps ==
    ASSUME ServerInv, NEW s \in Saves, (\E j \in Jobs : Edit(s, j)) \/ EditStep(s) PROVE ServerKeeps
<1>1. UNCHANGED <<current, job, work, burn, disk, cached>>
  BY DEF Edit, EditStep
<1>2. edits' \in [Saves -> [job : Jobs \cup {None}, at : {"none", "segments", "srt", "answered"}]]
  <2>1. edits \in [Saves -> [job : Jobs \cup {None}, at : {"none", "segments", "srt", "answered"}]]
    BY DEF ServerInv, ServerTypeOK
  <2>2. CASE \E j \in Jobs : Edit(s, j)
    BY <2>1, <2>2 DEF Edit
  <2>3. CASE EditStep(s)
    BY <2>1, <2>3 DEF EditStep, EditWrites, EditEnds, Answered
  <2> QED BY <2>2, <2>3
<1>3. ServerTypeOK'
  BY <1>1, <1>2 DEF ServerInv, ServerTypeOK
<1>4. JobsInv'
  BY <1>1 DEF ServerInv, JobsInv, StatusFollowsWork, FilesFollowFlags, Known
<1> QED BY <1>1, <1>3, <1>4 DEF ServerKeeps, ServerInv, ReadyStays, OverStays
(* The burn of a job, while the video may be half written. *)
LEMMA BurnKeeps ==
    ASSUME ServerInv, NEW j \in Jobs, Burn(j) PROVE ServerKeeps
<1>0. /\ UNCHANGED <<current, work, edits, cached>>
      /\ job \in [Jobs -> JobType] /\ disk \in DiskType /\ burn \in [Jobs -> {"none", "reading", "encoding", "end"}]
  BY DEF Burn, ServerInv, ServerTypeOK, JobType, DiskType
<1>1. /\ burn[j] \in {"reading", "encoding"} /\ ~job[j].videoReady /\ job[j].srtReady
      /\ Known(j) => job[j].status \in {"burning_subtitles", "error"}
  BY DEF Burn, BurnRead, Burned, BurnStopped, BurnFails, ServerInv, JobsInv, StatusFollowsWork, FilesFollowFlags
<1>2. ASSUME NEW at \in {"encoding", "end"}, Burns(j, at), job' \in [Jobs -> JobType], disk' \in DiskType,
             \A k \in Jobs \ {j} : job'[k] = job[k] /\ disk'[k] = disk[k],
             disk'[j].srt = disk[j].srt, disk'[j].segments = disk[j].segments,
             job'[j].srtReady, ~Known(j) => job'[j] = job[j],
             job[j].status = "error" => job'[j].status = "error",
             job'[j].status \in {job[j].status, "burned", "error"},
             at = "encoding" => UNCHANGED job,
             job'[j].videoReady => at = "end" /\ Known(j) /\ disk'[j].video = "whole",
             job'[j].status = "burned" => job[j].status = "burned" \/ job'[j].videoReady
      PROVE  ServerKeeps
  <2>1. burn'[j] = at /\ \A k \in Jobs \ {j} : burn'[k] = burn[k]
    BY <1>0, <1>2 DEF Burns
  <2>2. ServerTypeOK'
    BY <1>0, <1>2 DEF ServerInv, ServerTypeOK, JobType, DiskType, Burns
  <2>3. ASSUME NEW k \in Jobs \ {j} PROVE StatusFollowsWork(k)' /\ FilesFollowFlags(k)'
    BY <1>0, <1>2, <2>1 DEF ServerInv, JobsInv, StatusFollowsWork, FilesFollowFlags, Known
  <2>4. StatusFollowsWork(j) /\ FilesFollowFlags(j)
    BY DEF ServerInv, JobsInv
  <2>5. job[j].status # "burned" /\ job[j].status # "done" /\ work[j] \notin EarlyWork
    BY <1>1, <2>4 DEF StatusFollowsWork
  <2>6. StatusFollowsWork(j)'
    BY <1>0, <1>1, <1>2, <2>1, <2>4, <2>5 DEF StatusFollowsWork, Known, EarlyWork
  <2>7. FilesFollowFlags(j)'
    BY <1>0, <1>1, <1>2, <2>1, <2>4, <2>5 DEF FilesFollowFlags, Known
  <2>8. ReadyStays /\ OverStays
    BY <1>1, <1>2, <2>1, <2>5 DEF ReadyStays, OverStays
  <2> QED BY <2>2, <2>3, <2>6, <2>7, <2>8 DEF ServerKeeps, ServerInv, JobsInv
<1>3. ASSUME Failed(j), Burns(j, "end"), UNCHANGED disk PROVE ServerKeeps
  <2>1. CASE Known(j)
    <3>1. /\ job' \in [Jobs -> JobType]
          /\ job'[j].status = "error" /\ job'[j].srtReady = job[j].srtReady /\ job'[j].videoReady = job[j].videoReady
          /\ \A k \in Jobs \ {j} : job'[k] = job[k]
      BY <1>0, <1>3, <2>1, JobIsOver DEF Failed
    <3> QED BY <1>0, <1>1, <1>2, <1>3, <2>1, <3>1
  <2>2. CASE ~Known(j)
    BY <1>0, <1>1, <1>2, <1>3, <2>2 DEF Failed
  <2> QED BY <2>1, <2>2
<1>4. CASE BurnRead(j)
  <2>1. ASSUME Burns(j, "encoding"), disk' = [disk EXCEPT ![j].video = "partial"], UNCHANGED job PROVE ServerKeeps
    <3>1. /\ disk' \in DiskType /\ disk'[j].srt = disk[j].srt /\ disk'[j].segments = disk[j].segments
          /\ \A k \in Jobs \ {j} : disk'[k] = disk[k]
      BY <1>0, <2>1 DEF DiskType
    <3> QED BY <1>0, <1>1, <1>2, <2>1, <3>1
  <2> QED BY <1>3, <1>4, <2>1 DEF BurnRead
<1>5. CASE Burned(j)
  <2>1. /\ disk' \in DiskType /\ disk'[j].srt = disk[j].srt /\ disk'[j].segments = disk[j].segments
        /\ disk'[j].video = "whole" /\ \A k \in Jobs \ {j} : disk'[k] = disk[k]
    BY <1>0, <1>5 DEF Burned, DiskType
  <2>2. CASE ~Known(j)
    BY <1>0, <1>1, <1>2, <1>5, <2>1, <2>2 DEF Burned
  <2>3. CASE Known(j)
    <3>1. job[j] \in JobType /\ "burned" \in Active \cup Final
      BY <1>0 DEF Final
    <3>2. MayMove(j, "burned") => job[j].status # "error"
      BY DEF MayMove, Transitions
    <3>3. CASE MayMove(j, "burned")
      <4> DEFINE ready == [[job[j] EXCEPT !.videoReady = TRUE] EXCEPT !.status = "burned"]
      <4>1. job' = [job EXCEPT ![j] = ready]
        BY <1>5, <2>3, <3>3 DEF Burned
      <4>2. ready \in JobType /\ ready.srtReady = job[j].srtReady /\ ready.videoReady /\ ready.status = "burned"
        BY <3>1 DEF JobType
      <4> HIDE DEF ready
      <4>3. job' \in [Jobs -> JobType] /\ job'[j] = ready /\ \A k \in Jobs \ {j} : job'[k] = job[k]
        BY <1>0, <4>1, <4>2
      <4> QED BY <1>1, <1>2, <1>5, <2>1, <2>3, <3>2, <3>3, <4>2, <4>3 DEF Burned
    <3>4. CASE ~MayMove(j, "burned")
      <4> DEFINE ready == [job[j] EXCEPT !.videoReady = TRUE]
      <4>1. job' = [job EXCEPT ![j] = ready]
        <5>1. job' = [job EXCEPT ![j].videoReady = TRUE, ![j].status = @]
          BY <1>5, <2>3, <3>4 DEF Burned
        <5>2. ready = [[job[j] EXCEPT !.videoReady = TRUE] EXCEPT !.status = @]
          BY <3>1 DEF JobType
        <5> QED BY <5>1, <5>2
      <4>2. ready \in JobType /\ ready.srtReady = job[j].srtReady /\ ready.videoReady /\ ready.status = job[j].status
        BY <3>1 DEF JobType
      <4> HIDE DEF ready
      <4>3. job' \in [Jobs -> JobType] /\ job'[j] = ready /\ \A k \in Jobs \ {j} : job'[k] = job[k]
        BY <1>0, <4>1, <4>2
      <4> QED BY <1>1, <1>2, <1>5, <2>1, <2>3, <4>2, <4>3 DEF Burned
    <3> QED BY <3>3, <3>4
  <2> QED BY <2>2, <2>3
<1>6. CASE BurnStopped(j)
  BY <1>0, <1>1, <1>2, <1>6 DEF BurnStopped
<1>7. CASE BurnFails(j)
  BY <1>3, <1>7 DEF BurnFails
<1> QED BY <1>4, <1>5, <1>6, <1>7 DEF Burn

(* Nothing is known after a restart, and nothing goes on. *)
LEMMA RestartKeeps ==
    ASSUME ServerInv, Restart PROVE ServerKeeps
<1>1. ServerTypeOK'
  <2>1. disk' \in DiskType
    BY ZenonT(30) DEF Restart, ServerInv, ServerTypeOK, DiskType
  <2> QED BY <2>1 DEF Restart, ServerInv, ServerTypeOK, DiskType, Answered
<1>2. ASSUME NEW j \in Jobs PROVE StatusFollowsWork(j)' /\ FilesFollowFlags(j)'
  <2>1. current' = None /\ job' = job /\ ~Known(j)'
    BY NoneAssumption DEF Restart, Known
  <2>2. /\ work'[j] \in {"none", "unsaved", "end"} /\ (work'[j] = "none" <=> work[j] = "none")
        /\ work'[j] = "unsaved" => work[j] \in EarlyWork
        /\ burn'[j] = IF burn[j] = "none" THEN "none" ELSE "end"
    BY DEF Restart, ServerInv, ServerTypeOK, EarlyWork
  <2>3. /\ disk'[j].srt \in {disk[j].srt, "torn"} /\ disk'[j].segments \in {disk[j].segments, "torn"}
        /\ disk'[j].video = disk[j].video
    <3>1. disk[j] \in [srt : {"none", "partial", "whole", "torn"}, segments : {"none", "partial", "whole", "torn"},
                      video : {"none", "partial", "whole"}]
      BY DEF ServerInv, ServerTypeOK
    <3>2. disk'[j] = [disk[j] EXCEPT !.segments = IF Writing(j, "segments") THEN "torn" ELSE disk[j].segments,
                                     !.srt = IF Writing(j, "srt") THEN "torn" ELSE disk[j].srt]
      BY <3>1 DEF Restart
    <3> QED BY <3>1, <3>2
  <2> QED BY <2>1, <2>2, <2>3 DEF ServerInv, JobsInv, StatusFollowsWork, FilesFollowFlags, EarlyWork
<1>3. ReadyStays /\ OverStays
  BY DEF Restart, ReadyStays, OverStays
<1> QED BY <1>1, <1>2, <1>3 DEF ServerKeeps, ServerInv, JobsInv-----------------------------------------------------------------------------
(* The page *)

PageTypeOK ==
    /\ view \in {"upload", "batch", "progress", "results", "error"}
    /\ left \in 0 .. MaxFiles
    /\ up \in {"idle", "asking", "consent", "sending", "saving", "following", "resuming"}
    /\ mine \in Jobs \cup {None} /\ pointer \in Jobs \cup {None}
    /\ watch \in [job : Jobs \cup {None}, for : {"none", "main", "item", "burn"}, errors : 0 .. MaxErrors]
    /\ editor \in Saves \cup {None}
    /\ burnView \in {"none", "asking", "accepted", "unanswered", "burning", "ready", "failed"}
    /\ history \in [Jobs -> {"none", "texts", "video"}]

Whole == ServerInv /\ PageTypeOK /\ HistoryInv /\ PageInv

PageKeeps == PageTypeOK' /\ HistoryInv' /\ PageInv'

LEMMA WholeIsInv == Whole <=> LegacyInv
  BY DEF Whole, LegacyInv, TypeOK, PageTypeOK, ServerInv

LEMMA PageOnly ==
    ASSUME Whole, UNCHANGED serverVars PROVE ServerKeeps
<1>1. UNCHANGED <<current, job, work, burn, edits, disk, cached>>
  BY DEF serverVars
<1> QED
  BY <1>1 DEF Whole, ServerKeeps, ServerInv, ServerTypeOK, JobsInv, StatusFollowsWork, FilesFollowFlags, Known, ReadyStays, OverStays

LEMMA ServerOnly ==
    ASSUME Whole, ServerKeeps, UNCHANGED pageVars PROVE PageKeeps
<1>1. UNCHANGED <<view, left, up, mine, watch, editor, burnView, pointer, history>>
  BY DEF pageVars
<1>2. PageTypeOK'
  BY <1>1 DEF Whole, PageTypeOK
<1>3. HistoryInv'
  BY <1>1 DEF Whole, HistoryInv, ServerKeeps, ReadyStays
<1>4. PageInv'
  BY <1>1 DEF Whole, PageTypeOK, PageInv, ServerKeeps, ReadyStays
<1> QED BY <1>2, <1>3, <1>4 DEF PageKeeps

(* Choosing files, asking and sending. *)
LEMMA UploadingKeeps ==
    ASSUME Whole, ServerKeeps,
           \/ (\E n \in 1 .. MaxFiles : Start(n)) \/ Ask \/ Consent \/ Decline \/ Send \/ UploadAnswered
    PROVE  PageKeeps
<1>1. history' = history /\ HistoryInv'
  BY DEF Whole, HistoryInv, ServerKeeps, ReadyStays, Start, Ask, Consent, Decline, Send, UploadAnswered
<1>2. ASSUME NEW n \in 1 .. MaxFiles, Start(n) PROVE PageTypeOK' /\ PageInv'
  <2>1. PageTypeOK'
    BY <1>2, BoundsAssumption DEF Whole, PageTypeOK, Start
  <2>2. PageInv'
    BY <1>2, BoundsAssumption, NoneAssumption DEF Whole, PageTypeOK, PageInv, Start, serverVars
  <2> QED BY <2>1, <2>2
<1>3. CASE Ask \/ Consent
  <2>1. PageTypeOK'
    BY <1>3 DEF Whole, PageTypeOK, Ask, Consent
  <2>2. PageInv'
    BY <1>3, NoneAssumption DEF Whole, PageTypeOK, PageInv, Ask, Consent, serverVars
  <2> QED BY <1>1, <2>1, <2>2 DEF PageKeeps
<1>4. CASE Decline
  <2>1. PageTypeOK'
    BY <1>4, BoundsAssumption DEF Whole, PageTypeOK, PageInv, Decline, NextFile
  <2>2. PageInv'
    BY <1>4, BoundsAssumption, NoneAssumption DEF Whole, PageTypeOK, PageInv, Decline, NextFile, serverVars
  <2> QED BY <1>1, <2>1, <2>2 DEF PageKeeps
<1>5. CASE Send
  <2>1. PageTypeOK'
    BY <1>5, BoundsAssumption DEF Whole, PageTypeOK, PageInv, Send, NextFile
  <2>2. PageInv'
    BY <1>5, BoundsAssumption, NoneAssumption DEF Whole, PageTypeOK, PageInv, Send, NextFile, serverVars
  <2> QED BY <1>1, <2>1, <2>2 DEF PageKeeps
<1>6. CASE UploadAnswered
  <2>1. CASE NextFile /\ mine' = None /\ UNCHANGED <<view, watch, pointer>>
    <3>1. PageTypeOK'
      BY <1>6, <2>1, BoundsAssumption DEF Whole, PageTypeOK, PageInv, UploadAnswered, NextFile
    <3>2. PageInv'
      BY <1>6, <2>1, BoundsAssumption, NoneAssumption
      DEF Whole, PageTypeOK, PageInv, UploadAnswered, NextFile, serverVars
    <3> QED BY <1>1, <3>1, <3>2 DEF PageKeeps
  <2>2. CASE /\ SaveActive(mine)
             /\ watch' = [job |-> mine, for |-> IF Batch THEN "item" ELSE "main", errors |-> 0]
             /\ view' = IF Batch THEN "batch" ELSE "progress"
             /\ up' = "following"
             /\ UNCHANGED <<left, mine>>
    <3>1. PageTypeOK'
      BY <1>6, <2>2, BoundsAssumption DEF Whole, PageTypeOK, PageInv, UploadAnswered, SaveActive
    <3>2. PageInv'
      BY <1>6, <2>2, BoundsAssumption, NoneAssumption
      DEF Whole, PageTypeOK, PageInv, UploadAnswered, Batch, serverVars
    <3> QED BY <1>1, <3>1, <3>2 DEF PageKeeps
  <2> QED BY <1>6, <2>1, <2>2 DEF UploadAnswered
<1> QED BY <1>1, <1>2, <1>3, <1>4, <1>5, <1>6 DEF PageKeeps
(* Following a job to its end, or until the stream is given up. *)
LEMMA FollowingKeeps ==
    ASSUME Whole, ServerKeeps, UNCHANGED serverVars, Ended \/ Progress \/ Breaks PROVE PageKeeps
<1>1. /\ UNCHANGED <<current, job, work, burn, edits, disk, cached>>
      /\ watch \in [job : Jobs \cup {None}, for : {"none", "main", "item", "burn"}, errors : 0 .. MaxErrors]
      /\ watch.job # None /\ watch.job \in Jobs /\ watch.for # "none"
  BY DEF serverVars, Whole, PageTypeOK, PageInv, Ended, Progress, Breaks, MainDone, ItemDone, BurnDone, Message, Followed
<1>2. CASE Progress
  <2>1. PageTypeOK'
    BY <1>1, <1>2, BoundsAssumption DEF Whole, PageTypeOK, Progress
  <2>2. watch' = [job |-> watch.job, for |-> watch.for, errors |-> 0]
    BY <1>1, <1>2 DEF Progress
  <2>3. PageInv'
    BY <1>1, <1>2, <2>2 DEF Whole, PageTypeOK, PageInv, Progress
  <2> QED BY <1>1, <1>2, <2>1, <2>3 DEF PageKeeps, Whole, HistoryInv, Progress
<1>3. ASSUME WatchFails, watch' = NoWatch, UNCHANGED <<mine, editor>>, pointer' \in {pointer, None} PROVE PageKeeps
  <2>1. PageTypeOK'
    BY <1>1, <1>3, BoundsAssumption DEF Whole, PageTypeOK, PageInv, WatchFails, NextFile, NoWatch
  <2>2. PageInv'
    BY <1>1, <1>3, BoundsAssumption, NoneAssumption DEF Whole, PageTypeOK, PageInv, WatchFails, NextFile, NoWatch
  <2> QED BY <1>1, <1>3, <2>1, <2>2 DEF PageKeeps, Whole, HistoryInv, WatchFails
<1>4. CASE Breaks
  <2>1. CASE TooMany
    BY <1>3, <1>4, <2>1 DEF Breaks
  <2>2. CASE ~TooMany
    <3>1. /\ watch'.job = watch.job /\ watch'.for = watch.for
          /\ watch' \in [job : Jobs \cup {None}, for : {"none", "main", "item", "burn"}, errors : 0 .. MaxErrors]
      BY <1>1, <1>4, <2>2, BoundsAssumption DEF Breaks
    <3>2. PageTypeOK'
      BY <1>4, <2>2, <3>1 DEF Whole, PageTypeOK, Breaks
    <3>3. PageInv'
      BY <1>1, <1>4, <2>2, <3>1 DEF Whole, PageTypeOK, PageInv, Breaks
    <3> QED BY <1>1, <1>4, <2>2, <3>2, <3>3 DEF PageKeeps, Whole, HistoryInv, Breaks
  <2> QED BY <2>1, <2>2
<1>5. CASE Ended
  <2>1. CASE MainDone /\ UNCHANGED pointer
    <3>1. PageTypeOK'
      BY <1>1, <1>5, <2>1, BoundsAssumption
      DEF Whole, PageTypeOK, PageInv, Ended, MainDone, NextFile, NoWatch, Offers, WithEntry
    <3>2. PageInv'
      BY <1>1, <1>5, <2>1, BoundsAssumption, NoneAssumption
      DEF Whole, PageTypeOK, PageInv, Ended, MainDone, NextFile, NoWatch
    <3>3. job[watch.job].srtReady
      BY <1>1, <2>1 DEF MainDone, Status, Whole, ServerInv, JobsInv, StatusFollowsWork, LateStatus
    <3>4. HistoryInv'
      BY <1>1, <2>1, <3>3 DEF MainDone, Offers, WithEntry, Whole, HistoryInv, PageTypeOK
    <3> QED BY <3>1, <3>2, <3>4 DEF PageKeeps
  <2>2. CASE ItemDone /\ UNCHANGED pointer
    <3>1. PageTypeOK'
      BY <1>1, <1>5, <2>2, BoundsAssumption
      DEF Whole, PageTypeOK, PageInv, Ended, ItemDone, NextFile, NoWatch, Offers, WithEntry
    <3>2. PageInv'
      BY <1>1, <1>5, <2>2, BoundsAssumption, NoneAssumption
      DEF Whole, PageTypeOK, PageInv, Ended, ItemDone, NextFile, NoWatch
    <3>3. job[watch.job].srtReady
      BY <1>1, <2>2 DEF ItemDone, Status, Whole, ServerInv, JobsInv, StatusFollowsWork, LateStatus
    <3>4. HistoryInv'
      BY <1>1, <2>2, <3>3 DEF ItemDone, Offers, WithEntry, Whole, HistoryInv, PageTypeOK
    <3> QED BY <3>1, <3>2, <3>4 DEF PageKeeps
  <2>3. CASE BurnDone /\ UNCHANGED pointer
    <3>1. PageTypeOK'
      BY <1>1, <1>5, <2>3, BoundsAssumption
      DEF Whole, PageTypeOK, Ended, BurnDone, NoWatch, OffersVideo, WithVideo
    <3>2. PageInv'
      BY <1>1, <1>5, <2>3, NoneAssumption DEF Whole, PageTypeOK, PageInv, Ended, BurnDone, NoWatch
    <3>3. job[watch.job].videoReady
      BY <1>1, <2>3 DEF BurnDone, Status, Whole, PageInv, ServerInv, JobsInv, StatusFollowsWork
    <3>4. HistoryInv'
      BY <1>1, <2>3, <3>3 DEF BurnDone, OffersVideo, WithVideo, Whole, HistoryInv, PageTypeOK
    <3> QED BY <3>1, <3>2, <3>4 DEF PageKeeps
  <2> QED BY <1>3, <1>5, <2>1, <2>2, <2>3 DEF Ended, ClearActive
<1> QED BY <1>2, <1>4, <1>5

(* Burning and editing from the results. *)
LEMMA ResultsKeep ==
    ASSUME Whole, ServerKeeps,
           BurnClicked \/ BurnAnswered \/ SaveClicked \/ SaveAnswered
    PROVE  PageKeeps
<1>1. CASE BurnClicked
  <2>1. /\ view = "results" /\ mine \in Jobs /\ burnView' \in {"asking", "accepted"}
        /\ UNCHANGED <<view, left, up, mine, watch, editor, pointer, history>>
    BY <1>1 DEF BurnClicked, Whole, PageInv
  <2>2. burnView' = "accepted" => burn'[mine] # "none"
    BY <1>1, <2>1, StartBurnKeeps DEF BurnClicked, Whole
  <2>3. PageTypeOK'
    BY <2>1 DEF Whole, PageTypeOK
  <2>4. PageInv'
    BY <2>1, <2>2 DEF Whole, PageTypeOK, PageInv, ServerKeeps, ReadyStays
  <2> QED BY <2>1, <2>3, <2>4 DEF PageKeeps, Whole, HistoryInv, ServerKeeps, ReadyStays
<1>2. CASE BurnAnswered
  <2>1. /\ view = "results" /\ up = "idle" /\ mine \in Jobs
        /\ burnView' \in {"burning", "failed", "unanswered"}
        /\ UNCHANGED <<view, left, up, mine, editor, pointer, history>> /\ UNCHANGED serverVars
    BY <1>2 DEF BurnAnswered, Whole, PageInv
  <2>2. CASE UNCHANGED watch
    <3>1. PageTypeOK'
      BY <2>1, <2>2 DEF Whole, PageTypeOK
    <3>2. PageInv'
      BY <2>1, <2>2 DEF Whole, PageTypeOK, PageInv, serverVars
    <3> QED BY <2>1, <3>1, <3>2 DEF PageKeeps, Whole, HistoryInv, serverVars
  <2>3. CASE FollowsBurn /\ burnView = "accepted"
    <3>1. PageTypeOK'
      BY <2>1, <2>3, BoundsAssumption DEF FollowsBurn, Whole, PageTypeOK
    <3>2. PageInv'
      BY <2>1, <2>3, NoneAssumption DEF FollowsBurn, Whole, PageTypeOK, PageInv, serverVars
    <3> QED BY <2>1, <3>1, <3>2 DEF PageKeeps, Whole, HistoryInv, serverVars
  <2> QED BY <1>2, <2>2, <2>3 DEF BurnAnswered
<1>3. CASE SaveClicked \/ SaveAnswered
  <2>1. PageTypeOK'
    BY <1>3 DEF SaveClicked, SaveAnswered, Whole, PageTypeOK
  <2>2. UNCHANGED <<view, left, up, mine, watch, burnView, pointer, history>>
    BY <1>3 DEF SaveClicked, SaveAnswered
  <2>3. PageInv'
    BY <2>2 DEF Whole, PageTypeOK, PageInv, ServerKeeps, ReadyStays
  <2> QED BY <2>1, <2>2, <2>3 DEF PageKeeps, Whole, HistoryInv, ServerKeeps, ReadyStays
<1> QED BY <1>1, <1>2, <1>3
(* A reload forgets what the page was doing. *)
LEMMA ReloadedKeeps ==
    ASSUME Whole, ServerKeeps, NEW kept \in Jobs \cup {None}, Reloaded(kept) PROVE PageKeeps
<1>1. PageTypeOK'
  BY BoundsAssumption DEF Reloaded, Whole, PageTypeOK, NoWatch
<1>2. PageInv'
  BY NoneAssumption DEF Reloaded, PageInv, NoWatch
<1> QED BY <1>1, <1>2 DEF PageKeeps, Whole, HistoryInv, ServerKeeps, ReadyStays, Reloaded

(* Going on with the job that localStorage remembers. *)
LEMMA ResumeKeeps ==
    ASSUME Whole, UNCHANGED serverVars, Resume PROVE PageKeeps
<1>1. /\ UNCHANGED <<current, job, work, burn, edits, disk, cached, editor>>
      /\ up = "resuming" /\ pointer \in Jobs
      /\ watch.for = "none" /\ watch.job = None /\ view \notin {"results"}
      /\ up' = IF watch'.for = "main" THEN "following" ELSE "idle"
      /\ left' = IF up' = "following" THEN 1 ELSE 0
  BY DEF serverVars, Resume, Whole, PageTypeOK, PageInv
<1>2. Known(pointer) => /\ job[pointer].status \in LateStatus => job[pointer].srtReady
                        /\ job[pointer].status = "burned" => job[pointer].videoReady
                        /\ job[pointer].status = "burning_subtitles" => burn[pointer] # "none"
  BY <1>1 DEF Whole, ServerInv, JobsInv, StatusFollowsWork
<1>3. burnView \notin {"asking", "accepted"}
  BY <1>1 DEF Whole, PageInv, Resume
<1>4. CASE ResumeGone \/ ResumeError \/ UNCHANGED <<view, mine, watch, burnView, pointer, history>>
  <2>1. history' = history /\ watch' = watch /\ mine' \in {mine, pointer} /\ pointer' \in {pointer, None}
        /\ view' \in {view, "error"} /\ burnView' = burnView /\ (view' # "error" => mine' = mine)
    BY <1>4 DEF ResumeGone, ResumeError, ClearActive
  <2>2. PageTypeOK'
    BY <1>1, <2>1, BoundsAssumption DEF Whole, PageTypeOK
  <2>3. PageInv'
    BY <1>1, <2>1, NoneAssumption DEF Whole, PageTypeOK, PageInv
  <2> QED BY <1>1, <2>1, <2>2, <2>3 DEF PageKeeps, Whole, HistoryInv
<1>5. CASE ResumeMain
  <2>1. watch' = [job |-> pointer, for |-> "main", errors |-> 0] /\ up' = "following" /\ left' = 1
        /\ history' = history
    BY <1>1, <1>5 DEF ResumeMain
  <2>2. PageTypeOK'
    BY <1>1, <1>5, <2>1, BoundsAssumption DEF Whole, PageTypeOK, ResumeMain
  <2>3. PageInv'
    BY <1>1, <1>5, <1>3, <2>1, NoneAssumption DEF PageInv, ResumeMain
  <2> QED BY <1>1, <2>1, <2>2, <2>3 DEF PageKeeps, Whole, HistoryInv
<1>6. CASE ResumeBurning
  <2>1. watch' = [job |-> pointer, for |-> "burn", errors |-> 0] /\ up' = "idle" /\ left' = 0
        /\ history' = [history EXCEPT ![pointer] = "texts"]
    BY <1>1, <1>6 DEF ResumeBurning, Offers, WithEntry
  <2>2. PageTypeOK'
    BY <1>1, <1>6, <2>1, BoundsAssumption DEF Whole, PageTypeOK, ResumeBurning
  <2>3. PageInv'
    BY <1>1, <1>2, <1>6, <2>1, NoneAssumption DEF PageInv, ResumeBurning
  <2>4. HistoryInv'
    BY <1>1, <1>2, <1>6, <2>1 DEF Whole, PageTypeOK, HistoryInv, ResumeBurning, LateStatus
  <2> QED BY <2>2, <2>3, <2>4 DEF PageKeeps
<1>7. CASE ResumeDone
  <2>1. watch' = watch /\ up' = "idle" /\ left' = 0 /\ view' = "results" /\ mine' = pointer /\ pointer' = pointer
        /\ burnView' \in {burnView, "ready"}
    BY <1>1, <1>7 DEF ResumeDone
  <2>2. \/ history' = [history EXCEPT ![pointer] = "texts"]
        \/ job[pointer].status = "burned" /\ history' = [history EXCEPT ![pointer] = "video"]
    BY <1>1, <1>7 DEF ResumeDone, Offers, WithEntry, WithVideo, Whole, PageTypeOK
  <2>3. PageTypeOK'
    BY <1>1, <2>1, <2>2, BoundsAssumption DEF Whole, PageTypeOK
  <2>4. PageInv'
    BY <1>1, <1>3, <2>1, NoneAssumption DEF PageInv
  <2>5. job[pointer].srtReady /\ (job[pointer].status = "burned" => job[pointer].videoReady)
    BY <1>2, <1>7 DEF ResumeDone, LateStatus
  <2>6. HistoryInv'
    BY <1>1, <2>2, <2>5 DEF Whole, PageTypeOK, HistoryInv
  <2> QED BY <2>3, <2>4, <2>6 DEF PageKeeps
<1> QED BY <1>4, <1>5, <1>6, <1>7 DEF Resume
-----------------------------------------------------------------------------
LEMMA InitIsWhole == Init => Whole
<1> SUFFICES ASSUME Init PROVE Whole
  OBVIOUS
<1>1. ServerTypeOK
  BY DEF Init, ServerInit, ServerTypeOK, NewJob, NoFiles, NoEdit, Active
<1>2. JobsInv
  BY NoneAssumption DEF Init, ServerInit, JobsInv, StatusFollowsWork, FilesFollowFlags, Known, NewJob, LateStatus
<1>3. PageTypeOK
  BY BoundsAssumption DEF Init, PageTypeOK, NoWatch
<1>4. HistoryInv /\ PageInv
  BY BoundsAssumption DEF Init, HistoryInv, PageInv, NoWatch
<1> QED BY <1>1, <1>2, <1>3, <1>4 DEF Whole, ServerInv

LEMMA StepKeeps == Whole /\ [Next]_vars => Whole' /\ OverStays
<1> SUFFICES ASSUME Whole, [Next]_vars PROVE ServerKeeps /\ PageKeeps
  BY DEF Whole, ServerKeeps, PageKeeps
<1>0. ServerInv /\ PageTypeOK /\ PageInv
  BY DEF Whole
<1>1. CASE UNCHANGED vars
  <2>1. UNCHANGED serverVars /\ UNCHANGED pageVars
    BY <1>1 DEF vars
  <2> QED BY <2>1, PageOnly, ServerOnly
<1>2. CASE Server
  <2>1. ServerKeeps
    <3>1. CASE Background
      BY <1>0, <3>1, WorkKeeps, BurnKeeps DEF Background
    <3>2. CASE (\E s \in Saves : EditStep(s)) \/ Restart
      BY <1>0, <3>2, EditKeeps, RestartKeeps
    <3> QED BY <1>2, <3>1, <3>2 DEF Server
  <2> QED BY <1>2, <2>1, ServerOnly DEF Server
<1>3. CASE OthersUpload \/ OthersCancel
  <2>1. ServerKeeps /\ UNCHANGED pageVars
    BY <1>0, <1>3, CreateKeeps, CancelKeeps DEF OthersUpload, OthersCancel
  <2> QED BY <2>1, ServerOnly
<1>4. CASE (\E n \in 1 .. MaxFiles : Start(n)) \/ Ask \/ Consent \/ Decline \/ Send \/ UploadAnswered
  <2>1. ServerKeeps
    <3>1. CASE Send
      BY <1>0, <3>1, CreateKeeps, PageOnly DEF Send
    <3>2. CASE ~Send
      BY <1>4, <3>2, PageOnly DEF Start, Ask, Consent, Decline, UploadAnswered
    <3> QED BY <3>1, <3>2
  <2> QED BY <1>4, <2>1, UploadingKeeps
<1>5. CASE Ended \/ Progress \/ Breaks
  <2>1. UNCHANGED serverVars
    BY <1>5 DEF Ended, Progress, Breaks
  <2> QED BY <1>5, <2>1, PageOnly, FollowingKeeps
<1>6. CASE BurnClicked \/ BurnAnswered \/ SaveClicked \/ SaveAnswered
  <2>1. ServerKeeps
    <3>1. CASE BurnClicked
      <4>1. mine \in Jobs
        BY <1>0, <3>1 DEF BurnClicked, PageInv
      <4> QED BY <1>0, <3>1, <4>1, StartBurnKeeps, PageOnly DEF BurnClicked
    <3>2. CASE SaveClicked
      <4>1. mine \in Jobs
        BY <1>0, <3>2 DEF SaveClicked, PageInv
      <4> QED BY <1>0, <3>2, <4>1, EditKeeps DEF SaveClicked
    <3>3. CASE BurnAnswered \/ SaveAnswered
      BY <3>3, PageOnly DEF BurnAnswered, SaveAnswered
    <3> QED BY <1>6, <3>1, <3>2, <3>3
  <2> QED BY <1>6, <2>1, ResultsKeep
<1>7. CASE Reload \/ RestartClicked
  <2>1. UNCHANGED serverVars /\ \E kept \in Jobs \cup {None} : Reloaded(kept)
    BY <1>0, <1>7 DEF Reload, RestartClicked, PageTypeOK
  <2> QED BY <2>1, PageOnly, ReloadedKeeps
<1>8. CASE CancelClicked
  <2>1. ServerKeeps
    <3>1. mine \in Jobs
      BY <1>0, <1>8 DEF CancelClicked, PageInv
    <3> QED BY <1>0, <1>8, <3>1, CancelKeeps, PageOnly DEF CancelClicked
  <2> QED BY <1>8, <2>1, ReloadedKeeps DEF CancelClicked
<1>9. CASE Resume
  <2>1. UNCHANGED serverVars
    BY <1>9 DEF Resume
  <2> QED BY <1>9, <2>1, PageOnly, ResumeKeeps
<1> QED BY <1>1, <1>2, <1>3, <1>4, <1>5, <1>6, <1>7, <1>8, <1>9 DEF Next

(* What a job has behind it agrees with its status, its files and what the *)
(* page offers, in every state.                                            *)
THEOREM LegacyIsSound == Spec => []LegacyInv
<1>1. Spec => []Whole
  BY InitIsWhole, StepKeeps, PTL DEF Spec
<1> QED BY <1>1, WholeIsInv, PTL

(* What the history of the page offers is there as a whole, for any number *)
(* of uploads and edits, whatever is cancelled, fails or is restarted.      *)
THEOREM LegacyOffersWhatIsThere == Spec => []OffersWhatIsThere
<1>1. LegacyInv => OffersWhatIsThere
  <2> SUFFICES ASSUME LegacyInv, NEW j \in Jobs
      PROVE  /\ \A file \in Links(j) \cap Serves(j) : disk[j][file] # "partial"
             /\ Known(j) /\ job[j].srtReady => {"srt", "segments"} \subseteq Serves(j)
             /\ Known(j) /\ job[j].videoReady => disk[j].video = "whole"
    BY DEF OffersWhatIsThere, LegacyInv
  <2>1. FilesFollowFlags(j) /\ history[j] \in {"none", "texts", "video"}
    BY DEF LegacyInv, JobsInv, TypeOK
  <2>2. history[j] # "none" => job[j].srtReady /\ (history[j] = "video" => job[j].videoReady)
    BY DEF LegacyInv, HistoryInv
  <2>3. \A file \in Links(j) : disk[j][file] # "partial"
    BY <2>1, <2>2 DEF Links, FilesFollowFlags
  <2>4. Known(j) /\ job[j].srtReady => {"srt", "segments"} \subseteq Serves(j)
    BY <2>1 DEF FilesFollowFlags, Serves, ServesTexts, ServesSrt, SrtReady
  <2>5. Known(j) /\ job[j].videoReady => disk[j].video = "whole"
    BY <2>1 DEF FilesFollowFlags
  <2> QED BY <2>3, <2>4, <2>5
<1> QED BY <1>1, LegacyIsSound, PTL

(* A job that failed, was cancelled or is burned stays so, whatever work   *)
(* goes on behind it, and nothing moves a job that another one followed.    *)
THEOREM LegacyOverIsOver == Spec => OverIsOver
<1>1. Whole /\ [Next]_vars => OverStays
  BY StepKeeps
<1>2. OverStays => [\A j \in Jobs :
        /\ job[j].status \in {"error", "burned"} => job'[j].status = job[j].status
        /\ ~Known(j) => job'[j] = job[j]]_vars
  BY DEF OverStays
<1> QED BY <1>1, <1>2, InitIsWhole, StepKeeps, PTL DEF Spec, OverIsOver
=============================================================================

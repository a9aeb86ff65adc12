---------------------------- MODULE SubtitleEdits ----------------------------
(***************************************************************************)
(* Edits of the subtitles of one finished transcription                    *)
(* (jobs/jobs.service.ts, updateSegments and applySegmentEdits).  A        *)
(* request is cut at each of its awaits: read segments.json, write it,     *)
(* write output.srt, write the ETag to the row.  Nothing undoes the first  *)
(* writes when a later one fails; the KeyedMutex keeps the other requests  *)
(* of the same process out meanwhile.                                      *)
(*                                                                         *)
(* An ETag is the MD5 of the bytes: the version it names stands for it.    *)
(* output.srt and the ETag of the row are also named by the version they   *)
(* were made from.  A call to S3 takes effect, or not, before it returns.  *)
(***************************************************************************)
EXTENDS KeyedMutex

CONSTANTS
    Slots,          \* the indices of the subtitles
    Texts,          \* what a subtitle may say
    Patch,          \* the subtitles each request changes, as a function of their indices
    NoEtag,         \* the request carries no ETag
    Etags,          \* the ETags that clients send (a bound on what they may send)
    Faults          \* which may happen: "s3", "db", "crash"

Content == [Slots -> Texts]

ASSUME SlotsAssumption == Slots # {} /\ NoEtag \notin Content
ASSUME EtagsAssumption == Etags \subseteq Content \cup {NoEtag}
ASSUME PatchAssumption ==
    \A t \in Tasks : \A i \in DOMAIN Patch[t] : Patch[t][i] \in Texts

VARIABLES
    segments,       \* S3: segments.json
    srt,            \* S3: output.srt
    rowEtag,        \* PostgreSQL: Job.result.artifacts.segments.etag
    expected,       \* the ETag of a request
    base,           \* the version a request read
    step,           \* the await of applySegmentEdits a request is in
    answer,         \* what the client was told
    landed          \* the requests whose segments.json was written: read by the properties only

filesVars == <<segments, srt, rowEtag>>
requestVars == <<expected, base, step, answer, landed>>
editVars == <<mutexVars, filesVars, requestVars>>

Steps == {"outside", "read", "segments", "srt", "row"}
Answers == {"none", "changed", "rejected", "saved", "lost"}

EditsTypeOK ==
    /\ MutexTypeOK
    /\ segments \in Content /\ srt \in Content /\ rowEtag \in Content
    /\ expected \in [Tasks -> Content \cup {NoEtag}]
    /\ base \in [Tasks -> Content \cup {NoEtag}]
    /\ step \in [Tasks -> Steps]
    /\ answer \in [Tasks -> Answers]
    /\ landed \in SUBSET Tasks

(* The worker wrote the three of them when the transcription ended. *)
EditsInit ==
    /\ MutexInit
    /\ segments \in Content /\ srt = segments /\ rowEtag = segments
    /\ expected = [t \in Tasks |-> NoEtag]
    /\ base = [t \in Tasks |-> NoEtag]
    /\ step = [t \in Tasks |-> "outside"]
    /\ answer = [t \in Tasks |-> "none"]
    /\ landed = {}
-----------------------------------------------------------------------------
(* applyEdits: subtitles without an edit stay; an index beyond the end is a 400. *)
Applicable(t) == DOMAIN Patch[t] \subseteq Slots

(* Mutant: the edits replace the whole file. *)
EditedMutant(t, version) == Patch[t]

Edited(t, version) ==
    [i \in Slots |-> IF i \in DOMAIN Patch[t] THEN Patch[t][i] ELSE version[i]]

GoesTo(t, next) == step' = [step EXCEPT ![t] = next]

(* The request ends: its promise settles and the mutex lets the next one in. *)
EndsWith(t, a) ==
    /\ Settle(t)
    /\ GoesTo(t, "outside")
    /\ answer' = [answer EXCEPT ![t] = a]
    /\ UNCHANGED <<expected, base>>

(* A PUT with an ETag its client read at some time, or with none, or with one of nobody's. *)
AskEdit(t) ==
    /\ Arrive(t)
    /\ \E etag \in Etags : expected' = [expected EXCEPT ![t] = etag]
    /\ UNCHANGED <<filesVars, base, step, answer, landed>>

StartEdit(t) ==
    /\ Begin(t)
    /\ GoesTo(t, "read")
    /\ UNCHANGED <<filesVars, expected, base, answer, landed>>

(* Mutant: the ETag of the request is not compared. *)
SameVersionMutant(t) == TRUE

SameVersion(t) == expected[t] \in {NoEtag, segments}

ReadSegments(t) ==
    /\ step[t] = "read"
    /\ \/ /\ ~SameVersion(t)
          /\ EndsWith(t, "changed")
       \/ /\ SameVersion(t) /\ ~Applicable(t)
          /\ EndsWith(t, "rejected")
       \/ /\ SameVersion(t) /\ Applicable(t)
          /\ base' = [base EXCEPT ![t] = segments]
          /\ GoesTo(t, "segments")
          /\ UNCHANGED <<mutexVars, expected, answer>>
    /\ UNCHANGED <<filesVars, landed>>

PutSegments(t) ==
    /\ step[t] = "segments"
    /\ segments' = Edited(t, base[t])
    /\ landed' = landed \cup {t}
    /\ GoesTo(t, "srt")
    /\ UNCHANGED <<mutexVars, srt, rowEtag, expected, base, answer>>

(* Mutant: the .srt is left for later. *)
PutSrtMutant(t) ==
    /\ step[t] = "srt"
    /\ GoesTo(t, "row")
    /\ UNCHANGED <<mutexVars, segments, srt, rowEtag, expected, base, answer, landed>>

PutSrt(t) ==
    /\ step[t] = "srt"
    /\ srt' = Edited(t, base[t])
    /\ GoesTo(t, "row")
    /\ UNCHANGED <<mutexVars, segments, rowEtag, expected, base, answer, landed>>

UpdateRow(t) ==
    /\ step[t] = "row"
    /\ rowEtag' = Edited(t, base[t])
    /\ EndsWith(t, "saved")
    /\ UNCHANGED <<segments, srt, landed>>

(* The call of an await throws, with or without effect: 500, and nothing is undone. *)
CallFails(t) ==
    /\ EndsWith(t, "lost")
    /\ \/ /\ step[t] = "read" /\ Faults \cap {"s3", "db"} # {}
          /\ UNCHANGED <<filesVars, landed>>
       \/ /\ step[t] = "segments" /\ "s3" \in Faults
          /\ \/ segments' = Edited(t, base[t]) /\ landed' = landed \cup {t}
             \/ UNCHANGED <<segments, landed>>
          /\ UNCHANGED <<srt, rowEtag>>
       \/ /\ step[t] = "srt" /\ "s3" \in Faults
          /\ srt' \in {srt, Edited(t, base[t])}
          /\ UNCHANGED <<segments, rowEtag, landed>>
       \/ /\ step[t] = "row" /\ "db" \in Faults
          /\ rowEtag' \in {rowEtag, Edited(t, base[t])}
          /\ UNCHANGED <<segments, srt, landed>>

(* The API dies with the requests it had and starts again. *)
GatewayCrash ==
    /\ "crash" \in Faults
    /\ ProcessDies
    /\ step' = [t \in Tasks |-> "outside"]
    /\ answer' = [t \in Tasks |-> IF Active(t) THEN "lost" ELSE answer[t]]
    /\ UNCHANGED <<filesVars, expected, base, landed>>

ForgetKey(t) == Forget(t) /\ UNCHANGED <<filesVars, requestVars>>

EditStep(t) == StartEdit(t) \/ ReadSegments(t) \/ PutSegments(t) \/ PutSrt(t) \/ UpdateRow(t) \/ ForgetKey(t)

EditsNext ==
    \/ \E t \in Tasks : AskEdit(t) \/ EditStep(t) \/ CallFails(t)
    \/ GatewayCrash

EditsSpec == EditsInit /\ [][EditsNext]_editVars

(* The event loop and the calls it waits for go on; nobody has to ask for an edit. *)
FairEditsSpec == EditsSpec /\ \A t \in Tasks : WF_editVars(EditStep(t))
-----------------------------------------------------------------------------
(* Between its first and its last write. *)
Halfway(t) == step[t] \in {"srt", "row"}

(* segments.json, output.srt and the ETag of the row are of one version,   *)
(* except while an edit is being written or behind one that failed; the    *)
(* next edit that is saved mends them (jobs.service.ts:352-360).           *)
FilesAgree ==
    \/ srt = segments /\ rowEtag = segments
    \/ \E t \in Tasks : Halfway(t)
    \/ \E t \in Tasks :
          /\ answer[t] = "lost"
          /\ \A u \in Tasks : answer[u] = "saved" => ticket[u] < ticket[t]

(* No edit is lost without a word: whatever is written is the edit of the  *)
(* version that it replaces, never of an older one (jobs.service.ts:328).  *)
NoLostEdit == [][segments' # segments => \E t \in Tasks : segments' = Edited(t, segments)]_editVars

(* The requests see the register of SubtitleStore.  An edit lands when its *)
(* segments.json is written.                                               *)
Store == INSTANCE SubtitleStore WITH content <- segments, approved <- expected

ImplementsStore == Store!Spec

(* Every request to edit is answered or dies with its process, whatever    *)
(* became of the requests before it.                                       *)
EditsAreAnswered == \A t \in Tasks : Active(t) ~> ~Active(t)
=============================================================================

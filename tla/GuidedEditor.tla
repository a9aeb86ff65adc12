----------------------------- MODULE GuidedEditor -----------------------------
(***************************************************************************)
(* The result of a transcription in the web client: the panel that loads   *)
(* its subtitles (ui/results.js), their editor (ui/segment-editor.js), the *)
(* guided editor that measures what is on the screen                       *)
(* (ui/guided-editor.js, domain/guided-session.js) and the panel that      *)
(* repairs what is saved (ui/quality.js), with the requests each of them   *)
(* has under way.  The subtitles of a job are one register with an ETag,   *)
(* as SubtitleStore promises; other clients write it too.                  *)
(*                                                                         *)
(* A request whose answer will be ignored, because a generation, an epoch  *)
(* or a sequence was raised or its signal aborted, is forgotten when that  *)
(* happens, except for a PUT, which goes on as nobody's.                   *)
(***************************************************************************)
EXTENDS EditorState

CONSTANTS
    Jobs,           \* finished transcriptions
    Saved0,         \* the subtitles each of them has at first
    Typed,          \* what a person may type: <<subtitle, field, value>>
    Names,          \* how a person may name a speaker: <<id, name>>
    Norms,          \* the profiles that may be chosen
    Preferred,      \* the one that is chosen at first
    OthersWrite,    \* the edits that other clients save
    Samples,        \* subtitles to repair
    MaxActs,        \* bound: what the person does
    MaxOthers,      \* bound: what other clients save
    None

ASSUME NormsAssumption == Preferred \in Norms /\ None \notin Norms \cup Jobs
ASSUME BoundsAssumption == MaxActs \in Nat /\ MaxOthers \in Nat

SubtitleFields == {"video", "text", "start", "end", "speaker", "words"}
ASSUME SavedAssumption ==
    /\ DOMAIN Saved0 = Jobs
    /\ \A j \in Jobs : \A i \in DOMAIN Saved0[j] : DOMAIN Saved0[j][i] = SubtitleFields /\ Saved0[j][i].video = j

(* What a worker writes as segments.json (and the guided editor measures): *)
(* times are not negative.                                                 *)
Subtitles == [video : Jobs, text : Seq(Seq(Nat)), start : Nat, end : Nat, speaker : STRING,
              words : {"real", "spread", "none"}]
ASSUME SamplesAssumption == \A segments \in Samples : segments \in Seq(Subtitles)

VARIABLES
    server,         \* segments.json of each job
    shown,          \* the job of the results panel
    load,           \* its GET /segments
    editor,         \* the editor: its job, its EditorState and its flags
    reload,         \* the GET /segments of its reload button
    puts,           \* PUT /segments under way
    guided,         \* the guided editor and its session
    quality,        \* the quality panel
    acts, others    \* how many things were done

vars == <<server, shown, load, editor, reload, puts, guided, quality, acts, others>>

Closed == [job |-> None, e |-> OpenEditor(<<>>), saving |-> FALSE, conflict |-> FALSE, bad |-> {}]
Opened(job, segments) == [Closed EXCEPT !.job = job, !.e = OpenEditor(segments)]
Asking(job) == [job |-> job, read |-> None]

NoGuide == [job |-> None, profile |-> None, profiles |-> "no", waiting |-> None, status |-> "idle",
            fresh |-> FALSE, report |-> None, timer |-> None, check |-> None, sig |-> None]
NoPanel(job) == [job |-> job, step |-> "idle", worth |-> FALSE, proposal |-> None]

Init ==
    /\ server = Saved0
    /\ shown = None /\ load = None /\ editor = Closed /\ reload = None /\ puts = {}
    /\ guided = NoGuide /\ quality = NoPanel(None)
    /\ acts = 0 /\ others = 0

HasLocalIssues(ed) == ed.bad # {} \/ HasIssues(ed.e)
-----------------------------------------------------------------------------
(* The session that measures (guided-session.js). *)
CancelPending(g) == [g EXCEPT !.timer = None, !.check = None]

RunCheck(g, segments) ==
    [CancelPending(g) EXCEPT !.status = "pending", !.fresh = FALSE,
        !.check = [segments |-> segments, profile |-> g.profile, job |-> g.job]]

(* Mutant: the measurement under way is not cancelled. *)
ScheduleMutant(g, segments) ==
    [g EXCEPT !.fresh = FALSE, !.status = IF @ \in {"idle", "paused"} THEN "pending" ELSE @, !.timer = segments]

Schedule(g, segments) ==
    [CancelPending(g) EXCEPT !.fresh = FALSE, !.timer = segments,
        !.status = IF @ \in {"idle", "paused"} THEN "pending" ELSE @]

Pause(g) == [CancelPending(g) EXCEPT !.status = "paused", !.fresh = FALSE]
Reset(g) == [CancelPending(g) EXCEPT !.status = "idle", !.fresh = FALSE, !.report = None]

MeasureNow(g, ed) ==
    LET next == [g EXCEPT !.sig = CurrentSegments(ed.e)]
    IN IF g.job = None THEN g
       ELSE IF HasLocalIssues(ed) THEN Pause(next) ELSE RunCheck(next, next.sig)

(* Anything that changes in the editor: measured again if the subtitles did. *)
OnEdited(g, ed) ==
    LET segments == CurrentSegments(ed.e)
    IN IF g.job = None THEN g
       ELSE IF HasLocalIssues(ed) THEN (IF g.status = "paused" THEN g ELSE Pause(g))
       ELSE IF segments = g.sig /\ g.status # "paused" THEN g
       ELSE Schedule([g EXCEPT !.sig = segments], segments)

(* The profiles are asked for once; who comes while they are on their way goes on without. *)
GuidedOpen(g, job, ed) ==
    LET next == [Reset(g) EXCEPT !.job = job, !.sig = None]
    IN CASE g.profiles = "no" -> [next EXCEPT !.profiles = "asked", !.waiting = job]
         [] g.profiles = "asked" -> next
         [] OTHER -> MeasureNow(next, ed)

GuidedClose(g) == [Reset(g) EXCEPT !.job = None, !.sig = None]
-----------------------------------------------------------------------------
(* refreshForm of the quality panel: another transcription, another epoch. *)
RefreshForm(q, ed) == IF q.job = ed.job THEN q ELSE NoPanel(ed.job)

(* refreshBar: the panels are told of every change of the editor. *)
Edited(ed) ==
    /\ editor' = ed
    /\ guided' = OnEdited(guided, ed)
    /\ quality' = RefreshForm(quality, ed)

(* The answers to these are nobody's from now on. *)
Orphaned(S, by) == {[p EXCEPT !.by = IF @ \in by THEN "nobody" ELSE @] : p \in S}

(* open and close of the editor raise its generation; the epoch of the quality panel follows its job. *)
NewGeneration(job) ==
    /\ reload' = None
    /\ puts' = Orphaned(puts, IF quality.job = job THEN {"editor"} ELSE {"editor", "panel"})

Act == acts < MaxActs /\ acts' = acts + 1
-----------------------------------------------------------------------------
(* The results panel: show, hide and load. *)
CloseEditor ==
    /\ editor' = Closed
    /\ guided' = GuidedClose(guided)
    /\ quality' = RefreshForm(quality, Closed)
    /\ NewGeneration(None)

Show(j) ==
    /\ Act /\ shown # j
    /\ shown' = j /\ load' = Asking(j)
    /\ CloseEditor
    /\ UNCHANGED <<server, others>>

Hide ==
    /\ Act /\ shown # None
    /\ shown' = None /\ load' = None
    /\ CloseEditor
    /\ UNCHANGED <<server, others>>

(* After its own repair the quality panel measures what is saved, if nothing was changed meanwhile. *)
AfterApplied(q, ed) ==
    IF q.step # "reloading" THEN q
    ELSE [q EXCEPT !.step = IF ed.job = None \/ IsDirty(ed.e) THEN "idle" ELSE "checking"]

(* Its retry button, which is there after a load or a download of the .srt that
   failed, with the editor open or not, and gives up the load under way.       *)
Retry ==
    /\ Act /\ shown # None
    /\ load' = Asking(shown)
    /\ quality' = AfterApplied(quality, editor)
    /\ UNCHANGED <<server, shown, editor, reload, puts, guided, others>>

LoadRead ==
    /\ load # None /\ load.read = None
    /\ load' = [load EXCEPT !.read = server[load.job]]
    /\ UNCHANGED <<server, shown, editor, reload, puts, guided, quality, acts, others>>

LoadArrives ==
    /\ load # None /\ load.read # None
    /\ load' = None
    /\ LET ed == Opened(load.job, load.read)
       IN /\ editor' = ed
          /\ guided' = GuidedOpen(guided, load.job, ed)
          /\ quality' = AfterApplied(RefreshForm(quality, ed), ed)
    /\ NewGeneration(load.job)
    /\ UNCHANGED <<server, shown, acts, others>>

LoadFails ==
    /\ load # None
    /\ load' = None
    /\ quality' = AfterApplied(quality, editor)
    /\ UNCHANGED <<server, shown, editor, reload, puts, guided, acts, others>>
-----------------------------------------------------------------------------
(* What the person does in the editor. *)
EditorOpen == editor.job # None

Type(i, f, value) ==
    /\ Act /\ EditorOpen /\ i \in DOMAIN editor.e.base
    /\ LET ed == [editor EXCEPT !.e = SetField(@, i, f, value), !.bad = @ \ {<<i, f>>}]
       IN IF f # "text" /\ value = Shown(editor.e, i, f)
          THEN editor' = ed /\ UNCHANGED <<guided, quality>>
          ELSE Edited(ed)
    /\ UNCHANGED <<server, shown, load, reload, puts, others>>

(* A time that cannot be read. *)
TypeUnreadable(i, f) ==
    /\ Act /\ EditorOpen /\ i \in DOMAIN editor.e.base
    /\ Edited([editor EXCEPT !.bad = @ \cup {<<i, f>>}])
    /\ UNCHANGED <<server, shown, load, reload, puts, others>>

Rename(id, name) ==
    /\ Act /\ EditorOpen
    /\ Edited([editor EXCEPT !.e = RenameSpeaker(@, id, name)])
    /\ UNCHANGED <<server, shown, load, reload, puts, others>>

DiscardAll ==
    /\ Act /\ EditorOpen /\ IsDirty(editor.e) /\ ~editor.saving
    /\ Edited([editor EXCEPT !.e = Discard(@), !.bad = {}, !.conflict = FALSE])
    /\ UNCHANGED <<server, shown, load, reload, puts, others>>

(* Some of the edits that were proposed for what was measured: one, those of a rule, all. *)
Apply(S) ==
    /\ Act /\ guided.fresh
    /\ LET fixes == FixEdits(guided.report.segments, guided.report.profile)
       IN /\ S # {} /\ S \subseteq DOMAIN fixes
          /\ Edited([editor EXCEPT
                !.e = ApplyFixes(@, Restrict(fixes, S)),
                !.bad = {x \in @ : ~(x[1] \in S /\ x[2] \in DOMAIN fixes[x[1]])}])
    /\ UNCHANGED <<server, shown, load, reload, puts, others>>

UndoFix ==
    /\ Act /\ EditorOpen /\ editor.e.undo # <<>>
    /\ LET touched == DOMAIN editor.e.undo[Len(editor.e.undo)]
       IN Edited([editor EXCEPT !.e = Undo(@), !.bad = {x \in @ : x[1] \notin touched}])
    /\ UNCHANGED <<server, shown, load, reload, puts, others>>

(* persist: the edits go with the version they were made on, or, over a conflict, with the current one. *)
Save(over) ==
    /\ Act /\ EditorOpen /\ IsDirty(editor.e) /\ ~editor.saving /\ ~HasLocalIssues(editor)
    /\ over => editor.conflict
    /\ Edited([editor EXCEPT !.saving = TRUE, !.conflict = FALSE])
    /\ puts' = puts \cup {[by |-> "editor", job |-> editor.job, sent |-> editor.e.drafts, over |-> over,
            etag |-> IF over THEN None ELSE editor.e.base, answer |-> "none", result |-> None]}
    /\ UNCHANGED <<server, shown, load, reload, others>>

AskReload ==
    /\ Act /\ EditorOpen /\ reload = None
    /\ reload' = Asking(editor.job)
    /\ UNCHANGED <<server, shown, load, editor, puts, guided, quality, others>>

ReloadRead ==
    /\ reload # None /\ reload.read = None
    /\ reload' = [reload EXCEPT !.read = server[reload.job]]
    /\ UNCHANGED <<server, shown, load, editor, puts, guided, quality, acts, others>>

ReloadArrives ==
    /\ reload # None /\ reload.read # None
    /\ Edited(Opened(reload.job, reload.read))
    /\ NewGeneration(reload.job)
    /\ UNCHANGED <<server, shown, load, acts, others>>

ReloadFails ==
    /\ reload # None
    /\ reload' = None
    /\ Edited(editor)
    /\ UNCHANGED <<server, shown, load, puts, acts, others>>
-----------------------------------------------------------------------------
(* PUT /segments: read with its ETag, compared, written. *)
ReadEtag(p) ==
    /\ p.over /\ p.etag = None
    /\ puts' = (puts \ {p}) \cup (IF p.by = "editor" THEN {[p EXCEPT !.etag = server[p.job]]} ELSE {})
    /\ UNCHANGED <<server, shown, load, editor, reload, guided, quality, acts, others>>

Handle(p) ==
    /\ p.etag # None /\ p.answer = "none"
    /\ LET after == ApplyEdits(server[p.job], p.sent)
           answers(a, result) == puts' = (puts \ {p}) \cup
                (IF p.by = "nobody" THEN {} ELSE {[p EXCEPT !.answer = a, !.result = result]})
       IN \/ /\ p.etag # server[p.job]
             /\ answers("conflict", None) /\ UNCHANGED server
          \/ /\ p.etag = server[p.job] /\ ~Accepted(server[p.job], p.sent)
             /\ answers("rejected", None) /\ UNCHANGED server
          \/ /\ p.etag = server[p.job] /\ Accepted(server[p.job], p.sent)
             /\ answers("saved", after) /\ server' = [server EXCEPT ![p.job] = after]
    /\ UNCHANGED <<shown, load, editor, reload, guided, quality, acts, others>>

EditorAnswered(p) ==
    /\ p.by = "editor" /\ p.answer # "none"
    /\ puts' = puts \ {p}
    /\ Edited([editor EXCEPT !.saving = FALSE, !.conflict = (p.answer = "conflict"),
            !.e = IF p.answer = "saved" THEN Saved(@, p.result, p.sent) ELSE @])
    /\ UNCHANGED <<server, shown, load, reload, acts, others>>

(* No answer comes; the request may still arrive. *)
Unanswered(p) ==
    /\ p.by = "editor"
    /\ puts' = (puts \ {p}) \cup (IF p.answer = "none" /\ p.etag # None THEN {[p EXCEPT !.by = "nobody"]} ELSE {})
    /\ Edited([editor EXCEPT !.saving = FALSE])
    /\ UNCHANGED <<server, shown, load, reload, acts, others>>

(* Another client: an edit of the version it read, with its ETag. *)
OtherSaves(j, edit) ==
    /\ others < MaxOthers /\ others' = others + 1
    /\ Accepted(server[j], edit)
    /\ server' = [server EXCEPT ![j] = ApplyEdits(@, edit)]
    /\ UNCHANGED <<shown, load, editor, reload, puts, guided, quality, acts>>
-----------------------------------------------------------------------------
(* The guided editor. *)
Guides(g) == guided' = g /\ UNCHANGED <<server, shown, load, editor, reload, puts, quality, others>>

TimerFires == guided.timer # None /\ Guides(RunCheck(guided, guided.timer)) /\ UNCHANGED acts

CheckAnswered ==
    /\ guided.check # None /\ guided.check.profile # None
    /\ Guides([guided EXCEPT !.report = guided.check, !.status = "ready", !.fresh = TRUE, !.check = None])
    /\ UNCHANGED acts

(* Also when there is no profile to measure with. *)
CheckFails ==
    /\ guided.check # None
    /\ Guides([guided EXCEPT !.status = "error", !.fresh = FALSE, !.check = None])
    /\ UNCHANGED acts

ProfilesArrive ==
    /\ guided.profiles = "asked"
    /\ LET g == [guided EXCEPT !.profiles = "here", !.profile = Preferred, !.waiting = None]
       IN Guides(IF guided.job = guided.waiting THEN MeasureNow(g, editor) ELSE g)
    /\ UNCHANGED acts

ProfilesFail ==
    /\ guided.profiles = "asked"
    /\ Guides([guided EXCEPT !.profiles = "no", !.waiting = None])
    /\ UNCHANGED acts

ChooseProfile(p) ==
    /\ Act /\ guided.profiles = "here" /\ guided.profile # p
    /\ Guides(MeasureNow([guided EXCEPT !.profile = p], editor))
-----------------------------------------------------------------------------
(* The quality panel. *)
PanelGoes(q) == quality' = q /\ UNCHANGED <<server, shown, editor, reload, guided, others>>
PanelReady == quality.job # None /\ quality.step = "idle"

AskReport ==
    /\ Act /\ PanelReady /\ ~IsDirty(editor.e)
    /\ PanelGoes([quality EXCEPT !.step = "checking"])
    /\ UNCHANGED <<load, puts>>

ReportArrives(p) ==
    /\ quality.step = "checking"
    /\ LET found == CheckQuality(server[quality.job], p)
       IN PanelGoes([quality EXCEPT !.step = "idle", !.proposal = None, !.worth = found.errors + found.warnings > 0])
    /\ UNCHANGED <<load, puts, acts>>

AskProposal ==
    /\ Act /\ PanelReady /\ quality.worth /\ ~IsDirty(editor.e)
    /\ PanelGoes([quality EXCEPT !.step = "proposing"])
    /\ UNCHANGED <<load, puts>>

ProposalArrives(p) ==
    /\ quality.step = "proposing"
    /\ PanelGoes([quality EXCEPT !.step = "idle",
            !.proposal = [etag |-> server[quality.job], edits |-> FixEdits(server[quality.job], p)]])
    /\ UNCHANGED <<load, puts, acts>>

PanelFails ==
    /\ quality.step \in {"checking", "proposing"}
    /\ PanelGoes([quality EXCEPT !.step = "idle", !.worth = IF quality.step = "checking" THEN FALSE ELSE @])
    /\ UNCHANGED <<load, puts, acts>>

DropProposal ==
    /\ Act /\ PanelReady /\ quality.proposal # None
    /\ PanelGoes([quality EXCEPT !.proposal = None])
    /\ UNCHANGED <<load, puts>>

(* Another profile: neither the report nor the proposal is of it. *)
ChooseNorm ==
    /\ Act /\ PanelReady
    /\ PanelGoes(NoPanel(quality.job))
    /\ UNCHANGED <<load, puts>>

ApplyProposal ==
    /\ Act /\ PanelReady /\ quality.proposal # None
    /\ quality.proposal.edits # Nothing
    /\ PanelGoes([quality EXCEPT !.step = "applying"])
    /\ puts' = puts \cup {[by |-> "panel", job |-> quality.job, sent |-> quality.proposal.edits, over |-> FALSE,
            etag |-> quality.proposal.etag, answer |-> "none", result |-> None]}
    /\ UNCHANGED load

(* The editor is loaded again with what was saved. *)
ProposalApplied(p) ==
    /\ p.by = "panel" /\ p.answer = "saved"
    /\ puts' = puts \ {p} /\ load' = Asking(shown)
    /\ PanelGoes([quality EXCEPT !.step = "reloading", !.proposal = None])
    /\ UNCHANGED acts

ProposalRefused(p) ==
    /\ p.by = "panel" /\ p.answer # "saved"
    /\ puts' = (puts \ {p}) \cup (IF p.answer = "none" THEN {[p EXCEPT !.by = "nobody"]} ELSE {})
    /\ PanelGoes(NoPanel(quality.job))
    /\ UNCHANGED <<load, acts>>
-----------------------------------------------------------------------------
Person ==
    \/ \E j \in Jobs : Show(j)
    \/ Hide \/ Retry \/ DiscardAll \/ UndoFix \/ AskReload \/ AskReport \/ AskProposal
    \/ DropProposal \/ ChooseNorm \/ ApplyProposal
    \/ \E x \in Typed : Type(x[1], x[2], x[3]) \/ (x[2] # "text" /\ TypeUnreadable(x[1], x[2]))
    \/ \E x \in Names : Rename(x[1], x[2])
    \/ \E S \in SUBSET DOMAIN editor.e.base : Apply(S)
    \/ \E over \in BOOLEAN : Save(over)
    \/ \E p \in Norms : ChooseProfile(p)

Network ==
    \/ LoadRead \/ LoadArrives \/ LoadFails \/ ReloadRead \/ ReloadArrives \/ ReloadFails
    \/ \E p \in puts : ReadEtag(p) \/ Handle(p) \/ EditorAnswered(p) \/ Unanswered(p) \/ ProposalApplied(p) \/ ProposalRefused(p)
    \/ TimerFires \/ CheckAnswered \/ CheckFails \/ ProfilesArrive \/ ProfilesFail
    \/ \E p \in Norms : ReportArrives(p) \/ ProposalArrives(p)
    \/ PanelFails
    \/ \E j \in Jobs, edit \in OthersWrite : OtherSaves(j, edit)

Next == Person \/ Network

Spec == Init /\ [][Next]_vars
-----------------------------------------------------------------------------
TypeOK ==
    /\ shown \in Jobs \cup {None} /\ editor.job \in {None, shown}
    /\ \A p \in puts : p.by \in {"editor", "panel", "nobody"} /\ p.answer \in {"none", "saved", "conflict", "rejected"}
    /\ guided.job \in {None, editor.job} /\ guided.profile \in Norms \cup {None}
    /\ guided.profiles \in {"no", "asked", "here"}
    /\ guided.status \in {"idle", "pending", "ready", "paused", "error"}
    /\ quality.job = editor.job
    /\ quality.step \in {"idle", "checking", "proposing", "applying", "reloading"}
    /\ acts \in 0 .. MaxActs /\ others \in 0 .. MaxOthers

(* A repair can be applied only while the report was measured on what is   *)
(* seen now, of this job, with the profile chosen now (guided-session.js:4). *)
FreshIsCurrent ==
    guided.fresh => guided.report = [segments |-> CurrentSegments(editor.e), profile |-> guided.profile, job |-> editor.job]

(* No answer mixes the subtitles of one job into another's (segment-editor.js:5). *)
NothingMixed ==
    /\ \A i \in DOMAIN editor.e.base : editor.e.base[i].video = editor.job
    /\ \A j \in Jobs : \A i \in DOMAIN server[j] : server[j][i].video = j

(* What the editor lets through, the server accepts: a save is refused as  *)
(* invalid only if it goes over somebody else's (editor-state.js:169).     *)
SavesAreAccepted == \A p \in puts : p.by = "editor" /\ p.answer = "rejected" => p.over

ScreenIsHonest == TypeOK /\ FreshIsCurrent /\ NothingMixed /\ SavesAreAccepted

SameValue(f, after, before) == after = before \/ (f = "text" /\ after = Trim(before))

(* What a person typed, sent or not, stays as it is seen until that person *)
(* changes it or the subtitles are loaded again, whatever the answers are  *)
(* and in whatever order they come (editor-state.js:133).                  *)
TypedIsKept ==
    [][acts' = acts /\ load' = load /\ reload' = reload =>
        \A i \in DOMAIN editor.e.base : \A f \in Fields :
            (f \in Drafted(editor.e, i)
                \/ \E p \in puts : p.by = "editor" /\ i \in DOMAIN p.sent /\ f \in DOMAIN p.sent[i])
            => SameValue(f, Shown(editor'.e, i, f), Shown(editor.e, i, f))]_vars

(* Any of the edits together make it no worse. *)
NoWorse(before, after) ==
    /\ after.errors <= before.errors
    /\ after.errors + after.warnings <= before.errors + before.warnings

OnlyHelp(segments, edits, p) ==
    /\ Accepted(segments, edits)
    /\ \A i \in DOMAIN edits : ApplyEdits(segments, edits)[i].words = segments[i].words
    /\ \A S \in SUBSET DOMAIN edits :
          NoWorse(CheckQuality(segments, p), CheckQuality(ApplyEdits(segments, Restrict(edits, S)), p))

(* Any of the edits of a repair, applied to the subtitles it was made for, *)
(* leave no more errors and no more errors and warnings than there were,   *)
(* keep every word with its time, and are accepted (fixer.ts:4).  Looked   *)
(* at in the initial state, for the samples and every profile.             *)
FixesOnlyHelp ==
    acts = 0 /\ others = 0 => \A segments \in Samples, p \in Profiles :
        OnlyHelp(segments, FixEdits(segments, p), p)
=============================================================================

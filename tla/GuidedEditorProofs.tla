-------------------------- MODULE GuidedEditorProofs --------------------------
(***************************************************************************)
(* The result of a transcription, for any transcriptions, subtitles, texts *)
(* and profiles, any number of gestures and of saves by other clients.     *)
(*                                                                         *)
(* The invariant says of every piece of state which job it is of (the      *)
(* subtitles that were read, the requests whose answer somebody waits for, *)
(* what is measured) and that what is measured is what is seen.  Then come *)
(* the repairs of Quality and the panels of the result.                    *)
(***************************************************************************)
EXTENDS GuidedEditor, ResultPanels, FiniteSetTheorems, SequenceTheorems, WellFoundedInduction, TLAPS

(* The subtitles of a job: edits change neither how many there are nor of which video. *)
IsOf(segments, j) ==
    /\ DOMAIN segments = DOMAIN Saved0[j]
    /\ \A i \in DOMAIN segments : DOMAIN segments[i] = SubtitleFields /\ segments[i].video = j

ServerInv == DOMAIN server = Jobs /\ \A j \in Jobs : IsOf(server[j], j)

DraftsFit(e) ==
    /\ DOMAIN e.drafts \subseteq DOMAIN e.base
    /\ \A i \in DOMAIN e.drafts : DOMAIN e.drafts[i] \subseteq Fields

EditorInv(ed) ==
    /\ DOMAIN ed = {"job", "e", "saving", "conflict", "bad"}
    /\ DOMAIN ed.e = {"base", "drafts", "undo"}
    /\ ed.job \in Jobs => IsOf(ed.e.base, ed.job)
    /\ ed.job \notin Jobs => DOMAIN ed.e.base = {}
    /\ DraftsFit(ed.e)

(* A GET that is under way is of this job, and so is what it has read. *)
ReadInv(r, job) ==
    r # None => /\ DOMAIN r = {"job", "read"}
                /\ r.job = job /\ job \in Jobs
                /\ r.read # None => IsOf(r.read, job)

(* What was sent is what was saved, but for the blanks around a text. *)
Took(result, sent) ==
    \A i \in DOMAIN result \cap DOMAIN sent : \A f \in Fields \cap DOMAIN sent[i] :
        result[i][f] = IF f = "text" THEN Trim(sent[i][f]) ELSE sent[i][f]

PutInv(p, job, saving) ==
    /\ DOMAIN p = {"by", "job", "sent", "over", "etag", "answer", "result"}
    /\ p.by \in {"editor", "panel", "nobody"} /\ p.answer \in {"none", "saved", "conflict", "rejected"}
    /\ p.job \in Jobs /\ p.over \in BOOLEAN
    /\ p.by # "nobody" => p.job = job
    /\ p.by = "editor" => saving
    /\ p.by = "editor" /\ ~p.over => Accepted(p.etag, p.sent)
    /\ p.by = "editor" /\ p.answer = "rejected" => p.over
    /\ p.answer = "saved" => IsOf(p.result, p.job) /\ Took(p.result, p.sent)

PutsInv(S, job, saving) ==
    /\ \A p \in S : PutInv(p, job, saving)
    /\ \A p, q \in S : p.by = "editor" /\ q.by = "editor" => p = q

GuideTypes(g, ed) ==
    /\ DOMAIN g = {"job", "profile", "profiles", "waiting", "status", "fresh", "report", "timer", "check", "sig"}
    /\ g.job \in {None, ed.job}
    /\ g.profile \in Norms \cup {None} /\ g.profiles \in {"no", "asked", "here"}
    /\ g.profiles = "here" <=> g.profile # None
    /\ g.status \in {"idle", "pending", "ready", "paused", "error"}
    /\ g.fresh \in BOOLEAN

Quiet(g) == g.timer = None /\ g.check = None /\ ~g.fresh

Measures(g, ed) ==
    /\ g.job = None \/ g.status = "paused" => Quiet(g)
    /\ ~Quiet(g) => g.sig = CurrentSegments(ed.e)
    /\ g.timer # None => g.timer = g.sig
    /\ g.check # None => \E p \in {None, g.profile} : g.check = [segments |-> g.sig, profile |-> p, job |-> g.job]
    /\ g.fresh => g.profile # None /\ g.report = [segments |-> g.sig, profile |-> g.profile, job |-> g.job]

PanelInv(q, ed) ==
    /\ DOMAIN q = {"job", "step", "worth", "proposal"}
    /\ q.job = ed.job
    /\ q.step \in {"idle", "checking", "proposing", "applying", "reloading"}

ResultInv ==
    /\ shown \in Jobs \cup {None} /\ editor.job \in {None, shown}
    /\ acts \in 0 .. MaxActs /\ others \in 0 .. MaxOthers
    /\ ServerInv
    /\ EditorInv(editor)
    /\ ReadInv(load, shown) /\ ReadInv(reload, editor.job)
    /\ PutsInv(puts, editor.job, editor.saving)
    /\ GuideTypes(guided, editor) /\ Measures(guided, editor)
    /\ PanelInv(quality, editor)
-----------------------------------------------------------------------------
(* Edits *)

LEMMA EditsKeepTheJob ==
    ASSUME NEW j, NEW segments, IsOf(segments, j), NEW edits
    PROVE  IsOf(ApplyEdits(segments, edits), j)
<1>1. ASSUME NEW i \in DOMAIN segments
      PROVE  /\ DOMAIN AfterEdit(segments[i], edits[i]) = SubtitleFields
             /\ AfterEdit(segments[i], edits[i]).video = j
  BY DEF AfterEdit, IsOf, SubtitleFields
<1> QED BY <1>1 DEF IsOf, ApplyEdits

LEMMA EditsAreTaken ==
    ASSUME NEW j, NEW segments, IsOf(segments, j), NEW edits
    PROVE  Took(ApplyEdits(segments, edits), edits)
<1>1. ASSUME NEW i \in DOMAIN segments, NEW f \in Fields \cap DOMAIN edits[i]
      PROVE  AfterEdit(segments[i], edits[i])[f] = IF f = "text" THEN Trim(edits[i][f]) ELSE edits[i][f]
  <2>1. DOMAIN segments[i] = SubtitleFields
    BY DEF IsOf
  <2>2. f = "text" \/ f = "start" \/ f = "end" \/ f = "speaker"
    BY DEF Fields
  <2> QED BY <2>1, <2>2 DEF AfterEdit, SubtitleFields, Field
<1> QED BY <1>1 DEF Took, ApplyEdits

LEMMA FieldsAreSet ==
    ASSUME NEW e, DOMAIN e = {"base", "drafts", "undo"}, NEW values
    PROVE  /\ DOMAIN SetFields(e, values) = {"base", "drafts", "undo"}
           /\ SetFields(e, values).base = e.base
           /\ SetFields(e, values).undo = e.undo
           /\ DraftsFit(SetFields(e, values))
           /\ \A i \in DOMAIN e.base, f \in Fields :
                 Shown(SetFields(e, values), i, f)
                     = IF <<i, f>> \in DOMAIN values THEN values[<<i, f>>] ELSE Shown(e, i, f)
<1> DEFINE after(i, f) == IF <<i, f>> \in DOMAIN values THEN values[<<i, f>>] ELSE Shown(e, i, f)
           fields(i) == {f \in Fields : IF <<i, f>> \in DOMAIN values THEN after(i, f) # e.base[i][f]
                                                                      ELSE f \in Drafted(e, i)}
           kept == {n \in DOMAIN e.base : fields(n) # {}}
           drafts == [i \in kept |-> [f \in fields(i) |-> after(i, f)]]
           n == SetFields(e, values)
<1>1. n = [e EXCEPT !.drafts = drafts]
  BY DEF SetFields
<1>2. DOMAIN n = {"base", "drafts", "undo"} /\ n.base = e.base /\ n.undo = e.undo /\ n.drafts = drafts
  BY <1>1
<1>3. DOMAIN drafts = kept /\ \A i \in kept : DOMAIN drafts[i] = fields(i) /\ \A f \in fields(i) : drafts[i][f] = after(i, f)
  OBVIOUS
<1>4. DraftsFit(n)
  BY <1>2, <1>3 DEF DraftsFit
<1>5. ASSUME NEW i \in DOMAIN e.base, NEW f \in Fields
      PROVE  Shown(n, i, f) = after(i, f)
  <2>1. Drafted(n, i) = fields(i)
    BY <1>2, <1>3 DEF Drafted
  <2>2. CASE f \in fields(i)
    BY <1>2, <1>3, <2>1, <2>2 DEF Shown
  <2>3. CASE f \notin fields(i)
    <3>1. Shown(n, i, f) = e.base[i][f]
      BY <1>2, <2>1, <2>3 DEF Shown
    <3>2. after(i, f) = e.base[i][f]
      BY <2>3 DEF Shown
    <3> QED BY <3>1, <3>2
  <2> QED BY <2>2, <2>3
<1> QED BY <1>2, <1>4, <1>5

LEMMA OneFieldIsSet ==
    ASSUME NEW e, DOMAIN e = {"base", "drafts", "undo"}, NEW i, NEW f, NEW value
    PROVE  /\ DOMAIN SetField(e, i, f, value) = {"base", "drafts", "undo"}
           /\ SetField(e, i, f, value).base = e.base
           /\ DraftsFit(SetField(e, i, f, value))
           /\ \A k \in DOMAIN e.base, g \in Fields :
                 Shown(SetField(e, i, f, value), k, g) = IF k = i /\ g = f THEN value ELSE Shown(e, k, g)
<1> DEFINE values == [x \in {<<i, f>>} |-> value]
<1>1. \A k, g : <<k, g>> \in DOMAIN values <=> k = i /\ g = f
  OBVIOUS
<1>2. values[<<i, f>>] = value
  OBVIOUS
<1> HIDE DEF values
<1>3. SetField(e, i, f, value) = SetFields(e, values)
  BY DEF SetField, values
<1>4. ASSUME NEW k \in DOMAIN e.base, NEW g \in Fields
      PROVE  Shown(SetFields(e, values), k, g) = IF k = i /\ g = f THEN value ELSE Shown(e, k, g)
  <2>1. Shown(SetFields(e, values), k, g) = IF <<k, g>> \in DOMAIN values THEN values[<<k, g>>] ELSE Shown(e, k, g)
    BY FieldsAreSet
  <2> QED BY <1>1, <1>2, <2>1
<1> QED BY <1>3, <1>4, FieldsAreSet

(* What the editor shows to the verifier depends on what is seen only. *)
LEMMA SeenIsMeasured ==
    ASSUME NEW e, NEW n, n.base = e.base,
           \A i \in DOMAIN e.base, f \in Fields : Shown(n, i, f) = Shown(e, i, f)
    PROVE  CurrentSegments(n) = CurrentSegments(e)
BY DEF CurrentSegments, Fields
-----------------------------------------------------------------------------
(* What is measured *)

LEMMA MeasuringNow ==
    ASSUME NEW g, NEW ed, GuideTypes(g, ed), g.job = None => Quiet(g)
    PROVE  GuideTypes(MeasureNow(g, ed), ed) /\ Measures(MeasureNow(g, ed), ed)
<1>1. CASE g.job = None
  BY <1>1 DEF MeasureNow, Measures, Quiet
<1>2. CASE g.job # None
  <2> DEFINE next == [g EXCEPT !.sig = CurrentSegments(ed.e)]
  <2>1. GuideTypes(next, ed) /\ next.sig = CurrentSegments(ed.e) /\ next.job = g.job
    BY DEF GuideTypes
  <2> HIDE DEF next
  <2>2. CASE HasLocalIssues(ed)
    <3>1. MeasureNow(g, ed) = Pause(next)
      BY <1>2, <2>2 DEF MeasureNow, next
    <3> QED BY <2>1, <3>1 DEF Pause, CancelPending, GuideTypes, Measures, Quiet
  <2>3. CASE ~HasLocalIssues(ed)
    <3>1. MeasureNow(g, ed) = RunCheck(next, next.sig)
      BY <1>2, <2>3 DEF MeasureNow, next
    <3> DEFINE r == RunCheck(next, next.sig)
    <3>2. /\ DOMAIN r = DOMAIN next /\ r.job = next.job /\ r.profile = next.profile /\ r.profiles = next.profiles
          /\ r.status = "pending" /\ r.fresh = FALSE /\ r.timer = None /\ r.sig = next.sig
          /\ r.check = [segments |-> next.sig, profile |-> next.profile, job |-> next.job]
      BY <2>1 DEF RunCheck, CancelPending, GuideTypes
    <3> HIDE DEF r
    <3>3. GuideTypes(r, ed)
      BY <2>1, <3>2 DEF GuideTypes
    <3>4. Measures(r, ed)
      BY <1>2, <2>1, <3>2 DEF Measures
    <3> QED BY <3>1, <3>3, <3>4 DEF r
  <2> QED BY <2>2, <2>3
<1> QED BY <1>1, <1>2

LEMMA EditedIsMeasured ==
    ASSUME NEW g, NEW ed, NEW next, GuideTypes(g, ed), Measures(g, ed), next.job = ed.job
    PROVE  GuideTypes(OnEdited(g, next), next) /\ Measures(OnEdited(g, next), next)
<1> DEFINE segments == CurrentSegments(next.e)
<1>1. GuideTypes(g, next)
  BY DEF GuideTypes
<1>2. CASE OnEdited(g, next) = g /\ (Quiet(g) \/ segments = g.sig)
  BY <1>1, <1>2 DEF Measures, Quiet
<1>3. CASE OnEdited(g, next) = Pause(g)
  BY <1>1, <1>3 DEF Pause, CancelPending, GuideTypes, Measures, Quiet
<1>4. CASE g.job # None /\ OnEdited(g, next) = Schedule([g EXCEPT !.sig = segments], segments)
  <2> DEFINE r == Schedule([g EXCEPT !.sig = segments], segments)
  <2>1. /\ DOMAIN r = DOMAIN g /\ r.job = g.job /\ r.profile = g.profile /\ r.profiles = g.profiles
        /\ r.status \in {"pending", "ready", "error"} /\ r.fresh = FALSE /\ r.check = None
        /\ r.sig = segments /\ r.timer = segments
    BY <1>1 DEF Schedule, CancelPending, GuideTypes
  <2> HIDE DEF r
  <2>2. GuideTypes(r, next)
    BY <1>1, <2>1 DEF GuideTypes
  <2>3. Measures(r, next)
    BY <1>4, <2>1 DEF Measures
  <2> QED BY <1>4, <2>2, <2>3 DEF r
<1>5. g.job = None \/ g.status = "paused" => Quiet(g)
  BY DEF Measures
<1> QED BY <1>2, <1>3, <1>4, <1>5 DEF OnEdited

LEMMA OpeningIsMeasured ==
    ASSUME NEW g, NEW old, NEW ed, GuideTypes(g, old)
    PROVE  GuideTypes(GuidedOpen(g, ed.job, ed), ed) /\ Measures(GuidedOpen(g, ed.job, ed), ed)
<1> DEFINE next == [Reset(g) EXCEPT !.job = ed.job, !.sig = None]
<1>1. GuideTypes(next, ed) /\ Quiet(next)
  BY DEF Reset, CancelPending, GuideTypes, Quiet
<1> HIDE DEF next
<1>2. Measures(next, ed)
  BY <1>1 DEF Measures, Quiet
<1>3. CASE g.profiles = "no"
  <2> DEFINE asking == [next EXCEPT !.profiles = "asked", !.waiting = ed.job]
  <2>1. GuidedOpen(g, ed.job, ed) = asking
    BY <1>3 DEF GuidedOpen, next
  <2>2. next.profile = g.profile
    BY DEF next, Reset, CancelPending, GuideTypes
  <2>3. GuideTypes(asking, ed)
    BY <1>1, <1>3, <2>2 DEF GuideTypes
  <2>4. Measures(asking, ed)
    BY <1>1, <1>2 DEF GuideTypes, Measures, Quiet
  <2> QED BY <2>1, <2>3, <2>4
<1>4. CASE g.profiles = "asked"
  BY <1>1, <1>2, <1>4 DEF GuidedOpen, next
<1>5. CASE g.profiles = "here"
  BY <1>1, <1>5, MeasuringNow DEF GuidedOpen, next
<1> QED BY <1>3, <1>4, <1>5 DEF GuideTypes

LEMMA ClosingIsQuiet ==
    ASSUME NEW g, NEW old, NEW ed, GuideTypes(g, old)
    PROVE  GuideTypes(GuidedClose(g), ed) /\ Measures(GuidedClose(g), ed)
BY DEF GuidedClose, Reset, CancelPending, GuideTypes, Measures, Quiet
-----------------------------------------------------------------------------
(* Requests *)

LEMMA OnePutChanges ==
    ASSUME NEW S, NEW job, NEW saving, PutsInv(S, job, saving), NEW p \in S, NEW q,
           PutInv(q, job, saving), q.by = "editor" => p.by = "editor"
    PROVE  PutsInv((S \ {p}) \cup {q}, job, saving)
BY DEF PutsInv

LEMMA SomePutsStay ==
    ASSUME NEW S, NEW job, NEW saving, PutsInv(S, job, saving), NEW T \in SUBSET S
    PROVE  PutsInv(T, job, saving)
BY DEF PutsInv

LEMMA OrphansAreNobodys ==
    ASSUME NEW S, NEW job, NEW saving, PutsInv(S, job, saving), NEW next, NEW by,
           by = {"editor", "panel"} \/ (by = {"editor"} /\ (next = job \/ job \notin Jobs))
    PROVE  PutsInv(Orphaned(S, by), next, FALSE)
<1>1. ASSUME NEW p \in S PROVE PutInv([p EXCEPT !.by = IF @ \in by THEN "nobody" ELSE @], next, FALSE)
                               /\ [p EXCEPT !.by = IF @ \in by THEN "nobody" ELSE @].by # "editor"
  <2> DEFINE q == [p EXCEPT !.by = IF @ \in by THEN "nobody" ELSE @]
  <2>1. PutInv(p, job, saving)
    BY DEF PutsInv
  <2>2. /\ DOMAIN q = DOMAIN p /\ q.job = p.job /\ q.over = p.over /\ q.answer = p.answer
        /\ q.result = p.result /\ q.sent = p.sent
        /\ q.by = IF p.by \in by THEN "nobody" ELSE p.by
    BY <2>1 DEF PutInv
  <2> HIDE DEF q
  <2>3. q.by \in {"panel", "nobody"} /\ (q.by = "panel" => p.by = "panel" /\ next = p.job)
    BY <2>1, <2>2 DEF PutInv
  <2>4. PutInv(q, next, FALSE) /\ q.by # "editor"
    BY <2>1, <2>2, <2>3 DEF PutInv
  <2> QED BY <2>4 DEF q
<1> QED BY <1>1 DEF PutsInv, Orphaned

LEMMA EditedKeeps ==
    ASSUME GuideTypes(guided, editor), Measures(guided, editor), PanelInv(quality, editor),
           NEW ed, ed.job = editor.job, Edited(ed)
    PROVE  /\ editor' = ed
           /\ GuideTypes(guided', editor') /\ Measures(guided', editor')
           /\ quality' = quality /\ PanelInv(quality', editor')
<1>1. editor' = ed /\ guided' = OnEdited(guided, ed) /\ quality' = RefreshForm(quality, ed)
  BY DEF Edited
<1>2. quality' = quality
  BY <1>1 DEF RefreshForm, PanelInv
<1>3. PanelInv(quality', editor')
  BY <1>1, <1>2 DEF PanelInv
<1> QED BY <1>1, <1>2, <1>3, EditedIsMeasured

LEMMA NewIsOpened ==
    ASSUME NEW job \in Jobs, NEW segments, IsOf(segments, job)
    PROVE  EditorInv(Opened(job, segments)) /\ Opened(job, segments).job = job /\ Opened(job, segments).saving = FALSE
BY DEF Opened, Closed, OpenEditor, EditorInv, DraftsFit, Nothing

LEMMA ClosedIsFine == EditorInv(Closed) /\ Closed.job = None /\ Closed.saving = FALSE
<1>1. None \notin Jobs
  BY NormsAssumption
<1> QED BY <1>1 DEF Closed, OpenEditor, EditorInv, DraftsFit, Nothing
-----------------------------------------------------------------------------
(* The steps *)

LEMMA ResultInit == Init => ResultInv
<1> SUFFICES ASSUME Init PROVE ResultInv
  OBVIOUS
<1>1. None \notin Jobs /\ MaxActs \in Nat /\ MaxOthers \in Nat
  BY NormsAssumption, BoundsAssumption
<1>2. ServerInv
  BY SavedAssumption DEF Init, ServerInv, IsOf
<1>3. EditorInv(editor)
  BY ClosedIsFine DEF Init
<1>4. GuideTypes(guided, editor) /\ Measures(guided, editor)
  BY NormsAssumption DEF Init, NoGuide, GuideTypes, Measures, Quiet, Closed
<1>5. PanelInv(quality, editor)
  BY DEF Init, NoPanel, PanelInv, Closed
<1>6. ReadInv(load, shown) /\ ReadInv(reload, editor.job) /\ PutsInv(puts, editor.job, editor.saving)
  BY DEF Init, ReadInv, PutsInv
<1>7. editor.job = None /\ shown = None /\ acts = 0 /\ others = 0
  BY ClosedIsFine DEF Init
<1> QED BY <1>1, <1>2, <1>3, <1>4, <1>5, <1>6, <1>7 DEF ResultInv

(* Show and Hide *)
LEMMA ClosingKeeps ==
    ASSUME ResultInv, Act, CloseEditor, UNCHANGED <<server, others>>,
           (\E j \in Jobs : shown' = j /\ load' = Asking(j)) \/ (shown' = None /\ load' = None)
    PROVE  ResultInv'
<1>1. editor' = Closed /\ guided' = GuidedClose(guided) /\ quality' = RefreshForm(quality, Closed)
  BY DEF CloseEditor
<1>2. EditorInv(editor') /\ editor'.job = None /\ editor'.saving = FALSE
  BY <1>1, ClosedIsFine
<1>3. GuideTypes(guided', editor') /\ Measures(guided', editor')
  BY <1>1, ClosingIsQuiet DEF ResultInv
<1>4. PanelInv(quality', editor')
  BY <1>1, <1>2 DEF RefreshForm, NoPanel, PanelInv, ResultInv
<1>5. ReadInv(load', shown') /\ reload' = None
  BY DEF ReadInv, Asking, CloseEditor, NewGeneration
<1>6. PutsInv(puts', editor'.job, editor'.saving)
  <2>1. PutsInv(puts, editor.job, editor.saving) /\ quality.job = editor.job
    BY DEF ResultInv, PanelInv
  <2>2. puts' = Orphaned(puts, IF quality.job = None THEN {"editor"} ELSE {"editor", "panel"})
    BY DEF CloseEditor, NewGeneration
  <2>3. None \notin Jobs
    BY NormsAssumption
  <2> QED BY <1>2, <2>1, <2>2, <2>3, OrphansAreNobodys
<1>7. acts' \in 0 .. MaxActs
  BY BoundsAssumption DEF Act, ResultInv
<1>8. ServerInv'
  BY DEF ServerInv, ResultInv
<1>9. ReadInv(reload', editor'.job)
  BY <1>5 DEF ReadInv
<1> QED BY <1>2, <1>3, <1>4, <1>5, <1>6, <1>7, <1>8, <1>9 DEF ResultInv

(* The panel's own loads. *)
LEMMA LoadingKeeps ==
    ASSUME ResultInv, Retry \/ LoadRead \/ LoadArrives \/ LoadFails
    PROVE  ResultInv'
<1>1. ServerInv'
  BY DEF ResultInv, ServerInv, Retry, LoadRead, LoadArrives, LoadFails
<1>2. CASE Retry
  <2>1. ReadInv(load', shown')
    BY <1>2 DEF Retry, ReadInv, Asking, ResultInv
  <2>2. acts' \in 0 .. MaxActs
    BY <1>2, BoundsAssumption DEF Retry, Act, ResultInv
  <2>3. PanelInv(quality', editor')
    BY <1>2 DEF Retry, AfterApplied, PanelInv, ResultInv
  <2>4. /\ UNCHANGED <<shown, editor, reload, puts, guided, others>>
        /\ quality'.job = quality.job
    BY <1>2 DEF Retry, AfterApplied, PanelInv, ResultInv
  <2> QED BY <1>1, <2>1, <2>2, <2>3, <2>4 DEF ResultInv
<1>3. CASE LoadRead
  <2>1. DOMAIN load = {"job", "read"} /\ load.job = shown /\ shown \in Jobs
    BY <1>3 DEF LoadRead, ResultInv, ReadInv
  <2>2. IsOf(server[shown], shown)
    BY <2>1 DEF ResultInv, ServerInv
  <2>3. ReadInv(load', shown')
    BY <1>3, <2>1, <2>2 DEF LoadRead, ReadInv
  <2> QED BY <1>1, <1>3, <2>3 DEF ResultInv, LoadRead
<1>4. CASE LoadArrives
  <2> DEFINE ed == Opened(load.job, load.read)
  <2>1. load.job = shown /\ shown \in Jobs /\ IsOf(load.read, shown)
    BY <1>4 DEF LoadArrives, ResultInv, ReadInv
  <2>2. EditorInv(ed) /\ ed.job = shown /\ ed.saving = FALSE
    BY <2>1, NewIsOpened
  <2>3. editor' = ed /\ guided' = GuidedOpen(guided, ed.job, ed) /\ quality' = AfterApplied(RefreshForm(quality, ed), ed)
    BY <1>4, <2>1, <2>2 DEF LoadArrives
  <2> HIDE DEF ed
  <2>4. GuideTypes(guided', editor') /\ Measures(guided', editor')
    BY <2>3, OpeningIsMeasured DEF ResultInv
  <2>5. PanelInv(quality', editor')
    <3>1. PanelInv(RefreshForm(quality, ed), ed)
      BY DEF RefreshForm, NoPanel, PanelInv, ResultInv
    <3> QED BY <2>3, <3>1 DEF AfterApplied, PanelInv
  <2>6. PutsInv(puts', editor'.job, editor'.saving)
    <3>1. PutsInv(puts, editor.job, editor.saving) /\ quality.job = editor.job
      BY DEF ResultInv, PanelInv
    <3>2. puts' = Orphaned(puts, IF quality.job = shown THEN {"editor"} ELSE {"editor", "panel"})
      BY <1>4, <2>1 DEF LoadArrives, NewGeneration
    <3> QED BY <2>2, <2>3, <3>1, <3>2, OrphansAreNobodys
  <2>7. ReadInv(load', shown') /\ ReadInv(reload', editor'.job)
    BY <1>4 DEF LoadArrives, NewGeneration, ReadInv
  <2> QED BY <1>1, <1>4, <2>2, <2>3, <2>4, <2>5, <2>6, <2>7 DEF ResultInv, LoadArrives
<1>5. CASE LoadFails
  <2>1. PanelInv(quality', editor')
    BY <1>5 DEF LoadFails, AfterApplied, PanelInv, ResultInv
  <2>2. ReadInv(load', shown')
    BY <1>5 DEF LoadFails, ReadInv
  <2> QED BY <1>1, <1>5, <2>1, <2>2 DEF ResultInv, LoadFails
<1> QED BY <1>2, <1>3, <1>4, <1>5

(* What changes the drafts, or what cannot be read, and nothing else. *)
LEMMA TypingKeeps ==
    ASSUME ResultInv, Act, UNCHANGED <<server, shown, load, reload, puts, others>>,
           NEW e, NEW bad, NEW conflict,
           DOMAIN e = {"base", "drafts", "undo"}, e.base = editor.e.base, DraftsFit(e),
           LET ed == [editor EXCEPT !.e = e, !.bad = bad, !.conflict = conflict]
           IN  Edited(ed) \/ (editor' = ed /\ UNCHANGED <<guided, quality>>
                                /\ CurrentSegments(e) = CurrentSegments(editor.e))
    PROVE  ResultInv'
<1> DEFINE ed == [editor EXCEPT !.e = e, !.bad = bad, !.conflict = conflict]
<1>1. EditorInv(editor)
  BY DEF ResultInv
<1>2. DOMAIN ed = DOMAIN editor /\ ed.job = editor.job /\ ed.saving = editor.saving /\ ed.e = e
  BY <1>1 DEF EditorInv
<1>3. Edited(ed) \/ (editor' = ed /\ UNCHANGED <<guided, quality>> /\ CurrentSegments(e) = CurrentSegments(editor.e))
  OBVIOUS
<1> HIDE DEF ed
<1>4. EditorInv(ed)
  BY <1>1, <1>2 DEF EditorInv
<1>6. /\ editor' = ed
      /\ GuideTypes(guided', editor') /\ Measures(guided', editor') /\ PanelInv(quality', editor')
  <2>1. CASE Edited(ed)
    BY <1>2, <2>1, EditedKeeps DEF ResultInv
  <2>2. CASE editor' = ed /\ UNCHANGED <<guided, quality>> /\ CurrentSegments(e) = CurrentSegments(editor.e)
    <3>1. GuideTypes(guided, ed)
      BY <1>2 DEF GuideTypes, ResultInv
    <3>2. Measures(guided, ed)
      BY <1>2, <2>2 DEF Measures, ResultInv
    <3>3. PanelInv(quality, ed)
      BY <1>2 DEF PanelInv, ResultInv
    <3> QED BY <2>2, <3>1, <3>2, <3>3
  <2> QED BY <1>3, <2>1, <2>2
<1>7. acts' \in 0 .. MaxActs
  BY BoundsAssumption DEF Act, ResultInv
<1>8. ServerInv'
  BY DEF ResultInv, ServerInv
<1>9. PutsInv(puts', editor'.job, editor'.saving) /\ ReadInv(reload', editor'.job) /\ ReadInv(load', shown')
  BY <1>2, <1>6 DEF ResultInv
<1> QED BY <1>2, <1>4, <1>6, <1>7, <1>8, <1>9 DEF ResultInv

LEMMA EditingKeeps ==
    ASSUME ResultInv,
           \/ \E x \in Typed : Type(x[1], x[2], x[3]) \/ (x[2] # "text" /\ TypeUnreadable(x[1], x[2]))
           \/ \E x \in Names : Rename(x[1], x[2])
           \/ DiscardAll \/ UndoFix
           \/ \E S \in SUBSET DOMAIN editor.e.base : Apply(S)
    PROVE  ResultInv'
<1>1. EditorInv(editor) /\ DOMAIN editor.e = {"base", "drafts", "undo"} /\ DraftsFit(editor.e)
  BY DEF ResultInv, EditorInv
<1>3. ASSUME NEW x \in Typed, Type(x[1], x[2], x[3]) PROVE ResultInv'
  <2> DEFINE e == SetField(editor.e, x[1], x[2], x[3])
             bad == editor.bad \ {<<x[1], x[2]>>}
             ed == [editor EXCEPT !.e = SetField(@, x[1], x[2], x[3]), !.bad = @ \ {<<x[1], x[2]>>}]
  <2>1. ed = [editor EXCEPT !.e = e, !.bad = bad, !.conflict = editor.conflict]
    OBVIOUS
  <2>2. /\ DOMAIN e = {"base", "drafts", "undo"} /\ e.base = editor.e.base /\ DraftsFit(e)
        /\ \A k \in DOMAIN editor.e.base, g \in Fields :
              Shown(e, k, g) = IF k = x[1] /\ g = x[2] THEN x[3] ELSE Shown(editor.e, k, g)
    BY <1>1, OneFieldIsSet
  <2>3. /\ Act /\ UNCHANGED <<server, shown, load, reload, puts, others>>
        /\ Edited(ed) \/ (editor' = ed /\ UNCHANGED <<guided, quality>> /\ x[3] = Shown(editor.e, x[1], x[2]))
    BY <1>3 DEF Type
  <2> HIDE DEF e, bad, ed
  <2>4. x[3] = Shown(editor.e, x[1], x[2]) => CurrentSegments(e) = CurrentSegments(editor.e)
    BY <2>2, SeenIsMeasured
  <2> QED BY <2>1, <2>2, <2>3, <2>4, TypingKeeps
<1>4. ASSUME NEW x \in Typed, TypeUnreadable(x[1], x[2]) PROVE ResultInv'
  <2> DEFINE bad == editor.bad \cup {<<x[1], x[2]>>}
  <2>1. [editor EXCEPT !.bad = @ \cup {<<x[1], x[2]>>}]
            = [editor EXCEPT !.e = editor.e, !.bad = bad, !.conflict = editor.conflict]
    BY <1>1 DEF EditorInv
  <2>2. Act /\ UNCHANGED <<server, shown, load, reload, puts, others>>
        /\ Edited([editor EXCEPT !.e = editor.e, !.bad = bad, !.conflict = editor.conflict])
    BY <1>4, <2>1 DEF TypeUnreadable
  <2> QED BY <1>1, <2>2, TypingKeeps
<1>5. ASSUME NEW x \in Names, Rename(x[1], x[2]) PROVE ResultInv'
  <2> DEFINE e == RenameSpeaker(editor.e, x[1], x[2])
  <2>1. [editor EXCEPT !.e = RenameSpeaker(@, x[1], x[2])]
            = [editor EXCEPT !.e = e, !.bad = editor.bad, !.conflict = editor.conflict]
    BY <1>1 DEF EditorInv
  <2>2. DOMAIN e = {"base", "drafts", "undo"} /\ e.base = editor.e.base /\ DraftsFit(e)
    BY <1>1, FieldsAreSet, ZenonT(30) DEF RenameSpeaker
  <2>3. Act /\ UNCHANGED <<server, shown, load, reload, puts, others>>
        /\ Edited([editor EXCEPT !.e = e, !.bad = editor.bad, !.conflict = editor.conflict])
    BY <1>5, <2>1 DEF Rename
  <2> HIDE DEF e
  <2> QED BY <2>2, <2>3, TypingKeeps
<1>6. ASSUME DiscardAll PROVE ResultInv'
  <2> DEFINE e == Discard(editor.e)
  <2>1. [editor EXCEPT !.e = Discard(@), !.bad = {}, !.conflict = FALSE]
            = [editor EXCEPT !.e = e, !.bad = {}, !.conflict = FALSE]
    OBVIOUS
  <2>2. DOMAIN e = {"base", "drafts", "undo"} /\ e.base = editor.e.base /\ e.drafts = Nothing
    BY <1>1 DEF Discard
  <2>3. DraftsFit(e)
    BY <2>2 DEF DraftsFit, Nothing
  <2>4. Act /\ UNCHANGED <<server, shown, load, reload, puts, others>>
        /\ Edited([editor EXCEPT !.e = e, !.bad = {}, !.conflict = FALSE])
    BY <1>6, <2>1 DEF DiscardAll
  <2> HIDE DEF e
  <2> QED BY <2>2, <2>3, <2>4, TypingKeeps
<1>7. ASSUME UndoFix PROVE ResultInv'
  <2> DEFINE e == Undo(editor.e)
             touched == DOMAIN editor.e.undo[Len(editor.e.undo)]
             bad == {x \in editor.bad : x[1] \notin touched}
             last == [editor.e EXCEPT !.undo = Front(@)]
  <2>1. [editor EXCEPT !.e = Undo(@), !.bad = {x \in @ : x[1] \notin touched}]
            = [editor EXCEPT !.e = e, !.bad = bad, !.conflict = editor.conflict]
    BY <1>1 DEF EditorInv
  <2>2. DOMAIN last = {"base", "drafts", "undo"} /\ last.base = editor.e.base
    BY <1>1
  <2>3. \E values : e = SetFields(last, values)
    BY DEF Undo
  <2>4. Act /\ UNCHANGED <<server, shown, load, reload, puts, others>>
        /\ Edited([editor EXCEPT !.e = e, !.bad = bad, !.conflict = editor.conflict])
    BY <1>7, <2>1 DEF UndoFix
  <2> HIDE DEF e, bad, last
  <2>5. DOMAIN e = {"base", "drafts", "undo"} /\ e.base = editor.e.base /\ DraftsFit(e)
    BY <2>2, <2>3, FieldsAreSet
  <2> QED BY <2>4, <2>5, TypingKeeps
<1>8. ASSUME NEW S, Apply(S) PROVE ResultInv'
  <2> DEFINE fixes == FixEdits(guided.report.segments, guided.report.profile)
             e == ApplyFixes(editor.e, Restrict(fixes, S))
             bad == {x \in editor.bad : ~(x[1] \in S /\ x[2] \in DOMAIN fixes[x[1]])}
  <2>1. [editor EXCEPT !.e = ApplyFixes(@, Restrict(fixes, S)),
                       !.bad = {x \in @ : ~(x[1] \in S /\ x[2] \in DOMAIN fixes[x[1]])}]
            = [editor EXCEPT !.e = e, !.bad = bad, !.conflict = editor.conflict]
    BY <1>1 DEF EditorInv
  <2>2. \E values, undo : e = [SetFields(editor.e, values) EXCEPT !.undo = undo]
    BY DEF ApplyFixes
  <2>3. Act /\ UNCHANGED <<server, shown, load, reload, puts, others>>
        /\ Edited([editor EXCEPT !.e = e, !.bad = bad, !.conflict = editor.conflict])
    BY <1>8, <2>1 DEF Apply
  <2> HIDE DEF e, bad, fixes
  <2>4. PICK values, undo : e = [SetFields(editor.e, values) EXCEPT !.undo = undo]
    BY <2>2
  <2>5. /\ DOMAIN SetFields(editor.e, values) = {"base", "drafts", "undo"}
        /\ SetFields(editor.e, values).base = editor.e.base /\ DraftsFit(SetFields(editor.e, values))
    BY <1>1, FieldsAreSet
  <2>6. DOMAIN e = {"base", "drafts", "undo"} /\ e.base = editor.e.base /\ DraftsFit(e)
    BY <2>4, <2>5 DEF DraftsFit
  <2> QED BY <2>3, <2>6, TypingKeeps
<1> QED BY <1>3, <1>4, <1>5, <1>6, <1>7, <1>8
-----------------------------------------------------------------------------
(* Saving *)

(* What the editor lets through, the server accepts on the version it was made on. *)
LEMMA NoIssueIsAccepted ==
    ASSUME NEW e, DraftsFit(e), ~HasIssues(e)
    PROVE  Accepted(e.base, e.drafts)
<1> SUFFICES ASSUME NEW i \in DOMAIN e.drafts
             PROVE  /\ i \in DOMAIN e.base
                    /\ "text" \in DOMAIN e.drafts[i] => ~HasBlankLine(e.drafts[i]["text"])
                    /\ ~(Field(e.base[i], e.drafts[i], "start") < 0)
                    /\ ~(Field(e.base[i], e.drafts[i], "end") <= Field(e.base[i], e.drafts[i], "start"))
  BY DEF Accepted
<1>1. ~HasIssue(e, i)
  BY DEF HasIssues
<1>2. \A f : Shown(e, i, f) = Field(e.base[i], e.drafts[i], f)
  BY DEF Shown, Drafted, Field
<1>3. "text" \in DOMAIN e.drafts[i] => Shown(e, i, "text") = e.drafts[i]["text"]
  BY DEF Shown, Drafted
<1>4. /\ ~(Shown(e, i, "start") < 0) /\ ~(Shown(e, i, "end") <= Shown(e, i, "start"))
      /\ ~HasBlankLine(Shown(e, i, "text"))
  BY <1>1 DEF HasIssue
<1>5. i \in DOMAIN e.base
  BY DEF DraftsFit
<1> QED BY <1>2, <1>3, <1>4, <1>5

LEMMA SavingKeeps ==
    ASSUME ResultInv, NEW over \in BOOLEAN, Save(over)
    PROVE  ResultInv'
<1> DEFINE ed == [editor EXCEPT !.saving = TRUE, !.conflict = FALSE]
           p == [by |-> "editor", job |-> editor.job, sent |-> editor.e.drafts, over |-> over,
                 etag |-> IF over THEN None ELSE editor.e.base, answer |-> "none", result |-> None]
<1>1. EditorInv(editor) /\ PutsInv(puts, editor.job, editor.saving) /\ editor.job \in Jobs
  <2>1. editor.job # None
    BY DEF Save, EditorOpen
  <2> QED BY <2>1 DEF ResultInv
<1>2. DOMAIN ed = DOMAIN editor /\ ed.job = editor.job /\ ed.saving = TRUE /\ ed.e = editor.e
  BY <1>1 DEF EditorInv
<1>3. Edited(ed) /\ puts' = puts \cup {p} /\ ~editor.saving /\ ~HasIssues(editor.e)
  BY DEF Save, HasLocalIssues
<1>4. PutInv(p, editor.job, TRUE)
  <2>1. ~over => Accepted(editor.e.base, editor.e.drafts)
    BY <1>1, <1>3, NoIssueIsAccepted DEF EditorInv
  <2> QED BY <1>1, <2>1 DEF PutInv
<1>5. PutsInv(puts', editor.job, TRUE)
  <2>1. \A q \in puts : PutInv(q, editor.job, editor.saving) /\ q.by # "editor"
    BY <1>1, <1>3 DEF PutsInv, PutInv
  <2>2. \A q \in puts : PutInv(q, editor.job, TRUE)
    BY <2>1 DEF PutInv
  <2> HIDE DEF p
  <2> QED BY <1>3, <1>4, <2>1, <2>2 DEF PutsInv
<1> HIDE DEF ed, p
<1>6. /\ editor' = ed
      /\ GuideTypes(guided', editor') /\ Measures(guided', editor') /\ PanelInv(quality', editor')
  BY <1>2, <1>3, EditedKeeps DEF ResultInv
<1>7. EditorInv(editor')
  BY <1>1, <1>2, <1>6 DEF EditorInv
<1>8. acts' \in 0 .. MaxActs
  BY BoundsAssumption DEF Save, Act, ResultInv
<1>9. ServerInv' /\ ReadInv(load', shown') /\ ReadInv(reload', editor'.job)
  BY <1>2, <1>6 DEF Save, ResultInv, ServerInv
<1> QED BY <1>2, <1>5, <1>6, <1>7, <1>8, <1>9 DEF ResultInv, Save

(* An answer to the editor's PUT, or none. *)
LEMMA AnsweringKeeps ==
    ASSUME ResultInv, NEW p \in puts, EditorAnswered(p) \/ Unanswered(p)
    PROVE  ResultInv'
<1>1. /\ EditorInv(editor) /\ PutsInv(puts, editor.job, editor.saving)
      /\ PutInv(p, editor.job, editor.saving) /\ p.by = "editor"
  BY DEF ResultInv, PutsInv, EditorAnswered, Unanswered
<1>2. p.job = editor.job /\ editor.job \in Jobs
  BY <1>1 DEF PutInv
<1>3. PICK e, conflict :
        /\ Edited([editor EXCEPT !.saving = FALSE, !.conflict = conflict, !.e = e])
        /\ e = editor.e \/ (p.answer = "saved" /\ e = Saved(editor.e, p.result, p.sent))
  <2>1. CASE EditorAnswered(p)
    BY <2>1 DEF EditorAnswered
  <2>2. CASE Unanswered(p)
    <3>1. [editor EXCEPT !.saving = FALSE]
              = [editor EXCEPT !.saving = FALSE, !.conflict = editor.conflict, !.e = editor.e]
      BY <1>1 DEF EditorInv
    <3> QED BY <2>2, <3>1 DEF Unanswered
  <2> QED BY <2>1, <2>2
<1> DEFINE ed == [editor EXCEPT !.saving = FALSE, !.conflict = conflict, !.e = e]
<1>4. DOMAIN ed = DOMAIN editor /\ ed.job = editor.job /\ ed.saving = FALSE /\ ed.e = e
  BY <1>1 DEF EditorInv
<1> HIDE DEF ed
<1>5. /\ editor' = ed
      /\ GuideTypes(guided', editor') /\ Measures(guided', editor') /\ PanelInv(quality', editor')
  BY <1>3, <1>4, EditedKeeps DEF ResultInv, ed
<1>6. DOMAIN e = {"base", "drafts", "undo"} /\ IsOf(e.base, editor.job) /\ DraftsFit(e)
  <2>1. CASE e = editor.e
    BY <1>1, <1>2, <2>1 DEF EditorInv
  <2>2. CASE p.answer = "saved" /\ e = Saved(editor.e, p.result, p.sent)
    <3>1. IsOf(p.result, editor.job)
      BY <1>1, <1>2, <2>2 DEF PutInv
    <3>2. \E values : e = SetFields(OpenEditor(p.result), values)
      BY <2>2 DEF Saved
    <3>3. DOMAIN OpenEditor(p.result) = {"base", "drafts", "undo"} /\ OpenEditor(p.result).base = p.result
      BY DEF OpenEditor
    <3> QED BY <3>1, <3>2, <3>3, FieldsAreSet
  <2> QED BY <1>3, <2>1, <2>2
<1>7. EditorInv(editor')
  BY <1>1, <1>2, <1>4, <1>5, <1>6 DEF EditorInv
<1>8. PutsInv(puts', editor.job, FALSE)
  <2>1. \A q \in puts \ {p} : PutInv(q, editor.job, FALSE) /\ q.by # "editor"
    <3> SUFFICES ASSUME NEW q \in puts \ {p} PROVE PutInv(q, editor.job, FALSE) /\ q.by # "editor"
      OBVIOUS
    <3>1. q.by # "editor"
      BY <1>1 DEF PutsInv
    <3>2. PutInv(q, editor.job, editor.saving)
      BY <1>1 DEF PutsInv
    <3> QED BY <3>1, <3>2 DEF PutInv
  <2>2. PutsInv(puts \ {p}, editor.job, FALSE)
    BY <2>1 DEF PutsInv
  <2> DEFINE q == [p EXCEPT !.by = "nobody"]
  <2>3. PutInv(q, editor.job, FALSE) /\ q.by = "nobody"
    BY <1>1 DEF PutInv
  <2> HIDE DEF q
  <2>4. PutsInv((puts \ {p}) \cup {q}, editor.job, FALSE)
    BY <2>1, <2>3 DEF PutsInv
  <2>5. puts' = puts \ {p} \/ puts' = (puts \ {p}) \cup {q}
    BY DEF EditorAnswered, Unanswered, q
  <2> QED BY <2>2, <2>4, <2>5
<1>9. /\ ServerInv' /\ ReadInv(load', shown') /\ ReadInv(reload', editor'.job)
      /\ UNCHANGED <<shown, acts, others>>
  BY <1>4, <1>5 DEF EditorAnswered, Unanswered, ResultInv, ServerInv
<1> QED BY <1>4, <1>5, <1>7, <1>8, <1>9 DEF ResultInv

LEMMA ReloadingKeeps ==
    ASSUME ResultInv, AskReload \/ ReloadRead \/ ReloadArrives \/ ReloadFails
    PROVE  ResultInv'
<1>1. ServerInv' /\ ReadInv(load', shown')
  BY DEF ResultInv, ServerInv, AskReload, ReloadRead, ReloadArrives, ReloadFails
<1>2. CASE AskReload
  <2>1. editor.job \in Jobs
    BY <1>2 DEF AskReload, EditorOpen, ResultInv
  <2>2. ReadInv(reload', editor'.job)
    BY <1>2, <2>1 DEF AskReload, ReadInv, Asking
  <2>3. acts' \in 0 .. MaxActs
    BY <1>2, BoundsAssumption DEF AskReload, Act, ResultInv
  <2> QED BY <1>1, <1>2, <2>2, <2>3 DEF ResultInv, AskReload
<1>3. CASE ReloadRead
  <2>1. DOMAIN reload = {"job", "read"} /\ reload.job = editor.job /\ editor.job \in Jobs
    BY <1>3 DEF ReloadRead, ResultInv, ReadInv
  <2>2. IsOf(server[editor.job], editor.job)
    BY <2>1 DEF ResultInv, ServerInv
  <2>3. ReadInv(reload', editor'.job)
    BY <1>3, <2>1, <2>2 DEF ReloadRead, ReadInv
  <2> QED BY <1>1, <1>3, <2>3 DEF ResultInv, ReloadRead
<1>4. CASE ReloadArrives
  <2> DEFINE ed == Opened(reload.job, reload.read)
  <2>1. reload.job = editor.job /\ editor.job \in Jobs /\ IsOf(reload.read, editor.job)
    BY <1>4 DEF ReloadArrives, ResultInv, ReadInv
  <2>2. EditorInv(ed) /\ ed.job = editor.job /\ ed.saving = FALSE
    BY <2>1, NewIsOpened
  <2>3. Edited(ed)
    BY <1>4 DEF ReloadArrives
  <2> HIDE DEF ed
  <2>4. /\ editor' = ed
        /\ GuideTypes(guided', editor') /\ Measures(guided', editor') /\ PanelInv(quality', editor')
    BY <2>2, <2>3, EditedKeeps DEF ResultInv
  <2>5. PutsInv(puts', editor'.job, editor'.saving)
    <3>1. PutsInv(puts, editor.job, editor.saving) /\ quality.job = editor.job
      BY DEF ResultInv, PanelInv
    <3>2. puts' = Orphaned(puts, {"editor"})
      BY <1>4, <2>1, <3>1 DEF ReloadArrives, NewGeneration
    <3> QED BY <2>2, <2>4, <3>1, <3>2, OrphansAreNobodys
  <2>6. ReadInv(reload', editor'.job)
    BY <1>4 DEF ReloadArrives, NewGeneration, ReadInv
  <2> QED BY <1>1, <1>4, <2>2, <2>4, <2>5, <2>6 DEF ResultInv, ReloadArrives
<1>5. CASE ReloadFails
  <2>1. Edited(editor)
    BY <1>5 DEF ReloadFails
  <2>2. /\ editor' = editor
        /\ GuideTypes(guided', editor') /\ Measures(guided', editor') /\ PanelInv(quality', editor')
    BY <2>1, EditedKeeps DEF ResultInv
  <2>3. ReadInv(reload', editor'.job)
    BY <1>5 DEF ReloadFails, ReadInv
  <2> QED BY <1>1, <1>5, <2>2, <2>3 DEF ResultInv, ReloadFails
<1> QED BY <1>2, <1>3, <1>4, <1>5

(* The server reads, compares and writes, for this client or another one. *)
LEMMA ServerKeeps ==
    ASSUME ResultInv,
           \/ \E p \in puts : ReadEtag(p) \/ Handle(p)
           \/ \E j \in Jobs, edit \in OthersWrite : OtherSaves(j, edit)
    PROVE  ResultInv'
<1> DEFINE Rest == <<shown, load, editor, reload, guided, quality, acts>>
<1>1. ASSUME UNCHANGED Rest, others' \in 0 .. MaxOthers, ServerInv', PutsInv(puts', editor.job, editor.saving)
      PROVE  ResultInv'
  BY <1>1 DEF ResultInv
<1>2. PutsInv(puts, editor.job, editor.saving) /\ ServerInv /\ others \in 0 .. MaxOthers
  BY DEF ResultInv
<1>3. ASSUME NEW p \in puts, ReadEtag(p) PROVE ResultInv'
  <2> DEFINE q == [p EXCEPT !.etag = server[p.job]]
  <2>1. PutInv(p, editor.job, editor.saving) /\ p.over
    BY <1>2, <1>3 DEF PutsInv, ReadEtag
  <2>2. PutInv(q, editor.job, editor.saving) /\ q.by = p.by
    BY <2>1 DEF PutInv
  <2>3. puts' = puts \ {p} \/ puts' = (puts \ {p}) \cup {q}
    BY <1>3 DEF ReadEtag
  <2> HIDE DEF q
  <2>4. PutsInv(puts', editor.job, editor.saving)
    BY <1>2, <2>2, <2>3, OnePutChanges, SomePutsStay
  <2>5. UNCHANGED <<Rest, server, others>>
    BY <1>3 DEF ReadEtag
  <2> QED BY <1>1, <1>2, <2>4, <2>5 DEF ServerInv
<1>4. ASSUME NEW p \in puts, Handle(p) PROVE ResultInv'
  <2> DEFINE after == ApplyEdits(server[p.job], p.sent)
             q(a, r) == [p EXCEPT !.answer = a, !.result = r]
  <2>1. PutInv(p, editor.job, editor.saving) /\ p.job \in Jobs
    BY <1>2 DEF PutsInv, PutInv
  <2>2. IsOf(server[p.job], p.job)
    BY <1>2, <2>1 DEF ServerInv
  <2>3. IsOf(after, p.job) /\ Took(after, p.sent)
    BY <2>2, EditsKeepTheJob, EditsAreTaken
  <2>4. PICK a, r :
            /\ a \in {"saved", "conflict", "rejected"}
            /\ puts' = (puts \ {p}) \cup (IF p.by = "nobody" THEN {} ELSE {q(a, r)})
            /\ a = "rejected" => p.etag = server[p.job] /\ ~Accepted(server[p.job], p.sent)
            /\ a = "saved" => r = after
            /\ server' = server \/ server' = [server EXCEPT ![p.job] = after]
    <3> DEFINE Answer(a, r) == puts' = (puts \ {p}) \cup (IF p.by = "nobody" THEN {} ELSE {q(a, r)})
    <3>1. \/ Answer("conflict", None) /\ server' = server
          \/ /\ Answer("rejected", None) /\ server' = server
             /\ p.etag = server[p.job] /\ ~Accepted(server[p.job], p.sent)
          \/ Answer("saved", after) /\ server' = [server EXCEPT ![p.job] = after]
      BY <1>4 DEF Handle
    <3> HIDE DEF q, after
    <3> QED BY <3>1
  <2> HIDE DEF after
  <2>5. /\ DOMAIN q(a, r) = DOMAIN p /\ q(a, r).by = p.by /\ q(a, r).job = p.job /\ q(a, r).over = p.over
        /\ q(a, r).etag = p.etag /\ q(a, r).sent = p.sent /\ q(a, r).answer = a /\ q(a, r).result = r
    BY <2>1 DEF PutInv
  <2>6. PutInv(q(a, r), editor.job, editor.saving)
    <3> HIDE DEF q
    <3> QED BY <2>1, <2>3, <2>4, <2>5 DEF PutInv
  <2>7. PutsInv(puts', editor.job, editor.saving)
    <3> HIDE DEF q
    <3>1. PutsInv(puts \ {p}, editor.job, editor.saving)
      BY <1>2, SomePutsStay
    <3>2. PutsInv((puts \ {p}) \cup {q(a, r)}, editor.job, editor.saving)
      BY <1>2, <2>5, <2>6, OnePutChanges
    <3>3. puts' = puts \ {p} \/ puts' = (puts \ {p}) \cup {q(a, r)}
      BY <2>4
    <3> QED BY <3>1, <3>2, <3>3
  <2>8. ServerInv'
    BY <1>2, <2>3, <2>4 DEF ServerInv
  <2>9. UNCHANGED <<Rest, others>>
    BY <1>4 DEF Handle
  <2> QED BY <1>1, <1>2, <2>7, <2>8, <2>9
<1>5. ASSUME NEW j \in Jobs, NEW edit \in OthersWrite, OtherSaves(j, edit) PROVE ResultInv'
  <2>1. IsOf(ApplyEdits(server[j], edit), j)
    BY <1>2, EditsKeepTheJob DEF ServerInv
  <2>2. ServerInv'
    BY <1>2, <1>5, <2>1 DEF ServerInv, OtherSaves
  <2>3. others' \in 0 .. MaxOthers
    BY <1>2, <1>5, BoundsAssumption DEF OtherSaves
  <2>4. UNCHANGED <<Rest, puts>>
    BY <1>5 DEF OtherSaves
  <2> QED BY <1>1, <1>2, <2>2, <2>3, <2>4
<1> QED BY <1>3, <1>4, <1>5
-----------------------------------------------------------------------------
(* The guided editor and the quality panel *)

LEMMA GuidingKeeps ==
    ASSUME ResultInv,
           \/ TimerFires \/ CheckAnswered \/ CheckFails \/ ProfilesArrive \/ ProfilesFail
           \/ \E p \in Norms : ChooseProfile(p)
    PROVE  ResultInv'
<1>1. GuideTypes(guided, editor) /\ Measures(guided, editor)
  BY DEF ResultInv
<1>2. \E g : Guides(g) /\ (acts' = acts \/ Act)
  BY DEF TimerFires, CheckAnswered, CheckFails, ProfilesArrive, ProfilesFail, ChooseProfile
<1>3. UNCHANGED <<server, shown, load, editor, reload, puts, quality, others>> /\ acts' \in 0 .. MaxActs
  BY <1>2, BoundsAssumption DEF Guides, Act, ResultInv
<1>4. ASSUME GuideTypes(guided', editor), Measures(guided', editor) PROVE ResultInv'
  BY <1>3, <1>4 DEF ResultInv, ServerInv
<1>5. CASE TimerFires
  <2> DEFINE r == RunCheck(guided, guided.timer)
  <2>1. guided' = r /\ guided.timer # None
    BY <1>5 DEF TimerFires, Guides
  <2>2. guided.timer = guided.sig /\ guided.sig = CurrentSegments(editor.e) /\ guided.job # None
    BY <1>1, <2>1 DEF Measures, Quiet
  <2>3. /\ DOMAIN r = DOMAIN guided /\ r.job = guided.job /\ r.profile = guided.profile
        /\ r.profiles = guided.profiles /\ r.status = "pending" /\ r.fresh = FALSE /\ r.timer = None
        /\ r.sig = guided.sig
        /\ r.check = [segments |-> guided.timer, profile |-> guided.profile, job |-> guided.job]
    BY <1>1 DEF RunCheck, CancelPending, GuideTypes
  <2> HIDE DEF r
  <2>4. GuideTypes(r, editor)
    BY <1>1, <2>3 DEF GuideTypes
  <2>5. Measures(r, editor)
    BY <2>2, <2>3 DEF Measures
  <2> QED BY <1>4, <2>1, <2>4, <2>5
<1>6. CASE CheckAnswered
  <2> DEFINE r == [guided EXCEPT !.report = guided.check, !.status = "ready", !.fresh = TRUE, !.check = None]
  <2>1. guided' = r /\ guided.check # None /\ guided.check.profile # None
    BY <1>6 DEF CheckAnswered, Guides
  <2>2. /\ guided.sig = CurrentSegments(editor.e) /\ guided.job # None
        /\ guided.check = [segments |-> guided.sig, profile |-> guided.profile, job |-> guided.job]
        /\ guided.profile # None
    BY <1>1, <2>1 DEF Measures, Quiet
  <2>3. /\ DOMAIN r = DOMAIN guided /\ r.job = guided.job /\ r.profile = guided.profile
        /\ r.profiles = guided.profiles /\ r.status = "ready" /\ r.fresh = TRUE /\ r.timer = guided.timer
        /\ r.sig = guided.sig /\ r.check = None /\ r.report = guided.check
    BY <1>1 DEF GuideTypes
  <2> HIDE DEF r
  <2>4. GuideTypes(r, editor)
    BY <1>1, <2>3 DEF GuideTypes
  <2>5. Measures(r, editor)
    BY <1>1, <2>2, <2>3 DEF Measures
  <2> QED BY <1>4, <2>1, <2>4, <2>5
<1>7. CASE CheckFails
  <2> DEFINE r == [guided EXCEPT !.status = "error", !.fresh = FALSE, !.check = None]
  <2>1. guided' = r /\ guided.check # None
    BY <1>7 DEF CheckFails, Guides
  <2>2. guided.sig = CurrentSegments(editor.e) /\ guided.job # None
    BY <1>1, <2>1 DEF Measures, Quiet
  <2>3. /\ DOMAIN r = DOMAIN guided /\ r.job = guided.job /\ r.profile = guided.profile
        /\ r.profiles = guided.profiles /\ r.status = "error" /\ r.fresh = FALSE /\ r.timer = guided.timer
        /\ r.sig = guided.sig /\ r.check = None
    BY <1>1 DEF GuideTypes
  <2> HIDE DEF r
  <2>4. GuideTypes(r, editor)
    BY <1>1, <2>3 DEF GuideTypes
  <2>5. Measures(r, editor)
    BY <1>1, <2>2, <2>3 DEF Measures
  <2> QED BY <1>4, <2>1, <2>4, <2>5
<1>8. CASE ProfilesArrive
  <2> DEFINE g == [guided EXCEPT !.profiles = "here", !.profile = Preferred, !.waiting = None]
  <2>1. /\ guided.profiles = "asked"
        /\ guided' = IF guided.job = guided.waiting THEN MeasureNow(g, editor) ELSE g
    BY <1>8 DEF ProfilesArrive, Guides
  <2>2. guided.profile = None /\ Preferred \in Norms /\ Preferred # None
    BY <1>1, <2>1, NormsAssumption DEF GuideTypes
  <2>3. /\ DOMAIN g = DOMAIN guided /\ g.job = guided.job /\ g.profile = Preferred /\ g.profiles = "here"
        /\ g.status = guided.status /\ g.fresh = guided.fresh /\ g.timer = guided.timer
        /\ g.sig = guided.sig /\ g.check = guided.check /\ g.report = guided.report
    BY <1>1 DEF GuideTypes
  <2> HIDE DEF g
  <2>4. GuideTypes(g, editor)
    BY <1>1, <2>2, <2>3 DEF GuideTypes
  <2>5. ~g.fresh
    BY <1>1, <2>2, <2>3 DEF Measures
  <2>6. Measures(g, editor)
    BY <1>1, <2>2, <2>3, <2>5 DEF Measures, Quiet
  <2>7. g.job = None => Quiet(g)
    BY <2>6 DEF Measures
  <2> QED BY <1>4, <2>1, <2>4, <2>6, <2>7, MeasuringNow
<1>9. CASE ProfilesFail
  <2> DEFINE g == [guided EXCEPT !.profiles = "no", !.waiting = None]
  <2>1. guided' = g /\ guided.profiles = "asked"
    BY <1>9 DEF ProfilesFail, Guides
  <2>2. /\ DOMAIN g = DOMAIN guided /\ g.job = guided.job /\ g.profile = guided.profile /\ g.profiles = "no"
        /\ g.status = guided.status /\ g.fresh = guided.fresh /\ g.timer = guided.timer
        /\ g.sig = guided.sig /\ g.check = guided.check /\ g.report = guided.report
    BY <1>1 DEF GuideTypes
  <2> HIDE DEF g
  <2>3. GuideTypes(g, editor)
    BY <1>1, <2>1, <2>2 DEF GuideTypes
  <2>4. Measures(g, editor)
    BY <1>1, <2>2 DEF Measures, Quiet
  <2> QED BY <1>4, <2>1, <2>3, <2>4
<1>10. ASSUME NEW p \in Norms, ChooseProfile(p) PROVE ResultInv'
  <2> DEFINE g == [guided EXCEPT !.profile = p]
  <2>1. guided' = MeasureNow(g, editor) /\ guided.profiles = "here" /\ p # None
    BY <1>10, NormsAssumption DEF ChooseProfile, Guides
  <2>2. GuideTypes(g, editor)
    BY <1>1, <2>1 DEF GuideTypes
  <2>3. g.job = None => Quiet(g)
    BY <1>1 DEF GuideTypes, Measures, Quiet
  <2> HIDE DEF g
  <2> QED BY <1>4, <2>1, <2>2, <2>3, MeasuringNow
<1> QED BY <1>5, <1>6, <1>7, <1>8, <1>9, <1>10

LEMMA PanelKeeps ==
    ASSUME ResultInv,
           \/ AskReport \/ AskProposal \/ DropProposal \/ ChooseNorm \/ ApplyProposal \/ PanelFails
           \/ \E p \in Norms : ReportArrives(p) \/ ProposalArrives(p)
           \/ \E p \in puts : ProposalApplied(p) \/ ProposalRefused(p)
    PROVE  ResultInv'
<1>1. PanelInv(quality, editor) /\ PutsInv(puts, editor.job, editor.saving) /\ ReadInv(load, shown)
  BY DEF ResultInv
<1>2. UNCHANGED <<server, shown, editor, reload, guided, others>> /\ (acts' = acts \/ Act)
  BY DEF PanelGoes, AskReport, AskProposal, DropProposal, ChooseNorm, ApplyProposal, PanelFails, ReportArrives,
         ProposalArrives, ProposalApplied, ProposalRefused
<1>3. acts' \in 0 .. MaxActs
  BY <1>2, BoundsAssumption DEF Act, ResultInv
<1>4. PanelInv(quality', editor)
  <2>1. \A q : PanelGoes(q) /\ PanelInv(q, editor) => PanelInv(quality', editor)
    BY DEF PanelGoes
  <2>2. PanelInv(NoPanel(quality.job), editor)
    BY <1>1 DEF PanelInv, NoPanel
  <2>3. CASE AskReport \/ AskProposal \/ DropProposal \/ ApplyProposal \/ PanelFails
    BY <1>1, <2>3 DEF PanelInv, PanelGoes, AskReport, AskProposal, DropProposal, ApplyProposal, PanelFails
  <2>4. CASE ChooseNorm
    BY <2>1, <2>2, <2>4 DEF ChooseNorm
  <2>5. CASE \E p \in Norms : ReportArrives(p) \/ ProposalArrives(p)
    BY <1>1, <2>5 DEF PanelInv, PanelGoes, ReportArrives, ProposalArrives
  <2>6. CASE \E p \in puts : ProposalApplied(p)
    BY <1>1, <2>6 DEF PanelInv, PanelGoes, ProposalApplied
  <2>7. CASE \E p \in puts : ProposalRefused(p)
    BY <2>1, <2>2, <2>7 DEF ProposalRefused
  <2> QED BY <2>3, <2>4, <2>5, <2>6, <2>7
<1>5. ASSUME PutsInv(puts', editor.job, editor.saving), ReadInv(load', shown) PROVE ResultInv'
  BY <1>2, <1>3, <1>4, <1>5 DEF ResultInv, ServerInv
<1>6. CASE UNCHANGED <<load, puts>>
  BY <1>1, <1>5, <1>6
<1>7. CASE ApplyProposal
  <2> DEFINE p == [by |-> "panel", job |-> quality.job, sent |-> quality.proposal.edits, over |-> FALSE,
                   etag |-> quality.proposal.etag, answer |-> "none", result |-> None]
  <2>1. puts' = puts \cup {p} /\ load' = load /\ quality.job # None
    BY <1>7 DEF ApplyProposal, PanelReady
  <2>2. editor.job \in Jobs /\ quality.job = editor.job
    BY <1>1, <2>1 DEF PanelInv, ResultInv
  <2>3. PutInv(p, editor.job, editor.saving) /\ p.by = "panel"
    BY <2>2 DEF PutInv
  <2> HIDE DEF p
  <2>4. PutsInv(puts', editor.job, editor.saving)
    BY <1>1, <2>1, <2>3 DEF PutsInv
  <2> QED BY <1>1, <1>5, <2>1, <2>4
<1>8. ASSUME NEW p \in puts, ProposalApplied(p) PROVE ResultInv'
  <2>1. PutInv(p, editor.job, editor.saving) /\ p.by = "panel"
    BY <1>1, <1>8 DEF PutsInv, ProposalApplied
  <2>2. shown \in Jobs
    BY <2>1, NormsAssumption DEF PutInv, ResultInv
  <2>3. ReadInv(load', shown)
    BY <1>8, <2>2 DEF ProposalApplied, ReadInv, Asking
  <2>4. PutsInv(puts', editor.job, editor.saving)
    BY <1>1, <1>8, SomePutsStay DEF ProposalApplied
  <2> QED BY <1>5, <2>3, <2>4
<1>9. ASSUME NEW p \in puts, ProposalRefused(p) PROVE ResultInv'
  <2> DEFINE q == [p EXCEPT !.by = "nobody"]
  <2>1. PutInv(p, editor.job, editor.saving)
    BY <1>1 DEF PutsInv
  <2>2. PutInv(q, editor.job, editor.saving) /\ q.by = "nobody"
    BY <2>1 DEF PutInv
  <2>3. (puts' = puts \ {p} \/ puts' = (puts \ {p}) \cup {q}) /\ load' = load
    BY <1>9 DEF ProposalRefused
  <2> HIDE DEF q
  <2>4. PutsInv(puts', editor.job, editor.saving)
    BY <1>1, <2>2, <2>3, OnePutChanges, SomePutsStay
  <2> QED BY <1>1, <1>5, <2>3, <2>4
<1> QED BY <1>6, <1>7, <1>8, <1>9 DEF AskReport, AskProposal, DropProposal, ChooseNorm, PanelFails, ReportArrives, ProposalArrives
-----------------------------------------------------------------------------
LEMMA ResultNext == ResultInv /\ [Next]_vars => ResultInv'
<1> SUFFICES ASSUME ResultInv, [Next]_vars PROVE ResultInv'
  OBVIOUS
<1>1. CASE UNCHANGED vars
  BY <1>1 DEF vars, ResultInv, ServerInv
<1>2. CASE Person
  <2>1. CASE Hide \/ \E j \in Jobs : Show(j)
    BY <2>1, ClosingKeeps DEF Show, Hide
  <2>2. CASE Retry
    BY <2>2, LoadingKeeps
  <2>3. CASE \/ \E x \in Typed : Type(x[1], x[2], x[3]) \/ (x[2] # "text" /\ TypeUnreadable(x[1], x[2]))
             \/ \E x \in Names : Rename(x[1], x[2])
             \/ DiscardAll \/ UndoFix
             \/ \E S \in SUBSET DOMAIN editor.e.base : Apply(S)
    BY <2>3, EditingKeeps
  <2>4. CASE \E over \in BOOLEAN : Save(over)
    BY <2>4, SavingKeeps
  <2>5. CASE AskReload
    BY <2>5, ReloadingKeeps
  <2>6. CASE \E p \in Norms : ChooseProfile(p)
    BY <2>6, GuidingKeeps
  <2>7. CASE AskReport \/ AskProposal \/ DropProposal \/ ChooseNorm \/ ApplyProposal
    BY <2>7, PanelKeeps
  <2> QED BY <1>2, <2>1, <2>2, <2>3, <2>4, <2>5, <2>6, <2>7 DEF Person
<1>3. CASE Network
  <2>1. CASE LoadRead \/ LoadArrives \/ LoadFails
    BY <2>1, LoadingKeeps
  <2>2. CASE ReloadRead \/ ReloadArrives \/ ReloadFails
    BY <2>2, ReloadingKeeps
  <2>3. CASE \/ \E p \in puts : ReadEtag(p) \/ Handle(p)
             \/ \E j \in Jobs, edit \in OthersWrite : OtherSaves(j, edit)
    BY <2>3, ServerKeeps
  <2>4. CASE \E p \in puts : EditorAnswered(p) \/ Unanswered(p)
    BY <2>4, AnsweringKeeps
  <2>5. CASE TimerFires \/ CheckAnswered \/ CheckFails \/ ProfilesArrive \/ ProfilesFail
    BY <2>5, GuidingKeeps
  <2>6. CASE \/ PanelFails \/ \E p \in Norms : ReportArrives(p) \/ ProposalArrives(p)
             \/ \E p \in puts : ProposalApplied(p) \/ ProposalRefused(p)
    BY <2>6, PanelKeeps
  <2> QED BY <1>3, <2>1, <2>2, <2>3, <2>4, <2>5, <2>6 DEF Network
<1> QED BY <1>1, <1>2, <1>3 DEF Next

(* However reads, saves, measurements and proposals of two transcriptions  *)
(* interleave, each piece of the screen stays of one job and what is being *)
(* measured is what is seen.                                               *)
THEOREM ResultIsSafe == Spec => []ResultInv
BY ResultInit, ResultNext, PTL DEF Spec

(* What is called fresh is current, no answer mixes two jobs, and the      *)
(* server accepts what the editor lets through (guided-session.js:4,       *)
(* segment-editor.js:5, editor-state.js:169).                              *)
THEOREM ScreenStaysHonest == Spec => []ScreenIsHonest
<1>1. ResultInv => TypeOK
  BY DEF ResultInv, TypeOK, PutsInv, PutInv, GuideTypes, PanelInv
<1>2. ResultInv => FreshIsCurrent
  BY DEF ResultInv, FreshIsCurrent, GuideTypes, Measures, Quiet
<1>3. ResultInv => NothingMixed
  BY DEF ResultInv, NothingMixed, EditorInv, ServerInv, IsOf
<1>4. ResultInv => SavesAreAccepted
  BY DEF ResultInv, SavesAreAccepted, PutsInv, PutInv
<1> QED BY <1>1, <1>2, <1>3, <1>4, ResultIsSafe, PTL DEF ScreenIsHonest
-----------------------------------------------------------------------------
(* What was typed *)

(* What is seen of a field is kept: as it is, or without the blanks around a text. *)
Keeps(e, i, f) == SameValue(f, Shown(e, i, f), Shown(editor.e, i, f))

(* saved: what a field shows afterwards is still to be saved, or was sent. *)
LEMMA SavedKeepsTyped ==
    ASSUME NEW e, NEW result, NEW sent, DOMAIN result = DOMAIN e.base, Took(result, sent),
           NEW i \in DOMAIN e.base, NEW f \in Fields,
           f \in Drafted(e, i) \/ (i \in DOMAIN sent /\ f \in DOMAIN sent[i])
    PROVE  SameValue(f, Shown(Saved(e, result, sent), i, f), Shown(e, i, f))
<1> DEFINE was(x) == x[1] \in DOMAIN sent /\ x[2] \in DOMAIN sent[x[1]]
           changed(x) == x[2] \in Drafted(e, x[1]) /\ ~(was(x) /\ sent[x[1]][x[2]] = Shown(e, x[1], x[2]))
           reverted(x) == was(x) /\ x[2] \notin Drafted(e, x[1]) /\ e.base[x[1]][x[2]] # sent[x[1]][x[2]]
           pending == {x \in (DOMAIN e.base) \X Fields : changed(x) \/ reverted(x)}
           values == [x \in pending |-> Shown(e, x[1], x[2])]
           fresh == OpenEditor(result)
<1>1. Saved(e, result, sent) = SetFields(fresh, values)
  BY DEF Saved
<1>2. DOMAIN fresh = {"base", "drafts", "undo"} /\ fresh.base = result /\ Shown(fresh, i, f) = result[i][f]
  BY DEF OpenEditor, Shown, Drafted, Nothing
<1>3. Shown(Saved(e, result, sent), i, f) = IF <<i, f>> \in DOMAIN values THEN values[<<i, f>>] ELSE result[i][f]
  <2> HIDE DEF values, fresh
  <2> QED BY <1>1, <1>2, FieldsAreSet
<1>4. CASE <<i, f>> \in pending
  BY <1>3, <1>4 DEF SameValue
<1>5. CASE <<i, f>> \notin pending
  <2>1. ~changed(<<i, f>>) /\ ~reverted(<<i, f>>)
    BY <1>5
  <2>2. i \in DOMAIN sent /\ f \in DOMAIN sent[i] /\ sent[i][f] = Shown(e, i, f)
    BY <2>1 DEF Shown
  <2>3. result[i][f] = IF f = "text" THEN Trim(sent[i][f]) ELSE sent[i][f]
    BY <2>2 DEF Took
  <2>4. Shown(Saved(e, result, sent), i, f) = result[i][f]
    BY <1>3, <1>5
  <2> QED BY <2>2, <2>3, <2>4 DEF SameValue
<1> QED BY <1>4, <1>5

LEMMA AnswerKeepsTyped ==
    ASSUME ResultInv, NEW p \in puts, EditorAnswered(p), NEW i \in DOMAIN editor.e.base, NEW f \in Fields,
           \/ f \in Drafted(editor.e, i)
           \/ \E q \in puts : q.by = "editor" /\ i \in DOMAIN q.sent /\ f \in DOMAIN q.sent[i]
    PROVE  Keeps(editor'.e, i, f)
<1>1. /\ EditorInv(editor) /\ PutInv(p, editor.job, editor.saving) /\ p.by = "editor"
      /\ \A q \in puts : q.by = "editor" => q = p
  BY DEF ResultInv, PutsInv, EditorAnswered
<1>2. f \in Drafted(editor.e, i) \/ (i \in DOMAIN p.sent /\ f \in DOMAIN p.sent[i])
  BY <1>1
<1>3. editor'.e = IF p.answer = "saved" THEN Saved(editor.e, p.result, p.sent) ELSE editor.e
  BY <1>1 DEF EditorAnswered, Edited, EditorInv
<1>4. CASE p.answer = "saved"
  <2>1. editor.job \in Jobs /\ IsOf(p.result, editor.job) /\ Took(p.result, p.sent) /\ IsOf(editor.e.base, editor.job)
    BY <1>1, <1>4 DEF PutInv, EditorInv
  <2>2. DOMAIN p.result = DOMAIN editor.e.base
    BY <2>1 DEF IsOf
  <2> QED BY <1>2, <1>3, <1>4, <2>1, <2>2, SavedKeepsTyped DEF Keeps
<1>5. CASE p.answer # "saved"
  BY <1>3, <1>5 DEF Keeps, SameValue
<1> QED BY <1>4, <1>5

(* No other step that is not the person's, nor a load, changes the drafts. *)
LEMMA OthersKeepDrafts ==
    ASSUME ResultInv, [Next]_vars, acts' = acts, load' = load, reload' = reload,
           ~ \E p \in puts : EditorAnswered(p)
    PROVE  editor'.e = editor.e
<1>1. ~Act
  BY DEF Act, ResultInv
<1>2. CASE UNCHANGED vars
  BY <1>2 DEF vars
<1>3. CASE Person
  BY <1>1, <1>3 DEF Person, Show, Hide, Retry, DiscardAll, UndoFix, AskReload, AskReport, AskProposal, DropProposal,
                    ChooseNorm, ApplyProposal, Type, TypeUnreadable, Rename, Apply, Save, ChooseProfile
<1>4. CASE LoadArrives \/ LoadFails \/ ReloadArrives \/ ReloadFails
  BY <1>4 DEF LoadArrives, LoadFails, ReloadArrives, ReloadFails, NewGeneration
<1>5. ASSUME NEW p \in puts, Unanswered(p) PROVE editor'.e = editor.e
  BY <1>5 DEF Unanswered, Edited, EditorInv, ResultInv
<1>6. CASE \/ LoadRead \/ ReloadRead
           \/ \E p \in puts : ReadEtag(p) \/ Handle(p) \/ ProposalApplied(p) \/ ProposalRefused(p)
           \/ TimerFires \/ CheckAnswered \/ CheckFails \/ ProfilesArrive \/ ProfilesFail \/ PanelFails
           \/ \E p \in Norms : ReportArrives(p) \/ ProposalArrives(p)
           \/ \E j \in Jobs, edit \in OthersWrite : OtherSaves(j, edit)
  <2>1. editor' = editor
    BY <1>6 DEF LoadRead, ReloadRead, ReadEtag, Handle, ProposalApplied, ProposalRefused, PanelGoes, TimerFires,
                CheckAnswered, CheckFails, ProfilesArrive, ProfilesFail, Guides, PanelFails, ReportArrives,
                ProposalArrives, OtherSaves
  <2> QED BY <2>1
<1> QED BY <1>2, <1>3, <1>4, <1>5, <1>6 DEF Next, Network

(* Whatever the answers are and in whatever order they come, what a person *)
(* typed stays as it is seen until that person changes it or the subtitles *)
(* are loaded again (editor-state.js:133, saved).                          *)
THEOREM TypedStays == Spec => TypedIsKept
<1> DEFINE TextStays == acts' = acts /\ load' = load /\ reload' = reload =>
        \A i \in DOMAIN editor.e.base : \A f \in Fields :
            (f \in Drafted(editor.e, i)
                \/ \E p \in puts : p.by = "editor" /\ i \in DOMAIN p.sent /\ f \in DOMAIN p.sent[i])
            => SameValue(f, Shown(editor'.e, i, f), Shown(editor.e, i, f))
<1>1. ResultInv /\ [Next]_vars => [TextStays]_vars
  <2> SUFFICES ASSUME ResultInv, [Next]_vars, acts' = acts, load' = load, reload' = reload,
                      NEW i \in DOMAIN editor.e.base, NEW f \in Fields,
                      \/ f \in Drafted(editor.e, i)
                      \/ \E p \in puts : p.by = "editor" /\ i \in DOMAIN p.sent /\ f \in DOMAIN p.sent[i]
               PROVE  SameValue(f, Shown(editor'.e, i, f), Shown(editor.e, i, f))
    OBVIOUS
  <2>1. CASE \E p \in puts : EditorAnswered(p)
    BY <2>1, AnswerKeepsTyped DEF Keeps
  <2>2. CASE ~ \E p \in puts : EditorAnswered(p)
    <3>1. editor'.e = editor.e
      BY <2>2, OthersKeepDrafts
    <3> QED BY <3>1 DEF SameValue
  <2> QED BY <2>1, <2>2
<1> QED BY <1>1, ResultIsSafe, PTL DEF Spec, TypedIsKept

-----------------------------------------------------------------------------
(***************************************************************************)
(* The repairs of Quality, for any subtitles whose times are not negative, *)
(* any profile and any part of a repair.                                   *)
(*                                                                         *)
(* What a list of subtitles weighs is a sum with one share for each of     *)
(* them, its own issues and those of the gap after it.  The share depends  *)
(* on its text, its end and the start of the next, and no repair moves a   *)
(* start: the shares are independent, so a change that is kept because the *)
(* neighbours together improve makes its own share no worse, and any part  *)
(* of the shares that are no worse make the whole no worse.  The texts are *)
(* the same words on other lines, also after the server trims them.        *)
(***************************************************************************)

(* Any set of natural numbers that is not empty has a least one. *)
LEMMA LeastIsThere ==
    ASSUME NEW S \in SUBSET Nat, S # {}
    PROVE  Least(S) \in S /\ \A y \in S : Least(S) <= y
<1>1. PICK x \in S : \A y \in S : <<y, x>> \notin OpToRel(<, Nat)
  BY NatLessThanWellFounded, WFMin
<1>2. \A y \in S : <<y, x>> \in Nat \X Nat
  OBVIOUS
<1>3. \A y \in S : ~(y < x)
  BY <1>1, <1>2 DEF OpToRel
<1>4. \A y \in S : x <= y
  BY <1>3
<1>5. \E z \in S : \A y \in S : z <= y
  BY <1>4
<1> QED BY <1>5, Zenon DEF Least

(* One with a bound has a most. *)
LEMMA MostIsThere ==
    ASSUME NEW n \in Nat, NEW S \in SUBSET (0 .. n), S # {}
    PROVE  Most(S) \in S /\ \A y \in S : y <= Most(S)
<1> DEFINE left == {k \in 0 .. n : n - k \in S}
<1>1. PICK s \in S : TRUE
  OBVIOUS
<1>2. n - s \in left
  BY <1>1
<1>3. left \in SUBSET Nat /\ left # {}
  BY <1>2
<1>4. Least(left) \in left /\ \A y \in left : Least(left) <= y
  BY <1>3, LeastIsThere
<1>5. \A y \in S : n - y \in left
  OBVIOUS
<1>6. n - Least(left) \in S /\ \A y \in S : y <= n - Least(left)
  <2> HIDE DEF left
  <2>1. Least(left) \in 0 .. n /\ n - Least(left) \in S
    BY <1>4 DEF left
  <2>2. ASSUME NEW y \in S PROVE y <= n - Least(left)
    BY <1>4, <1>5, <2>1
  <2> QED BY <2>1, <2>2
<1>7. \E z \in S : \A y \in S : y <= z
  BY <1>6
<1> QED BY <1>7, Zenon DEF Most

(* Sums of counts. *)
Units(counts) == UNION {{n} \X (1 .. counts[n]) : n \in DOMAIN counts}

(* What a sum counts, one by one. *)
LEMMA UnitsAre ==
    ASSUME NEW counts, NEW u
    PROVE  u \in Units(counts) <=> \E n \in DOMAIN counts, k \in Nat : k \in 1 .. counts[n] /\ u = <<n, k>>
<1>1. u \in Units(counts) <=> \E n \in DOMAIN counts : u \in {n} \X (1 .. counts[n])
  BY DEF Units
<1>2. ASSUME NEW n PROVE u \in {n} \X (1 .. counts[n]) <=> \E k \in Nat : k \in 1 .. counts[n] /\ u = <<n, k>>
  OBVIOUS
<1> QED BY <1>1, <1>2, Zenon

(* A sum of natural numbers is one. *)
LEMMA SumIsCount ==
    ASSUME NEW N \in Nat, NEW counts \in [1 .. N -> Nat]
    PROVE  IsFiniteSet(Units(counts)) /\ Sum(counts) \in Nat /\ Sum(counts) = Cardinality(Units(counts))
<1> DEFINE part == [n \in 1 .. N |-> {n} \X (1 .. counts[n])]
           parts == {{n} \X (1 .. counts[n]) : n \in 1 .. N}
<1>1. IsFiniteSet(1 .. N)
  BY FS_Interval
<1>2. part \in Surjection(1 .. N, parts)
  BY DEF Surjection
<1>3. IsFiniteSet(parts)
  BY <1>1, <1>2, FS_Surjection
<1>4. ASSUME NEW n \in 1 .. N PROVE IsFiniteSet({n} \X (1 .. counts[n]))
  <2>1. IsFiniteSet({n})
    BY FS_Singleton
  <2>2. IsFiniteSet(1 .. counts[n])
    BY FS_Interval
  <2> QED BY <2>1, <2>2, FS_Product
<1>5. \A T \in parts : IsFiniteSet(T)
  BY <1>4
<1>6. IsFiniteSet(UNION parts)
  BY <1>3, <1>5, FS_UNION
<1>7. Units(counts) = UNION parts
  BY DEF Units
<1>8. Sum(counts) = Cardinality(Units(counts))
  BY DEF Sum, Units
<1> QED BY <1>6, <1>7, <1>8, FS_CardinalityType

(* A sum of no more is no more. *)
LEMMA SumIsMonotone ==
    ASSUME NEW N \in Nat, NEW f \in [1 .. N -> Nat], NEW g \in [1 .. N -> Nat],
           \A n \in 1 .. N : f[n] <= g[n]
    PROVE  Sum(f) <= Sum(g)
<1>1. ASSUME NEW u \in Units(f) PROVE u \in Units(g)
  <2>1. PICK n \in 1 .. N, k \in Nat : k \in 1 .. f[n] /\ u = <<n, k>>
    BY UnitsAre
  <2>2. k \in 1 .. g[n]
    BY <2>1
  <2> QED BY <2>1, <2>2, UnitsAre
<1>2. Units(f) \in SUBSET Units(g)
  BY <1>1
<1> QED BY <1>2, SumIsCount, FS_Subset

(* A one-to-one map between what two sums count. *)
LEMMA SumsAreEqual ==
    ASSUME NEW N \in Nat, NEW f \in [1 .. N -> Nat], NEW T, IsFiniteSet(T),
           NEW b \in [T -> Units(f)],
           \A x, y \in T : b[x] = b[y] => x = y,
           \A u \in Units(f) : \E x \in T : b[x] = u
    PROVE  Cardinality(T) = Sum(f)
<1>1. b \in Injection(T, Units(f))
  BY Zenon DEF Injection, IsInjective
<1>2. b \in Surjection(T, Units(f))
  BY DEF Surjection
<1>3. ExistsBijection(T, Units(f))
  BY <1>1, <1>2 DEF ExistsBijection, Bijection
<1> QED BY <1>3, SumIsCount, FS_Bijection

(* The place of its parts does not matter: all of them one place further. *)
LEMMA SumShifts ==
    ASSUME NEW N \in Nat, NEW f \in [1 .. N -> Nat], NEW g \in [1 .. N -> Nat],
           N > 0 => f[1] = 0 /\ g[N] = 0,
           \A n \in 1 .. N - 1 : f[n + 1] = g[n]
    PROVE  Sum(f) = Sum(g)
<1> DEFINE b == [u \in Units(g) |-> <<u[1] + 1, u[2]>>]
<1>1. ASSUME NEW u \in Units(g)
      PROVE  /\ u = <<u[1], u[2]>> /\ u[1] \in Int /\ u[2] \in Int
             /\ <<u[1] + 1, u[2]>> \in Units(f)
  <2>1. PICK n \in 1 .. N, k \in Nat : k \in 1 .. g[n] /\ u = <<n, k>>
    BY UnitsAre
  <2>2. n # N
    BY <2>1
  <2>3. n \in 1 .. N - 1 /\ n + 1 \in 1 .. N
    BY <2>2
  <2>5. k \in 1 .. f[n + 1]
    BY <2>1, <2>3
  <2>4. <<n + 1, k>> \in Units(f)
    BY <2>3, <2>5, UnitsAre
  <2> QED BY <2>1, <2>4
<1>2. b \in [Units(g) -> Units(f)]
  BY <1>1
<1>3. ASSUME NEW x \in Units(g), NEW y \in Units(g), b[x] = b[y] PROVE x = y
  BY <1>1, <1>3
<1>4. ASSUME NEW u \in Units(f) PROVE \E x \in Units(g) : b[x] = u
  <2>1. PICK n \in 1 .. N, k \in Nat : k \in 1 .. f[n] /\ u = <<n, k>>
    BY UnitsAre
  <2>2. n # 1
    BY <2>1
  <2>3. n - 1 \in 1 .. N - 1 /\ f[(n - 1) + 1] = g[n - 1] /\ (n - 1) + 1 = n
    BY <2>2
  <2>4. k \in 1 .. g[n - 1] /\ n - 1 \in 1 .. N
    BY <2>1, <2>3
  <2>5. <<n - 1, k>> \in Units(g)
    BY <2>4, UnitsAre
  <2>6. b[<<n - 1, k>>] = <<n, k>>
    BY <2>5, <2>3
  <2> QED BY <2>1, <2>5, <2>6
<1> HIDE DEF b
<1>5. IsFiniteSet(Units(g)) /\ Sum(g) = Cardinality(Units(g))
  BY SumIsCount
<1>6. Cardinality(Units(g)) = Sum(f)
  BY <1>2, <1>3, <1>4, <1>5, SumsAreEqual
<1> QED BY <1>5, <1>6

(* The sum of two by two is the sum of both. *)
LEMMA SumAdds ==
    ASSUME NEW N \in Nat, NEW f \in [1 .. N -> Nat], NEW g \in [1 .. N -> Nat]
    PROVE  Sum([n \in 1 .. N |-> f[n] + g[n]]) = Sum(f) + Sum(g)
<1> DEFINE h == [n \in 1 .. N |-> f[n] + g[n]]
           rest == Units(h) \ Units(f)
           b == [u \in rest |-> <<u[1], u[2] - f[u[1]]>>]
<1>1. h \in [1 .. N -> Nat]
  OBVIOUS
<1>2. \A n \in 1 .. N : f[n] <= h[n] /\ h[n] = f[n] + g[n]
  OBVIOUS
<1> HIDE DEF h
<1>3. Units(f) \subseteq Units(h)
  <2>1. ASSUME NEW u \in Units(f) PROVE u \in Units(h)
    <3>1. PICK n \in 1 .. N, k \in Nat : k \in 1 .. f[n] /\ u = <<n, k>>
      BY UnitsAre
    <3>2. k \in 1 .. h[n] /\ DOMAIN h = 1 .. N
      BY <1>1, <1>2, <3>1
    <3> QED BY <3>1, <3>2, UnitsAre
  <2> QED BY <2>1
<1>4. ASSUME NEW u \in rest
      PROVE  \E n \in 1 .. N, k \in Nat : k \in 1 .. h[n] /\ u = <<n, k>> /\ k > f[n]
  <2>1. PICK n \in 1 .. N, k \in Nat : k \in 1 .. h[n] /\ u = <<n, k>>
    BY <1>1, UnitsAre
  <2>2. k > f[n]
    <3>1. SUFFICES ASSUME k <= f[n] PROVE FALSE
      BY <1>1, <1>2
    <3>2. k \in 1 .. f[n]
      BY <2>1, <3>1
    <3>3. u \in Units(f)
      BY <2>1, <3>2, UnitsAre
    <3> QED BY <3>3
  <2> QED BY <2>1, <2>2
<1>5. b \in [rest -> Units(g)]
  <2>1. ASSUME NEW u \in rest PROVE <<u[1], u[2] - f[u[1]]>> \in Units(g)
    <3>1. PICK n \in 1 .. N, k \in Nat : k \in 1 .. h[n] /\ u = <<n, k>> /\ k > f[n]
      BY <1>4
    <3>2. k - f[n] \in 1 .. g[n] /\ k - f[n] \in Nat
      BY <1>2, <3>1
    <3>3. \E m \in DOMAIN g, l \in Nat : l \in 1 .. g[m] /\ <<n, k - f[n]>> = <<m, l>>
      BY <3>2
    <3>4. <<n, k - f[n]>> \in Units(g)
      BY <3>3, UnitsAre
    <3> QED BY <3>1, <3>4
  <2> QED BY <2>1
<1>6. ASSUME NEW x \in rest, NEW y \in rest, b[x] = b[y] PROVE x = y
  <2>1. PICK n \in 1 .. N, k \in Nat : k \in 1 .. h[n] /\ x = <<n, k>>
    BY <1>4
  <2>2. PICK m \in 1 .. N, l \in Nat : l \in 1 .. h[m] /\ y = <<m, l>>
    BY <1>4
  <2>3. <<n, k - f[n]>> = <<m, l - f[m]>>
    BY <1>6, <2>1, <2>2
  <2> QED BY <2>1, <2>2, <2>3
<1>7. ASSUME NEW u \in Units(g) PROVE \E x \in rest : b[x] = u
  <2>1. PICK n \in 1 .. N, k \in Nat : k \in 1 .. g[n] /\ u = <<n, k>>
    BY UnitsAre
  <2>2. k + f[n] \in 1 .. h[n] /\ k + f[n] \in Nat /\ DOMAIN h = 1 .. N
    <3>1. f[n] \in Nat /\ g[n] \in Nat /\ h[n] = f[n] + g[n] /\ k \in Nat /\ 1 <= k /\ k <= g[n]
      BY <1>2, <2>1
    <3>2. DOMAIN h = 1 .. N
      BY <1>1
    <3> QED BY <3>1, <3>2
  <2>6. \E m \in DOMAIN h, l \in Nat : l \in 1 .. h[m] /\ <<n, k + f[n]>> = <<m, l>>
    BY <2>2
  <2>3. <<n, k + f[n]>> \in Units(h)
    BY <2>6, UnitsAre
  <2>4. <<n, k + f[n]>> \notin Units(f)
    <3>1. SUFFICES ASSUME <<n, k + f[n]>> \in Units(f) PROVE FALSE
      OBVIOUS
    <3>2. PICK m \in DOMAIN f, l \in Nat : l \in 1 .. f[m] /\ <<n, k + f[n]>> = <<m, l>>
      BY <3>1, UnitsAre
    <3> QED BY <3>2, <2>1
  <2>5. b[<<n, k + f[n]>>] = <<n, k>>
    <3>1. (k + f[n]) - f[n] = k
      OBVIOUS
    <3> QED BY <2>3, <2>4, <3>1
  <2> QED BY <2>1, <2>3, <2>4, <2>5
<1> HIDE DEF b, rest
<1>8. IsFiniteSet(Units(h)) /\ Sum(h) = Cardinality(Units(h))
  BY <1>1, SumIsCount
<1>9. IsFiniteSet(Units(f)) /\ Sum(f) = Cardinality(Units(f)) /\ Sum(f) \in Nat
  BY SumIsCount
<1>10. IsFiniteSet(rest) /\ Cardinality(rest) = Cardinality(Units(h)) - Cardinality(Units(f))
  <2>1. Units(h) \cap Units(f) = Units(f)
    BY <1>3
  <2>2. Cardinality(Units(h) \ Units(f)) = Cardinality(Units(h)) - Cardinality(Units(h) \cap Units(f))
    BY <1>8, FS_Difference
  <2>3. IsFiniteSet(Units(h) \ Units(f))
    BY <1>8, FS_Difference
  <2> QED BY <2>1, <2>2, <2>3 DEF rest
<1>11. Cardinality(rest) = Sum(g)
  BY <1>5, <1>6, <1>7, <1>10, SumsAreEqual
<1>12. Sum(g) \in Nat /\ Sum(h) \in Nat
  BY <1>1, SumIsCount
<1>13. Sum(h) = Sum(f) + Sum(g)
  BY <1>8, <1>9, <1>10, <1>11, <1>12
<1> QED BY <1>13 DEF h

-----------------------------------------------------------------------------
(* Lines, and the words of a text one after the other. *)

(* What a sum counts for one part. *)
LEMMA UnitsOfOne ==
    ASSUME NEW n \in Nat, NEW k \in Nat
    PROVE  IsFiniteSet({n} \X (1 .. k)) /\ Cardinality({n} \X (1 .. k)) = k
<1> DEFINE I == 1 .. k
<1>1. IsFiniteSet({n}) /\ Cardinality({n}) = 1
  BY FS_Singleton
<1>2. IsFiniteSet(I) /\ Cardinality(I) = k
  BY FS_Interval
<1> HIDE DEF I
<1>3. IsFiniteSet({n} \X I) /\ Cardinality({n} \X I) = Cardinality({n}) * Cardinality(I)
  BY <1>1, <1>2, FS_Product
<1>4. 1 * k = k
  OBVIOUS
<1> QED BY <1>1, <1>2, <1>3, <1>4 DEF I

(* The sum of one, and of two. *)
LEMMA SumOfOne ==
    ASSUME NEW f \in [1 .. 1 -> Nat] PROVE Sum(f) = f[1]
<1>1. Units(f) = {1} \X (1 .. f[1])
  <2>1. DOMAIN f = {1}
    OBVIOUS
  <2> QED BY <2>1, Zenon DEF Units
<1>2. Sum(f) = Cardinality(Units(f))
  BY SumIsCount
<1>3. f[1] \in Nat /\ 1 \in Nat
  OBVIOUS
<1>4. Cardinality({1} \X (1 .. f[1])) = f[1]
  BY <1>3, UnitsOfOne
<1> QED BY <1>1, <1>2, <1>4, Zenon

LEMMA SumOfTwo ==
    ASSUME NEW f \in [1 .. 2 -> Nat] PROVE Sum(f) = f[1] + f[2]
<1> DEFINE A == {1} \X (1 .. f[1])
           B == {2} \X (1 .. f[2])
<1>1. Units(f) = A \cup B
  <2>1. DOMAIN f = {1, 2}
    OBVIOUS
  <2>2. {{n} \X (1 .. f[n]) : n \in {1, 2}} = {A, B}
    OBVIOUS
  <2>3. UNION {A, B} = A \cup B
    OBVIOUS
  <2> QED BY <2>1, <2>2, <2>3, Zenon DEF Units
<1>2. f[1] \in Nat /\ f[2] \in Nat
  OBVIOUS
<1>3. IsFiniteSet(A) /\ Cardinality(A) = f[1] /\ IsFiniteSet(B) /\ Cardinality(B) = f[2]
  BY <1>2, UnitsOfOne
<1>4. A \cap B = {}
  OBVIOUS
<1> HIDE DEF A, B
<1>5. Cardinality(A \cup B) = Cardinality(A) + Cardinality(B) - Cardinality(A \cap B)
  BY <1>3, FS_Union
<1>6. Cardinality({}) = 0
  BY FS_EmptySet
<1>7. Sum(f) = Cardinality(Units(f))
  BY SumIsCount
<1>8. Cardinality(A \cup B) = Cardinality(A) + Cardinality(B) - 0
  BY <1>4, <1>5, <1>6
<1>9. Cardinality(A \cup B) = f[1] + f[2]
  BY <1>2, <1>3, <1>8
<1> QED BY <1>1, <1>7, <1>9, Zenon

-----------------------------------------------------------------------------
Lines == Seq(Nat)

(* visibleLength (quality/verifier.ts) is a natural number; of a blank line it is none. *)
LEMMA VisibleIsNat ==
    ASSUME NEW line \in Lines
    PROVE  Visible(line) \in Nat /\ (IsBlank(line) => Visible(line) = 0)
<1> DEFINE said == {w \in DOMAIN line : line[w] > 0}
<1>1. Len(line) \in Nat /\ line \in [1 .. Len(line) -> Nat] /\ DOMAIN line = 1 .. Len(line)
  BY LenProperties DEF Lines
<1>2. Sum(line) \in Nat
  BY <1>1, SumIsCount
<1>3. ASSUME said # {} PROVE Most(said) - Least(said) \in Nat
  <2>1. said \in SUBSET (0 .. Len(line)) /\ said \in SUBSET Nat
    BY <1>1
  <2>2. Most(said) \in said
    BY <1>1, <1>3, <2>1, MostIsThere
  <2>3. Least(said) \in said /\ \A y \in said : Least(said) <= y
    BY <1>3, <2>1, LeastIsThere
  <2>4. Most(said) \in Nat /\ Least(said) \in Nat /\ Least(said) <= Most(said)
    BY <2>1, <2>2, <2>3
  <2> HIDE DEF said
  <2> QED BY <2>4
<1>4. Visible(line) = IF said = {} THEN 0 ELSE Sum(line) + Most(said) - Least(said)
  BY DEF Visible
<1>5. IsBlank(line) => said = {}
  BY DEF IsBlank
<1> HIDE DEF said
<1>6. CASE said = {}
  BY <1>4, <1>6
<1>7. CASE said # {}
  BY <1>1, <1>2, <1>3, <1>4, <1>5, <1>7
<1> QED BY <1>6, <1>7

(* So are the characters of a text. *)
LEMMA CharactersAreNat ==
    ASSUME NEW text \in Seq(Lines) PROVE Characters(text) \in Nat
<1>1. Len(text) \in Nat /\ DOMAIN text = 1 .. Len(text) /\ \A n \in 1 .. Len(text) : text[n] \in Lines
  BY LenProperties
<1>2. [n \in DOMAIN text |-> Visible(text[n])] \in [1 .. Len(text) -> Nat]
  BY <1>1, VisibleIsNat
<1> QED BY <1>1, <1>2, SumIsCount DEF Characters

(* The lines of a text, one after the other. *)
LEMMA Flattening ==
    ASSUME NEW text \in Seq(Lines), Len(text) > 0
    PROVE  \E f : /\ f = [i \in 1 .. Len(text) |-> IF i = 1 THEN text[i] ELSE f[i - 1] \o text[i]]
                  /\ FlattenSeq(text) = f[Len(text)]
<1> DEFINE Goes(m, f) == f = [i \in 1 .. m |-> IF i = 1 THEN text[i] ELSE f[i - 1] \o text[i]]
           bad == {m \in 1 .. Len(text) : ~\E f : Goes(m, f)}
           least == Least(bad)
<1>0. Len(text) \in Nat
  BY LenProperties
<1>1. ASSUME bad # {} PROVE FALSE
  <2>1. bad \in SUBSET Nat
    <3> HIDE DEF Goes
    <3> QED BY <1>0
  <2>2. least \in bad /\ \A y \in bad : least <= y
    BY <1>1, <2>1, LeastIsThere
  <2>3. least \in 1 .. Len(text) /\ ~\E f : Goes(least, f)
    BY <2>2
  <2>4. CASE least = 1
    <3> DEFINE f == [i \in 1 .. 1 |-> text[i]]
    <3>1. Goes(1, f)
      OBVIOUS
    <3> QED BY <2>3, <2>4, <3>1
  <2>5. CASE least # 1
    <3> HIDE DEF least, bad
    <3>1. least - 1 \in 1 .. Len(text) /\ ~(least <= least - 1)
      BY <1>0, <2>3, <2>5
    <3>2. least - 1 \notin bad
      BY <2>2, <3>1
    <3>3. \E f : Goes(least - 1, f)
      BY <3>1, <3>2, Zenon DEF bad
    <3>4. PICK f : Goes(least - 1, f)
      BY <3>3
    <3> DEFINE g == [i \in 1 .. least |-> IF i = least THEN f[i - 1] \o text[i] ELSE f[i]]
    <3>5. ASSUME NEW i \in 1 .. least PROVE g[i] = IF i = 1 THEN text[i] ELSE g[i - 1] \o text[i]
      <4>1. CASE i = least
        <5>1. i # 1 /\ i - 1 \in 1 .. least /\ i - 1 # least
          BY <1>0, <2>3, <2>5, <4>1
        <5> QED BY <4>1, <5>1
      <4>2. CASE i # least
        <5>1. i \in 1 .. least - 1 /\ g[i] = f[i]
          BY <1>0, <2>3, <4>2
        <5>2. f[i] = IF i = 1 THEN text[i] ELSE f[i - 1] \o text[i]
          BY <3>4, <5>1
        <5>3. i # 1 => i - 1 \in 1 .. least /\ i - 1 # least
          BY <1>0, <2>3, <5>1
        <5> QED BY <5>1, <5>2, <5>3
      <4> QED BY <4>1, <4>2
    <3>6. Goes(least, g)
      BY <3>5
    <3> QED BY <2>3, <3>6
  <2> QED BY <2>4, <2>5
<1>2. \E f : Goes(Len(text), f)
  <2>1. Len(text) \in 1 .. Len(text)
    BY <1>0
  <2> QED BY <1>1, <2>1
<1> DEFINE F == CHOOSE f : Goes(Len(text), f)
<1>3. Goes(Len(text), F)
  BY <1>2, Zenon
<1>4. FlattenSeq(text) = F[Len(text)]
  BY <1>0 DEF FlattenSeq
<1> QED BY <1>3, <1>4

(* The words of a text are a line. *)
LEMMA FlatIsALine ==
    ASSUME NEW text \in Seq(Lines) PROVE FlattenSeq(text) \in Lines
<1>0. Len(text) \in Nat /\ \A n \in 1 .. Len(text) : text[n] \in Lines
  BY LenProperties
<1>1. CASE Len(text) = 0
  <2>1. text = <<>>
    BY <1>1, EmptySeq
  <2>2. FlattenSeq(text) = text
    BY <1>1 DEF FlattenSeq
  <2> QED BY <2>1, <2>2, EmptySeq DEF Lines
<1>2. CASE Len(text) > 0
  <2>1. PICK f : /\ f = [i \in 1 .. Len(text) |-> IF i = 1 THEN text[i] ELSE f[i - 1] \o text[i]]
                 /\ FlattenSeq(text) = f[Len(text)]
    BY <1>2, Flattening
  <2> DEFINE bad == {m \in 1 .. Len(text) : f[m] \notin Lines}
             least == Least(bad)
  <2>2. ASSUME bad # {} PROVE FALSE
    <3>1. bad \in SUBSET Nat
      BY <1>0
    <3>2. least \in bad /\ \A y \in bad : least <= y
      BY <2>2, <3>1, LeastIsThere
    <3> HIDE DEF least
    <3>3. least \in 1 .. Len(text) /\ f[least] \notin Lines
      BY <3>2
    <3>4. f[least] = IF least = 1 THEN text[least] ELSE f[least - 1] \o text[least]
      BY <2>1, <3>3
    <3>5. least # 1 => least - 1 \in 1 .. Len(text) /\ ~(least <= least - 1)
      BY <1>0, <3>3
    <3>6. least # 1 => f[least - 1] \in Lines
      BY <3>2, <3>5
    <3> QED BY <1>0, <3>3, <3>4, <3>6, ConcatProperties DEF Lines
  <2>3. Len(text) \in 1 .. Len(text)
    BY <1>0, <1>2
  <2> QED BY <2>1, <2>2, <2>3
<1> QED BY <1>0, <1>1, <1>2

(* The words of a text of one line, and of two. *)
LEMMA FlatOfOne ==
    ASSUME NEW a \in Lines PROVE FlattenSeq(<<a>>) = a
<1> DEFINE L == <<a>>
<1>1. L \in Seq(Lines) /\ Len(L) = 1 /\ L[1] = a /\ Len(L) > 0
  OBVIOUS
<1> HIDE DEF L
<1>2. PICK f : /\ f = [i \in 1 .. Len(L) |-> IF i = 1 THEN L[i] ELSE f[i - 1] \o L[i]]
               /\ FlattenSeq(L) = f[Len(L)]
  BY <1>1, Flattening
<1>3. f[1] = a
  BY <1>1, <1>2
<1> QED BY <1>1, <1>2, <1>3 DEF L

LEMMA FlatOfTwo ==
    ASSUME NEW a \in Lines, NEW b \in Lines PROVE FlattenSeq(<<a, b>>) = a \o b
<1> DEFINE L == <<a, b>>
<1>1. L \in Seq(Lines) /\ Len(L) = 2 /\ L[1] = a /\ L[2] = b /\ Len(L) > 0
  OBVIOUS
<1> HIDE DEF L
<1>2. PICK f : /\ f = [i \in 1 .. Len(L) |-> IF i = 1 THEN L[i] ELSE f[i - 1] \o L[i]]
               /\ FlattenSeq(L) = f[Len(L)]
  BY <1>1, Flattening
<1>3. 1 \in 1 .. Len(L) /\ 2 \in 1 .. Len(L) /\ 2 - 1 = 1
  BY <1>1
<1>4. f[1] = a /\ f[2] = f[1] \o b
  BY <1>1, <1>2, <1>3
<1> QED BY <1>1, <1>2, <1>4 DEF L

-----------------------------------------------------------------------------
(* What is said does not change with the blanks around it. *)
(* What is said. *)
Heard(words) == {n \in DOMAIN words : words[n] > 0}
Rank(words, n) == Cardinality({m \in Heard(words) : m <= n})
SaidOf(words) == {<<Rank(words, n), words[n]>> : n \in Heard(words)}

(* What is said depends on the words only (squash of jobs/segments.ts). *)
LEMMA SaidIsOfItsWords == ASSUME NEW text PROVE Said(text) = SaidOf(FlattenSeq(text))
BY DEF Said, SaidOf, Rank, Heard

(* A blank line says nothing. *)
LEMMA NothingIsSaid == ASSUME NEW a, IsBlank(a) PROVE SaidOf(a) = {}
<1>1. Heard(a) = {}
  BY DEF Heard, IsBlank
<1> QED BY <1>1 DEF SaidOf

(* The words of two lines, by their places. *)
LEMMA Joined ==
    ASSUME NEW a \in Lines, NEW b \in Lines
    PROVE  /\ Len(a) \in Nat /\ Len(b) \in Nat
           /\ DOMAIN a = 1 .. Len(a) /\ DOMAIN b = 1 .. Len(b)
           /\ DOMAIN (a \o b) = 1 .. Len(a) + Len(b)
           /\ \A n \in 1 .. Len(a) : (a \o b)[n] = a[n] /\ a[n] \in Nat
           /\ \A n \in 1 .. Len(b) : (a \o b)[Len(a) + n] = b[n] /\ b[n] \in Nat
BY DEF Lines

(* A blank line after the words changes nothing of what is said. *)
LEMMA BlankAfter ==
    ASSUME NEW a \in Lines, NEW b \in Lines, IsBlank(b)
    PROVE  SaidOf(a \o b) = SaidOf(a)
<1>1. ASSUME NEW n PROVE n \in Heard(a \o b) <=> n \in Heard(a)
  <2>1. ASSUME n \in Heard(a \o b) PROVE n \in Heard(a)
    <3>1. n \in 1 .. Len(a) + Len(b) /\ (a \o b)[n] > 0
      BY <2>1, Joined DEF Heard
    <3>2. CASE n \in 1 .. Len(a)
      BY <3>1, <3>2, Joined DEF Heard
    <3>3. CASE n \notin 1 .. Len(a)
      <4>1. n - Len(a) \in 1 .. Len(b) /\ n = Len(a) + (n - Len(a))
        BY <3>1, <3>3, Joined
      <4>2. b[n - Len(a)] > 0 /\ n - Len(a) \in DOMAIN b
        BY <3>1, <4>1, Joined
      <4>3. b[n - Len(a)] = 0
        BY <4>2, Zenon DEF IsBlank
      <4> QED BY <4>2, <4>3
    <3> QED BY <3>2, <3>3
  <2>2. ASSUME n \in Heard(a) PROVE n \in Heard(a \o b)
    <3>1. n \in 1 .. Len(a) /\ a[n] > 0
      BY <2>2, Joined DEF Heard
    <3>2. n \in 1 .. Len(a) + Len(b) /\ (a \o b)[n] = a[n]
      BY <3>1, Joined
    <3> QED BY <3>1, <3>2, Joined DEF Heard
  <2> QED BY <2>1, <2>2
<1>2. Heard(a \o b) = Heard(a)
  BY <1>1
<1>3. ASSUME NEW n \in Heard(a) PROVE <<Rank(a \o b, n), (a \o b)[n]>> = <<Rank(a, n), a[n]>>
  <2>1. n \in 1 .. Len(a)
    BY Joined DEF Heard
  <2>2. (a \o b)[n] = a[n]
    BY <2>1, Joined
  <2>3. Rank(a \o b, n) = Rank(a, n)
    BY <1>2, Zenon DEF Rank
  <2> QED BY <2>2, <2>3
<1> QED BY <1>2, <1>3 DEF SaidOf

(* Nor does one before them. *)
LEMMA BlankBefore ==
    ASSUME NEW a \in Lines, NEW b \in Lines, IsBlank(a)
    PROVE  SaidOf(a \o b) = SaidOf(b)
<1>0. Len(a) \in Nat /\ Len(b) \in Nat
  BY Joined
<1>1. ASSUME NEW n \in Heard(a \o b) PROVE n - Len(a) \in Heard(b) /\ n \in Nat
  <2>1. n \in 1 .. Len(a) + Len(b) /\ (a \o b)[n] > 0
    BY Joined DEF Heard
  <2>2. n \notin 1 .. Len(a)
    <3>1. SUFFICES ASSUME n \in 1 .. Len(a) PROVE FALSE
      OBVIOUS
    <3>2. a[n] > 0 /\ n \in DOMAIN a
      BY <2>1, <3>1, Joined
    <3>3. a[n] = 0
      BY <3>2, Zenon DEF IsBlank
    <3> QED BY <3>2, <3>3
  <2>3. n - Len(a) \in 1 .. Len(b) /\ n = Len(a) + (n - Len(a))
    BY <1>0, <2>1, <2>2
  <2>4. b[n - Len(a)] > 0 /\ n - Len(a) \in DOMAIN b
    BY <2>1, <2>3, Joined
  <2> QED BY <2>1, <2>4 DEF Heard
<1>2. ASSUME NEW n \in Heard(b)
      PROVE  n \in Nat /\ Len(a) + n \in Heard(a \o b) /\ (a \o b)[Len(a) + n] = b[n]
  <2>1. n \in 1 .. Len(b) /\ b[n] > 0
    BY Joined DEF Heard
  <2>2. (a \o b)[Len(a) + n] = b[n]
    BY <2>1, Joined
  <2>3. Len(a) + n \in DOMAIN (a \o b)
    BY <1>0, <2>1, Joined
  <2> QED BY <2>1, <2>2, <2>3 DEF Heard
<1>3. ASSUME NEW n \in Heard(b) PROVE Rank(a \o b, Len(a) + n) = Rank(b, n)
  <2> DEFINE S == {m \in Heard(b) : m <= n}
             T == {m \in Heard(a \o b) : m <= Len(a) + n}
             f == [m \in S |-> Len(a) + m]
  <2>1. ASSUME NEW m \in S PROVE Len(a) + m \in T /\ m \in Nat
    BY <1>0, <1>2
  <2>2. ASSUME NEW k \in T PROVE k - Len(a) \in S /\ k = Len(a) + (k - Len(a))
    BY <1>0, <1>1, <1>2
  <2> HIDE DEF S, T
  <2>3. f \in Injection(S, T)
    <3>1. f \in [S -> T]
      BY <2>1
    <3>2. ASSUME NEW x \in S, NEW y \in S, f[x] = f[y] PROVE x = y
      BY <1>0, <2>1, <3>2
    <3> QED BY <3>1, <3>2, Zenon DEF Injection, IsInjective
  <2>4. f \in Surjection(S, T)
    <3>1. f \in [S -> T]
      BY <2>1
    <3>2. ASSUME NEW k \in T PROVE \E x \in S : f[x] = k
      <4>1. f[k - Len(a)] = k
        BY <2>2
      <4> QED BY <2>2, <4>1
    <3> QED BY <3>1, <3>2 DEF Surjection
  <2>5. ExistsBijection(S, T)
    BY <2>3, <2>4 DEF ExistsBijection, Bijection
  <2>6. IsFiniteSet(S)
    <3>1. S \in SUBSET (1 .. Len(b))
      BY Joined DEF S, Heard
    <3>2. IsFiniteSet(1 .. Len(b))
      BY <1>0, FS_Interval
    <3> QED BY <3>1, <3>2, FS_Subset
  <2>7. Cardinality(T) = Cardinality(S)
    BY <2>5, <2>6, FS_Bijection
  <2> QED BY <2>7 DEF Rank, S, T
<1>4. ASSUME NEW x \in SaidOf(a \o b) PROVE x \in SaidOf(b)
  <2>1. PICK n \in Heard(a \o b) : x = <<Rank(a \o b, n), (a \o b)[n]>>
    BY DEF SaidOf
  <2> DEFINE m == n - Len(a)
  <2>2. m \in Heard(b) /\ n = Len(a) + m
    BY <1>0, <1>1
  <2> HIDE DEF m
  <2>3. x = <<Rank(b, m), b[m]>>
    BY <1>2, <1>3, <2>1, <2>2
  <2> QED BY <2>2, <2>3 DEF SaidOf
<1>5. ASSUME NEW x \in SaidOf(b) PROVE x \in SaidOf(a \o b)
  <2>1. PICK n \in Heard(b) : x = <<Rank(b, n), b[n]>>
    BY DEF SaidOf
  <2>2. x = <<Rank(a \o b, Len(a) + n), (a \o b)[Len(a) + n]>> /\ Len(a) + n \in Heard(a \o b)
    BY <1>2, <1>3, <2>1
  <2> QED BY <2>2 DEF SaidOf
<1> QED BY <1>4, <1>5
-----------------------------------------------------------------------------
(* Texts of one line and of two. *)
Long(text, max) == {n \in DOMAIN text : Visible(text[n]) > max}

(* Trimming a text of one line keeps what it says and how long it is. *)
LEMMA OneLine ==
    ASSUME NEW a \in Lines, NEW max \in Nat
    PROVE  /\ <<a>> \in Seq(Lines) /\ Len(<<a>>) = 1
           /\ Characters(<<a>>) = Visible(a)
           /\ Cardinality(Long(<<a>>, max)) = One(Visible(a) > max)
           /\ Trim(<<a>>) = IF IsBlank(a) THEN << <<0>> >> ELSE <<a>>
<1>1. <<a>> \in Seq(Lines) /\ Len(<<a>>) = 1 /\ DOMAIN <<a>> = {1} /\ <<a>>[1] = a
  OBVIOUS
<1>2. Visible(a) \in Nat
  BY VisibleIsNat
<1>3. Characters(<<a>>) = Visible(a)
  <2> DEFINE f == [n \in 1 .. 1 |-> Visible(<<a>>[n])]
  <2>1. f \in [1 .. 1 -> Nat] /\ f[1] = Visible(a)
    BY <1>1, <1>2
  <2>2. Characters(<<a>>) = Sum(f)
    BY <1>1 DEF Characters
  <2> QED BY <2>1, <2>2, SumOfOne
<1>4. Cardinality(Long(<<a>>, max)) = One(Visible(a) > max)
  <2>1. CASE Visible(a) > max
    <3>1. Long(<<a>>, max) = {1}
      BY <1>1, <2>1 DEF Long
    <3> QED BY <2>1, <3>1, FS_Singleton DEF One
  <2>2. CASE ~(Visible(a) > max)
    <3>1. Long(<<a>>, max) = {}
      BY <1>1, <2>2 DEF Long
    <3> QED BY <2>2, <3>1, FS_EmptySet DEF One
  <2> QED BY <2>1, <2>2
<1>5. Trim(<<a>>) = IF IsBlank(a) THEN << <<0>> >> ELSE <<a>>
  <2> DEFINE said == {n \in DOMAIN <<a>> : ~IsBlank(<<a>>[n])}
  <2>1. Trim(<<a>>) = IF said = {} THEN << <<0>> >> ELSE SubSeq(<<a>>, Least(said), Most(said))
    BY DEF Trim
  <2>2. said = IF IsBlank(a) THEN {} ELSE {1}
    BY <1>1
  <2>3. Least({1}) = 1
    BY LeastIsThere
  <2>4. Most({1}) = 1
    <3>1. Most({1}) \in {1}
      BY MostIsThere
    <3> QED BY <3>1
  <2>5. SubSeq(<<a>>, 1, 1) = <<a>>
    BY <1>1, SubSeqFull
  <2> HIDE DEF said
  <2> QED BY <2>1, <2>2, <2>3, <2>4, <2>5
<1> QED BY <1>1, <1>3, <1>4, <1>5

(* So it does with one of two lines, of which there may be fewer left. *)
LEMMA TwoLines ==
    ASSUME NEW a \in Lines, NEW b \in Lines, NEW max \in Nat
    PROVE  /\ <<a, b>> \in Seq(Lines) /\ Len(<<a, b>>) = 2
           /\ Characters(<<a, b>>) = Visible(a) + Visible(b)
           /\ Cardinality(Long(<<a, b>>, max)) = One(Visible(a) > max) + One(Visible(b) > max)
           /\ Trim(<<a, b>>) = IF ~IsBlank(a) /\ ~IsBlank(b) THEN <<a, b>>
                               ELSE IF ~IsBlank(a) THEN <<a>>
                               ELSE IF ~IsBlank(b) THEN <<b>> ELSE << <<0>> >>
<1> DEFINE L == <<a, b>>
<1>1. L \in Seq(Lines) /\ Len(L) = 2 /\ DOMAIN L = {1, 2} /\ DOMAIN L = 1 .. 2 /\ L[1] = a /\ L[2] = b
  OBVIOUS
<1> HIDE DEF L
<1>0. SubSeq(L, 1, 1) = <<a>> /\ SubSeq(L, 2, 2) = <<b>> /\ SubSeq(L, 1, 2) = L
  <2>1. ASSUME NEW n \in {1, 2} PROVE SubSeq(L, n, n) = <<L[n]>>
    <3> DEFINE S == SubSeq(L, n, n)
    <3>1. \A i \in n .. n : L[i] \in Lines
      BY <1>1
    <3>2. /\ S \in Seq(Lines)
          /\ Len(S) = IF n <= n THEN n - n + 1 ELSE 0
          /\ \A i \in 1 .. n - n + 1 : S[i] = L[n + i - 1]
      BY <3>1, SubSeqProperties
    <3> HIDE DEF S
    <3>3. Len(S) = 1 /\ S[1] = L[n]
      BY <3>2
    <3>4. <<L[n]>> \in Seq(Lines) /\ Len(<<L[n]>>) = 1 /\ <<L[n]>>[1] = L[n]
      BY <1>1
    <3>5. S = <<L[n]>>
      BY <3>2, <3>3, <3>4, SeqEqual
    <3> QED BY <3>5 DEF S
  <2> QED BY <1>1, <2>1, SubSeqFull
<1>2. Visible(a) \in Nat /\ Visible(b) \in Nat
  BY VisibleIsNat
<1>3. Characters(L) = Visible(a) + Visible(b)
  <2> DEFINE f == [n \in 1 .. 2 |-> Visible(L[n])]
  <2>1. f \in [1 .. 2 -> Nat] /\ f[1] = Visible(a) /\ f[2] = Visible(b)
    BY <1>1, <1>2
  <2>2. Characters(L) = Sum(f)
    BY <1>1 DEF Characters
  <2> HIDE DEF f
  <2>3. Sum(f) = f[1] + f[2]
    BY <2>1, SumOfTwo
  <2> QED BY <2>1, <2>2, <2>3
<1>4. Cardinality(Long(L, max)) = One(Visible(a) > max) + One(Visible(b) > max)
  <2>0. Cardinality({}) = 0 /\ Cardinality({1}) = 1 /\ Cardinality({2}) = 1 /\ Cardinality({1, 2}) = 2
    <3>1. IsFiniteSet({1}) /\ Cardinality({1}) = 1 /\ Cardinality({2}) = 1
      BY FS_Singleton
    <3>2. {1} \cup {2} = {1, 2} /\ 2 \notin {1}
      OBVIOUS
    <3>3. Cardinality({1} \cup {2}) = Cardinality({1}) + 1
      BY <3>1, <3>2, FS_AddElement
    <3> QED BY <3>1, <3>2, <3>3, FS_EmptySet
  <2>1. Long(L, max) = (IF Visible(a) > max THEN {1} ELSE {}) \cup (IF Visible(b) > max THEN {2} ELSE {})
    BY <1>1 DEF Long
  <2>2. CASE Visible(a) > max /\ Visible(b) > max
    <3>1. Long(L, max) = {1, 2}
      BY <2>1, <2>2
    <3> QED BY <2>0, <2>2, <3>1 DEF One
  <2>3. CASE Visible(a) > max /\ ~(Visible(b) > max)
    <3>1. Long(L, max) = {1}
      BY <2>1, <2>3
    <3> QED BY <2>0, <2>3, <3>1 DEF One
  <2>4. CASE ~(Visible(a) > max) /\ Visible(b) > max
    <3>1. Long(L, max) = {2}
      BY <2>1, <2>4
    <3> QED BY <2>0, <2>4, <3>1 DEF One
  <2>5. CASE ~(Visible(a) > max) /\ ~(Visible(b) > max)
    <3>1. Long(L, max) = {}
      BY <2>1, <2>5
    <3> QED BY <2>0, <2>5, <3>1 DEF One
  <2> QED BY <2>2, <2>3, <2>4, <2>5
<1>5. Trim(L) = IF ~IsBlank(a) /\ ~IsBlank(b) THEN L
                ELSE IF ~IsBlank(a) THEN <<a>>
                ELSE IF ~IsBlank(b) THEN <<b>> ELSE << <<0>> >>
  <2> DEFINE said == {n \in DOMAIN L : ~IsBlank(L[n])}
  <2>1. Trim(L) = IF said = {} THEN << <<0>> >> ELSE SubSeq(L, Least(said), Most(said))
    BY DEF Trim
  <2>2. said = (IF IsBlank(a) THEN {} ELSE {1}) \cup (IF IsBlank(b) THEN {} ELSE {2})
    BY <1>1
  <2>3. said \in SUBSET Nat /\ said \in SUBSET (0 .. 2)
    BY <2>2
  <2> HIDE DEF said
  <2>4. ASSUME said # {}
        PROVE  /\ Least(said) \in said /\ \A y \in said : Least(said) <= y
               /\ Most(said) \in said /\ \A y \in said : y <= Most(said)
    BY <2>3, <2>4, LeastIsThere, MostIsThere
  <2>5. CASE ~IsBlank(a) /\ ~IsBlank(b)
    <3>1. said = {1, 2}
      BY <2>2, <2>5
    <3>2. Least(said) = 1 /\ Most(said) = 2
      BY <2>4, <3>1
    <3> QED BY <1>0, <2>1, <2>5, <3>1, <3>2
  <2>6. CASE ~IsBlank(a) /\ IsBlank(b)
    <3>1. said = {1}
      BY <2>2, <2>6
    <3>2. Least(said) = 1 /\ Most(said) = 1
      BY <2>4, <3>1
    <3> QED BY <1>0, <2>1, <2>6, <3>1, <3>2
  <2>7. CASE IsBlank(a) /\ ~IsBlank(b)
    <3>1. said = {2}
      BY <2>2, <2>7
    <3>2. Least(said) = 2 /\ Most(said) = 2
      BY <2>4, <3>1
    <3> QED BY <1>0, <2>1, <2>7, <3>1, <3>2
  <2>8. CASE IsBlank(a) /\ IsBlank(b)
    BY <2>1, <2>2, <2>8
  <2> QED BY <2>5, <2>6, <2>7, <2>8 DEF IsBlank
<1> QED BY <1>1, <1>3, <1>4, <1>5 DEF L

-----------------------------------------------------------------------------
(* A layout has the same words on one line, or on two. *)
(* Any profile. *)
Limits == [maxChars : Nat, maxCps : Nat \ {0}, margin : Nat, minDuration : Nat, maxDuration : Nat, minGap : Nat]

(* The words on one line, or on two. *)
Halves(words, c) == <<SubSeq(words, 1, c), SubSeq(words, c + 1, Len(words))>>
Laid(text, words) == text = <<words>> \/ \E c \in 1 .. Len(words) - 1 : text = Halves(words, c)

(* The two halves of a line are the line. *)
LEMMA HalvesAre ==
    ASSUME NEW words \in Lines, NEW c \in 1 .. Len(words) - 1
    PROVE  /\ SubSeq(words, 1, c) \in Lines /\ SubSeq(words, c + 1, Len(words)) \in Lines
           /\ SubSeq(words, 1, c) \o SubSeq(words, c + 1, Len(words)) = words
<1>1. Len(words) \in Nat /\ words \in Seq(Nat) /\ \A i \in 1 .. Len(words) : words[i] \in Nat
  BY LenProperties DEF Lines
<1>2. \A i \in 1 .. c : words[i] \in Nat
  BY <1>1
<1>3. \A i \in c + 1 .. Len(words) : words[i] \in Nat
  BY <1>1
<1>4. SubSeq(words, 1, c) \in Lines
  BY <1>1, <1>2, SubSeqProperties DEF Lines
<1>5. SubSeq(words, c + 1, Len(words)) \in Lines
  BY <1>1, <1>3, SubSeqProperties DEF Lines
<1>6. 1 \in 1 .. Len(words) + 1 /\ c \in 1 - 1 .. Len(words) /\ Len(words) \in c .. Len(words)
  BY <1>1
<1>7. SubSeq(words, 1, c) \o SubSeq(words, c + 1, Len(words)) = SubSeq(words, 1, Len(words))
  BY <1>1, <1>6, ConcatAdjacentSubSeq
<1> QED BY <1>1, <1>4, <1>5, <1>7, SubSeqFull

(* Each layout has the same words, in one line or in two (layoutLines of quality/fixer.ts). *)
LEMMA LayoutsAre ==
    ASSUME NEW words \in Lines, NEW p \in Limits, NEW text \in Layouts(words, p)
    PROVE  Laid(text, words)
<1> DEFINE fits == {c \in 1 .. Len(words) - 1 : \A n \in 1 .. 2 : Visible(Halves(words, c)[n]) <= p.maxChars}
           square(c) == Visible(Halves(words, c)[1]) * Visible(Halves(words, c)[1])
                            + Visible(Halves(words, c)[2]) * Visible(Halves(words, c)[2])
           best == {c \in fits : \A d \in fits : square(c) <= square(d)}
<1>1. Layouts(words, p) = IF Visible(words) <= p.maxChars THEN {<<words>>}
                          ELSE IF fits = {} THEN {} ELSE {Halves(words, Least(best))}
  BY DEF Layouts, Halves
<1>2. CASE text = <<words>>
  BY <1>2 DEF Laid
<1>3. CASE fits # {} /\ text = Halves(words, Least(best))
  <2>1. \A c \in fits : c \in 1 .. Len(words) - 1
    OBVIOUS
  <2>2. \A c \in fits : square(c) \in Nat
    <3>1. ASSUME NEW c \in 1 .. Len(words) - 1
          PROVE  Visible(Halves(words, c)[1]) \in Nat /\ Visible(Halves(words, c)[2]) \in Nat
      <4>1. Halves(words, c)[1] = SubSeq(words, 1, c) /\ Halves(words, c)[2] = SubSeq(words, c + 1, Len(words))
        BY DEF Halves
      <4> QED BY <4>1, HalvesAre, VisibleIsNat
    <3>2. \A x, y \in Nat : x * x + y * y \in Nat
      OBVIOUS
    <3> QED BY <2>1, <3>1, <3>2
  <2> HIDE DEF fits, square
  <2> DEFINE squares == {square(c) : c \in fits}
  <2>3. squares \in SUBSET Nat /\ squares # {}
    BY <1>3, <2>2
  <2>4. Least(squares) \in squares /\ \A y \in squares : Least(squares) <= y
    BY <2>3, LeastIsThere
  <2>5. PICK c \in fits : square(c) = Least(squares)
    BY <2>4
  <2>6. c \in best
    BY <2>4, <2>5
  <2>7. best \in SUBSET Nat /\ best # {}
    BY <2>1, <2>6
  <2>8. Least(best) \in best
    BY <2>7, LeastIsThere
  <2>9. Least(best) \in 1 .. Len(words) - 1
    BY <2>1, <2>8
  <2> QED BY <1>3, <2>9 DEF Laid
<1> QED BY <1>1, <1>2, <1>3

(* What a layout of the words of a text keeps, also once its blanks are trimmed. *)
LEMMA LaidKeeps ==
    ASSUME NEW words \in Lines, NEW text, Laid(text, words), NEW max \in Nat
    PROVE  /\ text \in Seq(Lines) /\ Len(text) <= 2 /\ FlattenSeq(text) = words
           /\ ~HasBlankLine(text)
           /\ Trim(text) \in Seq(Lines) /\ Len(Trim(text)) <= Len(text)
           /\ Said(Trim(text)) = SaidOf(words)
           /\ Characters(Trim(text)) = Characters(text)
           /\ Cardinality(Long(Trim(text), max)) <= Cardinality(Long(text, max))
<1> DEFINE blank == <<0>>
<1>1. blank \in Lines /\ IsBlank(blank)
  BY DEF Lines, IsBlank
<1> HIDE DEF blank
<1>2. /\ <<blank>> \in Seq(Lines) /\ Len(<<blank>>) = 1 /\ Said(<<blank>>) = {} /\ Characters(<<blank>>) = 0
      /\ Cardinality(Long(<<blank>>, max)) = 0
  <2>1. Visible(blank) = 0 /\ Said(<<blank>>) = SaidOf(blank)
    BY <1>1, VisibleIsNat, SaidIsOfItsWords, FlatOfOne
  <2>2. SaidOf(blank) = {}
    BY <1>1, NothingIsSaid
  <2> QED BY <1>1, <2>1, <2>2, OneLine DEF One
<1>3. CASE text = <<words>>
  <2>1. FlattenSeq(text) = words /\ Said(text) = SaidOf(words)
    BY <1>3, FlatOfOne, SaidIsOfItsWords
  <2>2. /\ text \in Seq(Lines) /\ Len(text) = 1
        /\ Characters(text) = Visible(words)
        /\ Cardinality(Long(text, max)) = One(Visible(words) > max)
        /\ Trim(text) = IF IsBlank(words) THEN <<blank>> ELSE text
    BY <1>3, OneLine DEF blank
  <2>3. ~HasBlankLine(text)
    BY <2>2 DEF HasBlankLine
  <2>4. CASE IsBlank(words)
    <3>1. SaidOf(words) = {} /\ Visible(words) = 0
      BY <2>4, NothingIsSaid, VisibleIsNat
    <3> QED BY <1>2, <2>1, <2>2, <2>3, <2>4, <3>1 DEF One
  <2>5. CASE ~IsBlank(words)
    <3>1. Trim(text) = text /\ Cardinality(Long(text, max)) \in Int
      BY <2>2, <2>5 DEF One
    <3>4. Cardinality(Long(text, max)) <= Cardinality(Long(text, max)) /\ Len(text) <= Len(text)
      BY <2>2, <3>1
    <3>2. Len(Trim(text)) <= Len(text) /\ Cardinality(Long(Trim(text), max)) <= Cardinality(Long(text, max))
      BY <3>1, <3>4, Zenon
    <3>3. Said(Trim(text)) = SaidOf(words) /\ Characters(Trim(text)) = Characters(text) /\ Trim(text) \in Seq(Lines)
      BY <2>1, <2>2, <3>1, Zenon
    <3> QED BY <2>1, <2>2, <2>3, <3>2, <3>3
  <2> QED BY <2>4, <2>5
<1>4. ASSUME NEW c \in 1 .. Len(words) - 1, text = Halves(words, c)
      PROVE  /\ text \in Seq(Lines) /\ Len(text) <= 2 /\ FlattenSeq(text) = words
             /\ ~HasBlankLine(text)
             /\ Trim(text) \in Seq(Lines) /\ Len(Trim(text)) <= Len(text)
             /\ Said(Trim(text)) = SaidOf(words)
             /\ Characters(Trim(text)) = Characters(text)
             /\ Cardinality(Long(Trim(text), max)) <= Cardinality(Long(text, max))
  <2> DEFINE a == SubSeq(words, 1, c)
             b == SubSeq(words, c + 1, Len(words))
  <2>1. a \in Lines /\ b \in Lines /\ a \o b = words /\ text = <<a, b>>
    BY <1>4, HalvesAre DEF Halves
  <2> HIDE DEF a, b
  <2>2. FlattenSeq(text) = words /\ Said(text) = SaidOf(words)
    BY <2>1, FlatOfTwo, SaidIsOfItsWords
  <2>3. /\ text \in Seq(Lines) /\ Len(text) = 2
        /\ Characters(text) = Visible(a) + Visible(b)
        /\ Cardinality(Long(text, max)) = One(Visible(a) > max) + One(Visible(b) > max)
        /\ Trim(text) = IF ~IsBlank(a) /\ ~IsBlank(b) THEN text
                        ELSE IF ~IsBlank(a) THEN <<a>> ELSE IF ~IsBlank(b) THEN <<b>> ELSE <<blank>>
    BY <2>1, TwoLines DEF blank
  <2>4. ~HasBlankLine(text)
    BY <2>3 DEF HasBlankLine
  <2>5. Visible(a) \in Nat /\ Visible(b) \in Nat
    BY <2>1, VisibleIsNat
  <2>6. CASE ~IsBlank(a) /\ ~IsBlank(b)
    <3>1. Trim(text) = text /\ Cardinality(Long(text, max)) \in Int
      BY <2>3, <2>6 DEF One
    <3>4. Cardinality(Long(text, max)) <= Cardinality(Long(text, max)) /\ Len(text) <= Len(text)
      BY <2>3, <3>1
    <3>2. Len(Trim(text)) <= Len(text) /\ Cardinality(Long(Trim(text), max)) <= Cardinality(Long(text, max))
      BY <3>1, <3>4, Zenon
    <3>3. Said(Trim(text)) = SaidOf(words) /\ Characters(Trim(text)) = Characters(text) /\ Trim(text) \in Seq(Lines)
      BY <2>2, <2>3, <3>1, Zenon
    <3> QED BY <2>2, <2>3, <2>4, <3>2, <3>3
  <2>7. CASE ~IsBlank(a) /\ IsBlank(b)
    <3>1. Trim(text) = <<a>> /\ Visible(b) = 0
      BY <2>1, <2>3, <2>7, VisibleIsNat
    <3>2. Said(<<a>>) = SaidOf(words)
      BY <2>1, <2>7, BlankAfter, FlatOfOne, SaidIsOfItsWords
    <3>3. /\ <<a>> \in Seq(Lines) /\ Len(<<a>>) = 1 /\ Characters(<<a>>) = Visible(a)
          /\ Cardinality(Long(<<a>>, max)) = One(Visible(a) > max)
      BY <2>1, OneLine
    <3>4. Len(<<a>>) <= Len(text) /\ Characters(<<a>>) = Characters(text)
      BY <2>3, <2>5, <3>1, <3>3
    <3>5. One(Visible(a) > max) <= One(Visible(a) > max) + One(Visible(b) > max)
      BY DEF One
    <3>6. Cardinality(Long(<<a>>, max)) <= Cardinality(Long(text, max))
      BY <2>3, <3>3, <3>5, Zenon
    <3>7. Len(text) <= 2
      BY <2>3
    <3> QED BY <2>2, <2>3, <2>4, <3>1, <3>2, <3>3, <3>4, <3>6, <3>7, Zenon
  <2>8. CASE IsBlank(a) /\ ~IsBlank(b)
    <3>1. Trim(text) = <<b>> /\ Visible(a) = 0
      BY <2>1, <2>3, <2>8, VisibleIsNat
    <3>2. Said(<<b>>) = SaidOf(words)
      BY <2>1, <2>8, BlankBefore, FlatOfOne, SaidIsOfItsWords
    <3>3. /\ <<b>> \in Seq(Lines) /\ Len(<<b>>) = 1 /\ Characters(<<b>>) = Visible(b)
          /\ Cardinality(Long(<<b>>, max)) = One(Visible(b) > max)
      BY <2>1, OneLine
    <3>4. Len(<<b>>) <= Len(text) /\ Characters(<<b>>) = Characters(text)
      BY <2>3, <2>5, <3>1, <3>3
    <3>5. One(Visible(b) > max) <= One(Visible(a) > max) + One(Visible(b) > max)
      BY DEF One
    <3>6. Cardinality(Long(<<b>>, max)) <= Cardinality(Long(text, max))
      BY <2>3, <3>3, <3>5, Zenon
    <3>7. Len(text) <= 2
      BY <2>3
    <3> QED BY <2>2, <2>3, <2>4, <3>1, <3>2, <3>3, <3>4, <3>6, <3>7, Zenon
  <2>9. CASE IsBlank(a) /\ IsBlank(b)
    <3>1. Trim(text) = <<blank>> /\ Visible(a) = 0 /\ Visible(b) = 0
      BY <2>1, <2>3, <2>9, VisibleIsNat
    <3>2. SaidOf(words) = {}
      BY <2>1, <2>9, BlankAfter, NothingIsSaid
    <3>3. Len(<<blank>>) <= Len(text) /\ Len(text) <= 2
      BY <1>2, <2>3
    <3>4. Characters(<<blank>>) = Characters(text)
      BY <1>2, <2>3, <3>1
    <3>5. Cardinality(Long(text, max)) \in Nat
      BY <2>3 DEF One
    <3>6. Cardinality(Long(<<blank>>, max)) <= Cardinality(Long(text, max))
      BY <1>2, <3>5
    <3> QED BY <1>2, <2>2, <2>3, <2>4, <3>1, <3>2, <3>3, <3>4, <3>6, Zenon
  <2> QED BY <2>6, <2>7, <2>8, <2>9
<1> QED BY <1>3, <1>4 DEF Laid

-----------------------------------------------------------------------------
(* A sum changes with one of its parts by as much as that part. *)
LEMMA SumOfAChange ==
    ASSUME NEW N \in Nat, NEW i \in 1 .. N, NEW f \in [1 .. N -> Nat], NEW g \in [1 .. N -> Nat],
           \A n \in 1 .. N : n # i => f[n] = g[n]
    PROVE  Sum(f) - Sum(g) = f[i] - g[i]
<1> DEFINE rest == [n \in 1 .. N |-> IF n = i THEN 0 ELSE f[n]]
           only(h) == [n \in 1 .. N |-> IF n = i THEN h[i] ELSE 0]
<1>0. rest \in [1 .. N -> Nat]
  OBVIOUS
<1>1. ASSUME NEW h \in [1 .. N -> Nat] PROVE only(h) \in [1 .. N -> Nat] /\ Sum(only(h)) = h[i]
  <2> DEFINE o == only(h)
  <2>1. o \in [1 .. N -> Nat] /\ \A n \in 1 .. N : o[n] = IF n = i THEN h[i] ELSE 0
    OBVIOUS
  <2> HIDE DEF o
  <2>2. ASSUME NEW u PROVE u \in Units(o) <=> u \in {i} \X (1 .. h[i])
    <3>1. ASSUME u \in Units(o) PROVE u \in {i} \X (1 .. h[i])
      <4>1. PICK n \in 1 .. N, k \in Nat : k \in 1 .. o[n] /\ u = <<n, k>>
        BY <2>1, <3>1, UnitsAre
      <4>2. n = i
        BY <2>1, <4>1
      <4> QED BY <2>1, <4>1, <4>2
    <3>2. ASSUME u \in {i} \X (1 .. h[i]) PROVE u \in Units(o)
      <4>1. PICK k \in 1 .. h[i] : u = <<i, k>>
        BY <3>2
      <4>2. k \in Nat /\ k \in 1 .. o[i] /\ i \in DOMAIN o
        BY <2>1, <4>1
      <4> QED BY <4>1, <4>2, UnitsAre
    <3> QED BY <3>1, <3>2
  <2>3. Units(o) = {i} \X (1 .. h[i])
    BY <2>2
  <2>4. i \in Nat /\ h[i] \in Nat
    OBVIOUS
  <2>5. Cardinality({i} \X (1 .. h[i])) = h[i]
    BY <2>4, UnitsOfOne
  <2>6. Sum(o) = Cardinality(Units(o))
    BY <2>1, SumIsCount
  <2>7. Sum(o) = h[i]
    BY <2>3, <2>5, <2>6, Zenon
  <2> QED BY <2>1, <2>7 DEF o
<1>2. ASSUME NEW h \in [1 .. N -> Nat], \A n \in 1 .. N : n # i => h[n] = f[n]
      PROVE  Sum(h) = Sum(rest) + h[i]
  <2> DEFINE o == only(h)
  <2>1. o \in [1 .. N -> Nat] /\ Sum(o) = h[i]
    BY <1>1
  <2>2. \A n \in 1 .. N : rest[n] + o[n] = h[n]
    BY <1>2
  <2> HIDE DEF o, rest
  <2>3. [n \in 1 .. N |-> rest[n] + o[n]] = h
    BY <2>2
  <2>4. Sum([n \in 1 .. N |-> rest[n] + o[n]]) = Sum(rest) + Sum(o)
    BY <1>0, <2>1, SumAdds
  <2>5. Sum(h) = Sum(rest) + Sum(o)
    BY <2>3, <2>4, Zenon
  <2> QED BY <2>1, <2>5
<1> HIDE DEF rest, only
<1>3. Sum(f) = Sum(rest) + f[i]
  BY <1>2
<1>4. Sum(g) = Sum(rest) + g[i]
  BY <1>2
<1>5. Sum(rest) \in Nat /\ f[i] \in Nat /\ g[i] \in Nat
  BY <1>0, SumIsCount
<1> QED BY <1>3, <1>4, <1>5
-----------------------------------------------------------------------------
(* The issues of a subtitle and of the gap after it. *)
OwnErrors(s, p) ==
    Cardinality(LongLines(s, p))
        + One(~Timed(s))
        + One(Timed(s) /\ FasterThan(s, p.maxCps + p.margin))
        + One(Len(s.text) > MaxLines)
OwnWarnings(s, p) ==
    One(Timed(s) /\ FasterThan(s, p.maxCps) /\ ~FasterThan(s, p.maxCps + p.margin))
        + One(Timed(s) /\ s.end - s.start < p.minDuration)
        + One(s.end - s.start > p.maxDuration)
GapErrors(segments, i) == One(i > 1 /\ Gap(segments, i) < 0)
GapWarnings(segments, i, p) == One(i > 1 /\ Gap(segments, i) \in 0 .. p.minGap - 1)
NextErrors(segments, i) == IF i < Len(segments) THEN GapErrors(segments, i + 1) ELSE 0
NextWarnings(segments, i, p) == IF i < Len(segments) THEN GapWarnings(segments, i + 1, p) ELSE 0
ErrorShare(segments, i, p) == OwnErrors(segments[i], p) + NextErrors(segments, i)
WarningShare(segments, i, p) == OwnWarnings(segments[i], p) + NextWarnings(segments, i, p)

(* An issue counts for a natural number. *)
LEMMA OneIsNat == ASSUME NEW c PROVE One(c) \in Nat
BY DEF One

(* There is a number of lines that are too long. *)
LEMMA LongLinesAreCounted ==
    ASSUME NEW text \in Seq(Lines), NEW max PROVE Cardinality(Long(text, max)) \in Nat
<1>1. Len(text) \in Nat /\ DOMAIN text = 1 .. Len(text)
  BY LenProperties
<1>2. IsFiniteSet(1 .. Len(text)) /\ Long(text, max) \in SUBSET (1 .. Len(text))
  <2>1. IsFiniteSet(1 .. Len(text))
    BY <1>1, FS_Interval
  <2> QED BY <1>1, <2>1 DEF Long
<1> QED BY <1>2, FS_Subset, FS_CardinalityType

(* The issues of one subtitle are as many as a natural number. *)
LEMMA OwnIsNat ==
    ASSUME NEW s \in Subtitles, NEW p \in Limits
    PROVE  OwnErrors(s, p) \in Nat /\ OwnWarnings(s, p) \in Nat
<1>1. s.text \in Seq(Lines)
  BY DEF Subtitles, Lines
<1>2. LongLines(s, p) = Long(s.text, p.maxChars)
  BY DEF Long, LongLines
<1>3. Cardinality(Long(s.text, p.maxChars)) \in Nat
  BY <1>1, LongLinesAreCounted
<1>4. Cardinality(LongLines(s, p)) \in Nat
  BY <1>2, <1>3, Zenon
<1>5. \A n, a, b, c \in Nat : n + a + b + c \in Nat /\ a + b + c \in Nat
  OBVIOUS
<1> QED BY <1>4, <1>5, OneIsNat DEF OwnErrors, OwnWarnings

(* A share is a natural number. *)
LEMMA SharesAreNat ==
    ASSUME NEW segments \in Seq(Subtitles), NEW p \in Limits, NEW i \in 1 .. Len(segments)
    PROVE  ErrorShare(segments, i, p) \in Nat /\ WarningShare(segments, i, p) \in Nat
<1>1. segments[i] \in Subtitles
  OBVIOUS
<1>2. NextErrors(segments, i) \in Nat /\ NextWarnings(segments, i, p) \in Nat
  BY OneIsNat DEF NextErrors, NextWarnings, GapErrors, GapWarnings
<1> QED BY <1>1, <1>2, OwnIsNat DEF ErrorShare, WarningShare

(* checkQuality (quality/verifier.ts) counts what the shares add up to. *)
LEMMA QualityIsShared ==
    ASSUME NEW segments \in Seq(Subtitles), NEW p \in Limits
    PROVE  /\ CheckQuality(segments, p).errors = Sum([i \in 1 .. Len(segments) |-> ErrorShare(segments, i, p)])
           /\ CheckQuality(segments, p).warnings = Sum([i \in 1 .. Len(segments) |-> WarningShare(segments, i, p)])
<1> DEFINE N == Len(segments)
           ownE == [i \in 1 .. N |-> OwnErrors(segments[i], p)]
           ownW == [i \in 1 .. N |-> OwnWarnings(segments[i], p)]
           gapE == [i \in 1 .. N |-> GapErrors(segments, i)]
           gapW == [i \in 1 .. N |-> GapWarnings(segments, i, p)]
           nextE == [i \in 1 .. N |-> NextErrors(segments, i)]
           nextW == [i \in 1 .. N |-> NextWarnings(segments, i, p)]
<1>1. N \in Nat /\ DOMAIN segments = 1 .. N /\ \A i \in 1 .. N : segments[i] \in Subtitles
  BY LenProperties
<1>2. ownE \in [1 .. N -> Nat] /\ ownW \in [1 .. N -> Nat]
  BY <1>1, OwnIsNat
<1>3. gapE \in [1 .. N -> Nat] /\ gapW \in [1 .. N -> Nat]
  BY OneIsNat DEF GapErrors, GapWarnings
<1>4. nextE \in [1 .. N -> Nat] /\ nextW \in [1 .. N -> Nat]
  BY OneIsNat DEF NextErrors, NextWarnings, GapErrors, GapWarnings
<1>5. N > 0 => gapE[1] = 0 /\ gapW[1] = 0 /\ nextE[N] = 0 /\ nextW[N] = 0
  BY <1>1 DEF GapErrors, GapWarnings, NextErrors, NextWarnings, One
<1>6. \A i \in 1 .. N - 1 : gapE[i + 1] = nextE[i] /\ gapW[i + 1] = nextW[i]
  BY <1>1 DEF NextErrors, NextWarnings
<1>7. /\ CheckQuality(segments, p).errors = Sum([i \in 1 .. N |-> ownE[i] + gapE[i]])
      /\ CheckQuality(segments, p).warnings = Sum([i \in 1 .. N |-> ownW[i] + gapW[i]])
  <2>1. ASSUME NEW i \in 1 .. N PROVE ErrorsOf(segments, i, p) = ownE[i] + gapE[i]
    BY DEF ErrorsOf, OwnErrors, GapErrors
  <2>2. ASSUME NEW i \in 1 .. N PROVE WarningsOf(segments, i, p) = ownW[i] + gapW[i]
    BY DEF WarningsOf, OwnWarnings, GapWarnings
  <2>3. /\ CheckQuality(segments, p).errors = Sum([i \in 1 .. N |-> ErrorsOf(segments, i, p)])
        /\ CheckQuality(segments, p).warnings = Sum([i \in 1 .. N |-> WarningsOf(segments, i, p)])
    BY <1>1 DEF CheckQuality
  <2> HIDE DEF ownE, ownW, gapE, gapW, N
  <2>4. [i \in 1 .. N |-> ErrorsOf(segments, i, p)] = [i \in 1 .. N |-> ownE[i] + gapE[i]]
    BY <2>1
  <2>5. [i \in 1 .. N |-> WarningsOf(segments, i, p)] = [i \in 1 .. N |-> ownW[i] + gapW[i]]
    BY <2>2
  <2> QED BY <2>3, <2>4, <2>5
<1>8. ASSUME NEW i \in 1 .. N
      PROVE  ErrorShare(segments, i, p) = ownE[i] + nextE[i] /\ WarningShare(segments, i, p) = ownW[i] + nextW[i]
  BY DEF ErrorShare, WarningShare
<1> HIDE DEF ownE, ownW, gapE, gapW, nextE, nextW, N
<1>9. Sum(gapE) = Sum(nextE) /\ Sum(gapW) = Sum(nextW)
  BY <1>1, <1>3, <1>4, <1>5, <1>6, SumShifts
<1>10. Sum([i \in 1 .. N |-> ownE[i] + gapE[i]]) = Sum([i \in 1 .. N |-> ownE[i] + nextE[i]])
  <2>1. Sum([i \in 1 .. N |-> ownE[i] + gapE[i]]) = Sum(ownE) + Sum(gapE)
    BY <1>1, <1>2, <1>3, SumAdds
  <2>2. Sum([i \in 1 .. N |-> ownE[i] + nextE[i]]) = Sum(ownE) + Sum(nextE)
    BY <1>1, <1>2, <1>4, SumAdds
  <2> QED BY <1>9, <2>1, <2>2, Zenon
<1>11. Sum([i \in 1 .. N |-> ownW[i] + gapW[i]]) = Sum([i \in 1 .. N |-> ownW[i] + nextW[i]])
  <2>1. Sum([i \in 1 .. N |-> ownW[i] + gapW[i]]) = Sum(ownW) + Sum(gapW)
    BY <1>1, <1>2, <1>3, SumAdds
  <2>2. Sum([i \in 1 .. N |-> ownW[i] + nextW[i]]) = Sum(ownW) + Sum(nextW)
    BY <1>1, <1>2, <1>4, SumAdds
  <2> QED BY <1>9, <2>1, <2>2, Zenon
<1>12. /\ [i \in 1 .. N |-> ErrorShare(segments, i, p)] = [i \in 1 .. N |-> ownE[i] + nextE[i]]
       /\ [i \in 1 .. N |-> WarningShare(segments, i, p)] = [i \in 1 .. N |-> ownW[i] + nextW[i]]
  BY <1>8
<1>13. /\ CheckQuality(segments, p).errors = Sum([i \in 1 .. N |-> ErrorShare(segments, i, p)])
       /\ CheckQuality(segments, p).warnings = Sum([i \in 1 .. N |-> WarningShare(segments, i, p)])
  BY <1>7, <1>10, <1>11, <1>12, Zenon
<1> QED BY <1>13 DEF N

-----------------------------------------------------------------------------
(* A change of one subtitle is a change of one share. *)
(* The share of a subtitle depends on it and on the start of the next one. *)
LEMMA SharesAreLocal ==
    ASSUME NEW a \in Seq(Subtitles), NEW b \in Seq(Subtitles), NEW p \in Limits,
           NEW i \in 1 .. Len(a), NEW j \in 1 .. Len(b),
           a[i] = b[j], i < Len(a) <=> j < Len(b),
           i < Len(a) => a[i + 1].start = b[j + 1].start
    PROVE  ErrorShare(a, i, p) = ErrorShare(b, j, p) /\ WarningShare(a, i, p) = WarningShare(b, j, p)
<1>1. i \in Nat /\ j \in Nat /\ i + 1 > 1 /\ j + 1 > 1 /\ (i + 1) - 1 = i /\ (j + 1) - 1 = j
  OBVIOUS
<1>2. i < Len(a) => Gap(a, i + 1) = Gap(b, j + 1)
  BY <1>1 DEF Gap
<1>3. NextErrors(a, i) = NextErrors(b, j)
  BY <1>1, <1>2 DEF NextErrors, GapErrors
<1>4. NextWarnings(a, i, p) = NextWarnings(b, j, p)
  BY <1>1, <1>2 DEF NextWarnings, GapWarnings
<1> QED BY <1>3, <1>4, Zenon DEF ErrorShare, WarningShare

(* And both counts are natural numbers. *)
LEMMA QualityIsNat ==
    ASSUME NEW segments \in Seq(Subtitles), NEW p \in Limits
    PROVE  CheckQuality(segments, p).errors \in Nat /\ CheckQuality(segments, p).warnings \in Nat
<1> DEFINE errors == [i \in 1 .. Len(segments) |-> ErrorShare(segments, i, p)]
           warnings == [i \in 1 .. Len(segments) |-> WarningShare(segments, i, p)]
<1>1. Len(segments) \in Nat
  OBVIOUS
<1>2. errors \in [1 .. Len(segments) -> Nat] /\ warnings \in [1 .. Len(segments) -> Nat]
  BY SharesAreNat
<1>3. CheckQuality(segments, p).errors = Sum(errors) /\ CheckQuality(segments, p).warnings = Sum(warnings)
  BY QualityIsShared
<1> HIDE DEF errors, warnings
<1>4. Sum(errors) \in Nat /\ Sum(warnings) \in Nat
  BY <1>1, <1>2, SumIsCount
<1> QED BY <1>3, <1>4, Zenon

(* What is counted changes by as much as the share of one subtitle. *)
Counted(after, before, i, p) ==
    /\ CheckQuality(after, p).errors - CheckQuality(before, p).errors
            = ErrorShare(after, i, p) - ErrorShare(before, i, p)
    /\ CheckQuality(after, p).warnings - CheckQuality(before, p).warnings
            = WarningShare(after, i, p) - WarningShare(before, i, p)

(* Another subtitle with the same start in the place of one: what only its share changes. *)
LEMMA OneChanges ==
    ASSUME NEW segments \in Seq(Subtitles), NEW p \in Limits, NEW i \in 1 .. Len(segments),
           NEW c \in Subtitles, c.start = segments[i].start,
           NEW changed, changed = [segments EXCEPT ![i] = c]
    PROVE  /\ changed \in Seq(Subtitles) /\ Len(changed) = Len(segments)
           /\ \A j \in 1 .. Len(segments) : j # i =>
                /\ ErrorShare(changed, j, p) = ErrorShare(segments, j, p)
                /\ WarningShare(changed, j, p) = WarningShare(segments, j, p)
           /\ Counted(changed, segments, i, p)
<1> DEFINE N == Len(segments)
<1>1. N \in Nat /\ DOMAIN segments = 1 .. N /\ \A j \in 1 .. N : segments[j] \in Subtitles
  BY LenProperties
<1>2. /\ changed \in Seq(Subtitles) /\ Len(changed) = N
      /\ \A j \in 1 .. N : changed[j] = IF j = i THEN c ELSE segments[j]
  BY ExceptSeq
<1>3. ASSUME NEW j \in 1 .. N, j # i
      PROVE  /\ ErrorShare(changed, j, p) = ErrorShare(segments, j, p)
             /\ WarningShare(changed, j, p) = WarningShare(segments, j, p)
  <2>1. j \in 1 .. Len(changed) /\ j \in 1 .. Len(segments)
    BY <1>2
  <2>2. changed[j] = segments[j]
    BY <1>2, <1>3
  <2>3. j < Len(changed) <=> j < Len(segments)
    BY <1>2
  <2>4. j < Len(changed) => changed[j + 1].start = segments[j + 1].start
    <3>1. j < N => j + 1 \in 1 .. N
      BY <1>1
    <3>2. CASE j + 1 = i
      BY <1>2, <3>1, <3>2
    <3>3. CASE j + 1 # i
      BY <1>2, <3>1, <3>3
    <3> QED BY <3>2, <3>3
  <2>5. changed \in Seq(Subtitles)
    BY <1>2
  <2> QED BY <2>1, <2>2, <2>3, <2>4, <2>5, SharesAreLocal, ZenonT(30)
<1> DEFINE errors(s) == [j \in 1 .. N |-> ErrorShare(s, j, p)]
           warnings(s) == [j \in 1 .. N |-> WarningShare(s, j, p)]
<1>4. ASSUME NEW s \in Seq(Subtitles), Len(s) = N
      PROVE  /\ errors(s) \in [1 .. N -> Nat] /\ warnings(s) \in [1 .. N -> Nat]
             /\ CheckQuality(s, p).errors = Sum(errors(s)) /\ CheckQuality(s, p).warnings = Sum(warnings(s))
  <2>1. errors(s) \in [1 .. N -> Nat] /\ warnings(s) \in [1 .. N -> Nat]
    BY <1>4, SharesAreNat
  <2> QED BY <1>4, <2>1, QualityIsShared
<1>5. \A s : \A j \in 1 .. N : errors(s)[j] = ErrorShare(s, j, p) /\ warnings(s)[j] = WarningShare(s, j, p)
  OBVIOUS
<1> HIDE DEF errors, warnings
<1>6. Sum(errors(changed)) - Sum(errors(segments)) = ErrorShare(changed, i, p) - ErrorShare(segments, i, p)
  <2> DEFINE f == errors(changed)
             g == errors(segments)
  <2>1. f \in [1 .. N -> Nat] /\ g \in [1 .. N -> Nat]
    BY <1>2, <1>4
  <2>2. \A n \in 1 .. N : n # i => f[n] = g[n]
    BY <1>3, <1>5
  <2>3. f[i] = ErrorShare(changed, i, p) /\ g[i] = ErrorShare(segments, i, p)
    BY <1>5
  <2> HIDE DEF f, g
  <2>4. Sum(f) - Sum(g) = f[i] - g[i]
    BY <1>1, <2>1, <2>2, SumOfAChange
  <2>5. Sum(f) - Sum(g) = ErrorShare(changed, i, p) - ErrorShare(segments, i, p)
    BY <2>3, <2>4, Zenon
  <2> QED BY <2>5 DEF f, g
<1>7. Sum(warnings(changed)) - Sum(warnings(segments)) = WarningShare(changed, i, p) - WarningShare(segments, i, p)
  <2> DEFINE f == warnings(changed)
             g == warnings(segments)
  <2>1. f \in [1 .. N -> Nat] /\ g \in [1 .. N -> Nat]
    BY <1>2, <1>4
  <2>2. \A n \in 1 .. N : n # i => f[n] = g[n]
    BY <1>3, <1>5
  <2>3. f[i] = WarningShare(changed, i, p) /\ g[i] = WarningShare(segments, i, p)
    BY <1>5
  <2> HIDE DEF f, g
  <2>4. Sum(f) - Sum(g) = f[i] - g[i]
    BY <1>1, <2>1, <2>2, SumOfAChange
  <2>5. Sum(f) - Sum(g) = WarningShare(changed, i, p) - WarningShare(segments, i, p)
    BY <2>3, <2>4, Zenon
  <2> QED BY <2>5 DEF f, g
<1>8. /\ CheckQuality(changed, p).errors = Sum(errors(changed))
      /\ CheckQuality(changed, p).warnings = Sum(warnings(changed))
      /\ CheckQuality(segments, p).errors = Sum(errors(segments))
      /\ CheckQuality(segments, p).warnings = Sum(warnings(segments))
  BY <1>2, <1>4
<1>9. Counted(changed, segments, i, p)
  BY <1>6, <1>7, <1>8, Zenon DEF Counted
<1> QED BY <1>2, <1>3, <1>9

(* Measuring the neighbours is enough. *)
LEMMA WindowChanges ==
    ASSUME NEW segments \in Seq(Subtitles), NEW p \in Limits, NEW i \in 1 .. Len(segments),
           NEW c \in Subtitles, c.start = segments[i].start,
           NEW changed, changed = [segments EXCEPT ![i] = c]
    PROVE  /\ WindowCost(segments, i, p).errors \in Nat /\ WindowCost(segments, i, p).warnings \in Nat
           /\ WindowCost(changed, i, p).errors \in Nat /\ WindowCost(changed, i, p).warnings \in Nat
           /\ WindowCost(changed, i, p).errors - WindowCost(segments, i, p).errors
                = ErrorShare(changed, i, p) - ErrorShare(segments, i, p)
           /\ WindowCost(changed, i, p).warnings - WindowCost(segments, i, p).warnings
                = WarningShare(changed, i, p) - WarningShare(segments, i, p)
<1> DEFINE N == Len(segments)
           lo == Most({1, i - 1})
           hi == Least({N, i + 1})
           w == SubSeq(segments, lo, hi)
           v == SubSeq(changed, lo, hi)
           k == i - lo + 1
<1>1. N \in Nat /\ i \in Nat /\ \A j \in 1 .. N : segments[j] \in Subtitles
  BY LenProperties
<1>2. lo = IF i = 1 THEN 1 ELSE i - 1
  <2>1. lo \in {1, i - 1} /\ \A y \in {1, i - 1} : y <= lo
    <3> DEFINE S == {1, i - 1}
    <3>1. S \in SUBSET Nat /\ S # {} /\ S \in SUBSET (0 .. N)
      BY <1>1
    <3> HIDE DEF S
    <3>2. Most(S) \in S /\ \A y \in S : y <= Most(S)
      BY <3>1, <1>1, MostIsThere
    <3> QED BY <3>2 DEF S
  <2> HIDE DEF lo
  <2> QED BY <1>1, <2>1
<1>3. hi = IF i = N THEN N ELSE i + 1
  <2>1. hi \in {N, i + 1} /\ \A y \in {N, i + 1} : hi <= y
    <3> DEFINE S == {N, i + 1}
    <3>1. S \in SUBSET Nat /\ S # {}
      BY <1>1
    <3> HIDE DEF S
    <3>2. Least(S) \in S /\ \A y \in S : Least(S) <= y
      BY <3>1, LeastIsThere
    <3> QED BY <3>2 DEF S
  <2> HIDE DEF hi
  <2> QED BY <1>1, <2>1
<1>4. /\ changed \in Seq(Subtitles) /\ Len(changed) = N
      /\ \A j \in 1 .. N : changed[j] = IF j = i THEN c ELSE segments[j]
  BY ExceptSeq
<1>5. WindowCost(segments, i, p) = CheckQuality(w, p) /\ WindowCost(changed, i, p) = CheckQuality(v, p)
  BY <1>4 DEF WindowCost
<1> HIDE DEF lo, hi, N
<1>6. lo \in 1 .. N /\ hi \in 1 .. N /\ lo <= i /\ i <= hi /\ lo \in Int /\ hi \in Int
  BY <1>1, <1>2, <1>3 DEF N
<1>7. /\ w \in Seq(Subtitles) /\ Len(w) = hi - lo + 1
      /\ \A n \in 1 .. hi - lo + 1 : w[n] = segments[lo + n - 1]
  <2>1. \A n \in lo .. hi : segments[n] \in Subtitles
    BY <1>1, <1>6
  <2> QED BY <1>6, <2>1, SubSeqProperties
<1>8. /\ v \in Seq(Subtitles) /\ Len(v) = hi - lo + 1
      /\ \A n \in 1 .. hi - lo + 1 : v[n] = changed[lo + n - 1]
  <2>1. \A n \in lo .. hi : changed[n] \in Subtitles
    BY <1>1, <1>4, <1>6
  <2> QED BY <1>4, <1>6, <2>1, SubSeqProperties
<1> HIDE DEF w, v
<1>9. k \in 1 .. hi - lo + 1 /\ lo + k - 1 = i
  BY <1>1, <1>6
<1>10. w[k] = segments[i] /\ v[k] = c
  <2>1. changed[i] = c
    BY <1>4, <1>1 DEF N
  <2> QED BY <1>7, <1>8, <1>9, <2>1
<1>11. k < Len(w) <=> i < N
  BY <1>1, <1>3, <1>6, <1>7
<1>12. i < N => k + 1 \in 1 .. hi - lo + 1 /\ lo + (k + 1) - 1 = i + 1 /\ i + 1 \in 1 .. N
  BY <1>1, <1>2, <1>3
<1>13. i < N => w[k + 1] = segments[i + 1] /\ v[k + 1] = changed[i + 1]
  BY <1>7, <1>8, <1>12
<1> HIDE DEF k
<1>14. v = [w EXCEPT ![k] = c]
  <2>1. \A n \in 1 .. Len(w) : v[n] = IF n = k THEN c ELSE w[n]
    <3> TAKE n \in 1 .. Len(w)
    <3>1. CASE n = k
      BY <1>10, <3>1
    <3>2. CASE n # k
      <4>1. lo + n - 1 \in 1 .. N /\ lo + n - 1 # i
        BY <1>1, <1>6, <1>7, <1>9, <3>2
      <4>2. changed[lo + n - 1] = segments[lo + n - 1]
        BY <1>4, <4>1
      <4>3. n \in 1 .. hi - lo + 1
        BY <1>7
      <4> QED BY <1>7, <1>8, <3>2, <4>2, <4>3
    <3> QED BY <3>1, <3>2
  <2>2. Len(v) = Len(w) /\ DOMAIN w = 1 .. Len(w) /\ DOMAIN v = 1 .. Len(v)
    BY <1>7, <1>8, LenProperties
  <2>3. v = [n \in 1 .. Len(v) |-> v[n]]
    BY <1>8, <2>2
  <2> QED BY <2>1, <2>2, <2>3
<1>15. k \in 1 .. Len(w) /\ k \in 1 .. Len(v) /\ Len(v) = Len(w)
  BY <1>7, <1>8, <1>9
<1>16. c.start = w[k].start
  BY <1>10
<1>17. Counted(v, w, k, p)
  <2>1. w \in Seq(Subtitles)
    BY <1>7
  <2>2. k \in 1 .. Len(w)
    BY <1>15
  <2> QED BY <1>14, <1>16, <2>1, <2>2, OneChanges
<1>18. ErrorShare(w, k, p) = ErrorShare(segments, i, p) /\ WarningShare(w, k, p) = WarningShare(segments, i, p)
  <2>1. k < Len(w) => w[k + 1].start = segments[i + 1].start
    BY <1>11, <1>13
  <2> QED BY <1>7, <1>10, <1>11, <1>15, <2>1, SharesAreLocal DEF N
<1>19. ErrorShare(v, k, p) = ErrorShare(changed, i, p) /\ WarningShare(v, k, p) = WarningShare(changed, i, p)
  <2>1. k < Len(v) => v[k + 1].start = changed[i + 1].start
    BY <1>11, <1>13, <1>15
  <2>2. k < Len(v) <=> i < Len(changed)
    BY <1>4, <1>11, <1>15
  <2>3. v[k] = changed[i] /\ i \in 1 .. Len(changed)
    BY <1>4, <1>10 DEF N
  <2>4. v \in Seq(Subtitles) /\ changed \in Seq(Subtitles) /\ k \in 1 .. Len(v)
    BY <1>4, <1>8, <1>15
  <2>5. v[k] = changed[i]
    BY <2>3
  <2>6. i \in 1 .. Len(changed)
    BY <2>3
  <2>7. k < Len(v) => v[k + 1].start = changed[i + 1].start
    BY <2>1
  <2>8. \A b \in Seq(Subtitles) : \A j \in 1 .. Len(b) :
            v[k] = b[j] /\ (k < Len(v) <=> j < Len(b)) /\ (k < Len(v) => v[k + 1].start = b[j + 1].start)
            => ErrorShare(v, k, p) = ErrorShare(b, j, p) /\ WarningShare(v, k, p) = WarningShare(b, j, p)
    BY <2>4, SharesAreLocal, ZenonT(30)
  <2> QED BY <2>2, <2>4, <2>5, <2>6, <2>7, <2>8, ZenonT(30)
<1>20. /\ CheckQuality(v, p).errors \in Nat /\ CheckQuality(v, p).warnings \in Nat
       /\ CheckQuality(w, p).errors \in Nat /\ CheckQuality(w, p).warnings \in Nat
  BY <1>7, <1>8, QualityIsNat
<1> QED BY <1>5, <1>17, <1>18, <1>19, <1>20, Zenon DEF Counted

-----------------------------------------------------------------------------
(* A change is tried: it is kept if the neighbours together improve. *)
(* No subtitle's share is worse. *)
Better(after, before, p) ==
    \A i \in 1 .. Len(before) :
        /\ ErrorShare(after, i, p) <= ErrorShare(before, i, p)
        /\ ErrorShare(after, i, p) + WarningShare(after, i, p) <= ErrorShare(before, i, p) + WarningShare(before, i, p)

(* What is kept of the subtitles that are being repaired. *)
Repaired(segments, work, p) ==
    /\ work \in Seq(Subtitles) /\ Len(work) = Len(segments)
    /\ \A i \in 1 .. Len(segments) :
          /\ work[i].start = segments[i].start
          /\ work[i].text = segments[i].text \/ Laid(work[i].text, FlattenSeq(segments[i].text))
          /\ work[i].text # segments[i].text \/ work[i].end # segments[i].end => Timed(work[i])
    /\ Better(work, segments, p)

(* tryReplace (quality/fixer.ts) keeps a change only when no share is worse for it. *)
LEMMA TryHelps ==
    ASSUME NEW work \in Seq(Subtitles), NEW p \in Limits, NEW i \in 1 .. Len(work),
           NEW c \in Subtitles, c.start = work[i].start, Try(work, i, c, p) # work
    PROVE  /\ Try(work, i, c, p) = [work EXCEPT ![i] = c]
           /\ Better(Try(work, i, c, p), work, p)
<1> DEFINE changed == [work EXCEPT ![i] = c]
           before == WindowCost(work, i, p)
           after == WindowCost(changed, i, p)
<1>1. Try(work, i, c, p) = changed /\ Improves(before, after)
  <2>1. Try(work, i, c, p) = IF Improves(before, after) THEN changed ELSE work
    BY Zenon DEF Try
  <2> QED BY <2>1, Zenon
<1>2. /\ before.errors \in Nat /\ before.warnings \in Nat /\ after.errors \in Nat /\ after.warnings \in Nat
      /\ after.errors - before.errors = ErrorShare(changed, i, p) - ErrorShare(work, i, p)
      /\ after.warnings - before.warnings = WarningShare(changed, i, p) - WarningShare(work, i, p)
  BY WindowChanges
<1>3. /\ changed \in Seq(Subtitles) /\ Len(changed) = Len(work)
      /\ \A j \in 1 .. Len(work) : j # i =>
            ErrorShare(changed, j, p) = ErrorShare(work, j, p) /\ WarningShare(changed, j, p) = WarningShare(work, j, p)
  BY OneChanges
<1> HIDE DEF changed, before, after
<1>4. ASSUME NEW j \in 1 .. Len(work)
      PROVE  /\ ErrorShare(work, j, p) \in Nat /\ WarningShare(work, j, p) \in Nat
             /\ ErrorShare(changed, j, p) \in Nat /\ WarningShare(changed, j, p) \in Nat
  <2>1. j \in 1 .. Len(changed)
    BY <1>3
  <2> QED BY <1>3, <2>1, SharesAreNat
<1>5. ASSUME NEW j \in 1 .. Len(work)
      PROVE  /\ ErrorShare(changed, j, p) <= ErrorShare(work, j, p)
             /\ ErrorShare(changed, j, p) + WarningShare(changed, j, p) <= ErrorShare(work, j, p) + WarningShare(work, j, p)
  <2>1. CASE j = i
    <3>1. after.errors <= before.errors /\ after.errors + after.warnings <= before.errors + before.warnings
      BY <1>1, Zenon DEF Improves
    <3>2. /\ ErrorShare(work, i, p) \in Nat /\ WarningShare(work, i, p) \in Nat
          /\ ErrorShare(changed, i, p) \in Nat /\ WarningShare(changed, i, p) \in Nat
      BY <1>4
    <3>3. /\ ErrorShare(changed, i, p) <= ErrorShare(work, i, p)
          /\ ErrorShare(changed, i, p) + WarningShare(changed, i, p)
                <= ErrorShare(work, i, p) + WarningShare(work, i, p)
      <4> DEFINE a == after.errors  b == before.errors  c1 == after.warnings  d == before.warnings
                 e == ErrorShare(changed, i, p)  f == ErrorShare(work, i, p)
                 g == WarningShare(changed, i, p)  h == WarningShare(work, i, p)
      <4>1. a \in Nat /\ b \in Nat /\ c1 \in Nat /\ d \in Nat /\ a - b = e - f /\ c1 - d = g - h
        BY <1>2
      <4>2. e \in Nat /\ f \in Nat /\ g \in Nat /\ h \in Nat
        BY <3>2
      <4>3. a <= b /\ a + c1 <= b + d
        BY <3>1
      <4> HIDE DEF a, b, c1, d, e, f, g, h
      <4>4. e <= f /\ e + g <= f + h
        BY <4>1, <4>2, <4>3
      <4> QED BY <4>4 DEF e, f, g, h
    <3> QED BY <2>1, <3>3
  <2>2. CASE j # i
    BY <1>3, <1>4, <2>2
  <2> QED BY <2>1, <2>2
<1>6. Better(changed, work, p)
  BY <1>5 DEF Better
<1> QED BY <1>1, <1>6 DEF changed

(* One change more. *)
LEMMA TryKeeps ==
    ASSUME NEW segments \in Seq(Subtitles), NEW p \in Limits, NEW work, Repaired(segments, work, p),
           NEW i \in 1 .. Len(segments), NEW c \in Subtitles, c.start = work[i].start, Timed(c),
           c.text = work[i].text \/ Laid(c.text, FlattenSeq(segments[i].text))
    PROVE  /\ Repaired(segments, Try(work, i, c, p), p)
           /\ \A j \in 1 .. Len(segments) : Timed(work[j]) => Timed(Try(work, i, c, p)[j])
<1> DEFINE next == Try(work, i, c, p)
<1>1. work \in Seq(Subtitles) /\ Len(work) = Len(segments) /\ i \in 1 .. Len(work) /\ Better(work, segments, p)
  BY DEF Repaired
<1>2. CASE next = work
  BY <1>2
<1>3. CASE next # work
  <2>1. next = [work EXCEPT ![i] = c] /\ Better(next, work, p)
    BY <1>1, <1>3, TryHelps
  <2> HIDE DEF next
  <2>2. /\ next \in Seq(Subtitles) /\ Len(next) = Len(segments)
        /\ \A j \in 1 .. Len(segments) : next[j] = IF j = i THEN c ELSE work[j]
    BY <1>1, <2>1, ExceptSeq
  <2>3. ASSUME NEW j \in 1 .. Len(segments)
        PROVE  /\ next[j].start = segments[j].start
               /\ next[j].text = segments[j].text \/ Laid(next[j].text, FlattenSeq(segments[j].text))
               /\ next[j].text # segments[j].text \/ next[j].end # segments[j].end => Timed(next[j])
               /\ Timed(work[j]) => Timed(next[j])
    <3>1. /\ work[j].start = segments[j].start
          /\ work[j].text = segments[j].text \/ Laid(work[j].text, FlattenSeq(segments[j].text))
          /\ work[j].text # segments[j].text \/ work[j].end # segments[j].end => Timed(work[j])
      BY DEF Repaired
    <3>2. CASE j = i
      <4>1. next[j] = c
        BY <2>2, <3>2
      <4> QED BY <3>1, <3>2, <4>1
    <3>3. CASE j # i
      <4>1. next[j] = work[j]
        BY <2>2, <3>3
      <4> QED BY <3>1, <4>1
    <3> QED BY <3>2, <3>3
  <2>4. Better(next, segments, p)
    <3>1. ASSUME NEW j \in 1 .. Len(segments)
          PROVE  /\ ErrorShare(segments, j, p) \in Nat /\ WarningShare(segments, j, p) \in Nat
                 /\ ErrorShare(work, j, p) \in Nat /\ WarningShare(work, j, p) \in Nat
                 /\ ErrorShare(next, j, p) \in Nat /\ WarningShare(next, j, p) \in Nat
      <4>1. j \in 1 .. Len(work) /\ j \in 1 .. Len(next)
        BY <1>1, <2>2
      <4> QED BY <1>1, <2>2, <4>1, SharesAreNat
    <3>2. ASSUME NEW j \in 1 .. Len(segments)
          PROVE  /\ ErrorShare(next, j, p) <= ErrorShare(segments, j, p)
                 /\ ErrorShare(next, j, p) + WarningShare(next, j, p)
                        <= ErrorShare(segments, j, p) + WarningShare(segments, j, p)
      <4>1. /\ ErrorShare(next, j, p) <= ErrorShare(work, j, p)
            /\ ErrorShare(next, j, p) + WarningShare(next, j, p) <= ErrorShare(work, j, p) + WarningShare(work, j, p)
        BY <1>1, <2>1 DEF Better
      <4>2. /\ ErrorShare(work, j, p) <= ErrorShare(segments, j, p)
            /\ ErrorShare(work, j, p) + WarningShare(work, j, p)
                    <= ErrorShare(segments, j, p) + WarningShare(segments, j, p)
        BY <1>1 DEF Better
      <4> DEFINE e1 == ErrorShare(next, j, p)  e2 == ErrorShare(work, j, p)  e3 == ErrorShare(segments, j, p)
                 w1 == WarningShare(next, j, p)  w2 == WarningShare(work, j, p)  w3 == WarningShare(segments, j, p)
      <4>3. e1 \in Nat /\ e2 \in Nat /\ e3 \in Nat /\ w1 \in Nat /\ w2 \in Nat /\ w3 \in Nat
        BY <3>1
      <4>4. e1 <= e2 /\ e2 <= e3 /\ e1 + w1 <= e2 + w2 /\ e2 + w2 <= e3 + w3
        BY <4>1, <4>2, Zenon
      <4> HIDE DEF e1, e2, e3, w1, w2, w3
      <4>5. e1 <= e3 /\ e1 + w1 <= e3 + w3
        BY <4>3, <4>4
      <4> QED BY <4>5, Zenon DEF e1, e3, w1, w3
    <3> QED BY <3>2 DEF Better
  <2>5. Repaired(segments, next, p)
    BY <2>2, <2>3, <2>4 DEF Repaired
  <2> QED BY <2>3, <2>5 DEF next
<1> QED BY <1>2, <1>3

-----------------------------------------------------------------------------
(* Step a of a repair (quality/fixer.ts). *)
LEMMA BreakLinesKeeps ==
    ASSUME NEW segments \in Seq(Subtitles), NEW p \in Limits, NEW work, Repaired(segments, work, p),
           NEW i \in 1 .. Len(segments), Timed(work[i])
    PROVE  Repaired(segments, BreakLines(work, i, p), p) /\ Timed(BreakLines(work, i, p)[i])
<1> DEFINE s == work[i]
           laidOut == Layouts(FlattenSeq(s.text), p)
           t == CHOOSE text \in laidOut : TRUE
           c == [s EXCEPT !.text = t]
<1>1. s \in Subtitles /\ segments[i] \in Subtitles
  BY LenProperties DEF Repaired
<1>2. s.text \in Seq(Lines) /\ segments[i].text \in Seq(Lines)
  BY <1>1 DEF Subtitles, Lines
<1>3. FlattenSeq(s.text) \in Lines /\ FlattenSeq(segments[i].text) \in Lines
  BY <1>2, FlatIsALine
<1>4. FlattenSeq(s.text) = FlattenSeq(segments[i].text)
  <2>1. s.text = segments[i].text \/ Laid(s.text, FlattenSeq(segments[i].text))
    BY DEF Repaired
  <2>2. 0 \in Nat
    OBVIOUS
  <2> QED BY <1>3, <2>1, <2>2, LaidKeeps
<1>5. CASE BreakLines(work, i, p) = work
  BY <1>5
<1>6. CASE BreakLines(work, i, p) = Try(work, i, c, p) /\ laidOut # {}
  <2>1. t \in laidOut
    BY <1>6
  <2> HIDE DEF t
  <2>2. Laid(t, FlattenSeq(s.text))
    BY <1>3, <2>1, LayoutsAre
  <2>3. t \in Seq(Lines)
    BY <1>3, <2>2, LaidKeeps, 0 \in Nat
  <2>4. c \in Subtitles /\ c.start = s.start /\ c.end = s.end /\ c.text = t
    BY <1>1, <2>3 DEF Subtitles, Lines
  <2>5. Timed(c)
    BY <2>4 DEF Timed
  <2>6. Laid(c.text, FlattenSeq(segments[i].text))
    BY <1>4, <2>2, <2>4
  <2> HIDE DEF c
  <2> QED BY <1>6, <2>4, <2>5, <2>6, TryKeeps
<1>7. BreakLines(work, i, p) = work \/ (BreakLines(work, i, p) = Try(work, i, c, p) /\ laidOut # {})
  BY DEF BreakLines
<1> QED BY <1>5, <1>6, <1>7

(* Step b. *)
LEMMA TrimPreviousKeeps ==
    ASSUME NEW segments \in Seq(Subtitles), NEW p \in Limits, NEW work, Repaired(segments, work, p),
           NEW i \in 1 .. Len(segments), Timed(work[i])
    PROVE  Repaired(segments, TrimPrevious(work, i, p), p) /\ Timed(TrimPrevious(work, i, p)[i])
<1> DEFINE newEnd == work[i].start - p.minGap
           s == work[i - 1]
           c == [s EXCEPT !.end = newEnd]
<1>1. CASE TrimPrevious(work, i, p) = work
  BY <1>1
<1>2. CASE i > 1 /\ newEnd > s.start + 1 /\ TrimPrevious(work, i, p) = Try(work, i - 1, c, p)
  <2>1. i - 1 \in 1 .. Len(segments)
    BY <1>2
  <2>2. s \in Subtitles /\ work[i] \in Subtitles
    BY <2>1, LenProperties DEF Repaired
  <2>3. newEnd \in Int /\ s.start \in Nat
    <3>1. work[i].start \in Nat /\ s.start \in Nat
      BY <2>2 DEF Subtitles
    <3>2. p.minGap \in Nat
      BY DEF Limits
    <3> QED BY <3>1, <3>2
  <2> HIDE DEF newEnd
  <2>4. newEnd \in Nat /\ s.start < newEnd
    BY <1>2, <2>3
  <2>5. c \in Subtitles /\ c.start = s.start /\ c.end = newEnd /\ c.text = s.text
    BY <2>2, <2>4 DEF Subtitles
  <2>6. Timed(c)
    BY <2>4, <2>5 DEF Timed
  <2> HIDE DEF c
  <2> QED BY <1>2, <2>1, <2>5, <2>6, TryKeeps
<1>3. TrimPrevious(work, i, p) = work
        \/ (i > 1 /\ newEnd > s.start + 1 /\ TrimPrevious(work, i, p) = Try(work, i - 1, c, p))
  BY DEF TrimPrevious
<1> QED BY <1>1, <1>2, <1>3

(* The least and the most of a few. *)
LEMMA OfAFew ==
    ASSUME NEW a \in Int, NEW b \in Int, NEW c \in Int
    PROVE  Least({a, b}) \in Int /\ Most({a, b}) \in Int /\ Least({a, b, c}) \in Int
<1>1. \E x \in {a, b} : \A y \in {a, b} : x <= y
  OBVIOUS
<1>2. \E x \in {a, b} : \A y \in {a, b} : y <= x
  OBVIOUS
<1>3. \E x \in {a, b, c} : \A y \in {a, b, c} : x <= y
  OBVIOUS
<1>4. Least({a, b}) \in {a, b}
  BY <1>1 DEF Least
<1>5. Most({a, b}) \in {a, b}
  BY <1>2 DEF Most
<1>6. Least({a, b, c}) \in {a, b, c}
  BY <1>3 DEF Least
<1> QED BY <1>4, <1>5, <1>6

(* Step c. *)
LEMMA StretchKeeps ==
    ASSUME NEW segments \in Seq(Subtitles), NEW p \in Limits, NEW work, Repaired(segments, work, p),
           NEW i \in 1 .. Len(segments), Timed(work[i])
    PROVE  Repaired(segments, Stretch(work, i, p), p) /\ Timed(Stretch(work, i, p)[i])
<1> DEFINE s == work[i]
           needed == Most({(1000 * Characters(s.text) + p.maxCps - 1) \div p.maxCps + 1, p.minDuration})
           room == IF i < Len(work) THEN {work[i + 1].start - p.minGap} ELSE {}
           target == Least({s.start + needed, s.start + p.maxDuration} \cup room)
           c == [s EXCEPT !.end = target]
<1>1. s \in Subtitles /\ work \in Seq(Subtitles) /\ Len(work) = Len(segments) /\ Len(segments) \in Nat
  BY LenProperties DEF Repaired
<1>2. s.text \in Seq(Lines) /\ s.start \in Nat /\ s.end \in Nat
  BY <1>1 DEF Subtitles, Lines
<1>3. p.maxCps \in Nat \ {0} /\ p.minDuration \in Nat /\ p.maxDuration \in Nat /\ p.minGap \in Nat
  BY DEF Limits
<1>4. needed \in Int
  <2> DEFINE x == 1000 * Characters(s.text) + p.maxCps - 1
  <2>1. x \in Int
    BY <1>2, <1>3, CharactersAreNat
  <2> HIDE DEF x
  <2>2. x \div p.maxCps \in Int
    BY <1>3, <2>1
  <2>3. (x \div p.maxCps) + 1 \in Int /\ p.minDuration \in Int
    BY <1>3, <2>2
  <2>4. Most({(x \div p.maxCps) + 1, p.minDuration}) \in Int
    BY <2>3, OfAFew
  <2> QED BY <2>4 DEF x
<1> HIDE DEF needed
<1>5. s.start + needed \in Int /\ s.start + p.maxDuration \in Int
  BY <1>2, <1>3, <1>4
<1>6. target \in Int
  <2>1. CASE i < Len(work)
    <3>1. work[i + 1] \in Subtitles
      BY <1>1, <2>1
    <3>2. work[i + 1].start - p.minGap \in Int
      <4>1. work[i + 1].start \in Nat
        BY <3>1 DEF Subtitles
      <4> QED BY <1>3, <4>1
    <3>3. target = Least({s.start + needed, s.start + p.maxDuration, work[i + 1].start - p.minGap})
      <4>1. {s.start + needed, s.start + p.maxDuration} \cup room
              = {s.start + needed, s.start + p.maxDuration, work[i + 1].start - p.minGap}
        BY <2>1
      <4> QED BY <4>1
    <3> QED BY <1>5, <3>2, <3>3, OfAFew
  <2>2. CASE ~(i < Len(work))
    <3>1. {s.start + needed, s.start + p.maxDuration} \cup room = {s.start + needed, s.start + p.maxDuration}
      BY <2>2
    <3> QED BY <1>5, <3>1, OfAFew
  <2> QED BY <2>1, <2>2
<1>7. Stretch(work, i, p) = IF target > s.end THEN Try(work, i, c, p) ELSE work
  BY DEF Stretch, needed
<1> HIDE DEF target
<1>8. CASE target > s.end
  <2>1. target \in Nat /\ s.start < target
    BY <1>2, <1>6, <1>8 DEF Timed
  <2>2. c \in Subtitles /\ c.start = s.start /\ c.end = target /\ c.text = s.text
    BY <1>1, <2>1 DEF Subtitles
  <2>3. Timed(c)
    BY <2>1, <2>2 DEF Timed
  <2>4. Stretch(work, i, p) = Try(work, i, c, p)
    BY <1>7, <1>8
  <2> HIDE DEF c
  <2> QED BY <2>2, <2>3, <2>4, TryKeeps
<1>9. CASE ~(target > s.end)
  BY <1>7, <1>9
<1> QED BY <1>8, <1>9

(* The three, one after the other. *)
LEMMA FixOneKeeps ==
    ASSUME NEW segments \in Seq(Subtitles), NEW p \in Limits, NEW work, Repaired(segments, work, p),
           NEW i \in 1 .. Len(segments)
    PROVE  Repaired(segments, FixOne(work, i, p), p)
<1>1. CASE Timed(work[i])
  <2> DEFINE a == BreakLines(work, i, p)
             b == TrimPrevious(a, i, p)
  <2>1. Repaired(segments, a, p) /\ Timed(a[i])
    BY <1>1, BreakLinesKeeps
  <2>2. FixOne(work, i, p) = Stretch(b, i, p)
    BY <1>1 DEF FixOne
  <2> HIDE DEF a
  <2>3. Repaired(segments, b, p) /\ Timed(b[i])
    BY <2>1, TrimPreviousKeeps
  <2> HIDE DEF b
  <2>4. Repaired(segments, Stretch(b, i, p), p)
    BY <2>3, StretchKeeps
  <2> QED BY <2>2, <2>4
<1>2. CASE ~Timed(work[i])
  BY <1>2 DEF FixOne
<1> QED BY <1>1, <1>2

-----------------------------------------------------------------------------
(* The whole repair, subtitle after subtitle. *)
(* After every subtitle the repair leaves no share worse, no start moved, every
   text as it was or the same words on one or two lines, and time for whatever
   changed (proposeFix of quality/fixer.ts). *)
THEOREM ProposeFixKeeps ==
    ASSUME NEW segments \in Seq(Subtitles), NEW p \in Limits
    PROVE  Repaired(segments, ProposeFix(segments, p), p)
<1> DEFINE N == Len(segments)
           Goes(m, f) == f = [n \in 0 .. m |-> IF n = 0 THEN segments ELSE FixOne(f[n - 1], n, p)]
           bad == {m \in 0 .. N : ~\E f : Goes(m, f)}
           least == Least(bad)
<1>0. N \in Nat
  BY LenProperties
<1>1. ASSUME bad # {} PROVE FALSE
  <2>1. bad \in SUBSET Nat
    <3> HIDE DEF Goes
    <3> QED BY <1>0
  <2>2. least \in bad /\ \A y \in bad : least <= y
    BY <1>1, <2>1, LeastIsThere
  <2>3. least \in 0 .. N /\ ~\E f : Goes(least, f)
    BY <2>2
  <2>4. CASE least = 0
    <3> DEFINE f == [n \in 0 .. 0 |-> segments]
    <3>1. Goes(0, f)
      OBVIOUS
    <3> QED BY <2>3, <2>4, <3>1
  <2>5. CASE least # 0
    <3> HIDE DEF least, bad
    <3>1. least - 1 \in 0 .. N /\ ~(least <= least - 1)
      BY <1>0, <2>3, <2>5
    <3>2. least - 1 \notin bad
      BY <2>2, <3>1
    <3>3. \E f : Goes(least - 1, f)
      BY <3>1, <3>2, Zenon DEF bad
    <3>4. PICK f : Goes(least - 1, f)
      BY <3>3
    <3> DEFINE g == [n \in 0 .. least |-> IF n = least THEN FixOne(f[n - 1], n, p) ELSE f[n]]
    <3>5. ASSUME NEW n \in 0 .. least PROVE g[n] = IF n = 0 THEN segments ELSE FixOne(g[n - 1], n, p)
      <4>1. CASE n = least
        <5>1. n # 0 /\ n - 1 \in 0 .. least /\ n - 1 # least
          BY <1>0, <2>3, <2>5, <4>1
        <5> QED BY <4>1, <5>1
      <4>2. CASE n # least
        <5>1. n \in 0 .. least - 1 /\ g[n] = f[n]
          BY <1>0, <2>3, <4>2
        <5>2. f[n] = IF n = 0 THEN segments ELSE FixOne(f[n - 1], n, p)
          BY <3>4, <5>1
        <5>3. n # 0 => n - 1 \in 0 .. least /\ n - 1 # least
          BY <1>0, <2>3, <5>1
        <5> QED BY <5>1, <5>2, <5>3
      <4> QED BY <4>1, <4>2
    <3>6. Goes(least, g)
      BY <3>5
    <3> QED BY <2>3, <3>6
  <2> QED BY <2>4, <2>5
<1>2. \E f : Goes(N, f)
  <2>1. N \in 0 .. N
    BY <1>0
  <2> QED BY <1>1, <2>1
<1> DEFINE F == CHOOSE f : Goes(N, f)
<1>3. Goes(N, F)
  BY <1>2, Zenon
<1>4. ProposeFix(segments, p) = F[N]
  BY DEF ProposeFix
<1>5. \A n \in 0 .. N : F[n] = IF n = 0 THEN segments ELSE FixOne(F[n - 1], n, p)
  BY <1>3
<1> HIDE DEF F, Goes
<1> DEFINE worse == {m \in 0 .. N : ~Repaired(segments, F[m], p)}
           first == Least(worse)
<1>6. ASSUME worse # {} PROVE FALSE
  <2>1. worse \in SUBSET Nat
    BY <1>0
  <2>2. first \in worse /\ \A y \in worse : first <= y
    BY <1>6, <2>1, LeastIsThere
  <2> HIDE DEF first
  <2>3. first \in 0 .. N /\ ~Repaired(segments, F[first], p)
    BY <2>2
  <2>4. CASE first = 0
    <3>1. F[0] = segments
      BY <1>0, <1>5
    <3>2. Better(segments, segments, p)
      <4>1. \A i \in 1 .. N : ErrorShare(segments, i, p) \in Nat /\ WarningShare(segments, i, p) \in Nat
        BY SharesAreNat
      <4> QED BY <4>1 DEF Better
    <3>3. Repaired(segments, segments, p)
      BY <3>2, Zenon DEF Repaired
    <3> QED BY <2>3, <2>4, <3>1, <3>3
  <2>5. CASE first # 0
    <3>1. first - 1 \in 0 .. N /\ first \in 1 .. Len(segments) /\ ~(first <= first - 1)
      BY <1>0, <2>3, <2>5
    <3>2. first - 1 \notin worse
      BY <2>2, <3>1
    <3>3. Repaired(segments, F[first - 1], p)
      BY <3>1, <3>2
    <3>4. F[first] = FixOne(F[first - 1], first, p)
      BY <1>5, <2>3, <2>5
    <3> HIDE DEF worse
    <3>5. Repaired(segments, FixOne(F[first - 1], first, p), p)
      BY <3>1, <3>3, FixOneKeeps
    <3> QED BY <2>3, <3>4, <3>5
  <2> QED BY <2>4, <2>5
<1>7. N \in 0 .. N
  BY <1>0
<1> QED BY <1>4, <1>6, <1>7

-----------------------------------------------------------------------------
(* If no share is worse, the whole is no worse. *)
LEMMA BetterIsNoWorse ==
    ASSUME NEW after \in Seq(Subtitles), NEW before \in Seq(Subtitles), NEW p \in Limits,
           Len(after) = Len(before), Better(after, before, p)
    PROVE  NoWorse(CheckQuality(before, p), CheckQuality(after, p))
<1> DEFINE N == Len(before)
           e(s) == [i \in 1 .. N |-> ErrorShare(s, i, p)]
           w(s) == [i \in 1 .. N |-> WarningShare(s, i, p)]
           both(s) == [i \in 1 .. N |-> e(s)[i] + w(s)[i]]
<1>1. N \in Nat
  BY LenProperties
<1>2. ASSUME NEW s \in Seq(Subtitles), Len(s) = N
      PROVE  /\ e(s) \in [1 .. N -> Nat] /\ w(s) \in [1 .. N -> Nat] /\ both(s) \in [1 .. N -> Nat]
             /\ CheckQuality(s, p).errors = Sum(e(s)) /\ CheckQuality(s, p).warnings = Sum(w(s))
             /\ Sum(both(s)) = Sum(e(s)) + Sum(w(s)) /\ Sum(e(s)) \in Nat /\ Sum(w(s)) \in Nat
  <2>1. e(s) \in [1 .. N -> Nat] /\ w(s) \in [1 .. N -> Nat]
    BY <1>2, SharesAreNat
  <2>2. both(s) \in [1 .. N -> Nat]
    <3> HIDE DEF e, w
    <3> QED BY <2>1
  <2>3. CheckQuality(s, p).errors = Sum(e(s)) /\ CheckQuality(s, p).warnings = Sum(w(s))
    BY <1>2, QualityIsShared
  <2>4. Sum(both(s)) = Sum(e(s)) + Sum(w(s))
    <3> HIDE DEF e, w
    <3> QED BY <1>1, <2>1, SumAdds
  <2>5. Sum(e(s)) \in Nat /\ Sum(w(s)) \in Nat
    <3> HIDE DEF e, w
    <3> QED BY <1>1, <2>1, SumIsCount
  <2> QED BY <2>1, <2>2, <2>3, <2>4, <2>5
<1>3. ASSUME NEW i \in 1 .. N PROVE e(after)[i] <= e(before)[i] /\ both(after)[i] <= both(before)[i]
  BY DEF Better
<1> HIDE DEF e, w, both, N
<1>4. Sum(e(after)) <= Sum(e(before))
  <2> DEFINE f == e(after)  g == e(before)
  <2>1. f \in [1 .. N -> Nat] /\ g \in [1 .. N -> Nat]
    BY <1>2 DEF N
  <2>2. \A i \in 1 .. N : f[i] <= g[i]
    BY <1>3
  <2> HIDE DEF f, g
  <2>3. Sum(f) <= Sum(g)
    BY <1>1, <2>1, <2>2, SumIsMonotone
  <2> QED BY <2>3 DEF f, g
<1>5. Sum(both(after)) <= Sum(both(before))
  <2> DEFINE f == both(after)  g == both(before)
  <2>1. f \in [1 .. N -> Nat] /\ g \in [1 .. N -> Nat]
    BY <1>2 DEF N
  <2>2. \A i \in 1 .. N : f[i] <= g[i]
    BY <1>3
  <2> HIDE DEF f, g
  <2>3. Sum(f) <= Sum(g)
    BY <1>1, <2>1, <2>2, SumIsMonotone
  <2> QED BY <2>3 DEF f, g
<1>6. /\ CheckQuality(after, p).errors = Sum(e(after)) /\ CheckQuality(after, p).warnings = Sum(w(after))
      /\ Sum(both(after)) = Sum(e(after)) + Sum(w(after))
  BY <1>2 DEF N
<1>7. /\ CheckQuality(before, p).errors = Sum(e(before)) /\ CheckQuality(before, p).warnings = Sum(w(before))
      /\ Sum(both(before)) = Sum(e(before)) + Sum(w(before))
  BY <1>2 DEF N
<1>8. Sum(e(after)) + Sum(w(after)) <= Sum(e(before)) + Sum(w(before))
  BY <1>5, <1>6, <1>7, Zenon
<1>9. /\ CheckQuality(after, p).errors <= CheckQuality(before, p).errors
      /\ CheckQuality(after, p).errors + CheckQuality(after, p).warnings
            <= CheckQuality(before, p).errors + CheckQuality(before, p).warnings
  BY <1>4, <1>6, <1>7, <1>8, Zenon
<1> QED BY <1>9, Zenon DEF NoWorse

(* The server trims the text it is given, which does not make its subtitle worse. *)
LEMMA TrimmedIsNoWorse ==
    ASSUME NEW a \in Subtitles, NEW b \in Subtitles, NEW p \in Limits, NEW words \in Lines,
           a.start = b.start, a.end = b.end,
           a.text = b.text \/ (Laid(b.text, words) /\ a.text = Trim(b.text))
    PROVE  OwnErrors(a, p) <= OwnErrors(b, p) /\ OwnWarnings(a, p) = OwnWarnings(b, p)
<1>1. a.text \in Seq(Lines) /\ b.text \in Seq(Lines)
  BY DEF Subtitles, Lines
<1>2. p.maxChars \in Nat
  BY DEF Limits
<1>3. /\ Characters(a.text) = Characters(b.text)
      /\ Cardinality(Long(a.text, p.maxChars)) <= Cardinality(Long(b.text, p.maxChars))
      /\ Len(a.text) > 2 => Len(b.text) > 2
  <2>1. CASE a.text = b.text
    <3>1. Cardinality(Long(b.text, p.maxChars)) \in Nat
      BY <1>1, LongLinesAreCounted
    <3>2. Cardinality(Long(b.text, p.maxChars)) <= Cardinality(Long(b.text, p.maxChars))
      BY <3>1
    <3> QED BY <2>1, <3>2
  <2>2. CASE Laid(b.text, words) /\ a.text = Trim(b.text)
    <3>1. /\ Len(b.text) <= 2 /\ Len(Trim(b.text)) <= Len(b.text)
          /\ Characters(Trim(b.text)) = Characters(b.text)
          /\ Cardinality(Long(Trim(b.text), p.maxChars)) <= Cardinality(Long(b.text, p.maxChars))
      BY <1>2, <2>2, LaidKeeps
    <3>2. Len(a.text) \in Nat /\ Len(b.text) \in Nat
      BY <1>1, LenProperties
    <3>3. ~(Len(a.text) > 2)
      BY <2>2, <3>1, <3>2
    <3> QED BY <2>2, <3>1, <3>3
  <2> QED BY <2>1, <2>2
<1>4. LongLines(a, p) = Long(a.text, p.maxChars) /\ LongLines(b, p) = Long(b.text, p.maxChars)
  BY DEF Long, LongLines
<1>5. Cardinality(LongLines(a, p)) <= Cardinality(LongLines(b, p))
  BY <1>3, <1>4, Zenon
<1>6. Cardinality(LongLines(a, p)) \in Nat /\ Cardinality(LongLines(b, p)) \in Nat
  <2>1. Cardinality(Long(a.text, p.maxChars)) \in Nat /\ Cardinality(Long(b.text, p.maxChars)) \in Nat
    BY <1>1, LongLinesAreCounted
  <2> QED BY <1>4, <2>1, Zenon
<1>7. Timed(a) = Timed(b)
  BY DEF Timed
<1>8. ASSUME NEW cps PROVE FasterThan(a, cps) = FasterThan(b, cps)
  <2>1. 1000 * Characters(a.text) = 1000 * Characters(b.text)
    <3>1. Characters(a.text) = Characters(b.text)
      BY <1>3, Zenon
    <3> QED BY <3>1
  <2>2. cps * (a.end - a.start) = cps * (b.end - b.start)
    BY Zenon
  <2> DEFINE m == 1000 * Characters(a.text)  n == 1000 * Characters(b.text)
             k == cps * (a.end - a.start)    l == cps * (b.end - b.start)
  <2>3. FasterThan(a, cps) = (m > k) /\ FasterThan(b, cps) = (n > l)
    BY DEF FasterThan
  <2>4. m = n /\ k = l
    BY <2>1, <2>2
  <2> HIDE DEF m, n, k, l
  <2> QED BY <2>3, <2>4
<1>9. One(Len(a.text) > MaxLines) <= One(Len(b.text) > MaxLines)
  BY <1>3 DEF One, MaxLines
<1>10. OwnWarnings(a, p) = OwnWarnings(b, p)
  BY <1>7, <1>8, Zenon DEF OwnWarnings
<1> DEFINE x == One(~Timed(b))  y == One(Timed(b) /\ FasterThan(b, p.maxCps + p.margin))
           la == Cardinality(LongLines(a, p))  lb == Cardinality(LongLines(b, p))
           ma == One(Len(a.text) > MaxLines)  mb == One(Len(b.text) > MaxLines)
<1>11. OwnErrors(a, p) = la + x + y + ma
  BY <1>7, <1>8, Zenon DEF OwnErrors
<1>12. OwnErrors(b, p) = lb + x + y + mb
  BY DEF OwnErrors
<1>13. x \in Nat /\ y \in Nat /\ ma \in Nat /\ mb \in Nat /\ la \in Nat /\ lb \in Nat
  BY <1>6, OneIsNat
<1>14. la <= lb /\ ma <= mb
  BY <1>5, <1>9
<1> HIDE DEF x, y, la, lb, ma, mb
<1>15. la + x + y + ma <= lb + x + y + mb
  BY <1>13, <1>14
<1> QED BY <1>10, <1>11, <1>12, <1>15, Zenon

-----------------------------------------------------------------------------
(* Its edits, and any part of them. *)
(* What follows in a gap depends on an end and a start. *)
LEMMA GapsAreLocal ==
    ASSUME NEW a \in Seq(Subtitles), NEW b \in Seq(Subtitles), NEW p \in Limits,
           NEW i \in 1 .. Len(a), Len(a) = Len(b), a[i].end = b[i].end,
           i < Len(a) => a[i + 1].start = b[i + 1].start
    PROVE  NextErrors(a, i) = NextErrors(b, i) /\ NextWarnings(a, i, p) = NextWarnings(b, i, p)
<1>1. i \in Nat /\ i + 1 > 1 /\ (i + 1) - 1 = i
  OBVIOUS
<1>2. i < Len(a) => Gap(a, i + 1) = Gap(b, i + 1)
  BY <1>1 DEF Gap
<1>3. NextErrors(a, i) = NextErrors(b, i)
  BY <1>1, <1>2 DEF NextErrors, GapErrors
<1>4. NextWarnings(a, i, p) = NextWarnings(b, i, p)
  BY <1>1, <1>2 DEF NextWarnings, GapWarnings
<1> QED BY <1>3, <1>4

(* The edits of a repair, one by one. *)
LEMMA EditsAre ==
    ASSUME NEW segments, NEW fixed, NEW i \in DOMAIN Differences(segments, fixed)
    PROVE  LET edit == Differences(segments, fixed)[i]
           IN /\ i \in DOMAIN segments
              /\ fixed[i].text # segments[i].text \/ fixed[i].end # segments[i].end
              /\ "text" \in DOMAIN edit => edit["text"] = fixed[i].text
              /\ "text" \in DOMAIN edit <=> fixed[i].text # segments[i].text
              /\ Field(segments[i], edit, "start") = segments[i].start
              /\ Field(segments[i], edit, "speaker") = segments[i].speaker
              /\ Field(segments[i], edit, "end") = fixed[i].end
<1> DEFINE differs(j) == {f \in {"text", "end"} : fixed[j][f] # segments[j][f]}
           edits == Differences(segments, fixed)
           edit == edits[i]
<1>1. edits = [j \in {n \in DOMAIN segments : differs(n) # {}} |-> [f \in differs(j) |-> fixed[j][f]]]
  BY DEF Differences
<1>2. i \in DOMAIN segments /\ differs(i) # {} /\ edit = [f \in differs(i) |-> fixed[i][f]]
  BY <1>1
<1> HIDE DEF edit, edits
<1>3. DOMAIN edit = differs(i) /\ \A f \in differs(i) : edit[f] = fixed[i][f]
  BY <1>2
<1>4. "start" \notin DOMAIN edit /\ "speaker" \notin DOMAIN edit
  BY <1>3
<1>5. "text" \in DOMAIN edit <=> fixed[i].text # segments[i].text
  BY <1>3
<1>6. "end" \in DOMAIN edit <=> fixed[i].end # segments[i].end
  BY <1>3
<1>7. Field(segments[i], edit, "end") = fixed[i].end
  BY <1>3, <1>6 DEF Field
<1>8. Field(segments[i], edit, "start") = segments[i].start /\ Field(segments[i], edit, "speaker") = segments[i].speaker
  BY <1>4 DEF Field
<1>9. "text" \in DOMAIN edit => edit["text"] = fixed[i].text
  BY <1>3
<1>10. fixed[i].text # segments[i].text \/ fixed[i].end # segments[i].end
  BY <1>2
<1> QED BY <1>2, <1>5, <1>7, <1>8, <1>9, <1>10 DEF edit, edits

(* What the server makes of one of them. *)
LEMMA AfterRepair ==
    ASSUME NEW segments \in Seq(Subtitles), NEW p \in Limits, NEW fixed, Repaired(segments, fixed, p),
           NEW i \in DOMAIN Differences(segments, fixed),
           NEW edit, edit = Differences(segments, fixed)[i]
    PROVE  LET after == AfterEdit(segments[i], edit)
           IN /\ after \in Subtitles /\ after.start = fixed[i].start /\ after.end = fixed[i].end
              /\ after.words = segments[i].words
              /\ OwnErrors(after, p) <= OwnErrors(fixed[i], p)
              /\ OwnWarnings(after, p) = OwnWarnings(fixed[i], p)
              /\ "text" \in DOMAIN edit => ~HasBlankLine(edit["text"])
<1> DEFINE s == segments[i]
           words == FlattenSeq(s.text)
           text == IF "text" \in DOMAIN edit THEN Trim(edit["text"]) ELSE s.text
           after == AfterEdit(s, edit)
<1>1. /\ i \in DOMAIN segments
      /\ "text" \in DOMAIN edit => edit["text"] = fixed[i].text
      /\ "text" \in DOMAIN edit <=> fixed[i].text # s.text
      /\ Field(s, edit, "start") = s.start
      /\ Field(s, edit, "speaker") = s.speaker
      /\ Field(s, edit, "end") = fixed[i].end
  BY EditsAre
<1>2. s \in Subtitles /\ fixed[i] \in Subtitles /\ i \in 1 .. Len(segments)
  BY <1>1, LenProperties DEF Repaired
<1>3. s.text \in Seq(Lines) /\ fixed[i].text \in Seq(Lines)
  BY <1>2 DEF Subtitles, Lines
<1>4. words \in Lines
  BY <1>3, FlatIsALine
<1>5. fixed[i].start = s.start /\ (fixed[i].text # s.text => Laid(fixed[i].text, words))
  BY <1>2 DEF Repaired
<1>6. "text" \in DOMAIN edit => Laid(fixed[i].text, words) /\ text = Trim(fixed[i].text)
  BY <1>1, <1>5
<1>7. "text" \notin DOMAIN edit => text = s.text /\ fixed[i].text = s.text
  BY <1>1
<1>8. text \in Seq(Lines) /\ Said(text) = Said(s.text)
  <2>1. CASE "text" \in DOMAIN edit
    <3>1. Trim(fixed[i].text) \in Seq(Lines) /\ Said(Trim(fixed[i].text)) = SaidOf(words)
      <4>1. 0 \in Nat
        OBVIOUS
      <4> QED BY <1>4, <1>6, <2>1, <4>1, LaidKeeps
    <3>2. Said(s.text) = SaidOf(words)
      BY SaidIsOfItsWords
    <3>3. text = Trim(fixed[i].text)
      BY <1>6, <2>1
    <3> QED BY <3>1, <3>2, <3>3, Zenon
  <2>2. CASE "text" \notin DOMAIN edit
    BY <1>3, <1>7, <2>2
  <2> QED BY <2>1, <2>2
<1>9. "text" \in DOMAIN edit => ~HasBlankLine(edit["text"])
  <2>1. 0 \in Nat
    OBVIOUS
  <2> QED BY <1>1, <1>4, <1>6, <2>1, LaidKeeps
<1>10. after = [s EXCEPT !.start = Field(s, edit, "start"), !.end = Field(s, edit, "end"),
                         !.speaker = Field(s, edit, "speaker"), !.text = text,
                         !.words = IF Said(text) # Said(s.text) THEN Redistributed(text) ELSE @]
  BY DEF AfterEdit
<1> HIDE DEF text, after
<1>11. after = [s EXCEPT !.start = s.start, !.end = fixed[i].end, !.speaker = s.speaker, !.text = text, !.words = s.words]
  BY <1>1, <1>8, <1>10, Zenon
<1>12. fixed[i].end \in Nat
  BY <1>2 DEF Subtitles
<1>13. /\ after \in Subtitles /\ after.start = s.start /\ after.end = fixed[i].end
       /\ after.words = s.words /\ after.text = text
  BY <1>2, <1>8, <1>11, <1>12 DEF Subtitles, Lines
<1>14. after.text = fixed[i].text \/ (Laid(fixed[i].text, words) /\ after.text = Trim(fixed[i].text))
  BY <1>6, <1>7, <1>13
<1>15. OwnErrors(after, p) <= OwnErrors(fixed[i], p) /\ OwnWarnings(after, p) = OwnWarnings(fixed[i], p)
  <2>1. after \in Subtitles /\ after.start = fixed[i].start /\ after.end = fixed[i].end
    BY <1>5, <1>13
  <2> QED BY <1>2, <1>4, <1>14, <2>1, TrimmedIsNoWorse
<1> QED BY <1>5, <1>9, <1>13, <1>15 DEF after

(* Any of them together. *)
LEMMA SomeOfTheRepair ==
    ASSUME NEW segments \in Seq(Subtitles), NEW p \in Limits, NEW fixed, Repaired(segments, fixed, p),
           NEW edits, edits = Differences(segments, fixed),
           NEW S \in SUBSET DOMAIN edits
    PROVE  LET after == ApplyEdits(segments, Restrict(edits, S))
           IN after \in Seq(Subtitles) /\ Len(after) = Len(segments) /\ Better(after, segments, p)
<1> DEFINE N == Len(segments)
           after == ApplyEdits(segments, Restrict(edits, S))
<1>1. N \in Nat /\ DOMAIN segments = 1 .. N /\ \A i \in 1 .. N : segments[i] \in Subtitles
  BY LenProperties
<1>2. fixed \in Seq(Subtitles) /\ Len(fixed) = N /\ Better(fixed, segments, p)
  BY DEF Repaired
<1>3. after = [i \in 1 .. N |-> IF i \in S THEN AfterEdit(segments[i], edits[i]) ELSE segments[i]]
  <2>1. DOMAIN Restrict(edits, S) = S /\ \A i \in S : Restrict(edits, S)[i] = edits[i]
    BY DEF Restrict
  <2> QED BY <1>1, <2>1 DEF ApplyEdits
<1> HIDE DEF after
<1>4. ASSUME NEW i \in S
      PROVE  /\ after[i] \in Subtitles /\ after[i].start = segments[i].start /\ after[i].end = fixed[i].end
             /\ OwnErrors(after[i], p) <= OwnErrors(fixed[i], p)
             /\ OwnWarnings(after[i], p) = OwnWarnings(fixed[i], p)
             /\ i \in 1 .. N
  <2>1. i \in DOMAIN Differences(segments, fixed)
    OBVIOUS
  <2>2. i \in 1 .. N
    BY <1>1, <2>1, EditsAre
  <2>3. after[i] = AfterEdit(segments[i], edits[i])
    BY <1>3, <2>2
  <2>4. fixed[i].start = segments[i].start
    BY <2>2 DEF Repaired
  <2>5. /\ AfterEdit(segments[i], edits[i]) \in Subtitles
        /\ AfterEdit(segments[i], edits[i]).start = fixed[i].start
        /\ AfterEdit(segments[i], edits[i]).end = fixed[i].end
        /\ OwnErrors(AfterEdit(segments[i], edits[i]), p) <= OwnErrors(fixed[i], p)
        /\ OwnWarnings(AfterEdit(segments[i], edits[i]), p) = OwnWarnings(fixed[i], p)
    BY <2>1, AfterRepair
  <2> QED BY <2>2, <2>3, <2>4, <2>5
<1>5. \A i \in 1 .. N : i \notin S => after[i] = segments[i]
  BY <1>3
<1>6. \A i \in 1 .. N : after[i] \in Subtitles /\ after[i].start = segments[i].start
  BY <1>1, <1>4, <1>5
<1>7. after \in Seq(Subtitles) /\ Len(after) = N
  BY <1>1, <1>3, <1>6
<1>8. ASSUME NEW i \in 1 .. N
      PROVE  /\ ErrorShare(after, i, p) <= ErrorShare(segments, i, p)
             /\ ErrorShare(after, i, p) + WarningShare(after, i, p)
                    <= ErrorShare(segments, i, p) + WarningShare(segments, i, p)
  <2>0. i + 1 \in Nat /\ (i < N => i + 1 \in 1 .. N)
    BY <1>1
  <2>1. CASE i \in S
    <3>1. /\ NextErrors(after, i) = NextErrors(fixed, i)
          /\ NextWarnings(after, i, p) = NextWarnings(fixed, i, p)
      <4>1. i < Len(after) => after[i + 1].start = fixed[i + 1].start
        <5>1. \A j \in 1 .. N : fixed[j].start = segments[j].start
          BY DEF Repaired
        <5> QED BY <1>6, <1>7, <2>0, <5>1
      <4>2. after[i].end = fixed[i].end /\ i \in 1 .. Len(after) /\ Len(after) = Len(fixed)
        BY <1>2, <1>4, <1>7, <2>1
      <4> QED BY <1>2, <1>7, <4>1, <4>2, GapsAreLocal
    <3>2. OwnErrors(after[i], p) <= OwnErrors(fixed[i], p) /\ OwnWarnings(after[i], p) = OwnWarnings(fixed[i], p)
      BY <1>4, <2>1
    <3>3. /\ ErrorShare(fixed, i, p) <= ErrorShare(segments, i, p)
          /\ ErrorShare(fixed, i, p) + WarningShare(fixed, i, p)
                <= ErrorShare(segments, i, p) + WarningShare(segments, i, p)
      BY <1>2 DEF Better
    <3> DEFINE oa == OwnErrors(after[i], p)  ob == OwnErrors(fixed[i], p)
               wa == OwnWarnings(after[i], p)  wb == OwnWarnings(fixed[i], p)
               n == NextErrors(fixed, i)  m == NextWarnings(fixed, i, p)
               e == ErrorShare(segments, i, p)  w == WarningShare(segments, i, p)
    <3>4. oa \in Nat /\ ob \in Nat /\ wa \in Nat /\ wb \in Nat
      <4>1. fixed[i] \in Subtitles
        BY <1>2
      <4> QED BY <1>6, <4>1, OwnIsNat
    <3>5. n \in Nat /\ m \in Nat
      BY OneIsNat DEF NextErrors, NextWarnings, GapErrors, GapWarnings
    <3>6. e \in Nat /\ w \in Nat
      BY SharesAreNat
    <3>7. ErrorShare(after, i, p) = oa + n /\ WarningShare(after, i, p) = wa + m
      BY <3>1, Zenon DEF ErrorShare, WarningShare
    <3>8. ErrorShare(fixed, i, p) = ob + n /\ WarningShare(fixed, i, p) = wb + m
      BY Zenon DEF ErrorShare, WarningShare
    <3>9. oa <= ob /\ wa = wb /\ ob + n <= e /\ (ob + n) + (wb + m) <= e + w
      BY <3>2, <3>3, <3>8, Zenon
    <3> HIDE DEF oa, ob, wa, wb, n, m, e, w
    <3>10. oa + n <= e /\ (oa + n) + (wa + m) <= e + w
      BY <3>4, <3>5, <3>6, <3>9
    <3> QED BY <3>7, <3>10, Zenon DEF e, w
  <2>2. CASE i \notin S
    <3>1. after[i] = segments[i]
      BY <1>5, <2>2
    <3>2. i < Len(after) => after[i + 1].start = segments[i + 1].start
      BY <1>6, <1>7, <2>0
    <3>3. i \in 1 .. Len(after) /\ i \in 1 .. Len(segments) /\ (i < Len(after) <=> i < Len(segments))
      BY <1>7
    <3>4. ErrorShare(after, i, p) = ErrorShare(segments, i, p) /\ WarningShare(after, i, p) = WarningShare(segments, i, p)
      BY <1>7, <3>1, <3>2, <3>3, SharesAreLocal
    <3>5. ErrorShare(segments, i, p) \in Nat /\ WarningShare(segments, i, p) \in Nat
      BY SharesAreNat
    <3> QED BY <3>4, <3>5
  <2> QED BY <2>1, <2>2
<1>9. Better(after, segments, p)
  BY <1>8 DEF Better
<1> QED BY <1>7, <1>9 DEF after

(* For any subtitles and any profile, any of the edits of a repair leave no
   more errors and no more errors and warnings than there were, keep every word
   with its time, and are accepted by the server (quality/fixer.ts:4). *)
THEOREM RepairsOnlyHelp ==
    ASSUME NEW segments \in Seq(Subtitles), NEW p \in Limits
    PROVE  OnlyHelp(segments, FixEdits(segments, p), p)
<1> DEFINE fixed == ProposeFix(segments, p)
           edits == FixEdits(segments, p)
<1>1. Repaired(segments, fixed, p)
  BY ProposeFixKeeps
<1>2. edits = Differences(segments, fixed)
  BY DEF FixEdits
<1> HIDE DEF fixed, edits
<1>3. ASSUME NEW i \in DOMAIN edits
      PROVE  /\ i \in DOMAIN segments
             /\ "text" \in DOMAIN edits[i] => ~HasBlankLine(edits[i]["text"])
             /\ ~(Field(segments[i], edits[i], "start") < 0)
             /\ ~(Field(segments[i], edits[i], "end") <= Field(segments[i], edits[i], "start"))
             /\ AfterEdit(segments[i], edits[i]).words = segments[i].words
  <2>1. i \in DOMAIN Differences(segments, fixed)
    BY <1>2
  <2>2. /\ i \in DOMAIN segments
        /\ fixed[i].text # segments[i].text \/ fixed[i].end # segments[i].end
        /\ Field(segments[i], edits[i], "start") = segments[i].start
        /\ Field(segments[i], edits[i], "end") = fixed[i].end
    BY <1>2, <2>1, EditsAre
  <2>3. AfterEdit(segments[i], edits[i]).words = segments[i].words
        /\ ("text" \in DOMAIN edits[i] => ~HasBlankLine(edits[i]["text"]))
    BY <1>1, <1>2, <2>1, AfterRepair
  <2>4. i \in 1 .. Len(segments) /\ segments[i] \in Subtitles /\ fixed[i] \in Subtitles
    BY <1>1, <2>2, LenProperties DEF Repaired
  <2>5. fixed[i].start = segments[i].start /\ Timed(fixed[i])
    BY <1>1, <2>2, <2>4 DEF Repaired
  <2>6. segments[i].start \in Nat /\ fixed[i].end \in Nat
    BY <2>4 DEF Subtitles
  <2>7. segments[i].start < fixed[i].end
    BY <2>5 DEF Timed
  <2>8. ~(segments[i].start < 0) /\ ~(fixed[i].end <= segments[i].start)
    BY <2>6, <2>7
  <2> QED BY <2>2, <2>3, <2>8
<1>4. Accepted(segments, edits)
  BY <1>3 DEF Accepted
<1>5. \A i \in DOMAIN edits : ApplyEdits(segments, edits)[i].words = segments[i].words
  BY <1>3 DEF ApplyEdits
<1>6. ASSUME NEW S \in SUBSET DOMAIN edits
      PROVE  NoWorse(CheckQuality(segments, p), CheckQuality(ApplyEdits(segments, Restrict(edits, S)), p))
  <2> DEFINE after == ApplyEdits(segments, Restrict(edits, S))
  <2>1. after \in Seq(Subtitles) /\ Len(after) = Len(segments) /\ Better(after, segments, p)
    BY <1>1, <1>2, SomeOfTheRepair
  <2> HIDE DEF after
  <2>2. NoWorse(CheckQuality(segments, p), CheckQuality(after, p))
    BY <2>1, BetterIsNoWorse
  <2> QED BY <2>2 DEF after
<1> QED BY <1>4, <1>5, <1>6 DEF OnlyHelp, edits

(* The five profiles of the product are among them (quality/profiles.ts). *)
LEMMA ProfilesAreLimits == Profiles \subseteq Limits
BY DEF Profiles, Limits, Netflix, NetflixEs, Bbc, Accessible, Shorts

(* So they do for the subtitles and the profiles that are looked at in a run
   (quality/fixer.ts:4, quality/profiles.ts). *)
THEOREM FixesHelp == Spec => []FixesOnlyHelp
<1>1. FixesOnlyHelp
  BY SamplesAssumption, ProfilesAreLimits, RepairsOnlyHelp DEF FixesOnlyHelp
<1> QED BY <1>1, PTL

-----------------------------------------------------------------------------
(***************************************************************************)
(* The panels that hang from the result, for any transcriptions, servers   *)
(* and models, jobs, submissions and gestures.                             *)
(*                                                                         *)
(* The invariant says of each submission, question, panel and player what  *)
(* it is about: the screen, unless the panels were stopped since it was    *)
(* sent, and jobs that are there and are what the panel takes them for.    *)
(***************************************************************************)
Tracked == [job : 0..MaxMade, seen : Status, lost : {"no", "network", "gone"}]

(* The translation t of the transcription s is there, and done. *)
IsTranslationOf(t, s) ==
    t \in DOMAIN made /\ made[t].kind = "TRANSLATE" /\ made[t].status = "COMPLETED" /\ made[t].of = s

(* What is asked of a provider that charges was agreed on. *)
AgreedOn(q, s) ==
    s.provider \in External => q.kind = s.kind /\ q.of = s.of /\ q.provider = s.provider /\ q.fresh

MadeInv ==
    /\ made \in Seq(Job) /\ Len(made) <= MaxMade /\ recents \subseteq DOMAIN made
    /\ \A i \in DOMAIN made :
         /\ AgreedOn(made[i].agreed, made[i]) /\ (made[i].from /= 0 => IsTranslationOf(made[i].from, made[i].of))
         /\ made[i].by = "chain" => made[i].kind = "BURN"

(* A submission is about what is on the screen, unless the panels were stopped
   since; one that waits has read what it asks about. *)
SendIs(n) ==
    LET s == sends[n]
    IN  /\ s.step = "none" => s = NoSend
        /\ s.step /= "none" => s.kind \in Kinds /\ s.of \in Sources
        /\ s.step /= "none" /\ ~s.old => s.of = onScreen /\ loaded
        /\ s.step = "config" => s.read = Nil
        /\ s.step \in {"config", "read"} /\ ~s.old => conf \in s.since
        /\ s.step = "read" /\ ~s.old => s.read \in s.since
        /\ s.step = "ask" => question.turn = n /\ ~s.old
        /\ s.step = "post" => AgreedOn(s.agreed, s) /\ (s.from /= 0 => IsTranslationOf(s.from, s.of))
        /\ s.step = "created" => s.job \in DOMAIN made /\ made[s.job].kind = s.kind /\ made[s.job].of = s.of

QuestionIs ==
    question.turn /= 0 =>
        LET s == sends[question.turn]
        IN  /\ s.step = "ask" /\ question.kind = s.kind /\ question.of = s.of /\ question.provider = s.provider
            /\ question.fresh

(* Of the submissions S, one of each kind that is starting belongs to the screen. *)
CurrentOf(S, k) == {n \in Turns : S[n].kind = k /\ ~S[n].old}
OneEach(S, on) ==
    \A k \in Kinds : IF on[k] THEN \E n \in Turns : CurrentOf(S, k) = {n} ELSE CurrentOf(S, k) = {}

FormsType ==
    /\ starting \in [Kinds -> BOOLEAN] /\ sends \in [Turns -> Send] /\ question \in Question
    /\ conf \in Confs /\ customAi \in Confs \cup {Nil} /\ reads \in SUBSET Confs

FormsInv == FormsType /\ (\A n \in Turns : SendIs(n)) /\ QuestionIs /\ OneEach(sends, starting)

(* What a panel follows is there, of its kind, and of the screen; while a job is
   being opened, only a chained burn may be followed. *)
TrackIs(k) ==
    LET i == track[k].job
    IN  /\ i = 0 => track[k].lost = "no"
        /\ i /= 0 =>
             /\ i \in DOMAIN made /\ made[i].kind = k
             /\ track[k].seen = "COMPLETED" => made[i].status = "COMPLETED"
             /\ made[i].by = "chain" \/ (opening = Nil /\ (onScreen = Nil \/ made[i].of = onScreen))

ViewInv ==
    /\ onScreen \in Sources \cup {Nil} /\ loaded \in BOOLEAN /\ dirty \in BOOLEAN
    /\ opening \in Sources \cup DOMAIN made \cup {Nil}
    /\ opening /= Nil => onScreen = Nil
    /\ loaded => onScreen /= Nil

SourceIs ==
    /\ translations \in [Sources -> 0..MaxMade] /\ source \in 0..MaxMade
    /\ \A s \in Sources : translations[s] /= 0 => IsTranslationOf(translations[s], s)
    /\ Context => source \in {0, translations[onScreen]}

PlayIs ==
    /\ player \in [{"video", "audio"} -> Player]
    /\ \A p \in {"video", "audio"} : player[p].url /= Nil => player[p].url = player[p].for
    /\ LET v == player["video"].for
       IN  v /= Nil => track["BURN"].job = v /\ track["BURN"].seen = "COMPLETED"
    /\ LET a == player["audio"].for
       IN  a /= Nil => a = onScreen /\ a \in Audios

ShowInv ==
    /\ track \in [Kinds -> Tracked] /\ cancels \in [Kinds -> [job : 0..MaxMade, old : BOOLEAN]]
    /\ \A k \in Kinds : TrackIs(k) /\ (cancels[k].job /= 0 => cancels[k].job \in DOMAIN made)
    /\ SourceIs /\ PlayIs

PanelsInv == MadeInv /\ FormsInv /\ ViewInv /\ ShowInv /\ gestures \in 0..MaxGestures

-----------------------------------------------------------------------------
(* One submission of each kind.                                            *)

Kinded(S) == S \in [Turns -> Send]

LEMMA NilIsNothing == Nil \notin Kinds /\ Nil \notin Sources /\ Nil \notin Confs /\ Nil \notin Nat /\ Sources \cap Nat = {}
BY PanelsSourcesAssumption

LEMMA NoSendIsTyped ==
    /\ NoQuestion \in Question /\ NoQuestion.turn = 0
    /\ NoSend \in Send /\ NoSend.step = "none" /\ NoSend.kind = Nil /\ ~NoSend.old
<1>1. 0 \in 0..MaxSends /\ 0 \in 0..MaxMade
  BY PanelsBoundsAssumption
<1>2. NoQuestion \in Question /\ NoQuestion.turn = 0
  BY <1>1 DEF NoQuestion, Question, AnyKind, AnyProvider
<1>3. NoSend \in Send
  BY <1>1, <1>2 DEF NoSend, Send, AnyKind, AnyProvider
<1> QED BY <1>2, <1>3 DEF NoSend

(* A submission that is of the screen ends. *)
LEMMA EndsOne ==
    ASSUME NEW S \in [Turns -> Send], NEW on \in [Kinds -> BOOLEAN], OneEach(S, on),
           NEW n \in Turns, S[n].kind \in Kinds, ~S[n].old
    PROVE  OneEach([S EXCEPT ![n] = NoSend], [on EXCEPT ![S[n].kind] = FALSE])
<1> DEFINE T == [S EXCEPT ![n] = NoSend]
           off == [on EXCEPT ![S[n].kind] = FALSE]
<1>1. ASSUME NEW k \in Kinds, k /= S[n].kind PROVE CurrentOf(T, k) = CurrentOf(S, k) /\ off[k] = on[k]
  BY <1>1, NoSendIsTyped, NilIsNothing DEF CurrentOf
<1>2. off[S[n].kind] = FALSE
  OBVIOUS
<1>3. CurrentOf(T, S[n].kind) = {}
  <2>1. n \in CurrentOf(S, S[n].kind)
    BY DEF CurrentOf
  <2>2. CurrentOf(S, S[n].kind) = {n}
    BY <2>1 DEF OneEach
  <2> QED BY <2>2, NoSendIsTyped, NilIsNothing DEF CurrentOf
<1> HIDE DEF T, off
<1>4. OneEach(T, off)
  BY <1>1, <1>2, <1>3 DEF OneEach
<1> QED BY <1>4 DEF T, off

(* One that is not, or is none, ends. *)
LEMMA EndsAnother ==
    ASSUME NEW S \in [Turns -> Send], NEW on \in [Kinds -> BOOLEAN], OneEach(S, on),
           NEW n \in Turns, S[n].kind = Nil \/ S[n].old
    PROVE  OneEach([S EXCEPT ![n] = NoSend], on)
<1>1. \A k \in Kinds : CurrentOf([S EXCEPT ![n] = NoSend], k) = CurrentOf(S, k)
  BY NoSendIsTyped, NilIsNothing DEF CurrentOf
<1> QED BY <1>1 DEF OneEach

(* One begins. *)
LEMMA BeginsOne ==
    ASSUME NEW S \in [Turns -> Send], NEW on \in [Kinds -> BOOLEAN], OneEach(S, on),
           NEW n \in Turns, S[n].kind = Nil, NEW s \in Send, s.kind \in Kinds, ~s.old, ~on[s.kind]
    PROVE  OneEach([S EXCEPT ![n] = s], [on EXCEPT ![s.kind] = TRUE])
<1> DEFINE T == [S EXCEPT ![n] = s]
           off == [on EXCEPT ![s.kind] = TRUE]
<1>1. ASSUME NEW k \in Kinds, k /= s.kind PROVE CurrentOf(T, k) = CurrentOf(S, k) /\ off[k] = on[k]
  BY <1>1, NilIsNothing DEF CurrentOf
<1>2. off[s.kind] = TRUE /\ CurrentOf(S, s.kind) = {}
  BY DEF OneEach
<1>3. CurrentOf(T, s.kind) = {n}
  BY <1>2 DEF CurrentOf
<1> HIDE DEF T, off
<1>4. OneEach(T, off)
  BY <1>1, <1>2, <1>3 DEF OneEach
<1> QED BY <1>4 DEF T, off

(* They go on. *)
LEMMA GoOn ==
    ASSUME NEW S \in [Turns -> Send], NEW T \in [Turns -> Send], NEW on \in [Kinds -> BOOLEAN], OneEach(S, on),
           \A n \in Turns : T[n].kind = S[n].kind /\ (T[n].old <=> S[n].old)
    PROVE  OneEach(T, on)
<1>1. \A k \in Kinds : CurrentOf(T, k) = CurrentOf(S, k)
  BY DEF CurrentOf
<1> QED BY <1>1 DEF OneEach

(* While a current one goes on its kind is starting. *)
LEMMA CurrentIsStarting ==
    ASSUME NEW S \in [Turns -> Send], NEW on \in [Kinds -> BOOLEAN], OneEach(S, on),
           NEW n \in Turns, S[n].kind \in Kinds, ~S[n].old
    PROVE  /\ on[S[n].kind] = TRUE
           /\ \A m \in Turns : S[m].kind = S[n].kind /\ ~S[m].old => m = n
<1>1. n \in CurrentOf(S, S[n].kind)
  BY DEF CurrentOf
<1>2. on[S[n].kind] /\ CurrentOf(S, S[n].kind) = {n}
  BY <1>1 DEF OneEach
<1>3. \A m \in Turns : S[m].kind = S[n].kind /\ ~S[m].old => m \in CurrentOf(S, S[n].kind)
  BY DEF CurrentOf
<1> QED BY <1>2, <1>3

-----------------------------------------------------------------------------
(* The jobs.                                                               *)

(* What a job is stays, and one that completed stays so. *)
Stays(i) ==
    /\ made'[i].kind = made[i].kind /\ made'[i].of = made[i].of /\ made'[i].by = made[i].by
    /\ made[i].status = "COMPLETED" => made'[i].status = "COMPLETED"
Grows == DOMAIN made \subseteq DOMAIN made' /\ \A i \in DOMAIN made : Stays(i)

LEMMA JobsAreTyped ==
    ASSUME made \in Seq(Job), Len(made) <= MaxMade
    PROVE  /\ Len(made) \in Nat /\ DOMAIN made = 1..Len(made) /\ DOMAIN made \subseteq Made
           /\ \A i \in DOMAIN made :
                made[i] \in Job /\ made[i].kind \in Kinds /\ made[i].of \in Sources /\ made[i].status \in Status
<1>1. \A i \in 1..Len(made) : made[i] \in Job
  OBVIOUS
<1> QED BY <1>1, PanelsBoundsAssumption DEF Job, Made

LEMMA TranslationStays ==
    ASSUME Grows, NEW t, NEW s, IsTranslationOf(t, s) PROVE IsTranslationOf(t, s)'
BY DEF Grows, Stays, IsTranslationOf

(* The status of a job changes. *)
LEMMA StatusKeeps ==
    ASSUME MadeInv, NEW i \in DOMAIN made, NEW status \in Status,
           made[i].status = "COMPLETED" => status = "COMPLETED",
           made' = [made EXCEPT ![i].status = status], recents' = recents
    PROVE  MadeInv' /\ Grows
<1>1. made \in Seq(Job) /\ Len(made) <= MaxMade
  BY DEF MadeInv
<1>2. Len(made) \in Nat /\ DOMAIN made = 1..Len(made) /\ made[i] \in Job
  BY <1>1, JobsAreTyped
<1> DEFINE j == [made[i] EXCEPT !.status = status]
<1>3. j \in Job
  BY <1>2 DEF Job
<1>4. made' = [made EXCEPT ![i] = j]
  OBVIOUS
<1>5. made' \in Seq(Job) /\ Len(made') = Len(made) /\ DOMAIN made' = DOMAIN made
  BY <1>1, <1>2, <1>3, <1>4
<1>6. \A k \in DOMAIN made : made'[k] = IF k = i THEN j ELSE made[k]
  BY <1>4
<1>7. /\ j.kind = made[i].kind /\ j.of = made[i].of /\ j.by = made[i].by /\ j.provider = made[i].provider
      /\ j.agreed = made[i].agreed /\ j.from = made[i].from /\ j.status = status
  BY <1>2 DEF Job
<1> HIDE DEF j
<1>8. Grows
  BY <1>5, <1>6, <1>7 DEF Grows, Stays
<1>9. ASSUME NEW k \in DOMAIN made'
      PROVE  /\ AgreedOn(made'[k].agreed, made'[k])
             /\ (made[k].from /= 0 => IsTranslationOf(made[k].from, made[k].of))'
             /\ made'[k].by = "chain" => made'[k].kind = "BURN"
  <2>1. /\ AgreedOn(made[k].agreed, made[k]) /\ (made[k].from /= 0 => IsTranslationOf(made[k].from, made[k].of))
        /\ made[k].by = "chain" => made[k].kind = "BURN"
    BY <1>5 DEF MadeInv
  <2>2. /\ made'[k].by = made[k].by /\ made'[k].kind = made[k].kind /\ made'[k].of = made[k].of /\ made'[k].provider = made[k].provider
        /\ made'[k].agreed = made[k].agreed /\ made'[k].from = made[k].from
    BY <1>5, <1>6, <1>7
  <2>3. AgreedOn(made'[k].agreed, made'[k])
    BY <2>1, <2>2 DEF AgreedOn
  <2>4. made[k].from /= 0 => IsTranslationOf(made[k].from, made[k].of)'
    BY <2>1, <1>8, TranslationStays
  <2>5. made'[k].by = "chain" => made'[k].kind = "BURN"
    BY <2>1, <2>2
  <2> QED BY <2>2, <2>3, <2>4, <2>5 DEF IsTranslationOf
<1>10. MadeInv'
  BY <1>1, <1>5, <1>9 DEF MadeInv
<1> QED BY <1>8, <1>10

(* A job is added. *)
LEMMA AppendKeeps ==
    ASSUME MadeInv, NEW j \in Job, Len(made) < MaxMade, AgreedOn(j.agreed, j),
           j.from /= 0 => IsTranslationOf(j.from, j.of), j.by = "chain" => j.kind = "BURN",
           made' = Append(made, j), recents' = recents
    PROVE  /\ MadeInv' /\ Grows
           /\ Len(made) + 1 \in DOMAIN made' /\ made'[Len(made) + 1] = j
           /\ Len(made) + 1 \in 0..MaxMade
<1>1. made \in Seq(Job) /\ Len(made) <= MaxMade
  BY DEF MadeInv
<1>2. Len(made) \in Nat /\ DOMAIN made = 1..Len(made)
  BY <1>1, JobsAreTyped
<1>3. made' \in Seq(Job) /\ Len(made') = Len(made) + 1 /\ DOMAIN made' = 1..(Len(made) + 1)
  BY <1>1, <1>2
<1>4. (\A k \in DOMAIN made : made'[k] = made[k]) /\ made'[Len(made) + 1] = j
  BY <1>1, <1>2
<1>5. Len(made) + 1 \in 0..MaxMade /\ Len(made) + 1 \in DOMAIN made'
  BY <1>2, <1>3, PanelsBoundsAssumption
<1>6. Grows
  BY <1>2, <1>3, <1>4 DEF Grows, Stays
<1>7. ASSUME NEW k \in DOMAIN made'
      PROVE  /\ AgreedOn(made'[k].agreed, made'[k])
             /\ (made[k].from /= 0 => IsTranslationOf(made[k].from, made[k].of))'
             /\ made'[k].by = "chain" => made'[k].kind = "BURN"
  <2>1. PICK x \in Job : x = made'[k] /\ AgreedOn(x.agreed, x) /\ (x.from /= 0 => IsTranslationOf(x.from, x.of))
                     /\ (x.by = "chain" => x.kind = "BURN")
    <3>1. CASE k \in DOMAIN made
      BY <3>1, <1>4, <1>1, JobsAreTyped DEF MadeInv
    <3>2. CASE k = Len(made) + 1
      BY <3>2, <1>4
    <3> QED BY <3>1, <3>2, <1>2, <1>3
  <2>2. x.from /= 0 => IsTranslationOf(x.from, x.of)'
    BY <2>1, <1>6, TranslationStays
  <2> QED BY <2>1, <2>2 DEF IsTranslationOf
<1>8. recents' \subseteq DOMAIN made'
  BY <1>2, <1>3 DEF MadeInv
<1>9. Len(made') <= MaxMade
  BY <1>2, <1>3, PanelsBoundsAssumption
<1>10. MadeInv'
  BY <1>3, <1>7, <1>8, <1>9 DEF MadeInv
<1> QED BY <1>4, <1>5, <1>6, <1>10

LEMMA MadeStays ==
    ASSUME MadeInv, made' = made, recents' \subseteq DOMAIN made PROVE MadeInv' /\ Grows
BY DEF MadeInv, Grows, Stays, IsTranslationOf

-----------------------------------------------------------------------------
(* The submissions.                                                        *)

LEMMA SendIsTyped ==
    ASSUME NEW s \in Send
    PROVE  /\ s = [step |-> s.step, kind |-> s.kind, of |-> s.of, provider |-> s.provider, old |-> s.old,
                   since |-> s.since, read |-> s.read, from |-> s.from, agreed |-> s.agreed, job |-> s.job]
           /\ s.step \in {"none", "config", "read", "ask", "post", "created"} /\ s.kind \in AnyKind
           /\ s.of \in Sources \cup {Nil} /\ s.provider \in AnyProvider /\ s.old \in BOOLEAN
           /\ s.since \in SUBSET Confs /\ s.read \in Confs \cup {Nil} /\ s.from \in 0..MaxMade
           /\ s.agreed \in Question /\ s.job \in 0..MaxMade
BY DEF Send

LEMMA EndedIs ==
    ASSUME NEW n \in Turns, sends'[n] = NoSend PROVE SendIs(n)'
BY NoSendIsTyped DEF SendIs

LEMMA SendStays ==
    ASSUME NEW n \in Turns, SendIs(n), Grows, sends'[n] = sends[n],
           sends[n].step \in {"config", "read"} => conf' = conf,
           sends[n].step /= "none" /\ ~sends[n].old => onScreen' = onScreen /\ loaded',
           sends[n].step = "ask" => question'.turn = question.turn
    PROVE  SendIs(n)'
<1> DEFINE s == sends[n]
<1>1. s.step = "post" => AgreedOn(s.agreed, s) /\ (s.from /= 0 => IsTranslationOf(s.from, s.of)')
  BY TranslationStays DEF SendIs
<1>2. s.step = "created" => s.job \in DOMAIN made' /\ made'[s.job].kind = s.kind /\ made'[s.job].of = s.of
  BY DEF SendIs, Grows, Stays
<1>3. sends'[n].step = "post" => AgreedOn(sends'[n].agreed, sends'[n]) /\ (sends[n].from /= 0 => IsTranslationOf(sends[n].from, sends[n].of))'
  BY <1>1 DEF AgreedOn, IsTranslationOf
<1> QED BY <1>2, <1>3 DEF SendIs

(* Without a transcription on the screen nothing is under way for it. *)
LEMMA NothingIsCurrent ==
    ASSUME FormsInv, ViewInv, onScreen = Nil, NEW n \in Turns PROVE sends[n].step = "none" \/ sends[n].old
BY NilIsNothing DEF FormsInv, SendIs

(* What the panels do besides leaves the submissions alone. *)
LEMMA FormsStay ==
    ASSUME FormsInv, ViewInv, Grows, UNCHANGED formVars, conf' = conf,
           customAi' \in Confs \cup {Nil}, reads' \in SUBSET Confs,
           onScreen = Nil \/ (onScreen' = onScreen /\ (loaded => loaded'))
    PROVE  FormsInv'
<1>1. UNCHANGED <<starting, sends, question>>
  BY DEF formVars
<1>2. FormsType'
  BY <1>1 DEF FormsInv, FormsType
<1>3. ASSUME NEW n \in Turns PROVE SendIs(n)'
  <2>1. SendIs(n) /\ sends'[n] = sends[n] /\ question' = question
    BY <1>1 DEF FormsInv
  <2>2. sends[n].step /= "none" /\ ~sends[n].old => onScreen' = onScreen /\ loaded'
    <3>1. CASE onScreen = Nil
      BY <3>1, NothingIsCurrent
    <3>2. CASE onScreen' = onScreen /\ (loaded => loaded')
      BY <3>2, <2>1 DEF SendIs
    <3> QED BY <3>1, <3>2
  <2> QED BY <2>1, <2>2, SendStays
<1>4. QuestionIs'
  BY <1>1 DEF FormsInv, QuestionIs
<1>5. OneEach(sends, starting)'
  BY <1>1 DEF FormsInv, OneEach, CurrentOf
<1> QED BY <1>2, <1>3, <1>4, <1>5 DEF FormsInv

(* One ends, and with it the question that is about it. *)
LEMMA EndsKeeps ==
    ASSUME FormsInv, NEW n \in Turns, sends[n].step /= "none", Ends(n), Grows,
           question' = IF sends[n].step = "ask" THEN NoQuestion ELSE question,
           conf' = conf, customAi' \in Confs \cup {Nil}, reads' \in SUBSET Confs,
           onScreen' = onScreen, loaded' = loaded
    PROVE  FormsInv'
<1>0. /\ sends \in [Turns -> Send] /\ starting \in [Kinds -> BOOLEAN] /\ OneEach(sends, starting)
      /\ SendIs(n) /\ sends[n] \in Send /\ QuestionIs
  BY DEF FormsInv, FormsType
<1>1. sends[n].kind \in Kinds /\ sends[n].old \in BOOLEAN
  BY <1>0 DEF SendIs, Send
<1>2. sends' = [sends EXCEPT ![n] = NoSend]
  BY DEF Ends
<1>3. FormsType'
  <2>1. sends' \in [Turns -> Send] /\ question' \in Question
    BY <1>2, NoSendIsTyped DEF FormsInv, FormsType
  <2>2. starting' \in [Kinds -> BOOLEAN]
    BY <1>0, <1>1 DEF Ends
  <2> QED BY <2>1, <2>2 DEF FormsInv, FormsType
<1>4. ASSUME NEW m \in Turns PROVE SendIs(m)'
  <2>1. CASE m = n
    <3>1. sends'[m] = NoSend
      BY <1>0, <1>2, <2>1
    <3> QED BY <3>1, EndedIs
  <2>2. CASE m /= n
    <3>1. SendIs(m) /\ sends'[m] = sends[m]
      BY <1>0, <1>2, <2>2 DEF FormsInv
    <3>2. sends[m].step = "ask" => question' = question
      BY <3>1, <1>0, <2>2 DEF SendIs
    <3>3. sends[m].step /= "none" /\ ~sends[m].old => onScreen' = onScreen /\ loaded'
      BY <3>1 DEF SendIs
    <3> QED BY <3>1, <3>2, <3>3, SendStays
  <2> QED BY <2>1, <2>2
<1>5. QuestionIs'
  <2>1. CASE sends[n].step = "ask"
    BY <2>1, NoSendIsTyped DEF QuestionIs
  <2>2. CASE sends[n].step /= "ask"
    <3>1. question' = question /\ (question.turn /= 0 => question.turn /= n)
      BY <2>2, <1>0 DEF QuestionIs
    <3>2. question.turn /= 0 => sends'[question.turn] = sends[question.turn]
      BY <1>0, <1>2, <3>1
    <3> QED BY <3>1, <3>2, <1>0 DEF QuestionIs
  <2> QED BY <2>1, <2>2
<1>6. OneEach(sends', starting')
  <2>1. CASE Stands(n)
    <3>1. ~sends[n].old /\ starting' = [starting EXCEPT ![sends[n].kind] = FALSE]
      BY <2>1 DEF Ends, Stands
    <3> QED BY <3>1, <1>0, <1>1, <1>2, EndsOne
  <2>2. CASE ~Stands(n)
    <3>1. sends[n].old /\ starting' = starting
      BY <2>2, <1>1 DEF Ends, Stands
    <3> QED BY <3>1, <1>0, <1>2, EndsAnother
  <2> QED BY <2>1, <2>2
<1>7. OneEach(sends, starting)'
  BY <1>6 DEF OneEach, CurrentOf
<1> QED BY <1>3, <1>4, <1>5, <1>7 DEF FormsInv

(* The question of n replaces the one before, whose submission ends: n is new,
   or has read what it asks about. *)
LEMMA AsksKeeps ==
    ASSUME FormsInv, NEW n \in Turns, NEW s \in Send, s.kind \in Kinds, s.of = onScreen, onScreen \in Sources, loaded,
           ~s.old, s.provider \in AnyProvider,
           \/ sends[n].step = "none" /\ ~starting[s.kind]
           \/ sends[n].step \in {"config", "read"} /\ s = sends[n],
           Asks(n, s, TRUE), Grows,
           conf' = conf, customAi' \in Confs \cup {Nil}, reads' \in SUBSET Confs,
           onScreen' = onScreen, loaded' = loaded
    PROVE  FormsInv'
<1> DEFINE b == question.turn
           rejected == IF b = 0 THEN sends ELSE [sends EXCEPT ![b] = NoSend]
           usable == IF b = 0 THEN starting ELSE [starting EXCEPT ![sends[b].kind] = FALSE]
           asking == [s EXCEPT !.step = "ask", !.since = {}, !.read = Nil]
<1>0. /\ sends \in [Turns -> Send] /\ starting \in [Kinds -> BOOLEAN] /\ OneEach(sends, starting)
      /\ question \in Question /\ SendIs(n) /\ sends[n] \in Send /\ QuestionIs
  BY DEF FormsInv, FormsType
<1>1. n \in 1..MaxSends /\ n /= 0 /\ MaxSends \in Nat /\ b \in 0..MaxSends
  BY <1>0, PanelsBoundsAssumption DEF Turns, Question
<1>2. /\ question' = [turn |-> n, kind |-> s.kind, of |-> s.of, provider |-> s.provider, fresh |-> TRUE]
      /\ sends' = [rejected EXCEPT ![n] = asking]
      /\ starting' = [usable EXCEPT ![s.kind] = TRUE]
  BY DEF Asks
<1>3. /\ asking \in Send /\ asking.step = "ask" /\ asking.kind = s.kind /\ asking.of = s.of
      /\ asking.provider = s.provider /\ ~asking.old
  BY SendIsTyped DEF Send
<1>4. b /= 0 => b \in Turns /\ b /= n /\ sends[b].step = "ask" /\ sends[b].kind \in Kinds /\ ~sends[b].old
  <2>1. b /= 0 => b \in Turns /\ sends[b].step = "ask"
    BY <1>0, <1>1 DEF QuestionIs, Turns
  <2>2. b /= 0 => SendIs(b)
    BY <2>1 DEF FormsInv
  <2> QED BY <2>1, <2>2 DEF SendIs
<1>5. /\ rejected \in [Turns -> Send] /\ usable \in [Kinds -> BOOLEAN] /\ OneEach(rejected, usable)
      /\ rejected[n] = sends[n] /\ (usable[s.kind] => starting[s.kind])
  <2>1. CASE b = 0
    BY <2>1, <1>0
  <2>2. CASE b /= 0
    <3>1. OneEach(rejected, usable)
      BY <2>2, <1>0, <1>4, EndsOne
    <3>2. rejected \in [Turns -> Send] /\ usable \in [Kinds -> BOOLEAN]
      BY <2>2, <1>0, <1>4, NoSendIsTyped
    <3>3. rejected[n] = sends[n]
      BY <2>2, <1>0, <1>4
    <3>4. usable[s.kind] => starting[s.kind]
      BY <2>2, <1>0, <1>4
    <3> QED BY <3>1, <3>2, <3>3, <3>4
  <2> QED BY <2>1, <2>2
<1>6. \A m \in Turns : sends'[m] = IF m = n THEN asking ELSE IF m = b THEN NoSend ELSE sends[m]
  <2>1. \A m \in Turns : rejected[m] = IF m = b THEN NoSend ELSE sends[m]
    BY <1>0, <1>1, <1>4 DEF Turns
  <2> HIDE DEF rejected, asking
  <2> QED BY <2>1, <1>2, <1>5
<1> HIDE DEF rejected, usable, asking
<1>7. FormsType'
  <2>1. sends' \in [Turns -> Send] /\ starting' \in [Kinds -> BOOLEAN]
    BY <1>2, <1>3, <1>5
  <2>2. question' \in Question
    BY <1>1, <1>2 DEF Question, AnyKind
  <2> QED BY <2>1, <2>2 DEF FormsInv, FormsType
<1>8. ASSUME NEW m \in Turns PROVE SendIs(m)'
  <2>1. CASE m = n
    <3>1. sends'[m] = asking /\ question'.turn = m
      BY <1>2, <1>6, <2>1
    <3>2. onScreen' \in Sources /\ loaded'
      OBVIOUS
    <3> QED BY <3>1, <3>2, <1>3 DEF SendIs
  <2>2. CASE m /= n /\ m = b
    <3>1. sends'[m] = NoSend
      BY <1>6, <2>2
    <3> QED BY <3>1, EndedIs
  <2>3. CASE m /= n /\ m /= b
    <3>1. SendIs(m) /\ sends'[m] = sends[m]
      BY <1>6, <2>3 DEF FormsInv
    <3>2. sends[m].step /= "ask"
      BY <3>1, <2>3 DEF SendIs
    <3>3. sends[m].step /= "none" /\ ~sends[m].old => onScreen' = onScreen /\ loaded'
      BY <3>1 DEF SendIs
    <3> QED BY <3>1, <3>2, <3>3, SendStays
  <2> QED BY <2>1, <2>2, <2>3
<1>9. QuestionIs'
  <2>1. sends'[n] = asking /\ question'.turn = n
    BY <1>2, <1>6
  <2> QED BY <2>1, <1>2, <1>3 DEF QuestionIs
<1>10. OneEach(sends', starting')
  <2>1. CASE sends[n].step = "none" /\ ~starting[s.kind]
    <3>1. rejected[n].kind = Nil
      BY <2>1, <1>0, <1>5, NoSendIsTyped DEF SendIs
    <3>2. OneEach([rejected EXCEPT ![n] = asking], [usable EXCEPT ![asking.kind] = TRUE])
      BY <2>1, <3>1, <1>3, <1>5, BeginsOne
    <3> QED BY <3>2, <1>2, <1>3
  <2>2. CASE sends[n].step \in {"config", "read"} /\ s = sends[n]
    <3>1. usable[s.kind] = TRUE
      BY <2>2, <1>5, CurrentIsStarting
    <3>2. starting' = usable
      BY <3>1, <1>2, <1>5
    <3>3. sends' \in [Turns -> Send]
      BY <1>2, <1>3, <1>5
    <3>4. \A m \in Turns : sends'[m].kind = rejected[m].kind /\ (sends'[m].old <=> rejected[m].old)
      BY <2>2, <1>2, <1>3, <1>5
    <3> QED BY <3>2, <3>3, <3>4, <1>5, GoOn
  <2> QED BY <2>1, <2>2
<1>11. OneEach(sends, starting)'
  BY <1>10 DEF OneEach, CurrentOf
<1> QED BY <1>7, <1>8, <1>9, <1>11 DEF FormsInv

(* One goes on, to where it is as it should be. *)
LEMMA GoesOnKeeps ==
    ASSUME FormsInv, NEW n \in Turns, NEW t \in Send, sends' = [sends EXCEPT ![n] = t], SendIs(n)', Grows,
           t.kind = sends[n].kind, t.old <=> sends[n].old, starting' = starting,
           question' = IF sends[n].step = "ask" THEN NoQuestion ELSE question,
           UNCHANGED <<confVars, onScreen, loaded>>
    PROVE  FormsInv'
<1>0. /\ sends \in [Turns -> Send] /\ starting \in [Kinds -> BOOLEAN] /\ OneEach(sends, starting) /\ QuestionIs
      /\ question \in Question /\ sends' \in [Turns -> Send]
      /\ UNCHANGED <<conf, customAi, reads, onScreen, loaded>>
  BY DEF FormsInv, FormsType, confVars
<1>1. \A m \in Turns : sends'[m] = IF m = n THEN t ELSE sends[m]
  BY <1>0
<1>2. FormsType'
  BY <1>0, NoSendIsTyped DEF FormsInv, FormsType
<1>3. ASSUME NEW m \in Turns, m /= n PROVE SendIs(m)'
  <2>1. SendIs(m) /\ sends'[m] = sends[m]
    BY <1>1, <1>3 DEF FormsInv
  <2>2. sends[m].step = "ask" => question' = question
    <3>1. ASSUME sends[m].step = "ask" PROVE sends[n].step /= "ask"
      BY <3>1, <2>1, <1>3 DEF FormsInv, SendIs
    <3> QED BY <3>1
  <2>3. sends[m].step /= "none" /\ ~sends[m].old => onScreen' = onScreen /\ loaded'
    BY <2>1, <1>0 DEF SendIs
  <2> QED BY <2>1, <2>2, <2>3, <1>0, SendStays
<1>4. QuestionIs'
  <2>1. CASE sends[n].step = "ask"
    BY <2>1, NoSendIsTyped DEF QuestionIs
  <2>2. CASE sends[n].step /= "ask"
    <3>1. question.turn /= 0 => sends'[question.turn] = sends[question.turn]
      BY <2>2, <1>0 DEF QuestionIs
    <3> QED BY <3>1, <2>2, <1>0 DEF QuestionIs
  <2> QED BY <2>1, <2>2
<1>5. \A m \in Turns : sends'[m].kind = sends[m].kind /\ (sends'[m].old <=> sends[m].old)
  BY <1>1
<1>6. OneEach(sends', starting)
  BY <1>0, <1>5, GoOn
<1>7. OneEach(sends, starting)'
  BY <1>6 DEF OneEach, CurrentOf
<1> QED BY <1>2, <1>3, <1>4, <1>7 DEF FormsInv

LEMMA ConfigReadKeeps ==
    ASSUME MadeInv, FormsInv, NEW n \in Turns, ConfigRead(n) PROVE FormsInv'
<1> DEFINE t == [sends[n] EXCEPT !.step = "read", !.read = conf]
<1>0. /\ sends \in [Turns -> Send] /\ sends[n] \in Send /\ SendIs(n) /\ conf \in Confs /\ sends[n].step = "config"
      /\ UNCHANGED <<confVars, viewVars, starting, question, madeVars>>
  BY DEF FormsInv, FormsType, ConfigRead
<1>1. /\ t \in Send /\ t.step = "read" /\ t.read = conf /\ t.kind = sends[n].kind /\ t.old = sends[n].old
      /\ t.of = sends[n].of /\ t.since = sends[n].since
  BY <1>0 DEF Send
<1>2. sends' = [sends EXCEPT ![n] = t] /\ sends'[n] = t
  BY <1>0 DEF ConfigRead
<1> HIDE DEF t
<1>3. Grows
  BY <1>0 DEF madeVars, Grows, Stays
<1>4. UNCHANGED <<conf, onScreen, loaded>>
  BY <1>0 DEF confVars, viewVars
<1>5. SendIs(n)'
  BY <1>0, <1>1, <1>2, <1>4 DEF SendIs
<1> QED BY <1>0, <1>1, <1>2, <1>3, <1>4, <1>5, GoesOnKeeps

LEMMA ConfigArrivesKeeps ==
    ASSUME MadeInv, FormsInv, NEW n \in Turns, ConfigArrives(n) PROVE FormsInv'
<1> DEFINE s == sends[n]
<1>0. /\ sends \in [Turns -> Send] /\ s \in Send /\ SendIs(n) /\ conf \in Confs /\ s.step \in {"config", "read"}
      /\ reads \in SUBSET Confs /\ s.read \in Confs \cup {Nil} /\ s.provider \in AnyProvider /\ s.old \in BOOLEAN
      /\ customAi' \in {Nil, s.read} /\ UNCHANGED <<viewVars, conf, reads, madeVars>>
  BY DEF FormsInv, FormsType, ConfigArrives, Send
<1>1. UNCHANGED <<onScreen, loaded, conf, reads>> /\ customAi' \in Confs \cup {Nil} /\ reads' \in SUBSET Confs
  BY <1>0 DEF viewVars
<1>2. Grows
  BY <1>0 DEF madeVars, Grows, Stays
<1>3. CASE Stands(n)
  <2>1. ~s.old /\ s.kind \in Kinds /\ s.of = onScreen /\ onScreen \in Sources /\ loaded
    BY <1>0, <1>3 DEF SendIs, Stands
  <2>2. customAi' \in s.since \cup {Nil}
    BY <1>0, <2>1 DEF SendIs
  <2>3. Asks(n, s, customAi' \in s.since \cup {Nil})
    BY <1>3 DEF ConfigArrives
  <2>4. Asks(n, s, TRUE)
    BY <2>2, <2>3 DEF Asks
  <2> QED BY <1>0, <1>1, <1>2, <2>1, <2>4, AsksKeeps
<1>4. CASE ~Stands(n)
  <2>1. Ends(n) /\ question' = question
    BY <1>4 DEF ConfigArrives
  <2> QED BY <2>1, <1>0, <1>1, <1>2, EndsKeeps
<1> QED BY <1>3, <1>4

(* What is dubbed is the original or its translation, which is done. *)
LEMMA AcceptsKeeps ==
    ASSUME MadeInv, FormsInv, SourceIs, Accepts PROVE FormsInv'
<1>0. /\ sends \in [Turns -> Send] /\ conf \in Confs /\ question \in Question /\ QuestionIs
      /\ question.turn /= 0 /\ question' = NoQuestion /\ UNCHANGED <<confVars, viewVars, starting, madeVars>>
      /\ source \in 0..MaxMade
  BY DEF FormsInv, FormsType, Accepts, SourceIs
<1>1. PICK n \in Turns : n = question.turn
  BY <1>0, PanelsBoundsAssumption DEF Question, Turns
<1> DEFINE t == [sends[n] EXCEPT !.step = "post", !.agreed = question,
                                 !.from = IF question.kind = "DUB" THEN source ELSE 0]
<1>2. SendIs(n) /\ sends[n] \in Send
  BY <1>0, <1>1 DEF FormsInv
<1>3. /\ sends[n].step = "ask" /\ ~sends[n].old /\ question.kind = sends[n].kind /\ question.of = sends[n].of
      /\ question.provider = sends[n].provider /\ question.fresh = TRUE
  BY <1>0, <1>1, <1>2 DEF QuestionIs, SendIs, Question
<1>4. sends[n].kind \in Kinds /\ sends[n].of \in Sources /\ sends[n].of = onScreen /\ loaded
  BY <1>2, <1>3 DEF SendIs
<1>5. /\ t \in Send /\ t.step = "post" /\ t.agreed = question /\ t.from \in {0, source}
      /\ t.kind = sends[n].kind /\ t.of = sends[n].of /\ t.provider = sends[n].provider /\ t.old = sends[n].old
  <2>1. (IF question.kind = "DUB" THEN source ELSE 0) \in 0..MaxMade
    BY <1>0, PanelsBoundsAssumption
  <2>2. sends[n] \in Send /\ question \in Question
    BY <1>0, <1>2
  <2> QED BY <2>1, <2>2 DEF Send
<1>6. sends' = [sends EXCEPT ![n] = t] /\ sends'[n] = t
  BY <1>0, <1>1 DEF Accepts
<1> HIDE DEF t
<1>7. Grows
  BY <1>0 DEF madeVars, Grows, Stays
<1>8. UNCHANGED <<conf, onScreen, loaded>>
  BY <1>0 DEF confVars, viewVars
<1>9. t.from /= 0 => IsTranslationOf(t.from, t.of)
  <2>1. onScreen /= Nil
    BY <1>4, NilIsNothing
  <2>2. source \in {0, translations[onScreen]}
    BY <1>4, <2>1 DEF SourceIs, Context
  <2>3. translations[onScreen] /= 0 => IsTranslationOf(translations[onScreen], onScreen)
    BY <1>4 DEF SourceIs
  <2> QED BY <1>4, <1>5, <2>2, <2>3
<1>10. t.from /= 0 => /\ t.from \in DOMAIN made' /\ made'[t.from].kind = "TRANSLATE"
                      /\ made'[t.from].status = "COMPLETED" /\ made'[t.from].of = t.of
  BY <1>7, <1>9 DEF IsTranslationOf, Grows, Stays
<1>11. (sends[n].from /= 0 => IsTranslationOf(sends[n].from, sends[n].of))'
  BY <1>6, <1>10 DEF IsTranslationOf
<1>12. AgreedOn(sends'[n].agreed, sends'[n])
  BY <1>3, <1>5, <1>6 DEF AgreedOn
<1>13. SendIs(n)'
  BY <1>4, <1>3, <1>5, <1>6, <1>8, <1>11, <1>12 DEF SendIs
<1>14. sends[n].step = "ask" /\ (t.old <=> sends[n].old)
  BY <1>3, <1>5
<1> QED BY <1>0, <1>5, <1>6, <1>7, <1>8, <1>13, <1>14, GoesOnKeeps

LEMMA DeclinesKeeps ==
    ASSUME MadeInv, FormsInv, Declines PROVE FormsInv'
<1> DEFINE n == question.turn
<1>0. /\ question \in Question /\ QuestionIs /\ n /= 0 /\ question' = NoQuestion /\ Ends(n)
      /\ conf \in Confs /\ customAi \in Confs \cup {Nil} /\ reads \in SUBSET Confs
      /\ UNCHANGED <<confVars, viewVars, madeVars>>
  BY DEF FormsInv, FormsType, Declines
<1>1. n \in Turns /\ sends[n].step = "ask"
  BY <1>0, PanelsBoundsAssumption DEF Question, Turns, QuestionIs
<1>2. UNCHANGED <<conf, customAi, reads, onScreen, loaded>>
  BY <1>0 DEF confVars, viewVars
<1>3. Grows
  BY <1>0 DEF madeVars, Grows, Stays
<1> QED BY <1>0, <1>1, <1>2, <1>3, EndsKeeps

(* The job of a submission is what the submission said. *)
LEMMA ServeKeeps ==
    ASSUME MadeInv, FormsInv, NEW n \in Turns, Serve(n) PROVE MadeInv' /\ Grows /\ FormsInv'
<1> DEFINE s == sends[n]
           j == [kind |-> s.kind, of |-> s.of, provider |-> s.provider, from |-> s.from, agreed |-> s.agreed,
                 by |-> "person", status |-> "live"]
           t == [s EXCEPT !.step = "created", !.job = Len(made) + 1, !.agreed = NoQuestion, !.from = 0]
<1>0. /\ sends \in [Turns -> Send] /\ s \in Send /\ SendIs(n) /\ s.step = "post" /\ Len(made) < MaxMade
      /\ made' = Append(made, j) /\ sends' = [sends EXCEPT ![n] = t]
      /\ UNCHANGED <<confVars, viewVars, starting, question, recents>>
  BY DEF FormsInv, FormsType, Serve
<1>1. s.kind \in Kinds /\ s.of \in Sources /\ AgreedOn(s.agreed, s) /\ (s.from /= 0 => IsTranslationOf(s.from, s.of))
  BY <1>0 DEF SendIs
<1>2. j \in Job
  BY <1>0, <1>1 DEF Send, Job, Status
<1>3. AgreedOn(j.agreed, j) /\ (j.from /= 0 => IsTranslationOf(j.from, j.of)) /\ j.kind = s.kind /\ j.of = s.of
      /\ (j.by = "chain" => j.kind = "BURN")
  BY <1>1 DEF AgreedOn
<1> HIDE DEF j
<1>4. /\ MadeInv' /\ Grows /\ Len(made) + 1 \in DOMAIN made' /\ made'[Len(made) + 1] = j
      /\ Len(made) + 1 \in 0..MaxMade
  BY <1>0, <1>2, <1>3, AppendKeeps
<1>5. /\ t \in Send /\ t.step = "created" /\ t.kind = s.kind /\ t.of = s.of /\ t.old = s.old
      /\ t.job = Len(made) + 1
  <2>1. s \in Send /\ Len(made) + 1 \in 0..MaxMade /\ NoQuestion \in Question /\ 0 \in 0..MaxMade
    BY <1>0, <1>4, NoSendIsTyped, PanelsBoundsAssumption
  <2> HIDE DEF s
  <2> QED BY <2>1 DEF Send
<1>6. sends'[n] = t
  BY <1>0
<1> HIDE DEF t
<1>7. UNCHANGED <<conf, onScreen, loaded>>
  BY <1>0 DEF confVars, viewVars
<1>8. t.job \in DOMAIN made' /\ made'[t.job].kind = s.kind /\ made'[t.job].of = s.of
  BY <1>3, <1>4, <1>5
<1>9. SendIs(n)'
  <2>1. s.step /= "none" /\ ~s.old => s.of = onScreen' /\ loaded'
    BY <1>0, <1>7 DEF SendIs
  <2>2. t.step /= "none" /\ ~t.old => t.of = onScreen' /\ loaded'
    BY <1>0, <1>5, <2>1
  <2> HIDE DEF s
  <2> QED BY <1>1, <1>5, <1>6, <1>8, <2>2 DEF SendIs
<1>10. s.step /= "ask" /\ (t.old <=> s.old) /\ t.kind = s.kind
  BY <1>0, <1>5
<1>11. FormsInv'
  BY <1>0, <1>4, <1>5, <1>7, <1>9, <1>10, GoesOnKeeps
<1> QED BY <1>4, <1>11

LEMMA RefusedKeeps ==
    ASSUME MadeInv, FormsInv, NEW n \in Turns, Refused(n) PROVE FormsInv'
<1>0. /\ sends[n].step \notin {"none", "ask"} /\ Ends(n) /\ question' = question
      /\ conf \in Confs /\ customAi \in Confs \cup {Nil} /\ reads \in SUBSET Confs
      /\ UNCHANGED <<confVars, viewVars, madeVars>>
  BY DEF FormsInv, FormsType, Refused
<1>1. UNCHANGED <<conf, customAi, reads, onScreen, loaded>> /\ Grows
  BY <1>0 DEF confVars, viewVars, madeVars, Grows, Stays
<1> QED BY <1>0, <1>1, EndsKeeps

LEMMA StartedForms ==
    ASSUME MadeInv, FormsInv, NEW n \in Turns, Started(n) PROVE FormsInv'
<1>0. /\ sends[n].step \notin {"none", "ask"} /\ Ends(n) /\ question' = question
      /\ conf \in Confs /\ customAi \in Confs \cup {Nil} /\ reads \in SUBSET Confs
      /\ UNCHANGED <<confVars, viewVars, made>>
  BY DEF FormsInv, FormsType, Started
<1>1. UNCHANGED <<conf, customAi, reads, onScreen, loaded>> /\ Grows
  BY <1>0 DEF confVars, viewVars, Grows, Stays
<1> QED BY <1>0, <1>1, EndsKeeps

LEMMA FirstTurnIsThere ==
    ASSUME NEW T \in SUBSET Turns, T /= {} PROVE (CHOOSE m \in T : \A o \in T : m <= o) \in T
<1>1. T \in SUBSET Nat
  BY PanelsBoundsAssumption DEF Turns
<1>2. PICK i \in T : \A k \in T : <<k, i>> \notin OpToRel(<, Nat)
  BY <1>1, NatLessThanWellFounded, WFMin
<1>3. \A k \in T : <<k, i>> \in Nat \X Nat
  BY <1>1
<1>4. \A k \in T : ~(k < i)
  BY <1>2, <1>3 DEF OpToRel
<1>5. \A k \in T : i <= k
  BY <1>1, <1>4
<1> QED BY <1>5, Zenon

(* A submission begins: the first of the steps its request needs. *)
LEMMA SubmitKeeps ==
    ASSUME MadeInv, FormsInv, ViewInv, NEW k \in Kinds, NEW p \in Providers[k], Submit(k, p) PROVE FormsInv'
<1> DEFINE free == {m \in Turns : sends[m].step = "none"}
<1>1. PICK n \in Turns : n = CHOOSE m \in free : \A o \in free : m <= o
  BY FirstTurnIsThere DEF Submit
<1>2. sends[n].step = "none"
  <2>1. free /= {} /\ free \in SUBSET Turns
    BY DEF Submit
  <2> HIDE DEF free
  <2>2. n \in free
    BY <1>1, <2>1, FirstTurnIsThere
  <2> QED BY <2>2 DEF free
<1> DEFINE s == [NoSend EXCEPT !.step = FirstStep(k, p), !.kind = k, !.of = onScreen, !.provider = p,
                               !.since = IF FirstStep(k, p) = "config" THEN {conf} ELSE {}]
<1>3. /\ IF s.step = "ask" THEN Asks(n, s, k = "TRANSLATE" => customAi \in {conf, Nil})
         ELSE sends' = [sends EXCEPT ![n] = s] /\ starting' = [starting EXCEPT ![k] = TRUE] /\ question' = question
      /\ Context /\ ~starting[k] /\ UNCHANGED <<viewVars, confVars, madeVars>>
  BY <1>1 DEF Submit
<1>4. /\ sends \in [Turns -> Send] /\ starting \in [Kinds -> BOOLEAN] /\ OneEach(sends, starting) /\ QuestionIs
      /\ SendIs(n) /\ sends[n] \in Send /\ conf \in Confs /\ customAi \in Confs \cup {Nil} /\ reads \in SUBSET Confs
      /\ question \in Question
  BY DEF FormsInv, FormsType
<1>5. onScreen \in Sources /\ loaded = TRUE
  BY <1>3 DEF ViewInv, Context
<1>6. p \in AnyProvider
  <2>1. k \in {"TRANSLATE", "DUB", "BURN"} /\ p \in Providers[k] /\ Offered \subseteq External
    BY PanelsOfferedAssumption DEF Kinds
  <2>2. p \in {"argos"} \cup Offered \cup {"ffmpeg"}
    BY <2>1 DEF Providers
  <2> QED BY <2>1, <2>2 DEF AnyProvider
<1>7. /\ s \in Send /\ s.kind = k /\ s.of = onScreen /\ s.provider = p /\ s.old = FALSE /\ s.read = Nil
      /\ s.from = 0 /\ s.step = FirstStep(k, p) /\ s.since = (IF FirstStep(k, p) = "config" THEN {conf} ELSE {})
      /\ FirstStep(k, p) \in {"post", "config", "ask"}
  <2>1. NoSend \in Send /\ NoSend.old = FALSE /\ NoSend.read = Nil /\ NoSend.from = 0
    BY NoSendIsTyped DEF NoSend
  <2>2. FirstStep(k, p) \in {"post", "config", "ask"}
    BY DEF FirstStep
  <2>3. (IF FirstStep(k, p) = "config" THEN {conf} ELSE {}) \in SUBSET Confs
    BY <1>4
  <2>4. k \in AnyKind /\ onScreen \in Sources \cup {Nil}
    BY <1>5 DEF AnyKind
  <2> QED BY <1>6, <2>1, <2>2, <2>3, <2>4, ZenonT(30) DEF Send
<1> HIDE DEF s
<1>8. UNCHANGED <<onScreen, loaded, conf, customAi, reads>> /\ Grows
  BY <1>3 DEF viewVars, confVars, madeVars, Grows, Stays
<1>9. CASE FirstStep(k, p) = "ask"
  <2>1. k /= "TRANSLATE"
    BY <1>9 DEF FirstStep
  <2>2. Asks(n, s, TRUE)
    BY <1>3, <1>7, <1>9, <2>1 DEF Asks
  <2> QED BY <1>2, <1>3, <1>4, <1>5, <1>6, <1>7, <1>8, <2>2, AsksKeeps
<1>10. CASE FirstStep(k, p) /= "ask"
  <2>1. sends' = [sends EXCEPT ![n] = s] /\ starting' = [starting EXCEPT ![k] = TRUE] /\ question' = question
    BY <1>3, <1>7, <1>10
  <2>2. \A m \in Turns : sends'[m] = IF m = n THEN s ELSE sends[m]
    BY <1>4, <2>1
  <2>3. FormsType'
    BY <1>4, <1>7, <1>8, <2>1 DEF FormsType
  <2>4. ASSUME NEW m \in Turns PROVE SendIs(m)'
    <3>1. CASE m = n
      <4>1. s.step = "post" => p \notin External
        BY <1>7 DEF FirstStep
      <4>2. s.step = "post" => AgreedOn(s.agreed, s) /\ s.from = 0
        BY <1>7, <4>1 DEF AgreedOn
      <4>3. sends'[m] = s /\ conf' = conf /\ onScreen' = onScreen /\ loaded' = loaded
        BY <1>8, <2>2, <3>1
      <4> QED BY <1>5, <1>7, <1>10, <4>2, <4>3 DEF SendIs
    <3>2. CASE m /= n
      <4>1. SendIs(m) /\ sends'[m] = sends[m]
        BY <2>2, <3>2 DEF FormsInv
      <4>2. sends[m].step /= "none" /\ ~sends[m].old => onScreen' = onScreen /\ loaded'
        BY <1>5, <1>8
      <4> QED BY <1>8, <2>1, <4>1, <4>2, SendStays
    <3> QED BY <3>1, <3>2
  <2>5. QuestionIs'
    <3>1. question.turn /= 0 => sends'[question.turn] = sends[question.turn]
      BY <1>2, <1>4, <2>1 DEF QuestionIs
    <3> QED BY <3>1, <2>1, <1>4 DEF QuestionIs
  <2>6. OneEach(sends', starting')
    <3>1. sends[n].kind = Nil
      BY <1>2, <1>4, NoSendIsTyped DEF SendIs
    <3> QED BY <3>1, <1>3, <1>4, <1>7, <2>1, BeginsOne
  <2>7. OneEach(sends, starting)'
    BY <2>6 DEF OneEach, CurrentOf
  <2> QED BY <2>3, <2>4, <2>5, <2>7 DEF FormsInv
<1> QED BY <1>9, <1>10

(* The owner of the keys saves another server or model. *)
LEMMA OwnerSavesForms ==
    ASSUME MadeInv, FormsInv, NEW c \in Confs, OwnerSaves(c) PROVE FormsInv'
<1>0. /\ sends \in [Turns -> Send] /\ starting \in [Kinds -> BOOLEAN] /\ OneEach(sends, starting) /\ QuestionIs
      /\ customAi \in Confs \cup {Nil} /\ reads \in SUBSET Confs /\ question \in Question
      /\ conf' = c /\ UNCHANGED <<starting, question, customAi, reads>> /\ UNCHANGED <<viewVars, madeVars>>
  BY DEF FormsInv, FormsType, OwnerSaves
<1>1. \A n \in Turns : sends[n] \in Send /\ SendIs(n)
  BY <1>0 DEF FormsInv
<1>2. sends' = [n \in Turns |-> IF sends[n].step \in {"config", "read"} /\ Stands(n)
                                 THEN [sends[n] EXCEPT !.since = @ \cup {c}] ELSE sends[n]]
  BY DEF OwnerSaves
<1>3. UNCHANGED <<onScreen, loaded>> /\ Grows
  BY <1>0 DEF viewVars, madeVars, Grows, Stays
<1>4. ASSUME NEW n \in Turns
      PROVE  SendIs(n)' /\ sends'[n] \in Send /\ sends'[n].kind = sends[n].kind /\ (sends'[n].old <=> sends[n].old)
             /\ (sends'[n] = sends[n] \/ sends[n].step \in {"config", "read"})
  <2>1. CASE sends[n].step \in {"config", "read"} /\ Stands(n)
    <3> DEFINE t == [sends[n] EXCEPT !.since = @ \cup {c}]
    <3>1. sends'[n] = t
      BY <1>2, <2>1
    <3>2. /\ t \in Send /\ t.step = sends[n].step /\ t.kind = sends[n].kind /\ t.old = sends[n].old /\ t.of = sends[n].of
          /\ t.since = sends[n].since \cup {c} /\ t.read = sends[n].read
      BY <1>1 DEF Send
    <3> HIDE DEF t
    <3>3. SendIs(n)'
      BY <1>0, <1>1, <1>3, <2>1, <3>1, <3>2 DEF SendIs
    <3> QED BY <2>1, <3>1, <3>2, <3>3
  <2>2. CASE sends[n].step \notin {"config", "read"}
    <3>1. sends'[n] = sends[n]
      BY <1>2, <2>2
    <3>2. sends[n].step /= "none" /\ ~sends[n].old => onScreen' = onScreen /\ loaded'
      BY <1>1, <1>3 DEF SendIs
    <3>3. SendIs(n)'
      BY <1>0, <1>1, <1>3, <2>2, <3>1, <3>2, SendStays
    <3> QED BY <1>1, <3>1, <3>3
  <2>3. CASE sends[n].step \in {"config", "read"} /\ ~Stands(n)
    <3>1. sends'[n] = sends[n] /\ sends[n].old
      BY <1>2, <2>3 DEF Stands
    <3>2. SendIs(n)'
      BY <1>1, <2>3, <3>1 DEF SendIs
    <3> QED BY <1>1, <2>3, <3>1, <3>2
  <2> QED BY <2>1, <2>2, <2>3
<1>5. sends' \in [Turns -> Send]
  BY <1>2, <1>4
<1>6. FormsType'
  BY <1>0, <1>5 DEF FormsType
<1>7. QuestionIs'
  <2>1. question.turn /= 0 => question.turn \in Turns /\ sends[question.turn].step = "ask"
    BY <1>0, PanelsBoundsAssumption DEF QuestionIs, Question, Turns
  <2>2. question.turn /= 0 => sends'[question.turn] = sends[question.turn]
    BY <1>4, <2>1
  <2> QED BY <1>0, <2>2 DEF QuestionIs
<1>8. OneEach(sends', starting)
  BY <1>0, <1>4, <1>5, GoOn
<1>9. OneEach(sends, starting)'
  BY <1>0, <1>8 DEF OneEach, CurrentOf
<1> QED BY <1>4, <1>6, <1>7, <1>9 DEF FormsInv

(* The panels are stopped: what is under way is of no panel any longer. *)
LEMMA StopForms ==
    ASSUME MadeInv, FormsInv, StopPanels, UNCHANGED <<confVars, madeVars>> PROVE FormsInv'
<1>0. /\ sends \in [Turns -> Send] /\ conf \in Confs /\ customAi \in Confs \cup {Nil} /\ reads \in SUBSET Confs
      /\ question' = NoQuestion /\ starting' = [k \in Kinds |-> FALSE]
      /\ sends' = [n \in Turns |->
           IF sends[n].step \in {"none", "ask"} THEN NoSend ELSE [sends[n] EXCEPT !.old = TRUE, !.since = {}]]
      /\ UNCHANGED <<conf, customAi, reads>> /\ Grows
  BY DEF FormsInv, FormsType, StopPanels, confVars, madeVars, Grows, Stays
<1>1. ASSUME NEW n \in Turns
      PROVE  SendIs(n)' /\ sends'[n] \in Send /\ (sends'[n].kind = Nil \/ sends'[n].old)
  <2>1. sends[n] \in Send /\ SendIs(n)
    BY <1>0 DEF FormsInv
  <2>2. CASE sends[n].step \in {"none", "ask"}
    <3>1. sends'[n] = NoSend
      BY <1>0, <2>2
    <3> QED BY <3>1, EndedIs, NoSendIsTyped
  <2>3. CASE sends[n].step \notin {"none", "ask"}
    <3> DEFINE s == sends[n]
               t == [s EXCEPT !.old = TRUE, !.since = {}]
    <3>1. sends'[n] = t
      BY <1>0, <2>3
    <3>2. /\ t \in Send /\ t.step = s.step /\ t.kind = s.kind /\ t.old = TRUE /\ t.of = s.of /\ t.read = s.read
          /\ t.agreed = s.agreed /\ t.from = s.from /\ t.job = s.job /\ t.provider = s.provider
      BY <2>1 DEF Send
    <3> HIDE DEF t
    <3>3. t.step = "post" => AgreedOn(t.agreed, t)
      BY <2>1, <3>2 DEF SendIs, AgreedOn
    <3>4. t.step = "post" /\ t.from /= 0 => /\ t.from \in DOMAIN made' /\ made'[t.from].kind = "TRANSLATE"
                                           /\ made'[t.from].status = "COMPLETED" /\ made'[t.from].of = t.of
      <4>1. t.step = "post" /\ t.from /= 0 => IsTranslationOf(t.from, t.of)
        BY <2>1, <3>2 DEF SendIs
      <4> QED BY <1>0, <4>1 DEF IsTranslationOf, Grows, Stays
    <3>5. t.step = "created" => t.job \in DOMAIN made' /\ made'[t.job].kind = t.kind /\ made'[t.job].of = t.of
      BY <1>0, <2>1, <3>2 DEF SendIs, Grows, Stays
    <3>6. (sends[n].step = "post" => (sends[n].from /= 0 => IsTranslationOf(sends[n].from, sends[n].of)))'
      BY <3>1, <3>4 DEF IsTranslationOf
    <3>7. /\ t.step \notin {"none", "ask"} /\ t.kind \in Kinds /\ t.of \in Sources
          /\ (t.step = "config" => t.read = Nil)
      BY <2>1, <2>3, <3>2 DEF SendIs
    <3>8. SendIs(n)'
      BY <3>1, <3>2, <3>3, <3>5, <3>6, <3>7 DEF SendIs
    <3> QED BY <3>1, <3>2, <3>8
  <2> QED BY <2>2, <2>3
<1>2. FormsType'
  <2>1. sends' \in [Turns -> Send]
    BY <1>0, <1>1
  <2> QED BY <1>0, <2>1, NoSendIsTyped DEF FormsType
<1>3. QuestionIs'
  BY <1>0, NoSendIsTyped DEF QuestionIs
<1>4. OneEach(sends, starting)'
  <2>1. \A k \in Kinds : CurrentOf(sends', k) = {}
    BY <1>1, NilIsNothing DEF CurrentOf
  <2> QED BY <1>0, <2>1 DEF OneEach, CurrentOf
<1> QED BY <1>1, <1>2, <1>3, <1>4 DEF FormsInv

-----------------------------------------------------------------------------
(* What the panels show.                                                   *)

LEMMA TracksAreTyped ==
    /\ NoTrack \in Tracked /\ NoTrack.job = 0 /\ Silent \in Player /\ Silent.for = Nil /\ Silent.url = Nil
    /\ NoCancel \in [job : 0..MaxMade, old : BOOLEAN] /\ NoCancel.job = 0
BY PanelsBoundsAssumption DEF NoTrack, Tracked, Status, Silent, Player, Things, NoCancel

(* A panel goes on showing what it shows. *)
LEMMA TrackStays ==
    ASSUME NEW k \in Kinds, TrackIs(k), Grows, track'[k] = track[k],
           (opening = Nil /\ opening' = Nil /\ onScreen' \in {onScreen, Nil}) \/ (opening /= Nil /\ onScreen = Nil)
    PROVE  TrackIs(k)'
<1> DEFINE i == track[k].job
<1>1. CASE i = 0
  BY <1>1 DEF TrackIs
<1>2. CASE i /= 0
  <2>1. /\ i \in DOMAIN made /\ made[i].kind = k /\ (track[k].seen = "COMPLETED" => made[i].status = "COMPLETED")
        /\ made[i].by = "chain" \/ (opening = Nil /\ (onScreen = Nil \/ made[i].of = onScreen))
    BY <1>2 DEF TrackIs
  <2>2. i \in DOMAIN made' /\ Stays(i)
    BY <2>1 DEF Grows
  <2>3. made'[i].by = "chain" \/ (opening' = Nil /\ (onScreen' = Nil \/ made'[i].of = onScreen'))
    BY <2>1, <2>2 DEF Stays
  <2> QED BY <2>1, <2>2, <2>3 DEF TrackIs, Stays
<1> QED BY <1>1, <1>2

LEMMA SourceStays ==
    ASSUME SourceIs, Grows, UNCHANGED <<translations, source, onScreen>>, loaded' => loaded
    PROVE  SourceIs'
<1>1. ASSUME NEW s \in Sources PROVE (translations[s] /= 0 => IsTranslationOf(translations[s], s))'
  <2>1. translations[s] /= 0 => IsTranslationOf(translations[s], s)
    BY DEF SourceIs
  <2> QED BY <2>1 DEF IsTranslationOf, Grows, Stays
<1> QED BY <1>1 DEF SourceIs, Context

LEMMA CancelsStay ==
    ASSUME Grows, NEW k \in Kinds, cancels'[k].job \in {0, cancels[k].job},
           cancels[k].job /= 0 => cancels[k].job \in DOMAIN made
    PROVE  cancels'[k].job /= 0 => cancels'[k].job \in DOMAIN made'
BY DEF Grows

(* The panels, and what plays, stay. *)
LEMMA ShowStays ==
    ASSUME ShowInv, Grows, UNCHANGED <<track, cancels, player, translations, source, onScreen, loaded>>,
           opening' = opening \/ (opening' = Nil /\ onScreen = Nil), opening /= Nil => onScreen = Nil
    PROVE  ShowInv'
<1>1. ASSUME NEW k \in Kinds PROVE TrackIs(k)'
  <2>1. TrackIs(k) /\ track'[k] = track[k]
    BY DEF ShowInv
  <2>2. opening = Nil => opening' = Nil /\ onScreen' = onScreen
    OBVIOUS
  <2> QED BY <2>1, <2>2, TrackStays
<1>2. \A k \in Kinds : cancels'[k].job /= 0 => cancels'[k].job \in DOMAIN made'
  BY DEF ShowInv, Grows
<1>3. SourceIs'
  BY SourceStays DEF ShowInv
<1>4. PlayIs'
  BY DEF ShowInv, PlayIs
<1> QED BY <1>1, <1>2, <1>3, <1>4 DEF ShowInv

(* What plays once the burn panel shows t, which is what it showed unless what
   it played was cleared. *)
LEMMA VideoIs ==
    ASSUME NEW t \in Tracked, NEW video \in Player, video.url /= Nil => video.url = video.for,
           video.for \in {Nil, t.job}
    PROVE  /\ VideoOf(video, t) \in Player
           /\ VideoOf(video, t).url /= Nil => VideoOf(video, t).url = VideoOf(video, t).for
           /\ VideoOf(video, t).for /= Nil => VideoOf(video, t).for = t.job /\ t.seen = "COMPLETED"
<1>0. t.job \in 0..MaxMade /\ MaxMade \in Nat
  BY PanelsBoundsAssumption DEF Tracked
<1>1. CASE t.job = 0 \/ t.seen /= "COMPLETED"
  <2>1. VideoOf(video, t) = Silent
    BY <1>1 DEF VideoOf, Cleared
  <2> QED BY <2>1, TracksAreTyped
<1>2. CASE ~(t.job = 0 \/ t.seen /= "COMPLETED") /\ video.for = t.job
  <2>1. VideoOf(video, t) = video
    BY <1>2 DEF VideoOf
  <2> QED BY <1>2, <2>1
<1>3. CASE ~(t.job = 0 \/ t.seen /= "COMPLETED") /\ video.for /= t.job
  <2>1. VideoOf(video, t) = [video EXCEPT !.for = t.job, !.loads = @ \cup {t.job}]
    BY <1>3 DEF VideoOf, Loading
  <2>2. video.url = Nil
    BY <1>3
  <2>3. t.job \in Things
    BY <1>0, <1>3 DEF Things, Made
  <2>4. (video.loads \cup {t.job}) \in SUBSET Things
    BY <2>3 DEF Player
  <2>5. [video EXCEPT !.for = t.job, !.loads = @ \cup {t.job}] \in Player
    BY <2>3, <2>4, ZenonT(30) DEF Player
  <2>6. [video EXCEPT !.for = t.job, !.loads = @ \cup {t.job}].for = t.job
    BY DEF Player
  <2>7. [video EXCEPT !.for = t.job, !.loads = @ \cup {t.job}].url = Nil
    BY <2>2 DEF Player
  <2> QED BY <1>3, <2>1, <2>5, <2>6, <2>7
<1> QED BY <1>1, <1>2, <1>3

(* The panel k shows t. *)
LEMMA RendersKeeps ==
    ASSUME MadeInv, ShowInv, ViewInv, Grows, made' \in Seq(Job),
           NEW k \in Kinds, NEW t \in Tracked, NEW video, Renders(k, t, video),
           video = Cleared \/ (video = player["video"] /\ t.job = track[k].job),
           t.job \in DOMAIN made, made[t.job].kind = k,
           t.seen = "COMPLETED" => made'[t.job].status = "COMPLETED",
           \/ made[t.job].by = "chain"
           \/ opening' = Nil /\ (onScreen = Nil \/ made[t.job].of = onScreen),
           cancels' \in [Kinds -> [job : 0..MaxMade, old : BOOLEAN]],
           \A x \in Kinds : cancels'[x].job \in {0, cancels[x].job},
           UNCHANGED <<onScreen, loaded>>, opening' \in {opening, Nil}
    PROVE  ShowInv'
<1> DEFINE done == k = "TRANSLATE" /\ t.job /= 0 /\ t.seen = "COMPLETED"
           offered == IF done THEN [translations EXCEPT ![made[t.job].of] = t.job] ELSE translations
<1>0. /\ track' = [track EXCEPT ![k] = t] /\ translations' = offered
      /\ source' = (IF done /\ Context THEN Kept(source, offered[onScreen]) ELSE source)
      /\ player' = (IF k = "BURN" THEN [player EXCEPT !["video"] = VideoOf(video, t)] ELSE player)
  BY DEF Renders
<1>1. /\ track \in [Kinds -> Tracked] /\ SourceIs /\ PlayIs /\ player \in [{"video", "audio"} -> Player]
      /\ Stays(t.job) /\ t.job \in DOMAIN made' /\ made[t.job].of \in Sources /\ t.job \in 1..MaxMade
      /\ opening /= Nil => onScreen = Nil
  <2>1. made[t.job].of \in Sources /\ t.job \in 1..MaxMade
    BY JobsAreTyped DEF MadeInv, Made
  <2> QED BY <2>1 DEF ShowInv, PlayIs, Grows, ViewInv, Tracked
<1>2. \A x \in Kinds : track'[x] = IF x = k THEN t ELSE track[x]
  BY <1>0, <1>1
<1>3. track' \in [Kinds -> Tracked]
  BY <1>0, <1>1
<1>4. ASSUME NEW x \in Kinds PROVE TrackIs(x)'
  <2>1. CASE x = k
    BY <2>1, <1>1, <1>2 DEF TrackIs, Stays
  <2>2. CASE x /= k
    BY <2>2, <1>1, <1>2, TrackStays DEF ShowInv
  <2> QED BY <2>1, <2>2
<1>5. \A x \in Kinds : cancels'[x].job /= 0 => cancels'[x].job \in DOMAIN made'
  BY CancelsStay DEF ShowInv
<1>6. SourceIs'
  <2>1. CASE ~done
    BY <2>1, <1>0, <1>1, SourceStays
  <2>2. CASE done
    <3>1. /\ translations \in [Sources -> 0..MaxMade] /\ source \in 0..MaxMade
          /\ translations' = [translations EXCEPT ![made[t.job].of] = t.job]
      BY <1>0, <1>1, <2>2 DEF SourceIs
    <3>2. \A s \in Sources : translations'[s] = IF s = made[t.job].of THEN t.job ELSE translations[s]
      BY <3>1
    <3>3. translations' \in [Sources -> 0..MaxMade]
      BY <1>1, <3>1
    <3>4. ASSUME NEW s \in Sources PROVE (translations[s] /= 0 => IsTranslationOf(translations[s], s))'
      <4>1. CASE s = made[t.job].of
        BY <4>1, <1>1, <2>2, <3>2 DEF IsTranslationOf, Stays
      <4>2. CASE s /= made[t.job].of
        <5>1. translations[s] /= 0 => IsTranslationOf(translations[s], s)
          BY <1>1 DEF SourceIs
        <5> QED BY <4>2, <3>2, <5>1 DEF IsTranslationOf, Grows, Stays
      <4> QED BY <4>1, <4>2
    <3>5. Context' = Context
      BY DEF Context
    <3>6. source' \in 0..MaxMade /\ (Context => source' \in {0, translations'[onScreen]})
      <4>1. CASE Context
        <5>1. onScreen \in Sources
          BY <4>1 DEF Context, ViewInv
        <5>2. source' = Kept(source, translations'[onScreen]) /\ translations'[onScreen] \in 0..MaxMade
          BY <1>0, <2>2, <3>3, <4>1, <5>1
        <5> QED BY <3>1, <5>2, PanelsBoundsAssumption DEF Kept
      <4>2. CASE ~Context
        BY <4>2, <1>0, <3>1
      <4> QED BY <4>1, <4>2
    <3> QED BY <3>3, <3>4, <3>5, <3>6 DEF SourceIs
  <2> QED BY <2>1, <2>2
<1>7. PlayIs'
  <2>1. CASE k /= "BURN"
    <3>1. player' = player /\ track'["BURN"] = track["BURN"] /\ onScreen' = onScreen
      BY <1>0, <1>2, <2>1 DEF Kinds
    <3> QED BY <3>1, <1>1 DEF PlayIs
  <2>2. CASE k = "BURN"
    <3>1. video \in Player /\ (video.url /= Nil => video.url = video.for) /\ video.for \in {Nil, t.job}
      <4>1. CASE video = Cleared
        BY <4>1, TracksAreTyped DEF Cleared
      <4>2. CASE video = player["video"] /\ t.job = track[k].job
        BY <4>2, <2>2, <1>1 DEF PlayIs
      <4> QED BY <4>1, <4>2
    <3>2. player' = [player EXCEPT !["video"] = VideoOf(video, t)] /\ track'["BURN"] = t
      BY <1>0, <1>2, <2>2
    <3>3. player'["video"] = VideoOf(video, t) /\ player'["audio"] = player["audio"]
      BY <1>1, <3>2
    <3>4. /\ VideoOf(video, t) \in Player
          /\ VideoOf(video, t).url /= Nil => VideoOf(video, t).url = VideoOf(video, t).for
          /\ VideoOf(video, t).for /= Nil => VideoOf(video, t).for = t.job /\ t.seen = "COMPLETED"
      BY <3>1, VideoIs
    <3>5. player' \in [{"video", "audio"} -> Player]
      BY <1>1, <3>2, <3>4
    <3> QED BY <1>1, <3>2, <3>3, <3>4, <3>5 DEF PlayIs
  <2> QED BY <2>1, <2>2
<1> QED BY <1>3, <1>4, <1>5, <1>6, <1>7 DEF ShowInv

LEMMA ShowsKeeps ==
    ASSUME MadeInv, ShowInv, ViewInv, Grows, made' \in Seq(Job), NEW k \in Kinds, NEW t \in Tracked, Shows(k, t),
           t.job /= 0, t.job = track[k].job, t.seen = "COMPLETED" => made'[t.job].status = "COMPLETED",
           cancels' \in [Kinds -> [job : 0..MaxMade, old : BOOLEAN]],
           \A x \in Kinds : cancels'[x].job \in {0, cancels[x].job},
           UNCHANGED viewVars
    PROVE  ShowInv'
<1>1. TrackIs(k) /\ UNCHANGED <<onScreen, loaded, opening>>
  BY DEF ShowInv, viewVars
<1>2. /\ t.job \in DOMAIN made /\ made[t.job].kind = k
      /\ made[t.job].by = "chain" \/ (opening' = Nil /\ (onScreen = Nil \/ made[t.job].of = onScreen))
  BY <1>1 DEF TrackIs
<1>3. Renders(k, t, player["video"])
  BY DEF Shows
<1> QED BY <1>1, <1>2, <1>3, RendersKeeps

LEMMA TakesKeeps ==
    ASSUME MadeInv, ShowInv, ViewInv, made' = made, NEW k \in Kinds, NEW i \in DOMAIN made, NEW seen \in Status,
           Takes(k, i, seen), made[i].kind = k, seen = "COMPLETED" => made[i].status = "COMPLETED",
           \/ made[i].by = "chain"
           \/ opening' = Nil /\ (onScreen = Nil \/ made[i].of = onScreen),
           UNCHANGED <<cancels, onScreen, loaded>>, opening' \in {opening, Nil}
    PROVE  ShowInv'
<1> DEFINE t == [NoTrack EXCEPT !.job = i, !.seen = seen]
<1>1. i \in 0..MaxMade /\ made' \in Seq(Job) /\ Grows
  BY JobsAreTyped, PanelsBoundsAssumption DEF MadeInv, Made, Grows, Stays
<1>2. t \in Tracked /\ t.job = i /\ t.seen = seen
  BY <1>1 DEF NoTrack, Tracked
<1>3. Renders(k, t, Cleared)
  BY DEF Takes
<1> HIDE DEF t
<1>4. cancels' \in [Kinds -> [job : 0..MaxMade, old : BOOLEAN]] /\ \A x \in Kinds : cancels'[x].job \in {0, cancels[x].job}
  BY DEF ShowInv
<1> QED BY <1>1, <1>2, <1>3, <1>4, RendersKeeps

-----------------------------------------------------------------------------
(* Every step of the panels.                                               *)

LEMMA GesturesCount ==
    ASSUME gestures \in 0..MaxGestures, Gesture \/ gestures' = gestures PROVE gestures' \in 0..MaxGestures
BY PanelsBoundsAssumption DEF Gesture

LEMMA ViewStays ==
    ASSUME ViewInv, Grows, UNCHANGED viewVars PROVE ViewInv'
BY DEF ViewInv, viewVars, Grows

LEMMA FormsAndView ==
    ASSUME FormsInv, ViewInv, Grows, UNCHANGED <<viewVars, formVars, confVars>> PROVE FormsInv' /\ ViewInv'
<1>1. /\ UNCHANGED formVars /\ conf' = conf /\ customAi' \in Confs \cup {Nil} /\ reads' \in SUBSET Confs
      /\ onScreen' = onScreen /\ loaded' = loaded
  BY DEF FormsInv, FormsType, confVars, viewVars
<1> QED BY <1>1, FormsStay, ViewStays

LEMMA SameJobs ==
    ASSUME MadeInv, UNCHANGED madeVars PROVE MadeInv' /\ Grows
<1>1. made' = made /\ recents' \subseteq DOMAIN made
  BY DEF madeVars, MadeInv
<1> QED BY <1>1, MadeStays

(* What is shown stays while the forms change. *)
LEMMA PanelsStay ==
    ASSUME ShowInv, ViewInv, Grows, UNCHANGED <<viewVars, panelVars>> PROVE ShowInv' /\ ViewInv'
<1>1. UNCHANGED <<track, cancels, player, translations, source, onScreen, loaded, opening>>
  BY DEF viewVars, panelVars
<1>2. opening /= Nil => onScreen = Nil
  BY DEF ViewInv
<1> QED BY <1>1, <1>2, ShowStays, ViewStays

LEMMA SubmitSteps ==
    ASSUME PanelsInv, NEW k \in Kinds, NEW p \in Providers[k], Submit(k, p) PROVE PanelsInv'
<1>1. Gesture /\ UNCHANGED <<viewVars, panelVars>> /\ UNCHANGED madeVars
  BY DEF Submit
<1>2. MadeInv' /\ Grows
  BY <1>1, SameJobs DEF PanelsInv
<1>3. FormsInv'
  BY SubmitKeeps DEF PanelsInv
<1> QED BY <1>1, <1>2, <1>3, PanelsStay, GesturesCount DEF PanelsInv

LEMMA ConfigReadSteps ==
    ASSUME PanelsInv, NEW n \in Turns, ConfigRead(n) PROVE PanelsInv'
<1>1. gestures' = gestures /\ UNCHANGED <<viewVars, panelVars>> /\ UNCHANGED madeVars
  BY DEF ConfigRead
<1>2. MadeInv' /\ Grows
  BY <1>1, SameJobs DEF PanelsInv
<1>3. FormsInv'
  BY ConfigReadKeeps DEF PanelsInv
<1> QED BY <1>1, <1>2, <1>3, PanelsStay, GesturesCount DEF PanelsInv

LEMMA ConfigArrivesSteps ==
    ASSUME PanelsInv, NEW n \in Turns, ConfigArrives(n) PROVE PanelsInv'
<1>1. gestures' = gestures /\ UNCHANGED <<viewVars, panelVars>> /\ UNCHANGED madeVars
  BY DEF ConfigArrives
<1>2. MadeInv' /\ Grows
  BY <1>1, SameJobs DEF PanelsInv
<1>3. FormsInv'
  BY ConfigArrivesKeeps DEF PanelsInv
<1> QED BY <1>1, <1>2, <1>3, PanelsStay, GesturesCount DEF PanelsInv

LEMMA QuestionSteps ==
    ASSUME PanelsInv, Accepts \/ Declines PROVE PanelsInv'
<1>1. Gesture /\ UNCHANGED <<viewVars, panelVars>> /\ UNCHANGED madeVars
  BY DEF Accepts, Declines
<1>2. MadeInv' /\ Grows
  BY <1>1, SameJobs DEF PanelsInv
<1>3. FormsInv'
  BY AcceptsKeeps, DeclinesKeeps DEF PanelsInv, ShowInv
<1> QED BY <1>1, <1>2, <1>3, PanelsStay, GesturesCount DEF PanelsInv

LEMMA ServeSteps ==
    ASSUME PanelsInv, NEW n \in Turns, Serve(n) PROVE PanelsInv'
<1>1. gestures' = gestures /\ UNCHANGED <<viewVars, panelVars>>
  BY DEF Serve
<1>2. MadeInv' /\ Grows /\ FormsInv'
  BY ServeKeeps DEF PanelsInv
<1> QED BY <1>1, <1>2, PanelsStay, GesturesCount DEF PanelsInv

LEMMA RefusedSteps ==
    ASSUME PanelsInv, NEW n \in Turns, Refused(n) PROVE PanelsInv'
<1>1. gestures' = gestures /\ UNCHANGED <<viewVars, panelVars>> /\ UNCHANGED madeVars
  BY DEF Refused
<1>2. MadeInv' /\ Grows
  BY <1>1, SameJobs DEF PanelsInv
<1>3. FormsInv'
  BY RefusedKeeps DEF PanelsInv
<1> QED BY <1>1, <1>2, <1>3, PanelsStay, GesturesCount DEF PanelsInv

LEMMA OwnerSavesSteps ==
    ASSUME PanelsInv, NEW c \in Confs, OwnerSaves(c) PROVE PanelsInv'
<1>1. Gesture /\ UNCHANGED <<viewVars, panelVars>> /\ UNCHANGED madeVars
  BY DEF OwnerSaves
<1>2. MadeInv' /\ Grows
  BY <1>1, SameJobs DEF PanelsInv
<1>3. FormsInv'
  BY OwnerSavesForms DEF PanelsInv
<1> QED BY <1>1, <1>2, <1>3, PanelsStay, GesturesCount DEF PanelsInv

LEMMA RereadsSteps ==
    ASSUME PanelsInv, Rereads \/ (\E c \in reads : RereadArrives(c)) PROVE PanelsInv'
<1>1. /\ Gesture \/ gestures' = gestures
      /\ UNCHANGED <<viewVars, panelVars>> /\ UNCHANGED madeVars
      /\ UNCHANGED formVars /\ conf' = conf
  BY DEF Rereads, RereadArrives
<1>2. MadeInv' /\ Grows
  BY <1>1, SameJobs DEF PanelsInv
<1>3. conf \in Confs /\ customAi \in Confs \cup {Nil} /\ reads \in SUBSET Confs
  BY DEF PanelsInv, FormsInv, FormsType
<1>4. customAi' \in Confs \cup {Nil} /\ reads' \in SUBSET Confs
  BY <1>3 DEF Rereads, RereadArrives
<1>5. onScreen' = onScreen /\ loaded' = loaded
  BY <1>1 DEF viewVars
<1>6. FormsInv'
  BY <1>1, <1>2, <1>4, <1>5, FormsStay DEF PanelsInv
<1> QED BY <1>1, <1>2, <1>6, PanelsStay, GesturesCount DEF PanelsInv

(* What arrives is played only if it is what is loaded by now. *)
LEMMA MediaSteps ==
    ASSUME PanelsInv, NEW p \in {"video", "audio"}, NEW l \in player[p].loads, MediaArrives(p, l) \/ MediaFails(p, l)
    PROVE  PanelsInv'
<1>1. /\ gestures' = gestures /\ UNCHANGED <<viewVars, formVars, confVars>> /\ UNCHANGED madeVars
      /\ UNCHANGED <<track, cancels, translations, source>>
      /\ UNCHANGED <<onScreen, loaded, opening>>
  BY DEF MediaArrives, MediaFails, viewVars
<1>2. MadeInv' /\ Grows
  BY <1>1, SameJobs DEF PanelsInv
<1>3. PlayIs /\ player \in [{"video", "audio"} -> Player] /\ player[p] \in Player
  BY DEF PanelsInv, ShowInv, PlayIs
<1>4. PICK q \in Player : /\ player' = [player EXCEPT ![p] = q] /\ q.for = player[p].for
                          /\ q.url = player[p].url \/ q.url = q.for
  <2>1. CASE MediaArrives(p, l)
    <3> DEFINE q == [player[p] EXCEPT !.loads = @ \ {l}, !.url = IF player[p].for = l THEN l ELSE @]
    <3>1. player' = [player EXCEPT ![p] = q]
      BY <1>3, <2>1 DEF MediaArrives
    <3>2. q \in Player /\ q.for = player[p].for /\ (q.url = player[p].url \/ q.url = q.for)
      BY <1>3 DEF Player
    <3> QED BY <3>1, <3>2
  <2>2. CASE MediaFails(p, l)
    <3> DEFINE q == [player[p] EXCEPT !.loads = @ \ {l}]
    <3>1. player' = [player EXCEPT ![p] = q]
      BY <1>3, <2>2 DEF MediaFails
    <3>2. q \in Player /\ q.for = player[p].for /\ q.url = player[p].url
      BY <1>3 DEF Player
    <3> QED BY <3>1, <3>2
  <2> QED BY <2>1, <2>2
<1>5. PlayIs'
  <2>1. player' \in [{"video", "audio"} -> Player]
    BY <1>3, <1>4
  <2>2. \A x \in {"video", "audio"} : player'[x].for = player[x].for
    BY <1>3, <1>4
  <2>3. \A x \in {"video", "audio"} : player'[x].url /= Nil => player'[x].url = player'[x].for
    <3>1. ASSUME NEW x \in {"video", "audio"}, player'[x].url /= Nil PROVE player'[x].url = player'[x].for
      <4>1. player[x].url /= Nil => player[x].url = player[x].for
        BY <1>3 DEF PlayIs
      <4>2. CASE x = p
        BY <4>1, <4>2, <3>1, <1>3, <1>4
      <4>3. CASE x /= p
        BY <4>1, <4>3, <3>1, <1>3, <1>4
      <4> QED BY <4>2, <4>3
    <3> QED BY <3>1
  <2>4. player'["video"].for = player["video"].for /\ player'["audio"].for = player["audio"].for
    BY <2>2
  <2>5. track' = track /\ onScreen' = onScreen
    BY <1>1
  <2> QED BY <2>1, <2>3, <2>4, <2>5, <1>3 DEF PlayIs
<1>6. ASSUME NEW k \in Kinds PROVE TrackIs(k)' /\ (cancels'[k].job /= 0 => cancels'[k].job \in DOMAIN made')
  <2>1. TrackIs(k) /\ track'[k] = track[k]
    BY <1>1 DEF PanelsInv, ShowInv
  <2>2. (opening = Nil /\ opening' = Nil /\ onScreen' = onScreen) \/ (opening /= Nil /\ onScreen = Nil)
    BY <1>1 DEF PanelsInv, ViewInv
  <2>3. cancels'[k].job /= 0 => cancels'[k].job \in DOMAIN made'
    BY <1>1, <1>2 DEF PanelsInv, ShowInv, Grows
  <2> QED BY <1>2, <2>1, <2>2, <2>3, TrackStays
<1>7. SourceIs'
  BY <1>1, <1>2, SourceStays DEF PanelsInv, ShowInv
<1>8. ShowInv'
  BY <1>1, <1>5, <1>6, <1>7 DEF PanelsInv, ShowInv
<1> QED BY <1>1, <1>2, <1>8, FormsAndView, GesturesCount DEF PanelsInv

LEMMA SeenSteps ==
    ASSUME PanelsInv, NEW k \in Kinds, JobSeen(k) \/ Loses(k) \/ Reconnect(k) PROVE PanelsInv'
<1>1. /\ Gesture \/ gestures' = gestures
      /\ UNCHANGED <<viewVars, formVars, confVars>> /\ UNCHANGED madeVars /\ UNCHANGED cancels
      /\ UNCHANGED viewVars
  BY DEF JobSeen, Loses, Reconnect
<1>2. MadeInv' /\ Grows
  BY <1>1, SameJobs DEF PanelsInv
<1>3. /\ track[k] \in Tracked /\ TrackIs(k) /\ cancels \in [Kinds -> [job : 0..MaxMade, old : BOOLEAN]]
      /\ made \in Seq(Job) /\ made' = made
  BY <1>1 DEF PanelsInv, ShowInv, MadeInv, madeVars
<1>4. PICK t \in Tracked : /\ Shows(k, t) /\ t.job = track[k].job /\ t.job /= 0
                           /\ t.seen = "COMPLETED" => made[t.job].status = "COMPLETED"
  <2>1. CASE JobSeen(k)
    <3> DEFINE t == [track[k] EXCEPT !.seen = made[track[k].job].status]
    <3>1. Shows(k, t) /\ track[k].job /= 0
      BY <2>1 DEF JobSeen
    <3>2. track[k].job \in DOMAIN made /\ made[track[k].job].status \in Status
      BY <3>1, <1>3, JobsAreTyped DEF TrackIs, PanelsInv, MadeInv
    <3>3. t \in Tracked /\ t.job = track[k].job /\ t.seen = made[track[k].job].status
      BY <1>3, <3>2 DEF Tracked
    <3> QED BY <3>1, <3>3
  <2>2. CASE Loses(k)
    <3>1. PICK how \in {"network", "gone"} : Shows(k, [track[k] EXCEPT !.lost = how])
      BY <2>2 DEF Loses
    <3> DEFINE t == [track[k] EXCEPT !.lost = how]
    <3>2. t \in Tracked /\ t.job = track[k].job /\ t.seen = track[k].seen /\ track[k].job /= 0
      BY <1>3, <2>2 DEF Tracked, Loses
    <3> QED BY <1>3, <3>1, <3>2 DEF TrackIs
  <2>3. CASE Reconnect(k)
    <3> DEFINE t == [track[k] EXCEPT !.lost = "no"]
    <3>1. Shows(k, t)
      BY <2>3 DEF Reconnect
    <3>2. t \in Tracked /\ t.job = track[k].job /\ t.seen = track[k].seen
      BY <1>3 DEF Tracked
    <3>3. CASE track[k].job /= 0
      BY <1>3, <3>1, <3>2, <3>3 DEF TrackIs
    <3>4. CASE track[k].job = 0
      BY <3>4, <1>3, <2>3 DEF Reconnect, TrackIs
    <3> QED BY <3>3, <3>4
  <2> QED BY <2>1, <2>2, <2>3
<1>5. cancels' \in [Kinds -> [job : 0..MaxMade, old : BOOLEAN]] /\ \A x \in Kinds : cancels'[x].job \in {0, cancels[x].job}
  BY <1>1, <1>3
<1>6. ShowInv'
  BY <1>1, <1>2, <1>3, <1>4, <1>5, ShowsKeeps DEF PanelsInv
<1> QED BY <1>1, <1>2, <1>6, FormsAndView, GesturesCount DEF PanelsInv

LEMMA CancelAskedSteps ==
    ASSUME PanelsInv, NEW k \in Kinds, CancelAsked(k) \/ CancelFails(k) PROVE PanelsInv'
<1>1. /\ Gesture \/ gestures' = gestures
      /\ UNCHANGED <<viewVars, formVars, confVars>> /\ UNCHANGED madeVars
      /\ UNCHANGED <<track, player, translations, source, onScreen, loaded, opening>>
  BY DEF CancelAsked, CancelFails, viewVars
<1>2. MadeInv' /\ Grows
  BY <1>1, SameJobs DEF PanelsInv
<1>3. /\ cancels \in [Kinds -> [job : 0..MaxMade, old : BOOLEAN]] /\ track \in [Kinds -> Tracked]
      /\ SourceIs /\ PlayIs /\ \A x \in Kinds : TrackIs(x) /\ (cancels[x].job /= 0 => cancels[x].job \in DOMAIN made)
  BY DEF PanelsInv, ShowInv
<1>4. PICK c \in [job : 0..MaxMade, old : BOOLEAN] :
        cancels' = [cancels EXCEPT ![k] = c] /\ (c.job /= 0 => c.job \in DOMAIN made)
  <2>1. CASE CancelAsked(k)
    <3> DEFINE c == [job |-> track[k].job, old |-> FALSE]
    <3>1. cancels' = [cancels EXCEPT ![k] = c]
      BY <2>1 DEF CancelAsked
    <3>2. c \in [job : 0..MaxMade, old : BOOLEAN] /\ (c.job /= 0 => c.job \in DOMAIN made)
      BY <1>3 DEF Tracked, TrackIs
    <3> QED BY <3>1, <3>2
  <2>2. CASE CancelFails(k)
    BY <2>2, TracksAreTyped DEF CancelFails
  <2> QED BY <2>1, <2>2
<1>5. cancels' \in [Kinds -> [job : 0..MaxMade, old : BOOLEAN]]
  BY <1>3, <1>4
<1>6. ASSUME NEW x \in Kinds PROVE TrackIs(x)' /\ (cancels'[x].job /= 0 => cancels'[x].job \in DOMAIN made')
  <2>1. cancels'[x].job /= 0 => cancels'[x].job \in DOMAIN made
    BY <1>3, <1>4
  <2>2. cancels'[x].job /= 0 => cancels'[x].job \in DOMAIN made'
    BY <2>1, <1>2 DEF Grows
  <2>3. TrackIs(x) /\ track'[x] = track[x]
    BY <1>1, <1>3
  <2>4. (opening = Nil /\ opening' = Nil /\ onScreen' = onScreen) \/ (opening /= Nil /\ onScreen = Nil)
    BY <1>1 DEF PanelsInv, ViewInv
  <2> QED BY <1>2, <2>2, <2>3, <2>4, TrackStays
<1>7. SourceIs'
  BY <1>1, <1>2, <1>3, SourceStays
<1>8. PlayIs'
  BY <1>1, <1>3 DEF PlayIs
<1>9. ShowInv'
  BY <1>1, <1>3, <1>5, <1>6, <1>7, <1>8 DEF ShowInv
<1> QED BY <1>1, <1>2, <1>9, FormsAndView, GesturesCount DEF PanelsInv

(* The answer to a cancellation is for the panel that asked, if it still shows
   that job. *)
LEMMA CancelAnsweredSteps ==
    ASSUME PanelsInv, NEW k \in Kinds, CancelAnswered(k) PROVE PanelsInv'
<1>0. /\ cancels \in [Kinds -> [job : 0..MaxMade, old : BOOLEAN]] /\ track \in [Kinds -> Tracked]
      /\ TrackIs(k) /\ (cancels[k].job /= 0 => cancels[k].job \in DOMAIN made)
  BY DEF PanelsInv, ShowInv
<1>1. /\ cancels[k].job /= 0 /\ cancels' = [cancels EXCEPT ![k] = NoCancel]
      /\ recents' = recents /\ gestures' = gestures /\ UNCHANGED <<viewVars, formVars, confVars>>
  BY DEF CancelAnswered
<1>2. PICK i \in DOMAIN made : i = cancels[k].job
  BY <1>0, <1>1
<1>3. PICK status \in {made[i].status} \cup (IF made[i].status = "live" THEN {"CLOSED"} ELSE {}) :
        /\ made' = [made EXCEPT ![i].status = status]
        /\ IF ~cancels[k].old /\ track[k].job = i /\ track[k].seen = "live"
           THEN Shows(k, [track[k] EXCEPT !.seen = status, !.lost = "no"])
           ELSE UNCHANGED <<track, player, translations, source>>
  BY <1>2 DEF CancelAnswered
<1>4. status \in Status /\ (made[i].status = "COMPLETED" => status = "COMPLETED")
  <2>1. made[i].status \in Status
    BY JobsAreTyped DEF PanelsInv, MadeInv
  <2> QED BY <2>1, <1>3 DEF Status
<1>5. MadeInv' /\ Grows
  BY <1>1, <1>3, <1>4, StatusKeeps DEF PanelsInv
<1>6. made' \in Seq(Job) /\ made'[i].status = status
  <2>1. made[i] \in Job
    BY JobsAreTyped DEF PanelsInv, MadeInv
  <2>2. made'[i] = [made[i] EXCEPT !.status = status]
    BY <1>3
  <2> QED BY <1>5, <2>1, <2>2 DEF MadeInv, Job
<1>7. cancels' \in [Kinds -> [job : 0..MaxMade, old : BOOLEAN]] /\ \A x \in Kinds : cancels'[x].job \in {0, cancels[x].job}
  BY <1>0, <1>1, TracksAreTyped
<1>8. ShowInv'
  <2>1. CASE ~cancels[k].old /\ track[k].job = i /\ track[k].seen = "live"
    <3> DEFINE t == [track[k] EXCEPT !.seen = status, !.lost = "no"]
    <3>1. t \in Tracked /\ t.job = track[k].job /\ t.seen = status /\ t.job /= 0
      BY <1>0, <1>1, <1>2, <1>4, <2>1 DEF Tracked
    <3>2. Shows(k, t)
      BY <1>3, <2>1
    <3>3. made'[t.job].status = status
      BY <1>6, <2>1, <3>1
    <3> HIDE DEF t
    <3>4. UNCHANGED viewVars
      BY <1>1
    <3> QED BY <1>5, <1>6, <1>7, <3>1, <3>2, <3>3, <3>4, ShowsKeeps DEF PanelsInv
  <2>2. CASE ~(~cancels[k].old /\ track[k].job = i /\ track[k].seen = "live")
    <3>1. UNCHANGED <<track, player, translations, source>> /\ UNCHANGED <<onScreen, loaded, opening>>
      BY <1>1, <1>3, <2>2 DEF viewVars
    <3>2. ASSUME NEW x \in Kinds PROVE TrackIs(x)' /\ (cancels'[x].job /= 0 => cancels'[x].job \in DOMAIN made')
      <4>1. TrackIs(x) /\ track'[x] = track[x] /\ (cancels[x].job /= 0 => cancels[x].job \in DOMAIN made)
        BY <3>1 DEF PanelsInv, ShowInv
      <4>2. cancels'[x].job /= 0 => cancels'[x].job \in DOMAIN made'
        BY <1>5, <1>7, <4>1, CancelsStay
      <4>3. (opening = Nil /\ opening' = Nil /\ onScreen' = onScreen) \/ (opening /= Nil /\ onScreen = Nil)
        BY <3>1 DEF PanelsInv, ViewInv
      <4> QED BY <1>5, <4>1, <4>2, <4>3, TrackStays
    <3>3. SourceIs'
      BY <1>5, <3>1, SourceStays DEF PanelsInv, ShowInv
    <3>4. PlayIs'
      BY <3>1 DEF PanelsInv, ShowInv, PlayIs
    <3> QED BY <1>0, <1>7, <3>1, <3>2, <3>3, <3>4 DEF ShowInv
  <2> QED BY <2>1, <2>2
<1> QED BY <1>1, <1>5, <1>8, FormsAndView, GesturesCount DEF PanelsInv

(* The answer to a submission: its panel follows the job, which is of the
   screen, unless the panels were stopped since. *)
LEMMA StartedSteps ==
    ASSUME PanelsInv, NEW n \in Turns, Started(n) PROVE PanelsInv'
<1> DEFINE s == sends[n]
<1>1. /\ s.step = "created" /\ recents' = recents \cup {s.job} /\ UNCHANGED <<cancels, made, gestures>>
      /\ UNCHANGED viewVars /\ UNCHANGED <<onScreen, loaded, opening>>
  BY DEF Started, viewVars
<1>2. SendIs(n)
  BY DEF PanelsInv, FormsInv
<1>3. s.job \in DOMAIN made /\ made[s.job].kind = s.kind /\ made[s.job].of = s.of /\ s.kind \in Kinds /\ s.of \in Sources
  BY <1>1, <1>2 DEF SendIs
<1>4. recents' \subseteq DOMAIN made
  BY <1>1, <1>3 DEF PanelsInv, MadeInv
<1>5. MadeInv' /\ Grows
  BY <1>1, <1>4, MadeStays DEF PanelsInv
<1>6. FormsInv'
  BY StartedForms DEF PanelsInv
<1>7. ViewInv'
  BY <1>1, <1>5, ViewStays DEF PanelsInv
<1>8. ShowInv'
  <2>1. CASE Stands(n)
    <3>1. Takes(s.kind, s.job, "live")
      BY <2>1 DEF Started
    <3>2. s.of = onScreen
      BY <1>1, <1>2, <2>1 DEF SendIs, Stands
    <3>3. opening = Nil
      BY <1>3, <3>2, NilIsNothing DEF PanelsInv, ViewInv
    <3>4. "live" \in Status /\ "live" /= "COMPLETED"
      BY DEF Status
    <3>5. UNCHANGED <<cancels, onScreen, loaded>> /\ opening' = Nil /\ opening' \in {opening, Nil} /\ made' = made
      BY <1>1, <3>3
    <3> HIDE DEF s
    <3> QED BY <1>3, <3>1, <3>2, <3>3, <3>4, <3>5, TakesKeeps DEF PanelsInv
  <2>2. CASE ~Stands(n)
    <3>1. UNCHANGED <<track, player, translations, source>>
      BY <2>2 DEF Started
    <3>2. opening /= Nil => onScreen = Nil
      BY DEF PanelsInv, ViewInv
    <3> QED BY <1>1, <1>5, <3>1, <3>2, ShowStays DEF PanelsInv
  <2> QED BY <2>1, <2>2
<1> QED BY <1>1, <1>5, <1>6, <1>7, <1>8, GesturesCount DEF PanelsInv

LEMMA ChooseSourceSteps ==
    ASSUME PanelsInv, ChooseSource PROVE PanelsInv'
<1>1. /\ UNCHANGED gestures /\ UNCHANGED <<viewVars, formVars, confVars>> /\ UNCHANGED madeVars
      /\ UNCHANGED <<track, cancels, player, translations, onScreen, loaded, opening>>
      /\ Context /\ source' = IF source = 0 THEN translations[onScreen] ELSE 0
  BY DEF ChooseSource, viewVars
<1>2. MadeInv' /\ Grows
  BY <1>1, SameJobs DEF PanelsInv
<1>3. SourceIs /\ onScreen \in Sources /\ opening = Nil
  BY <1>1 DEF PanelsInv, ShowInv, ViewInv, Context
<1>4. SourceIs'
  <2>1. source' \in 0..MaxMade /\ source' \in {0, translations[onScreen]}
    BY <1>1, <1>3, PanelsBoundsAssumption DEF SourceIs
  <2>2. ASSUME NEW s \in Sources PROVE (translations[s] /= 0 => IsTranslationOf(translations[s], s))'
    <3>1. translations[s] /= 0 => IsTranslationOf(translations[s], s)
      BY <1>3 DEF SourceIs
    <3> QED BY <1>1, <1>2, <3>1 DEF IsTranslationOf, Grows, Stays
  <2> QED BY <1>1, <1>3, <2>1, <2>2 DEF SourceIs, Context
<1>5. ASSUME NEW k \in Kinds PROVE TrackIs(k)' /\ (cancels'[k].job /= 0 => cancels'[k].job \in DOMAIN made')
  <2>1. TrackIs(k) /\ track'[k] = track[k] /\ opening' = Nil /\ onScreen' = onScreen
    BY <1>1, <1>3 DEF PanelsInv, ShowInv
  <2>2. cancels'[k].job /= 0 => cancels'[k].job \in DOMAIN made'
    BY <1>1, <1>2 DEF PanelsInv, ShowInv, Grows
  <2> QED BY <1>2, <1>3, <2>1, <2>2, TrackStays
<1>6. PlayIs'
  BY <1>1 DEF PanelsInv, ShowInv, PlayIs
<1>7. ShowInv'
  BY <1>1, <1>4, <1>5, <1>6 DEF PanelsInv, ShowInv
<1> QED BY <1>1, <1>2, <1>7, FormsAndView, GesturesCount DEF PanelsInv

(* Another thing is opened, or nothing is left on the screen. *)
LEMMA OpenSteps ==
    ASSUME PanelsInv, Leave \/ \E x \in Sources \cup recents : Open(x) PROVE PanelsInv'
<1>1. /\ Gesture /\ StopPanels /\ Hides /\ UNCHANGED <<confVars, madeVars>> /\ UNCHANGED madeVars
      /\ UNCHANGED <<translations, source>> /\ opening' \in Sources \cup recents \cup {Nil}
  BY DEF Leave, Open
<1>2. MadeInv' /\ Grows
  BY <1>1, SameJobs DEF PanelsInv
<1>3. FormsInv'
  BY <1>1, StopForms DEF PanelsInv
<1>4. /\ onScreen' = Nil /\ loaded' = FALSE /\ dirty' = FALSE
      /\ player' = [p \in {"video", "audio"} |-> Silent] /\ track' = [k \in Kinds |-> NoTrack]
      /\ cancels' = [k \in Kinds |-> [cancels[k] EXCEPT !.old = cancels[k].job /= 0]]
  BY <1>1 DEF StopPanels, Hides, Cleared
<1>5. ViewInv'
  <2>1. opening' \in Sources \cup DOMAIN made' \cup {Nil}
    BY <1>1, <1>2 DEF PanelsInv, MadeInv, Grows
  <2> QED BY <1>4, <2>1 DEF ViewInv
<1>6. cancels \in [Kinds -> [job : 0..MaxMade, old : BOOLEAN]]
  BY DEF PanelsInv, ShowInv
<1>7. ASSUME NEW k \in Kinds
      PROVE  /\ TrackIs(k)' /\ cancels'[k] \in [job : 0..MaxMade, old : BOOLEAN]
             /\ cancels'[k].job /= 0 => cancels'[k].job \in DOMAIN made'
  <2>1. TrackIs(k)'
    <3>1. track'[k] = NoTrack
      BY <1>4
    <3> QED BY <3>1 DEF TrackIs, NoTrack
  <2>2. cancels'[k] = [cancels[k] EXCEPT !.old = cancels[k].job /= 0] /\ cancels[k] \in [job : 0..MaxMade, old : BOOLEAN]
    BY <1>4, <1>6
  <2>3. cancels'[k].job = cancels[k].job /\ cancels'[k] \in [job : 0..MaxMade, old : BOOLEAN]
    BY <2>2
  <2>4. cancels[k].job /= 0 => cancels[k].job \in DOMAIN made
    BY DEF PanelsInv, ShowInv
  <2> QED BY <1>2, <2>1, <2>3, <2>4 DEF Grows
<1>8. cancels' \in [Kinds -> [job : 0..MaxMade, old : BOOLEAN]] /\ track' \in [Kinds -> Tracked]
  BY <1>4, <1>7, TracksAreTyped
<1>9. SourceIs'
  <2>1. ASSUME NEW s \in Sources PROVE (translations[s] /= 0 => IsTranslationOf(translations[s], s))'
    <3>1. translations[s] /= 0 => IsTranslationOf(translations[s], s)
      BY DEF PanelsInv, ShowInv, SourceIs
    <3> QED BY <1>1, <1>2, <3>1 DEF IsTranslationOf, Grows, Stays
  <2> QED BY <1>1, <1>4, <2>1 DEF PanelsInv, ShowInv, SourceIs, Context
<1>10. PlayIs'
  BY <1>4, TracksAreTyped DEF PlayIs
<1>11. ShowInv'
  BY <1>7, <1>8, <1>9, <1>10 DEF ShowInv
<1> QED BY <1>1, <1>2, <1>3, <1>5, <1>11, GesturesCount DEF PanelsInv

(* The transcription appears: nothing is under way for the screen yet, and only
   the burn of a chain may be followed. *)
LEMMA AppearsSteps ==
    ASSUME PanelsInv, Appears PROVE PanelsInv'
<1>1. /\ opening \in Sources /\ onScreen' = opening /\ opening' = Nil
      /\ player' = [player EXCEPT !["audio"] = AudioOf(@, opening)]
      /\ UNCHANGED <<loaded, dirty, formVars, confVars, track, cancels, translations, source, gestures>>
      /\ UNCHANGED formVars /\ UNCHANGED confVars /\ UNCHANGED madeVars
  BY DEF Appears
<1>2. MadeInv' /\ Grows
  BY <1>1, SameJobs DEF PanelsInv
<1>3. onScreen = Nil /\ loaded = FALSE /\ opening /= Nil
  BY <1>1, NilIsNothing DEF PanelsInv, ViewInv
<1>4. ViewInv'
  BY <1>1, <1>3 DEF PanelsInv, ViewInv
<1>5. FormsInv'
  <2>1. conf' = conf /\ customAi' \in Confs \cup {Nil} /\ reads' \in SUBSET Confs
    BY <1>1 DEF PanelsInv, FormsInv, FormsType, confVars
  <2> QED BY <1>1, <1>2, <1>3, <2>1, FormsStay DEF PanelsInv
<1>6. /\ cancels \in [Kinds -> [job : 0..MaxMade, old : BOOLEAN]] /\ track \in [Kinds -> Tracked]
      /\ SourceIs /\ PlayIs /\ \A x \in Kinds : TrackIs(x) /\ (cancels[x].job /= 0 => cancels[x].job \in DOMAIN made)
  BY DEF PanelsInv, ShowInv
<1>7. ASSUME NEW k \in Kinds PROVE TrackIs(k)' /\ (cancels'[k].job /= 0 => cancels'[k].job \in DOMAIN made')
  BY <1>1, <1>2, <1>3, <1>6, TrackStays DEF Grows
<1>8. SourceIs'
  <2>1. ASSUME NEW s \in Sources PROVE (translations[s] /= 0 => IsTranslationOf(translations[s], s))'
    <3>1. translations[s] /= 0 => IsTranslationOf(translations[s], s)
      BY <1>6 DEF SourceIs
    <3> QED BY <1>1, <1>2, <3>1 DEF IsTranslationOf, Grows, Stays
  <2> QED BY <1>1, <1>3, <1>6, <2>1 DEF SourceIs, Context
<1>9. PlayIs'
  <2>1. player \in [{"video", "audio"} -> Player] /\ player["audio"] \in Player /\ player["audio"].for = Nil
    BY <1>3, <1>6 DEF PlayIs
  <2>2. AudioOf(player["audio"], opening) =
           IF opening \in Audios THEN [Silent EXCEPT !.for = opening, !.loads = @ \cup {opening}] ELSE Silent
    BY <1>3, <2>1 DEF AudioOf, Loading, Cleared
  <2>3. /\ AudioOf(player["audio"], opening) \in Player /\ AudioOf(player["audio"], opening).url = Nil
        /\ AudioOf(player["audio"], opening).for \in {opening, Nil}
        /\ AudioOf(player["audio"], opening).for /= Nil => opening \in Audios
    <3>1. opening \in Things /\ Nil \in Things
      BY <1>1 DEF Things
    <3>2. PICK q \in Player : q = Silent /\ q.for = Nil /\ q.url = Nil
      BY TracksAreTyped
    <3> DEFINE r == [q EXCEPT !.for = opening, !.loads = @ \cup {opening}]
    <3>3. r \in Player /\ r.url = Nil /\ r.for = opening
      BY <3>1, <3>2 DEF Player
    <3>4. AudioOf(player["audio"], opening) = IF opening \in Audios THEN r ELSE q
      BY <2>2, <3>2
    <3> HIDE DEF r
    <3> QED BY <3>2, <3>3, <3>4
  <2>4. player'["audio"] = AudioOf(player["audio"], opening) /\ player'["video"] = player["video"]
    BY <1>1, <2>1
  <2>5. player' \in [{"video", "audio"} -> Player]
    BY <1>1, <2>1, <2>3
  <2>6. player["video"].url /= Nil => player["video"].url = player["video"].for
    BY <1>6 DEF PlayIs
  <2>7. \A p \in {"video", "audio"} : player'[p].url /= Nil => player'[p].url = player'[p].for
    BY <2>3, <2>4, <2>6
  <2>8. player'["video"].for /= Nil => track'["BURN"].job = player'["video"].for /\ track'["BURN"].seen = "COMPLETED"
    BY <1>1, <1>6, <2>4 DEF PlayIs
  <2>9. player'["audio"].for /= Nil => player'["audio"].for = onScreen' /\ player'["audio"].for \in Audios
    BY <1>1, <2>3, <2>4
  <2> QED BY <2>5, <2>7, <2>8, <2>9 DEF PlayIs
<1>10. ShowInv'
  BY <1>1, <1>6, <1>7, <1>8, <1>9 DEF ShowInv
<1> QED BY <1>1, <1>2, <1>4, <1>5, <1>10, GesturesCount DEF PanelsInv

(* Another job that was opened is shown by its panel. *)
LEMMA AdoptsSteps ==
    ASSUME PanelsInv, Adopts PROVE PanelsInv'
<1>1. /\ opening \in Made /\ Takes(made[opening].kind, opening, made[opening].status) /\ opening' = Nil
      /\ UNCHANGED <<onScreen, loaded, dirty, formVars, confVars, cancels, gestures>>
      /\ UNCHANGED formVars /\ UNCHANGED confVars /\ UNCHANGED madeVars
  BY DEF Adopts
<1>2. MadeInv' /\ Grows /\ made' = made
  BY <1>1, SameJobs DEF PanelsInv, madeVars
<1>3. opening \in DOMAIN made /\ onScreen = Nil
  <2>1. opening \in Nat /\ opening \notin Sources /\ opening /= Nil
    BY <1>1, NilIsNothing, PanelsBoundsAssumption DEF Made
  <2> QED BY <2>1 DEF PanelsInv, ViewInv
<1>4. made[opening].kind \in Kinds /\ made[opening].status \in Status
  BY <1>3, JobsAreTyped DEF PanelsInv, MadeInv
<1>5. ViewInv'
  BY <1>1, <1>3 DEF PanelsInv, ViewInv
<1>6. FormsInv'
  <2>1. conf' = conf /\ customAi' \in Confs \cup {Nil} /\ reads' \in SUBSET Confs
    BY <1>1 DEF PanelsInv, FormsInv, FormsType, confVars
  <2> QED BY <1>1, <1>2, <1>3, <2>1, FormsStay DEF PanelsInv
<1>7. ShowInv'
  <2>1. UNCHANGED <<cancels, onScreen, loaded>> /\ opening' \in {opening, Nil}
    BY <1>1
  <2> QED BY <1>1, <1>2, <1>3, <1>4, <2>1, TakesKeeps DEF PanelsInv
<1> QED BY <1>1, <1>2, <1>5, <1>6, <1>7, GesturesCount DEF PanelsInv

LEMMA OpenFailsSteps ==
    ASSUME PanelsInv, OpenFails PROVE PanelsInv'
<1>1. /\ opening' = Nil /\ opening /= Nil
      /\ UNCHANGED <<onScreen, loaded, dirty, formVars, confVars, panelVars, gestures>>
      /\ UNCHANGED formVars /\ UNCHANGED confVars /\ UNCHANGED madeVars
      /\ UNCHANGED <<track, cancels, player, translations, source>>
  BY DEF OpenFails, panelVars
<1>2. MadeInv' /\ Grows
  BY <1>1, SameJobs DEF PanelsInv
<1>3. onScreen = Nil /\ ViewInv'
  BY <1>1 DEF PanelsInv, ViewInv
<1>4. FormsInv'
  <2>1. conf' = conf /\ customAi' \in Confs \cup {Nil} /\ reads' \in SUBSET Confs
    BY <1>1 DEF PanelsInv, FormsInv, FormsType, confVars
  <2> QED BY <1>1, <1>2, <1>3, <2>1, FormsStay DEF PanelsInv
<1>5. ShowInv'
  BY <1>1, <1>2, <1>3, ShowStays DEF PanelsInv
<1> QED BY <1>1, <1>2, <1>3, <1>4, <1>5, GesturesCount DEF PanelsInv

(* The subtitles arrive: what was chosen to be dubbed stays while it is there. *)
LEMMA LoadsSteps ==
    ASSUME PanelsInv, Loads PROVE PanelsInv'
<1>1. /\ onScreen /= Nil /\ loaded' = TRUE /\ source' = Kept(source, translations[onScreen])
      /\ UNCHANGED <<onScreen, dirty, opening, track, cancels, player, translations, gestures>>
      /\ UNCHANGED formVars /\ UNCHANGED confVars /\ UNCHANGED madeVars
  BY DEF Loads
<1>2. MadeInv' /\ Grows
  BY <1>1, SameJobs DEF PanelsInv
<1>3. onScreen \in Sources /\ opening = Nil
  BY <1>1 DEF PanelsInv, ViewInv
<1>4. ViewInv'
  BY <1>1, <1>3 DEF PanelsInv, ViewInv
<1>5. FormsInv'
  <2>1. conf' = conf /\ customAi' \in Confs \cup {Nil} /\ reads' \in SUBSET Confs
    BY <1>1 DEF PanelsInv, FormsInv, FormsType, confVars
  <2> QED BY <1>1, <1>2, <2>1, FormsStay DEF PanelsInv
<1>6. /\ SourceIs /\ PlayIs /\ cancels \in [Kinds -> [job : 0..MaxMade, old : BOOLEAN]] /\ track \in [Kinds -> Tracked]
      /\ \A x \in Kinds : TrackIs(x) /\ (cancels[x].job /= 0 => cancels[x].job \in DOMAIN made)
  BY DEF PanelsInv, ShowInv
<1>7. ASSUME NEW k \in Kinds PROVE TrackIs(k)' /\ (cancels'[k].job /= 0 => cancels'[k].job \in DOMAIN made')
  BY <1>1, <1>2, <1>3, <1>6, TrackStays DEF Grows
<1>8. SourceIs'
  <2>1. source' \in 0..MaxMade /\ source' \in {0, translations[onScreen]}
    BY <1>1, <1>3, <1>6, PanelsBoundsAssumption DEF SourceIs, Kept
  <2>2. ASSUME NEW s \in Sources PROVE (translations[s] /= 0 => IsTranslationOf(translations[s], s))'
    <3>1. translations[s] /= 0 => IsTranslationOf(translations[s], s)
      BY <1>6 DEF SourceIs
    <3> QED BY <1>1, <1>2, <3>1 DEF IsTranslationOf, Grows, Stays
  <2> QED BY <1>1, <1>6, <2>1, <2>2 DEF SourceIs, Context
<1>9. PlayIs'
  BY <1>1, <1>6 DEF PlayIs
<1>10. ShowInv'
  BY <1>1, <1>6, <1>7, <1>8, <1>9 DEF ShowInv
<1> QED BY <1>1, <1>2, <1>4, <1>5, <1>10, GesturesCount DEF PanelsInv

LEMMA EditsSteps ==
    ASSUME PanelsInv, Edits PROVE PanelsInv'
<1>1. /\ Gesture /\ dirty' = ~dirty /\ UNCHANGED <<onScreen, loaded, opening, panelVars>>
      /\ UNCHANGED formVars /\ UNCHANGED confVars /\ UNCHANGED madeVars
      /\ UNCHANGED <<track, cancels, player, translations, source>>
  BY DEF Edits, panelVars
<1>2. MadeInv' /\ Grows
  BY <1>1, SameJobs DEF PanelsInv
<1>3. ViewInv'
  BY <1>1, <1>2 DEF PanelsInv, ViewInv, Grows
<1>4. FormsInv'
  <2>1. conf' = conf /\ customAi' \in Confs \cup {Nil} /\ reads' \in SUBSET Confs
    BY <1>1 DEF PanelsInv, FormsInv, FormsType, confVars
  <2> QED BY <1>1, <1>2, <2>1, FormsStay DEF PanelsInv
<1>5. ShowInv'
  <2>1. opening /= Nil => onScreen = Nil
    BY DEF PanelsInv, ViewInv
  <2> QED BY <1>1, <1>2, <2>1, ShowStays DEF PanelsInv
<1> QED BY <1>1, <1>2, <1>3, <1>4, <1>5, GesturesCount DEF PanelsInv

(* The burn of a chain is made, and its answer arrives. *)
LEMMA ChainFiresSteps ==
    ASSUME PanelsInv, NEW s \in Sources, ChainFires(s) PROVE PanelsInv'
<1> DEFINE j == [kind |-> "BURN", of |-> s, provider |-> "ffmpeg", from |-> 0, agreed |-> NoQuestion,
                 by |-> "chain", status |-> "live"]
<1>1. /\ Gesture /\ Len(made) < MaxMade /\ made' = Append(made, j) /\ recents' = recents
      /\ UNCHANGED <<viewVars, formVars, confVars>> /\ UNCHANGED <<viewVars, panelVars>>
  BY DEF ChainFires
<1>2. /\ j \in Job /\ AgreedOn(j.agreed, j) /\ j.from = 0 /\ (j.by = "chain" => j.kind = "BURN")
  BY NoSendIsTyped, PanelsBoundsAssumption DEF Job, Status, Kinds, AnyProvider, External, AgreedOn
<1> HIDE DEF j
<1>3. MadeInv' /\ Grows
  BY <1>1, <1>2, AppendKeeps DEF PanelsInv
<1> QED BY <1>1, <1>3, FormsAndView, PanelsStay, GesturesCount DEF PanelsInv

LEMMA ChainArrivesSteps ==
    ASSUME PanelsInv, NEW i \in Made, ChainArrives(i) PROVE PanelsInv'
<1>1. /\ i \in DOMAIN made /\ made[i].by = "chain" /\ recents' = recents \cup {i} /\ Takes("BURN", i, "live")
      /\ UNCHANGED <<viewVars, formVars, confVars>> /\ UNCHANGED <<cancels, made, gestures>>
      /\ UNCHANGED <<onScreen, loaded, opening>>
  BY DEF ChainArrives, viewVars
<1>2. recents' \subseteq DOMAIN made
  BY <1>1 DEF PanelsInv, MadeInv
<1>3. MadeInv' /\ Grows
  BY <1>1, <1>2, MadeStays DEF PanelsInv
<1>4. made[i].kind = "BURN"
  BY <1>1 DEF PanelsInv, MadeInv
<1>5. ShowInv'
  <2>1. "BURN" \in Kinds /\ "live" \in Status /\ "live" /= "COMPLETED" /\ opening' \in {opening, Nil}
    BY <1>1 DEF Kinds, Status
  <2> QED BY <1>1, <1>4, <2>1, TakesKeeps DEF PanelsInv
<1> QED BY <1>1, <1>3, <1>5, FormsAndView, GesturesCount DEF PanelsInv

LEMMA JobEndsSteps ==
    ASSUME PanelsInv, NEW i \in Made, JobEnds(i) PROVE PanelsInv'
<1>1. /\ i \in DOMAIN made /\ made[i].status = "live" /\ recents' = recents /\ gestures' = gestures
      /\ UNCHANGED <<viewVars, formVars, confVars>> /\ UNCHANGED <<viewVars, panelVars>>
  BY DEF JobEnds
<1>2. PICK status \in {"COMPLETED", "CLOSED"} : made' = [made EXCEPT ![i].status = status]
  BY DEF JobEnds
<1>3. status \in Status /\ (made[i].status = "COMPLETED" => status = "COMPLETED")
  BY <1>1 DEF Status
<1>4. MadeInv' /\ Grows
  BY <1>1, <1>2, <1>3, StatusKeeps DEF PanelsInv
<1> QED BY <1>1, <1>4, FormsAndView, PanelsStay, GesturesCount DEF PanelsInv

-----------------------------------------------------------------------------
(* The invariant.                                                          *)

LEMMA PanelsInvInit == PanelsInit => PanelsInv
<1> SUFFICES ASSUME PanelsInit PROVE PanelsInv
  OBVIOUS
<1>0. MaxMade \in Nat /\ MaxGestures \in Nat /\ 0 \in 0..MaxMade
  BY PanelsBoundsAssumption
<1>1. MadeInv
  BY <1>0 DEF PanelsInit, MadeInv
<1>2. ViewInv
  BY DEF PanelsInit, ViewInv
<1>3. FormsInv
  <2>1. FormsType
    BY NoSendIsTyped DEF PanelsInit, FormsType
  <2>2. \A n \in Turns : SendIs(n)
    BY NoSendIsTyped DEF PanelsInit, SendIs
  <2>3. QuestionIs
    BY NoSendIsTyped DEF PanelsInit, QuestionIs
  <2>4. OneEach(sends, starting)
    <3>1. \A k \in Kinds : CurrentOf(sends, k) = {}
      BY NoSendIsTyped, NilIsNothing DEF PanelsInit, CurrentOf
    <3> QED BY <3>1 DEF PanelsInit, OneEach
  <2> QED BY <2>1, <2>2, <2>3, <2>4 DEF FormsInv
<1>4. ShowInv
  <2>1. track \in [Kinds -> Tracked] /\ cancels \in [Kinds -> [job : 0..MaxMade, old : BOOLEAN]]
    BY TracksAreTyped DEF PanelsInit
  <2>2. \A k \in Kinds : TrackIs(k) /\ (cancels[k].job /= 0 => cancels[k].job \in DOMAIN made)
    BY TracksAreTyped DEF PanelsInit, TrackIs, NoTrack
  <2>3. SourceIs
    BY <1>0 DEF PanelsInit, SourceIs, Context
  <2>4. PlayIs
    BY TracksAreTyped DEF PanelsInit, PlayIs
  <2> QED BY <2>1, <2>2, <2>3, <2>4 DEF ShowInv
<1> QED BY <1>0, <1>1, <1>2, <1>3, <1>4 DEF PanelsInit, PanelsInv

LEMMA PanelsStutter == ASSUME PanelsInv, UNCHANGED panelsVars PROVE PanelsInv'
<1>1. /\ UNCHANGED <<viewVars, formVars, confVars>> /\ UNCHANGED madeVars /\ UNCHANGED <<viewVars, panelVars>>
      /\ gestures' = gestures
  BY DEF panelsVars
<1>2. MadeInv' /\ Grows
  BY <1>1, SameJobs DEF PanelsInv
<1> QED BY <1>1, <1>2, FormsAndView, PanelsStay, GesturesCount DEF PanelsInv

LEMMA PanelsInvStep == PanelsInv /\ [PanelsNext]_panelsVars => PanelsInv'
<1> SUFFICES ASSUME PanelsInv, [PanelsNext]_panelsVars PROVE PanelsInv'
  OBVIOUS
<1>1. CASE \E p \in {"video", "audio"} : \E l \in player[p].loads : MediaArrives(p, l) \/ MediaFails(p, l)
  BY <1>1, MediaSteps
<1>2. ASSUME NEW k \in Kinds, JobSeen(k) \/ Loses(k) \/ Reconnect(k) PROVE PanelsInv'
  BY <1>2, SeenSteps
<1>3. ASSUME NEW k \in Kinds, CancelAsked(k) \/ CancelAnswered(k) \/ CancelFails(k) PROVE PanelsInv'
  BY <1>3, CancelAskedSteps, CancelAnsweredSteps
<1>4. ASSUME NEW k \in Kinds, NEW p \in Providers[k], Submit(k, p) PROVE PanelsInv'
  BY <1>4, SubmitSteps
<1>5. ASSUME NEW n \in Turns, ConfigRead(n) \/ ConfigArrives(n) \/ Serve(n) \/ Started(n) \/ Refused(n)
      PROVE  PanelsInv'
  BY <1>5, ConfigReadSteps, ConfigArrivesSteps, ServeSteps, StartedSteps, RefusedSteps
<1>6. CASE Accepts \/ Declines
  BY <1>6, QuestionSteps
<1>7. CASE Rereads \/ (\E c \in reads : RereadArrives(c))
  BY <1>7, RereadsSteps
<1>8. CASE ChooseSource
  BY <1>8, ChooseSourceSteps
<1>9. CASE Leave \/ \E x \in Sources \cup recents : Open(x)
  BY <1>9, OpenSteps
<1>10. CASE Appears \/ Adopts \/ OpenFails \/ Loads \/ Edits
  BY <1>10, AppearsSteps, AdoptsSteps, OpenFailsSteps, LoadsSteps, EditsSteps
<1>11. ASSUME NEW s \in Sources, ChainFires(s) PROVE PanelsInv'
  BY <1>11, ChainFiresSteps
<1>12. ASSUME NEW i \in Made, ChainArrives(i) \/ JobEnds(i) PROVE PanelsInv'
  BY <1>12, ChainArrivesSteps, JobEndsSteps
<1>13. ASSUME NEW c \in Confs, OwnerSaves(c) PROVE PanelsInv'
  BY <1>13, OwnerSavesSteps
<1>14. CASE UNCHANGED panelsVars
  BY <1>14, PanelsStutter
<1> QED BY <1>1, <1>2, <1>3, <1>4, <1>5, <1>6, <1>7, <1>8, <1>9, <1>10, <1>11, <1>12, <1>13, <1>14 DEF PanelsNext

LEMMA PanelsAreTyped == PanelsInv => PanelsTypeOK
<1> SUFFICES ASSUME PanelsInv PROVE PanelsTypeOK
  OBVIOUS
<1>1. DOMAIN made \subseteq Made /\ Len(made) \in 0..MaxMade /\ made \in Seq(Job) /\ recents \in SUBSET Made
  BY JobsAreTyped, PanelsBoundsAssumption DEF PanelsInv, MadeInv
<1>2. opening \in Things
  BY <1>1 DEF PanelsInv, ViewInv, Things
<1> QED BY <1>1, <1>2 DEF PanelsInv, FormsInv, FormsType, ViewInv, ShowInv, SourceIs, PlayIs, Tracked, PanelsTypeOK

LEMMA OneSendEach == PanelsInv => OneSendPerPanel
<1> SUFFICES ASSUME PanelsInv PROVE OneSendPerPanel
  OBVIOUS
<1>1. /\ OneEach(sends, starting) /\ QuestionIs /\ starting \in [Kinds -> BOOLEAN] /\ \A n \in Turns : SendIs(n)
      /\ question \in Question
  BY DEF PanelsInv, FormsInv, FormsType
<1>2. ASSUME NEW k \in Kinds PROVE Cardinality(Current(k)) = IF starting[k] THEN 1 ELSE 0
  <2>1. Current(k) = CurrentOf(sends, k)
    BY DEF Current, CurrentOf
  <2>2. CASE starting[k]
    <3>1. PICK n \in Turns : CurrentOf(sends, k) = {n}
      BY <1>1, <2>2 DEF OneEach
    <3> QED BY <2>1, <2>2, <3>1, FS_Singleton
  <2>3. CASE ~starting[k]
    <3>1. CurrentOf(sends, k) = {}
      BY <1>1, <2>3 DEF OneEach
    <3> QED BY <2>1, <2>3, <3>1, FS_EmptySet
  <2> QED BY <2>2, <2>3
<1>3. question.turn /= 0 => ~sends[question.turn].old /\ sends[question.turn].step = "ask"
  <2>1. ASSUME question.turn /= 0 PROVE question.turn \in Turns /\ sends[question.turn].step = "ask"
    BY <2>1, <1>1, PanelsBoundsAssumption DEF Turns, Question, QuestionIs
  <2> QED BY <1>1, <2>1 DEF SendIs
<1>4. \A n \in Turns : sends[n].step /= "none" /\ ~sends[n].old => sends[n].of = onScreen
  BY <1>1 DEF SendIs
<1>5. \A n \in Turns : sends[n].step = "ask" => question.turn = n
  BY <1>1 DEF SendIs
<1> QED BY <1>2, <1>3, <1>4, <1>5 DEF OneSendPerPanel

LEMMA PanelsInvIsEnough == PanelsInv => SpendsAreAgreed /\ PanelsAreHonest
<1> SUFFICES ASSUME PanelsInv PROVE SpendsAreAgreed /\ PanelsAreHonest
  OBVIOUS
<1>1. SpendsAreAgreed
  BY DEF PanelsInv, MadeInv, AgreedOn, SpendsAreAgreed
<1>2. PanelsFollowTheScreen
  <2>1. \A k \in Kinds : TrackIs(k)
    BY DEF PanelsInv, ShowInv
  <2> QED BY <2>1 DEF PanelsFollowTheScreen, TrackIs
<1>3. DubsItsTranslation
  BY DEF PanelsInv, MadeInv, IsTranslationOf, DubsItsTranslation
<1>4. PlaysWhatIsShown
  <2>1. PlayIs
    BY DEF PanelsInv, ShowInv
  <2> QED BY <2>1 DEF PlayIs, PlaysWhatIsShown
<1> QED BY <1>1, <1>2, <1>3, <1>4, PanelsAreTyped, OneSendEach DEF PanelsAreHonest

(* Nothing goes to a provider that charges without a question that the person
   accepted, about a job of that kind, of that transcription, with that provider, and
   that said what the key had at some moment since the click. Which of its texts a dub
   reads is no part of it (ui/ai.js:255-260, 300-304, ui/spend-confirm.js). *)
THEOREM SpendsStayAgreed == PanelsSpec => []SpendsAreAgreed
<1>1. PanelsSpec => []PanelsInv
  BY PanelsInvInit, PanelsInvStep, PTL DEF PanelsSpec
<1> QED BY <1>1, PanelsInvIsEnough, PTL

(* The panels are honest: one submission each, about the screen, and what plays
   is what is shown (ui/ai.js, ui/burn.js, ui/source-audio.js). *)
THEOREM PanelsStayHonest == PanelsSpec => []PanelsAreHonest
<1>1. PanelsSpec => []PanelsInv
  BY PanelsInvInit, PanelsInvStep, PTL DEF PanelsSpec
<1> QED BY <1>1, PanelsInvIsEnough, PTL
=============================================================================

----------------------------- MODULE EditorState -----------------------------
(***************************************************************************)
(* The state of the subtitle editor of the web client as pure functions    *)
(* (apps/web, domain/editor-state.js): what is saved, and the changes that *)
(* are not, by subtitle and field.                                         *)
(***************************************************************************)
EXTENDS Quality

CONSTANTS
    UndoLimit       \* UNDO_LIMIT

ASSUME UndoLimitAssumption == UndoLimit \in Nat \ {0}

Fields == {"text", "start", "end", "speaker"}

Nothing == <<>>     \* a function of no index: no drafts, no edits

(* The etag is the MD5 of what was read: "base" stands for both. *)
OpenEditor(base) == [base |-> base, drafts |-> Nothing, undo |-> <<>>]

Drafted(e, i) == IF i \in DOMAIN e.drafts THEN DOMAIN e.drafts[i] ELSE {}

(* The value of a field as it is seen. *)
Shown(e, i, f) == IF f \in Drafted(e, i) THEN e.drafts[i][f] ELSE e.base[i][f]

(* setField, of the <<subtitle, field>> pairs that get a value: a field    *)
(* that is back to what is saved is no change (withDraft).                 *)
SetFields(e, values) ==
    LET given(i, f) == <<i, f>> \in DOMAIN values
        after(i, f) == IF given(i, f) THEN values[<<i, f>>] ELSE Shown(e, i, f)
        fields(i) == {f \in Fields : IF given(i, f) THEN after(i, f) # e.base[i][f] ELSE f \in Drafted(e, i)}
    IN [e EXCEPT !.drafts = [i \in {n \in DOMAIN e.base : fields(n) # {}} |-> [f \in fields(i) |-> after(i, f)]]]

SetField(e, i, f, value) == SetFields(e, [x \in {<<i, f>>} |-> value])

RenameSpeaker(e, id, name) ==
    SetFields(e, [x \in {i \in DOMAIN e.base : e.base[i].speaker = id} \X {"speaker"} |-> name])

IsDirty(e) == DOMAIN e.drafts # {}

Discard(e) == [e EXCEPT !.drafts = Nothing, !.undo = <<>>]

(* Mutant: a field that went back to its old value while it was being saved is taken as saved. *)
SavedMutant(e, result, sent) ==
    LET pending == {x \in (DOMAIN e.drafts) \X Fields :
                        /\ x[2] \in Drafted(e, x[1])
                        /\ ~(x[1] \in DOMAIN sent /\ x[2] \in DOMAIN sent[x[1]] /\ sent[x[1]][x[2]] = Shown(e, x[1], x[2]))}
    IN SetFields(OpenEditor(result), [x \in pending |-> Shown(e, x[1], x[2])])

(* What a person changed while it was being saved is still to be saved. *)
Saved(e, result, sent) ==
    LET was(x) == x[1] \in DOMAIN sent /\ x[2] \in DOMAIN sent[x[1]]
        changed(x) == x[2] \in Drafted(e, x[1]) /\ ~(was(x) /\ sent[x[1]][x[2]] = Shown(e, x[1], x[2]))
        reverted(x) == was(x) /\ x[2] \notin Drafted(e, x[1]) /\ e.base[x[1]][x[2]] # sent[x[1]][x[2]]
        pending == {x \in (DOMAIN e.base) \X Fields : changed(x) \/ reverted(x)}
    IN SetFields(OpenEditor(result), [x \in pending |-> Shown(e, x[1], x[2])])

(* issueOf: what the server would not accept, of a subtitle that was changed. *)
HasIssue(e, i) ==
    /\ i \in DOMAIN e.drafts
    /\ \/ Shown(e, i, "start") < 0
       \/ Shown(e, i, "end") <= Shown(e, i, "start")
       \/ HasBlankLine(Shown(e, i, "text"))

HasIssues(e) == \E i \in DOMAIN e.drafts : HasIssue(e, i)

(* currentSegments: what the verifier measures. *)
CurrentSegments(e) ==
    [i \in DOMAIN e.base |-> [text |-> Shown(e, i, "text"), start |-> Shown(e, i, "start"), end |-> Shown(e, i, "end")]]

(* Proposed edits become drafts, and one step of undo with the drafts they replace. *)
ApplyFixes(e, fixes) ==
    LET fields(i) == DOMAIN fixes[i]
        change == [i \in DOMAIN fixes |->
            [fields |-> fields(i), before |-> [f \in fields(i) \cap Drafted(e, i) |-> e.drafts[i][f]]]]
        pairs == {x \in (DOMAIN fixes) \X {"text", "start", "end"} : x[2] \in fields(x[1])}
        next == SetFields(e, [x \in pairs |-> fixes[x[1]][x[2]]])
        undo == Append(e.undo, change)
    IN [next EXCEPT !.undo = SubSeq(undo, Most({1, Len(undo) - UndoLimit + 1}), Len(undo))]

(* The fields of the last repair get their draft back, or what is saved. *)
Undo(e) ==
    LET change == e.undo[Len(e.undo)]
        pairs == {x \in (DOMAIN change) \X {"text", "start", "end"} : x[2] \in change[x[1]].fields}
        before(i, f) == IF f \in DOMAIN change[i].before THEN change[i].before[f] ELSE e.base[i][f]
    IN SetFields([e EXCEPT !.undo = Front(@)], [x \in pairs |-> before(x[1], x[2])])
=============================================================================

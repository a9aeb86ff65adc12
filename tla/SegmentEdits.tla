----------------------------- MODULE SegmentEdits -----------------------------
(***************************************************************************)
(* What an edit makes of the subtitles (api-gateway, jobs/segments.ts).    *)
(*                                                                         *)
(* A text is a sequence of lines, a line a sequence of words and a word    *)
(* its length; <<0>> is a blank line.  Times are in milliseconds.  The     *)
(* times of the words are told apart by where they come from: "real" (the  *)
(* model heard them), "spread" (in proportion to their length), "none".    *)
(***************************************************************************)
EXTENDS Integers, FiniteSets, SequencesExt

Least(S) == CHOOSE x \in S : \A y \in S : x <= y
Most(S) == CHOOSE x \in S : \A y \in S : y <= x

IsBlank(line) == \A w \in DOMAIN line : line[w] = 0

(* String.prototype.trim on a text whose blanks are lines. *)
Trim(text) ==
    LET said == {n \in DOMAIN text : ~IsBlank(text[n])}
    IN IF said = {} THEN << <<0>> >> ELSE SubSeq(text, Least(said), Most(said))

(* squash: its words in their order, whatever is between them. *)
Said(text) ==
    LET words == FlattenSeq(text)
        said == {n \in DOMAIN words : words[n] > 0}
    IN {<<Cardinality({m \in said : m <= n}), words[n]>> : n \in said}

(* A blank line inside a text would close the subtitle in the .srt. *)
HasBlankLine(text) == \E n \in 2 .. Len(text) - 1 : IsBlank(text[n])

(* redistributeWordTimings, of a text that changed. *)
Redistributed(text) == IF Said(text) = {} THEN "none" ELSE "spread"

(* The value of a field after an edit, a function of the fields it changes. *)
Field(segment, edit, f) == IF f \in DOMAIN edit THEN edit[f] ELSE segment[f]

(* parseEdits and applyEdits: a body that is not accepted changes nothing (400). *)
Accepted(segments, edits) ==
    \A i \in DOMAIN edits :
        /\ i \in DOMAIN segments
        /\ "text" \in DOMAIN edits[i] => ~HasBlankLine(edits[i]["text"])
        /\ ~(Field(segments[i], edits[i], "start") < 0)
        /\ ~(Field(segments[i], edits[i], "end") <= Field(segments[i], edits[i], "start"))

AfterEdit(segment, edit) ==
    LET text == IF "text" \in DOMAIN edit THEN Trim(edit["text"]) ELSE segment.text
    IN [segment EXCEPT
          !.start = Field(segment, edit, "start"),
          !.end = Field(segment, edit, "end"),
          !.speaker = Field(segment, edit, "speaker"),
          !.text = text,
          !.words = IF Said(text) # Said(segment.text) THEN Redistributed(text) ELSE @]

ApplyEdits(segments, edits) ==
    [i \in DOMAIN segments |->
        IF i \in DOMAIN edits THEN AfterEdit(segments[i], edits[i]) ELSE segments[i]]
=============================================================================

---------------------------- MODULE GuidedEditorMC ----------------------------
(***************************************************************************)
(* A small instance of GuidedEditor for TLC: two transcriptions, one of    *)
(* two subtitles and one of one, and samples of subtitles to repair.       *)
(***************************************************************************)
EXTENDS GuidedEditor, TLC

CONSTANTS j1, j2

Subtitle(j, text, start, end) ==
    [video |-> j, text |-> text, start |-> start, end |-> end, speaker |-> "s1", words |-> "real"]

Long == << <<20, 20, 20>> >>
Short == << <<9>> >>
ShortWithBlank == << <<9>>, <<0>> >>

TwoVideos ==
    j1 :> <<Subtitle(j1, Long, 0, 4000), Subtitle(j1, Short, 4050, 5000)>> @@
    j2 :> <<Subtitle(j2, Short, 0, 1000)>>

(* A value that is refused, one that is not, and the way back to both. *)
SomeTyped == {<<1, "text", ShortWithBlank>>, <<1, "text", Short>>, <<1, "text", Long>>,
              <<1, "end", 3000>>, <<1, "end", 0>>}
SomeNames == {<<"s1", "Ana">>}
(* Others shorten the first subtitle from its start, which may leave it no time. *)
OneEdit == {1 :> ("start" :> 3500)}
TwoNorms == {Netflix, Accessible}
OneNorm == Netflix

Texts == {Short, Long, << <<5>>, <<5>>, <<5>> >>, << <<45>> >>, << <<30, 8>>, <<0>> >>}
Pairs == {<<Subtitle(j1, t, 0, e), Subtitle(j1, u, b, b + d)>> :
            t \in Texts, u \in Texts, e \in {0, 300, 1000, 9000}, b \in {250, 1040, 4000}, d \in {0, 400}}
Triples == {<<Subtitle(j1, t, 0, e), Subtitle(j1, u, b, b + 400), Subtitle(j1, v, c, c + 400)>> :
            t \in Texts, u \in Texts, v \in {Short, Long}, e \in {300, 1000}, b \in {1020, 2000}, c \in {2450, 4000}}
Repairs == Pairs \cup Triples
=============================================================================

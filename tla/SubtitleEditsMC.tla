--------------------------- MODULE SubtitleEditsMC ---------------------------
(***************************************************************************)
(* Small instances of KeyedMutex and SubtitleEdits for TLC.                *)
(***************************************************************************)
EXTENDS SubtitleEdits, TLC

CONSTANTS e1, e2, e3

TwoSlots == {0, 1}
(* No ETag, or the one of one version: fresh or stale, as the edits before leave it. *)
SomeEtags == {NoEtag, [i \in TwoSlots |-> "b"]}
(* Two requests for different subtitles, one for a subtitle that does not exist. *)
OneMisses == e1 :> (0 :> "a") @@ e2 :> (1 :> "a") @@ e3 :> (2 :> "b")
=============================================================================

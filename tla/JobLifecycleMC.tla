--------------------------- MODULE JobLifecycleMC ---------------------------
(***************************************************************************)
(* Small instances of JobLifecycle for TLC.                                *)
(***************************************************************************)
EXTENDS JobLifecycle, TLC

CONSTANTS w1, w2

OneWorker == {w1}
TwoWorkers == {w1, w2}
OneJob == {1}
TwoJobs == {1, 2}
Transcription == [j \in OneJob |-> "TRANSCRIBE"]
BurnAndDub == 1 :> "BURN" @@ 2 :> "DUB"

(* The workers are interchangeable. *)
WorkerSymmetry == Permutations(TwoWorkers)
=============================================================================

---------------------------- MODULE JobClosingMC ----------------------------
(***************************************************************************)
(* A small instance of JobClosing for TLC.                                 *)
(***************************************************************************)
EXTENDS JobClosing

CONSTANT w1

OneWorker == {w1}
OneJob == {1}
Transcription == [j \in OneJob |-> "TRANSCRIBE"]
=============================================================================

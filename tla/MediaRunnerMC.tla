---------------------------- MODULE MediaRunnerMC ---------------------------
(***************************************************************************)
(* One worker and two jobs: a transcription with everything, then what     *)
(* follows; or a translation and a dub with a key that is replaced between *)
(* two calls, and a name that moves into the local network.                *)
(***************************************************************************)
EXTENDS MediaRunner

CONSTANTS k1, k2, u1, u2

MCCredentials ==
    {[key |-> k1, url |-> u1], [key |-> k2, url |-> u2], [key |-> k2, url |-> NoUrl]}

MCWorks ==
    {[Idle EXCEPT !.kind = "transcribe", !.clean = TRUE, !.diarize = TRUE, !.into = TRUE],
     [Idle EXCEPT !.kind = "burn"],
     [Idle EXCEPT !.kind = "translate", !.external = TRUE, !.pieces = 2],
     [Idle EXCEPT !.kind = "translate", !.pieces = 2],
     [Idle EXCEPT !.kind = "translate", !.external = TRUE],
     [Idle EXCEPT !.kind = "dub", !.external = TRUE, !.mix = TRUE, !.pieces = 2]}
=============================================================================

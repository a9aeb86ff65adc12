----------------------------- MODULE TrackerMC ------------------------------
(***************************************************************************)
(* A page, whose connections come from one address, and a gateway with     *)
(* room for one stream of each address: a connection hung up and not seen  *)
(* yet keeps the next one out.  One of the two jobs is gone.               *)
(***************************************************************************)
EXTENDS Tracker, TLC

CONSTANTS c1, c2, j1, j2

MCKey == c1 :> "page" @@ c2 :> "page"
MCStarts == {j1 :> "QUEUED" @@ j2 :> "GONE"}
=============================================================================

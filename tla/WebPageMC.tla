----------------------------- MODULE WebPageMC ------------------------------
(***************************************************************************)
(* A page with one file in its queue and another to choose, one short, one *)
(* too long to be vertical, and one more upload of the tenant; one job at  *)
(* a time, two uploads an hour.                                            *)
(***************************************************************************)
EXTENDS WebPage

CONSTANTS f1, f2

MCMedia ==
    f1 :> [audio |-> FALSE, portrait |-> FALSE, seconds |-> 60]
        @@ f2 :> [audio |-> FALSE, portrait |-> TRUE, seconds |-> 900]
MCChosen == <<f1>>
=============================================================================
